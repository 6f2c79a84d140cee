----------------------------- MODULE MCHttpServer -----------------------------
EXTENDS HttpServer

Ask(kind, input, target, authorized) ==
  [kind |-> kind, input |-> input, target |-> target, authorized |-> authorized]

CONSTANTS p1, p2

(* Each kind of request, with each of its ways to fail. *)
AnyRequest ==
  {Ask(kind, TRUE, "found", TRUE) : kind \in Kinds}
    \cup {Ask("snapshot", FALSE, "found", TRUE), Ask("take", TRUE, "found", FALSE),
          Ask("command", TRUE, "missing", TRUE), Ask("command", TRUE, "uncallable", TRUE),
          Ask("file", TRUE, "missing", TRUE), Ask("cgi", TRUE, "missing", TRUE)}
Snapshot == {Ask("snapshot", TRUE, "found", TRUE)}

(* One client asks for anything, the others compete with it. *)
MCRequests == [p \in Peers |-> IF p = p1 THEN AnyRequest ELSE Snapshot]

(* Two ways to start the program that differ in every option. *)
MCOptions ==
  {[credentials |-> b, nocommands |-> ~b, www |-> b, file |-> b] : b \in BOOLEAN}
===============================================================================
