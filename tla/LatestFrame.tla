---------------------------- MODULE LatestFrame ----------------------------
(***************************************************************************)
(* What one entry of global.in[] promises to the output plugins: it is a   *)
(* register of the latest picture.  The input plugin replaces the picture, *)
(* never by an older one, and a client that takes a picture takes the      *)
(* latest one, whole.  Once the input has given up its buffer nothing is   *)
(* promised any more: a client may find whatever is left.                  *)
(***************************************************************************)
EXTENDS Integers

CONSTANTS
  Clients,   (* the threads of the output plugins that read this input    *)
  Leftover,  (* what may be found in place of a picture after the closing *)
  None       (* a client holds no picture                                 *)

VARIABLES
  latest,    (* the picture in the register                      *)
  held,      (* the picture each client has taken, or None       *)
  open       (* the input still owns its buffer                  *)

vars == <<latest, held, open>>

(* frame says which captured image the bytes are, size which image the     *)
(* length belongs to, stamp is the timestamp published with them.          *)
Picture == [frame : Nat, size : Nat, stamp : Nat]

Init ==
  /\ latest = [frame |-> 0, size |-> 0, stamp |-> 0]
  /\ held = [c \in Clients |-> None]
  /\ open = TRUE

Publish ==
  /\ open
  /\ latest' \in Picture
  /\ latest'.size = latest'.frame
  /\ latest'.frame >= latest.frame
  /\ latest'.stamp >= latest.stamp
  /\ UNCHANGED <<held, open>>

Take(c) ==
  /\ held[c] = None
  /\ \/ open /\ held' = [held EXCEPT ![c] = latest]
     \/ ~open /\ \E p \in Leftover : held' = [held EXCEPT ![c] = p]
  /\ UNCHANGED <<latest, open>>

Release(c) ==
  /\ held' = [held EXCEPT ![c] = None]
  /\ UNCHANGED <<latest, open>>

Close ==
  /\ open' = FALSE
  /\ UNCHANGED <<latest, held>>

Next ==
  \/ Publish
  \/ Close
  \/ \E c \in Clients : Take(c) \/ Release(c)

Spec == Init /\ [][Next]_vars
============================================================================
