---------------------------- MODULE PictureRelay ----------------------------
(***************************************************************************)
(* What the HTTP input plugin promises: on each connection it passes on    *)
(* what the server sends, in order, with nothing left out, repeated or     *)
(* mixed.  The first thing it passes on is not a picture but the text of   *)
(* the server's reply.  A picture that is too large ends the relaying for  *)
(* as long as the connection lasts.                                        *)
(***************************************************************************)
EXTENDS Naturals, Sequences

CONSTANTS
  Text,      (* the part of the reply that is taken for a picture *)
  Fits(_)    (* the picture fits in the plugin's buffer           *)

VARIABLES
  sent,      (* the pictures the server has sent on this connection *)
  passed     (* what has been published of this connection          *)

vars == <<sent, passed>>

Init == sent = <<>> /\ passed = <<>>

Connect == sent' = <<>> /\ passed' = <<>>

Send ==
  /\ Len(sent') = Len(sent) + 1
  /\ SubSeq(sent', 1, Len(sent)) = sent
  /\ UNCHANGED passed

Due == <<Text>> \o sent

Pass ==
  /\ Len(passed) < Len(Due)
  /\ \A i \in 1..Len(passed) : Fits(sent[i])
  /\ passed' = Append(passed, Due[Len(passed) + 1])
  /\ UNCHANGED sent

Next == Connect \/ Send \/ Pass

Spec == Init /\ [][Next]_vars
=============================================================================
