---- MODULE MCFrameStore ----
(* Small instances of FrameStore for TLC. *)
EXTENDS FrameStore, TLC
CONSTANTS s1, s2, n1
=============================
