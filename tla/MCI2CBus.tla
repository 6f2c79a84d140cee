---- MODULE MCI2CBus ----
(* Two registers that differ in both bytes, and values that end in 0 and 1. *)
EXTENDS I2CBus
MCRegs == {12298, 22077}
MCVals == {90, 165}
=========================
