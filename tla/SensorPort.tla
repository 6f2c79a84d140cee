----------------------------- MODULE SensorPort -----------------------------
(***************************************************************************)
(* What wrSensorReg16_8 and rdSensorReg16_8 promise the camera driver: a   *)
(* port to the sensor's registers.  A call takes effect once, between its  *)
(* invocation and its return, and the return value tells whether it did.   *)
(***************************************************************************)
CONSTANTS
  Calls,  (* records [op, reg, val], op being "write" or "read" *)
  NoCall

VARIABLES
  file,   (* the sensor's registers                              *)
  out,    (* the caller's variable that a read writes to         *)
  call,   (* the call in progress, or NoCall                     *)
  took,   (* the call has taken effect                           *)
  ret     (* the value the last call returned: TRUE for 1        *)

vars == <<file, out, call, took, ret>>

Init ==
  /\ call = NoCall /\ took = FALSE /\ ret = TRUE

Invoke(c) ==
  /\ call = NoCall /\ call' = c
  /\ took' = FALSE
  /\ UNCHANGED <<file, out, ret>>

Write ==
  /\ call # NoCall /\ call.op = "write" /\ ~took
  /\ file' = [file EXCEPT ![call.reg] = call.val]
  /\ took' = TRUE
  /\ UNCHANGED <<out, call, ret>>

Read ==
  /\ call # NoCall /\ call.op = "read" /\ ~took
  /\ out' = file[call.reg]
  /\ took' = TRUE
  /\ UNCHANGED <<file, call, ret>>

Return ==
  /\ call # NoCall /\ call' = NoCall
  /\ ret' = took
  /\ UNCHANGED <<file, out, took>>

Next == Write \/ Read \/ Return \/ \E c \in Calls : Invoke(c)

Spec == Init /\ [][Next]_vars
=============================================================================
