------------------------------- MODULE I2CBus -------------------------------
(***************************************************************************)
(* The bit-banged I2C bus between the Raspberry Pi and the OV5642 sensor.  *)
(* The master is RPi4I2C as the camera driver calls it to write and read   *)
(* one sensor register (wrSensorReg16_8, rdSensorReg16_8).  A call unrolls *)
(* into pin operations: "sda0" .. "scl1" set an output latch, "in" and     *)
(* "out" switch the direction of SDA, "sample" reads SDA, and "wait" is a  *)
(* delay_us, long enough for the sensor to answer the last clock edge.     *)
(* The sensor is external: it follows the I2C protocol, may refuse any     *)
(* byte, and answers a falling clock edge at any time before the next      *)
(* delay is over, so that its answer meets pin operations between which    *)
(* the code does not wait.                                                 *)
(***************************************************************************)
EXTENDS Integers, Sequences

CONSTANTS
  Regs,       (* 16-bit register numbers of the sensor             *)
  Vals,       (* 8-bit values                                      *)
  SensorAddr, (* the sensor's 8-bit write address (sensorAddress)  *)
  NoCall

Calls == [op : {"write", "read"}, reg : Regs, val : Vals]

ASSUME I2CBusAssumption ==
  /\ \A r \in Regs : r \in Nat /\ r < 65536
  /\ \A v \in Vals : v \in Nat /\ v < 256
  /\ SensorAddr \in 0..255 /\ SensorAddr % 2 = 0
  /\ NoCall \notin Calls

VARIABLES
  scl, sda,   (* output latches of the two pins                           *)
  mode,       (* direction of the SDA pin                                 *)
  todo,       (* pin operations left in the driver functions being run    *)
  stage,      (* which byte of the call is being transferred              *)
  call,       (* the call in progress, or NoCall                          *)
  ack,        (* return value of write(): 1 if the sensor acknowledged    *)
  data,       (* the byte that read() assembles                           *)
  out, ret,   (* *regDat, and the return value of the last call           *)
  dev,        (* the sensor's side of the bus                             *)
  file,       (* the sensor's registers                                   *)
  took        (* history: the call has taken effect                       *)

master == <<scl, sda, mode, todo, ack, data>>
caller == <<stage, call, out, ret, took>>
vars == <<master, caller, dev, file>>

(* Bit i of a byte, the most significant first.                            *)
Weights   == <<128, 64, 32, 16, 8, 4, 2, 1>>
Bit(b, i) == (b \div Weights[i + 1]) % 2
-----------------------------------------------------------------------------
(* The driver functions as pin operations. *)

start == <<"sda1", "wait", "scl1", "wait", "sda0", "wait", "scl0", "wait">>
stop  == <<"sda0", "wait", "scl1", "wait", "sda1", "wait">>

sendNACK ==
  <<"sda1", "wait", "scl1", "wait", "scl0", "wait", "sda0", "wait">>

(* A loop over the bits of a byte, with n operations for each of them.     *)
ForEachBit(n, ops(_)) == [k \in 1..(8 * n) |-> ops((k - 1) \div n)[((k - 1) % n) + 1]]

writeKeepingTheLine(b) ==
  ForEachBit(5, LAMBDA i :
    <<IF Bit(b, i) = 1 THEN "sda1" ELSE "sda0", "wait", "scl1", "wait", "scl0">>)
  \o <<"wait", "scl1", "wait", "ack", "scl0", "wait">>

writeOnHighClock(b) ==
  ForEachBit(4, LAMBDA i : <<IF Bit(b, i) = 1 THEN "sda1" ELSE "sda0", "wait", "scl1", "wait">>)
  \o <<"scl0", "in", "wait", "scl1", "wait", "ack", "scl0", "wait", "out">>

write(b) ==
  ForEachBit(5, LAMBDA i :
    <<IF Bit(b, i) = 1 THEN "sda1" ELSE "sda0", "wait", "scl1", "wait", "scl0">>)
  \o <<"in", "wait", "scl1", "wait", "ack", "scl0", "wait", "out">>

read ==
  <<"in">>
  \o ForEachBit(6, LAMBDA i : <<"wait", "scl1", "wait", "sample", "scl0", "wait">>)
  \o <<"out">>
-----------------------------------------------------------------------------
(* The wire and the sensor. *)

(* SDA is high unless the master drives it low or the sensor pulls it low. *)
Level(m, latch, pull) == IF (m = "out" /\ latch = 0) \/ pull THEN 0 ELSE 1
Line == Level(mode, sda, dev.pull)

(* The sensor follows the lines: a start or a stop condition, or an edge.  *)
Observe(d, scl0, line0, scl1, line1) ==
  CASE scl0 = 1 /\ scl1 = 1 /\ line0 = 1 /\ line1 = 0 ->
         [d EXCEPT !.phase = "address", !.bits = 0, !.shift = 0, !.pull = FALSE]
    [] scl0 = 1 /\ scl1 = 1 /\ line0 = 0 /\ line1 = 1 ->
         [d EXCEPT !.phase = "off", !.pull = FALSE]
    [] scl0 = 0 /\ scl1 = 1 ->
         [d EXCEPT !.bits = @ + 1,
                   !.shift = IF d.bits < 8 THEN (2 * @ + line1) % 256 ELSE @,
                   !.nack = (d.bits = 8 /\ line1 = 1)]
    [] scl0 = 1 /\ scl1 = 0 -> [d EXCEPT !.due = TRUE]
    [] OTHER -> d

AfterAck(d) ==
  IF d.phase = "address" /\ d.shift % 2 = 1 THEN "send"
  ELSE [address |-> "high", high |-> "low", low |-> "value", value |-> "value"][d.phase]

Receiving == {"address", "high", "low", "value"}

Refuse(d) == [d EXCEPT !.phase = "off", !.pull = FALSE]
Accept(d) ==
  [d EXCEPT !.pull = TRUE,
            !.reg = IF d.phase = "high" THEN 256 * d.shift
                    ELSE IF d.phase = "low" THEN @ + d.shift ELSE @]
Verdicts(d) ==
  {Refuse(d)} \cup
  (IF d.phase = "address" /\ d.shift \div 2 # SensorAddr \div 2 THEN {} ELSE {Accept(d)})
PullFor(d, i) == [d EXCEPT !.pull = (Bit(file[d.reg], i) = 0)]

(* The answer to a falling edge: acknowledge or refuse after eight bits,   *)
(* release SDA after the ninth, put the next bit on SDA when sending.      *)
Answer(d) ==
  CASE d.phase \in Receiving /\ d.bits = 8 -> Verdicts(d)
    [] d.phase \in Receiving /\ d.bits = 9 ->
         LET next == [d EXCEPT !.phase = AfterAck(d), !.bits = 0, !.pull = FALSE]
         IN  {IF next.phase = "send" THEN PullFor(next, 0) ELSE next}
    [] d.phase = "send" /\ d.bits < 8 -> {PullFor(d, d.bits)}
    [] d.phase = "send" /\ d.bits = 8 -> {[d EXCEPT !.pull = FALSE]}
    [] d.phase = "send" /\ d.bits = 9 -> {IF d.nack THEN Refuse(d) ELSE d}
    [] OTHER -> {d}

SensorAnswers ==
  /\ dev.due
  /\ \E d \in Answer([dev EXCEPT !.due = FALSE]) :
       /\ dev' = d
       /\ LET commits == dev.phase = "value" /\ dev.bits = 8 /\ d.pull /\ d.reg \in Regs
          IN  /\ file' = IF commits THEN [file EXCEPT ![d.reg] = d.shift] ELSE file
              /\ took' = (took \/ commits)
  /\ UNCHANGED <<master, stage, call, out, ret>>
-----------------------------------------------------------------------------
(* The master. *)

(* One pin operation, seen by the sensor at once.                          *)
PinOp(op) ==
  /\ CASE op \in {"sda0", "sda1"} ->
            sda' = (IF op = "sda1" THEN 1 ELSE 0) /\ UNCHANGED <<scl, mode, ack, data>>
       [] op \in {"scl0", "scl1"} ->
            scl' = (IF op = "scl1" THEN 1 ELSE 0) /\ UNCHANGED <<sda, mode, ack, data>>
       [] op \in {"in", "out"} -> mode' = op /\ UNCHANGED <<scl, sda, ack, data>>
       [] op = "ack" -> ack' = 1 - Line /\ UNCHANGED <<scl, sda, mode, data>>
       [] op = "sample" -> data' = (2 * data + Line) % 256 /\ UNCHANGED <<scl, sda, mode, ack>>
       [] op = "wait" -> ~dev.due /\ UNCHANGED <<scl, sda, mode, ack, data>>
  /\ dev' = Observe(dev, scl, Line, scl', Level(mode', sda', dev.pull))

Pin ==
  /\ todo # <<>>
  /\ PinOp(Head(todo))
  /\ todo' = Tail(todo)
  /\ UNCHANGED <<caller, file>>

(* The caller runs the next driver functions, and sets data for read().    *)
Run(ops, next) ==
  /\ todo' = ops /\ stage' = next
  /\ data' = 0
  /\ UNCHANGED <<scl, sda, mode, ack, call, ret, dev, file>>

Begin ==
  /\ stage = "idle"
  /\ \E c \in Calls : call' = c
  /\ todo' = start \o write(SensorAddr) /\ stage' = "address"
  /\ took' = FALSE
  /\ UNCHANGED <<scl, sda, mode, ack, data, out, ret, dev, file>>

WrittenLowByteFirst ==
  /\ todo = <<>> /\ stage \in {"address", "high", "low", "value", "again"}
  /\ \/ ack = 0 /\ Run(stop, "failed")
     \/ /\ ack = 1
        /\ \/ stage = "address" /\ Run(write(call.reg % 256), "high")
           \/ stage = "high" /\ Run(write(call.reg \div 256), "low")
           \/ stage = "low" /\ call.op = "write" /\ Run(write(call.val), "value")
           \/ /\ stage = "low" /\ call.op = "read"
              /\ Run(stop \o start \o write(SensorAddr + 1), "again")
           \/ stage = "value" /\ Run(stop, "done")
           \/ stage = "again" /\ Run(read, "read")
  /\ UNCHANGED <<out, took>>

WrittenWithoutStop ==
  /\ todo = <<>> /\ stage \in {"address", "high", "low", "value", "again"}
  /\ \/ ack = 0 /\ Run(<<>>, "failed")
     \/ /\ ack = 1
        /\ \/ stage = "address" /\ Run(write(call.reg \div 256), "high")
           \/ stage = "high" /\ Run(write(call.reg % 256), "low")
           \/ stage = "low" /\ call.op = "write" /\ Run(write(call.val), "value")
           \/ /\ stage = "low" /\ call.op = "read"
              /\ Run(stop \o start \o write(SensorAddr + 1), "again")
           \/ stage = "value" /\ Run(stop, "done")
           \/ stage = "again" /\ Run(read, "read")
  /\ UNCHANGED <<out, took>>

(* write() returned: stop on a refusal, else the next byte.                *)
Written ==
  /\ todo = <<>> /\ stage \in {"address", "high", "low", "value", "again"}
  /\ \/ ack = 0 /\ Run(stop, "failed")
     \/ /\ ack = 1
        /\ \/ stage = "address" /\ Run(write(call.reg \div 256), "high")
           \/ stage = "high" /\ Run(write(call.reg % 256), "low")
           \/ stage = "low" /\ call.op = "write" /\ Run(write(call.val), "value")
           \/ /\ stage = "low" /\ call.op = "read"
              /\ Run(stop \o start \o write(SensorAddr + 1), "again")
           \/ stage = "value" /\ Run(stop, "done")
           \/ stage = "again" /\ Run(read, "read")
  /\ UNCHANGED <<out, took>>

Fetched ==
  /\ todo = <<>> /\ stage = "read"
  /\ out' = data /\ took' = TRUE
  /\ Run(sendNACK \o stop, "done")

Return ==
  /\ todo = <<>> /\ stage \in {"done", "failed"}
  /\ ret' = (stage = "done")
  /\ call' = NoCall /\ stage' = "idle"
  /\ UNCHANGED <<master, out, took, dev, file>>

(* init() leaves both lines high; the registers hold anything.             *)
Init ==
  /\ scl = 1 /\ sda = 1 /\ mode = "out" /\ todo = <<>>
  /\ stage = "idle" /\ call = NoCall /\ ack = 0 /\ data = 0
  /\ out \in Vals /\ ret = TRUE /\ took = FALSE
  /\ dev = [phase |-> "off", bits |-> 0, shift |-> 0, pull |-> FALSE,
            due |-> FALSE, nack |-> FALSE, reg |-> 0]
  /\ file \in [Regs -> Vals]

Next == Begin \/ Pin \/ Written \/ Fetched \/ Return \/ SensorAnswers

Spec == Init /\ [][Next]_vars
-----------------------------------------------------------------------------
(* Properties *)

(* The master may drive SDA high against the sensor, since it changes the  *)
(* direction of the pin without waiting, but never while the clock is high *)
(* and the level of SDA counts.                                            *)
ContentionOnlyWhileLow ==
  (mode = "out" /\ sda = 1 /\ dev.pull) => scl = 0

(* SDA moves under a high clock, which the sensor takes for a start or a   *)
(* stop condition, only on a free bus or before the second bit of a byte:  *)
(* no pin operation of write(), read() or sendNACK() cuts a byte short.    *)
NoByteCutShort ==
  [][(scl = 1 /\ scl' = 1 /\ Line' # Line) => dev.phase = "off" \/ dev.bits <= 1]_vars

(* Between two calls, also after a refused byte, the bus is free: both     *)
(* lines are high and the sensor waits for a start condition.              *)
FreeBetweenCalls ==
  stage = "idle" => scl = 1 /\ Line = 1 /\ dev.phase = "off" /\ ~dev.pull

(* The calls implement the port to the sensor's registers.                 *)
Port == INSTANCE SensorPort
RegisterPort == Port!Spec
=============================================================================
