---------------------------- MODULE CameraDriver ----------------------------
(***************************************************************************)
(* The camera driver (class Camera) talking to the ArduCAM shield over SPI:*)
(* init(), singleCapture() and resetFirmware().  The shield is external.   *)
(* It decodes the bytes that it receives while its chip select is low: the *)
(* first after a falling edge is a command, and only a rising edge ends    *)
(* it.  A call unrolls into bus operations, cut where the code tests what  *)
(* it received.  Nothing in the code puts the chip select or the shield in *)
(* a known state before the first transfer, so a run of the program that   *)
(* was killed in the middle of a transfer leaves both to the next one.     *)
(*                                                                         *)
(* A byte of a picture is 10 * n + i for byte i of the n-th picture, and a *)
(* digit of the FIFO's length is a bit instead of a byte.                  *)
(***************************************************************************)
EXTENDS Integers, Sequences

CONSTANTS
  Lengths,   (* lengths of pictures, at most 7: three digits  *)
  MaxPicture (* bound: number of exposures                    *)

ASSUME CameraDriverAssumption == Lengths \subseteq 0..7 /\ MaxPicture \in Nat \ {0}

VARIABLES
  at,        (* where the driver is                                         *)
  todo,      (* the bus operations it does next                             *)
  cs,        (* level of the chip select                                    *)
  rx,        (* the byte that the last transfer returned                    *)
  left,      (* registers that readFIFOLength has still to read             *)
  currentLength, readBuffer, count,
  chip,      (* the shield                                                  *)
  exposures, (* number of pictures exposed so far                           *)
  since,     (* history: that number when singleCapture was called          *)
  stray,     (* history: the last byte of the transfer under way was not    *)
             (* taken for what it was sent as                               *)
  raised     (* history: the driver has raised the chip select              *)

driver == <<left, currentLength, readBuffer, count, since>>
world  == <<chip, exposures, stray, raised>>
vars == <<at, todo, cs, rx, driver, world>>

None == <<"none", "">>
Junk == 99
OK   == 85   (* 0x55 *)
CLEAR == 1
START == 2
VSYNC == 2
CAP_DONE == 8
SIZE == <<"SIZE1", "SIZE2", "SIZE3">>

High == <<"high", 0>>
Low  == <<"low", 0>>
W(reg) == <<"W", reg>>
R(reg) == <<"R", reg>>
D(value) == <<"D", value>>
Burst == <<"B", "">>

busWriteSelected(reg, value) == <<Low, W(reg), D(value)>>

busWrite(reg, value) == <<Low, W(reg), D(value), High>>

busReadSelected(reg) == <<Low, R(reg), D(0)>>

busRead(reg) == <<Low, R(reg), D(0), High>>
-----------------------------------------------------------------------------
(* The shield. *)

(* 0x80 is the command byte that writes TEST1, the first byte init() sends. *)
Value(byte) == IF byte[1] = "D" THEN byte[2] ELSE 128

Digit(k) == (chip.length \div 2^(k - 1)) % 2

Store(c, reg, v) ==
  CASE reg = "TEST1" -> [c EXCEPT !.test = v]
    [] reg = "TIM" -> [c EXCEPT !.tim = v]
    [] reg = "FIFO" /\ v = CLEAR ->
         [c EXCEPT !.done = FALSE, !.exposing = FALSE, !.length = 0, !.read = 0]
    [] reg = "FIFO" /\ v = START -> [c EXCEPT !.exposing = TRUE]
    [] reg = "RESET" /\ v = 128 ->
         [c EXCEPT !.done = FALSE, !.exposing = FALSE, !.length = 0, !.read = 0]
    [] OTHER -> c

Reply(reg) ==
  CASE reg = "TEST1" -> chip.test
    [] reg = "TIM" -> chip.tim
    [] reg = "TRIG" -> IF chip.done THEN CAP_DONE ELSE 0
    [] OTHER -> Digit(CHOOSE k \in 1..3 : SIZE[k] = reg)

(* A byte is transferred. *)
Transfer(byte) ==
  /\ UNCHANGED <<cs, exposures, raised>>
  /\ stray' = (cs = 1 \/ (chip.cmd = None) = (byte[1] = "D"))
  /\ \/ cs = 1 /\ rx' = Junk /\ UNCHANGED chip
     \/ /\ cs = 0 /\ chip.cmd = None
        /\ rx' = Junk /\ chip' = [chip EXCEPT !.cmd = byte]
     \/ /\ cs = 0 /\ chip.cmd[1] = "W"
        /\ rx' = Junk
        /\ chip' = [Store(chip, chip.cmd[2], Value(byte)) EXCEPT !.cmd = <<"over", "">>]
     \/ /\ cs = 0 /\ chip.cmd[1] = "R"
        /\ rx' = Reply(chip.cmd[2]) /\ chip' = [chip EXCEPT !.cmd = <<"over", "">>]
     \/ /\ cs = 0 /\ chip.cmd = Burst
        /\ IF chip.read < chip.length
           THEN /\ rx' = 10 * chip.shot + chip.read + 1
                /\ chip' = [chip EXCEPT !.read = @ + 1]
           ELSE rx' = Junk /\ UNCHANGED chip
     \/ /\ cs = 0 /\ chip.cmd[1] \in {"over", "D"}
        /\ rx' = Junk /\ UNCHANGED chip

Select(level) ==
  /\ cs' = level
  /\ chip' = IF cs = 1 /\ level = 0 THEN [chip EXCEPT !.cmd = None] ELSE chip
  /\ stray' = FALSE
  /\ raised' = IF level = 1 THEN TRUE ELSE raised
  /\ UNCHANGED <<rx, exposures>>

Do(op) ==
  \/ op = High /\ Select(1)
  \/ op = Low /\ Select(0)
  \/ op \notin {High, Low} /\ Transfer(op)

(* The picture that was asked for is in the FIFO. *)
Expose ==
  /\ chip.exposing /\ exposures < MaxPicture
  /\ exposures' = exposures + 1
  /\ \E n \in Lengths :
       chip' = [chip EXCEPT !.exposing = FALSE, !.done = TRUE, !.read = 0,
                            !.shot = exposures', !.length = n]
  /\ UNCHANGED <<at, todo, cs, rx, driver, stray, raised>>
-----------------------------------------------------------------------------
(* The driver. *)

Bus ==
  /\ todo # <<>>
  /\ Do(Head(todo)) /\ todo' = Tail(todo)
  /\ UNCHANGED <<at, driver>>

(* From here the driver does ops and then is there. *)
Goto(here, ops, there) ==
  /\ at = here /\ todo = <<>>
  /\ at' = there /\ todo' = ops
  /\ UNCHANGED <<cs, rx, world>>

(* spiDriver.init(csPin, 0, 0) divides by zero: that traps or it does not. *)
SpiInit ==
  /\ \/ Goto("off", <<>>, "test") \/ Goto("off", <<>>, "crashed")
  /\ UNCHANGED driver

Test ==
  /\ Goto("test", busWrite("TEST1", OK) \o busRead("TEST1"), "tested")
  /\ UNCHANGED driver

Tested ==
  /\ \/ rx = OK /\ Goto("tested", <<>>, "identify")
     \/ rx # OK /\ Goto("tested", <<>>, "test")
  /\ UNCHANGED driver

(* The sensor has given both bytes of its chip id; its settings follow.    *)
Identify == Goto("identify", <<>>, "ready") /\ UNCHANGED driver

singleCaptureUnflushed ==
  /\ Goto("ready", busWrite("FIFO", START), "poll")
  /\ since' = exposures
  /\ UNCHANGED <<left, currentLength, readBuffer, count>>

singleCaptureFlushedLate ==
  /\ Goto("ready", busWrite("FIFO", START) \o busWrite("FIFO", CLEAR), "poll")
  /\ since' = exposures
  /\ UNCHANGED <<left, currentLength, readBuffer, count>>

singleCapture ==
  /\ Goto("ready", busWrite("FIFO", CLEAR) \o busWrite("FIFO", START), "poll")
  /\ since' = exposures
  /\ UNCHANGED <<left, currentLength, readBuffer, count>>

Poll == Goto("poll", busRead("TRIG"), "polled") /\ UNCHANGED driver

Has(byte, bit) == (byte \div bit) % 2 = 1

(* getBit(ARDUCHIP_TRIG, CAP_DONE_MASK) *)
Polled ==
  \/ ~Has(rx, CAP_DONE) /\ Goto("polled", <<>>, "poll") /\ UNCHANGED driver
  \/ /\ Has(rx, CAP_DONE) /\ Goto("polled", <<>>, "length")
     /\ left' = {1, 2, 3} /\ currentLength' = 0
     /\ UNCHANGED <<readBuffer, count, since>>

(* The three registers are read in an order left to the compiler.          *)
readFIFOLength ==
  /\ \E k \in left : Goto("length", busRead(SIZE[k]), SIZE[k]) /\ left' = left \ {k}
  /\ UNCHANGED <<currentLength, readBuffer, count, since>>

LengthShifted ==
  /\ \E k \in 1..3 :
       /\ Goto(SIZE[k], <<>>, "length")
       /\ currentLength' = currentLength + rx * 2^k
  /\ UNCHANGED <<left, readBuffer, count, since>>

Length ==
  /\ \E k \in 1..3 :
       /\ Goto(SIZE[k], <<>>, "length")
       /\ currentLength' = currentLength + rx * 2^(k - 1)
  /\ UNCHANGED <<left, readBuffer, count, since>>

setFIFOBurst ==
  /\ left = {}
  /\ Goto("length", <<Low, Burst>>, "drain")
  /\ count' = currentLength
  /\ UNCHANGED <<left, currentLength, readBuffer, since>>

Drain ==
  /\ at = "drain" /\ todo = <<>> /\ count > 0
  /\ Transfer(D(0)) /\ count' = count - 1
  /\ readBuffer' = [readBuffer EXCEPT ![currentLength - count + 1] = rx']
  /\ UNCHANGED <<at, todo, left, currentLength, since>>

Drained ==
  /\ count = 0 /\ Goto("drain", <<High>>, "captured")
  /\ UNCHANGED driver

Return ==
  /\ Goto("captured", <<>>, "ready") /\ UNCHANGED driver

resetFirmware ==
  /\ Goto("ready", busWrite("RESET", 128) \o busWrite("RESET", 0)
                     \o busWrite("FRAMES", 0) \o busRead("TIM"), "setbit")
  /\ UNCHANGED driver

SetBit ==
  /\ Goto("setbit", busWrite("TIM", IF Has(rx, VSYNC) THEN rx ELSE rx + VSYNC),
          "ready")
  /\ UNCHANGED driver
-----------------------------------------------------------------------------
Init ==
  /\ at = "off" /\ todo = <<>> /\ cs \in 0..1 /\ rx = Junk
  /\ left = {} /\ currentLength = 0 /\ count = 0
  /\ readBuffer = [i \in 1..7 |-> 0]
  /\ exposures = 1 /\ since = 0 /\ stray = FALSE /\ raised = FALSE
  /\ chip \in [cmd : {None, W("FIFO"), W("TEST1"), R("TRIG"), Burst},
               test : {0, OK}, tim : {0, 1}, done : BOOLEAN, exposing : BOOLEAN,
               shot : {1}, length : Lengths, read : {0}]

Steps ==
  \/ Test \/ Tested
  \/ Poll \/ Polled \/ readFIFOLength \/ Length \/ setFIFOBurst
  \/ Drain \/ Drained \/ Return \/ SetBit

Next ==
  \/ Bus \/ Steps \/ Expose
  \/ SpiInit \/ Identify \/ singleCapture \/ resetFirmware

Spec == Init /\ [][Next]_vars

(* The driver goes on, and the shield exposes a picture it was asked for.   *)
Fairness == WF_vars(Bus \/ Steps) /\ WF_vars(Expose)

FairSpec == Spec /\ Fairness
-----------------------------------------------------------------------------
(* Properties *)

(* The three digits make up a length in range, and readBuffer is written   *)
(* within that length.                                                     *)
TypeOK ==
  /\ cs \in 0..1 /\ left \subseteq 1..3 /\ stray \in BOOLEAN /\ raised \in BOOLEAN
  /\ currentLength \in 0..7 /\ count \in 0..currentLength
  /\ exposures \in 1..MaxPicture /\ since \in 0..MaxPicture
  /\ chip.shot \in 1..MaxPicture /\ chip.length \in Lengths \cup {0}
  /\ chip.read \in 0..chip.length

(* When singleCapture returns, readBuffer holds one picture, exposed after  *)
(* the call, from its first byte to its last, whatever earlier captures     *)
(* and earlier runs left in the FIFO and in its flags.                      *)
FreshCapture ==
  at = "captured" =>
    /\ chip.shot > since /\ currentLength = chip.length
    /\ \A i \in 1..currentLength : readBuffer[i] = 10 * chip.shot + i

(* The SPI test of init() absorbs whatever state the shield is found in:    *)
(* from the first time that the driver raises the chip select, the shield   *)
(* takes every byte for what it was sent as, however often the test has to  *)
(* be repeated and whatever follows.                                        *)
NoStrayByte == stray => ~raised

(* init() gets past the SPI test whatever state the shield is found in.     *)
TestPasses == (at = "test") ~> (at = "identify")

(* singleCapture returns: its start command is never lost, and the flag it  *)
(* waits for comes.                                                         *)
CaptureReturns == (at = "poll") ~> (at = "captured" \/ exposures = MaxPicture)
=============================================================================
