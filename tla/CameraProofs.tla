---------------------------- MODULE CameraProofs ----------------------------
(***************************************************************************)
(* Class Camera, over SPI and over I2C.                                    *)
(*                                                                         *)
(* CameraDriver, for any picture lengths and whatever state a killed run   *)
(* left the shield in: its bytes are decoded as they were meant, and what  *)
(* singleCapture returns is a whole picture that was exposed for it.       *)
(*                                                                         *)
(* CameraSettings: what is in force, whatever the settings and however     *)
(* many calls and refused accesses there are.                              *)
(***************************************************************************)
EXTENDS CameraDriver, CameraSettings, SequenceTheorems, TLAPS

(* Bus operations, and what the shield may have as its command.            *)
Written == {"TEST1", "TIM", "FIFO", "RESET", "FRAMES"}
Read    == {"TEST1", "TIM", "TRIG", "SIZE1", "SIZE2", "SIZE3"}
Bytes == ({"W"} \X Written) \cup ({"R"} \X Read) \cup ({"B"} \X {""}) \cup ({"D"} \X Int)
Ops == ({"high", "low"} \X {0}) \cup Bytes
Commands == ({"none", "over"} \X {""}) \cup Bytes

Shields == [cmd : Commands, test : Int, tim : Int, done : BOOLEAN, exposing : BOOLEAN,
            shot : 1..MaxPicture, length : Lengths \cup {0}, read : Int]

TypeInv ==
  /\ TypeOK
  /\ todo \in Seq(Ops) /\ rx \in Int /\ chip \in Shields
  /\ readBuffer \in [1..7 -> Int]
  /\ at # "drain" => count = 0
  /\ since <= exposures

(* A transfer selects the shield, sends a command and its data, and ends;  *)
(* only that of the picture (drain) is longer.                             *)
Framed(s) ==
  \A i \in 1..Len(s) :
    /\ s[i][1] # "B"
    /\ s[i][1] = "low" => i < Len(s) /\ s[i + 1][1] \in {"W", "R"}
    /\ s[i][1] \in {"W", "R"} => i < Len(s) /\ s[i + 1][1] = "D"
    /\ s[i][1] = "D" => i < Len(s) /\ s[i + 1][1] = "high"
    /\ s[i][1] = "high" /\ i < Len(s) => s[i + 1][1] = "low"

(* The first transfer of the SPI test meets the shield in any state; once  *)
(* it has ended, chip select and the shield follow the driver.             *)
Lost == at \in {"off", "crashed", "test"} \/ (at = "tested" /\ Len(todo) > 4)

Follows ==
  /\ todo = <<>> => IF at = "drain" THEN cs = 0 /\ chip.cmd = Burst ELSE cs = 1
  /\ todo # <<>> =>
       /\ Head(todo)[1] = "low" => cs = 1
       /\ Head(todo)[1] \in {"W", "R", "B"} => cs = 0 /\ chip.cmd = None
       /\ Head(todo)[1] = "D" => cs = 0 /\ chip.cmd[1] \in {"W", "R"}
       /\ Head(todo)[1] = "high" => cs = 0

BusInv ==
  /\ at = "drain" \/ Framed(todo)
  /\ at \in {"off", "crashed", "test", "identify", "length"} => todo = <<>>
  /\ at = "tested" /\ Len(todo) > 4 => todo[Len(todo) - 4] = High
  /\ ~raised => Lost
  /\ raised => Follows /\ stray = FALSE

(* What has come of the request since the call of singleCapture.           *)
Cleared == ~chip.done /\ ~chip.exposing /\ chip.read = 0
Taken   == chip.done /\ ~chip.exposing /\ chip.shot > since
Asked   == Taken \/ (chip.exposing /\ ~chip.done)

PollInv ==
  at = "poll" =>
    \/ todo = <<Low, W("FIFO"), D(CLEAR), High, Low, W("FIFO"), D(START), High>>
    \/ todo = <<W("FIFO"), D(CLEAR), High, Low, W("FIFO"), D(START), High>>
    \/ todo = <<D(CLEAR), High, Low, W("FIFO"), D(START), High>> /\ chip.cmd = W("FIFO")
    \/ todo = <<High, Low, W("FIFO"), D(START), High>> /\ Cleared
    \/ todo = <<Low, W("FIFO"), D(START), High>> /\ Cleared
    \/ todo = <<W("FIFO"), D(START), High>> /\ Cleared
    \/ todo = <<D(START), High>> /\ Cleared /\ chip.cmd = W("FIFO")
    \/ todo \in {<<High>>, <<>>} /\ Asked /\ chip.read = 0

(* A register is being read; the answer has the property that is wanted.   *)
Reading(reg, wanted) ==
  \/ todo \in {<<Low, R(reg), D(0), High>>, <<R(reg), D(0), High>>}
  \/ todo = <<D(0), High>> /\ chip.cmd = R(reg)
  \/ todo \in {<<High>>, <<>>} /\ wanted

PolledInv ==
  at = "polled" =>
    /\ Asked /\ chip.read = 0
    /\ Reading("TRIG", rx = 0 \/ (rx = CAP_DONE /\ chip.done))

(* currentLength lacks the digits that are still to come.                  *)
Got(k, missing) == IF k \in missing THEN 0 ELSE Digit(k) * 2^(k - 1)
Known(missing) == Got(1, missing) + Got(2, missing) + Got(3, missing)

LengthInv ==
  /\ at \in {"length", "SIZE1", "SIZE2", "SIZE3", "drain", "captured"} => Taken
  /\ at = "length" => chip.read = 0 /\ currentLength = Known(left)
  /\ \A k \in 1..3 : at = SIZE[k] =>
       /\ k \notin left /\ chip.read = 0 /\ currentLength = Known(left \cup {k})
       /\ Reading(SIZE[k], rx = Digit(k))

(* The first bytes of the picture that is in the FIFO. *)
Holds(n) == \A i \in 1..n : readBuffer[i] = 10 * chip.shot + i

DrainInv ==
  /\ at = "drain" =>
       /\ currentLength = chip.length /\ count = currentLength - chip.read
       /\ todo \in {<<Low, Burst>>, <<Burst>>, <<>>}
       /\ Holds(chip.read)
  /\ at = "captured" =>
       /\ currentLength = chip.length /\ Holds(currentLength)
       /\ todo \in {<<High>>, <<>>}

IInv == TypeInv /\ BusInv /\ PollInv /\ PolledInv /\ LengthInv /\ DrainInv
-----------------------------------------------------------------------------
(* The operations that the driver is made of.                              *)
LEMMA OpsAreOps ==
  /\ High \in Ops /\ Low \in Ops /\ Burst \in Ops
  /\ \A r \in Written : W(r) \in Ops
  /\ \A r \in Read : R(r) \in Ops
  /\ \A v \in Int : D(v) \in Ops
  BY DEF Ops, Bytes, High, Low, Burst, W, R, D

(* The command that starts the burst is of its own kind.                   *)
LEMMA BurstKind == Burst[1] = "B"
  BY DEF Burst

(* An edge of chip select is told from its kind.                           *)
LEMMA Selects ==
  ASSUME NEW op \in Ops
  PROVE  /\ op[1] = "low" => op = Low
         /\ op[1] = "high" => op = High
<1>1. CASE op \in {"high", "low"} \X {0}
  <2>1. PICK level \in {"high", "low"} : op = <<level, 0>>
    BY <1>1
  <2>2. op[1] = level
    BY <2>1
  <2>3. QED  BY <2>1, <2>2 DEF High, Low
<1>2. CASE op \in Bytes
  <2>1. op[1] \in {"W", "R", "B", "D"}
    BY <1>2 DEF Bytes
  <2>2. QED  BY <2>1
<1>3. QED  BY <1>1, <1>2 DEF Ops

(* A register access is a framed list of operations.                       *)
LEMMA WriteFramed ==
  ASSUME NEW r \in Written, NEW v \in Int
  PROVE  /\ busWrite(r, v) \in Seq(Ops) /\ Framed(busWrite(r, v)) /\ Len(busWrite(r, v)) = 4
         /\ busWrite(r, v)[1][1] = "low" /\ Head(busWrite(r, v))[1] = "low" /\ busWrite(r, v)[4] = High
<1>1. busWrite(r, v) \in Seq(Ops)
  BY OpsAreOps DEF busWrite
<1>2. Framed(busWrite(r, v))
  BY DEF Framed, busWrite, W, D, High, Low
<1>3. QED  BY <1>1, <1>2 DEF busWrite, Low

(* Reading a register is framed as writing one is.                         *)
LEMMA ReadFramed ==
  ASSUME NEW r \in Read
  PROVE  /\ busRead(r) \in Seq(Ops) /\ Framed(busRead(r)) /\ Len(busRead(r)) = 4
         /\ busRead(r)[1][1] = "low" /\ Head(busRead(r))[1] = "low" /\ busRead(r)[4] = High
<1>1. busRead(r) \in Seq(Ops)
  BY OpsAreOps DEF busRead
<1>2. Framed(busRead(r))
  BY DEF Framed, busRead, R, D, High, Low
<1>3. QED  BY <1>1, <1>2 DEF busRead, Low

(* Accesses made one after the other are framed as each of them is.        *)
LEMMA FramedConcat ==
  ASSUME NEW s \in Seq(Ops), NEW t \in Seq(Ops), Framed(s), Framed(t),
         Len(s) > 0, s[Len(s)] = High, Len(t) > 0, t[1][1] = "low"
  PROVE  /\ s \o t \in Seq(Ops) /\ Framed(s \o t) /\ Len(s \o t) = Len(s) + Len(t)
         /\ (s \o t)[1] = s[1] /\ (s \o t)[Len(s)] = High
         /\ (s \o t)[Len(s) + Len(t)] = t[Len(t)]
<1>1. /\ s \o t \in Seq(Ops) /\ Len(s \o t) = Len(s) + Len(t)
      /\ \A i \in 1..(Len(s) + Len(t)) : (s \o t)[i] = IF i <= Len(s) THEN s[i] ELSE t[i - Len(s)]
  BY ConcatProperties
<1>2. Len(s) \in Nat /\ Len(t) \in Nat
  OBVIOUS
<1> DEFINE u == s \o t
<1>3. ASSUME NEW i \in 1..Len(u)
      PROVE  /\ u[i][1] # "B"
             /\ u[i][1] = "low" => i < Len(u) /\ u[i + 1][1] \in {"W", "R"}
             /\ u[i][1] \in {"W", "R"} => i < Len(u) /\ u[i + 1][1] = "D"
             /\ u[i][1] = "D" => i < Len(u) /\ u[i + 1][1] = "high"
             /\ u[i][1] = "high" /\ i < Len(u) => u[i + 1][1] = "low"
  <2> HIDE DEF u
  <2>0. Len(u) = Len(s) + Len(t)
    BY <1>1 DEF u
  <2>1. CASE i < Len(s)
    <3>1. u[i] = s[i] /\ u[i + 1] = s[i + 1] /\ i \in 1..Len(s)
      BY <1>1, <1>2, <2>0, <2>1 DEF u
    <3>2. QED  BY <1>2, <2>0, <2>1, <3>1 DEF Framed
  <2>2. CASE i = Len(s)
    <3>1. u[i] = High /\ u[i + 1] = t[1]
      BY <1>1, <1>2, <2>0, <2>2 DEF u
    <3>2. QED  BY <3>1 DEF High
  <2>3. CASE i > Len(s)
    <3>1. i - Len(s) \in 1..Len(t) /\ u[i] = t[i - Len(s)]
      BY <1>1, <1>2, <2>0, <2>3 DEF u
    <3>2. i < Len(u) => u[i + 1] = t[(i - Len(s)) + 1]
      BY <1>1, <1>2, <2>0, <2>3 DEF u
    <3>3. QED  BY <1>2, <2>0, <2>3, <3>1, <3>2 DEF Framed
  <2>4. QED  BY <1>2, <2>1, <2>2, <2>3
<1>4. Framed(u)
  <2> HIDE DEF u
  <2>1. QED  BY <1>3 DEF Framed
<1>5. u[1] = s[1] /\ u[Len(s)] = High /\ u[Len(s) + Len(t)] = t[Len(t)]
  BY <1>1, <1>2
<1>6. QED  BY <1>1, <1>4, <1>5

(* A list of whole register accesses. *)
Script(s) ==
  s \in Seq(Ops) /\ Framed(s) /\ Len(s) > 0 /\ s[1][1] = "low" /\ s[Len(s)] = High

(* Writing a register is a list of whole accesses.                         *)
LEMMA WriteScript ==
  ASSUME NEW r \in Written, NEW v \in Int
  PROVE  Script(busWrite(r, v)) /\ Len(busWrite(r, v)) = 4
<1> DEFINE s == busWrite(r, v)
<1>1. s \in Seq(Ops) /\ Framed(s) /\ Len(s) = 4 /\ s[1][1] = "low" /\ s[4] = High
  BY WriteFramed
<1> HIDE DEF s
<1>2. Script(s)
  BY <1>1 DEF Script
<1>3. QED  BY <1>1, <1>2 DEF s

(* So is reading one.                                                      *)
LEMMA ReadScript ==
  ASSUME NEW r \in Read
  PROVE  Script(busRead(r)) /\ Len(busRead(r)) = 4
<1> DEFINE s == busRead(r)
<1>1. s \in Seq(Ops) /\ Framed(s) /\ Len(s) = 4 /\ s[1][1] = "low" /\ s[4] = High
  BY ReadFramed
<1> HIDE DEF s
<1>2. Script(s)
  BY <1>1 DEF Script
<1>3. QED  BY <1>1, <1>2 DEF s

(* And so are two such lists, one after the other.                         *)
LEMMA ConcatScript ==
  ASSUME NEW s, NEW t, Script(s), Script(t)
  PROVE  Script(s \o t) /\ Len(s \o t) = Len(s) + Len(t) /\ (s \o t)[Len(s)] = High
<1>1. s \in Seq(Ops) /\ t \in Seq(Ops)
  BY DEF Script
<1>2. /\ s \o t \in Seq(Ops) /\ Framed(s \o t) /\ Len(s \o t) = Len(s) + Len(t)
      /\ (s \o t)[1] = s[1] /\ (s \o t)[Len(s)] = High
      /\ (s \o t)[Len(s) + Len(t)] = t[Len(t)]
  BY <1>1, FramedConcat DEF Script
<1>3. Len(s) \in Nat /\ Len(t) \in Nat
  BY <1>1
<1>4. Len(s \o t) > 0
  BY <1>2, <1>3 DEF Script
<1>5. QED  BY <1>2, <1>4 DEF Script

(* A list of whole accesses begins by selecting the shield.                *)
LEMMA ScriptHead ==
  ASSUME NEW s, Script(s)
  PROVE  s # <<>> /\ Head(s)[1] = "low" /\ Framed(s)
<1>1. s \in Seq(Ops) /\ s # <<>>
  BY DEF Script
<1>2. Head(s) = s[1]
  BY <1>1
<1>3. QED  BY <1>1, <1>2 DEF Script

(* After the first operation of a list its second is the next one.         *)
LEMMA SecondNext ==
  ASSUME NEW s \in Seq(Ops), Len(s) > 1
  PROVE  Tail(s) # <<>> /\ Head(Tail(s)) = s[2]
<1>1. Tail(s) \in Seq(Ops) /\ Len(Tail(s)) = Len(s) - 1 /\ \A i \in 1..Len(Tail(s)) : Tail(s)[i] = s[i + 1]
  <2>1. s # <<>>
    OBVIOUS
  <2>2. QED  BY <2>1, HeadTailProperties
<1>2. Len(Tail(s)) > 0 /\ Tail(s)[1] = s[2]
  BY <1>1
<1> DEFINE t == Tail(s)
<1>3. t \in Seq(Ops) /\ Len(t) > 0
  BY <1>1, <1>2
<1> HIDE DEF t
<1>4. t # <<>> /\ Head(t) = t[1]
  BY <1>3
<1>5. QED  BY <1>2, <1>4 DEF t

(* What is left of a framed list is framed.                                *)
LEMMA FramedTail ==
  ASSUME NEW s \in Seq(Ops), s # <<>>, Framed(s)
  PROVE  Framed(Tail(s))
  BY DEF Framed
-----------------------------------------------------------------------------
(* What a bus operation does. *)
Over == <<"over", "">>

(* A step of the bus takes the first operation off the list.               *)
LEMMA BusTakes ==
  ASSUME TypeInv, BusInv, Bus
  PROVE  /\ todo # <<>> /\ todo' = Tail(todo) /\ todo' \in Seq(Ops) /\ Head(todo) \in Ops
         /\ (at # "drain" => Framed(todo')) /\ Len(todo') = Len(todo) - 1 /\ Len(todo) \in Nat \ {0}
         /\ Do(Head(todo)) /\ UNCHANGED <<at, driver>>
<1>1. todo \in Seq(Ops) /\ todo # <<>> /\ todo' = Tail(todo)
  BY DEF Bus, TypeInv
<1>2. Tail(todo) \in Seq(Ops) /\ Head(todo) \in Ops /\ Len(Tail(todo)) = Len(todo) - 1
  BY <1>1, HeadTailProperties
<1>3. at # "drain" => Framed(Tail(todo))
  BY <1>1, FramedTail DEF BusInv
<1>4. QED  BY <1>1, <1>2, <1>3 DEF Bus

(* A falling edge makes the shield wait for a command.                     *)
LEMMA DoLow ==
  ASSUME Do(Low)
  PROVE  /\ cs' = 0 /\ rx' = rx /\ exposures' = exposures /\ stray' = FALSE /\ raised' = raised
         /\ chip' = IF cs = 1 THEN [chip EXCEPT !.cmd = None] ELSE chip
  BY DEF Do, Select, Low, High

(* A rising edge only ends the transfer.                                   *)
LEMMA DoHigh ==
  ASSUME Do(High)
  PROVE  /\ cs' = 1 /\ rx' = rx /\ exposures' = exposures /\ stray' = FALSE /\ raised' = TRUE
         /\ chip' = chip
  BY DEF Do, Select, Low, High

(* Any other operation transfers a byte.                                   *)
LEMMA DoByte ==
  ASSUME NEW op, op[1] \notin {"low", "high"}, Do(op)
  PROVE  Transfer(op)
  BY DEF Do, Low, High

(* Pairs differ when their kinds do.                                       *)
LEMMA Unlike == ASSUME NEW c, NEW x, NEW y, c[1] # x PROVE c # <<x, y>>
  OBVIOUS

(* Operations and commands are told apart by their kinds.                  *)
LEMMA Kinds ==
  ASSUME NEW c
  PROVE  /\ c[1] # "none" => c # None
         /\ c[1] # "B" => c # Burst
         /\ c = None => c[1] = "none"
         /\ c = Burst => c[1] = "B"
  BY Unlike DEF None, Burst

(* The shield takes a byte as what it was sent as: a command after the     *)
(* falling edge, data after a command.                                     *)
LEMMA CommandTaken ==
  ASSUME TypeInv, NEW op \in Ops, op[1] \in {"W", "R", "B"}, Do(op), cs = 0, chip.cmd = None
  PROVE  /\ chip' = [chip EXCEPT !.cmd = op] /\ rx' = Junk
         /\ cs' = cs /\ exposures' = exposures /\ stray' = FALSE /\ raised' = raised
<1>1. Transfer(op)
  BY DoByte
<1>2. stray' = FALSE
  <2>1. stray' = (cs = 1 \/ (chip.cmd = None) = (op[1] = "D"))
    BY <1>1 DEF Transfer
  <2>2. (chip.cmd = None) # (op[1] = "D")
    OBVIOUS
  <2>3. ~(cs = 1)
    OBVIOUS
  <2>4. QED  BY <2>1, <2>2, <2>3, Zenon
<1>3. chip.cmd[1] = "none" /\ chip.cmd[1] # "W" /\ chip.cmd[1] # "R" /\ chip.cmd # Burst
  BY Kinds
<1>4. /\ UNCHANGED <<cs, exposures, raised>>
      /\ chip' = [chip EXCEPT !.cmd = op] /\ rx' = Junk
  BY <1>1, <1>3 DEF Transfer
<1>5. QED  BY <1>2, <1>4

(* Data goes to the register of the command, or brings its value.          *)
LEMMA DataTaken ==
  ASSUME TypeInv, NEW op \in Ops, op[1] = "D", Do(op), cs = 0, chip.cmd[1] \in {"W", "R"}
  PROVE  /\ cs' = cs /\ exposures' = exposures /\ stray' = FALSE /\ raised' = raised
         /\ chip.cmd[1] = "W" => rx' = Junk
              /\ chip' = [Store(chip, chip.cmd[2], op[2]) EXCEPT !.cmd = Over]
         /\ chip.cmd[1] = "R" => rx' = Reply(chip.cmd[2])
              /\ chip' = [chip EXCEPT !.cmd = Over]
<1>1. Transfer(op)
  BY DoByte
<1>2. chip.cmd # None /\ chip.cmd # Burst
  BY Kinds
<1>3. stray' = FALSE
  <2>1. stray' = (cs = 1 \/ (chip.cmd = None) = (op[1] = "D"))
    BY <1>1 DEF Transfer
  <2>2. (chip.cmd = None) # (op[1] = "D")
    BY <1>2
  <2>3. ~(cs = 1)
    OBVIOUS
  <2>4. QED  BY <2>1, <2>2, <2>3, Zenon
<1>4. UNCHANGED <<cs, exposures, raised>>
  BY <1>1 DEF Transfer
<1>5. CASE chip.cmd[1] = "W"
  <2>1. /\ rx' = Junk
        /\ chip' = [Store(chip, chip.cmd[2], Value(op)) EXCEPT !.cmd = <<"over", "">>]
    <3>1. ~(cs = 1) /\ ~(chip.cmd[1] = "R") /\ ~(chip.cmd[1] \in {"over", "D"})
      BY <1>5
    <3>2. QED  BY <1>1, <1>2, <3>1, Zenon DEF Transfer
  <2>2. QED  BY <1>3, <1>4, <1>5, <2>1 DEF Value, Over
<1>6. CASE chip.cmd[1] = "R"
  <2>1. rx' = Reply(chip.cmd[2]) /\ chip' = [chip EXCEPT !.cmd = <<"over", "">>]
    <3>1. ~(cs = 1) /\ ~(chip.cmd[1] = "W") /\ ~(chip.cmd[1] \in {"over", "D"})
      BY <1>6
    <3>2. QED  BY <1>1, <1>2, <3>1, Zenon DEF Transfer
  <2>2. QED  BY <1>3, <1>4, <1>6, <2>1 DEF Over
<1>7. QED  BY <1>5, <1>6

(* Storing keeps the shield a shield.                                      *)
LEMMA StoreKeeps ==
  ASSUME TypeInv, NEW reg, NEW v \in Int
  PROVE  /\ Store(chip, reg, v) \in Shields /\ Store(chip, reg, v).shot = chip.shot
         /\ Store(chip, reg, v).read \in 0..Store(chip, reg, v).length
<1>1. chip \in Shields /\ chip.read \in 0..chip.length
  BY DEF TypeInv, TypeOK
<1>2. Store(chip, reg, v) \in
        {chip, [chip EXCEPT !.test = v], [chip EXCEPT !.tim = v], [chip EXCEPT !.exposing = TRUE],
         [chip EXCEPT !.done = FALSE, !.exposing = FALSE, !.length = 0, !.read = 0]}
  BY DEF Store
<1>3. \A c \in {chip, [chip EXCEPT !.test = v], [chip EXCEPT !.tim = v],
                 [chip EXCEPT !.exposing = TRUE]} :
        c \in Shields /\ c.read \in 0..c.length /\ c.shot = chip.shot
  BY <1>1 DEF Shields
<1>4. ASSUME NEW c, c = [chip EXCEPT !.done = FALSE, !.exposing = FALSE, !.length = 0, !.read = 0]
      PROVE  c \in Shields /\ c.read \in 0..c.length /\ c.shot = chip.shot
  <2>1. c.read = 0 /\ c.length = 0
    BY <1>1, <1>4 DEF Shields
  <2>2. c = [cmd |-> chip.cmd, test |-> chip.test, tim |-> chip.tim, done |-> FALSE,
             exposing |-> FALSE, shot |-> chip.shot, length |-> 0, read |-> 0]
    BY <1>1, <1>4 DEF Shields
  <2>3. QED  BY <1>1, <2>1, <2>2 DEF Shields
<1>5. QED  BY <1>2, <1>3, <1>4

(* A picture has a length of three digits.                                 *)
LEMMA LengthRange == ASSUME TypeInv PROVE chip.length \in 0..7
<1>1. chip.length \in Lengths \cup {0}
  BY DEF TypeInv, Shields
<1>2. \A n \in Lengths \cup {0} : n \in 0..7
  BY CameraDriverAssumption
<1>3. QED  BY <1>1, <1>2

(* A digit is a bit.                                                       *)
LEMMA DigitRange == ASSUME TypeInv, NEW k \in 1..3 PROVE Digit(k) \in 0..1
<1>1. chip.length \in 0..7
  BY LengthRange
<1>2. CASE k = 1
  BY <1>1, <1>2 DEF Digit
<1>3. CASE k = 2
  BY <1>1, <1>3 DEF Digit
<1>4. CASE k = 3
  <2>1. 2^(3 - 1) = 4
    <3>1. 3 - 1 = 2 /\ 2^2 = 4
      OBVIOUS
    <3>2. QED  BY ONLY <3>1
  <2>2. QED  BY <1>1, <1>4, <2>1 DEF Digit
<1>5. QED  BY <1>2, <1>3, <1>4

(* What a register that is read answers. *)
LEMMA Replies ==
  ASSUME TypeInv
  PROVE  /\ \A k \in 1..3 : Reply(SIZE[k]) = Digit(k)
         /\ Reply("TRIG") = IF chip.done THEN CAP_DONE ELSE 0
         /\ \A reg \in Read : Reply(reg) \in Int
<1>1. ASSUME NEW k \in 1..3 PROVE Reply(SIZE[k]) = Digit(k)
  <2>1. (CHOOSE j \in 1..3 : SIZE[j] = SIZE[k]) = k
    BY DEF SIZE
  <2>2. SIZE[k] \in {"SIZE1", "SIZE2", "SIZE3"}
    BY DEF SIZE
  <2>3. QED  BY <2>1, <2>2 DEF Reply
<1>2. Reply("TRIG") = IF chip.done THEN CAP_DONE ELSE 0
  BY DEF Reply
<1>3. ASSUME NEW reg \in Read PROVE Reply(reg) \in Int
  <2>1. CASE \E k \in 1..3 : reg = SIZE[k]
    BY <1>1, <2>1, DigitRange
  <2>2. CASE reg = "TRIG"
    BY <1>2, <2>2 DEF CAP_DONE
  <2>3. CASE reg \in {"TEST1", "TIM"}
    BY <2>3 DEF Reply, TypeInv, Shields
  <2>4. QED  BY <2>1, <2>2, <2>3 DEF Read, SIZE
<1>4. QED  BY <1>1, <1>2, <1>3

(* Whatever state the shield is in, a byte leaves it a shield.             *)
LEMMA ByteKeeps ==
  ASSUME TypeInv, NEW op \in Ops, op[1] \notin {"low", "high"}, Transfer(op)
  PROVE  /\ chip' \in Shields /\ chip'.read \in 0..chip'.length /\ chip'.shot = chip.shot
         /\ rx' \in Int /\ stray' \in BOOLEAN /\ cs' = cs /\ exposures' = exposures
         /\ raised' = raised
<1>1. chip \in Shields /\ chip.read \in 0..chip.length
  BY DEF TypeInv, TypeOK
<1>2. cs' = cs /\ exposures' = exposures /\ raised' = raised
  BY DEF Transfer
<1>3. stray' \in BOOLEAN
  <2>1. stray' = (cs = 1 \/ (chip.cmd = None) = (op[1] = "D"))
    BY DEF Transfer
  <2>2. QED  BY <2>1, Zenon
<1>4. op \in Commands /\ <<"over", "">> \in Commands /\ Value(op) \in Int
  <2>1. op \in Bytes
    BY DEF Ops
  <2>2. op[1] = "D" => op[2] \in Int
    BY <2>1 DEF Bytes
  <2>3. Value(op) \in Int
    BY <2>2 DEF Value
  <2>4. QED  BY <2>1, <2>3 DEF Commands
<1>5. rx' \in Int
  <2>1. chip.cmd[1] = "R" => chip.cmd[2] \in Read
    BY <1>1 DEF Shields, Commands, Bytes
  <2>2. chip.cmd[1] = "R" => Reply(chip.cmd[2]) \in Int
    BY <2>1, Replies
  <2>3. chip.shot \in Int /\ chip.read \in Int
    BY <1>1 DEF Shields
  <2>4. \/ rx' = Junk
        \/ rx' = Reply(chip.cmd[2]) /\ chip.cmd[1] = "R"
        \/ rx' = 10 * chip.shot + chip.read + 1
    BY Zenon DEF Transfer
  <2>5. QED  BY <2>2, <2>3, <2>4 DEF Junk
<1>6. chip' \in Shields /\ chip'.read \in 0..chip'.length /\ chip'.shot = chip.shot
  <2> DEFINE Stored == Store(chip, chip.cmd[2], Value(op))
  <2>1. \/ chip' = chip
        \/ chip' = [chip EXCEPT !.cmd = op]
        \/ chip' = [chip EXCEPT !.cmd = <<"over", "">>]
        \/ chip' = [Stored EXCEPT !.cmd = <<"over", "">>]
        \/ chip.read < chip.length /\ chip' = [chip EXCEPT !.read = @ + 1]
    BY DEF Transfer
  <2>2. Stored \in Shields /\ Stored.read \in 0..Stored.length /\ Stored.shot = chip.shot
    BY <1>4, StoreKeeps
  <2> HIDE DEF Stored
  <2>3. CASE chip' = chip
    BY <1>1, <2>3
  <2>4. CASE chip' = [chip EXCEPT !.cmd = op]
    BY <1>1, <1>4, <2>4 DEF Shields
  <2>5. CASE chip' = [chip EXCEPT !.cmd = <<"over", "">>]
    BY <1>1, <1>4, <2>5 DEF Shields
  <2>6. CASE chip' = [Stored EXCEPT !.cmd = <<"over", "">>]
    BY <1>4, <2>2, <2>6 DEF Shields
  <2>7. CASE chip.read < chip.length /\ chip' = [chip EXCEPT !.read = @ + 1]
    <3>1. chip.length \in Int
      BY LengthRange
    <3>2. QED  BY <1>1, <2>7, <3>1 DEF Shields
  <2>8. QED  BY <2>1, <2>3, <2>4, <2>5, <2>6, <2>7
<1>7. QED  BY <1>2, <1>3, <1>5, <1>6

(* The digits make up the length. *)
LEMMA Powers == 2^(1 - 1) = 1 /\ 2^(2 - 1) = 2 /\ 2^(3 - 1) = 4
<1>1. 2^(1 - 1) = 1
  OBVIOUS
<1>2. 2^(2 - 1) = 2
  <2>1. 2 - 1 = 1 /\ 2^1 = 2
    OBVIOUS
  <2>2. QED  BY ONLY <2>1
<1>3. 2^(3 - 1) = 4
  <2>1. 3 - 1 = 2 /\ 2^2 = 4
    OBVIOUS
  <2>2. QED  BY ONLY <2>1
<1>4. QED  BY <1>1, <1>2, <1>3

(* The three digits are the length, and each adds its share of it.         *)
LEMMA Digits ==
  ASSUME TypeInv
  PROVE  /\ Known({}) = chip.length
         /\ Known({1, 2, 3}) = 0
         /\ \A m \in SUBSET (1..3) : Known(m) \in 0..7
         /\ \A m \in SUBSET (1..3), k \in 1..3 : k \notin m =>
              Known(m) = Known(m \cup {k}) + Digit(k) * 2^(k - 1)
<1>1. chip.length \in 0..7
  BY LengthRange
<1>2. Digit(1) \in 0..1 /\ Digit(2) \in 0..1 /\ Digit(3) \in 0..1
  BY DigitRange
<1>3. /\ Digit(1) * 2^(1 - 1) = Digit(1) /\ Digit(2) * 2^(2 - 1) = 2 * Digit(2)
      /\ Digit(3) * 2^(3 - 1) = 4 * Digit(3)
  BY <1>2, Powers
<1>4. Digit(1) + 2 * Digit(2) + 4 * Digit(3) = chip.length
  BY <1>1, Powers DEF Digit
<1>5. \A m : /\ Got(1, m) = IF 1 \in m THEN 0 ELSE Digit(1)
             /\ Got(2, m) = IF 2 \in m THEN 0 ELSE 2 * Digit(2)
             /\ Got(3, m) = IF 3 \in m THEN 0 ELSE 4 * Digit(3)
  BY <1>3 DEF Got
<1>6. Known({}) = chip.length /\ Known({1, 2, 3}) = 0
  BY <1>2, <1>4, <1>5 DEF Known
<1>7. ASSUME NEW m \in SUBSET (1..3) PROVE Known(m) \in 0..7
  BY <1>2, <1>5 DEF Known
<1>8. ASSUME NEW m \in SUBSET (1..3), NEW k \in 1..3, k \notin m
      PROVE  Known(m) = Known(m \cup {k}) + Digit(k) * 2^(k - 1)
  <2>1. CASE k = 1
    BY <1>2, <1>3, <1>5, <1>8, <2>1 DEF Known
  <2>2. CASE k = 2
    BY <1>2, <1>3, <1>5, <1>8, <2>2 DEF Known
  <2>3. CASE k = 3
    BY <1>2, <1>3, <1>5, <1>8, <2>3 DEF Known
  <2>4. QED  BY <2>1, <2>2, <2>3
<1>9. QED  BY <1>6, <1>7, <1>8
-----------------------------------------------------------------------------
(* Each step keeps the types. *)
LEMMA TypeStep ==
  ASSUME IInv, Next
  PROVE  TypeInv'
<1>1. TypeInv /\ BusInv
  BY DEF IInv
<1>2. chip \in Shields /\ MaxPicture \in Nat \ {0} /\ chip.length \in 0..7 /\ stray \in BOOLEAN
      /\ raised \in BOOLEAN
  BY <1>1, LengthRange, CameraDriverAssumption DEF TypeInv, TypeOK
<1> DEFINE Same == UNCHANGED <<cs, rx, world>>
<1>3. ASSUME todo' \in Seq(Ops), Same, UNCHANGED driver, at = "drain" => count = 0
      PROVE  TypeInv'
  BY <1>1, <1>3 DEF TypeInv, TypeOK, world, driver
<1>4. CASE Bus
  <2>1. todo' \in Seq(Ops) /\ Head(todo) \in Ops /\ Do(Head(todo)) /\ UNCHANGED <<at, driver>>
    BY <1>1, <1>4, BusTakes
  <2>2. /\ chip' \in Shields /\ chip'.read \in 0..chip'.length /\ chip'.shot = chip.shot
        /\ rx' \in Int /\ stray' \in BOOLEAN /\ cs' \in 0..1 /\ exposures' = exposures
        /\ raised' \in BOOLEAN
    <3>1. CASE Head(todo) = Low
      <4>1. /\ cs' = 0 /\ rx' = rx /\ exposures' = exposures /\ stray' = FALSE /\ raised' = raised
            /\ chip' \in {chip, [chip EXCEPT !.cmd = None]}
        BY <2>1, <3>1, DoLow
      <4>2. None \in Commands
        BY DEF None, Commands
      <4>3. chip.read \in 0..chip.length /\ rx \in Int
        BY <1>1 DEF TypeInv, TypeOK
      <4>4. stray' \in BOOLEAN /\ raised' \in BOOLEAN
        BY <1>2, <4>1, Zenon
      <4>5. QED  BY <1>2, <4>1, <4>2, <4>3, <4>4 DEF Shields
    <3>2. CASE Head(todo) = High
      <4>1. /\ cs' = 1 /\ rx' = rx /\ exposures' = exposures /\ stray' = FALSE /\ raised' = TRUE
            /\ chip' = chip
        BY <2>1, <3>2, DoHigh
      <4>2. chip.read \in 0..chip.length /\ rx \in Int
        BY <1>1 DEF TypeInv, TypeOK
      <4>3. stray' \in BOOLEAN /\ raised' \in BOOLEAN
        BY <4>1, Zenon
      <4>4. QED  BY <1>2, <4>1, <4>2, <4>3
    <3>3. CASE Head(todo)[1] \notin {"low", "high"}
      BY <1>1, <2>1, <3>3, DoByte, ByteKeeps DEF TypeInv, TypeOK
    <3>4. QED  BY <2>1, <3>1, <3>2, <3>3, Selects
  <2>3. QED  BY <1>1, <2>1, <2>2 DEF TypeInv, TypeOK, Shields, driver
<1>5. CASE Expose
  <2>1. PICK n \in Lengths :
          chip' = [chip EXCEPT !.exposing = FALSE, !.done = TRUE, !.read = 0,
                               !.shot = exposures', !.length = n]
    BY <1>5 DEF Expose
  <2>2. exposures' \in 1..MaxPicture /\ exposures' = exposures + 1
    <3>1. exposures \in 1..MaxPicture
      BY <1>1 DEF TypeInv, TypeOK
    <3>2. QED  BY <1>2, <1>5, <3>1 DEF Expose
  <2>3. n \in 0..7
    BY CameraDriverAssumption
  <2>4. /\ chip' \in Shields /\ chip'.read = 0 /\ chip'.length = n /\ chip'.shot = exposures'
    <3>1. chip' = [cmd |-> chip.cmd, test |-> chip.test, tim |-> chip.tim, done |-> TRUE,
                   exposing |-> FALSE, shot |-> exposures', length |-> n, read |-> 0]
      BY <1>2, <2>1 DEF Shields
    <3>2. /\ chip.cmd \in Commands /\ chip.test \in Int /\ chip.tim \in Int
      BY <1>2 DEF Shields
    <3>3. QED  BY <2>2, <3>1, <3>2 DEF Shields
  <2>5. since \in Nat /\ exposures \in Nat /\ since <= exposures /\ since \in 0..MaxPicture
    BY <1>1, <1>2 DEF TypeInv, TypeOK
  <2>6. UNCHANGED <<at, todo, cs, rx, driver, stray, raised>>
    BY <1>5 DEF Expose
  <2>7. TypeOK'
    <3>1. UNCHANGED <<cs, left, currentLength, count, since, stray, raised>>
      BY <2>6 DEF driver
    <3>2. chip'.shot \in 1..MaxPicture /\ chip'.length \in Lengths \cup {0} /\ chip'.read \in 0..chip'.length
      BY <2>2, <2>3, <2>4
    <3>3. QED  BY <1>1, <2>2, <3>1, <3>2 DEF TypeInv, TypeOK
  <2>8. since' <= exposures'
    BY <2>2, <2>5, <2>6 DEF driver
  <2>9. QED  BY <1>1, <2>4, <2>6, <2>7, <2>8 DEF TypeInv, driver
<1>6. CASE SpiInit \/ Tested \/ Identify \/ Return
  <2>1. at \in {"off", "tested", "identify", "captured"} /\ todo' = <<>> /\ Same /\ UNCHANGED driver
    BY <1>6 DEF SpiInit, Tested, Identify, Return, Goto
  <2>2. QED  BY <1>3, <2>1
<1>7. CASE Test
  <2>1. todo' \in Seq(Ops)
    <3>1. OK \in Int /\ "TEST1" \in Written /\ "TEST1" \in Read
      BY DEF OK, Written, Read
    <3>2. QED  BY <1>7, <3>1, WriteFramed, ReadFramed, ConcatProperties DEF Test, Goto
  <2>2. QED  BY <1>3, <1>7, <2>1 DEF Test, Goto
<1>8. CASE singleCapture
  <2>1. todo' \in Seq(Ops)
    <3>1. CLEAR \in Int /\ START \in Int /\ "FIFO" \in Written
      BY DEF CLEAR, START, Written
    <3>2. QED  BY <1>8, <3>1, WriteFramed, ConcatProperties DEF singleCapture, Goto
  <2>2. Same /\ UNCHANGED <<left, currentLength, readBuffer, count>> /\ since' = exposures
    BY <1>8 DEF singleCapture, Goto
  <2>3. since' \in 0..MaxPicture /\ since' <= exposures'
    BY <1>1, <1>2, <2>2 DEF TypeInv, TypeOK, world
  <2>4. count = 0
    BY <1>1, <1>8 DEF TypeInv, singleCapture, Goto
  <2>5. QED  BY <1>1, <2>1, <2>2, <2>3, <2>4 DEF TypeInv, TypeOK, world
<1>9. CASE Poll
  <2>1. todo' \in Seq(Ops)
    BY <1>9, ReadFramed DEF Poll, Goto, Read
  <2>2. QED  BY <1>3, <1>9, <2>1 DEF Poll, Goto
<1>10. CASE Polled
  <2>1. CASE UNCHANGED driver
    <3>1. at = "polled" /\ todo' = <<>> /\ Same
      BY <1>10 DEF Polled, Goto
    <3>2. QED  BY <1>3, <2>1, <3>1
  <2>2. CASE left' = {1, 2, 3} /\ currentLength' = 0
    <3>1. at = "polled" /\ todo' = <<>> /\ Same /\ UNCHANGED <<readBuffer, count, since>>
      BY <1>10, <2>2 DEF Polled, Goto, driver
    <3>2. count = 0
      BY <1>1, <3>1 DEF TypeInv
    <3>3. TypeOK'
      <4>1. left' \subseteq 1..3 /\ currentLength' \in 0..7 /\ count' \in 0..currentLength'
        BY <2>2, <3>1, <3>2
      <4>2. UNCHANGED <<cs, stray, raised, exposures, since, chip>>
        BY <3>1 DEF world
      <4>3. QED  BY <1>1, <4>1, <4>2 DEF TypeInv, TypeOK
    <3>4. QED  BY <1>1, <3>1, <3>2, <3>3 DEF TypeInv, world
  <2>3. QED  BY <1>10, <2>1, <2>2 DEF Polled
<1>11. CASE readFIFOLength
  <2>1. PICK k \in left : Goto("length", busRead(SIZE[k]), SIZE[k]) /\ left' = left \ {k}
    BY <1>11 DEF readFIFOLength
  <2>2. SIZE[k] \in Read
    <3>1. left \subseteq 1..3
      BY <1>1 DEF TypeInv, TypeOK
    <3>2. k = 1 \/ k = 2 \/ k = 3
      BY <3>1
    <3>3. QED  BY <3>2 DEF SIZE, Read
  <2>3. todo' \in Seq(Ops)
    BY <2>1, <2>2, ReadFramed DEF Goto
  <2>4. /\ Same /\ UNCHANGED <<currentLength, readBuffer, count, since>> /\ count = 0
        /\ left' \subseteq 1..3
    BY <1>1, <1>11, <2>1 DEF readFIFOLength, Goto, TypeInv, TypeOK
  <2>5. QED  BY <1>1, <2>3, <2>4 DEF TypeInv, TypeOK, world
<1>12. CASE Length
  <2>1. PICK k \in 1..3 : Goto(SIZE[k], <<>>, "length") /\ currentLength' = currentLength + rx * 2^(k - 1)
    BY <1>12 DEF Length
  <2>2. k \notin left /\ currentLength = Known(left \cup {k}) /\ rx = Digit(k)
    BY <2>1 DEF IInv, LengthInv, Goto, Reading
  <2>3. left \in SUBSET (1..3)
    BY <1>1 DEF TypeInv, TypeOK
  <2>4. currentLength' = Known(left) /\ Known(left) \in 0..7
    BY <1>1, <2>1, <2>2, <2>3, Digits
  <2>5. todo' = <<>> /\ Same /\ UNCHANGED <<left, readBuffer, count, since>> /\ count = 0
    BY <1>1, <1>12, <2>1 DEF Length, Goto, TypeInv, SIZE
  <2>6. TypeOK'
    <3>1. currentLength' \in 0..7 /\ count' \in 0..currentLength'
      BY <2>4, <2>5
    <3>2. UNCHANGED <<cs, left, stray, raised, exposures, since, chip>>
      BY <2>5 DEF world
    <3>3. QED  BY <1>1, <3>1, <3>2 DEF TypeInv, TypeOK
  <2>7. QED  BY <1>1, <2>5, <2>6 DEF TypeInv, world
<1>13. CASE setFIFOBurst
  <2>1. todo' \in Seq(Ops)
    BY <1>13, OpsAreOps DEF setFIFOBurst, Goto
  <2>2. /\ Same /\ UNCHANGED <<left, currentLength, readBuffer, since>>
        /\ count' = currentLength /\ at' = "drain"
    BY <1>13 DEF setFIFOBurst, Goto
  <2>3. QED  BY <1>1, <2>1, <2>2 DEF TypeInv, TypeOK, world
<1>14. CASE Drain
  <2>1. Transfer(D(0)) /\ D(0) \in Ops /\ D(0)[1] = "D"
    BY <1>14, OpsAreOps DEF Drain, D
  <2>2. /\ chip' \in Shields /\ chip'.read \in 0..chip'.length /\ chip'.shot = chip.shot
        /\ rx' \in Int /\ stray' \in BOOLEAN /\ cs' = cs /\ exposures' = exposures
        /\ raised' = raised
    BY <1>1, <2>1, ByteKeeps
  <2>3. /\ at = "drain" /\ count > 0 /\ count' = count - 1
        /\ readBuffer' = [readBuffer EXCEPT ![currentLength - count + 1] = rx']
        /\ UNCHANGED <<at, todo, left, currentLength, since>>
    BY <1>14 DEF Drain
  <2>4. readBuffer' \in [1..7 -> Int]
    BY <1>1, <2>2, <2>3 DEF TypeInv
  <2>5. count \in 0..currentLength /\ currentLength \in 0..7 /\ left \subseteq 1..3
    BY <1>1 DEF TypeInv, TypeOK
  <2>6. count' \in 0..currentLength'
    BY <2>3, <2>5
  <2>7. /\ cs \in 0..1 /\ exposures \in 1..MaxPicture /\ since \in 0..MaxPicture
        /\ since <= exposures /\ todo \in Seq(Ops) /\ raised \in BOOLEAN
    BY <1>1 DEF TypeInv, TypeOK
  <2>8. TypeOK'
    BY <2>2, <2>3, <2>5, <2>6, <2>7 DEF TypeOK, Shields
  <2>9. QED  BY <2>2, <2>3, <2>4, <2>7, <2>8 DEF TypeInv
<1>15. CASE Drained
  <2>1. todo' \in Seq(Ops)
    BY <1>15, OpsAreOps DEF Drained, Goto
  <2>2. QED  BY <1>3, <1>15, <2>1 DEF Drained, Goto
<1>16. CASE resetFirmware
  <2>1. todo' \in Seq(Ops)
    <3>1. {"RESET", "FRAMES"} \subseteq Written /\ "TIM" \in Read
      BY DEF Written, Read
    <3>2. QED  BY <1>16, <3>1, WriteFramed, ReadFramed, ConcatProperties DEF resetFirmware, Goto
  <2>2. QED  BY <1>3, <1>16, <2>1 DEF resetFirmware, Goto
<1>17. CASE SetBit
  <2>1. todo' \in Seq(Ops)
    <3>1. "TIM" \in Written /\ rx \in Int /\ rx + VSYNC \in Int
      BY <1>1 DEF Written, TypeInv, VSYNC
    <3>2. QED  BY <1>17, <3>1, WriteFramed DEF SetBit, Goto
  <2>2. QED  BY <1>3, <1>17, <2>1 DEF SetBit, Goto
<1>18. QED
  BY <1>4, <1>5, <1>6, <1>7, <1>8, <1>9, <1>10, <1>11, <1>12, <1>13, <1>14, <1>15, <1>16, <1>17
     DEF Next, Steps

(* Each step leaves the shield where the driver has it. *)
LEMMA GotoFollows ==
  ASSUME BusInv, NEW ops, NEW here, NEW there, here # "drain", Goto(here, ops, there), raised,
         \/ ops = <<>> /\ there # "drain"
         \/ ops # <<>> /\ Head(ops)[1] = "low"
  PROVE  Follows'
<1>1. todo = <<>> /\ at # "drain" /\ cs = 1
  BY DEF BusInv, Follows, Goto
<1>2. cs' = 1 /\ todo' = ops /\ at' = there
  BY <1>1 DEF Goto
<1>3. QED  BY <1>2 DEF Follows

(* The chip select has been raised from its first rising edge on.          *)
LEMMA OpRaises ==
  ASSUME TypeInv, NEW op \in Ops, Do(op)
  PROVE  /\ raised => raised'
         /\ op = High => raised'
         /\ raised' /\ ~raised => op = High
<1>1. CASE op = Low
  BY <1>1, DoLow DEF Low, High
<1>2. CASE op = High
  BY <1>2, DoHigh
<1>3. CASE op[1] \notin {"low", "high"}
  <2>1. raised' = raised
    BY <1>3, DoByte DEF Transfer
  <2>2. op # High
    BY <1>3 DEF High
  <2>3. QED  BY <2>1, <2>2, Zenon
<1>4. QED  BY <1>1, <1>2, <1>3, Selects

(* A step of the bus keeps the shield with the driver.                     *)
LEMMA BusFollows ==
  ASSUME TypeInv, BusInv, DrainInv, Bus, raised'
  PROVE  Follows'
<1>1. /\ todo # <<>> /\ todo' = Tail(todo) /\ Head(todo) \in Ops /\ todo \in Seq(Ops)
      /\ Len(todo') = Len(todo) - 1 /\ Len(todo) \in Nat \ {0} /\ Do(Head(todo)) /\ at' = at
  BY BusTakes DEF driver, TypeInv
<1>2. chip \in Shields
  BY DEF TypeInv
<1>3. CASE at = "drain"
  <2>1. Follows
    BY <1>3 DEF BusInv, Lost
  <2>2. CASE todo = <<Low, Burst>>
    <3>0. Head(todo) = Low /\ Low[1] = "low"
      BY <2>2 DEF Low
    <3>1. Do(Low) /\ cs = 1 /\ todo' = <<Burst>>
      BY <1>1, <2>1, <2>2, <3>0 DEF Follows
    <3>2. cs' = 0 /\ chip'.cmd = None
      BY <1>2, <3>1, DoLow DEF Shields
    <3>3. todo' # <<>> /\ Head(todo')[1] = "B"
      BY <3>1, BurstKind
    <3>4. QED  BY <3>2, <3>3 DEF Follows
  <2>3. CASE todo = <<Burst>>
    <3>0. Head(todo) = Burst /\ Burst[1] = "B"
      BY <2>3, BurstKind
    <3>1. Do(Burst) /\ cs = 0 /\ chip.cmd = None /\ todo' = <<>>
      BY <1>1, <2>1, <2>3, <3>0 DEF Follows
    <3>2. cs' = 0 /\ chip'.cmd = Burst
      BY <1>2, <3>1, CommandTaken, OpsAreOps DEF Shields, Burst
    <3>3. QED  BY <1>1, <1>3, <3>1, <3>2 DEF Follows
  <2>4. QED  BY <1>1, <1>3, <2>2, <2>3 DEF DrainInv
<1>4. CASE at # "drain" /\ raised
  <2>1. Follows /\ Framed(todo)
    BY <1>4 DEF BusInv
  <2>2. /\ Head(todo) = todo[1]
        /\ Len(todo) > 1 => todo' # <<>> /\ Head(todo') = todo[2]
        /\ Len(todo) = 1 => todo' = <<>>
    <3>1. Head(todo) = todo[1]
      BY <1>1
    <3>2. Len(todo) > 1 => todo' # <<>> /\ Head(todo') = todo[2]
      BY <1>1, SecondNext
    <3>3. Len(todo) = 1 => todo' = <<>>
      BY <1>1
    <3>4. QED  BY <3>1, <3>2, <3>3
  <2>3. CASE Head(todo)[1] = "low"
    <3>1. Do(Low) /\ cs = 1
      BY <1>1, <2>1, <2>3, Selects DEF Follows
    <3>2. cs' = 0 /\ chip'.cmd = None
      BY <1>2, <3>1, DoLow DEF Shields
    <3>3. todo' # <<>> /\ Head(todo')[1] \in {"W", "R"}
      BY <1>1, <2>1, <2>2, <2>3 DEF Framed
    <3>4. QED  BY <3>2, <3>3 DEF Follows
  <2>4. CASE Head(todo)[1] \in {"W", "R"}
    <3>1. cs = 0 /\ chip.cmd = None
      BY <1>1, <2>1, <2>4 DEF Follows
    <3>2. cs' = 0 /\ chip'.cmd = Head(todo)
      BY <1>1, <1>2, <2>4, <3>1, CommandTaken DEF Shields
    <3>3. todo' # <<>> /\ Head(todo')[1] = "D"
      BY <1>1, <2>1, <2>2, <2>4 DEF Framed
    <3>4. QED  BY <2>4, <3>2, <3>3 DEF Follows
  <2>5. CASE Head(todo)[1] = "D"
    <3>1. cs = 0 /\ chip.cmd[1] \in {"W", "R"}
      BY <1>1, <2>1, <2>5 DEF Follows
    <3>2. cs' = 0
      BY <1>1, <2>5, <3>1, DataTaken
    <3>3. todo' # <<>> /\ Head(todo')[1] = "high"
      BY <1>1, <2>1, <2>2, <2>5 DEF Framed
    <3>4. QED  BY <3>2, <3>3 DEF Follows
  <2>6. CASE Head(todo)[1] = "high"
    <3>1. cs' = 1
      BY <1>1, <2>6, Selects, DoHigh
    <3>2. todo' = <<>> \/ (todo' # <<>> /\ Head(todo')[1] = "low")
      BY <1>1, <2>1, <2>2, <2>6 DEF Framed
    <3>3. QED  BY <1>1, <1>4, <3>1, <3>2 DEF Follows
  <2>7. Head(todo)[1] \in {"low", "high", "W", "R", "D"}
    <3>1. Head(todo)[1] # "B"
      BY <1>1, <2>1, <2>2 DEF Framed
    <3>2. QED  BY <1>1, <3>1 DEF Ops, Bytes
  <2>8. QED  BY <2>3, <2>4, <2>5, <2>6, <2>7
<1>5. CASE ~raised
  <2>1. Head(todo) = High /\ at = "tested" /\ Len(todo) > 4 /\ Framed(todo)
    BY <1>1, <1>5, OpRaises DEF BusInv, Lost
  <2>2. cs' = 1
    BY <1>1, <2>1, DoHigh
  <2>3. todo' # <<>> /\ Head(todo')[1] = "low"
    <3>1. todo[1] = High /\ Len(todo) > 1
      BY <1>1, <2>1
    <3>2. todo[2][1] = "low"
      BY <1>1, <2>1, <3>1 DEF Framed, High
    <3>3. Tail(todo) # <<>> /\ Head(Tail(todo)) = todo[2]
      BY <1>1, <3>1, SecondNext
    <3>4. QED  BY <1>1, <3>2, <3>3
  <2>4. QED  BY <2>2, <2>3 DEF Follows
<1>6. QED  BY <1>3, <1>4, <1>5

(* A test that is over has raised the chip select.                         *)
LEMMA TestedRaised ==
  ASSUME BusInv, Tested
  PROVE  raised
<1>1. at = "tested" /\ todo = <<>> /\ Len(todo) = 0
  BY DEF Tested, Goto
<1>2. QED  BY <1>1 DEF BusInv, Lost

(* The shield takes each byte of a step of the bus for what it was sent as.*)
LEMMA BusTaken ==
  ASSUME TypeInv, BusInv, Bus, raised'
  PROVE  stray' = FALSE
<1>1. todo # <<>> /\ Head(todo) \in Ops /\ Do(Head(todo))
  BY BusTakes
<1>2. CASE Head(todo)[1] \in {"low", "high"}
  BY <1>1, <1>2, Selects, DoLow, DoHigh
<1>3. CASE Head(todo)[1] \notin {"low", "high"}
  <2>1. raised /\ Follows
    BY <1>1, <1>3, OpRaises DEF High, BusInv
  <2>2. CASE Head(todo)[1] \in {"W", "R", "B"}
    <3>1. cs = 0 /\ chip.cmd = None
      BY <1>1, <2>1, <2>2 DEF Follows
    <3>2. QED  BY <1>1, <2>2, <3>1, CommandTaken
  <2>3. CASE Head(todo)[1] = "D"
    <3>1. cs = 0 /\ chip.cmd[1] \in {"W", "R"}
      BY <1>1, <2>1, <2>3 DEF Follows
    <3>2. QED  BY <1>1, <2>3, <3>1, DataTaken
  <2>4. Head(todo)[1] \in {"W", "R", "B", "D"}
    BY <1>1, <1>3 DEF Ops, Bytes
  <2>5. QED  BY <2>2, <2>3, <2>4
<1>4. QED  BY <1>2, <1>3

(* Each step keeps the bus invariant.                                      *)
LEMMA BusStep ==
  ASSUME TypeInv, BusInv, DrainInv, Next
  PROVE  BusInv'
<1>1. CASE Bus
  <2>1. /\ todo # <<>> /\ todo' = Tail(todo) /\ todo \in Seq(Ops) /\ (at # "drain" => Framed(todo'))
        /\ Len(todo') = Len(todo) - 1 /\ Len(todo) \in Nat \ {0} /\ at' = at
    BY <1>1, BusTakes DEF driver, TypeInv
  <2>2. at = "tested" /\ Len(todo') > 4 => todo'[Len(todo') - 4] = High
    BY <2>1 DEF BusInv
  <2>3. raised' => Follows'
    BY <1>1, BusFollows
  <2>4. raised' => stray' = FALSE
    BY <1>1, BusTaken
  <2>5. ASSUME ~raised' PROVE Lost'
    <3>1. ~raised /\ Head(todo) # High
      BY <1>1, <2>5, BusTakes, OpRaises
    <3>2. at = "tested" /\ Len(todo) > 4 /\ todo[Len(todo) - 4] = High
      BY <2>1, <3>1 DEF BusInv, Lost
    <3>3. Len(todo) # 5
      BY <2>1, <3>1, <3>2
    <3>4. QED  BY <2>1, <3>2, <3>3 DEF Lost
  <2>6. QED  BY <2>1, <2>2, <2>3, <2>4, <2>5 DEF BusInv
<1>2. CASE Expose
  <2>1. chip \in Shields /\ UNCHANGED <<at, todo, cs, stray, raised>>
    BY <1>2 DEF Expose, TypeInv
  <2>2. chip'.cmd = chip.cmd
    BY <1>2, <2>1 DEF Expose, Shields
  <2>3. QED  BY <2>1, <2>2 DEF BusInv, Lost, Follows
<1>3. CASE Drain
  <2>1. at = "drain" /\ todo = <<>> /\ UNCHANGED <<at, todo>> /\ Transfer(D(0)) /\ chip \in Shields
    BY <1>3 DEF Drain, TypeInv
  <2>2. cs = 0 /\ chip.cmd = Burst
    BY <2>1 DEF BusInv, Follows, Lost
  <2>3. cs' = 0 /\ raised' = raised /\ stray' = FALSE
    <3>1. stray' = (cs = 1 \/ (chip.cmd = None) = (D(0)[1] = "D"))
      BY <2>1 DEF Transfer
    <3>2. chip.cmd # None /\ D(0)[1] = "D"
      BY <2>2, Kinds DEF D, Burst
    <3>3. (chip.cmd = None) # (D(0)[1] = "D")
      BY <3>2
    <3>4. ~(cs = 1)
      BY <2>2
    <3>5. stray' = FALSE
      BY <3>1, <3>3, <3>4, Zenon
    <3>6. QED  BY <2>1, <2>2, <3>5 DEF Transfer
  <2>4. chip' = chip \/ chip' = [chip EXCEPT !.read = @ + 1]
    BY <2>1, <2>2, Kinds DEF Transfer
  <2>5. chip'.cmd = Burst
    BY <2>1, <2>2, <2>4 DEF Shields
  <2>6. QED  BY <2>1, <2>3, <2>5 DEF BusInv, Lost, Follows
<1>4. CASE Drained
  <2>1. at = "drain" /\ todo = <<>> /\ at' = "captured" /\ todo' = <<High>>
        /\ UNCHANGED <<cs, stray, raised>>
    BY <1>4 DEF Drained, Goto, world
  <2>2. cs = 0
    BY <2>1 DEF BusInv, Follows, Lost
  <2>3. Framed(todo')
    BY <2>1 DEF Framed, High
  <2>4. QED  BY <2>1, <2>2, <2>3 DEF BusInv, Lost, Follows, High
<1>5. Framed(<<>>)
  BY DEF Framed
<1>6. CASE SpiInit
  BY <1>5, <1>6 DEF SpiInit, Goto, world, BusInv, Lost, Follows
<1>7. CASE Test
  <2>1. OK \in Int /\ "TEST1" \in Written /\ "TEST1" \in Read
    BY DEF OK, Written, Read
  <2>2. Script(todo') /\ Len(todo') = 8 /\ todo'[4] = High
    <3> DEFINE s == busWrite("TEST1", OK)
               t == busRead("TEST1")
    <3>1. todo' = s \o t
      BY <1>7 DEF Test, Goto
    <3>2. Script(s) /\ Len(s) = 4 /\ Script(t) /\ Len(t) = 4
      BY <2>1, WriteScript, ReadScript
    <3> HIDE DEF s, t
    <3>3. Script(s \o t) /\ Len(s \o t) = Len(s) + Len(t) /\ (s \o t)[Len(s)] = High
      BY <3>2, ConcatScript
    <3>4. QED  BY <3>1, <3>2, <3>3
  <2>3. at' = "tested" /\ Framed(todo') /\ Head(todo')[1] = "low" /\ todo' # <<>>
        /\ UNCHANGED <<stray, raised>>
    BY <1>7, <2>2, ScriptHead DEF Test, Goto, world
  <2>4. raised => Follows'
    BY <1>7, <2>3, GotoFollows DEF Test, Goto
  <2>5. QED  BY <2>2, <2>3, <2>4 DEF BusInv, Lost
<1>8. CASE Tested
  <2>1. CASE Goto("tested", <<>>, "identify")
    <3>1. Follows'
      BY <2>1, <1>8, TestedRaised, GotoFollows
    <3>2. QED  BY <1>5, <1>8, <2>1, <3>1, TestedRaised DEF BusInv, Goto, world
  <2>2. CASE Goto("tested", <<>>, "test")
    <3>1. Follows'
      BY <2>2, <1>8, TestedRaised, GotoFollows
    <3>2. QED  BY <1>5, <1>8, <2>2, <3>1, TestedRaised DEF BusInv, Goto, world
  <2>3. QED  BY <1>8, <2>1, <2>2 DEF Tested
<1>9. ASSUME NEW here, NEW there, NEW ops, Goto(here, ops, there), Framed(ops),
             here \notin {"off", "crashed", "test", "tested", "drain"},
             there \notin {"off", "crashed", "test", "tested", "drain"},
             \/ ops = <<>>
             \/ ops # <<>> /\ Head(ops)[1] = "low" /\ there \notin {"identify", "length"}
      PROVE  BusInv'
  <2>1. at = here /\ at' = there /\ todo' = ops /\ UNCHANGED <<stray, raised>>
    BY <1>9 DEF Goto, world
  <2>2. raised
    BY <1>9, <2>1 DEF BusInv, Lost
  <2>3. Follows'
    BY <1>9, <2>2, GotoFollows
  <2>4. raised' /\ stray' = FALSE
    BY <2>1, <2>2 DEF BusInv
  <2>5. QED  BY <1>9, <2>1, <2>3, <2>4 DEF BusInv
<1>10. CASE Identify \/ Return
  BY <1>5, <1>9, <1>10 DEF Identify, Return
<1>11. CASE singleCapture
  <2>1. CLEAR \in Int /\ START \in Int /\ "FIFO" \in Written
    BY DEF CLEAR, START, Written
  <2> DEFINE ops == busWrite("FIFO", CLEAR) \o busWrite("FIFO", START)
  <2>2. Script(ops)
    BY <2>1, WriteScript, ConcatScript
  <2>3. Goto("ready", ops, "poll")
    BY <1>11 DEF singleCapture
  <2> HIDE DEF ops
  <2>4. QED  BY <1>9, <2>2, <2>3, ScriptHead
<1>12. CASE Poll
  BY <1>9, <1>12, ReadFramed DEF Poll, Read
<1>13. CASE Polled
  BY <1>5, <1>9, <1>13 DEF Polled
<1>14. CASE readFIFOLength
  <2>1. PICK k \in 1..3 : Goto("length", busRead(SIZE[k]), SIZE[k])
    BY <1>14 DEF readFIFOLength, TypeInv, TypeOK
  <2>2. SIZE[k] \in {"SIZE1", "SIZE2", "SIZE3"}
    BY DEF SIZE
  <2>3. QED  BY <1>9, <2>1, <2>2, ReadFramed DEF Read
<1>15. CASE Length
  <2>1. PICK k \in 1..3 : Goto(SIZE[k], <<>>, "length")
    BY <1>15 DEF Length
  <2>2. SIZE[k] \in {"SIZE1", "SIZE2", "SIZE3"}
    BY DEF SIZE
  <2>3. QED  BY <1>5, <1>9, <2>1, <2>2
<1>16. CASE setFIFOBurst
  <2>1. Goto("length", <<Low, Burst>>, "drain")
    BY <1>16 DEF setFIFOBurst
  <2>2. at = "length" /\ at' = "drain" /\ todo' = <<Low, Burst>> /\ UNCHANGED <<stray, raised>>
    BY <2>1 DEF Goto, world
  <2>3. raised
    BY <2>2 DEF BusInv, Lost
  <2>4. Follows'
    BY <2>1, <2>3, GotoFollows DEF Low
  <2>5. raised' /\ stray' = FALSE
    BY <2>2, <2>3 DEF BusInv
  <2>6. QED  BY <2>2, <2>4, <2>5 DEF BusInv
<1>17. CASE resetFirmware
  <2> DEFINE a == busWrite("RESET", 128) \o busWrite("RESET", 0)
             b == a \o busWrite("FRAMES", 0)
             c == b \o busRead("TIM")
  <2>1. {"RESET", "FRAMES"} \subseteq Written /\ "TIM" \in Read
    BY DEF Written, Read
  <2>2. Script(a)
    BY <2>1, WriteScript, ConcatScript
  <2>3. Script(b)
    <3> HIDE DEF a
    <3>1. QED  BY <2>1, <2>2, WriteScript, ConcatScript
  <2>4. Script(c)
    <3> HIDE DEF b
    <3>1. QED  BY <2>1, <2>3, ReadScript, ConcatScript
  <2>5. Goto("ready", c, "setbit")
    BY <1>17 DEF resetFirmware
  <2> HIDE DEF c
  <2>6. QED  BY <1>9, <2>4, <2>5, ScriptHead
<1>18. CASE SetBit
  <2>1. "TIM" \in Written /\ rx \in Int /\ rx + VSYNC \in Int
    BY DEF Written, TypeInv, VSYNC
  <2> DEFINE v == IF Has(rx, VSYNC) THEN rx ELSE rx + VSYNC
  <2>2. v \in Int /\ Goto("setbit", busWrite("TIM", v), "ready")
    BY <1>18, <2>1 DEF SetBit
  <2> HIDE DEF v
  <2>3. busWrite("TIM", v) # <<>>
    BY DEF busWrite
  <2>4. QED  BY <1>9, <2>1, <2>2, <2>3, WriteFramed
<1>19. QED
  BY <1>1, <1>2, <1>3, <1>4, <1>6, <1>7, <1>8, <1>10, <1>11, <1>12, <1>13, <1>14, <1>15, <1>16,
     <1>17, <1>18
     DEF Next, Steps
-----------------------------------------------------------------------------
(* From the request to the answer of the shield. *)
LEMMA FlushAndStart ==
  busWrite("FIFO", CLEAR) \o busWrite("FIFO", START)
    = <<Low, W("FIFO"), D(CLEAR), High, Low, W("FIFO"), D(START), High>>
<1> DEFINE s == busWrite("FIFO", CLEAR)
           t == busWrite("FIFO", START)
           u == <<Low, W("FIFO"), D(CLEAR), High, Low, W("FIFO"), D(START), High>>
<1>1. CLEAR \in Int /\ START \in Int /\ "FIFO" \in Written
  BY DEF CLEAR, START, Written
<1>2. s \in Seq(Ops) /\ t \in Seq(Ops) /\ Len(s) = 4 /\ Len(t) = 4
  BY <1>1, WriteFramed
<1>3. u \in Seq(Ops) /\ Len(u) = 8
  BY <1>1, OpsAreOps
<1>4. \A i \in 1..8 : u[i] = IF i <= 4 THEN s[i] ELSE t[i - 4]
  BY DEF busWrite
<1> HIDE DEF s, t, u
<1>5. /\ s \o t \in Seq(Ops) /\ Len(s \o t) = 8
      /\ \A i \in 1..8 : (s \o t)[i] = IF i <= 4 THEN s[i] ELSE t[i - 4]
  <2>1. /\ s \o t \in Seq(Ops) /\ Len(s \o t) = Len(s) + Len(t)
        /\ \A i \in 1..(Len(s) + Len(t)) :
             (s \o t)[i] = IF i <= Len(s) THEN s[i] ELSE t[i - Len(s)]
    BY <1>2, ConcatProperties
  <2>2. Len(s) + Len(t) = 8
    BY <1>2
  <2>3. QED  BY <1>2, <2>1, <2>2
<1> DEFINE w == s \o t
<1>6. w = u
  <2>1. w \in Seq(Ops) /\ Len(w) = Len(u) /\ \A i \in 1..Len(w) : w[i] = u[i]
    BY <1>3, <1>4, <1>5
  <2> HIDE DEF w
  <2>2. QED  BY <1>3, <2>1, SeqEqual
<1>7. QED  BY <1>6 DEF s, t, u

(* What the clear and the start command do to the request.                 *)
LEMMA FifoStores ==
  ASSUME TypeInv
  PROVE  /\ LET c == Store(chip, "FIFO", CLEAR) IN
              c \in Shields /\ c.done = FALSE /\ c.exposing = FALSE /\ c.read = 0
         /\ LET c == Store(chip, "FIFO", START) IN
              c \in Shields /\ c.done = chip.done /\ c.exposing = TRUE /\ c.read = chip.read
<1>1. chip \in Shields
  BY DEF TypeInv
<1>2. Store(chip, "FIFO", CLEAR)
        = [chip EXCEPT !.done = FALSE, !.exposing = FALSE, !.length = 0, !.read = 0]
  BY DEF Store, START, CLEAR
<1>3. Store(chip, "FIFO", START) = [chip EXCEPT !.exposing = TRUE]
  BY DEF Store, START, CLEAR
<1>4. Store(chip, "FIFO", CLEAR) \in Shields /\ Store(chip, "FIFO", START) \in Shields
  BY StoreKeeps DEF START, CLEAR
<1>5. QED  BY <1>1, <1>2, <1>3, <1>4 DEF Shields

(* One operation of a transfer that has the driver's shield.               *)
LEMMA TransferLow ==
  ASSUME TypeInv, BusInv, Bus, raised, Head(todo) = Low
  PROVE  chip' = [chip EXCEPT !.cmd = None] /\ rx' = rx /\ UNCHANGED <<at, driver>>
<1>1. Head(todo)[1] = "low" /\ todo # <<>> /\ Do(Low) /\ UNCHANGED <<at, driver>>
  BY BusTakes DEF Low
<1>2. cs = 1
  BY <1>1 DEF BusInv, Follows
<1>3. QED  BY <1>1, <1>2, DoLow

(* The rising edge at the end of a transfer changes nothing else.          *)
LEMMA TransferHigh ==
  ASSUME TypeInv, BusInv, Bus, Head(todo) = High
  PROVE  chip' = chip /\ rx' = rx /\ UNCHANGED <<at, driver>>
  BY BusTakes, DoHigh

(* The command byte becomes the command of the shield.                     *)
LEMMA TransferCommand ==
  ASSUME TypeInv, BusInv, Bus, raised, NEW op \in Ops, Head(todo) = op, op[1] \in {"W", "R", "B"}
  PROVE  chip' = [chip EXCEPT !.cmd = op] /\ UNCHANGED <<at, driver>>
<1>1. todo # <<>> /\ Do(op) /\ UNCHANGED <<at, driver>>
  BY BusTakes
<1>2. cs = 0 /\ chip.cmd = None
  BY <1>1 DEF BusInv, Follows
<1>3. QED  BY <1>1, <1>2, CommandTaken

(* The data byte is stored, or answered with the register.                 *)
LEMMA TransferData ==
  ASSUME TypeInv, BusInv, Bus, raised, NEW v \in Int, Head(todo) = D(v)
  PROVE  /\ UNCHANGED <<at, driver>>
         /\ chip.cmd[1] = "W" => chip' = [Store(chip, chip.cmd[2], v) EXCEPT !.cmd = Over]
         /\ chip.cmd[1] = "R" => rx' = Reply(chip.cmd[2]) /\ chip' = [chip EXCEPT !.cmd = Over]
<1>1. todo # <<>> /\ Do(D(v)) /\ UNCHANGED <<at, driver>> /\ D(v) \in Ops
  BY BusTakes, OpsAreOps
<1>2. D(v)[1] = "D" /\ D(v)[2] = v
  BY DEF D
<1>3. cs = 0 /\ chip.cmd[1] \in {"W", "R"}
  BY <1>1, <1>2 DEF BusInv, Follows
<1>4. QED  BY <1>1, <1>2, <1>3, DataTaken

(* The length is read register by register.                                *)
LEMMA NextRegister ==
  ASSUME TypeInv, readFIFOLength
  PROVE  at' \in {"SIZE1", "SIZE2", "SIZE3"}
<1>1. PICK k \in left : at' = SIZE[k]
  BY DEF readFIFOLength, Goto
<1>2. left \subseteq 1..3
  BY DEF TypeInv, TypeOK
<1>3. k = 1 \/ k = 2 \/ k = 3
  BY <1>2
<1>4. QED  BY <1>1, <1>3 DEF SIZE

(* The request goes from cleared to asked, in the order of the bytes.      *)
LEMMA PollStep ==
  ASSUME IInv, Next
  PROVE  PollInv'
<1> SUFFICES ASSUME at' = "poll" PROVE PollInv'
  BY DEF PollInv
<1>1. TypeInv /\ BusInv /\ PollInv /\ PolledInv /\ chip \in Shields
  BY DEF IInv, TypeInv
<1>2. CASE Bus
  <2>1. at = "poll" /\ raised /\ todo # <<>> /\ todo' = Tail(todo) /\ UNCHANGED <<at, driver>>
    BY <1>1, <1>2, BusTakes DEF BusInv, Lost, driver
  <2>2. "FIFO" \in Written /\ W("FIFO") \in Ops /\ W("FIFO")[1] = "W" /\ W("FIFO")[2] = "FIFO"
    BY OpsAreOps DEF Written, W
  <2>3. CASE todo = <<Low, W("FIFO"), D(CLEAR), High, Low, W("FIFO"), D(START), High>>
    <3>1. todo' = <<W("FIFO"), D(CLEAR), High, Low, W("FIFO"), D(START), High>>
      BY <2>1, <2>3
    <3>2. QED  BY <3>1 DEF PollInv
  <2>4. CASE todo = <<W("FIFO"), D(CLEAR), High, Low, W("FIFO"), D(START), High>>
    <3>1. todo' = <<D(CLEAR), High, Low, W("FIFO"), D(START), High>> /\ Head(todo) = W("FIFO")
      BY <2>1, <2>4
    <3>2. chip' = [chip EXCEPT !.cmd = W("FIFO")]
      BY <1>1, <1>2, <2>1, <2>2, <3>1, TransferCommand
    <3>3. chip'.cmd = W("FIFO")
      BY <1>1, <3>2 DEF Shields
    <3>4. QED  BY <3>1, <3>3 DEF PollInv
  <2>5. CASE todo = <<D(CLEAR), High, Low, W("FIFO"), D(START), High>> /\ chip.cmd = W("FIFO")
    <3>1. todo' = <<High, Low, W("FIFO"), D(START), High>> /\ Head(todo) = D(CLEAR)
      BY <2>1, <2>5
    <3>2. chip' = [Store(chip, "FIFO", CLEAR) EXCEPT !.cmd = Over]
      BY <1>1, <1>2, <2>1, <2>2, <2>5, <3>1, TransferData DEF CLEAR
    <3>3. Cleared'
      BY <1>1, <3>2, FifoStores DEF Shields, Cleared
    <3>4. QED  BY <3>1, <3>3 DEF PollInv
  <2>6. CASE todo = <<High, Low, W("FIFO"), D(START), High>> /\ Cleared
    <3>1. todo' = <<Low, W("FIFO"), D(START), High>> /\ Head(todo) = High
      BY <2>1, <2>6
    <3>2. Cleared'
      BY <1>1, <1>2, <2>6, <3>1, TransferHigh DEF Cleared
    <3>3. QED  BY <3>1, <3>2 DEF PollInv
  <2>7. CASE todo = <<Low, W("FIFO"), D(START), High>> /\ Cleared
    <3>1. todo' = <<W("FIFO"), D(START), High>> /\ Head(todo) = Low
      BY <2>1, <2>7
    <3>2. chip' = [chip EXCEPT !.cmd = None]
      BY <1>1, <1>2, <2>1, <3>1, TransferLow
    <3>3. Cleared'
      BY <1>1, <2>7, <3>2 DEF Cleared, Shields
    <3>4. QED  BY <3>1, <3>3 DEF PollInv
  <2>8. CASE todo = <<W("FIFO"), D(START), High>> /\ Cleared
    <3>1. todo' = <<D(START), High>> /\ Head(todo) = W("FIFO")
      BY <2>1, <2>8
    <3>2. chip' = [chip EXCEPT !.cmd = W("FIFO")]
      BY <1>1, <1>2, <2>1, <2>2, <3>1, TransferCommand
    <3>3. Cleared' /\ chip'.cmd = W("FIFO")
      BY <1>1, <2>8, <3>2 DEF Cleared, Shields
    <3>4. QED  BY <3>1, <3>3 DEF PollInv
  <2>9. CASE todo = <<D(START), High>> /\ Cleared /\ chip.cmd = W("FIFO")
    <3>1. todo' = <<High>> /\ Head(todo) = D(START)
      BY <2>1, <2>9
    <3>2. chip' = [Store(chip, "FIFO", START) EXCEPT !.cmd = Over]
      BY <1>1, <1>2, <2>1, <2>2, <2>9, <3>1, TransferData DEF START
    <3>3. Asked' /\ chip'.read = 0
      BY <1>1, <2>9, <3>2, FifoStores DEF Shields, Cleared, Asked
    <3>4. QED  BY <3>1, <3>3 DEF PollInv
  <2>10. CASE todo \in {<<High>>, <<>>} /\ Asked /\ chip.read = 0
    <3>1. todo' = <<>> /\ Head(todo) = High
      BY <2>1, <2>10
    <3>2. Asked' /\ chip'.read = 0
      BY <1>1, <1>2, <2>1, <2>10, <3>1, TransferHigh DEF Asked, Taken, driver
    <3>3. QED  BY <3>1, <3>2 DEF PollInv
  <2>11. QED
    BY <1>1, <2>1, <2>3, <2>4, <2>5, <2>6, <2>7, <2>8, <2>9, <2>10 DEF PollInv
<1>3. CASE Expose
  <2>1. /\ UNCHANGED <<at, todo, since>> /\ chip.exposing
        /\ chip'.cmd = chip.cmd /\ chip'.exposing = FALSE /\ chip'.done = TRUE /\ chip'.read = 0
        /\ chip'.shot = exposures + 1
    BY <1>1, <1>3 DEF Expose, Shields, driver
  <2>2. Taken'
    BY <1>1, <2>1 DEF Taken, TypeInv, TypeOK
  <2>3. QED  BY <1>1, <2>1, <2>2 DEF PollInv, Cleared, Asked
<1>4. CASE singleCapture
  <2>1. todo' = busWrite("FIFO", CLEAR) \o busWrite("FIFO", START)
    BY <1>4 DEF singleCapture, Goto
  <2>2. QED  BY <2>1, FlushAndStart DEF PollInv
<1>5. CASE Polled
  <2>1. at = "polled" /\ todo' = <<>> /\ UNCHANGED <<chip, since>>
    BY <1>5 DEF Polled, Goto, world, driver
  <2>2. Asked' /\ chip'.read = 0
    BY <1>1, <2>1 DEF PolledInv, Asked, Taken
  <2>3. QED  BY <2>1, <2>2 DEF PollInv
<1>6. Bus \/ Expose \/ singleCapture \/ Polled
  <2>1. ~readFIFOLength
    BY <1>1, NextRegister
  <2>2. ~Length
    BY DEF Length, Goto
  <2>3. QED
    BY <2>1, <2>2 DEF Next, Steps, SpiInit, Test, Tested, Identify, Poll, setFIFOBurst,
         Drain, Drained, Return, resetFirmware, SetBit, Goto
<1>7. QED  BY <1>2, <1>3, <1>4, <1>5, <1>6

(* Reading a register changes nothing of the picture, and the last byte    *)
(* that is received is the register.                                       *)
SamePicture ==
  /\ chip'.done = chip.done /\ chip'.exposing = chip.exposing /\ chip'.shot = chip.shot
  /\ chip'.length = chip.length /\ chip'.read = chip.read

(* Reading a register leaves the picture alone and gives its value.        *)
LEMMA ReadStep ==
  ASSUME TypeInv, BusInv, Bus, raised, NEW reg \in Read, Reading(reg, TRUE)
  PROVE  /\ UNCHANGED <<at, driver>> /\ SamePicture
         /\ \/ todo' \in {<<Low, R(reg), D(0), High>>, <<R(reg), D(0), High>>}
            \/ todo' = <<D(0), High>> /\ chip'.cmd = R(reg)
            \/ todo' = <<High>> /\ rx' = Reply(reg)
            \/ todo' = <<>> /\ todo = <<High>> /\ rx' = rx
<1>1. todo # <<>> /\ todo' = Tail(todo) /\ chip \in Shields
  BY BusTakes DEF TypeInv
<1>2. R(reg) \in Ops /\ R(reg)[1] = "R" /\ R(reg)[2] = reg
  BY OpsAreOps DEF R
<1>3. CASE todo = <<Low, R(reg), D(0), High>>
  <2>1. todo' = <<R(reg), D(0), High>> /\ Head(todo) = Low
    BY <1>1, <1>3
  <2>2. chip' = [chip EXCEPT !.cmd = None] /\ UNCHANGED <<at, driver>>
    BY <2>1, TransferLow
  <2>3. SamePicture
    BY <1>1, <2>2 DEF SamePicture, Shields
  <2>4. QED  BY <2>1, <2>2, <2>3
<1>4. CASE todo = <<R(reg), D(0), High>>
  <2>1. todo' = <<D(0), High>> /\ Head(todo) = R(reg)
    BY <1>1, <1>4
  <2>2. chip' = [chip EXCEPT !.cmd = R(reg)] /\ UNCHANGED <<at, driver>>
    BY <1>2, <2>1, TransferCommand
  <2>3. SamePicture /\ chip'.cmd = R(reg)
    BY <1>1, <2>2 DEF SamePicture, Shields
  <2>4. QED  BY <2>1, <2>2, <2>3
<1>5. CASE todo = <<D(0), High>> /\ chip.cmd = R(reg)
  <2>1. todo' = <<High>> /\ Head(todo) = D(0)
    BY <1>1, <1>5
  <2>2. chip' = [chip EXCEPT !.cmd = Over] /\ rx' = Reply(reg) /\ UNCHANGED <<at, driver>>
    BY <1>2, <1>5, <2>1, TransferData
  <2>3. SamePicture
    BY <1>1, <2>2 DEF SamePicture, Shields
  <2>4. QED  BY <2>1, <2>2, <2>3
<1>6. CASE todo = <<High>>
  <2>1. todo' = <<>> /\ Head(todo) = High
    BY <1>1, <1>6
  <2>2. chip' = chip /\ rx' = rx /\ UNCHANGED <<at, driver>>
    BY <2>1, TransferHigh
  <2>3. QED  BY <1>6, <2>1, <2>2 DEF SamePicture
<1>7. QED  BY <1>1, <1>3, <1>4, <1>5, <1>6 DEF Reading

(* The flag is read as set only when the picture is there.                 *)
LEMMA PolledStep ==
  ASSUME IInv, Next
  PROVE  PolledInv'
<1> SUFFICES ASSUME at' = "polled" PROVE PolledInv'
  BY DEF PolledInv
<1>1. TypeInv /\ BusInv /\ PollInv /\ PolledInv /\ chip \in Shields
  BY DEF IInv, TypeInv
<1>2. CASE Bus
  <2>1. at = "polled" /\ raised
    BY <1>1, <1>2, BusTakes DEF BusInv, Lost
  <2>2. Reading("TRIG", TRUE) /\ Asked /\ chip.read = 0 /\ "TRIG" \in Read
    BY <1>1, <2>1 DEF PolledInv, Reading, Read
  <2>3. /\ UNCHANGED <<at, driver>> /\ SamePicture
        /\ \/ todo' \in {<<Low, R("TRIG"), D(0), High>>, <<R("TRIG"), D(0), High>>}
           \/ todo' = <<D(0), High>> /\ chip'.cmd = R("TRIG")
           \/ todo' = <<High>> /\ rx' = Reply("TRIG")
           \/ todo' = <<>> /\ todo = <<High>> /\ rx' = rx
    BY <1>1, <1>2, <2>1, <2>2, ReadStep
  <2>4. Asked' /\ chip'.read = 0
    BY <2>2, <2>3 DEF Asked, Taken, SamePicture, driver
  <2>5. CASE todo' = <<High>> /\ rx' = Reply("TRIG")
    <3>1. rx' = 0 \/ (rx' = CAP_DONE /\ chip'.done)
      BY <1>1, <2>3, <2>5, Replies DEF SamePicture
    <3>2. QED  BY <2>4, <2>5, <3>1 DEF PolledInv, Reading
  <2>6. CASE todo' = <<>> /\ todo = <<High>> /\ rx' = rx
    <3>1. rx = 0 \/ (rx = CAP_DONE /\ chip.done)
      BY <1>1, <2>1, <2>6 DEF PolledInv, Reading
    <3>2. QED  BY <2>3, <2>4, <2>6, <3>1 DEF PolledInv, Reading, SamePicture
  <2>7. CASE \/ todo' \in {<<Low, R("TRIG"), D(0), High>>, <<R("TRIG"), D(0), High>>}
             \/ todo' = <<D(0), High>> /\ chip'.cmd = R("TRIG")
    BY <2>4, <2>7 DEF PolledInv, Reading
  <2>8. QED  BY <2>3, <2>5, <2>6, <2>7
<1>3. CASE Expose
  <2>1. /\ UNCHANGED <<at, todo, rx, since>> /\ chip.exposing
        /\ chip'.cmd = chip.cmd /\ chip'.exposing = FALSE /\ chip'.done = TRUE /\ chip'.read = 0
        /\ chip'.shot = exposures + 1
    BY <1>1, <1>3 DEF Expose, Shields, driver
  <2>2. Asked'
    BY <1>1, <2>1 DEF Taken, Asked, TypeInv, TypeOK
  <2>3. QED  BY <1>1, <2>1, <2>2 DEF PolledInv, Reading
<1>4. CASE Poll
  <2>1. at = "poll" /\ todo = <<>> /\ todo' = busRead("TRIG") /\ UNCHANGED <<chip, since>>
    BY <1>4 DEF Poll, Goto, world, driver
  <2>2. Asked /\ chip.read = 0
    BY <1>1, <2>1 DEF PollInv
  <2>3. Asked' /\ chip'.read = 0
    BY <2>1, <2>2 DEF Asked, Taken
  <2>4. QED  BY <2>1, <2>3 DEF PolledInv, Reading, busRead
<1>5. Bus \/ Expose \/ Poll
  <2>1. ~readFIFOLength
    BY <1>1, NextRegister
  <2>2. ~Length
    BY DEF Length, Goto
  <2>3. QED
    BY <2>1, <2>2 DEF Next, Steps, SpiInit, Test, Tested, Identify, Polled, setFIFOBurst,
         Drain, Drained, Return, resetFirmware, SetBit, singleCapture, Goto
<1>6. QED  BY <1>2, <1>3, <1>4, <1>5
-----------------------------------------------------------------------------
(* The length, and the picture. *)
Answering == {"length", "SIZE1", "SIZE2", "SIZE3", "drain", "captured"}

(* Once the shield has the picture it has no other one.                    *)
LEMMA NoExposure ==
  ASSUME LengthInv, at \in Answering
  PROVE  ~Expose
  BY DEF LengthInv, Answering, Taken, Expose

(* What the known digits depend on.                                        *)
LEMMA SameDigits ==
  ASSUME chip'.length = chip.length
  PROVE  /\ \A k : Digit(k)' = Digit(k)
         /\ \A m : Known(m)' = Known(m)
<1>1. \A k : Digit(k)' = Digit(k)
  BY DEF Digit
<1>2. \A k, m : Got(k, m)' = Got(k, m)
  BY <1>1 DEF Got
<1>3. QED  BY <1>1, <1>2 DEF Known

(* The bytes before and after the burst leave the picture alone.           *)
LEMMA LastBus ==
  ASSUME TypeInv, BusInv, DrainInv, Bus, at \in {"drain", "captured"}
  PROVE  UNCHANGED <<at, driver>> /\ SamePicture
<1>1. todo # <<>> /\ chip \in Shields /\ raised
  BY BusTakes DEF TypeInv, BusInv, Lost
<1>2. CASE todo = <<Low, Burst>>
  <2>1. Head(todo) = Low
    BY <1>2
  <2>2. QED  BY <1>1, <2>1, TransferLow DEF SamePicture, Shields
<1>3. CASE todo = <<Burst>>
  <2>1. Head(todo) = Burst
    BY <1>3
  <2>2. chip' = [chip EXCEPT !.cmd = Burst] /\ UNCHANGED <<at, driver>>
    BY <1>1, <2>1, TransferCommand, BurstKind, OpsAreOps
  <2>3. QED  BY <1>1, <2>2 DEF SamePicture, Shields
<1>4. CASE todo = <<High>>
  <2>1. Head(todo) = High
    BY <1>4
  <2>2. QED  BY <1>1, <2>1, TransferHigh DEF SamePicture, Shields
<1>5. QED  BY <1>1, <1>2, <1>3, <1>4 DEF DrainInv

(* Each register that is read adds its digit to currentLength.             *)
LEMMA LengthStep ==
  ASSUME IInv, Next
  PROVE  LengthInv'
<1> SUFFICES ASSUME at' \in Answering PROVE LengthInv'
  BY DEF LengthInv, Answering, SIZE
<1>1. /\ TypeInv /\ BusInv /\ PolledInv /\ LengthInv /\ DrainInv /\ chip \in Shields
      /\ left \in SUBSET (1..3) /\ count \in Nat
  <2>1. TypeInv /\ BusInv /\ PolledInv /\ LengthInv /\ DrainInv
    BY DEF IInv
  <2>2. chip \in Shields /\ TypeOK
    BY <2>1 DEF TypeInv
  <2>3. left \in SUBSET (1..3) /\ currentLength \in Nat /\ count \in 0..currentLength
    BY <2>2 DEF TypeOK
  <2>4. QED  BY <2>1, <2>2, <2>3
<1>2. \A k \in 1..3 : SIZE[k] \in Read /\ SIZE[k] \in {"SIZE1", "SIZE2", "SIZE3"}
  BY DEF SIZE, Read
<1>3. \A j, k \in 1..3 : SIZE[j] = SIZE[k] => j = k
  BY DEF SIZE
<1>4. CASE Bus
  <2>1. UNCHANGED at /\ raised /\ todo # <<>> /\ at # "length"
    BY <1>1, <1>4, BusTakes DEF Lost, Answering, BusInv
  <2>2. CASE at \in {"drain", "captured"}
    <3>1. UNCHANGED <<at, driver>> /\ SamePicture
      BY <1>1, <1>4, <2>2, LastBus
    <3>2. Taken'
      BY <1>1, <2>2, <3>1 DEF LengthInv, Taken, SamePicture, driver
    <3>3. QED  BY <1>2, <2>1, <2>2, <3>2 DEF LengthInv
  <2>3. ASSUME NEW k \in 1..3, at = SIZE[k] PROVE LengthInv'
    <3>1. /\ Taken /\ k \notin left /\ chip.read = 0 /\ currentLength = Known(left \cup {k})
          /\ Reading(SIZE[k], TRUE)
      BY <1>1, <1>2, <2>3 DEF LengthInv, Reading
    <3>2. /\ UNCHANGED <<at, driver>> /\ SamePicture
          /\ \/ todo' \in {<<Low, R(SIZE[k]), D(0), High>>, <<R(SIZE[k]), D(0), High>>}
             \/ todo' = <<D(0), High>> /\ chip'.cmd = R(SIZE[k])
             \/ todo' = <<High>> /\ rx' = Reply(SIZE[k])
             \/ todo' = <<>> /\ todo = <<High>> /\ rx' = rx
      BY <1>1, <1>2, <1>4, <2>1, <3>1, ReadStep
    <3>3. Taken' /\ chip'.read = 0 /\ left' = left /\ currentLength' = currentLength
      BY <3>1, <3>2 DEF Taken, SamePicture, driver
    <3>4. Digit(k)' = Digit(k) /\ Known(left \cup {k})' = Known(left \cup {k})
      <4>1. chip'.length = chip.length
        BY <3>2 DEF SamePicture
      <4>2. QED  BY <3>3, <4>1 DEF Known, Got, Digit
    <3>5. todo' \in {<<High>>, <<>>} => rx' = Digit(k)
      <4>1. todo = <<High>> => rx = Digit(k)
        BY <1>1, <2>3 DEF LengthInv, Reading
      <4>2. Reply(SIZE[k]) = Digit(k)
        BY <1>1, Replies
      <4>3. todo' = <<High>> => rx' = Reply(SIZE[k])
        BY <3>2
      <4>4. todo' = <<>> => todo = <<High>> /\ rx' = rx
        BY <3>2
      <4>5. QED  BY <3>4, <4>1, <4>2, <4>3, <4>4
    <3>6. Reading(SIZE[k], rx = Digit(k))'
      BY <3>2, <3>4, <3>5 DEF Reading
    <3>7. at' = SIZE[k] /\ at' # "length"
      BY <1>2, <2>1, <2>3
    <3>8. ASSUME NEW j \in 1..3, at' = SIZE[j]
          PROVE  (j \notin left /\ chip.read = 0 /\ currentLength = Known(left \cup {j})
                   /\ Reading(SIZE[j], rx = Digit(j)))'
      <4>1. j = k
        BY <1>3, <3>7, <3>8
      <4>2. QED  BY <3>1, <3>3, <3>4, <3>6, <4>1
    <3>9. QED  BY <3>3, <3>7, <3>8 DEF LengthInv
  <2>4. QED  BY <2>1, <2>2, <2>3 DEF Answering, SIZE
<1>5. CASE Expose
  BY <1>1, <1>5, NoExposure DEF Expose
<1>6. CASE Polled
  <2>1. /\ at = "polled" /\ at' = "length" /\ todo = <<>> /\ Has(rx, CAP_DONE) /\ UNCHANGED <<chip, since>>
        /\ left' = {1, 2, 3} /\ currentLength' = 0
    BY <1>6 DEF Polled, Goto, world, driver, Answering
  <2>2. Asked /\ chip.read = 0 /\ (rx = 0 \/ (rx = CAP_DONE /\ chip.done))
    BY <1>1, <2>1 DEF PolledInv, Reading
  <2>3. chip.done
    BY <2>1, <2>2 DEF Has, CAP_DONE
  <2>4. Taken'
    BY <2>1, <2>2, <2>3 DEF Asked, Taken
  <2>5. Known(left)' = 0
    <3>1. Known({1, 2, 3})' = Known({1, 2, 3})
      BY <2>1, SameDigits
    <3>2. Known(left)' = Known({1, 2, 3})'
      BY <2>1 DEF Known, Got
    <3>3. QED  BY <1>1, <3>1, <3>2, Digits
  <2>6. QED  BY <1>2, <2>1, <2>2, <2>4, <2>5 DEF LengthInv
<1>7. CASE readFIFOLength
  <2>1. PICK k \in left : Goto("length", busRead(SIZE[k]), SIZE[k]) /\ left' = left \ {k}
    BY <1>7 DEF readFIFOLength
  <2>2. /\ at = "length" /\ at' = SIZE[k] /\ todo' = busRead(SIZE[k]) /\ k \in 1..3
        /\ UNCHANGED <<chip, since, currentLength>>
    BY <1>1, <1>7, <2>1 DEF readFIFOLength, Goto, world
  <2>3. Taken' /\ chip'.read = 0 /\ currentLength = Known(left)
    BY <1>1, <2>2 DEF LengthInv, Taken
  <2>4. left' \cup {k} = left
    BY <2>1
  <2>5. Known(left \cup {k})' = Known(left)
    BY <2>2, <2>4 DEF Known, Got, Digit
  <2>6. Reading(SIZE[k], rx = Digit(k))'
    BY <2>2 DEF Reading, busRead
  <2>7. ASSUME NEW j \in 1..3, at' = SIZE[j]
        PROVE  (j \notin left /\ chip.read = 0 /\ currentLength = Known(left \cup {j})
                 /\ Reading(SIZE[j], rx = Digit(j)))'
    <3>1. j = k
      BY <1>3, <2>2, <2>7
    <3>2. QED  BY <2>1, <2>2, <2>3, <2>5, <2>6, <3>1
  <2>8. QED  BY <1>2, <2>2, <2>3, <2>7 DEF LengthInv
<1>8. CASE Length
  <2>1. PICK k \in 1..3 : Goto(SIZE[k], <<>>, "length") /\ currentLength' = currentLength + rx * 2^(k - 1)
    BY <1>8 DEF Length
  <2>2. at = SIZE[k] /\ at' = "length" /\ todo = <<>> /\ UNCHANGED <<chip, since, left>>
    BY <1>8, <2>1 DEF Length, Goto, world
  <2>3. /\ Taken /\ chip.read = 0 /\ k \notin left /\ currentLength = Known(left \cup {k})
        /\ rx = Digit(k)
    BY <1>1, <1>2, <2>2 DEF LengthInv, Reading
  <2>4. currentLength' = Known(left)
    BY <1>1, <2>1, <2>3, Digits
  <2>5. Known(left)' = Known(left) /\ Taken' /\ chip'.read = 0
    BY <2>2, <2>3 DEF Known, Got, Digit, Taken
  <2>6. QED  BY <1>2, <2>2, <2>4, <2>5 DEF LengthInv
<1>9. CASE setFIFOBurst
  <2>1. at = "length" /\ at' = "drain" /\ UNCHANGED <<chip, since>>
    BY <1>9 DEF setFIFOBurst, Goto, world
  <2>2. Taken'
    BY <1>1, <2>1 DEF LengthInv, Taken
  <2>3. QED  BY <1>2, <2>1, <2>2 DEF LengthInv
<1>10. CASE Drain
  <2>1. at = "drain" /\ UNCHANGED <<at, since>> /\ Transfer(D(0)) /\ todo = <<>>
    BY <1>10 DEF Drain
  <2>2. cs = 0 /\ chip.cmd = Burst
    BY <1>1, <2>1 DEF BusInv, Follows, Lost
  <2>3. chip' = chip \/ chip' = [chip EXCEPT !.read = @ + 1]
    BY <2>1, <2>2, Kinds DEF Transfer
  <2>4. Taken'
    BY <1>1, <2>1, <2>3 DEF LengthInv, Taken, Shields
  <2>5. QED  BY <1>2, <2>1, <2>4 DEF LengthInv
<1>11. CASE Drained
  <2>1. at = "drain" /\ at' = "captured" /\ UNCHANGED <<chip, since>>
    BY <1>11 DEF Drained, Goto, world, driver
  <2>2. Taken'
    BY <1>1, <2>1 DEF LengthInv, Taken
  <2>3. QED  BY <1>2, <2>1, <2>2 DEF LengthInv
<1>12. \/ Bus \/ Expose \/ Polled \/ readFIFOLength \/ Length \/ setFIFOBurst \/ Drain
       \/ Drained
  BY DEF Next, Steps, SpiInit, Test, Tested, Identify, Poll, Return, resetFirmware, SetBit,
         singleCapture, Goto, Answering
<1>13. QED
  BY <1>4, <1>5, <1>6, <1>7, <1>8, <1>9, <1>10, <1>11, <1>12

(* The bytes that readBuffer has been given stay what they are.            *)
LEMMA HoldsKept ==
  ASSUME NEW n \in Int, Holds(n), readBuffer' = readBuffer, chip'.shot = chip.shot
  PROVE  Holds(n)'
  BY DEF Holds

(* Each byte of the burst extends what readBuffer holds.                   *)
LEMMA DrainStep ==
  ASSUME IInv, Next
  PROVE  DrainInv'
<1> SUFFICES ASSUME at' \in {"drain", "captured"} PROVE DrainInv'
  BY DEF DrainInv
<1>1. /\ TypeInv /\ BusInv /\ LengthInv /\ DrainInv /\ chip \in Shields
      /\ chip.length \in 0..7 /\ chip.read \in 0..chip.length
  BY LengthRange DEF IInv, TypeInv, TypeOK
<1>2. CASE Bus
  <2>1. UNCHANGED <<at, driver>> /\ SamePicture /\ todo' = Tail(todo)
    <3>1. at' = at
      BY <1>1, <1>2, BusTakes
    <3>2. QED  BY <1>1, <1>2, <3>1, BusTakes, LastBus
  <2>2. /\ UNCHANGED <<at, currentLength, count, readBuffer>>
        /\ chip'.length = chip.length /\ chip'.read = chip.read /\ chip'.shot = chip.shot
    BY <2>1 DEF SamePicture, driver
  <2>3. CASE at = "drain"
    <3>1. todo \in {<<Low, Burst>>, <<Burst>>} /\ Holds(chip.read)
      BY <1>1, <1>2, <2>3 DEF DrainInv, Bus
    <3>2. todo' \in {<<Burst>>, <<>>}
      <4>1. Tail(<<Low, Burst>>) = <<Burst>> /\ Tail(<<Burst>>) = <<>>
        OBVIOUS
      <4>2. QED  BY <2>1, <3>1, <4>1
    <3>3. QED  BY <1>1, <2>2, <2>3, <3>1, <3>2 DEF DrainInv, Holds
  <2>4. CASE at = "captured"
    <3>1. todo = <<High>> /\ Holds(currentLength)
      BY <1>1, <1>2, <2>4 DEF DrainInv, Bus
    <3>2. todo' = <<>>
      BY <2>1, <3>1
    <3>3. QED  BY <1>1, <2>2, <2>4, <3>1, <3>2 DEF DrainInv, Holds
  <2>5. QED  BY <2>2, <2>3, <2>4
<1>3. CASE Expose
  <2>1. at \in Answering
    BY <1>3 DEF Expose, Answering
  <2>2. QED  BY <1>1, <1>3, <2>1, NoExposure
<1>4. CASE setFIFOBurst
  <2>1. /\ at = "length" /\ at' = "drain" /\ todo' = <<Low, Burst>> /\ left = {}
        /\ count' = currentLength /\ UNCHANGED <<chip, currentLength, readBuffer>>
    BY <1>4 DEF setFIFOBurst, Goto, world
  <2>2. currentLength = chip.length /\ chip.read = 0
    BY <1>1, <2>1, Digits DEF LengthInv
  <2>3. Holds(chip.read)'
    BY <2>1, <2>2 DEF Holds
  <2>4. QED  BY <1>1, <2>1, <2>2, <2>3 DEF DrainInv
<1>5. CASE Drain
  <2>1. /\ at = "drain" /\ at' = at /\ todo = <<>> /\ todo' = todo /\ count > 0
        /\ Transfer(D(0)) /\ count' = count - 1 /\ currentLength' = currentLength
        /\ readBuffer' = [readBuffer EXCEPT ![currentLength - count + 1] = rx']
    BY <1>5 DEF Drain
  <2>2. currentLength = chip.length /\ count = currentLength - chip.read /\ Holds(chip.read)
    BY <1>1, <2>1 DEF DrainInv
  <2>3. cs = 0 /\ chip.cmd = Burst
    BY <1>1, <2>1 DEF BusInv, Follows, Lost
  <2>4. chip.read < chip.length /\ chip.read + 1 \in 1..7
        /\ currentLength - count + 1 = chip.read + 1
    <3>1. chip.read \in Int /\ chip.length \in Int /\ 0 <= chip.read /\ chip.length <= 7
      BY <1>1
    <3>2. chip.length - chip.read > 0
      BY <2>1, <2>2
    <3>3. chip.read < chip.length
      BY <3>1, <3>2
    <3>4. currentLength - count + 1 = chip.read + 1
      BY <2>2, <3>1
    <3>5. QED  BY <3>1, <3>3, <3>4
  <2>5. rx' = 10 * chip.shot + chip.read + 1 /\ chip' = [chip EXCEPT !.read = @ + 1]
    <3>1. Burst # None /\ Burst[1] \notin {"W", "R", "over", "D"}
      BY Kinds DEF Burst
    <3>2. /\ cs # 1 /\ chip.cmd # None
          /\ chip.cmd[1] # "W" /\ chip.cmd[1] # "R" /\ chip.cmd[1] \notin {"over", "D"}
      BY <2>3, <3>1
    <3>3. IF chip.read < chip.length
          THEN /\ rx' = 10 * chip.shot + chip.read + 1
               /\ chip' = [chip EXCEPT !.read = @ + 1]
          ELSE rx' = Junk /\ UNCHANGED chip
      BY <2>1, <3>2, Zenon DEF Transfer
    <3>4. QED  BY <2>4, <3>3
  <2>6. /\ chip'.read = chip.read + 1 /\ chip'.shot = chip.shot /\ chip'.length = chip.length
    BY <1>1, <2>5 DEF Shields
  <2>7. Holds(chip.read)'
    <3>1. readBuffer \in [1..7 -> Int] /\ chip.shot \in Int
      BY <1>1 DEF TypeInv, Shields
    <3>2. ASSUME NEW i \in 1..chip.read + 1 PROVE readBuffer'[i] = 10 * chip.shot + i
      <4>1. chip.read \in Int /\ i \in Int /\ 1 <= i /\ i <= chip.read + 1
        BY <1>1, <3>2
      <4>2. CASE i = chip.read + 1
        <5>1. readBuffer'[i] = rx'
          BY <2>1, <2>4, <3>1, <4>2
        <5>2. QED  BY <2>5, <3>1, <4>1, <4>2, <5>1
      <4>3. CASE i # chip.read + 1
        <5>1. i \in 1..chip.read
          BY <4>1, <4>3
        <5>2. readBuffer[i] = 10 * chip.shot + i
          BY <2>2, <5>1 DEF Holds
        <5>3. readBuffer'[i] = readBuffer[i]
          BY <2>1, <2>4, <3>1, <4>1, <4>3
        <5>4. QED  BY <5>2, <5>3
      <4>4. QED  BY <4>2, <4>3
    <3>3. QED  BY <2>6, <3>2 DEF Holds
  <2>8. count' = currentLength' - chip'.read
    <3>1. chip.read \in Int /\ chip.length \in Int
      BY <1>1
    <3>2. currentLength' = chip.length /\ count' = chip.length - chip.read - 1
      BY <2>1, <2>2
    <3>3. QED  BY <2>6, <3>1, <3>2
  <2>9. currentLength' = chip'.length /\ todo' = <<>> /\ at' = "drain"
    BY <2>1, <2>2, <2>6
  <2>10. QED  BY <2>7, <2>8, <2>9 DEF DrainInv
<1>6. CASE Drained
  <2>1. /\ at = "drain" /\ at' = "captured" /\ count = 0 /\ todo' = <<High>>
        /\ UNCHANGED <<chip, currentLength, readBuffer>>
    BY <1>6 DEF Drained, Goto, world, driver
  <2>2. currentLength = chip.length /\ Holds(currentLength)
    BY <1>1, <2>1 DEF DrainInv
  <2>3. QED  BY <2>1, <2>2 DEF DrainInv, Holds
<1>7. Bus \/ Expose \/ setFIFOBurst \/ Drain \/ Drained
  <2>1. ~readFIFOLength
    BY <1>1, NextRegister
  <2>2. QED
    BY <2>1 DEF Next, Steps, SpiInit, Test, Tested, Identify, Poll, Polled, Length, Return,
         resetFirmware, SetBit, singleCapture, Goto
<1>8. QED  BY <1>2, <1>3, <1>4, <1>5, <1>6, <1>7
-----------------------------------------------------------------------------
(* The run starts wherever a killed one left the shield.                   *)
LEMMA InitInv ==
  ASSUME Init
  PROVE  IInv
<1>1. /\ at = "off" /\ todo = <<>> /\ rx = Junk /\ count = 0 /\ left = {} /\ currentLength = 0
      /\ cs \in 0..1 /\ exposures = 1 /\ since = 0 /\ stray = FALSE /\ raised = FALSE
      /\ readBuffer = [i \in 1..7 |-> 0]
  BY DEF Init
<1>2. MaxPicture \in Nat \ {0} /\ Lengths \subseteq 0..7
  BY CameraDriverAssumption
<1>3. /\ chip.cmd \in {None, W("FIFO"), W("TEST1"), R("TRIG"), Burst}
      /\ chip.length \in Lengths /\ chip.shot = 1 /\ chip.read = 0
      /\ chip \in [cmd : {None, W("FIFO"), W("TEST1"), R("TRIG"), Burst},
                    test : {0, OK}, tim : {0, 1}, done : BOOLEAN, exposing : BOOLEAN,
                    shot : {1}, length : Lengths, read : {0}]
  BY DEF Init
<1>4. {None, W("FIFO"), W("TEST1"), R("TRIG"), Burst} \subseteq Commands
  <2>1. None \in {"none", "over"} \X {""} /\ Burst \in {"B"} \X {""}
    BY DEF None, Burst
  <2>2. W("FIFO") \in {"W"} \X Written /\ W("TEST1") \in {"W"} \X Written
    BY DEF W, Written
  <2>3. R("TRIG") \in {"R"} \X Read
    BY DEF R, Read
  <2>4. QED  BY <2>1, <2>2, <2>3 DEF Commands, Bytes
<1>5. chip \in Shields
  BY <1>2, <1>3, <1>4 DEF Shields, OK
<1>6. TypeInv
  <2>1. chip.length \in 0..7
    BY <1>2, <1>3
  <2>2. chip.read \in 0..chip.length
    BY <1>3, <2>1
  <2>3. exposures \in 1..MaxPicture /\ since \in 0..MaxPicture /\ chip.shot \in 1..MaxPicture
    BY <1>1, <1>2, <1>3
  <2>4. TypeOK
    <3>1. cs \in 0..1 /\ left \subseteq 1..3 /\ stray \in BOOLEAN /\ raised \in BOOLEAN
          /\ chip.length \in Lengths \cup {0}
      BY <1>1, <1>3
    <3>2. currentLength \in 0..7 /\ count \in 0..currentLength
      BY <1>1
    <3>3. QED  BY <2>2, <2>3, <3>1, <3>2 DEF TypeOK
  <2>5. QED  BY <1>1, <1>5, <2>4 DEF TypeInv, Junk
<1>7. BusInv /\ PollInv /\ PolledInv /\ LengthInv /\ DrainInv
  BY <1>1 DEF BusInv, Framed, Lost, PollInv, PolledInv, LengthInv, SIZE, DrainInv
<1>8. QED  BY <1>6, <1>7 DEF IInv

(* A step that changes nothing keeps the invariant.                        *)
LEMMA StutterInv ==
  ASSUME IInv, UNCHANGED vars
  PROVE  IInv'
<1>1. UNCHANGED <<at, todo, cs, rx, left, currentLength, readBuffer, count, since, chip,
                  exposures, stray, raised>>
  BY DEF vars, driver, world
<1>2. TypeInv' /\ BusInv' /\ PollInv' /\ PolledInv'
  BY <1>1 DEF IInv, TypeInv, TypeOK, Shields, BusInv, Framed, Lost, Follows, PollInv,
              PolledInv, Reading, Asked, Taken, Cleared
<1>3. LengthInv' /\ DrainInv'
  BY <1>1 DEF IInv, LengthInv, DrainInv, Reading, Taken, Known, Got, Digit, Holds
<1>4. QED  BY <1>2, <1>3 DEF IInv

(* IInv is inductive: it holds along every run of the driver.              *)
THEOREM Invariance == Spec => []IInv
<1>1. Init => IInv
  BY InitInv
<1>2. IInv /\ [Next]_vars => IInv'
  <2> SUFFICES ASSUME IInv, [Next]_vars PROVE IInv'
    OBVIOUS
  <2>1. CASE Next
    <3>1. TypeInv' /\ BusInv'
      BY <2>1, TypeStep, BusStep DEF IInv
    <3>2. PollInv' /\ PolledInv'
      BY <2>1, PollStep, PolledStep
    <3>3. LengthInv' /\ DrainInv'
      BY <2>1, LengthStep, DrainStep
    <3>4. QED  BY <3>1, <3>2, <3>3 DEF IInv
  <2>2. CASE UNCHANGED vars
    BY <2>2, StutterInv
  <2>3. QED  BY <2>1, <2>2
<1>3. QED  BY <1>1, <1>2, PTL DEF Spec

(* The three digits make up a length in range, and readBuffer is written   *)
(* within that length.                                                     *)
THEOREM TypeCorrect == Spec => []TypeOK
<1>1. IInv => TypeOK
  BY DEF IInv, TypeInv
<1>2. QED  BY <1>1, Invariance, PTL

(* When singleCapture returns, readBuffer holds one whole picture that was *)
(* exposed after the call, whatever was left in the FIFO before.           *)
THEOREM FreshCaptureHolds == Spec => []FreshCapture
<1>1. IInv => FreshCapture
  BY DEF IInv, FreshCapture, LengthInv, Taken, DrainInv, Holds
<1>2. QED  BY <1>1, Invariance, PTL

(* From the first time that the driver raises the chip select, which is in *)
(* the SPI test of init(), the shield takes every byte for what it was sent*)
(* as, in each repetition of the test and in every call, whatever state the*)
(* run found the shield and the chip select in.                            *)
THEOREM NoStrayByteHolds == Spec => []NoStrayByte
<1>1. IInv => NoStrayByte
  BY DEF IInv, BusInv, NoStrayByte
<1>2. QED  BY <1>1, Invariance, PTL
-----------------------------------------------------------------------------
(* The inductive invariant behind SettingsInForce and FormatKept. *)

(* The registers that the accesses of a call go to.                        *)
Sizes     == {\h3808, \h3809, \h380a, \h380b}
FormatOf  == {\h3621, \h3818, \h4300, \h4407, \h4713, \h5002, \h501f}
Reach(c) ==
  CASE c.op = "init"       -> Registers \cup {SYSTEM}
    [] c.op = "resolution" -> Sizes \cup IF c.arg # 2048 THEN {\h5001} ELSE FormatOf
    [] c.op = "saturation" -> {\h5001, \h5580, \h5583, \h5584}
    [] c.op = "brightness" -> {\h5001, \h5580, \h5589, \h558a}
    [] c.op = "effect"     -> {\h5001, \h5580, \h5585, \h5586}
    [] c.op = "sharpness"  -> {\h530a, \h530c, \h530d, \h5312, \h531e, \h531f}

AccessesTo(Regs) == {"W", "R", "or", "and"} \X Regs \X Int

(* Those of row's accesses that are numbered from..to do not write reg.    *)
Untouched(row, from, to, reg) ==
  \A i \in from..to : row[i][1] = "R" \/ row[i][2] \notin {reg, SYSTEM}

(* The last of row's first n accesses to write reg gives it the value val. *)
Writes(row, n, reg, val) ==
  \E k \in 1..n : row[k] = wr(reg, val) /\ Untouched(row, k + 1, n, reg)

(* Once the first n accesses of due are taken reg has the value val.       *)
WillHold(n, reg, val) ==
  \/ Untouched(due, 1, n, reg) /\ regs[reg] = val
  \/ Writes(due, n, reg, val)

(* An access that makes new of the register's value old.                   *)
Changes(access, reg, old, new) ==
  \/ access[1] = "or"  /\ access[2] = reg /\ BitOr(old, access[3]) = new
  \/ access[1] = "and" /\ access[2] = reg /\ BitAnd(old, access[3]) = new

(* Once due is done reg, which gets the value old and is read, has its     *)
(* changed value new.                                                      *)
WillChange(reg, old, new) ==
  \/ Untouched(due, 1, Len(due), reg) /\ regs[reg] = new
  \/ /\ due # <<>> /\ reg_val = old /\ Changes(due[1], reg, old, new)
     /\ Untouched(due, 2, Len(due), reg)
  \/ \E i \in 1..(Len(due) - 1) :
       /\ due[i] = rd(reg) /\ WillHold(i - 1, reg, old)
       /\ Changes(due[i + 1], reg, old, new) /\ Untouched(due, i + 2, Len(due), reg)

(* What a setting wants of the registers, and what init() does.            *)
Wants(c) ==
  CASE c.op = "resolution" ->
         LET h == (3 * c.arg) \div 4
         IN  {<<\h3808, c.arg \div 256>>, <<\h3809, c.arg % 256>>,
              <<\h380a, h \div 256>>, <<\h380b, h % 256>>}
    [] c.op = "saturation" ->
         {<<\h5001, \hff>>, <<\h5580, \h02>>,
          <<\h5583, \h40 + 16 * c.arg>>, <<\h5584, \h40 + 16 * c.arg>>}
    [] c.op = "brightness" ->
         {<<\h5001, \hff>>, <<\h5580, \h04>>, <<\h5589, 16 * Magnitude(c.arg)>>,
          <<\h558a, IF c.arg < 0 THEN \h08 ELSE \h00>>}
    [] c.op = "effect" /\ c.arg = "normal" -> {<<\h5001, \h7f>>, <<\h5580, \h00>>}
    [] c.op = "effect" /\ c.arg = "negative" -> {<<\h5001, \hff>>, <<\h5580, \h40>>}
    [] c.op = "effect" /\ c.arg \in DOMAIN Tint ->
         {<<\h5001, \hff>>, <<\h5580, \h18>>,
          <<\h5585, Tint[c.arg][1]>>, <<\h5586, Tint[c.arg][2]>>}
    [] c.op = "sharpness" /\ c.arg \in DOMAIN AutoSharpness ->
         {<<\h530a, \h00>>, <<\h530c, AutoSharpness[c.arg][1]>>, <<\h530d, AutoSharpness[c.arg][2]>>,
          <<\h5312, AutoSharpness[c.arg][3]>>}
    [] c.op = "sharpness" /\ c.arg \in DOMAIN ManualSharpness ->
         {<<\h530a, \h08>>, <<\h531e, ManualSharpness[c.arg]>>, <<\h531f, ManualSharpness[c.arg]>>}

WantsFormat(f) ==
  IF f = "JPEG" THEN {<<\h4300, \h30>>, <<\h501f, 0>>, <<\h4407, 4>>, <<\h4713, 3>>,
                      <<\h3818, \ha8>>, <<\h3621, \h10>>}
  ELSE {<<\h4300, \h61>>, <<\h501f, 1>>, <<\h5002, \hf8>>}

Made(c) == IF c = InInit THEN [op |-> "resolution", arg |-> 320] ELSE c

InForceFormat(f) ==
  /\ f # "none" => \A p \in WantsFormat(f) : regs[p[1]] = p[2]
  /\ f = "BMP" => regs[\h3818] = \he1 /\ regs[\h3621] = \h87

EndsFormat(c) == c = InInit \/ c = [op |-> "resolution", arg |-> 2048]

Typed ==
  /\ phase \in {"off", "identify", "busy", "ready"}
  /\ format \in Formats /\ kept \in Formats \cup {"none"}
  /\ regs \in [Registers -> Int]
  /\ stands \subseteq Calls \cup {Made(InInit)}
  /\ phase = "off" => stands = {} /\ kept = "none"
  /\ phase = "identify" => call = InInit
  /\ phase = "busy" => call \in Calls \cup {InInit} /\ due \in Seq(AccessesTo(Reach(call)))

(* What a call does not undo it leaves in force.                           *)
LeftInForce ==
  /\ phase = "ready" => InForceFormat(kept) /\ \A d \in stands : InForce(d)
  /\ phase = "busy" =>
       /\ ~EndsFormat(call) => InForceFormat(kept)
       /\ \A d \in stands : ~Undoes(call, d) => InForce(d)

(* What a call wants the rest of its accesses will bring about.            *)
WillBeInForce ==
  phase = "busy" /\ clean =>
    /\ \A p \in Wants(Made(call)) : WillHold(Len(due), p[1], p[2])
    /\ call = InInit => \A p \in WantsFormat(format) : WillHold(Len(due), p[1], p[2])
    /\ call = InInit /\ format = "BMP" =>
         WillChange(\h3818, \hc1, \he1) /\ WillChange(\h3621, \h87, \h87)

SettingsInv == Typed /\ LeftInForce /\ WillBeInForce
-----------------------------------------------------------------------------
(* Rows of accesses *)

(* A row that goes to other registers does not touch this one.             *)
LEMMA ElsewhereUntouched ==
  ASSUME NEW Regs, NEW row \in Seq(AccessesTo(Regs)), NEW reg, reg \notin Regs, SYSTEM \notin Regs
  PROVE  Untouched(row, 1, Len(row), reg)
<1> SUFFICES ASSUME NEW i \in 1..Len(row) PROVE row[i][2] \notin {reg, SYSTEM}
  BY DEF Untouched
<1>1. row[i] \in AccessesTo(Regs)
  OBVIOUS
<1>2. row[i][2] \in Regs
  BY <1>1 DEF AccessesTo
<1>3. QED  BY <1>2

(* What the second of two rows writes, the two in a row write.             *)
LEMMA WritesSecond ==
  ASSUME NEW A, NEW s \in Seq(A), NEW t \in Seq(A), NEW reg, NEW val,
         Writes(t, Len(t), reg, val)
  PROVE  Writes(s \o t, Len(s \o t), reg, val)
<1>1. PICK k \in 1..Len(t) : t[k] = wr(reg, val) /\ Untouched(t, k + 1, Len(t), reg)
  BY DEF Writes
<1>2. Len(s \o t) = Len(s) + Len(t) /\ Len(s) \in Nat /\ Len(t) \in Nat
  OBVIOUS
<1>3. Len(s) + k \in 1..Len(s \o t) /\ (s \o t)[Len(s) + k] = t[k]
  BY <1>2
<1>4. Untouched(s \o t, Len(s) + k + 1, Len(s \o t), reg)
  <2> SUFFICES ASSUME NEW i \in (Len(s) + k + 1)..Len(s \o t)
               PROVE  (s \o t)[i][1] = "R" \/ (s \o t)[i][2] \notin {reg, SYSTEM}
    BY DEF Untouched
  <2>1. i - Len(s) \in (k + 1)..Len(t) /\ (s \o t)[i] = t[i - Len(s)]
    BY <1>2
  <2>2. QED  BY <1>1, <2>1 DEF Untouched
<1>5. QED  BY <1>1, <1>3, <1>4 DEF Writes

(* What the first writes stands if the second does not touch it.           *)
LEMMA WritesFirst ==
  ASSUME NEW A, NEW s \in Seq(A), NEW t \in Seq(A), NEW reg, NEW val,
         Writes(s, Len(s), reg, val), Untouched(t, 1, Len(t), reg)
  PROVE  Writes(s \o t, Len(s \o t), reg, val)
<1>1. PICK k \in 1..Len(s) : s[k] = wr(reg, val) /\ Untouched(s, k + 1, Len(s), reg)
  BY DEF Writes
<1>2. Len(s \o t) = Len(s) + Len(t) /\ Len(s) \in Nat /\ Len(t) \in Nat
  OBVIOUS
<1>3. k \in 1..Len(s \o t) /\ (s \o t)[k] = s[k]
  BY <1>2
<1>4. Untouched(s \o t, k + 1, Len(s \o t), reg)
  <2> SUFFICES ASSUME NEW i \in (k + 1)..Len(s \o t)
               PROVE  (s \o t)[i][1] = "R" \/ (s \o t)[i][2] \notin {reg, SYSTEM}
    BY DEF Untouched
  <2>1. CASE i <= Len(s)
    <3>1. i \in (k + 1)..Len(s) /\ (s \o t)[i] = s[i]
      BY <1>2, <2>1
    <3>2. QED  BY <1>1, <3>1 DEF Untouched
  <2>2. CASE i > Len(s)
    <3>1. i - Len(s) \in 1..Len(t) /\ (s \o t)[i] = t[i - Len(s)]
      BY <1>2, <2>2
    <3>2. QED  BY <3>1 DEF Untouched
  <2>3. QED  BY <1>2, <2>1, <2>2
<1>5. QED  BY <1>1, <1>3, <1>4 DEF Writes
-----------------------------------------------------------------------------
(* One access that the sensor takes *)

TakenRow ==
  LET access == Head(due)
  IN  /\ due # <<>> /\ due' = Tail(due)
      /\ \/ access[1] = "R" /\ reg_val' = regs[access[2]] /\ regs' = regs
         \/ access[1] # "R" /\ regs' = AfterWrite(access[2], NewValue(access)) /\ reg_val' = reg_val

(* The rest of a row, seen from the row.                                   *)
LEMMA RestOfRow ==
  ASSUME due # <<>>, due' = Tail(due), NEW A, due \in Seq(A)
  PROVE  /\ Len(due') = Len(due) - 1 /\ Len(due) \in Nat \ {0}
         /\ \A i \in 1..Len(due') : due'[i] = due[i + 1]
         /\ Head(due) = due[1]
OBVIOUS

(* An access that does not touch a register leaves its value.              *)
LEMMA UntouchedKept ==
  ASSUME regs \in [Registers -> Int], due \in Seq(AccessesTo(Registers \cup {SYSTEM})), TakenRow,
         NEW reg \in Registers, Untouched(due, 1, 1, reg)
  PROVE  regs'[reg] = regs[reg]
<1>1. due[1][1] = "R" \/ due[1][2] \notin {reg, SYSTEM}
  BY DEF Untouched
<1>2. Head(due) = due[1]
  BY RestOfRow DEF TakenRow
<1>3. QED  BY <1>1, <1>2 DEF TakenRow, AfterWrite

(* What the row does not touch its rest does not touch, one place earlier. *)
LEMMA UntouchedRest ==
  ASSUME due # <<>>, due' = Tail(due), NEW A, due \in Seq(A), NEW reg,
         NEW from \in Nat \ {0}, NEW to \in Int, to <= Len(due), Untouched(due, from + 1, to, reg)
  PROVE  Untouched(due', from, to - 1, reg)
<1> SUFFICES ASSUME NEW i \in from..(to - 1)
             PROVE  due'[i][1] = "R" \/ due'[i][2] \notin {reg, SYSTEM}
  BY DEF Untouched
<1>1. i \in 1..Len(due') /\ i + 1 \in (from + 1)..to
  BY RestOfRow
<1>2. due'[i] = due[i + 1]
  BY <1>1, RestOfRow
<1>3. QED  BY <1>1, <1>2 DEF Untouched

(* What a register will hold it will hold one access later.                *)
LEMMA WillHoldStep ==
  ASSUME regs \in [Registers -> Int], due \in Seq(AccessesTo(Registers \cup {SYSTEM})), TakenRow,
         NEW n \in 1..Len(due), NEW reg \in Registers, NEW val \in Int, WillHold(n, reg, val)
  PROVE  WillHold(n - 1, reg, val)'
<1>1. due # <<>> /\ due' = Tail(due) /\ Len(due') = Len(due) - 1
  BY RestOfRow DEF TakenRow
<1>2. CASE Untouched(due, 1, n, reg) /\ regs[reg] = val
  <2>1. regs'[reg] = val
    <3>1. Untouched(due, 1, 1, reg)
      BY <1>2 DEF Untouched
    <3>2. QED  BY <1>2, <3>1, UntouchedKept
  <2>2. Untouched(due', 1, n - 1, reg)
    <3>1. Untouched(due, 1 + 1, n, reg)
      BY <1>2 DEF Untouched
    <3>2. QED  BY <1>1, <3>1, UntouchedRest
  <2>3. QED  BY <2>1, <2>2 DEF WillHold
<1>3. CASE Writes(due, n, reg, val)
  <2>1. PICK k \in 1..n : due[k] = wr(reg, val) /\ Untouched(due, k + 1, n, reg)
    BY <1>3 DEF Writes
  <2>2. Untouched(due', k, n - 1, reg)
    BY <1>1, <2>1, UntouchedRest
  <2>3. CASE k = 1
    <3>1. Head(due) = wr(reg, val)
      BY <1>1, <2>1, <2>3, RestOfRow
    <3>2. regs' = AfterWrite(reg, val)
      BY <3>1 DEF TakenRow, wr, NewValue
    <3>3. reg # SYSTEM
      BY DEF Registers, SYSTEM
    <3>4. regs'[reg] = val
      BY <3>2, <3>3 DEF AfterWrite
    <3>5. QED  BY <2>2, <2>3, <3>4 DEF WillHold
  <2>4. CASE k # 1
    <3>1. k - 1 \in 1..(n - 1) /\ k - 1 \in 1..Len(due')
      BY <1>1, <2>4
    <3>2. due'[k - 1] = wr(reg, val)
      BY <1>1, <2>1, <3>1, RestOfRow
    <3>3. Untouched(due', k - 1 + 1, n - 1, reg)
      BY <2>2
    <3>4. QED  BY <3>1, <3>2, <3>3 DEF WillHold, Writes
  <2>5. QED  BY <2>3, <2>4
<1>4. QED  BY <1>2, <1>3 DEF WillHold

(* So it is with a register that is to be read, changed and written back. *)
LEMMA WillChangeStep ==
  ASSUME regs \in [Registers -> Int], due \in Seq(AccessesTo(Registers \cup {SYSTEM})), TakenRow,
         NEW reg \in Registers, NEW old \in Int, NEW new \in Int, WillChange(reg, old, new)
  PROVE  WillChange(reg, old, new)'
<1>1. /\ due # <<>> /\ due' = Tail(due) /\ Len(due) \in Nat \ {0}
      /\ Len(due') = Len(due) - 1 /\ Head(due) = due[1]
  BY RestOfRow DEF TakenRow
<1>2. CASE Untouched(due, 1, Len(due), reg) /\ regs[reg] = new
  <2>1. Untouched(due, 1, 1, reg) /\ Untouched(due, 1 + 1, Len(due), reg)
    BY <1>1, <1>2 DEF Untouched
  <2>2. regs'[reg] = new
    BY <1>2, <2>1, UntouchedKept
  <2>3. Untouched(due', 1, Len(due) - 1, reg)
    BY <1>1, <2>1, UntouchedRest
  <2>4. QED  BY <1>1, <2>2, <2>3 DEF WillChange
<1>3. CASE /\ reg_val = old /\ Changes(due[1], reg, old, new)
           /\ Untouched(due, 2, Len(due), reg)
  <2>1. Untouched(due', 1, Len(due) - 1, reg)
    <3>1. Untouched(due, 1 + 1, Len(due), reg)
      BY <1>3
    <3>2. QED  BY <1>1, <3>1, UntouchedRest
  <2>2. regs'[reg] = new
    <3>1. due[1][1] # "R" /\ due[1][2] = reg /\ NewValue(due[1]) = new
      BY <1>3 DEF Changes, NewValue
    <3>2. regs' = AfterWrite(reg, new)
      BY <1>1, <3>1 DEF TakenRow
    <3>3. reg # SYSTEM
      BY DEF Registers, SYSTEM
    <3>4. QED  BY <3>2, <3>3 DEF AfterWrite
  <2>3. QED  BY <1>1, <2>1, <2>2 DEF WillChange
<1>4. CASE \E i \in 1..(Len(due) - 1) :
             /\ due[i] = rd(reg) /\ WillHold(i - 1, reg, old)
             /\ Changes(due[i + 1], reg, old, new) /\ Untouched(due, i + 2, Len(due), reg)
  <2>1. PICK i \in 1..(Len(due) - 1) :
             /\ due[i] = rd(reg) /\ WillHold(i - 1, reg, old)
             /\ Changes(due[i + 1], reg, old, new) /\ Untouched(due, i + 2, Len(due), reg)
    BY <1>4
  <2>2. due'[i] = due[i + 1]
    BY <1>1, RestOfRow
  <2>3. Untouched(due', i + 1, Len(due) - 1, reg)
    <3>1. Untouched(due, i + 1 + 1, Len(due), reg)
      BY <2>1
    <3>2. i + 1 \in Nat \ {0}
      BY <1>1
    <3>3. QED  BY <1>1, <3>1, <3>2, UntouchedRest
  <2>4. CASE i = 1
    <3>1. regs[reg] = old
      BY <2>1, <2>4 DEF WillHold, Writes
    <3>2. reg_val' = old
      BY <1>1, <2>1, <2>4, <3>1 DEF TakenRow, rd
    <3>3. due' # <<>>
      <4>1. Len(due') # 0 /\ Len(<<>>) = 0
        BY <1>1, <2>4
      <4>2. QED  BY <4>1
    <3>4. Changes(due'[1], reg, old, new) /\ Untouched(due', 2, Len(due'), reg)
      BY <1>1, <2>1, <2>2, <2>3, <2>4
    <3>5. QED  BY <3>2, <3>3, <3>4 DEF WillChange, Changes
  <2>5. CASE i # 1
    <3>1. i - 1 \in 1..Len(due) /\ i - 1 \in 1..(Len(due') - 1) /\ i - 1 \in 1..Len(due')
      BY <1>1, <2>5
    <3>2. WillHold(i - 1 - 1, reg, old)'
      <4>1. WillHold(i - 1, reg, old)
        BY <2>1
      <4>2. QED  BY <3>1, <4>1, WillHoldStep
    <3>3. due'[i - 1] = rd(reg)
      BY <1>1, <2>1, <3>1, RestOfRow
    <3>4. Changes(due'[i - 1 + 1], reg, old, new) /\ Untouched(due', i - 1 + 2, Len(due'), reg)
      BY <1>1, <2>1, <2>2, <2>3
    <3>5. QED  BY <3>1, <3>2, <3>3, <3>4 DEF WillChange, Changes
  <2>6. QED  BY <2>4, <2>5
<1>5. QED  BY <1>2, <1>3, <1>4 DEF WillChange
-----------------------------------------------------------------------------
(* The rows of the settings *)

(* Each of the four registers of the picture size is written once. *)
LEMMA SizeRow ==
  ASSUME NEW w \in Int, NEW h \in Int
  PROVE  /\ Size(w, h) \in Seq(AccessesTo(Sizes))
         /\ Writes(Size(w, h), 4, \h3808, w \div 256)
         /\ Writes(Size(w, h), 4, \h3809, w % 256)
         /\ Writes(Size(w, h), 4, \h380a, h \div 256)
         /\ Writes(Size(w, h), 4, \h380b, h % 256)
         /\ Len(Size(w, h)) = 4
<1> DEFINE row == Size(w, h)
<1>1. row \in Seq(AccessesTo(Sizes))
  BY DEF Size, wr, AccessesTo, Sizes
<1>2. Len(row) = 4
  BY DEF Size
<1>3. /\ row[1] = wr(\h3808, w \div 256) /\ row[2] = wr(\h3809, w % 256)
      /\ row[3] = wr(\h380a, h \div 256) /\ row[4] = wr(\h380b, h % 256)
  BY DEF Size
<1>4. /\ Untouched(row, 2, 4, \h3808) /\ Untouched(row, 3, 4, \h3809)
      /\ Untouched(row, 4, 4, \h380a) /\ Untouched(row, 5, 4, \h380b)
  BY <1>3 DEF Untouched, wr, SYSTEM
<1> HIDE DEF row
<1>5. /\ Writes(row, 4, \h3808, w \div 256) /\ Writes(row, 4, \h3809, w % 256)
      /\ Writes(row, 4, \h380a, h \div 256) /\ Writes(row, 4, \h380b, h % 256)
  BY <1>3, <1>4 DEF Writes
<1>6. QED  BY <1>1, <1>2, <1>5 DEF row

(* The effects that tint the picture, told from the two that do not. *)
LEMMA TintNames ==
  /\ "normal" \notin DOMAIN Tint /\ "negative" \notin DOMAIN Tint
  /\ \A e \in DOMAIN Tint : Tint[e] \in Int \X Int
BY DEF Tint

(* The names of the types of sharpness; their values are numbers. *)
LEMMA SharpnessNames ==
  /\ DOMAIN AutoSharpness = {"auto", "auto_1", "auto_2"}
  /\ DOMAIN ManualSharpness =
       {"manual_off", "manual_1", "manual_2", "manual_3", "manual_4", "manual_5"}
  /\ \A s \in DOMAIN AutoSharpness : AutoSharpness[s] \in Int \X Int \X Int
  /\ \A s \in DOMAIN ManualSharpness : ManualSharpness[s] \in Int
<1>1. DOMAIN AutoSharpness = {"auto", "auto_1", "auto_2"}
  BY DEF AutoSharpness
<1>2. DOMAIN ManualSharpness =
        {"manual_off", "manual_1", "manual_2", "manual_3", "manual_4", "manual_5"}
  BY DEF ManualSharpness
<1>3. \A s \in DOMAIN AutoSharpness : AutoSharpness[s] \in Int \X Int \X Int
  BY DEF AutoSharpness
<1>4. \A s \in DOMAIN ManualSharpness : ManualSharpness[s] \in Int
  BY DEF ManualSharpness
<1>5. QED  BY <1>1, <1>2, <1>3, <1>4

(* Writing a number to a register is an access to it. *)
LEMMA WriteAccess ==
  ASSUME NEW Regs
  PROVE  \A reg \in Regs, val \in Int : wr(reg, val) \in AccessesTo(Regs)
BY DEF wr, AccessesTo

(* The row makes the call: it goes to the call's registers only, and each  *)
(* register ends with the value that the call wants it to have.            *)
Makes(row, c) ==
  /\ row \in Seq(AccessesTo(Reach(c)))
  /\ \A p \in Wants(c) : Writes(row, Len(row), p[1], p[2])

(* setColorSaturation makes the saturation. *)
LEMMA SaturationRow ==
  ASSUME NEW n \in Int
  PROVE  Makes(setColorSaturation(n), [op |-> "saturation", arg |-> n])
<1> DEFINE row == setColorSaturation(n)
           c   == [op |-> "saturation", arg |-> n]
<1>1. Reach(c) = {\h5001, \h5580, \h5583, \h5584}
  BY DEF Reach
<1>2. Wants(c) = {<<\h5001, \hff>>, <<\h5580, \h02>>,
                  <<\h5583, \h40 + 16 * n>>, <<\h5584, \h40 + 16 * n>>}
  BY TintNames, SharpnessNames DEF Wants
<1>3. row \in Seq(AccessesTo(Reach(c)))
  <2>1. \h40 + 16 * n \in Int
    OBVIOUS
  <2>2. row = <<wr(\h5001, \hff), wr(\h5583, \h40 + 16 * n),
                wr(\h5584, \h40 + 16 * n), wr(\h5580, \h02)>>
    BY DEF setColorSaturation
  <2>3. /\ \h5001 \in Reach(c) /\ \h5583 \in Reach(c)
        /\ \h5584 \in Reach(c) /\ \h5580 \in Reach(c)
    BY <1>1
  <2> HIDE DEF row, c
  <2>4. /\ wr(\h5001, \hff) \in AccessesTo(Reach(c))
        /\ wr(\h5583, \h40 + 16 * n) \in AccessesTo(Reach(c))
        /\ wr(\h5584, \h40 + 16 * n) \in AccessesTo(Reach(c))
        /\ wr(\h5580, \h02) \in AccessesTo(Reach(c))
    BY <2>1, <2>3, WriteAccess
  <2>5. QED  BY <2>2, <2>4
<1>4. /\ Len(row) = 4 /\ row[1] = wr(\h5001, \hff) /\ row[2] = wr(\h5583, \h40 + 16 * n)
      /\ row[3] = wr(\h5584, \h40 + 16 * n) /\ row[4] = wr(\h5580, \h02)
  BY DEF setColorSaturation
<1> HIDE DEF row, c
<1>5. /\ Writes(row, 4, \h5001, \hff) /\ Writes(row, 4, \h5583, \h40 + 16 * n)
      /\ Writes(row, 4, \h5584, \h40 + 16 * n) /\ Writes(row, 4, \h5580, \h02)
  BY <1>4 DEF wr, SYSTEM, Writes, Untouched
<1>6. \A p \in Wants(c) : Writes(row, Len(row), p[1], p[2])
  <2>1. Len(row) = 4
    BY <1>4
  <2>2. QED  BY <1>2, <1>5, <2>1
<1>7. QED  BY <1>3, <1>6 DEF row, c, Makes

(* setBrightness makes the brightness. *)
LEMMA BrightnessRow ==
  ASSUME NEW n \in Int
  PROVE  Makes(setBrightness(n), [op |-> "brightness", arg |-> n])
<1> DEFINE row == setBrightness(n)
           c   == [op |-> "brightness", arg |-> n]
<1>1. {\h5001, \h5580, \h5589, \h558a} \subseteq Reach(c)
  BY DEF Reach
<1>2. Wants(c) = {<<\h5001, \hff>>, <<\h5589, 16 * Magnitude(n)>>, <<\h5580, \h04>>, <<\h558a, IF n < 0 THEN \h08 ELSE \h00>>}
  BY TintNames, SharpnessNames DEF Wants
<1>3. row \in Seq(AccessesTo(Reach(c)))
  <2>1. 16 * Magnitude(n) \in Int /\ (IF n < 0 THEN \h08 ELSE \h00) \in Int
    BY DEF Magnitude
  <2>2. row = <<wr(\h5001, \hff), wr(\h5589, 16 * Magnitude(n)),
                wr(\h5580, \h04), wr(\h558a, IF n < 0 THEN \h08 ELSE \h00)>>
    BY DEF setBrightness
  <2>3. /\ \h5001 \in Reach(c) /\ \h5589 \in Reach(c)
        /\ \h5580 \in Reach(c) /\ \h558a \in Reach(c)
    BY <1>1
  <2> HIDE DEF row, c
  <2>4. wr(\h5001, \hff) \in AccessesTo(Reach(c)) /\ wr(\h5580, \h04) \in AccessesTo(Reach(c))
    BY <2>3, WriteAccess
  <2>5. wr(\h5589, 16 * Magnitude(n)) \in AccessesTo(Reach(c))
    BY <2>1, <2>3, WriteAccess
  <2>6. wr(\h558a, IF n < 0 THEN \h08 ELSE \h00) \in AccessesTo(Reach(c))
    <3>1. PICK sign : sign = IF n < 0 THEN \h08 ELSE \h00
      OBVIOUS
    <3>2. sign \in Int
      BY <2>1, <3>1
    <3>3. wr(\h558a, sign) \in AccessesTo(Reach(c))
      BY <2>3, <3>2, WriteAccess
    <3>4. QED  BY <3>1, <3>3
  <2>7. QED  BY <2>2, <2>4, <2>5, <2>6
<1>4. /\ Len(row) = 4 /\ row[1] = wr(\h5001, \hff)
      /\ row[2] = wr(\h5589, 16 * Magnitude(n)) /\ row[3] = wr(\h5580, \h04)
      /\ row[4] = wr(\h558a, IF n < 0 THEN \h08 ELSE \h00)
  BY DEF setBrightness
<1> HIDE DEF row, c
<1>5. /\ Writes(row, 4, \h5001, \hff) /\ Writes(row, 4, \h5589, 16 * Magnitude(n))
      /\ Writes(row, 4, \h5580, \h04) /\ Writes(row, 4, \h558a, IF n < 0 THEN \h08 ELSE \h00)
  BY <1>4 DEF wr, SYSTEM, Writes, Untouched
<1>6. \A p \in Wants(c) : Writes(row, Len(row), p[1], p[2])
  <2>1. Len(row) = 4
    BY <1>4
  <2>2. QED  BY <1>2, <1>5, <2>1
<1>7. QED  BY <1>3, <1>6 DEF row, c, Makes

(* setSpecialEffect makes the effect normal, which turns the effects off, *)
LEMMA NormalEffectRow ==
  Makes(setSpecialEffect("normal"), [op |-> "effect", arg |-> "normal"])
<1> DEFINE row == setSpecialEffect("normal")
           c   == [op |-> "effect", arg |-> "normal"]
<1>1. {\h5001, \h5580} \subseteq Reach(c)
  BY DEF Reach
<1>2. Wants(c) = {<<\h5001, \h7f>>, <<\h5580, \h00>>}
  BY TintNames, SharpnessNames DEF Wants
<1>3. row \in Seq(AccessesTo(Reach(c)))
  BY <1>1 DEF setSpecialEffect, AccessesTo, wr
<1>4. /\ Len(row) = 2 /\ row[1] = wr(\h5001, \h7f)
      /\ row[2] = wr(\h5580, \h00)
  BY DEF setSpecialEffect
<1> HIDE DEF row, c
<1>5. /\ Writes(row, 2, \h5001, \h7f) /\ Writes(row, 2, \h5580, \h00)
  BY <1>4 DEF wr, SYSTEM, Writes, Untouched
<1>6. \A p \in Wants(c) : Writes(row, Len(row), p[1], p[2])
  <2>1. Len(row) = 2
    BY <1>4
  <2>2. QED  BY <1>2, <1>5, <2>1
<1>7. QED  BY <1>3, <1>6 DEF row, c, Makes

(* and the effect negative, *)
LEMMA NegativeEffectRow ==
  Makes(setSpecialEffect("negative"), [op |-> "effect", arg |-> "negative"])
<1> DEFINE row == setSpecialEffect("negative")
           c   == [op |-> "effect", arg |-> "negative"]
<1>1. {\h5001, \h5580} \subseteq Reach(c)
  BY DEF Reach
<1>2. Wants(c) = {<<\h5001, \hff>>, <<\h5580, \h40>>}
  BY TintNames, SharpnessNames DEF Wants
<1>3. row \in Seq(AccessesTo(Reach(c)))
  BY <1>1 DEF setSpecialEffect, AccessesTo, wr
<1>4. /\ Len(row) = 2 /\ row[1] = wr(\h5001, \hff)
      /\ row[2] = wr(\h5580, \h40)
  BY DEF setSpecialEffect
<1> HIDE DEF row, c
<1>5. /\ Writes(row, 2, \h5001, \hff) /\ Writes(row, 2, \h5580, \h40)
  BY <1>4 DEF wr, SYSTEM, Writes, Untouched
<1>6. \A p \in Wants(c) : Writes(row, Len(row), p[1], p[2])
  <2>1. Len(row) = 2
    BY <1>4
  <2>2. QED  BY <1>2, <1>5, <2>1
<1>7. QED  BY <1>3, <1>6 DEF row, c, Makes

(* and each tint. *)
LEMMA TintRow ==
  ASSUME NEW e \in DOMAIN Tint
  PROVE  Makes(setSpecialEffect(e), [op |-> "effect", arg |-> e])
<1> DEFINE row == setSpecialEffect(e)
           c   == [op |-> "effect", arg |-> e]
<1>1. {\h5001, \h5580, \h5585, \h5586} \subseteq Reach(c)
  BY DEF Reach
<1>2. Wants(c) = {<<\h5001, \hff>>, <<\h5580, \h18>>, <<\h5585, Tint[e][1]>>, <<\h5586, Tint[e][2]>>}
  BY TintNames, SharpnessNames DEF Wants
<1>3. row \in Seq(AccessesTo(Reach(c)))
  <2>1. Tint[e][1] \in Int /\ Tint[e][2] \in Int
    BY TintNames
  <2>2. row = <<wr(\h5001, \hff), wr(\h5580, \h18),
                wr(\h5585, Tint[e][1]), wr(\h5586, Tint[e][2])>>
    BY TintNames DEF setSpecialEffect
  <2>3. /\ \h5001 \in Reach(c) /\ \h5580 \in Reach(c)
        /\ \h5585 \in Reach(c) /\ \h5586 \in Reach(c)
    BY <1>1
  <2> HIDE DEF row, c
  <2>4. /\ wr(\h5001, \hff) \in AccessesTo(Reach(c))
        /\ wr(\h5580, \h18) \in AccessesTo(Reach(c))
        /\ wr(\h5585, Tint[e][1]) \in AccessesTo(Reach(c))
        /\ wr(\h5586, Tint[e][2]) \in AccessesTo(Reach(c))
    <3>1. PICK x \in Int, y \in Int : x = Tint[e][1] /\ y = Tint[e][2]
      BY <2>1
    <3>2. wr(\h5585, x) \in AccessesTo(Reach(c)) /\ wr(\h5586, y) \in AccessesTo(Reach(c))
      BY <2>3, WriteAccess
    <3>3. wr(\h5001, \hff) \in AccessesTo(Reach(c)) /\ wr(\h5580, \h18) \in AccessesTo(Reach(c))
      BY <2>3, WriteAccess
    <3>4. QED  BY <3>1, <3>2, <3>3
  <2>5. QED  BY <2>2, <2>4
<1>4. /\ Len(row) = 4 /\ row[1] = wr(\h5001, \hff)
      /\ row[2] = wr(\h5580, \h18) /\ row[3] = wr(\h5585, Tint[e][1])
      /\ row[4] = wr(\h5586, Tint[e][2])
  BY TintNames DEF setSpecialEffect
<1> HIDE DEF row, c
<1>5. /\ Writes(row, 4, \h5001, \hff) /\ Writes(row, 4, \h5580, \h18)
      /\ Writes(row, 4, \h5585, Tint[e][1]) /\ Writes(row, 4, \h5586, Tint[e][2])
  BY <1>4 DEF wr, SYSTEM, Writes, Untouched
<1>6. \A p \in Wants(c) : Writes(row, Len(row), p[1], p[2])
  <2>1. Len(row) = 4
    BY <1>4
  <2>2. QED  BY <1>2, <1>5, <2>1
<1>7. QED  BY <1>3, <1>6 DEF row, c, Makes

(* setSharpnessType makes the three automatic types of sharpness, *)
LEMMA AutoRow ==
  ASSUME NEW s \in DOMAIN AutoSharpness
  PROVE  Makes(setSharpnessType(s), [op |-> "sharpness", arg |-> s])
<1> DEFINE row == setSharpnessType(s)
           c   == [op |-> "sharpness", arg |-> s]
<1>1. {\h530a, \h530c, \h530d, \h5312} \subseteq Reach(c)
  BY DEF Reach
<1>2. Wants(c) = {<<\h530a, \h00>>, <<\h530c, AutoSharpness[s][1]>>, <<\h530d, AutoSharpness[s][2]>>, <<\h5312, AutoSharpness[s][3]>>}
  BY TintNames, SharpnessNames DEF Wants
<1>3. row \in Seq(AccessesTo(Reach(c)))
  <2>1. /\ AutoSharpness[s][1] \in Int /\ AutoSharpness[s][2] \in Int
        /\ AutoSharpness[s][3] \in Int
    BY SharpnessNames
  <2>2. row = <<wr(\h530a, \h00), wr(\h530c, AutoSharpness[s][1]),
                wr(\h530d, AutoSharpness[s][2]), wr(\h5312, AutoSharpness[s][3])>>
    BY SharpnessNames DEF setSharpnessType
  <2>3. /\ \h530a \in Reach(c) /\ \h530c \in Reach(c)
        /\ \h530d \in Reach(c) /\ \h5312 \in Reach(c)
    BY <1>1
  <2> HIDE DEF row, c
  <2>4. /\ wr(\h530a, \h00) \in AccessesTo(Reach(c))
        /\ wr(\h530c, AutoSharpness[s][1]) \in AccessesTo(Reach(c))
        /\ wr(\h530d, AutoSharpness[s][2]) \in AccessesTo(Reach(c))
        /\ wr(\h5312, AutoSharpness[s][3]) \in AccessesTo(Reach(c))
    <3>1. PICK x \in Int, y \in Int, z \in Int :
            x = AutoSharpness[s][1] /\ y = AutoSharpness[s][2] /\ z = AutoSharpness[s][3]
      BY <2>1
    <3>2. /\ wr(\h530c, x) \in AccessesTo(Reach(c)) /\ wr(\h530d, y) \in AccessesTo(Reach(c))
          /\ wr(\h5312, z) \in AccessesTo(Reach(c)) /\ wr(\h530a, \h00) \in AccessesTo(Reach(c))
      BY <2>3, WriteAccess
    <3>3. QED  BY <3>1, <3>2
  <2>5. QED  BY <2>2, <2>4
<1>4. /\ Len(row) = 4 /\ row[1] = wr(\h530a, \h00)
      /\ row[2] = wr(\h530c, AutoSharpness[s][1]) /\ row[3] = wr(\h530d, AutoSharpness[s][2])
      /\ row[4] = wr(\h5312, AutoSharpness[s][3])
  BY SharpnessNames DEF setSharpnessType
<1> HIDE DEF row, c
<1>5. /\ Writes(row, 4, \h530a, \h00) /\ Writes(row, 4, \h530c, AutoSharpness[s][1])
      /\ Writes(row, 4, \h530d, AutoSharpness[s][2]) /\ Writes(row, 4, \h5312, AutoSharpness[s][3])
  BY <1>4 DEF wr, SYSTEM, Writes, Untouched
<1>6. \A p \in Wants(c) : Writes(row, Len(row), p[1], p[2])
  <2>1. Len(row) = 4
    BY <1>4
  <2>2. QED  BY <1>2, <1>5, <2>1
<1>7. QED  BY <1>3, <1>6 DEF row, c, Makes

(* and the six manual ones. *)
LEMMA ManualRow ==
  ASSUME NEW s \in DOMAIN ManualSharpness
  PROVE  Makes(setSharpnessType(s), [op |-> "sharpness", arg |-> s])
<1> DEFINE row == setSharpnessType(s)
           c   == [op |-> "sharpness", arg |-> s]
<1>1. {\h530a, \h531e, \h531f} \subseteq Reach(c)
  BY DEF Reach
<1>2. Wants(c) = {<<\h530a, \h08>>, <<\h531e, ManualSharpness[s]>>, <<\h531f, ManualSharpness[s]>>}
  BY TintNames, SharpnessNames DEF Wants
<1>3. row \in Seq(AccessesTo(Reach(c)))
  <2>1. ManualSharpness[s] \in Int
    BY SharpnessNames
  <2>2. row = <<wr(\h530a, \h08), wr(\h531e, ManualSharpness[s]),
                wr(\h531f, ManualSharpness[s])>>
    BY SharpnessNames DEF setSharpnessType
  <2> HIDE DEF row, c
  <2>3. \h530a \in Reach(c) /\ \h531e \in Reach(c) /\ \h531f \in Reach(c)
    BY <1>1
  <2>4. /\ wr(\h530a, \h08) \in AccessesTo(Reach(c))
        /\ wr(\h531e, ManualSharpness[s]) \in AccessesTo(Reach(c))
        /\ wr(\h531f, ManualSharpness[s]) \in AccessesTo(Reach(c))
    BY <2>1, <2>3, WriteAccess
  <2>5. QED  BY <2>2, <2>4
<1>4. /\ Len(row) = 3 /\ row[1] = wr(\h530a, \h08)
      /\ row[2] = wr(\h531e, ManualSharpness[s]) /\ row[3] = wr(\h531f, ManualSharpness[s])
  BY SharpnessNames DEF setSharpnessType
<1> HIDE DEF row, c
<1>5. /\ Writes(row, 3, \h530a, \h08) /\ Writes(row, 3, \h531e, ManualSharpness[s])
      /\ Writes(row, 3, \h531f, ManualSharpness[s])
  BY <1>4 DEF wr, SYSTEM, Writes, Untouched
<1>6. \A p \in Wants(c) : Writes(row, Len(row), p[1], p[2])
  <2>1. Len(row) = 3
    BY <1>4
  <2>2. QED  BY <1>2, <1>5, <2>1
<1>7. QED  BY <1>3, <1>6 DEF row, c, Makes

(* setResolution makes the resolution, by either kind of list. *)
LEMMA ResolutionRow ==
  ASSUME NEW w \in Int
  PROVE  Makes(setResolution(w), [op |-> "resolution", arg |-> w])
<1>1. PICK h \in Int : h = (3 * w) \div 4
  OBVIOUS
<1> DEFINE c    == [op |-> "resolution", arg |-> w]
           size == Size(w, h)
           rest == IF w # 2048 THEN <<wr(\h5001, \h7f)>>
                   ELSE <<wr(\h3818, \ha8), wr(\h4300, \h32), wr(\h4713, \h02),
                          wr(\h3818, \hc8), wr(\h501f, \h00), wr(\h5002, \he0),
                          wr(\h3818, \ha8), wr(\h3621, \h10)>>
           other == IF w # 2048 THEN {\h5001} ELSE FormatOf
           Row(regs_) == Seq(AccessesTo(regs_))
<1>2. setResolution(w) = size \o rest
  BY <1>1 DEF setResolution, ov5642
<1>3. size \in Row(Sizes) /\ Len(size) = 4
  BY SizeRow
<1>4. rest \in Row(other)
  <2>1. CASE w # 2048
    BY <2>1 DEF wr, AccessesTo
  <2>2. CASE w = 2048
    <3>1. \A r \in FormatOf, v \in Int : wr(r, v) \in AccessesTo(FormatOf)
      BY DEF wr, AccessesTo
    <3>2. /\ wr(\h3818, \ha8) \in AccessesTo(FormatOf) /\ wr(\h4300, \h32) \in AccessesTo(FormatOf)
          /\ wr(\h4713, \h02) \in AccessesTo(FormatOf) /\ wr(\h3818, \hc8) \in AccessesTo(FormatOf)
          /\ wr(\h501f, \h00) \in AccessesTo(FormatOf) /\ wr(\h5002, \he0) \in AccessesTo(FormatOf)
          /\ wr(\h3621, \h10) \in AccessesTo(FormatOf)
      BY <3>1 DEF FormatOf
    <3> DEFINE A == AccessesTo(FormatOf)
    <3> HIDE DEF A
    <3>3. QED  BY <2>2, <3>2 DEF A
  <2>3. QED  BY <2>1, <2>2
<1>5. Reach(c) = Sizes \cup other
  BY DEF Reach
<1>6. size \in Row(Reach(c)) /\ rest \in Row(Reach(c))
  <2>1. AccessesTo(Sizes) \subseteq AccessesTo(Reach(c)) /\ AccessesTo(other) \subseteq AccessesTo(Reach(c))
    BY <1>5 DEF AccessesTo
  <2> HIDE DEF size, rest, other, c
  <2>2. QED  BY <1>3, <1>4, <2>1
<1>7. \A r \in Sizes : Untouched(rest, 1, Len(rest), r)
  <2>1. \A r \in Sizes : r \notin other
    BY DEF Sizes, FormatOf
  <2>2. SYSTEM \notin other
    BY DEF SYSTEM, FormatOf
  <2> HIDE DEF rest, other
  <2>3. QED  BY <1>4, <2>1, <2>2, ElsewhereUntouched
<1>8. \A p \in Wants(c) : p[1] \in Sizes /\ Writes(size, Len(size), p[1], p[2])
  <2>1. Wants(c) = {<<\h3808, w \div 256>>, <<\h3809, w % 256>>,
                    <<\h380a, h \div 256>>, <<\h380b, h % 256>>}
    BY <1>1 DEF Wants
  <2>2. /\ Writes(size, 4, \h3808, w \div 256) /\ Writes(size, 4, \h3809, w % 256)
        /\ Writes(size, 4, \h380a, h \div 256) /\ Writes(size, 4, \h380b, h % 256)
    BY SizeRow
  <2> HIDE DEF size, c
  <2>3. QED  BY <1>3, <2>1, <2>2 DEF Sizes
<1> HIDE DEF size, rest, c
<1>9. \A p \in Wants(c) : Writes(size \o rest, Len(size \o rest), p[1], p[2])
  BY <1>6, <1>7, <1>8, WritesFirst
<1>10. size \o rest \in Row(Reach(c))
  BY <1>6
<1>11. QED  BY <1>2, <1>9, <1>10 DEF Makes, c
-----------------------------------------------------------------------------
(* The row of init() *)

All == Registers \cup {SYSTEM}

(* What a row writes stands if the next goes to other registers.           *)
LEMMA WritesKept ==
  ASSUME NEW s \in Seq(AccessesTo(All)), NEW Regs, Regs \subseteq Registers,
         NEW t \in Seq(AccessesTo(Regs)), NEW P,
         \A p \in P : p[1] \notin Regs /\ Writes(s, Len(s), p[1], p[2])
  PROVE  /\ s \o t \in Seq(AccessesTo(All))
         /\ \A p \in P : Writes(s \o t, Len(s \o t), p[1], p[2])
<1>1. SYSTEM \notin Regs
  BY DEF Registers, SYSTEM
<1>2. AccessesTo(Regs) \subseteq AccessesTo(All)
  BY DEF AccessesTo, All
<1>3. t \in Seq(AccessesTo(All))
  BY <1>2
<1>4. \A p \in P : Untouched(t, 1, Len(t), p[1])
  BY <1>1, ElsewhereUntouched
<1>5. QED  BY <1>3, <1>4, WritesFirst

(* What of the format OV5642_QVGA_Preview writes, and init() later counts  *)
(* on.                                                                     *)
LEMMA QvgaRow ==
  /\ OV5642_QVGA_Preview \in Seq(AccessesTo(All))
  /\ \A p \in {<<\h4300, \h30>>, <<\h501f, 0>>, <<\h3818, \hc1>>, <<\h3621, \h87>>} :
       Writes(OV5642_QVGA_Preview, Len(OV5642_QVGA_Preview), p[1], p[2])
<1> DEFINE P == {<<\h4300, \h30>>, <<\h501f, 0>>, <<\h3818, \hc1>>, <<\h3621, \h87>>}
           Tone == {\h5001, \h530c, \h530d, \h5580, \h5583, \h5584}
           a == <<wr(SYSTEM, \h82), wr(\h3621, \h09), wr(\h5001, \hff)>>
           b == <<wr(\h501f, \h00), wr(\h4300, \h30), wr(\h3818, \hc1), wr(\h3621, \h87),
                  wr(\h530c, \h00), wr(\h530d, \h0c)>>
           c == <<wr(\h5001, \hff)>>
           d == <<wr(\h530c, \h00), wr(\h530d, \h10)>>
           q == a \o Size(640, 480) \o b
           Kept(row) == row \in Seq(AccessesTo(All)) /\ \A p \in P : Writes(row, Len(row), p[1], p[2])
<1>1. a \in Seq(AccessesTo(All)) /\ b \in Seq(AccessesTo(All))
  BY DEF All, Registers, AccessesTo, wr
<1>2. Sizes \subseteq Registers /\ Tone \subseteq Registers
  BY DEF Sizes, Registers
<1>3. Size(640, 480) \in Seq(AccessesTo(Sizes)) /\ Size(320, 240) \in Seq(AccessesTo(Sizes))
  BY SizeRow
<1>4. /\ c \in Seq(AccessesTo(Tone)) /\ d \in Seq(AccessesTo(Tone))
      /\ Saturated(\h40) \in Seq(AccessesTo(Tone)) /\ Saturated(\h50) \in Seq(AccessesTo(Tone))
  BY DEF AccessesTo, wr, Saturated
<1>5. \A p \in P : Writes(b, Len(b), p[1], p[2])
  <2>1. /\ Len(b) = 6 /\ b[1] = wr(\h501f, \h00) /\ b[2] = wr(\h4300, \h30)
        /\ b[3] = wr(\h3818, \hc1) /\ b[4] = wr(\h3621, \h87)
        /\ b[5] = wr(\h530c, \h00) /\ b[6] = wr(\h530d, \h0c)
    OBVIOUS
  <2> HIDE DEF b
  <2>2. /\ Writes(b, 6, \h501f, \h00) /\ Writes(b, 6, \h4300, \h30)
        /\ Writes(b, 6, \h3818, \hc1) /\ Writes(b, 6, \h3621, \h87)
    BY <2>1 DEF wr, SYSTEM, Writes, Untouched
  <2>3. QED  BY <2>1, <2>2
<1>6. a \o Size(640, 480) \in Seq(AccessesTo(All))
  <2>1. AccessesTo(Sizes) \subseteq AccessesTo(All)
    BY <1>2 DEF AccessesTo, All
  <2> HIDE DEF a
  <2>2. QED  BY <1>1, <1>3, <2>1
<1> HIDE DEF a, b, c, d
<1>7. Kept(q)
  <2> DEFINE s == a \o Size(640, 480)
  <2>1. s \in Seq(AccessesTo(All))
    BY <1>6
  <2> HIDE DEF s, P
  <2>2. s \o b \in Seq(AccessesTo(All))
    BY <1>1, <2>1
  <2>3. \A p \in P : Writes(s \o b, Len(s \o b), p[1], p[2])
    BY <1>1, <1>5, <2>1, WritesSecond
  <2>4. QED  BY <2>2, <2>3 DEF s
<1>8. \A p \in P : p[1] \notin Sizes /\ p[1] \notin Tone
  BY DEF Sizes
<1> HIDE DEF P, q, Tone
<1>9. ASSUME NEW row, Kept(row), NEW t, t \in Seq(AccessesTo(Tone)) \/ t \in Seq(AccessesTo(Sizes))
      PROVE  Kept(row \o t)
  <2>1. CASE t \in Seq(AccessesTo(Tone))
    BY <1>2, <1>8, <1>9, <2>1, WritesKept
  <2>2. CASE t \in Seq(AccessesTo(Sizes))
    BY <1>2, <1>8, <1>9, <2>2, WritesKept
  <2>3. QED  BY <1>9, <2>1, <2>2
<1>10. Kept(q \o Saturated(\h40) \o Size(320, 240) \o c \o Saturated(\h50) \o d)
  <2> HIDE DEF Kept
  <2>1. Kept(q \o Saturated(\h40))
    BY <1>4, <1>7, <1>9
  <2>2. Kept(q \o Saturated(\h40) \o Size(320, 240))
    BY <1>3, <1>9, <2>1
  <2>3. Kept(q \o Saturated(\h40) \o Size(320, 240) \o c)
    BY <1>4, <1>9, <2>2
  <2>4. Kept(q \o Saturated(\h40) \o Size(320, 240) \o c \o Saturated(\h50))
    BY <1>4, <1>9, <2>3
  <2>5. QED  BY <1>4, <1>9, <2>4
<1>11. OV5642_QVGA_Preview = q \o Saturated(\h40) \o Size(320, 240) \o c \o Saturated(\h50) \o d
  BY DEF OV5642_QVGA_Preview, a, b, c, d, q
<1>12. QED  BY <1>10, <1>11 DEF P

(* OV5642_JPEG_Capture_QSXGA writes the compression register 4713 once. *)
LEMMA CaptureRow ==
  /\ OV5642_JPEG_Capture_QSXGA \in Seq(AccessesTo(All))
  /\ OV5642_JPEG_Capture_QSXGA \in Seq(AccessesTo(Sizes \cup {\h3621, \h3818, \h4407, \h4713, \h5001}))
  /\ Writes(OV5642_JPEG_Capture_QSXGA, Len(OV5642_JPEG_Capture_QSXGA), \h4713, 3)
<1> DEFINE Regs == Sizes \cup {\h3621, \h3818, \h4407, \h4713, \h5001}
           a == <<wr(\h3621, \h27)>>
           b == <<wr(\h3818, \hc8), wr(\h4713, \h03), wr(\h5001, \h4f), wr(\h4407, \h08)>>
<1>1. AccessesTo(Regs) \subseteq AccessesTo(All) /\ AccessesTo(Sizes) \subseteq AccessesTo(Regs)
  BY DEF AccessesTo, All, Registers, Sizes
<1>2. Size(2592, 1944) \in Seq(AccessesTo(Sizes))
  BY SizeRow
<1>3. a \in Seq(AccessesTo(Regs)) /\ b \in Seq(AccessesTo(Regs))
  BY DEF AccessesTo, wr
<1>4. Writes(b, Len(b), \h4713, 3)
  <2>1. /\ Len(b) = 4 /\ b[1] = wr(\h3818, \hc8) /\ b[2] = wr(\h4713, 3)
        /\ b[3] = wr(\h5001, \h4f) /\ b[4] = wr(\h4407, \h08)
    OBVIOUS
  <2> HIDE DEF b
  <2>2. QED  BY <2>1 DEF wr, SYSTEM, Writes, Untouched
<1>5. OV5642_JPEG_Capture_QSXGA = a \o Size(2592, 1944) \o b
  BY DEF OV5642_JPEG_Capture_QSXGA
<1> HIDE DEF a, b, Regs
<1>6. a \o Size(2592, 1944) \in Seq(AccessesTo(Regs))
  BY <1>1, <1>2, <1>3
<1>7. a \o Size(2592, 1944) \o b \in Seq(AccessesTo(Regs))
  BY <1>3, <1>6
<1> DEFINE s == a \o Size(2592, 1944)
<1>8. Writes(s \o b, Len(s \o b), \h4713, 3)
  <2>1. s \in Seq(AccessesTo(Regs))
    BY <1>6
  <2> HIDE DEF s
  <2>2. QED  BY <1>3, <1>4, <2>1, WritesSecond
<1>9. OV5642_JPEG_Capture_QSXGA \in Seq(AccessesTo(All))
  BY <1>1, <1>5, <1>7
<1>10. QED  BY <1>5, <1>7, <1>8, <1>9 DEF Regs

(* The list for 320x240, the last of init(), goes to the size and to 5001. *)
LEMMA Row320 ==
  /\ ov5642(320) \in Seq(AccessesTo(Sizes \cup {\h5001}))
  /\ \A p \in Wants(Made(InInit)) : Writes(ov5642(320), Len(ov5642(320)), p[1], p[2])
<1> DEFINE c == [op |-> "resolution", arg |-> 320]
<1>1. Reach(c) = Sizes \cup {\h5001}
  BY DEF Reach
<1>2. Makes(setResolution(320), c)
  BY ResolutionRow
<1>3. setResolution(320) = ov5642(320)
  BY DEF setResolution
<1>4. Made(InInit) = c
  BY DEF Made
<1> HIDE DEF c
<1>5. ov5642(320) \in Seq(AccessesTo(Reach(c)))
  BY <1>2, <1>3 DEF Makes
<1>6. \A p \in Wants(c) : Writes(ov5642(320), Len(ov5642(320)), p[1], p[2])
  BY <1>2, <1>3 DEF Makes
<1>7. QED  BY <1>1, <1>4, <1>5, <1>6

(* What the format JPEG adds.                                              *)
LEMMA JpegRow ==
  ASSUME format = "JPEG"
  PROVE  /\ ForFormat \in Seq(AccessesTo(All))
         /\ ForFormat \in Seq(AccessesTo(Sizes \cup {\h3621, \h3818, \h4407, \h4713, \h5001}))
         /\ \A p \in {<<\h4713, 3>>, <<\h4407, 4>>, <<\h3818, \ha8>>, <<\h3621, \h10>>} :
              Writes(ForFormat, Len(ForFormat), p[1], p[2])
<1> DEFINE Regs == Sizes \cup {\h3621, \h3818, \h4407, \h4713, \h5001}
           j == OV5642_JPEG_Capture_QSXGA
           o == ov5642(320)
           t == <<wr(\h3818, \ha8), wr(\h3621, \h10), wr(\h4407, \h04)>>
           P == {<<\h4713, 3>>}
           Q == {<<\h4407, 4>>, <<\h3818, \ha8>>, <<\h3621, \h10>>}
<1>1. AccessesTo(Sizes \cup {\h5001}) \subseteq AccessesTo(Regs)
  BY DEF AccessesTo
<1>2. o \in Seq(AccessesTo(Sizes \cup {\h5001}))
  BY Row320
<1>3. t \in Seq(AccessesTo({\h3621, \h3818, \h4407}))
  BY DEF AccessesTo, wr
<1>4. \A p \in Q : Writes(t, Len(t), p[1], p[2])
  <2>1. /\ Len(t) = 3 /\ t[1] = wr(\h3818, \ha8) /\ t[2] = wr(\h3621, \h10)
        /\ t[3] = wr(\h4407, \h04)
    OBVIOUS
  <2> HIDE DEF t
  <2>2. /\ Writes(t, 3, \h3818, \ha8) /\ Writes(t, 3, \h3621, \h10)
        /\ Writes(t, 3, \h4407, \h04)
    BY <2>1 DEF wr, SYSTEM, Writes, Untouched
  <2>3. QED  BY <2>1, <2>2
<1>5. ForFormat = j \o o \o t
  BY DEF ForFormat
<1>6. \A p \in P : p[1] \notin Sizes \cup {\h5001} /\ p[1] \notin {\h3621, \h3818, \h4407}
  BY DEF Sizes
<1>7. Sizes \cup {\h5001} \subseteq Registers /\ {\h3621, \h3818, \h4407} \subseteq Registers
  BY DEF Sizes, Registers
<1>8. \A p \in P : Writes(j, Len(j), p[1], p[2])
  BY CaptureRow
<1>9. j \in Seq(AccessesTo(All)) /\ j \in Seq(AccessesTo(Regs))
  BY CaptureRow
<1>10. AccessesTo({\h3621, \h3818, \h4407}) \subseteq AccessesTo(Regs) /\ AccessesTo(Regs) \subseteq AccessesTo(All)
  BY DEF AccessesTo, Sizes, Registers, All
<1> HIDE DEF j, o, t, P, Q, Regs
<1>11. o \in Seq(AccessesTo(Regs)) /\ t \in Seq(AccessesTo(Regs)) /\ t \in Seq(AccessesTo(All))
  BY <1>1, <1>2, <1>3, <1>10
<1>12. j \o o \o t \in Seq(AccessesTo(Regs))
  BY <1>9, <1>11
<1>13. j \o o \in Seq(AccessesTo(All)) /\ \A p \in P : Writes(j \o o, Len(j \o o), p[1], p[2])
  BY <1>2, <1>6, <1>7, <1>8, <1>9, WritesKept
<1> DEFINE s == j \o o
           Last == {\h3621, \h3818, \h4407}
<1>14. /\ s \o t \in Seq(AccessesTo(All))
       /\ \A p \in P : Writes(s \o t, Len(s \o t), p[1], p[2])
       /\ \A p \in Q : Writes(s \o t, Len(s \o t), p[1], p[2])
  <2>1. s \in Seq(AccessesTo(All)) /\ \A p \in P : Writes(s, Len(s), p[1], p[2])
    BY <1>13
  <2>2. t \in Seq(AccessesTo(Last)) /\ Last \subseteq Registers /\ \A p \in P : p[1] \notin Last
    BY <1>3, <1>6, <1>7
  <2> HIDE DEF s, Last
  <2>3. \A p \in Q : Writes(s \o t, Len(s \o t), p[1], p[2])
    BY <1>4, <1>11, <2>1, WritesSecond
  <2>4. QED  BY <2>1, <2>2, <2>3, WritesKept
<1>15. QED  BY <1>5, <1>12, <1>14 DEF P, Q, Regs

(* The row writes old, reads it back and writes new, and that stands.      *)
Changed(row, reg, old, new) ==
  \E j \in 1..(Len(row) - 1) :
    /\ row[j] = rd(reg) /\ Writes(row, j - 1, reg, old)
    /\ Changes(row[j + 1], reg, old, new) /\ Untouched(row, j + 2, Len(row), reg)

(* Where the accesses of two rows are in the one row that they make.       *)
LEMMA TwoRows ==
  ASSUME NEW A, NEW s \in Seq(A), NEW t \in Seq(A)
  PROVE  /\ s \o t \in Seq(A) /\ Len(s \o t) = Len(s) + Len(t)
         /\ \A k \in 1..Len(s) : (s \o t)[k] = s[k]
         /\ \A k \in 1..Len(t) : (s \o t)[Len(s) + k] = t[k]
<1>1. s \o t \in Seq(A) /\ Len(s \o t) = Len(s) + Len(t)
  OBVIOUS
<1>2. \A k \in 1..Len(s) : (s \o t)[k] = s[k]
  OBVIOUS
<1>3. \A k \in 1..Len(t) : (s \o t)[Len(s) + k] = t[k]
  OBVIOUS
<1>4. QED  BY <1>1, <1>2, <1>3

(* A read and the write that changes what was read, in the middle of a     *)
(* row, change what the first part of the row writes.                      *)
LEMMA ChangeInRow ==
  ASSUME NEW A, NEW s \in Seq(A), NEW t \in Seq(A), NEW u \in Seq(A), NEW reg, NEW old, NEW new,
         Writes(s, Len(s), reg, old), NEW i \in 1..(Len(t) - 1),
         t[i] = rd(reg), Changes(t[i + 1], reg, old, new),
         Untouched(t, 1, i - 1, reg), Untouched(t, i + 2, Len(t), reg), Untouched(u, 1, Len(u), reg)
  PROVE  Changed(s \o t \o u, reg, old, new)
<1> DEFINE row == s \o t \o u
           j   == Len(s) + i
<1>1. /\ Len(s) \in Nat /\ Len(t) \in Nat /\ Len(u) \in Nat
      /\ Len(row) = Len(s) + Len(t) + Len(u)
  OBVIOUS
<1>2. /\ \A k \in 1..Len(s) : row[k] = s[k]
      /\ \A k \in 1..Len(t) : row[Len(s) + k] = t[k]
      /\ \A k \in 1..Len(u) : row[Len(s) + Len(t) + k] = u[k]
  <2> DEFINE st == s \o t
  <2>1. st \in Seq(A) /\ Len(st) = Len(s) + Len(t)
    BY TwoRows
  <2>2. /\ \A k \in 1..Len(s) : st[k] = s[k]
        /\ \A k \in 1..Len(t) : st[Len(s) + k] = t[k]
    BY TwoRows
  <2> HIDE DEF st
  <2>3. /\ \A k \in 1..Len(st) : (st \o u)[k] = st[k]
        /\ \A k \in 1..Len(u) : (st \o u)[Len(st) + k] = u[k]
    BY <2>1, TwoRows
  <2>4. \A k \in 1..Len(s) : k \in 1..Len(st)
    BY <1>1, <2>1
  <2>5. \A k \in 1..Len(t) : Len(s) + k \in 1..Len(st)
    BY <1>1, <2>1
  <2>6. QED  BY <2>1, <2>2, <2>3, <2>4, <2>5 DEF st
<1> HIDE DEF row
<1>3. j \in 1..(Len(row) - 1) /\ i \in 1..Len(t) /\ i + 1 \in 1..Len(t)
  BY <1>1
<1>4. row[j] = rd(reg) /\ Changes(row[j + 1], reg, old, new)
  <2>1. row[j] = t[i] /\ row[Len(s) + (i + 1)] = t[i + 1]
    BY <1>2, <1>3
  <2>2. Len(s) + (i + 1) = j + 1
    BY <1>1
  <2>3. QED  BY <2>1, <2>2
<1>5. Writes(row, j - 1, reg, old)
  <2>1. PICK k \in 1..Len(s) : s[k] = wr(reg, old) /\ Untouched(s, k + 1, Len(s), reg)
    BY DEF Writes
  <2>2. k \in 1..(j - 1) /\ row[k] = wr(reg, old)
    BY <1>1, <1>2, <2>1
  <2>3. Untouched(row, k + 1, j - 1, reg)
    <3> SUFFICES ASSUME NEW m \in (k + 1)..(j - 1)
                 PROVE  row[m][1] = "R" \/ row[m][2] \notin {reg, SYSTEM}
      BY DEF Untouched
    <3>1. CASE m <= Len(s)
      <4>1. m \in (k + 1)..Len(s) /\ m \in 1..Len(s)
        BY <1>1, <3>1
      <4>2. QED  BY <1>2, <2>1, <4>1 DEF Untouched
    <3>2. CASE m > Len(s)
      <4>1. m - Len(s) \in 1..(i - 1) /\ m - Len(s) \in 1..Len(t) /\ Len(s) + (m - Len(s)) = m
        BY <1>1, <3>2
      <4>2. row[m] = t[m - Len(s)]
        BY <1>2, <4>1
      <4>3. QED  BY <4>1, <4>2 DEF Untouched
    <3>3. QED  BY <1>1, <3>1, <3>2
  <2>4. QED  BY <2>2, <2>3 DEF Writes
<1>6. Untouched(row, j + 2, Len(row), reg)
  <2> SUFFICES ASSUME NEW m \in (j + 2)..Len(row)
               PROVE  row[m][1] = "R" \/ row[m][2] \notin {reg, SYSTEM}
    BY DEF Untouched
  <2>1. CASE m <= Len(s) + Len(t)
    <3>1. m - Len(s) \in (i + 2)..Len(t) /\ m - Len(s) \in 1..Len(t) /\ Len(s) + (m - Len(s)) = m
      BY <1>1, <2>1
    <3>2. row[m] = t[m - Len(s)]
      BY <1>2, <3>1
    <3>3. QED  BY <3>1, <3>2 DEF Untouched
  <2>2. CASE m > Len(s) + Len(t)
    <3> DEFINE n == m - Len(s) - Len(t)
    <3>1. n \in 1..Len(u) /\ Len(s) + Len(t) + n = m
      BY <1>1, <2>2
    <3> HIDE DEF n
    <3>2. row[m] = u[n]
      BY <1>2, <3>1
    <3>3. QED  BY <3>1, <3>2 DEF Untouched
  <2>3. QED  BY <1>1, <2>1, <2>2
<1> HIDE DEF j
<1>7. QED  BY <1>3, <1>4, <1>5, <1>6 DEF row, Changed

(* What the format BMP adds.                                               *)
LEMMA BmpRow ==
  ASSUME format # "JPEG"
  PROVE  /\ ForFormat \in Seq(AccessesTo(All)) /\ Len(ForFormat) = 7
         /\ \A p \in {<<\h4300, \h61>>, <<\h501f, 1>>, <<\h5002, \hf8>>} :
              Writes(ForFormat, Len(ForFormat), p[1], p[2])
         /\ ForFormat[4] = rd(\h3818) /\ Changes(ForFormat[5], \h3818, \hc1, \he1)
         /\ ForFormat[6] = rd(\h3621) /\ Changes(ForFormat[7], \h3621, \h87, \h87)
         /\ Untouched(ForFormat, 1, 3, \h3818) /\ Untouched(ForFormat, 6, 7, \h3818)
         /\ Untouched(ForFormat, 1, 5, \h3621) /\ Untouched(ForFormat, 8, 7, \h3621)
<1> DEFINE f == ForFormat
<1>1. f = <<wr(\h5002, \hf8), wr(\h501f, \h01), wr(\h4300, \h61),
            rd(\h3818), WOr(\h3818, \h60), rd(\h3621), WAnd(\h3621, \hdf)>>
  BY DEF ForFormat
<1> HIDE DEF f
<1>2. /\ Len(f) = 7 /\ f[1] = wr(\h5002, \hf8) /\ f[2] = wr(\h501f, \h01)
      /\ f[3] = wr(\h4300, \h61) /\ f[4] = rd(\h3818) /\ f[5] = WOr(\h3818, \h60)
      /\ f[6] = rd(\h3621) /\ f[7] = WAnd(\h3621, \hdf)
  BY <1>1
<1>3. f \in Seq(AccessesTo(All))
  <2>1. /\ wr(\h5002, \hf8) \in AccessesTo(All) /\ wr(\h501f, \h01) \in AccessesTo(All)
        /\ wr(\h4300, \h61) \in AccessesTo(All)
    BY DEF wr, AccessesTo, All, Registers
  <2>2. rd(\h3818) \in AccessesTo(All) /\ rd(\h3621) \in AccessesTo(All)
    BY DEF rd, AccessesTo, All, Registers
  <2>3. WOr(\h3818, \h60) \in AccessesTo(All) /\ WAnd(\h3621, \hdf) \in AccessesTo(All)
    BY DEF WOr, WAnd, AccessesTo, All, Registers
  <2>4. QED  BY <1>1, <2>1, <2>2, <2>3
<1>4. BitOr(\hc1, \h60) = \he1 /\ BitAnd(\h87, \hdf) = \h87
  BY DEF BitOr, BitAnd, Byte, Bit
<1>5. Changes(f[5], \h3818, \hc1, \he1) /\ Changes(f[7], \h3621, \h87, \h87)
  BY <1>2, <1>4 DEF Changes, WOr, WAnd
<1>6. /\ Writes(f, 7, \h4300, \h61) /\ Writes(f, 7, \h501f, 1) /\ Writes(f, 7, \h5002, \hf8)
  BY <1>2 DEF wr, rd, WOr, WAnd, SYSTEM, Writes, Untouched
<1>7. /\ Untouched(f, 1, 3, \h3818) /\ Untouched(f, 6, 7, \h3818)
      /\ Untouched(f, 1, 5, \h3621) /\ Untouched(f, 8, 7, \h3621)
  BY <1>2 DEF wr, rd, WOr, WAnd, SYSTEM, Untouched
<1>8. QED  BY <1>2, <1>3, <1>5, <1>6, <1>7 DEF f

(* What init() writes and changes; the format stands to the end of its row. *)
LEMMA InitRow ==
  ASSUME format \in Formats
  PROVE  /\ configure \in Seq(AccessesTo(All))
         /\ \A p \in Wants(Made(InInit)) \cup WantsFormat(format) :
              Writes(configure, Len(configure), p[1], p[2])
         /\ format = "BMP" =>
              Changed(configure, \h3818, \hc1, \he1) /\ Changed(configure, \h3621, \h87, \h87)
<1> DEFINE a == <<wr(SYSTEM, \h80)>>
           q == OV5642_QVGA_Preview
           b == a \o q
           f == ForFormat
           o == ov5642(320)
           Last == Sizes \cup {\h5001}
           P == {<<\h4300, \h30>>, <<\h501f, 0>>, <<\h3818, \hc1>>, <<\h3621, \h87>>}
<1>1. configure = b \o f \o o
  BY DEF configure
<1>2. a \in Seq(AccessesTo(All))
  BY DEF wr, AccessesTo, All
<1>3. q \in Seq(AccessesTo(All)) /\ \A p \in P : Writes(q, Len(q), p[1], p[2])
  BY QvgaRow
<1>4. b \in Seq(AccessesTo(All)) /\ \A p \in P : Writes(b, Len(b), p[1], p[2])
  <2> HIDE DEF a, q, P
  <2>1. QED  BY <1>2, <1>3, WritesSecond
<1>5. /\ o \in Seq(AccessesTo(Last))
      /\ \A p \in Wants(Made(InInit)) : Writes(o, Len(o), p[1], p[2])
  BY Row320
<1>6. Last \subseteq Registers /\ SYSTEM \notin Last
  BY DEF Sizes, Registers, SYSTEM
<1>7. o \in Seq(AccessesTo(All))
  <2>1. AccessesTo(Last) \subseteq AccessesTo(All)
    BY <1>6 DEF AccessesTo, All
  <2> HIDE DEF o, Last
  <2>2. QED  BY <1>5, <2>1
<1>8. f \in Seq(AccessesTo(All))
  BY JpegRow, BmpRow
<1>9. \A p \in WantsFormat(format) : p[1] \notin Last
  BY DEF WantsFormat, Sizes
<1>10. \A p \in WantsFormat(format) : Writes(b \o f, Len(b \o f), p[1], p[2])
  <2>1. CASE format = "JPEG"
    <3> DEFINE Regs == Sizes \cup {\h3621, \h3818, \h4407, \h4713, \h5001}
               P1 == {<<\h4300, \h30>>, <<\h501f, 0>>}
               P2 == {<<\h4713, 3>>, <<\h4407, 4>>, <<\h3818, \ha8>>, <<\h3621, \h10>>}
    <3>1. f \in Seq(AccessesTo(Regs)) /\ \A p \in P2 : Writes(f, Len(f), p[1], p[2])
      BY <2>1, JpegRow
    <3>2. Regs \subseteq Registers /\ P1 \subseteq P /\ \A p \in P1 : p[1] \notin Regs
      BY DEF Sizes, Registers
    <3>3. WantsFormat(format) = P1 \cup P2
      BY <2>1 DEF WantsFormat
    <3> HIDE DEF b, f, Regs, P, P1, P2
    <3>4. \A p \in P1 : Writes(b \o f, Len(b \o f), p[1], p[2])
      BY <1>4, <3>1, <3>2, WritesKept
    <3>5. \A p \in P2 : Writes(b \o f, Len(b \o f), p[1], p[2])
      BY <1>4, <1>8, <3>1, WritesSecond
    <3>6. QED  BY <3>3, <3>4, <3>5
  <2>2. CASE format # "JPEG"
    <3>1. WantsFormat(format) = {<<\h4300, \h61>>, <<\h501f, 1>>, <<\h5002, \hf8>>}
      BY <2>2 DEF WantsFormat
    <3>2. \A p \in WantsFormat(format) : Writes(f, Len(f), p[1], p[2])
      BY <2>2, <3>1, BmpRow
    <3> HIDE DEF b, f
    <3>3. QED  BY <1>4, <1>8, <3>2, WritesSecond
  <2>3. QED  BY <2>1, <2>2
<1>11. ASSUME format = "BMP"
       PROVE  Changed(configure, \h3818, \hc1, \he1) /\ Changed(configure, \h3621, \h87, \h87)
  <2>1. Writes(b, Len(b), \h3818, \hc1) /\ Writes(b, Len(b), \h3621, \h87)
    <3> HIDE DEF b
    <3>1. <<\h3818, \hc1>> \in P /\ <<\h3621, \h87>> \in P
      OBVIOUS
    <3> HIDE DEF P
    <3>2. QED  BY <1>4, <3>1
  <2>2. Untouched(o, 1, Len(o), \h3818) /\ Untouched(o, 1, Len(o), \h3621)
    <3>1. \h3818 \notin Last /\ \h3621 \notin Last
      BY DEF Sizes
    <3> HIDE DEF o, Last
    <3>2. QED  BY <1>5, <1>6, <3>1, ElsewhereUntouched
  <2>3. /\ Len(f) = 7
        /\ f[4] = rd(\h3818) /\ Changes(f[4 + 1], \h3818, \hc1, \he1)
        /\ f[6] = rd(\h3621) /\ Changes(f[6 + 1], \h3621, \h87, \h87)
        /\ Untouched(f, 1, 4 - 1, \h3818) /\ Untouched(f, 4 + 2, 7, \h3818)
        /\ Untouched(f, 1, 6 - 1, \h3621) /\ Untouched(f, 6 + 2, 7, \h3621)
    <3> HIDE DEF f
    <3>1. QED  BY <1>11, BmpRow DEF f
  <2> HIDE DEF b, f, o
  <2>4. 4 \in 1..(Len(f) - 1) /\ 6 \in 1..(Len(f) - 1)
    BY <2>3
  <2>5. ASSUME NEW reg, NEW old, NEW new, NEW i \in 1..(Len(f) - 1),
               Writes(b, Len(b), reg, old), Untouched(o, 1, Len(o), reg),
               f[i] = rd(reg), Changes(f[i + 1], reg, old, new),
               Untouched(f, 1, i - 1, reg), Untouched(f, i + 2, Len(f), reg)
        PROVE  Changed(b \o f \o o, reg, old, new)
    BY <1>4, <1>7, <1>8, <2>5, ChangeInRow
  <2>6. Changed(b \o f \o o, \h3818, \hc1, \he1) /\ Changed(b \o f \o o, \h3621, \h87, \h87)
    BY <2>1, <2>2, <2>3, <2>4, <2>5
  <2>7. QED  BY <1>1, <2>6
<1>12. /\ b \o f \o o \in Seq(AccessesTo(All))
       /\ \A p \in Wants(Made(InInit)) \cup WantsFormat(format) :
            Writes(b \o f \o o, Len(b \o f \o o), p[1], p[2])
  <2> DEFINE s == b \o f
  <2>1. s \in Seq(AccessesTo(All)) /\ \A p \in WantsFormat(format) : Writes(s, Len(s), p[1], p[2])
    <3> HIDE DEF b, f
    <3>1. s \in Seq(AccessesTo(All))
      BY <1>4, <1>8
    <3>2. QED  BY <1>10, <3>1
  <2> HIDE DEF s, o, Last
  <2>2. /\ s \o o \in Seq(AccessesTo(All))
        /\ \A p \in WantsFormat(format) : Writes(s \o o, Len(s \o o), p[1], p[2])
    BY <1>5, <1>6, <1>9, <2>1, WritesKept
  <2>3. \A p \in Wants(Made(InInit)) : Writes(s \o o, Len(s \o o), p[1], p[2])
    BY <1>5, <1>7, <2>1, WritesSecond
  <2>4. QED  BY <2>2, <2>3 DEF s
<1> HIDE DEF b, f, o
<1>13. QED  BY <1>1, <1>11, <1>12
-----------------------------------------------------------------------------
(* The calls *)

Settings == Calls \cup {Made(InInit)}

(* The kinds of settings and their arguments. *)
LEMMA Operations ==
  ASSUME NEW c \in Settings
  PROVE  \/ c = [op |-> "resolution", arg |-> c.arg] /\ c.arg \in Resolutions \cup {320}
         \/ c = [op |-> "saturation", arg |-> c.arg] /\ c.arg \in Levels
         \/ c = [op |-> "brightness", arg |-> c.arg] /\ c.arg \in Levels
         \/ c = [op |-> "effect", arg |-> c.arg] /\ c.arg \in Effects
         \/ c = [op |-> "sharpness", arg |-> c.arg] /\ c.arg \in Sharpness
BY DEF Settings, Calls, Made

(* What the arguments can be, whatever the constants. *)
LEMMA Arguments ==
  /\ Resolutions \cup {320} \subseteq {320, 640, 1024, 1280, 1600, 2048, 2592}
  /\ Levels \subseteq -4..4
  /\ \A e \in Effects : e \in DOMAIN Tint \/ e \in {"negative", "normal"}
  /\ \A s \in Sharpness : s \in DOMAIN AutoSharpness \/ s \in DOMAIN ManualSharpness
BY CameraSettingsAssumption

(* Each call makes what it is meant to make.                               *)
LEMMA RowOfCall ==
  ASSUME NEW c \in Calls
  PROVE  Makes(Accesses(c), c)
<1>1. c \in Settings
  BY DEF Settings
<1>2. CASE c = [op |-> "resolution", arg |-> c.arg] /\ c.arg \in Resolutions \cup {320}
  <2>1. Accesses(c) = setResolution(c.arg)
    BY <1>2 DEF Accesses
  <2>2. c.arg \in Int
    BY <1>2, Arguments
  <2>3. QED  BY <1>2, <2>1, <2>2, ResolutionRow
<1>3. CASE c = [op |-> "saturation", arg |-> c.arg] /\ c.arg \in Levels
  <2>1. Accesses(c) = setColorSaturation(c.arg)
    BY <1>3 DEF Accesses
  <2>2. c.arg \in Int
    BY <1>3, Arguments
  <2>3. QED  BY <1>3, <2>1, <2>2, SaturationRow
<1>4. CASE c = [op |-> "brightness", arg |-> c.arg] /\ c.arg \in Levels
  <2>1. Accesses(c) = setBrightness(c.arg)
    BY <1>4 DEF Accesses
  <2>2. c.arg \in Int
    BY <1>4, Arguments
  <2>3. QED  BY <1>4, <2>1, <2>2, BrightnessRow
<1>5. CASE c = [op |-> "effect", arg |-> c.arg] /\ c.arg \in Effects
  <2>1. Accesses(c) = setSpecialEffect(c.arg)
    BY <1>5 DEF Accesses
  <2>2. c.arg \in DOMAIN Tint \/ c.arg = "negative" \/ c.arg = "normal"
    BY <1>5, Arguments
  <2>3. QED  BY <1>5, <2>1, <2>2, TintRow, NegativeEffectRow, NormalEffectRow
<1>6. CASE c = [op |-> "sharpness", arg |-> c.arg] /\ c.arg \in Sharpness
  <2>1. Accesses(c) = setSharpnessType(c.arg)
    BY <1>6 DEF Accesses
  <2>2. c.arg \in DOMAIN AutoSharpness \/ c.arg \in DOMAIN ManualSharpness
    BY <1>6, Arguments
  <2>3. QED  BY <1>6, <2>1, <2>2, AutoRow, ManualRow
<1>7. QED  BY <1>1, <1>2, <1>3, <1>4, <1>5, <1>6, Operations

(* What Shows says of each kind of setting. *)
LEMMA ShowsResolution ==
  ASSUME NEW w, NEW rs
  PROVE  Shows([op |-> "resolution", arg |-> w], rs) <=>
           /\ 256 * rs[\h3808] + rs[\h3809] = w
           /\ 4 * (256 * rs[\h380a] + rs[\h380b]) = 3 * w
BY DEF Shows

(* A saturation shows when its level is set and its tone selected. *)
LEMMA ShowsSaturation ==
  ASSUME NEW n, NEW rs
  PROVE  Shows([op |-> "saturation", arg |-> n], rs) <=>
           /\ rs[\h5001] >= 128 /\ rs[\h5580] = \h02
           /\ rs[\h5583] = \h40 + 16 * n /\ rs[\h5584] = rs[\h5583]
BY DEF Shows, EffectsOn

(* A brightness shows when its magnitude and its sign are set. *)
LEMMA ShowsBrightness ==
  ASSUME NEW n, NEW rs
  PROVE  Shows([op |-> "brightness", arg |-> n], rs) <=>
           /\ rs[\h5001] >= 128 /\ rs[\h5580] = \h04
           /\ rs[\h5589] = 16 * Magnitude(n) /\ (rs[\h558a] = \h08) = (n < 0)
BY DEF Shows, EffectsOn

(* The effect normal shows when the effects are off. *)
LEMMA ShowsNormal ==
  ASSUME NEW rs
  PROVE  Shows([op |-> "effect", arg |-> "normal"], rs) <=> ~(rs[\h5001] >= 128) /\ rs[\h5580] = 0
BY TintNames DEF Shows, EffectsOn

(* The effect negative shows when it alone is selected. *)
LEMMA ShowsNegative ==
  ASSUME NEW rs
  PROVE  Shows([op |-> "effect", arg |-> "negative"], rs) <=> rs[\h5001] >= 128 /\ rs[\h5580] = \h40
BY TintNames DEF Shows, EffectsOn

(* A tint shows when both its components are set. *)
LEMMA ShowsTint ==
  ASSUME NEW e \in DOMAIN Tint, NEW rs
  PROVE  Shows([op |-> "effect", arg |-> e], rs) <=>
           rs[\h5001] >= 128 /\ rs[\h5580] = \h18 /\ <<rs[\h5585], rs[\h5586]>> = Tint[e]
BY TintNames DEF Shows, EffectsOn

(* An automatic sharpness shows when its three registers are set. *)
LEMMA ShowsAuto ==
  ASSUME NEW s \in DOMAIN AutoSharpness, NEW rs
  PROVE  Shows([op |-> "sharpness", arg |-> s], rs) <=>
           rs[\h530a] = 0 /\ <<rs[\h530c], rs[\h530d], rs[\h5312]>> = AutoSharpness[s]
<1>1. s \notin DOMAIN ManualSharpness
  BY SharpnessNames
<1>2. QED  BY <1>1 DEF Shows

(* A manual sharpness shows when both its registers hold its level. *)
LEMMA ShowsManual ==
  ASSUME NEW s \in DOMAIN ManualSharpness, NEW rs
  PROVE  Shows([op |-> "sharpness", arg |-> s], rs) <=>
           /\ rs[\h530a] = \h08 /\ rs[\h531e] = ManualSharpness[s]
           /\ rs[\h531f] = ManualSharpness[s]
<1>1. s \notin DOMAIN AutoSharpness
  BY SharpnessNames
<1>2. QED  BY <1>1 DEF Shows

(* The two bytes of a number make the number again. *)
LEMMA TwoBytes ==
  ASSUME NEW n \in Nat, NEW high, NEW low, high = n \div 256, low = n % 256
  PROVE  256 * high + low = n
<1>1. high \in Nat
  OBVIOUS
<1>2. n % 256 = n - 256 * (n \div 256)
  OBVIOUS
<1>3. low = n - 256 * high
  BY <1>2
<1>4. QED  BY ONLY <1>1, <1>3, n \in Nat

(* The widths that there are make whole heights.                           *)
LEMMA Heights ==
  ASSUME NEW w \in {320, 640, 1024, 1280, 1600, 2048, 2592}, NEW h, h = (3 * w) \div 4
  PROVE  h \in Nat /\ 4 * h = 3 * w
<1>1. \/ w = 4 * 80 \/ w = 4 * 160 \/ w = 4 * 256 \/ w = 4 * 320 \/ w = 4 * 400
      \/ w = 4 * 512 \/ w = 4 * 648
  OBVIOUS
<1>2. PICK k \in Nat : w = 4 * k
  BY <1>1
<1>3. (3 * (4 * k)) \div 4 = 3 * k
  OBVIOUS
<1>4. QED  BY <1>2, <1>3

(* A setting whose registers hold what it wants is in force.               *)
LEMMA WantedIsInForce ==
  ASSUME NEW c \in Settings, \A p \in Wants(c) : regs[p[1]] = p[2]
  PROVE  InForce(c)
<1>1. CASE c = [op |-> "resolution", arg |-> c.arg] /\ c.arg \in Resolutions \cup {320}
  <2>1. PICK w \in {320, 640, 1024, 1280, 1600, 2048, 2592} : w = c.arg
    BY <1>1, Arguments
  <2>2. PICK h : h = (3 * w) \div 4
    OBVIOUS
  <2>3. Wants(c) = {<<\h3808, w \div 256>>, <<\h3809, w % 256>>,
                    <<\h380a, h \div 256>>, <<\h380b, h % 256>>}
    BY <1>1, <2>1, <2>2 DEF Wants
  <2>4. /\ regs[\h3808] = w \div 256 /\ regs[\h3809] = w % 256
        /\ regs[\h380a] = h \div 256 /\ regs[\h380b] = h % 256
    BY <2>3
  <2>5. 256 * regs[\h3808] + regs[\h3809] = w /\ 4 * (256 * regs[\h380a] + regs[\h380b]) = 3 * w
    <3>1. w \in Nat /\ h \in Nat /\ 4 * h = 3 * w
      BY <2>2, Heights
    <3>2. 256 * regs[\h3808] + regs[\h3809] = w
      BY <2>4, <3>1, TwoBytes
    <3>3. 256 * regs[\h380a] + regs[\h380b] = h
      BY <2>4, <3>1, TwoBytes
    <3>4. QED  BY <3>1, <3>2, <3>3
  <2>6. QED  BY <1>1, <2>1, <2>5, ShowsResolution DEF InForce
<1>2. CASE c = [op |-> "saturation", arg |-> c.arg] /\ c.arg \in Levels
  <2>1. Wants(c) = {<<\h5001, \hff>>, <<\h5580, \h02>>,
                    <<\h5583, \h40 + 16 * c.arg>>, <<\h5584, \h40 + 16 * c.arg>>}
    BY <1>2 DEF Wants
  <2>2. /\ regs[\h5001] = \hff /\ regs[\h5580] = \h02
        /\ regs[\h5583] = \h40 + 16 * c.arg /\ regs[\h5584] = \h40 + 16 * c.arg
    BY <2>1
  <2>3. QED  BY <1>2, <2>2, ShowsSaturation DEF InForce
<1>3. CASE c = [op |-> "brightness", arg |-> c.arg] /\ c.arg \in Levels
  <2>1. Wants(c) = {<<\h5001, \hff>>, <<\h5580, \h04>>, <<\h5589, 16 * Magnitude(c.arg)>>,
                    <<\h558a, IF c.arg < 0 THEN \h08 ELSE \h00>>}
    BY <1>3 DEF Wants
  <2>2. /\ regs[\h5001] = \hff /\ regs[\h5580] = \h04
        /\ regs[\h5589] = 16 * Magnitude(c.arg)
        /\ regs[\h558a] = IF c.arg < 0 THEN \h08 ELSE \h00
    BY <2>1
  <2>3. (regs[\h558a] = \h08) = (c.arg < 0)
    BY <2>2
  <2>4. QED  BY <1>3, <2>2, <2>3, ShowsBrightness DEF InForce
<1>4. CASE c = [op |-> "effect", arg |-> c.arg] /\ c.arg \in Effects
  <2>1. CASE c.arg = "normal"
    <3>1. Wants(c) = {<<\h5001, \h7f>>, <<\h5580, \h00>>}
      BY <1>4, <2>1, TintNames DEF Wants
    <3>2. regs[\h5001] = \h7f /\ regs[\h5580] = 0
      BY <3>1
    <3>3. QED  BY <1>4, <2>1, <3>2, ShowsNormal DEF InForce
  <2>2. CASE c.arg = "negative"
    <3>1. Wants(c) = {<<\h5001, \hff>>, <<\h5580, \h40>>}
      BY <1>4, <2>2, TintNames DEF Wants
    <3>2. regs[\h5001] = \hff /\ regs[\h5580] = \h40
      BY <3>1
    <3>3. QED  BY <1>4, <2>2, <3>2, ShowsNegative DEF InForce
  <2>3. CASE c.arg \in DOMAIN Tint
    <3>1. Wants(c) = {<<\h5001, \hff>>, <<\h5580, \h18>>,
                      <<\h5585, Tint[c.arg][1]>>, <<\h5586, Tint[c.arg][2]>>}
      BY <1>4, <2>3, TintNames DEF Wants
    <3>2. /\ regs[\h5001] = \hff /\ regs[\h5580] = \h18
          /\ regs[\h5585] = Tint[c.arg][1] /\ regs[\h5586] = Tint[c.arg][2]
      BY <3>1
    <3>3. <<regs[\h5585], regs[\h5586]>> = Tint[c.arg]
      BY <2>3, <3>2, TintNames
    <3>4. QED  BY <1>4, <2>3, <3>2, <3>3, ShowsTint DEF InForce
  <2>4. QED  BY <1>4, <2>1, <2>2, <2>3, Arguments
<1>5. CASE c = [op |-> "sharpness", arg |-> c.arg] /\ c.arg \in Sharpness
  <2>1. CASE c.arg \in DOMAIN AutoSharpness
    <3>1. Wants(c) = {<<\h530a, \h00>>, <<\h530c, AutoSharpness[c.arg][1]>>,
                      <<\h530d, AutoSharpness[c.arg][2]>>, <<\h5312, AutoSharpness[c.arg][3]>>}
      BY <1>5, <2>1, SharpnessNames DEF Wants
    <3>2. /\ regs[\h530a] = 0 /\ regs[\h530c] = AutoSharpness[c.arg][1]
          /\ regs[\h530d] = AutoSharpness[c.arg][2] /\ regs[\h5312] = AutoSharpness[c.arg][3]
      BY <3>1
    <3>3. <<regs[\h530c], regs[\h530d], regs[\h5312]>> = AutoSharpness[c.arg]
      BY <2>1, <3>2, SharpnessNames
    <3>4. QED  BY <1>5, <2>1, <3>2, <3>3, ShowsAuto DEF InForce
  <2>2. CASE c.arg \in DOMAIN ManualSharpness
    <3>1. Wants(c) = {<<\h530a, \h08>>, <<\h531e, ManualSharpness[c.arg]>>,
                      <<\h531f, ManualSharpness[c.arg]>>}
      BY <1>5, <2>2, SharpnessNames DEF Wants
    <3>2. /\ regs[\h530a] = \h08 /\ regs[\h531e] = ManualSharpness[c.arg]
          /\ regs[\h531f] = ManualSharpness[c.arg]
      BY <3>1
    <3>3. QED  BY <1>5, <2>2, <3>2, ShowsManual DEF InForce
  <2>3. QED  BY <1>5, <2>1, <2>2, Arguments
<1>6. QED  BY <1>1, <1>2, <1>3, <1>4, <1>5, Operations

(* Calls that do not undo a setting do not go to its registers.            *)
LEMMA ShowsApart ==
  ASSUME NEW c \in Calls, NEW d \in Settings, ~Undoes(c, d), NEW rs, NEW new, Shows(d, rs),
         \A r \in Registers \ Reach(c) : new[r] = rs[r]
  PROVE  Shows(d, new)
<1>1. c \in Settings
  BY DEF Settings
<1>2. /\ c.op \in {"resolution", "saturation", "brightness", "effect", "sharpness"}
      /\ d.op \in {"resolution", "saturation", "brightness", "effect", "sharpness"}
      /\ c.op # d.op
  BY <1>1, Operations DEF Undoes
<1>3. Reach(c) \subseteq
        CASE c.op = "resolution" -> Sizes \cup IF c.arg # 2048 THEN {\h5001} ELSE FormatOf
          [] c.op = "saturation" -> {\h5001, \h5580, \h5583, \h5584}
          [] c.op = "brightness" -> {\h5001, \h5580, \h5589, \h558a}
          [] c.op = "effect"     -> {\h5001, \h5580, \h5585, \h5586}
          [] c.op = "sharpness"  -> {\h530a, \h530c, \h530d, \h5312, \h531e, \h531f}
  BY <1>2 DEF Reach
<1>4. CASE d.op = "resolution"
  <2>1. \A r \in Sizes : r \in Registers \ Reach(c)
    BY <1>2, <1>3, <1>4 DEF Sizes, Registers
  <2>2. /\ new[\h3808] = rs[\h3808] /\ new[\h3809] = rs[\h3809]
        /\ new[\h380a] = rs[\h380a] /\ new[\h380b] = rs[\h380b]
    BY <2>1 DEF Sizes
  <2>3. d = [op |-> "resolution", arg |-> d.arg]
    BY <1>4, Operations
  <2>4. QED  BY <2>2, <2>3, ShowsResolution
<1>5. CASE d.op = "sharpness"
  <2> DEFINE Sharp == {\h530a, \h530c, \h530d, \h5312, \h531e, \h531f}
  <2>1. \A r \in Sharp : r \in Registers \ Reach(c)
    BY <1>2, <1>3, <1>5 DEF Sizes, Registers, FormatOf
  <2>2. /\ new[\h530a] = rs[\h530a] /\ new[\h530c] = rs[\h530c] /\ new[\h530d] = rs[\h530d]
        /\ new[\h5312] = rs[\h5312] /\ new[\h531e] = rs[\h531e] /\ new[\h531f] = rs[\h531f]
    BY <2>1
  <2>3. d = [op |-> "sharpness", arg |-> d.arg] /\ d.arg \in Sharpness
    BY <1>5, Operations
  <2>4. CASE d.arg \in DOMAIN AutoSharpness
    BY <2>2, <2>3, <2>4, ShowsAuto
  <2>5. CASE d.arg \in DOMAIN ManualSharpness
    BY <2>2, <2>3, <2>5, ShowsManual
  <2>6. QED  BY <2>3, <2>4, <2>5, Arguments
<1>6. CASE d.op \in Tones
  <2> DEFINE Tone == {\h5001, \h5580, \h5583, \h5584, \h5585, \h5586, \h5589, \h558a}
  <2>1. c.op = "sharpness" \/ (c.op = "resolution" /\ c.arg = 2048)
    <3>1. c.op \notin Tones
      BY <1>6 DEF Undoes
    <3>2. ~(c.op = "resolution" /\ c.arg # 2048)
      BY <1>6 DEF Undoes
    <3>3. c.op = "sharpness" \/ c.op = "resolution"
      BY <1>2, <3>1 DEF Tones
    <3>4. QED  BY <3>2, <3>3
  <2>2. \A r \in Tone : r \in Registers \ Reach(c)
    BY <1>3, <2>1 DEF Sizes, Registers, FormatOf
  <2>3. /\ new[\h5001] = rs[\h5001] /\ new[\h5580] = rs[\h5580] /\ new[\h5583] = rs[\h5583]
        /\ new[\h5584] = rs[\h5584] /\ new[\h5585] = rs[\h5585] /\ new[\h5586] = rs[\h5586]
        /\ new[\h5589] = rs[\h5589] /\ new[\h558a] = rs[\h558a]
    BY <2>2
  <2>4. CASE d.op = "saturation"
    <3>1. d = [op |-> "saturation", arg |-> d.arg]
      BY <2>4, Operations
    <3>2. QED  BY <2>3, <3>1, ShowsSaturation
  <2>5. CASE d.op = "brightness"
    <3>1. d = [op |-> "brightness", arg |-> d.arg]
      BY <2>5, Operations
    <3>2. QED  BY <2>3, <3>1, ShowsBrightness
  <2>6. CASE d.op = "effect"
    <3>1. d = [op |-> "effect", arg |-> d.arg] /\ d.arg \in Effects
      BY <2>6, Operations
    <3>2. CASE d.arg = "normal"
      BY <2>3, <3>1, <3>2, ShowsNormal
    <3>3. CASE d.arg = "negative"
      BY <2>3, <3>1, <3>3, ShowsNegative
    <3>4. CASE d.arg \in DOMAIN Tint
      BY <2>3, <3>1, <3>4, ShowsTint
    <3>5. QED  BY <3>1, <3>2, <3>3, <3>4, Arguments
  <2>7. QED  BY <1>6, <2>4, <2>5, <2>6 DEF Tones
<1>7. QED  BY <1>2, <1>4, <1>5, <1>6 DEF Tones

(* Nor do calls that do not end the image format go to its registers.      *)
LEMMA FormatApart ==
  ASSUME NEW c \in Calls, ~EndsFormat(c)
  PROVE  Reach(c) \cap FormatOf = {}
<1>1. c \in Settings /\ c # [op |-> "resolution", arg |-> 2048]
  BY DEF Settings, EndsFormat
<1>2. CASE c = [op |-> "resolution", arg |-> c.arg]
  <2>1. c.arg # 2048
    BY <1>1, <1>2
  <2>2. Reach(c) = Sizes \cup {\h5001}
    BY <1>2, <2>1 DEF Reach
  <2>3. QED  BY <2>2 DEF Sizes, FormatOf
<1>3. CASE c.op \in {"saturation", "brightness", "effect", "sharpness"}
  BY <1>3 DEF Reach, FormatOf
<1>4. QED  BY <1>1, <1>2, <1>3, Operations
-----------------------------------------------------------------------------
(* The steps *)

(* Only init() resets the sensor. *)
LEMMA NoReset ==
  ASSUME NEW c \in Calls
  PROVE  SYSTEM \notin Reach(c) /\ Reach(c) \subseteq Registers
<1>1. c \in Settings
  BY DEF Settings
<1>2. c.op \in {"resolution", "saturation", "brightness", "effect", "sharpness"}
  BY <1>1, Operations
<1>3. CASE c.op = "resolution"
  <2>1. Reach(c) \subseteq Sizes \cup {\h5001} \cup FormatOf
    BY <1>3 DEF Reach
  <2>2. QED  BY <2>1 DEF Sizes, FormatOf, SYSTEM, Registers
<1>4. CASE c.op # "resolution"
  BY <1>2, <1>4 DEF Reach, SYSTEM, Registers
<1>5. QED  BY <1>3, <1>4

(* Setting and clearing bits gives a number. *)
LEMMA BytesAreInt ==
  ASSUME NEW v, NEW m
  PROVE  BitOr(v, m) \in Int /\ BitAnd(v, m) \in Int
BY DEF BitOr, BitAnd, Byte

(* Accesses keep the types and stay within the reach of their call.        *)
LEMMA AccessTyped ==
  ASSUME Typed, Access
  PROVE  /\ Typed'
         /\ \A r \in Registers \ Reach(call) : call # InInit => regs'[r] = regs[r]
<1>1. /\ phase = "busy" /\ call \in Calls \cup {InInit} /\ due \in Seq(AccessesTo(Reach(call)))
      /\ due # <<>> /\ due' = Tail(due)
      /\ UNCHANGED <<format, phase, call, stands, kept>>
  BY DEF Typed, Access
<1>2. Head(due) \in AccessesTo(Reach(call)) /\ due' \in Seq(AccessesTo(Reach(call)))
  BY <1>1
<1>3. PICK access : access = Head(due) /\ access \in AccessesTo(Reach(call))
  BY <1>2
<1>4. /\ access[1] \in {"W", "R", "or", "and"} /\ access[2] \in Reach(call) /\ access[3] \in Int
  BY <1>3 DEF AccessesTo
<1>5. \/ access[1] = "R" /\ reg_val' = regs[access[2]] /\ regs' = regs
      \/ access[1] # "R" /\ regs' = AfterWrite(access[2], NewValue(access)) /\ reg_val' = reg_val
      \/ regs' = regs /\ reg_val' = reg_val
  BY <1>3 DEF Access
<1>6. access[1] # "R" => NewValue(access) \in Int
  BY <1>4, BytesAreInt DEF NewValue
<1>7. regs' \in [Registers -> Int]
  <2>1. Default \in [Registers -> Int]
    BY DEF Default
  <2>2. QED  BY <1>5, <1>6, <2>1 DEF Typed, AfterWrite
<1>8. \A r \in Registers \ Reach(call) : call # InInit => regs'[r] = regs[r]
  <2> SUFFICES ASSUME call # InInit, NEW r \in Registers \ Reach(call) PROVE regs'[r] = regs[r]
    OBVIOUS
  <2>1. access[2] # r /\ access[2] # SYSTEM
    BY <1>1, <1>4, NoReset
  <2>2. QED  BY <1>5, <2>1 DEF Typed, AfterWrite
<1>9. QED  BY <1>1, <1>2, <1>7, <1>8 DEF Typed

(* What a row writes it writes to a register it goes to. *)
LEMMA WrittenInReach ==
  ASSUME NEW Regs, NEW row \in Seq(AccessesTo(Regs)), NEW reg, NEW val,
         Writes(row, Len(row), reg, val)
  PROVE  reg \in Regs /\ val \in Int
<1>1. PICK k \in 1..Len(row) : row[k] = wr(reg, val)
  BY DEF Writes
<1>2. row[k] \in AccessesTo(Regs)
  OBVIOUS
<1>3. QED  BY <1>1, <1>2 DEF AccessesTo, wr

(* What a setting wants it wants of registers that there are. *)
LEMMA WantsRegisters ==
  ASSUME NEW c \in Settings, NEW p \in Wants(c)
  PROVE  p[1] \in Registers /\ p[2] \in Int
<1>1. CASE c \in Calls
  <2> DEFINE row == Accesses(c)
  <2>1. row \in Seq(AccessesTo(Reach(c))) /\ Writes(row, Len(row), p[1], p[2])
    BY <1>1, RowOfCall DEF Makes
  <2> HIDE DEF row
  <2>2. p[1] \in Reach(c) /\ p[2] \in Int
    BY <2>1, WrittenInReach
  <2>3. QED  BY <1>1, <2>2, NoReset
<1>2. CASE c = Made(InInit)
  <2> DEFINE row == ov5642(320)
             Last == Sizes \cup {\h5001}
  <2>1. row \in Seq(AccessesTo(Last)) /\ Writes(row, Len(row), p[1], p[2])
    BY <1>2, Row320
  <2>2. Last \subseteq Registers
    BY DEF Sizes, Registers
  <2> HIDE DEF row, Last
  <2>3. QED  BY <2>1, <2>2, WrittenInReach
<1>3. QED  BY <1>1, <1>2 DEF Settings

(* No access disturbs what its call does not undo.                         *)
LEMMA AccessLeaves ==
  ASSUME Typed, LeftInForce, Access
  PROVE  LeftInForce'
<1>1. phase = "busy" /\ UNCHANGED <<phase, call, stands, kept>> /\ call \in Calls \cup {InInit}
  BY DEF Access, Typed
<1>2. CASE call = InInit
  <2>1. EndsFormat(call)' /\ \A d \in stands' : Undoes(call, d)'
    BY <1>1, <1>2 DEF EndsFormat, Undoes, InInit
  <2>2. QED  BY <1>1, <2>1 DEF LeftInForce
<1>3. CASE call # InInit
  <2>1. \A r \in Registers \ Reach(call) : regs'[r] = regs[r]
    BY <1>3, AccessTyped
  <2>2. call \in Calls
    BY <1>1, <1>3
  <2>3. ASSUME ~EndsFormat(call) PROVE InForceFormat(kept)'
    <3>1. \A r \in FormatOf : regs'[r] = regs[r]
      <4>1. FormatOf \subseteq Registers
        BY DEF FormatOf, Registers
      <4>2. QED  BY <2>1, <2>2, <2>3, <4>1, FormatApart
    <3>2. InForceFormat(kept)
      BY <1>1, <2>3 DEF LeftInForce
    <3>3. \A f \in Formats : \A p \in WantsFormat(f) : p[1] \in FormatOf
      BY DEF WantsFormat, FormatOf, Formats
    <3>4. kept' # "none" => \A p \in WantsFormat(kept') : regs'[p[1]] = p[2]
      <4>1. kept # "none" => kept \in Formats
        BY DEF Typed
      <4>2. QED  BY <1>1, <3>1, <3>2, <3>3, <4>1 DEF InForceFormat
    <3>5. kept' = "BMP" => regs'[\h3818] = \he1 /\ regs'[\h3621] = \h87
      BY <1>1, <3>1, <3>2 DEF InForceFormat, FormatOf
    <3>6. QED  BY <3>4, <3>5 DEF InForceFormat
  <2>4. ASSUME NEW d \in stands, ~Undoes(call, d) PROVE InForce(d)'
    <3>1. InForce(d) /\ d \in Settings
      BY <1>1, <2>4 DEF LeftInForce, Typed, Settings
    <3>2. Shows(d, regs')
      BY <2>1, <2>2, <2>4, <3>1, ShowsApart DEF InForce
    <3>3. QED  BY <3>2 DEF InForce
  <2>5. QED  BY <1>1, <2>3, <2>4 DEF LeftInForce
<1>4. QED  BY <1>2, <1>3

(* What the rest of the accesses will bring about the rest of that rest    *)
(* will, unless an access is refused.                                      *)
LEMMA AccessBrings ==
  ASSUME Typed, WillBeInForce, Access
  PROVE  WillBeInForce'
<1> SUFFICES ASSUME clean' PROVE WillBeInForce'
  BY DEF WillBeInForce
<1>1. /\ phase = "busy" /\ UNCHANGED <<phase, call, format>> /\ call \in Calls \cup {InInit}
      /\ format \in Formats /\ regs \in [Registers -> Int] /\ due \in Seq(AccessesTo(Reach(call)))
  BY DEF Access, Typed
<1>2. TakenRow /\ clean
  BY DEF Access, TakenRow
<1>3. due \in Seq(AccessesTo(Registers \cup {SYSTEM}))
  <2>1. Reach(call) \subseteq Registers \cup {SYSTEM}
    <3>1. CASE call = InInit
      BY <3>1 DEF Reach, InInit
    <3>2. CASE call \in Calls
      BY <3>2, NoReset
    <3>3. QED  BY <1>1, <3>1, <3>2
  <2>2. AccessesTo(Reach(call)) \subseteq AccessesTo(Registers \cup {SYSTEM})
    BY <2>1 DEF AccessesTo
  <2> DEFINE A == AccessesTo(Reach(call))
             B == AccessesTo(Registers \cup {SYSTEM})
  <2>3. due \in Seq(A) /\ A \subseteq B
    BY <1>1, <2>2
  <2> HIDE DEF A, B
  <2>4. due \in Seq(B)
    BY <2>3
  <2>5. QED  BY <2>4 DEF B
<1>4. Len(due) \in 1..Len(due) /\ Len(due') = Len(due) - 1
  BY <1>2, <1>3, RestOfRow DEF TakenRow
<1>5. ASSUME NEW reg \in Registers, NEW val \in Int, WillHold(Len(due), reg, val)
      PROVE  WillHold(Len(due), reg, val)'
  <2>1. PICK n \in 1..Len(due) : n = Len(due)
    BY <1>4
  <2>2. WillHold(n - 1, reg, val)'
    BY <1>1, <1>2, <1>3, <1>5, <2>1, WillHoldStep
  <2>3. n - 1 = Len(due')
    BY <1>4, <2>1
  <2>4. QED  BY <2>2, <2>3
<1>6. \A p \in Wants(Made(call)) : WillHold(Len(due), p[1], p[2])'
  <2>1. Made(call) \in Settings
    BY <1>1 DEF Made, Settings
  <2>2. \A p \in Wants(Made(call)) : p[1] \in Registers /\ p[2] \in Int
    BY <2>1, WantsRegisters
  <2>3. QED  BY <1>1, <1>2, <1>5, <2>2 DEF WillBeInForce
<1>7. ASSUME call = InInit PROVE \A p \in WantsFormat(format) : WillHold(Len(due), p[1], p[2])'
  <2>1. \A p \in WantsFormat(format) : p[1] \in Registers /\ p[2] \in Int
    BY DEF WantsFormat, Registers
  <2>2. QED  BY <1>1, <1>2, <1>5, <1>7, <2>1 DEF WillBeInForce
<1>8. ASSUME call = InInit, format = "BMP"
      PROVE  WillChange(\h3818, \hc1, \he1)' /\ WillChange(\h3621, \h87, \h87)'
  <2>1. WillChange(\h3818, \hc1, \he1) /\ WillChange(\h3621, \h87, \h87)
    BY <1>1, <1>2, <1>8 DEF WillBeInForce
  <2>2. \h3818 \in Registers /\ \h3621 \in Registers
    BY DEF Registers
  <2>3. QED  BY <1>1, <1>2, <1>3, <2>1, <2>2, WillChangeStep
<1>9. QED  BY <1>1, <1>6, <1>7, <1>8 DEF WillBeInForce
-----------------------------------------------------------------------------
(* A row that writes a value will bring it about, whatever the register    *)
(* holds now; so it is with what a row changes.                            *)
LEMMA RowBrings ==
  ASSUME NEW A, due' \in Seq(A)
  PROVE  /\ \A reg, val : Writes(due', Len(due'), reg, val) => WillHold(Len(due), reg, val)'
         /\ \A reg, old, new : Changed(due', reg, old, new) => WillChange(reg, old, new)'
<1>1. \A reg, val : Writes(due', Len(due'), reg, val) => WillHold(Len(due), reg, val)'
  BY DEF WillHold
<1>2. ASSUME NEW reg, NEW old, NEW new, Changed(due', reg, old, new)
      PROVE  WillChange(reg, old, new)'
  <2>1. PICK j \in 1..(Len(due') - 1) :
          /\ due'[j] = rd(reg) /\ Writes(due', j - 1, reg, old)
          /\ Changes(due'[j + 1], reg, old, new) /\ Untouched(due', j + 2, Len(due'), reg)
    BY <1>2 DEF Changed
  <2>2. WillHold(j - 1, reg, old)'
    BY <2>1 DEF WillHold
  <2>3. QED  BY <2>1, <2>2 DEF WillChange
<1>3. QED  BY <1>1, <1>2

(* From init() on the sensor is on its way to what init() configures.      *)
LEMMA IdentifyKeeps ==
  ASSUME SettingsInv, IdentifyChip
  PROVE  SettingsInv'
<1>1. /\ phase = "identify" /\ call = InInit /\ format \in Formats
      /\ UNCHANGED <<format, regs, call, stands, kept>>
  BY DEF IdentifyChip, SettingsInv, Typed
<1>2. CASE phase' = "busy" /\ due' = configure /\ clean' = TRUE
  <2>1. Reach(call') = All /\ Made(call') = Made(InInit)
    BY <1>1 DEF Reach, InInit, All
  <2>2. /\ due' \in Seq(AccessesTo(All))
        /\ \A p \in Wants(Made(InInit)) \cup WantsFormat(format) :
             Writes(due', Len(due'), p[1], p[2])
        /\ format = "BMP" =>
             Changed(due', \h3818, \hc1, \he1) /\ Changed(due', \h3621, \h87, \h87)
    BY <1>1, <1>2, InitRow
  <2>3. Typed'
    BY <1>1, <1>2, <2>1, <2>2 DEF SettingsInv, Typed
  <2>4. LeftInForce'
    <3>1. EndsFormat(call') /\ \A d \in stands : Undoes(call', d)
      BY <1>1 DEF EndsFormat, Undoes, InInit
    <3>2. QED  BY <1>1, <1>2, <3>1 DEF LeftInForce
  <2>5. WillBeInForce'
    <3>1. \A p \in Wants(Made(InInit)) \cup WantsFormat(format) : WillHold(Len(due), p[1], p[2])'
      BY <2>2, RowBrings
    <3>2. format = "BMP" => WillChange(\h3818, \hc1, \he1)' /\ WillChange(\h3621, \h87, \h87)'
      BY <2>2, RowBrings
    <3>3. QED  BY <1>1, <2>1, <3>1, <3>2 DEF WillBeInForce
  <2>6. QED  BY <2>3, <2>4, <2>5 DEF SettingsInv
<1>3. CASE UNCHANGED <<phase, due, clean, reg_val>>
  BY <1>1, <1>3 DEF SettingsInv, Typed, LeftInForce, WillBeInForce
<1>4. QED  BY <1>2, <1>3 DEF IdentifyChip

(* A call sets out to make its setting, with all others still in force.    *)
LEMMA SetKeeps ==
  ASSUME SettingsInv, NEW c \in Calls, Set(c)
  PROVE  SettingsInv'
<1>1. /\ phase = "ready" /\ phase' = "busy" /\ due' = Accesses(c) /\ call' = c
      /\ UNCHANGED <<format, regs, stands, kept>>
  BY DEF Set
<1>2. /\ due' \in Seq(AccessesTo(Reach(c)))
      /\ \A p \in Wants(c) : Writes(due', Len(due'), p[1], p[2])
  BY <1>1, RowOfCall DEF Makes
<1>3. c # InInit
  <2>1. c.op \in {"resolution", "saturation", "brightness", "effect", "sharpness"}
    BY Operations DEF Settings
  <2>2. QED  BY <2>1 DEF InInit
<1>4. Typed'
  BY <1>1, <1>2 DEF SettingsInv, Typed
<1>5. LeftInForce'
  BY <1>1 DEF SettingsInv, LeftInForce, InForceFormat, InForce
<1>6. WillBeInForce'
  <2>1. \A p \in Wants(c) : WillHold(Len(due), p[1], p[2])'
    BY <1>2, RowBrings
  <2>2. Made(call') = c
    BY <1>1, <1>3 DEF Made
  <2>3. QED  BY <1>1, <1>3, <2>1, <2>2 DEF WillBeInForce
<1>7. QED  BY <1>4, <1>5, <1>6 DEF SettingsInv

(* When no access is left, what the call wants has come about.             *)
LEMMA NothingLeft ==
  ASSUME due = <<>>
  PROVE  /\ \A reg, val : WillHold(Len(due), reg, val) => regs[reg] = val
         /\ \A reg, old, new : WillChange(reg, old, new) => regs[reg] = new
<1>1. Len(due) = 0
  OBVIOUS
<1>2. \A reg, val : WillHold(Len(due), reg, val) => regs[reg] = val
  BY <1>1 DEF WillHold, Writes
<1>3. \A reg, old, new : WillChange(reg, old, new) => regs[reg] = new
  BY <1>1 DEF WillChange
<1>4. QED  BY <1>2, <1>3

(* The call that returns leaves in force what should be.                   *)
LEMMA ReturnKeeps ==
  ASSUME SettingsInv, ReturnSetting
  PROVE  SettingsInv'
<1>1. /\ phase = "busy" /\ due = <<>> /\ phase' = "ready" /\ call \in Calls \cup {InInit}
      /\ UNCHANGED <<format, due, regs, call, clean>>
      /\ stands' = {d \in stands : ~Undoes(call, d)} \cup {c \in {Made(call)} : clean}
      /\ kept' = IF call = InInit THEN IF clean THEN format ELSE "none"
                 ELSE IF call = [op |-> "resolution", arg |-> 2048] THEN "none" ELSE kept
  BY DEF ReturnSetting, SettingsInv, Typed, Made
<1>2. Made(call) \in Settings
  BY <1>1 DEF Made, Settings
<1>3. Typed'
  <2>1. stands' \subseteq Settings
    BY <1>1, <1>2 DEF SettingsInv, Typed, Settings
  <2>2. kept' \in Formats \cup {"none"}
    BY <1>1 DEF SettingsInv, Typed
  <2>3. QED  BY <1>1, <2>1, <2>2 DEF SettingsInv, Typed, Settings
<1>4. ASSUME NEW d \in stands' PROVE InForce(d)'
  <2>1. CASE d \in stands /\ ~Undoes(call, d)
    <3>1. InForce(d)
      BY <1>1, <2>1 DEF SettingsInv, LeftInForce
    <3>2. QED  BY <1>1, <3>1 DEF InForce
  <2>2. CASE d = Made(call) /\ clean
    <3>1. \A p \in Wants(Made(call)) : WillHold(Len(due), p[1], p[2])
      BY <1>1, <2>2 DEF SettingsInv, WillBeInForce
    <3>2. \A p \in Wants(Made(call)) : regs[p[1]] = p[2]
      BY <1>1, <3>1, NothingLeft
    <3>3. InForce(d)
      BY <1>2, <2>2, <3>2, WantedIsInForce
    <3>4. QED  BY <1>1, <3>3 DEF InForce
  <2>3. QED  BY <1>1, <2>1, <2>2
<1>5. InForceFormat(kept)'
  <2>1. CASE call = InInit /\ clean
    <3>1. kept' = format
      BY <1>1, <2>1
    <3>2. \A p \in WantsFormat(format) : regs[p[1]] = p[2]
      <4>1. \A p \in WantsFormat(format) : WillHold(Len(due), p[1], p[2])
        BY <1>1, <2>1 DEF SettingsInv, WillBeInForce
      <4>2. QED  BY <1>1, <4>1, NothingLeft
    <3>3. format = "BMP" => regs[\h3818] = \he1 /\ regs[\h3621] = \h87
      <4>1. format = "BMP" => WillChange(\h3818, \hc1, \he1) /\ WillChange(\h3621, \h87, \h87)
        BY <1>1, <2>1 DEF SettingsInv, WillBeInForce
      <4>2. QED  BY <1>1, <4>1, NothingLeft
    <3>4. QED  BY <1>1, <3>1, <3>2, <3>3 DEF InForceFormat
  <2>2. CASE EndsFormat(call) /\ ~(call = InInit /\ clean)
    <3>1. kept' = "none"
      BY <1>1, <2>2 DEF EndsFormat
    <3>2. QED  BY <3>1 DEF InForceFormat
  <2>3. CASE ~EndsFormat(call)
    <3>1. kept' = kept
      BY <1>1, <2>3 DEF EndsFormat
    <3>2. InForceFormat(kept)
      BY <1>1, <2>3 DEF SettingsInv, LeftInForce
    <3>3. QED  BY <1>1, <3>1, <3>2 DEF InForceFormat
  <2>4. QED  BY <2>1, <2>2, <2>3 DEF EndsFormat
<1>6. LeftInForce' /\ WillBeInForce'
  BY <1>1, <1>4, <1>5 DEF LeftInForce, WillBeInForce
<1>7. QED  BY <1>3, <1>6 DEF SettingsInv

(* Whatever the settings, the calls and the accesses that are refused, a   *)
(* call leaves in force what it does not undo, and while it is under way   *)
(* its remaining accesses will bring about what it wants.                  *)
THEOREM SettingsInvariance == SettingsSpec => []SettingsInv
<1>1. SettingsInit => SettingsInv
  <2> SUFFICES ASSUME SettingsInit PROVE SettingsInv
    OBVIOUS
  <2>1. regs \in [Registers -> Int]
    BY DEF SettingsInit, Default
  <2>2. QED  BY <2>1 DEF SettingsInit, SettingsInv, Typed, LeftInForce, WillBeInForce, Formats
<1>2. SettingsInv /\ [SettingsNext]_settingsVars => SettingsInv'
  <2> SUFFICES ASSUME SettingsInv, [SettingsNext]_settingsVars PROVE SettingsInv'
    OBVIOUS
  <2>1. CASE setImageFormat
    <3>1. /\ phase \in {"off", "ready"} /\ format' \in Formats
          /\ UNCHANGED <<phase, regs, call, stands, kept>>
      BY <2>1 DEF setImageFormat
    <3>2. Typed'
      BY <3>1 DEF SettingsInv, Typed
    <3>3. LeftInForce' /\ WillBeInForce'
      BY <3>1 DEF SettingsInv, LeftInForce, WillBeInForce, InForceFormat, InForce
    <3>4. QED  BY <3>2, <3>3 DEF SettingsInv
  <2>2. CASE init
    <3>1. phase' = "identify" /\ call' = InInit /\ UNCHANGED <<format, regs, stands, kept>>
      BY <2>2 DEF init
    <3>2. QED  BY <3>1 DEF SettingsInv, Typed, LeftInForce, WillBeInForce
  <2>3. CASE IdentifyChip
    BY <2>3, IdentifyKeeps
  <2>4. CASE Access
    BY <2>4, AccessTyped, AccessLeaves, AccessBrings DEF SettingsInv
  <2>5. CASE ReturnSetting
    BY <2>5, ReturnKeeps
  <2>6. ASSUME NEW c \in Calls, Set(c) PROVE SettingsInv'
    BY <2>6, SetKeeps
  <2>7. CASE UNCHANGED settingsVars
    BY <2>7 DEF settingsVars, SettingsInv, Typed, LeftInForce, WillBeInForce, WillHold, WillChange,
                InForce, InForceFormat
  <2>8. QED  BY <2>1, <2>2, <2>3, <2>4, <2>5, <2>6, <2>7 DEF SettingsNext
<1>3. QED  BY <1>1, <1>2, PTL DEF SettingsSpec

(* Settings stay in force until a call that Undoes names: the other calls  *)
(* and the accesses that the sensor refuses do not disturb them.           *)
THEOREM SettingsInForceHolds == SettingsSpec => []SettingsInForce
<1>1. SettingsInv => SettingsInForce
  BY DEF SettingsInv, LeftInForce, SettingsInForce
<1>2. QED  BY <1>1, SettingsInvariance, PTL

(* After an init() without refusals the sensor delivers the format set     *)
(* before it, until setResolution(RES_2048x1536) or another init().        *)
THEOREM FormatKeptHolds == SettingsSpec => []FormatKept
<1>1. SettingsInv => FormatKept
  <2> SUFFICES ASSUME SettingsInv, phase = "ready" PROVE FormatKept
    BY DEF FormatKept
  <2>1. InForceFormat(kept)
    BY DEF SettingsInv, LeftInForce
  <2>2. CASE kept = "JPEG"
    BY <2>1, <2>2 DEF FormatKept, InForceFormat, WantsFormat
  <2>3. CASE kept = "BMP"
    BY <2>1, <2>3 DEF FormatKept, InForceFormat, WantsFormat
  <2>4. CASE kept = "none"
    BY <2>4 DEF FormatKept
  <2>5. QED  BY <2>2, <2>3, <2>4 DEF SettingsInv, Typed, Formats
<1>2. QED  BY <1>1, SettingsInvariance, PTL
=============================================================================
