---------------------------- MODULE I2CBusProofs ----------------------------
(***************************************************************************)
(* Proofs about I2CBus: for any registers, values and address, the pin     *)
(* operations of a call and a sensor that may refuse any byte, and answers *)
(* a clock edge at any time until the next delay is over, make up one      *)
(* access to a register.                                                   *)
(***************************************************************************)
EXTENDS I2CBus, TLAPS, SequenceTheorems

(* The inductive invariant: at each place of each driver function, what    *)
(* the lines are and how far the sensor has got with the byte.             *)

Ops == {"sda0", "sda1", "scl0", "scl1", "in", "out", "wait", "ack", "sample"}

(* Of the driver function f the first k operations are done, and those of  *)
(* then come after it.                                                     *)
Within(f, k, then) == todo = SubSeq(f, k + 1, Len(f)) \o then

(* The byte that write() sends at each stage, what the sensor takes it for *)
(* and what it expects next.                                               *)
Bytes == {"address", "high", "low", "value", "again"}
Byte ==
  CASE stage = "address" -> SensorAddr
    [] stage = "high"    -> call.reg \div 256
    [] stage = "low"     -> call.reg % 256
    [] stage = "value"   -> call.val
    [] stage = "again"   -> SensorAddr + 1
Phase == IF stage = "again" THEN "address" ELSE stage
Following ==
  CASE stage = "address" -> "high"
    [] stage = "high"    -> "low"
    [] stage = "low"     -> "value"
    [] stage = "value"   -> "value"
    [] stage = "again"   -> "send"

(* The first i bits of a byte, the last i bits, and that the sensor has    *)
(* got the first i bits of the byte.                                       *)
First(b, i) == b \div <<256, 128, 64, 32, 16, 8, 4, 2, 1>>[i + 1]
Last(b, i)  == b % <<1, 2, 4, 8, 16, 32, 64, 128, 256>>[i + 1]
Got(i) == Last(dev.shift, i) = First(Byte, i)

(* The sensor's register number before and after it takes the byte.        *)
RegBefore ==
  /\ stage = "low" => dev.reg = 256 * (call.reg \div 256)
  /\ stage \in {"value", "again"} => dev.reg = call.reg
RegAfter ==
  /\ stage = "high" => dev.reg = 256 * (call.reg \div 256)
  /\ stage \in {"low", "value", "again"} => dev.reg = call.reg

(* The sensor has refused the byte, or acknowledges it, n edges of the     *)
(* clock after its first, or is ready for the next.                        *)
Refused  == dev.phase = "off" /\ ~dev.pull /\ ~took
Acked(n) ==
  /\ dev.phase = Phase /\ dev.bits = n /\ dev.shift = Byte /\ dev.pull
  /\ RegAfter /\ (took <=> stage = "value")
Ready ==
  /\ dev.phase = Following /\ dev.bits = 0
  /\ dev.pull = (stage = "again" /\ Bit(file[dev.reg], 0) = 0)
  /\ RegAfter /\ (took <=> stage = "value")

Free == scl = 1 /\ sda = 1 /\ mode = "out" /\ dev.phase = "off" /\ ~dev.pull /\ ~dev.due

(* What holds when k operations of start() are done, of stop(), and of     *)
(* sendNACK();                                                             *)
Starting(k) ==
  /\ mode = "out" /\ ~dev.pull
  /\ k <= 4 => Free
  /\ k >= 5 => sda = 0 /\ dev.phase = "address" /\ dev.bits = 0 /\ dev.shift = 0
  /\ k \in 5..6 => scl = 1 /\ ~dev.due
  /\ k >= 7 => scl = 0
  /\ k = 8 => ~dev.due

Stopping(k) ==
  /\ mode = "out" /\ ~dev.pull /\ ~dev.due
  /\ k <= 2 => scl = 0 /\ (dev.phase = "off" \/ dev.bits = 0)
  /\ k \in 1..4 => sda = 0
  /\ k \in 3..4 => scl = 1 /\ (dev.phase = "off" \/ dev.bits = 1)
  /\ k >= 5 => scl = 1 /\ sda = 1 /\ dev.phase = "off"

Declining(k) ==
  /\ mode = "out" /\ ~dev.pull
  /\ k \in 1..6 => sda = 1
  /\ k <= 2 => scl = 0 /\ dev.phase = "send" /\ dev.bits = 8 /\ ~dev.due
  /\ k \in 3..4 => scl = 1 /\ dev.phase = "send" /\ dev.bits = 9 /\ dev.nack /\ ~dev.due
  /\ k >= 5 => scl = 0
  /\ k = 5 => \/ dev.due /\ dev.phase = "send" /\ dev.bits = 9 /\ dev.nack
              \/ ~dev.due /\ dev.phase = "off"
  /\ k >= 6 => dev.phase = "off" /\ ~dev.due

(* in write() when k operations for bit i are done, and k of those after   *)
(* the last bit;                                                           *)
Sending(i, k) ==
  /\ mode = "out" /\ ~dev.pull /\ dev.phase = Phase /\ RegBefore /\ ~took
  /\ k <= 2 => scl = 0 /\ dev.bits = i /\ Got(i)
  /\ k >= 1 => sda = Bit(Byte, i)
  /\ k >= 3 => scl = 1 /\ dev.bits = i + 1 /\ Got(i + 1)
  /\ i = 0 \/ k >= 2 => ~dev.due

Acknowledging(k) ==
  /\ mode = (IF k \in 1..7 THEN "in" ELSE "out")
  /\ scl = (IF k \in 3..5 THEN 1 ELSE 0)
  /\ k \notin {0, 1, 6} => ~dev.due
  /\ k <= 1 => \/ /\ dev.due /\ dev.phase = Phase /\ dev.bits = 8 /\ Got(8) /\ ~dev.pull
                  /\ RegBefore /\ ~took
               \/ ~dev.due /\ (Acked(8) \/ Refused)
  /\ k = 2 => Acked(8) \/ Refused
  /\ k \in 3..4 => Acked(9) \/ Refused
  /\ k = 5 => (Acked(9) /\ ack = 1) \/ (Refused /\ ack = 0)
  /\ k = 6 => (Acked(9) /\ dev.due /\ ack = 1) \/ (Refused /\ ack = 0)
                \/ (Ready /\ ~dev.due /\ ack = 1)
  /\ k >= 7 => (Ready /\ ack = 1) \/ (Refused /\ ack = 0)

(* and in read() when k operations for bit i are done.                     *)
Sends(i) == dev.bits = i /\ dev.pull = (i < 8 /\ Bit(file[dev.reg], i) = 0)

Fetching(i, k) ==
  /\ mode = "in" /\ dev.phase = "send" /\ dev.reg = call.reg /\ ~took
  /\ data = First(file[dev.reg], IF k >= 4 THEN i + 1 ELSE i)
  /\ k <= 1 => scl = 0 /\ Sends(i) /\ ~dev.due
  /\ k \in 2..4 => scl = 1 /\ dev.bits = i + 1 /\ dev.pull = (Bit(file[dev.reg], i) = 0) /\ ~dev.due
  /\ k = 5 => /\ scl = 0 /\ dev.bits = i + 1
              /\ dev.pull = IF dev.due THEN Bit(file[dev.reg], i) = 0
                            ELSE i < 7 /\ Bit(file[dev.reg], i + 1) = 0

FetchStarts ==
  /\ mode = "out" /\ scl = 0 /\ dev.phase = "send" /\ Sends(0) /\ ~dev.due
  /\ dev.reg = call.reg /\ ~took /\ data = 0
FetchEnds ==
  /\ mode = "in" /\ scl = 0 /\ dev.phase = "send" /\ Sends(8) /\ ~dev.due
  /\ dev.reg = call.reg /\ ~took /\ data = file[dev.reg]
FetchIsOver ==
  /\ mode = "out" /\ scl = 0 /\ dev.phase = "send" /\ Sends(8) /\ ~dev.due
  /\ dev.reg = call.reg /\ ~took /\ data = file[dev.reg]

(* Where the bus may be: nowhere, or in a function of the call's.          *)
Nowhere == stage = "idle" /\ call = NoCall /\ todo = <<>> /\ Free

Restarts == stage \in {"address", "again"} /\ ~took /\ (stage = "again" => dev.reg = call.reg)
AtRestart(k) == Restarts /\ stage = "again" /\ Within(stop, k, start \o write(Byte)) /\ Stopping(k)
AtStart(k)   == Restarts /\ Within(start, k, write(Byte)) /\ Starting(k)

AtBit(i, k) == stage \in Bytes /\ Within(write(Byte), 5 * i + k, <<>>) /\ Sending(i, k)
AtAck(k)    == stage \in Bytes /\ Within(write(Byte), 40 + k, <<>>) /\ Acknowledging(k)

AtFetch(i, k) == stage = "read" /\ Within(read, 1 + 6 * i + k, <<>>) /\ Fetching(i, k)
AtTurn ==
  /\ stage = "read"
  /\ \/ Within(read, 0, <<>>) /\ FetchStarts
     \/ Within(read, 49, <<>>) /\ FetchEnds
     \/ Within(read, 50, <<>>) /\ FetchIsOver

AtNack(k) == stage = "done" /\ took /\ Within(sendNACK, k, stop) /\ Declining(k)
AtStop(k) ==
  stage \in {"done", "failed"} /\ (took <=> stage = "done") /\ Within(stop, k, <<>>) /\ Stopping(k)

Places ==
  \/ Nowhere
  \/ \E k \in 0..6 : AtRestart(k)
  \/ \E k \in 0..8 : AtStart(k)
  \/ \E i \in 0..7, k \in 0..4 : AtBit(i, k)
  \/ \E k \in 0..8 : AtAck(k)
  \/ \E i \in 0..7, k \in 0..5 : AtFetch(i, k)
  \/ AtTurn
  \/ \E k \in 0..8 : AtNack(k)
  \/ \E k \in 0..6 : AtStop(k)

Device ==
  [phase : {"off", "address", "high", "low", "value", "send"}, bits : Nat, shift : 0..255,
   pull : BOOLEAN, due : BOOLEAN, nack : BOOLEAN, reg : Int]

TypeOK ==
  /\ scl \in 0..1 /\ sda \in 0..1 /\ mode \in {"in", "out"} /\ todo \in Seq(Ops)
  /\ stage \in Bytes \cup {"idle", "read", "done", "failed"}
  /\ call \in Calls \cup {NoCall} /\ (stage = "idle" <=> call = NoCall)
  /\ (stage = "value" => call.op = "write") /\ (stage \in {"again", "read"} => call.op = "read")
  /\ ack \in 0..1 /\ data \in 0..255 /\ out \in 0..255 /\ ret \in BOOLEAN /\ took \in BOOLEAN
  /\ dev \in Device /\ file \in [Regs -> Vals]

IInv == TypeOK /\ Places
-----------------------------------------------------------------------------
(* Rows of operations *)

(* The next operation of the function that is being run, and the rest.     *)
LEMMA Goes ==
  ASSUME NEW f \in Seq(Ops), NEW then \in Seq(Ops), NEW k \in 0..(Len(f) - 1), Within(f, k, then)
  PROVE  /\ todo # <<>> /\ Head(todo) = f[k + 1]
         /\ Tail(todo) = SubSeq(f, k + 2, Len(f)) \o then
<1> DEFINE rest == SubSeq(f, k + 1, Len(f))
<1>1. Head(rest) = f[k + 1] /\ Tail(rest) = SubSeq(f, k + 2, Len(f))
  <2>1. PICK m : m = k + 1
    OBVIOUS
  <2>2. m \in 1..Len(f) /\ Len(f) \in m..Len(f) /\ m + 1 = k + 2
    BY <2>1
  <2>3. Head(SubSeq(f, m, Len(f))) = f[m] /\ Tail(SubSeq(f, m, Len(f))) = SubSeq(f, m + 1, Len(f))
    BY <2>2, HeadTailOfSubSeq
  <2>4. QED  BY <2>1, <2>2, <2>3
<1>2. rest \in Seq(Ops) /\ Len(rest) > 0
  OBVIOUS
<1> HIDE DEF rest
<1>3. /\ rest \o then # <<>> /\ Head(rest \o then) = Head(rest)
      /\ Tail(rest \o then) = Tail(rest) \o then
  BY <1>2
<1>4. QED  BY <1>1, <1>3 DEF Within, rest

(* When all of them are done those come that follow.                       *)
LEMMA GoesOn ==
  ASSUME NEW f \in Seq(Ops), NEW then \in Seq(Ops), Within(f, Len(f), then)
  PROVE  todo = then
<1>1. SubSeq(f, Len(f) + 1, Len(f)) = <<>>
  BY SubSeqEmpty
<1>2. QED  BY <1>1 DEF Within

(* At first none is done.                                                  *)
LEMMA GoesFirst ==
  ASSUME NEW f \in Seq(Ops), NEW then \in Seq(Ops), todo = f \o then
  PROVE  Within(f, 0, then)
<1>1. SubSeq(f, 1, Len(f)) = f
  BY SubSeqFull
<1>2. QED  BY <1>1 DEF Within

(* A function from 1..n is a sequence of length n.                         *)
LEMMA RowFromFunction ==
  ASSUME NEW n \in Nat, NEW f \in [1..n -> Ops]
  PROVE  f \in Seq(Ops) /\ Len(f) = n
<1>1. f \in Seq(Ops)
  BY SeqDef
<1>2. DOMAIN f = 1..n /\ DOMAIN f = 1..Len(f) /\ Len(f) \in Nat
  BY <1>1, LenProperties
<1>3. QED  BY <1>1, <1>2

(* Two rows, one after the other.                                          *)
LEMMA TwoRows ==
  ASSUME NEW s \in Seq(Ops), NEW t \in Seq(Ops)
  PROVE  \E w \in Seq(Ops) :
           /\ w = s \o t /\ Len(w) = Len(s) + Len(t)
           /\ \A i \in 1..Len(s) : w[i] = s[i]
           /\ \A i \in 1..Len(t) : w[Len(s) + i] = t[i]
<1>1. PICK w : w = s \o t
  OBVIOUS
<1>2. /\ w \in Seq(Ops) /\ Len(w) = Len(s) + Len(t)
      /\ \A i \in 1..Len(s) : w[i] = s[i]
      /\ \A i \in 1..Len(t) : w[Len(s) + i] = t[i]
  BY <1>1
<1>3. QED  BY <1>1, <1>2

(* The operations of each driver function, by their places.                *)
LEMMA StartRow ==
  /\ start \in Seq(Ops) /\ Len(start) = 8
  /\ start[1] = "sda1" /\ start[2] = "wait" /\ start[3] = "scl1" /\ start[4] = "wait"
  /\ start[5] = "sda0" /\ start[6] = "wait" /\ start[7] = "scl0" /\ start[8] = "wait"
BY DEF start, Ops

(* stop(): SDA low, the clock high, SDA high. *)
LEMMA StopRow ==
  /\ stop \in Seq(Ops) /\ Len(stop) = 6
  /\ stop[1] = "sda0" /\ stop[2] = "wait" /\ stop[3] = "scl1"
  /\ stop[4] = "wait" /\ stop[5] = "sda1" /\ stop[6] = "wait"
BY DEF stop, Ops

(* sendNACK(): SDA high for one clock, then low. *)
LEMMA NackRow ==
  /\ sendNACK \in Seq(Ops) /\ Len(sendNACK) = 8
  /\ sendNACK[1] = "sda1" /\ sendNACK[2] = "wait" /\ sendNACK[3] = "scl1"
  /\ sendNACK[4] = "wait" /\ sendNACK[5] = "scl0" /\ sendNACK[6] = "wait"
  /\ sendNACK[7] = "sda0" /\ sendNACK[8] = "wait"
BY DEF sendNACK, Ops

(* The operations of write() for each bit, those for the acknowledgement,  *)
(* and those of read() for each bit.                                       *)
SendOps(b, i) == <<IF Bit(b, i) = 1 THEN "sda1" ELSE "sda0", "wait", "scl1", "wait", "scl0">>
AckOps        == <<"in", "wait", "scl1", "wait", "ack", "scl0", "wait", "out">>
FetchOps      == <<"wait", "scl1", "wait", "sample", "scl0", "wait">>

(* Operation k of bit i is number 5 * i + k of write(), and the division   *)
(* finds both again.                                                       *)
LEMMA FiveEach ==
  ASSUME NEW i \in 0..7, NEW k \in 0..4
  PROVE  /\ 5 * i + k + 1 \in 1..40 /\ (5 * i + k + 1 - 1) \div 5 = i
         /\ ((5 * i + k + 1 - 1) % 5) + 1 = k + 1
OBVIOUS

(* The same of read(), which has six operations for each bit. *)
LEMMA SixEach ==
  ASSUME NEW i \in 0..7, NEW k \in 0..5
  PROVE  /\ 6 * i + k + 1 \in 1..48 /\ ((6 * i + k + 1 - 1) % 6) + 1 = k + 1
OBVIOUS

(* The operations of write(): those for each bit, then those for the       *)
(* acknowledgement.                                                        *)
LEMMA WriteRow ==
  ASSUME NEW b
  PROVE  /\ write(b) \in Seq(Ops) /\ Len(write(b)) = 48
         /\ \A i \in 0..7, k \in 0..4 :
              write(b)[5 * i + k + 1] = SendOps(b, i)[k + 1]
         /\ \A k \in 0..7 : write(b)[40 + k + 1] = AckOps[k + 1]
<1> DEFINE op(i) == <<IF Bit(b, i) = 1 THEN "sda1" ELSE "sda0", "wait", "scl1", "wait", "scl0">>
           bits == [n \in 1..40 |-> op((n - 1) \div 5)[((n - 1) % 5) + 1]]
           rest == <<"in", "wait", "scl1", "wait", "ack", "scl0", "wait", "out">>
<1>1. write(b) = bits \o rest
  <2>1. 8 * 5 = 40
    OBVIOUS
  <2>2. QED  BY <2>1 DEF write, ForEachBit
<1>2. \A n \in 1..40 : bits[n] \in Ops
  <2> SUFFICES ASSUME NEW n \in 1..40 PROVE op((n - 1) \div 5)[((n - 1) % 5) + 1] \in Ops
    OBVIOUS
  <2>1. PICK i : i = (n - 1) \div 5
    OBVIOUS
  <2>2. PICK k \in 1..5 : k = ((n - 1) % 5) + 1
    OBVIOUS
  <2>3. op(i)[k] \in Ops
    BY DEF Ops
  <2>4. QED  BY <2>1, <2>2, <2>3
<1>3. bits \in Seq(Ops) /\ Len(bits) = 40 /\ rest \in Seq(Ops) /\ Len(rest) = 8
  <2>1. rest \in Seq(Ops) /\ Len(rest) = 8
    BY DEF Ops
  <2>2. bits \in [1..40 -> Ops]
    BY <1>2
  <2> HIDE DEF bits
  <2>3. QED  BY <2>1, <2>2, RowFromFunction
<1>4. ASSUME NEW i \in 0..7, NEW k \in 0..4
      PROVE  5 * i + k + 1 \in 1..40 /\ bits[5 * i + k + 1] = op(i)[k + 1]
  <2>1. PICK n : n = 5 * i + k + 1
    OBVIOUS
  <2>2. n \in 1..40 /\ (n - 1) \div 5 = i /\ ((n - 1) % 5) + 1 = k + 1
    BY <2>1, FiveEach
  <2>3. bits[n] = op(i)[k + 1]
    BY <2>2
  <2>4. QED  BY <2>1, <2>2, <2>3
<1> HIDE DEF bits, rest
<1>5. /\ write(b) \in Seq(Ops) /\ Len(write(b)) = 48
      /\ \A n \in 1..40 : write(b)[n] = bits[n]
      /\ \A n \in 1..8 : write(b)[40 + n] = rest[n]
  <2>1. PICK s \in Seq(Ops), t \in Seq(Ops) : s = bits /\ t = rest
    BY <1>3
  <2>2. Len(s) = 40 /\ Len(t) = 8 /\ write(b) = s \o t
    BY <1>1, <1>3, <2>1
  <2>3. PICK w \in Seq(Ops) :
          /\ w = s \o t /\ Len(w) = Len(s) + Len(t)
          /\ \A n \in 1..Len(s) : w[n] = s[n]
          /\ \A n \in 1..Len(t) : w[Len(s) + n] = t[n]
    BY TwoRows
  <2>4. write(b) = w
    BY <2>2, <2>3
  <2>5. \A n \in 1..8 : w[40 + n] = t[n]
    BY <2>2, <2>3
  <2>6. \A n \in 1..40 : w[n] = s[n]
    BY <2>2, <2>3
  <2>7. Len(w) = 48
    BY <2>2, <2>3
  <2>8. QED  BY <2>1, <2>4, <2>5, <2>6, <2>7
<1>6. \A i \in 0..7, k \in 0..4 : write(b)[5 * i + k + 1] = SendOps(b, i)[k + 1]
  BY <1>4, <1>5 DEF SendOps
<1>7. \A k \in 0..7 : write(b)[40 + k + 1] = AckOps[k + 1]
  <2> SUFFICES ASSUME NEW k \in 0..7 PROVE write(b)[40 + k + 1] = AckOps[k + 1]
    OBVIOUS
  <2>1. PICK n \in 1..8 : n = k + 1
    OBVIOUS
  <2>2. write(b)[40 + n] = rest[n]
    BY <1>5
  <2>3. rest[n] = AckOps[n]
    BY DEF rest, AckOps
  <2>4. 40 + n = 40 + k + 1 /\ n = k + 1
    BY <2>1
  <2>5. QED  BY <2>2, <2>3, <2>4
<1>8. QED  BY <1>5, <1>6, <1>7

(* The operations of read(): those for each bit between turning SDA around *)
(* and back.                                                               *)
LEMMA ReadRow ==
  /\ read \in Seq(Ops) /\ Len(read) = 50 /\ read[1] = "in" /\ read[50] = "out"
  /\ \A i \in 0..7, k \in 0..5 :
       read[1 + 6 * i + k + 1] = FetchOps[k + 1]
<1> DEFINE op == <<"wait", "scl1", "wait", "sample", "scl0", "wait">>
           bits == [n \in 1..48 |-> op[((n - 1) % 6) + 1]]
<1>1. read = <<"in">> \o bits \o <<"out">>
  <2>1. 8 * 6 = 48
    OBVIOUS
  <2>2. QED  BY <2>1 DEF read, ForEachBit
<1>2. \A n \in 1..48 : bits[n] \in Ops
  <2> SUFFICES ASSUME NEW n \in 1..48 PROVE op[((n - 1) % 6) + 1] \in Ops
    OBVIOUS
  <2>1. PICK k \in 1..6 : k = ((n - 1) % 6) + 1
    OBVIOUS
  <2>2. op[k] \in Ops
    BY DEF Ops
  <2>3. QED  BY <2>1, <2>2
<1>3. bits \in Seq(Ops) /\ Len(bits) = 48
  <2>1. bits \in [1..48 -> Ops]
    BY <1>2
  <2> HIDE DEF bits
  <2>2. QED  BY <2>1, RowFromFunction
<1>4. ASSUME NEW i \in 0..7, NEW k \in 0..5
      PROVE  6 * i + k + 1 \in 1..48 /\ bits[6 * i + k + 1] = op[k + 1]
  <2>1. PICK n : n = 6 * i + k + 1
    OBVIOUS
  <2>2. n \in 1..48 /\ ((n - 1) % 6) + 1 = k + 1
    BY <2>1, SixEach
  <2>3. bits[n] = op[k + 1]
    BY <2>2
  <2>4. QED  BY <2>1, <2>2, <2>3
<1> HIDE DEF bits
<1>5. <<"in">> \in Seq(Ops) /\ <<"out">> \in Seq(Ops)
  BY DEF Ops
<1>6. PICK front : front = <<"in">> \o bits
  OBVIOUS
<1>7. /\ front \in Seq(Ops) /\ Len(front) = 49 /\ front[1] = "in"
      /\ \A n \in 1..48 : front[1 + n] = bits[n]
  <2>1. PICK s \in Seq(Ops), m \in Seq(Ops) : s = <<"in">> /\ m = bits
    BY <1>3, <1>5
  <2>2. Len(s) = 1 /\ s[1] = "in" /\ Len(m) = 48 /\ front = s \o m
    BY <1>3, <1>6, <2>1
  <2>3. PICK w \in Seq(Ops) :
          /\ w = s \o m /\ Len(w) = Len(s) + Len(m)
          /\ \A n \in 1..Len(s) : w[n] = s[n]
          /\ \A n \in 1..Len(m) : w[Len(s) + n] = m[n]
    BY TwoRows
  <2>4. front = w
    BY <2>2, <2>3
  <2>5. w[1] = "in"
    <3>1. 1 \in 1..Len(s)
      BY <2>2
    <3>2. QED  BY <2>2, <2>3, <3>1
  <2>6. \A n \in 1..48 : w[1 + n] = m[n]
    BY <2>2, <2>3
  <2>7. Len(w) = 49
    BY <2>2, <2>3
  <2>8. QED  BY <2>1, <2>4, <2>5, <2>6, <2>7
<1>8. read = front \o <<"out">>
  BY <1>1, <1>6
<1>9. /\ read \in Seq(Ops) /\ Len(read) = 50 /\ read[50] = "out"
      /\ \A n \in 1..49 : read[n] = front[n]
  <2>1. PICK f \in Seq(Ops), t \in Seq(Ops) : f = front /\ t = <<"out">>
    BY <1>5, <1>7
  <2>2. Len(f) = 49 /\ Len(t) = 1 /\ t[1] = "out" /\ read = f \o t
    BY <1>7, <1>8, <2>1
  <2>3. PICK w \in Seq(Ops) :
          /\ w = f \o t /\ Len(w) = Len(f) + Len(t)
          /\ \A n \in 1..Len(f) : w[n] = f[n]
          /\ \A n \in 1..Len(t) : w[Len(f) + n] = t[n]
    BY TwoRows
  <2>4. read = w
    BY <2>2, <2>3
  <2>5. w[50] = "out"
    <3>1. 1 \in 1..Len(t) /\ 49 + 1 = 50
      BY <2>2
    <3>2. w[Len(f) + 1] = t[1]
      BY <2>3, <3>1
    <3>3. QED  BY <2>2, <3>1, <3>2
  <2>6. \A n \in 1..49 : w[n] = f[n]
    BY <2>2, <2>3
  <2>7. Len(w) = 50
    BY <2>2, <2>3
  <2>8. QED  BY <2>1, <2>4, <2>5, <2>6, <2>7
<1>10. ASSUME NEW i \in 0..7, NEW k \in 0..5 PROVE read[1 + 6 * i + k + 1] = op[k + 1]
  <2>1. PICK n : n = 6 * i + k + 1
    OBVIOUS
  <2>2. n \in 1..48 /\ bits[n] = op[k + 1]
    BY <1>4, <2>1
  <2>3. 1 + n \in 1..49 /\ 1 + n = 1 + 6 * i + k + 1
    BY <2>1, <2>2
  <2>4. read[1 + n] = op[k + 1]
    BY <1>7, <1>9, <2>2, <2>3
  <2>5. QED  BY <2>3, <2>4
<1>11. \A i \in 0..7, k \in 0..5 : read[1 + 6 * i + k + 1] = FetchOps[k + 1]
  BY <1>10 DEF FetchOps
<1>12. read[1] = "in"
  BY <1>7, <1>9
<1>13. QED  BY <1>9, <1>11, <1>12
-----------------------------------------------------------------------------
(* What a pin operation does to the lines, and what the sensor sees. *)

(* SDA does not move, or not under a high clock.                           *)
Quiet == scl = 0 \/ scl' = 0 \/ Line' = Line

(* The pins other than the clock, and what was read from them, stay.       *)
Keeps == sda' = sda /\ mode' = mode /\ ack' = ack /\ data' = data

(* The line has a level.                                                   *)
LEMMA LineLevel ==
  TypeOK => Line \in 0..1 /\ (Line = 0 <=> (mode = "out" /\ sda = 0) \/ dev.pull)
BY DEF TypeOK, Line, Level, Device

(* A delay lets the sensor answer, and changes nothing.                    *)
LEMMA Waits ==
  ASSUME TypeOK, PinOp("wait")
  PROVE  ~dev.due /\ scl' = scl /\ Keeps /\ dev' = dev /\ Quiet
<1>1. ~dev.due /\ scl' = scl /\ Keeps
  BY DEF PinOp, Keeps
<1>2. dev' = Observe(dev, scl, Line, scl, Line)
  BY <1>1 DEF PinOp, Line, Keeps
<1>3. dev' = dev
  BY <1>2, LineLevel DEF Observe, TypeOK
<1>4. QED  BY <1>1, <1>3 DEF Quiet, Line, Keeps

(* Under a low clock the lines may move: the sensor takes no notice.       *)
LEMMA MovesSda ==
  ASSUME TypeOK, NEW op \in {"sda0", "sda1"}, PinOp(op), scl = 0
  PROVE  /\ sda' = (IF op = "sda1" THEN 1 ELSE 0)
         /\ scl' = 0 /\ mode' = mode /\ ack' = ack /\ data' = data /\ dev' = dev /\ Quiet
<1>1. /\ sda' = (IF op = "sda1" THEN 1 ELSE 0)
      /\ scl' = 0 /\ mode' = mode /\ ack' = ack /\ data' = data
  BY DEF PinOp
<1>2. dev' = dev
  BY <1>1 DEF PinOp, Observe
<1>3. QED  BY <1>1, <1>2 DEF Quiet

(* Under a low clock SDA may be turned around. *)
LEMMA Directs ==
  ASSUME TypeOK, NEW op \in {"in", "out"}, PinOp(op), scl = 0
  PROVE  /\ mode' = op
         /\ scl' = 0 /\ sda' = sda /\ ack' = ack /\ data' = data /\ dev' = dev /\ Quiet
<1>1. mode' = op /\ scl' = 0 /\ sda' = sda /\ ack' = ack /\ data' = data
  BY DEF PinOp
<1>2. dev' = dev
  BY <1>1 DEF PinOp, Observe
<1>3. QED  BY <1>1, <1>2 DEF Quiet

(* Reading the line moves nothing.                                         *)
LEMMA Acks ==
  ASSUME TypeOK, PinOp("ack")
  PROVE  /\ ack' = 1 - Line
         /\ scl' = scl /\ sda' = sda /\ mode' = mode /\ data' = data /\ dev' = dev /\ Quiet
<1>1. ack' = 1 - Line /\ scl' = scl /\ sda' = sda /\ mode' = mode /\ data' = data
  BY DEF PinOp
<1>2. dev' = Observe(dev, scl, Line, scl, Line)
  BY <1>1 DEF PinOp, Line
<1>3. dev' = dev
  BY <1>2, LineLevel DEF Observe, TypeOK
<1>4. QED  BY <1>1, <1>3 DEF Quiet, Line

(* sample shifts the line's level into data. *)
LEMMA Samples ==
  ASSUME TypeOK, PinOp("sample")
  PROVE  /\ data' = (2 * data + Line) % 256
         /\ scl' = scl /\ sda' = sda /\ mode' = mode /\ ack' = ack /\ dev' = dev /\ Quiet
<1>1. data' = (2 * data + Line) % 256 /\ scl' = scl /\ sda' = sda /\ mode' = mode /\ ack' = ack
  BY DEF PinOp
<1>2. dev' = Observe(dev, scl, Line, scl, Line)
  BY <1>1 DEF PinOp, Line
<1>3. dev' = dev
  BY <1>2, LineLevel DEF Observe, TypeOK
<1>4. QED  BY <1>1, <1>3 DEF Quiet, Line

(* On a rising edge the sensor takes the bit.                              *)
LEMMA Rises ==
  ASSUME TypeOK, PinOp("scl1"), scl = 0
  PROVE  /\ scl' = 1 /\ Keeps /\ Quiet
         /\ dev' = [dev EXCEPT !.bits = @ + 1,
                               !.shift = IF dev.bits < 8 THEN (2 * @ + Line) % 256 ELSE @,
                               !.nack = (dev.bits = 8 /\ Line = 1)]
<1>1. scl' = 1 /\ Keeps
  BY DEF PinOp, Keeps
<1>2. dev' = Observe(dev, 0, Line, 1, Line)
  BY <1>1 DEF PinOp, Line, Keeps
<1>3. QED  BY <1>1, <1>2 DEF Observe, Quiet

(* On a falling edge the sensor is due to answer. *)
LEMMA Falls ==
  ASSUME TypeOK, PinOp("scl0"), scl = 1
  PROVE  scl' = 0 /\ Keeps /\ Quiet /\ dev' = [dev EXCEPT !.due = TRUE]
<1>1. scl' = 0 /\ Keeps
  BY DEF PinOp, Keeps
<1>2. dev' = Observe(dev, 1, Line, 0, Line)
  BY <1>1 DEF PinOp, Line, Keeps
<1>3. QED  BY <1>1, <1>2 DEF Observe, Quiet

(* Lines that are high already stay high.                                  *)
LEMMA StaysHigh ==
  ASSUME TypeOK, NEW op \in {"sda1", "scl1"}, PinOp(op), scl = 1, sda = 1
  PROVE  scl' = scl /\ Keeps /\ dev' = dev /\ Quiet
<1>1. scl' = scl /\ Keeps
  BY DEF PinOp, Keeps
<1>2. dev' = Observe(dev, scl, Line, scl, Line)
  BY <1>1 DEF PinOp, Line, Keeps
<1>3. dev' = dev
  BY <1>2, LineLevel DEF Observe, TypeOK
<1>4. QED  BY <1>1, <1>3 DEF Quiet, Line, Keeps

(* SDA that falls under a high clock starts a transfer.                    *)
LEMMA StartCondition ==
  ASSUME TypeOK, PinOp("sda0"), scl = 1, sda = 1, mode = "out", ~dev.pull
  PROVE  /\ sda' = 0 /\ scl' = 1 /\ mode' = mode /\ ack' = ack /\ data' = data
         /\ dev' = [dev EXCEPT !.phase = "address", !.bits = 0, !.shift = 0, !.pull = FALSE]
<1>1. sda' = 0 /\ scl' = 1 /\ mode' = mode /\ ack' = ack /\ data' = data
  BY DEF PinOp
<1>2. dev' = Observe(dev, 1, 1, 1, 0)
  BY <1>1 DEF PinOp, Line, Level
<1>3. QED  BY <1>1, <1>2 DEF Observe

(* SDA that rises under a high clock ends the transfer. *)
LEMMA StopCondition ==
  ASSUME TypeOK, PinOp("sda1"), scl = 1, sda = 0, mode = "out", ~dev.pull
  PROVE  /\ sda' = 1 /\ scl' = 1 /\ mode' = mode /\ ack' = ack /\ data' = data
         /\ dev' = [dev EXCEPT !.phase = "off", !.pull = FALSE]
<1>1. sda' = 1 /\ scl' = 1 /\ mode' = mode /\ ack' = ack /\ data' = data
  BY DEF PinOp
<1>2. dev' = Observe(dev, 1, 0, 1, 1)
  BY <1>1 DEF PinOp, Line, Level
<1>3. QED  BY <1>1, <1>2 DEF Observe

(* The sensor's record stays one.                                          *)
LEMMA ObserveTyped ==
  ASSUME NEW d \in Device, NEW c \in 0..1, NEW l \in 0..1, NEW c1 \in 0..1, NEW l1 \in 0..1
  PROVE  Observe(d, c, l, c1, l1) \in Device
<1>1. CASE c = 1 /\ c1 = 1
  <2>1. CASE l = 1 /\ l1 = 0
    <3>1. Observe(d, c, l, c1, l1)
            = [d EXCEPT !.phase = "address", !.bits = 0, !.shift = 0, !.pull = FALSE]
      BY <1>1, <2>1 DEF Observe
    <3>2. Observe(d, c, l, c1, l1)
            = [phase |-> "address", bits |-> 0, shift |-> 0, pull |-> FALSE,
               due |-> d.due, nack |-> d.nack, reg |-> d.reg]
      BY <3>1 DEF Device
    <3>3. d.due \in BOOLEAN /\ d.nack \in BOOLEAN /\ d.reg \in Int
      BY DEF Device
    <3>4. QED  BY <3>2, <3>3 DEF Device
  <2>2. CASE l = 0 /\ l1 = 1
    <3>1. Observe(d, c, l, c1, l1) = [d EXCEPT !.phase = "off", !.pull = FALSE]
      BY <1>1, <2>2 DEF Observe
    <3>2. QED  BY <3>1 DEF Device
  <2>3. CASE l = l1
    BY <1>1, <2>3 DEF Observe
  <2>4. QED  BY <2>1, <2>2, <2>3
<1>2. CASE c = 0 /\ c1 = 0
  BY <1>2 DEF Observe, Device
<1>3. CASE c = 1 /\ c1 = 0
  <2>1. Observe(d, c, l, c1, l1) = [d EXCEPT !.due = TRUE]
    BY <1>3 DEF Observe
  <2>2. QED  BY <2>1 DEF Device
<1>4. CASE c = 0 /\ c1 = 1
  <2>1. Observe(d, c, l, c1, l1)
          = [d EXCEPT !.bits = @ + 1, !.shift = IF d.bits < 8 THEN (2 * @ + l1) % 256 ELSE @,
                      !.nack = (d.bits = 8 /\ l1 = 1)]
    BY <1>4 DEF Observe
  <2>2. d.bits + 1 \in Nat /\ d.shift \in 0..255 /\ (2 * d.shift + l1) % 256 \in 0..255
    BY DEF Device
  <2>3. (IF d.bits < 8 THEN (2 * d.shift + l1) % 256 ELSE d.shift) \in 0..255
    BY <2>2
  <2>4. (d.bits = 8 /\ l1 = 1) \in BOOLEAN
    OBVIOUS
  <2>5. QED  BY <2>1, <2>2, <2>3, <2>4 DEF Device
<1>5. QED  BY <1>1, <1>2, <1>3, <1>4

(* A pin operation keeps the types. *)
LEMMA PinTyped ==
  ASSUME TypeOK, Pin
  PROVE  TypeOK'
<1>1. todo \in Seq(Ops) /\ todo # <<>> /\ Head(todo) \in Ops /\ todo' \in Seq(Ops)
  BY DEF TypeOK, Pin
<1>2. PICK op \in Ops : PinOp(op)
  BY <1>1 DEF Pin
<1>3. Line \in 0..1
  BY LineLevel
<1>4. /\ scl' \in 0..1 /\ sda' \in 0..1 /\ mode' \in {"in", "out"}
      /\ ack' \in 0..1 /\ data' \in 0..255
  <2>1. (2 * data + Line) % 256 \in 0..255 /\ 1 - Line \in 0..1
    BY <1>3 DEF TypeOK
  <2>2. CASE op \in {"sda0", "sda1"}
    <3>1. /\ sda' = (IF op = "sda1" THEN 1 ELSE 0)
          /\ scl' = scl /\ mode' = mode /\ ack' = ack /\ data' = data
      BY <1>2, <2>2 DEF PinOp
    <3>2. sda' \in 0..1
      BY <3>1
    <3>3. QED  BY <3>1, <3>2 DEF TypeOK
  <2>3. CASE op \in {"scl0", "scl1"}
    <3>1. /\ scl' = (IF op = "scl1" THEN 1 ELSE 0)
          /\ sda' = sda /\ mode' = mode /\ ack' = ack /\ data' = data
      BY <1>2, <2>3 DEF PinOp
    <3>2. scl' \in 0..1
      BY <3>1
    <3>3. QED  BY <3>1, <3>2 DEF TypeOK
  <2>4. CASE op \in {"in", "out"}
    BY <1>2, <2>4 DEF PinOp, TypeOK
  <2>5. CASE op = "ack"
    BY <1>2, <2>1, <2>5 DEF PinOp, TypeOK
  <2>6. CASE op = "sample"
    BY <1>2, <2>1, <2>6 DEF PinOp, TypeOK
  <2>7. CASE op = "wait"
    BY <1>2, <2>7 DEF PinOp, TypeOK
  <2>8. QED  BY <2>2, <2>3, <2>4, <2>5, <2>6, <2>7 DEF Ops
<1>5. dev' \in Device
  <2>1. dev' = Observe(dev, scl, Line, scl', Level(mode', sda', dev.pull))
    BY <1>2 DEF PinOp
  <2>2. Level(mode', sda', dev.pull) \in 0..1
    BY DEF Level
  <2>3. dev \in Device /\ scl \in 0..1
    BY DEF TypeOK
  <2>4. QED  BY <1>3, <1>4, <2>1, <2>2, <2>3, ObserveTyped
<1>6. QED  BY <1>1, <1>4, <1>5 DEF TypeOK, Pin, caller

(* What stays during a pin operation.                                      *)
Frame == stage' = stage /\ call' = call /\ took' = took /\ file' = file

(* Each operation of a driver function takes its place to the next.        *)
LEMMA StartingPin ==
  ASSUME TypeOK, NEW k \in 0..7, Starting(k), PinOp(start[k + 1])
  PROVE  Starting(k + 1)' /\ (Quiet \/ dev.phase = "off")
<1>1. CASE k = 0
  <2>1. scl' = scl /\ Keeps /\ dev' = dev /\ Quiet
    BY <1>1, StartRow, StaysHigh DEF Starting, Free
  <2>2. QED  BY <1>1, <2>1 DEF Starting, Free, Keeps
<1>2. CASE k = 2
  <2>1. scl' = scl /\ Keeps /\ dev' = dev /\ Quiet
    BY <1>2, StartRow, StaysHigh DEF Starting, Free
  <2>2. QED  BY <1>2, <2>1 DEF Starting, Free, Keeps
<1>3. CASE k \in {1, 3, 5, 7}
  <2>1. ~dev.due /\ scl' = scl /\ Keeps /\ dev' = dev /\ Quiet
    BY <1>3, StartRow, Waits
  <2>2. QED  BY <1>3, <2>1 DEF Starting, Free, Keeps
<1>4. CASE k = 4
  <2>1. /\ sda' = 0 /\ scl' = 1 /\ mode' = mode
        /\ dev' = [dev EXCEPT !.phase = "address", !.bits = 0, !.shift = 0, !.pull = FALSE]
    BY <1>4, StartRow, StartCondition DEF Starting, Free
  <2>2. dev \in Device
    BY DEF TypeOK
  <2>3. QED  BY <1>4, <2>1, <2>2 DEF Starting, Free, Device
<1>5. CASE k = 6
  <2>1. scl' = 0 /\ Keeps /\ Quiet /\ dev' = [dev EXCEPT !.due = TRUE]
    BY <1>5, StartRow, Falls DEF Starting
  <2>2. dev \in Device
    BY DEF TypeOK
  <2>3. QED  BY <1>5, <2>1, <2>2 DEF Starting, Keeps, Device
<1>6. QED  BY <1>1, <1>2, <1>3, <1>4, <1>5

(* The same for stop(): only its last edge of SDA comes under a high clock. *)
LEMMA StoppingPin ==
  ASSUME TypeOK, NEW k \in 0..5, Stopping(k), PinOp(stop[k + 1])
  PROVE  Stopping(k + 1)' /\ (Quiet \/ dev.phase = "off" \/ dev.bits <= 1)
<1>1. CASE k = 0
  <2>1. sda' = 0 /\ scl' = 0 /\ mode' = mode /\ dev' = dev /\ Quiet
    BY <1>1, StopRow, MovesSda DEF Stopping
  <2>2. QED  BY <1>1, <2>1 DEF Stopping
<1>2. CASE k \in {1, 3, 5}
  <2>1. ~dev.due /\ scl' = scl /\ Keeps /\ dev' = dev /\ Quiet
    BY <1>2, StopRow, Waits
  <2>2. QED  BY <1>2, <2>1 DEF Stopping, Keeps
<1>3. CASE k = 2
  <2>1. /\ scl' = 1 /\ Keeps /\ Quiet
        /\ dev' = [dev EXCEPT !.bits = @ + 1,
                              !.shift = IF dev.bits < 8 THEN (2 * @ + Line) % 256 ELSE @,
                              !.nack = (dev.bits = 8 /\ Line = 1)]
    BY <1>3, StopRow, Rises DEF Stopping
  <2>2. /\ dev'.phase = dev.phase /\ dev'.bits = dev.bits + 1
        /\ dev'.pull = dev.pull /\ dev'.due = dev.due
    BY <2>1 DEF TypeOK, Device
  <2>3. QED  BY <1>3, <2>1, <2>2 DEF Stopping, Keeps
<1>4. CASE k = 4
  <2>1. /\ sda' = 1 /\ scl' = 1 /\ mode' = mode
        /\ dev' = [dev EXCEPT !.phase = "off", !.pull = FALSE]
    BY <1>4, StopRow, StopCondition DEF Stopping
  <2>2. dev \in Device
    BY DEF TypeOK
  <2>3. QED  BY <1>4, <2>1, <2>2 DEF Stopping, Device
<1>5. QED  BY <1>1, <1>2, <1>3, <1>4

(* The same for sendNACK(), which the sensor takes for the ninth bit. *)
LEMMA DecliningPin ==
  ASSUME TypeOK, NEW k \in 0..7, Declining(k), PinOp(sendNACK[k + 1])
  PROVE  Declining(k + 1)' /\ Quiet
<1>1. CASE k = 0
  <2>1. sda' = 1 /\ scl' = 0 /\ mode' = mode /\ dev' = dev /\ Quiet
    BY <1>1, NackRow, MovesSda DEF Declining
  <2>2. QED  BY <1>1, <2>1 DEF Declining
<1>2. CASE k \in {1, 3, 5, 7}
  <2>1. ~dev.due /\ scl' = scl /\ Keeps /\ dev' = dev /\ Quiet
    BY <1>2, NackRow, Waits
  <2>2. QED  BY <1>2, <2>1 DEF Declining, Keeps
<1>3. CASE k = 2
  <2>1. /\ scl' = 1 /\ Keeps /\ Quiet
        /\ dev' = [dev EXCEPT !.bits = @ + 1,
                              !.shift = IF dev.bits < 8 THEN (2 * @ + Line) % 256 ELSE @,
                              !.nack = (dev.bits = 8 /\ Line = 1)]
    BY <1>3, NackRow, Rises DEF Declining
  <2>2. /\ dev'.phase = dev.phase /\ dev'.bits = dev.bits + 1
        /\ dev'.pull = dev.pull /\ dev'.due = dev.due /\ dev'.nack = (dev.bits = 8 /\ Line = 1)
    BY <2>1 DEF TypeOK, Device
  <2>3. dev.bits = 8 /\ Line = 1
    BY <1>3, LineLevel DEF Declining
  <2>4. dev'.nack
    BY <2>2, <2>3
  <2>5. QED  BY <1>3, <2>1, <2>2, <2>3, <2>4 DEF Declining, Keeps
<1>4. CASE k = 4
  <2>1. scl' = 0 /\ Keeps /\ Quiet /\ dev' = [dev EXCEPT !.due = TRUE]
    BY <1>4, NackRow, Falls DEF Declining
  <2>2. dev \in Device
    BY DEF TypeOK
  <2>3. QED  BY <1>4, <2>1, <2>2 DEF Declining, Keeps, Device
<1>5. CASE k = 6
  <2>1. sda' = 0 /\ scl' = 0 /\ mode' = mode /\ dev' = dev /\ Quiet
    BY <1>5, NackRow, MovesSda DEF Declining
  <2>2. QED  BY <1>5, <2>1 DEF Declining
<1>6. QED  BY <1>1, <1>2, <1>3, <1>4, <1>5

-----------------------------------------------------------------------------
(* Bytes *)

(* A bit is 0 or 1. *)
LEMMA BitTyped ==
  ASSUME NEW b \in 0..255, NEW i \in 0..7
  PROVE  Bit(b, i) \in 0..1
BY DEF Bit, Weights

(* Before the first bit nothing has been sent, after the last all.         *)
LEMMA FirstAndLast ==
  ASSUME NEW b \in 0..255
  PROVE  Last(b, 0) = 0 /\ First(b, 0) = 0 /\ Last(b, 8) = b /\ First(b, 8) = b
BY DEF First, Last

(* A bit that comes after the first i makes them i + 1.                    *)
LEMMA FirstNext ==
  ASSUME NEW b \in 0..255, NEW i \in 0..7
  PROVE  /\ First(b, i) \in 0..255 /\ First(b, i + 1) \in 0..255
         /\ (2 * First(b, i) + Bit(b, i)) % 256 = First(b, i + 1)
<1>1. CASE i = 0 BY <1>1 DEF First, Bit, Weights
<1>2. CASE i = 1 BY <1>2 DEF First, Bit, Weights
<1>3. CASE i = 2 BY <1>3 DEF First, Bit, Weights
<1>4. CASE i = 3 BY <1>4 DEF First, Bit, Weights
<1>5. CASE i = 4 BY <1>5 DEF First, Bit, Weights
<1>6. CASE i = 5 BY <1>6 DEF First, Bit, Weights
<1>7. CASE i = 6 BY <1>7 DEF First, Bit, Weights
<1>8. CASE i = 7 BY <1>8 DEF First, Bit, Weights
<1>9. QED  BY <1>1, <1>2, <1>3, <1>4, <1>5, <1>6, <1>7, <1>8

(* The same of a shift register, which may hold other bits before.         *)
Shifted(s, bit) == (2 * s + bit) % 256

(* A bit shifted in after the first i bits makes them the first i + 1. *)
LEMMA ShiftIn ==
  ASSUME NEW b \in 0..255, NEW s \in 0..255, NEW i \in 0..7, Last(s, i) = First(b, i)
  PROVE  Last(Shifted(s, Bit(b, i)), i + 1) = First(b, i + 1)
<1>1. CASE i = 0 BY <1>1 DEF First, Last, Shifted, Bit, Weights
<1>2. CASE i = 1 BY <1>2 DEF First, Last, Shifted, Bit, Weights
<1>3. CASE i = 2 BY <1>3 DEF First, Last, Shifted, Bit, Weights
<1>4. CASE i = 3 BY <1>4 DEF First, Last, Shifted, Bit, Weights
<1>5. CASE i = 4 BY <1>5 DEF First, Last, Shifted, Bit, Weights
<1>6. CASE i = 5 BY <1>6 DEF First, Last, Shifted, Bit, Weights
<1>7. CASE i = 6 BY <1>7 DEF First, Last, Shifted, Bit, Weights
<1>8. CASE i = 7 BY <1>8 DEF First, Last, Shifted, Bit, Weights
<1>9. QED  BY <1>1, <1>2, <1>3, <1>4, <1>5, <1>6, <1>7, <1>8

(* The numbers of a call, and what write() sends, are bytes.               *)
LEMMA CallTyped ==
  ASSUME NEW c \in Calls
  PROVE  /\ c.reg \in Regs /\ c.val \in Vals /\ c.val \in 0..255
         /\ c.reg \in Nat /\ c.reg \div 256 \in 0..255 /\ c.reg % 256 \in 0..255
<1>1. c.reg \in Regs /\ c.val \in Vals
  BY DEF Calls
<1>2. c.reg \in Nat /\ c.reg < 65536 /\ c.val \in Nat /\ c.val < 256
  BY <1>1, I2CBusAssumption
<1>3. c.reg \div 256 \in 0..255 /\ c.reg % 256 \in 0..255 /\ c.val \in 0..255
  BY <1>2
<1>4. QED  BY <1>1, <1>2, <1>3

(* The addresses for writing and for reading are bytes. *)
LEMMA AddressTyped ==
  SensorAddr \in 0..255 /\ SensorAddr + 1 \in 0..255
BY I2CBusAssumption

(* What write() sends is a byte. *)
LEMMA ByteTyped ==
  ASSUME TypeOK, stage \in Bytes
  PROVE  Byte \in 0..255
<1>1. call \in Calls
  BY DEF TypeOK, Bytes
<1>2. CASE stage = "address" BY <1>2, AddressTyped DEF Byte
<1>3. CASE stage = "high"    BY <1>1, <1>3, CallTyped DEF Byte
<1>4. CASE stage = "low"     BY <1>1, <1>4, CallTyped DEF Byte
<1>5. CASE stage = "value"   BY <1>1, <1>5, CallTyped DEF Byte
<1>6. CASE stage = "again"   BY <1>6, AddressTyped DEF Byte
<1>7. QED  BY <1>2, <1>3, <1>4, <1>5, <1>6 DEF Bytes
-----------------------------------------------------------------------------
(* The places of write() and read() *)

(* During a pin operation the byte that is sent stays the same.            *)
LEMMA ByteStays ==
  ASSUME Frame
  PROVE  Byte' = Byte /\ Phase' = Phase /\ Following' = Following
BY DEF Frame, Byte, Phase, Following

(* In write(), for each bit: SDA is set, and the sensor takes it at the    *)
(* rising edge.                                                            *)
LEMMA SendingPin ==
  ASSUME TypeOK, stage \in Bytes, Frame, NEW i \in 0..7, NEW k \in 0..4,
         Sending(i, k), PinOp(SendOps(Byte, i)[k + 1])
  PROVE  /\ k < 4 => Sending(i, k + 1)'
         /\ k = 4 /\ i < 7 => Sending(i + 1, 0)'
         /\ k = 4 /\ i = 7 => Acknowledging(0)'
         /\ Quiet
<1> DEFINE bit == Bit(Byte, i)
<1>1. Byte \in 0..255 /\ bit \in 0..1
  BY ByteTyped, BitTyped
<1>2. Byte' = Byte /\ Phase' = Phase
  BY ByteStays
<1>3. dev \in Device
  BY DEF TypeOK
<1>4. CASE k = 0
  <2>1. PICK op \in {"sda0", "sda1"} : op = (IF bit = 1 THEN "sda1" ELSE "sda0") /\ PinOp(op)
    BY <1>4 DEF SendOps
  <2>2. scl = 0
    BY <1>4 DEF Sending
  <2>3. /\ sda' = (IF op = "sda1" THEN 1 ELSE 0)
        /\ scl' = 0 /\ mode' = mode /\ dev' = dev /\ Quiet
    BY <2>1, <2>2, MovesSda
  <2>4. sda' = bit
    BY <1>1, <2>1, <2>3
  <2>5. Sending(i, 1)'
    BY <1>2, <1>4, <2>3, <2>4 DEF Sending, Frame, Got, RegBefore
  <2>6. QED  BY <1>4, <2>3, <2>5
<1>5. CASE k \in {1, 3}
  <2>1. PinOp("wait")
    BY <1>5 DEF SendOps
  <2>2. ~dev.due /\ scl' = scl /\ Keeps /\ dev' = dev /\ Quiet
    BY <2>1, Waits
  <2>3. Sending(i, k + 1)'
    BY <1>2, <1>5, <2>2 DEF Sending, Frame, Got, RegBefore, Keeps
  <2>4. QED  BY <1>5, <2>2, <2>3
<1>6. CASE k = 2
  <2>1. PinOp("scl1") /\ scl = 0 /\ dev.bits = i /\ Got(i) /\ sda = bit /\ mode = "out" /\ ~dev.pull
    BY <1>6 DEF SendOps, Sending
  <2>2. /\ scl' = 1 /\ Keeps /\ Quiet
        /\ dev' = [dev EXCEPT !.bits = @ + 1,
                              !.shift = IF dev.bits < 8 THEN (2 * @ + Line) % 256 ELSE @,
                              !.nack = (dev.bits = 8 /\ Line = 1)]
    BY <2>1, Rises
  <2>3. Line = bit
    BY <1>1, <2>1, LineLevel
  <2>4. /\ dev'.phase = dev.phase /\ dev'.pull = dev.pull /\ dev'.due = dev.due
        /\ dev'.reg = dev.reg /\ dev'.bits = i + 1
    BY <1>3, <2>1, <2>2 DEF Device
  <2>5. dev'.shift = (2 * dev.shift + bit) % 256
    <3>1. dev'.shift = (2 * dev.shift + Line) % 256
      BY <1>3, <2>1, <2>2 DEF Device
    <3>2. QED  BY <2>3, <3>1
  <2>6. Last(dev'.shift, i + 1) = First(Byte, i + 1)
    <3>1. dev.shift \in 0..255 /\ Last(dev.shift, i) = First(Byte, i)
      BY <1>3, <2>1 DEF Device, Got
    <3>2. PICK old \in 0..255 : old = dev.shift
      BY <3>1
    <3>3. PICK b \in 0..255 : b = Byte
      BY <1>1
    <3>4. Last(old, i) = First(b, i)
      BY <3>1, <3>2, <3>3
    <3>5. Last(Shifted(old, Bit(b, i)), i + 1) = First(b, i + 1)
      BY <3>4, ShiftIn
    <3>6. QED  BY <2>5, <3>2, <3>3, <3>5 DEF Shifted
  <2>7. Got(i + 1)'
    BY <1>2, <2>6 DEF Got
  <2>8. Sending(i, 3)'
    BY <1>2, <1>6, <2>1, <2>2, <2>4, <2>7 DEF Sending, Frame, RegBefore, Keeps
  <2>9. QED  BY <1>6, <2>2, <2>8
<1>7. CASE k = 4
  <2>1. PinOp("scl0") /\ scl = 1
    BY <1>7 DEF SendOps, Sending
  <2>2. scl' = 0 /\ Keeps /\ Quiet /\ dev' = [dev EXCEPT !.due = TRUE]
    BY <2>1, Falls
  <2>3. /\ dev'.phase = dev.phase /\ dev'.pull = dev.pull /\ dev'.due
        /\ dev'.reg = dev.reg /\ dev'.bits = dev.bits /\ dev'.shift = dev.shift
    BY <1>3, <2>2 DEF Device
  <2>4. Got(i + 1)'
    BY <1>2, <1>7, <2>3 DEF Got, Sending
  <2>5. mode' = "out" /\ ~dev'.pull /\ dev'.phase = Phase' /\ RegBefore' /\ ~took' /\ dev'.bits = i + 1
    BY <1>2, <1>7, <2>2, <2>3 DEF Sending, Frame, RegBefore, Keeps
  <2>6. CASE i < 7
    BY <1>7, <2>2, <2>4, <2>5, <2>6 DEF Sending
  <2>7. CASE i = 7
    BY <1>7, <2>2, <2>3, <2>4, <2>5, <2>7 DEF Acknowledging
  <2>8. QED  BY <1>7, <2>2, <2>6, <2>7
<1>8. QED  BY <1>4, <1>5, <1>6, <1>7

(* In write(), after the last bit: ack becomes 1 if and only if the sensor *)
(* acknowledges.                                                           *)
LEMMA AcknowledgingPin ==
  ASSUME TypeOK, stage \in Bytes, Frame, NEW k \in 0..7, Acknowledging(k), PinOp(AckOps[k + 1])
  PROVE  Acknowledging(k + 1)' /\ Quiet
<1>1. Byte' = Byte /\ Phase' = Phase /\ Following' = Following
  BY ByteStays
<1>2. dev \in Device
  BY DEF TypeOK
<1>3. CASE k = 0
  <2>1. PinOp("in") /\ scl = 0
    BY <1>3 DEF AckOps, Acknowledging
  <2>2. mode' = "in" /\ scl' = 0 /\ dev' = dev /\ Quiet
    BY <2>1, Directs
  <2>3. Acknowledging(1)'
    BY <1>1, <1>3, <2>2 DEF Acknowledging, Acked, Refused, RegAfter, RegBefore, Frame, Got
  <2>4. QED  BY <1>3, <2>2, <2>3
<1>4. CASE k \in {1, 3, 6}
  <2>1. PinOp("wait")
    BY <1>4 DEF AckOps
  <2>2. ~dev.due /\ scl' = scl /\ Keeps /\ dev' = dev /\ Quiet
    BY <2>1, Waits
  <2>3. Acknowledging(k + 1)'
    BY <1>1, <1>4, <2>2 DEF Acknowledging, Acked, Refused, Ready, RegAfter, Frame, Keeps
  <2>4. QED  BY <2>2, <2>3
<1>5. CASE k = 2
  <2>1. PinOp("scl1") /\ scl = 0 /\ mode = "in" /\ ~dev.due /\ (Acked(8) \/ Refused)
    BY <1>5 DEF AckOps, Acknowledging
  <2>2. /\ scl' = 1 /\ Keeps /\ Quiet
        /\ dev' = [dev EXCEPT !.bits = @ + 1,
                              !.shift = IF dev.bits < 8 THEN (2 * @ + Line) % 256 ELSE @,
                              !.nack = (dev.bits = 8 /\ Line = 1)]
    BY <2>1, Rises
  <2>3. /\ dev'.phase = dev.phase /\ dev'.pull = dev.pull /\ dev'.due = dev.due
        /\ dev'.reg = dev.reg /\ dev'.bits = dev.bits + 1
        /\ dev.bits = 8 => dev'.shift = dev.shift
    BY <1>2, <2>2 DEF Device
  <2>4. Acked(9)' \/ Refused'
    BY <1>1, <2>1, <2>3 DEF Acked, Refused, RegAfter, Frame
  <2>5. Acknowledging(3)'
    BY <1>5, <2>1, <2>2, <2>3, <2>4 DEF Acknowledging, Keeps
  <2>6. QED  BY <1>5, <2>2, <2>5
<1>6. CASE k = 4
  <2>1. PinOp("ack") /\ scl = 1 /\ mode = "in" /\ ~dev.due /\ (Acked(9) \/ Refused)
    BY <1>6 DEF AckOps, Acknowledging
  <2>2. ack' = 1 - Line /\ scl' = scl /\ mode' = mode /\ dev' = dev /\ Quiet
    BY <2>1, Acks
  <2>3. CASE Acked(9)
    <3>1. Line = 0
      BY <2>1, <2>3, LineLevel DEF Acked
    <3>2. Acked(9)' /\ ack' = 1
      BY <1>1, <2>2, <2>3, <3>1 DEF Acked, RegAfter, Frame
    <3>3. QED  BY <1>6, <2>1, <2>2, <3>2 DEF Acknowledging
  <2>4. CASE Refused
    <3>1. Line = 1
      BY <2>1, <2>4, LineLevel DEF Refused
    <3>2. Refused' /\ ack' = 0
      BY <1>1, <2>2, <2>4, <3>1 DEF Refused, Frame
    <3>3. QED  BY <1>6, <2>1, <2>2, <3>2 DEF Acknowledging
  <2>5. QED  BY <1>6, <2>1, <2>2, <2>3, <2>4
<1>7. CASE k = 5
  <2>1. /\ PinOp("scl0") /\ scl = 1 /\ mode = "in"
        /\ (Acked(9) /\ ack = 1) \/ (Refused /\ ack = 0)
    BY <1>7 DEF AckOps, Acknowledging
  <2>2. scl' = 0 /\ Keeps /\ Quiet /\ dev' = [dev EXCEPT !.due = TRUE]
    BY <2>1, Falls
  <2>3. /\ dev'.phase = dev.phase /\ dev'.pull = dev.pull /\ dev'.due
        /\ dev'.reg = dev.reg /\ dev'.bits = dev.bits /\ dev'.shift = dev.shift
    BY <1>2, <2>2 DEF Device
  <2>4. (Acked(9)' /\ ack' = 1) \/ (Refused' /\ ack' = 0)
    BY <1>1, <2>1, <2>2, <2>3 DEF Acked, Refused, RegAfter, Frame, Keeps
  <2>5. Acknowledging(6)'
    BY <1>7, <2>1, <2>2, <2>3, <2>4 DEF Acknowledging, Keeps
  <2>6. QED  BY <1>7, <2>2, <2>5
<1>8. CASE k = 7
  <2>1. PinOp("out") /\ scl = 0
    BY <1>8 DEF AckOps, Acknowledging
  <2>2. mode' = "out" /\ scl' = 0 /\ ack' = ack /\ dev' = dev /\ Quiet
    BY <2>1, Directs
  <2>3. Acknowledging(8)'
    BY <1>1, <1>8, <2>2 DEF Acknowledging, Refused, Ready, RegAfter, Frame
  <2>4. QED  BY <1>8, <2>2, <2>3
<1>9. QED  BY <1>3, <1>4, <1>5, <1>6, <1>7, <1>8

(* The register that read() fetches.                                       *)
LEMMA Fetches ==
  ASSUME TypeOK, stage \notin {"idle"}
  PROVE  call \in Calls /\ call.reg \in Regs /\ file[call.reg] \in Vals /\ file[call.reg] \in 0..255
<1>1. call \in Calls
  BY DEF TypeOK
<1>2. call.reg \in Regs
  BY <1>1 DEF Calls
<1>3. file[call.reg] \in Vals
  BY <1>2 DEF TypeOK
<1>4. file[call.reg] \in 0..255
  BY <1>3, I2CBusAssumption
<1>5. QED  BY <1>1, <1>2, <1>3, <1>4

(* In read(), for each bit: data gets what the sensor has put on the line. *)
LEMMA FetchingPin ==
  ASSUME TypeOK, stage = "read", Frame, NEW i \in 0..7, NEW k \in 0..5,
         Fetching(i, k), PinOp(FetchOps[k + 1])
  PROVE  /\ k < 5 => Fetching(i, k + 1)'
         /\ k = 5 /\ i < 7 => Fetching(i + 1, 0)'
         /\ k = 5 /\ i = 7 => FetchEnds'
         /\ Quiet
<1>1. PICK b \in 0..255 : b = file[call.reg]
  BY Fetches
<1>2. file[dev.reg] = b /\ call' = call /\ took' = took /\ file' = file /\ dev.reg = call.reg
  BY <1>1 DEF Frame, Fetching
<1>3. dev \in Device
  BY DEF TypeOK
<1>4. CASE k \in {0, 2}
  <2>1. PinOp("wait")
    BY <1>4 DEF FetchOps
  <2>2. ~dev.due /\ scl' = scl /\ Keeps /\ dev' = dev /\ Quiet
    BY <2>1, Waits
  <2>3. Fetching(i, k + 1)'
    BY <1>2, <1>4, <2>2 DEF Fetching, Sends, Keeps
  <2>4. QED  BY <1>4, <2>2, <2>3
<1>5. CASE k = 1
  <2>1. PinOp("scl1") /\ scl = 0 /\ Sends(i) /\ ~dev.due
    BY <1>5 DEF FetchOps, Fetching
  <2>2. /\ scl' = 1 /\ Keeps /\ Quiet
        /\ dev' = [dev EXCEPT !.bits = @ + 1,
                              !.shift = IF dev.bits < 8 THEN (2 * @ + Line) % 256 ELSE @,
                              !.nack = (dev.bits = 8 /\ Line = 1)]
    BY <2>1, Rises
  <2>3. /\ dev'.phase = dev.phase /\ dev'.pull = dev.pull /\ dev'.due = dev.due
        /\ dev'.reg = dev.reg /\ dev'.bits = i + 1
    BY <1>3, <2>1, <2>2 DEF Device, Sends
  <2>4. Fetching(i, 2)'
    BY <1>2, <1>5, <2>1, <2>2, <2>3 DEF Fetching, Sends, Keeps
  <2>5. QED  BY <1>5, <2>2, <2>4
<1>6. CASE k = 3
  <2>1. /\ PinOp("sample") /\ mode = "in" /\ dev.pull = (Bit(b, i) = 0) /\ data = First(b, i)
    BY <1>2, <1>6 DEF FetchOps, Fetching
  <2>2. data' = (2 * data + Line) % 256 /\ scl' = scl /\ mode' = mode /\ dev' = dev /\ Quiet
    BY <2>1, Samples
  <2>3. Line = Bit(b, i)
    <3>1. Bit(b, i) \in 0..1 /\ Line \in 0..1
      BY BitTyped, LineLevel
    <3>2. dev.pull <=> Bit(b, i) = 0
      BY <2>1
    <3>3. Line = 0 <=> dev.pull
      BY <2>1, LineLevel
    <3>4. QED  BY <3>1, <3>2, <3>3
  <2>4. data' = First(b, i + 1)
    <3>1. data' = (2 * First(b, i) + Bit(b, i)) % 256
      BY <2>1, <2>2, <2>3
    <3>2. QED  BY <3>1, FirstNext
  <2>5. Fetching(i, 4)'
    BY <1>2, <1>6, <2>2, <2>4 DEF Fetching, Sends
  <2>6. QED  BY <1>6, <2>2, <2>5
<1>7. CASE k = 4
  <2>1. PinOp("scl0") /\ scl = 1
    BY <1>7 DEF FetchOps, Fetching
  <2>2. scl' = 0 /\ Keeps /\ Quiet /\ dev' = [dev EXCEPT !.due = TRUE]
    BY <2>1, Falls
  <2>3. /\ dev'.phase = dev.phase /\ dev'.pull = dev.pull /\ dev'.due
        /\ dev'.reg = dev.reg /\ dev'.bits = dev.bits
    BY <1>3, <2>2 DEF Device
  <2>4. Fetching(i, 5)'
    BY <1>2, <1>7, <2>2, <2>3 DEF Fetching, Keeps
  <2>5. QED  BY <1>7, <2>2, <2>4
<1>8. CASE k = 5
  <2>1. PinOp("wait")
    BY <1>8 DEF FetchOps
  <2>2. ~dev.due /\ scl' = scl /\ Keeps /\ dev' = dev /\ Quiet
    BY <2>1, Waits
  <2>3. /\ mode = "in" /\ dev.phase = "send" /\ ~took /\ scl = 0 /\ data = First(b, i + 1)
        /\ dev.bits = i + 1 /\ dev.pull = (i < 7 /\ Bit(b, i + 1) = 0)
    BY <1>2, <1>8, <2>2 DEF Fetching
  <2>4. CASE i < 7
    <3>1. Sends(i + 1)
      BY <1>2, <2>3, <2>4 DEF Sends
    <3>2. Fetching(i + 1, 0)'
      BY <1>2, <2>2, <2>3, <2>4, <3>1 DEF Fetching, Sends, Keeps
    <3>3. QED  BY <1>8, <2>2, <2>4, <3>2
  <2>5. CASE i = 7
    <3>1. Sends(8)
      BY <2>3, <2>5 DEF Sends
    <3>2. data = b
      BY <2>3, <2>5, FirstAndLast
    <3>3. FetchEnds'
      BY <1>2, <2>2, <2>3, <3>1, <3>2 DEF FetchEnds, Sends, Keeps
    <3>4. QED  BY <1>8, <2>2, <2>5, <3>3
  <2>6. QED  BY <2>4, <2>5
<1>9. QED  BY <1>4, <1>5, <1>6, <1>7, <1>8

(* The sensor sends the first bit when the pin has been turned around, and *)
(* leaves the line alone before it is turned back.                         *)
LEMMA FetchTurns ==
  ASSUME TypeOK, stage = "read", Frame
  PROVE  /\ FetchStarts /\ PinOp("in") => Fetching(0, 0)' /\ Quiet
         /\ FetchEnds /\ PinOp("out") => FetchIsOver' /\ Quiet
<1>1. PICK b \in 0..255 : b = file[call.reg]
  BY Fetches
<1>2. ASSUME FetchStarts, PinOp("in") PROVE Fetching(0, 0)' /\ Quiet
  <2>1. mode' = "in" /\ scl' = 0 /\ data' = data /\ dev' = dev /\ Quiet
    BY <1>2, Directs DEF FetchStarts
  <2>2. data = First(b, 0) /\ dev.reg = call.reg
    BY <1>2, FirstAndLast DEF FetchStarts
  <2>3. Fetching(0, 0)'
    BY <1>1, <1>2, <2>1, <2>2 DEF Fetching, FetchStarts, Sends, Frame
  <2>4. QED  BY <2>1, <2>3
<1>3. ASSUME FetchEnds, PinOp("out") PROVE FetchIsOver' /\ Quiet
  <2>1. mode' = "out" /\ scl' = 0 /\ data' = data /\ dev' = dev /\ Quiet
    BY <1>3, Directs DEF FetchEnds
  <2>2. QED  BY <1>3, <2>1 DEF FetchEnds, FetchIsOver, Sends, Frame
<1>4. QED  BY <1>2, <1>3

-----------------------------------------------------------------------------
(* A pin operation takes every place to the next. *)

(* The pin operation that is done is the next of the function. *)
LEMMA StepsOn ==
  ASSUME NEW f \in Seq(Ops), NEW then \in Seq(Ops), NEW k \in 0..(Len(f) - 1),
         Within(f, k, then), Pin
  PROVE  PinOp(f[k + 1]) /\ todo' = SubSeq(f, k + 2, Len(f)) \o then /\ Frame
<1>1. Head(todo) = f[k + 1] /\ Tail(todo) = SubSeq(f, k + 2, Len(f)) \o then
  BY Goes
<1>2. QED  BY <1>1 DEF Pin, Frame, caller

(* Where a function ends the next begins.                                  *)
LEMMA RestartEnds ==
  ASSUME AtRestart(6)
  PROVE  AtStart(0)
<1>1. start \o write(Byte) \in Seq(Ops) /\ start \in Seq(Ops) /\ write(Byte) \in Seq(Ops)
  BY StartRow, WriteRow
<1>2. todo = start \o write(Byte)
  BY <1>1, StopRow, GoesOn DEF AtRestart
<1>3. Within(start, 0, write(Byte))
  BY <1>1, <1>2, GoesFirst
<1>4. Starting(0)
  BY DEF AtRestart, Stopping, Starting, Free
<1>5. QED  BY <1>3, <1>4 DEF AtRestart, AtStart

(* write() follows start(): the sensor has got no bit yet. *)
LEMMA StartEnds ==
  ASSUME TypeOK, AtStart(8)
  PROVE  AtBit(0, 0)
<1>1. write(Byte) \in Seq(Ops) /\ <<>> \in Seq(Ops) /\ write(Byte) \o <<>> = write(Byte)
  <2>1. write(Byte) \in Seq(Ops)
    BY WriteRow
  <2>2. QED  BY <2>1
<1>2. todo = write(Byte)
  BY <1>1, StartRow, GoesOn DEF AtStart
<1>3. Within(write(Byte), 0, <<>>)
  BY <1>1, <1>2, GoesFirst
<1>4. stage \in {"address", "again"} /\ Byte \in 0..255
  BY ByteTyped DEF AtStart, Restarts, Bytes
<1>5. Got(0)
  <2>1. dev.shift = 0
    BY DEF AtStart, Starting
  <2>2. Last(0, 0) = 0 /\ First(Byte, 0) = 0
    BY <1>4, FirstAndLast
  <2>3. QED  BY <2>1, <2>2 DEF Got
<1>6. Sending(0, 0)
  BY <1>4, <1>5 DEF AtStart, Starting, Restarts, Sending, Phase, RegBefore
<1>7. 5 * 0 + 0 = 0
  OBVIOUS
<1>8. QED  BY <1>3, <1>4, <1>6, <1>7 DEF AtBit, Bytes

(* stop() follows sendNACK(). *)
LEMMA NackEnds ==
  ASSUME AtNack(8)
  PROVE  AtStop(0)
<1>1. stop \in Seq(Ops) /\ <<>> \in Seq(Ops) /\ stop \o <<>> = stop
  BY StopRow
<1>2. todo = stop
  BY <1>1, NackRow, GoesOn DEF AtNack
<1>3. Within(stop, 0, <<>>)
  BY <1>1, <1>2, GoesFirst
<1>4. Stopping(0)
  BY DEF AtNack, Declining, Stopping
<1>5. QED  BY <1>3, <1>4 DEF AtNack, AtStop

(* SDA moves under a high clock only before the second bit of a byte.      *)
Spares == Quiet \/ dev.phase = "off" \/ dev.bits <= 1

(* No pin operation tells the sensor another register.                     *)
LEMMA RegStays ==
  ASSUME TypeOK, Pin
  PROVE  dev'.reg = dev.reg
<1>1. PICK c, l : dev' = Observe(dev, scl, Line, c, l)
  BY DEF Pin, PinOp
<1>2. dev \in Device
  BY DEF TypeOK
<1>3. QED  BY <1>1, <1>2 DEF Observe, Device

(* The step from place to place in stop() before the second start(), *)
LEMMA RestartStep ==
  ASSUME TypeOK, Pin, NEW k \in 0..5, AtRestart(k)
  PROVE  AtRestart(k + 1)' /\ Spares
<1>1. PICK then \in Seq(Ops) : then = start \o write(Byte)
  <2>1. start \in Seq(Ops) /\ write(Byte) \in Seq(Ops)
    BY StartRow, WriteRow
  <2>2. start \o write(Byte) \in Seq(Ops)
    BY <2>1
  <2>3. QED  BY <2>2
<1>2. stop \in Seq(Ops) /\ Len(stop) = 6 /\ k \in 0..(Len(stop) - 1)
  BY StopRow
<1>3. Within(stop, k, then)
  BY <1>1 DEF AtRestart
<1>4. PinOp(stop[k + 1]) /\ todo' = SubSeq(stop, k + 2, Len(stop)) \o then /\ Frame
  BY <1>2, <1>3, StepsOn
<1>5. Stopping(k + 1)' /\ Spares
  BY <1>4, StoppingPin DEF AtRestart, Spares
<1>6. Byte' = Byte /\ then = start \o write(Byte')
  BY <1>1, <1>4, ByteStays
<1>7. Within(stop, k + 1, start \o write(Byte))'
  <2>1. k + 1 + 1 = k + 2
    OBVIOUS
  <2>2. QED  BY <1>4, <1>6, <2>1 DEF Within
<1>8. Restarts' /\ stage' = "again"
  BY <1>4, RegStays DEF AtRestart, Restarts, Frame
<1>9. QED  BY <1>5, <1>7, <1>8 DEF AtRestart

(* in start(), *)
LEMMA StartStep ==
  ASSUME TypeOK, Pin, NEW k \in 0..7, AtStart(k)
  PROVE  AtStart(k + 1)' /\ Spares
<1>1. PICK then \in Seq(Ops) : then = write(Byte)
  BY WriteRow
<1>2. start \in Seq(Ops) /\ Len(start) = 8 /\ k \in 0..(Len(start) - 1)
  BY StartRow
<1>3. Within(start, k, then)
  BY <1>1 DEF AtStart
<1>4. PinOp(start[k + 1]) /\ todo' = SubSeq(start, k + 2, Len(start)) \o then /\ Frame
  BY <1>2, <1>3, StepsOn
<1>5. Starting(k + 1)' /\ Spares
  BY <1>4, StartingPin DEF AtStart, Spares
<1>6. Byte' = Byte /\ then = write(Byte')
  BY <1>1, <1>4, ByteStays
<1>7. Within(start, k + 1, write(Byte))'
  <2>1. k + 1 + 1 = k + 2
    OBVIOUS
  <2>2. QED  BY <1>4, <1>6, <2>1 DEF Within
<1>8. Restarts'
  BY <1>4, RegStays DEF AtStart, Restarts, Frame
<1>9. QED  BY <1>5, <1>7, <1>8 DEF AtStart

(* in sendNACK(), *)
LEMMA NackStep ==
  ASSUME TypeOK, Pin, NEW k \in 0..7, AtNack(k)
  PROVE  AtNack(k + 1)' /\ Quiet
<1>1. sendNACK \in Seq(Ops) /\ Len(sendNACK) = 8 /\ k \in 0..(Len(sendNACK) - 1) /\ stop \in Seq(Ops)
  BY NackRow, StopRow
<1>2. Within(sendNACK, k, stop)
  BY DEF AtNack
<1>3. PinOp(sendNACK[k + 1]) /\ todo' = SubSeq(sendNACK, k + 2, Len(sendNACK)) \o stop /\ Frame
  BY <1>1, <1>2, StepsOn
<1>4. Declining(k + 1)' /\ Quiet
  BY <1>3, DecliningPin DEF AtNack
<1>5. Within(sendNACK, k + 1, stop)'
  <2>1. k + 1 + 1 = k + 2
    OBVIOUS
  <2>2. QED  BY <1>3, <2>1 DEF Within
<1>6. QED  BY <1>3, <1>4, <1>5 DEF AtNack, Frame

(* in the last stop(), *)
LEMMA StopStep ==
  ASSUME TypeOK, Pin, NEW k \in 0..5, AtStop(k)
  PROVE  AtStop(k + 1)' /\ Spares
<1>1. stop \in Seq(Ops) /\ Len(stop) = 6 /\ k \in 0..(Len(stop) - 1) /\ <<>> \in Seq(Ops)
  BY StopRow
<1>2. Within(stop, k, <<>>)
  BY DEF AtStop
<1>3. PinOp(stop[k + 1]) /\ todo' = SubSeq(stop, k + 2, Len(stop)) \o <<>> /\ Frame
  BY <1>1, <1>2, StepsOn
<1>4. Stopping(k + 1)' /\ Spares
  BY <1>3, StoppingPin DEF AtStop, Spares
<1>5. Within(stop, k + 1, <<>>)'
  <2>1. k + 1 + 1 = k + 2
    OBVIOUS
  <2>2. QED  BY <1>3, <2>1 DEF Within
<1>6. QED  BY <1>3, <1>4, <1>5 DEF AtStop, Frame

(* in write() for each bit, which leads to the next bit or to the          *)
(* acknowledgement,                                                        *)
LEMMA BitStep ==
  ASSUME TypeOK, Pin, NEW i \in 0..7, NEW k \in 0..4, AtBit(i, k)
  PROVE  /\ k < 4 => AtBit(i, k + 1)'
         /\ k = 4 /\ i < 7 => AtBit(i + 1, 0)'
         /\ k = 4 /\ i = 7 => AtAck(0)'
         /\ Quiet
<1>1. PICK f \in Seq(Ops) : f = write(Byte)
  BY WriteRow
<1>2. PICK n \in 0..39 : n = 5 * i + k
  OBVIOUS
<1>3. <<>> \in Seq(Ops) /\ Len(f) = 48 /\ n \in 0..(Len(f) - 1) /\ f[n + 1] = SendOps(Byte, i)[k + 1]
  <2>1. Len(f) = 48
    BY <1>1, WriteRow
  <2>2. f[5 * i + k + 1] = SendOps(Byte, i)[k + 1]
    BY <1>1, WriteRow
  <2>3. QED  BY <1>2, <2>1, <2>2
<1>4. Within(f, n, <<>>) /\ stage \in Bytes /\ Sending(i, k)
  BY <1>1, <1>2 DEF AtBit
<1>5. PinOp(f[n + 1]) /\ todo' = SubSeq(f, n + 2, Len(f)) \o <<>> /\ Frame
  BY <1>3, <1>4, StepsOn
<1>6. /\ k < 4 => Sending(i, k + 1)'
      /\ k = 4 /\ i < 7 => Sending(i + 1, 0)'
      /\ k = 4 /\ i = 7 => Acknowledging(0)'
      /\ Quiet
  BY <1>3, <1>4, <1>5, SendingPin
<1>7. f = write(Byte)' /\ stage' \in Bytes
  BY <1>1, <1>4, <1>5, ByteStays DEF Frame
<1>8. ASSUME NEW m \in Nat, m = n + 1 PROVE Within(write(Byte), m, <<>>)'
  BY <1>5, <1>7, <1>8 DEF Within
<1>9. ASSUME k < 4 PROVE AtBit(i, k + 1)'
  <2>1. Within(write(Byte), 5 * i + (k + 1), <<>>)'
    BY <1>2, <1>8
  <2>2. QED  BY <1>6, <1>7, <1>9, <2>1 DEF AtBit
<1>10. ASSUME k = 4, i < 7 PROVE AtBit(i + 1, 0)'
  <2>1. Within(write(Byte), 5 * (i + 1) + 0, <<>>)'
    BY <1>2, <1>8, <1>10
  <2>2. QED  BY <1>6, <1>7, <1>10, <2>1 DEF AtBit
<1>11. ASSUME k = 4, i = 7 PROVE AtAck(0)'
  <2>1. Within(write(Byte), 40 + 0, <<>>)'
    BY <1>2, <1>8, <1>11
  <2>2. QED  BY <1>6, <1>7, <1>11, <2>1 DEF AtAck
<1>12. QED  BY <1>6, <1>9, <1>10, <1>11

(* in write() after the last bit, *)
LEMMA AckStep ==
  ASSUME TypeOK, Pin, NEW k \in 0..7, AtAck(k)
  PROVE  AtAck(k + 1)' /\ Quiet
<1>1. PICK f \in Seq(Ops) : f = write(Byte)
  BY WriteRow
<1>2. PICK n \in 40..47 : n = 40 + k
  OBVIOUS
<1>3. <<>> \in Seq(Ops) /\ Len(f) = 48 /\ n \in 0..(Len(f) - 1) /\ f[n + 1] = AckOps[k + 1]
  <2>1. Len(f) = 48
    BY <1>1, WriteRow
  <2>2. f[40 + k + 1] = AckOps[k + 1]
    BY <1>1, WriteRow
  <2>3. QED  BY <1>2, <2>1, <2>2
<1>4. Within(f, n, <<>>) /\ stage \in Bytes /\ Acknowledging(k)
  BY <1>1, <1>2 DEF AtAck
<1>5. PinOp(f[n + 1]) /\ todo' = SubSeq(f, n + 2, Len(f)) \o <<>> /\ Frame
  BY <1>3, <1>4, StepsOn
<1>6. Acknowledging(k + 1)' /\ Quiet
  BY <1>3, <1>4, <1>5, AcknowledgingPin
<1>7. f = write(Byte)' /\ stage' \in Bytes
  BY <1>1, <1>4, <1>5, ByteStays DEF Frame
<1>8. Within(write(Byte), 40 + (k + 1), <<>>)'
  <2>1. 40 + (k + 1) + 1 = n + 2
    BY <1>2
  <2>2. QED  BY <1>5, <1>7, <2>1 DEF Within
<1>9. QED  BY <1>6, <1>7, <1>8 DEF AtAck

(* in read() for each bit, *)
LEMMA FetchStep ==
  ASSUME TypeOK, Pin, NEW i \in 0..7, NEW k \in 0..5, AtFetch(i, k)
  PROVE  /\ k < 5 => AtFetch(i, k + 1)'
         /\ k = 5 /\ i < 7 => AtFetch(i + 1, 0)'
         /\ k = 5 /\ i = 7 => AtTurn'
         /\ Quiet
<1>1. PICK n \in 1..48 : n = 1 + 6 * i + k
  OBVIOUS
<1>2. /\ read \in Seq(Ops) /\ <<>> \in Seq(Ops) /\ n \in 0..(Len(read) - 1)
      /\ read[n + 1] = FetchOps[k + 1]
  <2>1. read \in Seq(Ops) /\ Len(read) = 50 /\ read[1 + 6 * i + k + 1] = FetchOps[k + 1]
    BY ReadRow
  <2>2. QED  BY <1>1, <2>1
<1>3. Within(read, n, <<>>) /\ stage = "read" /\ Fetching(i, k)
  BY <1>1 DEF AtFetch
<1>4. PinOp(read[n + 1]) /\ todo' = SubSeq(read, n + 2, Len(read)) \o <<>> /\ Frame
  BY <1>2, <1>3, StepsOn
<1>5. /\ k < 5 => Fetching(i, k + 1)'
      /\ k = 5 /\ i < 7 => Fetching(i + 1, 0)'
      /\ k = 5 /\ i = 7 => FetchEnds'
      /\ Quiet
  BY <1>2, <1>3, <1>4, FetchingPin
<1>6. stage' = "read"
  BY <1>3, <1>4 DEF Frame
<1>7. ASSUME NEW m \in Nat, m = n + 1 PROVE Within(read, m, <<>>)'
  BY <1>4, <1>7 DEF Within
<1>8. ASSUME k < 5 PROVE AtFetch(i, k + 1)'
  <2>1. Within(read, 1 + 6 * i + (k + 1), <<>>)'
    BY <1>1, <1>7
  <2>2. QED  BY <1>5, <1>6, <1>8, <2>1 DEF AtFetch
<1>9. ASSUME k = 5, i < 7 PROVE AtFetch(i + 1, 0)'
  <2>1. Within(read, 1 + 6 * (i + 1) + 0, <<>>)'
    BY <1>1, <1>7, <1>9
  <2>2. QED  BY <1>5, <1>6, <1>9, <2>1 DEF AtFetch
<1>10. ASSUME k = 5, i = 7 PROVE AtTurn'
  <2>1. Within(read, 49, <<>>)'
    BY <1>1, <1>7, <1>10
  <2>2. QED  BY <1>5, <1>6, <1>10, <2>1 DEF AtTurn
<1>11. QED  BY <1>5, <1>8, <1>9, <1>10

(* and where read() turns SDA around. *)
LEMMA TurnStep ==
  ASSUME TypeOK, Pin, AtTurn, todo # <<>>
  PROVE  (AtFetch(0, 0)' \/ AtTurn') /\ Quiet
<1>1. /\ read \in Seq(Ops) /\ <<>> \in Seq(Ops) /\ Len(read) = 50
      /\ read[1] = "in" /\ read[50] = "out"
  BY ReadRow
<1>2. CASE Within(read, 0, <<>>) /\ FetchStarts
  <2>1. PICK n \in 0..(Len(read) - 1) : n = 0
    BY <1>1
  <2>2. Within(read, n, <<>>)
    BY <1>2, <2>1
  <2>3. PinOp(read[n + 1]) /\ todo' = SubSeq(read, n + 2, Len(read)) \o <<>> /\ Frame
    BY <1>1, <2>2, StepsOn
  <2>4. stage = "read" /\ stage' = "read" /\ PinOp("in")
    BY <1>1, <2>1, <2>3 DEF AtTurn, Frame
  <2>5. Fetching(0, 0)' /\ Quiet
    BY <1>2, <2>3, <2>4, FetchTurns
  <2>6. Within(read, 1 + 6 * 0 + 0, <<>>)'
    BY <2>1, <2>3 DEF Within
  <2>7. QED  BY <2>4, <2>5, <2>6 DEF AtFetch
<1>3. CASE Within(read, 49, <<>>) /\ FetchEnds
  <2>1. PICK n \in 0..(Len(read) - 1) : n = 49
    BY <1>1
  <2>2. Within(read, n, <<>>)
    BY <1>3, <2>1
  <2>3. PinOp(read[n + 1]) /\ todo' = SubSeq(read, n + 2, Len(read)) \o <<>> /\ Frame
    BY <1>1, <2>2, StepsOn
  <2>4. stage = "read" /\ stage' = "read" /\ PinOp("out")
    BY <1>1, <2>1, <2>3 DEF AtTurn, Frame
  <2>5. FetchIsOver' /\ Quiet
    BY <1>3, <2>3, <2>4, FetchTurns
  <2>6. Within(read, 50, <<>>)'
    BY <2>1, <2>3 DEF Within
  <2>7. QED  BY <2>4, <2>5, <2>6 DEF AtTurn
<1>4. CASE Within(read, 50, <<>>)
  <2>1. todo = <<>>
    BY <1>1, <1>4, GoesOn
  <2>2. QED  BY <2>1
<1>5. QED  BY <1>2, <1>3, <1>4 DEF AtTurn

(* Where write() and the last stop() end nothing is left to be done.       *)
LEMMA AckEnds ==
  ASSUME AtAck(8)
  PROVE  todo = <<>>
<1>1. PICK f \in Seq(Ops) : f = write(Byte)
  BY WriteRow
<1>2. Len(f) = 48 /\ <<>> \in Seq(Ops)
  BY <1>1, WriteRow
<1>3. Within(f, Len(f), <<>>)
  BY <1>1, <1>2 DEF AtAck
<1>4. QED  BY <1>2, <1>3, GoesOn

(* After the last stop() nothing is left to be done. *)
LEMMA StopEnds ==
  ASSUME AtStop(6)
  PROVE  todo = <<>>
<1>1. stop \in Seq(Ops) /\ Len(stop) = 6 /\ <<>> \in Seq(Ops)
  BY StopRow
<1>2. Within(stop, Len(stop), <<>>)
  BY <1>1 DEF AtStop
<1>3. QED  BY <1>1, <1>2, GoesOn

(* A pin operation leads from one place of the call to another, and cuts no*)
(* byte short.                                                             *)
LEMMA PinPlaces ==
  ASSUME IInv, Pin
  PROVE  Places' /\ Spares
<1>1. TypeOK /\ Places /\ todo # <<>>
  BY DEF IInv, Pin
<1>2. CASE \E k \in 0..8 : AtStart(k)
  <2>1. PICK k \in 0..8 : AtStart(k)
    BY <1>2
  <2>2. CASE k < 8
    <3>1. AtStart(k + 1)' /\ Spares /\ k + 1 \in 0..8
      BY <1>1, <2>1, <2>2, StartStep
    <3>2. QED  BY <3>1 DEF Places
  <2>3. CASE k = 8
    <3>1. AtBit(0, 0)
      BY <1>1, <2>1, <2>3, StartEnds
    <3>2. AtBit(0, 0 + 1)' /\ Quiet
      BY <1>1, <3>1, BitStep
    <3>3. QED  BY <3>2 DEF Places, Spares
  <2>4. QED  BY <2>2, <2>3
<1>3. CASE \E k \in 0..6 : AtRestart(k)
  <2>1. PICK k \in 0..6 : AtRestart(k)
    BY <1>3
  <2>2. CASE k < 6
    <3>1. AtRestart(k + 1)' /\ Spares /\ k + 1 \in 0..6
      BY <1>1, <2>1, <2>2, RestartStep
    <3>2. QED  BY <3>1 DEF Places
  <2>3. CASE k = 6
    <3>1. AtStart(0)
      BY <2>1, <2>3, RestartEnds
    <3>2. QED  BY <1>2, <3>1
  <2>4. QED  BY <2>2, <2>3
<1>4. CASE \E i \in 0..7, k \in 0..4 : AtBit(i, k)
  <2>1. PICK i \in 0..7, k \in 0..4 : AtBit(i, k)
    BY <1>4
  <2>2. /\ k < 4 => AtBit(i, k + 1)'
        /\ k = 4 /\ i < 7 => AtBit(i + 1, 0)'
        /\ k = 4 /\ i = 7 => AtAck(0)'
        /\ Quiet
    BY <1>1, <2>1, BitStep
  <2>3. CASE k < 4
    BY <2>2, <2>3 DEF Places, Spares
  <2>4. CASE k = 4 /\ i < 7
    BY <2>2, <2>4 DEF Places, Spares
  <2>5. CASE k = 4 /\ i = 7
    BY <2>2, <2>5 DEF Places, Spares
  <2>6. QED  BY <2>3, <2>4, <2>5
<1>5. CASE \E k \in 0..8 : AtAck(k)
  <2>1. PICK k \in 0..8 : AtAck(k)
    BY <1>5
  <2>2. CASE k < 8
    <3>1. AtAck(k + 1)' /\ Quiet /\ k + 1 \in 0..8
      BY <1>1, <2>1, <2>2, AckStep
    <3>2. QED  BY <3>1 DEF Places, Spares
  <2>3. CASE k = 8
    <3>1. todo = <<>>
      BY <2>1, <2>3, AckEnds
    <3>2. QED  BY <1>1, <3>1
  <2>4. QED  BY <2>2, <2>3
<1>6. CASE \E i \in 0..7, k \in 0..5 : AtFetch(i, k)
  <2>1. PICK i \in 0..7, k \in 0..5 : AtFetch(i, k)
    BY <1>6
  <2>2. /\ k < 5 => AtFetch(i, k + 1)'
        /\ k = 5 /\ i < 7 => AtFetch(i + 1, 0)'
        /\ k = 5 /\ i = 7 => AtTurn'
        /\ Quiet
    BY <1>1, <2>1, FetchStep
  <2>3. CASE k < 5
    BY <2>2, <2>3 DEF Places, Spares
  <2>4. CASE k = 5 /\ i < 7
    BY <2>2, <2>4 DEF Places, Spares
  <2>5. CASE k = 5 /\ i = 7
    BY <2>2, <2>5 DEF Places, Spares
  <2>6. QED  BY <2>3, <2>4, <2>5
<1>7. CASE AtTurn
  BY <1>1, <1>7, TurnStep DEF Places, Spares
<1>8. CASE \E k \in 0..6 : AtStop(k)
  <2>1. PICK k \in 0..6 : AtStop(k)
    BY <1>8
  <2>2. CASE k < 6
    <3>1. AtStop(k + 1)' /\ Spares /\ k + 1 \in 0..6
      BY <1>1, <2>1, <2>2, StopStep
    <3>2. QED  BY <3>1 DEF Places
  <2>3. CASE k = 6
    <3>1. todo = <<>>
      BY <2>1, <2>3, StopEnds
    <3>2. QED  BY <1>1, <3>1
  <2>4. QED  BY <2>2, <2>3
<1>9. CASE \E k \in 0..8 : AtNack(k)
  <2>1. PICK k \in 0..8 : AtNack(k)
    BY <1>9
  <2>2. CASE k < 8
    <3>1. AtNack(k + 1)' /\ Quiet /\ k + 1 \in 0..8
      BY <1>1, <2>1, <2>2, NackStep
    <3>2. QED  BY <3>1 DEF Places, Spares
  <2>3. CASE k = 8
    <3>1. AtStop(0)
      BY <2>1, <2>3, NackEnds
    <3>2. QED  BY <1>8, <3>1
  <2>4. QED  BY <2>2, <2>3
<1>10. ~Nowhere
  BY <1>1 DEF Nowhere
<1>11. QED
  BY <1>1, <1>2, <1>3, <1>4, <1>5, <1>6, <1>7, <1>8, <1>9, <1>10 DEF Places
-----------------------------------------------------------------------------
(* The sensor's answers *)

(* An answer leaves the sensor's record one.                               *)
LEMMA AnswersTyped ==
  ASSUME NEW d0 \in Device, NEW d \in Answer(d0)
  PROVE  d \in Device
<1>1. Refuse(d0) \in Device
  BY DEF Refuse, Device
<1>2. Accept(d0) \in Device
  <2>1. PICK r \in Int : r = IF d0.phase = "high" THEN 256 * d0.shift
                             ELSE IF d0.phase = "low" THEN d0.reg + d0.shift ELSE d0.reg
    BY DEF Device
  <2>2. Accept(d0) = [d0 EXCEPT !.pull = TRUE, !.reg = r]
    BY <2>1 DEF Accept, Device
  <2>3. QED  BY <2>2 DEF Device
<1>3. \A i : PullFor(d0, i) \in Device
  BY DEF PullFor, Device
<1>4. CASE d0.phase \in Receiving /\ d0.bits = 8
  <2>1. Answer(d0) = Verdicts(d0)
    BY <1>4 DEF Answer, Receiving
  <2>2. QED  BY <1>1, <1>2, <2>1 DEF Verdicts
<1>5. CASE d0.phase \in Receiving /\ d0.bits = 9
  <2>1. PICK phase : phase = AfterAck(d0)
    OBVIOUS
  <2>2. PICK next : next = [d0 EXCEPT !.phase = phase, !.bits = 0, !.pull = FALSE]
    OBVIOUS
  <2>3. phase \in {"send", "high", "low", "value"}
    BY <1>5, <2>1 DEF AfterAck, Receiving
  <2>4. next \in Device /\ next.phase = phase
    <3>1. next = [phase |-> phase, bits |-> 0, shift |-> d0.shift, pull |-> FALSE,
                  due |-> d0.due, nack |-> d0.nack, reg |-> d0.reg]
      BY <2>2 DEF Device
    <3>2. QED  BY <2>3, <3>1 DEF Device
  <2>5. PullFor(next, 0) \in Device
    BY <2>4 DEF PullFor, Device
  <2>6. Answer(d0) = {IF phase = "send" THEN PullFor(next, 0) ELSE next}
    BY <1>5, <2>1, <2>2, <2>4 DEF Answer, Receiving
  <2>7. QED  BY <2>4, <2>5, <2>6
<1>6. CASE d0.phase = "send" /\ d0.bits < 8
  BY <1>3, <1>6 DEF Answer, Receiving
<1>7. CASE d0.phase = "send" /\ d0.bits = 8
  <2>1. Answer(d0) = {[d0 EXCEPT !.pull = FALSE]}
    BY <1>7 DEF Answer, Receiving
  <2>2. [d0 EXCEPT !.pull = FALSE] \in Device
    BY DEF Device
  <2>3. QED  BY <2>1, <2>2
<1>8. CASE d0.phase = "send" /\ d0.bits = 9
  BY <1>1, <1>8 DEF Answer, Receiving
<1>9. CASE /\ ~(d0.phase \in Receiving /\ d0.bits \in 8..9)
           /\ ~(d0.phase = "send" /\ d0.bits <= 9)
  BY <1>9 DEF Answer, Receiving, Device
<1>10. QED  BY <1>4, <1>5, <1>6, <1>7, <1>8, <1>9 DEF Device

(* In the middle of a byte, and when it is not addressed, it does nothing. *)
LEMMA NothingToAnswer ==
  ASSUME TypeOK, SensorAnswers, dev.phase = "off" \/ (dev.phase \in Receiving /\ dev.bits < 8)
  PROVE  dev' = [dev EXCEPT !.due = FALSE] /\ file' = file /\ took' = took
<1>1. PICK d0 : d0 = [dev EXCEPT !.due = FALSE]
  OBVIOUS
<1>2. d0.phase = dev.phase /\ d0.bits = dev.bits /\ dev.bits \in Nat /\ took \in BOOLEAN
  BY <1>1 DEF TypeOK, Device
<1>3. Answer(d0) = {d0}
  BY <1>2 DEF Answer, Receiving
<1>4. PICK d \in {d0} : 
        /\ dev' = d
        /\ LET commits == dev.phase = "value" /\ dev.bits = 8 /\ d.pull /\ d.reg \in Regs
           IN  /\ file' = IF commits THEN [file EXCEPT ![d.reg] = d.shift] ELSE file
               /\ took' = (took \/ commits)
  BY <1>1, <1>3 DEF SensorAnswers
<1>5. ~(dev.phase = "value" /\ dev.bits = 8)
  BY <1>2 DEF Receiving
<1>6. file' = file /\ took' = took
  BY <1>2, <1>4, <1>5
<1>7. QED  BY <1>1, <1>4, <1>6

(* After a byte it refuses or acknowledges it.                             *)
LEMMA AnswersByte ==
  ASSUME TypeOK, SensorAnswers, dev.phase \in Receiving, dev.bits = 8
  PROVE  \/ dev' = [dev EXCEPT !.due = FALSE, !.phase = "off", !.pull = FALSE]
            /\ file' = file /\ took' = took
         \/ /\ dev' = [dev EXCEPT !.due = FALSE, !.pull = TRUE,
                                  !.reg = IF dev.phase = "high" THEN 256 * dev.shift
                                          ELSE IF dev.phase = "low" THEN @ + dev.shift ELSE @]
            /\ IF dev.phase = "value" /\ dev.reg \in Regs
               THEN file' = [file EXCEPT ![dev.reg] = dev.shift] /\ took'
               ELSE file' = file /\ took' = took
<1>1. PICK d0 : d0 = [dev EXCEPT !.due = FALSE]
  OBVIOUS
<1>2. /\ d0.phase = dev.phase /\ d0.bits = 8 /\ d0.shift = dev.shift /\ d0.reg = dev.reg
      /\ took \in BOOLEAN
  BY <1>1 DEF TypeOK, Device
<1>3. PICK acked : acked = Accept(d0)
  OBVIOUS
<1>4. Answer(d0) \subseteq {Refuse(d0), acked}
  <2>1. d0.phase \in Receiving /\ d0.bits = 8
    BY <1>2
  <2>2. Answer(d0) = Verdicts(d0)
    BY <2>1 DEF Answer, Receiving
  <2>3. QED  BY <1>3, <2>2 DEF Verdicts
<1>5. PICK d \in {Refuse(d0), acked} :
        /\ dev' = d
        /\ LET commits == dev.phase = "value" /\ dev.bits = 8 /\ d.pull /\ d.reg \in Regs
           IN  /\ file' = IF commits THEN [file EXCEPT ![d.reg] = d.shift] ELSE file
               /\ took' = (took \/ commits)
  BY <1>1, <1>4 DEF SensorAnswers
<1>6. CASE d = Refuse(d0)
  <2>1. d = [dev EXCEPT !.due = FALSE, !.phase = "off", !.pull = FALSE]
    BY <1>1, <1>6 DEF Refuse, TypeOK, Device
  <2>2. ~d.pull
    BY <2>1 DEF TypeOK, Device
  <2>3. QED  BY <1>2, <1>5, <2>1, <2>2
<1>7. CASE d = acked
  <2>1. d = [dev EXCEPT !.due = FALSE, !.pull = TRUE,
                        !.reg = IF dev.phase = "high" THEN 256 * dev.shift
                                ELSE IF dev.phase = "low" THEN @ + dev.shift ELSE @]
    BY <1>1, <1>2, <1>3, <1>7 DEF Accept, TypeOK, Device
  <2>2. d.pull /\ d.shift = dev.shift /\ (dev.phase = "value" => d.reg = dev.reg)
    BY <2>1 DEF TypeOK, Device
  <2>3. CASE dev.phase = "value" /\ dev.reg \in Regs
    <3>1. file' = [file EXCEPT ![dev.reg] = dev.shift] /\ took'
      BY <1>5, <2>2, <2>3
    <3>2. QED  BY <1>5, <2>1, <2>3, <3>1
  <2>4. CASE ~(dev.phase = "value" /\ dev.reg \in Regs)
    <3>1. file' = file /\ took' = took
      BY <1>2, <1>5, <2>2, <2>4
    <3>2. QED  BY <1>5, <2>1, <2>4, <3>1
  <2>5. QED  BY <2>3, <2>4
<1>8. QED  BY <1>5, <1>6, <1>7

(* After the acknowledgement it is ready for the next byte, or sends one.  *)
LEMMA GoesAhead ==
  ASSUME TypeOK, SensorAnswers, dev.bits = 9, dev.phase \in Receiving
  PROVE  /\ dev' = [dev EXCEPT !.due = FALSE, !.bits = 0, !.phase = AfterAck(dev),
                               !.pull = (AfterAck(dev) = "send" /\ Bit(file[dev.reg], 0) = 0)]
         /\ file' = file /\ took' = took
<1>1. PICK d0 : d0 = [dev EXCEPT !.due = FALSE]
  OBVIOUS
<1>2. /\ d0.phase = dev.phase /\ d0.bits = 9 /\ d0.shift = dev.shift /\ took \in BOOLEAN
  BY <1>1 DEF TypeOK, Device
<1>3. AfterAck(d0) = AfterAck(dev)
  BY <1>2 DEF AfterAck
<1>4. PICK phase : phase = AfterAck(dev)
  OBVIOUS
<1>5. PICK next : next = [d0 EXCEPT !.phase = phase, !.bits = 0, !.pull = FALSE]
  OBVIOUS
<1>6. next.phase = phase /\ next.reg = dev.reg
  BY <1>1, <1>5 DEF TypeOK, Device
<1>7. Answer(d0) = {IF phase = "send" THEN PullFor(next, 0) ELSE next}
  BY <1>2, <1>3, <1>4, <1>5, <1>6 DEF Answer, Receiving
<1>8. PICK d : d = IF phase = "send" THEN PullFor(next, 0) ELSE next
  OBVIOUS
<1>9. dev' = d /\ file' = file /\ took' = took
  <2>1. PICK e \in Answer(d0) :
          /\ dev' = e
          /\ LET commits == dev.phase = "value" /\ dev.bits = 8 /\ e.pull /\ e.reg \in Regs
             IN  /\ file' = IF commits THEN [file EXCEPT ![e.reg] = e.shift] ELSE file
                 /\ took' = (took \/ commits)
    BY <1>1 DEF SensorAnswers
  <2>2. e = d
    BY <1>7, <1>8, <2>1
  <2>3. dev.bits # 8
    OBVIOUS
  <2>4. file' = file /\ took' = took
    BY <1>2, <2>1, <2>3
  <2>5. QED  BY <2>1, <2>2, <2>4
<1>10. d = [dev EXCEPT !.due = FALSE, !.bits = 0, !.phase = phase,
                       !.pull = (phase = "send" /\ Bit(file[dev.reg], 0) = 0)]
  <2>1. CASE phase = "send"
    BY <1>1, <1>5, <1>6, <1>8, <2>1 DEF PullFor, TypeOK, Device
  <2>2. CASE phase # "send"
    BY <1>1, <1>5, <1>8, <2>2 DEF TypeOK, Device
  <2>3. QED  BY <2>1, <2>2
<1>11. QED  BY <1>4, <1>9, <1>10

(* While it sends it puts one bit after the other on the line, and then    *)
(* leaves the line alone.                                                  *)
LEMMA AnswersSending ==
  ASSUME TypeOK, SensorAnswers, dev.phase = "send"
  PROVE  /\ file' = file /\ took' = took
         /\ dev.bits < 8 => dev' = [dev EXCEPT !.due = FALSE, !.pull = (Bit(file[dev.reg], dev.bits) = 0)]
         /\ dev.bits = 8 => dev' = [dev EXCEPT !.due = FALSE, !.pull = FALSE]
         /\ dev.bits = 9 /\ dev.nack =>
              dev' = [dev EXCEPT !.due = FALSE, !.phase = "off", !.pull = FALSE]
<1>1. PICK d0 : d0 = [dev EXCEPT !.due = FALSE]
  OBVIOUS
<1>2. /\ d0.phase = dev.phase /\ d0.bits = dev.bits /\ d0.nack = dev.nack /\ d0.reg = dev.reg
      /\ took \in BOOLEAN
  BY <1>1 DEF TypeOK, Device
<1>3. PICK d \in Answer(d0) : dev' = d /\ file' = file /\ took' = took
  BY <1>1, <1>2 DEF SensorAnswers
<1>4. CASE dev.bits < 8
  BY <1>1, <1>2, <1>3, <1>4 DEF Answer, Receiving, PullFor, TypeOK, Device
<1>5. CASE dev.bits = 8
  BY <1>1, <1>2, <1>3, <1>5 DEF Answer, Receiving, TypeOK, Device
<1>6. CASE dev.bits = 9 /\ dev.nack
  BY <1>1, <1>2, <1>3, <1>6 DEF Answer, Receiving, Refuse, TypeOK, Device
<1>7. QED  BY <1>3, <1>4, <1>5, <1>6

(* An answer comes while the clock is low, and leaves the call its place.  *)
Settles == scl = 0 /\ file' = file /\ took' = took

(* The edge that ends start() gets no answer. *)
LEMMA StartAnswer ==
  ASSUME TypeOK, SensorAnswers, NEW k \in 0..8, AtStart(k)
  PROVE  AtStart(k)' /\ Settles
<1>1. k = 7
  BY DEF SensorAnswers, AtStart, Starting, Free
<1>2. scl = 0 /\ dev.phase = "address" /\ dev.bits = 0
  BY <1>1 DEF AtStart, Starting
<1>3. dev' = [dev EXCEPT !.due = FALSE] /\ file' = file /\ took' = took
  BY <1>2, NothingToAnswer DEF Receiving
<1>4. /\ dev'.phase = dev.phase /\ dev'.bits = dev.bits /\ dev'.shift = dev.shift
      /\ dev'.pull = dev.pull /\ dev'.reg = dev.reg
  BY <1>3 DEF TypeOK, Device
<1>5. scl' = scl /\ sda' = sda /\ mode' = mode /\ todo' = todo /\ stage' = stage /\ call' = call
  BY DEF SensorAnswers, master
<1>6. Byte' = Byte
  BY <1>3, <1>5, ByteStays DEF Frame
<1>7. Starting(7)'
  BY <1>1, <1>4, <1>5 DEF AtStart, Starting
<1>8. QED  BY <1>1, <1>2, <1>3, <1>4, <1>5, <1>6, <1>7 DEF AtStart, Restarts, Within, Settles

(* An edge between two bits gets no answer. *)
LEMMA BitAnswer ==
  ASSUME TypeOK, SensorAnswers, NEW i \in 0..7, NEW k \in 0..4, AtBit(i, k)
  PROVE  AtBit(i, k)' /\ Settles
<1>1. i > 0 /\ k <= 1 /\ dev.phase = Phase /\ dev.bits = i /\ scl = 0
  BY DEF SensorAnswers, AtBit, Sending
<1>2. Phase \in Receiving
  BY DEF AtBit, Bytes, Phase, Receiving
<1>3. dev' = [dev EXCEPT !.due = FALSE] /\ file' = file /\ took' = took
  BY <1>1, <1>2, NothingToAnswer
<1>4. /\ dev'.phase = dev.phase /\ dev'.bits = dev.bits /\ dev'.shift = dev.shift
      /\ dev'.pull = dev.pull /\ dev'.reg = dev.reg
  BY <1>3 DEF TypeOK, Device
<1>5. scl' = scl /\ sda' = sda /\ mode' = mode /\ todo' = todo /\ stage' = stage /\ call' = call
  BY DEF SensorAnswers, master
<1>6. Byte' = Byte /\ Phase' = Phase
  BY <1>3, <1>5, ByteStays DEF Frame
<1>7. Sending(i, k)'
  BY <1>1, <1>3, <1>4, <1>5, <1>6 DEF AtBit, Sending, Got, RegBefore
<1>8. QED  BY <1>1, <1>3, <1>5, <1>6, <1>7 DEF AtBit, Within, Settles

(* The call's value arrives in the call's register.                        *)
Commits ==
  /\ stage = "value" /\ call.op = "write" /\ ~took
  /\ file' = [file EXCEPT ![call.reg] = call.val] /\ took' = TRUE

(* The edge after the last bit is answered by accepting or refusing the    *)
(* byte, the next one by going on to the next byte.                        *)
LEMMA AckAnswer ==
  ASSUME TypeOK, SensorAnswers, NEW k \in 0..8, AtAck(k)
  PROVE  AtAck(k)' /\ scl = 0 /\ (Settles \/ Commits)
<1>1. dev.due /\ dev \in Device /\ k \in {0, 1, 6} /\ scl = 0 /\ stage \in Bytes /\ Acknowledging(k)
  BY DEF TypeOK, SensorAnswers, AtAck, Acknowledging
<1>2. /\ scl' = scl /\ sda' = sda /\ mode' = mode /\ todo' = todo /\ ack' = ack
      /\ stage' = stage /\ call' = call
  BY DEF SensorAnswers, master
<1>3. Byte' = Byte /\ Phase' = Phase /\ Following' = Following
  BY <1>2 DEF Byte, Phase, Following
<1>4. Within(write(Byte), 40 + k, <<>>)'
  BY <1>2, <1>3 DEF AtAck, Within
<1>5. Byte \in 0..255
  BY <1>1, ByteTyped
<1>6. CASE k <= 1
  <2>1. /\ dev.phase = Phase /\ dev.bits = 8 /\ Got(8) /\ ~dev.pull /\ RegBefore /\ ~took
    BY <1>1, <1>6 DEF Acknowledging
  <2>2. Phase \in Receiving
    BY <1>1 DEF Bytes, Phase, Receiving
  <2>3. dev.shift = Byte
    <3>1. dev.shift \in 0..255 /\ Last(dev.shift, 8) = First(Byte, 8)
      BY <1>1, <2>1 DEF Device, Got
    <3>2. PICK s \in 0..255 : s = dev.shift
      BY <3>1
    <3>3. Last(s, 8) = s /\ First(Byte, 8) = Byte
      BY <1>5, FirstAndLast
    <3>4. QED  BY <3>1, <3>2, <3>3
  <2>4. CASE /\ dev' = [dev EXCEPT !.due = FALSE, !.phase = "off", !.pull = FALSE]
             /\ file' = file /\ took' = took
    <3>1. dev'.phase = "off" /\ ~dev'.pull /\ ~dev'.due
      BY <1>1, <2>4 DEF Device
    <3>2. Acknowledging(k)'
      BY <1>1, <1>2, <1>6, <2>1, <2>4, <3>1 DEF Acknowledging, Refused
    <3>3. QED  BY <1>1, <1>2, <1>4, <2>4, <3>2 DEF AtAck, Settles
  <2>5. CASE /\ dev' = [dev EXCEPT !.due = FALSE, !.pull = TRUE,
                                   !.reg = IF dev.phase = "high" THEN 256 * dev.shift
                                           ELSE IF dev.phase = "low" THEN @ + dev.shift ELSE @]
             /\ IF dev.phase = "value" /\ dev.reg \in Regs
                THEN file' = [file EXCEPT ![dev.reg] = dev.shift] /\ took'
                ELSE file' = file /\ took' = took
    <3>1. /\ dev'.phase = Phase /\ dev'.bits = 8 /\ dev'.shift = Byte /\ dev'.pull /\ ~dev'.due
      BY <1>1, <2>1, <2>3, <2>5 DEF Device
    <3>2. dev'.reg = IF Phase = "high" THEN 256 * Byte
                     ELSE IF Phase = "low" THEN dev.reg + Byte ELSE dev.reg
      BY <1>1, <2>1, <2>3, <2>5 DEF Device
    <3>3. call \in Calls /\ call.reg \in Regs /\ call.reg \in Nat
      <4>1. stage # "idle"
        BY <1>1 DEF Bytes
      <4>2. QED  BY <4>1, Fetches, I2CBusAssumption
    <3>4. RegAfter'
      <4>1. CASE stage = "address"
        BY <1>2, <4>1 DEF RegAfter
      <4>2. CASE stage = "high"
        BY <1>2, <3>2, <4>2 DEF RegAfter, Phase, Byte
      <4>3. CASE stage = "low"
        <5>1. PICK r \in Nat : r = call.reg
          BY <3>3
        <5>2. PICK q \in Nat, m \in 0..255 : q = r \div 256 /\ m = r % 256
          OBVIOUS
        <5>3. Byte = m /\ Phase = "low"
          BY <4>3, <5>1, <5>2 DEF Byte, Phase
        <5>4. dev.reg = 256 * q
          BY <2>1, <4>3, <5>1, <5>2 DEF RegBefore
        <5>5. dev'.reg = dev.reg + Byte
          BY <3>2, <5>3
        <5>6. dev'.reg = 256 * q + m
          BY <5>3, <5>4, <5>5
        <5>7. 256 * q + m = r
          BY <5>2
        <5>8. QED  BY <1>2, <4>3, <5>1, <5>6, <5>7 DEF RegAfter
      <4>4. CASE stage \in {"value", "again"}
        BY <1>2, <2>1, <3>2, <4>4 DEF RegAfter, RegBefore, Phase
      <4>5. QED  BY <1>1, <4>1, <4>2, <4>3, <4>4 DEF Bytes
    <3>5. CASE stage = "value"
      <4>1. dev.phase = "value" /\ dev.reg = call.reg /\ Byte = call.val /\ call.op = "write"
        BY <2>1, <3>5 DEF Phase, RegBefore, Byte, TypeOK
      <4>2. file' = [file EXCEPT ![call.reg] = call.val] /\ took'
        BY <2>3, <2>5, <3>3, <4>1
      <4>3. took' = TRUE
        BY <4>2 DEF TypeOK, SensorAnswers
      <4>4. Acked(8)'
        BY <1>2, <1>3, <3>1, <3>4, <3>5, <4>2 DEF Acked
      <4>5. Acknowledging(k)'
        BY <1>1, <1>2, <1>6, <3>1, <4>4 DEF Acknowledging
      <4>6. QED  BY <1>1, <1>2, <1>4, <2>1, <3>5, <4>1, <4>2, <4>3, <4>5 DEF AtAck, Commits
    <3>6. CASE stage # "value"
      <4>1. dev.phase # "value"
        BY <2>1, <3>6 DEF Phase
      <4>2. file' = file /\ took' = took
        BY <2>5, <4>1
      <4>3. Acked(8)'
        BY <1>2, <1>3, <2>1, <3>1, <3>4, <3>6, <4>2 DEF Acked
      <4>4. Acknowledging(k)'
        BY <1>1, <1>2, <1>6, <3>1, <4>3 DEF Acknowledging
      <4>5. QED  BY <1>1, <1>2, <1>4, <4>2, <4>4 DEF AtAck, Settles
    <3>7. QED  BY <3>5, <3>6
  <2>6. QED  BY <2>1, <2>2, <2>4, <2>5, AnswersByte
<1>7. CASE k = 6
  <2>1. (Acked(9) /\ ack = 1) \/ (Refused /\ ack = 0)
    BY <1>1, <1>7 DEF Acknowledging
  <2>2. CASE Refused
    <3>1. dev' = [dev EXCEPT !.due = FALSE] /\ file' = file /\ took' = took
      BY <2>2, NothingToAnswer DEF Refused
    <3>2. dev'.phase = "off" /\ ~dev'.pull
      BY <1>1, <2>2, <3>1 DEF Device, Refused
    <3>3. ack = 0
      BY <2>1, <2>2 DEF Acked, Refused
    <3>4. Acknowledging(6)'
      BY <1>1, <1>2, <1>7, <2>2, <3>1, <3>2, <3>3 DEF Acknowledging, Refused
    <3>5. QED  BY <1>1, <1>2, <1>4, <1>7, <3>1, <3>4 DEF AtAck, Settles
  <2>3. CASE Acked(9) /\ ack = 1
    <3>1. Phase \in Receiving /\ dev.phase = Phase /\ dev.bits = 9 /\ dev.shift = Byte /\ RegAfter
          /\ (took <=> stage = "value")
      BY <1>1, <2>3 DEF Bytes, Phase, Receiving, Acked
    <3>2. /\ dev' = [dev EXCEPT !.due = FALSE, !.bits = 0, !.phase = AfterAck(dev),
                                !.pull = (AfterAck(dev) = "send" /\ Bit(file[dev.reg], 0) = 0)]
          /\ file' = file /\ took' = took
      BY <3>1, GoesAhead
    <3>3. AfterAck(dev) = Following
      <4>1. SensorAddr % 2 = 0 /\ (SensorAddr + 1) % 2 = 1
        BY I2CBusAssumption
      <4>2. CASE stage = "address"
        BY <3>1, <4>1, <4>2 DEF AfterAck, Phase, Byte, Following
      <4>3. CASE stage = "again"
        BY <3>1, <4>1, <4>3 DEF AfterAck, Phase, Byte, Following
      <4>4. CASE stage \in {"high", "low", "value"}
        BY <3>1, <4>4 DEF AfterAck, Phase, Following
      <4>5. QED  BY <1>1, <4>2, <4>3, <4>4 DEF Bytes
    <3>4. /\ dev'.phase = Following /\ dev'.bits = 0 /\ ~dev'.due /\ dev'.reg = dev.reg
          /\ dev'.pull = (Following = "send" /\ Bit(file[dev.reg], 0) = 0)
      BY <1>1, <3>2, <3>3 DEF Device
    <3>5. Following = "send" <=> stage = "again"
      BY <1>1 DEF Following, Bytes
    <3>6. dev'.pull = (stage' = "again" /\ Bit(file'[dev'.reg], 0) = 0)
      BY <1>2, <3>2, <3>4, <3>5
    <3>7. Ready'
      BY <1>2, <1>3, <3>1, <3>2, <3>4, <3>6 DEF Ready, RegAfter
    <3>8. Acknowledging(6)'
      BY <1>1, <1>2, <1>7, <2>3, <3>4, <3>7 DEF Acknowledging
    <3>9. QED  BY <1>1, <1>2, <1>4, <1>7, <3>2, <3>8 DEF AtAck, Settles
  <2>4. QED  BY <2>1, <2>2, <2>3
<1>8. QED  BY <1>1, <1>6, <1>7


(* In read() the answer is the next bit. *)
LEMMA FetchAnswer ==
  ASSUME TypeOK, SensorAnswers, NEW i \in 0..7, NEW k \in 0..5, AtFetch(i, k)
  PROVE  AtFetch(i, k)' /\ Settles
<1>1. /\ k = 5 /\ dev.due /\ scl = 0 /\ dev.phase = "send" /\ dev.bits = i + 1
      /\ Fetching(i, k) /\ dev \in Device
  BY DEF SensorAnswers, AtFetch, Fetching, TypeOK
<1>2. scl' = scl /\ mode' = mode /\ todo' = todo /\ data' = data /\ stage' = stage /\ call' = call
  BY DEF SensorAnswers, master
<1>3. file' = file /\ took' = took
  BY <1>1, AnswersSending
<1>4. /\ dev'.phase = "send" /\ dev'.bits = i + 1 /\ dev'.reg = dev.reg /\ ~dev'.due
      /\ dev'.pull = (i < 7 /\ Bit(file[dev.reg], i + 1) = 0)
  <2>1. CASE i < 7
    <3>1. dev' = [dev EXCEPT !.due = FALSE, !.pull = (Bit(file[dev.reg], i + 1) = 0)]
      BY <1>1, <2>1, AnswersSending
    <3>2. QED  BY <1>1, <2>1, <3>1 DEF Device
  <2>2. CASE i = 7
    <3>1. dev' = [dev EXCEPT !.due = FALSE, !.pull = FALSE]
      BY <1>1, <2>2, AnswersSending
    <3>2. /\ dev'.phase = "send" /\ dev'.bits = i + 1 /\ dev'.reg = dev.reg /\ ~dev'.due
          /\ dev'.pull = FALSE
      BY <1>1, <3>1 DEF Device
    <3>3. (i < 7 /\ Bit(file[dev.reg], i + 1) = 0) = FALSE
      BY <2>2
    <3>4. QED  BY <3>2, <3>3
  <2>3. QED  BY <2>1, <2>2
<1>5. Fetching(i, 5)'
  BY <1>1, <1>2, <1>3, <1>4 DEF Fetching
<1>6. QED  BY <1>1, <1>2, <1>3, <1>5 DEF AtFetch, Within, Settles

(* sendNACK() makes the sensor wait for a start condition. *)
LEMMA NackAnswer ==
  ASSUME TypeOK, SensorAnswers, NEW k \in 0..8, AtNack(k)
  PROVE  AtNack(k)' /\ Settles
<1>1. /\ k = 5 /\ dev.due /\ scl = 0 /\ dev.phase = "send" /\ dev.bits = 9 /\ dev.nack
      /\ Declining(k) /\ dev \in Device
  BY DEF SensorAnswers, AtNack, Declining, TypeOK
<1>2. scl' = scl /\ sda' = sda /\ mode' = mode /\ todo' = todo /\ stage' = stage /\ call' = call
  BY DEF SensorAnswers, master
<1>3. /\ file' = file /\ took' = took
      /\ dev' = [dev EXCEPT !.due = FALSE, !.phase = "off", !.pull = FALSE]
  BY <1>1, AnswersSending
<1>4. dev'.phase = "off" /\ ~dev'.pull /\ ~dev'.due
  BY <1>1, <1>3 DEF Device
<1>5. Declining(5)'
  BY <1>1, <1>2, <1>4 DEF Declining
<1>6. QED  BY <1>1, <1>2, <1>3, <1>5 DEF AtNack, Within, Settles

(* An answer comes under a low clock and leaves the call in its place; it  *)
(* changes a register only by the call's own value.                        *)
LEMMA SensorPlaces ==
  ASSUME IInv, SensorAnswers
  PROVE  Places' /\ scl = 0 /\ (Settles \/ Commits)
<1>1. TypeOK /\ Places /\ dev.due
  BY DEF IInv, SensorAnswers
<1>2. CASE \E k \in 0..8 : AtStart(k)
  BY <1>1, <1>2, StartAnswer DEF Places, Settles
<1>3. CASE \E i \in 0..7, k \in 0..4 : AtBit(i, k)
  BY <1>1, <1>3, BitAnswer DEF Places, Settles
<1>4. CASE \E k \in 0..8 : AtAck(k)
  BY <1>1, <1>4, AckAnswer DEF Places
<1>5. CASE \E i \in 0..7, k \in 0..5 : AtFetch(i, k)
  BY <1>1, <1>5, FetchAnswer DEF Places, Settles
<1>6. CASE \E k \in 0..8 : AtNack(k)
  BY <1>1, <1>6, NackAnswer DEF Places, Settles
<1>7. CASE Nowhere
  BY <1>1, <1>7 DEF Nowhere, Free
<1>8. CASE \E k \in 0..6 : AtRestart(k)
  BY <1>1, <1>8 DEF AtRestart, Stopping
<1>9. CASE \E k \in 0..6 : AtStop(k)
  BY <1>1, <1>9 DEF AtStop, Stopping
<1>10. CASE AtTurn
  BY <1>1, <1>10 DEF AtTurn, FetchStarts, FetchEnds, FetchIsOver
<1>11. QED
  BY <1>1, <1>2, <1>3, <1>4, <1>5, <1>6, <1>7, <1>8, <1>9, <1>10 DEF Places

(* An answer keeps the types. *)
LEMMA AnswerTyped ==
  ASSUME IInv, SensorAnswers
  PROVE  TypeOK'
<1>1. TypeOK /\ (Settles \/ Commits)
  BY SensorPlaces DEF IInv
<1>2. /\ scl' = scl /\ sda' = sda /\ mode' = mode /\ todo' = todo /\ ack' = ack /\ data' = data
      /\ stage' = stage /\ call' = call /\ out' = out /\ ret' = ret
  BY DEF SensorAnswers, master
<1>3. file' \in [Regs -> Vals] /\ took' \in BOOLEAN
  <2>1. CASE Settles
    BY <1>1, <2>1 DEF TypeOK, Settles
  <2>2. CASE Commits
    <3>1. call.reg \in Regs /\ call.val \in Vals
      <4>1. call \in Calls
        BY <1>1, <2>2, Fetches DEF Commits
      <4>2. QED  BY <4>1 DEF Calls
    <3>2. QED  BY <1>1, <2>2, <3>1 DEF TypeOK, Commits
  <2>3. QED  BY <1>1, <2>1, <2>2
<1>4. dev' \in Device
  <2>1. PICK d0 : d0 = [dev EXCEPT !.due = FALSE]
    OBVIOUS
  <2>2. d0 \in Device
    BY <1>1, <2>1 DEF TypeOK, Device
  <2>3. PICK d \in Answer(d0) : dev' = d
    BY <2>1 DEF SensorAnswers
  <2>4. d \in Device
    BY <2>2, <2>3, AnswersTyped
  <2>5. QED  BY <2>3, <2>4
<1>5. QED  BY <1>1, <1>2, <1>3, <1>4 DEF TypeOK

-----------------------------------------------------------------------------
(* The steps of a call *)

(* write() returned: what the sensor has got, and that it waits.           *)
LEMMA WriteReturned ==
  ASSUME IInv, todo = <<>>, stage \in Bytes
  PROVE  /\ mode = "out" /\ scl = 0 /\ ~dev.due
         /\ (Ready /\ ack = 1) \/ (Refused /\ ack = 0)
<1>1. TypeOK /\ Places
  BY DEF IInv
<1>2. ASSUME NEW k \in 0..47, Within(write(Byte), k, <<>>) PROVE FALSE
  <2>1. PICK f \in Seq(Ops) : f = write(Byte)
    BY WriteRow
  <2>2. Len(f) = 48 /\ <<>> \in Seq(Ops)
    BY <2>1, WriteRow
  <2>3. k \in 0..(Len(f) - 1) /\ Within(f, k, <<>>)
    BY <1>2, <2>1, <2>2
  <2>4. QED  BY <2>2, <2>3, Goes
<1>3. write(Byte) \in Seq(Ops) /\ Len(write(Byte)) = 48 /\ <<>> \in Seq(Ops)
  BY WriteRow
<1>4. ASSUME NEW k \in 0..8, AtStart(k) PROVE FALSE
  <2>1. PICK then \in Seq(Ops) : then = write(Byte)
    BY <1>3
  <2>2. k = 8
    <3>1. CASE k < 8
      <4>1. start \in Seq(Ops) /\ k \in 0..(Len(start) - 1) /\ Within(start, k, then)
        BY <1>4, <2>1, <3>1, StartRow DEF AtStart
      <4>2. QED  BY <4>1, Goes
    <3>2. QED  BY <3>1
  <2>3. AtBit(0, 0)
    BY <1>1, <1>4, <2>2, StartEnds
  <2>4. Within(write(Byte), 0, <<>>)
    BY <2>3 DEF AtBit
  <2>5. QED  BY <1>2, <2>4
<1>5. ASSUME NEW k \in 0..6, AtRestart(k) PROVE FALSE
  <2>1. PICK then \in Seq(Ops) : then = start \o write(Byte)
    <3>1. start \o write(Byte) \in Seq(Ops)
      BY <1>3, StartRow
    <3>2. QED  BY <3>1
  <2>2. Within(stop, k, then)
    BY <1>5, <2>1 DEF AtRestart
  <2>3. k = 6
    <3>1. CASE k < 6
      <4>1. stop \in Seq(Ops) /\ k \in 0..(Len(stop) - 1)
        BY <3>1, StopRow
      <4>2. QED  BY <2>2, <4>1, Goes
    <3>2. QED  BY <3>1
  <2>4. AtStart(0)
    BY <1>5, <2>3, RestartEnds
  <2>5. QED  BY <1>4, <2>4
<1>6. ASSUME NEW i \in 0..7, NEW k \in 0..4, AtBit(i, k) PROVE FALSE
  <2>1. PICK n \in 0..47 : n = 5 * i + k
    OBVIOUS
  <2>2. QED  BY <1>2, <1>6, <2>1 DEF AtBit
<1>7. ASSUME NEW k \in 0..8, AtAck(k) PROVE k = 8
  <2>1. CASE k < 8
    <3>1. PICK n \in 0..47 : n = 40 + k
      BY <2>1
    <3>2. QED  BY <1>2, <1>7, <3>1 DEF AtAck
  <2>2. QED  BY <2>1
<1>8. AtAck(8)
  BY <1>1, <1>4, <1>5, <1>6, <1>7
     DEF Places, Bytes, Nowhere, AtFetch, AtTurn, AtNack, AtStop
<1>9. QED  BY <1>8 DEF AtAck, Acknowledging

(* read() returned: data is the register's value. *)
LEMMA ReadReturned ==
  ASSUME IInv, todo = <<>>, stage = "read"
  PROVE  FetchIsOver
<1>1. TypeOK /\ Places
  BY DEF IInv
<1>2. read \in Seq(Ops) /\ Len(read) = 50 /\ <<>> \in Seq(Ops)
  BY ReadRow
<1>3. ASSUME NEW k \in 0..49, Within(read, k, <<>>) PROVE FALSE
  <2>1. k \in 0..(Len(read) - 1)
    BY <1>2
  <2>2. QED  BY <1>2, <1>3, <2>1, Goes
<1>4. ASSUME NEW i \in 0..7, NEW k \in 0..5, AtFetch(i, k) PROVE FALSE
  <2>1. PICK n \in 0..49 : n = 1 + 6 * i + k
    OBVIOUS
  <2>2. QED  BY <1>3, <1>4, <2>1 DEF AtFetch
<1>5. AtTurn
  BY <1>1, <1>4 DEF Places, Bytes, Nowhere, AtRestart, AtStart, Restarts, AtBit, AtAck, AtNack, AtStop
<1>6. QED  BY <1>3, <1>5 DEF AtTurn

(* stop() returned: the bus is free. *)
LEMMA StopReturned ==
  ASSUME IInv, todo = <<>>, stage \in {"done", "failed"}
  PROVE  Free /\ (took <=> stage = "done")
<1>1. TypeOK /\ Places
  BY DEF IInv
<1>2. stop \in Seq(Ops) /\ Len(stop) = 6 /\ <<>> \in Seq(Ops) /\ sendNACK \in Seq(Ops) /\ Len(sendNACK) = 8
  BY StopRow, NackRow
<1>3. ASSUME NEW k \in 0..6, AtStop(k) PROVE k = 6
  <2>1. CASE k < 6
    <3>1. k \in 0..(Len(stop) - 1) /\ Within(stop, k, <<>>)
      BY <1>2, <1>3, <2>1 DEF AtStop
    <3>2. QED  BY <1>2, <3>1, Goes
  <2>2. QED  BY <2>1
<1>4. ASSUME NEW k \in 0..8, AtNack(k) PROVE FALSE
  <2>1. CASE k < 8
    <3>1. k \in 0..(Len(sendNACK) - 1) /\ Within(sendNACK, k, stop)
      BY <1>2, <1>4, <2>1 DEF AtNack
    <3>2. QED  BY <1>2, <3>1, Goes
  <2>2. CASE k = 8
    <3>1. AtStop(0)
      BY <1>4, <2>2, NackEnds
    <3>2. QED  BY <1>3, <3>1
  <2>3. QED  BY <2>1, <2>2
<1>5. AtStop(6)
  BY <1>1, <1>3, <1>4
     DEF Places, Bytes, Nowhere, AtRestart, AtStart, Restarts, AtBit, AtAck, AtFetch, AtTurn
<1>6. QED  BY <1>5 DEF AtStop, Stopping, Free


(* The invariant holds at first. *)
LEMMA InitHolds == Init => IInv
<1> SUFFICES ASSUME Init PROVE IInv
  OBVIOUS
<1>1. dev \in Device
  <2>1. 0 \in 0..255 /\ 0 \in Nat /\ 0 \in Int
    OBVIOUS
  <2>2. QED  BY <2>1 DEF Init, Device
<1>2. out \in 0..255
  <2>1. out \in Nat /\ out < 256
    BY I2CBusAssumption DEF Init
  <2>2. QED  BY <2>1
<1>3. todo \in Seq(Ops) /\ data \in 0..255
  BY DEF Init
<1>4. TypeOK
  <2>1. scl \in 0..1 /\ sda \in 0..1 /\ ack \in 0..1
    BY DEF Init
  <2>2. /\ stage = "idle" /\ call = NoCall /\ file \in [Regs -> Vals] /\ mode = "out"
        /\ ret = TRUE /\ took = FALSE
    BY DEF Init
  <2>3. QED  BY <1>1, <1>2, <1>3, <2>1, <2>2 DEF TypeOK
<1>5. Nowhere
  BY DEF Init, Nowhere, Free
<1>6. QED  BY <1>4, <1>5 DEF IInv, Places

(* A call begins at the first operation of start(). *)
LEMMA BeginPlaces ==
  ASSUME IInv, Begin
  PROVE  IInv'
<1>1. TypeOK /\ Places /\ stage = "idle"
  BY DEF IInv, Begin
<1>2. Free
  BY <1>1 DEF Places, Nowhere, AtRestart, AtStart, Restarts, AtBit, AtAck, AtFetch, AtTurn, AtNack,
              AtStop, Bytes
<1>3. start \in Seq(Ops) /\ write(SensorAddr) \in Seq(Ops) /\ start \o write(SensorAddr) \in Seq(Ops)
  <2>1. start \in Seq(Ops) /\ write(SensorAddr) \in Seq(Ops)
    BY StartRow, WriteRow
  <2>2. QED  BY <2>1
<1>4. PICK c \in Calls : call' = c
  BY DEF Begin
<1>5. TypeOK'
  <2>1. call' \in Calls /\ call' # NoCall /\ stage' = "address" /\ took' = FALSE
    BY <1>4, I2CBusAssumption DEF Begin
  <2>2. todo' \in Seq(Ops)
    BY <1>3 DEF Begin
  <2>3. /\ scl' = scl /\ sda' = sda /\ mode' = mode /\ ack' = ack /\ data' = data
        /\ out' = out /\ ret' = ret /\ dev' = dev /\ file' = file
    BY DEF Begin
  <2>4. QED  BY <1>1, <2>1, <2>2, <2>3 DEF TypeOK, Bytes
<1>6. Byte' = SensorAddr
  BY DEF Begin, Byte
<1>7. Within(start, 0, write(Byte))'
  <2>1. PICK f \in Seq(Ops), then \in Seq(Ops) : f = start /\ then = write(SensorAddr)
    BY <1>3
  <2>2. SubSeq(f, 1, Len(f)) = f
    BY SubSeqFull
  <2>3. todo' = SubSeq(f, 1, Len(f)) \o then
    BY <2>1, <2>2 DEF Begin
  <2>4. QED  BY <1>6, <2>1, <2>3 DEF Within
<1>8. Starting(0)'
  BY <1>2 DEF Begin, Starting, Free
<1>9. AtStart(0)'
  BY <1>7, <1>8 DEF Begin, AtStart, Restarts
<1>10. QED  BY <1>5, <1>9 DEF IInv, Places

(* A row that is to be run is at its first place.                          *)
LEMMA FirstPlace ==
  ASSUME NEW f \in Seq(Ops), NEW then \in Seq(Ops), todo' = f \o then
  PROVE  Within(f, 0, then)'
<1>1. SubSeq(f, 1, Len(f)) = f
  BY SubSeqFull
<1>2. QED  BY <1>1 DEF Within

(* write() is called for the next byte of the call.                        *)
LEMMA NextByte ==
  ASSUME IInv, todo = <<>>, stage \in Bytes, Ready, ack = 1, NEW b \in 0..255, NEW next \in Bytes,
         Run(write(b), next), UNCHANGED <<out, took>>,
         Byte' = b, Phase' = Following, RegBefore', ~took, stage # "again",
         next = "value" => call.op = "write", next = "again" => call.op = "read"
  PROVE  IInv'
<1>1. TypeOK /\ mode = "out" /\ scl = 0 /\ ~dev.due
  BY WriteReturned DEF IInv
<1>2. /\ scl' = scl /\ sda' = sda /\ mode' = mode /\ ack' = ack /\ call' = call /\ ret' = ret
      /\ dev' = dev /\ file' = file /\ out' = out /\ took' = took
      /\ todo' = write(b) /\ stage' = next /\ data' = 0
  BY DEF Run
<1>3. write(b) \in Seq(Ops) /\ <<>> \in Seq(Ops) /\ write(b) \o <<>> = write(b)
  <2>1. write(b) \in Seq(Ops)
    BY WriteRow
  <2>2. QED  BY <2>1
<1>4. TypeOK'
  BY <1>1, <1>2, <1>3 DEF TypeOK, Bytes
<1>5. Within(write(Byte), 0, <<>>)'
  BY <1>2, <1>3, FirstPlace
<1>6. Got(0)'
  <2>1. dev'.shift \in 0..255
    BY <1>4 DEF TypeOK, Device
  <2>2. PICK s \in 0..255 : s = dev'.shift
    BY <2>1
  <2>3. Last(s, 0) = 0 /\ First(b, 0) = 0
    BY FirstAndLast
  <2>4. QED  BY <2>2, <2>3 DEF Got
<1>7. ~dev.pull /\ dev.phase = Following /\ dev.bits = 0
  BY DEF Ready
<1>8. Sending(0, 0)'
  BY <1>1, <1>2, <1>6, <1>7 DEF Sending
<1>9. 5 * 0 + 0 = 0
  OBVIOUS
<1>10. AtBit(0, 0)'
  BY <1>2, <1>5, <1>8, <1>9 DEF AtBit
<1>11. QED  BY <1>4, <1>10 DEF IInv, Places


(* stop() is called, after a refusal, a value, or a byte that was read.    *)
LEMMA LastStop ==
  ASSUME IInv, todo = <<>>, stage \in Bytes, NEW next \in {"done", "failed"}, Run(stop, next),
         UNCHANGED <<out, took>>, took <=> next = "done", Ready \/ Refused, stage # "again" \/ Refused
  PROVE  IInv'
<1>1. TypeOK /\ mode = "out" /\ scl = 0 /\ ~dev.due
  BY WriteReturned DEF IInv
<1>2. /\ scl' = scl /\ sda' = sda /\ mode' = mode /\ ack' = ack /\ call' = call /\ ret' = ret
      /\ dev' = dev /\ file' = file /\ out' = out /\ took' = took
      /\ todo' = stop /\ stage' = next /\ data' = 0
  BY DEF Run
<1>3. stop \in Seq(Ops) /\ <<>> \in Seq(Ops) /\ stop \o <<>> = stop
  BY StopRow
<1>4. TypeOK'
  BY <1>1, <1>2, <1>3 DEF TypeOK, Bytes
<1>5. Within(stop, 0, <<>>)'
  BY <1>2, <1>3, FirstPlace
<1>6. ~dev.pull /\ (dev.phase = "off" \/ dev.bits = 0)
  BY DEF Ready, Refused
<1>7. Stopping(0)'
  BY <1>1, <1>2, <1>6 DEF Stopping
<1>8. AtStop(0)'
  BY <1>2, <1>5, <1>7 DEF AtStop
<1>9. QED  BY <1>4, <1>8 DEF IInv, Places

(* A read starts again after the register's number, with stop() and        *)
(* start().                                                                *)
LEMMA Restarting ==
  ASSUME IInv, todo = <<>>, stage = "low", call.op = "read", Ready, ack = 1,
         Run(stop \o start \o write(SensorAddr + 1), "again"), UNCHANGED <<out, took>>
  PROVE  IInv'
<1>1. TypeOK /\ mode = "out" /\ scl = 0 /\ ~dev.due
  BY WriteReturned DEF IInv, Bytes
<1>2. /\ scl' = scl /\ sda' = sda /\ mode' = mode /\ ack' = ack /\ call' = call /\ ret' = ret
      /\ dev' = dev /\ file' = file /\ out' = out /\ took' = took
      /\ todo' = stop \o start \o write(SensorAddr + 1) /\ stage' = "again" /\ data' = 0
  BY DEF Run
<1>3. PICK w \in Seq(Ops) : w = write(SensorAddr + 1)
  BY WriteRow
<1>4. PICK then \in Seq(Ops) : then = start \o w
  <2>1. start \o w \in Seq(Ops)
    BY StartRow
  <2>2. QED  BY <2>1
<1>5. todo' = stop \o then /\ todo' \in Seq(Ops)
  <2>1. (stop \o start) \o w = stop \o (start \o w)
    <3>1. PICK s \in Seq(Ops), t \in Seq(Ops) : s = stop /\ t = start
      BY StartRow, StopRow
    <3>2. (s \o t) \o w = s \o (t \o w)
      OBVIOUS
    <3>3. QED  BY <3>1, <3>2
  <2>2. stop \o then \in Seq(Ops)
    BY StopRow
  <2>3. QED  BY <1>2, <1>3, <1>4, <2>1, <2>2
<1>6. TypeOK'
  BY <1>1, <1>2, <1>5 DEF TypeOK, Bytes
<1>7. Within(stop, 0, start \o write(Byte))'
  <2>1. Within(stop, 0, then)'
    BY <1>5, StopRow, FirstPlace
  <2>2. Byte' = SensorAddr + 1
    BY <1>2 DEF Byte
  <2>3. QED  BY <1>3, <1>4, <2>1, <2>2 DEF Within
<1>8. ~dev.pull /\ dev.bits = 0 /\ dev.reg = call.reg /\ ~took
  BY <1>1 DEF Ready, RegAfter, TypeOK
<1>9. Stopping(0)'
  BY <1>1, <1>2, <1>8 DEF Stopping
<1>10. AtRestart(0)'
  BY <1>2, <1>7, <1>8, <1>9 DEF AtRestart, Restarts
<1>11. QED  BY <1>6, <1>10 DEF IInv, Places

(* read() begins when the sensor has accepted the address for reading. *)
LEMMA ReadBegins ==
  ASSUME IInv, todo = <<>>, stage = "again", Ready, ack = 1, Run(read, "read"),
         UNCHANGED <<out, took>>
  PROVE  IInv'
<1>1. TypeOK /\ mode = "out" /\ scl = 0 /\ ~dev.due
  BY WriteReturned DEF IInv, Bytes
<1>2. /\ scl' = scl /\ sda' = sda /\ mode' = mode /\ ack' = ack /\ call' = call /\ ret' = ret
      /\ dev' = dev /\ file' = file /\ out' = out /\ took' = took
      /\ todo' = read /\ stage' = "read" /\ data' = 0
  BY DEF Run
<1>3. read \in Seq(Ops) /\ <<>> \in Seq(Ops) /\ read \o <<>> = read
  BY ReadRow
<1>4. TypeOK'
  BY <1>1, <1>2, <1>3 DEF TypeOK, Bytes
<1>5. Within(read, 0, <<>>)'
  BY <1>2, <1>3, FirstPlace
<1>6. /\ dev.phase = "send" /\ dev.bits = 0 /\ dev.reg = call.reg /\ ~took
      /\ dev.pull = (Bit(file[dev.reg], 0) = 0)
  BY <1>1 DEF Ready, RegAfter, TypeOK, Following
<1>7. FetchStarts'
  BY <1>1, <1>2, <1>6 DEF FetchStarts, Sends
<1>8. AtTurn'
  BY <1>2, <1>5, <1>7 DEF AtTurn
<1>9. QED  BY <1>4, <1>8 DEF IInv, Places

(* What follows write() begins at its first place. *)
LEMMA WrittenPlaces ==
  ASSUME IInv, Written
  PROVE  IInv'
<1>1. TypeOK /\ todo = <<>> /\ stage \in Bytes /\ call \in Calls
  BY DEF IInv, TypeOK, Written, Bytes
<1>2. (Ready /\ ack = 1) \/ (Refused /\ ack = 0)
  BY <1>1, WriteReturned
<1>3. UNCHANGED <<out, took>>
  BY DEF Written
<1>4. CASE ack = 0 /\ Run(stop, "failed")
  <2>1. Refused /\ (took <=> "failed" = "done")
    BY <1>2, <1>4 DEF Refused
  <2>2. QED  BY <1>1, <1>3, <1>4, <2>1, LastStop
<1>5. CASE ack = 1
  <2>1. Ready /\ (took <=> stage = "value") /\ RegAfter
    BY <1>2, <1>5 DEF Ready
  <2>2. CASE stage = "address" /\ Run(write(call.reg \div 256), "high")
    <3>1. PICK b \in 0..255 : b = call.reg \div 256
      BY <1>1, CallTyped
    <3>2. Byte' = b /\ Phase' = Following /\ RegBefore' /\ ~took
      BY <2>1, <2>2, <3>1 DEF Run, Byte, Phase, Following, RegBefore
    <3>3. QED  BY <1>1, <1>3, <1>5, <2>1, <2>2, <3>1, <3>2, NextByte DEF Bytes
  <2>3. CASE stage = "high" /\ Run(write(call.reg % 256), "low")
    <3>1. PICK b \in 0..255 : b = call.reg % 256
      BY <1>1, CallTyped
    <3>2. Byte' = b /\ Phase' = Following /\ RegBefore' /\ ~took
      BY <2>1, <2>3, <3>1 DEF Run, Byte, Phase, Following, RegBefore, RegAfter
    <3>3. QED  BY <1>1, <1>3, <1>5, <2>1, <2>3, <3>1, <3>2, NextByte DEF Bytes
  <2>4. CASE stage = "low" /\ call.op = "write" /\ Run(write(call.val), "value")
    <3>1. PICK b \in 0..255 : b = call.val
      BY <1>1, CallTyped
    <3>2. Byte' = b /\ Phase' = Following /\ RegBefore' /\ ~took
      BY <2>1, <2>4, <3>1 DEF Run, Byte, Phase, Following, RegBefore, RegAfter
    <3>3. QED  BY <1>1, <1>3, <1>5, <2>1, <2>4, <3>1, <3>2, NextByte DEF Bytes
  <2>5. CASE /\ stage = "low" /\ call.op = "read"
             /\ Run(stop \o start \o write(SensorAddr + 1), "again")
    BY <1>1, <1>3, <1>5, <2>1, <2>5, Restarting
  <2>6. CASE stage = "value" /\ Run(stop, "done")
    BY <1>1, <1>3, <2>1, <2>6, LastStop
  <2>7. CASE stage = "again" /\ Run(read, "read")
    BY <1>1, <1>3, <1>5, <2>1, <2>7, ReadBegins
  <2>8. QED  BY <1>5, <2>2, <2>3, <2>4, <2>5, <2>6, <2>7 DEF Written
<1>6. QED  BY <1>4, <1>5 DEF Written

(* sendNACK() follows read(), which hands the register's value to the      *)
(* caller.                                                                 *)
LEMMA FetchedPlaces ==
  ASSUME IInv, Fetched
  PROVE  IInv' /\ out' = file[call.reg]
<1>1. TypeOK /\ todo = <<>> /\ stage = "read" /\ FetchIsOver
  BY ReadReturned DEF IInv, Fetched
<1>2. /\ scl' = scl /\ sda' = sda /\ mode' = mode /\ ack' = ack /\ call' = call /\ ret' = ret
      /\ dev' = dev /\ file' = file /\ out' = data /\ took' = TRUE
      /\ todo' = sendNACK \o stop /\ stage' = "done" /\ data' = 0
  BY DEF Fetched, Run
<1>3. sendNACK \in Seq(Ops) /\ stop \in Seq(Ops) /\ sendNACK \o stop \in Seq(Ops)
  <2>1. sendNACK \in Seq(Ops) /\ stop \in Seq(Ops)
    BY NackRow, StopRow
  <2>2. QED  BY <2>1
<1>4. TypeOK'
  BY <1>1, <1>2, <1>3 DEF TypeOK, Bytes
<1>5. Within(sendNACK, 0, stop)'
  BY <1>2, <1>3, FirstPlace
<1>6. /\ mode = "out" /\ scl = 0 /\ dev.phase = "send" /\ dev.bits = 8 /\ ~dev.pull /\ ~dev.due
      /\ data = file[call.reg]
  <2>1. /\ mode = "out" /\ scl = 0 /\ dev.phase = "send" /\ ~dev.due
        /\ data = file[call.reg] /\ Sends(8)
    BY <1>1 DEF FetchIsOver
  <2>2. dev.bits = 8 /\ dev.pull = FALSE
    <3>1. (8 < 8 /\ Bit(file[dev.reg], 8) = 0) = FALSE
      OBVIOUS
    <3>2. QED  BY <2>1, <3>1 DEF Sends
  <2>3. QED  BY <2>1, <2>2
<1>7. Declining(0)'
  BY <1>2, <1>6 DEF Declining
<1>8. AtNack(0)'
  BY <1>2, <1>5, <1>7 DEF AtNack
<1>9. QED  BY <1>2, <1>4, <1>6, <1>8 DEF IInv, Places

(* The call returns, and returns whether it has taken effect. *)
LEMMA ReturnPlaces ==
  ASSUME IInv, Return
  PROVE  IInv' /\ ret' = took
<1>1. TypeOK /\ todo = <<>> /\ Free /\ (took <=> stage = "done")
  BY StopReturned DEF IInv, Return
<1>2. /\ scl' = scl /\ sda' = sda /\ mode' = mode /\ ack' = ack /\ data' = data /\ todo' = todo
      /\ dev' = dev /\ file' = file /\ out' = out /\ took' = took
      /\ call' = NoCall /\ stage' = "idle" /\ ret' = (stage = "done")
  BY DEF Return, master
<1>3. ret' = took
  BY <1>1, <1>2 DEF TypeOK
<1>4. TypeOK'
  BY <1>1, <1>2, <1>3, I2CBusAssumption DEF TypeOK, Bytes
<1>5. Nowhere'
  BY <1>1, <1>2 DEF Nowhere, Free
<1>6. QED  BY <1>3, <1>4, <1>5 DEF IInv, Places


(* A step that changes nothing keeps the invariant. *)
LEMMA StutterKeeps ==
  ASSUME IInv, UNCHANGED vars
  PROVE  IInv'
<1>1. /\ scl' = scl /\ sda' = sda /\ mode' = mode /\ todo' = todo /\ ack' = ack /\ data' = data
      /\ stage' = stage /\ call' = call /\ out' = out /\ ret' = ret /\ took' = took
      /\ dev' = dev /\ file' = file
  BY DEF vars, master, caller
<1>2. TypeOK'
  BY <1>1 DEF IInv, TypeOK
<1>3. Byte' = Byte /\ Phase' = Phase /\ Following' = Following
  BY <1>1, ByteStays DEF Frame
<1>4. Nowhere' <=> Nowhere
  BY <1>1 DEF Nowhere, Free
<1>5. \A k \in 0..6 : AtRestart(k)' <=> AtRestart(k)
  BY <1>1, <1>3 DEF AtRestart, Restarts, Within, Stopping
<1>6. \A k \in 0..8 : AtStart(k)' <=> AtStart(k)
  BY <1>1, <1>3 DEF AtStart, Restarts, Within, Starting, Free
<1>7. \A i \in 0..7, k \in 0..4 : AtBit(i, k)' <=> AtBit(i, k)
  BY <1>1, <1>3 DEF AtBit, Within, Sending, Got, RegBefore
<1>8. \A k \in 0..8 : AtAck(k)' <=> AtAck(k)
  <2> SUFFICES ASSUME NEW k \in 0..8 PROVE AtAck(k)' <=> AtAck(k)
    OBVIOUS
  <2>1. /\ Refused' <=> Refused
        /\ Ready' <=> Ready
        /\ RegAfter' <=> RegAfter
        /\ RegBefore' <=> RegBefore
        /\ Got(8)' <=> Got(8)
    BY <1>1, <1>3 DEF Refused, Ready, RegAfter, RegBefore, Got
  <2>2. (Acked(8)' <=> Acked(8)) /\ (Acked(9)' <=> Acked(9))
    BY <1>1, <1>3, <2>1 DEF Acked
  <2>3. Acknowledging(k)' <=> Acknowledging(k)
    BY <1>1, <1>3, <2>1, <2>2 DEF Acknowledging
  <2>4. QED  BY <1>1, <1>3, <2>3 DEF AtAck, Within
<1>9. \A i \in 0..7, k \in 0..5 : AtFetch(i, k)' <=> AtFetch(i, k)
  BY <1>1 DEF AtFetch, Within, Fetching, Sends
<1>10. AtTurn' <=> AtTurn
  BY <1>1 DEF AtTurn, Within, FetchStarts, FetchEnds, FetchIsOver, Sends
<1>11. \A k \in 0..8 : AtNack(k)' <=> AtNack(k)
  BY <1>1 DEF AtNack, Within, Declining
<1>12. \A k \in 0..6 : AtStop(k)' <=> AtStop(k)
  BY <1>1 DEF AtStop, Within, Stopping
<1>13. Places'
  BY <1>4, <1>5, <1>6, <1>7, <1>8, <1>9, <1>10, <1>11, <1>12 DEF IInv, Places
<1>14. QED  BY <1>2, <1>13 DEF IInv
-----------------------------------------------------------------------------
(* The theorems *)

(* Every step keeps the invariant. *)
LEMMA StepKeeps ==
  ASSUME IInv, [Next]_vars
  PROVE  IInv'
<1>1. CASE Begin
  BY <1>1, BeginPlaces
<1>2. CASE Pin
  BY <1>2, PinPlaces, PinTyped DEF IInv
<1>3. CASE Written
  BY <1>3, WrittenPlaces
<1>4. CASE Fetched
  BY <1>4, FetchedPlaces
<1>5. CASE Return
  BY <1>5, ReturnPlaces
<1>6. CASE SensorAnswers
  BY <1>6, SensorPlaces, AnswerTyped DEF IInv
<1>7. CASE UNCHANGED vars
  BY <1>7, StutterKeeps
<1>8. QED  BY <1>1, <1>2, <1>3, <1>4, <1>5, <1>6, <1>7 DEF Next

(* The invariant of the bus: at each place of each driver function, what   *)
(* the lines are and how far the sensor has got.                           *)
THEOREM Invariance == Spec => []IInv
<1>1. IInv /\ [Next]_vars => IInv'
  BY StepKeeps
<1>2. QED  BY <1>1, InitHolds, PTL DEF Spec

(* write() and read() turn SDA around without waiting for the sensor to let*)
(* go of it, so that both may drive it, but never under a high clock.      *)
THEOREM ContentionOnlyWhileLowHolds == Spec => []ContentionOnlyWhileLow
<1>1. IInv => ContentionOnlyWhileLow
  <2> SUFFICES ASSUME IInv, mode = "out", dev.pull PROVE scl = 0
    BY DEF ContentionOnlyWhileLow
  <2>1. Places
    BY DEF IInv
  <2>2. ~Nowhere
    BY DEF Nowhere, Free
  <2>3. \A k \in 0..6 : ~AtRestart(k) /\ ~AtStop(k)
    BY DEF AtRestart, AtStop, Stopping
  <2>4. \A k \in 0..8 : ~AtStart(k) /\ ~AtNack(k)
    BY DEF AtStart, AtNack, Starting, Declining
  <2>5. \A i \in 0..7, k \in 0..4 : ~AtBit(i, k)
    BY DEF AtBit, Sending
  <2>6. \A i \in 0..7, k \in 0..5 : ~AtFetch(i, k)
    BY DEF AtFetch, Fetching
  <2>7. \A k \in 0..8 : AtAck(k) => scl = 0
    BY DEF AtAck, Acknowledging
  <2>8. AtTurn => scl = 0
    BY DEF AtTurn, FetchStarts, FetchEnds, FetchIsOver
  <2>9. QED  BY <2>1, <2>2, <2>3, <2>4, <2>5, <2>6, <2>7, <2>8 DEF Places
<1>2. QED  BY <1>1, Invariance, PTL

(* However a call ends, also after any refused byte, the bus is free: both *)
(* lines are high and the sensor waits for a start condition.              *)
THEOREM FreeBetweenCallsHolds == Spec => []FreeBetweenCalls
<1>1. IInv => FreeBetweenCalls
  <2> SUFFICES ASSUME IInv, stage = "idle"
               PROVE  scl = 1 /\ Line = 1 /\ dev.phase = "off" /\ ~dev.pull
    BY DEF FreeBetweenCalls
  <2>1. Free
    BY DEF IInv, Places, Nowhere, AtRestart, AtStart, Restarts, AtBit, AtAck, AtFetch, AtTurn, AtNack,
           AtStop, Bytes
  <2>2. QED  BY <2>1 DEF Free, Line, Level
<1>2. QED  BY <1>1, Invariance, PTL

(* No pin operation moves SDA under a high clock, which is a start or a    *)
(* stop condition, after the first bit of a byte.                          *)
THEOREM NoByteCutShortHolds == Spec => NoByteCutShort
<1> DEFINE Cut == (scl = 1 /\ scl' = 1 /\ Line' # Line) => dev.phase = "off" \/ dev.bits <= 1
<1>1. ASSUME IInv, Next PROVE Cut
  <2>1. CASE Pin
    BY <1>1, <2>1, PinPlaces DEF Spares, Quiet
  <2>2. CASE SensorAnswers
    <3>1. scl = 0
      BY <1>1, <2>2, SensorPlaces
    <3>2. QED  BY <3>1
  <2>3. CASE Begin \/ Return
    BY <2>3 DEF Begin, Return, master, Line
  <2>4. CASE Written
    BY <2>4 DEF Written, Run, Line
  <2>5. CASE Fetched
    BY <2>5 DEF Fetched, Run, Line
  <2>6. QED  BY <1>1, <2>1, <2>2, <2>3, <2>4, <2>5 DEF Next
<1>2. IInv /\ [Next]_vars => [Cut]_vars
  BY <1>1
<1>3. QED  BY <1>2, Invariance, PTL DEF Spec, NoByteCutShort

(* wrSensorReg16_8 and rdSensorReg16_8 as pin operations implement a port  *)
(* to the registers: a call takes effect at most once, with its own        *)
(* register and value, and returns whether it did.                         *)
THEOREM Refinement == Spec => RegisterPort
<1>1. Init => Port!Init
  BY DEF Init, Port!Init
<1>2. ASSUME IInv, Next PROVE [Port!Next]_Port!vars
  <2>1. CASE Begin
    <3>1. PICK c \in Calls : call' = c
      BY <2>1 DEF Begin
    <3>2. call = NoCall
      BY <1>2, <2>1 DEF IInv, TypeOK, Begin
    <3>3. Port!Invoke(c)
      BY <2>1, <3>1, <3>2 DEF Begin, Port!Invoke
    <3>4. QED  BY <3>3 DEF Port!Next
  <2>2. CASE Pin
    BY <2>2 DEF Pin, caller, Port!vars
  <2>3. CASE Written
    BY <2>3 DEF Written, Run, Port!vars
  <2>4. CASE Fetched
    <3>1. /\ out' = file[call.reg] /\ took' = TRUE
          /\ call' = call /\ ret' = ret /\ file' = file
      BY <1>2, <2>4, FetchedPlaces DEF Fetched, Run
    <3>2. call # NoCall /\ call.op = "read" /\ ~took
      BY <1>2, <2>4, ReadReturned DEF IInv, TypeOK, Fetched, FetchIsOver
    <3>3. QED  BY <3>1, <3>2 DEF Port!Next, Port!Read
  <2>5. CASE Return
    <3>1. ret' = took /\ call' = NoCall /\ file' = file /\ out' = out /\ took' = took
      BY <1>2, <2>5, ReturnPlaces DEF Return
    <3>2. call # NoCall
      BY <1>2, <2>5 DEF IInv, TypeOK, Return
    <3>3. QED  BY <3>1, <3>2 DEF Port!Next, Port!Return
  <2>6. CASE SensorAnswers
    <3>1. call' = call /\ out' = out /\ ret' = ret
      BY <2>6 DEF SensorAnswers
    <3>2. CASE Settles
      BY <3>1, <3>2 DEF Settles, Port!vars
    <3>3. CASE Commits
      <4>1. call # NoCall
        BY <1>2, <3>3 DEF IInv, TypeOK, Commits
      <4>2. QED  BY <3>1, <3>3, <4>1 DEF Commits, Port!Next, Port!Write
    <3>4. QED  BY <1>2, <2>6, <3>2, <3>3, SensorPlaces
  <2>7. QED  BY <1>2, <2>1, <2>2, <2>3, <2>4, <2>5, <2>6 DEF Next
<1>3. UNCHANGED vars => UNCHANGED Port!vars
  BY DEF vars, caller, Port!vars
<1>4. IInv /\ [Next]_vars => [Port!Next]_Port!vars
  BY <1>2, <1>3
<1>5. QED  BY <1>1, <1>4, Invariance, PTL DEF Spec, Port!Spec, RegisterPort
=============================================================================
