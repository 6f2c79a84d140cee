-------------------------- MODULE FilePipelineProofs --------------------------
(***************************************************************************)
(* FilePipeline, for every folder, every option and any number of reads    *)
(* and datagrams: the file input and the UDP output implement the register *)
(* of the latest picture, as the camera and the HTTP clients do.           *)
(***************************************************************************)
EXTENDS FilePipeline, FiniteSetTheorems, TLAPS

(* No step of the input, or of a program that fills its folder, disturbs   *)
(* the invariant.                                                          *)
LEMMA InputStepInv ==
  ASSUME IInv, InputNext \/ \E f \in Files : Written(f) \/ Removed(f), UNCHANGED outVars
  PROVE  IInv'
<1> USE SharedPictureAssumption, FileInputAssumption
    DEF IInv, LockInv, StoreInv, TakerInv, Reading, Taking, Counts, Open, Null, Fresh, Freed,
        InAt, shared, picture, outside, scan, outVars
<1>1. CASE \E f \in Files : Written(f) \/ Removed(f)  BY <1>1 DEF Written, Removed
<1>2. CASE Scan  BY <1>2 DEF Scan
<1>3. CASE Loop  BY <1>3 DEF Loop
<1>4. CASE Pick  BY <1>4 DEF Pick
<1>5. CASE NextEvent  BY <1>5 DEF NextEvent
<1>6. CASE WatchEnds  BY <1>6 DEF WatchEnds
<1>7. CASE OpenFile  BY <1>7 DEF OpenFile
<1>8. CASE LockInput  BY <1>8 DEF LockInput
<1>9. CASE AllocateBuffer  BY <1>9 DEF AllocateBuffer
<1>10. CASE ReadFile  BY <1>10 DEF ReadFile
<1>11. CASE StampPicture  BY <1>11 DEF StampPicture
<1>12. CASE BroadcastPicture  BY <1>12 DEF BroadcastPicture
<1>13. CASE UnlockInput  BY <1>13 DEF UnlockInput
<1>14. CASE RemoveFile  BY <1>14 DEF RemoveFile
<1>15. CASE FreeList  BY <1>15 DEF FreeList
<1>16. CASE CleanUpInput  BY <1>16 DEF CleanUpInput
<1>17. CASE CancelInput  BY <1>17 DEF CancelInput
<1>18. QED
  BY <1>1, <1>2, <1>3, <1>4, <1>5, <1>6, <1>7, <1>8, <1>9, <1>10, <1>11, <1>12, <1>13,
     <1>14, <1>15, <1>16, <1>17
  DEF InputNext

(* No step of the output, or of a client that sends it a datagram, does.   *)
LEMMA OutputStepInv ==
  ASSUME IInv, OutputNext \/ \E n \in Names \cup {NoName} : SendRequest(n), UNCHANGED inVars
  PROVE  IInv'
<1> USE SharedPictureAssumption, FileInputAssumption
    DEF IInv, LockInv, StoreInv, TakerInv, Reading, Taking, Counts, Open, Null, Fresh, Freed,
        OutAt, shared, picture, outside, scan, inVars
<1>1. CASE \E n \in Names \cup {NoName} : SendRequest(n)  BY <1>1 DEF SendRequest
<1>2. CASE OutputLoop  BY <1>2 DEF OutputLoop
<1>3. CASE Receive  BY <1>3 DEF Receive
<1>4. CASE LockOutput  BY <1>4 DEF LockOutput
<1>5. CASE WaitForPicture  BY <1>5 DEF WaitForPicture
<1>6. CASE WakesUpSpuriously  BY <1>6 DEF WakesUpSpuriously, outVars
<1>7. CASE RelockOutput  BY <1>7 DEF RelockOutput
<1>8. CASE TakeSize  BY <1>8 DEF TakeSize
<1>9. CASE CopyPicture  BY <1>9 DEF CopyPicture
<1>10. CASE UnlockOutput  BY <1>10 DEF UnlockOutput
<1>11. CASE SavePicture  BY <1>11 DEF SavePicture
<1>12. CASE Reply  BY <1>12 DEF Reply
<1>13. CASE CleanUpOutput  BY <1>13 DEF CleanUpOutput
<1>14. CASE CancelOutput  BY <1>14 DEF CancelOutput
<1>15. QED
  BY <1>1, <1>2, <1>3, <1>4, <1>5, <1>6, <1>7, <1>8, <1>9, <1>10, <1>11, <1>12, <1>13, <1>14
  DEF OutputNext

(* The invariant holds: the two threads exclude each other, and what is    *)
(* stored, what was announced and what the worker has taken agree.         *)
THEOREM Invariance == Spec => []IInv
<1>1. Init => IInv
  BY FileInputAssumption
  DEF Init, SharedInit, FileInputInit, UdpOutputInit, IInv, LockInv, StoreInv, TakerInv,
      Reading, Taking, Counts, Open, Null, Freed, NoPicture
<1>2. IInv /\ [Next]_vars => IInv'
  <2> SUFFICES ASSUME IInv, [Next]_vars PROVE IInv'
    OBVIOUS
  <2>1. CASE Stop \/ UNCHANGED vars
    BY <2>1
    DEF Stop, vars, shared, picture, outside, scan, inVars, outVars, IInv, LockInv, StoreInv,
        TakerInv, Open
  <2>2. QED
    BY <2>1, InputStepInv, OutputStepInv DEF Next
<1>3. QED
  BY <1>1, <1>2, PTL DEF Spec

(* What the worker holds, as the register sees it.                         *)
Held == [c \in {Output} |-> IF outPc \in {"unlock", "save", "reply"} THEN got ELSE Nothing]

(* The file input and the UDP output implement the register of the latest  *)
(* picture: pictures replace each other in the order in which they were    *)
(* read, and the worker takes the latest, whole, as long as the input has  *)
(* not ended.                                                              *)
THEOREM Refinement == Spec => LatestPicture
<1>1. Init => Register!Init
  BY DEF Init, SharedInit, FileInputInit, UdpOutputInit, NoPicture, Open, Register!Init
<1>2. IInv /\ [Next]_vars => [Register!Next]_(Register!vars)
  <2> SUFFICES ASSUME IInv, [Next]_vars
               PROVE  [Register!Next]_(Register!vars)
    OBVIOUS
  <2> USE DEF Register!vars
  <2>1. CASE UNCHANGED <<pub, Open, Held>>
    BY <2>1 DEF Held
  <2>2. CASE Stop \/ UNCHANGED vars
    BY <2>1, <2>2 DEF Stop, vars, shared, picture, outside, scan, inVars, outVars, Open, Held
  <2>3. ASSUME InputNext \/ \E f \in Files : Written(f) \/ Removed(f), UNCHANGED outVars
        PROVE  [Register!Next]_(Register!vars)
    <3>1. Held' = Held
      BY <2>3 DEF Held, outVars
    <3>2. CASE StampPicture
      <4>1. /\ pub' = [frame |-> reads, size |-> reads, stamp |-> reads]
            /\ Open /\ Open'
        BY <3>2 DEF StampPicture, InAt, Open
      <4>2. reads \in Nat /\ reads >= pub.frame /\ reads >= pub.stamp
        BY FileInputAssumption DEF IInv, StoreInv, Counts
      <4>3. pub' \in Register!Picture /\ pub'.size = pub'.frame
            /\ pub'.frame >= pub.frame /\ pub'.stamp >= pub.stamp
        BY <4>1, <4>2 DEF Register!Picture
      <4>4. QED  BY <3>1, <4>1, <4>3 DEF Held, Register!Publish, Register!Next
    <3>3. CASE ~StampPicture
      <4>1. pub' = pub /\ (Open' = Open \/ Open' = FALSE)
        BY <2>3, <3>3
        DEF InputNext, Written, Removed, Scan, Loop, Pick, NextEvent, WatchEnds, OpenFile,
            LockInput, AllocateBuffer, ReadFile, BroadcastPicture, UnlockInput, RemoveFile,
            FreeList, CleanUpInput, CancelInput, InAt, shared, picture, Open
      <4>2. QED  BY <2>1, <3>1, <4>1 DEF Held, Register!Close, Register!Next
    <3>4. QED  BY <3>2, <3>3
  <2>4. ASSUME OutputNext \/ \E n \in Names \cup {NoName} : SendRequest(n), UNCHANGED inVars
        PROVE  [Register!Next]_(Register!vars)
    <3>1. pub' = pub /\ Open' = Open
      BY <2>4
      DEF OutputNext, SendRequest, OutputLoop, Receive, LockOutput, WaitForPicture,
          WakesUpSpuriously, RelockOutput, TakeSize, CopyPicture, UnlockOutput, SavePicture,
          Reply, CleanUpOutput, CancelOutput, shared, picture, inVars, Open
    <3>2. CASE CopyPicture
      <4>1. /\ outPc = "copy" /\ outPc' = "unlock" /\ db = Output /\ got.size = size
            /\ got' = [got EXCEPT !.frame = IF got.size = 0 THEN 0 ELSE buf,
                                  !.stamp = IF got.size = 0 THEN 0 ELSE buf]
        BY <3>2 DEF CopyPicture, OutAt, IInv, LockInv, TakerInv, Taking
      <4>2. Held[Output] = Nothing /\ Held' = [Held EXCEPT ![Output] = got']
        BY <4>1 DEF Held
      <4>3. inPc \notin Reading /\ db # Input
        BY <4>1, SharedPictureAssumption DEF IInv, LockInv
      <4>4. /\ got'.size = size
            /\ got'.frame = IF size = 0 THEN 0 ELSE buf
            /\ got'.stamp = got'.frame
            /\ got' \in [frame : Counts \cup {Freed}, size : Counts, stamp : Counts \cup {Freed}]
        BY <4>1, <4>3, FileInputAssumption DEF IInv, TakerInv, StoreInv, Reading, Counts, Freed
      <4>5. CASE Open
        <5>1. size = pub.frame /\ (size = 0 \/ buf = size)
          BY <4>3, <4>5 DEF IInv, StoreInv, Reading
        <5>2. got' = pub
          BY <4>4, <5>1 DEF IInv, StoreInv
        <5>3. QED  BY <3>1, <4>2, <4>5, <5>2 DEF Held, Register!Take, Register!Next
      <4>6. CASE ~Open
        BY <3>1, <4>2, <4>4, <4>6 DEF Held, Register!Take, Register!Next
      <4>7. QED  BY <4>5, <4>6
    <3>3. CASE ~CopyPicture
      <4>1. Held' = Held \/ Held' = [Held EXCEPT ![Output] = Nothing]
        BY <2>4, <3>3
        DEF OutputNext, SendRequest, OutputLoop, Receive, LockOutput, WaitForPicture,
            WakesUpSpuriously, RelockOutput, TakeSize, UnlockOutput, SavePicture,
            Reply, CleanUpOutput, CancelOutput, OutAt, Held, outVars
      <4>2. QED  BY <2>1, <3>1, <4>1 DEF Held, Register!Release, Register!Next
    <3>4. QED  BY <3>2, <3>3
  <2>5. QED
    BY <2>2, <2>3, <2>4 DEF Next
<1>3. QED
  BY <1>1, <1>2, Invariance, PTL DEF Spec, LatestPicture, Register!Spec
-----------------------------------------------------------------------------
(* A listing has the files of the folder after the two entries 0, sorted.  *)
LEMMA ListingSorted ==
  ASSUME NEW S \in SUBSET Files, NEW list \in Listings(S)
  PROVE  /\ list \in Seq(Files \cup {0}) /\ Len(list) >= 2
         /\ \A i, j \in 1..Len(list) : i < j /\ list[i] # 0 => list[i] < list[j]
<1>1. IsFiniteSet(S) /\ Cardinality(S) \in Nat
  BY FileInputAssumption, FS_Subset, FS_CardinalityType
<1>2. PICK t \in [1..Cardinality(S) -> S] :
        list = <<0, 0>> \o t /\ \A i, j \in DOMAIN t : i < j => t[i] < t[j]
  BY DEF Listings
<1>3. t \in Seq(S) /\ Len(t) = Cardinality(S)
  BY <1>1, <1>2
<1>4. t \in Seq(Files \cup {0}) /\ <<0, 0>> \in Seq(Files \cup {0})
  BY <1>1, <1>2
<1>5. list \in Seq(Files \cup {0}) /\ Len(list) = Len(t) + 2
  BY <1>2, <1>4
<1>6. \A i \in 1..Len(list) : list[i] = IF i <= 2 THEN 0 ELSE t[i - 2]
  BY <1>2, <1>4
<1>7. ASSUME NEW i \in 1..Len(list), NEW j \in 1..Len(list), i < j, list[i] # 0
      PROVE  list[i] < list[j]
  <2>1. i > 2 /\ j > 2 /\ list[i] = t[i - 2] /\ list[j] = t[j - 2]
    BY <1>6, <1>7
  <2>2. i - 2 \in 1..Len(t) /\ j - 2 \in 1..Len(t) /\ i - 2 < j - 2
    BY <1>3, <1>1, <1>5, <1>7, <2>1
  <2>3. QED  BY <1>1, <1>2, <1>3, <2>1, <2>2
<1>8. QED  BY <1>1, <1>3, <1>5, <1>7

(* The file that the list has next is the one that is due.                 *)
LEMMA NextIsDue ==
  ASSUME Listed, mode = "existing",
         served = 0 => Passed(1, currentFileNumber),
         served # 0 => PastOnly(served),
         fileList[currentFileNumber + 1] \in Jpg
  PROVE  fileList[currentFileNumber + 1] = Due
<1> DEFINE n == currentFileNumber
           e == fileList[n + 1]
<1>1. n \in Nat /\ n + 1 \in 1..Len(fileList) /\ Len(fileList) \in Nat
  BY DEF Listed
<1>2. Jpg \subseteq Nat \ {0}
  BY FileInputAssumption
<1>3. \A g \in Serves : \E q \in 1..Len(fileList) : g = fileList[q] /\ g \in Jpg
  <2>1. DOMAIN fileList = 1..Len(fileList)
    BY DEF Listed
  <2>2. QED  BY <2>1 DEF Serves, Range
<1>4. e \in Serves
  <2>1. DOMAIN fileList = 1..Len(fileList)
    BY DEF Listed
  <2>2. QED  BY <1>1, <2>1 DEF Serves, Range
<1>5. \A i, j \in 1..Len(fileList) : i < j /\ fileList[i] \in Jpg => fileList[i] < fileList[j]
  BY <1>2 DEF Listed
<1>6. \A S \in SUBSET Serves : e \in S /\ (\A g \in S : e <= g) => Min(S) = e
  <2> SUFFICES ASSUME NEW S \in SUBSET Serves, e \in S, \A g \in S : e <= g PROVE Min(S) = e
    OBVIOUS
  <2>1. S \subseteq Nat
    BY <1>2 DEF Serves
  <2> HIDE DEF e
  <2>2. PICK m : m = Min(S)
    OBVIOUS
  <2>3. m \in S /\ \A g \in S : m <= g
    BY <2>2 DEF Min
  <2>4. QED  BY <2>1, <2>2, <2>3
<1>7. CASE served = 0
  <2>1. \A g \in Serves : e <= g
    <3> TAKE g \in Serves
    <3>1. PICK q \in 1..Len(fileList) : g = fileList[q] /\ g \in Jpg
      BY <1>3
    <3>2. ~(q \in 1..n)
      BY <1>7, <3>1 DEF Passed
    <3>3. q = n + 1 \/ n + 1 < q
      BY <1>1, <3>2
    <3>4. g \in Nat /\ e \in Nat
      BY <1>2, <1>4, <3>1 DEF Serves
    <3>5. QED  BY <1>1, <1>4, <1>5, <3>1, <3>3, <3>4 DEF Serves
  <2>2. QED  BY <1>4, <1>6, <1>7, <2>1 DEF Due
<1>8. CASE served # 0
  <2>1. PICK p \in 1..Len(fileList) :
          /\ fileList[p] = served /\ served \in Jpg
          /\ \/ p <= n /\ Passed(p + 1, n)
             \/ n < p /\ Passed(p + 1, Len(fileList)) /\ Passed(1, n)
    BY <1>8 DEF PastOnly
  <2> DEFINE later == {g \in Serves : g > served}
  <2>2. \A g \in later : \E q \in 1..Len(fileList) : g = fileList[q] /\ g \in Jpg /\ p < q
    <3> TAKE g \in later
    <3>1. PICK q \in 1..Len(fileList) : g = fileList[q] /\ g \in Jpg /\ g > served
      BY <1>3
    <3>2. served \in Nat /\ g \in Nat
      BY <1>2, <2>1, <3>1
    <3>3. q # p /\ ~(q < p)
      BY <1>5, <2>1, <3>1, <3>2
    <3>4. QED  BY <3>1, <3>3
  <2>3. e \in Nat /\ e \in Jpg
    BY <1>2, <1>4 DEF Serves
  <2>4. CASE p <= n /\ Passed(p + 1, n)
    <3>1. e \in later
      <4>1. p < n + 1
        BY <1>1, <2>4
      <4>2. served < e
        BY <1>1, <1>5, <2>1, <4>1
      <4>3. QED  BY <1>2, <1>4, <2>1, <2>3, <4>2
    <3>2. \A g \in later : e <= g
      <4> TAKE g \in later
      <4>1. PICK q \in 1..Len(fileList) : g = fileList[q] /\ g \in Jpg /\ p < q
        BY <2>2
      <4>2. ~(q \in (p + 1)..n)
        BY <2>4, <4>1 DEF Passed
      <4>3. q = n + 1 \/ n + 1 < q
        BY <1>1, <4>1, <4>2
      <4>4. g \in Nat
        BY <1>2, <4>1
      <4>5. QED  BY <1>1, <1>5, <2>3, <4>1, <4>3, <4>4
    <3>3. Min(later) = e
      BY <1>6, <3>1, <3>2
    <3>4. QED  BY <1>8, <3>1, <3>3 DEF Due, After
  <2>5. CASE n < p /\ Passed(p + 1, Len(fileList)) /\ Passed(1, n)
    <3>1. later = {}
      <4> SUFFICES ASSUME NEW g \in later PROVE FALSE
        OBVIOUS
      <4>1. PICK q \in 1..Len(fileList) : g = fileList[q] /\ g \in Jpg /\ p < q
        BY <2>2
      <4>2. q \in (p + 1)..Len(fileList)
        BY <4>1
      <4>3. QED  BY <2>5, <4>1, <4>2 DEF Passed
    <3>2. \A g \in Serves : e <= g
      <4> TAKE g \in Serves
      <4>1. PICK q \in 1..Len(fileList) : g = fileList[q] /\ g \in Jpg
        BY <1>3
      <4>2. ~(q \in 1..n)
        BY <2>5, <4>1 DEF Passed
      <4>3. q = n + 1 \/ n + 1 < q
        BY <1>1, <4>2
      <4>4. g \in Nat
        BY <1>2, <4>1
      <4>5. QED  BY <1>1, <1>5, <2>3, <4>1, <4>3, <4>4
    <3>3. Min(Serves) = e
      BY <1>4, <1>6, <3>2
    <3>4. QED  BY <1>8, <3>1, <3>3 DEF Due, After
  <2>6. QED  BY <2>1, <2>4, <2>5
<1>9. QED  BY <1>7, <1>8

(* What TurnInv says depends on the following only.                        *)
LEMMA TurnKept ==
  ASSUME TurnInv, UNCHANGED <<mode, fileList, currentFileNumber, hasJpgFile, file, served>>,
         Open' => Open, inPc' = "event" => inPc = "event", inPc' # "start", Open' => inPc # "start",
         (inPc \in Chosen) = (inPc' \in Chosen) \/ ~Open'
  PROVE  TurnInv'
<1> USE DEF TurnInv, Listed, Passed, PastOnly, Due, Serves, After
<1>1. CASE ~Open'
  <2>1. inPc' \notin {"start", "event"}
    BY <1>1 DEF Open
  <2>2. QED  BY <1>1, <2>1
<1>2. CASE Open' /\ mode # "existing"
  BY <1>2
<1>3. CASE Open' /\ mode = "existing"
  <2>1. Listed' /\ \A f : PastOnly(f)' = PastOnly(f)
    BY <1>3
  <2>2. Passed(1, currentFileNumber)' = Passed(1, currentFileNumber) /\ Due' = Due
    BY <1>3
  <2>3. (inPc \in Chosen) = (inPc' \in Chosen)
    BY <1>3
  <2> HIDE DEF Listed, Passed, PastOnly, Due
  <2>4. QED  BY <1>3, <2>1, <2>2, <2>3
<1>4. QED  BY <1>1, <1>2, <1>3

(* Picking a file, or passing over one, keeps to the turn.                 *)
LEMMA PickTurn ==
  ASSUME TurnInv, Pick, mode = "existing"
  PROVE  TurnInv'
<1> DEFINE n == currentFileNumber
           e == fileList[n + 1]
           len == Len(fileList)
<1>1. /\ inPc = "pick" /\ Listed /\ hasJpgFile = (served # 0)
      /\ served = 0 => Passed(1, n)
      /\ served # 0 => PastOnly(served)
  BY DEF TurnInv, Pick, Open, Chosen
<1>2. UNCHANGED <<mode, fileList, served>>
  BY DEF Pick
<1>3. n \in Nat /\ len \in Nat /\ n + 1 \in 1..len /\ 0 \notin Jpg
  BY <1>1, FileInputAssumption DEF Listed
<1>4. CASE e \in Jpg
  <2>1. /\ hasJpgFile' = TRUE /\ file' = e /\ inPc' = "open"
        /\ currentFileNumber' = IF n + 1 = len THEN 0 ELSE n + 1
    BY <1>4 DEF Pick
  <2>2. e = Due /\ e # 0
    BY <1>1, <1>3, <1>4, NextIsDue
  <2>3. file' = Due' /\ file' # 0
    BY <1>2, <2>1, <2>2 DEF Due, Serves, After
  <2>4. PastOnly(file)'
    <3>1. CASE n + 1 = len
      <4>1. currentFileNumber' = 0 /\ fileList' = fileList
        BY <1>2, <2>1, <3>1
      <4>2. fileList'[len] = e /\ len \in 1..Len(fileList') /\ 0 < len
        BY <1>3, <3>1, <4>1
      <4>3. (\A i \in (len + 1)..len : fileList'[i] \notin Jpg) /\ (\A i \in 1..0 : fileList'[i] \notin Jpg)
        BY <1>3
      <4>4. QED  BY <1>4, <2>1, <4>1, <4>2, <4>3 DEF PastOnly, Passed
    <3>2. CASE n + 1 # len
      <4>1. currentFileNumber' = n + 1 /\ fileList' = fileList
        BY <1>2, <2>1, <3>2
      <4>2. n + 1 <= n + 1 /\ \A i \in ((n + 1) + 1)..(n + 1) : fileList'[i] \notin Jpg
        BY <1>3
      <4>3. QED  BY <1>3, <1>4, <2>1, <4>1, <4>2 DEF PastOnly, Passed
    <3>3. QED  BY <3>1, <3>2
  <2>5. Listed'
    <3>1. currentFileNumber' \in 0..(len - 1)
      <4>1. CASE n + 1 = len
        BY <1>3, <2>1, <4>1
      <4>2. CASE n + 1 # len
        BY <1>3, <2>1, <4>2
      <4>3. QED  BY <4>1, <4>2
    <3>2. QED  BY <1>1, <1>2, <3>1 DEF Listed
  <2>6. hasJpgFile' = (file' # 0) /\ inPc' \in Chosen /\ inPc' \notin {"start", "event"}
    BY <2>1, <2>3 DEF Chosen
  <2> HIDE DEF e
  <2>7. QED  BY <2>3, <2>4, <2>5, <2>6 DEF TurnInv
<1>5. CASE e \notin Jpg /\ inPc' = "quit"
  BY <1>5 DEF TurnInv, Open
<1>6. CASE e \notin Jpg /\ inPc' # "quit"
  <2>0. /\ hasJpgFile' = hasJpgFile
        /\ inPc' = IF n + 1 = len /\ ~hasJpgFile THEN "quit" ELSE "loop"
    BY <1>6 DEF Pick
  <2>1. inPc' = "loop" /\ (n + 1 = len => served # 0) /\ hasJpgFile' = (served' # 0)
    <3>1. CASE served = 0
      <4>1. ~hasJpgFile
        BY <1>1, <3>1
      <4>2. QED  BY <1>1, <1>2, <1>6, <2>0, <4>1
    <3>2. CASE served # 0
      <4>1. hasJpgFile
        BY <1>1, <3>2
      <4>2. QED  BY <1>1, <1>2, <2>0, <3>2, <4>1
    <3>3. QED  BY <3>1, <3>2
  <2>2. currentFileNumber' = IF n + 1 = len THEN 0 ELSE n + 1
    <3>1. currentFileNumber' = IF n + 1 = len /\ hasJpgFile THEN 0 ELSE n + 1
      BY <1>6 DEF Pick
    <3>2. n + 1 = len => hasJpgFile
      BY <1>1, <2>1
    <3>3. QED  BY <3>1, <3>2
  <2>3. Listed'
    <3>1. currentFileNumber' \in 0..(len - 1)
      BY <1>3, <2>2
    <3>2. QED  BY <1>1, <1>2, <3>1 DEF Listed
  <2>4. ASSUME served = 0 PROVE Passed(1, currentFileNumber)'
    <3>1. currentFileNumber' = n + 1
      BY <2>1, <2>2, <2>4
    <3>2. \A i \in 1..(n + 1) : i \in 1..n \/ i = n + 1
      BY <1>3
    <3>3. QED  BY <1>1, <1>2, <1>6, <2>4, <3>1, <3>2 DEF Passed
  <2>5. ASSUME served # 0 PROVE PastOnly(served)'
    <3>1. PICK p \in 1..len :
            /\ fileList[p] = served /\ served \in Jpg
            /\ \/ p <= n /\ Passed(p + 1, n)
               \/ n < p /\ Passed(p + 1, len) /\ Passed(1, n)
      BY <1>1, <2>5 DEF PastOnly
    <3>2. p # n + 1
      BY <1>6, <3>1
    <3>3. CASE p <= n /\ Passed(p + 1, n)
      <4>1. \A i \in (p + 1)..(n + 1) : fileList[i] \notin Jpg
        <5>1. \A i \in (p + 1)..(n + 1) : i \in (p + 1)..n \/ i = n + 1
          BY <1>3
        <5>2. QED  BY <1>6, <3>3, <5>1 DEF Passed
      <4>2. CASE n + 1 = len
        <5>1. currentFileNumber' = 0 /\ 0 < p
          BY <2>2, <4>2
        <5>2. (\A i \in (p + 1)..len : fileList[i] \notin Jpg) /\ (\A i \in 1..0 : fileList[i] \notin Jpg)
          BY <4>1, <4>2
        <5>3. QED  BY <1>2, <3>1, <5>1, <5>2 DEF PastOnly, Passed
      <4>3. CASE n + 1 # len
        <5>1. currentFileNumber' = n + 1 /\ p <= n + 1
          BY <1>3, <2>2, <3>3, <4>3
        <5>2. QED  BY <1>2, <3>1, <4>1, <5>1 DEF PastOnly, Passed
      <4>4. QED  BY <4>2, <4>3
    <3>4. CASE n < p /\ Passed(p + 1, len) /\ Passed(1, n)
      <4>1. n + 1 < p /\ n + 1 # len
        BY <1>3, <3>2, <3>4
      <4>2. \A i \in 1..(n + 1) : fileList[i] \notin Jpg
        <5>1. \A i \in 1..(n + 1) : i \in 1..n \/ i = n + 1
          BY <1>3
        <5>2. QED  BY <1>6, <3>4, <5>1 DEF Passed
      <4>3. QED  BY <1>2, <2>2, <3>1, <3>4, <4>1, <4>2 DEF PastOnly, Passed
    <3>5. QED  BY <3>1, <3>3, <3>4
  <2>6. QED  BY <1>2, <2>1, <2>3, <2>4, <2>5 DEF TurnInv, Open, Chosen
<1>7. QED  BY <1>4, <1>5, <1>6

(* Each step of the input keeps to the turn.                               *)
LEMMA InputTurn ==
  ASSUME TurnInv, folder \subseteq Files, InputNext
  PROVE  TurnInv'
<1> DEFINE Turn == <<mode, fileList, currentFileNumber, hasJpgFile, file, served>>
<1>1. CASE Scan
  <2>1. CASE Open' /\ mode = "existing"
    <3>1. /\ inPc = "start" /\ inPc' = "loop" /\ fileList' \in Listings(folder)
          /\ UNCHANGED <<mode, currentFileNumber, hasJpgFile, file, served>>
      BY <1>1, <2>1 DEF Scan, InAt, Open
    <3>2. /\ fileList' \in Seq(Files \cup {0}) /\ Len(fileList') >= 2
          /\ \A i, j \in 1..Len(fileList') :
                i < j /\ fileList'[i] # 0 => fileList'[i] < fileList'[j]
      BY <3>1, ListingSorted
    <3>3. currentFileNumber' = 0 /\ served' = 0 /\ hasJpgFile' = FALSE
      BY <3>1 DEF TurnInv
    <3>4. Listed'
      <4>1. Len(fileList') \in Nat
        BY <3>2
      <4>2. 0 \in 0..(Len(fileList') - 1)
        BY <3>2, <4>1
      <4>3. QED  BY <3>2, <3>3, <4>2 DEF Listed
    <3>5. Passed(1, currentFileNumber)'
      BY <3>3 DEF Passed
    <3>6. inPc' \notin Chosen
      BY <3>1 DEF Chosen
    <3>7. QED  BY <3>1, <3>3, <3>4, <3>5, <3>6 DEF TurnInv
  <2>2. CASE ~(Open' /\ mode = "existing")
    <3>1. inPc' \notin {"start", "event"} /\ mode' = mode
      BY <1>1 DEF Scan, InAt
    <3>2. QED  BY <2>2, <3>1 DEF TurnInv
  <2>3. QED  BY <2>1, <2>2
<1>2. CASE Loop
  <2>1. CASE inPc' = "event"
    BY <1>2, <2>1 DEF Loop, InAt, TurnInv
  <2>2. CASE inPc' # "event"
    <3>1. UNCHANGED Turn /\ inPc = "loop" /\ inPc' \in {"quit", "pick"}
      BY <1>2, <2>2 DEF Loop, InAt, scan
    <3>2. QED  BY <3>1, TurnKept DEF Open, Chosen
  <2>3. QED  BY <2>1, <2>2
<1>3. CASE Pick
  <2>1. CASE mode = "existing"
    BY <1>3, <2>1, PickTurn
  <2>2. CASE mode # "existing"
    <3>1. mode' = mode /\ inPc' \notin {"start", "event"}
      <4>1. CASE fileList[currentFileNumber + 1] \in Jpg
        BY <1>3, <4>1 DEF Pick
      <4>2. CASE fileList[currentFileNumber + 1] \notin Jpg
        <5>1. inPc' = "quit" \/ inPc' = "loop"
          BY <1>3, <4>2 DEF Pick
        <5>2. mode' = mode
          BY <1>3 DEF Pick
        <5>3. QED  BY <5>1, <5>2
      <4>3. QED  BY <4>1, <4>2
    <3>2. QED  BY <2>2, <3>1 DEF TurnInv
  <2>3. QED  BY <2>1, <2>2
<1>4. CASE NextEvent
  <2>1. mode # "existing" /\ mode' = mode /\ inPc' \notin {"start", "event"}
    BY <1>4 DEF NextEvent, TurnInv
  <2>2. QED  BY <2>1 DEF TurnInv
<1>5. CASE ReadFile
  <2>1. CASE inPc' = "stamp"
    <3>1. /\ inPc = "read" /\ served' = file
          /\ UNCHANGED <<mode, fileList, currentFileNumber, hasJpgFile, file>>
      BY <1>5, <2>1 DEF ReadFile, InAt, scan
    <3>2. CASE mode = "existing"
      <4>1. /\ Listed /\ hasJpgFile = (file # 0)
            /\ IF file = 0 THEN Passed(1, currentFileNumber) ELSE PastOnly(file)
        BY <3>1, <3>2 DEF TurnInv, Open, Chosen
      <4>2. Listed' /\ hasJpgFile' = (served' # 0)
        BY <3>1, <4>1 DEF Listed
      <4>3. IF served' = 0 THEN Passed(1, currentFileNumber)' ELSE PastOnly(served)'
        BY <3>1, <4>1 DEF Passed, PastOnly
      <4>4. QED  BY <2>1, <4>2, <4>3 DEF TurnInv, Chosen
    <3>3. CASE mode # "existing"
      BY <2>1, <3>1, <3>3 DEF TurnInv
    <3>4. QED  BY <3>2, <3>3
  <2>2. CASE inPc' = "quit"
    BY <2>2 DEF TurnInv, Open
  <2>3. QED  BY <1>5, <2>1, <2>2 DEF ReadFile, InAt
<1>6. CASE \/ WatchEnds \/ OpenFile \/ LockInput \/ AllocateBuffer \/ StampPicture
           \/ BroadcastPicture \/ UnlockInput \/ RemoveFile \/ FreeList \/ CleanUpInput
           \/ CancelInput
  <2>1. UNCHANGED Turn
    BY <1>6 DEF WatchEnds, OpenFile, LockInput, AllocateBuffer, StampPicture, BroadcastPicture,
                UnlockInput, RemoveFile, FreeList, CleanUpInput, CancelInput, scan
  <2>2. /\ inPc' \notin {"start", "event"} /\ inPc # "start" /\ (Open' => Open)
        /\ (inPc \in Chosen) = (inPc' \in Chosen) \/ ~Open'
    BY <1>6 DEF WatchEnds, OpenFile, LockInput, AllocateBuffer, StampPicture, BroadcastPicture,
                UnlockInput, RemoveFile, FreeList, CleanUpInput, CancelInput, InAt, Open, Chosen
  <2>3. QED  BY <2>1, <2>2, TurnKept
<1>7. QED  BY <1>1, <1>2, <1>3, <1>4, <1>5, <1>6 DEF InputNext

(* Each step keeps the types. *)
LEMMA InputType ==
  ASSUME IInv, TurnInv, TypeOK, InputNext \/ \E f \in Files : Written(f) \/ Removed(f),
         UNCHANGED outVars
  PROVE  TypeOK'
<1>1. reads \in Nat /\ MaxReads \in Nat
  BY FileInputAssumption DEF TypeOK, FileInputType
<1>2. Jpg \subseteq Files /\ Wanted \subseteq Files /\ MaxWrites \in Nat
  BY FileInputAssumption
<1>3. UdpOutputType'
  BY DEF TypeOK, UdpOutputType, outVars
<1> USE <1>1, <1>2, <1>3 DEF TypeOK, FileInputType, InAt, shared, picture, outside, scan
<1>4. CASE \E f \in Files : Written(f) \/ Removed(f)
  <2>1. PICK f \in Files : Written(f) \/ Removed(f)
    BY <1>4
  <2>2. folder' \subseteq Files /\ events' \in Seq(Files) /\ writes' \in 0..MaxWrites
    <3>1. writes < MaxWrites /\ writes' = writes + 1
      BY <2>1 DEF Written, Removed
    <3>2. writes' \in 0..MaxWrites
      <4>1. writes \in Nat
        OBVIOUS
      <4>2. QED  BY <1>2, <3>1, <4>1
    <3>3. CASE Written(f)
      <4>1. folder' = folder \cup {f} /\ events' = Append(events, f)
        BY <3>3 DEF Written
      <4>2. Append(events, f) \in Seq(Files)
        OBVIOUS
      <4>3. QED  BY <3>2, <4>1, <4>2
    <3>4. CASE Removed(f)
      <4>1. folder' = folder \ {f} /\ events' = events
        BY <3>4 DEF Removed
      <4>2. QED  BY <3>2, <4>1
    <3>5. QED  BY <2>1, <3>3, <3>4
  <2>3. UNCHANGED <<shared, mode, rm, inPc, scan, file, reads, served>>
    BY <2>1 DEF Written, Removed
  <2>4. QED  BY <2>2, <2>3
<1>5. CASE Scan
  <2>1. fileList' \in Seq(Files \cup {0}) /\ inPc' # "pick"
    <3>1. CASE fileList' \in Listings(folder)
      BY <1>5, <3>1, ListingSorted DEF Scan
    <3>2. CASE fileList' \in {fileList, <<>>}
      <4>1. <<>> \in Seq(Files \cup {0}) /\ fileList \in Seq(Files \cup {0})
        OBVIOUS
      <4>2. inPc' \in {"loop", "left"}
        BY <1>5 DEF Scan
      <4>3. QED  BY <3>2, <4>1, <4>2
    <3>3. QED  BY <1>5, <3>1, <3>2 DEF Scan
  <2>2. QED  BY <1>5, <2>1 DEF Scan
<1>6. CASE Loop
  <2>1. inPc' = "pick" => currentFileNumber \in 0..(Len(fileList) - 1)
    BY <1>6 DEF Loop, TurnInv, Listed, Open
  <2>2. QED  BY <1>6, <2>1 DEF Loop
<1>7. CASE Pick
  <2>1. /\ inPc' \in {"open", "quit", "loop"} /\ hasJpgFile' \in BOOLEAN
        /\ file' \in Files \cup {0}
        /\ UNCHANGED <<shared, mode, rm, outside, fileList, reads, served>>
    <3>1. CASE fileList[currentFileNumber + 1] \in Jpg
      BY <1>7, <3>1 DEF Pick
    <3>2. CASE fileList[currentFileNumber + 1] \notin Jpg
      BY <1>7, <3>2 DEF Pick
    <3>3. QED  BY <3>1, <3>2
  <2>2. QED  BY <2>1
<1>8. CASE NextEvent
  <2>1. Head(events) \in Files /\ events' = <<>>
    BY <1>8 DEF NextEvent
  <2>2. QED  BY <1>8, <2>1 DEF NextEvent
<1>9. CASE WatchEnds \/ OpenFile \/ LockInput \/ AllocateBuffer
  BY <1>9 DEF WatchEnds, OpenFile, LockInput, AllocateBuffer, Null, Fresh
<1>10. CASE ReadFile
  <2>1. inPc = "read" => reads + 1 \in 0..MaxReads
    BY DEF IInv, StoreInv
  <2>2. QED  BY <1>10, <2>1 DEF ReadFile, Null
<1>11. CASE StampPicture \/ BroadcastPicture \/ UnlockInput \/ RemoveFile
  BY <1>11 DEF StampPicture, BroadcastPicture, UnlockInput, RemoveFile
<1>12. CASE FreeList \/ CleanUpInput \/ CancelInput
  BY <1>12 DEF FreeList, CleanUpInput, CancelInput, Null, Freed
<1>13. QED
  BY <1>4, <1>5, <1>6, <1>7, <1>8, <1>9, <1>10, <1>11, <1>12 DEF InputNext

(* So does each step of the UDP worker, and each datagram. *)
LEMMA OutputType ==
  ASSUME TypeOK, OutputNext \/ \E n \in Names \cup {NoName} : SendRequest(n), UNCHANGED inVars
  PROVE  TypeOK'
<1>1. FileInputType'
  BY DEF TypeOK, FileInputType, inVars, outside, scan
<1> USE <1>1, UdpOutputAssumption DEF TypeOK, UdpOutputType, OutAt, shared, picture
<1>2. CASE \E n \in Names \cup {NoName} : SendRequest(n)
  <2>1. PICK n \in Names \cup {NoName} : SendRequest(n)
    BY <1>2
  <2>2. inbox' \in {Append(inbox, n), inbox} /\ sent' = sent + 1 /\ sent < MaxRequests
    BY <2>1 DEF SendRequest
  <2>3. inbox' \in Seq(Names \cup {NoName})
    BY <2>2
  <2>4. UNCHANGED <<shared, outPc, udpbuffer, got, saved, replies>>
    BY <2>1 DEF SendRequest
  <2>5. QED  BY <2>2, <2>3, <2>4
<1>3. CASE OutputLoop \/ LockOutput \/ WaitForPicture \/ RelockOutput \/ TakeSize \/ UnlockOutput
  BY <1>3 DEF OutputLoop, LockOutput, WaitForPicture, RelockOutput, TakeSize, UnlockOutput
<1>4. CASE WakesUpSpuriously  BY <1>4 DEF WakesUpSpuriously, outVars
<1>5. CASE Receive
  <2>1. Tail(inbox) \in Seq(Names \cup {NoName}) /\ Head(inbox) \in Names \cup {NoName}
    BY <1>5 DEF Receive
  <2>2. QED  BY <1>5, <2>1 DEF Receive
<1>6. CASE CopyPicture  BY <1>6 DEF CopyPicture
<1>7. CASE SavePicture  BY <1>7 DEF SavePicture
<1>8. CASE Reply  BY <1>8 DEF Reply
<1>9. CASE CleanUpOutput  BY <1>9 DEF CleanUpOutput
<1>10. CASE CancelOutput
  <2>1. blocked' \subseteq {Output} /\ db' \in {db, Output}
    BY <1>10 DEF CancelOutput
  <2>2. outPc' = "cleanup" /\ UNCHANGED <<stop, process, picture, inbox, sent, udpbuffer, got, saved, replies>>
    BY <1>10 DEF CancelOutput
  <2>3. QED  BY <2>1, <2>2
<1>11. QED  BY <1>2, <1>3, <1>4, <1>5, <1>6, <1>7, <1>8, <1>9, <1>10 DEF OutputNext

(* Whatever the folder, the options and the datagrams: every variable has  *)
(* its type, the index into the list of files stays inside the list, and   *)
(* the input keeps to the turn.                                            *)
THEOREM TurnInvariance == Spec => [](TypeOK /\ TurnInv)
<1>1. Init => TypeOK /\ TurnInv
  <2> SUFFICES ASSUME Init PROVE TypeOK /\ TurnInv
    OBVIOUS
  <2>1. FileInputType
    <3>1. folder \subseteq Files
      BY FileInputAssumption DEF Init, FileInputInit
    <3>2. 0 \in 0..MaxWrites /\ 0 \in 0..MaxReads
      BY FileInputAssumption
    <3>3. <<>> \in Seq(Files) /\ <<>> \in Seq(Files \cup {0})
      OBVIOUS
    <3>4. QED  BY <3>1, <3>2, <3>3 DEF Init, FileInputInit, FileInputType
  <2>2. UdpOutputType
    BY UdpOutputAssumption DEF Init, UdpOutputInit, UdpOutputType
  <2>3. TypeOK
    <3>1. 0 \in 0..MaxReads
      BY FileInputAssumption
    <3>2. buf \in {Null} /\ size = 0 /\ pub.frame = 0
      BY DEF Init, SharedInit, NoPicture
    <3>3. stop \in BOOLEAN /\ process = "runs" /\ db = Nobody /\ blocked = {}
      BY DEF Init, SharedInit
    <3>4. QED  BY <2>1, <2>2, <3>1, <3>2, <3>3 DEF TypeOK
  <2>4. TurnInv
    BY DEF Init, FileInputInit, TurnInv
  <2>5. QED  BY <2>3, <2>4
<1>2. IInv /\ TypeOK /\ TurnInv /\ [Next]_vars => TypeOK' /\ TurnInv'
  <2> SUFFICES ASSUME IInv, TypeOK, TurnInv, [Next]_vars PROVE TypeOK' /\ TurnInv'
    OBVIOUS
  <2>1. folder \subseteq Files
    BY DEF TypeOK, FileInputType
  <2>2. ASSUME UNCHANGED inVars PROVE TurnInv'
    BY <2>2 DEF inVars, scan, TurnInv, Listed, PastOnly, Passed, Due, Serves, After, Open
  <2>3. CASE Stop \/ UNCHANGED vars
    <3>1. stop' \in BOOLEAN /\ UNCHANGED <<process, db, blocked, picture>>
      BY <2>3 DEF Stop, vars, shared, picture, TypeOK
    <3>2. UNCHANGED inVars /\ UNCHANGED outVars
      BY <2>3 DEF Stop, vars
    <3>3. FileInputType' /\ UdpOutputType'
      BY <3>2 DEF TypeOK, FileInputType, UdpOutputType, inVars, outVars, outside, scan
    <3>4. QED  BY <2>2, <3>1, <3>2, <3>3 DEF TypeOK, picture
  <2>4. CASE InputNext /\ UNCHANGED outVars
    BY <2>1, <2>4, InputTurn, InputType
  <2>5. CASE OutputNext /\ UNCHANGED inVars
    BY <2>2, <2>5, OutputType
  <2>6. CASE (\E f \in Files : Written(f) \/ Removed(f)) /\ UNCHANGED outVars
    <3>1. UNCHANGED <<mode, inPc, scan, file, served>>
      BY <2>6 DEF Written, Removed
    <3>2. TurnInv'
      BY <3>1 DEF scan, TurnInv, Listed, PastOnly, Passed, Due, Serves, After, Open
    <3>3. QED  BY <2>6, <3>2, InputType
  <2>7. CASE (\E n \in Names \cup {NoName} : SendRequest(n)) /\ UNCHANGED inVars
    BY <2>2, <2>7, OutputType
  <2>8. QED  BY <2>3, <2>4, <2>5, <2>6, <2>7 DEF Next
<1>3. QED  BY <1>1, <1>2, Invariance, PTL DEF Spec

(* Hence the types, and the list is never read past its end.               *)
THEOREM TypeCorrect == Spec => []TypeOK
<1>1. QED  BY TurnInvariance, PTL

(* In the mode "existing" the pictures of the folder are served in turn,   *)
(* whatever other files lie between them and at the end of the list.       *)
THEOREM ServedInTurnHolds == Spec => ServedInTurn
<1>1. TypeOK /\ TurnInv /\ [Next]_vars =>
        [mode = "existing" /\ reads' # reads =>
           served' = IF served = 0 THEN Min(Serves) ELSE After(served)]_<<served, reads>>
  <2> SUFFICES ASSUME TypeOK, TurnInv, Next, mode = "existing", reads' # reads
               PROVE  served' = Due
    BY DEF Due, vars, inVars
  <2>1. ReadFile
    BY DEF Next, Stop, InputNext, Written, Removed, Scan, Loop, Pick, NextEvent, WatchEnds,
           OpenFile, LockInput, AllocateBuffer, StampPicture, BroadcastPicture, UnlockInput,
           RemoveFile, FreeList, CleanUpInput, CancelInput, inVars
  <2>2. inPc = "read" /\ served' = file
    BY <2>1 DEF ReadFile, InAt
  <2>3. QED  BY <2>2 DEF TurnInv, Open, Chosen
<1>2. QED  BY <1>1, TurnInvariance, PTL DEF Spec, ServedInTurn
=============================================================================
