-------------------------- MODULE FrameStoreProofs --------------------------
(***************************************************************************)
(* FrameStore, for every set of clients, every option of the camera and    *)
(* every number of captures: the types, mutual exclusion on db, and that   *)
(* clients copy whole pictures, in order.                                  *)
(***************************************************************************)
EXTENDS FrameStore, TLAPS

(* The initial state is well typed.                                        *)
LEMMA InitType ==
  ASSUME Init
  PROVE  TypeOK
<1> USE FrameStoreAssumption DEF Init, Capture, Blank, Whole
<1>1. /\ 0 \in Capture
      /\ 0 \in 0..(Every - 1)
  OBVIOUS
<1>2. camPc \in CamHolds \cup {"loop", "select", "filter", "lock", "free", "clear", "done"}
  OBVIOUS
<1>3. pc \in [Clients -> Places]
  BY DEF Places
<1>4. QED  BY <1>1, <1>2, <1>3 DEF TypeOK

(* No step of cam_thread changes the type of a variable.                   *)
LEMMA CamStepType ==
  ASSUME TypeOK, CamNext
  PROVE  TypeOK'
<1> USE FrameStoreAssumption
           DEF TypeOK, CamAt, camVars, store, clientVars, Capture, CamHolds, Holds, Reading, Places
<1>0. CASE CamAgain  BY <1>0 DEF CamAgain
<1>1. CASE CamLoop  BY <1>1 DEF CamLoop
<1>2. CASE CamLeave  BY <1>2 DEF CamLeave
<1>3. CASE CamGrab
  <2>1. clock' \in Capture
    BY <1>3 DEF CamGrab
  <2>2. tmp' \in [frame : Capture, stamp : Capture]
    BY <1>3, <2>1 DEF CamGrab
  <2>3. every' \in 0..(Every - 1)
    BY <1>3 DEF CamGrab
  <2>4. QED  BY <1>3, <2>1, <2>2, <2>3 DEF CamGrab
<1>4. CASE CamFilter  BY <1>4 DEF CamFilter, Stamped
<1>5. CASE CamLock  BY <1>5 DEF CamLock
<1>6. CASE CamCopy  BY <1>6 DEF CamCopy
<1>7. CASE CamStore  BY <1>7 DEF CamStore
<1>8. CASE CamStamp  BY <1>8 DEF CamStamp, Whole
<1>9. CASE CamBroadcast  BY <1>9 DEF CamBroadcast, Waiting
<1>10. CASE CamUnlock  BY <1>10 DEF CamUnlock
<1>11. CASE CamFree  BY <1>11 DEF CamFree
<1>12. CASE CamClear  BY <1>12 DEF CamClear
<1>13. QED
  BY <1>0, <1>1, <1>2, <1>3, <1>4, <1>5, <1>6, <1>7, <1>8, <1>9, <1>10, <1>11,
     <1>12
  DEF CamNext

(* No step of a client changes the type of a variable.                     *)
LEMMA ClientStepType ==
  ASSUME TypeOK, NEW c \in Clients, ClientNext(c)
  PROVE  TypeOK'
<1> USE FrameStoreAssumption
           DEF TypeOK, At, camVars, store, clientVars, Capture, CamHolds, Holds, Reading, Places
<1>1. CASE Connect(c)  BY <1>1 DEF Connect, Blank, Whole
<1>2. CASE Lock(c)  BY <1>2 DEF Lock
<1>3. CASE Wait(c)  BY <1>3 DEF Wait
<1>4. CASE SpuriousWakeup(c)  BY <1>4 DEF SpuriousWakeup
<1>5. CASE Relock(c)  BY <1>5 DEF Relock
<1>6. CASE ReadSize(c)  BY <1>6 DEF ReadSize
<1>7. CASE NoMemory(c)  BY <1>7 DEF NoMemory
<1>8. CASE ReadStamp(c)  BY <1>8 DEF ReadStamp
<1>9. CASE Copy(c)  BY <1>9 DEF Copy
<1>10. CASE Unlock(c)  BY <1>10 DEF Unlock
<1>11. CASE Send(c)  BY <1>11 DEF Send, Again
<1>12. CASE SendFails(c)  BY <1>12 DEF SendFails
<1>13. QED
  BY <1>1, <1>2, <1>3, <1>4, <1>5, <1>6, <1>7, <1>8, <1>9, <1>10, <1>11, <1>12
  DEF ClientNext

(* Every variable keeps its type, for every instance of the store.         *)
THEOREM TypeCorrect == Spec => []TypeOK
<1>1. Init => TypeOK
  BY InitType
<1>2. TypeOK /\ [Next]_vars => TypeOK'
  <2> SUFFICES ASSUME TypeOK, [Next]_vars PROVE TypeOK'
    OBVIOUS
  <2>1. CASE Stop
    BY <2>1 DEF TypeOK, Stop, camVars, store, clientVars
  <2>2. CASE UNCHANGED vars
    BY <2>2 DEF TypeOK, vars, camVars, store, clientVars
  <2>3. QED
    BY <2>1, <2>2, CamStepType, ClientStepType DEF Next
<1>3. QED
  BY <1>1, <1>2, PTL DEF Spec

(* Each step of cam_thread keeps the lock, the store and the readers agreed. *)
LEMMA CamStepInv ==
  ASSUME IInv, CamNext
  PROVE  IInv'
<1> USE FrameStoreAssumption
    DEF IInv, LockInv, StoreInv, CamInv, ReaderInv, OrderInv, Open, CamHolds,
        Reading, Holds, CamAt, camVars, store, clientVars
<1>1. TypeOK'
  BY CamStepType
<1>2. CASE CamLoop  BY <1>1, <1>2 DEF CamLoop
<1>0. CASE CamAgain  BY <1>0, <1>1 DEF CamAgain
<1>3. CASE CamLeave  BY <1>1, <1>3 DEF CamLeave
<1>4. CASE CamGrab  BY <1>1, <1>4 DEF CamGrab, TypeOK, Capture
<1>5. CASE CamFilter  BY <1>1, <1>5 DEF CamFilter, Stamped, TypeOK, Capture
<1>6. CASE CamLock  BY <1>1, <1>6 DEF CamLock
<1>7. CASE CamCopy  BY <1>1, <1>7 DEF CamCopy
<1>8. CASE CamStore  BY <1>1, <1>8 DEF CamStore
<1>9. CASE CamStamp
  <2>1. /\ pub' = [frame |-> tmp.frame, size |-> tmp.frame, stamp |-> tmp.stamp]
        /\ stamp' = tmp.stamp /\ camPc = "stamp" /\ camPc' = "broadcast"
        /\ UNCHANGED <<db, buf, size, clock, tmp, clientVars>>
    BY <1>9 DEF CamStamp, Whole
  <2>2. LockInv' /\ StoreInv' /\ CamInv'
    BY <2>1 DEF TypeOK, Capture
  <2>3. ASSUME NEW c \in Clients
        PROVE  ReaderInv(c)' /\ OrderInv(c)'
    <3>1. pc[c] \notin Reading
      BY <2>1
    <3>2. /\ pub.frame \in Int /\ pub.stamp \in Int
          /\ tmp.frame \in Int /\ tmp.stamp \in Int
          /\ asOf[c] \in Int
          /\ sent[c].frame \in Int /\ sent[c].stamp \in Int
          /\ got[c].frame \in Int /\ got[c].stamp \in Int
      BY DEF TypeOK, Capture, Torn, Freed
    <3>3. OrderInv(c)
      BY <2>1
    <3>4. QED  BY <2>1, <3>1, <3>2, <3>3
  <2>4. QED  BY <1>1, <2>2, <2>3
<1>10. CASE CamBroadcast  BY <1>1, <1>10 DEF CamBroadcast, Waiting, TypeOK
<1>11. CASE CamUnlock  BY <1>1, <1>11 DEF CamUnlock, TypeOK
<1>12. CASE CamFree  BY <1>1, <1>12 DEF CamFree
<1>13. CASE CamClear  BY <1>1, <1>13 DEF CamClear
<1>14. QED
  BY <1>0, <1>2, <1>3, <1>4, <1>5, <1>6, <1>7, <1>8, <1>9, <1>10, <1>11, <1>12,
     <1>13
  DEF CamNext

(* Each step of a client keeps the lock, the store and the readers agreed. *)
LEMMA ClientStepInv ==
  ASSUME IInv, NEW c \in Clients, ClientNext(c)
  PROVE  IInv'
<1> USE FrameStoreAssumption
    DEF IInv, LockInv, StoreInv, CamInv, ReaderInv, OrderInv, Open, CamHolds,
        Reading, Holds, At, TypeOK, Capture, camVars, store, clientVars
<1>1. TypeOK'
  BY ClientStepType
<1>2. CASE Connect(c)  BY <1>1, <1>2 DEF Connect, Blank, Whole
<1>3. CASE Lock(c)  BY <1>1, <1>3 DEF Lock
<1>4. CASE Wait(c)  BY <1>1, <1>4 DEF Wait
<1>5. CASE SpuriousWakeup(c)  BY <1>1, <1>5 DEF SpuriousWakeup
<1>6. CASE Relock(c)  BY <1>1, <1>6 DEF Relock
<1>7. CASE ReadSize(c)  BY <1>1, <1>7 DEF ReadSize
<1>8. CASE NoMemory(c)  BY <1>1, <1>8 DEF NoMemory
<1>9. CASE ReadStamp(c)  BY <1>1, <1>9 DEF ReadStamp
<1>10. CASE Copy(c)  BY <1>1, <1>10 DEF Copy
<1>11. CASE Unlock(c)  BY <1>1, <1>11 DEF Unlock
<1>12. CASE Send(c)  BY <1>1, <1>12 DEF Send, Again
<1>13. CASE SendFails(c)  BY <1>1, <1>13 DEF SendFails
<1>14. QED
  BY <1>2, <1>3, <1>4, <1>5, <1>6, <1>7, <1>8, <1>9, <1>10, <1>11, <1>12, <1>13
  DEF ClientNext

(* The inductive invariant holds in every reachable state.                 *)
THEOREM Invariance == Spec => []IInv
<1>1. Init => IInv
  <2> SUFFICES ASSUME Init PROVE IInv
    OBVIOUS
  <2>1. TypeOK
    BY InitType
  <2>2. LockInv /\ StoreInv /\ CamInv
    BY FrameStoreAssumption
    DEF Init, Blank, Whole, LockInv, StoreInv, CamInv, CamHolds, Holds, Reading, Open
  <2>3. \A c \in Clients : ReaderInv(c) /\ OrderInv(c)
    BY DEF Init, Blank, Whole, ReaderInv, OrderInv
  <2>4. QED  BY <2>1, <2>2, <2>3 DEF IInv
<1>2. IInv /\ [Next]_vars => IInv'
  <2> SUFFICES ASSUME IInv, [Next]_vars PROVE IInv'
    OBVIOUS
  <2> USE DEF IInv, LockInv, StoreInv, CamInv, ReaderInv, OrderInv, Open
  <2>1. CASE Stop
    BY <2>1 DEF TypeOK, Stop, camVars, store, clientVars
  <2>2. CASE UNCHANGED vars
    BY <2>2 DEF TypeOK, vars, camVars, store, clientVars
  <2>3. QED
    BY <2>1, <2>2, CamStepInv, ClientStepInv DEF Next
<1>3. QED
  BY <1>1, <1>2, PTL DEF Spec

(* At most one thread is in a section guarded by db.                       *)
THEOREM MutualExclusionHolds == Spec => []MutualExclusion
<1>1. IInv => MutualExclusion
  BY FrameStoreAssumption DEF IInv, LockInv, MutualExclusion
<1>2. QED  BY <1>1, Invariance, PTL

(* While the camera has its buffer, each client copies the latest picture  *)
(* whole: bytes, length and timestamp of one publication.                  *)
THEOREM WholePictureHolds == Spec => []WholePicture
<1>1. IInv => WholePicture
  <2> SUFFICES ASSUME IInv, Open, NEW c \in Clients, pc[c] = "unlock"
               PROVE  got[c] = pub
    BY DEF WholePicture
  <2>1. /\ got[c].frame = pub.frame
        /\ got[c].size = pub.size
        /\ got[c].stamp = pub.stamp
    BY DEF IInv, ReaderInv
  <2>2. /\ got[c] \in [frame : Capture \cup {Torn, Freed}, size : Capture, stamp : Capture]
        /\ pub \in [frame : Capture, size : Capture, stamp : Capture]
    BY DEF IInv, TypeOK
  <2>3. QED  BY <2>1, <2>2
<1>2. QED  BY <1>1, Invariance, PTL

(* While the camera has its buffer, no connection goes back in time.       *)
THEOREM StreamInOrderHolds == Spec => []StreamInOrder
<1>1. IInv => StreamInOrder
  BY DEF IInv, TypeOK, Capture, Torn, Freed, OrderInv, StreamInOrder
<1>2. QED  BY <1>1, Invariance, PTL

(* Pictures with different timestamps are a frame period apart.            *)
THEOREM SoftFpsSpacingHolds == Spec => SoftFpsSpacing
<1>1. IInv /\ [Next]_vars => [pub' # pub => pub'.stamp - pub.stamp >= FramePeriod]_pub
  <2> SUFFICES ASSUME IInv, [Next]_vars, pub' # pub
               PROVE  pub'.stamp - pub.stamp >= FramePeriod
    OBVIOUS
  <2>1. CamStamp
    BY DEF Next, vars, Stop, CamNext, ClientNext, camVars, store, clientVars,
           CamLoop, CamAgain, CamLeave, CamGrab, CamFilter, CamLock, CamCopy, CamStore,
           CamBroadcast, CamUnlock, CamFree, CamClear, Connect, Lock, Wait,
           SpuriousWakeup, Relock, ReadSize, NoMemory, ReadStamp, Copy, Unlock,
           Send, SendFails
  <2>2. pub'.stamp = tmp.stamp /\ pub.stamp = stamp
    BY <2>1 DEF CamStamp, Whole, IInv, StoreInv
  <2>3. tmp.stamp - stamp >= FramePeriod
    BY <2>1 DEF CamStamp, CamAt, IInv, CamInv
  <2>4. QED  BY <2>2, <2>3
<1>2. QED  BY <1>1, Invariance, PTL DEF Spec, SoftFpsSpacing

(* The store with its threads implements the register of the latest        *)
(* picture.                                                                *)
THEOREM Refinement == Spec => LatestPicture
<1> USE DEF Register!vars
<1>1. Init => Register!Init
  BY DEF Init, Register!Init, Held, Open, Blank, Whole
<1>2. ASSUME IInv, IInv', [Next]_vars
      PROVE  [Register!Next]_(Register!vars)
  <2> USE <1>2
  <2>1. CASE Stop
    BY <2>1 DEF Stop, Held, Open, camVars, store, clientVars
  <2>2. CASE UNCHANGED vars
    BY <2>2 DEF vars, Held, Open, camVars, store, clientVars
  <2>3. CASE CamStamp
    <3>1. /\ pub' = [frame |-> tmp.frame, size |-> tmp.frame, stamp |-> tmp.stamp]
          /\ Open /\ Open' /\ Held' = Held
      BY <2>3 DEF CamStamp, CamAt, Whole, Open, Held, clientVars
    <3>2. pub' \in Register!Picture
      BY DEF IInv, TypeOK, Capture, Register!Picture
    <3>3. pub'.size = pub'.frame /\ pub'.frame >= pub.frame /\ pub'.stamp >= pub.stamp
      BY <3>1 DEF IInv, CamInv, TypeOK, Capture
    <3>4. QED  BY <3>1, <3>2, <3>3 DEF Register!Publish, Register!Next
  <2>4. CASE CamFree
    <3>1. ~Open' /\ pub' = pub /\ Held' = Held
      BY <2>4 DEF CamFree, CamAt, Open, Held, clientVars
    <3>2. QED  BY <3>1 DEF Register!Close, Register!Next
  <2>5. CASE CamBroadcast
    <3>1. Held' = Held
      BY <2>5 DEF CamBroadcast, Held, Waiting, IInv, TypeOK
    <3>2. QED  BY <2>5, <3>1 DEF CamBroadcast, CamAt, Open, store
  <2>6. CASE CamNext /\ ~CamStamp /\ ~CamFree /\ ~CamBroadcast
    BY <2>6 DEF CamNext, CamLoop, CamAgain, CamLeave, CamGrab, CamFilter, CamLock, CamCopy,
       CamStore, CamUnlock, CamClear, CamAt, Open, Held, store, clientVars
  <2>7. ASSUME NEW c \in Clients, ClientNext(c)
        PROVE  [Register!Next]_(Register!vars)
    <3> USE <2>7
    <3>1. /\ pub' = pub /\ Open' = Open
          /\ pc \in [Clients -> Places] /\ pc' \in [Clients -> Places]
      <4>1. pub' = pub /\ Open' = Open
        BY DEF ClientNext, Connect, Lock, Wait, SpuriousWakeup, Relock, ReadSize,
           NoMemory, ReadStamp, Copy, Unlock, Send, SendFails, store, camVars, Open
      <4>2. QED  BY <4>1 DEF IInv, TypeOK
    <3>2. CASE Copy(c)
      <4>1. /\ pc[c] = "copy" /\ pc' = [pc EXCEPT ![c] = "unlock"]
            /\ got' = [got EXCEPT ![c] = [@ EXCEPT !.frame = buf]]
        BY <3>2 DEF Copy, At
      <4>2. Held[c] = NoPicture
        BY <4>1 DEF Held
      <4>3. Held' = [Held EXCEPT ![c] = got'[c]]
        BY <4>1, <3>1 DEF Held, IInv, TypeOK
      <4>4. CASE Open
        <5>1. got'[c] = pub
          <6>1. pc'[c] = "unlock"
            BY <4>1, <3>1
          <6>2. /\ got'[c].frame = pub.frame
                /\ got'[c].size = pub.size
                /\ got'[c].stamp = pub.stamp
            BY <6>1, <4>4, <3>1 DEF IInv, ReaderInv
          <6>3. /\ got'[c] \in [frame : Capture \cup {Torn, Freed}, size : Capture, stamp : Capture]
                /\ pub \in [frame : Capture, size : Capture, stamp : Capture]
            BY DEF IInv, TypeOK
          <6>4. QED  BY <6>2, <6>3
        <5>2. QED
          BY <3>1, <4>2, <4>3, <4>4, <5>1 DEF Register!Take, Register!Next
      <4>5. CASE ~Open
        <5>1. got'[c] \in [frame : Capture \cup {Freed}, size : Capture, stamp : Capture]
          BY <4>1, <4>5 DEF IInv, TypeOK, StoreInv
        <5>2. QED
          BY <3>1, <4>2, <4>3, <4>5, <5>1 DEF Register!Take, Register!Next
      <4>6. QED  BY <4>4, <4>5
    <3>3. CASE Send(c) \/ SendFails(c)
      <4>1. pc[c] = "send" /\ pc'[c] \in {"idle", "lock"} /\ got' = got
            /\ \A d \in Clients \ {c} : pc'[d] = pc[d]
        BY <3>1, <3>3 DEF Send, SendFails, At, Again
      <4>2. Held' = [Held EXCEPT ![c] = NoPicture]
        BY <4>1 DEF Held
      <4>3. QED  BY <3>1, <4>2 DEF Register!Release, Register!Next
    <3>4. CASE ~Copy(c) /\ ~Send(c) /\ ~SendFails(c)
      <4>1. Held' = Held
        BY <3>1, <3>4 DEF ClientNext, Connect, Lock, Wait, SpuriousWakeup, Relock,
           ReadSize, NoMemory, ReadStamp, Unlock, At, Held, IInv, TypeOK
      <4>2. QED  BY <3>1, <4>1
    <3>5. QED  BY <3>2, <3>3, <3>4
  <2>8. QED
    BY <2>1, <2>2, <2>3, <2>4, <2>5, <2>6, <2>7 DEF Next
<1>3. QED
  BY <1>1, <1>2, Invariance, PTL DEF Spec, LatestPicture, Register!Spec
=============================================================================
