-------------------------- MODULE UvcDeviceProofs --------------------------
(***************************************************************************)
(* UvcDevice, for every set of clients and resolutions and every number of *)
(* sessions: the types, that the device and its buffers are whole again    *)
(* after a change, and that cam_thread copies only what fits.              *)
(***************************************************************************)
EXTENDS UvcDevice, TLAPS

(* The first session exists.                                               *)
LEMMA FirstSession == 1 \in Sessions /\ Gone \notin Sessions
BY UvcDeviceAssumption DEF Sessions, Gone

(* The initial state is well typed.                                        *)
LEMMA InitType ==
  ASSUME Init
  PROVE  TypeOK
BY UvcDeviceAssumption, FirstSession DEF Init, TypeOK, Devices, Changes, NoBuffer, NoChange

(* A session that changes its state keeps the sessions well typed.         *)
LEMMA WithType ==
  ASSUME TypeOK, NEW s \in Sessions, NEW state \in {"open", "ready", "streams", "closed"}
  PROVE  With(s, state) \in Devices
BY DEF TypeOK, Devices, With

(* A thread that goes on in setResolution leaves the places well typed.    *)
LEMMA GoesType ==
  ASSUME TypeOK, NEW t \in Threads, NEW here, NEW next \in Places, here \in Places,
         Goes(t, here, next)
  PROVE  /\ change' \in Changes
         /\ UNCHANGED <<camPc, failed, current>>
<1>1. change[t] \in [pc : Places, want : Resolutions]
  BY DEF TypeOK, Changes, Goes, NoChange, Places
<1>2. QED  BY <1>1 DEF TypeOK, Changes, Goes

(* So does one that returns, and it records a resolution.                  *)
LEMMA ReturnsType ==
  ASSUME TypeOK, NEW t \in Threads, NEW ok \in BOOLEAN, change[t].pc # "none",
         Returns(t, ok)
  PROVE  /\ change' \in Changes
         /\ failed' \in BOOLEAN /\ current' \in Resolutions
         /\ camPc' = camPc \/ camPc' \in {"loop", "leave"}
<1>1. change[t] \in [pc : Places, want : Resolutions]
  BY DEF TypeOK, Changes, NoChange
<1>2. QED  BY <1>1 DEF TypeOK, Changes, Returns

(* No step of setResolution changes the type of a variable.                *)
LEMMA ChangeStepType ==
  ASSUME TypeOK, NEW t \in Threads, SetResolution(t)
  PROVE  TypeOK'
<1> DEFINE Returned == /\ change' \in Changes /\ failed' \in BOOLEAN
                       /\ current' \in Resolutions
                       /\ camPc' = camPc \/ camPc' \in {"loop", "leave"}
<1>1. ASSUME NEW here \in Places, NEW next \in Places, Goes(t, here, next)
      PROVE  Returned
  <2>1. change' \in Changes /\ UNCHANGED <<camPc, failed, current>>
    BY <1>1, GoesType
  <2>2. QED  BY <2>1 DEF TypeOK
<1>2. ASSUME NEW ok \in BOOLEAN, change[t].pc # "none", Returns(t, ok)
      PROVE  Returned
  BY <1>2, ReturnsType
<1>3. Returned
  BY <1>1, <1>2
  DEF SetResolution, Pause, Disable, Unmap, Close, Open, Setup, Free, Allocate, Enable, Places
<1> HIDE DEF Returned
<1>4. device' \in Devices
  <2> USE FirstSession, WithType DEF TypeOK
  <2>1. CASE Pause(t) \/ Unmap(t) \/ Free(t) \/ Allocate(t)
    BY <2>1 DEF Pause, Unmap, Free, Allocate
  <2>2. CASE Disable(t)  BY <2>2 DEF Disable, StreamedOff, IsOpen, State
  <2>3. CASE Close(t)  BY <2>3 DEF Close, IsOpen, State
  <2>4. CASE Open(t)  BY <2>4 DEF Open, Unused
  <2>5. CASE Setup(t)
    <3>1. CASE UNCHANGED device  BY <3>1
    <3>2. ASSUME IsOpen(fd), NEW r \in Resolutions,
                 device' = [device EXCEPT ![fd] = [state |-> "ready", size |-> r]]
          PROVE  device' \in Devices
      BY <3>2 DEF IsOpen, State, Devices
    <3>3. QED  BY <2>5, <3>1, <3>2 DEF Setup
  <2>6. CASE Enable(t)  BY <2>6 DEF Enable, StreamOn, StreamedOn, MayStream, State
  <2>7. QED  BY <2>1, <2>2, <2>3, <2>4, <2>5, <2>6 DEF SetResolution
<1>5. /\ fd' \in Sessions \cup {Gone} /\ mem' \in Sessions \cup {Gone}
      /\ streamingState' \in {"off", "on", "paused"}
  BY DEF SetResolution, Pause, Disable, Unmap, Close, Open, Setup, Free, Allocate, Enable,
         TypeOK, StreamOn, MayStream, IsOpen, Unused
<1>6. /\ width' \in Resolutions
      /\ tmpbuffer' \in Resolutions \cup {Gone}
  <2>1. change[t].pc = "close" => change[t].want \in Resolutions
    BY DEF TypeOK, Changes, NoChange
  <2>2. QED
    BY <2>1
    DEF SetResolution, Pause, Disable, Unmap, Close, Open, Setup, Free, Allocate, Enable,
        Goes, TypeOK
<1>7. /\ mixed' \in BOOLEAN /\ disturbed' \in BOOLEAN
      /\ UNCHANGED <<stop, process, videoIn, buf, got>>
  BY DEF SetResolution, Pause, Disable, Unmap, Close, Open, Setup, Free, Allocate, Enable,
         TypeOK
<1>8. QED  BY <1>3, <1>4, <1>5, <1>6, <1>7 DEF Returned, TypeOK

(* cam_thread may ask for a change of its own.                            *)
LEMMA CamChangesType ==
  ASSUME TypeOK, CamChanges
  PROVE  change' \in Changes /\ camPc' = "change"
BY DEF TypeOK, CamChanges, Changes, Places, NoChange, Threads

(* No step of cam_thread changes the type of a variable.                   *)
LEMMA CamStepType ==
  ASSUME TypeOK, CamNext
  PROVE  TypeOK'
<1> USE FirstSession, CamChangesType, WithType
        DEF TypeOK, CamAt, NoBuffer, vd, hist
<1>1. CASE CamStart  BY <1>1 DEF CamStart, StreamOn, StreamedOn, MayStream, State
<1>2. CASE CamLoop  BY <1>2 DEF CamLoop
<1>3. CASE CamGoesOn  BY <1>3 DEF CamGoesOn
<1>4. CASE CamSelect  BY <1>4 DEF CamSelect
<1>5. CASE CamGrab  BY <1>5 DEF CamGrab, State, Devices
<1>6. CASE CamCopy  BY <1>6 DEF CamCopy
<1>7. CASE CamRequeue  BY <1>7 DEF CamRequeue
<1>8. CASE CamPublish  BY <1>8 DEF CamPublish
<1>9. CASE CamAfter  BY <1>9 DEF CamAfter
<1>10. CASE CamLeave  BY <1>10 DEF CamLeave, StreamedOff, IsOpen, State
<1>11. CASE CamCancelled
  <2>1. change' \in Changes
    BY <1>11 DEF CamCancelled, Changes
  <2>2. failed' \in BOOLEAN
    BY <1>11 DEF CamCancelled
  <2>3. QED  BY <1>11, <2>1, <2>2 DEF CamCancelled
<1>12. QED
  BY <1>1, <1>2, <1>3, <1>4, <1>5, <1>6, <1>7, <1>8, <1>9, <1>10, <1>11 DEF CamNext

(* No request of a client, and no signal, changes the type of a variable.  *)
LEMMA RequestType ==
  ASSUME TypeOK,
         Stop \/ \E c \in Commanders : Command(c) \/ UseFreed(c)
  PROVE  TypeOK'
<1> USE DEF TypeOK, Changes, Places, NoChange, Threads, vd, hist
<1>1. CASE Stop  BY <1>1 DEF Stop
<1>2. ASSUME NEW c \in Commanders, Command(c)
      PROVE  TypeOK'
  BY <1>2 DEF Command
<1>3. ASSUME NEW c \in Commanders, UseFreed(c)
      PROVE  TypeOK'
  BY <1>3 DEF UseFreed
<1>4. QED  BY <1>1, <1>2, <1>3

(* Every variable keeps its type, for every instance of the device.        *)
THEOREM TypeCorrect == Spec => []TypeOK
<1>1. Init => TypeOK
  BY InitType
<1>2. TypeOK /\ [Next]_vars => TypeOK'
  <2> SUFFICES ASSUME TypeOK, [Next]_vars PROVE TypeOK'
    OBVIOUS
  <2>1. CASE UNCHANGED vars
    BY <2>1 DEF TypeOK, vars, vd, hist
  <2>2. QED
    BY <2>1, ChangeStepType, CamStepType, RequestType DEF Next
<1>3. QED
  BY <1>1, <1>2, PTL DEF Spec

(* A thread that goes on in setResolution is the one that changes the      *)
(* device; the others are where they were.                                 *)
LEMMA GoesOn ==
  ASSUME TypeOK, CamInv, NEW t \in Threads, NEW here \in Places,
         NEW next \in Places \ {"pause"}, Goes(t, here, next)
  PROVE  /\ Busy \subseteq {t} => Busy' = {t}
         /\ change'[t].pc = next
         /\ \A u \in Threads : u # t => change'[u] = change[u]
         /\ CamInv'
<1>1. change[t] \in [pc : Places, want : Resolutions]
  BY DEF TypeOK, Changes, Goes, NoChange, Places
<1>2. /\ change' = [change EXCEPT ![t] = [pc |-> next, want |-> change[t].want]]
      /\ camPc' = camPc
  BY DEF Goes
<1>3. change'[t] = [pc |-> next, want |-> change[t].want]
  BY <1>2 DEF TypeOK, Changes
<1>4. \A u \in Threads : u # t => change'[u] = change[u]
  BY <1>2 DEF TypeOK, Changes
<1>5. Busy \subseteq {t} => Busy' = {t}
  BY <1>3, <1>4 DEF Busy, Places
<1>6. change'[t] # NoChange /\ change[t] # NoChange
  BY <1>1, <1>3 DEF NoChange, Places
<1>7. CamInv'
  BY <1>2, <1>4, <1>6 DEF CamInv, Threads
<1>8. QED  BY <1>3, <1>4, <1>5, <1>7

(* When it returns nobody changes the device.                              *)
LEMMA ReturnsFree ==
  ASSUME TypeOK, CamInv, NEW t \in Threads, NEW ok \in BOOLEAN, Returns(t, ok),
         change[t].pc # "none"
  PROVE  /\ Busy \subseteq {t} => Busy' = {}
         /\ change'[t].pc = "none"
         /\ \A u \in Threads : u # t => change'[u] = change[u]
         /\ CamInv' /\ failed' = ~ok
<1>1. change' = [change EXCEPT ![t] = NoChange] /\ failed' = ~ok
  BY DEF Returns
<1>2. change'[t] = NoChange
  BY <1>1 DEF TypeOK, Changes
<1>3. \A u \in Threads : u # t => change'[u] = change[u]
  BY <1>1 DEF TypeOK, Changes
<1>4. Busy \subseteq {t} => Busy' = {}
  BY <1>2, <1>3 DEF Busy, NoChange
<1>5. CamInv'
  <2>1. CASE t = Camera  BY <1>2, <2>1 DEF CamInv, Returns
  <2>2. CASE t # Camera  BY <1>3, <2>2 DEF CamInv, Returns, Threads
  <2>3. QED  BY <2>1, <2>2
<1>6. QED  BY <1>1, <1>2, <1>3, <1>4, <1>5 DEF NoChange

(* A session that changes its state keeps its format, and leaves the       *)
(* others alone.                                                           *)
LEMMA WithState ==
  ASSUME TypeOK, NEW s \in Sessions, NEW state, device' = With(s, state)
  PROVE  /\ device'[s] = [state |-> state, size |-> device[s].size]
         /\ \A r \in Sessions : r # s => device'[r] = device[r]
         /\ \A r \in Sessions : device'[r].size = device[r].size
BY DEF TypeOK, Devices, With

(* Whatever the others do, a step of setResolution keeps what holds of two *)
(* changes at once: cam_thread knows when it is in one, and the first      *)
(* session has been used.                                                  *)
LEMMA ChangeStepMixed ==
  ASSUME TypeOK, CamInv, UsedInv, NEW t \in Threads, SetResolution(t)
  PROVE  CamInv' /\ UsedInv'
<1>1. ASSUME NEW here \in Places, NEW next \in Places \ {"pause"}, Goes(t, here, next)
      PROVE  CamInv'
  BY <1>1, GoesOn
<1>2. ASSUME NEW ok \in BOOLEAN, change[t].pc # "none", Returns(t, ok)
      PROVE  CamInv'
  BY <1>2, ReturnsFree
<1>3. CamInv'
  BY <1>1, <1>2
  DEF SetResolution, Pause, Disable, Unmap, Close, Open, Setup, Free, Allocate, Enable, Places
<1>4. ASSUME NEW s \in Sessions, NEW state \in {"open", "ready", "streams", "closed"},
             device' = With(s, state)
      PROVE  device'[1].state # "unused"
  <2>1. /\ device'[s] = [state |-> state, size |-> device[s].size]
        /\ \A r \in Sessions : r # s => device'[r] = device[r]
    BY <1>4, WithState
  <2>2. device'[s].state = state
    BY <2>1
  <2>3. QED  BY <2>1, <2>2, FirstSession DEF UsedInv
<1>5. device'[1].state # "unused"
  <2> USE DEF UsedInv
  <2>1. CASE Pause(t) \/ Unmap(t) \/ Free(t) \/ Allocate(t)
    BY <2>1 DEF Pause, Unmap, Free, Allocate
  <2>2. CASE Disable(t)  BY <1>4, <2>2 DEF Disable, StreamedOff, IsOpen, State, TypeOK
  <2>3. CASE Close(t)  BY <1>4, <2>3 DEF Close, IsOpen, State, TypeOK
  <2>4. CASE Open(t)  BY <1>4, <2>4 DEF Open, Unused
  <2>5. CASE Setup(t)
    <3>1. CASE UNCHANGED device  BY <3>1
    <3>2. ASSUME NEW r \in Resolutions,
                 device' = [device EXCEPT ![fd] = [state |-> "ready", size |-> r]]
          PROVE  device'[1].state # "unused"
      BY <3>2, FirstSession DEF TypeOK, Devices
    <3>3. QED  BY <2>5, <3>1, <3>2 DEF Setup
  <2>6. CASE Enable(t)  BY <1>4, <2>6 DEF Enable, StreamOn, StreamedOn, MayStream, State, TypeOK
  <2>7. QED  BY <2>1, <2>2, <2>3, <2>4, <2>5, <2>6 DEF SetResolution
<1>6. QED  BY <1>3, <1>5 DEF UsedInv

(* The thread that changes the device does so alone.                       *)
LEMMA Alone ==
  ASSUME TypeOK, AloneInv, NEW t \in Threads, change[t].pc \notin {"none", "pause"}
  PROVE  /\ Busy = {t} /\ streamingState = "paused"
         /\ \A u \in Threads : u # t => change[u].pc \in {"none", "pause"}
BY DEF AloneInv, Busy

(* What a change that goes on has to see to.                               *)
LEMMA GoesUnmixed ==
  ASSUME TypeOK, CamInv, Unmixed, NEW t \in Threads,
         NEW here \in Places \ {"pause"}, NEW next \in Places \ {"pause"}, Goes(t, here, next),
         streamingState' = "paused", UNCHANGED <<disturbed, buf>>,
         device'[1].size = device[1].size,
         (\A s \in Sessions : IsOpen(s) => s = fd)',
         next = "open" => (\A s \in Sessions : ~IsOpen(s))',
         next = "setup" => fd' # 1,
         ChangeInv(t)'
  PROVE  Unmixed'
<1>1. change[t].pc \notin {"none", "pause"} /\ UNCHANGED <<camPc, failed>>
  BY DEF Goes, Places
<1>2. Busy = {t} /\ \A u \in Threads : u # t => change[u].pc \in {"none", "pause"}
  BY <1>1, Alone DEF Unmixed
<1>3. /\ Busy' = {t} /\ change'[t].pc = next
      /\ \A u \in Threads : u # t => change'[u] = change[u]
  BY <1>2, GoesOn
<1>4. AloneInv' /\ FailedInv' /\ SettledInv'
  BY <1>3 DEF AloneInv, FailedInv, SettledInv
<1>5. GrabInv'
  BY <1>1, <1>2 DEF Unmixed, GrabInv
<1>6. SessionInv'
  BY <1>2, <1>3 DEF SessionInv
<1>7. \A u \in Threads : ChangeInv(u)'
  BY <1>2, <1>3 DEF ChangeInv
<1>8. QED
  BY <1>1, <1>4, <1>5, <1>6, <1>7 DEF Unmixed

(* What a change that returns has to see to.                               *)
LEMMA ReturnsUnmixed ==
  ASSUME TypeOK, CamInv, Unmixed, NEW t \in Threads, NEW ok \in BOOLEAN,
         change[t].pc \notin {"none", "pause"}, Returns(t, ok),
         UNCHANGED <<disturbed, buf>>, device'[1].size = device[1].size,
         (\A s \in Sessions : IsOpen(s) => s = fd)',
         ok => (Fitted /\ State(fd) = "streams" /\ (camPc # "done" => tmpbuffer = width))',
         ~ok => streamingState' = "paused"
  PROVE  Unmixed'
<1>1. Busy = {t} /\ \A u \in Threads : u # t => change[u].pc \in {"none", "pause"}
  BY Alone DEF Unmixed
<1>2. /\ Busy' = {} /\ change'[t].pc = "none" /\ failed' = ~ok
      /\ \A u \in Threads : u # t => change'[u] = change[u]
  BY <1>1, ReturnsFree
<1>3. camPc' = camPc \/ camPc' \in {"loop", "leave"}
  BY DEF Returns
<1>4. AloneInv' /\ FailedInv' /\ SettledInv'
  BY <1>2 DEF AloneInv, FailedInv, SettledInv
<1>5. GrabInv'
  BY <1>1, <1>3 DEF Unmixed, GrabInv, Past
<1>6. SessionInv'
  BY <1>1, <1>2 DEF SessionInv
<1>7. \A u \in Threads : ChangeInv(u)'
  BY <1>1, <1>2 DEF ChangeInv
<1>8. camPc' # "done" => camPc # "done"
  BY DEF Returns, TypeOK, CamInv, NoChange
<1>9. QED
  BY <1>4, <1>5, <1>6, <1>7, <1>8 DEF Unmixed

(* A change that goes on alone keeps what holds without a second one.      *)
LEMMA ChangeStepUnmixed ==
  ASSUME TypeOK, TypeOK', CamInv, UsedInv, Unmixed, NEW t \in Threads, SetResolution(t), ~mixed'
  PROVE  Unmixed'
<1>1. CASE Pause(t)
  <2>1. /\ Goes(t, "pause", "disable") /\ Busy = {} /\ streamingState' = "paused"
        /\ disturbed' = (disturbed \/ t # Camera)
        /\ UNCHANGED <<fd, width, mem, tmpbuffer, buf, device, got, camPc, failed>>
    BY <1>1 DEF Pause, Goes
  <2>2. /\ Busy' = {t} /\ change'[t].pc = "disable"
        /\ \A u \in Threads : u # t => change'[u] = change[u]
    BY <2>1, GoesOn DEF Places
  <2>3. t = Camera => camPc \notin Past
    BY <2>1 DEF CamInv, Goes, NoChange, Past
  <2>4. AloneInv' /\ FailedInv' /\ SettledInv'
    BY <2>1, <2>2 DEF AloneInv, FailedInv, SettledInv
  <2>5. GrabInv'
    BY <2>1, <2>3 DEF GrabInv, TypeOK
  <2>6. SessionInv' /\ \A u \in Threads : ChangeInv(u)'
    BY <2>1, <2>2 DEF Unmixed, SessionInv, ChangeInv, Fitted, IsOpen, State
  <2>7. QED  BY <2>1, <2>4, <2>5, <2>6 DEF Unmixed
<1> DEFINE OneOpen == \A s \in Sessions : IsOpen(s) => s = fd
           Inside == change[t].pc \notin {"none", "pause"}
<1>2. /\ OneOpen
      /\ Inside => streamingState = "paused"
      /\ change[t].pc = "open" => \A s \in Sessions : ~IsOpen(s)
      /\ change[t].pc = "setup" => fd # 1
      /\ ChangeInv(t)
  BY Alone DEF Unmixed, SessionInv
<1>3. CASE Disable(t)
  <2>1. Inside /\ streamingState' = "paused" /\ UNCHANGED <<disturbed, buf, fd>>
    BY <1>2, <1>3 DEF Disable, Goes
  <2>2. CASE Returns(t, FALSE) /\ UNCHANGED device
    <3>1. OneOpen'
      BY <1>2, <2>1, <2>2 DEF IsOpen, State
    <3>2. QED  BY <2>1, <2>2, <3>1, ReturnsUnmixed
  <2>3. CASE IsOpen(fd) /\ Goes(t, "disable", "unmap") /\ device' = StreamedOff
    <3>1. fd \in Sessions
      BY <2>3 DEF IsOpen, State, TypeOK
    <3>2. /\ \A r \in Sessions : r # fd => device'[r] = device[r]
          /\ device'[1].size = device[1].size
      BY <2>3, <3>1, WithState, FirstSession DEF StreamedOff
    <3>3. OneOpen'
      BY <1>2, <2>1, <3>2 DEF IsOpen, State
    <3>4. change'[t].pc = "unmap"
      BY <2>3, GoesOn DEF Places
    <3>5. QED
      BY <2>1, <2>3, <3>2, <3>3, <3>4, GoesUnmixed DEF Places, ChangeInv
  <2>4. QED  BY <1>3, <2>2, <2>3 DEF Disable
<1>4. CASE Unmap(t)
  <2>1. Inside /\ streamingState' = "paused" /\ UNCHANGED <<disturbed, buf, fd, device>>
        /\ Goes(t, "unmap", "close")
    BY <1>2, <1>4 DEF Unmap, Goes
  <2>2. OneOpen' /\ change'[t].pc = "close"
    BY <1>2, <2>1, GoesOn DEF IsOpen, State, Places
  <2>3. QED  BY <2>1, <2>2, GoesUnmixed DEF Places, ChangeInv
<1>5. CASE Close(t)
  <2>1. Inside /\ streamingState' = "paused" /\ UNCHANGED <<disturbed, buf, fd>>
        /\ Goes(t, "close", "open")
    BY <1>2, <1>5 DEF Close, Goes
  <2>2. change'[t].pc = "open"
    BY <2>1, GoesOn DEF Places
  <2>3. device'[1].size = device[1].size /\ (\A s \in Sessions : ~IsOpen(s))'
    <3>1. CASE IsOpen(fd)
      <4>1. fd \in Sessions /\ device' = With(fd, "closed")
        BY <1>5, <3>1 DEF Close, IsOpen, State, TypeOK
      <4>2. /\ device'[fd] = [state |-> "closed", size |-> device[fd].size]
            /\ \A r \in Sessions : r # fd => device'[r] = device[r]
            /\ device'[1].size = device[1].size
        BY <4>1, WithState, FirstSession
      <4>3. QED  BY <1>2, <4>2 DEF IsOpen, State
    <3>2. CASE ~IsOpen(fd)
      BY <1>2, <1>5, <3>2 DEF Close, IsOpen, State
    <3>3. QED  BY <3>1, <3>2
  <2>4. QED  BY <2>1, <2>2, <2>3, GoesUnmixed DEF Places, ChangeInv
<1>6. CASE Open(t)
  <2>1. Inside /\ streamingState' = "paused" /\ UNCHANGED <<disturbed, buf>>
        /\ change[t].pc = "open"
    BY <1>2, <1>6 DEF Open, Goes
  <2>2. CASE Returns(t, FALSE) /\ UNCHANGED device
    <3>1. OneOpen'
      BY <1>2, <2>1, <2>2 DEF IsOpen, State
    <3>2. QED  BY <2>1, <2>2, <3>1, ReturnsUnmixed
  <2>3. ASSUME NEW s \in Unused, Goes(t, "open", "setup"), fd' = s, device' = With(s, "open")
        PROVE  Unmixed'
    <3>1. s \in Sessions /\ s # 1
      BY DEF Unused, UsedInv
    <3>2. /\ \A r \in Sessions : r # s => device'[r] = device[r]
          /\ device'[1].size = device[1].size
      BY <2>3, <3>1, WithState, FirstSession
    <3>3. OneOpen'
      BY <1>2, <2>1, <2>3, <3>2 DEF IsOpen, State
    <3>4. change'[t].pc = "setup"
      BY <2>3, GoesOn DEF Places
    <3>5. QED
      BY <2>1, <2>3, <3>1, <3>2, <3>3, <3>4, GoesUnmixed DEF Places, ChangeInv
  <2>4. QED  BY <1>6, <2>2, <2>3 DEF Open
<1>7. CASE Setup(t)
  <2>1. Inside /\ streamingState' = "paused" /\ UNCHANGED <<disturbed, buf, fd>>
        /\ change[t].pc = "setup" /\ fd # 1
    BY <1>2, <1>7 DEF Setup, Goes
  <2>2. CASE Returns(t, FALSE) /\ UNCHANGED device
    <3>1. OneOpen'
      BY <1>2, <2>1, <2>2 DEF IsOpen, State
    <3>2. QED  BY <2>1, <2>2, <3>1, ReturnsUnmixed
  <2>3. ASSUME IsOpen(fd), Goes(t, "setup", "free"), mem' = fd,
               NEW r \in Resolutions, width' = r,
               device' = [device EXCEPT ![fd] = [state |-> "ready", size |-> r]]
        PROVE  Unmixed'
    <3>1. fd \in Sessions
      BY <2>3 DEF IsOpen, State, TypeOK
    <3>2. /\ device'[fd] = [state |-> "ready", size |-> r]
          /\ \A u \in Sessions : u # fd => device'[u] = device[u]
      BY <2>3, <3>1 DEF TypeOK, Devices
    <3>3. OneOpen'
      BY <1>2, <2>1, <3>2 DEF IsOpen, State
    <3>4. (Fitted /\ State(fd) = "ready")'
      BY <2>1, <2>3, <3>1, <3>2, FirstSession DEF Fitted, State
    <3>5. change'[t].pc = "free" /\ device'[1].size = device[1].size
      BY <2>1, <2>3, <3>2, GoesOn, FirstSession DEF Places
    <3>6. QED
      BY <2>1, <2>3, <3>3, <3>4, <3>5, GoesUnmixed DEF Places, ChangeInv
  <2>4. QED  BY <1>7, <2>2, <2>3 DEF Setup
<1>8. CASE Free(t)
  <2>1. Inside /\ streamingState' = "paused" /\ Goes(t, "free", "allocate")
        /\ UNCHANGED <<disturbed, buf, fd, mem, width, device>>
    BY <1>2, <1>8 DEF Free, Goes
  <2>2. OneOpen' /\ change'[t].pc = "allocate"
    BY <1>2, <2>1, GoesOn DEF IsOpen, State, Places
  <2>3. (Fitted /\ State(fd) = "ready")'
    BY <1>2, <2>1 DEF ChangeInv, Goes, Fitted, State
  <2>4. QED  BY <2>1, <2>2, <2>3, GoesUnmixed DEF Places, ChangeInv
<1>9. CASE Allocate(t)
  <2>1. Inside /\ streamingState' = "paused" /\ change[t].pc = "allocate"
        /\ UNCHANGED <<disturbed, buf, fd, mem, width, device>>
    BY <1>2, <1>9 DEF Allocate, Goes
  <2>2. OneOpen' /\ (Fitted /\ State(fd) = "ready")'
    BY <1>2, <2>1 DEF ChangeInv, Fitted, IsOpen, State
  <2>3. CASE Returns(t, FALSE)
    BY <2>1, <2>2, <2>3, ReturnsUnmixed
  <2>4. CASE Goes(t, "allocate", "enable") /\ tmpbuffer' = width
    <3>1. change'[t].pc = "enable"
      BY <2>4, GoesOn DEF Places
    <3>2. QED  BY <2>1, <2>2, <2>4, <3>1, GoesUnmixed DEF Places, ChangeInv
  <2>5. QED  BY <1>9, <2>3, <2>4 DEF Allocate
<1>10. CASE Enable(t)
  <2>1. Inside /\ change[t].pc = "enable"
        /\ UNCHANGED <<disturbed, buf, fd, mem, width, tmpbuffer>>
    BY <1>10 DEF Enable
  <2>2. /\ Fitted /\ State(fd) = "ready"
        /\ camPc # "done" => tmpbuffer = width
    BY <1>2, <2>1 DEF ChangeInv
  <2>3. CASE Returns(t, FALSE) /\ UNCHANGED <<device, streamingState>>
    <3>1. OneOpen' /\ streamingState' = "paused"
      BY <1>2, <2>1, <2>3 DEF IsOpen, State
    <3>2. QED  BY <2>1, <2>3, <3>1, ReturnsUnmixed
  <2>4. CASE StreamOn /\ Returns(t, TRUE)
    <3>1. fd \in Sessions /\ device' = With(fd, "streams")
      BY <2>2, <2>4 DEF Fitted, StreamOn, StreamedOn
    <3>2. /\ device'[fd] = [state |-> "streams", size |-> device[fd].size]
          /\ \A r \in Sessions : r # fd => device'[r] = device[r]
          /\ device'[1].size = device[1].size
      BY <3>1, WithState, FirstSession
    <3>3. OneOpen'
      BY <1>2, <2>1, <3>2 DEF IsOpen, State
    <3>4. (Fitted /\ State(fd) = "streams")'
      BY <2>1, <2>2, <3>1, <3>2, FirstSession DEF Fitted, State
    <3>5. camPc' # "done" => camPc # "done"
      BY <2>1, <2>4 DEF Returns, CamInv, NoChange
    <3>6. QED  BY <2>1, <2>2, <2>4, <3>2, <3>3, <3>4, <3>5, ReturnsUnmixed
  <2>5. QED  BY <1>10, <2>3, <2>4 DEF Enable
<1>11. QED
  BY <1>1, <1>3, <1>4, <1>5, <1>6, <1>7, <1>8, <1>9, <1>10 DEF SetResolution

(* No step of setResolution disturbs the invariant.                        *)
LEMMA ChangeStepInv ==
  ASSUME IInv, NEW t \in Threads, SetResolution(t)
  PROVE  IInv'
<1>1. TypeOK'
  BY ChangeStepType DEF IInv
<1>2. CamInv' /\ UsedInv'
  BY ChangeStepMixed DEF IInv
<1>3. ~mixed' => ~mixed
  BY DEF SetResolution, Pause, Disable, Unmap, Close, Open, Setup, Free, Allocate, Enable
<1>4. QED
  BY <1>1, <1>2, <1>3, ChangeStepUnmixed DEF IInv

(* cam_thread is one of the threads.                                       *)
LEMMA CameraThread == Camera \in Threads
BY DEF Threads

(* A step that neither touches the device nor takes a thread into or out   *)
(* of the part of setResolution that does.                                 *)
LEMMA Elsewhere ==
  ASSUME IInv, TypeOK', CamInv',
         UNCHANGED <<streamingState, fd, width, mem, tmpbuffer, buf, device, mixed, failed>>,
         \A u \in Threads : \/ change'[u].pc = change[u].pc
                            \/ {change'[u].pc, change[u].pc} \subseteq {"none", "pause"},
         camPc' # "done" => camPc # "done",
         camPc \in {"start", "leave", "done"} => camPc' = camPc,
         ~mixed => GrabInv'
  PROVE  IInv'
<1>1. UsedInv' /\ Busy' = Busy
  BY DEF IInv, UsedInv, Busy
<1>2. ASSUME ~mixed
      PROVE  AloneInv' /\ FailedInv' /\ SettledInv'
  BY <1>1, <1>2 DEF IInv, Unmixed, AloneInv, FailedInv, SettledInv, Fitted, State
<1>3. ASSUME ~mixed
      PROVE  SessionInv' /\ \A u \in Threads : ChangeInv(u)'
  BY <1>3 DEF IInv, Unmixed, SessionInv, ChangeInv, Fitted, IsOpen, State
<1>4. QED  BY <1>1, <1>2, <1>3 DEF IInv, Unmixed

(* cam_thread begins a change.                                             *)
LEMMA ChangeBegins ==
  ASSUME IInv, TypeOK', CamChanges, camPc \notin {"change", "start", "leave", "done"},
         UNCHANGED <<streamingState, fd, width, mem, tmpbuffer, buf, device, mixed, failed>>
  PROVE  IInv'
<1>1. /\ change'[Camera] = [pc |-> "pause", want |-> width] /\ camPc' = "change"
      /\ \A u \in Threads : u # Camera => change'[u] = change[u]
  BY CameraThread DEF CamChanges, IInv, TypeOK, Changes
<1>2. change[Camera] = NoChange
  BY DEF IInv, CamInv
<1>3. change[Camera].pc = "none" /\ change'[Camera].pc = "pause"
  BY <1>1, <1>2 DEF NoChange
<1>4. CamInv' /\ GrabInv'
  BY <1>1, <1>3 DEF CamInv, NoChange, GrabInv, Past
<1>5. QED  BY <1>1, <1>3, <1>4, Elsewhere

(* No step of cam_thread disturbs the invariant.                           *)
LEMMA CamStepInv ==
  ASSUME IInv, CamNext
  PROVE  IInv'
<1> USE DEF IInv, CamInv, UsedInv, CamAt, vd, hist
<1>0. TypeOK'
  BY CamStepType
<1>1. CASE CamStart
  <2>1. /\ CamInv' /\ UNCHANGED <<change, fd, width, mem, tmpbuffer, buf, got, disturbed, failed>>
        /\ camPc = "start" /\ camPc' \in {"loop", "leave"}
        /\ ~mixed' => ~mixed /\ Busy = {} /\ ~failed
    BY <1>1 DEF CamStart
  <2>2. CASE UNCHANGED <<device, streamingState>>
    BY <1>0, <2>1, <2>2
    DEF Unmixed, AloneInv, SessionInv, FailedInv, SettledInv, GrabInv, ChangeInv, Fitted,
        Past, Busy, IsOpen, State
  <2>3. CASE StreamOn
    <3>1. fd \in Sessions /\ device' = With(fd, "streams") /\ streamingState' = "on"
      BY <2>3 DEF StreamOn, StreamedOn, MayStream, State, TypeOK
    <3>2. /\ device'[fd] = [state |-> "streams", size |-> device[fd].size]
          /\ \A r \in Sessions : r # fd => device'[r] = device[r]
          /\ device'[1].size = device[1].size
      BY <3>1, WithState, FirstSession
    <3>3. UsedInv'
      BY <3>2, FirstSession
    <3>4. ASSUME ~mixed'
          PROVE  Unmixed'
      <4>1. Unmixed /\ Busy = {} /\ Busy' = {}
        BY <2>1, <3>4 DEF Busy
      <4>2. IsOpen(fd)
        BY <2>3, <3>1 DEF StreamOn, MayStream, IsOpen
      <4>3. AloneInv' /\ FailedInv' /\ GrabInv'
        BY <2>1, <3>4, <4>1 DEF AloneInv, FailedInv, GrabInv, Past
      <4>4. \A u \in Threads : change[u].pc \in {"none", "pause"}
        BY <4>1 DEF Busy
      <4>5. SessionInv' /\ \A u \in Threads : ChangeInv(u)'
        BY <2>1, <3>2, <4>1, <4>2, <4>4 DEF Unmixed, SessionInv, ChangeInv, IsOpen, State
      <4>6. SettledInv'
        BY <2>1, <3>1, <3>2, <4>1, FirstSession DEF Unmixed, SettledInv, Fitted, State
      <4>7. QED  BY <2>1, <3>2, <4>1, <4>3, <4>5, <4>6 DEF Unmixed
    <3>5. QED  BY <1>0, <2>1, <3>3, <3>4
  <2>4. QED  BY <1>1, <2>2, <2>3 DEF CamStart
<1>2. CASE CamLoop
  <2>1. ~mixed => GrabInv'
    BY <1>2 DEF CamLoop, GrabInv, Past
  <2>2. QED  BY <1>0, <1>2, <2>1, Elsewhere DEF CamLoop
<1>3. CASE CamGoesOn
  <2>1. ~mixed => ~failed
    BY <1>3 DEF CamGoesOn, Unmixed, FailedInv
  <2>2. ~mixed => GrabInv'
    BY <1>3, <2>1 DEF CamGoesOn, GrabInv, Busy
  <2>3. QED  BY <1>0, <1>3, <2>2, Elsewhere DEF CamGoesOn
<1>4. CASE CamSelect
  <2>1. ~mixed => GrabInv /\ (~disturbed => Busy = {} /\ ~failed)
    BY <1>4 DEF CamSelect, Unmixed, GrabInv, Past
  <2>2. CASE UNCHANGED change /\ camPc' \in {"grab", "after", "loop", "leave"}
    <3>1. ~mixed => GrabInv'
      BY <1>4, <2>1, <2>2 DEF CamSelect, GrabInv, Busy
    <3>2. QED  BY <1>0, <1>4, <2>2, <3>1, Elsewhere DEF CamSelect
  <2>3. CASE CamChanges
    BY <1>0, <1>4, <2>3, ChangeBegins DEF CamSelect
  <2>4. QED  BY <1>4, <2>2, <2>3 DEF CamSelect
<1>5. CASE CamGrab
  <2>1. ~mixed => GrabInv'
    BY <1>5 DEF CamGrab, Unmixed, GrabInv, Past, Busy
  <2>2. QED  BY <1>0, <1>5, <2>1, Elsewhere DEF CamGrab
<1>6. CASE CamCopy
  <2>1. ~mixed => GrabInv'
    BY <1>6 DEF CamCopy, Unmixed, GrabInv, Past, Busy
  <2>2. QED  BY <1>0, <1>6, <2>1, Elsewhere DEF CamCopy
<1>7. CASE CamRequeue
  <2>1. ~mixed => GrabInv'
    BY <1>7 DEF CamRequeue, Unmixed, GrabInv, Past, Busy
  <2>2. QED  BY <1>0, <1>7, <2>1, Elsewhere DEF CamRequeue
<1>8. CASE CamPublish
  <2>1. ~mixed => GrabInv'
    BY <1>8 DEF CamPublish, Unmixed, GrabInv, Past, Busy
  <2>2. QED  BY <1>0, <1>8, <2>1, Elsewhere DEF CamPublish
<1>9. CASE CamAfter
  <2>1. CASE UNCHANGED change /\ camPc' = "loop"
    <3>1. ~mixed => GrabInv'
      BY <2>1 DEF GrabInv, Past
    <3>2. QED  BY <1>0, <1>9, <2>1, <3>1, Elsewhere DEF CamAfter
  <2>2. CASE CamChanges
    BY <1>0, <1>9, <2>2, ChangeBegins DEF CamAfter
  <2>3. QED  BY <1>9, <2>1, <2>2 DEF CamAfter
<1>10. CASE CamLeave
  <2>1. /\ camPc = "leave" /\ camPc' = "done" /\ CamInv'
        /\ UNCHANGED <<fd, width, mem, change, mixed, disturbed, failed>> /\ Busy' = Busy
    BY <1>10 DEF CamLeave, Busy
  <2>2. CASE UNCHANGED <<device, streamingState>>
    <3>1. ASSUME ~mixed
          PROVE  AloneInv' /\ SessionInv' /\ FailedInv' /\ SettledInv' /\ GrabInv'
      BY <2>1, <2>2, <3>1
      DEF Unmixed, AloneInv, SessionInv, FailedInv, SettledInv, GrabInv, Fitted, Past, IsOpen,
          State
    <3>2. ASSUME ~mixed
          PROVE  \A u \in Threads : ChangeInv(u)'
      BY <2>1, <2>2, <3>2 DEF Unmixed, ChangeInv, Fitted, State
    <3>3. QED  BY <1>0, <2>1, <2>2, <3>1, <3>2 DEF Unmixed
  <2>3. CASE streamingState = "on" /\ IsOpen(fd) /\ device' = StreamedOff /\ streamingState' = "off"
    <3>1. fd \in Sessions
      BY <2>3 DEF IsOpen, State, TypeOK
    <3>2. /\ \A r \in Sessions : r # fd => device'[r] = device[r]
          /\ \A r \in Sessions : device'[r].size = device[r].size
          /\ device'[fd] = device[fd] \/ device'[fd] = [state |-> "ready", size |-> device[fd].size]
      BY <2>3, <3>1, WithState DEF StreamedOff
    <3>3. /\ State(fd)' \in {"open", "ready"}
          /\ State(fd) # "open" => State(fd)' = "ready"
      <4>1. CASE State(fd) = "open"
        BY <2>1, <2>3, <4>1 DEF StreamedOff, State
      <4>2. CASE State(fd) # "open"
        <5>1. device'[fd] = [state |-> "ready", size |-> device[fd].size]
          BY <2>3, <3>1, <4>2, WithState DEF StreamedOff
        <5>2. QED  BY <2>1, <3>1, <5>1, FirstSession DEF State
      <4>3. QED  BY <4>1, <4>2
    <3>4. UsedInv'
      <4>1. CASE fd = 1  BY <3>3, <4>1, <2>1, FirstSession DEF State
      <4>2. CASE fd # 1  BY <3>2, <4>2, FirstSession
      <4>3. QED  BY <4>1, <4>2
    <3>5. ASSUME ~mixed
          PROVE  Unmixed'
      <4>1. Busy = {} /\ Busy' = {} /\ \A u \in Threads : change[u].pc \in {"none", "pause"}
        BY <2>1, <2>3, <3>5 DEF Unmixed, AloneInv, Busy
      <4>2. AloneInv' /\ FailedInv' /\ GrabInv'
        BY <2>1, <4>1 DEF AloneInv, FailedInv, GrabInv, Past
      <4>3. SessionInv' /\ \A u \in Threads : ChangeInv(u)'
        BY <2>1, <2>3, <3>2, <3>5, <4>1 DEF Unmixed, SessionInv, ChangeInv, IsOpen, State
      <4>4. SettledInv'
        BY <2>1, <2>3, <3>1, <3>2, <3>3, <3>5, <4>1 DEF Unmixed, SettledInv, Fitted
      <4>5. QED  BY <2>1, <4>2, <4>3, <4>4 DEF Unmixed
    <3>6. QED  BY <1>0, <2>1, <3>4, <3>5
  <2>4. QED  BY <1>10, <2>2, <2>3 DEF CamLeave
<1>11. CASE CamCancelled
  <2>1. /\ camPc' = "leave" /\ change'[Camera] = NoChange
        /\ \A u \in Threads : u # Camera => change'[u] = change[u]
        /\ UNCHANGED <<streamingState, fd, width, mem, tmpbuffer, buf, device, mixed>>
        /\ CamInv' /\ UsedInv'
    BY <1>11, CameraThread DEF CamCancelled, TypeOK, Changes
  <2>2. change[Camera] # NoChange => failed' = TRUE
    BY <1>11, CameraThread DEF CamCancelled, TypeOK, Changes, NoChange, Places
  <2>3. change[Camera] = NoChange => failed' = failed /\ camPc # "done"
    BY <1>11 DEF CamCancelled, NoChange, TypeOK
  <2>4. Busy' \subseteq Busy
    BY <2>1 DEF Busy, NoChange
  <2>5. change[Camera] = NoChange => Busy' = Busy
    BY <2>1, CameraThread DEF Busy
  <2>6. ASSUME ~mixed
        PROVE  Unmixed'
    <3>1. AloneInv' /\ FailedInv' /\ GrabInv'
      BY <2>1, <2>4, <2>6 DEF Unmixed, AloneInv, FailedInv, GrabInv, Past
    <3>2. \A u \in Threads : change'[u].pc \in {change[u].pc, "none"}
      BY <2>1 DEF NoChange
    <3>3. SessionInv'
      BY <2>1, <2>6, <3>2 DEF Unmixed, SessionInv, IsOpen, State
    <3>4. ASSUME NEW u \in Threads
          PROVE  ChangeInv(u)'
      <4>1. ChangeInv(u) /\ camPc' # "done" /\ (change[Camera] = NoChange => camPc # "done")
        BY <2>1, <2>3, <2>6 DEF Unmixed
      <4>2. change[Camera] # NoChange => camPc # "done"
        BY DEF CamInv
      <4>3. QED  BY <2>1, <3>2, <4>1, <4>2 DEF ChangeInv, Fitted, State
    <3>5. SettledInv'
      BY <2>1, <2>2, <2>3, <2>5, <2>6 DEF Unmixed, SettledInv, Fitted, State
    <3>6. camPc # "done"
      BY <1>11, CameraThread DEF CamCancelled, NoChange, CamInv
    <3>7. QED  BY <2>1, <2>6, <3>1, <3>5, <3>6, <3>3, <3>4 DEF Unmixed
  <2>7. QED  BY <1>0, <2>1, <2>6
<1>12. QED
  BY <1>1, <1>2, <1>3, <1>4, <1>5, <1>6, <1>7, <1>8, <1>9, <1>10, <1>11 DEF CamNext

(* Nor does a request of a client, or a signal.                            *)
LEMMA RequestInv ==
  ASSUME IInv,
         Stop \/ \E c \in Commanders : Command(c) \/ UseFreed(c)
  PROVE  IInv'
<1> USE DEF vd, hist
<1>0. TypeOK'
  BY RequestType DEF IInv
<1>1. ASSUME UNCHANGED <<vd, buf, device, camPc, got, change, hist>>
      PROVE  IInv'
  <2>1. CamInv'
    BY <1>1 DEF IInv, CamInv
  <2>2. ~mixed => GrabInv'
    BY <1>1 DEF IInv, Unmixed, GrabInv, Busy
  <2>3. QED  BY <1>0, <1>1, <2>1, <2>2, Elsewhere
<1>2. ASSUME NEW c \in Commanders, NEW r \in Resolutions, change[c] = NoChange,
             change' = [change EXCEPT ![c] = [pc |-> "pause", want |-> r]],
             UNCHANGED <<vd, buf, device, camPc, got, hist>>
      PROVE  IInv'
  <2>1. /\ change'[c] = [pc |-> "pause", want |-> r] /\ c \in Threads /\ c # Camera
        /\ \A u \in Threads : u # c => change'[u] = change[u]
    BY <1>2, UvcDeviceAssumption DEF Threads, IInv, TypeOK, Changes
  <2>2. change[c].pc = "none" /\ change'[c].pc = "pause"
    BY <1>2, <2>1 DEF NoChange
  <2>3. CamInv' /\ Busy' = Busy
    BY <1>2, <2>1, <2>2, CameraThread DEF IInv, CamInv, Busy
  <2>4. ~mixed => GrabInv'
    BY <1>2, <2>3 DEF IInv, Unmixed, GrabInv
  <2>5. QED  BY <1>0, <1>2, <2>1, <2>2, <2>3, <2>4, Elsewhere
<1>3. QED  BY <1>1, <1>2 DEF Stop, Command, UseFreed

(* The invariant holds: what vd, the driver and the threads know of the    *)
(* device agrees.                                                          *)
THEOREM Invariance == Spec => []IInv
<1>1. Init => IInv
  <2> SUFFICES ASSUME Init PROVE IInv
    OBVIOUS
  <2>1. TypeOK
    BY InitType
  <2>2. /\ device[1] = [state |-> "ready", size |-> width] /\ Busy = {}
        /\ \A s \in Sessions : IsOpen(s) => s = fd
    BY FirstSession DEF Init, Busy, NoChange, IsOpen, State
  <2>3. State(fd) = "ready" /\ Fitted
    BY <2>2, FirstSession DEF Init, State, Fitted
  <2>4. CamInv /\ UsedInv
    BY <2>2, CameraThread DEF Init, CamInv, UsedInv
  <2>5. \A t \in Threads : change[t].pc = "none"
    BY DEF Init, NoChange
  <2>6. Unmixed
    BY <2>2, <2>3, <2>5
    DEF Init, Unmixed, AloneInv, SessionInv, FailedInv, SettledInv, GrabInv, Past, ChangeInv
  <2>7. QED  BY <2>1, <2>4, <2>6 DEF IInv
<1>2. IInv /\ [Next]_vars => IInv'
  <2> SUFFICES ASSUME IInv, [Next]_vars PROVE IInv'
    OBVIOUS
  <2>1. CASE UNCHANGED vars
    BY <2>1
    DEF vars, vd, hist, IInv, TypeOK, CamInv, UsedInv, Unmixed, AloneInv, SessionInv,
        FailedInv, SettledInv, GrabInv, ChangeInv, Fitted, Busy, IsOpen, State
  <2>2. QED
    BY <2>1, ChangeStepInv, CamStepInv, RequestInv DEF Next
<1>3. QED
  BY <1>1, <1>2, PTL DEF Spec

(* Whatever sequence of changes, failures and repeated attempts went       *)
(* before: once the device streams and nobody is changing it, there is one *)
(* open session, mapped, with memory for the format it was granted, unless *)
(* two threads changed it at once or cam_thread began after a failure.     *)
THEOREM StreamsWholeHolds == Spec => []StreamsWhole
<1>1. IInv => StreamsWhole
  <2> SUFFICES ASSUME IInv, Busy = {}, ~mixed, streamingState = "on", camPc \in Grabbing
               PROVE  /\ State(fd) = "streams" /\ mem = fd
                      /\ width = device[fd].size /\ tmpbuffer = width
                      /\ \A s \in Sessions : IsOpen(s) => s = fd
    BY DEF StreamsWhole
  <2>1. ~failed /\ camPc # "done"
    BY DEF IInv, Unmixed, FailedInv, Grabbing
  <2>2. QED  BY <2>1 DEF IInv, Unmixed, SettledInv, SessionInv, Fitted
<1>2. QED
  BY <1>1, Invariance, PTL

(* Whatever changes and failures went before, and for pictures of any      *)
(* size: cam_thread copies from a mapping that is there into a tmpbuffer   *)
(* that is large enough, unless a client began a change past the test of   *)
(* the pause, two threads changed the device at once, or cam_thread began  *)
(* after a failed change.  in->buf, which is too small for a resolution    *)
(* larger than the first, is not part of it.                               *)
THEOREM CopiesFitHolds == Spec => []CopiesFit
<1>1. IInv => CopiesFit
  <2> SUFFICES ASSUME IInv, ~disturbed, ~mixed, camPc \in {"copy", "publish"}
               PROVE  /\ camPc = "copy" => GrabFits
                      /\ camPc = "publish" => tmpbuffer >= got.size
    BY DEF CopiesFit
  <2>1. /\ Busy = {} /\ ~failed /\ got.session = fd /\ got.size = device[fd].size
    BY DEF IInv, Unmixed, GrabInv, Past
  <2>2. /\ mem = fd /\ width = device[fd].size /\ tmpbuffer = width
    BY <2>1 DEF IInv, Unmixed, SettledInv, Fitted
  <2>3. width \in Nat
    BY UvcDeviceAssumption DEF IInv, TypeOK
  <2>4. QED  BY <2>1, <2>2, <2>3 DEF GrabFits
<1>2. QED
  BY <1>1, Invariance, PTL
=============================================================================
