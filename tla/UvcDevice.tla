----------------------------- MODULE UvcDevice -----------------------------
(***************************************************************************)
(* The video device behind the UVC input plugin (plugins/input_uvc) and    *)
(* the threads that change it.  cam_thread grabs pictures from it.  An     *)
(* HTTP client thread that runs input_cmd may change the resolution:       *)
(* setResolution pauses, stops, closes and reopens the device and replaces *)
(* its buffers, with no lock.  With -dv_timings cam_thread changes the     *)
(* device too, after a timeout or when the source has changed.             *)
(* A session is one opening of the device.  A resolution is a number, and  *)
(* so is the size of a buffer: that of the largest picture it can hold.    *)
(* FrameStore has what happens to a picture once it is in the store.       *)
(***************************************************************************)
EXTENDS Integers, FiniteSets

CONSTANTS
  Commanders,   (* client threads that run input_cmd                      *)
  Camera,       (* cam_thread                                             *)
  Resolutions,  (* what the device supports                               *)
  MaxSession,   (* bound: how often the device is opened                  *)
  DvTimings,    (* option -dv_timings                                     *)
  Faults        (* the driver, or malloc, may fail; the program may stop  *)

ASSUME UvcDeviceAssumption ==
  /\ Camera \notin Commanders
  /\ Resolutions \subseteq Nat \ {0} /\ IsFiniteSet(Resolutions) /\ Resolutions # {}
  /\ MaxSession \in Nat \ {0}
  /\ DvTimings \in BOOLEAN /\ Faults \in BOOLEAN

Threads  == Commanders \cup {Camera}
Sessions == 1..MaxSession
Gone     == 0     (* a freed buffer, no mapping, no descriptor *)

VARIABLES
  stop, process,  (* global.stop; whether the program runs or has crashed  *)
  streamingState, (* vd->streamingState                                    *)
  fd,             (* vd->fd: the session                                   *)
  width,          (* vd->width and height                                  *)
  mem,            (* the session that vd->mem[] maps                       *)
  tmpbuffer,      (* size of vd->tmpbuffer and vd->framebuffer             *)
  videoIn,        (* whether the context still has vd                      *)
  buf,            (* size of in->buf, which input_run allocates            *)
  current,        (* in->in_formats[].currentResolution                    *)
  device,         (* the driver: what each session is, and its format      *)
  camPc, got,     (* where cam_thread is; the buffer it has dequeued       *)
  change,         (* where each thread is in setResolution                 *)
  mixed,          (* history: two threads have changed the device at once, *)
                  (* or cam_thread began on what a failed change had left  *)
  disturbed,      (* history: a client has begun a change since cam_thread *)
                  (* last saw that there was no pause                      *)
  failed          (* history: the last change has failed                   *)

vd   == <<streamingState, fd, width, mem, tmpbuffer, videoIn>>
hist == <<mixed, disturbed, failed>>
vars == <<stop, process, vd, buf, current, device, camPc, got, change, hist>>

NoChange == [pc |-> "none", want |-> Gone]
NoBuffer == [session |-> Gone, size |-> Gone]

(* Where a thread can be in setResolution. *)
Places == {"pause", "disable", "unmap", "close", "open", "setup", "free", "allocate", "enable"}

Devices == [Sessions -> [state : {"unused", "open", "ready", "streams", "closed"},
                         size : Resolutions \cup {Gone}]]
Changes == [Threads -> {NoChange} \cup [pc : Places, want : Resolutions]]

State(s)   == IF s = Gone THEN "closed" ELSE device[s].state
IsOpen(s)  == State(s) \in {"open", "ready", "streams"}
Busy       == {t \in Threads : change[t].pc \notin {"none", "pause"}}
Unused     == {s \in Sessions : device[s].state = "unused"}

With(s, state) == [device EXCEPT ![s] = [state |-> state, size |-> @.size]]

(* VIDIOC_STREAMOFF and VIDIOC_STREAMON, of an open session.               *)
StreamedOff == IF State(fd) = "open" THEN device ELSE With(fd, "ready")
StreamedOn  == With(fd, "streams")

(* The bound: there is a session left for every change that is under way.  *)
MayChange == Cardinality({t \in Threads : change[t].pc # "none"}) < Cardinality(Unused)
-----------------------------------------------------------------------------
(* init_videoIn has opened the first session; the resolution recorded as   *)
(* current is the last one enumerated, whichever was asked for.            *)
Init ==
  /\ stop = FALSE /\ process = "runs"
  /\ streamingState = "off" /\ fd = 1 /\ mem = 1
  /\ width \in Resolutions /\ tmpbuffer = width /\ buf = width
  /\ videoIn = "there"
  /\ current \in Resolutions
  /\ device = [s \in Sessions |-> IF s = 1 THEN [state |-> "ready", size |-> width]
                                  ELSE [state |-> "unused", size |-> Gone]]
  /\ camPc = "start" /\ got = NoBuffer
  /\ change = [t \in Threads |-> NoChange]
  /\ mixed = FALSE /\ disturbed = FALSE /\ failed = FALSE
-----------------------------------------------------------------------------
(* setResolution, run by thread t.  Its own steps are atomic; vd is read   *)
(* anew in each of them.                                                   *)

Goes(t, here, next) ==
  /\ change[t].pc = here
  /\ change' = [change EXCEPT ![t] = [pc |-> next, want |-> @.want]]
  /\ UNCHANGED <<camPc, failed, current>>

ReturnsLate(t, ok) ==
  /\ change' = [change EXCEPT ![t] = NoChange]
  /\ failed' = ~ok
  /\ camPc' = IF t # Camera THEN camPc ELSE IF ok THEN "loop" ELSE "leave"
  /\ current' = IF ok /\ t # Camera THEN change'[t].want ELSE current

(* It returns: cam_thread goes on or leaves, input_cmd records the         *)
(* resolution if all went well.                                            *)
Returns(t, ok) ==
  /\ change' = [change EXCEPT ![t] = NoChange]
  /\ failed' = ~ok
  /\ camPc' = IF t # Camera THEN camPc ELSE IF ok THEN "loop" ELSE "leave"
  /\ current' = IF ok /\ t # Camera THEN change[t].want ELSE current

Pause(t) ==
  /\ Goes(t, "pause", "disable")
  /\ streamingState' = "paused"
  /\ mixed' = (mixed \/ Busy # {})
  /\ disturbed' = (disturbed \/ t # Camera)
  /\ UNCHANGED <<stop, process, fd, width, mem, tmpbuffer, videoIn, buf, device, got>>

(* VIDIOC_STREAMOFF.  A failure leaves the state at "paused".              *)
Disable(t) ==
  /\ \/ /\ IsOpen(fd) /\ Goes(t, "disable", "unmap")
        /\ device' = StreamedOff
        /\ streamingState' = "paused"
     \/ /\ ~IsOpen(fd) \/ Faults
        /\ change[t].pc = "disable" /\ Returns(t, FALSE)
        /\ UNCHANGED <<device, streamingState>>
  /\ UNCHANGED <<stop, process, fd, width, mem, tmpbuffer, videoIn, buf, got,
                 mixed, disturbed>>

Unmap(t) ==
  /\ Goes(t, "unmap", "close")
  /\ mem' = Gone
  /\ UNCHANGED <<stop, process, streamingState, fd, width, tmpbuffer, videoIn, buf,
                 device, got, mixed, disturbed>>

(* The descriptor is closed; that it cannot be is ignored.                 *)
CloseLeaking(t) ==
  /\ Goes(t, "close", "open")
  /\ width' = change[t].want
  /\ UNCHANGED <<stop, process, streamingState, fd, mem, tmpbuffer, videoIn, buf, device,
                 got, mixed, disturbed>>

Close(t) ==
  /\ Goes(t, "close", "open")
  /\ device' = IF IsOpen(fd) THEN With(fd, "closed") ELSE device
  /\ width' = change[t].want
  /\ UNCHANGED <<stop, process, streamingState, fd, mem, tmpbuffer, videoIn, buf, got,
                 mixed, disturbed>>

(* init_v4l2: open.                                                        *)
Open(t) ==
  /\ \/ \E s \in Unused :
          /\ Goes(t, "open", "setup")
          /\ fd' = s /\ device' = With(s, "open")
     \/ /\ Faults
        /\ change[t].pc = "open" /\ Returns(t, FALSE)
        /\ fd' = Gone /\ UNCHANGED device
  /\ UNCHANGED <<stop, process, streamingState, width, mem, tmpbuffer, videoIn, buf, got,
                 mixed, disturbed>>

(* init_v4l2: the format, which the driver may replace by one it supports, *)
(* then the buffers.  A failure leaves the descriptor open.                *)
Setup(t) ==
  /\ \/ /\ IsOpen(fd) /\ Goes(t, "setup", "free")
        /\ \E r \in Resolutions :
             /\ width' = r
             /\ device' = [device EXCEPT ![fd] = [state |-> "ready", size |-> r]]
        /\ mem' = fd
     \/ /\ ~IsOpen(fd) \/ Faults
        /\ change[t].pc = "setup" /\ Returns(t, FALSE)
        /\ width' \in Resolutions
        /\ UNCHANGED <<device, mem>>
  /\ UNCHANGED <<stop, process, streamingState, fd, tmpbuffer, videoIn, buf, got,
                 mixed, disturbed>>

Free(t) ==
  /\ Goes(t, "free", "allocate")
  /\ tmpbuffer' = Gone
  /\ UNCHANGED <<stop, process, streamingState, fd, width, mem, videoIn, buf, device, got,
                 mixed, disturbed>>

(* init_framebuffer *)
AllocateAsAsked(t) ==
  /\ Goes(t, "allocate", "enable") /\ tmpbuffer' = change[t].want
  /\ UNCHANGED <<stop, process, streamingState, fd, width, mem, videoIn, buf, device, got,
                 mixed, disturbed>>

Allocate(t) ==
  /\ \/ Goes(t, "allocate", "enable") /\ tmpbuffer' = width
     \/ /\ Faults
        /\ change[t].pc = "allocate" /\ Returns(t, FALSE)
        /\ UNCHANGED tmpbuffer
  /\ UNCHANGED <<stop, process, streamingState, fd, width, mem, videoIn, buf, device, got,
                 mixed, disturbed>>

(* video_enable: VIDIOC_STREAMON, of a session that has buffers.           *)
MayStream == State(fd) \in {"ready", "streams"}

StreamOnOnce ==
  /\ MayStream
  /\ device' = StreamedOn
  /\ streamingState' = IF streamingState = "off" THEN "on" ELSE streamingState

StreamOn ==
  /\ MayStream
  /\ device' = StreamedOn
  /\ streamingState' = "on"

Enable(t) ==
  /\ change[t].pc = "enable"
  /\ \/ StreamOn /\ Returns(t, TRUE)
     \/ /\ ~MayStream \/ Faults
        /\ Returns(t, FALSE) /\ UNCHANGED <<device, streamingState>>
  /\ UNCHANGED <<stop, process, fd, width, mem, tmpbuffer, videoIn, buf, got,
                 mixed, disturbed>>

SetResolution(t) ==
  \/ Pause(t) \/ Disable(t) \/ Unmap(t) \/ Close(t) \/ Open(t)
  \/ Setup(t) \/ Free(t) \/ Allocate(t) \/ Enable(t)
-----------------------------------------------------------------------------
(* input_cmd with IN_CMD_RESOLUTION.  Once cam_cleanup has run there is no *)
(* vd and the null pointer is followed.                                    *)
Command(c) ==
  /\ change[c] = NoChange
  /\ \/ /\ videoIn = "there" /\ MayChange
        /\ \E r \in Resolutions : change' = [change EXCEPT ![c] = [pc |-> "pause", want |-> r]]
        /\ UNCHANGED process
     \/ /\ videoIn = "gone"
        /\ process' = "crashed" /\ UNCHANGED change
  /\ UNCHANGED <<stop, vd, buf, current, device, camPc, got, hist>>

(* A client that is still changing the device while cam_cleanup frees vd.  *)
UseFreed(c) ==
  /\ videoIn = "gone" /\ change[c].pc # "none"
  /\ process' = "crashed"
  /\ UNCHANGED <<stop, vd, buf, current, device, camPc, got, change, hist>>
-----------------------------------------------------------------------------
(* cam_thread *)

CamAt(here, next) == camPc = here /\ camPc' = next

CamStart ==
  /\ \/ CamAt("start", "loop") /\ StreamOn
     \/ /\ ~MayStream \/ Faults
        /\ CamAt("start", "leave") /\ UNCHANGED <<device, streamingState>>
  /\ mixed' = (mixed \/ Busy # {} \/ failed)
  /\ UNCHANGED <<stop, process, fd, width, mem, tmpbuffer, videoIn, buf, current, got,
                 change, disturbed, failed>>

CamLoop ==
  /\ CamAt("loop", IF stop THEN "leave" ELSE "paused")
  /\ UNCHANGED <<stop, process, vd, buf, current, device, got, change, hist>>

(* while(streamingState == STREAMING_PAUSED) *)
CamGoesOn ==
  /\ CamAt("paused", "select")
  /\ streamingState # "paused"
  /\ disturbed' = (Busy # {})
  /\ UNCHANGED <<stop, process, vd, buf, current, device, got, change, mixed, failed>>

CamChanges ==
  /\ DvTimings /\ MayChange
  /\ change' = [change EXCEPT ![Camera] = [pc |-> "pause", want |-> width]]
  /\ camPc' = "change"

(* select: a picture (a session that does not stream reports an error,     *)
(* which looks like one), an exception without a picture, an interruption, *)
(* an error, or a timeout.                                                 *)
CamSelect ==
  /\ camPc = "select"
  /\ \/ IsOpen(fd) /\ camPc' = "grab" /\ UNCHANGED change
     \/ IsOpen(fd) /\ DvTimings /\ camPc' = "after" /\ UNCHANGED change
     \/ camPc' = "loop" /\ UNCHANGED change
     \/ /\ ~IsOpen(fd) \/ (Faults /\ ~DvTimings)
        /\ camPc' = "leave" /\ UNCHANGED change
     \/ Faults /\ CamChanges
  /\ UNCHANGED <<stop, process, vd, buf, current, device, got, hist>>

(* uvcGrab: VIDIOC_DQBUF.                                                  *)
CamGrab ==
  /\ \/ /\ State(fd) = "streams" /\ CamAt("grab", "copy")
        /\ got' = [session |-> fd, size |-> device[fd].size]
     \/ /\ State(fd) # "streams" \/ Faults
        /\ CamAt("grab", "leave") /\ UNCHANGED got
  /\ UNCHANGED <<stop, process, vd, buf, current, device, change, hist>>

(* uvcGrab: the copy from mem[] to tmpbuffer.  What it does to memory that *)
(* is not there is up to the build: the program crashes or goes on.        *)
GrabFits == mem = got.session /\ tmpbuffer >= got.size

CamCopy ==
  /\ CamAt("copy", "requeue")
  /\ process' = process \/ (~GrabFits /\ process' = "crashed")
  /\ UNCHANGED <<stop, vd, buf, current, device, got, change, hist>>

(* uvcGrab: VIDIOC_QBUF.  Pictures that the filters drop go to "after".    *)
CamRequeue ==
  /\ \/ fd = got.session /\ IsOpen(fd) /\ camPc = "requeue" /\ camPc' \in {"publish", "after"}
     \/ /\ fd # got.session \/ ~IsOpen(fd) \/ Faults
        /\ CamAt("requeue", "leave")
  /\ UNCHANGED <<stop, process, vd, buf, current, device, got, change, hist>>

(* The copy from tmpbuffer to in->buf, which keeps its first size.         *)
PublishFits == tmpbuffer >= got.size /\ buf >= got.size

CamPublish ==
  /\ CamAt("publish", "after")
  /\ process' = process \/ (~PublishFits /\ process' = "crashed")
  /\ UNCHANGED <<stop, vd, buf, current, device, got, change, hist>>

(* other_select_handlers: with -dv_timings the source may have changed.    *)
CamAfter ==
  /\ camPc = "after"
  /\ \/ camPc' = "loop" /\ UNCHANGED change
     \/ CamChanges
  /\ got' = NoBuffer
  /\ UNCHANGED <<stop, process, vd, buf, current, device, hist>>

(* cam_cleanup, close_v4l2: the descriptor stays open.                     *)
CamLeave ==
  /\ CamAt("leave", "done")
  /\ IF streamingState = "on" /\ IsOpen(fd)
     THEN /\ device' = StreamedOff
          /\ streamingState' = "off"
     ELSE UNCHANGED <<device, streamingState>>
  /\ tmpbuffer' = Gone /\ videoIn' = "gone" /\ buf' = Gone
  /\ UNCHANGED <<stop, process, fd, width, mem, current, got, change, hist>>

(* The signal handler sets stop and cancels cam_thread, which ends at the  *)
(* next call that can be cancelled: usleep, select, open or close.         *)
Stop ==
  /\ Faults /\ ~stop /\ stop' = TRUE
  /\ UNCHANGED <<process, vd, buf, current, device, camPc, got, change, hist>>

CamCancelled ==
  /\ stop
  /\ camPc \in {"paused", "select"} \/ change[Camera].pc \in {"close", "open"}
  /\ camPc' = "leave"
  /\ change' = [change EXCEPT ![Camera] = NoChange]
  /\ failed' = (failed \/ change[Camera].pc # "none")
  /\ UNCHANGED <<stop, process, vd, buf, current, device, got, mixed, disturbed>>

CamNext ==
  \/ CamStart \/ CamLoop \/ CamGoesOn \/ CamSelect \/ CamGrab \/ CamCopy \/ CamRequeue
  \/ CamPublish \/ CamAfter \/ CamLeave \/ CamCancelled
-----------------------------------------------------------------------------
Next ==
  /\ process = "runs"
  /\ \/ Stop \/ CamNext
     \/ \E c \in Commanders : Command(c) \/ UseFreed(c)
     \/ \E t \in Threads : SetResolution(t)

Spec == Init /\ [][Next]_vars

(* The threads run: setResolution has no loop and waits for nothing, and   *)
(* cam_thread goes from each of its steps to the next.  Nothing is assumed *)
(* of the clients or of the signal.                                        *)
Fairness ==
  /\ \A t \in Threads : WF_vars(process = "runs" /\ SetResolution(t))
  /\ WF_vars(process = "runs" /\ CamNext)

FairSpec == Spec /\ Fairness
-----------------------------------------------------------------------------
(* Properties *)

(* The variables range over the values the code can give them.             *)
TypeOK ==
  /\ stop \in BOOLEAN /\ process \in {"runs", "crashed"}
  /\ streamingState \in {"off", "on", "paused"}
  /\ fd \in Sessions \cup {Gone} /\ mem \in Sessions \cup {Gone}
  /\ width \in Resolutions /\ current \in Resolutions
  /\ tmpbuffer \in Resolutions \cup {Gone} /\ buf \in Resolutions \cup {Gone}
  /\ videoIn \in {"there", "gone"}
  /\ device \in Devices
  /\ camPc \in {"start", "loop", "paused", "select", "grab", "copy", "requeue", "publish",
                "after", "change", "leave", "done"}
  /\ got \in [session : Sessions \cup {Gone}, size : Resolutions \cup {Gone}]
  /\ change \in Changes
  /\ mixed \in BOOLEAN /\ disturbed \in BOOLEAN /\ failed \in BOOLEAN

Grabbing == {"paused", "select", "grab", "copy", "requeue", "publish", "after"}

(* Whatever sequence of changes, failures and repeated attempts went       *)
(* before: once the device streams and nobody is changing it, vd has one   *)
(* session that streams, its buffers are mapped, the memory is that of the *)
(* format the driver granted, and no descriptor of an earlier session was  *)
(* left open.  There are two exceptions (mixed), since no lock guards vd:  *)
(* two threads that changed the device at once, and a change that failed   *)
(* before cam_thread began, which then streams on what is left.            *)
StreamsWhole ==
  Busy = {} /\ ~mixed /\ streamingState = "on" /\ camPc \in Grabbing =>
    /\ State(fd) = "streams" /\ mem = fd
    /\ width = device[fd].size /\ tmpbuffer = width
    /\ \A s \in Sessions : IsOpen(s) => s = fd

(* Whatever changes and failures went before, and whatever the sizes:      *)
(* uvcGrab copies from the mapping of the session it has dequeued from,    *)
(* and into memory that is large enough, which the picture still is in     *)
(* when it is published.  Besides the exceptions of StreamsWhole this      *)
(* leaves out a client that began a change when cam_thread was past the    *)
(* test of the pause (disturbed).  It says nothing of in->buf, into which  *)
(* the picture is copied next: that keeps its first size and overflows     *)
(* when a larger resolution is set (PublishFits fails).                    *)
CopiesFit ==
  ~disturbed /\ ~mixed =>
    /\ camPc = "copy" => GrabFits
    /\ camPc = "publish" => tmpbuffer >= got.size

(* A pause ends: cam_thread, which spins as long as it lasts, goes on,     *)
(* unless a step of the change failed or the thread is cancelled.          *)
PauseEnds ==
  (camPc = "paused" /\ streamingState = "paused")
    ~> (streamingState # "paused" \/ failed \/ camPc = "leave" \/ process = "crashed")

(* "It should set the capture resolution": a change, when nothing fails    *)
(* and there is no other, does not put an end to the capture.              *)
CaptureSurvives == camPc = "leave" => mixed
-----------------------------------------------------------------------------
(* The inductive invariant behind StreamsWhole and CopiesFit. *)

(* cam_thread is in setResolution exactly when it says so. *)
CamInv == camPc = "change" <=> change[Camera] # NoChange

(* Without two changes at once: one thread changes the device, and as long *)
(* as it does there is a pause.                                            *)
AloneInv ==
  /\ \A t, u \in Busy : t = u
  /\ Busy # {} => streamingState = "paused"

(* The first session has been used.                                        *)
UsedInv == device[1].state # "unused"

(* No session other than that of vd is open, and none between closing and  *)
(* opening.                                                                *)
SessionInv ==
  /\ \A s \in Sessions : IsOpen(s) => s = fd
  /\ \A t \in Threads :
       /\ change[t].pc = "open" => \A s \in Sessions : ~IsOpen(s)
       /\ change[t].pc = "setup" => fd # 1

(* What has been set up fits together. *)
Fitted == fd \in Sessions /\ mem = fd /\ width = device[fd].size

(* What a change has achieved at each of its places. *)
ChangeInv(t) ==
  /\ change[t].pc \in {"free", "allocate", "enable"} => Fitted /\ State(fd) = "ready"
  /\ change[t].pc = "enable" /\ camPc # "done" => tmpbuffer = width

(* A failed change leaves the pause, in which cam_thread grabs nothing.    *)
FailedInv == failed => streamingState = "paused" \/ camPc \in {"start", "leave", "done"}

(* What is there when nobody changes the device and the last change has    *)
(* not failed.                                                             *)
SettledInv ==
  Busy = {} /\ ~failed =>
    /\ Fitted /\ State(fd) \in {"ready", "streams"}
    /\ streamingState = "on" => State(fd) = "streams"
    /\ camPc # "done" => tmpbuffer = width

(* What cam_thread relies on past the test of the pause. *)
Past == {"select", "grab", "copy", "requeue", "publish", "after"}

GrabInv ==
  ~disturbed /\ camPc \in Past =>
    /\ Busy = {} /\ ~failed
    /\ camPc \in {"copy", "requeue", "publish"} =>
         got.session = fd /\ got.size = device[fd].size

(* What holds as long as no two threads have changed the device at once.   *)
Unmixed ==
  /\ AloneInv /\ SessionInv /\ FailedInv /\ SettledInv /\ GrabInv
  /\ \A t \in Threads : ChangeInv(t)
  /\ camPc # "done" => buf = device[1].size

IInv ==
  /\ TypeOK /\ CamInv /\ UsedInv
  /\ ~mixed => Unmixed
=============================================================================
