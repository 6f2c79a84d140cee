----------------------------- MODULE FrameStore -----------------------------
(***************************************************************************)
(* One entry of global.in[]: the picture buffer that an input plugin fills *)
(* and the clients of the HTTP output plugin copy.  The threads are        *)
(*   - cam_thread of plugins/input_uvc, which grabs, filters and publishes *)
(*     pictures and whose cleanup handler gives the buffer up;             *)
(*   - one client thread per connection of plugins/output_http, running    *)
(*     send_stream (Streamers) or send_snapshot (Snapshotters);            *)
(*   - the signal handler, of which only "stop" and the cancellation of    *)
(*     cam_thread matter here.                                             *)
(* They share the mutex db, the condition variable db_update, and buf,     *)
(* size and timestamp.  A picture is the number of the capture it came     *)
(* from: buf, size and stamp each hold the number of the capture they were *)
(* last set from, so a mixed or half-written picture can be told apart.    *)
(***************************************************************************)
EXTENDS Integers

CONSTANTS
  Streamers,      (* client threads that run send_stream               *)
  Snapshotters,   (* client threads that run send_snapshot             *)
  Camera, Nobody, (* the owner of db when it is no client              *)
  MaxGrab,        (* bound: the number of captures                     *)
  Every,          (* option -every_frame                               *)
  SmallFrames,    (* captures shorter than option -minimum_size        *)
  FramePeriod,    (* option -softfps as a number of captures, 0 if off *)
  WantTimestamp,  (* option -timestamp                                 *)
  Spurious        (* pthread_cond_wait may return without a broadcast  *)

Clients == Streamers \cup Snapshotters

ASSUME FrameStoreAssumption ==
  /\ Streamers \cap Snapshotters = {}
  /\ Camera \notin Clients /\ Nobody \notin Clients /\ Camera # Nobody
  /\ MaxGrab \in Nat /\ Every \in Nat \ {0} /\ FramePeriod \in Nat
  /\ WantTimestamp \in BOOLEAN /\ Spurious \in BOOLEAN

VARIABLES
  stop,    (* global.stop                                                *)
  db,      (* the thread that owns the mutex db                          *)
  buf, size, stamp,  (* in->buf, in->size, in->timestamp                 *)
  camPc,   (* where cam_thread is                                        *)
  clock,   (* number of captures so far, which is also the time          *)
  every,   (* every_count                                                *)
  tmp,     (* tmpbuffer/tmpbytesused and tmptimestamp of the camera      *)
  pc,      (* where each client is                                       *)
  got,     (* each client's local frame, frame_size and timestamp        *)
  sent,    (* history: the picture last sent on the client's connection  *)
  asOf,    (* history: the capture published when the client began to wait *)
  pub      (* history: the picture last published                        *)

camVars    == <<camPc, clock, every, tmp>>
store      == <<buf, size, stamp, pub>>
clientVars == <<pc, got, sent, asOf>>
vars == <<stop, db, store, camVars, clientVars>>

Torn  == -1    (* buf while memcpy is writing it              *)
Freed == -2    (* buf after free(in->buf)                     *)

Capture == 0..MaxGrab
Whole(frame, time) == [frame |-> frame, size |-> frame, stamp |-> time]
Blank == Whole(0, 0)

Waiting == {c \in Clients : pc[c] = "wait"}

CamAt(here, next) == camPc = here /\ camPc' = next
At(c, here, next) == pc[c] = here /\ pc' = [pc EXCEPT ![c] = next]
-----------------------------------------------------------------------------
Init ==
  /\ stop = FALSE
  /\ db = Nobody
  /\ buf = 0 /\ size = 0 /\ stamp = 0
  /\ camPc = "loop" /\ clock = 0 /\ every = 0
  /\ tmp = [frame |-> 0, stamp |-> 0]
  /\ pc = [c \in Clients |-> "idle"]
  /\ got = [c \in Clients |-> Blank]
  /\ sent = [c \in Clients |-> Blank]
  /\ asOf = [c \in Clients |-> 0]
  /\ pub = Blank
-----------------------------------------------------------------------------
(* cam_thread *)

CamLoop ==
  /\ CamAt("loop", IF stop THEN "free" ELSE "select")
  /\ UNCHANGED <<stop, db, store, clock, every, tmp, clientVars>>

(* select() is interrupted, or reports no picture.                         *)
CamAgain ==
  /\ CamAt("select", "loop")
  /\ UNCHANGED <<stop, db, store, clock, every, tmp, clientVars>>

(* select() fails or times out, or the driver refuses a buffer; or the     *)
(* thread is cancelled in select(), which only the signal handler does.    *)
CamLeave ==
  /\ CamAt("select", "free")
  /\ UNCHANGED <<stop, db, store, clock, every, tmp, clientVars>>

CamGrabLate ==
  /\ camPc = "select" /\ clock < MaxGrab
  /\ clock' = clock + 1
  /\ \/ tmp' = [frame |-> clock', stamp |-> clock']
     \/ tmp' = tmp
  /\ \/ every <= Every - 1 /\ every' = every + 1 /\ camPc' = "loop"
     \/ every > Every - 1 /\ every' = 0 /\ camPc' = "filter"
  /\ UNCHANGED <<stop, db, store, clientVars>>

CamGrabAnyBuffer ==
  /\ camPc = "select" /\ clock < MaxGrab
  /\ clock' = clock + 1
  /\ \E f \in 1..clock' : tmp' = [frame |-> f, stamp |-> clock']
  /\ \/ every < Every - 1 /\ every' = every + 1 /\ camPc' = "loop"
     \/ every >= Every - 1 /\ every' = 0 /\ camPc' = "filter"
  /\ UNCHANGED <<stop, db, store, clientVars>>

(* uvcGrab: an empty buffer leaves tmpbuffer, tmpbytesused and             *)
(* tmptimestamp as they were.  Then all but each Every-th grab is dropped. *)
CamGrab ==
  /\ camPc = "select" /\ clock < MaxGrab
  /\ clock' = clock + 1
  /\ \/ tmp' = [frame |-> clock', stamp |-> clock']
     \/ tmp' = tmp
  /\ \/ every < Every - 1 /\ every' = every + 1 /\ camPc' = "loop"
     \/ every >= Every - 1 /\ every' = 0 /\ camPc' = "filter"
  /\ UNCHANGED <<stop, db, store, clientVars>>

(* The timestamp, which the option overwrites, before the softfps test.    *)
Stamped == IF WantTimestamp THEN [tmp EXCEPT !.stamp = clock] ELSE tmp

CamFilterByClock ==
  /\ camPc = "filter"
  /\ \/ /\ tmp.frame \in SmallFrames
        /\ camPc' = "loop" /\ UNCHANGED tmp
     \/ /\ tmp.frame \notin SmallFrames
        /\ tmp' = Stamped
        /\ camPc' = IF clock - stamp < FramePeriod THEN "loop" ELSE "lock"
  /\ UNCHANGED <<stop, db, store, clock, every, clientVars>>

CamFilter ==
  /\ camPc = "filter"
  /\ \/ /\ tmp.frame \in SmallFrames
        /\ camPc' = "loop" /\ UNCHANGED tmp
     \/ /\ tmp.frame \notin SmallFrames
        /\ tmp' = Stamped
        /\ camPc' = IF tmp'.stamp - stamp < FramePeriod THEN "loop" ELSE "lock"
  /\ UNCHANGED <<stop, db, store, clock, every, clientVars>>

CamLockless ==
  /\ CamAt("lock", "copy")
  /\ db' = Camera
  /\ UNCHANGED <<stop, store, clock, every, tmp, clientVars>>

CamLock ==
  /\ CamAt("lock", "copy")
  /\ db = Nobody /\ db' = Camera
  /\ UNCHANGED <<stop, store, clock, every, tmp, clientVars>>

(* memcpy_picture, or the compression of a raw picture.  It may find no     *)
(* picture in the bytes and return the length 0: an empty picture n.       *)
CamCopy ==
  /\ CamAt("copy", "copying")
  /\ buf' = Torn
  /\ UNCHANGED <<stop, db, size, stamp, pub, clock, every, tmp, clientVars>>

CamStore ==
  /\ CamAt("copying", "stamp")
  /\ buf' = tmp.frame /\ size' = tmp.frame
  /\ UNCHANGED <<stop, db, stamp, pub, clock, every, tmp, clientVars>>

CamStamp ==
  /\ CamAt("stamp", "broadcast")
  /\ stamp' = tmp.stamp
  /\ pub' = Whole(tmp.frame, tmp.stamp)
  /\ UNCHANGED <<stop, db, buf, size, clock, every, tmp, clientVars>>

CamSignal ==
  /\ CamAt("broadcast", "unlock")
  /\ IF Waiting = {} THEN pc' = pc
     ELSE \E c \in Waiting : pc' = [pc EXCEPT ![c] = "relock"]
  /\ UNCHANGED <<stop, db, store, clock, every, tmp, got, sent, asOf>>

CamBroadcast ==
  /\ CamAt("broadcast", "unlock")
  /\ pc' = [c \in Clients |-> IF c \in Waiting THEN "relock" ELSE pc[c]]
  /\ UNCHANGED <<stop, db, store, clock, every, tmp, got, sent, asOf>>

CamUnlock ==
  /\ CamAt("unlock", "loop")
  /\ db' = Nobody
  /\ UNCHANGED <<stop, store, clock, every, tmp, clientVars>>

(* cam_cleanup does not take db. *)
CamFree ==
  /\ CamAt("free", "clear")
  /\ buf' = Freed
  /\ UNCHANGED <<stop, db, size, stamp, pub, clock, every, tmp, clientVars>>

CamClear ==
  /\ CamAt("clear", "done")
  /\ size' = 0
  /\ UNCHANGED <<stop, db, buf, stamp, pub, clock, every, tmp, clientVars>>

CamNext ==
  \/ CamLoop \/ CamAgain \/ CamLeave \/ CamGrab \/ CamFilter
  \/ CamLock \/ CamCopy \/ CamStore \/ CamStamp \/ CamBroadcast \/ CamUnlock
  \/ CamFree \/ CamClear
-----------------------------------------------------------------------------
(* send_stream and send_snapshot *)

(* The next round of send_stream: while(!pglobal->stop). *)
Again == IF stop THEN "idle" ELSE "lock"

Connect(c) ==
  /\ At(c, "idle", "lock")
  /\ c \in Streamers => ~stop
  /\ sent' = [sent EXCEPT ![c] = Blank]
  /\ UNCHANGED <<stop, db, store, camVars, got, asOf>>

Lock(c) ==
  /\ At(c, "lock", "locked")
  /\ db = Nobody /\ db' = c
  /\ UNCHANGED <<stop, store, camVars, got, sent, asOf>>

(* pthread_cond_wait gives db up and blocks in one step. *)
Wait(c) ==
  /\ At(c, "locked", "wait")
  /\ db' = Nobody
  /\ asOf' = [asOf EXCEPT ![c] = pub.frame]
  /\ UNCHANGED <<stop, store, camVars, got, sent>>

SpuriousWakeup(c) ==
  /\ Spurious
  /\ At(c, "wait", "relock")
  /\ UNCHANGED <<stop, db, store, camVars, got, sent, asOf>>

RelockAlways(c) ==
  /\ At(c, "relock", "size")
  /\ db' = c
  /\ UNCHANGED <<stop, store, camVars, got, sent, asOf>>

Relock(c) ==
  /\ At(c, "relock", "size")
  /\ db = Nobody /\ db' = c
  /\ UNCHANGED <<stop, store, camVars, got, sent, asOf>>

ReadSize(c) ==
  /\ At(c, "size", "stamp")
  /\ got' = [got EXCEPT ![c] = [@ EXCEPT !.size = size]]
  /\ UNCHANGED <<stop, db, store, camVars, sent, asOf>>

(* malloc or realloc fails: unlock, send an error, leave. *)
NoMemory(c) ==
  /\ At(c, "stamp", "idle")
  /\ db' = Nobody
  /\ UNCHANGED <<stop, store, camVars, got, sent, asOf>>

ReadStampAndUnlock(c) ==
  /\ At(c, "stamp", "copy")
  /\ db' = Nobody
  /\ got' = [got EXCEPT ![c] = [@ EXCEPT !.stamp = stamp]]
  /\ UNCHANGED <<stop, store, camVars, sent, asOf>>

ReadStamp(c) ==
  /\ At(c, "stamp", "copy")
  /\ got' = [got EXCEPT ![c] = [@ EXCEPT !.stamp = stamp]]
  /\ UNCHANGED <<stop, db, store, camVars, sent, asOf>>

Copy(c) ==
  /\ At(c, "copy", "unlock")
  /\ got' = [got EXCEPT ![c] = [@ EXCEPT !.frame = buf]]
  /\ UNCHANGED <<stop, db, store, camVars, sent, asOf>>

Unlock(c) ==
  /\ At(c, "unlock", "send")
  /\ db' = Nobody
  /\ UNCHANGED <<stop, store, camVars, got, sent, asOf>>

Send(c) ==
  /\ At(c, "send", IF c \in Streamers THEN Again ELSE "idle")
  /\ sent' = [sent EXCEPT ![c] = got[c]]
  /\ UNCHANGED <<stop, db, store, camVars, got, asOf>>

(* The client has closed the connection. *)
SendFails(c) ==
  /\ At(c, "send", "idle")
  /\ UNCHANGED <<stop, db, store, camVars, got, sent, asOf>>

ClientNext(c) ==
  \/ Connect(c) \/ Lock(c) \/ Wait(c) \/ SpuriousWakeup(c) \/ Relock(c)
  \/ ReadSize(c) \/ NoMemory(c) \/ ReadStamp(c) \/ Copy(c) \/ Unlock(c)
  \/ Send(c) \/ SendFails(c)

(* The signal handler. *)
Stop ==
  /\ ~stop /\ stop' = TRUE
  /\ UNCHANGED <<db, store, camVars, clientVars>>
-----------------------------------------------------------------------------
Next == Stop \/ CamNext \/ \E c \in Clients : ClientNext(c)

Spec == Init /\ [][Next]_vars

(* The threads run, and no thread is passed over for ever when db is free. *)
(* Nothing is assumed of the signal, of the camera, of memory that runs    *)
(* out, or of clients that connect or leave.                               *)
Fairness ==
  /\ SF_vars(CamLock)
  /\ WF_vars(CamCopy \/ CamStore \/ CamStamp \/ CamBroadcast \/ CamUnlock)
  /\ \A c \in Clients :
       /\ SF_vars(Lock(c) \/ Relock(c))
       /\ WF_vars(Wait(c) \/ ReadSize(c) \/ ReadStamp(c) \/ Copy(c)
                    \/ Unlock(c))

FairSpec == Spec /\ Fairness
-----------------------------------------------------------------------------
(* Properties *)

CamHolds == {"copy", "copying", "stamp", "broadcast", "unlock"}
Reading == {"size", "stamp", "copy", "unlock"}
Holds == Reading \cup {"locked"}
Places == Holds \cup {"idle", "lock", "wait", "relock", "send"}

(* The camera has not given its buffer up. *)
Open == camPc \notin {"clear", "done"}

(* The variables range over the values the code can give them. *)
TypeOK ==
  /\ stop \in BOOLEAN
  /\ db \in Clients \cup {Camera, Nobody}
  /\ buf \in Capture \cup {Torn, Freed} /\ size \in Capture /\ stamp \in Capture
  /\ camPc \in CamHolds \cup {"loop", "select", "filter", "lock", "free", "clear", "done"}
  /\ clock \in Capture /\ every \in 0..(Every - 1)
  /\ tmp \in [frame : Capture, stamp : Capture]
  /\ pc \in [Clients -> Places]
  /\ got \in [Clients -> [frame : Capture \cup {Torn, Freed},
                          size : Capture, stamp : Capture]]
  /\ sent \in [Clients -> [frame : Capture \cup {Torn, Freed},
                           size : Capture, stamp : Capture]]
  /\ asOf \in [Clients -> Capture]
  /\ pub \in [frame : Capture, size : Capture, stamp : Capture]

(* The mutex db does its work: at most one thread is between a lock and    *)
(* the unlock that ends it, across every path that leaves the section.     *)
MutualExclusion ==
  /\ camPc \in CamHolds => \A c \in Clients : pc[c] \notin Holds
  /\ \A c, d \in Clients : pc[c] \in Holds /\ pc[d] \in Holds => c = d

(* As long as the camera has its buffer, what a client has copied when it  *)
(* unlocks is one published picture, the latest: the bytes, the length and *)
(* the timestamp that belong together, and no half-written bytes.          *)
WholePicture ==
  Open => \A c \in Clients : pc[c] = "unlock" => got[c] = pub

(* A connection never shows an older picture, or an older time, after a    *)
(* newer one, whatever was dropped, repeated or missed in between, and no  *)
(* client sends a picture older than the one there was when it began to    *)
(* wait for a fresh one.                                                   *)
StreamInOrder ==
  Open => \A c \in Clients :
            pc[c] = "send" => /\ got[c].frame >= sent[c].frame
                              /\ got[c].stamp >= sent[c].stamp
                              /\ got[c].frame >= asOf[c]

(* With -softfps, two pictures with different timestamps are at least the  *)
(* frame period apart, although the test reads the shared timestamp        *)
(* without the lock and empty buffers repeat a stale one.                  *)
SoftFpsSpacing == [][pub' # pub => pub'.stamp - pub.stamp >= FramePeriod]_pub

(* FrameStore implements the register of the latest picture.               *)
NoPicture == [frame |-> Torn, size |-> 0, stamp |-> 0]
Held == [c \in Clients |-> IF pc[c] \in {"unlock", "send"} THEN got[c] ELSE NoPicture]
Register == INSTANCE LatestFrame
  WITH Leftover <- [frame : Capture \cup {Freed}, size : Capture, stamp : Capture],
       None <- NoPicture, latest <- pub, held <- Held, open <- Open
LatestPicture == Register!Spec

(* Every client that is waiting when a picture is announced is served, or  *)
(* leaves because memory ran out, or the camera gives its buffer up.  A    *)
(* client is never left behind by a broadcast, whoever gets db first       *)
(* afterwards, and nobody keeps db on any way out of a section.  What it   *)
(* is served with is the latest picture (LatestPicture).                   *)
EveryWaiterServed ==
  \A c \in Clients :
    (pc[c] = "wait" /\ camPc = "broadcast") ~> (pc[c] \in {"send", "idle"} \/ ~Open)
-----------------------------------------------------------------------------
(* The inductive invariant behind the safety properties. *)

(* db names its owner. *)
LockInv ==
  /\ db = Camera <=> camPc \in CamHolds
  /\ \A c \in Clients : db = c <=> pc[c] \in Holds

(* What is in the store at each place of cam_thread. *)
StoreInv ==
  /\ stamp = pub.stamp /\ pub.size = pub.frame
  /\ Open /\ camPc \notin {"copying", "stamp"} => buf = pub.frame
  /\ Open /\ camPc # "stamp" => size = pub.frame
  /\ camPc = "stamp" => buf = tmp.frame /\ size = tmp.frame
  /\ ~Open => buf = Freed

(* The camera's own picture is never older than the published one. *)
CamInv ==
  /\ pub.frame <= tmp.frame /\ tmp.frame <= clock
  /\ pub.stamp <= tmp.stamp /\ tmp.stamp <= clock
  /\ camPc \in {"lock", "copy", "copying", "stamp"} => tmp.stamp - stamp >= FramePeriod

(* What a client has copied so far is of the published picture. *)
ReaderInv(c) ==
  /\ pc[c] \in {"stamp", "copy", "unlock"} => got[c].size = pub.size
  /\ pc[c] \in {"copy", "unlock"} => got[c].stamp = pub.stamp
  /\ pc[c] = "unlock" => got[c].frame = pub.frame

(* What a connection has shown, or found when it began to wait, what it is *)
(* about to show and what is published are in this order.                  *)
OrderInv(c) ==
  /\ sent[c].frame <= pub.frame /\ sent[c].stamp <= pub.stamp
  /\ asOf[c] <= pub.frame
  /\ pc[c] = "send" =>
       /\ asOf[c] <= got[c].frame
       /\ sent[c].frame <= got[c].frame /\ got[c].frame <= pub.frame
       /\ sent[c].stamp <= got[c].stamp /\ got[c].stamp <= pub.stamp

IInv ==
  /\ TypeOK /\ LockInv /\ StoreInv /\ CamInv
  /\ Open => \A c \in Clients : ReaderInv(c) /\ OrderInv(c)
=============================================================================
