----------------------------- MODULE UdpOutput -----------------------------
(***************************************************************************)
(* The UDP output plugin (plugins/output_udp), which the RTSP plugin       *)
(* (plugins/output_rtsp) repeats: worker_thread waits for a datagram, then *)
(* for a picture, copies it, saves it in the file that the datagram names, *)
(* if it names one, and sends the datagram back.                           *)
(* A datagram is the name in it, or NoName.                                *)
(***************************************************************************)
EXTENDS SharedPicture

CONSTANTS
  Names, NoName,  (* what a datagram may hold   *)
  MaxRequests     (* bound: datagrams sent      *)

ASSUME UdpOutputAssumption == NoName \notin Names /\ MaxRequests \in Nat

VARIABLES
  outPc,          (* where worker_thread is                                *)
  inbox, sent,    (* the datagrams in the socket; how many were sent       *)
  udpbuffer,      (* the datagram at hand                                  *)
  got,            (* frame_size and frame                                  *)
  saved,          (* the files: the picture saved under each name          *)
  replies         (* history: the datagrams sent back                      *)

outVars == <<outPc, inbox, sent, udpbuffer, got, saved, replies>>

OutAt(here, next) == outPc = here /\ outPc' = next

UdpOutputInit ==
  /\ outPc = "loop" /\ inbox = <<>> /\ sent = 0
  /\ udpbuffer = NoName /\ got = NoPicture
  /\ saved = [n \in Names |-> NoPicture] /\ replies = <<>>
-----------------------------------------------------------------------------
(* A client, and the network that may lose what it sends.                  *)
SendRequest(n) ==
  /\ sent < MaxRequests /\ sent' = sent + 1
  /\ inbox' = Append(inbox, n) \/ inbox' = inbox
  /\ UNCHANGED <<shared, outPc, udpbuffer, got, saved, replies>>
-----------------------------------------------------------------------------
(* worker_thread *)

OutputLoop ==
  /\ OutAt("loop", IF stop THEN "cleanup" ELSE "recvfrom")
  /\ UNCHANGED <<shared, inbox, sent, udpbuffer, got, saved, replies>>

Receive ==
  /\ OutAt("recvfrom", "lock")
  /\ inbox # <<>> /\ inbox' = Tail(inbox) /\ udpbuffer' = Head(inbox)
  /\ UNCHANGED <<shared, sent, got, saved, replies>>

LockOutput ==
  /\ OutAt("lock", "locked")
  /\ db = Nobody /\ db' = Output
  /\ UNCHANGED <<stop, process, blocked, picture, inbox, sent, udpbuffer, got, saved, replies>>

WaitForPicture ==
  /\ OutAt("locked", "wait")
  /\ db' = Nobody /\ blocked' = blocked \cup {Output}
  /\ UNCHANGED <<stop, process, picture, inbox, sent, udpbuffer, got, saved, replies>>

WakesUpSpuriously ==
  /\ outPc = "wait" /\ blocked' = blocked \ {Output} /\ blocked' # blocked
  /\ UNCHANGED <<stop, process, db, picture, outVars>>

RelockAtOnce ==
  /\ OutAt("wait", "size")
  /\ Output \notin blocked
  /\ db' = Output
  /\ UNCHANGED <<stop, process, blocked, picture, inbox, sent, udpbuffer, got, saved, replies>>

RelockOutput ==
  /\ OutAt("wait", "size")
  /\ Output \notin blocked
  /\ db = Nobody /\ db' = Output
  /\ UNCHANGED <<stop, process, blocked, picture, inbox, sent, udpbuffer, got, saved, replies>>

(* frame_size, and the space for it; without memory the thread returns     *)
(* from the middle of the loop.                                            *)
TakeSize ==
  /\ \/ OutAt("size", "copy") /\ UNCHANGED db
     \/ MemoryFails /\ OutAt("size", "left") /\ db' = Nobody
  /\ got' = [got EXCEPT !.size = size]
  /\ UNCHANGED <<stop, process, blocked, picture, inbox, sent, udpbuffer, saved, replies>>

(* memcpy, of what may have been freed.                                    *)
CopyPicture ==
  /\ OutAt("copy", "unlock")
  /\ LET found == IF got.size = 0 THEN 0 ELSE buf
     IN /\ got' = [got EXCEPT !.frame = found, !.stamp = found]
        /\ process' = process \/ (found = Freed /\ process' = "crashed")
  /\ UNCHANGED <<stop, db, blocked, picture, inbox, sent, udpbuffer, saved, replies>>

UnlockOutput ==
  /\ OutAt("unlock", "save")
  /\ db' = Nobody
  /\ UNCHANGED <<stop, process, blocked, picture, inbox, sent, udpbuffer, got, saved, replies>>

(* open and write; the thread returns if one of them fails.                *)
SavePicture ==
  /\ \/ /\ udpbuffer = NoName /\ OutAt("save", "reply") /\ UNCHANGED saved
     \/ /\ udpbuffer # NoName /\ OutAt("save", "reply")
        /\ saved' = [saved EXCEPT ![udpbuffer] = got]
     \/ /\ udpbuffer # NoName /\ OutAt("save", "left") /\ UNCHANGED saved
  /\ UNCHANGED <<shared, inbox, sent, udpbuffer, got, replies>>

Reply ==
  /\ OutAt("reply", "loop")
  /\ replies' = Append(replies, udpbuffer)
  /\ UNCHANGED <<shared, inbox, sent, udpbuffer, got, saved>>

CleanUpOutput ==
  /\ OutAt("cleanup", "left")
  /\ UNCHANGED <<shared, inbox, sent, udpbuffer, got, saved, replies>>

(* output_stop cancels the thread; in pthread_cond_wait it has to get db   *)
(* back first, and keeps it.                                               *)
CancelOutput ==
  /\ stop
  /\ \/ /\ outPc \in {"recvfrom", "save", "reply"} /\ UNCHANGED <<db, blocked>>
     \/ /\ outPc = "wait" /\ db = Nobody /\ db' = Output /\ blocked' = blocked \ {Output}
  /\ outPc' = "cleanup"
  /\ UNCHANGED <<stop, process, picture, inbox, sent, udpbuffer, got, saved, replies>>

OutputNext ==
  \/ OutputLoop \/ Receive \/ LockOutput \/ WaitForPicture \/ WakesUpSpuriously
  \/ RelockOutput \/ TakeSize \/ CopyPicture \/ UnlockOutput \/ SavePicture \/ Reply
  \/ CleanUpOutput \/ CancelOutput
-----------------------------------------------------------------------------
UdpOutputType ==
  /\ outPc \in {"loop", "recvfrom", "lock", "locked", "wait", "size", "copy", "unlock", "save",
                "reply", "cleanup", "left"}
  /\ inbox \in Seq(Names \cup {NoName}) /\ sent \in 0..MaxRequests
  /\ udpbuffer \in Names \cup {NoName}
  /\ DOMAIN saved = Names /\ replies \in Seq(Names \cup {NoName})
=============================================================================
