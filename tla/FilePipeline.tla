---------------------------- MODULE FilePipeline ----------------------------
(***************************************************************************)
(* A whole stream of mjpg_streamer: the file input plugin and the UDP      *)
(* output plugin as threads that share one entry of global.in[], with the  *)
(* programs that fill the folder, the clients that send datagrams, and the *)
(* signal handler.                                                         *)
(***************************************************************************)
EXTENDS FileInput, UdpOutput

vars == <<shared, inVars, outVars>>

Init == SharedInit /\ FileInputInit /\ UdpOutputInit

(* signal_handler, as far as these threads see it.                         *)
Stop ==
  /\ ~stop /\ stop' = TRUE
  /\ UNCHANGED <<process, db, blocked, picture, inVars, outVars>>

Next ==
  /\ process = "runs"
  /\ \/ Stop
     \/ InputNext /\ UNCHANGED outVars
     \/ OutputNext /\ UNCHANGED inVars
     \/ \E f \in Files : (Written(f) \/ Removed(f)) /\ UNCHANGED outVars
     \/ \E n \in Names \cup {NoName} : SendRequest(n) /\ UNCHANGED inVars

Spec == Init /\ [][Next]_vars

(* The threads run, and neither is passed over for ever when db is free.   *)
(* Nothing is assumed of files, datagrams and the signal.                  *)
Input_(A)  == process = "runs" /\ A /\ UNCHANGED outVars
Output_(A) == process = "runs" /\ A /\ UNCHANGED inVars

Fairness ==
  /\ WF_vars(Input_(AllocateBuffer \/ ReadFile \/ StampPicture \/ BroadcastPicture \/ UnlockInput))
  /\ WF_vars(Output_(TakeSize \/ CopyPicture \/ UnlockOutput \/ SavePicture \/ Reply))
  /\ SF_vars(Output_(RelockOutput))

FairSpec == Spec /\ Fairness
-----------------------------------------------------------------------------
(* Properties *)

(* The variables range over the values the code can give them; in          *)
(* particular the index into the list of files stays inside the list.      *)
TypeOK ==
  /\ stop \in BOOLEAN /\ process \in {"runs", "crashed"}
  /\ db \in {Input, Output, Nobody} /\ blocked \subseteq {Output}
  /\ buf \in (0..MaxReads) \cup {Null, Fresh, Freed} /\ size \in 0..MaxReads
  /\ pub.frame \in 0..MaxReads
  /\ FileInputType /\ UdpOutputType

(* The file input promises what the UVC input does: a register of the      *)
(* latest picture, which the UDP worker takes whole.                       *)
Nothing  == [frame |-> Fresh, size |-> 0, stamp |-> 0]
Counts   == 0..MaxReads
Register == INSTANCE LatestFrame
  WITH Clients <- {Output}, None <- Nothing,
       Leftover <- [frame : Counts \cup {Freed}, size : Counts, stamp : Counts \cup {Freed}],
       latest <- pub, open <- Open,
       held <- [c \in {Output} |-> IF outPc \in {"unlock", "save", "reply"} THEN got ELSE Nothing]
LatestPicture == Register!Spec

(* A datagram whose worker waits when a picture is announced is answered   *)
(* with that picture or a newer one, unless a call fails and the worker    *)
(* returns, the input ends, or the program stops.                          *)
RequestAnswered ==
  \A n \in Counts :
    (Output \in blocked /\ inPc = "broadcast" /\ pub.frame = n)
      ~> \/ outPc = "reply" /\ got.frame >= n
         \/ outPc = "left" \/ ~Open \/ stop \/ process = "crashed"
-----------------------------------------------------------------------------
(* The inductive invariant behind LatestPicture. *)

Reading == {"allocate", "read", "stamp", "broadcast", "unlock"}
Taking  == {"locked", "size", "copy", "unlock"}

(* The thread that is between its lock and its unlock owns db.             *)
LockInv ==
  /\ inPc \in Reading => db = Input
  /\ outPc \in Taking => db = Output

(* What is stored is the picture last announced, or none, save while the   *)
(* input is at work on it or has ended.                                    *)
StoreInv ==
  /\ reads \in Counts /\ size \in Counts
  /\ pub \in [frame : Counts, size : Counts, stamp : Counts]
  /\ pub.size = pub.frame /\ pub.stamp = pub.frame
  /\ pub.frame <= reads
  /\ inPc \in {"pick", "event", "open", "lock", "allocate", "read"} => reads < MaxReads
  /\ inPc = "stamp" => buf = reads /\ size = reads
  /\ inPc \in {"broadcast", "unlock"} => buf = size
  /\ Open /\ inPc \notin {"read", "stamp"} => size = pub.frame
  /\ inPc \notin {"read", "stamp"} /\ db # Input =>
       size = 0 \/ buf = size \/ (buf = Freed /\ ~Open)

(* What the UDP worker has of the picture at hand.                         *)
TakerInv ==
  /\ got \in [frame : Counts \cup {Freed}, size : Counts, stamp : Counts \cup {Freed}]
  /\ outPc = "copy" => got.size = size

IInv == LockInv /\ StoreInv /\ TakerInv
-----------------------------------------------------------------------------
(* The inductive invariant behind ServedInTurn. *)

(* The file was picked and not read yet.                                   *)
Chosen == {"open", "lock", "allocate", "read"}

(* The list is sorted, but for the entries 0, and has an entry to look at. *)
Listed ==
  /\ fileList \in Seq(Files \cup {0}) /\ currentFileNumber \in 0..(Len(fileList) - 1)
  /\ \A i, j \in 1..Len(fileList) : i < j /\ fileList[i] # 0 => fileList[i] < fileList[j]

Passed(from, to) == \A i \in from..to : fileList[i] \notin Jpg

(* From f on only files of other names were passed.                        *)
PastOnly(f) ==
  \E p \in 1..Len(fileList) :
    /\ fileList[p] = f /\ f \in Jpg
    /\ \/ p <= currentFileNumber /\ Passed(p + 1, currentFileNumber)
       \/ /\ currentFileNumber < p
          /\ Passed(p + 1, Len(fileList)) /\ Passed(1, currentFileNumber)

Due == IF served = 0 THEN Min(Serves) ELSE After(served)

TurnInv ==
  /\ inPc = "start" => currentFileNumber = 0 /\ served = 0 /\ hasJpgFile = FALSE
  /\ inPc = "event" => mode # "existing"
  /\ mode = "existing" /\ Open /\ inPc # "start" =>
       /\ Listed
       /\ LET last == IF inPc \in Chosen THEN file ELSE served
          IN  /\ hasJpgFile = (last # 0)
              /\ IF last = 0 THEN Passed(1, currentFileNumber) ELSE PastOnly(last)
       /\ inPc \in Chosen => file = Due
=============================================================================
