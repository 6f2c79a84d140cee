----------------------------- MODULE FileInput -----------------------------
(***************************************************************************)
(* The file input plugin (plugins/input_file): worker_thread reads         *)
(* pictures from a folder into the shared picture.  In the mode            *)
(* "existing" it lists the folder once and serves its *.jpg files in turn; *)
(* in the mode "new" it serves each file for which inotify reports that it *)
(* was written.  Files are numbers, in the order of their names; 0 stands  *)
(* for "." and "..", with which every listing begins.                      *)
(* The folder belongs to other programs, which write and remove files.     *)
(***************************************************************************)
EXTENDS SharedPicture, FiniteSetsExt, SequencesExt

CONSTANTS
  Files,      (* files that may be in the folder                     *)
  Folders,    (* what may be in it when the program starts           *)
  Jpg,        (* the files that are named *.jpg                      *)
  Modes,      (* the modes to look at                                *)
  Removing,   (* whether option -remove is given: a set of BOOLEAN   *)
  Wanted,     (* option -name: the files that pass it                *)
  MaxReads,   (* bound: pictures read                                *)
  MaxWrites   (* bound: files written or removed by others           *)

ASSUME FileInputAssumption ==
  /\ Files \subseteq Nat \ {0} /\ IsFiniteSet(Files)
  /\ Folders \subseteq SUBSET Files
  /\ Jpg \subseteq Files /\ Wanted \subseteq Files
  /\ Modes \subseteq {"existing", "new"} /\ Removing \subseteq BOOLEAN
  /\ MaxReads \in Nat /\ MaxWrites \in Nat

VARIABLES
  mode, rm,                 (* the options                                  *)
  folder,                   (* the files there are                          *)
  events,                   (* what inotify has queued                      *)
  writes,                   (* how often others wrote or removed a file     *)
  inPc,                     (* where worker_thread is                       *)
  fileList,                 (* what scandir found                           *)
  currentFileNumber, hasJpgFile,
  file,                     (* the file to be read                          *)
  reads,                    (* number of the last picture read              *)
  served                    (* history: the file of the last picture        *)

outside == <<folder, events, writes>>
scan    == <<fileList, currentFileNumber, hasJpgFile>>
inVars  == <<mode, rm, outside, inPc, scan, file, reads, served>>

InAt(here, next) == inPc = here /\ inPc' = next

FileInputInit ==
  /\ mode \in Modes /\ rm \in Removing
  /\ folder \in Folders /\ events = <<>> /\ writes = 0
  /\ inPc = "start"
  /\ fileList = <<>> /\ currentFileNumber = 0 /\ hasJpgFile = FALSE
  /\ file = 0 /\ reads = 0 /\ served = 0
-----------------------------------------------------------------------------
(* The other programs. *)

Written(f) ==
  /\ writes < MaxWrites /\ writes' = writes + 1
  /\ folder' = folder \cup {f}
  /\ events' = Append(events, f)
  /\ UNCHANGED <<shared, mode, rm, inPc, scan, file, reads, served>>

Removed(f) ==
  /\ writes < MaxWrites /\ writes' = writes + 1
  /\ f \in folder /\ folder' = folder \ {f}
  /\ UNCHANGED <<shared, mode, rm, events, inPc, scan, file, reads, served>>
-----------------------------------------------------------------------------
(* worker_thread *)

ListingsDescending(S) ==
  {<<0, 0>> \o s : s \in {t \in [1..Cardinality(S) -> S] :
      Range(t) = S /\ \A i, j \in DOMAIN t : i < j => t[i] > t[j]}}

(* scandir with alphasort: the folder's files in the order of their names. *)
Listings(S) ==
  {<<0, 0>> \o s : s \in {t \in [1..Cardinality(S) -> S] :
      Range(t) = S /\ \A i, j \in DOMAIN t : i < j => t[i] < t[j]}}

(* If scandir fails the thread returns.                                    *)
Scan ==
  /\ \/ /\ InAt("start", "loop")
        /\ fileList' \in IF mode = "existing" THEN Listings(folder) ELSE {<<>>}
     \/ mode = "existing" /\ InAt("start", "left") /\ UNCHANGED fileList
  /\ UNCHANGED <<shared, mode, rm, outside, currentFileNumber, hasJpgFile, file, reads, served>>

Loop ==
  /\ reads < MaxReads
  /\ InAt("loop", IF stop THEN "quit" ELSE IF mode = "existing" THEN "pick" ELSE "event")
  /\ UNCHANGED <<shared, mode, rm, outside, scan, file, reads, served>>

PickPastTheEnd ==
  LET entry == fileList[currentFileNumber + 1]
      next  == currentFileNumber + 1
      last  == next = Len(fileList)
  IN /\ inPc = "pick"
     /\ IF entry \in Jpg
        THEN /\ hasJpgFile' = TRUE /\ file' = entry
             /\ currentFileNumber' = IF last THEN 0 ELSE next
             /\ inPc' = "open"
        ELSE /\ currentFileNumber' = next
             /\ inPc' = IF last /\ ~hasJpgFile THEN "quit" ELSE "loop"
             /\ UNCHANGED <<hasJpgFile, file>>
     /\ UNCHANGED <<shared, mode, rm, outside, fileList, reads, served>>

(* The next entry of the list, which is served if it is a *.jpg file.      *)
Pick ==
  LET entry == fileList[currentFileNumber + 1]
      next  == currentFileNumber + 1
      last  == next = Len(fileList)
  IN /\ inPc = "pick"
     /\ IF entry \in Jpg
        THEN /\ hasJpgFile' = TRUE /\ file' = entry
             /\ currentFileNumber' = IF last THEN 0 ELSE next
             /\ inPc' = "open"
        ELSE /\ currentFileNumber' = IF last /\ hasJpgFile THEN 0 ELSE next
             /\ inPc' = IF last /\ ~hasJpgFile THEN "quit" ELSE "loop"
             /\ UNCHANGED <<hasJpgFile, file>>
     /\ UNCHANGED <<shared, mode, rm, outside, fileList, reads, served>>

(* One read of inotify takes all the events there are and looks at the     *)
(* first one only.                                                         *)
NextEvent ==
  /\ inPc = "event" /\ events # <<>>
  /\ events' = <<>>
  /\ IF Head(events) \in Wanted
     THEN inPc' = "open" /\ file' = Head(events)
     ELSE inPc' = "loop" /\ UNCHANGED file
  /\ UNCHANGED <<shared, mode, rm, folder, writes, scan, reads, served>>

(* The folder was removed or unmounted, or read failed.                    *)
WatchEnds ==
  /\ InAt("event", "quit")
  /\ UNCHANGED <<shared, mode, rm, outside, scan, file, reads, served>>

(* open and fstat: a file that is no longer there ends the input.          *)
OpenFile ==
  /\ InAt("open", IF file \in folder THEN "lock" ELSE "quit")
  /\ UNCHANGED <<shared, mode, rm, outside, scan, file, reads, served>>

LockInput ==
  /\ InAt("lock", "allocate")
  /\ db = Nobody /\ db' = Input
  /\ UNCHANGED <<stop, process, blocked, picture, mode, rm, outside, scan, file, reads, served>>

(* free, then malloc.  If that fails the loop is left with db locked.      *)
AllocateBuffer ==
  /\ \/ InAt("allocate", "read") /\ buf' = Fresh
     \/ MemoryFails /\ InAt("allocate", "quit") /\ buf' = Null
  /\ UNCHANGED <<stop, process, db, blocked, size, pub, mode, rm, outside, scan, file,
                 reads, served>>

(* read; if it fails there is no picture any more.                         *)
ReadFile ==
  /\ \/ /\ InAt("read", "stamp")
        /\ reads' = reads + 1 /\ served' = file
        /\ buf' = reads' /\ size' = reads'
        /\ UNCHANGED db
     \/ /\ InAt("read", "quit")
        /\ buf' = Null /\ size' = 0 /\ db' = Nobody
        /\ UNCHANGED <<reads, served>>
  /\ UNCHANGED <<stop, process, blocked, pub, mode, rm, outside, scan, file>>

StampPicture ==
  /\ InAt("stamp", "broadcast")
  /\ pub' = [frame |-> reads, size |-> reads, stamp |-> reads]
  /\ UNCHANGED <<stop, process, db, blocked, buf, size, mode, rm, outside, scan, file,
                 reads, served>>

BroadcastNobody ==
  /\ InAt("broadcast", "unlock")
  /\ UNCHANGED <<shared, mode, rm, outside, scan, file, reads, served>>

BroadcastPicture ==
  /\ InAt("broadcast", "unlock")
  /\ blocked' = {}
  /\ UNCHANGED <<stop, process, db, picture, mode, rm, outside, scan, file, reads, served>>

UnlockInput ==
  /\ InAt("unlock", "remove")
  /\ db' = Nobody
  /\ UNCHANGED <<stop, process, blocked, picture, mode, rm, outside, scan, file, reads, served>>

(* unlink, if asked for, and usleep.                                       *)
RemoveFile ==
  /\ InAt("remove", "loop")
  /\ folder' = IF rm THEN folder \ {file} ELSE folder
  /\ UNCHANGED <<shared, mode, rm, events, writes, scan, file, reads, served>>

(* free(fileList), which in the mode "new" was never set: nothing can be   *)
(* said of what that does.                                                 *)
FreeList ==
  /\ InAt("quit", "cleanup")
  /\ process' = process \/ (mode = "new" /\ process' = "crashed")
  /\ UNCHANGED <<stop, db, blocked, picture, mode, rm, outside, scan, file, reads, served>>

(* worker_cleanup: free(buf), without the lock.                            *)
CleanUpInput ==
  /\ InAt("cleanup", "left")
  /\ buf' = IF buf = Null THEN Null ELSE Freed
  /\ UNCHANGED <<stop, process, db, blocked, size, pub, mode, rm, outside, scan, file,
                 reads, served>>

(* input_stop cancels the thread, which ends in a call that may block:     *)
(* read (of a file: with db locked), open, usleep.                         *)
CancelInput ==
  /\ stop /\ inPc \in {"event", "open", "read", "remove"}
  /\ inPc' = "cleanup"
  /\ UNCHANGED <<shared, mode, rm, outside, scan, file, reads, served>>

InputNext ==
  \/ Scan \/ Loop \/ Pick \/ NextEvent \/ WatchEnds \/ OpenFile \/ LockInput
  \/ AllocateBuffer \/ ReadFile \/ StampPicture \/ BroadcastPicture \/ UnlockInput
  \/ RemoveFile \/ FreeList \/ CleanUpInput \/ CancelInput

(* The input has not come to its end.                                      *)
Open == inPc \notin {"quit", "cleanup", "left"}

(* The files that "existing" serves, in turn.                              *)
Serves == {f \in Jpg : f \in Range(fileList)}

After(f) == LET later == {g \in Serves : g > f}
            IN  IF later # {} THEN Min(later) ELSE Min(Serves)

FileInputType ==
  /\ mode \in Modes /\ rm \in Removing
  /\ folder \subseteq Files /\ events \in Seq(Files) /\ writes \in 0..MaxWrites
  /\ inPc \in {"start", "loop", "pick", "event", "open", "lock", "allocate", "read", "stamp",
               "broadcast", "unlock", "remove", "quit", "cleanup", "left"}
  /\ fileList \in Seq(Files \cup {0})
  /\ inPc = "pick" => currentFileNumber \in 0..(Len(fileList) - 1)
  /\ hasJpgFile \in BOOLEAN /\ file \in Files \cup {0}
  /\ reads \in 0..MaxReads /\ served \in Files \cup {0}

(* Each picture of the folder in its turn: whatever entries of other names *)
(* there are among them and at the end of the list, the picture read after *)
(* that of f is that of the next *.jpg file, and the first after the last. *)
ServedInTurn ==
  [][mode = "existing" /\ reads' # reads =>
       served' = IF served = 0 THEN Min(Serves) ELSE After(served)]_<<served, reads>>
=============================================================================
