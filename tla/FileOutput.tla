----------------------------- MODULE FileOutput -----------------------------
(***************************************************************************)
(* The file output plugin (plugins/output_file): its worker thread copies  *)
(* each picture it is woken for and saves it to a new file of the folder,  *)
(* of which it keeps the most recent ones; HTTP clients call output_cmd    *)
(* to save the current picture to a file of theirs (Takers).  All of them  *)
(* use the static variables frame and max_frame_size: they copy under the  *)
(* input's mutex db, but write to the file after they gave db up.          *)
(* The input is the register that FrameStore implements.  A picture is the *)
(* number of its capture and a size in cells; a cell of frame holds the    *)
(* number of the picture that was last copied over it.                     *)
(***************************************************************************)
EXTENDS Integers, FiniteSets, FiniteSetsExt

CONSTANTS
  Worker, Takers, Nobody,
  Sizes,        (* sizes of pictures                                    *)
  Slack,        (* what max_frame_size adds to the size of a picture    *)
  RingSizes, Exceeds,  (* options -size and -exceed                     *)
  MaxOld,       (* bound: pictures that earlier runs left in the folder *)
  MaxPicture,   (* bound: number of pictures                            *)
  MaxTime       (* bound: seconds                                       *)

Threads == {Worker} \cup Takers

ASSUME FileOutputAssumption ==
  /\ Worker \notin Takers /\ Nobody \notin Threads
  /\ Sizes \subseteq Nat \ {0} /\ IsFiniteSet(Sizes) /\ Sizes # {} /\ Slack \in Nat
  /\ RingSizes \subseteq Int /\ Exceeds \subseteq Int
  /\ MaxOld \in Nat /\ MaxPicture \in Nat /\ MaxTime \in Nat \ {0}

VARIABLES
  size, exceed, mjpeg,  (* the options; mjpeg is whether -mjpeg is given    *)
  latest,   (* the input's picture                                          *)
  db,       (* the thread that owns the input's mutex                       *)
  pc,       (* where each thread is                                         *)
  taken,    (* each thread's frame_size, with the picture it belongs to     *)
  frame, room, max_frame_size,  (* the shared buffer, its length, and the   *)
                                (* length the threads believe it has        *)
  counter, now, folder, (* pictures saved in this run, the time, the files  *)
  born,     (* history: number of files made so far                         *)
  torn,     (* history: a file was saved that is not the picture copied     *)
  slip      (* history: the last maintenance could not delete its files     *)

options == <<size, exceed, mjpeg>>
buffer  == <<frame, room, max_frame_size>>
disk    == <<counter, folder, born, slip>>
vars == <<options, latest, db, pc, taken, buffer, disk, now, torn>>

Cells == 1..Max(Sizes)
None == [id |-> 0, size |-> 0]

At(t, here, next) == pc[t] = here /\ pc' = [pc EXCEPT ![t] = next]
Rest(t) == IF t = Worker THEN "loop" ELSE "idle"
-----------------------------------------------------------------------------
(* The process starts with an empty buffer; the folder outlives it. *)
AtRest == [t \in Threads |-> Rest(t)]
Empty == [i \in Cells |-> 0]

Init ==
  /\ size \in RingSizes /\ exceed \in Exceeds /\ mjpeg \in BOOLEAN
  /\ latest = None /\ db = Nobody
  /\ pc = AtRest /\ taken = [t \in Threads |-> None]
  /\ frame = Empty /\ room = 0 /\ max_frame_size = 0
  /\ counter = 0 /\ now = 1
  /\ born \in 0..MaxOld
  /\ folder = {[time |-> 0, number |-> i - 1, age |-> i] : i \in 1..born}
  /\ torn = FALSE /\ slip = FALSE

(* It takes a second or more until the program runs again. *)
Restart ==
  /\ now < MaxTime /\ now' = now + 1
  /\ latest' = None /\ db' = Nobody
  /\ pc' = AtRest /\ taken' = [t \in Threads |-> None]
  /\ frame' = Empty /\ room' = 0 /\ max_frame_size' = 0
  /\ counter' = 0
  /\ UNCHANGED <<options, folder, born, torn, slip>>

Tick ==
  /\ now < MaxTime /\ now' = now + 1
  /\ UNCHANGED <<options, latest, db, pc, taken, buffer, disk, torn>>

(* The input publishes a picture and wakes the worker if it waits. *)
Publish ==
  /\ db = Nobody /\ latest.id < MaxPicture
  /\ \E n \in Sizes : latest' = [id |-> latest.id + 1, size |-> n]
  /\ pc' = [pc EXCEPT ![Worker] = IF @ = "wait" THEN "lock" ELSE @]
  /\ UNCHANGED <<options, db, taken, buffer, disk, now, torn>>
-----------------------------------------------------------------------------
(* Taking the picture. *)

Wait ==
  /\ db = Nobody
  /\ At(Worker, "loop", "wait")
  /\ UNCHANGED <<options, latest, db, taken, buffer, disk, now, torn>>

Command(t) ==
  /\ At(t, "idle", "lock")
  /\ UNCHANGED <<options, latest, db, taken, buffer, disk, now, torn>>

Lock(t) ==
  /\ db = Nobody /\ db' = t
  /\ At(t, "lock", "fit")
  /\ UNCHANGED <<options, latest, taken, buffer, disk, now, torn>>

FitOntoOld(t) ==
  /\ At(t, "fit", "copy")
  /\ max_frame_size' = max_frame_size + latest.size + Slack
  /\ room' = max_frame_size'
  /\ UNCHANGED <<options, latest, db, taken, frame, disk, now, torn>>

(* max_frame_size is raised before realloc, which may fail.               *)
Fit(t) ==
  /\ pc[t] = "fit"
  /\ \/ /\ latest.size <= max_frame_size
        /\ At(t, "fit", "copy") /\ UNCHANGED <<buffer, db>>
     \/ /\ latest.size > max_frame_size
        /\ max_frame_size' = latest.size + Slack
        /\ UNCHANGED frame
        /\ \/ room' = max_frame_size' /\ At(t, "fit", "copy") /\ UNCHANGED db
           \/ /\ At(t, "fit", IF t = Worker THEN "dead" ELSE "idle")
              /\ db' = Nobody /\ UNCHANGED room
  /\ UNCHANGED <<options, latest, taken, disk, now, torn>>

Copy(t) ==
  /\ At(t, "copy", "save")
  /\ frame' = [i \in Cells |-> IF i <= latest.size THEN latest.id ELSE frame[i]]
  /\ taken' = [taken EXCEPT ![t] = latest]
  /\ db' = Nobody
  /\ UNCHANGED <<options, latest, room, max_frame_size, disk, now, torn>>
-----------------------------------------------------------------------------
(* Saving it. *)

Intact(t) == \A i \in 1..taken[t].size : frame[i] = taken[t].id

TakerSaves(t) ==
  /\ t \in Takers /\ At(t, "save", "idle")
  /\ torn' \in {torn, torn \/ ~Intact(t)}
  /\ UNCHANGED <<options, latest, db, taken, buffer, disk, now>>

Append ==
  /\ mjpeg
  /\ \/ At(Worker, "save", "loop") /\ torn' = (torn \/ ~Intact(Worker))
     \/ At(Worker, "save", "dead") /\ UNCHANGED torn
  /\ UNCHANGED <<options, latest, db, taken, buffer, disk, now>>

(* When the folder is tidied up. *)
DueLate(n) == exceed <= 0 \/ n % (exceed + 1) = 0

Due(n) == exceed <= 0 \/ n = 1 \/ n % (exceed + 1) = 0

(* A new file, named by the time and counter; an old one of that name goes. *)
Save ==
  /\ ~mjpeg /\ pc[Worker] = "save"
  /\ counter' = counter + 1
  /\ \/ /\ born' = born + 1
        /\ folder' = {f \in folder : <<f.time, f.number>> # <<now, counter>>}
                       \cup {[time |-> now, number |-> counter, age |-> born']}
        /\ \/ /\ torn' = (torn \/ ~Intact(Worker))
              /\ At(Worker, "save", IF Due(counter') THEN "tidy" ELSE "loop")
           \/ /\ UNCHANGED torn              (* write() fails *)
              /\ At(Worker, "save", "dead")
     \/ /\ UNCHANGED <<born, folder, torn>>  (* open() fails *)
        /\ At(Worker, "save", "dead")
  /\ UNCHANGED <<options, latest, db, taken, buffer, now, slip>>

PrecedesByNumber(f, g) ==
  f.number < g.number \/ (f.number = g.number /\ f.time < g.time)

(* The order of the names in the folder. *)
Precedes(f, g) ==
  f.time < g.time \/ (f.time = g.time /\ f.number < g.number)

(* The names that are followed by n others or more. *)
Doomed(n) ==
  IF size < 0 THEN {}
  ELSE {f \in folder : Cardinality({g \in folder : Precedes(f, g)}) >= n}

(* maintain_ringbuffer: scandir may fail, and unlink of each file.          *)
Tidy ==
  /\ At(Worker, "tidy", "loop")
  /\ \E gone \in SUBSET Doomed(size) :
       /\ folder' = folder \ gone
       /\ slip' = (gone # Doomed(size))
  /\ UNCHANGED <<options, latest, db, taken, buffer, counter, born, now, torn>>

(* The worker is cancelled or finds stop set, and worker_cleanup frees the  *)
(* buffer.  A thread that is cancelled while it waits has db and keeps it.  *)
Stop ==
  /\ \/ pc[Worker] = "wait" /\ db = Nobody /\ db' = Worker
     \/ pc[Worker] \in {"loop", "save", "tidy"} /\ UNCHANGED db
  /\ pc' = [pc EXCEPT ![Worker] = "dead"]
  /\ room' = 0
  /\ UNCHANGED <<options, latest, taken, frame, max_frame_size, disk, now, torn>>
-----------------------------------------------------------------------------
Next ==
  \/ Restart \/ Tick \/ Publish
  \/ Wait \/ Append \/ Save \/ Tidy \/ Stop
  \/ \E t \in Takers : Command(t) \/ TakerSaves(t)
  \/ \E t \in Threads : Lock(t) \/ Fit(t) \/ Copy(t)

Spec == Init /\ [][Next]_vars
-----------------------------------------------------------------------------
(* Properties *)

(* The buffer never grows beyond what the largest picture asks for, and a  *)
(* thread that holds db is in its critical section or died waiting.        *)
TypeOK ==
  /\ db \in Threads \cup {Nobody}
  /\ db # Nobody => pc[db] \in {"fit", "copy", "dead"}
  /\ room \in 0..(Max(Sizes) + Slack) /\ max_frame_size \in 0..(Max(Sizes) + Slack)
  /\ counter \in 0..MaxPicture /\ now \in 1..MaxTime /\ born \in Nat
  /\ taken \in [Threads -> [id : 0..MaxPicture, size : Sizes \cup {0}]]
  /\ frame \in [Cells -> 0..MaxPicture]
  /\ folder \subseteq [time : 0..MaxTime, number : 0..(MaxOld + MaxPicture), age : 1..born]

(* "ringbuffer size...: size to size + exceed": once a run has saved a     *)
(* picture, the folder holds no more than that between two pictures, what  *)
(* earlier runs left behind included, unless files could not be deleted.   *)
(* For the size 0 the plugin announces "no ringbuffer" (line 485), but     *)
(* maintain_ringbuffer stops only at sizes below 0 (line 160), so it is a  *)
(* ring buffer like others, of no picture but the exceed.                  *)
RingBounded ==
  (size >= 0 /\ counter > 0 /\ pc[Worker] \in {"loop", "wait", "lock"} /\ ~slip)
    => Cardinality(folder) <= size + Max({exceed, 0})

(* "do nothing if ringbuffer is not set", "delete oldest files, just keep  *)
(* size most recent files": a picture goes only when a size is set and so  *)
(* many pictures that were saved after it stay, whichever run of the       *)
(* program saved them.  With the size 0 any may go.                        *)
KeepsMostRecent ==
  [][\A f \in folder \ folder' :
       size >= 0 /\ Cardinality({g \in folder' : g.age > f.age}) >= size]_folder

(* "copy frame to our local buffer": what a thread saves is the picture it *)
(* has copied, whole.                                                      *)
SavedWhole == ~torn
=============================================================================
