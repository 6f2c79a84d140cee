--------------------------- MODULE SharedPicture ---------------------------
(***************************************************************************)
(* What the plugins share of one entry of global.in[] when they run as     *)
(* threads of their own: the mutex db, the condition variable db_update    *)
(* and the picture.  FileInput fills it, UdpOutput copies it, each with    *)
(* its own state; FilePipeline composes them.  A picture is the number of  *)
(* the read that brought it in.                                            *)
(***************************************************************************)
EXTENDS Integers, Sequences

CONSTANTS
  Input, Output, Nobody,  (* the two threads, and the owner of a free db *)
  MemoryFails             (* malloc and realloc may fail                 *)

ASSUME SharedPictureAssumption ==
  /\ Input # Output /\ Nobody \notin {Input, Output}
  /\ MemoryFails \in BOOLEAN

VARIABLES
  stop, process,  (* global.stop; whether the program runs or has crashed *)
  db,             (* the owner of the mutex                               *)
  blocked,        (* the threads in pthread_cond_wait(db_update, db)      *)
  buf, size,      (* in->buf and in->size                                 *)
  pub             (* history: the picture last stored, with its time      *)

picture == <<buf, size, pub>>
shared  == <<stop, process, db, blocked, picture>>

Null   == -1    (* no buffer          *)
Fresh  == -2    (* malloc'ed, not yet written *)
Freed  == -3    (* freed, and still pointed to *)

NoPicture == [frame |-> 0, size |-> 0, stamp |-> 0]

SharedInit ==
  /\ stop = FALSE /\ process = "runs"
  /\ db = Nobody /\ blocked = {}
  /\ buf = Null /\ size = 0 /\ pub = NoPicture
=============================================================================
