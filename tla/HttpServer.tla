----------------------------- MODULE HttpServer -----------------------------
(***************************************************************************)
(* The HTTP output plugin (plugins/output_http): server_thread accepts     *)
(* connections and starts a detached client_thread for each, to which it   *)
(* hands a heap record (cfd) that the client copies and frees.  There is   *)
(* one record per round of select.  A client thread reads the request with *)
(* a timeout, checks the credentials, and answers: a picture or a stream,  *)
(* a command, a take (save the picture with the file plugin, then send a   *)
(* picture), JSON, a file or the output of a script.                       *)
(* Of waiting for a picture only the outcome matters here: FrameStore has  *)
(* the rest.  An answer is its status, or "frame" and "stream".            *)
(*                                                                         *)
(* No result of accept is tested.  When it fails, a thread is started for  *)
(* the descriptor -1 all the same: there select only lets the timeout pass *)
(* (and FD_SET writes within the set; a build that checks it would abort). *)
(***************************************************************************)
EXTENDS Integers, Sequences, FiniteSets, FiniteSetsExt

CONSTANTS
  Sockets,      (* listening sockets, by their index in sd[]             *)
  Descriptors,  (* descriptors there are for connections                 *)
  Peers,        (* remote clients, each of which connects once           *)
  MaxFailures,  (* bound: accepts that fail and leave a client waiting   *)
  Requests,     (* what each of them may ask for                         *)
  Options,      (* the ways the program may be started                   *)
  Nobody

(* malformed: not GET; garbled: with a wrong %-escape.                     *)
Kinds == {"snapshot", "stream", "take", "takeUnnamed", "command", "json", "file",
          "cgi", "malformed", "garbled"}

(* input: the number after the first "_" names a plugin that is loaded.    *)
(* target: the file or the command that is asked for; "uncallable" is a    *)
(* command for a plugin that has none of the optional functions.           *)
Request == [kind : Kinds, input : BOOLEAN, target : {"found", "missing", "uncallable"},
            authorized : BOOLEAN]

(* The options -credentials, -nocommands and -www of the plugin, and       *)
(* whether the file output plugin is loaded.                               *)
Option == [credentials : BOOLEAN, nocommands : BOOLEAN, www : BOOLEAN, file : BOOLEAN]

ASSUME HttpServerAssumption ==
  /\ Sockets \subseteq Nat /\ IsFiniteSet(Sockets) /\ Sockets # {}
  /\ Descriptors \subseteq Nat /\ IsFiniteSet(Descriptors)
  /\ IsFiniteSet(Peers) /\ Nobody \notin Peers
  /\ MaxFailures \in Nat
  /\ Requests \in [Peers -> SUBSET Request]
  /\ Options \subseteq Option

(* A thread and a record at most for each peer and for each failed accept, *)
(* and the record in waiting.                                              *)
Ids == 1..(Cardinality(Peers) + MaxFailures + 1)

VARIABLES
  conf,           (* the options in force                                   *)
  stop, outcome,  (* global.stop; whether the program runs, or how it ended *)
  serverPc,
  ready,          (* sockets that select reported and are not yet handled   *)
  pcfd,           (* the record of this round                               *)
  records,        (* the records: fd, and whether it was freed              *)
  backlog,        (* per socket, the peers waiting to be accepted           *)
  failures,       (* accepts that failed and left the peer in the backlog   *)
  open,           (* per descriptor, the peer at the other end              *)
  threads,        (* client threads: place, record handed over, lcfd.fd     *)
  asked, arrived, (* each peer's request, and how much of it has arrived;   *)
                  (* "lost": it left, or is too slow, or gets no thread     *)
  answers,        (* history: what was sent to each peer                    *)
  saved           (* history: the peers whose take has saved a picture      *)

serverVars == <<serverPc, ready, pcfd, backlog, failures>>
peerVars   == <<asked, arrived>>
history    == <<answers, saved>>
vars == <<conf, stop, outcome, serverVars, records, open, threads, peerVars, history>>

NoThread == [pc |-> "none", record |-> 0, fd |-> -1]
Ended == [pc |-> "done", record |-> 0, fd |-> -1]
Freed == [fd |-> -1, freed |-> TRUE]
NoRequest == [kind |-> "malformed", input |-> FALSE, target |-> "missing", authorized |-> FALSE]
Started == {t \in Ids : threads[t] # NoThread}

Init ==
  /\ conf \in Options
  /\ stop = FALSE /\ outcome = "runs"
  /\ serverPc = "select" /\ ready = {} /\ pcfd = 1
  /\ records = [r \in Ids |-> [fd |-> -1, freed |-> FALSE]]
  /\ backlog = [s \in Sockets |-> <<>>]
  /\ open = [d \in Descriptors |-> Nobody]
  /\ threads = [t \in Ids |-> NoThread]
  /\ asked = [p \in Peers |-> NoRequest] /\ arrived = [p \in Peers |-> "away"]
  /\ failures = 0
  /\ answers = [p \in Peers |-> <<>>]
  /\ saved = {}
-----------------------------------------------------------------------------
(* server_thread *)

SelectOnce ==
  /\ serverPc = "select"
  /\ ready' = {s \in Sockets : backlog[s] # <<>>}
  /\ serverPc' = "accept"
  /\ UNCHANGED <<conf, stop, outcome, pcfd, records, backlog, failures, open, threads, peerVars, history>>

Select ==
  /\ serverPc = "select"
  /\ ready' = {s \in Sockets : backlog[s] # <<>>} /\ ready' # {}
  /\ serverPc' = "accept"
  /\ UNCHANGED <<conf, stop, outcome, pcfd, records, backlog, failures, open, threads, peerVars, history>>

Free == {d \in Descriptors : open[d] = Nobody}

(* What accept returns for the peer that is first in the backlog: the      *)
(* lowest free descriptor; or it fails since the peer has gone; or since   *)
(* there is no descriptor or memory, and then the peer stays.              *)
Results == {"taken", "gone", "kept"}

ReturnedDropping(result, s, fd) ==
  \/ /\ result = "taken"
     /\ fd \in Free /\ \A e \in Free : fd <= e
     /\ backlog' = [backlog EXCEPT ![s] = Tail(@)]
     /\ UNCHANGED failures
  \/ /\ result \in {"gone", "kept"} /\ fd = -1
     /\ backlog' = [backlog EXCEPT ![s] = Tail(@)]
     /\ UNCHANGED failures

Returned(result, s, fd) ==
  \/ /\ result = "taken"
     /\ fd \in Free /\ \A e \in Free : fd <= e
     /\ backlog' = [backlog EXCEPT ![s] = Tail(@)]
     /\ UNCHANGED failures
  \/ /\ result = "gone" /\ fd = -1
     /\ backlog' = [backlog EXCEPT ![s] = Tail(@)]
     /\ UNCHANGED failures
  \/ /\ result = "kept" /\ fd = -1
     /\ failures < MaxFailures /\ failures' = failures + 1
     /\ UNCHANGED backlog

(* accept, and pthread_create of a client thread, which may fail: then the *)
(* descriptor is closed and the record freed, and the round goes on.       *)
Accept(result) ==
  /\ serverPc = "accept" /\ ready # {}
  /\ LET s == Min(ready)
         p == Head(backlog[s])
         t == Cardinality(Started) + 1
     IN
     \E fd \in Descriptors \cup {-1} :
       /\ Returned(result, s, fd)
       /\ ready' = ready \ {s}
       /\ \/ /\ records' = [records EXCEPT ![pcfd].fd = fd]
             /\ threads' = [threads EXCEPT ![t] = [pc |-> "start", record |-> pcfd, fd |-> -1]]
             /\ open' = IF fd = -1 THEN open ELSE [open EXCEPT ![fd] = p]
             /\ arrived' = IF result = "gone" THEN [arrived EXCEPT ![p] = "lost"] ELSE arrived
             /\ UNCHANGED outcome
          \/ /\ outcome' = IF records[pcfd].freed THEN "doubleFree" ELSE outcome
             /\ records' = [records EXCEPT ![pcfd] = Freed]
             /\ arrived' = IF result = "kept" THEN arrived ELSE [arrived EXCEPT ![p] = "lost"]
             /\ UNCHANGED <<threads, open>>
  /\ UNCHANGED <<conf, stop, serverPc, pcfd, asked, history>>

RoundEnds ==
  /\ serverPc = "accept" /\ ready = {}
  /\ serverPc' = IF stop THEN "done" ELSE "select"
  /\ pcfd' = pcfd + 1
  /\ UNCHANGED <<conf, stop, outcome, ready, records, backlog, failures, open, threads, peerVars, history>>

(* signal_handler sets stop and then has output_stop cancel server_thread; *)
(* server_cleanup closes the sockets.  The client threads go on.           *)
Stop ==
  /\ ~stop /\ stop' = TRUE
  /\ UNCHANGED <<conf, outcome, serverVars, records, open, threads, peerVars, history>>

Cancel ==
  /\ stop /\ serverPc = "select" /\ serverPc' = "done"
  /\ UNCHANGED <<conf, stop, outcome, ready, pcfd, backlog, failures, records, open, threads, peerVars, history>>
-----------------------------------------------------------------------------
(* client_thread *)

Peer(t) == open[threads[t].fd]
Asked(t) == asked[Peer(t)]

At(t, here, next) ==
  /\ threads[t].pc = here
  /\ threads' = [threads EXCEPT ![t].pc = next]

Answer(t, what) == answers' = [answers EXCEPT ![Peer(t)] = @ \o what]
Lose(t) == arrived' = [arrived EXCEPT ![Peer(t)] = "lost"]

(* memcpy(&lcfd, arg, sizeof(cfd)); free(arg) *)
Begin(t) ==
  /\ threads[t].pc = "start"
  /\ LET r == threads[t].record IN
     /\ threads' = [threads EXCEPT ![t] = [pc |-> "line", record |-> 0, fd |-> records[r].fd]]
     /\ outcome' = IF records[r].freed THEN "doubleFree" ELSE outcome
     /\ records' = [records EXCEPT ![r] = Freed]
  /\ UNCHANGED <<conf, stop, serverVars, open, peerVars, history>>

(* _read of the descriptor -1 waits for none, select(0, ...), and returns  *)
(* after the timeout; close(-1) does nothing, and the thread ends.         *)
BadDescriptor(t) ==
  /\ threads[t].pc = "line" /\ threads[t].fd = -1
  /\ threads' = [threads EXCEPT ![t] = Ended]
  /\ UNCHANGED <<conf, stop, outcome, serverVars, records, open, peerVars, history>>

ReadLine(t) ==
  /\ threads[t].pc = "line" /\ threads[t].fd # -1 /\ arrived[Peer(t)] # "nothing"
  /\ \/ Asked(t).kind = "malformed" /\ At(t, "line", "close") /\ Answer(t, <<"400">>)
     \/ Asked(t).kind = "garbled" /\ At(t, "line", "close") /\ Answer(t, <<"500">>)
     \/ /\ Asked(t).kind \notin {"malformed", "garbled"}
        /\ At(t, "line", "headers") /\ UNCHANGED answers
  /\ UNCHANGED <<conf, stop, outcome, serverVars, records, open, peerVars, saved>>

(* Nothing more within five seconds, or the peer has gone. *)
ReadFails(t) ==
  /\ threads[t].pc \in {"line", "headers"} /\ threads[t].fd # -1
  /\ arrived[Peer(t)] # "all"
  /\ \/ At(t, "line", "close") /\ arrived[Peer(t)] = "nothing"
     \/ At(t, "headers", "close")
  /\ Lose(t)
  /\ UNCHANGED <<conf, stop, outcome, serverVars, records, open, asked, history>>

Refused(t) == conf.credentials /\ ~Asked(t).authorized

(* Requests that name a plugin, and name one that is not loaded. *)
NoSuchInput(t) ==
  Asked(t).kind \in {"snapshot", "stream", "take", "takeUnnamed", "json"} /\ ~Asked(t).input

ReadHeadersAndGoOn(t) ==
  /\ threads[t].pc = "headers" /\ arrived[Peer(t)] = "all"
  /\ At(t, "headers", IF NoSuchInput(t) THEN "close" ELSE "answer")
  /\ Answer(t, (IF Refused(t) THEN <<"401">> ELSE <<>>)
                 \o (IF NoSuchInput(t) THEN <<"404">> ELSE <<>>))
  /\ UNCHANGED <<conf, stop, outcome, serverVars, records, open, peerVars, saved>>

ReadHeaders(t) ==
  /\ threads[t].pc = "headers" /\ arrived[Peer(t)] = "all"
  /\ \/ Refused(t) /\ At(t, "headers", "close") /\ Answer(t, <<"401">>)
     \/ ~Refused(t) /\ NoSuchInput(t) /\ At(t, "headers", "close") /\ Answer(t, <<"404">>)
     \/ ~Refused(t) /\ ~NoSuchInput(t) /\ At(t, "headers", "answer") /\ UNCHANGED answers
  /\ UNCHANGED <<conf, stop, outcome, serverVars, records, open, peerVars, saved>>

SendPicture(t) ==
  /\ Asked(t).kind \in {"snapshot", "stream"}
  /\ At(t, "answer", "wait")
  /\ Answer(t, IF Asked(t).kind = "stream" THEN <<"stream">> ELSE <<>>)
  /\ UNCHANGED <<outcome, saved>>

(* A command without an id is wrong (400); there may be no memory (500).   *)
(* One for a plugin that is not loaded is not executed, and is answered    *)
(* like a success ("found"); one for a plugin that has no command function *)
(* calls the null pointer.                                                 *)
Command(t) ==
  /\ Asked(t).kind = "command"
  /\ At(t, "answer", "close")
  /\ IF ~conf.nocommands /\ Asked(t).target = "uncallable"
       THEN outcome' = "crashed" /\ UNCHANGED answers
       ELSE /\ \E status \in IF conf.nocommands THEN {"501"}
                            ELSE IF Asked(t).target = "found" THEN {"200", "500"} ELSE {"400"} :
                 Answer(t, <<status>>)
            /\ UNCHANGED outcome
  /\ UNCHANGED saved

(* A file is missing when it cannot be opened or its type is not known     *)
(* (404), or its name has no extension (400).                              *)
SendFile(t) ==
  /\ Asked(t).kind \in {"json", "file"}
  /\ At(t, "answer", "close")
  /\ \E status \in IF Asked(t).kind = "json" THEN {"200"}
                   ELSE IF ~conf.www THEN {"501"}
                   ELSE IF Asked(t).target = "found" THEN {"200"} ELSE {"400", "404"} :
       Answer(t, <<status>>)
  /\ UNCHANGED <<outcome, saved>>

(* execute_cgi: without a www folder the null pointer is followed.         *)
RunScript(t) ==
  /\ Asked(t).kind = "cgi"
  /\ At(t, "answer", "close")
  /\ IF conf.www
       THEN /\ \E status \in IF Asked(t).target = "found" THEN {"200", "403"} ELSE {"404"} :
                 Answer(t, <<status>>)
            /\ UNCHANGED outcome
       ELSE outcome' = "crashed" /\ UNCHANGED answers
  /\ UNCHANGED saved

TakeUnchecked(t) ==
  /\ Asked(t).kind \in {"take", "takeUnnamed"}
  /\ \/ ~conf.file /\ At(t, "answer", "close") /\ Answer(t, <<"404">>) /\ UNCHANGED saved
     \/ conf.file /\ At(t, "answer", "wait") /\ saved' \in {saved, saved \cup {Peer(t)}}
        /\ UNCHANGED answers
  /\ UNCHANGED outcome

(* output_cmd of the file plugin may fail.  Without a file name it is not  *)
(* called, an error is sent, and ret is left at 0.                         *)
Take(t) ==
  /\ Asked(t).kind \in {"take", "takeUnnamed"}
  /\ \/ ~conf.file /\ At(t, "answer", "close") /\ Answer(t, <<"404">>) /\ UNCHANGED saved
     \/ /\ conf.file /\ Asked(t).kind = "take"
        /\ \/ At(t, "answer", "wait") /\ saved' = saved \cup {Peer(t)} /\ UNCHANGED answers
           \/ At(t, "answer", "close") /\ Answer(t, <<"404">>) /\ UNCHANGED saved
     \/ /\ conf.file /\ Asked(t).kind = "takeUnnamed"
        /\ At(t, "answer", "wait") /\ Answer(t, <<"404">>) /\ UNCHANGED saved
  /\ UNCHANGED outcome

AnswerRequest(t) ==
  /\ threads[t].pc = "answer"
  /\ SendPicture(t) \/ Command(t) \/ SendFile(t) \/ RunScript(t) \/ Take(t)
  /\ UNCHANGED <<conf, stop, serverVars, records, open, peerVars>>

(* send_snapshot and the rounds of send_stream: a picture comes, or there  *)
(* is no memory for it, or the peer has gone.                              *)
Picture(t) ==
  /\ threads[t].pc = "wait"
  /\ \/ /\ Asked(t).kind = "stream" /\ ~stop
        /\ UNCHANGED <<threads, answers, arrived>>
     \/ /\ Asked(t).kind = "stream" /\ stop
        /\ At(t, "wait", "close") /\ UNCHANGED <<answers, arrived>>
     \/ /\ Asked(t).kind # "stream"
        /\ At(t, "wait", "close") /\ Answer(t, <<"frame">>) /\ UNCHANGED arrived
     \/ At(t, "wait", "close") /\ Answer(t, <<"500">>) /\ UNCHANGED arrived
     \/ At(t, "wait", "close") /\ Lose(t) /\ UNCHANGED answers
  /\ UNCHANGED <<conf, stop, outcome, serverVars, records, open, asked, saved>>

CloseIfAnswered(t) ==
  /\ threads[t].pc = "close" /\ threads' = [threads EXCEPT ![t] = Ended]
  /\ open' = IF answers[Peer(t)] = <<>> THEN open ELSE [open EXCEPT ![threads[t].fd] = Nobody]
  /\ UNCHANGED <<conf, stop, outcome, serverVars, records, peerVars, history>>

Close(t) ==
  /\ threads[t].pc = "close" /\ threads' = [threads EXCEPT ![t] = Ended]
  /\ open' = [open EXCEPT ![threads[t].fd] = Nobody]
  /\ UNCHANGED <<conf, stop, outcome, serverVars, records, peerVars, history>>

Client(t) ==
  \/ Begin(t) \/ BadDescriptor(t) \/ ReadLine(t) \/ ReadFails(t) \/ ReadHeaders(t)
  \/ AnswerRequest(t) \/ Close(t)
-----------------------------------------------------------------------------
(* The peers. *)

Connect(p) ==
  /\ arrived[p] = "away" /\ serverPc # "done"
  /\ arrived' = [arrived EXCEPT ![p] = "nothing"]
  /\ \E s \in Sockets : backlog' = [backlog EXCEPT ![s] = Append(@, p)]
  /\ \E r \in Requests[p] : asked' = [asked EXCEPT ![p] = r]
  /\ UNCHANGED <<conf, stop, outcome, serverPc, ready, pcfd, failures, records, open, threads, history>>

Pending(p) ==
  \/ \E d \in Descriptors : open[d] = p
  \/ \E s \in Sockets : \E i \in DOMAIN backlog[s] : backlog[s][i] = p

(* The first line of the request arrives, or the rest of it.               *)
Send(p) ==
  /\ Pending(p)
  /\ \/ arrived[p] = "nothing" /\ arrived' = [arrived EXCEPT ![p] = "line"]
     \/ arrived[p] = "line" /\ arrived' = [arrived EXCEPT ![p] = "all"]
  /\ UNCHANGED <<conf, stop, outcome, serverVars, records, open, threads, asked, history>>
-----------------------------------------------------------------------------
Next ==
  /\ outcome = "runs"
  /\ \/ Select \/ RoundEnds \/ Stop \/ Cancel
     \/ \E result \in Results : Accept(result)
     \/ \E t \in Ids : Client(t) \/ Picture(t)
     \/ \E p \in Peers : Connect(p) \/ Send(p)

Spec == Init /\ [][Next]_vars

(* The threads run: a read ends when the request or the timeout comes.     *)
(* (One condition does for all client threads, since none of them takes    *)
(* infinitely many of these steps.)  Nothing is assumed of the peers, of   *)
(* pictures or of signals.                                                 *)
Serve == Select \/ Accept("taken") \/ Accept("kept") \/ RoundEnds

FairSpec ==
  /\ Spec
  /\ WF_vars(outcome = "runs" /\ Serve)
  /\ WF_vars(outcome = "runs" /\ \E t \in Ids : Client(t))
-----------------------------------------------------------------------------
Errors == {"400", "401", "403", "404", "500", "501"}
Statuses == Errors \cup {"200", "frame", "stream"}

(* The variables range over the values the code can give them; each round  *)
(* of select, and so each record, is for at least one connection.          *)
TypeOK ==
  /\ conf \in Option
  /\ stop \in BOOLEAN /\ outcome \in {"runs", "crashed", "doubleFree"}
  /\ serverPc \in {"select", "accept", "done"}
  /\ ready \subseteq Sockets /\ pcfd \in Ids
  /\ records \in [Ids -> [fd : Descriptors \cup {-1}, freed : BOOLEAN]]
  /\ backlog \in [Sockets -> Seq(Peers)]
  /\ open \in [Descriptors -> Peers \cup {Nobody}]
  /\ threads \in [Ids -> [pc : {"none", "start", "line", "headers", "answer", "wait",
                                "close", "done"},
                          record : Ids \cup {0}, fd : Descriptors \cup {-1}]]
  /\ asked \in [Peers -> Request]
  /\ arrived \in [Peers -> {"away", "nothing", "line", "all", "lost"}]
  /\ answers \in [Peers -> Seq(Statuses)]
  /\ failures \in 0..MaxFailures
  /\ saved \subseteq Peers

(* "create a child for every client that connects": each open connection   *)
(* belongs to exactly one client thread from its acceptance to its end,    *)
(* on every path that ends it, no thread has a descriptor that is closed   *)
(* or belongs to another, and no record is freed twice.                    *)
Handed(t, d) == threads[t].pc = "start" /\ records[threads[t].record].fd = d
Owned(t, d) == threads[t].pc \notin {"none", "start", "done"} /\ threads[t].fd = d
Serving(d) == {t \in Ids : Handed(t, d) \/ Owned(t, d)}

ChildForEveryClient ==
  /\ \A d \in Descriptors :
       Cardinality(Serving(d)) = IF open[d] = Nobody THEN 0 ELSE 1
  /\ outcome # "doubleFree"

(* With -credentials, who does not give them is told no more than that the *)
(* request is wrong or refused, and has no picture saved.                  *)
Sent(p) == {answers[p][i] : i \in DOMAIN answers[p]}

Denied ==
  conf.credentials => \A p \in Peers : ~asked[p].authorized =>
    Sent(p) \subseteq {"400", "401", "500"} /\ Len(answers[p]) <= 1 /\ p \notin saved

(* A request is answered once: by an error, or by what it asks for, and    *)
(* then it is one that may have it.  Of the exceptions one is a stream     *)
(* that runs out of memory.  The other contradicts "we won't transmit the  *)
(* frame" (httpd.c:1369): a take without a file name is told of its error, *)
(* and then sent a picture, or that there is no memory for it.             *)
Wanted(kind) ==
  CASE kind \in {"snapshot", "take"} -> "frame"
    [] kind = "stream" -> "stream"
    [] OTHER -> "200"

(* Credentials, plugin, file and options are such that p may have it.      *)
May(p) ==
  LET r == asked[p] IN
  /\ conf.credentials => r.authorized
  /\ r.kind \in {"snapshot", "stream", "take", "json"} => r.input
  /\ r.kind \in {"command", "file", "cgi"} => r.target = "found"
  /\ r.kind = "take" => p \in saved
  /\ r.kind = "command" => ~conf.nocommands
  /\ r.kind \in {"file", "cgi"} => conf.www
  /\ r.kind \notin {"takeUnnamed", "malformed", "garbled"}

OneAnswer ==
  \A p \in Peers :
    \/ answers[p] = <<>>
    \/ \E status \in Errors : answers[p] = <<status>>
    \/ answers[p] = <<Wanted(asked[p].kind)>> /\ May(p)
    \/ asked[p].kind = "stream" /\ answers[p] = <<"stream", "500">> /\ May(p)
    \/ asked[p].kind = "takeUnnamed" /\ answers[p] \in {<<"404", "frame">>, <<"404", "500">>}

(* A client whose request has arrived is answered or starts to wait for    *)
(* its picture, however many accepts and threads failed before and         *)
(* whatever other clients do, unless it leaves, no thread can be started   *)
(* for it, every descriptor is held by a client that waits for a picture,  *)
(* or the program ends.                                                    *)
WaitsForPicture(d) == \E t \in Ids : threads[t].pc = "wait" /\ threads[t].fd = d

Served ==
  \A p \in Peers :
    (Pending(p) /\ arrived[p] = "all")
      ~> \/ answers[p] # <<>> \/ arrived[p] = "lost"
         \/ \E d \in Descriptors : open[d] = p /\ WaitsForPicture(d)
         \/ \A d \in Descriptors : WaitsForPicture(d)
         \/ stop \/ outcome # "runs"
=============================================================================
