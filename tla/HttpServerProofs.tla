-------------------------- MODULE HttpServerProofs --------------------------
(***************************************************************************)
(* HttpServer with one listening socket, for any clients, descriptors,     *)
(* requests and options: every connection has one thread, and every client *)
(* the answers that are due to it.                                         *)
(***************************************************************************)
EXTENDS HttpServer, FiniteSetTheorems, TLAPS

(* The records that have been handed to a thread are 1..Handled: each was  *)
(* for a peer that has connected or for an accept that failed, and the     *)
(* peers in the backlog come to that.                                      *)
Connected == {p \in Peers : arrived[p] # "away"}
Handled == IF serverPc = "accept" /\ ready = {} THEN pcfd ELSE pcfd - 1

CountInv ==
  /\ pcfd \in Nat \ {0}
  /\ \E k \in 0..Handled : Started = 1..k
  /\ \A s \in Sockets :
       Handled + Len(backlog[s]) <= Cardinality(Connected) + failures

BacklogInv == serverPc = "accept" => \A s \in ready : backlog[s] # <<>>

(* Records are fresh until they are handed over, and no thread shares its  *)
(* record with another before it has copied and freed it.                  *)
RecordInv ==
  /\ \A r \in Ids : r > Handled => ~records[r].freed
  /\ \A t \in Ids : threads[t].pc = "start" =>
       threads[t].record \in 1..Handled /\ ~records[threads[t].record].freed
  /\ \A t, u \in Ids :
       threads[t].pc = "start" /\ threads[u].pc = "start"
         /\ threads[t].record = threads[u].record => t = u
  /\ outcome # "doubleFree"

(* A thread has its descriptor from the record, until it is closed.        *)
Alive(t) == threads[t].pc \notin {"none", "done"}
Descriptor(t) == IF threads[t].pc = "start" THEN records[threads[t].record].fd ELSE threads[t].fd

OpenInv ==
  /\ \A t \in Ids : Alive(t) /\ Descriptor(t) # -1 => open[Descriptor(t)] # Nobody
  /\ \A t, u \in Ids :
       Alive(t) /\ Alive(u) /\ Descriptor(t) # -1 /\ Descriptor(t) = Descriptor(u) => t = u
  /\ \A d \in Descriptors : open[d] # Nobody => \E t \in Ids : Alive(t) /\ Descriptor(t) = d
  /\ \A t \in Ids : threads[t].pc \notin {"none", "start", "line", "done"} => threads[t].fd # -1

(* A peer is away, in one place of one backlog, or at one descriptor; one  *)
(* that has not been accepted has no answer.                               *)
PeerInv ==
  /\ \A s \in Sockets : \A i \in DOMAIN backlog[s] :
       /\ arrived[backlog[s][i]] # "away" /\ answers[backlog[s][i]] = <<>>
       /\ backlog[s][i] \notin saved
       /\ \A d \in Descriptors : open[d] # backlog[s][i]
       /\ \A j \in DOMAIN backlog[s] : backlog[s][i] = backlog[s][j] => i = j
  /\ \A p \in Peers : arrived[p] = "away" => answers[p] = <<>> /\ p \notin saved
  /\ \A d \in Descriptors : open[d] # Nobody => arrived[open[d]] # "away"
  /\ \A d, e \in Descriptors : open[d] # Nobody /\ open[d] = open[e] => d = e

(* What a client may have been sent, at each place of its thread and after *)
(* it, and what its request has passed by then.                            *)
Admitted(p) ==
  /\ conf.credentials => asked[p].authorized
  /\ asked[p].kind \in {"snapshot", "stream", "take", "json"} => asked[p].input

DueAt(pc, p) ==
  /\ pc \in {"start", "line", "headers", "answer"} => answers[p] = <<>> /\ p \notin saved
  /\ pc \in {"answer", "wait"} => Admitted(p)
  /\ pc = "wait" =>
       \/ asked[p].kind = "snapshot" /\ answers[p] = <<>>
       \/ asked[p].kind = "stream" /\ answers[p] = <<"stream">>
       \/ asked[p].kind = "take" /\ answers[p] = <<>> /\ p \in saved
       \/ asked[p].kind = "takeUnnamed" /\ answers[p] = <<"404">>

AnswerInv ==
  \A t \in Ids : Alive(t) /\ Descriptor(t) # -1 => DueAt(threads[t].pc, open[Descriptor(t)])

DeniedTo(p) ==
  conf.credentials /\ ~asked[p].authorized =>
    Sent(p) \subseteq {"400", "401", "500"} /\ Len(answers[p]) <= 1 /\ p \notin saved

Granted(p, status) == status \in Errors \/ (status = Wanted(asked[p].kind) /\ May(p))

OneAnswerTo(p) ==
  \/ answers[p] = <<>>
  \/ \E status \in Statuses : answers[p] = <<status>> /\ Granted(p, status)
  \/ asked[p].kind = "stream" /\ answers[p] = <<"stream", "500">> /\ May(p)
  \/ asked[p].kind = "takeUnnamed" /\ answers[p] \in {<<"404", "frame">>, <<"404", "500">>}

Told(p) == DeniedTo(p) /\ OneAnswerTo(p)

IInv ==
  /\ TypeOK /\ CountInv /\ BacklogInv /\ RecordInv /\ OpenInv /\ PeerInv /\ AnswerInv
  /\ \A p \in Peers : Told(p)
-----------------------------------------------------------------------------
(* What was sent is as it was when nothing is sent and no peer asks.       *)
LEMMA ToldKept ==
  ASSUME IInv, UNCHANGED <<conf, asked, answers, saved>>
  PROVE  \A p \in Peers : Told(p)'
<1> SUFFICES ASSUME NEW p \in Peers PROVE Told(p)'
  OBVIOUS
<1>1. Told(p)
  BY DEF IInv
<1>2. Sent(p)' = Sent(p) /\ (May(p))' = May(p)
  BY DEF Sent, May
<1>3. (DeniedTo(p))' = DeniedTo(p)
  BY <1>2 DEF DeniedTo
<1>4. \A status : (Granted(p, status))' = Granted(p, status)
  BY <1>2 DEF Granted
<1>5. OneAnswerTo(p) => (OneAnswerTo(p))'
  BY <1>2, <1>4 DEF OneAnswerTo
<1>6. QED  BY <1>1, <1>3, <1>5 DEF Told

(* A live thread that has a descriptor has a peer at the other end.        *)
LEMMA HasPeer ==
  ASSUME IInv, NEW t \in Ids, Alive(t), Descriptor(t) # -1
  PROVE  Descriptor(t) \in Descriptors /\ open[Descriptor(t)] \in Peers
<1>1. threads[t] \in [pc : {"none", "start", "line", "headers", "answer", "wait", "close", "done"},
                      record : Ids \cup {0}, fd : Descriptors \cup {-1}]
  BY DEF IInv, TypeOK
<1>2. CASE threads[t].pc = "start"
  <2>1. threads[t].record \in Ids
    BY <1>1, <1>2 DEF IInv, RecordInv
  <2>2. records[threads[t].record].fd \in Descriptors \cup {-1}
    BY <2>1 DEF IInv, TypeOK
  <2>3. Descriptor(t) \in Descriptors
    BY <1>2, <2>2 DEF Descriptor
  <2>4. QED  BY <2>3 DEF IInv, OpenInv, TypeOK
<1>3. CASE threads[t].pc # "start"
  <2>1. Descriptor(t) \in Descriptors
    BY <1>1, <1>3 DEF Descriptor
  <2>2. QED  BY <2>1 DEF IInv, OpenInv, TypeOK
<1>4. QED  BY <1>2, <1>3

(* A thread that answers its client and goes on disturbs nothing, if what  *)
(* it has sent is due: no other thread has the same client.                *)
Busy == {"line", "headers", "answer", "wait", "close"}

(* A client that answers and goes on keeps the invariant if its answer     *)
(* agrees with its request and its account (Told).                         *)
LEMMA AnswerStep ==
  ASSUME IInv, NEW t \in Ids, threads[t].pc \in Busy, threads[t].fd # -1,
         NEW p, Peer(t) = p, NEW next \in Busy, NEW told \in Seq(Statuses),
         threads' = [threads EXCEPT ![t].pc = next],
         answers' = [answers EXCEPT ![p] = told],
         saved' \in {saved, saved \cup {p}},
         outcome' \in {outcome, "crashed"},
         UNCHANGED <<conf, stop, serverVars, records, open, asked>>,
         arrived' \in {arrived, [arrived EXCEPT ![p] = "lost"]},
         DueAt(next, p)', Told(p)'
  PROVE  IInv'
<1> USE HttpServerAssumption DEF IInv, serverVars, peerVars, Busy
<1>1. /\ threads[t].fd \in Descriptors /\ p \in Peers
      /\ open[threads[t].fd] = p
  BY HasPeer DEF Alive, Descriptor, Peer
<1>2. TypeOK'
  <2>1. threads' \in [Ids -> [pc : {"none", "start", "line", "headers", "answer", "wait",
                                   "close", "done"},
                             record : Ids \cup {0}, fd : Descriptors \cup {-1}]]
    <3>1. threads[t] \in [pc : {"none", "start", "line", "headers", "answer", "wait",
                              "close", "done"},
                        record : Ids \cup {0}, fd : Descriptors \cup {-1}]
      BY DEF TypeOK
    <3>2. [threads[t] EXCEPT !.pc = next] \in
            [pc : {"none", "start", "line", "headers", "answer", "wait", "close", "done"},
             record : Ids \cup {0}, fd : Descriptors \cup {-1}]
      BY <3>1
    <3>3. QED  BY <3>2 DEF TypeOK
  <2>2. answers' \in [Peers -> Seq(Statuses)] /\ saved' \subseteq Peers
    BY <1>1 DEF TypeOK
  <2>3. arrived' \in [Peers -> {"away", "nothing", "line", "all", "lost"}]
    BY <1>1 DEF TypeOK
  <2>4. outcome' \in {"runs", "crashed", "doubleFree"}
    BY DEF TypeOK
  <2>5. QED  BY <2>1, <2>2, <2>3, <2>4 DEF TypeOK
<1>3. Started' = Started /\ Handled' = Handled
  BY DEF Started, NoThread, Handled, TypeOK
<1>4. CountInv' /\ BacklogInv'
  <2>1. Connected' = Connected
    BY <1>1 DEF Connected, PeerInv, TypeOK
  <2>2. QED  BY <1>3, <2>1 DEF CountInv, BacklogInv
<1>5. \A u \in Ids : (Alive(u))' = Alive(u) /\ (Descriptor(u))' = Descriptor(u)
                       /\ threads'[u].fd = threads[u].fd
                       /\ threads'[u].record = threads[u].record
                       /\ (u # t => threads'[u] = threads[u])
                       /\ (threads'[u].pc = "start" <=> threads[u].pc = "start")
  BY DEF TypeOK, Alive, Descriptor
<1>6. RecordInv'
  BY <1>3, <1>5 DEF RecordInv, TypeOK
<1>7. OpenInv'
  BY <1>5 DEF OpenInv, TypeOK
<1>8. \A q \in Peers : q # p => answers'[q] = answers[q] /\ (q \in saved' <=> q \in saved)
  BY DEF TypeOK
<1>9. PeerInv'
  <2>1. \A s \in Sockets : \A i \in DOMAIN backlog[s] :
          backlog[s][i] \in Peers /\ backlog[s][i] # p
    BY <1>1 DEF PeerInv, TypeOK
  <2>2. arrived[p] # "away" /\ \A q \in Peers : arrived'[q] = "away" <=> arrived[q] = "away"
    BY <1>1 DEF PeerInv, TypeOK
  <2>3. QED  BY <1>8, <2>1, <2>2 DEF PeerInv, TypeOK
<1>10. AnswerInv'
  <2> SUFFICES ASSUME NEW u \in Ids, Alive(u), Descriptor(u) # -1
               PROVE  (DueAt(threads[u].pc, open[Descriptor(u)]))'
    BY <1>5 DEF AnswerInv
  <2>1. CASE u = t
    <3>1. threads'[u].pc = next /\ (open[Descriptor(u)])' = p
      BY <2>1, <1>1, <1>5 DEF Descriptor, TypeOK
    <3>2. QED  BY <3>1 DEF DueAt
  <2>2. CASE u # t
    <3>1. Descriptor(u) \in Descriptors /\ open[Descriptor(u)] \in Peers
      BY HasPeer
    <3>2. open[Descriptor(u)] # p
      BY <2>2, <3>1, <1>1 DEF OpenInv, PeerInv, Descriptor, Alive
    <3>3. DueAt(threads[u].pc, open[Descriptor(u)])
      BY DEF AnswerInv
    <3>4. QED  BY <1>5, <1>8, <2>2, <3>1, <3>2, <3>3 DEF DueAt, Admitted
  <2>3. QED  BY <2>1, <2>2
<1>11. \A q \in Peers : Told(q)'
  <2> SUFFICES ASSUME NEW q \in Peers, q # p PROVE Told(q)'
    OBVIOUS
  <2>1. answers'[q] = answers[q] /\ (q \in saved' <=> q \in saved)
    BY <1>8
  <2>2. Sent(q)' = Sent(q)
    BY <2>1 DEF Sent
  <2>3. Told(q)
    OBVIOUS
  <2>4. QED  BY <2>1, <2>2, <2>3 DEF Told, DeniedTo, OneAnswerTo, Granted, May
<1>12. QED  BY <1>2, <1>4, <1>6, <1>7, <1>9, <1>10, <1>11

(* One answer, or none, is what a client may be told, if it is not denied  *)
(* that answer.                                                            *)
Denying(p) == conf.credentials /\ ~asked[p].authorized

(* A peer that has been told nothing has an answer that agrees. *)
LEMMA NothingTold ==
  ASSUME NEW p, answers'[p] = <<>>, UNCHANGED <<conf, asked>>, Denying(p) => p \notin saved'
  PROVE  Told(p)'
<1>1. Sent(p)' = {}
  BY DEF Sent
<1>2. QED  BY <1>1 DEF Told, DeniedTo, OneAnswerTo, Granted, May, Denying

(* One answer agrees if it denies what may not be done, and is an error or *)
(* what the request asks for and may have.                                 *)
LEMMA OneTold ==
  ASSUME NEW p, NEW status \in Statuses, answers'[p] = <<status>>, UNCHANGED <<conf, asked>>,
         Denying(p) => status \in {"400", "401", "500"} /\ p \notin saved',
         Granted(p, status)'
  PROVE  Told(p)'
<1>1. Sent(p)' = {status}
  BY DEF Sent
<1>2. OneAnswerTo(p)'
  BY DEF OneAnswerTo
<1>3. QED  BY <1>1, <1>2 DEF Told, DeniedTo, Denying

(* The only requests with two answers: a stream that ends, and a picture   *)
(* whose file has no name.                                                 *)
LEMMA TwoTold ==
  ASSUME NEW p, Admitted(p), UNCHANGED <<conf, asked>>,
         \/ asked[p].kind = "stream" /\ answers'[p] = <<"stream", "500">>
         \/ asked[p].kind = "takeUnnamed"
              /\ answers'[p] \in {<<"404", "frame">>, <<"404", "500">>}
  PROVE  Told(p)'
<1>1. DeniedTo(p)'
  BY DEF DeniedTo, Admitted
<1>2. asked[p].kind = "stream" => May(p)'
  BY DEF May, Admitted
<1>3. OneAnswerTo(p)'
  BY <1>2 DEF OneAnswerTo
<1>4. QED  BY <1>1, <1>3 DEF Told

(* What is known of a thread that is busy with a client.                   *)
LEMMA BusyWith ==
  ASSUME IInv, NEW t \in Ids, threads[t].pc \in Busy, threads[t].fd # -1
  PROVE  /\ Peer(t) \in Peers /\ asked[Peer(t)] \in Request /\ answers[Peer(t)] \in Seq(Statuses)
         /\ DueAt(threads[t].pc, Peer(t)) /\ Told(Peer(t))
<1>1. Alive(t) /\ Descriptor(t) = threads[t].fd
  BY DEF Alive, Descriptor, Busy
<1>2. Peer(t) \in Peers /\ DueAt(threads[t].pc, Peer(t))
  BY <1>1, HasPeer DEF IInv, AnswerInv, Peer
<1>3. QED  BY <1>2 DEF IInv, TypeOK

(* A step that sends one status, or nothing, to a client that was sent     *)
(* nothing before, and ends there or goes on.                              *)
LEMMA FirstAnswer ==
  ASSUME IInv, NEW t \in Ids, threads[t].pc \in {"line", "headers", "answer"}, threads[t].fd # -1,
         NEW p, Peer(t) = p, NEW status \in Statuses,
         threads' = [threads EXCEPT ![t].pc = "close"],
         answers' = [answers EXCEPT ![p] = @ \o <<status>>],
         UNCHANGED saved, outcome' \in {outcome, "crashed"},
         UNCHANGED <<conf, stop, serverVars, records, open, peerVars>>,
         Denying(p) => status \in {"400", "401", "500"}, Granted(p, status)
  PROVE  IInv'
<1>1. p \in Peers /\ answers[p] = <<>> /\ p \notin saved
  BY BusyWith DEF DueAt, Busy
<1>2. answers' = [answers EXCEPT ![p] = <<status>>] /\ answers'[p] = <<status>>
  BY <1>1 DEF IInv, TypeOK
<1>3. Told(p)'
  <2>1. Granted(p, status)'
    BY DEF Granted, May, peerVars
  <2>2. QED  BY <1>1, <1>2, <2>1, OneTold DEF peerVars
<1>4. <<status>> \in Seq(Statuses)
  OBVIOUS
<1>5. QED  BY <1>2, <1>3, <1>4, AnswerStep DEF DueAt, Busy, peerVars

(* A step that sends nothing.                                              *)
LEMMA NoAnswer ==
  ASSUME IInv, NEW t \in Ids, threads[t].pc \in Busy, threads[t].fd # -1,
         NEW p, Peer(t) = p, NEW next \in Busy,
         threads' = [threads EXCEPT ![t].pc = next],
         UNCHANGED <<answers, saved>>, outcome' \in {outcome, "crashed"},
         UNCHANGED <<conf, stop, serverVars, records, open, asked>>,
         arrived' \in {arrived, [arrived EXCEPT ![p] = "lost"]},
         DueAt(next, p)'
  PROVE  IInv'
<1>1. p \in Peers /\ answers[p] \in Seq(Statuses) /\ Told(p)
  BY BusyWith
<1>2. answers' = [answers EXCEPT ![p] = answers[p]]
  BY DEF IInv, TypeOK
<1>3. Told(p)'
  <2>1. Sent(p)' = Sent(p)
    BY DEF Sent
  <2>2. QED
    BY <1>1, <2>1 DEF Told, DeniedTo, OneAnswerTo, Granted, May
<1>4. QED  BY <1>1, <1>2, <1>3, AnswerStep

(* Reading the request line keeps the invariant; *)
LEMMA ReadLineInv ==
  ASSUME IInv, NEW t \in Ids, ReadLine(t)
  PROVE  IInv'
<1>1. PICK p : p = Peer(t)
  OBVIOUS
<1>2. /\ threads[t].pc = "line" /\ threads[t].fd # -1 /\ UNCHANGED <<outcome, saved>>
      /\ UNCHANGED <<conf, stop, serverVars, records, open, peerVars>>
  BY DEF ReadLine
<1>3. CASE At(t, "line", "close") /\ Answer(t, <<"400">>)
  BY <1>1, <1>2, <1>3, FirstAnswer DEF At, Answer, Statuses, Errors, Granted
<1>4. CASE At(t, "line", "close") /\ Answer(t, <<"500">>)
  BY <1>1, <1>2, <1>4, FirstAnswer DEF At, Answer, Statuses, Errors, Granted
<1>5. CASE At(t, "line", "headers") /\ UNCHANGED answers
  <2>1. threads' = [threads EXCEPT ![t].pc = "headers"]
    BY <1>5 DEF At
  <2>2. DueAt("line", p)
    BY <1>1, <1>2, BusyWith DEF Busy
  <2>3. DueAt("headers", p)'
    BY <1>2, <1>5, <2>2 DEF DueAt
  <2>4. QED  BY <1>1, <1>2, <1>5, <2>1, <2>3, NoAnswer DEF Busy, peerVars
<1>6. QED  BY <1>3, <1>4, <1>5 DEF ReadLine

(* so does a peer that leaves before it has sent one, *)
LEMMA ReadFailsInv ==
  ASSUME IInv, NEW t \in Ids, ReadFails(t)
  PROVE  IInv'
<1>1. /\ threads[t].pc \in Busy /\ threads[t].fd # -1 /\ UNCHANGED <<outcome, answers, saved>>
      /\ UNCHANGED <<conf, stop, serverVars, records, open, asked>>
      /\ threads' = [threads EXCEPT ![t].pc = "close"]
      /\ arrived' = [arrived EXCEPT ![Peer(t)] = "lost"]
  BY DEF ReadFails, At, Busy, Lose, history
<1>2. QED  BY <1>1, NoAnswer DEF DueAt, Busy

(* reading the headers, *)
LEMMA ReadHeadersInv ==
  ASSUME IInv, NEW t \in Ids, ReadHeaders(t)
  PROVE  IInv'
<1>1. PICK p : p = Peer(t)
  OBVIOUS
<1>2. /\ threads[t].pc = "headers" /\ threads[t].fd # -1 /\ UNCHANGED <<outcome, saved>>
      /\ UNCHANGED <<conf, stop, serverVars, records, open, peerVars>>
  BY DEF ReadHeaders, IInv, OpenInv
<1>3. Refused(t) <=> Denying(p)
  BY <1>1 DEF Refused, Denying, Asked
<1>4. CASE At(t, "headers", "close") /\ Answer(t, <<"401">>)
  BY <1>1, <1>2, <1>4, FirstAnswer DEF At, Answer, Statuses, Errors, Granted
<1>5. CASE ~Refused(t) /\ At(t, "headers", "close") /\ Answer(t, <<"404">>)
  BY <1>1, <1>2, <1>3, <1>5, FirstAnswer DEF At, Answer, Statuses, Errors, Granted
<1>6. CASE ~Refused(t) /\ ~NoSuchInput(t) /\ At(t, "headers", "answer") /\ UNCHANGED answers
  <2>1. threads' = [threads EXCEPT ![t].pc = "answer"]
    BY <1>6 DEF At
  <2>2. DueAt("headers", p)
    BY <1>1, <1>2, BusyWith DEF Busy
  <2>3. Admitted(p)
    BY <1>1, <1>3, <1>6 DEF Admitted, Denying, NoSuchInput, Asked
  <2>4. DueAt("answer", p)'
    BY <1>2, <1>6, <2>2, <2>3 DEF DueAt, Admitted, peerVars
  <2>5. QED  BY <1>1, <1>2, <1>6, <2>1, <2>4, NoAnswer DEF Busy, peerVars
<1>7. QED  BY <1>4, <1>5, <1>6 DEF ReadHeaders

(* answering, whatever the request, *)
LEMMA AnswerRequestInv ==
  ASSUME IInv, outcome = "runs", NEW t \in Ids, AnswerRequest(t)
  PROVE  IInv'
<1>1. PICK p : p = Peer(t)
  OBVIOUS
<1>2. /\ threads[t].pc = "answer" /\ threads[t].fd # -1
      /\ UNCHANGED <<conf, stop, serverVars, records, open, peerVars>>
  BY DEF AnswerRequest, IInv, OpenInv
<1>3. /\ p \in Peers /\ answers[p] = <<>> /\ p \notin saved /\ Admitted(p) /\ ~Denying(p)
      /\ asked[p] \in Request /\ Asked(t) = asked[p]
  BY <1>1, <1>2, BusyWith DEF DueAt, Busy, Denying, Admitted, Asked
<1>4. ASSUME NEW status \in Statuses, threads' = [threads EXCEPT ![t].pc = "close"],
             Answer(t, <<status>>), UNCHANGED saved, outcome' \in {outcome, "crashed"},
             status \notin Errors => status = Wanted(asked[p].kind) /\ May(p)
      PROVE  IInv'
  BY <1>1, <1>2, <1>3, <1>4, FirstAnswer DEF Answer, Granted
<1>5. ASSUME threads' = [threads EXCEPT ![t].pc = "close"],
             UNCHANGED <<answers, saved>>, outcome' \in {outcome, "crashed"}
      PROVE  IInv'
  BY <1>1, <1>2, <1>5, NoAnswer DEF DueAt, Busy, peerVars
<1>6. CASE SendPicture(t)
  <2>1. CASE asked[p].kind = "stream"
    <3>1. /\ threads' = [threads EXCEPT ![t].pc = "wait"] /\ UNCHANGED <<outcome, saved>>
          /\ answers' = [answers EXCEPT ![p] = @ \o <<"stream">>]
      BY <1>1, <1>3, <1>6, <2>1 DEF SendPicture, At, Answer
    <3>2. answers' = [answers EXCEPT ![p] = <<"stream">>] /\ answers'[p] = <<"stream">>
      BY <1>3, <3>1 DEF IInv, TypeOK
    <3>3. DueAt("wait", p)'
      BY <1>2, <1>3, <2>1, <3>2 DEF DueAt, Admitted, peerVars
    <3>4. Granted(p, "stream")'
      BY <1>2, <1>3, <2>1 DEF Granted, Wanted, May, Admitted, peerVars
    <3>5. Told(p)'
      BY <1>2, <1>3, <3>2, <3>4, OneTold DEF Statuses, peerVars
    <3>6. <<"stream">> \in Seq(Statuses)
      BY DEF Statuses
    <3>7. QED  BY <1>1, <1>2, <3>1, <3>2, <3>3, <3>5, <3>6, AnswerStep DEF Busy, peerVars
  <2>2. CASE asked[p].kind = "snapshot"
    <3>1. /\ threads' = [threads EXCEPT ![t].pc = "wait"] /\ UNCHANGED <<outcome, saved>>
          /\ answers' = [answers EXCEPT ![p] = @ \o <<>>]
      BY <1>1, <1>3, <1>6, <2>2 DEF SendPicture, At, Answer
    <3>2. answers' = answers
      BY <1>3, <3>1 DEF IInv, TypeOK
    <3>3. DueAt("wait", p)'
      BY <1>2, <1>3, <2>2, <3>2 DEF DueAt, Admitted, peerVars
    <3>4. QED  BY <1>1, <1>2, <3>1, <3>2, <3>3, NoAnswer DEF Busy, peerVars
  <2>3. QED  BY <1>3, <1>6, <2>1, <2>2 DEF SendPicture
<1>7. CASE Command(t)
  <2>1. threads' = [threads EXCEPT ![t].pc = "close"] /\ UNCHANGED saved
    BY <1>7 DEF Command, At
  <2>2. CASE outcome' = "crashed" /\ UNCHANGED answers
    BY <1>5, <2>1, <2>2
  <2>3. CASE UNCHANGED outcome
    <3>1. PICK status \in {"501", "200", "500", "400"} :
            /\ Answer(t, <<status>>)
            /\ status = "200" => ~conf.nocommands /\ asked[p].target = "found"
      BY <1>3, <1>7, <2>3 DEF Command
    <3>2. status = "200" => status = Wanted(asked[p].kind) /\ May(p)
      BY <1>3, <1>7, <3>1 DEF Command, Wanted, May, Admitted
    <3>3. QED  BY <1>4, <2>1, <2>3, <3>1, <3>2 DEF Statuses, Errors
  <2>4. QED  BY <1>7, <2>2, <2>3 DEF Command
<1>8. CASE SendFile(t)
  <2>1. threads' = [threads EXCEPT ![t].pc = "close"] /\ UNCHANGED <<outcome, saved>>
    BY <1>8 DEF SendFile, At
  <2>2. PICK status \in {"200", "400", "404", "501"} :
          /\ Answer(t, <<status>>)
          /\ status = "200" /\ asked[p].kind # "json" => conf.www /\ asked[p].target = "found"
    BY <1>3, <1>8 DEF SendFile
  <2>3. status = "200" => status = Wanted(asked[p].kind) /\ May(p)
    BY <1>3, <1>8, <2>2 DEF SendFile, Wanted, May, Admitted
  <2>4. QED  BY <1>4, <2>1, <2>2, <2>3 DEF Statuses, Errors
<1>9. CASE RunScript(t)
  <2>1. threads' = [threads EXCEPT ![t].pc = "close"] /\ UNCHANGED saved
    BY <1>9 DEF RunScript, At
  <2>2. CASE outcome' = "crashed" /\ UNCHANGED answers
    BY <1>5, <2>1, <2>2
  <2>3. CASE UNCHANGED outcome /\ conf.www
    <3>1. PICK status \in {"200", "403", "404"} :
            Answer(t, <<status>>) /\ (status = "200" => asked[p].target = "found")
      BY <1>3, <1>9, <2>3 DEF RunScript
    <3>2. status = "200" => status = Wanted(asked[p].kind) /\ May(p)
      BY <1>3, <1>9, <2>3, <3>1 DEF RunScript, Wanted, May, Admitted
    <3>3. QED  BY <1>4, <2>1, <2>3, <3>1, <3>2 DEF Statuses, Errors
  <2>4. QED  BY <1>9, <2>2, <2>3 DEF RunScript
<1>10. CASE Take(t)
  <2>1. CASE At(t, "answer", "close") /\ Answer(t, <<"404">>) /\ UNCHANGED <<outcome, saved>>
    BY <1>4, <2>1 DEF At, Statuses, Errors
  <2>2. CASE /\ asked[p].kind = "take" /\ At(t, "answer", "wait")
             /\ saved' = saved \cup {p} /\ UNCHANGED <<answers, outcome>>
    <3>1. /\ answers' = [answers EXCEPT ![p] = <<>>] /\ answers'[p] = <<>>
          /\ threads' = [threads EXCEPT ![t].pc = "wait"]
      BY <1>3, <2>2 DEF IInv, TypeOK, At
    <3>2. DueAt("wait", p)'
      BY <1>2, <1>3, <2>2, <3>1 DEF DueAt, Admitted, peerVars
    <3>3. Told(p)'
      BY <1>2, <1>3, <2>2, <3>1, NothingTold DEF peerVars
    <3>4. <<>> \in Seq(Statuses)
      OBVIOUS
    <3>5. QED  BY <1>1, <1>2, <2>2, <3>1, <3>2, <3>3, <3>4, AnswerStep DEF Busy, peerVars
  <2>3. CASE /\ asked[p].kind = "takeUnnamed" /\ At(t, "answer", "wait")
             /\ Answer(t, <<"404">>) /\ UNCHANGED <<outcome, saved>>
    <3>1. answers' = [answers EXCEPT ![p] = @ \o <<"404">>] /\ threads' = [threads EXCEPT ![t].pc = "wait"]
      BY <1>1, <2>3 DEF Answer, At
    <3>2. answers' = [answers EXCEPT ![p] = <<"404">>] /\ answers'[p] = <<"404">>
      BY <1>3, <3>1 DEF IInv, TypeOK
    <3>3. DueAt("wait", p)'
      BY <1>2, <1>3, <2>3, <3>2 DEF DueAt, Admitted, peerVars
    <3>4. Told(p)'
      BY <1>2, <1>3, <2>3, <3>2, OneTold DEF Granted, Statuses, Errors, peerVars
    <3>5. <<"404">> \in Seq(Statuses)
      BY DEF Statuses, Errors
    <3>6. QED  BY <1>1, <1>2, <2>3, <3>1, <3>2, <3>3, <3>4, <3>5, AnswerStep DEF Busy, peerVars
  <2>4. QED  BY <1>1, <1>3, <1>10, <2>1, <2>2, <2>3 DEF Take
<1>11. QED  BY <1>6, <1>7, <1>8, <1>9, <1>10 DEF AnswerRequest

(* Two statuses, one after the other. *)
LEMMA Concatenation ==
  ASSUME NEW x, NEW y
  PROVE  <<x>> \o <<y>> = <<x, y>>
<1> DEFINE both == <<x>> \o <<y>>
<1>1. <<x>> \in Seq({x, y}) /\ <<y>> \in Seq({x, y})
  OBVIOUS
<1>2. /\ both \in Seq({x, y}) /\ Len(both) = 2
      /\ both[1] = x /\ both[2] = y
  BY <1>1
<1> HIDE DEF both
<1>3. both \in [1..2 -> {x, y}]
  BY <1>2
<1>4. <<x, y>> \in [1..2 -> {x, y}] /\ <<x, y>>[1] = x /\ <<x, y>>[2] = y
  OBVIOUS
<1>5. \A i \in 1..2 : both[i] = <<x, y>>[i]
  BY <1>2, <1>4
<1>6. both = <<x, y>>
  BY <1>3, <1>4, <1>5
<1>7. QED  BY <1>6 DEF both

(* sending a picture, *)
LEMMA PictureInv ==
  ASSUME IInv, NEW t \in Ids, Picture(t)
  PROVE  IInv'
<1>1. PICK p : p = Peer(t)
  OBVIOUS
<1>2. /\ threads[t].pc = "wait" /\ threads[t].fd # -1 /\ UNCHANGED <<outcome, saved>>
      /\ UNCHANGED <<conf, stop, serverVars, records, open, asked>>
  BY DEF Picture, IInv, OpenInv
<1>3. p \in Peers /\ DueAt("wait", p) /\ Admitted(p) /\ ~Denying(p) /\ Asked(t) = asked[p]
  BY <1>1, <1>2, BusyWith DEF Busy, Asked, DueAt, Denying, Admitted
<1>4. ASSUME NEW what \in {"500", "frame"}, threads' = [threads EXCEPT ![t].pc = "close"],
             Answer(t, <<what>>), what = "frame" => asked[p].kind # "stream", UNCHANGED arrived
      PROVE  IInv'
  <2>1. PICK told : told = answers[p] \o <<what>>
    OBVIOUS
  <2>2. answers' = [answers EXCEPT ![p] = told] /\ answers'[p] = told
    BY <1>1, <1>3, <1>4, <2>1 DEF Answer, IInv, TypeOK
  <2>3. told \in Seq(Statuses)
    BY <1>3, <1>4, <2>1 DEF IInv, TypeOK, Statuses, Errors
  <2>4. Told(p)'
    <3>1. CASE /\ answers[p] = <<>>
               /\ asked[p].kind = "snapshot" \/ (asked[p].kind = "take" /\ p \in saved)
      <4>1. told = <<what>> /\ what \in Statuses
        BY <1>4, <2>1, <3>1 DEF Statuses, Errors
      <4>2. Granted(p, what)'
        BY <1>2, <1>3, <1>4, <3>1 DEF Granted, Wanted, May, Admitted, Errors
      <4>3. QED  BY <1>2, <1>3, <2>2, <4>1, <4>2, OneTold
    <3>2. CASE asked[p].kind = "stream" /\ answers[p] = <<"stream">>
      <4>1. told = <<"stream", "500">>
        BY <1>4, <2>1, <3>2, Concatenation
      <4>2. QED  BY <1>2, <1>3, <2>2, <3>2, <4>1, TwoTold
    <3>3. CASE asked[p].kind = "takeUnnamed" /\ answers[p] = <<"404">>
      <4>1. told \in {<<"404", "frame">>, <<"404", "500">>}
        BY <1>4, <2>1, <3>3, Concatenation
      <4>2. QED  BY <1>2, <1>3, <2>2, <3>3, <4>1, TwoTold
    <3>4. QED  BY <1>3, <3>1, <3>2, <3>3 DEF DueAt
  <2>5. QED  BY <1>1, <1>2, <1>4, <2>2, <2>3, <2>4, AnswerStep DEF DueAt, Busy
<1>5. CASE /\ threads' = [threads EXCEPT ![t].pc = "close"] /\ UNCHANGED answers
           /\ arrived' \in {arrived, [arrived EXCEPT ![p] = "lost"]}
  BY <1>1, <1>2, <1>5, NoAnswer DEF DueAt, Busy
<1>6. CASE UNCHANGED <<threads, answers, arrived>>
  <2>1. threads' = [threads EXCEPT ![t].pc = "wait"]
    BY <1>2, <1>6 DEF IInv, TypeOK
  <2>2. DueAt("wait", p)'
    BY <1>2, <1>3, <1>6 DEF DueAt, Admitted
  <2>3. QED  BY <1>1, <1>2, <1>6, <2>1, <2>2, NoAnswer DEF Busy
<1>7. QED  BY <1>1, <1>3, <1>4, <1>5, <1>6 DEF Picture, At, Lose

(* Neither beginning nor ending a thread touches what its client was told. *)
LEMMA BeginInv ==
  ASSUME IInv, NEW t \in Ids, Begin(t)
  PROVE  IInv'
<1> USE DEF IInv, serverVars, peerVars, history
<1>1. PICK r : r = threads[t].record
  OBVIOUS
<1>2. threads[t].pc = "start"
  BY DEF Begin
<1>3. r \in Ids /\ r <= Handled /\ ~records[r].freed
  BY <1>1, <1>2 DEF RecordInv, TypeOK
<1>4. /\ threads' = [threads EXCEPT ![t] = [pc |-> "line", record |-> 0, fd |-> records[r].fd]]
      /\ records' = [records EXCEPT ![r] = Freed] /\ outcome' = outcome
      /\ UNCHANGED <<conf, stop, serverVars, open, peerVars, answers, saved>>
  <2>1. /\ threads' = [threads EXCEPT ![t] =
                          [pc |-> "line", record |-> 0, fd |-> records[threads[t].record].fd]]
        /\ outcome' = IF records[threads[t].record].freed THEN "doubleFree" ELSE outcome
        /\ records' = [records EXCEPT ![threads[t].record] = Freed]
        /\ UNCHANGED <<conf, stop, serverVars, open, peerVars, answers, saved>>
    BY DEF Begin
  <2>2. outcome' = outcome
    BY <1>1, <1>3, <2>1
  <2>3. QED  BY <1>1, <2>1, <2>2
<1>5. TypeOK'
  <2>1. /\ records' \in [Ids -> [fd : Descriptors \cup {-1}, freed : BOOLEAN]]
    BY <1>3, <1>4 DEF TypeOK, Freed
  <2>2. records[r].fd \in Descriptors \cup {-1}
    BY <1>3 DEF TypeOK
  <2>3. threads' \in [Ids -> [pc : {"none", "start", "line", "headers", "answer", "wait",
                                   "close", "done"},
                             record : Ids \cup {0}, fd : Descriptors \cup {-1}]]
    BY <1>4, <2>2 DEF TypeOK
  <2>4. QED  BY <1>4, <2>1, <2>3 DEF TypeOK
<1>6. \A u \in Ids : /\ u # t => threads'[u] = threads[u]
                     /\ threads'[u].pc = IF u = t THEN "line" ELSE threads[u].pc
                     /\ u = t => threads'[u].fd = records[r].fd
  BY <1>4 DEF TypeOK
<1>7. \A q \in Ids : /\ q # r => records'[q] = records[q]
                     /\ records'[q].freed = (q = r \/ records[q].freed)
  BY <1>3, <1>4 DEF TypeOK, Freed
<1>8. Started' = Started /\ Handled' = Handled
  <2>1. \A u \in Ids : threads'[u] # NoThread <=> threads[u] # NoThread
    BY <1>2, <1>6 DEF NoThread
  <2>2. QED  BY <1>4, <2>1 DEF Started, Handled
<1>9. CountInv' /\ BacklogInv'
  BY <1>4, <1>8 DEF CountInv, BacklogInv, Connected
<1>10. RecordInv'
  <2>1. \A u \in Ids : threads'[u].pc = "start" =>
          u # t /\ threads[u].pc = "start" /\ threads'[u].record = threads[u].record
    BY <1>6
  <2>2. \A u \in Ids : threads'[u].pc = "start" =>
          threads'[u].record \in 1..Handled /\ ~records'[threads'[u].record].freed
    <3> SUFFICES ASSUME NEW u \in Ids, threads'[u].pc = "start"
                 PROVE  threads'[u].record \in 1..Handled /\ ~records'[threads'[u].record].freed
      OBVIOUS
    <3>1. threads[u].record # r
      BY <1>1, <1>2, <2>1 DEF RecordInv
    <3>2. threads[u].record \in Ids /\ ~records[threads[u].record].freed
      BY <2>1 DEF RecordInv, TypeOK
    <3>3. QED  BY <1>7, <2>1, <3>1, <3>2 DEF RecordInv
  <2>3. \A q \in Ids : q > Handled => ~records'[q].freed
    <3>1. Handled \in Int /\ \A q \in Ids : q \in Int
      BY DEF Handled, CountInv, Ids
    <3>2. \A q \in Ids : q > Handled => q # r
      BY <1>3, <3>1
    <3>3. QED  BY <1>7, <3>2 DEF RecordInv
  <2>4. QED  BY <1>4, <1>8, <2>1, <2>2, <2>3 DEF RecordInv
<1>11. \A u \in Ids : (Alive(u))' = Alive(u) /\ (Descriptor(u))' = Descriptor(u)
  <2>1. \A u \in Ids : u # t /\ threads[u].pc = "start" =>
          records'[threads[u].record].fd = records[threads[u].record].fd
    BY <1>1, <1>2, <1>7 DEF RecordInv, TypeOK
  <2>2. QED  BY <1>1, <1>2, <1>6, <2>1 DEF Alive, Descriptor
<1>12. OpenInv'
  BY <1>4, <1>6, <1>11 DEF OpenInv
<1>13. PeerInv'
  BY <1>4 DEF PeerInv
<1>14. AnswerInv'
  <2> SUFFICES ASSUME NEW u \in Ids, Alive(u), Descriptor(u) # -1
               PROVE  (DueAt(threads[u].pc, open[Descriptor(u)]))'
    BY <1>11 DEF AnswerInv
  <2>1. DueAt(threads[u].pc, open[Descriptor(u)])
    BY DEF AnswerInv
  <2>2. QED  BY <1>2, <1>4, <1>6, <1>11, <2>1 DEF DueAt, Admitted
<1>15. \A p \in Peers : Told(p)'
  BY <1>4, ToldKept
<1>16. QED  BY <1>5, <1>9, <1>10, <1>12, <1>13, <1>14, <1>15

(* closing the connection, *)
LEMMA CloseInv ==
  ASSUME IInv, NEW t \in Ids, Close(t)
  PROVE  IInv'
<1> USE DEF IInv, serverVars, peerVars, history
<1>1. PICK d : d = threads[t].fd
  OBVIOUS
<1>2. /\ threads[t].pc = "close"
      /\ threads' = [threads EXCEPT ![t] = Ended] /\ open' = [open EXCEPT ![d] = Nobody]
      /\ UNCHANGED <<conf, stop, outcome, serverVars, records, peerVars, answers, saved>>
  BY <1>1 DEF Close
<1>3. d \in Descriptors /\ d # -1
  BY <1>1, <1>2, HasPeer DEF OpenInv, Alive, Descriptor
<1>4. TypeOK'
  BY <1>2 DEF TypeOK, Ended
<1>5. Started' = Started /\ Handled' = Handled
  BY <1>2 DEF Started, NoThread, Ended, Handled, TypeOK
<1>6. CountInv' /\ BacklogInv'
  BY <1>2, <1>5 DEF CountInv, BacklogInv, Connected
<1>7. RecordInv'
  BY <1>2, <1>5 DEF RecordInv, TypeOK, Ended
<1>8. \A u \in Ids : u # t => threads'[u] = threads[u] /\ (Descriptor(u))' = Descriptor(u)
                                /\ (Alive(u))' = Alive(u)
  BY <1>2 DEF TypeOK, Alive, Descriptor
<1>9. ~(Alive(t))' /\ threads'[t].pc = "done"
  BY <1>2 DEF Alive, Ended, TypeOK
<1>10. Alive(t) /\ Descriptor(t) = d
  BY <1>1, <1>2 DEF Alive, Descriptor
<1>11. \A e \in Descriptors : open'[e] = IF e = d THEN Nobody ELSE open[e]
  BY <1>2, <1>3 DEF TypeOK
<1>12. \A u \in Ids : u # t /\ Alive(u) /\ Descriptor(u) # -1 =>
         Descriptor(u) \in Descriptors /\ open'[Descriptor(u)] = open[Descriptor(u)]
  BY <1>3, <1>10, <1>11, HasPeer DEF OpenInv
<1>13. OpenInv'
  <2>1. \A u \in Ids : (Alive(u))' /\ (Descriptor(u))' # -1 => open'[(Descriptor(u))'] # Nobody
    BY <1>8, <1>9, <1>12 DEF OpenInv
  <2>2. \A u, v \in Ids :
          (Alive(u))' /\ (Alive(v))' /\ (Descriptor(u))' # -1 /\ (Descriptor(u))' = (Descriptor(v))'
            => u = v
    BY <1>8, <1>9 DEF OpenInv
  <2>3. \A e \in Descriptors : open'[e] # Nobody => \E u \in Ids : (Alive(u))' /\ (Descriptor(u))' = e
    BY <1>8, <1>10, <1>11 DEF OpenInv
  <2>4. \A u \in Ids : threads'[u].pc \notin {"none", "start", "line", "done"} => threads'[u].fd # -1
    BY <1>8, <1>9 DEF OpenInv
  <2>5. QED  BY <2>1, <2>2, <2>3, <2>4 DEF OpenInv
<1>14. PeerInv'
  BY <1>2, <1>11, HttpServerAssumption DEF PeerInv, TypeOK
<1>15. AnswerInv'
  <2> SUFFICES ASSUME NEW u \in Ids, (Alive(u))', (Descriptor(u))' # -1
               PROVE  (DueAt(threads[u].pc, open[Descriptor(u)]))'
    BY DEF AnswerInv
  <2>1. u # t /\ Alive(u) /\ Descriptor(u) # -1 /\ threads'[u].pc = threads[u].pc
    BY <1>8, <1>9
  <2>2. open'[(Descriptor(u))'] = open[Descriptor(u)]
    BY <1>8, <1>12, <2>1
  <2>3. DueAt(threads[u].pc, open[Descriptor(u)])
    BY <2>1 DEF AnswerInv
  <2>4. QED  BY <1>2, <2>1, <2>2, <2>3 DEF DueAt, Admitted
<1>16. \A p \in Peers : Told(p)'
  BY <1>2, ToldKept
<1>17. QED  BY <1>4, <1>6, <1>7, <1>13, <1>14, <1>15, <1>16

(* The end of the program, a stop signal and the next part of a request    *)
(* touch nothing that the invariant relates.                               *)
LEMMA OutsideInv ==
  ASSUME IInv, TypeOK', outcome' # "doubleFree",
         UNCHANGED <<conf, serverVars, records, open, threads, asked, answers, saved>>,
         \A p \in Peers : arrived'[p] = "away" <=> arrived[p] = "away"
  PROVE  IInv'
<1> USE DEF IInv, serverVars
<1>1. CountInv' /\ BacklogInv' /\ RecordInv'
  <2>1. Connected' = Connected
    BY DEF Connected
  <2>2. Started' = Started /\ Handled' = Handled
    BY DEF Started, Handled
  <2>3. QED  BY <2>1, <2>2 DEF CountInv, BacklogInv, RecordInv
<1>2. OpenInv'
  BY DEF OpenInv, Alive, Descriptor
<1>3. PeerInv'
  BY DEF PeerInv, TypeOK
<1>4. AnswerInv'
  BY DEF AnswerInv, Alive, Descriptor, DueAt, Admitted
<1>5. \A p \in Peers : Told(p)'
  BY ToldKept
<1>6. QED  BY <1>1, <1>2, <1>3, <1>4, <1>5

(* and ending a thread that was given no descriptor. *)
LEMMA BadDescriptorInv ==
  ASSUME IInv, NEW t \in Ids, BadDescriptor(t)
  PROVE  IInv'
<1> USE DEF IInv, serverVars, peerVars, history
<1>1. /\ threads[t].pc = "line" /\ threads[t].fd = -1
      /\ threads' = [threads EXCEPT ![t] = Ended]
      /\ UNCHANGED <<conf, stop, outcome, serverVars, records, open, peerVars, answers, saved>>
  BY DEF BadDescriptor
<1>2. TypeOK'
  BY <1>1 DEF TypeOK, Ended
<1>3. Started' = Started /\ Handled' = Handled
  BY <1>1 DEF Started, NoThread, Ended, Handled, TypeOK
<1>4. CountInv' /\ BacklogInv'
  BY <1>1, <1>3 DEF CountInv, BacklogInv, Connected
<1>5. RecordInv'
  BY <1>1, <1>3 DEF RecordInv, TypeOK, Ended
<1>6. \A u \in Ids : u # t => threads'[u] = threads[u] /\ (Descriptor(u))' = Descriptor(u)
                                /\ (Alive(u))' = Alive(u)
  BY <1>1 DEF TypeOK, Alive, Descriptor
<1>7. ~(Alive(t))' /\ threads'[t].pc = "done" /\ Descriptor(t) = -1
  BY <1>1 DEF Alive, Descriptor, Ended, TypeOK
<1>8. OpenInv'
  <2>1. \A u \in Ids : (Alive(u))' => u # t
    BY <1>7
  <2>2. \A e \in Descriptors : open'[e] # Nobody => \E u \in Ids : (Alive(u))' /\ (Descriptor(u))' = e
    BY <1>1, <1>6, <1>7, HttpServerAssumption DEF OpenInv
  <2>3. \A u \in Ids : threads'[u].pc \notin {"none", "start", "line", "done"} => threads'[u].fd # -1
    BY <1>6, <1>7 DEF OpenInv
  <2>4. QED  BY <1>1, <1>6, <2>1, <2>2, <2>3 DEF OpenInv
<1>9. PeerInv'
  BY <1>1 DEF PeerInv
<1>10. AnswerInv'
  BY <1>1, <1>6, <1>7 DEF AnswerInv, DueAt, Admitted
<1>11. \A p \in Peers : Told(p)'
  BY <1>1, ToldKept
<1>12. QED  BY <1>2, <1>4, <1>5, <1>8, <1>9, <1>10, <1>11

(* So every step of a client keeps the invariant. *)
LEMMA ClientStepInv ==
  ASSUME IInv, outcome = "runs", NEW t \in Ids, Client(t) \/ Picture(t)
  PROVE  IInv'
  BY BeginInv, BadDescriptorInv, ReadLineInv, ReadFailsInv, ReadHeadersInv, AnswerRequestInv,
     CloseInv, PictureInv
  DEF Client

(* Asking the program to stop keeps the invariant; *)
LEMMA StopInv == ASSUME IInv, Stop PROVE IInv'
<1>1. TypeOK'
  BY DEF Stop, IInv, TypeOK, serverVars, peerVars, history
<1>2. QED  BY <1>1, OutsideInv DEF Stop, peerVars, history, IInv, RecordInv

(* so does a peer that sends, *)
LEMMA SendInv == ASSUME IInv, NEW p \in Peers, Send(p) PROVE IInv'
<1>1. TypeOK'
  BY DEF Send, IInv, TypeOK, serverVars, history
<1>2. \A q \in Peers : arrived'[q] = "away" <=> arrived[q] = "away"
  BY DEF Send, IInv, TypeOK
<1>3. QED  BY <1>1, <1>2, OutsideInv DEF Send, IInv, RecordInv, history

(* A step of the server alone, in which no record is handed over.          *)
LEMMA ServerAlone ==
  ASSUME IInv, TypeOK', pcfd' \in Nat \ {0}, Handled' = Handled, BacklogInv',
         UNCHANGED <<conf, stop, outcome, records, backlog, failures, open, threads, peerVars, history>>
  PROVE  IInv'
<1> USE DEF IInv, peerVars, history
<1>1. CountInv' /\ RecordInv'
  <2>1. Started' = Started
    BY DEF Started
  <2>2. QED  BY <2>1 DEF CountInv, RecordInv, Connected
<1>2. OpenInv'
  BY DEF OpenInv, Alive, Descriptor
<1>3. PeerInv'
  BY DEF PeerInv
<1>4. AnswerInv'
  BY DEF AnswerInv, Alive, Descriptor, DueAt, Admitted
<1>5. \A p \in Peers : Told(p)'
  BY ToldKept
<1>6. QED  BY <1>1, <1>2, <1>3, <1>4, <1>5

(* No more records are handed over than peers have connected and accepts   *)
(* have failed.                                                            *)
LEMMA HandedToPeers ==
  ASSUME IInv
  PROVE  /\ Cardinality(Connected) \in Nat /\ Cardinality(Peers) \in Nat
         /\ Cardinality(Connected) <= Cardinality(Peers)
         /\ pcfd \in Nat \ {0} /\ Handled \in Nat
         /\ failures \in Nat /\ MaxFailures \in Nat /\ failures <= MaxFailures
         /\ \A s \in Sockets : Len(backlog[s]) \in Nat
                                /\ Handled + Len(backlog[s]) <= Cardinality(Connected) + failures
<1>1. IsFiniteSet(Peers) /\ Connected \in SUBSET Peers
  BY HttpServerAssumption DEF Connected
<1>2. /\ Cardinality(Connected) <= Cardinality(Peers)
      /\ Cardinality(Connected) \in Nat /\ Cardinality(Peers) \in Nat
  BY <1>1, FS_Subset, FS_CardinalityType
<1>3. pcfd \in Nat \ {0} /\ Handled \in Nat
  BY DEF IInv, CountInv, Handled
<1>4. \A s \in Sockets : Len(backlog[s]) \in Nat
  BY DEF IInv, TypeOK
<1>5. failures \in Nat /\ MaxFailures \in Nat /\ failures <= MaxFailures
  BY HttpServerAssumption DEF IInv, TypeOK
<1>6. QED  BY <1>2, <1>3, <1>4, <1>5 DEF IInv, CountInv

(* the server that waits for connections, *)
LEMMA SelectInv == ASSUME IInv, Select PROVE IInv'
<1>1. TypeOK' /\ Handled' = Handled /\ BacklogInv' /\ pcfd' \in Nat \ {0}
  BY DEF Select, IInv, TypeOK, peerVars, history, Handled, BacklogInv, CountInv
<1>2. QED  BY <1>1, ServerAlone DEF Select, IInv

(* the server that is cancelled, *)
LEMMA CancelInv == ASSUME IInv, Cancel PROVE IInv'
<1>1. TypeOK' /\ Handled' = Handled /\ BacklogInv' /\ pcfd' \in Nat \ {0}
  BY DEF Cancel, IInv, TypeOK, peerVars, history, Handled, BacklogInv, CountInv
<1>2. QED  BY <1>1, ServerAlone DEF Cancel, IInv

(* the server that has asked all its sockets, *)
LEMMA RoundEndsInv == ASSUME IInv, RoundEnds PROVE IInv'
<1>1. pcfd + 1 \in Ids
  <2>1. PICK s \in Sockets : TRUE
    BY HttpServerAssumption
  <2>2. pcfd = Handled
    BY DEF RoundEnds, Handled
  <2>3. QED  BY <2>1, <2>2, HandedToPeers DEF Ids
<1>2. TypeOK'
  BY <1>1 DEF RoundEnds, IInv, TypeOK, peerVars, history
<1>3. Handled' = Handled /\ BacklogInv' /\ pcfd' \in Nat \ {0}
  BY HandedToPeers DEF RoundEnds, Handled, BacklogInv
<1>4. QED  BY <1>2, <1>3, ServerAlone DEF RoundEnds

(* and a peer that connects. *)
LEMMA ConnectInv == ASSUME IInv, NEW p \in Peers, Connect(p) PROVE IInv'
<1> USE DEF IInv
<1>1. PICK s \in Sockets : backlog' = [backlog EXCEPT ![s] = Append(@, p)]
  BY DEF Connect
<1>2. PICK r \in Requests[p] : asked' = [asked EXCEPT ![p] = r]
  BY DEF Connect
<1>3. /\ arrived[p] = "away" /\ arrived' = [arrived EXCEPT ![p] = "nothing"]
      /\ UNCHANGED <<conf, stop, outcome, serverPc, ready, pcfd, failures, records, open, threads, answers, saved>>
  BY DEF Connect, history
<1>4. r \in Request
  BY <1>2, HttpServerAssumption
<1>5. TypeOK'
  BY <1>1, <1>2, <1>3, <1>4 DEF TypeOK
<1>6. Started' = Started /\ Handled' = Handled
  BY <1>3 DEF Started, Handled
<1>7. \A z \in Sockets :
        /\ backlog[z] \in Seq(Peers) /\ Len(backlog[z]) \in Nat
        /\ z # s => backlog'[z] = backlog[z]
        /\ z = s => /\ Len(backlog'[z]) = Len(backlog[z]) + 1 /\ backlog'[z] # <<>>
                    /\ backlog'[z][Len(backlog[z]) + 1] = p
                    /\ \A i \in 1..Len(backlog[z]) : backlog'[z][i] = backlog[z][i]
  <2>1. \A z \in Sockets : backlog[z] \in Seq(Peers) /\ Len(backlog[z]) \in Nat
    BY DEF TypeOK
  <2>2. \A z \in Sockets : z # s => backlog'[z] = backlog[z]
    BY <1>1 DEF TypeOK
  <2>3. backlog'[s] = Append(backlog[s], p)
    BY <1>1 DEF TypeOK
  <2>4. QED  BY <2>1, <2>2, <2>3
<1>8. CountInv'
  <2>1. Connected' = Connected \cup {p} /\ p \notin Connected
    BY <1>3 DEF Connected, TypeOK
  <2>2. IsFiniteSet(Connected)
    BY HttpServerAssumption, FS_Subset DEF Connected
  <2>3. Cardinality(Connected') = Cardinality(Connected) + 1
    BY <2>1, <2>2, FS_AddElement
  <2>4. ASSUME NEW z \in Sockets
        PROVE  Handled' + Len(backlog'[z]) <= Cardinality(Connected') + failures'
    <3>1. Len(backlog'[z]) <= Len(backlog[z]) + 1
      BY <1>7
    <3>2. /\ Handled' = Handled /\ failures' = failures
          /\ Handled + Len(backlog[z]) <= Cardinality(Connected) + failures
      BY <1>3, <1>6 DEF CountInv
    <3>3. QED  BY <1>7, <2>3, <3>1, <3>2, HandedToPeers
  <2>5. QED  BY <1>3, <1>6, <2>4 DEF CountInv
<1>9. BacklogInv'
  BY <1>3, <1>7 DEF BacklogInv, TypeOK
<1>10. RecordInv'
  BY <1>3, <1>6 DEF RecordInv
<1>11. OpenInv'
  BY <1>3 DEF OpenInv, Alive, Descriptor
<1>12. \A d \in Descriptors : open[d] # p
  BY <1>3, HttpServerAssumption DEF PeerInv
<1>13. answers[p] = <<>> /\ p \notin saved
  BY <1>3 DEF PeerInv
<1>14. PeerInv'
  <2>1. \A z \in Sockets : \A i \in DOMAIN backlog[z] : backlog[z][i] \in Peers \ {p}
    BY <1>3 DEF PeerInv, TypeOK
  <2>2. \A z \in Sockets : \A i \in DOMAIN backlog'[z] :
          \/ backlog'[z][i] = p /\ z = s /\ i = Len(backlog[s]) + 1
          \/ i \in DOMAIN backlog[z] /\ backlog'[z][i] = backlog[z][i]
    <3>1. \A z \in Sockets : /\ DOMAIN backlog[z] = 1..Len(backlog[z])
                              /\ DOMAIN backlog'[z] = 1..Len(backlog'[z])
      BY <1>5 DEF TypeOK
    <3>2. QED  BY <1>7, <3>1
  <2>3. arrived'[p] = "nothing" /\ \A q \in Peers : q # p => arrived'[q] = arrived[q]
    BY <1>3 DEF TypeOK
  <2>4. \A z \in Sockets : \A i \in DOMAIN backlog'[z] :
          /\ arrived'[backlog'[z][i]] # "away" /\ answers[backlog'[z][i]] = <<>>
          /\ backlog'[z][i] \notin saved
          /\ \A d \in Descriptors : open[d] # backlog'[z][i]
          /\ \A j \in DOMAIN backlog'[z] : backlog'[z][i] = backlog'[z][j] => i = j
    BY <1>12, <1>13, <2>1, <2>2, <2>3 DEF PeerInv
  <2>5. \A d \in Descriptors : open[d] # Nobody => arrived'[open[d]] # "away"
    BY <1>12, <2>3 DEF PeerInv, TypeOK
  <2>6. QED  BY <1>3, <2>3, <2>4, <2>5 DEF PeerInv
<1>15. AnswerInv'
  <2> SUFFICES ASSUME NEW t \in Ids, Alive(t), Descriptor(t) # -1
               PROVE  (DueAt(threads[t].pc, open[Descriptor(t)]))'
    BY <1>3 DEF AnswerInv, Alive, Descriptor
  <2>1. open[Descriptor(t)] # p /\ open[Descriptor(t)] \in Peers
    BY <1>12, HasPeer
  <2>2. DueAt(threads[t].pc, open[Descriptor(t)])
    BY DEF AnswerInv
  <2>3. QED  BY <1>2, <1>3, <2>1, <2>2 DEF DueAt, Admitted, Descriptor, TypeOK
<1>16. \A q \in Peers : Told(q)'
  <2>1. Told(p)'
    <3>1. Sent(p)' = {} /\ answers'[p] = <<>> /\ p \notin saved'
      BY <1>3, <1>13 DEF Sent
    <3>2. QED  BY <3>1 DEF Told, DeniedTo, OneAnswerTo, Granted, May
  <2>2. ASSUME NEW q \in Peers, q # p PROVE Told(q)'
    <3>1. asked'[q] = asked[q] /\ Sent(q)' = Sent(q)
      BY <1>2, <1>3, <2>2 DEF Sent, TypeOK
    <3>2. QED  BY <1>3, <3>1 DEF Told, DeniedTo, OneAnswerTo, Granted, May
  <2>3. QED  BY <2>1, <2>2
<1>17. QED  BY <1>5, <1>8, <1>9, <1>10, <1>11, <1>14, <1>15, <1>16

(* An accept takes a peer from the backlog, or counts as a failure.        *)
LEMMA CountOnce ==
  ASSUME NEW handed, NEW next \in Nat, NEW length \in Nat, NEW left, NEW connected \in Nat,
         NEW failed \in Nat, NEW total, NEW o \in {0, 1}, handed = next - 1,
         handed + length <= connected + failed, left = length - o, total = failed + (1 - o)
  PROVE  next + left <= connected + total
OBVIOUS

(* The only socket of the round is accepted from: its record was fresh,    *)
(* there is a thread to be started, and the descriptor was free.           *)
LEMMA AcceptInv ==
  ASSUME IInv, NEW s, Sockets = {s}, NEW result \in Results, Accept(result)
  PROVE  IInv'
<1> USE DEF IInv, peerVars, history
<1>1. ready = {s} /\ serverPc = "accept" /\ backlog[s] # <<>> /\ Min(ready) = s
  <2>1. ready = {s}
    BY DEF Accept, TypeOK
  <2>2. Min({s}) = s
    BY HttpServerAssumption DEF Min
  <2>3. QED  BY <2>1, <2>2 DEF Accept, BacklogInv
<1>2. PICK p, t : p = Head(backlog[s]) /\ t = Cardinality(Started) + 1
  OBVIOUS
<1>3. backlog[s] \in Seq(Peers) /\ Len(backlog[s]) >= 1 /\ p \in Peers /\ p = backlog[s][1]
  BY <1>1, <1>2 DEF TypeOK
<1>4. Handled = pcfd - 1 /\ pcfd \in Ids /\ pcfd <= Cardinality(Peers) + MaxFailures /\ ~records[pcfd].freed
  <2>1. Handled = pcfd - 1 /\ pcfd \in Ids /\ pcfd > Handled
    BY <1>1, HandedToPeers DEF Handled, TypeOK
  <2>2. Handled + Len(backlog[s]) <= Cardinality(Peers) + MaxFailures
    BY HandedToPeers
  <2>3. pcfd <= Cardinality(Peers) + MaxFailures
    BY <1>3, <2>1, <2>2, HandedToPeers
  <2>4. QED  BY <2>1, <2>3 DEF RecordInv
<1>5. PICK k \in 0..Handled : Started = 1..k
  BY DEF CountInv
<1>6. t = k + 1 /\ t \in Ids /\ t \notin Started /\ t <= pcfd
  <2>1. Cardinality(1..k) = k
    BY <1>5, FS_Interval, HandedToPeers
  <2>2. QED  BY <1>2, <1>4, <1>5, <2>1, HandedToPeers DEF Ids
<1>7. threads[t] = NoThread
  BY <1>6 DEF Started
<1>8. PICK fd \in Descriptors \cup {-1} :
        /\ ready' = {} /\ Returned(result, s, fd)
        /\ \/ /\ records' = [records EXCEPT ![pcfd].fd = fd]
              /\ threads' = [threads EXCEPT ![t] = [pc |-> "start", record |-> pcfd, fd |-> -1]]
              /\ open' = IF fd = -1 THEN open ELSE [open EXCEPT ![fd] = p]
              /\ UNCHANGED outcome
           \/ /\ UNCHANGED <<outcome, threads, open>>
              /\ records' = [records EXCEPT ![pcfd] = Freed]
        /\ arrived' \in {arrived, [arrived EXCEPT ![p] = "lost"]}
        /\ UNCHANGED <<conf, stop, serverPc, pcfd, asked, history>>
  BY <1>1, <1>2, <1>4 DEF Accept
<1>9. fd \in Descriptors \cup {-1} /\ (fd # -1 => fd \in Descriptors /\ open[fd] = Nobody)
  BY <1>8, HttpServerAssumption DEF Returned, Free
<1>10. PICK o \in {0, 1} :
         /\ \A z \in Sockets :
              /\ Len(backlog'[z]) = Len(backlog[z]) - o
              /\ \A i \in DOMAIN backlog'[z] :
                   /\ i \in Nat /\ i + o \in DOMAIN backlog[z]
                   /\ backlog'[z][i] = backlog[z][i + o]
         /\ backlog' \in [Sockets -> Seq(Peers)]
         /\ failures' \in 0..MaxFailures /\ failures' = failures + (1 - o)
         /\ fd # -1 => o = 1
  <2>1. CASE result = "kept"
    <3>1. backlog' = backlog /\ failures' = failures + 1 /\ failures < MaxFailures /\ fd = -1
      BY <1>8, <2>1 DEF Returned
    <3>2. QED  BY <3>1, HandedToPeers DEF TypeOK
  <2>2. CASE result # "kept"
    <3>1. backlog' = [backlog EXCEPT ![s] = Tail(@)] /\ failures' = failures
      BY <1>8, <2>2 DEF Returned
    <3>2. QED  BY <1>3, <3>1, HandedToPeers DEF TypeOK
  <2>3. QED  BY <2>1, <2>2
<1>11. TypeOK'
  <2>1. backlog' \in [Sockets -> Seq(Peers)] /\ failures' \in 0..MaxFailures
    BY <1>10
  <2>2. records' \in [Ids -> [fd : Descriptors \cup {-1}, freed : BOOLEAN]]
    <3>1. /\ records \in [Ids -> [fd : Descriptors \cup {-1}, freed : BOOLEAN]]
          /\ \/ records' = [records EXCEPT ![pcfd].fd = fd]
             \/ records' = [records EXCEPT ![pcfd] = Freed]
      BY <1>8 DEF TypeOK
    <3>2. Freed \in [fd : Descriptors \cup {-1}, freed : BOOLEAN]
      BY DEF Freed
    <3>3. [records[pcfd] EXCEPT !.fd = fd] \in [fd : Descriptors \cup {-1}, freed : BOOLEAN]
      BY <1>4, <1>9, <3>1
    <3>4. QED  BY <3>1, <3>2, <3>3
  <2>3. open' \in [Descriptors -> Peers \cup {Nobody}]
    BY <1>3, <1>8 DEF TypeOK
  <2>4. threads' \in [Ids -> [pc : {"none", "start", "line", "headers", "answer", "wait",
                                   "close", "done"},
                             record : Ids \cup {0}, fd : Descriptors \cup {-1}]]
    <3>1. threads' \in {threads, [threads EXCEPT ![t] = [pc |-> "start", record |-> pcfd, fd |-> -1]]}
      BY <1>8
    <3>2. [pc |-> "start", record |-> pcfd, fd |-> -1]
            \in [pc : {"none", "start", "line", "headers", "answer", "wait", "close", "done"},
                record : Ids \cup {0}, fd : Descriptors \cup {-1}]
      BY <1>4
    <3>3. QED  BY <3>1, <3>2 DEF TypeOK
  <2>5. QED  BY <1>8, <2>1, <2>2, <2>3, <2>4 DEF TypeOK
<1>12. Handled' = pcfd
  BY <1>1, <1>8 DEF Handled
<1>13. /\ \A i \in DOMAIN backlog'[s] : /\ i \in Nat /\ i + o \in DOMAIN backlog[s]
                                        /\ backlog'[s][i] = backlog[s][i + o]
       /\ pcfd + Len(backlog'[s]) <= Cardinality(Connected') + failures'
       /\ \A q \in Peers : arrived'[q] = "away" <=> arrived[q] = "away"
  <2>1. \A q \in Peers : arrived'[q] = "away" <=> arrived[q] = "away"
    BY <1>3, <1>8 DEF PeerInv, TypeOK
  <2>2. Connected' = Connected
    BY <2>1 DEF Connected
  <2>3. pcfd + Len(backlog'[s]) <= Cardinality(Connected) + failures'
    <3>1. Handled + Len(backlog[s]) <= Cardinality(Connected) + failures
      BY HandedToPeers
    <3>2. Len(backlog'[s]) = Len(backlog[s]) - o /\ failures' = failures + (1 - o) /\ o \in {0, 1}
      BY <1>10
    <3>3. /\ Len(backlog[s]) \in Nat /\ Handled = pcfd - 1 /\ pcfd \in Nat
          /\ Cardinality(Connected) \in Nat /\ failures \in Nat
      BY <1>4, HandedToPeers
    <3>4. QED  BY <3>1, <3>2, <3>3, CountOnce
  <2>4. QED  BY <1>10, <2>1, <2>2, <2>3
<1>14. BacklogInv'
  BY <1>8 DEF BacklogInv
<1>15. arrived[p] # "away" /\ answers[p] = <<>> /\ p \notin saved /\ (\A d \in Descriptors : open[d] # p)
  BY <1>3 DEF PeerInv
<1>16. \A q \in Peers : Told(q)'
  BY <1>8, ToldKept
<1>17. \A i \in DOMAIN backlog'[s] :
         /\ arrived'[backlog'[s][i]] # "away" /\ answers'[backlog'[s][i]] = <<>>
         /\ backlog'[s][i] \notin saved' /\ (fd # -1 => backlog'[s][i] # p)
         /\ \A d \in Descriptors : open[d] # backlog'[s][i]
         /\ \A j \in DOMAIN backlog'[s] : backlog'[s][i] = backlog'[s][j] => i = j
  <2> SUFFICES ASSUME NEW i \in DOMAIN backlog'[s]
               PROVE  /\ arrived'[backlog'[s][i]] # "away" /\ answers'[backlog'[s][i]] = <<>>
                      /\ backlog'[s][i] \notin saved' /\ (fd # -1 => backlog'[s][i] # p)
                      /\ \A d \in Descriptors : open[d] # backlog'[s][i]
                      /\ \A j \in DOMAIN backlog'[s] : backlog'[s][i] = backlog'[s][j] => i = j
    OBVIOUS
  <2>1. i + o \in DOMAIN backlog[s] /\ backlog'[s][i] = backlog[s][i + o] /\ i \in Nat
    BY <1>13
  <2>2. 1 \in DOMAIN backlog[s] /\ i >= 1
    BY <1>3, <1>11, <2>1 DEF TypeOK
  <2>3. fd # -1 => backlog'[s][i] # p
    <3>1. fd # -1 => i + o # 1
      BY <1>10, <2>2
    <3>2. QED  BY <1>3, <2>1, <2>2, <3>1 DEF PeerInv
  <2>4. ASSUME NEW j \in DOMAIN backlog'[s], backlog'[s][i] = backlog'[s][j] PROVE i = j
    <3>1. j + o \in DOMAIN backlog[s] /\ backlog'[s][j] = backlog[s][j + o] /\ j \in Nat
      BY <1>13
    <3>2. i + o = j + o
      BY <2>1, <2>4, <3>1 DEF PeerInv
    <3>3. QED  BY <2>1, <3>1, <3>2
  <2>5. backlog[s][i + o] \in Peers
    BY <1>3, <2>1
  <2>6. QED  BY <1>8, <1>13, <2>1, <2>3, <2>4, <2>5 DEF PeerInv
<1>18. CASE /\ records' = [records EXCEPT ![pcfd].fd = fd]
            /\ threads' = [threads EXCEPT ![t] = [pc |-> "start", record |-> pcfd, fd |-> -1]]
            /\ open' = IF fd = -1 THEN open ELSE [open EXCEPT ![fd] = p]
            /\ UNCHANGED outcome
  <2>1. \A u \in Ids : /\ u # t => threads'[u] = threads[u]
                       /\ u = t => threads'[u].pc = "start" /\ threads'[u].record = pcfd
    BY <1>18, <1>6 DEF TypeOK
  <2>2. \A r \in Ids : /\ records'[r].freed = records[r].freed
                       /\ r # pcfd => records'[r].fd = records[r].fd
                       /\ r = pcfd => records'[r].fd = fd
    BY <1>18, <1>4 DEF TypeOK
  <2>3. \A d \in Descriptors : open'[d] = IF d = fd THEN p ELSE open[d]
    BY <1>18, <1>9, HttpServerAssumption DEF TypeOK
  <2>4. CountInv'
    <3>1. Started' = 1..(k + 1)
      <4>1. threads'[t] # NoThread
        BY <1>6, <2>1 DEF NoThread
      <4>2. Started' = Started \cup {t}
        BY <1>6, <2>1, <4>1 DEF Started
      <4>3. QED  BY <1>5, <1>6, <4>2, HandedToPeers
    <3>2. k + 1 \in 0..Handled'
      BY <1>4, <1>5, <1>12, HandedToPeers
    <3>3. Handled' + Len(backlog'[s]) <= Cardinality(Connected') + failures'
      BY <1>12, <1>13
    <3>4. QED  BY <1>8, <3>1, <3>2, <3>3, HandedToPeers DEF CountInv
  <2>5. \A u \in Ids : threads[u].pc = "start" => threads[u].record \in Ids /\ threads[u].record < pcfd
    BY <1>4, HandedToPeers DEF RecordInv, TypeOK
  <2>6. RecordInv'
    <3>1. \A r \in Ids : r > pcfd => ~records'[r].freed
      BY <1>4, <2>2 DEF RecordInv, Ids
    <3>2. \A u \in Ids : threads'[u].pc = "start" =>
            threads'[u].record \in 1..pcfd /\ ~records'[threads'[u].record].freed
      <4>1. \A u \in Ids : u # t /\ threads[u].pc = "start" =>
              threads[u].record \in 1..pcfd /\ ~records'[threads[u].record].freed
        <5>1. \A u \in Ids : u # t /\ threads[u].pc = "start" =>
                threads[u].record \in Ids /\ ~records[threads[u].record].freed
          BY <2>5 DEF RecordInv
        <5>2. \A r \in Ids : r < pcfd => r \in 1..pcfd
          BY <1>4 DEF Ids
        <5>3. QED  BY <2>2, <2>5, <5>1, <5>2
      <4>2. pcfd \in 1..pcfd /\ ~records'[pcfd].freed
        BY <1>4, <2>2 DEF Ids
      <4>3. QED  BY <2>1, <4>1, <4>2
    <3>3. \A u, v \in Ids :
            threads'[u].pc = "start" /\ threads'[v].pc = "start"
              /\ threads'[u].record = threads'[v].record => u = v
      BY <2>1, <2>5, HandedToPeers DEF RecordInv
    <3>4. QED  BY <1>8, <1>12, <1>18, <3>1, <3>2, <3>3 DEF RecordInv
  <2>7. \A u \in Ids : u # t => (Alive(u))' = Alive(u) /\ (Descriptor(u))' = Descriptor(u)
    BY <2>1, <2>2, <2>5, HandedToPeers DEF Alive, Descriptor
  <2>8. (Alive(t))' /\ (Descriptor(t))' = fd /\ threads'[t].pc = "start" /\ ~Alive(t)
    BY <1>4, <1>6, <1>7, <2>1, <2>2 DEF Alive, Descriptor, NoThread
  <2>9. \A u \in Ids : Alive(u) /\ Descriptor(u) # -1 =>
          /\ Descriptor(u) \in Descriptors /\ Descriptor(u) # fd
          /\ open[Descriptor(u)] \in Peers /\ open'[Descriptor(u)] = open[Descriptor(u)]
    BY <1>9, <2>3, HasPeer DEF OpenInv
  <2>10. OpenInv'
    <3>1. \A u \in Ids : (Alive(u))' /\ (Descriptor(u))' # -1 => open'[(Descriptor(u))'] # Nobody
      BY <1>3, <1>9, <2>3, <2>7, <2>8, <2>9, HttpServerAssumption
    <3>2. \A u, v \in Ids :
            (Alive(u))' /\ (Alive(v))' /\ (Descriptor(u))' # -1 /\ (Descriptor(u))' = (Descriptor(v))'
              => u = v
      BY <2>7, <2>8, <2>9 DEF OpenInv
    <3>3. \A d \in Descriptors : open'[d] # Nobody => \E u \in Ids : (Alive(u))' /\ (Descriptor(u))' = d
      BY <1>6, <2>3, <2>7, <2>8 DEF OpenInv
    <3>4. \A u \in Ids : threads'[u].pc \notin {"none", "start", "line", "done"} => threads'[u].fd # -1
      BY <2>1, <2>8 DEF OpenInv
    <3>5. QED  BY <3>1, <3>2, <3>3, <3>4 DEF OpenInv
  <2>11. PeerInv'
    <3>1. \A z \in Sockets : \A i \in DOMAIN backlog'[z] :
            /\ arrived'[backlog'[z][i]] # "away" /\ answers'[backlog'[z][i]] = <<>>
            /\ backlog'[z][i] \notin saved'
            /\ \A d \in Descriptors : open'[d] # backlog'[z][i]
            /\ \A j \in DOMAIN backlog'[z] : backlog'[z][i] = backlog'[z][j] => i = j
      <4>1. \A d \in Descriptors : open'[d] \in {open[d], p} /\ (open'[d] = p => fd # -1 \/ open[d] = p)
        <5>1. \A d \in Descriptors : d # -1
          BY HttpServerAssumption
        <5>2. QED  BY <2>3, <5>1
      <4>2. \A i \in DOMAIN backlog'[s] : \A d \in Descriptors : open'[d] # backlog'[s][i]
        BY <1>17, <4>1
      <4>3. QED  BY <1>17, <4>2
    <3>2. \A d, e \in Descriptors : open'[d] # Nobody /\ open'[d] = open'[e] => d = e
      BY <1>15, <2>3 DEF PeerInv
    <3>3. ASSUME NEW d \in Descriptors, open'[d] # Nobody
          PROVE  arrived'[open'[d]] # "away"
      <4>1. open'[d] = p \/ (open'[d] = open[d] /\ open[d] # Nobody)
        BY <2>3, <3>3
      <4>2. open'[d] \in Peers /\ arrived[open'[d]] # "away"
        BY <1>3, <1>15, <4>1 DEF PeerInv, TypeOK
      <4>3. QED  BY <1>13, <4>2
    <3>4. QED  BY <1>8, <1>13, <3>1, <3>2, <3>3 DEF PeerInv
  <2>12. AnswerInv'
    <3> SUFFICES ASSUME NEW u \in Ids, (Alive(u))', (Descriptor(u))' # -1
                 PROVE  (DueAt(threads[u].pc, open[Descriptor(u)]))'
      BY DEF AnswerInv
    <3>1. CASE u = t
      <4>1. threads'[u].pc = "start" /\ open'[(Descriptor(u))'] = p
        BY <1>9, <2>3, <2>8, <3>1
      <4>2. QED  BY <1>8, <1>15, <4>1 DEF DueAt, Admitted
    <3>2. CASE u # t
      <4>1. DueAt(threads[u].pc, open[Descriptor(u)])
        BY <2>7, <3>2 DEF AnswerInv
      <4>2. threads'[u].pc = threads[u].pc /\ open'[(Descriptor(u))'] = open[Descriptor(u)]
        BY <2>1, <2>7, <2>9, <3>2
      <4>3. QED  BY <1>8, <4>1, <4>2 DEF DueAt, Admitted
    <3>3. QED  BY <3>1, <3>2
  <2>13. QED  BY <1>11, <1>14, <1>16, <2>4, <2>6, <2>10, <2>11, <2>12
<1>19. CASE /\ UNCHANGED <<outcome, threads, open>>
            /\ records' = [records EXCEPT ![pcfd] = Freed]
  <2>1. \A r \in Ids : r # pcfd => records'[r] = records[r]
    BY <1>19, <1>4 DEF TypeOK
  <2>2. CountInv'
    <3>1. Started' = 1..k /\ k \in 0..Handled'
      BY <1>4, <1>5, <1>12, <1>19, HandedToPeers DEF Started
    <3>2. Handled' + Len(backlog'[s]) <= Cardinality(Connected') + failures'
      BY <1>12, <1>13
    <3>3. QED  BY <1>8, <3>1, <3>2, HandedToPeers DEF CountInv
  <2>3. \A u \in Ids : threads[u].pc = "start" => threads[u].record \in Ids /\ threads[u].record < pcfd
    BY <1>4, HandedToPeers DEF RecordInv, TypeOK
  <2>4. RecordInv'
    <3>1. \A r \in Ids : r > pcfd => ~records'[r].freed
      BY <1>4, <2>1 DEF RecordInv, Ids
    <3>2. \A u \in Ids : threads[u].pc = "start" =>
            threads[u].record \in 1..pcfd /\ ~records'[threads[u].record].freed
      BY <1>4, <2>1, <2>3, HandedToPeers DEF RecordInv, Ids
    <3>3. QED  BY <1>8, <1>12, <1>19, <3>1, <3>2 DEF RecordInv
  <2>5. \A u \in Ids : (Alive(u))' = Alive(u) /\ (Descriptor(u))' = Descriptor(u)
    BY <1>19, <2>1, <2>3, HandedToPeers DEF Alive, Descriptor
  <2>6. OpenInv'
    BY <1>19, <2>5 DEF OpenInv
  <2>7. PeerInv'
    <3>1. \A z \in Sockets : \A i \in DOMAIN backlog'[z] :
            /\ arrived'[backlog'[z][i]] # "away" /\ answers'[backlog'[z][i]] = <<>>
            /\ backlog'[z][i] \notin saved'
            /\ \A d \in Descriptors : open'[d] # backlog'[z][i]
            /\ \A j \in DOMAIN backlog'[z] : backlog'[z][i] = backlog'[z][j] => i = j
      BY <1>17, <1>19
    <3>2. \A d \in Descriptors : open'[d] # Nobody => arrived'[open'[d]] # "away"
      BY <1>13, <1>19 DEF PeerInv, TypeOK
    <3>3. QED  BY <1>8, <1>13, <1>19, <3>1, <3>2 DEF PeerInv
  <2>8. AnswerInv'
    BY <1>8, <1>19, <2>5 DEF AnswerInv, DueAt, Admitted
  <2>9. QED  BY <1>11, <1>14, <1>16, <2>2, <2>4, <2>6, <2>7, <2>8
<1>20. QED  BY <1>8, <1>18, <1>19

-----------------------------------------------------------------------------
(* The invariant holds when the server starts. *)
LEMMA InitInv == Init => IInv
<1> SUFFICES ASSUME Init PROVE IInv
  OBVIOUS
<1> USE HttpServerAssumption
<1>1. Cardinality(Peers) \in Nat /\ MaxFailures \in Nat
  BY FS_CardinalityType
<1>2. NoRequest \in Request
  BY DEF NoRequest, Request, Kinds
<1>3. TypeOK
  <2>1. pcfd \in Ids /\ conf \in Option /\ asked \in [Peers -> Request]
    BY <1>1, <1>2 DEF Init, Ids
  <2>2. backlog \in [Sockets -> Seq(Peers)] /\ answers \in [Peers -> Seq(Statuses)]
    BY DEF Init
  <2>3. records \in [Ids -> [fd : Descriptors \cup {-1}, freed : BOOLEAN]]
    BY DEF Init
  <2>4. failures \in 0..MaxFailures
    BY <1>1 DEF Init
  <2>5. open \in [Descriptors -> Peers \cup {Nobody}]
    BY DEF Init
  <2>6. threads \in [Ids -> [pc : {"none", "start", "line", "headers", "answer", "wait",
                                  "close", "done"},
                            record : Ids \cup {0}, fd : Descriptors \cup {-1}]]
    BY DEF Init, NoThread
  <2>7. QED  BY <2>1, <2>2, <2>3, <2>4, <2>5, <2>6 DEF Init, TypeOK
<1>4. CountInv
  <2>1. Started = {} /\ Handled = 0 /\ pcfd = 1
    BY DEF Init, Started, Handled
  <2>2. Connected = {} /\ Cardinality(Connected) = 0
    BY FS_EmptySet DEF Init, Connected
  <2>3. \A s \in Sockets : Len(backlog[s]) = 0
    BY DEF Init
  <2>4. Started = 1..0 /\ 0 \in 0..Handled
    BY <2>1
  <2>5. failures = 0
    BY DEF Init
  <2>6. QED  BY <2>1, <2>2, <2>3, <2>4, <2>5 DEF CountInv
<1>5. BacklogInv /\ RecordInv /\ OpenInv /\ PeerInv /\ AnswerInv
  BY DEF Init, BacklogInv, RecordInv, OpenInv, PeerInv, AnswerInv, NoThread, Alive, Descriptor
<1>6. \A p \in Peers : Told(p)
  <2> SUFFICES ASSUME NEW p \in Peers PROVE Told(p)
    OBVIOUS
  <2>1. answers[p] = <<>> /\ saved = {} /\ Sent(p) = {}
    BY DEF Init, Sent
  <2>2. QED  BY <2>1 DEF Told, DeniedTo, OneAnswerTo, Granted, May
<1>7. QED  BY <1>3, <1>4, <1>5, <1>6 DEF IInv

(* With one socket to listen on, the invariant holds.                      *)
THEOREM Invariance ==
  ASSUME NEW s, Sockets = {s}
  PROVE  Spec => []IInv
<1>1. IInv /\ [Next]_vars => IInv'
  <2> SUFFICES ASSUME IInv, [Next]_vars PROVE IInv'
    OBVIOUS
  <2>1. CASE UNCHANGED vars
    <3>1. TypeOK'
      BY <2>1 DEF vars, serverVars, peerVars, history, IInv, TypeOK
    <3>2. QED  BY <2>1, <3>1, OutsideInv DEF vars, peerVars, history, IInv, RecordInv
  <2>2. CASE Next
    BY <2>2, SelectInv, AcceptInv, RoundEndsInv, StopInv, CancelInv, ClientStepInv, ConnectInv,
       SendInv
    DEF Next
  <2>3. QED  BY <2>1, <2>2
<1>2. QED  BY <1>1, InitInv, PTL DEF Spec

(* The types of all variables: in particular there is a record and a       *)
(* thread for each connection.                                             *)
THEOREM TypeCorrect ==
  ASSUME NEW s, Sockets = {s}
  PROVE  Spec => []TypeOK
<1>1. Spec => []IInv
  BY Invariance
<1>2. IInv => TypeOK
  BY DEF IInv
<1>3. QED  BY <1>1, <1>2, PTL

(* With one socket to listen on, each open connection has exactly one      *)
(* thread, and no record is freed twice, for any number of clients and     *)
(* whatever fails.                                                         *)
THEOREM ChildForEveryClientHolds ==
  ASSUME NEW s, Sockets = {s}
  PROVE  Spec => []ChildForEveryClient
<1>1. IInv => ChildForEveryClient
  <2> SUFFICES ASSUME IInv, NEW d \in Descriptors
               PROVE  Cardinality(Serving(d)) = IF open[d] = Nobody THEN 0 ELSE 1
    BY DEF ChildForEveryClient, IInv, RecordInv
  <2>1. d # -1
    BY HttpServerAssumption
  <2>2. \A t \in Ids : t \in Serving(d) <=> Alive(t) /\ Descriptor(t) = d
    BY DEF Serving, Handed, Owned, Alive, Descriptor
  <2>3. CASE open[d] = Nobody
    <3>1. Serving(d) = {}
      BY <2>1, <2>2, <2>3 DEF IInv, OpenInv, Serving
    <3>2. QED  BY <2>3, <3>1, FS_EmptySet
  <2>4. CASE open[d] # Nobody
    <3>1. PICK t \in Ids : Alive(t) /\ Descriptor(t) = d
      BY <2>4 DEF IInv, OpenInv
    <3>2. Serving(d) = {t}
      BY <2>1, <2>2, <3>1 DEF IInv, OpenInv, Serving
    <3>3. QED  BY <2>4, <3>2, FS_Singleton
  <2>5. QED  BY <2>3, <2>4
<1>2. Spec => []IInv
  BY Invariance
<1>3. QED  BY <1>1, <1>2, PTL

(* Who does not give the credentials that are asked for learns nothing and *)
(* has no picture saved, for any number of clients.                        *)
THEOREM DeniedHolds ==
  ASSUME NEW s, Sockets = {s}
  PROVE  Spec => []Denied
<1>1. IInv => Denied
  BY DEF IInv, Told, DeniedTo, Denied
<1>2. Spec => []IInv
  BY Invariance
<1>3. QED  BY <1>1, <1>2, PTL

(* A client is sent one error, or one answer of the kind that its request  *)
(* asks for, and the latter only if credentials, plugin, target and        *)
(* options allow it and, for a take, its picture was saved.  Two kinds of  *)
(* request are excepted: a stream may end with an error after it has       *)
(* begun, and a take without a file name is sent an error and then a       *)
(* picture that was not saved, or a second error.                          *)
THEOREM OneAnswerHolds ==
  ASSUME NEW s, Sockets = {s}
  PROVE  Spec => []OneAnswer
<1>1. IInv => OneAnswer
  BY DEF IInv, Told, OneAnswerTo, Granted, OneAnswer
<1>2. Spec => []IInv
  BY Invariance
<1>3. QED  BY <1>1, <1>2, PTL
=============================================================================
