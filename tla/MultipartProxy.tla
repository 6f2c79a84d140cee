--------------------------- MODULE MultipartProxy ---------------------------
(***************************************************************************)
(* The HTTP input plugin (plugins/input_http): a worker thread connects to *)
(* another mjpg-streamer, reads its multipart stream in whatever chunks    *)
(* recv returns, finds the pictures in it byte by byte and publishes them. *)
(* The other side is send_stream of plugins/output_http, which may break   *)
(* the connection at any byte and be found again.                          *)
(* A byte is a member of a small alphabet that tells apart what the        *)
(* extractor's tests tell apart.  "O" and "K" stand for the letters whose  *)
(* bits contain those of CR and of LF, as in "OK" and "on"; "-" contains   *)
(* those of CR too.  "-", "-", "b" stand for "--boundarydonotcross".       *)
(***************************************************************************)
EXTENDS Integers, Sequences

CONSTANTS
  Pictures,      (* the pictures the server may send, sequences of bytes *)
  BUFFER_SIZE,   (* length of the extractor's buffer                     *)
  NETBUFFER_SIZE,
  MaxPictures,   (* bound: pictures per connection                       *)
  MaxConnects    (* bound: connections                                   *)

Byte == {"x", "O", "K", "-", "b", "cr", "lf"}
Boundary == <<"-", "-", "b">>

(* What send_stream writes: once per connection, and around each picture.  *)
(* ReplyText is the rest of the reply's header, all that follows its       *)
(* status line.                                                            *)
LineBreak  == <<"cr", "lf">>
StatusLine == <<"O", "K", "cr", "lf">>
ReplyText  == <<"x", "cr", "lf">>
Reply      == StatusLine \o ReplyText \o LineBreak \o Boundary \o LineBreak
PartHeader == <<"x", "O", "K", "x", "cr", "lf", "cr", "lf">>
Part(picture) == PartHeader \o picture \o LineBreak \o Boundary \o LineBreak

Fits(picture) == Len(picture) + 2 + Len(Boundary) <= BUFFER_SIZE - 1

ASSUME MultipartProxyAssumption ==
  /\ Pictures \subseteq Seq(Byte)
  /\ BUFFER_SIZE \in Nat /\ Fits(ReplyText)
  /\ NETBUFFER_SIZE \in Nat \ {0}
  /\ MaxPictures \in Nat /\ MaxConnects \in Nat

(* The boundary is text that no picture contains.  The server takes this   *)
(* for granted, as the extractor does.                                     *)
Occurs(pattern, bytes) ==
  \E i \in 0..(Len(bytes) - Len(pattern)) :
    \A j \in 1..Len(pattern) : bytes[i + j] = pattern[j]

ASSUME BoundaryAssumption == \A p \in Pictures : ~Occurs(Boundary, p)

VARIABLES
  stop,      (* global.stop, which should_stop points to                 *)
  pc,        (* where the worker is                                      *)
  wire,      (* bytes the server has sent and recv has not returned      *)
  up,        (* the server has not ended the connection                  *)
  net,       (* the rest of netbuffer                                    *)
  part, last_four_bytes,   (* state of the extractor                     *)
  matched,   (* how much of the boundary boundary.current_matched_char has passed *)
  buffer,    (* the first length bytes of the extractor's buffer         *)
  store,     (* in->size and the bytes of in->buf                        *)
  connects,  (* number of connections                                    *)
  pictures,  (* history: pictures sent on this connection                *)
  published  (* history: what was published since the connection         *)

extractor == <<part, last_four_bytes, matched, buffer>>
server    == <<wire, up, pictures, connects>>
picture   == <<store, published>>
vars == <<stop, pc, server, net, extractor, picture>>

Step(here, next) == pc = here /\ pc' = next
-----------------------------------------------------------------------------
Zeros == <<"x", "x", "x", "x">>

Reset ==
  /\ part' = "header" /\ last_four_bytes' = Zeros
  /\ matched' = 0 /\ buffer' = <<>>

Init ==
  /\ stop = FALSE /\ pc = "connect"
  /\ wire = <<>> /\ up = FALSE /\ net = <<>>
  /\ part = "header" /\ last_four_bytes = Zeros /\ matched = 0 /\ buffer = <<>>
  /\ store = [size |-> 0, bytes |-> <<>>]
  /\ connects = 0 /\ pictures = <<>> /\ published = <<>>
-----------------------------------------------------------------------------
(* connect_and_stream and send_request_and_process_response *)

Connect ==
  /\ Step("connect", "recv")
  /\ connects < MaxConnects /\ connects' = connects + 1
  /\ wire' = Reply /\ up' = TRUE
  /\ pictures' = <<>> /\ published' = <<>>
  /\ Reset
  /\ UNCHANGED <<stop, net, store>>

(* getaddrinfo fails: info is then uninitialized, or the list that the     *)
(* last round freed.  Following it crashes, or ends in a connection or in  *)
(* none; a failed connection is tried again after five seconds.            *)
ResolveFails ==
  /\ Step("connect", "crashed")
  /\ UNCHANGED <<stop, server, net, extractor, picture>>

Recv(n) ==
  /\ Step("recv", IF stop THEN "close" ELSE "extract")
  /\ n <= Len(wire)
  /\ net' = SubSeq(wire, 1, n) /\ wire' = SubSeq(wire, n + 1, Len(wire))
  /\ UNCHANGED <<stop, up, pictures, connects, extractor, picture>>

(* recv returns 0, an error or EINTR. *)
RecvEnds ==
  /\ Step("recv", "close")
  /\ UNCHANGED <<stop, server, net, extractor, picture>>

Close ==
  /\ Step("close", IF stop THEN "cleanup" ELSE "connect")
  /\ wire' = <<>> /\ up' = FALSE /\ net' = <<>>
  /\ UNCHANGED <<stop, pictures, connects, extractor, picture>>

(* worker_cleanup, on leaving or when input_stop has cancelled the thread  *)
(* where it sleeps, connects or receives.                                  *)
CancelAsleep ==
  /\ stop /\ Step("connect", "cleanup")
  /\ UNCHANGED <<stop, server, net, extractor, picture>>

Cancel ==
  /\ stop /\ pc \in {"connect", "recv"} /\ pc' = "cleanup"
  /\ UNCHANGED <<stop, server, net, extractor, picture>>

Cleanup ==
  /\ Step("cleanup", "done")
  /\ UNCHANGED <<stop, server, net, extractor, picture>>
-----------------------------------------------------------------------------
(* extract_data, one byte at a time *)

push_byte_keeping(bytes, byte) == Append(bytes, byte)

push_byte(bytes, byte) == Append(Tail(bytes), byte)

is_crlf_exactly(bytes) == bytes = <<"cr", "lf">>

(* The test masks the two bytes instead of comparing them. *)
is_crlf(bytes) == bytes[1] \in {"cr", "O", "-"} /\ bytes[2] \in {"lf", "K"}

is_crlfcrlf(bytes) ==
  is_crlf(SubSeq(bytes, 1, 2)) /\ is_crlf(SubSeq(bytes, 3, 4))

search_pattern_compare(byte) == IF Boundary[matched + 1] = byte THEN matched + 1 ELSE 0

TooSmallEarly == Len(buffer) >= BUFFER_SIZE - 2

TooSmall == Len(buffer) >= BUFFER_SIZE - 1

ImageLengthWithBreak(length) == length - Len(Boundary)

ImageLength(length) == length - (Len(Boundary) + 2)

(* on_image_received: copy and broadcast under db.  Only the length and    *)
(* the bytes are set, no timestamp.                                        *)
on_image_received(data, length) ==
  /\ store' = [size |-> length, bytes |-> SubSeq(data, 1, length)]
  /\ published' = Append(published, store'.bytes)

NextByte ==
  /\ pc = "extract" /\ ~stop
  /\ net # <<>> /\ net' = Tail(net)
  /\ UNCHANGED <<stop, pc, server>>

(* Content-Length is looked for as well, and nothing made of it. *)
HeaderByte ==
  /\ NextByte
  /\ part = "header"
  /\ last_four_bytes' = push_byte(last_four_bytes, Head(net))
  /\ part' = IF is_crlfcrlf(last_four_bytes') THEN "content" ELSE "header"
  /\ UNCHANGED <<matched, buffer, picture>>

DroppedByte ==
  /\ NextByte
  /\ part = "content" /\ TooSmall
  /\ UNCHANGED <<extractor, picture>>

ContentByte ==
  /\ NextByte
  /\ part = "content" /\ ~TooSmall
  /\ search_pattern_compare(Head(net)) < Len(Boundary)
  /\ matched' = search_pattern_compare(Head(net))
  /\ buffer' = Append(buffer, Head(net))
  /\ UNCHANGED <<part, last_four_bytes, picture>>

LastByte ==
  /\ NextByte
  /\ part = "content" /\ ~TooSmall
  /\ search_pattern_compare(Head(net)) = Len(Boundary)
  /\ on_image_received(buffer, ImageLength(Len(buffer) + 1))
  /\ Reset

Extracted ==
  /\ pc = "extract" /\ (net = <<>> \/ stop)
  /\ pc' = "recv" /\ net' = <<>>
  /\ UNCHANGED <<stop, server, extractor, picture>>

Extract == HeaderByte \/ DroppedByte \/ ContentByte \/ LastByte \/ Extracted
-----------------------------------------------------------------------------
(* The server: send_stream writes a picture, or the connection ends and    *)
(* what was under way arrives or is lost (if later, less of it is lost).   *)
SendPicture ==
  /\ up /\ Len(pictures) < MaxPictures
  /\ \E p \in Pictures :
       /\ wire' = wire \o Part(p)
       /\ pictures' = Append(pictures, p)
  /\ UNCHANGED <<stop, pc, up, connects, net, extractor, picture>>

Break ==
  /\ up /\ up' = FALSE
  /\ wire' \in {wire, <<>>}
  /\ UNCHANGED <<stop, pc, pictures, connects, net, extractor, picture>>

(* signal_handler: stop, and after a while input_stop (Cancel). *)
Stop ==
  /\ ~stop /\ stop' = TRUE
  /\ UNCHANGED <<pc, server, net, extractor, picture>>
-----------------------------------------------------------------------------
Next ==
  \/ Connect \/ ResolveFails \/ RecvEnds \/ Close \/ Cancel \/ Cleanup
  \/ \E n \in 1..NETBUFFER_SIZE : Recv(n)
  \/ Extract
  \/ SendPicture \/ Break \/ Stop

Spec == Init /\ [][Next]_vars

(* The worker runs, and the signal handler that has set stop goes on to    *)
(* cancel it.  Nothing is assumed of the server or of the network.         *)
Fairness ==
  /\ WF_vars(\E n \in 1..NETBUFFER_SIZE : Recv(n))
  /\ WF_vars(Extract)
  /\ WF_vars(Close \/ Cleanup)
  /\ WF_vars(Cancel)

FairSpec == Spec /\ Fairness
-----------------------------------------------------------------------------
(* The variables range over the values the code can give them; no more     *)
(* than four bytes of the header are remembered.                           *)
TypeOK ==
  /\ stop \in BOOLEAN /\ up \in BOOLEAN
  /\ pc \in {"connect", "crashed", "recv", "extract", "close", "cleanup", "done"}
  /\ wire \in Seq(Byte)
  /\ net \in Seq(Byte) /\ Len(net) <= NETBUFFER_SIZE
  /\ part \in {"header", "content"}
  /\ last_four_bytes \in Seq(Byte) /\ Len(last_four_bytes) = 4
  /\ matched \in 0..(Len(Boundary) - 1)
  /\ buffer \in Seq(Byte) /\ Len(buffer) < BUFFER_SIZE
  /\ store.size \in Int /\ store.bytes \in Seq(Byte)
  /\ connects \in 0..MaxConnects
  /\ pictures \in Seq(Pictures) /\ published \in Seq(Seq(Byte))

(* The length given to memcpy is never negative and never more than the    *)
(* picture buffer holds.  The extractor takes the boundary and the line    *)
(* break before it off what it has read since the header; that there is a  *)
(* line break to take off in the first part of a reply is only so because  *)
(* the header was taken to end earlier than it does.                       *)
LengthInBounds == store.size \in 0..BUFFER_SIZE

(* However the stream is cut into chunks, and wherever a connection broke, *)
(* what is published is what the server sent, in order, whole and without  *)
(* gaps, up to the first picture that is too large.                        *)
Relay == INSTANCE PictureRelay
  WITH Text <- ReplyText, sent <- pictures, passed <- published
FaithfulRelay == Relay!Spec

(* A picture that was sent, and all those before it on the connection, are *)
(* published unless one is too large, the connection ends or the program   *)
(* stops: chunk boundaries never make the extractor wait for ever.         *)
Receiving == pc \in {"recv", "extract"} /\ up /\ ~stop
PicturePublished ==
  \A i \in 1..MaxPictures :
    (/\ Receiving /\ Len(pictures) >= i
     /\ \A j \in 1..i : Fits(pictures[j]))
      ~> (Len(published) > i \/ ~Receiving)

(* The worker leaves after a stop, wherever it is and though the server    *)
(* neither sends nor closes.                                               *)
WorkerLeaves == stop ~> pc \in {"done", "crashed"}
-----------------------------------------------------------------------------
(* The inductive invariant behind FaithfulRelay. *)

(* The stream of a connection as the extractor takes it apart: item 0 is   *)
(* the reply to the end of its boundary, item i the line break after the   *)
(* boundary before it, and picture i with its header and its boundary.     *)
(* The line break after the last boundary is the beginning of an item.     *)
Preamble(i) == IF i = 0 THEN StatusLine ELSE LineBreak \o PartHeader
Text(i)     == IF i = 0 THEN ReplyText ELSE pictures[i]
Content(i)  == Text(i) \o LineBreak \o Boundary
Item(i) == IF i <= Len(pictures) THEN Preamble(i) \o Content(i) ELSE LineBreak

(* The bytes that are still to be looked at are those of the items from    *)
(* the one that is to be published next, laid end to end: cut[i] of them   *)
(* come before item i.  If the connection was broken some may be missing   *)
(* at the end.                                                             *)
Pending == net \o wire
Items   == Len(published)..(Len(pictures) + 1)
Laid(cut) ==
  /\ \A i \in Items \ {Len(pictures) + 1} : cut[i + 1] = cut[i] + Len(Item(i))
  /\ \A i \in Items : cut[i] <= cut[Len(pictures) + 1]
  /\ \A i \in Items : \A j \in 1..Len(Item(i)) :
       cut[i] + j \in 1..Len(Pending) => Pending[cut[i] + j] = Item(i)[j]
  /\ Len(Pending) <= cut[Len(pictures) + 1] + 2
  /\ up => Len(Pending) = cut[Len(pictures) + 1] + 2

(* The extractor has looked at the first k bytes of item m: it is in its   *)
(* preamble and has the last four bytes, or it is in its content and has   *)
(* that so far, and as much of the boundary as it ends with.               *)
InPreamble(m, k) ==
  /\ part = "header" /\ k < Len(Preamble(m))
  /\ \A j \in 1..4 : last_four_bytes[j] = (Zeros \o Preamble(m))[k + j]
  /\ matched = 0 /\ buffer = <<>>

InContent(m, k) ==
  /\ part = "content" /\ m <= Len(pictures)
  /\ k = Len(Preamble(m)) + Len(buffer) /\ k < Len(Item(m))
  /\ \A j \in 1..Len(buffer) : buffer[j] = Content(m)[j]
  /\ matched <= Len(buffer)
  /\ \A j \in 1..matched : buffer[Len(buffer) - matched + j] = Boundary[j]
  /\ Len(buffer) >= Len(Text(m)) + 2 => matched = Len(buffer) - Len(Text(m)) - 2

Follows(cut, m, k) ==
  /\ m = Len(published) /\ m <= Len(pictures) + 1
  /\ cut[m] = 0 - k
  /\ InPreamble(m, k) \/ InContent(m, k)
  /\ \A i \in 1..(m - 1) : Fits(pictures[i])
  /\ Laid(cut)

(* The extractor follows the stream, unless a picture that is too large    *)
(* has filled its buffer.                                                  *)
Stuck == part = "content" /\ TooSmall
Following == pc \in {"recv", "extract"} /\ ~stop /\ ~Stuck
StreamInv == Following => \E cut \in [Nat -> Int] : \E m, k \in Nat : Follows(cut, m, k)

TypeInv ==
  /\ TypeOK
  /\ store \in [size : Int, bytes : Seq(Byte)]
  /\ pc \in {"connect", "recv"} => net = <<>>

IInv == TypeInv /\ StreamInv /\ LengthInBounds
=============================================================================
