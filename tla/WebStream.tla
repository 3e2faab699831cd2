----------------------------- MODULE WebStream -----------------------------
(***************************************************************************)
(* One socket of the web server from its first byte to its last: the read  *)
(* loop of HttpConnection with HttpRequest::parse and HttpServer's         *)
(* dispatch, the hand-over to WsConnection, its read loop with             *)
(* ws::tryDecode, and the write loops of both.  The client's messages      *)
(* arrive cut in any way; what is written leaves in any portions.          *)
(*                                                                         *)
(* A byte that matters on its own is a unit; a run of bytes that the code  *)
(* only ever looks at as a whole (a request line with its headers, an      *)
(* extended length, a masking key) is one unit, too.                       *)
(***************************************************************************)
EXTENDS Buffer, SequencesExt

CONSTANTS
    Requests,        \* what a request line and its headers may say
    Data,            \* bytes of bodies and payloads
    Others,          \* those of them that other members send
    Opcodes,         \* opcodes that clients use
    Scripts,         \* what a client may say over one socket
    Short, Long,     \* 126 and 65536: where a frame's length changes form
    WordSize,        \* 2^64
    IntSize,         \* 2^32
    Misshapen,       \* bodies that are JSON, but not of the shape a route reads
    MaxPushes,       \* messages of other members, at most
    MaxHandled       \* messages handled when the decoder takes one out of step, at most

(* Opcodes by their names in ws_frame.h.                                   *)
TEXT == "TEXT"      BINARY == "BINARY"      CLOSE == "CLOSE"
PING == "PING"      PONG == "PONG"

(* A frame's length as its second byte tells it: itself, 126 or 127.       *)
Form(n) == IF n < Short THEN "len" ELSE IF n < Long THEN "len16" ELSE "len64"
Forms == {"len", "len16", "len64"}

(* Units on the wire.  "line" is a request line with the headers behind    *)
(* it, "end" the empty line; "b0" and "b1" begin a frame.                  *)
End == [is |-> "end"]
Unit ==
    [is : {"line"}, req : Requests] \cup {End} \cup [is : {"data"}, val : Data]
    \cup [is : {"b0"}, op : Opcodes, rsv : BOOLEAN]
    \cup [is : {"b1"}, masked : BOOLEAN, form : Forms, low : 0..(Short - 1)]
    \cup [is : {"ext"}, len : 0..(WordSize - 1)] \cup {[is |-> "key"]}
    \cup [is : {"status"}, code : {101, 200, 400, 401, 403, 404}]
    \cup {[is |-> "body"]}
    \cup [is : {"head"}, op : {TEXT, PONG, CLOSE}, form : Forms]

-----------------------------------------------------------------------------
(* HttpServer::dispatch_ and handleWsUpgrade_.                             *)
IsUpgrade(r) == r.get /\ r.path = "/ws" /\ r.upgrade

(* json::value throws at JSON of another shape, and no route catches it.   *)
Throws(r, body) == ~ r.get /\ r.path = "/api" /\ body \in Misshapen

Status(r) ==
    IF IsUpgrade(r) THEN
        IF ~ r.token THEN 401 ELSE IF ~ r.version \/ ~ r.key THEN 400 ELSE 101
    ELSE IF r.path = "/.." THEN 403
    ELSE IF r.path \in {"/ws", "/none"} THEN 404
    ELSE 200

(* The opcodes that WsConnection::onRead serves.                           *)
Accepted == {TEXT, PING, PONG, CLOSE}

-----------------------------------------------------------------------------
(* The client's side: messages and their units.                            *)

RequestUnits(m) == <<[is |-> "line", req |-> m.req], End>> \o m.body

FrameUnits(f) ==
    LET form == Form(f.len)
    IN  <<[is |-> "b0", op |-> f.op, rsv |-> f.rsv],
          [is |-> "b1", masked |-> f.masked, form |-> form,
           low |-> IF form = "len" THEN f.len ELSE 0]>>
        \o (IF form = "len" THEN <<>> ELSE <<[is |-> "ext", len |-> f.len]>>)
        \o (IF f.masked THEN <<[is |-> "key"]>> ELSE <<>>)
        \o f.payload

Wire(s) == FlattenSeq([i \in 1..Len(s.requests) |-> RequestUnits(s.requests[i])])
Frames(s) == FlattenSeq([i \in 1..Len(s.frames) |-> FrameUnits(s.frames[i])])

(* A client that asks for an upgrade waits for the answer.                 *)
UpgradeIsLast(s) ==
    \A i \in 1..Len(Wire(s)) :
        Wire(s)[i].is = "line" /\ Status(Wire(s)[i].req) = 101
        => i = Len(Wire(s)) - 1 /\ Wire(s)[i].req.len = 0

ASSUME StreamAssumption ==
    /\ Unit \subseteq Byte
    /\ Short \in Nat \ {0} /\ Long \in Nat /\ WordSize \in Nat \ {0}
    /\ IntSize \in Nat \ {0}
    /\ MaxPushes \in Nat /\ MaxHandled \in Nat
    /\ \A r \in Requests : r.len \in Nat
    /\ Others \subseteq Data
    /\ Accepted \subseteq Opcodes
    /\ \A s \in Scripts : Wire(s) \in Seq(Unit) /\ Frames(s) \in Seq(Unit)
    /\ \A s \in Scripts : UpgradeIsLast(s)

(* A client brings the bodies and payloads that it announces, but it may    *)
(* stop within its last one.                                               *)
Brings(announced, s, last) == Len(s) <= announced /\ (Len(s) = announced \/ last)

ASSUME AnnouncementAssumption ==
    \A s \in Scripts :
        /\ s.requests \in Seq([req : Requests, body : Seq(Unit)])
        /\ s.frames \in Seq([op : Opcodes, rsv : BOOLEAN, masked : BOOLEAN,
                             len : 0..(WordSize - 1), payload : Seq(Unit)])
        /\ \A i \in 1..Len(s.requests) :
             Brings(s.requests[i].req.len, s.requests[i].body, i = Len(s.requests))
        /\ \A i \in 1..Len(s.frames) :
             Brings(s.frames[i].len, s.frames[i].payload, i = Len(s.frames))

-----------------------------------------------------------------------------
VARIABLES
    script,          \* what this client is going to say
    sent,            \* how many units it has sent to the object in charge
    inbox,           \* the kernel's receive queue
    fin,             \* the client has closed its end
    phase,           \* the object in charge: "http", "ws", none ("closed"
                     \* any more, "refused" after a protocol error) or no
                     \* process any more ("ended")
    pc,              \* where the reactor is: "idle" (elsewhere), "recv",
                     \* "parse" or "write" within this object's callbacks
    thenWrite,       \* the event told EPOLLOUT too
    readBuf, writeBuf, closeAfterWrite, writing,
    armed,           \* EPOLLOUT is asked for
    upgraded,        \* upgraded_
    handled,         \* the requests, then the frames, dispatched so far
    taken,           \* the units they were decoded from
    out,             \* all units put into the write buffers
    delivered,       \* all units the kernel has taken
    pushes           \* messages of other members so far

client == <<script, sent, fin>>
buffers == <<readBuf, writeBuf>>
flags == <<closeAfterWrite, writing, armed, upgraded>>
history == <<handled, taken, out, delivered>>
vars == <<client, inbox, phase, pc, thenWrite, buffers, flags, history, pushes>>

Init ==
    /\ script \in Scripts
    /\ sent = 0 /\ inbox = <<>> /\ fin = FALSE
    /\ phase = "http" /\ pc = "idle" /\ thenWrite = FALSE
    /\ readBuf = New /\ writeBuf = New
    /\ closeAfterWrite = FALSE /\ writing = FALSE /\ armed = FALSE /\ upgraded = FALSE
    /\ handled = <<>> /\ taken = <<>> /\ out = <<>> /\ delivered = <<>>
    /\ pushes = 0

(* An object exists whose callbacks the reactor may call.                  *)
Open == phase \in {"http", "ws"}

Unread(b) == Contents(b)

-----------------------------------------------------------------------------
(* The client.                                                             *)

(* It has read the whole 101, head and body.                               *)
Switched ==
    \E i \in 1..(Len(delivered) - 1) :
        delivered[i] = [is |-> "status", code |-> 101]

(* All it says to the object in charge.  A client that asked for an        *)
(* upgrade says nothing before it has the answer.                          *)
ToSay == IF phase = "http" THEN Wire(script) ELSE Frames(script)

ClientSends ==
    /\ ~ fin /\ Open
    /\ phase = "ws" => Switched
    /\ sent < Len(ToSay)
    /\ inbox' = Append(inbox, ToSay[sent + 1])
    /\ sent' = sent + 1
    /\ UNCHANGED <<script, fin, phase, pc, thenWrite, buffers, flags, history, pushes>>

ClientEnds ==
    /\ ~ fin /\ Open
    /\ fin' = TRUE
    /\ UNCHANGED <<script, sent, inbox, phase, pc, thenWrite, buffers, flags, history, pushes>>

-----------------------------------------------------------------------------
(* The reactor: an event with EPOLLIN, with EPOLLOUT or with both.         *)

ReadEvent ==
    /\ Open /\ pc = "idle"
    /\ inbox # <<>> \/ fin
    /\ pc' = "recv"
    /\ thenWrite' \in {FALSE, armed}
    /\ UNCHANGED <<client, inbox, phase, buffers, flags, history, pushes>>

WriteEvent ==
    /\ Open /\ pc = "idle" /\ armed
    /\ pc' = "write"
    /\ UNCHANGED <<client, inbox, phase, thenWrite, buffers, flags, history, pushes>>

(* onRead has returned.                                                    *)
ReadReturns ==
    /\ pc' = IF thenWrite THEN "write" ELSE "idle"
    /\ thenWrite' = FALSE

-----------------------------------------------------------------------------
(* close.  A connection that was upgraded hands its descriptor to a new    *)
(* WsConnection with buffers of its own; any other is gone.                *)
Close_Forgotten(to) ==  \* mutant: upgraded_ is reset before it is looked at
    /\ pc' = "idle" /\ thenWrite' = FALSE
    /\ readBuf' = New /\ writeBuf' = New
    /\ closeAfterWrite' = FALSE /\ writing' = FALSE /\ armed' = FALSE /\ upgraded' = FALSE
    /\ phase' = to /\ inbox' = <<>>
    /\ UNCHANGED <<script, fin, sent, taken>>

Close(to) ==
    /\ pc' = "idle" /\ thenWrite' = FALSE
    /\ readBuf' = New /\ writeBuf' = New
    /\ closeAfterWrite' = FALSE /\ writing' = FALSE /\ armed' = FALSE /\ upgraded' = FALSE
    /\ IF phase = "http" /\ upgraded
       THEN phase' = "ws" /\ sent' = 0 /\ taken' = <<>> /\ inbox' = inbox
       ELSE phase' = to /\ sent' = sent /\ taken' = taken /\ inbox' = <<>>
    /\ UNCHANGED <<script, fin>>

(* The recv loop of onRead: everything there is, again and again until     *)
(* there is nothing (then parse) or the end (then close).                  *)
Recv ==
    /\ pc = "recv" /\ inbox # <<>>
    /\ Fits(readBuf, Len(inbox))
    /\ readBuf' = Appended(readBuf, inbox)
    /\ inbox' = <<>>
    /\ UNCHANGED <<client, phase, pc, thenWrite, writeBuf, flags, history, pushes>>

RecvDry ==
    /\ pc = "recv" /\ inbox = <<>> /\ ~ fin
    /\ pc' = "parse"
    /\ UNCHANGED <<client, inbox, phase, thenWrite, buffers, flags, history, pushes>>

RecvEnds ==
    /\ pc = "recv" /\ inbox = <<>> /\ fin
    /\ Close("closed")
    /\ UNCHANGED <<handled, out, delivered, pushes>>

(* Output put behind what is already waiting; EPOLLOUT is asked for unless *)
(* it is already.                                                          *)
Put_InFront(s) ==  \* mutant: an answer overtakes what is waiting
    /\ Fits(writeBuf, Len(s))
    /\ writeBuf' = Appended(Cleared(writeBuf), s \o Contents(writeBuf))
    /\ out' = out \o s
    /\ writing' = TRUE
    /\ armed' = (armed \/ ~ writing)

Put(s) ==
    /\ Fits(writeBuf, Len(s))
    /\ writeBuf' = Appended(writeBuf, s)
    /\ out' = out \o s
    /\ writing' = TRUE
    /\ armed' = (armed \/ ~ writing)

-----------------------------------------------------------------------------
(* HttpRequest::parse on all that has been received.                       *)

(* Where the empty line is, 0 if it has not come.                          *)
HeadEnd_Last(s) ==  \* mutant: searched from behind
    IF \E i \in 1..Len(s) : s[i] = End
    THEN CHOOSE i \in 1..Len(s) : s[i] = End /\ \A j \in (i + 1)..Len(s) : s[j] # End
    ELSE 0

HeadEnd(s) ==
    IF \E i \in 1..Len(s) : s[i] = End
    THEN CHOOSE i \in 1..Len(s) : s[i] = End /\ \A j \in 1..(i - 1) : s[j] # End
    ELSE 0

(* A line that parseRequestLine accepts, and the body the headers announce.*)
WellFormed(s) == s[1].is = "line" /\ s[1].req.line
Parses(s) ==
    /\ HeadEnd(s) # 0
    /\ WellFormed(s)
    /\ s[1].req.len <= Len(s) - HeadEnd(s)

Response(r) == <<[is |-> "status", code |-> Status(r)], [is |-> "body"]>>

(* What retrieveAllAsString took out and is not needed is put back.        *)
PutBack_Doubled(b, rest) == Appended(b, rest)  \* mutant: nothing was taken out
PutBack(b, rest) == Appended(Cleared(b), rest)

(* A request is taken out, what follows it put back, and it is answered:   *)
(* the connection will be closed when the answer has been written.         *)
HandleRequest ==
    /\ pc = "parse" /\ phase = "http"
    /\ LET s == Unread(readBuf)
           r == s[1].req
           n == HeadEnd(s) + r.len
       IN  /\ Parses(s) /\ ~ Throws(r, SubSeq(s, HeadEnd(s) + 1, n))
           /\ readBuf' = PutBack(readBuf, SubSeq(s, n + 1, Len(s)))
           /\ Put(Response(r))
           /\ upgraded' = (upgraded \/ Status(r) = 101)
           /\ handled' = Append(handled, [req |-> r, body |-> SubSeq(s, HeadEnd(s) + 1, n)])
           /\ taken' = taken \o SubSeq(s, 1, n)
    /\ closeAfterWrite' = TRUE
    /\ UNCHANGED <<client, inbox, phase, pc, thenWrite, delivered, pushes>>

(* The process ends: an exception leaves the reactor's loop.               *)
Ends ==
    /\ phase' = "ended" /\ pc' = "idle" /\ thenWrite' = FALSE
    /\ readBuf' = New /\ writeBuf' = New
    /\ UNCHANGED <<client, inbox, flags, history, pushes>>

HandlerThrows ==
    /\ pc = "parse" /\ phase = "http"
    /\ LET s == Unread(readBuf)
           r == s[1].req
       IN  Parses(s) /\ Throws(r, SubSeq(s, HeadEnd(s) + 1, HeadEnd(s) + r.len))
    /\ Ends

(* Anything else is put back, whether it is incomplete or malformed.       *)
ParseWaits ==
    /\ pc = "parse" /\ phase = "http"
    /\ ~ Parses(Unread(readBuf))
    /\ readBuf' = PutBack(readBuf, Unread(readBuf))
    /\ ReadReturns
    /\ UNCHANGED <<client, inbox, phase, writeBuf, flags, history, pushes>>

-----------------------------------------------------------------------------
(* ws::tryDecode.  Lengths are 64-bit words: the sum that is compared with *)
(* what is there may wrap, and resize() throws at such a length.           *)

(* The number a byte stands for as a length; the byte that only a client    *)
(* out of step would put there counts as zero.                              *)
Number(u) == CASE u.is = "b1" -> u.low [] u.is = "ext" -> u.len [] OTHER -> 0

Extended(s) == s[2].form # "len"
Declared_NotExtended(s) == Number(s[2])  \* mutant: the longer forms are not read
Declared(s) == Number(IF Extended(s) THEN s[3] ELSE s[2])
Before(s) == IF Extended(s) THEN 4 ELSE 3          \* units before the payload

Arrived_OneMore(s) == Len(s) > (Before(s) + Declared(s)) % WordSize  \* mutant
Arrived(s) == Len(s) >= (Before(s) + Declared(s)) % WordSize

(* The result's `consumed` is an int: a length of 2 GiB or more comes out   *)
(* negative, as 0 or as less than it is.                                   *)
AsInt(n) == LET m == n % IntSize IN IF 2 * m < IntSize THEN m ELSE m - IntSize

(* One decoding of what is there, and what the read loop makes of it: -1   *)
(* says that bytes are missing and 0 that the client is wrong; any other   *)
(* negative number is a size_t beyond all that is there.                   *)
Decoded(s) ==
    LET n == Before(s) + Declared(s)
    IN  IF Len(s) < 2 THEN [is |-> "wait"]
        ELSE IF s[1].rsv THEN [is |-> "refuse"]
        ELSE IF Extended(s) /\ Len(s) < 3 THEN [is |-> "wait"]
        ELSE IF ~ s[2].masked THEN [is |-> "refuse"]
        ELSE IF ~ Arrived(s) THEN [is |-> "wait"]
        ELSE IF n >= WordSize THEN [is |-> "throw"]
        ELSE IF AsInt(n) = -1 THEN [is |-> "wait"]
        ELSE IF AsInt(n) = 0 THEN [is |-> "refuse"]
        ELSE [is |-> "frame", op |-> s[1].op, payload |-> SubSeq(s, Before(s) + 1, n),
              takes |-> IF AsInt(n) < 0 THEN Len(s) ELSE AsInt(n)]

(* The decoder is out of step: what it takes for a header is the middle of *)
(* a frame, and may say anything; of payloads only the empty one is told   *)
(* from the others, for which all that is taken stands.                    *)
Astray(s) == s # <<>> /\ s[1].is # "b0"

Strays(s) ==
    [is : {"wait", "refuse", "throw"}]
    \cup UNION {[is : {"frame"}, op : Accepted, payload : {<<>>, SubSeq(s, 1, n)}, takes : {n}] :
                  n \in 0..Len(s)}

Decodings(s) == IF Astray(s) THEN Strays(s) ELSE {Decoded(s)}

(* encodeFrame.                                                            *)
ServerFrame(op, payload) ==
    <<[is |-> "head", op |-> op, form |-> Form(Len(payload))]>> \o payload

(* What a frame is answered with: a text is a chat message, broadcast to   *)
(* its author as well.                                                     *)
Answer(op, payload) ==
    CASE op = TEXT /\ payload # <<>> -> ServerFrame(TEXT, payload)
      [] op = PING -> ServerFrame(PONG, payload)
      [] op = CLOSE -> ServerFrame(CLOSE, <<>>)
      [] OTHER -> <<>>

(* What another member's message is sent as.                               *)
Push(d) == ServerFrame(TEXT, <<[is |-> "data", val |-> d]>>)

HandleFrame ==
    /\ pc = "parse" /\ phase = "ws"
    /\ LET s == Unread(readBuf)
       IN  /\ Astray(s) => Len(handled) < MaxHandled
           /\ \E d \in Decodings(s) :
                /\ d.is = "frame" /\ d.op \in Accepted
                /\ readBuf' = Consumed(readBuf, d.takes)
                /\ IF Answer(d.op, d.payload) = <<>>
                   THEN UNCHANGED <<writeBuf, out, writing, armed>>
                   ELSE Put(Answer(d.op, d.payload))
                /\ closeAfterWrite' = (closeAfterWrite \/ d.op = CLOSE)
                /\ handled' = Append(handled, [op |-> d.op, payload |-> d.payload])
                /\ taken' = taken \o SubSeq(s, 1, d.takes)
    /\ UNCHANGED <<client, inbox, phase, pc, thenWrite, upgraded, delivered, pushes>>

DecodeWaits ==
    /\ pc = "parse" /\ phase = "ws"
    /\ \E d \in Decodings(Unread(readBuf)) : d.is = "wait"
    /\ ReadReturns
    /\ UNCHANGED <<client, inbox, phase, buffers, flags, history, pushes>>

(* A protocol error, or an opcode that is not served.                      *)
RefuseFrame ==
    /\ pc = "parse" /\ phase = "ws"
    /\ \E d \in Decodings(Unread(readBuf)) :
         d.is = "refuse" \/ (d.is = "frame" /\ d.op \notin Accepted)
    /\ Close("refused")
    /\ UNCHANGED <<handled, out, delivered, pushes>>

DecodeThrows ==
    /\ pc = "parse" /\ phase = "ws"
    /\ \E d \in Decodings(Unread(readBuf)) : d.is = "throw"
    /\ Ends

(* WsHub::broadcast of another member's message, in a callback of his.     *)
Pushed ==
    /\ phase = "ws" /\ pc = "idle"
    /\ pushes < MaxPushes
    /\ \E d \in Others : Put(Push(d))
    /\ pushes' = pushes + 1
    /\ UNCHANGED <<client, inbox, phase, pc, thenWrite, readBuf, closeAfterWrite, upgraded,
                   handled, taken, delivered>>

-----------------------------------------------------------------------------
(* The send loop of onWrite: the kernel takes a part, or has no room, or   *)
(* reports that the client is gone; when all is out, the connection is     *)
(* closed or EPOLLOUT given up.                                            *)

Send ==
    /\ pc = "write"
    /\ \E n \in 1..Readable(writeBuf) :
         /\ delivered' = delivered \o SubSeq(Unread(writeBuf), 1, n)
         /\ writeBuf' = Consumed(writeBuf, n)
    /\ UNCHANGED <<client, inbox, phase, pc, thenWrite, readBuf, flags, handled, taken, out, pushes>>

SendBlocks ==
    /\ pc = "write" /\ Readable(writeBuf) > 0
    /\ pc' = "idle"
    /\ UNCHANGED <<client, inbox, phase, thenWrite, buffers, flags, history, pushes>>

SendFails ==
    /\ pc = "write" /\ Readable(writeBuf) > 0 /\ fin
    /\ Close("closed")
    /\ UNCHANGED <<handled, out, delivered, pushes>>

(* HttpConnection does not reset writing_.                                 *)
WritingAfter_Kept == writing  \* mutant: WsConnection does not, either
WritingAfter == writing /\ phase = "http"

SendDone ==
    /\ pc = "write" /\ Readable(writeBuf) = 0
    /\ IF closeAfterWrite THEN Close("closed") /\ UNCHANGED <<handled, out, delivered>>
       ELSE /\ pc' = "idle" /\ armed' = FALSE
            /\ writing' = WritingAfter
            /\ UNCHANGED <<client, inbox, phase, thenWrite, buffers, closeAfterWrite,
                           upgraded, history>>
    /\ UNCHANGED pushes

-----------------------------------------------------------------------------
Reading == Recv \/ RecvDry \/ RecvEnds \/ HandleRequest \/ HandlerThrows
           \/ ParseWaits \/ HandleFrame \/ DecodeWaits \/ RefuseFrame \/ DecodeThrows
Writing == Send \/ SendBlocks \/ SendFails \/ SendDone

Next ==
    \/ ClientSends \/ ClientEnds
    \/ ReadEvent \/ WriteEvent \/ Pushed
    \/ Reading \/ Writing

Spec == Init /\ [][Next]_vars

(* epoll_wait reports what is there again until it has been dealt with and *)
(* a callback runs to its end; a client that stays reads what it is sent.  *)
Server == ReadEvent \/ WriteEvent \/ Reading \/ Writing
Fairness == WF_vars(Server) /\ SF_vars(Send)

FairSpec == Spec /\ Fairness

-----------------------------------------------------------------------------
Request(m) == [req |-> m.req, body |-> m.body]
Frame(f) == [op |-> f.op, payload |-> f.payload]

(* Everything this client says, as the server should come to see it.       *)
Said == [i \in 1..Len(script.requests) |-> Request(script.requests[i])]
        \o [i \in 1..Len(script.frames) |-> Frame(script.frames[i])]

(* Types; the buffers' positions lie in order within their vectors.        *)
TypeOK ==
    /\ script \in Scripts
    /\ sent \in Nat /\ inbox \in Seq(Unit) /\ fin \in BOOLEAN
    /\ phase \in {"http", "ws", "closed", "refused", "ended"}
    /\ pc \in {"idle", "recv", "parse", "write"} /\ thenWrite \in BOOLEAN
    /\ IsBuffer(readBuf) /\ IsBuffer(writeBuf)
    /\ {closeAfterWrite, writing, armed, upgraded} \subseteq BOOLEAN
    /\ handled \in Seq([req : Requests, body : Seq(Unit)] \cup [op : Opcodes, payload : Seq(Unit)])
    /\ taken \in Seq(Unit) /\ out \in Seq(Unit) /\ delivered \in Seq(Unit)
    /\ pushes \in 0..MaxPushes

(* Whatever way the bytes were cut by the network, what has been decoded,  *)
(* what waits in readBuf_ and what waits in the kernel are together what   *)
(* the client has sent to this connection, in that order: HttpRequest's    *)
(* taking everything out of the buffer and putting back what it does not   *)
(* need neither loses nor doubles a byte, and an upgraded connection's     *)
(* successor begins with the first frame.                                  *)
StreamIntact ==
    Open => taken \o Contents(readBuf) \o inbox = SubSeq(ToSay, 1, sent)

(* A frame whose length an int holds; and no other before the i-th message.*)
Total(f) == Len(FrameUnits(f)) - Len(f.payload) + f.len
Sized(f) == 2 * Total(f) < IntSize
Steady(i) ==
    \A k \in DOMAIN script.frames : Len(script.requests) + k < i => Sized(script.frames[k])

(* The server acts on exactly the requests and frames that were said: with *)
(* their own bodies and payloads, in their order, none twice, none skipped,*)
(* up to and with the first frame of 2 GiB or more.  Behind that one it    *)
(* may read anything: the decoder's int has lost the frame's end.          *)
HandledAsSent ==
    \A i \in DOMAIN handled : Steady(i) => i \in DOMAIN Said /\ handled[i] = Said[i]

Serves(f) ==
    ~ f.rsv /\ f.masked /\ f.op \in Accepted /\ f.len = Len(f.payload) /\ Sized(f)

(* Every answer and every pushed message is either with the kernel or in   *)
(* writeBuf_, whole and in order, as long as the client is there; a        *)
(* connection that closes itself (an answered request, a close frame) has  *)
(* sent everything first, and the 101 is out before the hand-over.  Only a *)
(* refused frame drops what is waiting.                                    *)
NothingLost ==
    ~ fin /\ phase \notin {"ended", "refused"} => delivered \o Contents(writeBuf) = out

(* With output waiting and no callback at work, EPOLLOUT is asked for: the *)
(* flag writing_ and the interest set of epoll never disagree in a way     *)
(* that leaves an answer in the buffer for good.                           *)
OutputArmed ==
    Open /\ pc = "idle" /\ Readable(writeBuf) > 0 => armed

(* The requests and the frames acted on so far, by their numbers.          *)
Requested == {i \in 1..Len(script.requests) : i <= Len(handled)}
Framed == {i \in 1..Len(script.frames) : Len(script.requests) + i <= Len(handled)}

Switching == \E i \in Requested : Status(script.requests[i].req) = 101
Closing == \E i \in Framed : script.frames[i].op = CLOSE

(* The message that is next, and what the server may hold against it.      *)
Throwing(i) ==
    /\ i \in DOMAIN script.requests
    /\ Throws(script.requests[i].req, script.requests[i].body)
Upcoming == Len(handled) - Len(script.requests) + 1
Unservable(f) == f.rsv \/ ~ f.masked \/ f.op \notin Accepted \/ AsInt(Total(f)) = 0
Wraps(f) == Total(f) >= WordSize

(* As long as no frame of 2 GiB or more has been acted on: the server      *)
(* gives up a socket only for what the client really did: it went away, it *)
(* got the answer to a request that was no upgrade, or it said CLOSE; it   *)
(* is refused only over the very frame that is next, and the process ends  *)
(* only over that frame or over the next request, never over bytes that    *)
(* two messages or their cutting by the network have mixed up; and an      *)
(* upgrade always ends in a hand-over.                                     *)
EndsForAReason ==
    Steady(Len(handled) + 1) =>
    /\ phase = "closed" => \/ fin
                           \/ Switching /\ Closing
                           \/ ~ Switching /\ Requested # {}
    /\ phase = "refused" => /\ Upcoming \in DOMAIN script.frames
                            /\ Unservable(script.frames[Upcoming])
    /\ phase = "ended" => \/ Throwing(Len(handled) + 1)
                          \/ /\ Upcoming \in DOMAIN script.frames
                             /\ Wraps(script.frames[Upcoming])

(* readBuf_ and writeBuf_, with their growing and compacting vectors, are  *)
(* queues of bytes.                                                        *)
In == INSTANCE ByteQueue WITH queue <- Contents(readBuf)
Out == INSTANCE ByteQueue WITH queue <- Contents(writeBuf)
InQueue == In!Spec
OutQueue == Out!Spec

(* A client whose first request is complete and well-formed gets its whole *)
(* answer, unless it goes away: of all that it sends behind that request,  *)
(* only one at which a handler throws can prevent it, by ending the        *)
(* process before the answer has left.                                     *)
FirstSent ==
    LET m == script.requests[1]
    IN  /\ m.req.line /\ Len(m.body) >= m.req.len
        /\ phase = "http" => sent >= Len(RequestUnits(m))
Crashed == phase = "ended" /\ \E i \in DOMAIN script.requests : Throwing(i)
FirstRequestAnswered == FirstSent ~> fin \/ Len(delivered) >= 2 \/ Crashed

(* A served frame of less than 2 GiB that has wholly arrived is acted      *)
(* upon, however many come with it and however they are cut, if none of    *)
(* those before it ends the connection or is longer: frames that are sent  *)
(* do not stay undone for good.                                            *)
FrameSent(k) ==
    /\ phase # "http"
    /\ \A i \in 1..k : Serves(script.frames[i])
    /\ \A i \in 1..(k - 1) : script.frames[i].op # CLOSE
    /\ sent >= Len(FlattenSeq([i \in 1..k |-> FrameUnits(script.frames[i])]))
FrameUndone ==
    \E k \in 1..Len(script.frames) :
        Len(handled) < Len(script.requests) + k /\ FrameSent(k)
FramesActedOn == FrameUndone ~> fin \/ ~ FrameUndone
=============================================================================
