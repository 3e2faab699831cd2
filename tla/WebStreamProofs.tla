-------------------------- MODULE WebStreamProofs --------------------------
(***************************************************************************)
(* Proofs about WebStream: the two buffers implement queues of bytes, and  *)
(* with that no byte is lost, doubled or left unsent.                      *)
(***************************************************************************)
EXTENDS WebStream, BufferProofs

R == Contents(readBuf)
W == Contents(writeBuf)

Units == IsBuffer(readBuf) /\ IsBuffer(writeBuf) /\ R \in Seq(Unit) /\ W \in Seq(Unit)

-----------------------------------------------------------------------------
(* Buffers of units.                                                       *)

(* Buffer's append, for units of the wire.                                 *)
LEMMA AppendUnits ==
  ASSUME NEW b, IsBuffer(b), Contents(b) \in Seq(Unit), NEW s \in Seq(Unit), Fits(b, Len(s))
  PROVE  /\ IsBuffer(Appended(b, s))
         /\ Contents(Appended(b, s)) = Contents(b) \o s
         /\ Contents(Appended(b, s)) \in Seq(Unit)
<1>1. s \in Seq(Byte)
  BY SeqMonotonic, StreamAssumption
<1>2. IsBuffer(Appended(b, s)) /\ Contents(Appended(b, s)) = Contents(b) \o s
  BY <1>1, AppendAppends
<1>3. Contents(b) \o s \in Seq(Unit)
  BY ConcatProperties
<1> QED  BY <1>2, <1>3

(* A sequence cut in two.                                                  *)
LEMMA SuffixUnits ==
  ASSUME NEW s \in Seq(Unit), NEW n \in 0..Len(s)
  PROVE  /\ SubSeq(s, 1, n) \in Seq(Unit) /\ Len(SubSeq(s, 1, n)) = n
         /\ SubSeq(s, n + 1, Len(s)) \in Seq(Unit)
         /\ Len(SubSeq(s, n + 1, Len(s))) = Len(s) - n
         /\ SubSeq(s, 1, n) \o SubSeq(s, n + 1, Len(s)) = s
<1>1. Len(s) \in Nat /\ \A i \in 1..Len(s) : s[i] \in Unit
  BY LenProperties, ElementOfSeq
<1>2. SubSeq(s, 1, n) \in Seq(Unit) /\ Len(SubSeq(s, 1, n)) = n
  <2>1. \A i \in 1..n : s[i] \in Unit  BY <1>1
  <2>2. n \in Int /\ 1 \in Int  BY <1>1
  <2>3. /\ SubSeq(s, 1, n) \in Seq(Unit)
        /\ Len(SubSeq(s, 1, n)) = IF 1 <= n THEN n - 1 + 1 ELSE 0
    BY <2>1, <2>2, SubSeqProperties
  <2> QED  BY <2>3, <1>1
<1>3. /\ SubSeq(s, n + 1, Len(s)) \in Seq(Unit)
      /\ Len(SubSeq(s, n + 1, Len(s))) = Len(s) - n
  <2>1. \A i \in (n + 1)..Len(s) : s[i] \in Unit  BY <1>1
  <2>2. n + 1 \in Int /\ Len(s) \in Int  BY <1>1
  <2>3. /\ SubSeq(s, n + 1, Len(s)) \in Seq(Unit)
        /\ Len(SubSeq(s, n + 1, Len(s))) = IF n + 1 <= Len(s) THEN Len(s) - (n + 1) + 1 ELSE 0
    BY <2>1, <2>2, SubSeqProperties
  <2> QED  BY <2>3, <1>1
<1>4. SubSeq(s, 1, n) \o SubSeq(s, n + 1, Len(s)) = SubSeq(s, 1, Len(s))
  <2>1. 1 \in 1..(Len(s) + 1) /\ n \in (1 - 1)..Len(s) /\ Len(s) \in n..Len(s)  BY <1>1
  <2> QED  BY <2>1, ConcatAdjacentSubSeq
<1> QED  BY <1>2, <1>3, <1>4, SubSeqFull

(* Buffer's consume, for units of the wire.                                *)
LEMMA ConsumeUnits ==
  ASSUME NEW b, IsBuffer(b), Contents(b) \in Seq(Unit), NEW n \in 0..Len(Contents(b))
  PROVE  /\ IsBuffer(Consumed(b, n))
         /\ Contents(Consumed(b, n)) = SubSeq(Contents(b), n + 1, Len(Contents(b)))
         /\ Contents(Consumed(b, n)) \in Seq(Unit)
<1>1. Len(Contents(b)) = Readable(b)  BY ContentsType
<1>2. n \in Nat /\ n <= Readable(b)  BY <1>1, LenProperties
<1> QED  BY <1>2, ConsumeDrops, SuffixUnits

(* A buffer that was emptied has room for a part of what it held.          *)
LEMMA PutBackUnits ==
  ASSUME NEW b, IsBuffer(b), Contents(b) \in Seq(Unit), NEW s \in Seq(Unit),
         Len(s) <= Len(Contents(b))
  PROVE  /\ IsBuffer(PutBack(b, s)) /\ Contents(PutBack(b, s)) = s
<1>1. IsBuffer(Cleared(b)) /\ Contents(Cleared(b)) = <<>>
  BY ClearEmpties
<1>2. Len(Contents(b)) = Readable(b)
  BY ContentsType
<1>3. Fits(Cleared(b), Len(s))
  <2>1. Len(s) \in Nat /\ Len(s) <= Readable(b)  BY <1>2, LenProperties
  <2>2. Writable(Cleared(b)) = b.cap  BY BufferParts DEF Writable, Cleared, Make
  <2>3. Readable(b) <= b.cap  BY BufferParts DEF Readable
  <2> QED  BY <2>1, <2>2, <2>3, BufferParts DEF Fits, Readable
<1>4. <<>> \in Seq(Unit) /\ <<>> \o s = s
  BY EmptySeq, ConcatEmptySeq
<1> QED  BY <1>1, <1>3, <1>4, AppendUnits DEF PutBack

(* A new buffer is empty.                                                  *)
LEMMA NewUnits == IsBuffer(New) /\ Contents(New) = <<>> /\ Contents(New) \in Seq(Unit)
BY NewIsEmpty, EmptySeq

-----------------------------------------------------------------------------
(* What the parser and the decoder find.                                   *)

(* A request line carries a request, and is not the empty line.            *)
LEMMA LineHasRequest ==
  ASSUME NEW u \in Unit, u.is = "line"
  PROVE  u.req \in Requests /\ u.req.len \in Nat /\ u # End
<1>1. u.req \in Requests /\ u # End  BY DEF Unit, End
<1> QED  BY <1>1, StreamAssumption

(* The length a unit announces.                                            *)
LEMMA NumberIsNatural ==
  ASSUME NEW u \in Unit
  PROVE  Number(u) \in Nat
<1>1. CASE u.is = "b1"
  <2>1. u.low \in 0..(Short - 1)  BY <1>1 DEF Unit, End
  <2> QED  BY <1>1, <2>1, StreamAssumption DEF Number
<1>2. CASE u.is = "ext"
  <2>1. u.len \in 0..(WordSize - 1)  BY <1>2 DEF Unit, End
  <2> QED  BY <1>2, <2>1, StreamAssumption DEF Number
<1>3. CASE u.is # "b1" /\ u.is # "ext"
  BY <1>3 DEF Number
<1> QED  BY <1>1, <1>2, <1>3

(* A request that parses lies within what has been read.                   *)
LEMMA RequestFits ==
  ASSUME NEW s \in Seq(Unit), Parses(s)
  PROVE  /\ Len(s) >= 2 /\ s[1] \in Unit /\ s[1].req \in Requests /\ s[1].req.len \in Nat
         /\ HeadEnd(s) \in 2..Len(s)
         /\ HeadEnd(s) + s[1].req.len \in 2..Len(s)
<1>1. Len(s) \in Nat /\ \A i \in 1..Len(s) : s[i] \in Unit
  BY LenProperties, ElementOfSeq
<1>2. HeadEnd(s) \in 1..Len(s) /\ s[HeadEnd(s)] = End
  BY DEF Parses, HeadEnd
<1>3. s[1] \in Unit /\ s[1].is = "line" /\ 1 \in 1..Len(s)
  BY <1>1, <1>2 DEF Parses, WellFormed
<1>4. s[1].req \in Requests /\ s[1].req.len \in Nat /\ s[1] # End
  BY <1>3, LineHasRequest
<1>5. HeadEnd(s) \in 2..Len(s)
  BY <1>1, <1>2, <1>4
<1> QED  BY <1>1, <1>3, <1>4, <1>5 DEF Parses

(* An int holds a length as it is if it is less than half of what it tells  *)
(* apart; what it makes of another one is never more.                      *)
LEMMA AsIntNarrows ==
  ASSUME NEW n \in Nat
  PROVE  /\ AsInt(n) \in Int /\ AsInt(n) <= n
         /\ 2 * n < IntSize => AsInt(n) = n
<1> DEFINE m == n % IntSize
<1>1. IntSize \in Nat /\ IntSize > 0  BY StreamAssumption
<1>2. m \in 0..(IntSize - 1)  BY <1>1
<1>3. n < IntSize => m = n  BY <1>1
<1>4. AsInt(n) = IF 2 * m < IntSize THEN m ELSE m - IntSize  BY DEF AsInt
<1> HIDE DEF m
<1>5. m <= n  BY <1>1, <1>2, <1>3
<1> QED  BY <1>1, <1>2, <1>3, <1>4, <1>5

(* A frame that is decoded in step lies within what has been read.         *)
LEMMA DecodedFits ==
  ASSUME NEW s \in Seq(Unit), Decoded(s).is = "frame"
  PROVE  LET n == Before(s) + Declared(s)
         IN  /\ Before(s) \in {3, 4} /\ Declared(s) \in Nat /\ n \in 3..Len(s)
             /\ s[2].masked /\ (Extended(s) => Len(s) >= 3)
             /\ Decoded(s) = [is |-> "frame", op |-> s[1].op,
                              payload |-> SubSeq(s, Before(s) + 1, n),
                              takes |-> IF AsInt(n) < 0 THEN Len(s) ELSE AsInt(n)]
<1> DEFINE n == Before(s) + Declared(s)
<1>1. Len(s) \in Nat /\ \A i \in 1..Len(s) : s[i] \in Unit
  BY LenProperties, ElementOfSeq
<1>2. /\ ~ (Len(s) < 2) /\ ~ (Extended(s) /\ Len(s) < 3) /\ s[2].masked /\ Arrived(s)
      /\ ~ (n >= WordSize)
      /\ Decoded(s) = [is |-> "frame", op |-> s[1].op,
                       payload |-> SubSeq(s, Before(s) + 1, n),
                       takes |-> IF AsInt(n) < 0 THEN Len(s) ELSE AsInt(n)]
  BY DEF Decoded
<1>3. Declared(s) \in Nat
  <2>1. (IF Extended(s) THEN s[3] ELSE s[2]) \in Unit  BY <1>1, <1>2
  <2> QED  BY <2>1, NumberIsNatural DEF Declared
<1>4. Before(s) \in {3, 4}  BY DEF Before
<1>5. n % WordSize = n
  <2>1. n \in Nat /\ n < WordSize /\ WordSize \in Nat
    BY <1>2, <1>3, <1>4, StreamAssumption
  <2> HIDE DEF n
  <2> QED  BY <2>1
<1>6. n <= Len(s)  BY <1>2, <1>5 DEF Arrived
<1>7. n \in 3..Len(s)  BY <1>1, <1>3, <1>4, <1>6
<1> QED  BY <1>1, <1>2, <1>3, <1>4, <1>7

(* A frame that is decoded, in step or not, takes no more than there is.   *)
LEMMA FrameFits ==
  ASSUME NEW s \in Seq(Unit), NEW d \in Decodings(s), d.is = "frame"
  PROVE  d.takes \in 0..Len(s) /\ d.payload \in Seq(Unit)
<1>1. Len(s) \in Nat /\ \A i \in 1..Len(s) : s[i] \in Unit
  BY LenProperties, ElementOfSeq
<1>2. CASE Astray(s)
  <2>1. PICK n \in 0..Len(s) : d.takes = n /\ d.payload \in {<<>>, SubSeq(s, 1, n)}
    BY <1>2 DEF Decodings, Strays
  <2>2. <<>> \in Seq(Unit) /\ SubSeq(s, 1, n) \in Seq(Unit)  BY SuffixUnits, EmptySeq
  <2> QED  BY <2>1, <2>2
<1>3. CASE ~ Astray(s)
  <2> DEFINE b == Before(s)
             n == b + Declared(s)
  <2>1. d = Decoded(s)  BY <1>3 DEF Decodings
  <2>2. /\ b \in {3, 4} /\ n \in 3..Len(s)
        /\ d = [is |-> "frame", op |-> s[1].op, payload |-> SubSeq(s, b + 1, n),
                takes |-> IF AsInt(n) < 0 THEN Len(s) ELSE AsInt(n)]
    BY <2>1, DecodedFits
  <2> HIDE DEF n, b
  <2>3. n \in Nat /\ n <= Len(s)  BY <1>1, <2>2
  <2>4. AsInt(n) \in Int /\ AsInt(n) <= n  BY <2>3, AsIntNarrows
  <2>5. d.takes \in 0..Len(s)  BY <1>1, <2>2, <2>3, <2>4
  <2>6. b + 1 \in Int /\ n \in Int /\ \A i \in (b + 1)..n : s[i] \in Unit
    BY <1>1, <2>2, <2>3
  <2>7. SubSeq(s, b + 1, n) \in Seq(Unit)  BY <2>6, SubSeqProperties
  <2> QED  BY <2>2, <2>5, <2>7
<1> QED  BY <1>2, <1>3

(* A response is made of units.                                            *)
LEMMA ResponseUnits == ASSUME NEW r PROVE Response(r) \in Seq(Unit)
<1>1. Status(r) \in {101, 200, 400, 401, 403, 404}
  BY DEF Status
<1>2. [is |-> "status", code |-> Status(r)] \in Unit /\ [is |-> "body"] \in Unit
  BY <1>1 DEF Unit
<1> QED  BY <1>2 DEF Response

(* A frame of the server is made of units.                                 *)
LEMMA FrameUnitsOut ==
  ASSUME NEW op \in {TEXT, PONG, CLOSE}, NEW payload \in Seq(Unit)
  PROVE  ServerFrame(op, payload) \in Seq(Unit)
<1>1. Form(Len(payload)) \in Forms  BY DEF Form, Forms
<1>2. [is |-> "head", op |-> op, form |-> Form(Len(payload))] \in Unit
  BY <1>1 DEF Unit
<1>3. <<[is |-> "head", op |-> op, form |-> Form(Len(payload))]>> \in Seq(Unit)  BY <1>2
<1> QED  BY <1>3, ConcatProperties DEF ServerFrame

(* The answer to a frame is made of units, or empty.                       *)
LEMMA AnswerUnits ==
  ASSUME NEW op, NEW payload \in Seq(Unit)
  PROVE  Answer(op, payload) \in Seq(Unit)
<1>1. <<>> \in Seq(Unit)  BY EmptySeq
<1>2. /\ ServerFrame(TEXT, payload) \in Seq(Unit)
      /\ ServerFrame(PONG, payload) \in Seq(Unit)
      /\ ServerFrame(CLOSE, <<>>) \in Seq(Unit)
  BY <1>1, FrameUnitsOut
<1> QED  BY <1>1, <1>2 DEF Answer, TEXT, PING, CLOSE

(* A pushed message is made of units.                                      *)
LEMMA PushUnits == ASSUME NEW d \in Others PROVE Push(d) \in Seq(Unit)
<1>1. [is |-> "data", val |-> d] \in Unit  BY StreamAssumption DEF Unit
<1>2. <<[is |-> "data", val |-> d]>> \in Seq(Unit)  BY <1>1
<1> QED  BY <1>2, FrameUnitsOut DEF Push

-----------------------------------------------------------------------------
(* Types.                                                                  *)

Types == TypeOK /\ R \in Seq(Unit) /\ W \in Seq(Unit)

(* close keeps the types and leaves empty buffers.                         *)
LEMMA CloseTypes ==
  ASSUME Types, NEW to \in {"closed", "refused"}, Close(to),
         UNCHANGED <<handled, out, delivered, pushes>>
  PROVE  Types' /\ R' = <<>> /\ W' = <<>>
<1>1. /\ IsBuffer(readBuf') /\ Contents(readBuf') = <<>> /\ Contents(readBuf') \in Seq(Unit)
      /\ IsBuffer(writeBuf') /\ Contents(writeBuf') = <<>> /\ Contents(writeBuf') \in Seq(Unit)
  BY NewUnits DEF Close
<1>2. <<>> \in Seq(Unit)  BY EmptySeq
<1>3. R' = <<>> /\ W' = <<>>  BY <1>1 DEF R, W
<1>4. /\ pc' = "idle" /\ thenWrite' = FALSE /\ script' = script /\ fin' = fin
      /\ closeAfterWrite' = FALSE /\ writing' = FALSE /\ armed' = FALSE /\ upgraded' = FALSE
      /\ phase' \in {"http", "ws", "closed", "refused", "ended"}
      /\ sent' \in Nat /\ taken' \in Seq(Unit) /\ inbox' \in Seq(Unit)
  <2>1. sent \in Nat /\ taken \in Seq(Unit) /\ inbox \in Seq(Unit)  BY DEF Types, TypeOK
  <2>2. /\ pc' = "idle" /\ thenWrite' = FALSE /\ script' = script /\ fin' = fin
        /\ closeAfterWrite' = FALSE /\ writing' = FALSE /\ armed' = FALSE /\ upgraded' = FALSE
    BY DEF Close
  <2>3. \/ phase' = "ws" /\ sent' = 0 /\ taken' = <<>> /\ inbox' = inbox
        \/ phase' = to /\ sent' = sent /\ taken' = taken /\ inbox' = <<>>
    BY DEF Close
  <2>4. phase' \in {"http", "ws", "closed", "refused", "ended"}  BY <2>3
  <2>5. sent' \in Nat  BY <2>1, <2>3
  <2>6. taken' \in Seq(Unit)  BY <1>2, <2>1, <2>3
  <2>7. inbox' \in Seq(Unit)  BY <1>2, <2>1, <2>3
  <2> QED  BY <2>2, <2>4, <2>5, <2>6, <2>7
<1> QED  BY <1>1, <1>2, <1>3, <1>4 DEF Types, TypeOK

(* send and sendText append to writeBuf_ and arm EPOLLOUT if writing_ was  *)
(* off.                                                                    *)
LEMMA PutTypes ==
  ASSUME Types, NEW s \in Seq(Unit), Put(s)
  PROVE  /\ IsBuffer(writeBuf') /\ Contents(writeBuf') = W \o s
         /\ Contents(writeBuf') \in Seq(Unit) /\ out' \in Seq(Unit)
         /\ out' = out \o s /\ writing' = TRUE /\ armed' = (armed \/ ~ writing)
<1>1. IsBuffer(writeBuf) /\ Contents(writeBuf) \in Seq(Unit) /\ out \in Seq(Unit)
  BY DEF Types, TypeOK, W
<1>2. Fits(writeBuf, Len(s)) /\ writeBuf' = Appended(writeBuf, s) /\ out' = out \o s
  BY DEF Put
<1>3. out \o s \in Seq(Unit)  BY <1>1, ConcatProperties
<1> QED  BY <1>1, <1>2, <1>3, AppendUnits DEF Put, W

(* HandleRequest takes a part off the front, and puts an answer behind.    *)
LEMMA RequestEffect ==
  ASSUME Types, HandleRequest
  PROVE  /\ Parses(R) /\ HeadEnd(R) + R[1].req.len \in 2..Len(R)
         /\ IsBuffer(readBuf') /\ IsBuffer(writeBuf')
         /\ Contents(readBuf') = SubSeq(R, HeadEnd(R) + R[1].req.len + 1, Len(R))
         /\ Contents(readBuf') \in Seq(Unit)
         /\ taken' = taken \o SubSeq(R, 1, HeadEnd(R) + R[1].req.len)
         /\ taken' \in Seq(Unit)
         /\ Response(R[1].req) \in Seq(Unit)
         /\ Contents(writeBuf') = W \o Response(R[1].req)
         /\ Contents(writeBuf') \in Seq(Unit) /\ out' \in Seq(Unit)
         /\ out' = out \o Response(R[1].req)
         /\ writing' = TRUE /\ armed' = (armed \/ ~ writing)
         /\ handled' \in Seq([req : Requests, body : Seq(Unit)]
                             \cup [op : Opcodes, payload : Seq(Unit)])
<1> DEFINE n == HeadEnd(R) + R[1].req.len
<1>1. IsBuffer(readBuf) /\ R \in Seq(Unit) /\ taken \in Seq(Unit)
  BY DEF Types, TypeOK
<1>2. /\ Parses(R) /\ readBuf' = PutBack(readBuf, SubSeq(R, n + 1, Len(R)))
      /\ Put(Response(R[1].req)) /\ taken' = taken \o SubSeq(R, 1, n)
      /\ handled' = Append(handled, [req |-> R[1].req, body |-> SubSeq(R, HeadEnd(R) + 1, n)])
  BY DEF HandleRequest, Unread, R
<1>3. /\ HeadEnd(R) \in 2..Len(R) /\ n \in 2..Len(R) /\ R[1].req \in Requests
      /\ Len(R) \in Nat /\ \A i \in 1..Len(R) : R[i] \in Unit
  BY <1>1, <1>2, RequestFits, LenProperties, ElementOfSeq
<1> HIDE DEF n
<1>4. n \in 0..Len(R)  BY <1>3
<1>5. /\ SubSeq(R, 1, n) \in Seq(Unit) /\ SubSeq(R, n + 1, Len(R)) \in Seq(Unit)
      /\ Len(SubSeq(R, n + 1, Len(R))) <= Len(R)
  BY <1>1, <1>3, <1>4, SuffixUnits
<1>6. IsBuffer(readBuf') /\ Contents(readBuf') = SubSeq(R, n + 1, Len(R))
  BY <1>1, <1>2, <1>5, PutBackUnits DEF R
<1>7. taken' \in Seq(Unit)
  BY <1>1, <1>2, <1>5, ConcatProperties
<1>8. Response(R[1].req) \in Seq(Unit)
  BY ResponseUnits
<1>9. SubSeq(R, HeadEnd(R) + 1, n) \in Seq(Unit)
  <2>1. /\ HeadEnd(R) + 1 \in Int /\ n \in Int
        /\ \A i \in (HeadEnd(R) + 1)..n : R[i] \in Unit
    BY <1>3
  <2> QED  BY <2>1, SubSeqProperties
<1>10. handled' \in Seq([req : Requests, body : Seq(Unit)]
                        \cup [op : Opcodes, payload : Seq(Unit)])
  <2> DEFINE S == [req : Requests, body : Seq(Unit)] \cup [op : Opcodes, payload : Seq(Unit)]
             e == [req |-> R[1].req, body |-> SubSeq(R, HeadEnd(R) + 1, n)]
  <2>1. e \in S  BY <1>3, <1>9
  <2>2. handled \in Seq(S)  BY DEF Types, TypeOK
  <2>3. handled' = Append(handled, e)  BY <1>2
  <2> HIDE DEF S, e
  <2>4. handled' \in Seq(S)  BY <2>1, <2>2, <2>3, AppendProperties
  <2> QED  BY <2>4 DEF S
<1>11. n = HeadEnd(R) + R[1].req.len  BY DEF n
<1> QED  BY <1>2, <1>3, <1>5, <1>6, <1>7, <1>8, <1>10, <1>11, PutTypes

(* A frame takes a front part of readBuf_ and appends to writeBuf_.        *)
LEMMA FrameEffect ==
  ASSUME Types, HandleFrame
  PROVE  \E n \in 0..Len(R), a \in Seq(Unit) :
         /\ IsBuffer(readBuf') /\ IsBuffer(writeBuf')
         /\ Contents(readBuf') = SubSeq(R, n + 1, Len(R))
         /\ Contents(readBuf') \in Seq(Unit)
         /\ taken' = taken \o SubSeq(R, 1, n) /\ taken' \in Seq(Unit)
         /\ Contents(writeBuf') = W \o a
         /\ Contents(writeBuf') \in Seq(Unit) /\ out' \in Seq(Unit)
         /\ out' = out \o a
         /\ \/ a = <<>> /\ UNCHANGED <<writing, armed>>
            \/ writing' = TRUE /\ armed' = (armed \/ ~ writing)
         /\ handled' \in Seq([req : Requests, body : Seq(Unit)]
                             \cup [op : Opcodes, payload : Seq(Unit)])
<1>1. /\ IsBuffer(readBuf) /\ R \in Seq(Unit) /\ taken \in Seq(Unit)
      /\ IsBuffer(writeBuf) /\ W \in Seq(Unit) /\ out \in Seq(Unit)
  BY DEF Types, TypeOK
<1>2. PICK d \in Decodings(R) :
        /\ d.is = "frame" /\ d.op \in Accepted
        /\ readBuf' = Consumed(readBuf, d.takes) /\ taken' = taken \o SubSeq(R, 1, d.takes)
        /\ IF Answer(d.op, d.payload) = <<>> THEN UNCHANGED <<writeBuf, out, writing, armed>>
                                             ELSE Put(Answer(d.op, d.payload))
        /\ handled' = Append(handled, [op |-> d.op, payload |-> d.payload])
  BY DEF HandleFrame, Unread, R
<1> DEFINE n == d.takes
           payload == d.payload
           a == Answer(d.op, payload)
<1>4. n \in 0..Len(R)  BY <1>1, <1>2, FrameFits
<1>8. payload \in Seq(Unit)  BY <1>1, <1>2, FrameFits
<1> HIDE DEF Unit, n, payload, Decodings
<1>3. /\ readBuf' = Consumed(readBuf, n) /\ taken' = taken \o SubSeq(R, 1, n)
      /\ IF a = <<>> THEN UNCHANGED <<writeBuf, out, writing, armed>> ELSE Put(a)
      /\ handled' = Append(handled, [op |-> d.op, payload |-> payload])
  BY <1>2 DEF n, payload
<1>5. SubSeq(R, 1, n) \in Seq(Unit)
  BY <1>1, <1>4, SuffixUnits
<1>6. /\ IsBuffer(readBuf') /\ Contents(readBuf') = SubSeq(R, n + 1, Len(R))
      /\ Contents(readBuf') \in Seq(Unit)
  BY <1>1, <1>3, <1>4, ConsumeUnits DEF R
<1>7. taken' \in Seq(Unit)
  BY <1>1, <1>3, <1>5, ConcatProperties
<1>9. a \in Seq(Unit)
  BY <1>8, AnswerUnits
<1>10. handled' \in Seq([req : Requests, body : Seq(Unit)]
                        \cup [op : Opcodes, payload : Seq(Unit)])
  <2> DEFINE S == [req : Requests, body : Seq(Unit)] \cup [op : Opcodes, payload : Seq(Unit)]
             e == [op |-> d.op, payload |-> payload]
  <2>1. e \in S  BY <1>2, <1>8, StreamAssumption
  <2>2. handled \in Seq(S)  BY DEF Types, TypeOK
  <2>3. handled' = Append(handled, e)  BY <1>3
  <2> HIDE DEF S, e
  <2>4. handled' \in Seq(S)  BY <2>1, <2>2, <2>3, AppendProperties
  <2> QED  BY <2>4 DEF S
<1> HIDE DEF a
<1>11. /\ IsBuffer(writeBuf') /\ Contents(writeBuf') = W \o a
       /\ Contents(writeBuf') \in Seq(Unit) /\ out' \in Seq(Unit) /\ out' = out \o a
       /\ \/ a = <<>> /\ UNCHANGED <<writing, armed>>
          \/ writing' = TRUE /\ armed' = (armed \/ ~ writing)
  <2>1. CASE a = <<>>
    <3>1. W \o a = W /\ out \o a = out  BY <2>1, <1>1, ConcatEmptySeq
    <3>2. writeBuf' = writeBuf /\ out' = out /\ UNCHANGED <<writing, armed>>  BY <2>1, <1>3
    <3> QED  BY <2>1, <3>1, <3>2, <1>1 DEF W
  <2>2. CASE a # <<>>
    BY <2>2, <1>3, <1>9, PutTypes
  <2> QED  BY <2>1, <2>2
<1> QED  BY <1>3, <1>4, <1>6, <1>7, <1>9, <1>10, <1>11

(* The kernel takes a front part of writeBuf_.                             *)
LEMMA SendEffect ==
  ASSUME Types, Send
  PROVE  \E n \in 0..Len(W) :
         /\ IsBuffer(writeBuf') /\ Contents(writeBuf') = SubSeq(W, n + 1, Len(W))
         /\ Contents(writeBuf') \in Seq(Unit)
         /\ delivered' = delivered \o SubSeq(W, 1, n) /\ delivered' \in Seq(Unit)
<1>1. IsBuffer(writeBuf) /\ W \in Seq(Unit) /\ delivered \in Seq(Unit)
  BY DEF Types, TypeOK
<1>2. PICK n \in 1..Readable(writeBuf) : /\ delivered' = delivered \o SubSeq(W, 1, n)
                                         /\ writeBuf' = Consumed(writeBuf, n)
  BY DEF Send, Unread, W
<1>3. n \in 0..Len(W)  BY <1>1, ContentsType DEF W
<1>4. SubSeq(W, 1, n) \in Seq(Unit)  BY <1>1, <1>3, SuffixUnits
<1>5. delivered' \in Seq(Unit)  BY <1>1, <1>2, <1>4, ConcatProperties
<1> QED  BY <1>1, <1>2, <1>3, <1>5, ConsumeUnits DEF W

(* All that the client has to say to the object in charge.                 *)
LEMMA ToSayUnits ==
  ASSUME Types
  PROVE  ToSay \in Seq(Unit) /\ Len(ToSay) \in Nat
<1>1. script \in Scripts  BY DEF Types, TypeOK
<1>2. ToSay \in Seq(Unit)  BY <1>1, StreamAssumption DEF ToSay
<1> QED  BY <1>2, LenProperties

(* What happens to types where no buffer is touched.                       *)
LEMMA TypesKept ==
  ASSUME Types, UNCHANGED <<script, buffers, flags, history, pushes>>,
         sent' \in Nat, inbox' \in Seq(Unit), fin' \in BOOLEAN,
         phase' = phase, pc' \in {"idle", "recv", "parse", "write"}, thenWrite' \in BOOLEAN
  PROVE  Types'
<1>1. readBuf' = readBuf /\ writeBuf' = writeBuf  BY DEF buffers
<1>2. R' = R /\ W' = W  BY <1>1 DEF R, W
<1> QED  BY <1>1, <1>2 DEF Types, TypeOK, flags, history

(* The initial state: a new connection.                                    *)
LEMMA TypesInit == Init => Types
<1> SUFFICES ASSUME Init PROVE Types
  OBVIOUS
<1>1. /\ IsBuffer(readBuf) /\ R = <<>> /\ R \in Seq(Unit)
      /\ IsBuffer(writeBuf) /\ W = <<>> /\ W \in Seq(Unit)
  BY NewUnits DEF Init, R, W
<1>2. <<>> \in Seq(Unit)  BY EmptySeq
<1>3. handled \in Seq([req : Requests, body : Seq(Unit)] \cup [op : Opcodes, payload : Seq(Unit)])
  BY EmptySeq DEF Init
<1>4. 0 \in 0..MaxPushes  BY StreamAssumption
<1>5. /\ inbox \in Seq(Unit) /\ taken \in Seq(Unit) /\ out \in Seq(Unit)
      /\ delivered \in Seq(Unit)
  BY <1>2 DEF Init
<1> QED  BY <1>1, <1>3, <1>4, <1>5 DEF Init, Types, TypeOK

(* Every step.                                                             *)
LEMMA TypesStep == Types /\ [Next]_vars => Types'
<1> SUFFICES ASSUME Types, [Next]_vars PROVE Types'
  OBVIOUS
<1> USE DEF client, buffers, flags, history
<1>0. /\ sent \in Nat /\ inbox \in Seq(Unit) /\ fin \in BOOLEAN /\ thenWrite \in BOOLEAN
      /\ armed \in BOOLEAN /\ pc \in {"idle", "recv", "parse", "write"}
      /\ <<>> \in Seq(Unit)
  BY EmptySeq DEF Types, TypeOK
<1>1. CASE ClientSends
  <2>1. ToSay[sent + 1] \in Unit
    BY <1>0, <1>1, ToSayUnits, ElementOfSeq DEF ClientSends
  <2>2. inbox' \in Seq(Unit)
    BY <1>0, <1>1, <2>1, AppendProperties DEF ClientSends
  <2> QED  BY <1>0, <1>1, <2>2, TypesKept DEF ClientSends
<1>2. CASE ClientEnds
  BY <1>0, <1>2, TypesKept DEF ClientEnds
<1>3. CASE ReadEvent
  BY <1>0, <1>3, TypesKept DEF ReadEvent
<1>4. CASE WriteEvent
  BY <1>0, <1>4, TypesKept DEF WriteEvent
<1>5. CASE Pushed
  <2>1. PICK d \in Others : Put(Push(d))  BY <1>5 DEF Pushed
  <2>2. Push(d) \in Seq(Unit)  BY PushUnits
  <2>3. /\ IsBuffer(writeBuf') /\ Contents(writeBuf') \in Seq(Unit) /\ out' \in Seq(Unit)
        /\ writing' \in BOOLEAN /\ armed' \in BOOLEAN
    BY <1>0, <2>1, <2>2, PutTypes
  <2>4. R' = R /\ W' \in Seq(Unit)  BY <1>5, <2>3 DEF R, W, Pushed
  <2>5. pushes' \in 0..MaxPushes  BY <1>5, StreamAssumption DEF Pushed, Types, TypeOK
  <2> QED  BY <1>5, <2>3, <2>4, <2>5 DEF Pushed, Types, TypeOK
<1>6. CASE Recv
  <2>1. IsBuffer(readBuf) /\ R \in Seq(Unit)  BY DEF Types, TypeOK
  <2>2. IsBuffer(readBuf') /\ Contents(readBuf') \in Seq(Unit)
    BY <1>0, <1>6, <2>1, AppendUnits DEF Recv, R
  <2>3. W' = W /\ R' \in Seq(Unit)  BY <1>6, <2>2 DEF R, W, Recv
  <2> QED  BY <1>0, <1>6, <2>2, <2>3 DEF Recv, Types, TypeOK
<1>7. CASE RecvDry
  BY <1>0, <1>7, TypesKept DEF RecvDry
<1>8. CASE RecvEnds
  BY <1>8, CloseTypes DEF RecvEnds
<1>9. CASE HandleRequest
  <2>1. R' \in Seq(Unit) /\ W' \in Seq(Unit)  BY <1>9, RequestEffect DEF R, W
  <2>2. upgraded' \in BOOLEAN /\ closeAfterWrite' \in BOOLEAN
    BY <1>9 DEF HandleRequest, Types, TypeOK
  <2>3. /\ UNCHANGED <<script, sent, fin, inbox, phase, pc, thenWrite, delivered, pushes>>
    BY <1>9 DEF HandleRequest
  <2>4. writing' \in BOOLEAN /\ armed' \in BOOLEAN  BY <1>0, <1>9, RequestEffect
  <2>5. /\ IsBuffer(readBuf') /\ IsBuffer(writeBuf')
        /\ taken' \in Seq(Unit) /\ out' \in Seq(Unit)
        /\ handled' \in Seq([req : Requests, body : Seq(Unit)]
                            \cup [op : Opcodes, payload : Seq(Unit)])
    BY <1>9, RequestEffect
  <2> QED  BY <2>1, <2>2, <2>3, <2>4, <2>5 DEF Types, TypeOK
<1>10. CASE ParseWaits
  <2>1. IsBuffer(readBuf) /\ R \in Seq(Unit) /\ Len(R) \in Nat
    BY LenProperties DEF Types, TypeOK
  <2>2. IsBuffer(readBuf') /\ Contents(readBuf') = R
    BY <1>10, <2>1, PutBackUnits DEF ParseWaits, Unread, R
  <2>3. W' = W /\ R' = R  BY <1>10, <2>2 DEF R, W, ParseWaits
  <2> QED  BY <1>0, <1>10, <2>2, <2>3 DEF ParseWaits, ReadReturns, Types, TypeOK
<1>11. CASE HandleFrame
  <2>1. R' \in Seq(Unit) /\ W' \in Seq(Unit)  BY <1>11, FrameEffect DEF R, W
  <2>2. closeAfterWrite' \in BOOLEAN
    BY <1>11 DEF HandleFrame, Types, TypeOK
  <2>3. /\ UNCHANGED <<script, sent, fin, inbox, phase, pc, thenWrite, upgraded, delivered, pushes>>
    BY <1>11 DEF HandleFrame
  <2>4. writing \in BOOLEAN  BY DEF Types, TypeOK
  <2>5. writing' \in BOOLEAN /\ armed' \in BOOLEAN  BY <1>0, <1>11, <2>4, FrameEffect
  <2>6. /\ IsBuffer(readBuf') /\ IsBuffer(writeBuf')
        /\ taken' \in Seq(Unit) /\ out' \in Seq(Unit)
        /\ handled' \in Seq([req : Requests, body : Seq(Unit)]
                            \cup [op : Opcodes, payload : Seq(Unit)])
    BY <1>11, FrameEffect
  <2> QED  BY <2>1, <2>2, <2>3, <2>5, <2>6 DEF Types, TypeOK
<1>12. CASE DecodeWaits
  BY <1>0, <1>12, TypesKept DEF DecodeWaits, ReadReturns
<1>13. CASE RefuseFrame
  BY <1>13, CloseTypes DEF RefuseFrame
<1>14. CASE HandlerThrows \/ DecodeThrows
  <2>1. Ends  BY <1>14 DEF HandlerThrows, DecodeThrows
  <2>2. /\ IsBuffer(readBuf') /\ Contents(readBuf') \in Seq(Unit)
        /\ IsBuffer(writeBuf') /\ Contents(writeBuf') \in Seq(Unit)
    BY <2>1, NewUnits DEF Ends
  <2>3. R' \in Seq(Unit) /\ W' \in Seq(Unit)  BY <2>2 DEF R, W
  <2> QED  BY <2>1, <2>2, <2>3 DEF Ends, Types, TypeOK
<1>15. CASE Send
  <2>1. W' \in Seq(Unit)  BY <1>15, SendEffect DEF W
  <2>2. R' = R  BY <1>15 DEF Send, R
  <2> QED  BY <1>15, <2>1, <2>2, SendEffect DEF Send, Types, TypeOK
<1>16. CASE SendBlocks
  BY <1>0, <1>16, TypesKept DEF SendBlocks
<1>17. CASE SendFails
  BY <1>17, CloseTypes DEF SendFails
<1>18. CASE SendDone
  <2>1. CASE closeAfterWrite
    BY <1>18, <2>1, CloseTypes DEF SendDone
  <2>2. CASE ~ closeAfterWrite
    <3>1. W' = W /\ R' = R  BY <1>18, <2>2 DEF SendDone, R, W
    <3>2. writing' \in BOOLEAN  BY <1>18, <2>2 DEF SendDone, WritingAfter, Types, TypeOK
    <3> QED  BY <1>18, <2>2, <3>1, <3>2 DEF SendDone, Types, TypeOK
  <2> QED  BY <2>1, <2>2
<1>19. CASE UNCHANGED vars
  BY <1>0, <1>19, TypesKept DEF vars
<1> QED
  BY <1>1, <1>2, <1>3, <1>4, <1>5, <1>6, <1>7, <1>8, <1>9, <1>10, <1>11, <1>12, <1>13,
     <1>14, <1>15, <1>16, <1>17, <1>18, <1>19 DEF Next, Reading, Writing

(* Hence always.                                                           *)
LEMMA TypesAlways == Spec => []Types
<1> QED  BY TypesInit, TypesStep, PTL DEF Spec

(* Type correctness for every client and every size of buffer: positions   *)
(* stay in order, and only units of the protocol are in the buffers.       *)
THEOREM TypeCorrect == Spec => []TypeOK
<1>1. Types => TypeOK  BY DEF Types
<1> QED  BY <1>1, TypesAlways, PTL

-----------------------------------------------------------------------------
(* The buffers implement queues of bytes.                                  *)

(* What is put behind a queue leaves the queue in front.                   *)
LEMMA StepMeansQueue ==
  ASSUME NEW S, NEW q \in Seq(S), NEW a \in Seq(S)
  PROVE  /\ Len(q \o a) >= Len(q) /\ SubSeq(q \o a, 1, Len(q)) = q
<1>1. Len(q) \in Nat /\ Len(a) \in Nat /\ Len(q \o a) = Len(q) + Len(a)
  BY ConcatProperties, LenProperties
<1>2. CASE q = <<>>
  BY <1>1, <1>2, SubSeqEmpty
<1>3. CASE q # <<>>
  <2>1. 1 \in 1..Len(q) /\ Len(q) \in 1..Len(q)  BY <1>1, <1>3, EmptySeq
  <2> QED  BY <1>1, <2>1, SubSeqOfConcat1, SubSeqFull
<1> QED  BY <1>1, <1>2, <1>3

(* All of a queue may leave at once.                                       *)
LEMMA AllLeaves ==
  ASSUME NEW S, NEW q \in Seq(S)
  PROVE  SubSeq(q, Len(q) + 1, Len(q)) = <<>> /\ Len(q) \in 0..Len(q)
BY LenProperties, SubSeqEmpty

(* readBuf_ is a queue: what a read puts in comes out in the same order,   *)
(* across growing, compacting and HttpRequest's putting back.              *)
THEOREM ReadBufferIsQueue == Spec => InQueue
<1>1. Init => In!Init
  BY NewUnits DEF Init, In!Init
<1>2. Types /\ [Next]_vars => [In!Enter \/ In!Leave]_(Contents(readBuf))
  <2> SUFFICES ASSUME Types, [Next]_vars
               PROVE  \/ Contents(readBuf') = Contents(readBuf)
                      \/ \E a \in Seq(Unit) : Contents(readBuf') = Contents(readBuf) \o a
                      \/ \E n \in 0..Len(Contents(readBuf)) :
                           Contents(readBuf') = SubSeq(Contents(readBuf), n + 1, Len(Contents(readBuf)))
    BY StepMeansQueue DEF Types, R, In!Enter, In!Leave
  <2> USE DEF client, buffers, flags, history
  <2>0. R \in Seq(Unit) /\ IsBuffer(readBuf) /\ inbox \in Seq(Unit) /\ Len(R) \in Nat
    BY LenProperties DEF Types, TypeOK
  <2>1. CASE readBuf' = readBuf
    BY <2>1
  <2>2. CASE Recv
    BY <2>0, <2>2, AppendUnits DEF Recv, R
  <2>3. CASE readBuf' = New
    <3>1. Contents(readBuf') = <<>>  BY <2>3, NewUnits
    <3> QED  BY <3>1, <2>0, AllLeaves DEF R
  <2>4. CASE HandleRequest
    <3> DEFINE n == HeadEnd(R) + R[1].req.len
    <3>1. n \in 2..Len(R) /\ Contents(readBuf') = SubSeq(R, n + 1, Len(R))
      BY <2>4, RequestEffect
    <3> HIDE DEF n
    <3>2. n \in 0..Len(R)  BY <2>0, <3>1
    <3> QED  BY <3>1, <3>2 DEF R
  <2>5. CASE ParseWaits
    BY <2>0, <2>5, PutBackUnits DEF ParseWaits, Unread, R
  <2>6. CASE HandleFrame
    BY <2>6, FrameEffect DEF R
  <2> QED
    BY <2>1, <2>2, <2>3, <2>4, <2>5, <2>6 DEF Next, vars, Reading, Writing, ClientSends,
       ClientEnds, ReadEvent, WriteEvent, Pushed, RecvDry, RecvEnds, DecodeWaits,
       RefuseFrame, HandlerThrows, DecodeThrows, Ends, Send, SendBlocks, SendFails,
       SendDone, Close
<1> QED  BY <1>1, <1>2, TypesAlways, PTL DEF Spec, InQueue, In!Spec

(* writeBuf_ is a queue: answers and pushed messages leave in the order in *)
(* which they were put in, whatever portions the kernel takes.             *)
THEOREM WriteBufferIsQueue == Spec => OutQueue
<1>1. Init => Out!Init
  BY NewUnits DEF Init, Out!Init
<1>2. Types /\ [Next]_vars => [Out!Enter \/ Out!Leave]_(Contents(writeBuf))
  <2> SUFFICES ASSUME Types, [Next]_vars
               PROVE  \/ Contents(writeBuf') = Contents(writeBuf)
                      \/ \E a \in Seq(Unit) : Contents(writeBuf') = Contents(writeBuf) \o a
                      \/ \E n \in 0..Len(Contents(writeBuf)) :
                           Contents(writeBuf') = SubSeq(Contents(writeBuf), n + 1, Len(Contents(writeBuf)))
    BY StepMeansQueue DEF Types, W, Out!Enter, Out!Leave
  <2> USE DEF client, buffers, flags, history
  <2>0. W \in Seq(Unit)  BY DEF Types
  <2>1. CASE writeBuf' = writeBuf
    BY <2>1
  <2>2. CASE Pushed
    <3>1. PICK d \in Others : Put(Push(d))  BY <2>2 DEF Pushed
    <3>2. Push(d) \in Seq(Unit)  BY PushUnits
    <3> QED  BY <3>1, <3>2, PutTypes DEF W
  <2>3. CASE writeBuf' = New
    <3>1. Contents(writeBuf') = <<>>  BY <2>3, NewUnits
    <3> QED  BY <3>1, <2>0, AllLeaves DEF W
  <2>4. CASE HandleRequest
    <3>1. Response(R[1].req) \in Seq(Unit) /\ Contents(writeBuf') = W \o Response(R[1].req)
      BY <2>4, RequestEffect
    <3> QED  BY <3>1 DEF W
  <2>5. CASE HandleFrame
    <3>1. \E a \in Seq(Unit) : Contents(writeBuf') = W \o a  BY <2>5, FrameEffect
    <3> QED  BY <3>1 DEF W
  <2>6. CASE Send
    BY <2>6, SendEffect DEF W
  <2> QED
    BY <2>1, <2>2, <2>3, <2>4, <2>5, <2>6 DEF Next, vars, Reading, Writing, ClientSends,
       ClientEnds, ReadEvent, WriteEvent, Recv, RecvDry, RecvEnds, DecodeWaits, ParseWaits,
       RefuseFrame, HandlerThrows, DecodeThrows, Ends, SendBlocks, SendFails, SendDone,
       Close
<1> QED  BY <1>1, <1>2, TypesAlways, PTL DEF Spec, OutQueue, Out!Spec

-----------------------------------------------------------------------------
(* EPOLLOUT is armed whenever output is waiting.                           *)

ArmedInv ==
    /\ Open /\ writing => armed
    /\ Open /\ W # <<>> => writing
    /\ phase = "http" /\ writing => closeAfterWrite

(* Every step.                                                             *)
LEMMA ArmedStep == Types /\ ArmedInv /\ [Next]_vars => ArmedInv'
<1> SUFFICES ASSUME Types, ArmedInv, [Next]_vars PROVE ArmedInv'
  OBVIOUS
<1> USE DEF client, buffers, flags, history
<1>0. /\ writing \in BOOLEAN /\ armed \in BOOLEAN /\ W \in Seq(Unit)
      /\ phase \in {"http", "ws", "closed", "refused", "ended"}
  BY DEF Types, TypeOK
<1>1. CASE UNCHANGED <<writeBuf, phase, flags>>
  <2>1. W' = W  BY <1>1 DEF W
  <2> QED  BY <1>1, <2>1 DEF ArmedInv, Open
<1>2. CASE Pushed
  <2>1. PICK d \in Others : Put(Push(d))  BY <1>2 DEF Pushed
  <2> QED  BY <1>0, <1>2, <2>1 DEF Put, ArmedInv, Open, Pushed
<1>3. CASE HandleRequest
  BY <1>0, <1>3, RequestEffect DEF HandleRequest, ArmedInv, Open
<1>4. CASE HandleFrame
  <2>1. phase = "ws" /\ phase' = "ws"  BY <1>4 DEF HandleFrame
  <2>2. PICK a \in Seq(Unit) :
          /\ Contents(writeBuf') = W \o a
          /\ \/ a = <<>> /\ UNCHANGED <<writing, armed>>
             \/ writing' = TRUE /\ armed' = (armed \/ ~ writing)
    BY <1>4, FrameEffect
  <2>3. a = <<>> => W' = W  BY <1>0, <2>2, ConcatEmptySeq DEF W
  <2>4. CASE a = <<>> /\ UNCHANGED <<writing, armed>>
    BY <2>1, <2>3, <2>4 DEF ArmedInv, Open
  <2>5. CASE writing' = TRUE /\ armed' = (armed \/ ~ writing)
    BY <1>0, <2>1, <2>5 DEF ArmedInv, Open
  <2> QED  BY <2>2, <2>4, <2>5
<1>5. CASE Send
  <2>1. PICK n \in 0..Len(W) : W' = SubSeq(W, n + 1, Len(W))  BY <1>5, SendEffect DEF W
  <2>2. W = <<>> => W' = <<>>  BY <1>0, <2>1, SubSeqEmpty, EmptySeq
  <2> QED  BY <1>5, <2>2 DEF Send, ArmedInv, Open
<1>6. CASE writing' = FALSE /\ writeBuf' = New
  <2>1. W' = <<>>  BY <1>6, NewUnits DEF W
  <2> QED  BY <1>6, <2>1 DEF ArmedInv
<1>7. CASE HandlerThrows \/ DecodeThrows
  BY <1>7 DEF HandlerThrows, DecodeThrows, Ends, ArmedInv, Open
<1>8. CASE SendDone /\ ~ closeAfterWrite
  <2>1. W = <<>> /\ W' = W
    <3>1. Len(W) = 0  BY <1>8, ContentsType DEF SendDone, W, Types, TypeOK
    <3> QED  BY <1>0, <1>8, <3>1, EmptySeq DEF SendDone, W
  <2>2. phase' = phase /\ closeAfterWrite' = closeAfterWrite
        /\ writing' = (writing /\ phase = "http")
    BY <1>8 DEF SendDone, WritingAfter
  <2> QED  BY <1>0, <1>8, <2>1, <2>2 DEF ArmedInv, Open
<1> QED
  BY <1>1, <1>2, <1>3, <1>4, <1>5, <1>6, <1>7, <1>8 DEF Next, vars, Reading, Writing,
     ClientSends, ClientEnds, ReadEvent, WriteEvent, Recv, RecvDry, RecvEnds, DecodeWaits,
     ParseWaits, RefuseFrame, SendBlocks, SendFails, SendDone, Close

(* Output that waits while no callback is at work has EPOLLOUT armed, for  *)
(* HttpConnection, which never resets writing_, because it always closes   *)
(* after its answer, and for WsConnection because it resets both at once.  *)
THEOREM OutputAlwaysArmed == Spec => []OutputArmed
<1>1. Init => ArmedInv
  BY NewUnits DEF Init, ArmedInv, W
<1>2. Types /\ ArmedInv => OutputArmed
  <2> SUFFICES ASSUME Types, ArmedInv, Open, Readable(writeBuf) > 0 PROVE armed
    BY DEF OutputArmed
  <2>1. Len(W) > 0  BY ContentsType DEF W, Types, TypeOK
  <2>2. W # <<>>  BY <2>1, EmptySeq
  <2> QED  BY <2>2 DEF ArmedInv
<1> QED  BY <1>1, <1>2, ArmedStep, TypesAlways, PTL DEF Spec

-----------------------------------------------------------------------------
(* No unit that was sent is lost or doubled on the way to the decoder.     *)

StreamInv ==
    /\ Open => /\ taken \o R \o inbox = SubSeq(ToSay, 1, sent)
               /\ sent <= Len(ToSay)
    /\ phase = "http" /\ upgraded => Len(taken) = Len(Wire(script))

(* Where a prefix of the stream ends.                                      *)
LEMMA StreamLengths ==
  ASSUME Types, StreamInv, Open
  PROVE  /\ Len(taken) \in Nat /\ Len(R) \in Nat /\ Len(inbox) \in Nat
         /\ Len(taken) + Len(R) + Len(inbox) = sent
         /\ sent <= Len(ToSay)
         /\ \A i \in 1..Len(R) : Len(taken) + i \in 1..Len(ToSay)
                                 /\ R[i] = ToSay[Len(taken) + i]
<1>1. /\ taken \in Seq(Unit) /\ R \in Seq(Unit) /\ inbox \in Seq(Unit) /\ sent \in Nat
      /\ ToSay \in Seq(Unit) /\ Len(ToSay) \in Nat
      /\ Len(taken) \in Nat /\ Len(R) \in Nat /\ Len(inbox) \in Nat
  BY ToSayUnits, LenProperties DEF Types, TypeOK
<1>2. taken \o R \o inbox = SubSeq(ToSay, 1, sent) /\ sent <= Len(ToSay)
  BY DEF StreamInv
<1>3. /\ taken \o R \in Seq(Unit) /\ Len(taken \o R) = Len(taken) + Len(R)
      /\ \A i \in 1..(Len(taken) + Len(R)) :
           (taken \o R)[i] = IF i <= Len(taken) THEN taken[i] ELSE R[i - Len(taken)]
  BY <1>1, ConcatProperties
<1>4. /\ Len(taken \o R \o inbox) = Len(taken) + Len(R) + Len(inbox)
      /\ \A i \in 1..(Len(taken) + Len(R) + Len(inbox)) :
           (taken \o R \o inbox)[i] = IF i <= Len(taken) + Len(R) THEN (taken \o R)[i]
                                      ELSE inbox[i - (Len(taken) + Len(R))]
  BY <1>1, <1>3, ConcatProperties
<1>5. /\ Len(SubSeq(ToSay, 1, sent)) = sent
      /\ \A i \in 1..sent : SubSeq(ToSay, 1, sent)[i] = ToSay[i]
  <2>1. \A i \in 1..sent : ToSay[i] \in Unit  BY <1>1, <1>2, ElementOfSeq
  <2>2. /\ Len(SubSeq(ToSay, 1, sent)) = IF 1 <= sent THEN sent - 1 + 1 ELSE 0
        /\ \A i \in 1..(sent - 1 + 1) : SubSeq(ToSay, 1, sent)[i] = ToSay[1 + i - 1]
    <3>1. 1 \in Int /\ sent \in Int  BY <1>1
    <3> QED  BY <2>1, <3>1, SubSeqProperties
  <2> QED  BY <1>1, <2>2
<1>6. Len(taken) + Len(R) + Len(inbox) = sent
  BY <1>2, <1>4, <1>5
<1>7. ASSUME NEW i \in 1..Len(R)
      PROVE  Len(taken) + i \in 1..Len(ToSay) /\ R[i] = ToSay[Len(taken) + i]
  <2> DEFINE j == Len(taken) + i
  <2>1. /\ j \in 1..(Len(taken) + Len(R)) /\ j \in 1..(Len(taken) + Len(R) + Len(inbox))
        /\ j \in 1..sent /\ j \in 1..Len(ToSay) /\ ~ (j <= Len(taken))
        /\ j <= Len(taken) + Len(R) /\ j - Len(taken) = i
    BY <1>1, <1>2, <1>6
  <2> HIDE DEF j
  <2>2. R[i] = (taken \o R)[j]  BY <1>3, <2>1
  <2>3. (taken \o R)[j] = (taken \o R \o inbox)[j]  BY <1>4, <2>1
  <2>4. (taken \o R \o inbox)[j] = ToSay[j]  BY <1>2, <1>5, <2>1
  <2> QED  BY <2>1, <2>2, <2>3, <2>4 DEF j
<1> QED  BY <1>1, <1>2, <1>6, <1>7

(* An upgrade is handled when all there was to say has been taken.         *)
LEMMA UpgradeTakesAll ==
  ASSUME Types, StreamInv, HandleRequest, upgraded'
  PROVE  Len(taken') = Len(Wire(script))
<1> DEFINE n == HeadEnd(R) + R[1].req.len
<1>1. phase = "http" /\ Open /\ ToSay = Wire(script) /\ script \in Scripts
  BY DEF HandleRequest, Open, ToSay, Types, TypeOK
<1>2. /\ Len(taken) \in Nat /\ Len(R) \in Nat /\ Len(inbox) \in Nat
      /\ Len(taken) + Len(R) + Len(inbox) = sent /\ sent <= Len(ToSay)
      /\ \A i \in 1..Len(R) : Len(taken) + i \in 1..Len(ToSay)
                              /\ R[i] = ToSay[Len(taken) + i]
      /\ Len(ToSay) \in Nat
  BY <1>1, StreamLengths, ToSayUnits
<1>3. Parses(R) /\ n \in 2..Len(R) /\ taken' = taken \o SubSeq(R, 1, n)
  BY RequestEffect
<1>4. taken \in Seq(Unit) /\ R \in Seq(Unit)  BY DEF Types, TypeOK
<1> HIDE DEF n
<1>5. n \in 0..Len(R)  BY <1>2, <1>3
<1>6. Len(taken') = Len(taken) + n
  BY <1>3, <1>4, <1>5, SuffixUnits, ConcatProperties
<1>7. ~ upgraded
  BY <1>1, <1>2, <1>3 DEF StreamInv
<1>8. Status(R[1].req) = 101
  BY <1>7 DEF HandleRequest, Unread, R
<1>9. /\ 1 \in 1..Len(R) /\ R[1].is = "line"
  BY <1>2, <1>3 DEF Parses, WellFormed
<1>10. Len(taken) + 1 = Len(Wire(script)) - 1
  BY <1>1, <1>2, <1>8, <1>9, StreamAssumption DEF UpgradeIsLast
<1> QED  BY <1>1, <1>2, <1>3, <1>6, <1>10

(* Appending twice or appending a concatenation is the same.               *)
LEMMA Regroup ==
  ASSUME NEW S, NEW d \in Seq(S), NEW p \in Seq(S), NEW q \in Seq(S)
  PROVE  (d \o p) \o q = d \o (p \o q)
BY ConcatAssociative

(* The same, of units.                                                     *)
LEMMA RegroupUnits ==
  \A d, p, q \in Seq(Unit) : (d \o p) \o q = d \o (p \o q)
BY Regroup

(* What is taken and what remains are together what was there.             *)
LEMMA TakenThenRest ==
  ASSUME Types, NEW n \in 0..Len(R)
  PROVE  (taken \o SubSeq(R, 1, n)) \o SubSeq(R, n + 1, Len(R)) = taken \o R
<1>1. taken \in Seq(Unit) /\ R \in Seq(Unit)  BY DEF Types, TypeOK
<1>2. /\ SubSeq(R, 1, n) \in Seq(Unit) /\ SubSeq(R, n + 1, Len(R)) \in Seq(Unit)
      /\ SubSeq(R, 1, n) \o SubSeq(R, n + 1, Len(R)) = R
  BY <1>1, SuffixUnits
<1> DEFINE p == SubSeq(R, 1, n)
           q == SubSeq(R, n + 1, Len(R))
           S == Unit
<1>3. taken \in Seq(S) /\ p \in Seq(S) /\ q \in Seq(S)
  BY <1>1, <1>2
<1>4. p \o q = R  BY <1>2
<1> HIDE DEF p, q, S
<1>5. (taken \o p) \o q = taken \o (p \o q)  BY <1>3, Regroup
<1> QED  BY <1>4, <1>5 DEF p, q

(* Every step.                                                             *)
LEMMA StreamStep == Types /\ StreamInv /\ [Next]_vars => StreamInv'
<1> SUFFICES ASSUME Types, StreamInv, [Next]_vars PROVE StreamInv'
  OBVIOUS
<1> USE DEF client, buffers, flags, history
<1>0. /\ taken \in Seq(Unit) /\ R \in Seq(Unit) /\ inbox \in Seq(Unit) /\ sent \in Nat
      /\ ToSay \in Seq(Unit) /\ Len(ToSay) \in Nat /\ taken \o R \in Seq(Unit)
      /\ script \in Scripts
  BY ToSayUnits, ConcatProperties DEF Types, TypeOK
<1>1. CASE UNCHANGED <<script, sent, inbox, phase, taken, upgraded>> /\ R' = R
  <2>1. ToSay' = ToSay  BY <1>1 DEF ToSay
  <2> QED  BY <1>1, <2>1 DEF StreamInv, Open
<1>2. CASE ClientSends
  <2>1. ToSay' = ToSay /\ R' = R  BY <1>2 DEF ClientSends, ToSay, R
  <2>2. sent + 1 \in 1..Len(ToSay)  BY <1>0, <1>2 DEF ClientSends
  <2> DEFINE e == ToSay[sent + 1]
  <2>3. e \in Unit  BY <1>0, <2>2, ElementOfSeq
  <2>4. inbox' = inbox \o <<e>>
    BY <1>0, <1>2, <2>3, AppendIsConcat DEF ClientSends
  <2>5. SubSeq(ToSay, 1, sent + 1) = SubSeq(ToSay, 1, sent) \o <<e>>
    <3>1. 1 \in 1..Len(ToSay) /\ sent + 1 \in 1..Len(ToSay) /\ (sent + 1) - 1 = sent
      BY <1>0, <2>2
    <3> QED  BY <1>0, <3>1, SubSeqRecursiveSecond
  <2> HIDE DEF e
  <2>6. <<e>> \in Seq(Unit)  BY <2>3
  <2>7. (taken \o R) \o (inbox \o <<e>>) = ((taken \o R) \o inbox) \o <<e>>
    <3>1. taken \o R \in Seq(Unit) /\ inbox \in Seq(Unit)  BY <1>0
    <3> HIDE DEF R
    <3> QED  BY ONLY <2>6, <3>1, RegroupUnits
  <2>8. Open /\ sent' = sent + 1 /\ UNCHANGED <<script, phase, taken, upgraded>>
    BY <1>2 DEF ClientSends
  <2>9. taken \o R \o inbox = SubSeq(ToSay, 1, sent)  BY <2>8 DEF StreamInv
  <2>10. taken' \o R' \o inbox' = SubSeq(ToSay', 1, sent')
    BY <2>1, <2>4, <2>5, <2>7, <2>8, <2>9
  <2>11. sent' <= Len(ToSay')  BY <1>0, <2>1, <2>2, <2>8
  <2> QED  BY <2>8, <2>10, <2>11 DEF StreamInv
<1>3. CASE Recv
  <2>1. IsBuffer(readBuf)  BY DEF Types, TypeOK
  <2>2. R' = R \o inbox  BY <1>0, <1>3, <2>1, AppendUnits DEF Recv, R
  <2>3. ToSay' = ToSay /\ UNCHANGED <<script, sent, phase, taken, upgraded>> /\ inbox' = <<>>
    BY <1>3 DEF Recv, ToSay
  <2>4. taken \o (R \o inbox) = (taken \o R) \o inbox
    <3>1. taken \in Seq(Unit) /\ R \in Seq(Unit) /\ inbox \in Seq(Unit)  BY <1>0
    <3> QED  BY ONLY <3>1, RegroupUnits
  <2>5. (taken \o (R \o inbox)) \o <<>> = (taken \o R) \o inbox
    <3>1. (taken \o R) \o inbox \in Seq(Unit)  BY <1>0, ConcatProperties
    <3> QED  BY <2>4, <3>1, ConcatEmptySeq
  <2> QED  BY <2>2, <2>3, <2>5 DEF StreamInv, Open
<1>4. CASE HandleRequest
  <2> DEFINE n == HeadEnd(R) + R[1].req.len
  <2>1. /\ n \in 2..Len(R) /\ taken' = taken \o SubSeq(R, 1, n)
        /\ R' = SubSeq(R, n + 1, Len(R))
    BY <1>4, RequestEffect DEF R
  <2> HIDE DEF n
  <2>2. n \in 0..Len(R)  BY <1>0, <2>1, LenProperties
  <2>3. taken' \o R' = taken \o R  BY <2>1, <2>2, TakenThenRest
  <2>4. ToSay' = ToSay /\ UNCHANGED <<script, sent, inbox, phase>> /\ Wire(script)' = Wire(script)
    BY <1>4 DEF HandleRequest, ToSay, Wire
  <2>5. upgraded' => Len(taken') = Len(Wire(script))  BY <1>4, UpgradeTakesAll
  <2> QED  BY <2>3, <2>4, <2>5 DEF StreamInv, Open
<1>5. CASE HandleFrame
  <2>1. PICK n \in 0..Len(R) : /\ taken' = taken \o SubSeq(R, 1, n)
                               /\ R' = SubSeq(R, n + 1, Len(R))
    BY <1>5, FrameEffect DEF R
  <2>2. taken' \o R' = taken \o R  BY <2>1, TakenThenRest
  <2>3. ToSay' = ToSay /\ UNCHANGED <<script, sent, inbox, phase>> /\ phase = "ws"
    BY <1>5 DEF HandleFrame, ToSay
  <2> QED  BY <2>2, <2>3 DEF StreamInv, Open
<1>6. CASE ParseWaits
  <2>1. IsBuffer(readBuf) /\ Len(R) \in Nat  BY <1>0, LenProperties DEF Types, TypeOK
  <2>2. R' = R  BY <1>0, <1>6, <2>1, PutBackUnits DEF ParseWaits, Unread, R
  <2> QED  BY <1>1, <1>6, <2>2 DEF ParseWaits
<1>7. CASE phase' \notin {"http", "ws"}
  BY <1>7 DEF StreamInv, Open
<1>8. ASSUME NEW to \in {"closed", "refused"}, Close(to)
      PROVE  StreamInv'
  <2>1. CASE ~ (phase = "http" /\ upgraded)
    BY <1>7, <1>8, <2>1 DEF Close
  <2>2. CASE phase = "http" /\ upgraded
    <3>1. Open /\ ToSay = Wire(script)  BY <2>2 DEF Open, ToSay
    <3>2. Len(taken) = Len(Wire(script))  BY <2>2 DEF StreamInv
    <3>3. Len(inbox) = 0  BY <1>0, <3>1, <3>2, StreamLengths
    <3>4. inbox = <<>>  BY <1>0, <3>3, EmptySeq
    <3>5. phase' = "ws" /\ sent' = 0 /\ taken' = <<>> /\ inbox' = <<>> /\ script' = script
      BY <1>8, <2>2, <3>4 DEF Close
    <3>6. R' = <<>>  BY <1>8, NewUnits DEF Close, R
    <3>7. ToSay' = Frames(script')  BY <3>5 DEF ToSay
    <3>8. Frames(script') \in Seq(Unit) /\ Len(Frames(script')) \in Nat
      BY <1>0, <3>5, StreamAssumption, LenProperties
    <3>9. SubSeq(ToSay', 1, 0) = <<>>  BY SubSeqEmpty
    <3>10. <<>> \in Seq(Unit) /\ <<>> \o <<>> = <<>>
      BY EmptySeq, ConcatEmptySeq
    <3> QED  BY <3>5, <3>6, <3>7, <3>8, <3>9, <3>10 DEF StreamInv
  <2> QED  BY <2>1, <2>2
<1>9. CASE SendDone /\ ~ closeAfterWrite
  BY <1>1, <1>9 DEF SendDone, R
<1> QED
  BY <1>1, <1>2, <1>3, <1>4, <1>5, <1>6, <1>7, <1>8, <1>9 DEF Next, vars, Reading, Writing,
     ClientEnds, ReadEvent, WriteEvent, Pushed, RecvDry, RecvEnds, DecodeWaits, R,
     RefuseFrame, HandlerThrows, DecodeThrows, Ends, Send, SendBlocks, SendFails, SendDone

(* The initial state: nothing is sent.                                     *)
LEMMA StreamInit == Init => StreamInv
<1> SUFFICES ASSUME Init PROVE StreamInv
  OBVIOUS
<1>1. R = <<>> /\ inbox = <<>> /\ taken = <<>> /\ sent = 0 /\ ~ upgraded
  BY NewUnits DEF Init, R
<1>2. SubSeq(ToSay, 1, 0) = <<>>  BY SubSeqEmpty
<1>3. <<>> \in Seq(Unit) /\ <<>> \o <<>> = <<>>  BY EmptySeq, ConcatEmptySeq
<1>4. Len(ToSay) \in Nat  BY TypesInit, ToSayUnits
<1> QED  BY <1>1, <1>2, <1>3, <1>4 DEF StreamInv

(* However the network cuts the stream and however the buffers move, what  *)
(* has been taken, what is buffered and what is still in the kernel are    *)
(* what was sent; an upgraded socket's frames begin where its request ends.*)
THEOREM StreamAlwaysIntact == Spec => []StreamIntact
<1>1. StreamInv => StreamIntact  BY DEF StreamInv, StreamIntact, R
<1> QED  BY <1>1, StreamInit, StreamStep, TypesAlways, PTL DEF Spec

-----------------------------------------------------------------------------
(* No unit of an answer is lost or doubled on the way to the kernel.       *)

LostInv == NothingLost /\ (pc # "idle" => Open)

(* Every step.                                                             *)
LEMMA LostStep == Types /\ LostInv /\ [Next]_vars => LostInv'
<1> SUFFICES ASSUME Types, LostInv, [Next]_vars PROVE LostInv'
  OBVIOUS
<1> USE DEF client, buffers, flags, history
<1> DEFINE Live == ~ fin /\ phase \notin {"ended", "refused"}
<1>0. /\ delivered \in Seq(Unit) /\ W \in Seq(Unit) /\ out \in Seq(Unit)
      /\ (Live => delivered \o W = out)
  BY DEF Types, TypeOK, LostInv, NothingLost, W
<1>1. ASSUME delivered' \o W' = out', pc' # "idle" => Open'
      PROVE  LostInv'
  BY <1>1 DEF LostInv, NothingLost, W
<1>2. ASSUME fin' \/ phase' \in {"ended", "refused"}, pc' = "idle"
      PROVE  LostInv'
  BY <1>2 DEF LostInv, NothingLost
<1>3. CASE UNCHANGED <<delivered, writeBuf, out, phase>> /\ (fin => fin')
           /\ (pc' # "idle" => Open)
  <2>1. W' = W  BY <1>3 DEF W
  <2> QED  BY <1>3, <2>1 DEF LostInv, NothingLost, W, Open
<1>4. ASSUME NEW s \in Seq(Unit), Contents(writeBuf') = W \o s, out' = out \o s,
             UNCHANGED <<delivered, phase, fin, pc>>
      PROVE  LostInv'
  <2>1. delivered \o (W \o s) = (delivered \o W) \o s
    <3>1. delivered \in Seq(Unit) /\ W \in Seq(Unit)  BY <1>0
    <3>2. s \in Seq(Unit)  BY <1>4
    <3> HIDE DEF W
    <3> QED  BY ONLY <3>1, <3>2, RegroupUnits
  <2>2. Live => delivered' \o Contents(writeBuf') = out'  BY <1>0, <1>4, <2>1
  <2> QED  BY <1>4, <2>2 DEF LostInv, NothingLost, Open
<1>5. CASE Pushed
  <2>1. PICK d \in Others : Put(Push(d))  BY <1>5 DEF Pushed
  <2> QED  BY <1>4, <1>5, <2>1, PushUnits, PutTypes DEF Pushed
<1>6. CASE HandleRequest
  BY <1>4, <1>6, RequestEffect DEF HandleRequest
<1>7. CASE HandleFrame
  BY <1>4, <1>7, FrameEffect DEF HandleFrame
<1>8. CASE Send
  <2>1. PICK n \in 0..Len(W) :
          /\ Contents(writeBuf') = SubSeq(W, n + 1, Len(W))
          /\ delivered' = delivered \o SubSeq(W, 1, n)
    BY <1>8, SendEffect
  <2>2. /\ SubSeq(W, 1, n) \in Seq(Unit) /\ SubSeq(W, n + 1, Len(W)) \in Seq(Unit)
        /\ SubSeq(W, 1, n) \o SubSeq(W, n + 1, Len(W)) = W
    BY <1>0, SuffixUnits
  <2>3. (delivered \o SubSeq(W, 1, n)) \o SubSeq(W, n + 1, Len(W)) = delivered \o W
    <3> DEFINE p == SubSeq(W, 1, n)
               q == SubSeq(W, n + 1, Len(W))
               S == Unit
    <3>1. delivered \in Seq(S) /\ p \in Seq(S) /\ q \in Seq(S)  BY <1>0, <2>2
    <3>2. p \o q = W  BY <2>2
    <3> HIDE DEF p, q, S
    <3>3. (delivered \o p) \o q = delivered \o (p \o q)  BY ONLY <3>1, Regroup
    <3>4. (delivered \o p) \o q = delivered \o W  BY <3>2, <3>3
    <3> QED  BY <3>4 DEF p, q
  <2>4. UNCHANGED <<phase, fin, pc, out>>  BY <1>8 DEF Send
  <2> QED  BY <1>0, <2>1, <2>3, <2>4 DEF LostInv, NothingLost, Open
<1>9. CASE RecvEnds \/ SendFails
  BY <1>2, <1>9 DEF RecvEnds, SendFails, Close
<1>10. CASE RefuseFrame
  BY <1>2, <1>10 DEF RefuseFrame, Close
<1>11. CASE HandlerThrows \/ DecodeThrows
  BY <1>2, <1>11 DEF HandlerThrows, DecodeThrows, Ends
<1>12. CASE SendDone
  <2>1. W = <<>>
    <3>1. Len(W) = 0  BY <1>12, ContentsType DEF SendDone, W, Types, TypeOK
    <3> QED  BY <1>0, <3>1, EmptySeq
  <2>2. Open  BY <1>12 DEF SendDone, LostInv
  <2>3. CASE closeAfterWrite
    <3>1. /\ W' = <<>> /\ UNCHANGED <<delivered, out, fin>> /\ pc' = "idle"
      BY <1>12, <2>3, NewUnits DEF SendDone, Close, W
    <3>2. Live \/ fin  BY <2>2 DEF Open
    <3> QED  BY <1>0, <1>1, <2>1, <3>1, <3>2 DEF LostInv, NothingLost
  <2>4. CASE ~ closeAfterWrite
    BY <1>3, <1>12, <2>4 DEF SendDone
  <2> QED  BY <2>3, <2>4
<1>13. CASE ClientSends \/ ClientEnds \/ ReadEvent \/ WriteEvent
  BY <1>3, <1>13 DEF ClientSends, ClientEnds, ReadEvent, WriteEvent, LostInv
<1>14. CASE Recv \/ RecvDry \/ SendBlocks \/ UNCHANGED vars
  BY <1>3, <1>14 DEF Recv, RecvDry, SendBlocks, vars, LostInv
<1>15. CASE ParseWaits \/ DecodeWaits
  <2>1. pc # "idle"  BY <1>15 DEF ParseWaits, DecodeWaits
  <2>2. Open  BY <2>1 DEF LostInv
  <2> QED  BY <1>3, <1>15, <2>2 DEF ParseWaits, DecodeWaits
<1> QED
  BY <1>5, <1>6, <1>7, <1>8, <1>9, <1>10, <1>11, <1>12, <1>13, <1>14, <1>15
     DEF Next, Reading, Writing

(* Nothing has been written.                                               *)
LEMMA LostInit == Init => LostInv
<1> SUFFICES ASSUME Init PROVE LostInv
  OBVIOUS
<1>1. W = <<>> /\ delivered = <<>> /\ out = <<>> /\ pc = "idle"
  BY NewUnits DEF Init, W
<1>2. <<>> \o <<>> = <<>>  BY EmptySeq, ConcatEmptySeq
<1> QED  BY <1>1, <1>2 DEF LostInv, NothingLost, W

(* Unless the client left, the process ended or a frame was refused, every *)
(* unit of every answer and message is with the kernel or still buffered:  *)
(* no connection is closed, and none handed over, with output unsent.      *)
THEOREM NothingIsLost == Spec => []NothingLost
<1>1. LostInv => NothingLost  BY DEF LostInv
<1> QED  BY <1>1, LostInit, LostStep, TypesAlways, PTL DEF Spec

-----------------------------------------------------------------------------
(* Induction, and sequences put together by FlattenSeq.                    *)

(* A set of naturals has a least element: WFMin for <, whose parameters    *)
(* are sets, where an induction theorem would ask for a predicate.         *)
LEMMA Least ==
  ASSUME NEW T \in SUBSET Nat, T # {}
  PROVE  \E n \in T : \A m \in T : n <= m
<1> DEFINE Less == OpToRel(<, Nat)
<1>1. \E n \in T : \A m \in T : ~ (<<m, n>> \in Less)
  <2>1. IsWellFoundedOn(Less, Nat)  BY NatLessThanWellFounded
  <2> HIDE DEF Less
  <2> QED  BY <2>1, WFMin
<1>2. \A m, n \in Nat : m < n => <<m, n>> \in Less
  BY DEF OpToRel
<1> HIDE DEF Less
<1>3. PICK n \in T : \A m \in T : ~ (<<m, n>> \in Less)  BY <1>1
<1>4. ASSUME NEW m \in T PROVE n <= m
  <2>1. m \in Nat /\ n \in Nat  OBVIOUS
  <2>2. ~ (m < n)  BY <1>2, <1>3, <2>1
  <2> QED  BY <2>1, <2>2
<1> QED  BY <1>3, <1>4

(* Induction over the naturals for a set.                                  *)
LEMMA CountingUp ==
  ASSUME NEW S, 0 \in S, \A n \in Nat : n \in S => n + 1 \in S
  PROVE  \A n \in Nat : n \in S
<1> DEFINE T == {n \in Nat : n \notin S}
<1> SUFFICES ASSUME T # {} PROVE FALSE
  OBVIOUS
<1>1. PICK n \in T : \A m \in T : n <= m
  <2>1. T \in SUBSET Nat  OBVIOUS
  <2> HIDE DEF T
  <2> QED  BY <2>1, Least
<1>2. n \in Nat \ {0} /\ n - 1 \in Nat  OBVIOUS
<1>3. n - 1 \in S  BY <1>1, <1>2
<1>4. (n - 1) + 1 = n  BY <1>2
<1>5. n \in S  BY <1>2, <1>3, <1>4
<1> QED  BY <1>5
(* The recursive function within FlattenSeq: f[i] is the first i of ss put *)
(* together.  There is such a function, so the CHOOSE that defines it picks *)
(* one.                                                                    *)
Stages(ss, n, f) ==
    f = [i \in 1..n |-> IF i = 1 THEN ss[i] ELSE f[i - 1] \o ss[i]]

(* There is such a function for any length.                                *)
LEMMA StagesExist == ASSUME NEW ss PROVE \A n \in Nat : \E f : Stages(ss, n, f)
<1> DEFINE S == {n \in Nat : \E f : Stages(ss, n, f)}
<1>1. 0 \in S
  <2>1. Stages(ss, 0, [i \in 1..0 |-> 0])  BY DEF Stages
  <2> QED  BY <2>1
<1>2. ASSUME NEW n \in Nat, n \in S PROVE n + 1 \in S
  <2>1. PICK f : Stages(ss, n, f)  BY <1>2
  <2> DEFINE last == IF n + 1 = 1 THEN ss[n + 1] ELSE f[n] \o ss[n + 1]
             g == [i \in 1..(n + 1) |-> IF i = n + 1 THEN last ELSE f[i]]
  <2>2. ASSUME NEW i \in 1..(n + 1)
        PROVE  g[i] = IF i = 1 THEN ss[i] ELSE g[i - 1] \o ss[i]
    <3>1. CASE i = n + 1
      <4>1. i # 1 => i - 1 \in 1..(n + 1) /\ i - 1 # n + 1 /\ i - 1 = n  BY <3>1
      <4>2. i # 1 => g[i - 1] = f[n]  BY <4>1
      <4> QED  BY <3>1, <4>1, <4>2
    <3>2. CASE i # n + 1
      <4>1. i \in 1..n  BY <3>2
      <4>2. f[i] = IF i = 1 THEN ss[i] ELSE f[i - 1] \o ss[i]
        BY <2>1, <4>1 DEF Stages
      <4>3. i # 1 => i - 1 \in 1..(n + 1) /\ i - 1 # n + 1  BY <3>2
      <4>4. g[i] = f[i] /\ (i # 1 => g[i - 1] = f[i - 1])  BY <3>2, <4>3
      <4> QED  BY <4>2, <4>4
    <3> QED  BY <3>1, <3>2
  <2>3. g = [i \in 1..(n + 1) |-> g[i]]  OBVIOUS
  <2> HIDE DEF g
  <2>4. Stages(ss, n + 1, g)  BY <2>2, <2>3 DEF Stages
  <2> QED  BY <2>4
<1> HIDE DEF S
<1>3. \A n \in Nat : n \in S  BY <1>1, <1>2, CountingUp
<1> QED  BY <1>3 DEF S

(* FlattenSeq is its value at the end.                                     *)
LEMMA FlattenStages ==
  ASSUME NEW ss, Len(ss) \in Nat \ {0}
  PROVE  \E f : Stages(ss, Len(ss), f) /\ FlattenSeq(ss) = f[Len(ss)]
<1> DEFINE F == CHOOSE f : Stages(ss, Len(ss), f)
<1>1. Stages(ss, Len(ss), F)
  <2>1. \E f : Stages(ss, Len(ss), f)  BY StagesExist
  <2> QED  BY <2>1
<1>2. FlattenSeq(ss) = F[Len(ss)]
  BY DEF FlattenSeq, Stages
<1> QED  BY <1>1, <1>2

(* L[k] is where the k-th of ss ends in FlattenSeq(ss).                    *)
PartEnds(ss, L) ==
    /\ L \in [0..Len(ss) -> Nat] /\ L[0] = 0
    /\ \A k \in 1..Len(ss) : L[k] = L[k - 1] + Len(ss[k])
    /\ L[Len(ss)] = Len(FlattenSeq(ss))
    /\ \A k \in 1..Len(ss) : \A i \in 1..Len(ss[k]) : FlattenSeq(ss)[L[k - 1] + i] = ss[k][i]

(* Every sequence of sequences has such ends.                              *)
LEMMA EndsExist ==
  ASSUME NEW U, NEW ss \in Seq(Seq(U))
  PROVE  \E L : PartEnds(ss, L)
<1> DEFINE n == Len(ss)
<1>1. n \in Nat /\ \A k \in 1..n : ss[k] \in Seq(U) /\ Len(ss[k]) \in Nat
  BY LenProperties, ElementOfSeq
<1>2. CASE n = 0
  <2> DEFINE L == [k \in 0..0 |-> 0]
  <2>1. FlattenSeq(ss) = ss  BY <1>2 DEF FlattenSeq
  <2>2. L \in [0..Len(ss) -> Nat] /\ L[0] = 0  BY <1>2
  <2>3. \A k \in 1..Len(ss) : FALSE  BY <1>2
  <2> HIDE DEF L
  <2>4. PartEnds(ss, L)  BY <1>2, <2>1, <2>2, <2>3 DEF PartEnds
  <2> QED  BY <2>4
<1>3. CASE n # 0
  <2>0. n \in Nat \ {0}  BY <1>1, <1>3
  <2>1. PICK f : Stages(ss, n, f) /\ FlattenSeq(ss) = f[n]
    BY <2>0, FlattenStages
  <2> DEFINE L == [k \in 0..n |-> IF k = 0 THEN 0 ELSE Len(f[k])]
  <2>2. f[1] = ss[1] /\ \A k \in 1..n : k # 1 => f[k] = f[k - 1] \o ss[k]
    <3> HIDE DEF n
    <3>1. 1 \in 1..n  BY <2>0
    <3>2. \A k \in 1..n : f[k] = IF k = 1 THEN ss[k] ELSE f[k - 1] \o ss[k]
      BY <2>1 DEF Stages
    <3> QED  BY <3>1, <3>2
  <2>3. L[0] = 0 /\ \A k \in 1..n : L[k] = Len(f[k])  BY <2>0
  <2>4. L = [k \in 0..n |-> L[k]]  OBVIOUS
  <2> DEFINE Good(k) ==
        /\ f[k] \in Seq(U) /\ L[k] \in Nat /\ L[k - 1] \in Nat
        /\ L[k] = L[k - 1] + Len(ss[k])
        /\ \A j \in 1..k : \A i \in 1..Len(ss[j]) :
             /\ L[j - 1] + i \in 1..L[k]
             /\ f[k][L[j - 1] + i] = ss[j][i]
      S == {k \in Nat : k \in 1..n => Good(k)}
  <2> HIDE DEF n, L
  <2>5. 0 \in S  BY <1>1
  <2>6. ASSUME NEW k \in Nat, k \in S PROVE k + 1 \in S
    <3> SUFFICES ASSUME k + 1 \in 1..n PROVE Good(k + 1)
      <4> HIDE DEF Good
      <4> QED  OBVIOUS
    <3> DEFINE s == ss[k + 1]
    <3>0. s \in Seq(U) /\ Len(s) \in Nat /\ (k + 1) - 1 = k  BY <1>1
    <3>1. CASE k = 0
      <4>1. f[1] = s /\ L[1] = Len(s) /\ L[0] = 0  BY <2>2, <2>3, <3>1
      <4>2. ASSUME NEW j \in 1..(k + 1), NEW i \in 1..Len(ss[j])
            PROVE  L[j - 1] + i \in 1..L[k + 1] /\ f[k + 1][L[j - 1] + i] = ss[j][i]
        <5>1. j = 1 /\ j - 1 = 0 /\ i \in 1..Len(s) /\ ss[j] = s  BY <3>1
        <5>2. L[j - 1] + i = i  BY <3>0, <4>1, <5>1
        <5> QED  BY <3>0, <3>1, <4>1, <5>1, <5>2
      <4>3. L[k + 1] = L[(k + 1) - 1] + Len(ss[k + 1])  BY <3>0, <3>1, <4>1
      <4> HIDE DEF s
      <4> QED  BY <3>0, <3>1, <4>1, <4>2, <4>3
    <3>2. CASE k # 0
      <4> HIDE DEF s
      <4>1. k \in 1..n /\ Good(k)
        <5>1. k \in 1..n  BY <1>1, <3>2
        <5>2. k \in 1..n => Good(k)
          <6> HIDE DEF Good
          <6> QED  BY <2>6
        <5> QED  BY <5>1, <5>2
      <4>2. f[k + 1] = f[k] \o s
        <5>1. k + 1 # 1  BY <3>2
        <5> QED  BY <2>2, <3>0, <5>1 DEF s
      <4>3. L[k] = Len(f[k]) /\ L[k + 1] = Len(f[k + 1])  BY <2>3, <4>1
      <4>4. /\ f[k + 1] \in Seq(U) /\ Len(f[k + 1]) = L[k] + Len(s)
            /\ \A i \in 1..(L[k] + Len(s)) :
                 f[k + 1][i] = IF i <= L[k] THEN f[k][i] ELSE s[i - L[k]]
        <5>1. f[k] \in Seq(U) /\ s \in Seq(U)  BY <3>0, <4>1
        <5> HIDE DEF Good, S
        <5> QED  BY <4>2, <4>3, <5>1, ConcatProperties
      <4>5. L[k + 1] \in Nat /\ L[k] \in Nat /\ L[k + 1] = L[k] + Len(s)
        <5>1. L[k] \in Nat  BY <4>1
        <5> HIDE DEF Good, S
        <5> QED  BY <3>0, <4>3, <4>4, <5>1
      <4>6. ASSUME NEW j \in 1..(k + 1), NEW i \in 1..Len(ss[j])
            PROVE  L[j - 1] + i \in 1..L[k + 1] /\ f[k + 1][L[j - 1] + i] = ss[j][i]
        <5>1. CASE j = k + 1
          <6>1. j - 1 = k /\ ss[j] = s /\ i \in 1..Len(s)
            BY <5>1 DEF s
          <6>2. L[k] + i \in 1..(L[k] + Len(s)) /\ ~ (L[k] + i <= L[k]) /\ (L[k] + i) - L[k] = i
            BY <3>0, <4>5, <6>1
          <6> QED  BY <4>4, <4>5, <6>1, <6>2
        <5>2. CASE j # k + 1
          <6>1. j \in 1..k  BY <5>2
          <6>2. L[j - 1] + i \in 1..L[k] /\ f[k][L[j - 1] + i] = ss[j][i]
            BY <4>1, <6>1
          <6> HIDE DEF Good, S
          <6>3. L[j - 1] + i \in 1..(L[k] + Len(s)) /\ L[j - 1] + i <= L[k]
            BY <3>0, <4>5, <6>2
          <6> QED  BY <4>4, <4>5, <6>2, <6>3
        <5> QED  BY <5>1, <5>2
      <4>7. L[k + 1] = L[(k + 1) - 1] + Len(ss[k + 1]) /\ L[(k + 1) - 1] \in Nat
        BY <3>0, <4>5 DEF s
      <4> QED  BY <4>4, <4>5, <4>6, <4>7
    <3> QED  BY <3>1, <3>2
  <2> HIDE DEF S
  <2>7. \A k \in Nat : k \in S  BY <2>5, <2>6, CountingUp
  <2>8. ASSUME NEW k \in 1..n PROVE Good(k)
    BY <1>1, <2>7 DEF S
  <2> HIDE DEF Good
  <2>9. Good(n)  BY <2>0, <2>8
  <2>10. L \in [0..n -> Nat]
    <3>1. ASSUME NEW k \in 0..n PROVE L[k] \in Nat
      <4>1. CASE k = 0  BY <2>3, <4>1
      <4>2. CASE k # 0
        <5>1. k \in 1..n  BY <1>1, <4>2
        <5> QED  BY <2>8, <5>1 DEF Good
      <4> QED  BY <4>1, <4>2
    <3> QED  BY <2>4, <3>1
  <2>11. L[n] = Len(FlattenSeq(ss))  BY <2>0, <2>1, <2>3
  <2>12. \A k \in 1..n : L[k] = L[k - 1] + Len(ss[k])  BY <2>8 DEF Good
  <2>13. \A k \in 1..n : \A i \in 1..Len(ss[k]) : FlattenSeq(ss)[L[k - 1] + i] = ss[k][i]
    BY <2>1, <2>9 DEF Good
  <2>14. PartEnds(ss, L)  BY <2>3, <2>10, <2>11, <2>12, <2>13 DEF PartEnds, n
  <2> QED  BY <2>14
<1> QED  BY <1>2, <1>3

(* PartEnds of non-empty parts lie one behind the other.                       *)
LEMMA EndsGrow ==
  ASSUME NEW ss, NEW L, PartEnds(ss, L), Len(ss) \in Nat,
         \A k \in 1..Len(ss) : Len(ss[k]) \in Nat \ {0}
  PROVE  \A k \in 0..Len(ss) : L[k] <= L[Len(ss)] /\ (L[k] = L[Len(ss)] => k = Len(ss))
<1> DEFINE n == Len(ss)
           S == {d \in Nat : d <= n => L[n - d] <= L[n] /\ (d # 0 => L[n - d] < L[n])}
<1>1. /\ n \in Nat /\ \A k \in 0..n : L[k] \in Nat
      /\ \A k \in 1..n : L[k - 1] < L[k]
  <2>1. n \in Nat /\ \A k \in 0..n : L[k] \in Nat  BY DEF PartEnds
  <2>2. ASSUME NEW k \in 1..n PROVE L[k - 1] < L[k]
    <3>1. L[k] = L[k - 1] + Len(ss[k]) /\ Len(ss[k]) \in Nat \ {0}  BY DEF PartEnds
    <3> HIDE DEF n
    <3>2. k - 1 \in 0..n  BY <2>1
    <3> QED  BY <2>1, <3>1, <3>2
  <2> QED  BY <2>1, <2>2
<1> HIDE DEF n
<1>2. 0 \in S  BY <1>1
<1>3. ASSUME NEW d \in Nat, d \in S PROVE d + 1 \in S
  <2> SUFFICES ASSUME d + 1 <= n PROVE L[n - (d + 1)] < L[n]
    <3>1. n - (d + 1) \in 0..n => L[n - (d + 1)] \in Nat  BY <1>1
    <3>2. L[n] \in Nat  BY <1>1
    <3> QED  BY <1>1, <3>1, <3>2
  <2>1. n - d \in 1..n /\ n - d - 1 = n - (d + 1) /\ n - d \in 0..n /\ n - (d + 1) \in 0..n
    BY <1>1
  <2>2. L[n - (d + 1)] < L[n - d]  BY <1>1, <2>1
  <2>3. L[n - d] <= L[n]  BY <1>1, <1>3
  <2>4. L[n - d] \in Nat /\ L[n] \in Nat /\ L[n - (d + 1)] \in Nat  BY <1>1, <2>1
  <2> QED  BY <2>2, <2>3, <2>4
<1> HIDE DEF S
<1>4. \A d \in Nat : d \in S  BY <1>2, <1>3, CountingUp
<1>5. ASSUME NEW k \in 0..n PROVE L[k] <= L[n] /\ (L[k] = L[n] => k = n)
  <2>1. n - k \in Nat /\ n - k <= n /\ n - (n - k) = k  BY <1>1
  <2>2. L[k] <= L[n] /\ (n - k # 0 => L[k] < L[n])  BY <1>4, <2>1 DEF S
  <2>3. L[k] \in Nat /\ L[n] \in Nat  BY <1>1
  <2> QED  BY <1>1, <2>2, <2>3
<1> QED  BY <1>5 DEF n


-----------------------------------------------------------------------------
(* What is dispatched is what was said.                                    *)

RequestParts(s) == [i \in 1..Len(s.requests) |-> RequestUnits(s.requests[i])]
FrameParts(s) == [i \in 1..Len(s.frames) |-> FrameUnits(s.frames[i])]
EndsOf(ss) == CHOOSE L : PartEnds(ss, L)

Dispatched == [req : Requests, body : Seq(Unit)] \cup [op : Opcodes, payload : Seq(Unit)]

(* Two sequences put together, seen from each of them.                     *)
LEMMA Glued ==
  ASSUME NEW S, NEW s \in Seq(S), NEW t \in Seq(S)
  PROVE  /\ s \o t \in Seq(S) /\ Len(s) \in Nat /\ Len(t) \in Nat
         /\ Len(s \o t) = Len(s) + Len(t)
         /\ \A i \in 1..Len(s) : (s \o t)[i] = s[i]
         /\ \A i \in 1..Len(t) : (s \o t)[Len(s) + i] = t[i]
<1>1. /\ s \o t \in Seq(S) /\ Len(s \o t) = Len(s) + Len(t)
      /\ \A i \in 1..(Len(s) + Len(t)) :
           (s \o t)[i] = IF i <= Len(s) THEN s[i] ELSE t[i - Len(s)]
  BY ConcatProperties
<1>2. Len(s) \in Nat /\ Len(t) \in Nat  BY LenProperties
<1>3. ASSUME NEW i \in 1..Len(s) PROVE (s \o t)[i] = s[i]
  <2>1. i \in 1..(Len(s) + Len(t)) /\ i <= Len(s)  BY <1>2
  <2> QED  BY <1>1, <2>1
<1>4. ASSUME NEW i \in 1..Len(t) PROVE (s \o t)[Len(s) + i] = t[i]
  <2>1. Len(s) + i \in 1..(Len(s) + Len(t)) /\ ~ (Len(s) + i <= Len(s)) /\ (Len(s) + i) - Len(s) = i
    BY <1>2
  <2> QED  BY <1>1, <2>1
<1> QED  BY <1>1, <1>2, <1>3, <1>4

(* The units of a request, one by one.                                     *)
LEMMA RequestUnitsAre ==
  ASSUME NEW m \in [req : Requests, body : Seq(Unit)]
  PROVE  /\ RequestUnits(m) \in Seq(Unit)
         /\ Len(RequestUnits(m)) = 2 + Len(m.body)
         /\ RequestUnits(m)[1] = [is |-> "line", req |-> m.req]
         /\ RequestUnits(m)[2] = End
         /\ \A i \in 1..Len(m.body) : RequestUnits(m)[2 + i] = m.body[i]
<1> DEFINE head == <<[is |-> "line", req |-> m.req], End>>
           body == m.body
           U == Unit
<1>1. head \in Seq(U) /\ Len(head) = 2
      /\ head[1] = [is |-> "line", req |-> m.req] /\ head[2] = End
  <2>1. [is |-> "line", req |-> m.req] \in Unit /\ End \in Unit  BY DEF Unit
  <2> QED  BY <2>1
<1>2. body \in Seq(U)  OBVIOUS
<1>3. RequestUnits(m) = head \o body  BY DEF RequestUnits
<1> HIDE DEF head, body, U
<1>4. /\ head \o body \in Seq(U) /\ Len(head) \in Nat /\ Len(head \o body) = Len(head) + Len(body)
      /\ \A i \in 1..Len(head) : (head \o body)[i] = head[i]
      /\ \A i \in 1..Len(body) : (head \o body)[Len(head) + i] = body[i]
  <2>1. head \in Seq(U) /\ body \in Seq(U)  BY <1>1, <1>2
  <2> QED  BY ONLY <2>1, Glued
<1>5. (head \o body)[1] = head[1] /\ (head \o body)[2] = head[2]  BY <1>1, <1>4
<1> QED  BY <1>1, <1>3, <1>4, <1>5 DEF body, U

ClientFrame == [op : Opcodes, rsv : BOOLEAN, masked : BOOLEAN,
                len : 0..(WordSize - 1), payload : Seq(Unit)]

(* The units of a frame: its first two and, when it is masked, the others. *)
Opening(f) == Len(FrameUnits(f)) - Len(f.payload)

(* How a client's frame looks on the wire.                                 *)
LEMMA FrameUnitsAre ==
  ASSUME NEW f \in ClientFrame
  PROVE  /\ FrameUnits(f) \in Seq(Unit)
         /\ Opening(f) \in {2, 3, 4} /\ Len(FrameUnits(f)) = Opening(f) + Len(f.payload)
         /\ FrameUnits(f)[1].is = "b0" /\ FrameUnits(f)[1].rsv = f.rsv
         /\ FrameUnits(f)[1].op = f.op
         /\ FrameUnits(f)[2].is = "b1" /\ FrameUnits(f)[2].masked = f.masked
         /\ FrameUnits(f)[2].form = Form(f.len)
         /\ Form(f.len) = "len" => FrameUnits(f)[2].low = f.len
         /\ Form(f.len) # "len" => /\ Opening(f) >= 3
                                   /\ FrameUnits(f)[3].is = "ext" /\ FrameUnits(f)[3].len = f.len
         /\ f.masked => Opening(f) = IF Form(f.len) = "len" THEN 3 ELSE 4
         /\ \A i \in 1..Len(f.payload) : FrameUnits(f)[Opening(f) + i] = f.payload[i]
<1> DEFINE b0 == [is |-> "b0", op |-> f.op, rsv |-> f.rsv]
           b1 == [is |-> "b1", masked |-> f.masked, form |-> Form(f.len),
                  low |-> IF Form(f.len) = "len" THEN f.len ELSE 0]
           x == [is |-> "ext", len |-> f.len]
           k == [is |-> "key"]
           two == <<b0, b1>>
           ext == IF Form(f.len) = "len" THEN <<>> ELSE <<x>>
           key == IF f.masked THEN <<k>> ELSE <<>>
<1>1. b0 \in Unit /\ b1 \in Unit /\ x \in Unit /\ k \in Unit
  <2>1. b0 \in Unit  BY DEF Unit, ClientFrame
  <2>2. b1 \in Unit
    <3>1. Form(f.len) \in Forms  BY DEF Form, Forms
    <3>2. f.len \in Nat /\ f.masked \in BOOLEAN  BY StreamAssumption DEF ClientFrame
    <3>3. (IF Form(f.len) = "len" THEN f.len ELSE 0) \in 0..(Short - 1)
      BY <3>2, StreamAssumption DEF Form
    <3> QED  BY <3>1, <3>2, <3>3 DEF Unit
  <2>3. x \in Unit /\ k \in Unit  BY DEF Unit, ClientFrame
  <2> QED  BY <2>1, <2>2, <2>3
<1>2. /\ b0.is = "b0" /\ b0.rsv = f.rsv /\ b0.op = f.op /\ b1.is = "b1" /\ b1.masked = f.masked
      /\ b1.form = Form(f.len) /\ (Form(f.len) = "len" => b1.low = f.len)
      /\ x.is = "ext" /\ x.len = f.len
  OBVIOUS
<1>3. f.payload \in Seq(Unit) /\ Len(f.payload) \in Nat /\ f.masked \in BOOLEAN
  BY LenProperties DEF ClientFrame
<1>4. FrameUnits(f) = ((two \o ext) \o key) \o f.payload  BY DEF FrameUnits
<1> DEFINE U == Unit
<1> HIDE DEF b0, b1, x, k, U
<1>5. two \in Seq(U) /\ Len(two) = 2 /\ two[1] = b0 /\ two[2] = b1
  BY <1>1 DEF U
<1>6. /\ ext \in Seq(U) /\ (Form(f.len) = "len" => Len(ext) = 0)
      /\ (Form(f.len) # "len" => Len(ext) = 1 /\ ext[1] = x)
  <2>1. <<>> \in Seq(U) /\ Len(<<>>) = 0  BY EmptySeq
  <2>2. <<x>> \in Seq(U) /\ Len(<<x>>) = 1 /\ <<x>>[1] = x  BY <1>1 DEF U
  <2> QED  BY <2>1, <2>2
<1>7. key \in Seq(U) /\ Len(key) \in {0, 1} /\ (f.masked => Len(key) = 1)
  <2>1. <<>> \in Seq(U) /\ Len(<<>>) = 0  BY EmptySeq
  <2>2. <<k>> \in Seq(U) /\ Len(<<k>>) = 1  BY <1>1 DEF U
  <2> QED  BY <1>3, <2>1, <2>2
<1> HIDE DEF two, ext, key
<1> DEFINE t == two \o ext
           h == t \o key
           o == Len(h)
           p == f.payload
<1>8. /\ t \in Seq(U) /\ Len(t) = 2 + Len(ext) /\ Len(ext) \in Nat
      /\ \A i \in 1..2 : t[i] = two[i]
      /\ \A i \in 1..Len(ext) : t[2 + i] = ext[i]
  <2>1. two \in Seq(U) /\ ext \in Seq(U)  BY <1>5, <1>6
  <2>2. /\ two \o ext \in Seq(U) /\ Len(ext) \in Nat /\ Len(two \o ext) = Len(two) + Len(ext)
        /\ \A i \in 1..Len(two) : (two \o ext)[i] = two[i]
        /\ \A i \in 1..Len(ext) : (two \o ext)[Len(two) + i] = ext[i]
    BY ONLY <2>1, Glued
  <2> QED  BY <1>5, <2>2
<1>9. t[1] = b0 /\ t[2] = b1 /\ (Form(f.len) # "len" => Len(t) = 3 /\ t[3] = x)
  <2> HIDE DEF t
  <2>1. t[1] = two[1] /\ t[2] = two[2]  BY <1>8
  <2>2. ASSUME Form(f.len) # "len" PROVE Len(t) = 3 /\ t[3] = x
    <3>1. Len(ext) = 1 /\ ext[1] = x /\ 1 \in 1..Len(ext)  BY <1>6, <2>2
    <3>2. t[2 + 1] = ext[1]  BY <1>8, <3>1
    <3> QED  BY <1>8, <3>1, <3>2
  <2> QED  BY <1>5, <2>1, <2>2
<1> HIDE DEF t
<1>10. /\ h \in Seq(U) /\ o = Len(t) + Len(key) /\ \A i \in 1..Len(t) : h[i] = t[i]
  BY <1>7, <1>8, Glued
<1> HIDE DEF h, o
<1>11. /\ o \in {2, 3, 4} /\ Len(t) \in {2, 3}
       /\ h[1] = b0 /\ h[2] = b1 /\ (Form(f.len) # "len" => o >= 3 /\ h[3] = x)
  <2>1. Len(t) \in {2, 3}
    <3>1. Len(ext) \in {0, 1}  BY <1>6
    <3> QED  BY <1>8, <3>1
  <2>2. o \in {2, 3, 4}
    <3> DEFINE m == Len(t)
               l == Len(key)
    <3>1. (l = 0 \/ l = 1) /\ o = m + l /\ (m = 2 \/ m = 3)  BY <1>7, <1>10, <2>1
    <3> HIDE DEF m, l
    <3> QED  BY <3>1
  <2>3. h[1] = t[1] /\ h[2] = t[2] /\ (Len(t) = 3 => o >= 3 /\ h[3] = t[3])
    BY <1>7, <1>10, <2>1
  <2> QED  BY <1>9, <2>1, <2>2, <2>3
<1>12. f.masked => o = IF Form(f.len) = "len" THEN 3 ELSE 4
  <2>1. Form(f.len) = "len" => Len(t) = 2  BY <1>6, <1>8
  <2>2. Form(f.len) # "len" => Len(t) = 3  BY <1>9
  <2> SUFFICES ASSUME f.masked PROVE o = IF Form(f.len) = "len" THEN 3 ELSE 4
    OBVIOUS
  <2> DEFINE m == Len(t)
             l == Len(key)
  <2>3. l = 1 /\ o = m + l /\ (Form(f.len) = "len" => m = 2) /\ (Form(f.len) # "len" => m = 3)
    BY <1>7, <1>10, <2>1, <2>2
  <2> HIDE DEF m, l
  <2> QED  BY <2>3
<1>13. p \in Seq(U)  BY <1>3 DEF U
<1>14. FrameUnits(f) = h \o p  BY <1>4 DEF h, t
<1> HIDE DEF p
<1>15. /\ h \o p \in Seq(U) /\ Len(h \o p) = o + Len(p)
       /\ \A i \in 1..o : (h \o p)[i] = h[i]
       /\ \A i \in 1..Len(p) : (h \o p)[o + i] = p[i]
  <2>1. h \in Seq(U) /\ p \in Seq(U)  BY <1>10, <1>13
  <2>2. /\ h \o p \in Seq(U) /\ Len(h \o p) = Len(h) + Len(p)
        /\ \A i \in 1..Len(h) : (h \o p)[i] = h[i]
        /\ \A i \in 1..Len(p) : (h \o p)[Len(h) + i] = p[i]
    BY ONLY <2>1, Glued
  <2> QED  BY <2>2 DEF o
<1>16. /\ (h \o p)[1] = b0 /\ (h \o p)[2] = b1
       /\ (Form(f.len) # "len" => (h \o p)[3] = x)
  <2>1. 1 \in 1..o /\ 2 \in 1..o /\ (o >= 3 => 3 \in 1..o)  BY <1>11
  <2> QED  BY <1>11, <1>15, <2>1
<1>17. Opening(f) = o
  <2>1. Len(p) \in Nat  BY <1>3 DEF p
  <2>2. Opening(f) = Len(h \o p) - Len(p)  BY <1>14 DEF Opening, p
  <2> QED  BY <1>11, <1>15, <2>1, <2>2
<1> QED  BY <1>2, <1>11, <1>12, <1>14, <1>15, <1>16, <1>17 DEF U, p

(* The requests and the frames of a script, each on the wire.              *)
LEMMA PartsAre ==
  ASSUME NEW s \in Scripts
  PROVE  /\ RequestParts(s) \in Seq(Seq(Unit)) /\ Len(RequestParts(s)) = Len(s.requests)
         /\ FrameParts(s) \in Seq(Seq(Unit)) /\ Len(FrameParts(s)) = Len(s.frames)
         /\ Len(s.requests) \in Nat /\ Len(s.frames) \in Nat
         /\ DOMAIN s.requests = 1..Len(s.requests) /\ DOMAIN s.frames = 1..Len(s.frames)
         /\ \A i \in 1..Len(s.requests) :
              /\ s.requests[i] \in [req : Requests, body : Seq(Unit)]
              /\ RequestParts(s)[i] = RequestUnits(s.requests[i])
              /\ Len(RequestParts(s)[i]) \in Nat \ {0}
         /\ \A i \in 1..Len(s.frames) : /\ s.frames[i] \in ClientFrame
                                        /\ FrameParts(s)[i] = FrameUnits(s.frames[i])
<1>1. /\ s.requests \in Seq([req : Requests, body : Seq(Unit)])
      /\ s.frames \in Seq(ClientFrame)
  BY AnnouncementAssumption DEF ClientFrame
<1>2. /\ Len(s.requests) \in Nat /\ Len(s.frames) \in Nat
      /\ \A i \in 1..Len(s.requests) : s.requests[i] \in [req : Requests, body : Seq(Unit)]
      /\ \A i \in 1..Len(s.frames) : s.frames[i] \in ClientFrame
  BY <1>1, LenProperties, ElementOfSeq
<1>3. \A i \in 1..Len(s.requests) : /\ RequestUnits(s.requests[i]) \in Seq(Unit)
                                    /\ Len(RequestUnits(s.requests[i])) \in Nat \ {0}
  <2> TAKE i \in 1..Len(s.requests)
  <2> DEFINE m == s.requests[i]
  <2>1. m \in [req : Requests, body : Seq(Unit)]  BY <1>2
  <2> HIDE DEF m
  <2>2. Len(m.body) \in Nat  BY <2>1, LenProperties
  <2>3. RequestUnits(m) \in Seq(Unit) /\ Len(RequestUnits(m)) = 2 + Len(m.body)
    BY <2>1, RequestUnitsAre
  <2> QED  BY <2>2, <2>3 DEF m
<1>4. \A i \in 1..Len(s.frames) : FrameUnits(s.frames[i]) \in Seq(Unit)
  BY <1>2, FrameUnitsAre
<1> DEFINE U == Seq(Unit)
           n == Len(s.requests)
           m == Len(s.frames)
<1>5. RequestParts(s) = [i \in 1..n |-> RequestUnits(s.requests[i])]  BY DEF RequestParts
<1>6. FrameParts(s) = [i \in 1..m |-> FrameUnits(s.frames[i])]  BY DEF FrameParts
<1>7. /\ \A i \in 1..n : RequestUnits(s.requests[i]) \in U
      /\ \A i \in 1..m : FrameUnits(s.frames[i]) \in U
      /\ n \in Nat /\ m \in Nat
  BY <1>2, <1>3, <1>4
<1> HIDE DEF U, n, m
<1>8. RequestParts(s) \in Seq(U) /\ Len(RequestParts(s)) = n
  BY <1>5, <1>7
<1>9. FrameParts(s) \in Seq(U) /\ Len(FrameParts(s)) = m
  BY <1>6, <1>7
<1>10. DOMAIN s.requests = 1..n /\ DOMAIN s.frames = 1..m
  BY <1>1, LenProperties DEF n, m
<1> QED  BY <1>2, <1>3, <1>5, <1>6, <1>8, <1>9, <1>10 DEF U, n, m

(* What the client sends is these parts one after the other.               *)
LEMMA EndsOfParts ==
  ASSUME NEW s \in Scripts
  PROVE  /\ PartEnds(RequestParts(s), EndsOf(RequestParts(s)))
         /\ PartEnds(FrameParts(s), EndsOf(FrameParts(s)))
         /\ Wire(s) = FlattenSeq(RequestParts(s))
         /\ Frames(s) = FlattenSeq(FrameParts(s))
<1>1. RequestParts(s) \in Seq(Seq(Unit)) /\ FrameParts(s) \in Seq(Seq(Unit))
  BY PartsAre
<1>2. \A ss \in Seq(Seq(Unit)) : PartEnds(ss, EndsOf(ss))
  <2> TAKE ss \in Seq(Seq(Unit))
  <2>1. \E L : PartEnds(ss, L)  BY EndsExist
  <2> QED  BY <2>1 DEF EndsOf
<1> QED  BY <1>1, <1>2 DEF Wire, Frames, RequestParts, FrameParts

(* What readBuf_ holds while the units taken end with a part.              *)
LEMMA NextPart ==
  ASSUME Types, StreamInv, Open,
         NEW ss \in Seq(Seq(Unit)), NEW L, PartEnds(ss, L), ToSay = FlattenSeq(ss),
         NEW k \in 0..Len(ss), Len(taken) = L[k]
  PROVE  /\ k = Len(ss) => Len(R) = 0
         /\ k < Len(ss) =>
              /\ k + 1 \in 1..Len(ss)
              /\ L[k + 1] = Len(taken) + Len(ss[k + 1]) /\ Len(ss[k + 1]) \in Nat
              /\ \A i \in 1..Len(R) : i <= Len(ss[k + 1]) => R[i] = ss[k + 1][i]
              /\ k + 1 = Len(ss) => Len(R) <= Len(ss[k + 1])
<1> DEFINE n == Len(ss)
<1>1. /\ Len(taken) \in Nat /\ Len(R) \in Nat /\ Len(inbox) \in Nat /\ Len(ToSay) \in Nat
      /\ Len(taken) + Len(R) + Len(inbox) = sent /\ sent <= Len(ToSay)
      /\ \A i \in 1..Len(R) : R[i] = ToSay[Len(taken) + i]
  BY StreamLengths, ToSayUnits
<1>2. /\ n \in Nat /\ \A j \in 1..n : ss[j] \in Seq(Unit) /\ Len(ss[j]) \in Nat
  BY LenProperties, ElementOfSeq
<1>3. /\ L[n] = Len(ToSay)
      /\ \A j \in 1..n : L[j] = L[j - 1] + Len(ss[j])
      /\ \A j \in 1..n : \A i \in 1..Len(ss[j]) : ToSay[L[j - 1] + i] = ss[j][i]
  BY DEF PartEnds
<1> DEFINE r == Len(R)
           t == Len(taken)
           q == Len(inbox)
           y == Len(ToSay)
<1>4. r \in Nat /\ t \in Nat /\ q \in Nat /\ y \in Nat /\ t + r + q <= y
  BY <1>1
<1>5. t = L[k] /\ L[n] = y /\ k \in 0..n  BY <1>3
<1> HIDE DEF r, t, q, y, n
<1>6. k = n => r = 0  BY <1>4, <1>5
<1>7. ASSUME k < n
      PROVE  /\ k + 1 \in 1..n /\ L[k + 1] = t + Len(ss[k + 1]) /\ Len(ss[k + 1]) \in Nat
             /\ \A i \in 1..r : i <= Len(ss[k + 1]) => R[i] = ss[k + 1][i]
             /\ k + 1 = n => r <= Len(ss[k + 1])
  <2>1. k + 1 \in 1..n /\ (k + 1) - 1 = k  BY <1>2, <1>5, <1>7
  <2>2. L[k + 1] = t + Len(ss[k + 1]) /\ Len(ss[k + 1]) \in Nat
    BY <1>2, <1>3, <1>5, <2>1
  <2>3. ASSUME NEW i \in 1..r, i <= Len(ss[k + 1]) PROVE R[i] = ss[k + 1][i]
    <3>1. i \in 1..Len(ss[k + 1])  BY <1>4, <2>2, <2>3
    <3>2. R[i] = ToSay[t + i]  BY <1>1 DEF r, t
    <3>3. ToSay[L[(k + 1) - 1] + i] = ss[k + 1][i]  BY <1>3, <2>1, <3>1
    <3> QED  BY <1>5, <2>1, <3>2, <3>3
  <2>4. k + 1 = n => r <= Len(ss[k + 1])
    <3> DEFINE l == Len(ss[k + 1])
    <3>1. k + 1 = n => t + l = y /\ l \in Nat  BY <1>5, <2>2
    <3> HIDE DEF l
    <3>2. k + 1 = n => r <= l  BY <1>4, <3>1
    <3> QED  BY <3>2 DEF l
  <2> QED  BY <2>1, <2>2, <2>3, <2>4
<1> QED  BY <1>6, <1>7 DEF r, t, n

(* What has been handled is the beginning of what was said, and what has   *)
(* been taken out of readBuf_ ends where the last of it ends on the wire:  *)
(* the parser and the decoder stand at the beginning of a message, as long *)
(* as no frame has been handled that is too long for an int.               *)
HandledInv ==
    LET n == Len(script.requests)
        h == Len(handled)
    IN  /\ \A i \in 1..h : Steady(i) => i <= Len(Said) /\ handled[i] = Said[i]
        /\ phase = "http" => h <= n /\ Len(taken) = EndsOf(RequestParts(script))[h]
        /\ phase = "ws" => h >= n
        /\ phase = "ws" /\ Steady(h + 1) => Len(taken) = EndsOf(FrameParts(script))[h - n]

(* No frame too long before a message, hence none before an earlier one.   *)
LEMMA SteadyBefore ==
  ASSUME Types, NEW i \in Nat, NEW j \in Nat, j <= i, Steady(i)
  PROVE  Steady(j)
<1>1. script \in Scripts  BY DEF Types, TypeOK
<1>2. Len(script.requests) \in Nat /\ DOMAIN script.frames = 1..Len(script.frames)
  BY <1>1, PartsAre
<1>3. ASSUME NEW k \in DOMAIN script.frames, Len(script.requests) + k < j
      PROVE  Sized(script.frames[k])
  <2>1. Len(script.requests) + k < i  BY <1>2, <1>3
  <2> QED  BY <2>1 DEF Steady
<1> QED  BY <1>3 DEF Steady

(* What is to be handled: all requests, then all frames.                   *)
LEMMA SaidIs ==
  ASSUME Types
  PROVE  /\ Said \in Seq(Dispatched)
         /\ Len(Said) = Len(script.requests) + Len(script.frames)
         /\ \A i \in 1..Len(script.requests) : Said[i] = Request(script.requests[i])
         /\ \A i \in 1..Len(script.frames) :
              Said[Len(script.requests) + i] = Frame(script.frames[i])
<1>1. script \in Scripts  BY DEF Types, TypeOK
<1> DEFINE n == Len(script.requests)
           m == Len(script.frames)
           p == [i \in 1..n |-> Request(script.requests[i])]
           q == [i \in 1..m |-> Frame(script.frames[i])]
           D == Dispatched
<1>2. /\ n \in Nat /\ m \in Nat
      /\ \A i \in 1..n : Request(script.requests[i]) \in D
      /\ \A i \in 1..m : Frame(script.frames[i]) \in D
  <2>1. /\ n \in Nat /\ m \in Nat
        /\ \A i \in 1..n : script.requests[i] \in [req : Requests, body : Seq(Unit)]
        /\ \A i \in 1..m : script.frames[i] \in ClientFrame
    BY <1>1, PartsAre
  <2> QED  BY <2>1 DEF Request, Frame, Dispatched, ClientFrame
<1> HIDE DEF n, m, D
<1>3. p \in Seq(D) /\ Len(p) = n /\ q \in Seq(D) /\ Len(q) = m
  BY <1>2
<1>4. /\ \A i \in 1..n : p[i] = Request(script.requests[i])
      /\ \A i \in 1..m : q[i] = Frame(script.frames[i])
  OBVIOUS
<1>5. Said = p \o q  BY DEF Said, n, m
<1> HIDE DEF p, q
<1>6. p \in Seq(D) /\ q \in Seq(D)  BY <1>3
<1>7. /\ p \o q \in Seq(D) /\ Len(p \o q) = Len(p) + Len(q)
      /\ \A i \in 1..Len(p) : (p \o q)[i] = p[i]
      /\ \A i \in 1..Len(q) : (p \o q)[Len(p) + i] = q[i]
  BY ONLY <1>6, Glued
<1> QED  BY <1>3, <1>4, <1>5, <1>7 DEF n, m, D

(* As long as there is no frame too long, all that is handled is said.     *)
LEMMA HandledIsSaid ==
  ASSUME Types, HandledInv, Steady(Len(handled) + 1)
  PROVE  Len(handled) <= Len(Said)
<1>1. Len(handled) \in Nat /\ Len(Said) \in Nat
  BY SaidIs, LenProperties DEF Types, TypeOK
<1>2. CASE Len(handled) = 0  BY <1>1, <1>2
<1>3. CASE Len(handled) # 0
  <2>1. Len(handled) \in 1..Len(handled) /\ Len(handled) + 1 \in Nat  BY <1>1, <1>3
  <2>2. Steady(Len(handled))  BY <1>1, <2>1, SteadyBefore
  <2> QED  BY <2>1, <2>2 DEF HandledInv
<1> QED  BY <1>2, <1>3

(* One more thing dispatched.                                              *)
LEMMA OneMoreHandled ==
  ASSUME Types, HandledInv, NEW e \in Dispatched, handled' = Append(handled, e),
         script' = script,
         Steady(Len(handled) + 1)
           => Len(handled) + 1 <= Len(Said) /\ e = Said[Len(handled) + 1]
  PROVE  /\ Len(handled') = Len(handled) + 1
         /\ \A i \in 1..Len(handled') : Steady(i)' => i <= Len(Said') /\ handled'[i] = Said'[i]
<1> DEFINE D == Dispatched
<1>1. handled \in Seq(D)  BY DEF Types, TypeOK, Dispatched
<1>2. Said' = Said /\ \A i : Steady(i)' <=> Steady(i)  BY DEF Said, Steady
<1> HIDE DEF D
<1>3. e \in D  BY DEF D
<1>4. /\ Len(handled) \in Nat /\ Len(handled') = Len(handled) + 1
      /\ \A i \in 1..Len(handled) : handled'[i] = handled[i]
      /\ handled'[Len(handled) + 1] = e
  BY <1>1, <1>3, AppendProperties, LenProperties
<1>5. \A i \in 1..Len(handled) : Steady(i) => i <= Len(Said) /\ handled[i] = Said[i]
  BY DEF HandledInv
<1>6. ASSUME NEW i \in 1..Len(handled'), Steady(i)
      PROVE  i <= Len(Said) /\ handled'[i] = Said[i]
  <2>1. i \in 1..Len(handled) \/ i = Len(handled) + 1  BY <1>4
  <2> QED  BY <1>4, <1>5, <1>6, <2>1
<1> QED  BY <1>2, <1>4, <1>6

(* A part of a sequence, found by its place.                               *)
LEMMA SamePart ==
  ASSUME NEW s \in Seq(Unit), NEW p \in Seq(Unit), NEW a \in Nat, NEW b \in Nat,
         b = a + Len(p), b <= Len(s), \A i \in 1..Len(p) : s[a + i] = p[i]
  PROVE  SubSeq(s, a + 1, b) = p
<1>1. Len(p) \in Nat /\ Len(s) \in Nat /\ \A i \in 1..Len(s) : s[i] \in Unit
  BY LenProperties, ElementOfSeq
<1>2. a + 1 \in Int /\ b \in Int /\ \A i \in (a + 1)..b : s[i] \in Unit
  BY <1>1
<1> DEFINE q == SubSeq(s, a + 1, b)
<1>3. /\ q \in Seq(Unit) /\ Len(q) = IF a + 1 <= b THEN b - (a + 1) + 1 ELSE 0
      /\ \A i \in 1..(b - (a + 1) + 1) : q[i] = s[(a + 1) + i - 1]
  BY <1>2, SubSeqProperties
<1> HIDE DEF q
<1>4. Len(q) = Len(p)  BY <1>1, <1>3
<1>5. ASSUME NEW i \in 1..Len(p) PROVE q[i] = p[i]
  <2>1. i \in 1..(b - (a + 1) + 1) /\ (a + 1) + i - 1 = a + i  BY <1>1
  <2> QED  BY <1>3, <2>1
<1>6. q = p  BY <1>3, <1>4, <1>5, SeqEqual
<1> QED  BY <1>6 DEF q

(* What a parser or decoder takes adds its length to what was taken.       *)
LEMMA TakenGrows ==
  ASSUME Types, NEW n \in 0..Len(R), taken' = taken \o SubSeq(R, 1, n)
  PROVE  Len(taken') = Len(taken) + n /\ Len(taken) \in Nat
<1>1. taken \in Seq(Unit) /\ R \in Seq(Unit)  BY DEF Types, TypeOK
<1> QED  BY <1>1, SuffixUnits, ConcatProperties, LenProperties

(* parse finds the next request where the last one ended.                  *)
LEMMA RequestNext ==
  ASSUME Types, StreamInv, HandledInv, phase = "http", Parses(R)
  PROVE  LET k == Len(handled) + 1
             m == script.requests[k]
             b == Len(m.body)
         IN  /\ k \in 1..Len(script.requests) /\ m \in [req : Requests, body : Seq(Unit)]
             /\ R[1].req = m.req /\ HeadEnd(R) = 2 /\ m.req.len = b
             /\ b \in Nat /\ 2 + b <= Len(R)
             /\ SubSeq(R, HeadEnd(R) + 1, HeadEnd(R) + R[1].req.len) = m.body
             /\ EndsOf(RequestParts(script))[k] = Len(taken) + 2 + b
<1> DEFINE ss == RequestParts(script)
           L == EndsOf(ss)
           h == Len(handled)
           n == Len(script.requests)
<1>1. /\ Open /\ script \in Scripts /\ ToSay = Wire(script)
      /\ R \in Seq(Unit) /\ handled \in Seq(Dispatched)
  BY DEF Open, ToSay, Types, TypeOK, Dispatched
<1>2. /\ ss \in Seq(Seq(Unit)) /\ Len(ss) = n /\ n \in Nat /\ Len(script.frames) \in Nat
      /\ PartEnds(ss, L) /\ ToSay = FlattenSeq(ss)
  BY <1>1, PartsAre, EndsOfParts
<1>3. h \in Nat /\ h <= n /\ Len(taken) = L[h]  BY <1>1, LenProperties DEF HandledInv
<1>4. HeadEnd(R) + R[1].req.len \in 2..Len(R)
  BY <1>1, RequestFits
<1>5. Len(R) \in Nat /\ Len(R) >= 2  BY <1>1, <1>4, LenProperties
<1> HIDE DEF ss, L, h, n
<1>6. /\ h # n
      /\ h < Len(ss) => /\ h + 1 \in 1..Len(ss)
                        /\ L[h + 1] = Len(taken) + Len(ss[h + 1]) /\ Len(ss[h + 1]) \in Nat
                        /\ \A i \in 1..Len(R) : i <= Len(ss[h + 1]) => R[i] = ss[h + 1][i]
                        /\ h + 1 = Len(ss) => Len(R) <= Len(ss[h + 1])
  <2>1. h \in 0..Len(ss)  BY <1>2, <1>3
  <2>2. h = Len(ss) => Len(R) = 0  BY <1>1, <1>2, <1>3, <2>1, NextPart
  <2>3. h # n  BY <1>2, <1>5, <2>2
  <2> QED  BY <1>1, <1>2, <1>3, <2>1, <2>3, NextPart
<1>7. h < n /\ h + 1 \in 1..n  BY <1>2, <1>3, <1>6
<1> DEFINE m == script.requests[h + 1]
           u == RequestUnits(m)
           b == Len(m.body)
<1>8. /\ m \in [req : Requests, body : Seq(Unit)] /\ ss[h + 1] = u
      /\ Brings(m.req.len, m.body, h + 1 = n)
  BY <1>1, <1>7, PartsAre, AnnouncementAssumption DEF ss, n
<1> HIDE DEF m
<1>9. /\ u \in Seq(Unit) /\ Len(u) = 2 + b /\ b \in Nat /\ m.body \in Seq(Unit)
      /\ u[1] = [is |-> "line", req |-> m.req] /\ u[2] = End
      /\ \A i \in 1..b : u[2 + i] = m.body[i]
  <2>1. m.body \in Seq(Unit) /\ b \in Nat  BY <1>8, LenProperties
  <2> QED  BY <1>8, <2>1, RequestUnitsAre
<1> HIDE DEF u
<1>10. /\ \A i \in 1..Len(R) : i <= 2 + b => R[i] = u[i]
       /\ h + 1 = n => Len(R) <= 2 + b
       /\ L[h + 1] = Len(taken) + 2 + b
  BY <1>2, <1>6, <1>7, <1>8, <1>9
<1>11. R[1] = [is |-> "line", req |-> m.req] /\ R[2] = End
  <2>1. 1 \in 1..Len(R) /\ 2 \in 1..Len(R) /\ 1 <= 2 + b /\ 2 <= 2 + b  BY <1>5, <1>9
  <2> QED  BY <1>9, <1>10, <2>1
<1>12. R[1].req = m.req /\ R[1] # End /\ m.req.len \in Nat
  BY <1>8, <1>11, StreamAssumption DEF End
<1>13. HeadEnd(R) = 2
  <2>1. 2 \in 1..Len(R) /\ \A j \in 1..(2 - 1) : j = 1  BY <1>5
  <2>2. \A j \in 1..(2 - 1) : R[j] # End  BY <1>12, <2>1
  <2>3. \A i \in 1..Len(R) : R[i] = End /\ (\A j \in 1..(i - 1) : R[j] # End) => i = 2
    <3> TAKE i \in 1..Len(R)
    <3>1. i = 1 => R[i] # End  BY <1>12
    <3>2. i > 2 => 2 \in 1..(i - 1)  BY <1>5
    <3> QED  BY <1>5, <1>11, <3>1, <3>2
  <2>4. HeadEnd(R) = CHOOSE i \in 1..Len(R) : R[i] = End /\ \A j \in 1..(i - 1) : R[j] # End
    BY <1>11, <2>1 DEF HeadEnd
  <2>5. \E i \in 1..Len(R) : R[i] = End /\ \A j \in 1..(i - 1) : R[j] # End
    BY <1>11, <2>1, <2>2
  <2> QED  BY <2>3, <2>4, <2>5
<1>14. m.req.len = b /\ HeadEnd(R) + R[1].req.len = 2 + b /\ 2 + b <= Len(R)
  <2>1. b <= m.req.len /\ (b = m.req.len \/ h + 1 = n)  BY <1>8 DEF Brings
  <2>2. 2 + m.req.len <= Len(R)  BY <1>4, <1>5, <1>12, <1>13
  <2>3. h + 1 = n => Len(R) <= 2 + b  BY <1>10
  <2>4. m.req.len = b  BY <1>5, <1>9, <1>12, <2>1, <2>2, <2>3
  <2> QED  BY <1>12, <1>13, <2>2, <2>4
<1>15. SubSeq(R, 2 + 1, 2 + b) = m.body
  <2>1. \A i \in 1..b : R[2 + i] = m.body[i]
    <3> TAKE i \in 1..b
    <3>1. 2 + i \in 1..Len(R) /\ 2 + i <= 2 + b  BY <1>5, <1>9, <1>14
    <3> QED  BY <1>9, <1>10, <3>1
  <2>2. 2 \in Nat /\ 2 + b \in Nat  BY <1>9
  <2> QED  BY <1>1, <1>9, <1>14, <2>1, <2>2, SamePart
<1>16. SubSeq(R, HeadEnd(R) + 1, HeadEnd(R) + R[1].req.len) = m.body
  BY <1>12, <1>13, <1>14, <1>15
<1> QED  BY <1>7, <1>8, <1>9, <1>10, <1>12, <1>13, <1>14, <1>16 DEF L, ss, n, h, m

(* Hence it is handled as it was said.                                     *)
LEMMA RequestAsSent ==
  ASSUME Types, StreamInv, HandledInv, HandleRequest
  PROVE  HandledInv'
<1> DEFINE n == Len(script.requests)
           h == Len(handled)
           m == script.requests[h + 1]
           b == Len(m.body)
           L == EndsOf(RequestParts(script))
<1>1. /\ phase = "http" /\ Parses(R) /\ script' = script /\ phase' = phase
      /\ taken' = taken \o SubSeq(R, 1, HeadEnd(R) + R[1].req.len)
      /\ handled' = Append(handled, [req |-> R[1].req,
            body |-> SubSeq(R, HeadEnd(R) + 1, HeadEnd(R) + R[1].req.len)])
  BY DEF HandleRequest, Unread, R, client
<1>2. /\ h + 1 \in 1..n /\ m \in [req : Requests, body : Seq(Unit)]
      /\ R[1].req = m.req /\ HeadEnd(R) = 2 /\ m.req.len = b
      /\ b \in Nat /\ 2 + b <= Len(R)
      /\ SubSeq(R, HeadEnd(R) + 1, HeadEnd(R) + R[1].req.len) = m.body
      /\ L[h + 1] = Len(taken) + 2 + b
  BY <1>1, RequestNext
<1>3. n \in Nat /\ h \in Nat /\ Len(script.frames) \in Nat /\ Len(R) \in Nat
  BY PartsAre, LenProperties DEF Types, TypeOK
<1>4. Len(Said) = n + Len(script.frames) /\ \A i \in 1..n : Said[i] = Request(script.requests[i])
  BY SaidIs
<1> HIDE DEF n, h, m, b, L
<1>5. handled' = Append(handled, Request(m)) /\ Request(m) \in Dispatched
  BY <1>1, <1>2 DEF Request, Dispatched
<1>6. h + 1 <= Len(Said) /\ Request(m) = Said[h + 1]
  BY <1>2, <1>3, <1>4 DEF m
<1>7. /\ Len(handled') = h + 1
      /\ \A i \in 1..Len(handled') : Steady(i)' => i <= Len(Said') /\ handled'[i] = Said'[i]
  BY <1>1, <1>5, <1>6, OneMoreHandled DEF h
<1>8. Len(taken') = L[h + 1]
  <2>1. 2 + b \in 0..Len(R) /\ HeadEnd(R) + R[1].req.len = 2 + b  BY <1>2, <1>3
  <2>2. taken' = taken \o SubSeq(R, 1, 2 + b)  BY <1>1, <2>1
  <2>3. Len(taken') = Len(taken) + (2 + b) /\ Len(taken) \in Nat  BY <2>1, <2>2, TakenGrows
  <2> DEFINE l == Len(taken)
  <2>4. L[h + 1] = l + 2 + b /\ Len(taken') = l + (2 + b) /\ l \in Nat /\ b \in Nat
    BY <1>2, <2>3
  <2> HIDE DEF l
  <2>5. l + 2 + b = l + (2 + b)  BY <2>4
  <2> QED  BY <2>4, <2>5
<1>9. /\ Len(handled') <= Len(script'.requests)
      /\ Len(taken') = EndsOf(RequestParts(script'))[Len(handled')]
  BY <1>1, <1>2, <1>7, <1>8 DEF n, L
<1> QED  BY <1>1, <1>7, <1>9 DEF HandledInv

(* Where the last frame ended, the next one begins.                        *)
LEMMA FrameNext ==
  ASSUME Types, StreamInv, HandledInv, phase = "ws", Len(R) >= 1,
         Steady(Len(handled) + 1)
  PROVE  LET f == script.frames[Upcoming]
             size == Opening(f) + Len(f.payload)
         IN  /\ Upcoming \in 1..Len(script.frames) /\ f \in ClientFrame
             /\ Brings(f.len, f.payload, Upcoming = Len(script.frames))
             /\ ~ Astray(R) /\ R[1].rsv = f.rsv /\ R[1].op = f.op
             /\ Len(R) >= 2 => R[2].masked = f.masked
             /\ Len(R) >= 2 /\ f.masked /\ (Extended(R) => Len(R) >= 3)
                  => Before(R) = Opening(f) /\ Declared(R) = f.len
             /\ \A i \in 1..Len(R) : i <= size => R[i] = FrameUnits(f)[i]
             /\ Upcoming = Len(script.frames) => Len(R) <= size
             /\ EndsOf(FrameParts(script))[Upcoming] = Len(taken) + size
<1> DEFINE ss == FrameParts(script)
           L == EndsOf(ss)
           r == Len(script.requests)
           n == Len(script.frames)
           h == Len(handled) - r
<1>1. /\ Open /\ script \in Scripts /\ ToSay = Frames(script)
      /\ R \in Seq(Unit) /\ handled \in Seq(Dispatched)
  BY DEF Open, ToSay, Types, TypeOK, Dispatched
<1>2. /\ ss \in Seq(Seq(Unit)) /\ Len(ss) = n /\ n \in Nat /\ r \in Nat
      /\ PartEnds(ss, L) /\ ToSay = FlattenSeq(ss)
  BY <1>1, PartsAre, EndsOfParts
<1>3. /\ Len(handled) \in Nat /\ h \in Nat /\ h <= n /\ Len(taken) = L[h]
      /\ Len(handled) = r + h /\ Len(R) \in Nat /\ Upcoming = h + 1
  <2>1. Len(handled) \in Nat /\ Len(handled) >= r /\ Len(taken) = L[h] /\ Len(handled) <= Len(Said)
    BY <1>1, LenProperties, HandledIsSaid DEF HandledInv
  <2>2. Len(Said) = r + n  BY SaidIs
  <2>3. Len(R) \in Nat  BY <1>1, LenProperties
  <2>4. Upcoming = h + 1  BY DEF Upcoming
  <2> HIDE DEF L, ss, r, n
  <2> QED  BY <1>2, <2>1, <2>2, <2>3, <2>4
<1> HIDE DEF ss, L, h, n, r
<1>4. h # n
  <2>1. h \in 0..Len(ss)  BY <1>2, <1>3
  <2>2. h = Len(ss) => Len(R) = 0  BY <1>1, <1>2, <1>3, <2>1, NextPart
  <2> QED  BY <1>2, <1>3, <2>2
<1>5. /\ h < n /\ h + 1 \in 1..n
      /\ L[h + 1] = Len(taken) + Len(ss[h + 1]) /\ Len(ss[h + 1]) \in Nat
      /\ \A i \in 1..Len(R) : i <= Len(ss[h + 1]) => R[i] = ss[h + 1][i]
      /\ h + 1 = n => Len(R) <= Len(ss[h + 1])
  <2>1. h \in 0..Len(ss) /\ h < Len(ss) /\ h < n  BY <1>2, <1>3, <1>4
  <2>2. /\ h + 1 \in 1..Len(ss)
        /\ L[h + 1] = Len(taken) + Len(ss[h + 1]) /\ Len(ss[h + 1]) \in Nat
        /\ \A i \in 1..Len(R) : i <= Len(ss[h + 1]) => R[i] = ss[h + 1][i]
        /\ h + 1 = Len(ss) => Len(R) <= Len(ss[h + 1])
    BY <1>1, <1>2, <1>3, <2>1, NextPart
  <2> QED  BY <1>2, <2>1, <2>2
<1> DEFINE f == script.frames[h + 1]
           u == FrameUnits(f)
           b == Len(f.payload)
           o == Opening(f)
<1>6. f \in ClientFrame /\ ss[h + 1] = u /\ Brings(f.len, f.payload, h + 1 = n)
  BY <1>1, <1>5, PartsAre, AnnouncementAssumption DEF ss, n
<1> HIDE DEF f
<1>7. /\ u \in Seq(Unit) /\ o \in {2, 3, 4} /\ Len(u) = o + b
      /\ u[1].is = "b0" /\ u[1].rsv = f.rsv /\ u[1].op = f.op
      /\ u[2].is = "b1" /\ u[2].masked = f.masked /\ u[2].form = Form(f.len)
      /\ Form(f.len) = "len" => u[2].low = f.len
      /\ Form(f.len) # "len" => o >= 3 /\ u[3].is = "ext" /\ u[3].len = f.len
      /\ f.masked => o = IF Form(f.len) = "len" THEN 3 ELSE 4
  BY <1>6, FrameUnitsAre
<1>8. b \in Nat
  BY <1>6, LenProperties DEF ClientFrame
<1> HIDE DEF u, b, o
<1>9. /\ \A i \in 1..Len(R) : i <= o + b => R[i] = u[i]
      /\ h + 1 = n => Len(R) <= o + b
      /\ L[h + 1] = Len(taken) + (o + b)
  BY <1>5, <1>6, <1>7
<1>10. /\ R[1] = u[1] /\ (Len(R) >= 2 => R[2] = u[2])
       /\ (o >= 3 /\ Len(R) >= 3 => R[3] = u[3])
  <2>1. /\ 1 \in 1..Len(R) /\ (Len(R) >= 2 => 2 \in 1..Len(R))
        /\ (Len(R) >= 3 => 3 \in 1..Len(R))
        /\ 1 <= o + b /\ 2 <= o + b /\ (o >= 3 => 3 <= o + b)
    BY <1>3, <1>7, <1>8
  <2> QED  BY <1>9, <2>1
<1>11. ASSUME Len(R) >= 2, f.masked, Extended(R) => Len(R) >= 3
       PROVE  Before(R) = o /\ Declared(R) = f.len
  <2>1. R[2].is = "b1" /\ R[2].form = Form(f.len)  BY <1>7, <1>10, <1>11
  <2>2. Extended(R) <=> Form(f.len) # "len"  BY <2>1 DEF Extended
  <2>3. o = IF Form(f.len) = "len" THEN 3 ELSE 4  BY <1>7, <1>11
  <2>4. Before(R) = o  BY <2>2, <2>3 DEF Before
  <2>5. CASE Form(f.len) = "len"
    <3>1. R[2].low = f.len  BY <1>7, <1>10, <1>11, <2>5
    <3>2. Declared(R) = Number(R[2])  BY <2>2, <2>5 DEF Declared
    <3> QED  BY <2>1, <2>4, <3>1, <3>2 DEF Number
  <2>6. CASE Form(f.len) # "len"
    <3>1. Len(R) >= 3  BY <1>11, <2>2, <2>6
    <3>2. R[3].is = "ext" /\ R[3].len = f.len  BY <1>7, <1>10, <2>6, <3>1
    <3>3. Declared(R) = Number(R[3])  BY <2>2, <2>6 DEF Declared
    <3> QED  BY <2>4, <3>2, <3>3 DEF Number
  <2> QED  BY <2>5, <2>6
<1>12. /\ ~ Astray(R) /\ R[1].rsv = f.rsv /\ R[1].op = f.op
       /\ Len(R) >= 2 => R[2].masked = f.masked
  BY <1>7, <1>10 DEF Astray
<1>13. Upcoming = h + 1 /\ f = script.frames[Upcoming]  BY <1>3 DEF f
<1> QED  BY <1>5, <1>6, <1>9, <1>11, <1>12, <1>13 DEF L, ss, n, u, b, o

(* tryDecode finds the next frame where the last one ended, and takes it   *)
(* as a whole if an int holds its length.                                  *)
LEMMA FrameDecoded ==
  ASSUME Types, StreamInv, HandledInv, phase = "ws", Steady(Len(handled) + 1),
         NEW d \in Decodings(R), d.is = "frame"
  PROVE  LET f == script.frames[Upcoming]
         IN  /\ Upcoming \in 1..Len(script.frames) /\ f \in ClientFrame
             /\ d.op = f.op /\ d.payload = f.payload
             /\ Sized(f) => /\ d.takes = Opening(f) + Len(f.payload)
                            /\ EndsOf(FrameParts(script))[Upcoming] = Len(taken) + d.takes
<1> DEFINE n == Len(script.frames)
           k == Upcoming
           c == Before(R) + Declared(R)
           f == script.frames[k]
           b == Len(f.payload)
           o == Opening(f)
<1>1. R \in Seq(Unit) /\ Len(R) \in Nat
  BY LenProperties DEF Types, TypeOK
<1>2. Decoded(R).is = "frame" /\ d = Decoded(R)
  <2>1. CASE Len(R) >= 1
    <3>1. ~ Astray(R)  BY <2>1, FrameNext
    <3> QED  BY <3>1 DEF Decodings
  <2>2. CASE Len(R) = 0
    <3>1. ~ Astray(R)  BY <1>1, <2>2, EmptySeq DEF Astray
    <3> QED  BY <3>1 DEF Decodings
  <2> QED  BY <1>1, <2>1, <2>2
<1>3. /\ c \in 3..Len(R) /\ R[2].masked /\ (Extended(R) => Len(R) >= 3)
      /\ d = [is |-> "frame", op |-> R[1].op, payload |-> SubSeq(R, Before(R) + 1, c),
              takes |-> IF AsInt(c) < 0 THEN Len(R) ELSE AsInt(c)]
  BY <1>1, <1>2, DecodedFits
<1>4. Len(R) >= 2 /\ Len(R) >= 1  BY <1>1, <1>3
<1>5. /\ k \in 1..n /\ f \in ClientFrame /\ Brings(f.len, f.payload, k = n)
      /\ R[1].op = f.op /\ f.masked
      /\ Before(R) = o /\ Declared(R) = f.len
      /\ \A i \in 1..Len(R) : i <= o + b => R[i] = FrameUnits(f)[i]
      /\ k = n => Len(R) <= o + b
      /\ EndsOf(FrameParts(script))[k] = Len(taken) + (o + b)
  BY <1>3, <1>4, FrameNext
<1>6. /\ o \in {2, 3, 4} /\ \A i \in 1..b : FrameUnits(f)[o + i] = f.payload[i]
  BY <1>5, FrameUnitsAre
<1>7. /\ b \in Nat /\ f.payload \in Seq(Unit) /\ f.len \in Nat
  BY <1>5, LenProperties, StreamAssumption DEF ClientFrame
<1>8. 2 * (o + f.len) < IntSize <=> Sized(f)
  BY DEF Sized, Total, Opening
<1> HIDE DEF n, k, c, f, b, o
<1>9. c = o + f.len /\ c \in Nat /\ c <= Len(R)  BY <1>1, <1>3, <1>5 DEF c
<1>10. f.len = b
  <2>1. b <= f.len /\ (b = f.len \/ k = n)  BY <1>5 DEF Brings, b
  <2>2. k = n => Len(R) <= o + b  BY <1>5
  <2>3. o \in Nat  BY <1>6
  <2> QED  BY <1>1, <1>7, <1>9, <2>1, <2>2, <2>3
<1>11. SubSeq(R, Before(R) + 1, c) = f.payload
  <2>1. \A i \in 1..b : R[o + i] = f.payload[i]
    <3> TAKE i \in 1..b
    <3>1. o \in Nat  BY <1>6
    <3>2. o + i \in 1..Len(R) /\ o + i <= o + b  BY <1>1, <1>7, <1>9, <1>10, <3>1
    <3> QED  BY <1>5, <1>6, <3>2
  <2>2. o \in Nat /\ c \in Nat /\ c = o + b /\ c <= Len(R)  BY <1>6, <1>9, <1>10
  <2>3. SubSeq(R, o + 1, c) = f.payload
    BY <1>1, <1>7, <2>1, <2>2, SamePart DEF b
  <2> QED  BY <1>5, <2>3
<1>12. Sized(f) => d.takes = o + b
  <2>1. c \in Nat /\ c > 0  BY <1>1, <1>3
  <2>2. Sized(f) => AsInt(c) = c  BY <1>8, <1>9, <2>1, AsIntNarrows
  <2> QED  BY <1>3, <1>9, <1>10, <2>1, <2>2
<1>13. d.op = f.op /\ d.payload = f.payload  BY <1>3, <1>5, <1>11
<1> QED  BY <1>5, <1>12, <1>13 DEF f, k, n, o, b

(* Hence it is handled as it was said.                                     *)
LEMMA FrameAsSent ==
  ASSUME Types, StreamInv, HandledInv, HandleFrame
  PROVE  HandledInv'
<1> DEFINE r == Len(script.requests)
           n == Len(script.frames)
           h == Len(handled)
           k == Upcoming
           f == script.frames[k]
           L == EndsOf(FrameParts(script))
<1>1. PICK d \in Decodings(R) :
        /\ d.is = "frame" /\ d.op \in Accepted
        /\ taken' = taken \o SubSeq(R, 1, d.takes)
        /\ handled' = Append(handled, [op |-> d.op, payload |-> d.payload])
  BY DEF HandleFrame, Unread, R
<1>2. phase = "ws" /\ script' = script /\ phase' = phase
  BY DEF HandleFrame, client
<1>3. /\ r \in Nat /\ n \in Nat /\ h \in Nat /\ h >= r
      /\ DOMAIN script.frames = 1..n
      /\ Len(Said) = r + n /\ \A i \in 1..n : Said[r + i] = Frame(script.frames[i])
  BY <1>2, SaidIs, PartsAre, LenProperties DEF Types, TypeOK, HandledInv
<1>4. /\ d.takes \in 0..Len(R)
      /\ [op |-> d.op, payload |-> d.payload] \in Dispatched
  <2>1. R \in Seq(Unit)  BY DEF Types
  <2>2. d.takes \in 0..Len(R) /\ d.payload \in Seq(Unit)  BY <1>1, <2>1, FrameFits
  <2> QED  BY <1>1, <2>2, StreamAssumption DEF Dispatched
<1>5. Steady(h + 1)
      => /\ k \in 1..n /\ d.op = f.op /\ d.payload = f.payload
         /\ Sized(f) => L[k] = Len(taken) + d.takes
  BY <1>1, <1>2, FrameDecoded
<1>6. k = h - r + 1  BY DEF Upcoming
<1> HIDE DEF r, n, h, k, f, L
<1>7. Steady(h + 1)
      => h + 1 <= Len(Said) /\ [op |-> d.op, payload |-> d.payload] = Said[h + 1]
  <2> SUFFICES ASSUME Steady(h + 1)
               PROVE  h + 1 <= Len(Said) /\ [op |-> d.op, payload |-> d.payload] = Said[h + 1]
    OBVIOUS
  <2>1. k \in 1..n /\ d.op = f.op /\ d.payload = f.payload  BY <1>5
  <2>2. h + 1 = r + k /\ r + k <= r + n  BY <1>3, <1>6, <2>1
  <2>3. Said[r + k] = Frame(f)  BY <1>3, <2>1 DEF f
  <2>4. Frame(f) = [op |-> d.op, payload |-> d.payload]  BY <2>1 DEF Frame
  <2> QED  BY <1>3, <2>2, <2>3, <2>4
<1>8. /\ Len(handled') = h + 1
      /\ \A i \in 1..Len(handled') : Steady(i)' => i <= Len(Said') /\ handled'[i] = Said'[i]
  BY <1>1, <1>2, <1>4, <1>7, OneMoreHandled DEF h
<1>9. Len(taken') = Len(taken) + d.takes
  BY <1>1, <1>4, TakenGrows
<1>10. Steady(h + 2) => Len(taken') = L[(h + 1) - r]
  <2> SUFFICES ASSUME Steady(h + 2) PROVE Len(taken') = L[(h + 1) - r]
    OBVIOUS
  <2>1. Steady(h + 1)
    <3>1. h + 2 \in Nat /\ h + 1 \in Nat /\ h + 1 <= h + 2  BY <1>3
    <3> QED  BY <3>1, SteadyBefore
  <2>2. k \in 1..n /\ r + k < h + 2  BY <1>3, <1>5, <1>6, <2>1
  <2>3. Sized(f)  BY <1>3, <2>2 DEF Steady, f, r
  <2>4. (h + 1) - r = k  BY <1>3, <1>6
  <2> QED  BY <1>5, <1>9, <2>1, <2>3, <2>4
<1>11. (Steady(Len(handled) + 1))' <=> Steady(h + 2)
  <2>1. Len(handled') + 1 = h + 2  BY <1>3, <1>8
  <2> QED  BY <1>2, <2>1 DEF Steady
<1>12. Len(handled') >= r /\ r = Len(script'.requests) /\ L = EndsOf(FrameParts(script'))
  BY <1>2, <1>3, <1>8 DEF r, L
<1> QED  BY <1>2, <1>8, <1>10, <1>11, <1>12 DEF HandledInv

(* An upgraded connection hands its socket over when all its requests have *)
(* been dispatched.                                                        *)
LEMMA HandOver ==
  ASSUME Types, StreamInv, HandledInv, phase = "http", upgraded
  PROVE  Len(handled) = Len(script.requests) /\ EndsOf(FrameParts(script))[0] = 0
<1> DEFINE ss == RequestParts(script)
           L == EndsOf(ss)
           h == Len(handled)
<1>1. script \in Scripts /\ handled \in Seq(Dispatched)
  BY DEF Types, TypeOK, Dispatched
<1>2. /\ Len(ss) \in Nat /\ Len(ss) = Len(script.requests)
      /\ \A i \in 1..Len(ss) : Len(ss[i]) \in Nat \ {0}
      /\ PartEnds(ss, L) /\ Wire(script) = FlattenSeq(ss)
      /\ PartEnds(FrameParts(script), EndsOf(FrameParts(script)))
  BY <1>1, PartsAre, EndsOfParts
<1>3. h \in Nat /\ h <= Len(ss) /\ Len(taken) = L[h]
  BY <1>1, <1>2, LenProperties DEF HandledInv
<1>4. Len(taken) = Len(Wire(script))  BY DEF StreamInv
<1>5. L[Len(ss)] = Len(Wire(script))  BY <1>2 DEF PartEnds
<1>6. EndsOf(FrameParts(script))[0] = 0  BY <1>2 DEF PartEnds
<1> HIDE DEF ss, L, h
<1>7. h = Len(ss)
  <2>1. h \in 0..Len(ss) /\ L[h] = L[Len(ss)]  BY <1>2, <1>3, <1>4, <1>5
  <2>2. \A k \in 0..Len(ss) : L[k] <= L[Len(ss)] /\ (L[k] = L[Len(ss)] => k = Len(ss))
    BY <1>2, EndsGrow
  <2> QED  BY <2>1, <2>2
<1> QED  BY <1>2, <1>6, <1>7 DEF h

(* Every step.                                                             *)
LEMMA HandledStep == Types /\ StreamInv /\ HandledInv /\ [Next]_vars => HandledInv'
<1> SUFFICES ASSUME Types, StreamInv, HandledInv, [Next]_vars PROVE HandledInv'
  OBVIOUS
<1> USE DEF client, buffers, flags, history
<1>1. CASE UNCHANGED <<script, phase, handled, taken>>
  BY <1>1 DEF HandledInv, Said, Steady
<1>2. CASE HandleRequest  BY <1>2, RequestAsSent
<1>3. CASE HandleFrame  BY <1>3, FrameAsSent
<1>4. CASE phase' \notin {"http", "ws"} /\ UNCHANGED <<script, handled>>
  BY <1>4 DEF HandledInv, Said, Steady
<1>5. ASSUME NEW to \in {"closed", "refused"}, Close(to), UNCHANGED handled
      PROVE  HandledInv'
  <2>1. CASE ~ (phase = "http" /\ upgraded)
    BY <1>4, <1>5, <2>1 DEF Close
  <2>2. CASE phase = "http" /\ upgraded
    <3>1. Len(handled) = Len(script.requests) /\ EndsOf(FrameParts(script))[0] = 0
      BY <2>2, HandOver
    <3>2. phase' = "ws" /\ taken' = <<>> /\ script' = script /\ handled' = handled
      BY <1>5, <2>2 DEF Close
    <3>3. Len(taken') = 0  BY <3>2, EmptySeq
    <3>4. Len(script.requests) \in Nat  BY PartsAre DEF Types, TypeOK
    <3>5. Len(handled) >= Len(script.requests) /\ Len(handled) - Len(script.requests) = 0
      BY <3>1, <3>4
    <3> QED  BY <3>1, <3>2, <3>3, <3>5 DEF HandledInv, Said, Steady
  <2> QED  BY <2>1, <2>2
<1>6. CASE SendDone /\ ~ closeAfterWrite
  BY <1>1, <1>6 DEF SendDone
<1> QED
  BY <1>1, <1>2, <1>3, <1>4, <1>5, <1>6 DEF Next, vars, Reading, Writing,
     ClientSends, ClientEnds, ReadEvent, WriteEvent, Pushed, Recv, RecvDry, RecvEnds,
     ParseWaits, DecodeWaits, RefuseFrame, HandlerThrows, DecodeThrows, Ends, Send,
     SendBlocks, SendFails, SendDone

(* Nothing has been dispatched.                                            *)
LEMMA HandledInit == Init => HandledInv
<1> SUFFICES ASSUME Init PROVE HandledInv
  OBVIOUS
<1>1. handled = <<>> /\ taken = <<>> /\ phase = "http"  BY DEF Init
<1>2. Len(handled) = 0 /\ Len(taken) = 0  BY <1>1, EmptySeq
<1>3. Types /\ script \in Scripts  BY TypesInit DEF Init
<1>4. EndsOf(RequestParts(script))[0] = 0  BY <1>3, EndsOfParts DEF PartEnds
<1>5. Len(Said) \in Nat  BY <1>3, SaidIs, LenProperties
<1>6. Len(script.requests) \in Nat  BY <1>3, PartsAre
<1> QED  BY <1>1, <1>2, <1>4, <1>5, <1>6 DEF HandledInv

(* The requests and frames that the server acts on are those the client    *)
(* said: their own bodies and payloads, in their order, none twice, none   *)
(* skipped, wherever the network cuts the stream, up to and with the first *)
(* frame whose length an int does not hold; what the server makes of the   *)
(* bytes behind that one is left open, as it is by the code.               *)
(* AnnouncementAssumption says what is needed of the client: bodies and    *)
(* payloads as long as announced, but for the last one, which may break off*)
THEOREM HandledAlwaysAsSent == Spec => []HandledAsSent
<1>1. Types /\ HandledInv => HandledAsSent
  <2> SUFFICES ASSUME Types, HandledInv PROVE HandledAsSent
    OBVIOUS
  <2>1. handled \in Seq(Dispatched) /\ Said \in Seq(Dispatched)
    BY SaidIs DEF Types, TypeOK, Dispatched
  <2>2. /\ DOMAIN handled = 1..Len(handled) /\ DOMAIN Said = 1..Len(Said)
        /\ Len(handled) \in Nat /\ Len(Said) \in Nat
    BY <2>1, LenProperties
  <2>3. \A i \in 1..Len(handled) : Steady(i) => i <= Len(Said) /\ handled[i] = Said[i]
    BY DEF HandledInv
  <2> QED  BY <2>2, <2>3 DEF HandledAsSent
<1>2. Init => Types /\ StreamInv /\ HandledInv  BY TypesInit, StreamInit, HandledInit
<1> QED  BY <1>1, <1>2, HandledStep, StreamStep, TypesStep, PTL DEF Spec

-----------------------------------------------------------------------------
(* Why a socket is given up.                                               *)

(* What the flags upgraded_ and closeAfterWrite_ say of the past.          *)
ReasonInv ==
    /\ Open => (Switching <=> phase = "ws" \/ upgraded)
    /\ phase = "http" /\ closeAfterWrite => Requested # {}
    /\ phase = "ws" /\ closeAfterWrite /\ Steady(Len(handled) + 1) => Closing
    /\ EndsForAReason

(* A request that is answered is the client's next one.                    *)
LEMMA RequestKeepsReasons ==
  ASSUME Types, HandledInv, HandledInv', ReasonInv, HandleRequest
  PROVE  ReasonInv'
<1> DEFINE n == Len(script.requests)
           k == Len(handled) + 1
<1>1. /\ phase = "http" /\ phase' = "http" /\ script' = script
      /\ upgraded' = (upgraded \/ Status(R[1].req) = 101)
      /\ \E b : handled' = Append(handled, [req |-> R[1].req, body |-> b])
  BY DEF HandleRequest, Unread, R, client
<1>2. PICK b : handled' = Append(handled, [req |-> R[1].req, body |-> b])  BY <1>1
<1>3. /\ n \in Nat /\ Len(handled) \in Nat
      /\ \A i \in 1..n : Said[i] = Request(script.requests[i])
  BY SaidIs, PartsAre, LenProperties DEF Types, TypeOK
<1>4. Len(handled') = k /\ handled'[k] = [req |-> R[1].req, body |-> b]
  BY <1>2, AppendProperties DEF Types, TypeOK
<1>5. k <= n /\ k \in 1..n /\ handled'[k] = Said[k]
  <2>1. Len(handled') <= n  BY <1>1 DEF HandledInv
  <2>2. k <= n /\ k \in 1..n /\ k \in 1..Len(handled')  BY <1>3, <1>4, <2>1
  <2>3. Steady(k)
    <3>1. DOMAIN script.frames \subseteq Nat  BY PartsAre DEF Types, TypeOK
    <3> HIDE DEF k
    <3>2. \A i \in Nat : ~ (n + i < k)  BY <1>3, <2>2
    <3> QED  BY <3>1, <3>2 DEF Steady, n
  <2>4. \A i \in 1..Len(handled') : Steady(i) => handled'[i] = Said[i]
    <3>1. Said' = Said /\ \A i : Steady(i)' <=> Steady(i)  BY <1>1 DEF Said, Steady
    <3> QED  BY <3>1 DEF HandledInv
  <2> HIDE DEF k
  <2> QED  BY <2>2, <2>3, <2>4
<1>6. R[1].req = script.requests[k].req
  <2>1. handled'[k].req = R[1].req  BY <1>4
  <2>2. handled'[k] = Request(script.requests[k])  BY <1>3, <1>5
  <2> HIDE DEF k
  <2>3. handled'[k].req = script.requests[k].req  BY <2>2 DEF Request
  <2> QED  BY <2>1, <2>3
<1>7. Requested' = Requested \cup {k}
  <2>1. Requested' = {i \in 1..n : i <= k}  BY <1>1, <1>4 DEF Requested
  <2>2. \A i \in 1..n : i <= k <=> i <= Len(handled) \/ i = k  BY <1>3
  <2> HIDE DEF k
  <2> QED  BY <1>5, <2>1, <2>2 DEF Requested
<1> HIDE DEF k
<1>8. Switching' <=> Switching \/ Status(script.requests[k].req) = 101
  BY <1>1, <1>7 DEF Switching
<1>9. Switching' <=> upgraded'  BY <1>1, <1>6, <1>8 DEF ReasonInv, Open
<1> QED  BY <1>1, <1>7, <1>9 DEF ReasonInv, EndsForAReason, Open

(* A frame that is handled is the client's next one, as long as there was  *)
(* none too long.                                                          *)
LEMMA FrameKeepsReasons ==
  ASSUME Types, HandledInv, HandledInv', ReasonInv, HandleFrame
  PROVE  ReasonInv'
<1> DEFINE n == Len(script.requests)
           m == Len(script.frames)
           h == Len(handled)
           k == h + 1 - n
<1>1. /\ phase = "ws" /\ phase' = "ws" /\ script' = script /\ upgraded' = upgraded
      /\ \E op, b : /\ closeAfterWrite' = (closeAfterWrite \/ op = CLOSE)
                    /\ handled' = Append(handled, [op |-> op, payload |-> b])
  BY DEF HandleFrame, client
<1>2. PICK op, b : /\ closeAfterWrite' = (closeAfterWrite \/ op = CLOSE)
                   /\ handled' = Append(handled, [op |-> op, payload |-> b])
  BY <1>1
<1>3. /\ n \in Nat /\ m \in Nat /\ h \in Nat /\ h >= n /\ Len(Said) = n + m
      /\ \A i \in 1..m : Said[n + i] = Frame(script.frames[i])
  BY <1>1, SaidIs, PartsAre, LenProperties DEF Types, TypeOK, HandledInv
<1>4. Len(handled') = h + 1 /\ handled'[h + 1] = [op |-> op, payload |-> b]
  BY <1>2, AppendProperties DEF Types, TypeOK
<1>5. Requested' = Requested
  <2>1. Requested' = {i \in 1..n : i <= h + 1}  BY <1>1, <1>4 DEF Requested
  <2>2. \A i \in 1..n : i <= h /\ i <= h + 1  BY <1>3
  <2> HIDE DEF h
  <2> QED  BY <2>1, <2>2 DEF Requested, h
<1>6. Switching' <=> Switching  BY <1>1, <1>5 DEF Switching
<1>7. ASSUME closeAfterWrite', (Steady(Len(handled) + 1))' PROVE Closing'
  <2>1. Steady(h + 2)
    <3>1. Len(handled') + 1 = h + 2  BY <1>3, <1>4
    <3> QED  BY <1>1, <1>7, <3>1 DEF Steady
  <2>2. Steady(h + 1)
    <3>1. h + 2 \in Nat /\ h + 1 \in Nat /\ h + 1 <= h + 2  BY <1>3
    <3> HIDE DEF h
    <3> QED  BY <2>1, <3>1, SteadyBefore
  <2>3. h + 1 <= n + m /\ handled'[h + 1] = Said[h + 1]
    <3>1. h + 1 \in 1..Len(handled')  BY <1>3, <1>4
    <3>2. Said' = Said /\ \A i : Steady(i)' <=> Steady(i)  BY <1>1 DEF Said, Steady
    <3>3. \A i \in 1..Len(handled') :
             Steady(i) => i <= Len(Said) /\ handled'[i] = Said[i]
      BY <3>2 DEF HandledInv
    <3>4. Len(Said) = n + m  BY <1>3
    <3> HIDE DEF h, n, m
    <3> QED  BY <2>2, <3>1, <3>3, <3>4
  <2>4. k \in 1..m /\ n + k = h + 1
    <3> HIDE DEF n, m, h
    <3> QED  BY <1>3, <2>3
  <2>5. op = script.frames[k].op
    <3>1. handled'[h + 1].op = op  BY <1>4
    <3>2. handled'[h + 1] = Frame(script.frames[k])  BY <1>3, <2>3, <2>4
    <3> HIDE DEF k, h
    <3>3. handled'[h + 1].op = script.frames[k].op  BY <3>2 DEF Frame
    <3> QED  BY <3>1, <3>3
  <2>6. Framed' = Framed \cup {k}
    <3>1. Framed' = {i \in 1..m : n + i <= h + 1}  BY <1>1, <1>4 DEF Framed
    <3>2. \A i \in 1..m : n + i <= h + 1 <=> n + i <= h \/ i = k  BY <1>3, <2>4
    <3>3. Framed = {i \in 1..m : n + i <= h}  BY DEF Framed
    <3> HIDE DEF k, h, n, m
    <3> QED  BY <2>4, <3>1, <3>2, <3>3
  <2> HIDE DEF k
  <2>7. Closing' <=> Closing \/ op = CLOSE  BY <1>1, <2>5, <2>6 DEF Closing
  <2> QED  BY <1>1, <1>2, <1>7, <2>2, <2>7 DEF ReasonInv
<1> QED  BY <1>1, <1>6, <1>7 DEF ReasonInv, EndsForAReason, Open

(* A frame that the decoder turns down is the client's next one, as far as *)
(* it has come.                                                            *)
LEMMA RefusedIsUpcoming ==
  ASSUME Types, StreamInv, HandledInv, phase = "ws", Steady(Len(handled) + 1),
         NEW d \in Decodings(R)
  PROVE  /\ d.is = "refuse" \/ (d.is = "frame" /\ d.op \notin Accepted)
            => Upcoming \in DOMAIN script.frames /\ Unservable(script.frames[Upcoming])
         /\ d.is = "throw"
            => Upcoming \in DOMAIN script.frames /\ Wraps(script.frames[Upcoming])
<1> DEFINE f == script.frames[Upcoming]
           n == Before(R) + Declared(R)
<1>1. R \in Seq(Unit) /\ Len(R) \in Nat  BY LenProperties DEF Types
<1>2. ~ Astray(R)
  <2>1. CASE Len(R) >= 1  BY <2>1, FrameNext
  <2>2. CASE Len(R) = 0  BY <1>1, <2>2, EmptySeq DEF Astray
  <2> QED  BY <1>1, <2>1, <2>2
<1>3. d = Decoded(R)  BY <1>2 DEF Decodings
<1>4. d.is = "wait" \/ Len(R) >= 2  BY <1>1, <1>3 DEF Decoded
<1> SUFFICES ASSUME Len(R) >= 2
             PROVE  /\ d.is = "refuse" \/ (d.is = "frame" /\ d.op \notin Accepted)
                       => Upcoming \in DOMAIN script.frames /\ Unservable(f)
                    /\ d.is = "throw"
                       => Upcoming \in DOMAIN script.frames /\ Wraps(f)
  BY <1>4
<1>5. /\ Upcoming \in 1..Len(script.frames) /\ f \in ClientFrame
      /\ R[1].rsv = f.rsv /\ R[1].op = f.op /\ R[2].masked = f.masked
      /\ f.masked /\ (Extended(R) => Len(R) >= 3)
           => Before(R) = Opening(f) /\ Declared(R) = f.len
  <2>1. Len(R) >= 1  BY <1>1
  <2> QED  BY <2>1, FrameNext
<1>6. Upcoming \in DOMAIN script.frames
  <2>1. DOMAIN script.frames = 1..Len(script.frames)
    BY PartsAre DEF Types, TypeOK
  <2> QED  BY <1>5, <2>1
<1>7. R[2].masked /\ ~ (Extended(R) /\ Len(R) < 3) => n = Total(f)
  <2>1. Total(f) = Opening(f) + f.len  BY DEF Total, Opening
  <2>2. R[2].masked /\ ~ (Extended(R) /\ Len(R) < 3)
        => Before(R) = Opening(f) /\ Declared(R) = f.len
    BY <1>1, <1>5
  <2> HIDE DEF f
  <2> QED  BY <2>1, <2>2
<1> HIDE DEF f, n
<1>8. ASSUME d.is = "refuse" PROVE Unservable(f)
  <2>1. \/ R[1].rsv \/ ~ R[2].masked
        \/ R[2].masked /\ ~ (Extended(R) /\ Len(R) < 3) /\ AsInt(n) = 0
    BY <1>3, <1>8 DEF Decoded, n
  <2> QED  BY <1>5, <1>7, <2>1 DEF Unservable
<1>9. ASSUME d.is = "frame", d.op \notin Accepted PROVE Unservable(f)
  <2>1. d.op = R[1].op  BY <1>1, <1>3, <1>9, DecodedFits
  <2> QED  BY <1>5, <1>9, <2>1 DEF Unservable
<1>10. ASSUME d.is = "throw" PROVE Wraps(f)
  <2>1. R[2].masked /\ ~ (Extended(R) /\ Len(R) < 3) /\ n >= WordSize
    BY <1>3, <1>10 DEF Decoded, n
  <2> QED  BY <1>7, <2>1 DEF Wraps
<1> QED  BY <1>6, <1>8, <1>9, <1>10 DEF f

(* The request at which a handler throws is the client's next one.         *)
LEMMA ThrowingIsNext ==
  ASSUME Types, StreamInv, HandledInv, HandlerThrows
  PROVE  Throwing(Len(handled) + 1)
<1> DEFINE m == script.requests[Len(handled) + 1]
<1>1. /\ phase = "http" /\ Parses(R)
      /\ Throws(R[1].req, SubSeq(R, HeadEnd(R) + 1, HeadEnd(R) + R[1].req.len))
  BY DEF HandlerThrows, Unread, R
<1>2. /\ Len(handled) + 1 \in 1..Len(script.requests)
      /\ R[1].req = m.req /\ SubSeq(R, HeadEnd(R) + 1, HeadEnd(R) + R[1].req.len) = m.body
  BY <1>1, RequestNext
<1>3. DOMAIN script.requests = 1..Len(script.requests)
  BY PartsAre DEF Types, TypeOK
<1>4. Throws(m.req, m.body)  BY <1>1, <1>2
<1> QED  BY <1>2, <1>3, <1>4 DEF Throwing

(* Every step.                                                             *)
LEMMA ReasonStep ==
  /\ Types /\ StreamInv /\ HandledInv /\ HandledInv' /\ LostInv /\ ReasonInv
  /\ [Next]_vars
  => ReasonInv'
<1> SUFFICES ASSUME Types, StreamInv, HandledInv, HandledInv', LostInv, ReasonInv, [Next]_vars
             PROVE  ReasonInv'
  OBVIOUS
<1> USE DEF client, buffers, flags, history
<1>1. ASSUME UNCHANGED <<script, handled>>
      PROVE  /\ Requested' = Requested /\ (Switching' <=> Switching) /\ (Closing' <=> Closing)
             /\ Upcoming' = Upcoming
             /\ (Steady(Len(handled) + 1))' <=> Steady(Len(handled) + 1)
             /\ (Throwing(Len(handled) + 1))' <=> Throwing(Len(handled) + 1)
  BY <1>1 DEF Requested, Framed, Switching, Closing, Upcoming, Steady, Throwing
<1>2. CASE /\ UNCHANGED <<script, handled, phase, closeAfterWrite, upgraded>>
           /\ fin' = fin \/ fin'
  BY <1>1, <1>2 DEF ReasonInv, EndsForAReason, Open
<1>3. CASE HandleRequest  BY <1>3, RequestKeepsReasons
<1>4. CASE HandleFrame  BY <1>4, FrameKeepsReasons
<1>5. ASSUME NEW to \in {"closed", "refused"}, Close(to), UNCHANGED handled, Open,
             to = "closed" => fin \/ closeAfterWrite,
             to = "refused"
               => /\ phase = "ws"
                  /\ Steady(Len(handled) + 1)
                       => /\ Upcoming \in DOMAIN script.frames
                          /\ Unservable(script.frames[Upcoming])
      PROVE  ReasonInv'
  <2>1. script' = script /\ fin' = fin /\ closeAfterWrite' = FALSE
    BY <1>5 DEF Close
  <2>2. CASE phase = "http" /\ upgraded
    <3>1. phase' = "ws"  BY <1>5, <2>2 DEF Close
    <3> QED  BY <1>1, <1>5, <2>1, <2>2, <3>1 DEF ReasonInv, EndsForAReason, Open
  <2>3. CASE ~ (phase = "http" /\ upgraded)
    <3>1. phase' = to  BY <1>5, <2>3 DEF Close
    <3> QED  BY <1>1, <1>5, <2>1, <2>3, <3>1 DEF ReasonInv, EndsForAReason, Open
  <2> QED  BY <2>2, <2>3
<1>6. CASE RefuseFrame
  <2>1. phase = "ws" /\ Open /\ Close("refused") /\ UNCHANGED handled
    BY <1>6 DEF RefuseFrame, Open
  <2>2. PICK d \in Decodings(R) : d.is = "refuse" \/ (d.is = "frame" /\ d.op \notin Accepted)
    BY <1>6 DEF RefuseFrame, Unread, R
  <2>3. Steady(Len(handled) + 1)
        => Upcoming \in DOMAIN script.frames /\ Unservable(script.frames[Upcoming])
    BY <2>1, <2>2, RefusedIsUpcoming
  <2> QED  BY <1>5, <2>1, <2>3
<1>7. CASE DecodeThrows
  <2>1. phase = "ws" /\ phase' = "ended" /\ UNCHANGED <<script, handled>>
    BY <1>7 DEF DecodeThrows, Ends
  <2>2. PICK d \in Decodings(R) : d.is = "throw"
    BY <1>7 DEF DecodeThrows, Unread, R
  <2>3. Steady(Len(handled) + 1)
        => Upcoming \in DOMAIN script.frames /\ Wraps(script.frames[Upcoming])
    BY <2>1, <2>2, RefusedIsUpcoming
  <2> QED  BY <1>1, <2>1, <2>3 DEF ReasonInv, EndsForAReason, Open
<1>12. CASE HandlerThrows
  <2>1. phase' = "ended" /\ UNCHANGED <<script, handled>>
    BY <1>12 DEF HandlerThrows, Ends
  <2>2. Throwing(Len(handled) + 1)  BY <1>12, ThrowingIsNext
  <2> QED  BY <1>1, <2>1, <2>2 DEF ReasonInv, EndsForAReason, Open
<1>8. CASE RecvEnds \/ SendFails
  <2>1. Close("closed") /\ UNCHANGED handled /\ fin  BY <1>8 DEF RecvEnds, SendFails
  <2>2. Open  BY <1>8 DEF RecvEnds, SendFails, LostInv
  <2> QED  BY <1>5, <2>1, <2>2
<1>9. CASE SendDone
  <2>1. CASE closeAfterWrite
    <3>1. Close("closed") /\ UNCHANGED handled  BY <1>9, <2>1 DEF SendDone
    <3>2. Open  BY <1>9 DEF SendDone, LostInv
    <3> QED  BY <1>5, <2>1, <3>1, <3>2
  <2>2. CASE ~ closeAfterWrite
    BY <1>2, <1>9, <2>2 DEF SendDone
  <2> QED  BY <2>1, <2>2
<1>10. CASE UNCHANGED vars \/ ClientSends \/ ClientEnds \/ ReadEvent \/ WriteEvent \/ Pushed
  BY <1>2, <1>10 DEF vars, ClientSends, ClientEnds, ReadEvent, WriteEvent, Pushed
<1>11. CASE Recv \/ RecvDry \/ ParseWaits \/ DecodeWaits \/ Send \/ SendBlocks
  BY <1>2, <1>11 DEF Recv, RecvDry, ParseWaits, DecodeWaits, Send, SendBlocks
<1> QED
  BY <1>3, <1>4, <1>6, <1>7, <1>8, <1>9, <1>10, <1>11, <1>12 DEF Next, Reading, Writing

(* The server gives up a socket only for what the client said or did, as   *)
(* long as it has not acted on a frame that is too long for an int: a      *)
(* connection is closed when the client has gone, has got the answer to a  *)
(* plain request, or has said CLOSE; a frame is refused over the client's  *)
(* next frame as it was said, and the process ends over that frame or over *)
(* the next request, at which a route handler throws.                      *)
THEOREM EndsHaveReasons == Spec => []EndsForAReason
<1>1. Init => ReasonInv
  <2> SUFFICES ASSUME Init PROVE ReasonInv
    OBVIOUS
  <2>1. /\ handled = <<>> /\ phase = "http" /\ closeAfterWrite = FALSE /\ upgraded = FALSE
        /\ script \in Scripts
    BY DEF Init
  <2>2. Len(handled) = 0  BY <2>1, EmptySeq
  <2>3. Len(script.requests) \in Nat  BY <2>1, PartsAre
  <2>4. Requested = {}  BY <2>2, <2>3 DEF Requested
  <2>5. ~ Switching  BY <2>4 DEF Switching
  <2> QED  BY <2>1, <2>5 DEF ReasonInv, EndsForAReason, Open
<1>2. Init => Types /\ StreamInv /\ HandledInv /\ LostInv
  BY TypesInit, StreamInit, HandledInit, LostInit
<1>3. ReasonInv => EndsForAReason  BY DEF ReasonInv
<1> QED
  BY <1>1, <1>2, <1>3, TypesStep, StreamStep, HandledStep, LostStep, ReasonStep, PTL DEF Spec
=============================================================================
