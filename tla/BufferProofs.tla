---------------------------- MODULE BufferProofs ----------------------------
(***************************************************************************)
(* What each operation of Buffer does to the bytes a reader sees, for every *)
(* buffer and every input.                                                 *)
(***************************************************************************)
EXTENDS Buffer, SequenceTheorems, WellFoundedInduction, TLAPS

(* What lies between the positions of a well-formed buffer.                *)
LEMMA ContentsType ==
  ASSUME NEW b, IsBuffer(b)
  PROVE  /\ Contents(b) \in Seq(Byte)
         /\ Len(Contents(b)) = Readable(b)
         /\ Readable(b) \in 0..b.cap
         /\ Writable(b) \in 0..b.cap
         /\ \A i \in 1..Readable(b) : Contents(b)[i] = b.mem[b.readPos + i - 1]
<1>1. /\ b.readPos \in 0..b.cap /\ b.writePos \in 0..b.cap /\ b.readPos <= b.writePos
      /\ b.cap \in Nat /\ b.mem \in [0..(b.cap - 1) -> Byte]
  BY DEF IsBuffer
<1>2. Readable(b) \in 0..b.cap /\ Writable(b) \in 0..b.cap
  BY <1>1 DEF Readable, Writable, Make
<1>3. \A i \in 1..Readable(b) : b.readPos + i - 1 \in 0..(b.cap - 1)
  BY <1>1, <1>2 DEF Readable, Make
<1>4. Contents(b) \in [1..Readable(b) -> Byte]
  BY <1>1, <1>2, <1>3 DEF Contents
<1>5. Contents(b) \in Seq(Byte) /\ Len(Contents(b)) = Readable(b)
  BY <1>2, <1>4
<1> QED
  BY <1>2, <1>4, <1>5 DEF Contents

(* The doubling of makeSpace, where it ends, ends at a size that is        *)
(* enough.                                                                 *)
LEMMA DoubledFits ==
  ASSUME NEW b, IsBuffer(b), NEW len \in Nat, Sizes(b, len) # {}
  PROVE  /\ Doubled(b, len) \in Nat
         /\ Doubled(b, len) - b.writePos >= len
<1> DEFINE R == OpToRel(<, Nat)
           T == Sizes(b, len)
<1>1. T \subseteq Nat /\ T # {}
  BY BufferAssumption DEF Sizes
<1>2. IsWellFoundedOn(R, Nat)
  BY NatLessThanWellFounded
<1>3. PICK x \in T : \A y \in T : ~ (<<y, x>> \in R)
  <2> HIDE DEF R, T
  <2> QED  BY <1>1, <1>2, WFMin
<1>4. \A y \in T : x <= y
  <2> TAKE y \in T
  <2>1. x \in Nat /\ y \in Nat  BY <1>1
  <2>2. ~ (y < x)
    BY <1>3, <2>1 DEF OpToRel
  <2> QED BY <2>1, <2>2
<1>5. Doubled(b, len) \in T
  BY <1>4 DEF Doubled
<1> QED BY <1>5, BufferAssumption DEF Sizes

(* The parts of a buffer, as the provers need them.                        *)
LEMMA BufferParts ==
  ASSUME NEW b, IsBuffer(b)
  PROVE  /\ b = Make(b.mem, b.cap, b.readPos, b.writePos)
         /\ b.cap \in Nat /\ b.readPos \in Nat /\ b.writePos \in Nat
         /\ b.readPos <= b.writePos /\ b.writePos <= b.cap
         /\ b.mem \in [0..(b.cap - 1) -> Byte]
BY DEF IsBuffer

(* A vector with its two positions in order is a buffer.                   *)
LEMMA MakeBuffer ==
  ASSUME NEW cap \in Nat, NEW r \in Nat, NEW w \in Nat, r <= w, w <= cap,
         NEW mem \in [0..(cap - 1) -> Byte]
  PROVE  IsBuffer(Make(mem, cap, r, w))
BY DEF IsBuffer, Make

(* Two buffers whose readable parts agree cell by cell show the same.      *)
LEMMA SameContents ==
  ASSUME NEW b, NEW c, IsBuffer(b), IsBuffer(c), Readable(c) = Readable(b),
         \A i \in 0..(Readable(b) - 1) : c.mem[c.readPos + i] = b.mem[b.readPos + i]
  PROVE  Contents(c) = Contents(b)
<1>1. \A i \in 1..Readable(b) : c.mem[c.readPos + i - 1] = b.mem[b.readPos + i - 1]
  <2> TAKE i \in 1..Readable(b)
  <2>1. i - 1 \in 0..(Readable(b) - 1) /\ b.readPos \in Nat /\ c.readPos \in Nat
    BY ContentsType, BufferParts
  <2>2. b.readPos + i - 1 = b.readPos + (i - 1) /\ c.readPos + i - 1 = c.readPos + (i - 1)
    BY <2>1
  <2> QED  BY <2>1, <2>2
<1> QED  BY <1>1 DEF Contents

(* makeSpace's copy to the front keeps the contents and gains what was     *)
(* consumed.                                                               *)
LEMMA CompactedKeeps ==
  ASSUME NEW b, IsBuffer(b)
  PROVE  /\ IsBuffer(Compacted(b))
         /\ Contents(Compacted(b)) = Contents(b)
         /\ Writable(Compacted(b)) = b.readPos + Writable(b)
<1> DEFINE m == [i \in 0..(b.cap - 1) |->
                    IF i < Readable(b) THEN b.mem[b.readPos + i] ELSE b.mem[i]]
           c == Make(m, b.cap, 0, Readable(b))
<1>1. /\ b.cap \in Nat /\ b.readPos \in Nat /\ b.writePos \in Nat
      /\ b.readPos <= b.writePos /\ b.writePos <= b.cap
      /\ b.mem \in [0..(b.cap - 1) -> Byte]
  BY BufferParts
<1>2. Compacted(b) = c
  BY DEF Compacted
<1>3. Readable(b) \in Nat /\ Readable(b) <= b.cap /\ Readable(b) = b.writePos - b.readPos
  BY <1>1 DEF Readable, Make
<1>4. m \in [0..(b.cap - 1) -> Byte]
  BY <1>1, <1>3, SMTT(30)
<1>5. IsBuffer(c)
  <2> HIDE DEF m
  <2> QED  BY <1>1, <1>3, <1>4, MakeBuffer
<1>6. Readable(c) = Readable(b) /\ Writable(c) = b.readPos + Writable(b)
  BY <1>1, <1>3 DEF Readable, Writable, Make
<1>7. \A i \in 0..(Readable(b) - 1) : c.mem[c.readPos + i] = b.mem[b.readPos + i]
  <2> TAKE i \in 0..(Readable(b) - 1)
  <2>1. i \in 0..(b.cap - 1) /\ i < Readable(b)  BY <1>1, <1>3
  <2>2. m[i] = b.mem[b.readPos + i]  BY <2>1
  <2>3. c.mem = m /\ c.readPos + i = i  BY <2>1, <1>3 DEF Make
  <2> QED  BY <2>2, <2>3
<1>8. Contents(c) = Contents(b)
  <2> HIDE DEF c
  <2> QED  BY <1>5, <1>6, <1>7, SameContents
<1> QED  BY <1>2, <1>5, <1>6, <1>8

(* makeSpace's resize keeps the contents and gains room for len.           *)
LEMMA GrownKeeps ==
  ASSUME NEW b, IsBuffer(b), NEW len \in Nat, Sizes(b, len) # {}, ~ Compactable(b, len)
  PROVE  /\ IsBuffer(Grown(b, len))
         /\ Contents(Grown(b, len)) = Contents(b)
         /\ Writable(Grown(b, len)) >= len
<1> DEFINE d == Doubled(b, len)
           m == [i \in 0..(d - 1) |-> IF i < b.cap THEN b.mem[i] ELSE Blank]
           c == Make(m, d, b.readPos, b.writePos)
<1>1. /\ b.cap \in Nat /\ b.readPos \in Nat /\ b.writePos \in Nat
      /\ b.readPos <= b.writePos /\ b.writePos <= b.cap
      /\ b.mem \in [0..(b.cap - 1) -> Byte]
  BY BufferParts
<1>2. d \in Nat /\ d - b.writePos >= len
  BY DoubledFits
<1>3. Grown(b, len) = c
  BY DEF Grown
<1> HIDE DEF d
<1>4. m \in [0..(d - 1) -> Byte]
  BY <1>1, <1>2, BufferAssumption
<1>5. b.writePos <= d
  BY <1>1, <1>2
<1>6. IsBuffer(c)
  <2> HIDE DEF m
  <2> QED  BY <1>1, <1>2, <1>4, <1>5, MakeBuffer
<1>7. Readable(c) = Readable(b) /\ Writable(c) >= len
  BY <1>1, <1>2 DEF Readable, Writable, Make
<1>8. \A i \in 0..(Readable(b) - 1) : c.mem[c.readPos + i] = b.mem[b.readPos + i]
  BY <1>1, <1>2, <1>5, SMTT(30) DEF Readable, Make
<1>9. Contents(c) = Contents(b)
  <2> HIDE DEF c
  <2> QED  BY <1>6, <1>7, <1>8, SameContents
<1> QED  BY <1>3, <1>6, <1>7, <1>9

(* makeSpace, by whichever of the two.                                     *)
LEMMA MakeSpaceKeeps ==
  ASSUME NEW b, IsBuffer(b), NEW len \in Nat, Fits(b, len)
  PROVE  /\ IsBuffer(MakeSpace(b, len))
         /\ Contents(MakeSpace(b, len)) = Contents(b)
         /\ Writable(MakeSpace(b, len)) >= len
<1>1. CASE Writable(b) >= len
  BY <1>1 DEF MakeSpace
<1>2. CASE ~ (Writable(b) >= len) /\ Compactable(b, len)
  BY <1>2, CompactedKeeps DEF MakeSpace, Compactable
<1>3. CASE ~ (Writable(b) >= len) /\ ~ Compactable(b, len)
  BY <1>3, GrownKeeps DEF MakeSpace, Fits
<1> QED  BY <1>1, <1>2, <1>3

(* Bytes written behind writePos_ and announced by hasWritten are          *)
(* appended.                                                               *)
LEMMA WrittenAppends ==
  ASSUME NEW b, IsBuffer(b), NEW s \in Seq(Byte), Len(s) <= Writable(b)
  PROVE  /\ IsBuffer(Written(b, s))
         /\ Contents(Written(b, s)) = Contents(b) \o s
<1> DEFINE n == Len(s)
           m == [i \in 0..(b.cap - 1) |->
                    IF i \in b.writePos..(b.writePos + n - 1)
                      THEN s[i - b.writePos + 1] ELSE b.mem[i]]
           c == Make(m, b.cap, b.readPos, b.writePos + n)
<1>1. /\ b.cap \in Nat /\ b.readPos \in Nat /\ b.writePos \in Nat
      /\ b.readPos <= b.writePos /\ b.writePos <= b.cap
      /\ b.mem \in [0..(b.cap - 1) -> Byte]
  BY BufferParts
<1>2. n \in Nat /\ \A i \in 1..n : s[i] \in Byte
  BY LenProperties, ElementOfSeq
<1>3. b.writePos + n <= b.cap
  BY <1>1, <1>2 DEF Writable
<1>4. Written(b, s) = c
  BY DEF Written
<1>5. m \in [0..(b.cap - 1) -> Byte]
  <2> SUFFICES ASSUME NEW i \in 0..(b.cap - 1)
               PROVE  (IF i \in b.writePos..(b.writePos + n - 1)
                         THEN s[i - b.writePos + 1] ELSE b.mem[i]) \in Byte
    OBVIOUS
  <2>1. CASE i \in b.writePos..(b.writePos + n - 1)
    <3>1. i - b.writePos + 1 \in 1..n  BY <2>1, <1>1, <1>2
    <3> QED  BY <3>1, <2>1, <1>2
  <2>2. CASE i \notin b.writePos..(b.writePos + n - 1)
    BY <2>2, <1>1
  <2> QED  BY <2>1, <2>2
<1>6. IsBuffer(c)
  <2>1. b.writePos + n \in Nat /\ b.readPos <= b.writePos + n  BY <1>1, <1>2
  <2> HIDE DEF m, n
  <2> QED  BY <2>1, <1>1, <1>3, <1>5, MakeBuffer
<1>7. /\ Readable(c) = Readable(b) + n
      /\ Readable(b) \in Nat
      /\ Readable(b) = b.writePos - b.readPos
  BY <1>1, <1>2 DEF Readable, Make
<1>8. /\ Contents(c) \in Seq(Byte) /\ Len(Contents(c)) = Readable(c)
      /\ Contents(b) \in Seq(Byte) /\ Len(Contents(b)) = Readable(b)
      /\ \A i \in 1..Readable(c) : Contents(c)[i] = c.mem[c.readPos + i - 1]
      /\ \A i \in 1..Readable(b) : Contents(b)[i] = b.mem[b.readPos + i - 1]
  <2> HIDE DEF c
  <2> QED  BY <1>6, ContentsType
<1> DEFINE t == Contents(b) \o s
<1>9. /\ t \in Seq(Byte) /\ Len(t) = Readable(b) + n
      /\ \A i \in 1..(Readable(b) + n) :
           t[i] = IF i <= Readable(b) THEN Contents(b)[i] ELSE s[i - Readable(b)]
  BY <1>8, ConcatProperties
<1>10. ASSUME NEW i \in 1..(Readable(b) + n)  PROVE Contents(c)[i] = t[i]
  <2>1. /\ Contents(c)[i] = m[b.readPos + i - 1]
        /\ b.readPos + i - 1 \in 0..(b.cap - 1)
    <3>1. i \in 1..Readable(c)  BY <1>7
    <3>2. c.mem = m /\ c.readPos = b.readPos  BY DEF Make
    <3>3. b.readPos + i - 1 \in 0..(b.cap - 1)  BY <1>7, <1>1, <1>2, <1>3, SMTT(30)
    <3> HIDE DEF c, m
    <3> QED  BY <3>1, <3>2, <3>3, <1>8
  <2>2. CASE i <= Readable(b)
    <3>1. b.readPos + i - 1 \notin b.writePos..(b.writePos + n - 1)
      BY <2>2, <1>7, <1>1, <1>2
    <3>2. i \in 1..Readable(b)  BY <2>2, <1>7
    <3>3. m[b.readPos + i - 1] = b.mem[b.readPos + i - 1]
      BY <3>1, <2>1
    <3> HIDE DEF m, n, c, t
    <3> QED  BY <3>2, <3>3, <2>1, <2>2, <1>8, <1>9
  <2>3. CASE ~ (i <= Readable(b))
    <3>1. b.readPos + i - 1 \in b.writePos..(b.writePos + n - 1)
      BY <2>3, <1>7, <1>1, <1>2
    <3>2. (b.readPos + i - 1) - b.writePos + 1 = i - Readable(b)
      BY <1>7, <1>1, <1>2
    <3>3. m[b.readPos + i - 1] = s[i - Readable(b)]
      BY <3>1, <3>2, <2>1
    <3> HIDE DEF m, n, c, t
    <3> QED  BY <3>3, <2>1, <2>3, <1>9
  <2> QED  BY <2>2, <2>3
<1>11. Contents(c) = t
  <2> HIDE DEF c, t, n, m
  <2> QED  BY <1>7, <1>8, <1>9, <1>10, SeqEqual
<1> QED  BY <1>4, <1>6, <1>11

(* A new buffer shows nothing.                                             *)
THEOREM NewIsEmpty == IsBuffer(New) /\ Contents(New) = <<>>
<1>1. [i \in 0..(InitialSize - 1) |-> Blank] \in [0..(InitialSize - 1) -> Byte]
  BY BufferAssumption
<1>2. IsBuffer(New)
  BY <1>1, BufferAssumption, MakeBuffer DEF New
<1>3. Readable(New) = 0
  BY DEF New, Readable, Make
<1> QED  BY <1>2, <1>3, ContentsType, EmptySeq

(* append: whatever was consumed, compacted or grown, a reader sees the    *)
(* bytes it saw before and the new ones behind them.                       *)
THEOREM AppendAppends ==
  ASSUME NEW b, IsBuffer(b), NEW s \in Seq(Byte), Fits(b, Len(s))
  PROVE  IsBuffer(Appended(b, s)) /\ Contents(Appended(b, s)) = Contents(b) \o s
<1>1. CASE s = <<>>
  <2>1. Appended(b, s) = b  BY <1>1 DEF Appended
  <2>2. Contents(b) \o s = Contents(b)  BY <1>1, ContentsType, ConcatEmptySeq
  <2> QED  BY <2>1, <2>2
<1>2. CASE s # <<>>
  <2> DEFINE c == MakeSpace(b, Len(s))
  <2>1. Len(s) \in Nat  BY LenProperties
  <2>2. IsBuffer(c) /\ Contents(c) = Contents(b) /\ Len(s) <= Writable(c)
    BY <2>1, MakeSpaceKeeps, ContentsType
  <2>3. Appended(b, s) = Written(c, s)  BY <1>2 DEF Appended
  <2> HIDE DEF c
  <2> QED  BY <2>2, <2>3, WrittenAppends
<1> QED  BY <1>1, <1>2

(* consume: a reader loses the first n bytes, or all there are.            *)
THEOREM ConsumeDrops ==
  ASSUME NEW b, IsBuffer(b), NEW n \in Nat
  PROVE  /\ IsBuffer(Consumed(b, n))
         /\ n <= Readable(b) =>
              Contents(Consumed(b, n)) = SubSeq(Contents(b), n + 1, Len(Contents(b)))
         /\ n >= Readable(b) => Contents(Consumed(b, n)) = <<>>
<1> DEFINE k == IF n > Readable(b) THEN Readable(b) ELSE n
           c == Make(b.mem, b.cap, b.readPos + k, b.writePos)
<1>1. /\ b.cap \in Nat /\ b.readPos \in Nat /\ b.writePos \in Nat
      /\ b.readPos <= b.writePos /\ b.writePos <= b.cap
      /\ b.mem \in [0..(b.cap - 1) -> Byte]
  BY BufferParts
<1>2. Readable(b) \in Nat /\ Readable(b) = b.writePos - b.readPos /\ k \in Nat /\ k <= Readable(b)
  BY <1>1 DEF Readable, Make
<1>3. Consumed(b, n) = c
  BY DEF Consumed
<1>4. IsBuffer(c)
  <2>1. b.readPos + k \in Nat /\ b.readPos + k <= b.writePos  BY <1>1, <1>2
  <2> HIDE DEF k
  <2> QED  BY <2>1, <1>1, MakeBuffer
<1>5. Readable(c) = Readable(b) - k
  BY <1>1, <1>2 DEF Readable, Make
<1>6. /\ Contents(c) \in Seq(Byte) /\ Len(Contents(c)) = Readable(c)
      /\ \A i \in 1..Readable(c) : Contents(c)[i] = c.mem[c.readPos + i - 1]
      /\ Contents(b) \in Seq(Byte) /\ Len(Contents(b)) = Readable(b)
      /\ \A i \in 1..Readable(b) : Contents(b)[i] = b.mem[b.readPos + i - 1]
  <2> HIDE DEF c
  <2> QED  BY <1>4, ContentsType
<1>7. ASSUME n <= Readable(b)
      PROVE  Contents(c) = SubSeq(Contents(b), n + 1, Len(Contents(b)))
  <2> DEFINE t == SubSeq(Contents(b), n + 1, Readable(b))
  <2>1. k = n  BY <1>7, <1>2
  <2>2. \A i \in (n + 1)..Readable(b) : Contents(b)[i] \in Byte
    <3> TAKE i \in (n + 1)..Readable(b)
    <3>1. i \in 1..Len(Contents(b))  BY <1>6, <1>2
    <3> QED  BY <3>1, <1>6, ElementOfSeq
  <2>3. /\ t \in Seq(Byte)
        /\ Len(t) = Readable(b) - n
        /\ \A i \in 1..(Readable(b) - n) : t[i] = Contents(b)[n + i]
    <3>1. n + 1 \in Int /\ Readable(b) \in Int  BY <1>2
    <3>2. /\ t \in Seq(Byte)
          /\ Len(t) = IF n + 1 <= Readable(b) THEN Readable(b) - (n + 1) + 1 ELSE 0
          /\ \A i \in 1..(Readable(b) - (n + 1) + 1) : t[i] = Contents(b)[(n + 1) + i - 1]
      BY <3>1, <2>2, SubSeqProperties
    <3> HIDE DEF t
    <3> QED  BY <3>2, <1>7, <1>2
  <2>4. \A i \in 1..(Readable(b) - n) : Contents(c)[i] = t[i]
    <3> TAKE i \in 1..(Readable(b) - n)
    <3>1. i \in 1..Readable(c) /\ n + i \in 1..Readable(b)  BY <1>5, <2>1, <1>2, <1>7
    <3>2. Contents(c)[i] = b.mem[b.readPos + n + i - 1]  BY <3>1, <1>6, <2>1 DEF Make
    <3>3. Contents(b)[n + i] = b.mem[b.readPos + n + i - 1]
      <4>1. b.readPos + (n + i) - 1 = b.readPos + n + i - 1  BY <1>1
      <4> QED  BY <3>1, <1>6, <4>1
    <3> HIDE DEF t, c
    <3> QED  BY <3>2, <3>3, <2>3
  <2> HIDE DEF t, c
  <2> QED  BY <2>1, <2>3, <2>4, <1>5, <1>6, SeqEqual DEF t
<1>8. ASSUME n >= Readable(b)  PROVE Contents(c) = <<>>
  <2>1. Readable(c) = 0  BY <1>8, <1>2, <1>5
  <2> HIDE DEF c
  <2> QED  BY <2>1, <1>6, EmptySeq
<1> QED  BY <1>3, <1>4, <1>7, <1>8

(* clear, and retrieveAllAsString, which ends with it.                     *)
THEOREM ClearEmpties ==
  ASSUME NEW b, IsBuffer(b)
  PROVE  IsBuffer(Cleared(b)) /\ Contents(Cleared(b)) = <<>>
<1>1. Cleared(b) = Make(b.mem, b.cap, 0, 0)
  BY DEF Cleared
<1>2. IsBuffer(Cleared(b)) /\ Readable(Cleared(b)) = 0
  BY <1>1, BufferParts, MakeBuffer DEF Readable, Make
<1> QED  BY <1>2, ContentsType, EmptySeq
=============================================================================
