------------------------------- MODULE Buffer -------------------------------
(***************************************************************************)
(* common/buffer.cpp: a vector with two positions.  What has been written  *)
(* and not yet consumed lies between them; space before the first is       *)
(* reclaimed, or the vector grown, when an append does not fit behind the  *)
(* second.                                                                 *)
(***************************************************************************)
EXTENDS Integers, Sequences

CONSTANTS
    Byte,            \* what a cell of the vector holds
    Blank,           \* what resize() fills new cells with
    InitialSize,     \* INITIAL_SIZE
    MaxSize          \* vector::max_size(); beyond it resize() throws

ASSUME BufferAssumption ==
    /\ Blank \in Byte
    /\ InitialSize \in Nat \ {0}
    /\ MaxSize \in Nat /\ InitialSize <= MaxSize

Make(mem, cap, readPos, writePos) ==
    [mem |-> mem, cap |-> cap, readPos |-> readPos, writePos |-> writePos]

(* A buffer of the program: a vector, and positions within it in order.    *)
IsBuffer(b) ==
    /\ b = Make(b.mem, b.cap, b.readPos, b.writePos)
    /\ b.cap \in Nat
    /\ b.mem \in [0..(b.cap - 1) -> Byte]
    /\ b.writePos \in 0..b.cap
    /\ b.readPos \in 0..b.writePos

New == Make([i \in 0..(InitialSize - 1) |-> Blank], InitialSize, 0, 0)

Readable(b) == b.writePos - b.readPos
Writable(b) == b.cap - b.writePos

(* What peek() and readableBytes() show.                                   *)
Contents(b) == [i \in 1..Readable(b) |-> b.mem[b.readPos + i - 1]]

-----------------------------------------------------------------------------
(* makeSpace.  An append needs no space, or reclaims what was consumed, or *)
(* doubles the vector until it fits.                                       *)

Compacted_Unmoved(b) == Make(b.mem, b.cap, 0, Readable(b))  \* mutant: memmove is forgotten
Compacted_ReadPosKept(b) ==  \* mutant: readPos_ is not reset
    Make(b.mem, b.cap, b.readPos, Readable(b))

Compacted(b) ==
    Make([i \in 0..(b.cap - 1) |-> IF i < Readable(b) THEN b.mem[b.readPos + i] ELSE b.mem[i]],
         b.cap, 0, Readable(b))

(* The sizes the doubling loop may stop at.                                *)
Sizes(b, len) ==
    {c \in {b.cap * 2^k : k \in 1..MaxSize} : c \in 1..MaxSize /\ c - b.writePos >= len}

Doubled(b, len) == CHOOSE c \in Sizes(b, len) : \A d \in Sizes(b, len) : c <= d

Grown(b, len) ==
    LET c == Doubled(b, len)
    IN  Make([i \in 0..(c - 1) |-> IF i < b.cap THEN b.mem[i] ELSE Blank],
             c, b.readPos, b.writePos)

Compactable(b, len) == b.readPos + Writable(b) >= len

MakeSpace(b, len) ==
    IF Writable(b) >= len THEN b
    ELSE IF Compactable(b, len) THEN Compacted(b)
    ELSE Grown(b, len)

(* There is memory for an append of len bytes.                             *)
Fits(b, len) ==
    Writable(b) >= len \/ Compactable(b, len) \/ Sizes(b, len) # {}

-----------------------------------------------------------------------------
(* writeBegin and hasWritten: bytes are stored behind writePos_, which     *)
(* moves past them; the caller has seen to the room.                       *)
Written(b, s) ==
    Make([i \in 0..(b.cap - 1) |-> IF i \in b.writePos..(b.writePos + Len(s) - 1)
                                     THEN s[i - b.writePos + 1] ELSE b.mem[i]],
         b.cap, b.readPos, b.writePos + Len(s))

Appended(b, s) == IF s = <<>> THEN b ELSE Written(MakeSpace(b, Len(s)), s)

Consumed_All(b, n) ==  \* mutant: whatever was sent, the rest is dropped, too
    Make(b.mem, b.cap, b.writePos, b.writePos)

Consumed(b, n) ==
    Make(b.mem, b.cap, b.readPos + (IF n > Readable(b) THEN Readable(b) ELSE n), b.writePos)

Cleared(b) == Make(b.mem, b.cap, 0, 0)
=============================================================================
