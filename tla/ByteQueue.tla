----------------------------- MODULE ByteQueue -----------------------------
(***************************************************************************)
(* What a connection's buffer promises its owner: bytes enter behind and   *)
(* leave in front, none changed, none overtaken by another.                *)
(***************************************************************************)
EXTENDS Naturals, Sequences

VARIABLE queue

Init == queue = <<>>

Enter == /\ Len(queue') >= Len(queue)
         /\ SubSeq(queue', 1, Len(queue)) = queue

Leave == \E n \in 0..Len(queue) : queue' = SubSeq(queue, n + 1, Len(queue))

Spec == Init /\ [][Enter \/ Leave]_queue
=============================================================================
