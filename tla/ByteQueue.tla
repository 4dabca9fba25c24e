------------------------------ MODULE ByteQueue ------------------------------
(***************************************************************************)
(* What a read buffer promises: a FIFO queue of bytes that is appended to at *)
(* the back and retrieved from at the front.                               *)
(***************************************************************************)
EXTENDS Naturals, Sequences

CONSTANTS
    Chunks,         \* the pieces of data that may be appended
    MaxReadable     \* bound: how many unread bytes the callers let accumulate

VARIABLE queue

Init == queue = <<>>

Put(data) ==
    /\ Len(queue) + Len(data) <= MaxReadable
    /\ queue' = queue \o data

Retrieve(n) ==
    /\ n <= Len(queue)
    /\ queue' = SubSeq(queue, n + 1, Len(queue))

Next ==
    \/ \E data \in Chunks : Put(data)
    \/ \E n \in 0 .. MaxReadable : Retrieve(n)

Spec == Init /\ [][Next]_queue
=============================================================================
