----------------------------- MODULE ReadBuffer -----------------------------
(***************************************************************************)
(* readBuffer (include/client/buffer/buffer.hpp): the bytes received and not *)
(* yet retrieved lie in a vector between a read and a write pointer.  An     *)
(* append that does not fit moves them to the front when that makes room,    *)
(* and grows the vector otherwise.                                         *)
(***************************************************************************)
EXTENDS Integers, Sequences

CONSTANTS
    Byte,           \* the values of a byte
    Zero,           \* the byte a resize fills the vector with
    Chunks,         \* the pieces of data that may be appended
    MaxReadable     \* bound: how many unread bytes the callers let accumulate

ASSUME BytesAssumption ==
    /\ Zero \in Byte
    /\ Chunks \subseteq Seq(Byte)
    /\ MaxReadable \in Nat

VARIABLES
    mem,    \* M_buffer_
    rd,     \* M_read_pointer
    wr      \* M_write_pointer

vars == <<mem, rd, wr>>

TypeOK ==
    /\ mem \in Seq(Byte)
    /\ rd \in Nat
    /\ wr \in Nat

\* make_shared value-initialises the pointers.
Init ==
    /\ mem = <<>>
    /\ rd = 0
    /\ wr = 0

ReadableBytes == wr - rd

\* The unread bytes moved to the front; what is behind them is left over.
Compacted == [i \in DOMAIN mem |-> IF i <= ReadableBytes THEN mem[rd + i] ELSE mem[i]]

Resized(size) == [i \in 1 .. size |-> IF i \in DOMAIN mem THEN mem[i] ELSE Zero]

\* Mutant: the bytes in front of the read pointer are counted, not reclaimed.
EnsureWriteable_NoMove(n) ==
    IF Len(mem) - wr >= n THEN [mem |-> mem, rd |-> rd, wr |-> wr]
    ELSE IF rd + (Len(mem) - wr) >= n THEN [mem |-> mem, rd |-> 0, wr |-> ReadableBytes]
    ELSE [mem |-> Resized(wr + n), rd |-> rd, wr |-> wr]

\* Mutant: the vector grows whenever there is no room at its end.
EnsureWriteable_Grow(n) ==
    IF Len(mem) - wr >= n THEN [mem |-> mem, rd |-> rd, wr |-> wr]
    ELSE [mem |-> Resized(wr + n), rd |-> rd, wr |-> wr]

\* M_ensureWriteableBytes: the vector and the pointers that n bytes are written at.
EnsureWriteable(n) ==
    IF Len(mem) - wr >= n THEN [mem |-> mem, rd |-> rd, wr |-> wr]
    ELSE IF rd + (Len(mem) - wr) >= n THEN [mem |-> Compacted, rd |-> 0, wr |-> ReadableBytes]
    ELSE [mem |-> Resized(wr + n), rd |-> rd, wr |-> wr]

AppendToBuffer(data) ==
    LET room == EnsureWriteable(Len(data))
    IN  /\ ReadableBytes + Len(data) <= MaxReadable
        /\ mem' = [i \in DOMAIN room.mem |->
                     IF i > room.wr /\ i <= room.wr + Len(data)
                     THEN data[i - room.wr] ELSE room.mem[i]]
        /\ rd' = room.rd
        /\ wr' = room.wr + Len(data)

\* Mutant: the pointers are never reset.
RetrieveData_NoReset(n) ==
    /\ n <= ReadableBytes
    /\ rd' = rd + n
    /\ UNCHANGED <<mem, wr>>

\* Callers retrieve no more than they have seen readable.
RetrieveData(n) ==
    /\ n <= ReadableBytes
    /\ IF rd + n = wr THEN rd' = 0 /\ wr' = 0
                      ELSE rd' = rd + n /\ UNCHANGED wr
    /\ UNCHANGED mem

Next ==
    \/ \E data \in Chunks : AppendToBuffer(data)
    \/ \E n \in 0 .. MaxReadable : RetrieveData(n)

Spec == Init /\ [][Next]_vars

-----------------------------------------------------------------------------
\* The pointers stay in order and inside the vector, so readableBytes (68) does not
\* wrap around and the copies of lines 52 and 77 stay in bounds.
InBounds == rd <= wr /\ wr <= Len(mem)

\* However long the buffer is used, its vector is at most twice what the callers let
\* accumulate: it grows (82) only when reclaiming the front would not do (76).
SpaceBounded == Len(mem) <= 2 * MaxReadable

\* An empty buffer writes at the front again (58-60).
EmptyIsReset == rd = wr => rd = 0

IInv ==
    /\ TypeOK
    /\ InBounds
    /\ ReadableBytes <= MaxReadable
    /\ SpaceBounded
    /\ EmptyIsReset

\* peekData and readableBytes: the unread bytes.
Unread == SubSeq(mem, rd + 1, wr)

Queue == INSTANCE ByteQueue WITH queue <- Unread

\* Moving, growing and resetting never show: the unread bytes are the appended ones,
\* in order, less the retrieved ones.
ImplementsByteQueue == Queue!Spec
=============================================================================
