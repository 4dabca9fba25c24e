--------------------------- MODULE TcpConnection ---------------------------
(***************************************************************************)
(* A connected socket and the calls a client makes on it, one after the other, *)
(* each from the callback of the one before: async_write, async_read_until    *)
(* and async_read.  The calls share the context: its descriptor, its read      *)
(* buffer and its tries; and their tasks share the workers and their errno.    *)
(***************************************************************************)
EXTENDS ReceiveSide

CONSTANTS
    MaxRetry,               \* M_max_rety_count
    Ends, CacheSize, RetrySize,                     \* see TcpReadUntil
    CacheSizes, RecvSize, RecvRetrySize, DefaultSize, MaxKept,      \* see TcpRead
    MaxLen, MaxRoom, SizeMax,                       \* see TcpWrite
    MaxCalls                \* bound: how many calls the client makes

VARIABLES
    task,       \* the call under way or the last one: its name
    calls,      \* how many calls have been made
    state, tries, readable, posted,     \* the task's, the context's and its buffer's
    stale, end,                         \* async_read_until's
    cacheSize, kept,                    \* async_read's
    room, sent, bytes, len, total, offset      \* async_write's

Until == INSTANCE TcpReadUntil
Read == INSTANCE TcpRead WITH RetrySize <- RecvRetrySize
Write == INSTANCE TcpWrite

ASSUME ConnectionAssumption ==
    /\ Until!ReadUntilAssumption
    /\ Read!ReadAssumption
    /\ Write!WriteAssumption
    /\ MaxCalls \in Nat

taskVars == <<state, tries, readable, posted>>
untilVars == <<stale, end>>
readVars == <<cacheSize, kept>>
writeVars == <<sent, bytes, len, total, offset>>
vars == <<kernelVars, task, calls, taskVars, untilVars, readVars, writeVars, room>>

TypeOK ==
    /\ task \in {"none", "until", "read", "write"}
    /\ calls \in 0 .. MaxCalls
    /\ KernelTypeOK
    /\ task = "until" => Until!TypeOK
    /\ task = "read" => Read!TypeOK
    /\ task = "write" => Write!TypeOK

Init ==
    /\ KernelInit
    /\ task = "none"
    /\ calls = 0
    /\ state = "posted" /\ tries = 0 /\ readable = 0 /\ posted = <<>>
    /\ stale = "none" /\ end = 0
    /\ cacheSize = 0 /\ kept = 0
    /\ sent = 0 /\ bytes = 0 /\ len = 0 /\ total = 0 /\ offset = 0
    /\ room \in 0 .. MaxRoom

\* What belonged to a call of another kind is gone.
DropUntil == stale' = "none" /\ end' = 0
DropRead == cacheSize' = 0 /\ kept' = 0
DropWrite == sent' = 0 /\ bytes' = 0 /\ len' = 0 /\ total' = 0 /\ offset' = 0

\* The callback of the last call makes the next one.
Calls(name) ==
    /\ calls < MaxCalls
    /\ calls' = calls + 1
    /\ task' = name

CallUntil == Calls("until") /\ Until!Call /\ DropRead /\ DropWrite /\ UNCHANGED room
CallRead == Calls("read") /\ Read!Call /\ DropUntil /\ DropWrite /\ UNCHANGED room
CallWrite == Calls("write") /\ Write!Call /\ DropUntil /\ DropRead /\ UNCHANGED readable

Works(name) == task = name /\ UNCHANGED <<task, calls>>

UntilTask == Works("until") /\ Until!Task /\ UNCHANGED <<readVars, writeVars, room>>
ReadTask == Works("read") /\ Read!Task /\ UNCHANGED <<untilVars, writeVars, room>>
WriteTask == Works("write") /\ Write!Task /\ UNCHANGED <<untilVars, readVars, readable>>

Task == UntilTask \/ ReadTask \/ WriteTask

Environment ==
    /\ \/ (Arrive \/ PeerEnds) /\ UNCHANGED <<room, sent>>
       \/ Write!Drain
    /\ UNCHANGED <<task, calls, taskVars, untilVars, readVars, bytes, len, total, offset>>

Next == CallUntil \/ CallRead \/ CallWrite \/ Task \/ Environment

Spec == Init /\ [][Next]_vars

\* The workers are scheduled and select returns within M_timeout.  Nothing is assumed of
\* the peer, nor that the client makes a call.
FairSpec == Spec /\ WF_vars(Task)

-----------------------------------------------------------------------------
\* No byte is lost or handed over twice by a read, and its callback is posted once: see
\* TcpReadUntil and TcpRead.
DeliveredOnce ==
    /\ task = "until" => Until!DeliveredOnce
    /\ task = "read" => Read!DeliveredOnce

\* What async_read_until reports when its worker's errno was EAGAIN or EINTR at the start:
\* a success has the delimiter or has met the end of the stream, and a failure that
\* has the delimiter has used up its tries.
UntilIsTruthful ==
    task = "until" /\ stale \in {"again", "intr"} =>
        Until!SuccessIsComplete /\ Until!OnlyLastTryOverlooks

\* async_read_until reports success only with the delimiter or at the end of the stream,
\* whatever the worker did before.
UntilIsComplete == task = "until" => Until!SuccessIsComplete

\* An async_read that needed no retry has the bytes asked for, those of earlier calls
\* included, or has met the end of the stream.
ReadIsComplete == task = "read" => Read!DoneMeansEnough

\* async_write counts what the kernel counts, and reports success exactly when it was
\* accepted and what is in front of the message's first NUL was sent: all of a message that
\* holds none, and less of one that does, cut without an error.
WriteIsComplete == task = "write" => Write!CountedOnce /\ Write!SuccessIsComplete

\* Every call is answered, however slowly the peer sends or reads and wherever it stops.
CallsEnd == calls > 0 /\ posted = <<>> ~> posted # <<>>
=============================================================================
