---------------------------- MODULE TcpReadUntil ----------------------------
(***************************************************************************)
(* The task async_read_until posts (include/client/socket/TCP/socket_tcp.hpp) *)
(* and its retry loop M_retryTcpRead_until: read into a new buffer until it  *)
(* holds the delimiter.  The search is abstracted to a position: the first   *)
(* delimiter that reaches the new buffer ends with byte "end".  TcpConnection *)
(* composes this task with the others.                                      *)
(***************************************************************************)
EXTENDS ReceiveSide

CONSTANTS
    CacheSize,      \* bytes one recv of the READING state takes (4096)
    RetrySize,      \* bytes one read of the retry loop takes (1086)
    MaxRetry,       \* M_max_rety_count (10 unless the caller says otherwise)
    Ends            \* the values of end: 0 for an empty delimiter, more than
                    \* StreamLen for one that the peer never sends

ReadUntilAssumption ==
    /\ {CacheSize, RetrySize, MaxRetry} \subseteq Nat \ {0}
    /\ Ends \subseteq Nat

VARIABLES
    stale,      \* errno when the task started (kept for properties)
    end,        \* where the delimiter ends in the stream
    state,      \* M_newState; "retry" inside M_retryTcpRead_until, "posted" once the
                \* callback is posted and while no call is under way
    tries,      \* M_connect_rety_count
    readable,   \* readableBytes of M_client_read_buffer
    posted      \* the callbacks posted: error code, size and bytes in the buffer

untilVars == <<stale, end>>
vars == <<kernelVars, untilVars, state, tries, readable, posted>>

TypeOK ==
    /\ KernelTypeOK
    /\ stale \in Errno
    /\ end \in Ends
    /\ state \in {"VERIFY", "READING", "ERROR", "CLOSE", "retry", "posted"}
    /\ tries \in 0 .. MaxRetry
    /\ readable \in 0 .. StreamLen
    /\ posted \in Seq([ec : Errno, size : 0 .. StreamLen, readable : 0 .. StreamLen])

\* async_read_until: the task starts with a new, empty buffer.
Call ==
    /\ state = "posted"
    /\ BeginCall
    /\ stale' = errno'
    /\ end' \in Ends
    /\ state' = "VERIFY"
    /\ tries' = 0
    /\ readable' = 0
    /\ posted' = <<>>

DelimiterIn(bytes) == end <= bytes

Post(ec, size, bytes) ==
    /\ posted' = Append(posted, [ec |-> ec, size |-> size, readable |-> bytes])
    /\ state' = "posted"

\* FOUND leaves the loop; not found, the code falls through to READING.
Verify ==
    /\ state = "VERIFY"
    /\ IF DelimiterIn(readable)
       THEN Post("none", readable, readable)
       ELSE state' = "READING" /\ UNCHANGED posted
    /\ UNCHANGED <<kernelVars, untilVars, tries, readable>>

SelectFails ==
    /\ state = "READING"
    /\ SelectInterrupted
    /\ state' = "ERROR"
    /\ UNCHANGED <<untilVars, tries, readable, posted>>

\* select returned, the data ready or the time over.  There is no break after the
\* append, so bytes read fall through to ERROR like a failure; only the end of the
\* stream goes elsewhere.
Reading ==
    /\ state = "READING"
    /\ \E n \in RecvResults(CacheSize) :
         /\ Recv(CacheSize, n)
         /\ state' = IF n = 0 THEN "CLOSE" ELSE "ERROR"
         /\ readable' = IF n > 0 THEN readable + n ELSE readable
    /\ UNCHANGED <<untilVars, tries, posted>>

Error ==
    /\ state = "ERROR"
    /\ state' = "retry"
    /\ tries' = 0
    /\ UNCHANGED <<kernelVars, untilVars, readable, posted>>

\* The retry loop returns: the number of bytes is reported for a success only.
RetrySuccess(bytes) == Post("none", bytes, bytes)
RetryFailed(ec, bytes) == Post(ec, 0, bytes)

RetryExhausted ==
    /\ state = "retry"
    /\ tries >= MaxRetry
    /\ RetryFailed(errno, readable)
    /\ UNCHANGED <<kernelVars, untilVars, tries, readable>>

RetryConnected ==
    /\ state = "retry"
    /\ tries < MaxRetry
    /\ errno = "isconn"
    /\ RetrySuccess(readable)
    /\ UNCHANGED <<kernelVars, untilVars, tries, readable>>

RetryImpossible ==
    /\ state = "retry"
    /\ tries < MaxRetry
    /\ errno \notin {"isconn", "again", "intr"}
    /\ RetryFailed(errno, readable)
    /\ UNCHANGED <<kernelVars, untilVars, tries, readable>>

\* Mutant: one try too many.
Retriable_OneMore ==
    /\ state = "retry"
    /\ tries <= MaxRetry
    /\ errno \in {"again", "intr"}

Retriable ==
    /\ state = "retry"
    /\ tries < MaxRetry
    /\ errno \in {"again", "intr"}

RetryFound ==
    /\ Retriable
    /\ tries' = tries + 1
    /\ DelimiterIn(readable)
    /\ RetrySuccess(readable)
    /\ UNCHANGED <<kernelVars, untilVars, readable>>

\* What the retry loop does with the result n of its read.
Retried(n) ==
    /\ readable' = IF n > 0 THEN readable + n ELSE readable
    /\ CASE n > 0 -> UNCHANGED <<state, posted>>
         [] n = 0 -> IF readable # 0 THEN RetrySuccess(readable) ELSE RetryFailed(errno', readable)
         [] n < 0 -> IF tries' >= MaxRetry THEN RetryFailed(errno', readable)
                                           ELSE UNCHANGED <<state, posted>>

\* Mutant: the tries are not counted.
RetryRead_Uncounted ==
    /\ Retriable
    /\ UNCHANGED tries
    /\ ~DelimiterIn(readable)
    /\ \E n \in RecvResults(RetrySize) : Recv(RetrySize, n) /\ Retried(n)
    /\ UNCHANGED untilVars

\* Mutant: the bytes of a retry are not appended to those read before.
RetryRead_Overwrite ==
    /\ Retriable
    /\ tries' = tries + 1
    /\ ~DelimiterIn(readable)
    /\ \E n \in RecvResults(RetrySize) :
         /\ Recv(RetrySize, n)
         /\ IF n > 0 THEN readable' = n /\ UNCHANGED <<state, posted>> ELSE Retried(n)
    /\ UNCHANGED untilVars

\* Mutant: any bytes do.
RetryRead_AnyBytes ==
    /\ Retriable
    /\ tries' = tries + 1
    /\ ~DelimiterIn(readable)
    /\ \E n \in RecvResults(RetrySize) :
         /\ Recv(RetrySize, n)
         /\ IF n > 0 THEN readable' = readable + n /\ RetrySuccess(readable + n) ELSE Retried(n)
    /\ UNCHANGED untilVars

RetryRead ==
    /\ Retriable
    /\ tries' = tries + 1
    /\ ~DelimiterIn(readable)
    /\ \E n \in RecvResults(RetrySize) : Recv(RetrySize, n) /\ Retried(n)
    /\ UNCHANGED untilVars

Close ==
    /\ state = "CLOSE"
    /\ Post("none", readable, readable)
    /\ UNCHANGED <<kernelVars, untilVars, tries, readable>>

Task ==
    \/ Verify \/ SelectFails \/ Reading \/ Error \/ Close
    \/ RetryExhausted \/ RetryConnected \/ RetryImpossible \/ RetryFound \/ RetryRead

-----------------------------------------------------------------------------
Result == posted[1]

Ended == posted # <<>>

\* Whatever path a read takes, each byte taken from the socket is in the buffer handed
\* to the callback, failed reads included, and the callback is posted once: the
\* states of the loop (595-709) fall through into each other without breaks.
DeliveredOnce ==
    /\ readable = taken
    /\ Len(posted) <= 1
    /\ Ended => Result.readable = taken

\* A read that reports success has its delimiter, unless the peer ended the stream.
SuccessIsComplete ==
    Ended /\ Result.ec = "none" => DelimiterIn(Result.readable) \/ peer # "open"

\* A read that fails with its delimiter in the buffer has used up its tries: only what
\* the last try reads is not searched (line 1077).
OnlyLastTryOverlooks ==
    Ended /\ Result.ec # "none" /\ DelimiterIn(Result.readable) => tries = MaxRetry
=============================================================================
