------------------------------- MODULE TcpRead -------------------------------
(***************************************************************************)
(* The task async_read posts (include/client/socket/TCP/socket_tcp.hpp) and  *)
(* M_retryTcpRead: read until the caller's buffer holds cacheSize bytes.  The *)
(* buffer may hold bytes already, those an earlier read left.  TcpConnection  *)
(* composes this task with the others.                                      *)
(***************************************************************************)
EXTENDS ReceiveSide

CONSTANTS
    RecvSize,       \* bytes one recv of the READING state takes (4096)
    RetrySize,      \* bytes one recv of the retry loop takes (1096)
    MaxRetry,       \* M_max_rety_count (10 unless the caller says otherwise)
    DefaultSize,    \* what a cache size of 0 stands for (4096)
    CacheSizes,     \* the cache sizes callers ask for
    MaxKept         \* bound: the bytes in the buffer when the read is called

ReadAssumption ==
    /\ {RecvSize, RetrySize, MaxRetry, DefaultSize} \subseteq Nat \ {0}
    /\ CacheSizes \subseteq Nat
    /\ MaxKept \in Nat

VARIABLES
    cacheSize,  \* M_chache_size
    kept,       \* bytes in the buffer when async_read was called
    state,      \* M_state; "retry" inside M_retryTcpRead, "posted" once the callback is
                \* posted and while no call is under way
    tries,      \* M_connect_rety_count
    readable,   \* readableBytes of M_client_read_buffer
    posted      \* the callbacks posted: error code, size and bytes in the buffer

readVars == <<cacheSize, kept>>
vars == <<kernelVars, readVars, state, tries, readable, posted>>

MaxReadable == MaxKept + StreamLen

TypeOK ==
    /\ KernelTypeOK
    /\ cacheSize \in Nat \ {0}
    /\ kept \in 0 .. MaxKept
    /\ state \in {"READING", "VERIFY", "CLOSE", "ERROR", "DONE", "retry", "posted"}
    /\ tries \in 0 .. MaxRetry
    /\ readable \in 0 .. MaxReadable
    /\ posted \in Seq([ec : Errno, size : 0 .. MaxReadable, readable : 0 .. MaxReadable])

\* async_read: the caller has consumed a part of the buffer, or all of it.
Call ==
    /\ state = "posted"
    /\ BeginCall
    /\ \E size \in CacheSizes : cacheSize' = IF size = 0 THEN DefaultSize ELSE size
    /\ kept' \in 0 .. Min({readable, MaxKept})
    /\ state' = "READING"
    /\ tries' = 0
    /\ readable' = kept'
    /\ posted' = <<>>

Post(ec, size, bytes) ==
    /\ posted' = Append(posted, [ec |-> ec, size |-> size, readable |-> bytes])
    /\ state' = "posted"

Goto(next) ==
    /\ state' = next
    /\ UNCHANGED posted

SelectFails ==
    /\ state = "READING"
    /\ SelectInterrupted
    /\ Goto("ERROR")
    /\ UNCHANGED <<readVars, tries, readable>>

Reading ==
    /\ state = "READING"
    /\ \E n \in RecvResults(RecvSize) :
         /\ Recv(RecvSize, n)
         /\ readable' = IF n > 0 THEN readable + n ELSE readable
         /\ Goto(IF n > 0 THEN "VERIFY" ELSE IF n = 0 THEN "CLOSE" ELSE "ERROR")
    /\ UNCHANGED <<readVars, tries>>

\* Mutant: off by one.
Verify_Strict ==
    /\ state = "VERIFY"
    /\ Goto(IF readable + 1 >= cacheSize THEN "DONE" ELSE "READING")
    /\ UNCHANGED <<kernelVars, readVars, tries, readable>>

Verify ==
    /\ state = "VERIFY"
    /\ Goto(IF readable >= cacheSize THEN "DONE" ELSE "READING")
    /\ UNCHANGED <<kernelVars, readVars, tries, readable>>

CloseOrDone ==
    /\ state \in {"CLOSE", "DONE"}
    /\ Post("none", readable, readable)
    /\ UNCHANGED <<kernelVars, readVars, tries, readable>>

\* After a failed select or recv errno is the failure's, never the 106 that the code
\* tests for first.
Error ==
    /\ state = "ERROR"
    /\ Goto("retry")
    /\ tries' = 0
    /\ UNCHANGED <<kernelVars, readVars, readable>>

\* The retry loop returns: the number of bytes is reported for a success only.
RetrySuccess(bytes) == Post("none", bytes, bytes)
RetryFailed(ec, bytes) == Post(ec, 0, bytes)

RetryImpossible ==
    /\ state = "retry"
    /\ errno \notin {"again", "intr"}
    /\ RetryFailed(errno, readable)
    /\ UNCHANGED <<kernelVars, readVars, tries, readable>>

\* What the retry loop does with the result n of its recv.  A failed one ends it: the
\* test of line 963 compares the other way round.  The size of this one piece, not of
\* the buffer, is compared with the cache size; the last try succeeds whatever it got.
Retried(n) ==
    /\ readable' = IF n > 0 THEN readable + n ELSE readable
    /\ CASE n > 0 -> IF n < cacheSize /\ MaxRetry > tries' THEN Goto("retry") ELSE RetrySuccess(readable')
         [] n = 0 -> RetrySuccess(readable)
         [] n < 0 -> RetryFailed(errno', readable)

RetryRecv ==
    /\ state = "retry"
    /\ errno \in {"again", "intr"}
    /\ tries' = tries + 1
    /\ \E n \in RecvResults(RetrySize) : Recv(RetrySize, n) /\ Retried(n)
    /\ UNCHANGED readVars

Task ==
    \/ SelectFails \/ Reading \/ Verify \/ CloseOrDone \/ Error
    \/ RetryImpossible \/ RetryRecv

-----------------------------------------------------------------------------
Result == posted[1]

Ended == posted # <<>>

\* Bytes the caller's buffer held and bytes taken from the socket are all in the buffer
\* that the callback gets, failed reads included; the callback is posted once.
DeliveredOnce ==
    /\ readable = kept + taken
    /\ Len(posted) <= 1
    /\ Ended => Result.readable = kept + taken

\* A read that never failed (no try was spent) and reports success has the bytes asked
\* for, or the stream has ended.
DoneMeansEnough ==
    Ended /\ Result.ec = "none" /\ tries = 0 => Result.readable >= cacheSize \/ peer # "open"
=============================================================================
