---------------------------- MODULE TlsReadUntil ----------------------------
(***************************************************************************)
(* async_read_until_tls, the task it posts and M_ssl_read_until_retry         *)
(* (include/client/socket/SSL/socket_ssl.hpp).  The TLS library is external:   *)
(* the bytes of ReceiveSide are the decrypted ones, and its errno is what      *)
(* SSL_get_error says of the last SSL_read: "again" SSL_ERROR_WANT_READ,       *)
(* "reset" SSL_ERROR_SYSCALL, "other" SSL_ERROR_SSL.                          *)
(***************************************************************************)
EXTENDS TlsObjects

CONSTANTS
    CacheSize,      \* bytes one SSL_read of the READING state takes (596)
    RetrySize,      \* bytes one SSL_read of the retry loop takes (1086)
    Delimiters      \* delimiters: <<length, where the first one in the stream ends>>

ReadUntilAssumption ==
    /\ {CacheSize, RetrySize} \subseteq Nat \ {0}
    /\ \A d \in Delimiters : d \in Nat \X Nat /\ d[1] <= d[2]

VARIABLES
    delimiter,  \* M_delimiter
    readable    \* readableBytes of M_client_read_buffer, counted up to StreamLen

TypeOK ==
    /\ ObjectsTypeOK
    /\ delimiter \in Delimiters
    /\ state \in {"VERIFY", "READING", "ERROR", "retry"} \cup Ended
    /\ readable \in 0 .. StreamLen

DelimiterLength == delimiter[1]
DelimiterIn(bytes) == delimiter[2] <= bytes

\* The peer may send for ever: the bytes behind the first StreamLen are not counted.
SslRead(cap, n) ==
    \/ Recv(cap, n)
    \/ n = -1 /\ errno' = "other" /\ UNCHANGED <<arrived, taken, peer>>
    \/ taken = StreamLen /\ peer = "open" /\ n \in 1 .. cap /\ UNCHANGED kernelVars

\* appendTobuffer.
Appended(n) == readable' = IF n > 0 THEN Min({readable + n, StreamLen}) ELSE readable

\* A call without a descriptor, an SSL object, a context or a delimiter is refused.
Call ==
    /\ delimiter' \in Delimiters /\ readable' = 0
    /\ IF fd # "none" /\ ssl # "null" /\ ctx # "null" /\ delimiter'[1] > 0
       THEN Begin("VERIFY")
       ELSE Refuse
    /\ UNCHANGED objectVars

\* Every turn of the search compares the delimiter with the memory behind the bytes
\* read: whatever is there.  Found, the loop ends and nothing is posted.
Verify ==
    /\ state = "VERIFY"
    /\ \E equal \in BOOLEAN :
          state' = IF DelimiterLength <= readable /\ equal THEN "silent" ELSE "READING"
    /\ UNCHANGED <<kernelVars, objectVars, delimiter, tries, readable, posted>>

SelectFails ==
    /\ state = "READING"
    /\ Post("timed_out", 0)
    /\ UNCHANGED <<kernelVars, objectVars, delimiter, tries, readable>>

\* The callback, the buffer and the context are moved into a task; without a return or a
\* break the code falls through to FOUND, which dereferences the buffer moved from.
Closed == posted' = Append(posted, [ec |-> "connection_reset", size |-> 0]) /\ state' = "crashed"

ReadReleased ==
    /\ state = "READING" /\ fd = "open" /\ ssl = "released"
    /\ UsesReleased
    /\ UNCHANGED <<delimiter, readable>>

\* Mutant: a piece replaces what was read before.
Reading_Overwrite ==
    /\ state = "READING" /\ fd = "open" /\ ssl # "released"
    /\ \E n \in RecvResults(CacheSize) :
         /\ SslRead(CacheSize, n)
         /\ readable' = IF n > 0 THEN n ELSE readable
         /\ CASE n < 0 -> state' = "ERROR" /\ UNCHANGED posted
              [] n = 0 -> Closed
              [] n > 0 -> state' = "VERIFY" /\ UNCHANGED posted
    /\ UNCHANGED <<objectVars, delimiter, tries>>

\* select returned, the data ready or the time over: on a closed descriptor it fails.
Reading ==
    /\ state = "READING" /\ fd = "open" /\ ssl # "released"
    /\ \E n \in RecvResults(CacheSize) :
         /\ SslRead(CacheSize, n)
         /\ Appended(n)
         /\ CASE n < 0 -> state' = "ERROR" /\ UNCHANGED posted
              [] n = 0 -> Closed
              [] n > 0 -> state' = "VERIFY" /\ UNCHANGED posted
    /\ UNCHANGED <<objectVars, delimiter, tries>>

RetrySuccess == Post("none", readable)
RetryFailed == Post("io_error", 0)

\* Mutant: a read that would block is tried again without the retry loop.
Error_Again ==
    /\ state = "ERROR"
    /\ IF errno = "other" THEN RetryFailed ELSE state' = "READING" /\ UNCHANGED posted
    /\ tries' = 0
    /\ UNCHANGED <<kernelVars, objectVars, delimiter, readable>>

\* Entering M_ssl_read_until_retry: SSL_ERROR_SSL is not retried.
Error ==
    /\ state = "ERROR"
    /\ IF errno = "other" THEN RetryFailed ELSE state' = "retry" /\ UNCHANGED posted
    /\ tries' = 0
    /\ UNCHANGED <<kernelVars, objectVars, delimiter, readable>>

\* The select before the retries is interrupted.
RetrySelectFails ==
    /\ state = "ERROR"
    /\ errno = "again"
    /\ RetryFailed
    /\ tries' = 0
    /\ UNCHANGED <<kernelVars, objectVars, delimiter, readable>>

\* A turn of the retry loop begins by counting itself.
RetryTurn ==
    /\ state = "retry"
    /\ tries' = tries + 1

\* The last turn only fails.
RetryExhausted ==
    /\ RetryTurn
    /\ tries' >= MaxRetry
    /\ RetryFailed
    /\ UNCHANGED <<kernelVars, objectVars, delimiter, readable>>

RetryFound ==
    /\ RetryTurn
    /\ tries' < MaxRetry
    /\ DelimiterIn(readable)
    /\ RetrySuccess
    /\ UNCHANGED <<kernelVars, objectVars, delimiter, readable>>

\* Mutant: the last turn reads.
RetryRead_Untested ==
    /\ RetryTurn
    /\ ~DelimiterIn(readable)
    /\ \E n \in RecvResults(RetrySize) :
         /\ SslRead(RetrySize, n)
         /\ Appended(n)
         /\ IF n > 0 \/ (n < 0 /\ errno' = "again") THEN UNCHANGED <<state, posted>> ELSE RetryFailed
    /\ UNCHANGED <<objectVars, delimiter>>

\* A read that would block is tried again, any other failure ends the retries.
RetryRead ==
    /\ RetryTurn
    /\ tries' < MaxRetry
    /\ ~DelimiterIn(readable)
    /\ \E n \in RecvResults(RetrySize) :
         /\ SslRead(RetrySize, n)
         /\ Appended(n)
         /\ IF n > 0 \/ (n < 0 /\ errno' = "again") THEN UNCHANGED <<state, posted>> ELSE RetryFailed
    /\ UNCHANGED <<objectVars, delimiter>>

Task ==
    \/ Verify \/ SelectFails \/ ReadReleased \/ Reading \/ Error
    \/ RetrySelectFails \/ RetryExhausted \/ RetryFound \/ RetryRead

-----------------------------------------------------------------------------
\* The callback is handed all the bytes that were read: the buffer is moved into it.
DeliversAll == readable = taken

\* A read that reports success has its delimiter: only the retry loop looks for it in
\* the right place, and it must have done so since the last piece was appended.
SuccessIsComplete ==
    posted # <<>> /\ posted[1].ec = "none" => DelimiterIn(readable)
=============================================================================
