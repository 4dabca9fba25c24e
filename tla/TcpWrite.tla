------------------------------ MODULE TcpWrite ------------------------------
(***************************************************************************)
(* async_write, the task it posts and M_retryTcpwrite                       *)
(* (include/client/socket/TCP/socket_tcp.hpp): write a message to a           *)
(* non-blocking socket.  Bytes are counted; the kernel's send buffer is       *)
(* external.  TcpConnection composes this task with the others.             *)
(***************************************************************************)
EXTENDS ReceiveSide

CONSTANTS
    MaxLen,         \* bound: the longest message
    MaxRoom,        \* capacity of the kernel's send buffer
    MaxRetry,       \* M_max_rety_count (10 unless the caller says otherwise)
    SizeMax         \* the largest size_t

ErrorCode == {"none", "bad_file_descriptor", "bad_address", "io_error"}

WriteAssumption ==
    /\ {MaxLen, MaxRoom, MaxRetry, SizeMax} \subseteq Nat \ {0}
    /\ MaxLen < SizeMax

VARIABLES
    room,       \* bytes the send buffer has room for
    sent,       \* bytes the kernel has accepted from this call
    bytes,      \* size of M_message__; 0 if the call is refused, for that or an invalid context
    len,        \* strlen of M_clientMessage: the bytes in front of its first NUL
    state,      \* "WRITING", "retry" inside M_retryTcpwrite, "posted" once the callback is
                \* posted and while no call is under way
    total,      \* M_total_write and M_written of the task, always equal
    offset,     \* M_total_write of M_retryTcpwrite: an int passed as a size_t
    tries,      \* M_connect_rety_count
    posted      \* the callbacks posted: error code and size

sendVars == <<room, sent>>
writeVars == <<bytes, len, total, offset>>
vars == <<kernelVars, sendVars, bytes, len, state, total, offset, tries, posted>>

TypeOK ==
    /\ KernelTypeOK
    /\ room \in 0 .. MaxRoom
    /\ sent \in 0 .. MaxLen
    /\ bytes \in 0 .. MaxLen
    /\ len \in 0 .. bytes
    /\ state \in {"WRITING", "retry", "posted"}
    /\ total \in 0 .. MaxLen
    /\ offset \in 0 .. SizeMax
    /\ tries \in 0 .. MaxRetry
    /\ posted \in Seq([ec : ErrorCode, size : 0 .. 2 * MaxLen])

\* write(fd, ..., cap) returns n: what there is room for, else an error.  After the peer
\* has closed the connection a write may be accepted or refused.
Send(cap, n) ==
    /\ UNCHANGED <<arrived, taken, peer>>
    /\ \/ /\ peer # "rst" /\ room > 0
          /\ n = Min({cap, room})
          /\ sent' = sent + n
          /\ room' = room - n
          /\ UNCHANGED errno
       \/ /\ peer # "open" \/ room = 0
          /\ n = -1
          /\ errno' = IF peer = "open" THEN "again" ELSE "reset"
          /\ UNCHANGED sendVars

SendResults == -1 .. MaxLen

AsSizeT(n) == n % (SizeMax + 1)

Post(ec, size) ==
    /\ posted' = Append(posted, [ec |-> ec, size |-> size])
    /\ state' = "posted"

\* async_write.  An invalid context or an empty string is refused at once.  What is sent
\* of another one is what is in front of its first NUL: for a message that begins with
\* one the loop is not entered.
Call ==
    /\ state = "posted"
    /\ BeginCall
    /\ bytes' \in 0 .. MaxLen
    /\ len' \in 0 .. bytes'
    /\ state' = IF len' > 0 THEN "WRITING" ELSE "posted"
    /\ posted' = IF bytes' = 0 THEN <<[ec |-> "bad_file_descriptor", size |-> 0]>>
                 ELSE IF len' = 0 THEN <<[ec |-> "none", size |-> 0]>>
                 ELSE <<>>
    /\ sent' = 0 /\ total' = 0 /\ offset' = 0 /\ tries' = 0
    /\ UNCHANGED room

\* Mutant: what was asked for is counted, not what was written.
Writing_CountAll ==
    /\ state = "WRITING"
    /\ \E n \in SendResults :
         /\ Send(len - total, n)
         /\ IF n < 0
            THEN /\ state' = "retry" /\ offset' = AsSizeT(n) /\ tries' = 0
                 /\ UNCHANGED <<total, posted>>
            ELSE /\ total' = len
                 /\ Post("none", len)
                 /\ UNCHANGED <<offset, tries>>
    /\ UNCHANGED <<bytes, len>>

\* One turn of the write loop.  A failure hands write's result, -1, to M_retryTcpwrite
\* as the number of bytes written so far.
Writing ==
    /\ state = "WRITING"
    /\ \E n \in SendResults :
         /\ Send(len - total, n)
         /\ IF n < 0
            THEN /\ state' = "retry" /\ offset' = AsSizeT(n) /\ tries' = 0
                 /\ UNCHANGED <<total, posted>>
            ELSE /\ total' = total + n
                 /\ IF total + n = len THEN Post("none", len) ELSE UNCHANGED <<state, posted>>
                 /\ UNCHANGED <<offset, tries>>
    /\ UNCHANGED <<bytes, len>>

\* M_client_write_bytes, which is tested after a retry that succeeds, is never set.
RetrySuccess == Post("bad_address", total)

\* The bytes written so far are added to themselves.
RetryFailed == Post("io_error", total + total)

RetryImpossible ==
    /\ state = "retry"
    /\ errno # "again"
    /\ RetryFailed
    /\ UNCHANGED <<kernelVars, sendVars, writeVars, tries>>

\* A write of the inner loop, entered only while offset < len; a failed one ends the
\* retry because the test of line 1158 compares the wrong way round.
Rewrite ==
    \E n \in SendResults :
        /\ Send(len - offset, n)
        /\ offset' = IF n > 0 THEN offset + n ELSE offset
        /\ IF n < 0 THEN RetryFailed
           ELSE IF offset + n = len THEN RetrySuccess ELSE UNCHANGED <<state, posted>>

\* One turn of the retry loop: sleep, then write what is left.
RetryTurn ==
    /\ state = "retry"
    /\ errno = "again"
    /\ tries < MaxRetry
    /\ tries' = tries + 1
    /\ IF offset < len THEN Rewrite ELSE UNCHANGED <<kernelVars, sendVars, offset, state, posted>>
    /\ UNCHANGED <<bytes, len, total>>

RetryEnd ==
    /\ state = "retry"
    /\ errno = "again"
    /\ tries >= MaxRetry
    /\ IF offset <= len THEN RetrySuccess ELSE RetryFailed
    /\ UNCHANGED <<kernelVars, sendVars, writeVars, tries>>

\* The peer acknowledges bytes.
Drain ==
    /\ peer = "open"
    /\ room' \in room + 1 .. MaxRoom
    /\ UNCHANGED <<kernelVars, sent>>

Task == Writing \/ RetryImpossible \/ RetryTurn \/ RetryEnd

-----------------------------------------------------------------------------
Result == posted[1]

Ended == posted # <<>>

\* The task's count is the kernel's, whatever part of the message each write takes and
\* whenever the buffer fills up, and the callback is posted once.
CountedOnce ==
    /\ total = sent
    /\ Len(posted) <= 1

\* A write is reported as a success if and only if it was accepted and everything in front
\* of the message's first NUL was sent, and the size it reports is then what was sent.  So
\* a message without a NUL arrives whole or is not called a success; one that holds a NUL
\* is cut there without an error, and only the size tells.
SuccessIsComplete ==
    Ended =>
        /\ Result.ec = "none" <=> bytes > 0 /\ sent = len
        /\ Result.ec = "none" => Result.size = sent
=============================================================================
