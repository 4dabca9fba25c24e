--------------------------- MODULE TlsConnection ---------------------------
(***************************************************************************)
(* A socketSSL over a connected descriptor, and the calls a client makes on    *)
(* it, each from the callback of the one before: async_create_tls,             *)
(* async_try_connect_tls, async_write_tls and async_read_until_tls, in any     *)
(* order; in the end the socket is destroyed (include/client/socket/SSL/       *)
(* socket_ssl.hpp).                                                        *)
(***************************************************************************)
EXTENDS TlsObjects

CONSTANTS
    CacheSize, RetrySize, Delimiters,       \* see TlsReadUntil
    MaxLen,                                 \* see TlsWrite
    MaxCalls                                \* bound: how many calls the client makes

VARIABLES
    task,                   \* the call under way or the last one: its name
    calls,                  \* how many calls have been made
    error, retry,           \* async_try_connect_tls's
    len,                    \* async_write_tls's
    delimiter, readable     \* async_read_until_tls's

Handshake == INSTANCE TlsHandshake
Write == INSTANCE TlsWrite
Until == INSTANCE TlsReadUntil

ASSUME TlsAssumption ==
    /\ Until!ReadUntilAssumption
    /\ {MaxRetry, MaxLen, MaxCalls} \subseteq Nat \ {0}

handshakeVars == <<error, retry>>
untilVars == <<delimiter, readable>>
vars == <<kernelVars, objectVars, taskVars, task, calls, handshakeVars, len, untilVars>>

TypeOK ==
    /\ task \in {"none", "create", "connect", "write", "until", "destroy"}
    /\ calls \in 0 .. MaxCalls
    /\ task \in {"create", "connect"} => Handshake!TypeOK
    /\ task = "write" => Write!TypeOK
    /\ task = "until" => Until!TypeOK

Init ==
    /\ ObjectsInit
    /\ task = "none" /\ calls = 0
    /\ error = "none" /\ retry = "same"
    /\ len = 0
    /\ delimiter = <<0, 0>> /\ readable = 0

\* What belonged to a call of another kind is gone.
DropHandshake == error' = "none" /\ retry' = "same"
DropWrite == len' = 0
DropUntil == delimiter' = <<0, 0>> /\ readable' = 0

\* The callback of the last call makes the next one.
Calls(name) ==
    /\ state = "over" /\ task # "destroy"
    /\ calls = 0 \/ posted # <<>>
    /\ calls < MaxCalls
    /\ calls' = calls + 1
    /\ task' = name

CallCreate == Calls("create") /\ Handshake!CallCreate /\ DropWrite /\ DropUntil
CallConnect == Calls("connect") /\ Handshake!CallConnect /\ DropWrite /\ DropUntil
CallWrite == Calls("write") /\ Write!Call /\ DropHandshake /\ DropUntil
CallUntil == Calls("until") /\ Until!Call /\ DropHandshake /\ DropWrite

Works(names) == task \in names /\ UNCHANGED <<task, calls>>

HandshakeTask == Works({"create", "connect"}) /\ Handshake!Task /\ UNCHANGED <<len, untilVars>>
WriteTask == Works({"write"}) /\ Write!Task /\ UNCHANGED <<handshakeVars, untilVars>>
UntilTask == Works({"until"}) /\ Until!Task /\ UNCHANGED <<handshakeVars, len>>

Task == HandshakeTask \/ WriteTask \/ UntilTask

\* ~socketSSL and ~client_ssl_configure, once no callback keeps the socket: both release
\* the context, after free has.
Destroy ==
    /\ state \in {"over", "silent"} /\ task # "destroy"
    /\ task' = "destroy"
    /\ state' = IF ctx = "null" THEN "over" ELSE "undefined"
    /\ leaked' = IF ctx = "null" /\ Live(ssl) THEN leaked + 1 ELSE leaked
    /\ posted' = <<>>
    /\ UNCHANGED <<kernelVars, fd, ctx, ssl, broken, tries, calls, handshakeVars, len, untilVars>>

Environment ==
    /\ state \notin {"crashed", "undefined"}
    /\ Arrive \/ PeerEnds
    /\ UNCHANGED <<objectVars, taskVars, task, calls, handshakeVars, len, untilVars>>

Next == CallCreate \/ CallConnect \/ CallWrite \/ CallUntil \/ Task \/ Destroy \/ Environment

Spec == Init /\ [][Next]_vars

\* The worker is scheduled and select returns within M_timeout.  Nothing is assumed of the
\* peer, of the library's answers, nor that the client makes a call.
FairSpec == Spec /\ WF_vars(Task)

-----------------------------------------------------------------------------
\* What a call reports as done is done: a handshake, given an errno that is not 0, has
\* connected the object that the next calls will use, and async_read_until_tls has the
\* delimiter: see TlsHandshake and TlsReadUntil.
SuccessIsTrue ==
    /\ task = "connect" => Handshake!SuccessIsConnected
    /\ task = "until" => Until!SuccessIsComplete

\* async_read_until_tls hands over every byte it took: see TlsReadUntil.
UntilDeliversAll == task = "until" => Until!DeliversAll

\* A call posts its callback once, and a call that is over has.  The exceptions: a write
\* without an SSL object, and a read that, before it needs a retry, takes what lies behind
\* its data for the delimiter, end in silence; a handshake whose error is SSL_ERROR_SSL, and a
\* handshake or a write whose context is gone, end in an exception; a read that meets the
\* end of the stream crashes after its callback is posted.
AnsweredOnce ==
    /\ Len(posted) <= 1
    /\ state = "over" /\ task \notin {"none", "destroy"} => posted # <<>>
    /\ state = "silent" =>
        /\ posted = <<>>
        /\ \/ task = "write" /\ ssl = "null"
           \/ task = "until" /\ tries = 0 /\ readable >= delimiter[1]
    /\ state = "crashed" =>
        \/ task = "connect" /\ posted = <<>> /\ (error = "ssl" \/ ctx = "null")
        \/ task = "write" /\ posted = <<>> /\ ctx = "null"
        \/ task = "until" /\ posted # <<>> /\ posted[1].ec = "connection_reset"
    /\ state = "undefined" => posted = <<>>

\* Between calls, the configuration points to an object that was released only after a
\* handshake or a write that failed for good: a client that then makes no call but
\* async_create_tls uses no released object, until the socket is destroyed.  Within a
\* call, only the retries of a handshake do.
ReleasedOnlyIfBroken ==
    /\ ssl = "released" /\ state \in {"over", "silent"} => broken
    /\ state = "undefined" => broken \/ task \in {"connect", "destroy"}

\* Whatever is retried, a call loses one SSL object at most.
FewLeaks == leaked <= calls

\* async_read_until_tls takes a piece outside its retries, where no tries are counted and
\* the delimiter is not found.
TakesPiece == task = "until" /\ state = "READING" /\ state' = "VERIFY"

\* Every call ends, however slowly the peer answers and wherever it stops: unless it is a
\* read and the peer sends for ever.
CallsEnd == (state \notin Ended ~> state \in Ended) \/ []<><<TakesPiece>>_vars
=============================================================================
