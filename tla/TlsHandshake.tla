---------------------------- MODULE TlsHandshake ----------------------------
(***************************************************************************)
(* async_create_tls, async_try_connect_tls and M_ssl_handshake_retry          *)
(* (include/client/socket/SSL/socket_ssl.hpp): make the OpenSSL objects of a   *)
(* connected socket and shake hands.  TlsConnection composes these tasks with  *)
(* the others.                                                             *)
(***************************************************************************)
EXTENDS TlsObjects

VARIABLES
    error,      \* M_handshake_err: what SSL_get_error says of the first SSL_connect
    retry       \* what M_retry_tls points to if not to the configuration's object ("same")

handshakeVars == <<error, retry>>

TypeOK ==
    /\ ObjectsTypeOK
    /\ state \in {"create", "connect", "retry"} \cup Ended
    /\ error \in {"none", "want", "syscall", "ssl", "other"}
    /\ retry \in {"same", "null", "fresh"}

\* SSL_connect on an object: done, at once if it is connected already, or why not.  A system
\* error leaves its errno, which is 0 when the peer has closed the connection.
SslConnect(object, result) ==
    /\ result \in {"done", "want", "syscall", "ssl", "other"}
    /\ IF object = "connected" THEN result = "done" ELSE fd = "closed" => result = "syscall"
    /\ errno' \in CASE result = "want" -> {"again"}
                    [] result = "syscall" -> IF fd = "closed" THEN {"other"} ELSE {"none", "reset", "other"}
                    [] OTHER -> {errno}
    /\ UNCHANGED <<arrived, taken, peer>>

SslResults == {"done", "want", "syscall", "ssl", "other"}

CallCreate == Begin("create") /\ error' = "none" /\ retry' = "same" /\ UNCHANGED objectVars

\* Both pointers are overwritten.
Created ==
    /\ state = "create"
    /\ ctx' = "set" /\ ssl' = "fresh" /\ broken' = FALSE
    /\ leaked' = IF Live(ssl) THEN leaked + 1 ELSE leaked
    /\ Post("none", 0)
    /\ UNCHANGED <<kernelVars, fd, tries, handshakeVars>>

\* Mutant: the old SSL object is freed, and the pointer to it stays.
NotCreated_Freed ==
    /\ state = "create"
    /\ ctx' = "null"
    /\ ssl' = IF Live(ssl) THEN "released" ELSE ssl
    /\ errno' \in {errno, "other"}
    /\ Post(errno', 0)
    /\ UNCHANGED <<arrived, taken, peer, fd, leaked, broken, tries, handshakeVars>>

\* The certificates cannot be loaded.  The old SSL object stays, without its context.
NotCreated ==
    /\ state = "create"
    /\ ctx' = "null"
    /\ errno' \in {errno, "other"}
    /\ Post(errno', 0)
    /\ UNCHANGED <<arrived, taken, peer, fd, ssl, leaked, broken, tries, handshakeVars>>

CallConnect ==
    /\ IF fd = "none" \/ ssl = "null" THEN Refuse ELSE Begin("connect")
    /\ error' = "none" /\ retry' = "same"
    /\ UNCHANGED objectVars

Done == ssl' = "connected" /\ Post("none", 0) /\ UNCHANGED <<fd, ctx, leaked, broken>>

ConnectReleased ==
    /\ state = "connect" /\ ssl = "released"
    /\ UsesReleased
    /\ UNCHANGED handshakeVars

\* The first SSL_connect; the select that follows "want" looks at no result but -1.
Connect ==
    /\ state = "connect" /\ ssl # "released"
    /\ \E result \in SslResults :
         /\ SslConnect(ssl, result)
         /\ IF result = "done"
            THEN Done /\ UNCHANGED error
            ELSE state' = "retry" /\ error' = result /\ UNCHANGED <<objectVars, posted>>
    /\ UNCHANGED <<tries, retry>>

\* Mutant: the callback is posted, and the retries begin.
SelectFails_NoReturn ==
    /\ state = "connect" /\ ssl # "released"
    /\ SslConnect(ssl, "want")
    /\ posted' = Append(posted, [ec |-> "timed_out", size |-> 0])
    /\ state' = "retry" /\ error' = "want"
    /\ UNCHANGED <<objectVars, tries, retry>>

SelectFails ==
    /\ state = "connect" /\ ssl # "released"
    /\ SslConnect(ssl, "want")
    /\ Post("timed_out", 0)
    /\ UNCHANGED <<objectVars, tries, handshakeVars>>

Turn == state = "retry" /\ tries < MaxRetry /\ tries' = tries + 1

\* The handshake waited for the socket: it goes on, on the same object.
TurnWanted ==
    /\ Turn
    /\ error = "want"
    /\ \E result \in SslResults :
         /\ SslConnect(ssl, result)
         /\ IF result = "done" THEN Done ELSE UNCHANGED <<objectVars, state, posted>>
    /\ UNCHANGED handshakeVars

\* Mutant: the object that is replaced is not freed.
Replacements_NotFreed ==
    {[ssl |-> ssl, retry |-> "fresh", leaked |-> IF retry = "fresh" THEN leaked + 1 ELSE leaked]}

\* M_creater_new_retry_tls frees M_retry_tls, the configuration's object the first time,
\* and makes another in the same place of the heap or elsewhere; without a context, none.
Replacements ==
    IF ctx = "null"
    THEN {[ssl |-> "released", retry |-> "null", leaked |-> leaked]}
    ELSE {[ssl |-> "fresh", retry |-> "same", leaked |-> leaked],
          [ssl |-> "released", retry |-> "fresh", leaked |-> leaked]}

Replaces(new) ==
    /\ Turn
    /\ ssl' = new.ssl
    /\ retry' = new.retry
    /\ leaked' = new.leaked
    /\ UNCHANGED <<fd, ctx, error>>

\* The retry gives up, and an object of M_retry_tls's own is lost.  The callback is told
\* errno, whatever it is.
GiveUp(object, lost) ==
    /\ broken' = TRUE
    /\ leaked' = IF object = "fresh" THEN lost + 1 ELSE lost
    /\ Post(errno, 0)
    /\ UNCHANGED <<kernelVars, fd, ctx, error>>

\* An error that the switch does not name is retried by a replacement alone.
TurnOther ==
    /\ error = "other"
    /\ \E new \in Replacements : Replaces(new)
    /\ UNCHANGED <<kernelVars, broken, state, posted>>

\* SSL_ERROR_SSL: the message is thrown, out of the worker.
TurnThrows ==
    /\ error = "ssl"
    /\ \E new \in Replacements : Replaces(new)
    /\ state' = "crashed"
    /\ UNCHANGED <<kernelVars, broken, posted>>

\* A system error that is not a reset or a time-out.
TurnFails ==
    /\ Turn
    /\ error = "syscall" /\ errno # "reset"
    /\ \E new \in Replacements :
         GiveUp(new.retry, new.leaked) /\ ssl' = new.ssl /\ retry' = new.retry

\* Mutant: the configuration is not told of the object that is connected.
TurnReconnects_NotUpdated ==
    /\ error = "syscall" /\ errno = "reset"
    /\ \E new \in Replacements, result \in SslResults :
         /\ Replaces(new)
         /\ SslConnect(new.retry, result)
         /\ IF result = "done" THEN Post("none", 0) ELSE UNCHANGED <<state, posted>>
    /\ UNCHANGED broken

\* After a reset the new object's handshake is tried, once a turn.  A failure is printed
\* by means of the configuration's pointer, which may be to the object freed.
TurnReconnects ==
    /\ error = "syscall" /\ errno = "reset"
    /\ \E new \in Replacements, result \in SslResults :
         /\ SslConnect(new.retry, result)
         /\ IF new.retry = "null"
            THEN Replaces(new) /\ state' = "crashed" /\ UNCHANGED <<broken, posted>>
            ELSE IF result = "done"
            THEN Turn /\ Done /\ retry' = "same" /\ UNCHANGED error
            ELSE /\ Replaces(new)
                 /\ state' \in IF new.ssl = "released" THEN {"retry", "undefined"} ELSE {"retry"}
                 /\ UNCHANGED <<broken, posted>>

TurnsOver ==
    /\ state = "retry" /\ tries >= MaxRetry
    /\ GiveUp(retry, leaked)
    /\ UNCHANGED <<ssl, tries, retry>>

Task ==
    \/ Created \/ NotCreated
    \/ ConnectReleased \/ Connect \/ SelectFails
    \/ TurnWanted \/ TurnOther \/ TurnThrows \/ TurnFails \/ TurnReconnects \/ TurnsOver

-----------------------------------------------------------------------------
\* A handshake reported as done has connected the object that the configuration points
\* to, whichever object that is after the retries: the calls that follow use it.  (A
\* failure is reported by errno: as no error when that is 0.)
SuccessIsConnected ==
    posted # <<>> /\ posted[1].ec = "none" /\ errno # "none" => ssl = "connected"
=============================================================================
