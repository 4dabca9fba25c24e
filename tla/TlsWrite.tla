------------------------------ MODULE TlsWrite ------------------------------
(***************************************************************************)
(* async_write_tls and M_ssl_write_retry (include/client/socket/SSL/           *)
(* socket_ssl.hpp): SSL_write takes what it is given whole or not at all.      *)
(* TlsConnection composes this task with the others.                         *)
(***************************************************************************)
EXTENDS TlsObjects

CONSTANTS MaxLen        \* bound: the longest message

VARIABLES
    len         \* strlen of the message: the bytes in front of its first NUL

TypeOK ==
    /\ ObjectsTypeOK
    /\ state \in {"write"} \cup Ended
    /\ len \in 0 .. MaxLen

\* Without an SSL object nothing is posted.
Call ==
    /\ len' \in 0 .. MaxLen
    /\ IF fd = "none" THEN Refuse
       ELSE IF ssl = "null" THEN Begin("silent")
       ELSE Begin("write")
    /\ UNCHANGED objectVars

\* SSL_write returns n: 0 for an empty message or a closed connection.  On a descriptor that
\* was closed it fails: the object made since has its handshake before it.
SslWrite(n) ==
    /\ n \in {-1, 0, len}
    /\ n = 0 => len = 0 \/ peer # "open"
    /\ n > 0 => peer # "rst"
    /\ fd = "closed" => n = -1
    /\ errno' \in IF n # -1 THEN {errno} ELSE IF fd = "closed" THEN {errno, "other"}
                 ELSE {errno, "again", "reset", "other"}
    /\ UNCHANGED <<arrived, taken, peer>>

WriteReleased ==
    /\ state = "write" /\ ssl = "released"
    /\ UsesReleased
    /\ UNCHANGED len

\* SSL_write finishes a handshake that was not.
Written ==
    /\ state = "write" /\ ssl # "released"
    /\ len > 0
    /\ SslWrite(len)
    /\ ssl' = "connected"
    /\ Post("none", len)
    /\ UNCHANGED <<fd, ctx, leaked, broken, tries, len>>

\* The condition for a retry is never met: the first turn gives up.  Without a context
\* M_ssl_write_retry throws.
NotWritten ==
    /\ state = "write" /\ ssl # "released"
    /\ SslWrite(-1)
    /\ IF ctx = "null"
       THEN state' = "crashed" /\ UNCHANGED <<tries, posted>>
       ELSE tries' = 1 /\ Post("io_error", 0)
    /\ UNCHANGED <<objectVars, len>>

\* The connection is closed: the objects are released and the descriptor closed.
Closed ==
    /\ state = "write" /\ ssl # "released"
    /\ SslWrite(0)
    /\ ssl' = "released" /\ fd' = "closed" /\ broken' = TRUE
    /\ Post("connection_reset", 0)
    /\ UNCHANGED <<ctx, leaked, tries, len>>

Task == WriteReleased \/ Written \/ NotWritten \/ Closed
=============================================================================
