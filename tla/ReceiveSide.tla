----------------------------- MODULE ReceiveSide -----------------------------
(***************************************************************************)
(* The receiving side of a connected, non-blocking socket, as the tasks of   *)
(* include/client/socket/TCP/socket_tcp.hpp use it (the kernel and the peer: *)
(* external).  Bytes are counted from the start of each call: of those the    *)
(* peer sends, the first "arrived" have come in and the first "taken" have    *)
(* been handed to the program.                                              *)
(***************************************************************************)
EXTENDS Integers, Sequences, FiniteSetsExt

CONSTANTS
    StreamLen,      \* bound: how many bytes the peer sends during a call at most
    StartErrnos     \* what other tasks of the pool may leave in the worker's errno

\* Values of the thread-local errno that the code tells apart; "none" is 0, "isconn"
\* is the 106 left by the second connect of async_try_connect_tcp, "other" any other one.
Errno == {"none", "again", "intr", "isconn", "reset", "other"}

ASSUME ReceiveAssumption ==
    /\ StreamLen \in Nat
    /\ StartErrnos \subseteq Errno

VARIABLES
    arrived,    \* bytes that have reached the kernel
    taken,      \* bytes recv and read have returned
    peer,       \* "open", "fin" (closed) or "rst" (reset, not yet reported)
    errno       \* errno of the worker that runs the task

kernelVars == <<arrived, taken, peer, errno>>

KernelTypeOK ==
    /\ arrived \in 0 .. StreamLen
    /\ taken \in 0 .. arrived
    /\ peer \in {"open", "fin", "rst"}
    /\ errno \in Errno

KernelInit ==
    /\ arrived \in 0 .. StreamLen
    /\ taken = 0
    /\ peer = "open"
    /\ errno \in StartErrnos

\* A call starts, counting its bytes from 1.  Its task runs on any worker of the pool: it
\* finds the errno the call before left, or what tasks of another kind did.
BeginCall ==
    /\ arrived' = arrived - taken
    /\ taken' = 0
    /\ errno' \in {errno} \cup StartErrnos
    /\ UNCHANGED peer

Arrive ==
    /\ peer = "open"
    /\ arrived' \in arrived + 1 .. StreamLen
    /\ UNCHANGED <<taken, peer, errno>>

PeerEnds ==
    /\ peer = "open"
    /\ peer' \in {"fin", "rst"}
    /\ UNCHANGED <<arrived, taken, errno>>

Unread == arrived - taken

\* recv or read into a buffer of cap bytes returns n.  The bytes that have arrived come
\* first, then a reset is reported once, then the end of the stream.  A successful
\* call leaves errno alone.
Recv(cap, n) ==
    /\ UNCHANGED arrived
    /\ IF Unread > 0
       THEN /\ n = Min({cap, Unread})
            /\ taken' = taken + n
            /\ UNCHANGED <<peer, errno>>
       ELSE /\ n = IF peer = "fin" THEN 0 ELSE -1
            /\ peer' = IF peer = "rst" THEN "fin" ELSE peer
            /\ errno' = CASE peer = "open" -> "again"
                          [] peer = "rst" -> "reset"
                          [] peer = "fin" -> errno
            /\ UNCHANGED taken

RecvResults(cap) == -1 .. cap

\* select is interrupted by a signal.
SelectInterrupted ==
    /\ errno' = "intr"
    /\ UNCHANGED <<arrived, taken, peer>>
=============================================================================
