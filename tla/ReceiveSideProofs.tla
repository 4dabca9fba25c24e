--------------------------- MODULE ReceiveSideProofs ---------------------------
(***************************************************************************)
(* What the steps of ReceiveSide keep and change: the lemmas on which the     *)
(* proofs about the TCP and the TLS calls rest.                              *)
(***************************************************************************)
EXTENDS ReceiveSide, TLAPS

\* The smaller of two numbers.
LEMMA MinOfTwo ==
    ASSUME NEW a \in Int, NEW b \in Int
    PROVE  Min({a, b}) = IF a <= b THEN a ELSE b
  BY DEF Min

\* What recv and read do: the bytes returned are taken, in order; 0 means the end of the
\* stream, and a failure is EAGAIN or a reset.
Received(n) ==
    /\ KernelTypeOK'
    /\ n \in Int /\ n >= -1
    /\ taken' = IF n > 0 THEN taken + n ELSE taken
    /\ n > 0 => errno' = errno
    /\ n = 0 => peer' = "fin" /\ errno' = errno
    /\ n < 0 => errno' \in {"again", "reset"}
    /\ peer # "open" => peer' # "open"

\* recv does so, with any capacity.
LEMMA RecvReceives ==
    ASSUME KernelTypeOK, NEW cap \in Nat \ {0}, NEW n \in RecvResults(cap), Recv(cap, n)
    PROVE  Received(n)
  <1>1. arrived \in Nat /\ taken \in Nat /\ taken <= arrived /\ arrived <= StreamLen /\ StreamLen \in Nat
    BY ReceiveAssumption DEF KernelTypeOK
  <1>2. n \in Int /\ n >= -1
    BY DEF RecvResults
  <1>3. CASE Unread > 0
    <2>1. n = IF cap <= Unread THEN cap ELSE Unread
      BY <1>1, <1>3, MinOfTwo DEF Recv, Unread
    <2>2. n > 0 /\ taken' = taken + n /\ taken' <= arrived /\ UNCHANGED <<arrived, peer, errno>>
      BY <1>1, <1>2, <1>3, <2>1 DEF Recv, Unread
    <2> QED  BY <1>1, <1>2, <2>2 DEF Received, KernelTypeOK
  <1>4. CASE ~(Unread > 0)
    <2>1. UNCHANGED <<arrived, taken>> /\ n \in {0, -1}
      BY <1>4 DEF Recv
    <2>2. peer \in {"open", "fin", "rst"}
      BY DEF KernelTypeOK
    <2>3. CASE peer = "open"
      BY <1>1, <1>4, <2>1, <2>3 DEF Recv, Received, KernelTypeOK, Errno
    <2>4. CASE peer = "fin"
      BY <1>1, <1>4, <2>1, <2>4 DEF Recv, Received, KernelTypeOK, Errno
    <2>5. CASE peer = "rst"
      BY <1>1, <1>4, <2>1, <2>5 DEF Recv, Received, KernelTypeOK, Errno
    <2> QED  BY <2>2, <2>3, <2>4, <2>5
  <1> QED  BY <1>3, <1>4

\* A call counts the bytes that have arrived and were not taken.
LEMMA BeginTypes ==
    ASSUME KernelTypeOK, BeginCall
    PROVE  KernelTypeOK' /\ taken' = 0 /\ UNCHANGED peer
  BY ReceiveAssumption DEF KernelTypeOK, BeginCall

\* An interrupted select sets errno alone.
LEMMA InterruptedTypes ==
    ASSUME KernelTypeOK, SelectInterrupted
    PROVE  KernelTypeOK' /\ errno' = "intr" /\ UNCHANGED <<arrived, taken, peer>>
  BY DEF KernelTypeOK, SelectInterrupted, Errno

\* What waits in the socket between two steps of the task.
LEMMA ArrivalTypes ==
    ASSUME KernelTypeOK, Arrive \/ PeerEnds
    PROVE  KernelTypeOK' /\ UNCHANGED <<taken, errno>> /\ (peer # "open" => peer' # "open")
  BY ReceiveAssumption DEF KernelTypeOK, Arrive, PeerEnds
=============================================================================
