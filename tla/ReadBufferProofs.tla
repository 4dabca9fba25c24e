-------------------------- MODULE ReadBufferProofs --------------------------
(***************************************************************************)
(* ReadBuffer for any set of bytes, any chunks and any bound: the pointers   *)
(* stay in bounds, the vector stays small, and the buffer is a ByteQueue.   *)
(***************************************************************************)
EXTENDS ReadBuffer, SequenceTheorems, TLAPS

\* What the vector and the pointers are once n bytes can be appended: the unread
\* bytes are where they were, or at the front.
LEMMA EnsureWriteableRoom ==
    ASSUME IInv, NEW n \in Nat, ReadableBytes + n <= MaxReadable
    PROVE  LET room == EnsureWriteable(n)
           IN  /\ room.mem \in Seq(Byte)
               /\ room.rd \in Nat /\ room.wr \in Nat
               /\ room.rd <= room.wr
               /\ room.wr - room.rd = ReadableBytes
               /\ room.wr + n <= Len(room.mem)
               /\ Len(room.mem) <= 2 * MaxReadable
               /\ \A i \in 1 .. ReadableBytes : room.mem[room.rd + i] = mem[rd + i]
               /\ room.rd = room.wr => room.rd = 0
  <1> DEFINE room == EnsureWriteable(n)
  <1> USE BytesAssumption
  <1>1. /\ mem \in Seq(Byte) /\ rd \in Nat /\ wr \in Nat /\ Len(mem) \in Nat
        /\ rd <= wr /\ wr <= Len(mem) /\ ReadableBytes = wr - rd
        /\ Len(mem) <= 2 * MaxReadable /\ (rd = wr => rd = 0)
        /\ ReadableBytes + n <= MaxReadable
        /\ DOMAIN mem = 1 .. Len(mem)
    BY DEF IInv, TypeOK, InBounds, SpaceBounded, EmptyIsReset, ReadableBytes
  <1>2. CASE Len(mem) - wr >= n
    <2>1. room = [mem |-> mem, rd |-> rd, wr |-> wr]
      BY <1>2 DEF EnsureWriteable
    <2> QED  BY <1>1, <1>2, <2>1
  <1>3. CASE ~(Len(mem) - wr >= n) /\ rd + (Len(mem) - wr) >= n
    <2>1. room = [mem |-> Compacted, rd |-> 0, wr |-> ReadableBytes]
      BY <1>3 DEF EnsureWriteable
    <2>2. \A i \in 1 .. Len(mem) : i <= ReadableBytes => rd + i \in 1 .. Len(mem)
      BY <1>1
    <2>3. /\ Compacted \in Seq(Byte) /\ Len(Compacted) = Len(mem)
          /\ \A i \in 1 .. ReadableBytes : Compacted[i] = mem[rd + i]
      <3>0. \A i \in 1 .. ReadableBytes : i \in 1 .. Len(mem)
        BY <1>1
      <3>1. \A i \in 1 .. Len(mem) :
               (IF i <= ReadableBytes THEN mem[rd + i] ELSE mem[i]) \in Byte
        BY <1>1, <2>2
      <3>2. Compacted = [i \in 1 .. Len(mem) |-> IF i <= ReadableBytes THEN mem[rd + i] ELSE mem[i]]
        BY <1>1 DEF Compacted
      <3>3. Compacted \in [1 .. Len(mem) -> Byte]
        BY <3>1, <3>2
      <3>4. Compacted \in Seq(Byte) /\ Len(Compacted) = Len(mem)
        BY <1>1, <3>3
      <3> QED  BY <3>0, <3>2, <3>4
    <2>4. \A i \in 1 .. ReadableBytes : Compacted[0 + i] = mem[rd + i]
      BY <1>1, <2>3
    <2>5. 0 <= ReadableBytes /\ ReadableBytes \in Nat /\ ReadableBytes + n <= Len(mem)
      BY <1>1, <1>3
    <2> HIDE DEF room
    <2>6. room.mem = Compacted /\ room.rd = 0 /\ room.wr = ReadableBytes
      BY <2>1
    <2>7. ReadableBytes - 0 = ReadableBytes
      BY <2>5
    <2>8. \A i \in 1 .. ReadableBytes : room.mem[room.rd + i] = mem[rd + i]
      BY <2>4, <2>6
    <2> QED  BY <1>1, <2>3, <2>5, <2>6, <2>7, <2>8 DEF room
  <1>4. CASE ~(Len(mem) - wr >= n) /\ ~(rd + (Len(mem) - wr) >= n)
    <2>1. room = [mem |-> Resized(wr + n), rd |-> rd, wr |-> wr]
      BY <1>4 DEF EnsureWriteable
    <2>2. wr + n \in Nat /\ Len(mem) <= wr + n /\ wr + n <= 2 * MaxReadable
      BY <1>1, <1>4
    <2>3. /\ Resized(wr + n) \in Seq(Byte) /\ Len(Resized(wr + n)) = wr + n
          /\ \A i \in 1 .. Len(mem) : Resized(wr + n)[i] = mem[i]
      <3>1. Resized(wr + n) = [i \in 1 .. wr + n |-> IF i \in 1 .. Len(mem) THEN mem[i] ELSE Zero]
        BY <1>1 DEF Resized
      <3> QED  BY <1>1, <2>2, <3>1
    <2>4. \A i \in 1 .. ReadableBytes : rd + i \in 1 .. Len(mem)
      BY <1>1
    <2> QED  BY <1>1, <2>1, <2>2, <2>3, <2>4
  <1> QED  BY <1>2, <1>3, <1>4

\* What an append leaves in the vector: the unread bytes, then the new ones.
LEMMA AppendResult ==
    ASSUME IInv, NEW data \in Chunks, AppendToBuffer(data)
    PROVE  /\ IInv'
           /\ ReadableBytes' = ReadableBytes + Len(data)
           /\ \A i \in 1 .. ReadableBytes : mem'[rd' + i] = mem[rd + i]
           /\ \A i \in 1 .. Len(data) : mem'[rd' + ReadableBytes + i] = data[i]
  <1> DEFINE n == Len(data)
             room == EnsureWriteable(n)
  <1>1. data \in Seq(Byte) /\ n \in Nat /\ DOMAIN data = 1 .. n
    BY BytesAssumption
  <1>2. ReadableBytes + n <= MaxReadable
    BY DEF AppendToBuffer
  <1>3. /\ room.mem \in Seq(Byte)
        /\ room.rd \in Nat /\ room.wr \in Nat
        /\ room.rd <= room.wr
        /\ room.wr - room.rd = ReadableBytes
        /\ room.wr + n <= Len(room.mem)
        /\ Len(room.mem) <= 2 * MaxReadable
        /\ \A i \in 1 .. ReadableBytes : room.mem[room.rd + i] = mem[rd + i]
        /\ room.rd = room.wr => room.rd = 0
    BY <1>1, <1>2, EnsureWriteableRoom
  <1> HIDE DEF room
  <1>4. /\ mem' = [i \in DOMAIN room.mem |->
                     IF i > room.wr /\ i <= room.wr + n THEN data[i - room.wr] ELSE room.mem[i]]
        /\ rd' = room.rd /\ wr' = room.wr + n
    BY DEF AppendToBuffer, room
  <1>5. DOMAIN room.mem = 1 .. Len(room.mem) /\ Len(room.mem) \in Nat
    BY <1>3
  <1>6. \A i \in 1 .. Len(room.mem) :
          (IF i > room.wr /\ i <= room.wr + n THEN data[i - room.wr] ELSE room.mem[i]) \in Byte
    <2> TAKE i \in 1 .. Len(room.mem)
    <2>1. CASE i > room.wr /\ i <= room.wr + n
      <3>1. i - room.wr \in 1 .. n
        BY <1>1, <1>3, <1>5, <2>1
      <3> QED  BY <1>1, <2>1, <3>1
    <2>2. CASE ~(i > room.wr /\ i <= room.wr + n)
      BY <1>3, <1>5, <2>2
    <2> QED  BY <2>1, <2>2
  <1>7. mem' \in Seq(Byte) /\ Len(mem') = Len(room.mem)
    <2>1. mem' \in [1 .. Len(room.mem) -> Byte]
      BY <1>4, <1>5, <1>6
    <2> QED  BY <1>5, <2>1
  <1>8. ReadableBytes \in Nat /\ ReadableBytes' = ReadableBytes + n
    BY <1>1, <1>3, <1>4 DEF ReadableBytes
  <1>9. IInv'
    <2>1. rd' \in Nat /\ wr' \in Nat /\ rd' <= wr' /\ wr' <= Len(mem')
      BY <1>1, <1>3, <1>4, <1>7
    <2>2. Len(mem') <= 2 * MaxReadable
      BY <1>3, <1>7
    <2>3. rd' = wr' => rd' = 0
      BY <1>1, <1>3, <1>4
    <2>4. ReadableBytes' <= MaxReadable
      BY <1>2, <1>8
    <2> QED  BY <1>7, <2>1, <2>2, <2>3, <2>4 DEF IInv, TypeOK, InBounds, SpaceBounded, EmptyIsReset
  <1>10. \A i \in 1 .. ReadableBytes : mem'[rd' + i] = mem[rd + i]
    <2> TAKE i \in 1 .. ReadableBytes
    <2>1. room.rd + i \in 1 .. Len(room.mem) /\ ~(room.rd + i > room.wr)
      <3>1. /\ room.rd \in Nat /\ room.wr \in Nat /\ Len(room.mem) \in Nat /\ ReadableBytes \in Nat
            /\ room.wr - room.rd = ReadableBytes /\ room.wr + n <= Len(room.mem) /\ n \in Nat
        BY <1>1, <1>3, <1>5, <1>8
      <3>2. PICK r \in Nat, w \in Nat, len \in Nat : r = room.rd /\ w = room.wr /\ len = Len(room.mem)
        BY <3>1
      <3>3. w - r = ReadableBytes /\ w + n <= len
        BY <3>1, <3>2
      <3>4. r + i \in 1 .. len /\ ~(r + i > w)
        BY <3>1, <3>3
      <3> QED  BY <3>2, <3>4
    <2> QED  BY <1>3, <1>4, <1>5, <2>1
  <1>11. \A i \in 1 .. n : mem'[rd' + ReadableBytes + i] = data[i]
    <2> TAKE i \in 1 .. n
    <2> DEFINE w == room.wr
               k == w + i
    <2>0. w \in Nat /\ w + n <= Len(room.mem) /\ room.rd + ReadableBytes = w
      BY <1>3, <1>8
    <2>1. mem' = [j \in 1 .. Len(room.mem) |->
                    IF j > w /\ j <= w + n THEN data[j - w] ELSE room.mem[j]]
      BY <1>4, <1>5
    <2>4. room.rd + ReadableBytes + i = k
      BY <2>0
    <2> HIDE DEF w
    <2>2. k \in 1 .. Len(room.mem) /\ k > w /\ k <= w + n /\ k - w = i
      BY <1>1, <1>5, <2>0
    <2> HIDE DEF k
    <2>3. mem'[k] = data[i]
      BY <2>1, <2>2
    <2> QED  BY <1>4, <2>3, <2>4
  <1> QED  BY <1>8, <1>9, <1>10, <1>11

\* What a retrieval leaves: the unread bytes less the first n.
LEMMA RetrieveResult ==
    ASSUME IInv, NEW n \in Nat, RetrieveData(n)
    PROVE  /\ IInv'
           /\ n <= ReadableBytes
           /\ ReadableBytes' = ReadableBytes - n
           /\ \A i \in 1 .. ReadableBytes - n : mem'[rd' + i] = mem[rd + n + i]
  <1>1. /\ mem \in Seq(Byte) /\ rd \in Nat /\ wr \in Nat /\ Len(mem) \in Nat
        /\ rd <= wr /\ wr <= Len(mem) /\ ReadableBytes = wr - rd
        /\ Len(mem) <= 2 * MaxReadable /\ (rd = wr => rd = 0)
        /\ ReadableBytes <= MaxReadable /\ MaxReadable \in Nat
    BY BytesAssumption DEF IInv, TypeOK, InBounds, SpaceBounded, EmptyIsReset, ReadableBytes
  <1>2. n <= wr - rd /\ mem' = mem
    BY DEF RetrieveData, ReadableBytes
  <1>3. CASE rd + n = wr
    <2>1. rd' = 0 /\ wr' = 0 /\ ReadableBytes' = 0 /\ wr - rd - n = 0
      BY <1>1, <1>3 DEF RetrieveData, ReadableBytes
    <2> QED  BY <1>1, <1>2, <2>1 DEF IInv, TypeOK, InBounds, SpaceBounded, EmptyIsReset
  <1>4. CASE rd + n # wr
    <2>1. rd' = rd + n /\ wr' = wr /\ ReadableBytes' = wr - rd - n
      BY <1>1, <1>4 DEF RetrieveData, ReadableBytes
    <2> QED  BY <1>1, <1>2, <1>4, <2>1 DEF IInv, TypeOK, InBounds, SpaceBounded, EmptyIsReset
  <1> QED  BY <1>3, <1>4

LEMMA InitIInv == Init => IInv
  BY BytesAssumption DEF Init, IInv, TypeOK, InBounds, SpaceBounded, EmptyIsReset, ReadableBytes

LEMMA InductiveStep == IInv /\ [Next]_vars => IInv'
  <1> SUFFICES ASSUME IInv, [Next]_vars PROVE IInv'
    OBVIOUS
  <1>1. CASE UNCHANGED vars
    BY <1>1 DEF vars, IInv, TypeOK, InBounds, SpaceBounded, EmptyIsReset, ReadableBytes
  <1>2. ASSUME NEW data \in Chunks, AppendToBuffer(data) PROVE IInv'
    BY <1>2, AppendResult
  <1>3. ASSUME NEW n \in 0 .. MaxReadable, RetrieveData(n) PROVE IInv'
    <2>1. n \in Nat
      BY BytesAssumption
    <2> QED  BY <1>3, <2>1, RetrieveResult
  <1> QED  BY <1>1, <1>2, <1>3 DEF Next

\* Every reachable state of the buffer satisfies the invariant: among others the
\* pointers are in order and inside the vector.
THEOREM Invariance == Spec => []IInv
  BY InitIInv, InductiveStep, PTL DEF Spec

\* The pointers never leave the vector, whatever is appended and retrieved.
THEOREM PointersInBounds == Spec => []InBounds
  <1>1. IInv => InBounds
    BY DEF IInv
  <1> QED  BY <1>1, Invariance, PTL

\* The vector never holds more than twice what the callers let accumulate.
THEOREM SpaceIsBounded == Spec => []SpaceBounded
  <1>1. IInv => SpaceBounded
    BY DEF IInv
  <1> QED  BY <1>1, Invariance, PTL

-----------------------------------------------------------------------------
\* The unread bytes, one by one.
LEMMA UnreadBytes ==
    ASSUME IInv
    PROVE  /\ Unread \in Seq(Byte)
           /\ Len(Unread) = ReadableBytes
           /\ ReadableBytes \in Nat
           /\ \A i \in 1 .. ReadableBytes : Unread[i] = mem[rd + i]
  <1>1. /\ mem \in Seq(Byte) /\ rd \in Nat /\ wr \in Nat /\ Len(mem) \in Nat
        /\ rd <= wr /\ wr <= Len(mem) /\ ReadableBytes = wr - rd
    BY DEF IInv, TypeOK, InBounds, ReadableBytes
  <1>2. rd + 1 \in 1 .. Len(mem) + 1 /\ wr \in rd .. Len(mem)
    BY <1>1
  <1>3. Unread = [i \in 1 .. ReadableBytes |-> mem[rd + i]]
    <2>1. Unread = [i \in 1 .. (wr - (rd + 1) + 1) |-> mem[rd + 1 + i - 1]]
      BY <1>1 DEF Unread
    <2>2. wr - (rd + 1) + 1 = ReadableBytes
      BY <1>1
    <2>3. \A i \in 1 .. ReadableBytes : rd + 1 + i - 1 = rd + i
      BY <1>1
    <2> QED  BY <2>1, <2>2, <2>3
  <1>4. \A i \in 1 .. ReadableBytes : rd + i \in 1 .. Len(mem)
    BY <1>1
  <1>5. \A i \in 1 .. ReadableBytes : mem[rd + i] \in Byte
    BY <1>1, <1>4
  <1>6. ReadableBytes \in Nat
    BY <1>1
  <1>7. Unread \in [1 .. ReadableBytes -> Byte]
    BY <1>3, <1>5
  <1> QED  BY <1>3, <1>6, <1>7

\* The buffer implements the byte queue: an append or a retrieval changes the unread
\* bytes as it should, wherever the bytes have been moved.
THEOREM Refinement == Spec => ImplementsByteQueue
  <1> DEFINE OneByOne ==
               /\ Unread \in Seq(Byte) /\ Len(Unread) = ReadableBytes /\ ReadableBytes \in Nat
               /\ \A i \in 1 .. ReadableBytes : Unread[i] = mem[rd + i]
  <1>a. IInv => OneByOne
    BY UnreadBytes
  <1>b. IInv' => OneByOne'
    BY <1>a, PTL
  <1>1. Init => Queue!Init
    BY BytesAssumption DEF Init, Queue!Init, Unread
  <1>2. IInv /\ IInv' /\ [Next]_vars => [Queue!Next]_Unread
    <2> SUFFICES ASSUME IInv, IInv', [Next]_vars PROVE [Queue!Next]_Unread
      OBVIOUS
    <2>0. /\ Unread \in Seq(Byte) /\ Len(Unread) = ReadableBytes /\ ReadableBytes \in Nat
          /\ \A i \in 1 .. ReadableBytes : Unread[i] = mem[rd + i]
      BY <1>a
    <2>9. /\ Unread' \in Seq(Byte) /\ Len(Unread') = ReadableBytes' /\ ReadableBytes' \in Nat
          /\ \A i \in 1 .. ReadableBytes' : Unread'[i] = mem'[rd' + i]
      BY <1>b
    <2>1. CASE UNCHANGED vars
      BY <2>1 DEF vars, Unread
    <2>2. ASSUME NEW data \in Chunks, AppendToBuffer(data) PROVE Queue!Put(data)
      <3>1. /\ ReadableBytes' = ReadableBytes + Len(data)
            /\ \A i \in 1 .. ReadableBytes : mem'[rd' + i] = mem[rd + i]
            /\ \A i \in 1 .. Len(data) : mem'[rd' + ReadableBytes + i] = data[i]
        BY <2>2, AppendResult
      <3>2. data \in Seq(Byte) /\ Len(data) \in Nat
        BY BytesAssumption
      <3>3. \A i \in 1 .. ReadableBytes : Unread'[i] = Unread[i]
        BY <2>0, <2>9, <3>1, <3>2
      <3>4. \A i \in 1 .. Len(data) : Unread'[ReadableBytes + i] = data[i]
        <4> TAKE i \in 1 .. Len(data)
        <4>1. ReadableBytes + i \in 1 .. ReadableBytes'
          BY <2>0, <3>1, <3>2
        <4>2. Unread'[ReadableBytes + i] = mem'[rd' + (ReadableBytes + i)]
          BY <2>9, <4>1
        <4>3. rd' + (ReadableBytes + i) = rd' + ReadableBytes + i
          BY <2>0 DEF IInv, TypeOK
        <4> QED  BY <3>1, <4>2, <4>3
      <3> DEFINE u == Unread
                 v == Unread'
                 b == ReadableBytes
      <3>5. /\ u \in Seq(Byte) /\ v \in Seq(Byte) /\ Len(u) = b /\ Len(v) = b + Len(data)
            /\ b \in Nat
        BY <2>0, <2>9, <3>1
      <3>6. \A i \in 1 .. b + Len(data) : v[i] = (u \o data)[i]
        <4> TAKE i \in 1 .. b + Len(data)
        <4>1. CASE i <= b
          BY <3>2, <3>3, <3>5, <4>1
        <4>2. CASE i > b
          <5>1. i - b \in 1 .. Len(data) /\ b + (i - b) = i
            BY <3>2, <3>5, <4>2
          <5>2. (u \o data)[i] = data[i - b]
            BY <3>2, <3>5, <4>2, <5>1
          <5>3. v[b + (i - b)] = data[i - b]
            BY <3>4, <5>1
          <5> QED  BY <5>1, <5>2, <5>3
        <4> QED  BY <3>2, <3>5, <4>1, <4>2
      <3>7. u \o data \in Seq(Byte) /\ Len(u \o data) = b + Len(data)
        BY <3>2, <3>5
      <3>8. v = u \o data
        <4> HIDE DEF u, v, b
        <4> QED  BY <3>2, <3>5, <3>6, <3>7, SeqEqual
      <3>9. Len(Unread) + Len(data) <= MaxReadable
        BY <2>0, <2>2 DEF AppendToBuffer
      <3> QED  BY <3>8, <3>9 DEF Queue!Put
    <2>3. ASSUME NEW n \in 0 .. MaxReadable, RetrieveData(n) PROVE Queue!Retrieve(n)
      <3>0. n \in Nat
        BY BytesAssumption
      <3>1. /\ n <= ReadableBytes
            /\ ReadableBytes' = ReadableBytes - n
            /\ \A i \in 1 .. ReadableBytes - n : mem'[rd' + i] = mem[rd + n + i]
        BY <2>3, <3>0, RetrieveResult
      <3> DEFINE u == Unread
                 v == Unread'
                 b == ReadableBytes
      <3>2. \A i \in 1 .. b - n : v[i] = u[n + i]
        <4> TAKE i \in 1 .. b - n
        <4>1. n + i \in 1 .. b /\ i \in 1 .. ReadableBytes'
          BY <2>0, <3>0, <3>1
        <4>2. rd + (n + i) = rd + n + i
          BY <3>0 DEF IInv, TypeOK
        <4> QED  BY <2>0, <2>9, <3>1, <4>1, <4>2
      <3>3. /\ u \in Seq(Byte) /\ v \in Seq(Byte) /\ Len(u) = b /\ Len(v) = b - n
            /\ b \in Nat /\ n <= b
        BY <2>0, <2>9, <3>1
      <3>4. v = SubSeq(u, n + 1, Len(u))
        <4> HIDE DEF u, v, b
        <4>1. SubSeq(u, n + 1, Len(u)) = [i \in 1 .. (b - (n + 1) + 1) |-> u[n + 1 + i - 1]]
          BY <3>0, <3>3
        <4>2. b - (n + 1) + 1 = b - n /\ b - n \in Nat
          BY <3>0, <3>3
        <4>3. \A i \in 1 .. b - n : n + 1 + i - 1 = n + i
          BY <3>0, <4>2
        <4>4. SubSeq(u, n + 1, Len(u)) = [i \in 1 .. b - n |-> u[n + i]]
          BY <4>1, <4>2, <4>3
        <4>5. v = [i \in 1 .. b - n |-> v[i]]
          BY <3>3, <4>2
        <4> QED  BY <3>2, <4>4, <4>5
      <3>5. n <= Len(Unread)
        BY <2>0, <3>1
      <3> QED  BY <3>4, <3>5 DEF Queue!Retrieve
    <2> QED  BY <2>1, <2>2, <2>3 DEF Next, Queue!Next
  <1> QED  BY <1>1, <1>2, Invariance, PTL DEF Spec, ImplementsByteQueue, Queue!Spec
=============================================================================
