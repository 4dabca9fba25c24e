--------------------------- MODULE ParsingProofs ---------------------------
(***************************************************************************)
(* What clientTool computes: the parts that UrlParser finds in a well-formed  *)
(* URL of any length, and what a server reads of a text of HttpTemplate.  The *)
(* definitions by recursion (FlattenSeq, Parameters) are reasoned about by    *)
(* induction over sets of numbers.                                          *)
(***************************************************************************)
EXTENDS ClientTool, FiniteSetTheorems, FunctionTheorems, SequenceTheorems, TLAPS

-----------------------------------------------------------------------------
(* What the parsers make of a well-formed URL.                             *)

\* Positions up to some bound have a least one: the order by strict inclusion of the sets of
\* smaller positions is well-founded.
LEMMA LeastPosition ==
    ASSUME NEW n \in Nat, NEW T \in SUBSET (1 .. n), T # {}
    PROVE  Min(T) \in T /\ \A y \in T : Min(T) <= y
  <1> DEFINE Below(x) == {y \in T : y <= x}
             Belows == {Below(x) : x \in T}
  <1>1. IsWellFoundedOn(StrictSubsetOrdering(1 .. n), FiniteSubsetsOf(1 .. n))
    BY FS_StrictSubsetOrderingWellFounded
  <1>2. FiniteSubsetsOf(1 .. n) = SUBSET (1 .. n)
    <2>1. IsFiniteSet(1 .. n)
      BY FS_Interval
    <2> QED  BY <2>1, FS_FiniteSubsetsOfFinite
  <1>3. Belows \subseteq SUBSET (1 .. n) /\ Belows # {}
    OBVIOUS
  <1>4. \E b \in Belows : \A d \in Belows : <<d, b>> \notin StrictSubsetOrdering(1 .. n)
    <2> HIDE DEF Belows
    <2> QED  BY <1>1, <1>2, <1>3, WFMin, ZenonT(60)
  <1>5. PICK x \in T : \A y \in T : <<Below(y), Below(x)>> \notin StrictSubsetOrdering(1 .. n)
    BY <1>4
  <1>6. ASSUME NEW y \in T, ~(x <= y) PROVE FALSE
    <2>1. x \in Int /\ y \in Int /\ y < x
      BY <1>6
    <2>2. Below(y) \in SUBSET (1 .. n) /\ Below(x) \in SUBSET (1 .. n)
      OBVIOUS
    <2>3. x \in Below(x) /\ x \notin Below(y)
      BY <2>1
    <2>5. ASSUME NEW z \in Below(y) PROVE z \in Below(x)
      <3>1. z \in T /\ z \in Int /\ z <= y
        OBVIOUS
      <3> QED  BY <2>1, <3>1
    <2>4. <<Below(y), Below(x)>> \in StrictSubsetOrdering(1 .. n)
      <3> HIDE DEF Below
      <3> QED  BY <2>2, <2>3, <2>5 DEF StrictSubsetOrdering
    <2> QED  BY <1>5, <2>4
  <1>7. \E z \in T : \A y \in T : z <= y
    BY <1>6
  <1> QED  BY <1>7 DEF Min

\* Induction: a set that contains 0 and with a number the next one contains all numbers.
LEMMA Induction ==
    ASSUME NEW T, 0 \in T, \A n \in Nat : n \in T => n + 1 \in T
    PROVE  Nat \subseteq T
  <1> SUFFICES ASSUME NEW n \in Nat, n \notin T PROVE FALSE
    OBVIOUS
  <1>1. PICK missing : missing = {m \in 1 .. n : m \notin T}
    OBVIOUS
  <1>2. missing \in SUBSET (1 .. n) /\ n \in missing
    BY <1>1
  <1>3. Min(missing) \in missing /\ \A y \in missing : Min(missing) <= y
    BY <1>2, LeastPosition
  <1>4. PICK m \in 1 .. n : m \notin T /\ \A y \in missing : m <= y
    BY <1>1, <1>3
  <1>5. m - 1 \in Nat /\ m - 1 \notin missing /\ (m - 1) + 1 = m
    BY <1>4
  <1>6. m - 1 \in T
    BY <1>1, <1>5
  <1> QED  BY <1>4, <1>5, <1>6

-----------------------------------------------------------------------------
(* FlattenSeq.                                                             *)

\* What FlattenSeq builds up: the first i sequences in one.
Flattens(f, seqs) ==
    f = [i \in 1 .. Len(seqs) |-> IF i = 1 THEN seqs[i] ELSE f[i - 1] \o seqs[i]]

\* The function that FlattenSeq defines by recursion exists: one for the first n sequences
\* is continued by one value.
LEMMA FlatteningExists ==
    ASSUME NEW S, NEW seqs \in Seq(S)
    PROVE  \E f : Flattens(f, seqs)
  <1> DEFINE UpTo(f, n) == f = [i \in 1 .. n |-> IF i = 1 THEN seqs[i] ELSE f[i - 1] \o seqs[i]]
             T == {n \in Nat : \E f : UpTo(f, n)}
  <1>1. 0 \in T
    <2>1. UpTo(<<>>, 0)
      OBVIOUS
    <2> QED  BY <2>1
  <1>2. ASSUME NEW n \in Nat, n \in T PROVE n + 1 \in T
    <2>1. PICK f : UpTo(f, n)
      BY <1>2
    <2>2. PICK g : g = [i \in 1 .. n + 1 |-> IF i \in 1 .. n THEN f[i] ELSE IF i = 1 THEN seqs[i] ELSE f[i - 1] \o seqs[i]]
      OBVIOUS
    <2>3. \A i \in 1 .. n : g[i] = f[i]
      BY <2>2
    <2>4. \A i \in 1 .. n : f[i] = IF i = 1 THEN seqs[i] ELSE f[i - 1] \o seqs[i]
      BY <2>1
    <2>5. ASSUME NEW i \in 1 .. n + 1 PROVE g[i] = IF i = 1 THEN seqs[i] ELSE g[i - 1] \o seqs[i]
      <3>1. CASE i = 1
        BY <2>2, <2>4, <3>1
      <3>2. CASE i # 1
        <4>1. i - 1 \in 1 .. n /\ g[i - 1] = f[i - 1]
          BY <2>3, <3>2
        <4>2. g[i] = f[i - 1] \o seqs[i]
          BY <2>2, <2>4, <3>2
        <4> QED  BY <3>2, <4>1, <4>2
      <3> QED  BY <3>1, <3>2
    <2>6. g = [i \in 1 .. n + 1 |-> g[i]]
      BY <2>2
    <2>7. UpTo(g, n + 1)
      BY <2>5, <2>6
    <2> HIDE DEF UpTo
    <2> QED  BY <2>7
  <1>3. Nat \subseteq T
    <2> HIDE DEF T
    <2> QED  BY <1>1, <1>2, Induction
  <1>4. PICK f : UpTo(f, Len(seqs))
    <2>1. Len(seqs) \in T
      <3> HIDE DEF T
      <3> QED  BY <1>3
    <2> HIDE DEF UpTo
    <2> QED  BY <2>1
  <1> QED  BY <1>4, Zenon DEF Flattens

\* FlattenSeq returns the last of its values.
LEMMA FlattenIs ==
    ASSUME NEW S, NEW seqs \in Seq(S)
    PROVE  /\ seqs = <<>> => FlattenSeq(seqs) = <<>>
           /\ seqs # <<>> => \E f : Flattens(f, seqs) /\ FlattenSeq(seqs) = f[Len(seqs)]
  <1>1. seqs = <<>> => FlattenSeq(seqs) = <<>>
    BY DEF FlattenSeq
  <1>2. ASSUME seqs # <<>> PROVE \E f : Flattens(f, seqs) /\ FlattenSeq(seqs) = f[Len(seqs)]
    <2>1. PICK f : f = CHOOSE h : Flattens(h, seqs)
      OBVIOUS
    <2>2. Flattens(f, seqs)
      BY <2>1, FlatteningExists
    <2>3. Len(seqs) # 0
      BY <1>2
    <2>4. FlattenSeq(seqs) = f[Len(seqs)]
      BY <2>1, <2>3 DEF FlattenSeq, Flattens
    <2> QED  BY <2>2, <2>4
  <1> QED  BY <1>1, <1>2

\* One value after the other.
LEMMA FlattenSteps ==
    ASSUME NEW S, NEW seqs \in Seq(S), NEW f, Flattens(f, seqs)
    PROVE  /\ seqs # <<>> => f[1] = seqs[1]
           /\ \A i \in 1 .. Len(seqs) : i + 1 \in 1 .. Len(seqs) => f[i + 1] = f[i] \o seqs[i + 1]
  <1>1. \A i \in 1 .. Len(seqs) : f[i] = IF i = 1 THEN seqs[i] ELSE f[i - 1] \o seqs[i]
    BY DEF Flattens
  <1>2. seqs # <<>> => 1 \in 1 .. Len(seqs)
    OBVIOUS
  <1>3. ASSUME NEW i \in 1 .. Len(seqs), i + 1 \in 1 .. Len(seqs) PROVE f[i + 1] = f[i] \o seqs[i + 1]
    <2>1. i + 1 # 1 /\ (i + 1) - 1 = i
      OBVIOUS
    <2> QED  BY <1>1, <1>3, <2>1
  <1> QED  BY <1>1, <1>2, <1>3

\* Two sequences in a row.
LEMMA TwoParts ==
    ASSUME NEW S, NEW a \in Seq(S), NEW b \in Seq(S)
    PROVE  /\ a \o b \in Seq(S) /\ Len(a \o b) = Len(a) + Len(b)
           /\ \A i \in 1 .. Len(a) : (a \o b)[i] = a[i]
           /\ \A i \in 1 .. Len(b) : (a \o b)[Len(a) + i] = b[i]
  OBVIOUS

\* FlattenSeq begins as the first of its sequences does.
LEMMA FlattenBegins ==
    ASSUME NEW S, NEW seqs \in Seq(Seq(S))
    PROVE  /\ FlattenSeq(seqs) \in Seq(S)
           /\ seqs # <<>> =>
                /\ Len(FlattenSeq(seqs)) >= Len(seqs[1])
                /\ \A k \in 1 .. Len(seqs[1]) : FlattenSeq(seqs)[k] = seqs[1][k]
  <1>1. seqs = <<>> => FlattenSeq(seqs) = <<>>
    BY FlattenIs
  <1>2. CASE seqs # <<>>
    <2>1. PICK f : Flattens(f, seqs) /\ FlattenSeq(seqs) = f[Len(seqs)]
      BY <1>2, FlattenIs
    <2>2. /\ f[1] = seqs[1]
          /\ \A i \in 1 .. Len(seqs) : i + 1 \in 1 .. Len(seqs) => f[i + 1] = f[i] \o seqs[i + 1]
      BY <1>2, <2>1, FlattenSteps
    <2> DEFINE Good(i) ==
                 /\ f[i] \in Seq(S) /\ Len(f[i]) >= Len(seqs[1])
                 /\ \A k \in 1 .. Len(seqs[1]) : f[i][k] = seqs[1][k]
               T == {i \in Nat : i + 1 \in 1 .. Len(seqs) => Good(i + 1)}
    <2>3. seqs[1] \in Seq(S) /\ Len(seqs[1]) \in Nat /\ Len(seqs) \in Nat /\ Len(seqs) >= 1
      BY <1>2
    <2>4. 0 \in T
      BY <2>2, <2>3
    <2>5. ASSUME NEW i \in Nat, i \in T PROVE i + 1 \in T
      <3> SUFFICES ASSUME i + 2 \in 1 .. Len(seqs) PROVE Good(i + 2)
        BY (i + 1) + 1 = i + 2
      <3>1. i + 1 \in 1 .. Len(seqs)
        BY <2>3
      <3>2. PICK a : a = f[i + 1]
        OBVIOUS
      <3>3. PICK b : b = seqs[i + 2]
        OBVIOUS
      <3>4. Good(i + 1)
        BY <2>5, <3>1
      <3>5. /\ a \in Seq(S) /\ Len(a) >= Len(seqs[1])
            /\ \A k \in 1 .. Len(seqs[1]) : a[k] = seqs[1][k]
        BY <3>2, <3>4
      <3>6. b \in Seq(S)
        BY <3>3
      <3>7. f[i + 2] = a \o b
        BY <2>2, <3>1, <3>2, <3>3, (i + 1) + 1 = i + 2
      <3>8. Len(a \o b) >= Len(seqs[1]) /\ a \o b \in Seq(S)
        BY <2>3, <3>5, <3>6, TwoParts
      <3>9. \A k \in 1 .. Len(seqs[1]) : (a \o b)[k] = seqs[1][k]
        BY <2>3, <3>5, <3>6, TwoParts
      <3> QED  BY <3>7, <3>8, <3>9
    <2>6. Nat \subseteq T
      <3> HIDE DEF T
      <3> QED  BY <2>4, <2>5, Induction
    <2>7. Len(seqs) - 1 \in T /\ (Len(seqs) - 1) + 1 = Len(seqs) /\ Len(seqs) \in 1 .. Len(seqs)
      <3> HIDE DEF T
      <3> QED  BY <2>3, <2>6
    <2>8. Good(Len(seqs))
      <3> HIDE DEF Good
      <3> QED  BY <2>7
    <2> QED  BY <2>1, <2>8
  <1> QED  BY <1>1, <1>2

\* Offsets that only grow.
LEMMA OffsetsGrow ==
    ASSUME NEW n \in Nat, NEW at \in [1 .. n -> Nat],
           \A i \in 1 .. n : i + 1 \in 1 .. n => at[i] <= at[i + 1]
    PROVE  \A i, j \in 1 .. n : i <= j => at[i] <= at[j]
  <1> DEFINE T == {d \in Nat : \A i \in 1 .. n : i + d \in 1 .. n => at[i] <= at[i + d]}
  <1>1. 0 \in T
    <2>1. \A i \in 1 .. n : i + 0 = i /\ at[i] \in Nat
      OBVIOUS
    <2> QED  BY <2>1
  <1>2. ASSUME NEW d \in Nat, d \in T PROVE d + 1 \in T
    <2> SUFFICES ASSUME NEW i \in 1 .. n, i + (d + 1) \in 1 .. n PROVE at[i] <= at[i + (d + 1)]
      OBVIOUS
    <2>1. i + d \in 1 .. n /\ (i + d) + 1 = i + (d + 1)
      OBVIOUS
    <2>2. at[i] <= at[i + d] /\ at[i + d] <= at[i + (d + 1)]
      BY <1>2, <2>1
    <2>3. at[i] \in Nat /\ at[i + d] \in Nat /\ at[i + (d + 1)] \in Nat
      BY <2>1
    <2> QED  BY <2>2, <2>3
  <1>3. Nat \subseteq T
    <2> HIDE DEF T
    <2> QED  BY <1>1, <1>2, Induction
  <1>4. ASSUME NEW i \in 1 .. n, NEW j \in 1 .. n, i <= j PROVE at[i] <= at[j]
    <2>1. j - i \in Nat /\ i + (j - i) = j
      BY <1>4
    <2>2. j - i \in T
      <3> HIDE DEF T
      <3> QED  BY <1>3, <2>1
    <2> QED  BY <2>1, <2>2
  <1> QED  BY <1>4

\* Where each sequence is in FlattenSeq: "at" says how many elements are in front of it.
LEMMA FlattenPlaces ==
    ASSUME NEW S, NEW seqs \in Seq(Seq(S)), NEW at \in [1 .. Len(seqs) + 1 -> Nat],
           at[1] = 0, \A i \in 1 .. Len(seqs) : at[i + 1] = at[i] + Len(seqs[i])
    PROVE  /\ FlattenSeq(seqs) \in Seq(S)
           /\ Len(FlattenSeq(seqs)) = at[Len(seqs) + 1]
           /\ \A i \in 1 .. Len(seqs) : \A k \in 1 .. Len(seqs[i]) : FlattenSeq(seqs)[at[i] + k] = seqs[i][k]
  <1>1. CASE seqs = <<>>
    <2>1. FlattenSeq(seqs) = <<>> /\ Len(seqs) = 0
      BY <1>1, FlattenIs
    <2> QED  BY <2>1
  <1>2. \A i, j \in 1 .. Len(seqs) + 1 : i <= j => at[i] <= at[j]
    <2>1. ASSUME NEW i \in 1 .. Len(seqs) + 1, i + 1 \in 1 .. Len(seqs) + 1 PROVE at[i] <= at[i + 1]
      <3>1. i \in 1 .. Len(seqs)
        BY <2>1
      <3>2. seqs[i] \in Seq(S)
        BY <3>1
      <3>3. Len(seqs[i]) \in Nat
        BY <3>2
      <3>4. at[i + 1] = at[i] + Len(seqs[i])
        BY <3>1
      <3>5. at[i] \in Nat
        OBVIOUS
      <3>6. PICK length \in Nat : length = Len(seqs[i])
        BY <3>3
      <3>7. at[i + 1] = at[i] + length
        BY <3>4, <3>6
      <3> QED  BY <3>5, <3>7
    <2>2. Len(seqs) + 1 \in Nat
      OBVIOUS
    <2> QED  BY <2>1, <2>2, OffsetsGrow, ZenonT(60)
  <1>3. CASE seqs # <<>>
    <2>1. PICK f : Flattens(f, seqs) /\ FlattenSeq(seqs) = f[Len(seqs)]
      BY <1>3, FlattenIs
    <2>2. /\ f[1] = seqs[1]
          /\ \A i \in 1 .. Len(seqs) : i + 1 \in 1 .. Len(seqs) => f[i + 1] = f[i] \o seqs[i + 1]
      BY <1>3, <2>1, FlattenSteps
    <2> DEFINE Good(i) ==
                 /\ f[i] \in Seq(S) /\ Len(f[i]) = at[i + 1]
                 /\ \A j \in 1 .. i : \A k \in 1 .. Len(seqs[j]) : f[i][at[j] + k] = seqs[j][k]
               T == {i \in Nat : i + 1 \in 1 .. Len(seqs) => Good(i + 1)}
    <2>3. seqs[1] \in Seq(S) /\ Len(seqs) \in Nat /\ Len(seqs) >= 1 /\ 1 \in 1 .. Len(seqs)
      BY <1>3
    <2>4. 0 \in T
      <3>1. Len(seqs[1]) \in Nat
        BY <2>3
      <3>2. Len(f[1]) = at[1 + 1]
        BY <2>2, <2>3, <3>1
      <3>3. Good(1)
        BY <2>2, <2>3, <3>1, <3>2
      <3> HIDE DEF Good
      <3> QED  BY <3>3
    <2>5. ASSUME NEW i \in Nat, i \in T PROVE i + 1 \in T
      <3> SUFFICES ASSUME i + 2 \in 1 .. Len(seqs) PROVE Good(i + 2)
        BY (i + 1) + 1 = i + 2
      <3>1. i + 1 \in 1 .. Len(seqs) /\ i + 2 \in 1 .. Len(seqs) + 1 /\ i + 3 \in 1 .. Len(seqs) + 1
        BY <2>3
      <3>2. PICK a : a = f[i + 1]
        OBVIOUS
      <3>3. PICK b : b = seqs[i + 2]
        OBVIOUS
      <3>4. Good(i + 1)
        BY <2>5, <3>1
      <3>5. /\ a \in Seq(S) /\ Len(a) = at[i + 2]
            /\ \A j \in 1 .. i + 1 : \A k \in 1 .. Len(seqs[j]) : a[at[j] + k] = seqs[j][k]
        BY <3>2, <3>4, (i + 1) + 1 = i + 2
      <3>6. b \in Seq(S)
        BY <3>3
      <3>7. f[i + 2] = a \o b
        BY <2>2, <3>1, <3>2, <3>3, (i + 1) + 1 = i + 2
      <3>8. at[i + 3] = at[i + 2] + Len(b)
        BY <3>3, (i + 2) + 1 = i + 3
      <3>9. a \o b \in Seq(S) /\ Len(a \o b) = at[i + 3]
        <4>1. a \o b \in Seq(S) /\ Len(a \o b) = Len(a) + Len(b)
          BY <3>5, <3>6, TwoParts, SMTT(60)
        <4>2. Len(a) = at[i + 2]
          BY <3>5
        <4> QED  BY <3>8, <4>1, <4>2
      <3>10. ASSUME NEW j \in 1 .. i + 1, NEW k \in 1 .. Len(seqs[j])
             PROVE  (a \o b)[at[j] + k] = seqs[j][k]
        <4>1. j \in 1 .. Len(seqs) /\ j \in 1 .. Len(seqs) + 1 /\ j + 1 \in 1 .. Len(seqs) + 1 /\ j + 1 <= i + 2
          BY <3>1
        <4>2. seqs[j] \in Seq(S)
          BY <4>1
        <4>3. at[j] \in Nat /\ at[j + 1] = at[j] + Len(seqs[j]) /\ Len(seqs[j]) \in Nat
          <5>1. Len(seqs[j]) \in Nat
            BY <4>2
          <5>2. at[j] \in Nat
            BY <4>1
          <5>3. at[j + 1] = at[j] + Len(seqs[j])
            BY <4>1
          <5> QED  BY <5>1, <5>2, <5>3
        <4>6. at[j + 1] <= at[i + 2] /\ at[i + 2] \in Nat
          BY <1>2, <3>1, <4>1
        <4>4. at[j] + k \in 1 .. Len(a)
          <5>1. Len(a) = at[i + 2]
            BY <3>5
          <5>2. at[j] + k \in Nat /\ 1 <= at[j] + k /\ at[j] + k <= at[j + 1]
            BY <4>3, SMTT(60)
          <5>3. at[j] + k <= at[i + 2]
            BY <4>3, <4>6, <5>2, SMTT(30)
          <5> QED  BY <4>6, <5>1, <5>2, <5>3
        <4>5. a[at[j] + k] = seqs[j][k]
          BY <3>5
        <4>7. (a \o b)[at[j] + k] = a[at[j] + k]
          <5>1. a \in Seq(S) /\ b \in Seq(S)
            BY <3>5, <3>6
          <5> QED  BY <4>4, <5>1, TwoParts, SMTT(60)
        <4> QED  BY <4>5, <4>7
      <3>11. \A k \in 1 .. Len(b) : (a \o b)[at[i + 2] + k] = b[k]
        BY <3>5, <3>6, TwoParts, SMTT(30)
      <3>12. \A j \in 1 .. i + 2 : j \in 1 .. i + 1 \/ j = i + 2
        OBVIOUS
      <3>13. \A j \in 1 .. i + 2 : \A k \in 1 .. Len(seqs[j]) : (a \o b)[at[j] + k] = seqs[j][k]
        BY <3>3, <3>10, <3>11, <3>12
      <3> QED  BY <3>7, <3>9, <3>13, (i + 2) + 1 = i + 3
    <2>6. Nat \subseteq T
      <3> HIDE DEF T
      <3> QED  BY <2>4, <2>5, Induction
    <2>7. Len(seqs) - 1 \in T /\ (Len(seqs) - 1) + 1 = Len(seqs) /\ Len(seqs) \in 1 .. Len(seqs)
      <3> HIDE DEF T
      <3> QED  BY <2>3, <2>6
    <2>8. Good(Len(seqs))
      <3> HIDE DEF Good
      <3> QED  BY <2>7
    <2> QED  BY <2>1, <2>8
  <1> QED  BY <1>1, <1>3

-----------------------------------------------------------------------------
(* The front of a URL.                                                     *)

\* Find stops at the first token it looks for, or at the end.
LEMMA FindStops ==
    ASSUME NEW S, NEW url \in Seq(S), NEW i \in 1 .. Len(url) + 1, NEW signs
    PROVE  /\ Find(url, i, signs) \in i .. Len(url) + 1
           /\ Find(url, i, signs) <= Len(url) => url[Find(url, i, signs)] \in signs
           /\ \A j \in i .. Len(url) : url[j] \in signs => Find(url, i, signs) <= j
  <1> DEFINE T == {j \in i .. Len(url) : url[j] \in signs} \cup {Len(url) + 1}
  <1>1. Len(url) + 1 \in Nat /\ T \in SUBSET (1 .. Len(url) + 1) /\ T # {}
    OBVIOUS
  <1>2. Min(T) \in T /\ \A y \in T : Min(T) <= y
    <2> HIDE DEF T
    <2> QED  BY <1>1, LeastPosition
  <1> QED  BY <1>2 DEF Find

\* Sequence url is front, of length n, then colon, of length m, then rest.
Parts(S, front, colon, rest, url, n, m) ==
    /\ url \in Seq(S) /\ Len(url) = n + m + Len(rest)
    /\ \A i \in 1 .. n : url[i] = front[i]
    /\ \A i \in 1 .. m : url[n + i] = colon[i]
    /\ \A i \in DOMAIN rest : url[n + m + i] = rest[i]

\* Three sequences in a row.
LEMMA ThreeParts ==
    ASSUME NEW S, NEW front \in Seq(S), NEW colon \in Seq(S), NEW rest \in Seq(S)
    PROVE  Parts(S, front, colon, rest, front \o colon \o rest, Len(front), Len(colon))
  <1>1. PICK head : head = front \o colon
    OBVIOUS
  <1>9. head \in Seq(S)
    BY <1>1
  <1>2. PICK n \in Nat, m \in Nat : n = Len(front) /\ m = Len(colon) /\ Len(head) = n + m
    BY <1>1, <1>9
  <1>3. /\ \A i \in 1 .. n : head[i] = front[i]
        /\ \A i \in 1 .. m : head[n + i] = colon[i]
    BY <1>1, <1>2
  <1>4. PICK url : url = head \o rest
    OBVIOUS
  <1>10. url \in Seq(S)
    BY <1>4, <1>9
  <1>5. Len(url) = n + m + Len(rest)
    BY <1>1, <1>2, <1>4, <1>9
  <1>6. /\ \A i \in 1 .. n + m : url[i] = head[i]
        /\ \A i \in DOMAIN rest : url[n + m + i] = rest[i]
    BY <1>2, <1>4, <1>9, SMTT(60)
  <1>7. /\ \A i \in 1 .. n : i \in 1 .. n + m
        /\ \A i \in 1 .. m : n + i \in 1 .. n + m
    OBVIOUS
  <1>8. Parts(S, front, colon, rest, url, n, m)
    BY <1>3, <1>5, <1>6, <1>7, <1>10, Zenon DEF Parts
  <1> QED  BY <1>1, <1>2, <1>4, <1>8

\* The sequences a URL begins with.
LEMMA FrontTokens ==
    ASSUME NEW S, NEW a \in S, NEW b \in S, NEW c \in S, NEW d \in S, NEW e \in S
    PROVE  /\ <<a, b, c, d, e>> \in Seq(S) /\ Len(<<a, b, c, d, e>>) = 5
           /\ <<a, b>> \in Seq(S) /\ Len(<<a, b>>) = 2
           /\ <<>> \in Seq(S) /\ Len(<<>>) = 0
  OBVIOUS

\* A colon and a slash are tokens too.
Tokens == STRING \cup {":", "/"}

\* A sequence over a set is one over every larger set.
LEMMA WiderSeq == ASSUME NEW S, NEW T, S \subseteq T, NEW s \in Seq(S) PROVE s \in Seq(T)
  OBVIOUS

HasPort(u) == u.port # ""

\* A well-formed URL token by token.
UrlIs(u, url, n) ==
    /\ url \in Seq(Tokens) /\ Behind(u) \in Seq(Tokens) /\ Len(url) = n + Len(Behind(u))
    /\ url[1] = u.scheme /\ url[2] = ":" /\ url[3] = "/" /\ url[4] = "/" /\ url[5] = u.host
    /\ n = 7 => url[6] = ":" /\ url[7] = u.port
    /\ \A i \in DOMAIN Behind(u) : url[n + i] = Behind(u)[i]

\* With a port the rest begins behind seven tokens, without one behind five.
LEMMA UrlTokens ==
    ASSUME NEW u \in Urls
    PROVE  /\ HasPort(u) => UrlIs(u, UrlText(u), 7)
           /\ ~HasPort(u) => UrlIs(u, UrlText(u), 5)
  <1>1. ":" \in Tokens /\ "/" \in Tokens /\ u.scheme \in Tokens /\ u.host \in Tokens /\ u.port \in Tokens /\ Behind(u) \in Seq(Tokens)
    <2>1. STRING \subseteq Tokens /\ ":" \in Tokens /\ "/" \in Tokens
      BY DEF Tokens
    <2>2. u.scheme \in STRING /\ u.host \in STRING /\ u.port \in STRING /\ Behind(u) \in Seq(STRING)
      BY UrlsAssumption
    <2> QED  BY <2>1, <2>2, WiderSeq
  <1>2. PICK front : front = <<u.scheme, ":", "/", "/", u.host>>
    OBVIOUS
  <1>3. PICK colon : colon = IF HasPort(u) THEN <<":", u.port>> ELSE <<>>
    OBVIOUS
  <1>4. PICK rest : rest = Behind(u)
    OBVIOUS
  <1>5. PICK url : url = front \o colon \o rest
    OBVIOUS
  <1>6. UrlText(u) = url
    BY <1>2, <1>3, <1>4, <1>5, Zenon DEF UrlText, HasPort
  <1>7. /\ front \in Seq(Tokens) /\ Len(front) = 5
        /\ front[1] = u.scheme /\ front[2] = ":" /\ front[3] = "/" /\ front[4] = "/" /\ front[5] = u.host
    BY <1>1, <1>2, FrontTokens
  <1>8. HasPort(u) => colon \in Seq(Tokens) /\ Len(colon) = 2 /\ colon[1] = ":" /\ colon[2] = u.port
    BY <1>1, <1>3, FrontTokens
  <1>9. ~HasPort(u) => colon \in Seq(Tokens) /\ Len(colon) = 0
    BY <1>3, FrontTokens
  <1>10. colon \in Seq(Tokens)
    BY <1>8, <1>9
  <1>11. rest \in Seq(Tokens)
    BY <1>1, <1>4
  <1>12. Parts(Tokens, front, colon, rest, url, 5, Len(colon))
    BY <1>5, <1>7, <1>10, <1>11, ThreeParts
  <1>13. \A i \in 1 .. 5 : url[i] = front[i]
    BY <1>12 DEF Parts
  <1>14. url[1] = u.scheme /\ url[2] = ":" /\ url[3] = "/" /\ url[4] = "/" /\ url[5] = u.host
    BY <1>7, <1>13
  <1>15. ASSUME HasPort(u) PROVE UrlIs(u, url, 7)
    <2>1. Len(colon) = 2 /\ colon[1] = ":" /\ colon[2] = u.port
      BY <1>8, <1>15
    <2>2. Parts(Tokens, front, colon, rest, url, 5, 2)
      BY <1>12, <2>1
    <2>3. url[6] = ":" /\ url[7] = u.port
      BY <2>1, <2>2 DEF Parts
    <2>4. /\ url \in Seq(Tokens) /\ Len(url) = 7 + Len(rest)
          /\ \A i \in DOMAIN rest : url[7 + i] = rest[i]
      BY <2>2 DEF Parts
    <2> QED  BY <1>4, <1>11, <1>14, <2>3, <2>4 DEF UrlIs
  <1>16. ASSUME ~HasPort(u) PROVE UrlIs(u, url, 5)
    <2>1. Parts(Tokens, front, colon, rest, url, 5, 0)
      BY <1>9, <1>12, <1>16
    <2>2. /\ url \in Seq(Tokens) /\ Len(url) = 5 + Len(rest)
          /\ \A i \in DOMAIN rest : url[5 + i] = rest[i]
      BY <2>1 DEF Parts
    <2> QED  BY <1>4, <1>11, <1>14, <2>2 DEF UrlIs
  <1> QED  BY <1>6, <1>15, <1>16

\* What well-formed says of the parts.
LEMMA UrlParts ==
    ASSUME NEW u \in Urls
    PROVE  /\ u.scheme # ":" /\ u.host # ":" /\ u.host # "/" /\ u.port # "/"
           /\ HasPort(u) => u.port \in DOMAIN Numbers
           /\ \/ Behind(u) # <<>> /\ Behind(u)[1] = "/"
              \/ \A i \in DOMAIN Behind(u) : Behind(u)[i] # ":"
  <1>1. {u.scheme, u.host, u.port} \subseteq STRING \ {":", "/"}
    BY UrlsAssumption, Zenon
  <1>2. HasPort(u) => u.port \in DOMAIN Numbers
    BY UrlsAssumption, Zenon DEF HasPort
  <1>3. \/ Behind(u) # <<>> /\ Behind(u)[1] = "/"
        \/ \A i \in DOMAIN Behind(u) : Behind(u)[i] # ":"
    BY UrlsAssumption, Zenon
  <1> QED  BY <1>1, <1>2, <1>3

\* The loop for the scheme finds the first colon.
LEMMA SignFound ==
    ASSUME NEW u \in Urls, NEW url, NEW n \in {5, 7}, UrlIs(u, url, n)
    PROVE  SignEnd(url) = 2 /\ HostStart(url) = 5 /\ ~SkipsIntoRun(url) /\ Len(url) \in Nat /\ Len(url) >= n
  <1> DEFINE T == {i \in 1 .. Len(url) - 1 : url[i] = ":" /\ url[i + 1] = "/"} \cup {Len(url) + 1}
  <1>1. Len(url) \in Nat /\ Len(url) >= n /\ url[1] # ":" /\ url[2] = ":" /\ url[3] = "/"
    BY UrlParts DEF UrlIs
  <1>2. Len(url) + 1 \in Nat /\ T \in SUBSET (1 .. Len(url) + 1) /\ 2 \in T /\ 1 \notin T
    BY <1>1
  <1>3. Min(T) \in T /\ Min(T) <= 2
    <2> HIDE DEF T
    <2> QED  BY <1>2, LeastPosition
  <1>4. Min(T) = 2
    <2> HIDE DEF T
    <2>1. Min(T) \in 1 .. Len(url) + 1 /\ Min(T) # 1
      BY <1>2, <1>3
    <2> QED  BY <1>1, <1>3, <2>1
  <1>5. SignEnd(url) = 2
    BY <1>4 DEF SignEnd
  <1>6. ~SkipsIntoRun(url)
    <2>1. url[4] = "/" /\ 2 + 2 = 4
      BY DEF UrlIs
    <2>2. "/" \notin DOMAIN Tails
      BY TailsAssumption, Zenon
    <2> QED  BY <1>5, <2>1, <2>2 DEF SkipsIntoRun
  <1> QED  BY <1>1, <1>5, <1>6 DEF HostStart

\* What is in front of the path is read with the host as a whole.
LEMMA HostIs ==
    ASSUME NEW url, NEW end, HostStart(url) = 5, ~SkipsIntoRun(url)
    PROVE  Host(url, end) = SubSeq(url, 5, end - 1)
  BY DEF Host

\* The number of the port, if there is one in front of the path.
Ports(url) ==
    LET hostEnd == Find(url, 5, {":", "/"})
        hasPort == ~Ends(url, hostEnd) /\ url[hostEnd] = ":"
        path == IF hasPort THEN Find(url, hostEnd + 1, {"/"}) ELSE hostEnd
    IN IF hasPort /\ ~Ends(url, path) THEN Stoi(SubSeq(url, hostEnd + 1, path - 1)) ELSE {Unset}

\* std::stoi is given the port.
LEMMA PortRead ==
    ASSUME NEW u \in Urls, NEW url, HasPort(u), UrlIs(u, url, 7)
    PROVE  Ports(url) # {}
  <1>1. /\ url \in Seq(Tokens) /\ Len(url) \in Nat /\ Len(url) >= 7
        /\ url[5] \notin {":", "/"} /\ url[6] = ":" /\ url[7] = u.port /\ u.port # "/" /\ u.port \in DOMAIN Numbers
    <2>1. Len(url) \in Nat /\ Len(url) >= 7
      BY SignFound
    <2> QED  BY <2>1, UrlParts DEF UrlIs
  <1>2. PICK hostEnd : hostEnd = Find(url, 5, {":", "/"})
    OBVIOUS
  <1>3. hostEnd = 6
    <2>1. /\ hostEnd \in 5 .. Len(url) + 1
          /\ hostEnd <= Len(url) => url[hostEnd] \in {":", "/"}
          /\ \A j \in 5 .. Len(url) : url[j] \in {":", "/"} => hostEnd <= j
      BY <1>1, <1>2, FindStops
    <2>2. hostEnd <= 6
      BY <1>1, <2>1
    <2>3. hostEnd # 5
      BY <1>1, <2>1
    <2> QED  BY <2>1, <2>2, <2>3
  <1>4. PICK path : path = Find(url, 7, {"/"})
    OBVIOUS
  <1>5. path \in 8 .. Len(url) + 1
    <2>1. path \in 7 .. Len(url) + 1 /\ (path <= Len(url) => url[path] \in {"/"})
      BY <1>1, <1>4, FindStops
    <2>2. path # 7
      BY <1>1, <2>1
    <2> QED  BY <2>1, <2>2
  <1>6. PICK run : run = SubSeq(url, 7, path - 1)
    OBVIOUS
  <1>7. path <= Len(url) => run # <<>> /\ run[1] = u.port
    BY <1>1, <1>5, <1>6
  <1>8. path <= Len(url) => Stoi(run) # {}
    BY <1>1, <1>7 DEF Stoi
  <1>9. ~Ends(url, path) => Stoi(run) # {}
    BY <1>1, <1>5, <1>8 DEF Ends
  <1>10. ~Ends(url, hostEnd) /\ url[hostEnd] = ":" /\ hostEnd + 1 = 7
    BY <1>1, <1>3 DEF Ends
  <1>11. {Unset} # {}
    OBVIOUS
  <1>12. Find(url, hostEnd + 1, {"/"}) = path /\ SubSeq(url, hostEnd + 1, path - 1) = run
    BY <1>4, <1>6, <1>10
  <1> QED  BY <1>2, <1>9, <1>10, <1>11, <1>12, Zenon DEF Ports

\* Without a port it is not called.
LEMMA NoPortRead ==
    ASSUME NEW u \in Urls, NEW url, UrlIs(u, url, 5)
    PROVE  Ports(url) # {}
  <1>1. /\ url \in Seq(Tokens) /\ Len(url) \in Nat /\ Len(url) >= 5 /\ url[5] \notin {":", "/"}
        /\ Behind(u) \in Seq(Tokens) /\ Len(url) = 5 + Len(Behind(u))
        /\ \A i \in DOMAIN Behind(u) : url[5 + i] = Behind(u)[i]
    <2>1. Len(url) \in Nat /\ Len(url) >= 5
      BY SignFound
    <2> QED  BY <2>1, UrlParts DEF UrlIs
  <1>2. PICK hostEnd : hostEnd = Find(url, 5, {":", "/"})
    OBVIOUS
  <1>3. /\ hostEnd \in 5 .. Len(url) + 1
        /\ hostEnd <= Len(url) => url[hostEnd] \in {":", "/"}
        /\ \A j \in 5 .. Len(url) : url[j] \in {":", "/"} => hostEnd <= j
    BY <1>1, <1>2, FindStops
  <1>4. hostEnd # 5
    BY <1>1, <1>3
  <1>5. hostEnd <= Len(url) => url[hostEnd] # ":"
    <2> SUFFICES ASSUME hostEnd <= Len(url) PROVE url[hostEnd] # ":"
      OBVIOUS
    <2>1. hostEnd - 5 \in DOMAIN Behind(u) /\ 5 + (hostEnd - 5) = hostEnd
      BY <1>1, <1>3, <1>4
    <2>2. url[hostEnd] = Behind(u)[hostEnd - 5]
      BY <1>1, <2>1
    <2>3. CASE \A i \in DOMAIN Behind(u) : Behind(u)[i] # ":"
      BY <2>1, <2>2, <2>3
    <2>4. CASE Behind(u) # <<>> /\ Behind(u)[1] = "/"
      <3>1. 1 \in DOMAIN Behind(u) /\ 5 + 1 = 6 /\ 6 \in 5 .. Len(url)
        BY <1>1, <2>4
      <3>2. url[6] = "/"
        BY <1>1, <2>4, <3>1
      <3>3. hostEnd <= 6
        BY <1>3, <3>1, <3>2
      <3>4. hostEnd = 6
        BY <1>3, <1>4, <3>3
      <3> QED  BY <3>2, <3>4
    <2> QED  BY <2>3, <2>4, UrlParts
  <1>6. ~(~Ends(url, hostEnd) /\ url[hostEnd] = ":")
    BY <1>1, <1>3, <1>5 DEF Ends
  <1>7. {Unset} # {}
    OBVIOUS
  <1> QED  BY <1>2, <1>6, <1>7, Zenon DEF Ports

\* Neither parser throws nor leaves the string.
LEMMA FrontReturns ==
    ASSUME NEW u \in Urls
    PROVE  UrlFront(UrlText(u)).end = "returns"
  <1>1. PICK url : url = UrlText(u)
    OBVIOUS
  <1>2. Ports(url) # {} /\ SignEnd(url) = 2 /\ HostStart(url) = 5 /\ Len(url) \in Nat /\ Len(url) >= 5
    <2>1. CASE HasPort(u)
      <3>1. UrlIs(u, url, 7)
        BY <1>1, <2>1, UrlTokens
      <3> QED  BY <2>1, <3>1, PortRead, SignFound
    <2>2. CASE ~HasPort(u)
      <3>1. UrlIs(u, url, 5)
        BY <1>1, <2>2, UrlTokens
      <3> QED  BY <3>1, NoPortRead, SignFound
    <2> QED  BY <2>1, <2>2
  <1>3. UrlFront(url).end = IF ~Ends(url, 2) /\ 5 > Len(url) + 1 THEN "overrun"
                            ELSE IF Ports(url) = {} THEN "throws" ELSE "returns"
    BY <1>2 DEF UrlFront, Ports
  <1>4. UrlFront(url).end = "returns"
    BY <1>2, <1>3
  <1> QED  BY <1>1, <1>4

-----------------------------------------------------------------------------
(* A well-formed URL behind the host and the port.                         *)

\* What the runs of a URL behind the host may be, and the signs of the query.
RestTokens == STRING \cup {"?", "&", "="}
QueryTokens == Run \cup {"?", "&", "="}

\* One parameter in the text of the query.
Piece(params, i) ==
    <<IF i = 1 THEN "?" ELSE "&", params[i][1]>> \o (IF Len(params[i]) = 2 THEN <<"=", params[i][2]>> ELSE <<>>)

Pieces(params) == [i \in DOMAIN params |-> Piece(params, i)]

\* Parameters are keys, or keys with a value.
WellFormed(params) ==
    /\ params \in Seq(Seq(Run))
    /\ \A i \in 1 .. Len(params) : Len(params[i]) = 1 \/ Len(params[i]) = 2

\* Two or four tokens in a row.
LEMMA PieceTokens ==
    ASSUME NEW S, NEW a \in S, NEW b \in S, NEW c \in S, NEW d \in S
    PROVE  /\ <<a, b>> \o <<c, d>> \in Seq(S) /\ Len(<<a, b>> \o <<c, d>>) = 4
           /\ (<<a, b>> \o <<c, d>>)[1] = a /\ (<<a, b>> \o <<c, d>>)[2] = b
           /\ (<<a, b>> \o <<c, d>>)[3] = c /\ (<<a, b>> \o <<c, d>>)[4] = d
           /\ <<a, b>> \o <<>> \in Seq(S) /\ Len(<<a, b>> \o <<>>) = 2
           /\ (<<a, b>> \o <<>>)[1] = a /\ (<<a, b>> \o <<>>)[2] = b
  OBVIOUS

\* A parameter takes two tokens for the key, and two for the value if it has one.
PieceIs(params, i) ==
    /\ Piece(params, i) \in Seq(QueryTokens) /\ Len(Piece(params, i)) = 2 * Len(params[i])
    /\ Piece(params, i)[1] = IF i = 1 THEN "?" ELSE "&"
    /\ Piece(params, i)[2] = params[i][1]
    /\ Len(params[i]) = 2 => Piece(params, i)[3] = "=" /\ Piece(params, i)[4] = params[i][2]

LEMMA PieceShape ==
    ASSUME NEW params, WellFormed(params), NEW i \in 1 .. Len(params)
    PROVE  PieceIs(params, i)
  <1>1. params[i] \in Seq(Run) /\ (Len(params[i]) = 1 \/ Len(params[i]) = 2)
    BY DEF WellFormed
  <1>2. params[i][1] \in QueryTokens /\ (Len(params[i]) = 2 => params[i][2] \in QueryTokens)
    <2>1. 1 \in 1 .. Len(params[i]) /\ (Len(params[i]) = 2 => 2 \in 1 .. Len(params[i]))
      <3>1. PICK n : n = Len(params[i])
        OBVIOUS
      <3>2. n = 1 \/ n = 2
        BY <1>1, <3>1
      <3>3. 1 \in 1 .. n /\ (n = 2 => 2 \in 1 .. n)
        BY <3>2
      <3> QED  BY <3>1, <3>3
    <2>2. params[i][1] \in Run /\ (Len(params[i]) = 2 => params[i][2] \in Run)
      <3> HIDE DEF Run
      <3> QED  BY <1>1, <2>1
    <2> QED  BY <2>2 DEF QueryTokens
  <1>3. PICK sign : sign = IF i = 1 THEN "?" ELSE "&"
    OBVIOUS
  <1>4. sign \in QueryTokens /\ "=" \in QueryTokens
    BY <1>3 DEF QueryTokens
  <1>5. PICK key : key = params[i][1]
    OBVIOUS
  <1>6. CASE Len(params[i]) = 2
    <2>1. PICK value : value = params[i][2]
      OBVIOUS
    <2>2. PICK p : p = <<sign, key>> \o <<"=", value>>
      OBVIOUS
    <2>3. Piece(params, i) = p
      BY <1>3, <1>5, <1>6, <2>1, <2>2 DEF Piece
    <2>4. p \in Seq(QueryTokens) /\ Len(p) = 4 /\ p[1] = sign /\ p[2] = key /\ p[3] = "=" /\ p[4] = value
      BY <1>2, <1>4, <1>5, <1>6, <2>1, <2>2, PieceTokens
    <2> QED  BY <1>3, <1>5, <1>6, <2>1, <2>3, <2>4 DEF PieceIs
  <1>7. CASE Len(params[i]) = 1
    <2>2. PICK p : p = <<sign, key>> \o <<>>
      OBVIOUS
    <2>3. Piece(params, i) = p
      BY <1>3, <1>5, <1>7, <2>2 DEF Piece
    <2>4. p \in Seq(QueryTokens) /\ Len(p) = 2 /\ p[1] = sign /\ p[2] = key
      BY <1>2, <1>4, <1>5, <2>2, PieceTokens
    <2> QED  BY <1>3, <1>5, <1>7, <2>3, <2>4 DEF PieceIs
  <1> QED  BY <1>1, <1>6, <1>7

\* The query has no "#", and begins with "?" if there are parameters.
LEMMA QueryShape ==
    ASSUME NEW params, WellFormed(params)
    PROVE  /\ Pieces(params) \in Seq(Seq(QueryTokens)) /\ Len(Pieces(params)) = Len(params)
           /\ QueryText(params) = FlattenSeq(Pieces(params))
           /\ QueryText(params) \in Seq(QueryTokens)
           /\ params = <<>> => QueryText(params) = <<>>
           /\ params # <<>> => Len(QueryText(params)) >= 2 /\ QueryText(params)[1] = "?"
  <1>1. QueryText(params) = FlattenSeq(Pieces(params))
    BY DEF QueryText, Pieces, Piece
  <1>2. \A i \in 1 .. Len(params) : Piece(params, i) \in Seq(QueryTokens)
    BY PieceShape DEF PieceIs
  <1>3. DOMAIN params = 1 .. Len(params) /\ Len(params) \in Nat
    BY DEF WellFormed
  <1>4. Pieces(params) \in Seq(Seq(QueryTokens)) /\ Len(Pieces(params)) = Len(params)
    BY <1>2, <1>3 DEF Pieces
  <1>5. params = <<>> => QueryText(params) = <<>>
    <2>1. params = <<>> => Pieces(params) = <<>>
      BY <1>4
    <2> QED  BY <1>1, <1>4, <2>1, FlattenIs
  <1>6. ASSUME params # <<>> PROVE Len(QueryText(params)) >= 2 /\ QueryText(params)[1] = "?"
    <2>1. 1 \in 1 .. Len(params) /\ Pieces(params) # <<>>
      BY <1>3, <1>4, <1>6 DEF WellFormed
    <2>2. Pieces(params)[1] = Piece(params, 1)
      BY <1>3, <2>1 DEF Pieces
    <2>3. Piece(params, 1)[1] = "?" /\ Len(Piece(params, 1)) = 2 * Len(params[1])
      BY <2>1, PieceShape DEF PieceIs
    <2>4. Len(params[1]) = 1 \/ Len(params[1]) = 2
      BY <2>1 DEF WellFormed
    <2>5. Len(Piece(params, 1)) >= 2 /\ 1 \in 1 .. Len(Piece(params, 1))
      BY <2>3, <2>4
    <2>6. /\ FlattenSeq(Pieces(params)) \in Seq(QueryTokens)
          /\ Len(FlattenSeq(Pieces(params))) >= Len(Piece(params, 1))
          /\ FlattenSeq(Pieces(params))[1] = Piece(params, 1)[1]
      BY <1>4, <2>1, <2>2, <2>5, FlattenBegins
    <2>7. Len(FlattenSeq(Pieces(params))) \in Nat
      BY <2>6
    <2> QED  BY <1>1, <2>3, <2>4, <2>6, <2>7
  <1>7. QueryText(params) \in Seq(QueryTokens)
    BY <1>1, <1>4, FlattenBegins
  <1> QED  BY <1>1, <1>4, <1>5, <1>6, <1>7

\* What well-formed says of the path, the parameters and the fragment.
LEMMA RestParts ==
    ASSUME NEW u \in Urls, u.path # <<>>
    PROVE  /\ WellFormed(u.params)
           /\ u.path \in Seq(STRING) /\ Len(u.path) >= 1 /\ u.path[1] = "/"
           /\ \A i \in 1 .. Len(u.path) : u.path[i] \notin {"?", "#"}
           /\ u.fragment \in Seq(STRING) /\ (u.fragment # <<>> => u.fragment[1] = "#")
  <1>1. /\ u.path \in Seq(STRING \ {"?", "#"}) /\ u.path[1] = "/"
        /\ u.params \in Seq(Seq(Run)) /\ \A i \in DOMAIN u.params : Len(u.params[i]) \in 1 .. 2
        /\ u.fragment \in Seq(STRING) /\ (u.fragment # <<>> => u.fragment[1] = "#")
    BY UrlsAssumption, Zenon
  <1>2. u.path \in Seq(STRING) /\ Len(u.path) >= 1 /\ \A i \in 1 .. Len(u.path) : u.path[i] \notin {"?", "#"}
    <2>1. PICK T : T = STRING \ {"?", "#"}
      OBVIOUS
    <2>2. T \subseteq STRING /\ \A x \in T : x \notin {"?", "#"}
      BY <2>1
    <2>3. PICK path \in Seq(T) : path = u.path
      BY <1>1, <2>1
    <2>4. path # <<>>
      BY <2>3
    <2>5. path \in Seq(STRING) /\ Len(path) >= 1
      <3>1. path \in Seq(STRING)
        BY <2>2, WiderSeq
      <3> QED  BY <2>4, <3>1
    <2>6. \A i \in 1 .. Len(path) : path[i] \in T
      OBVIOUS
    <2> QED  BY <2>2, <2>3, <2>5, <2>6
  <1>3. WellFormed(u.params)
    <2>1. ASSUME NEW i \in 1 .. Len(u.params) PROVE Len(u.params[i]) = 1 \/ Len(u.params[i]) = 2
      <3>1. i \in DOMAIN u.params
        BY <1>1
      <3>2. Len(u.params[i]) \in 1 .. 2
        BY <1>1, <3>1
      <3> QED  BY <3>2
    <2> QED  BY <1>1, <2>1 DEF WellFormed
  <1> QED  BY <1>1, <1>2, <1>3

\* Behind the n tokens of the front are k of the path and q of the query, then the fragment.
RestIs(u, url, n, k, q) ==
    /\ k = Len(u.path) /\ k \in Nat /\ k >= 1 /\ q = Len(QueryText(u.params)) /\ q \in Nat
    /\ Len(url) = n + k + q + Len(u.fragment)
    /\ \A i \in 1 .. k : url[n + i] = u.path[i]
    /\ \A i \in 1 .. q : url[n + k + i] = QueryText(u.params)[i]
    /\ \A i \in DOMAIN u.fragment : url[n + k + q + i] = u.fragment[i]

LEMMA RestFound ==
    ASSUME NEW u \in Urls, u.path # <<>>, NEW url, NEW n \in {5, 7}, UrlIs(u, url, n)
    PROVE  RestIs(u, url, n, Len(u.path), Len(QueryText(u.params)))
  <1>1. PICK query : query = QueryText(u.params)
    OBVIOUS
  <1>2. query \in Seq(RestTokens)
    <2>1. QueryTokens \subseteq RestTokens
      BY DEF QueryTokens, RestTokens, Run
    <2> QED  BY <1>1, <2>1, RestParts, QueryShape, WiderSeq
  <1>3. PICK path : path = u.path
    OBVIOUS
  <1>4. PICK fragment : fragment = u.fragment
    OBVIOUS
  <1>5. path \in Seq(RestTokens) /\ fragment \in Seq(RestTokens) /\ Len(path) >= 1
    <2>1. STRING \subseteq RestTokens
      BY DEF RestTokens
    <2> QED  BY <1>3, <1>4, <2>1, RestParts, WiderSeq
  <1>6. PICK rest : rest = path \o query \o fragment
    OBVIOUS
  <1>7. Behind(u) = rest
    BY <1>1, <1>3, <1>4, <1>6 DEF Behind
  <1>8. PICK k \in Nat, q \in Nat, l \in Nat : k = Len(path) /\ q = Len(query) /\ l = Len(fragment)
    BY <1>2, <1>5
  <1>9. /\ rest \in Seq(RestTokens) /\ Len(rest) = k + q + l
        /\ \A i \in 1 .. k : rest[i] = path[i]
        /\ \A i \in 1 .. q : rest[k + i] = query[i]
        /\ \A i \in DOMAIN fragment : rest[k + q + i] = fragment[i]
    <2>1. Parts(RestTokens, path, query, fragment, rest, k, q)
      BY <1>2, <1>5, <1>6, <1>8, ThreeParts
    <2> QED  BY <1>8, <2>1 DEF Parts
  <1>10. DOMAIN rest = 1 .. k + q + l /\ DOMAIN fragment = 1 .. l
    BY <1>5, <1>8, <1>9
  <1>11. Len(url) = n + Len(rest) /\ \A i \in DOMAIN rest : url[n + i] = rest[i]
    BY <1>7 DEF UrlIs
  <1>12. \A i \in 1 .. k + q + l : url[n + i] = rest[i]
    BY <1>10, <1>11
  <1>13. Len(url) = n + k + q + l
    BY <1>9, <1>11
  <1>14. \A i \in 1 .. k : url[n + i] = path[i]
    BY <1>9, <1>12
  <1>15. \A i \in 1 .. q : url[n + k + i] = query[i]
    <2> SUFFICES ASSUME NEW i \in 1 .. q PROVE url[n + k + i] = query[i]
      OBVIOUS
    <2>1. k + i \in 1 .. k + q + l /\ n + (k + i) = n + k + i
      OBVIOUS
    <2>2. url[n + (k + i)] = rest[k + i]
      BY <1>12, <2>1
    <2> QED  BY <1>9, <2>1, <2>2
  <1>16. \A i \in 1 .. l : url[n + k + q + i] = fragment[i]
    <2> SUFFICES ASSUME NEW i \in 1 .. l PROVE url[n + k + q + i] = fragment[i]
      OBVIOUS
    <2>1. k + q + i \in 1 .. k + q + l /\ n + (k + q + i) = n + k + q + i
      OBVIOUS
    <2>2. url[n + (k + q + i)] = rest[k + q + i]
      BY <1>12, <2>1
    <2> QED  BY <1>9, <1>10, <2>1, <2>2
  <1> QED  BY <1>1, <1>3, <1>4, <1>5, <1>8, <1>10, <1>13, <1>14, <1>15, <1>16 DEF RestIs

\* The parser finds the parts in front of the path, and the path behind them.
FrontIs(u, url, n) ==
    /\ UrlFront(url).end = "returns"
    /\ UrlFront(url).tls = (u.scheme = "https")
    /\ UrlFront(url).host = <<u.host>>
    /\ HasPort(u) => UrlFront(url).port = Numbers[u.port]
    /\ UrlFront(url).path = n + 1

\* A number of 16 bits is stored as it is; the only number of a set is its least.
LEMMA Fits == ASSUME NEW x \in 0 .. 2 ^ 16 - 1 PROVE x % 2 ^ 16 = x
  OBVIOUS

LEMMA MinOfOne == ASSUME NEW x \in Nat PROVE Min({x}) = x
  BY DEF Min

\* One token of a URL.
LEMMA OneToken ==
    ASSUME NEW S, NEW url \in Seq(S), NEW i \in 1 .. Len(url)
    PROVE  SubSeq(url, i, i) = <<url[i]>>
  <1>1. PICK x : x = url[i]
    OBVIOUS
  <1>2. PICK s : s = SubSeq(url, i, i)
    OBVIOUS
  <1>3. s \in Seq(S) /\ Len(s) = 1 /\ s[1] = x
    BY <1>1, <1>2
  <1>4. s = <<x>>
    BY <1>3
  <1> QED  BY <1>1, <1>2, <1>4

LEMMA OneName == ASSUME NEW x, NEW y PROVE (<<x>> = <<y>>) = (x = y)
  OBVIOUS

\* The front once the places in it are known.
FrontAs(url, sign, host, hostEnd, hasPort, path, ports) ==
    /\ UrlFront(url).end = IF ~Ends(url, sign) /\ host > Len(url) + 1 THEN "overrun"
                           ELSE IF ports = {} THEN "throws" ELSE "returns"
    /\ UrlFront(url).tls = (~Ends(url, sign) /\ SubSeq(url, 1, sign - 1) = <<"https">>)
    /\ UrlFront(url).host = IF Ends(url, hostEnd) THEN <<>> ELSE SubSeq(url, host, hostEnd - 1)
    /\ hasPort => UrlFront(url).port = IF ports = {} THEN Unset ELSE Min(ports)
    /\ UrlFront(url).path = path

LEMMA FrontWithPort ==
    ASSUME NEW u \in Urls, u.path # <<>>, HasPort(u), NEW url, UrlIs(u, url, 7)
    PROVE  FrontIs(u, url, 7)
  <1>1. /\ url \in Seq(Tokens) /\ Len(url) \in Nat /\ Len(url) >= 7 /\ url[1] = u.scheme /\ url[5] = u.host
        /\ url[5] \notin {":", "/"} /\ url[6] = ":" /\ url[7] = u.port /\ u.port # "/" /\ u.port \in DOMAIN Numbers
        /\ SignEnd(url) = 2 /\ HostStart(url) = 5
    <2>1. Len(url) \in Nat /\ Len(url) >= 7 /\ SignEnd(url) = 2 /\ HostStart(url) = 5
      BY SignFound
    <2> QED  BY <2>1, UrlParts DEF UrlIs
  <1>2. Len(url) >= 8 /\ url[8] = "/"
    <2>1. RestIs(u, url, 7, Len(u.path), Len(QueryText(u.params)))
      BY RestFound
    <2>2. u.path[1] = "/" /\ u.fragment \in Seq(STRING)
      BY RestParts
    <2>3. PICK k \in Nat, q \in Nat, l \in Nat : k = Len(u.path) /\ q = Len(QueryText(u.params)) /\ l = Len(u.fragment)
      BY <2>1, <2>2 DEF RestIs
    <2>4. k >= 1 /\ Len(url) = 7 + k + q + l /\ \A i \in 1 .. k : url[7 + i] = u.path[i]
      BY <2>1, <2>3 DEF RestIs
    <2>5. 1 \in 1 .. k /\ 7 + 1 = 8 /\ Len(url) >= 8
      BY <2>4
    <2>6. url[7 + 1] = u.path[1]
      BY <2>4, <2>5
    <2> QED  BY <2>2, <2>5, <2>6
  <1>3. PICK hostEnd : hostEnd = Find(url, 5, {":", "/"})
    OBVIOUS
  <1>4. hostEnd = 6
    <2>1. /\ hostEnd \in 5 .. Len(url) + 1
          /\ hostEnd <= Len(url) => url[hostEnd] \in {":", "/"}
          /\ \A j \in 5 .. Len(url) : url[j] \in {":", "/"} => hostEnd <= j
      <3>1. url \in Seq(Tokens) /\ 5 \in 1 .. Len(url) + 1
        BY <1>1
      <3> QED  BY <1>3, <3>1, FindStops
    <2>2. hostEnd <= 6
      BY <1>1, <2>1
    <2>3. hostEnd # 5
      BY <1>1, <2>1
    <2> QED  BY <2>1, <2>2, <2>3
  <1>5. PICK path : path = Find(url, 7, {"/"})
    OBVIOUS
  <1>6. path = 8
    <2>1. /\ path \in 7 .. Len(url) + 1
          /\ path <= Len(url) => url[path] \in {"/"}
          /\ \A j \in 7 .. Len(url) : url[j] \in {"/"} => path <= j
      BY <1>1, <1>5, FindStops
    <2>2. path <= 8
      BY <1>2, <2>1
    <2>3. path # 7
      BY <1>1, <2>1
    <2> QED  BY <2>1, <2>2, <2>3
  <1>7. SubSeq(url, 7, 7) = <<u.port>> /\ SubSeq(url, 5, 5) = <<u.host>> /\ SubSeq(url, 1, 1) = <<u.scheme>>
    <2>1. 1 \in 1 .. Len(url) /\ 5 \in 1 .. Len(url) /\ 7 \in 1 .. Len(url)
      BY <1>1
    <2> QED  BY <1>1, <2>1, OneToken
  <1>8. Stoi(<<u.port>>) = {Numbers[u.port]} /\ Numbers[u.port] \in Nat
    <2>1. Numbers[u.port] \in 0 .. 2 ^ 16 - 1
      BY UrlsAssumption, Zenon DEF HasPort
    <2>2. Stoi(<<u.port>>) = {Numbers[u.port] % 2 ^ 16}
      BY <1>1 DEF Stoi
    <2>3. Numbers[u.port] \in Nat
      BY <2>1
    <2> QED  BY <2>1, <2>2, <2>3, Fits
  <1>9. ~Ends(url, 2) /\ ~Ends(url, 6) /\ ~Ends(url, 8) /\ ~(5 > Len(url) + 1)
    BY <1>1, <1>2 DEF Ends
  <1>10. {Numbers[u.port]} # {} /\ Min({Numbers[u.port]}) = Numbers[u.port]
    BY <1>8, MinOfOne
  <1>11. ~Ends(url, hostEnd) /\ url[hostEnd] = ":" /\ hostEnd + 1 = 7 /\ hostEnd - 1 = 5
    BY <1>1, <1>4, <1>9
  <1>12. Find(url, hostEnd + 1, {"/"}) = 8 /\ SubSeq(url, hostEnd + 1, 8 - 1) = <<u.port>>
    BY <1>5, <1>6, <1>7, <1>11
  <1>13. PICK ports : ports = Stoi(<<u.port>>)
    OBVIOUS
  <1>14. FrontAs(url, 2, 5, hostEnd, TRUE, 8, ports)
    <2>1. /\ SignEnd(url) = 2 /\ HostStart(url) = 5 /\ Find(url, 5, {":", "/"}) = hostEnd
          /\ ~Ends(url, hostEnd) /\ url[hostEnd] = ":" /\ Find(url, hostEnd + 1, {"/"}) = 8 /\ ~Ends(url, 8)
          /\ Stoi(SubSeq(url, hostEnd + 1, 8 - 1)) = ports
      BY <1>1, <1>3, <1>9, <1>11, <1>12, <1>13
    <2>2. /\ UrlFront(url).end = IF ~Ends(url, 2) /\ 5 > Len(url) + 1 THEN "overrun"
                                  ELSE IF Ports(url) = {} THEN "throws" ELSE "returns"
          /\ UrlFront(url).port = IF Ports(url) = {} THEN Unset ELSE Min(Ports(url))
          /\ UrlFront(url).tls = (~Ends(url, 2) /\ SubSeq(url, 1, 2 - 1) = <<"https">>)
      BY <2>1 DEF UrlFront, Ports
    <2>3. /\ UrlFront(url).host = IF Ends(url, hostEnd) THEN <<>> ELSE SubSeq(url, 5, hostEnd - 1)
          /\ UrlFront(url).path = 8
      <3>1. Host(url, hostEnd) = SubSeq(url, 5, hostEnd - 1)
        BY <1>1, SignFound, HostIs
      <3>2. /\ UrlFront(url).host = IF Ends(url, hostEnd) THEN <<>> ELSE Host(url, hostEnd)
            /\ UrlFront(url).path = 8
        BY <2>1 DEF UrlFront
      <3> QED  BY <3>1, <3>2
    <2>4. Ports(url) = ports
      <3>1. (~Ends(url, hostEnd) /\ url[hostEnd] = ":") = TRUE
        BY <2>1
      <3>2. PICK run : run = SubSeq(url, hostEnd + 1, 8 - 1)
        OBVIOUS
      <3>3. Ports(url) = Stoi(run)
        BY <2>1, <3>2, Zenon DEF Ports
      <3> QED  BY <2>1, <3>2, <3>3
    <2> QED  BY <2>2, <2>3, <2>4 DEF FrontAs
  <1>15. ports # {} /\ Min(ports) = Numbers[u.port] /\ hostEnd - 1 = 5 /\ 2 - 1 = 1
    <2>1. ports = {Numbers[u.port]}
      BY <1>8, <1>13
    <2> QED  BY <1>4, <1>10, <2>1
  <1>16. UrlFront(url).end = "returns" /\ UrlFront(url).path = 8 /\ UrlFront(url).port = Numbers[u.port]
    BY <1>9, <1>14, <1>15 DEF FrontAs
  <1>17. UrlFront(url).host = <<u.host>>
    BY <1>7, <1>11, <1>14, <1>15 DEF FrontAs
  <1>18. UrlFront(url).tls = (<<u.scheme>> = <<"https">>)
    BY <1>7, <1>9, <1>14, <1>15 DEF FrontAs
  <1>19. UrlFront(url).tls = (u.scheme = "https")
    BY <1>18, OneName
  <1> QED  BY <1>16, <1>17, <1>19 DEF FrontIs

LEMMA FrontWithoutPort ==
    ASSUME NEW u \in Urls, u.path # <<>>, ~HasPort(u), NEW url, UrlIs(u, url, 5)
    PROVE  FrontIs(u, url, 5)
  <1>1. /\ url \in Seq(Tokens) /\ Len(url) \in Nat /\ Len(url) >= 5 /\ url[1] = u.scheme /\ url[5] = u.host
        /\ url[5] \notin {":", "/"} /\ SignEnd(url) = 2 /\ HostStart(url) = 5
    <2>1. Len(url) \in Nat /\ Len(url) >= 5 /\ SignEnd(url) = 2 /\ HostStart(url) = 5
      BY SignFound
    <2> QED  BY <2>1, UrlParts DEF UrlIs
  <1>2. Len(url) >= 6 /\ url[6] = "/"
    <2>1. RestIs(u, url, 5, Len(u.path), Len(QueryText(u.params)))
      BY RestFound
    <2>2. u.path[1] = "/" /\ u.fragment \in Seq(STRING)
      BY RestParts
    <2>3. PICK k \in Nat, q \in Nat, l \in Nat : k = Len(u.path) /\ q = Len(QueryText(u.params)) /\ l = Len(u.fragment)
      BY <2>1, <2>2 DEF RestIs
    <2>4. k >= 1 /\ Len(url) = 5 + k + q + l /\ \A i \in 1 .. k : url[5 + i] = u.path[i]
      BY <2>1, <2>3 DEF RestIs
    <2>5. 1 \in 1 .. k /\ 5 + 1 = 6 /\ Len(url) >= 6
      BY <2>4
    <2>6. url[5 + 1] = u.path[1]
      BY <2>4, <2>5
    <2> QED  BY <2>2, <2>5, <2>6
  <1>3. PICK hostEnd : hostEnd = Find(url, 5, {":", "/"})
    OBVIOUS
  <1>4. hostEnd = 6
    <2>1. /\ hostEnd \in 5 .. Len(url) + 1
          /\ hostEnd <= Len(url) => url[hostEnd] \in {":", "/"}
          /\ \A j \in 5 .. Len(url) : url[j] \in {":", "/"} => hostEnd <= j
      BY <1>1, <1>3, FindStops
    <2>2. hostEnd <= 6
      BY <1>2, <2>1
    <2>3. hostEnd # 5
      BY <1>1, <2>1
    <2> QED  BY <2>1, <2>2, <2>3
  <1>5. SubSeq(url, 5, 5) = <<u.host>> /\ SubSeq(url, 1, 1) = <<u.scheme>>
    <2>1. 1 \in 1 .. Len(url) /\ 5 \in 1 .. Len(url)
      BY <1>1
    <2> QED  BY <1>1, <2>1, OneToken
  <1>6. ~Ends(url, 2) /\ ~Ends(url, 6) /\ ~(5 > Len(url) + 1) /\ url[6] # ":"
    BY <1>1, <1>2 DEF Ends
  <1>7. {Unset} # {}
    OBVIOUS
  <1>8. ~(~Ends(url, hostEnd) /\ url[hostEnd] = ":")
    BY <1>4, <1>6
  <1>9. FrontAs(url, 2, 5, hostEnd, FALSE, 6, {Unset})
    <2>1. Host(url, hostEnd) = SubSeq(url, 5, hostEnd - 1)
      BY <1>1, SignFound, HostIs
    <2> QED  BY <1>1, <1>3, <1>4, <1>8, <2>1 DEF UrlFront, FrontAs
  <1> QED  BY <1>4, <1>5, <1>6, <1>7, <1>9, OneName DEF FrontAs, FrontIs


\* The rest of a well-formed URL with a path, and where it is.
LEMMA UrlFound ==
    ASSUME NEW u \in Urls, u.path # <<>>, NEW url, url = UrlText(u)
    PROVE  \E n \in {5, 7} : UrlIs(u, url, n) /\ FrontIs(u, url, n)
  <1>1. CASE HasPort(u)
    BY <1>1, UrlTokens, FrontWithPort
  <1>2. CASE ~HasPort(u)
    BY <1>2, UrlTokens, FrontWithoutPort
  <1> QED  BY <1>1, <1>2

\* A sequence that is cut out of another one.
LEMMA CutOut ==
    ASSUME NEW S, NEW url \in Seq(S), NEW T, NEW s \in Seq(T), NEW a \in Nat, NEW m, m = Len(s),
           a + m <= Len(url), \A i \in 1 .. m : url[a + i] = s[i]
    PROVE  SubSeq(url, a + 1, a + m) = s
  <1>1. m \in Nat /\ Len(url) \in Nat /\ \A i \in 1 .. Len(url) : url[i] \in S
    OBVIOUS
  <1>2. \A i \in a + 1 .. a + m : i \in 1 .. Len(url)
    BY <1>1
  <1>3. \A i \in a + 1 .. a + m : url[i] \in S
    BY <1>1, <1>2
  <1>4. PICK cut : cut = SubSeq(url, a + 1, a + m)
    OBVIOUS
  <1>5. /\ cut \in Seq(S) /\ Len(cut) = IF a + 1 <= a + m THEN (a + m) - (a + 1) + 1 ELSE 0
        /\ \A i \in 1 .. (a + m) - (a + 1) + 1 : cut[i] = url[(a + 1) + i - 1]
    <2>1. PICK lo \in Int, hi \in Int : lo = a + 1 /\ hi = a + m
      BY <1>1
    <2>2. cut = SubSeq(url, lo, hi) /\ \A i \in lo .. hi : url[i] \in S
      BY <1>3, <1>4, <2>1
    <2>3. /\ SubSeq(url, lo, hi) \in Seq(S)
          /\ Len(SubSeq(url, lo, hi)) = IF lo <= hi THEN hi - lo + 1 ELSE 0
          /\ \A i \in 1 .. hi - lo + 1 : SubSeq(url, lo, hi)[i] = url[lo + i - 1]
      BY <2>2, SubSeqProperties
    <2>4. /\ cut \in Seq(S) /\ Len(cut) = IF lo <= hi THEN hi - lo + 1 ELSE 0
          /\ \A i \in 1 .. hi - lo + 1 : cut[i] = url[lo + i - 1]
      BY <2>2, <2>3, SMTT(60)
    <2> QED  BY <2>1, <2>4, SMTT(60)
  <1>6. Len(cut) = m
    BY <1>1, <1>5
  <1>7. \A i \in 1 .. m : cut[i] = s[i]
    <2> SUFFICES ASSUME NEW i \in 1 .. m PROVE cut[i] = s[i]
      OBVIOUS
    <2>1. i \in 1 .. (a + m) - (a + 1) + 1 /\ (a + 1) + i - 1 = a + i
      BY <1>1
    <2> QED  BY <1>5, <2>1
  <1>8. cut \in Seq(S \cup T) /\ s \in Seq(S \cup T)
    <2>1. S \subseteq S \cup T /\ T \subseteq S \cup T
      OBVIOUS
    <2> QED  BY <1>5, <2>1, WiderSeq
  <1>9. cut = s
    BY <1>6, <1>7, <1>8, SeqEqual
  <1> QED  BY <1>4, <1>9

\* asyncParserBasicUri.
LEMMA BasicIsSplit ==
    ASSUME NEW u \in Urls, u.path # <<>>, NEW answer, answer = ParserBasicUrl(UrlText(u))
    PROVE  SameOrigin(answer, u) /\ answer.path = Behind(u)
  <1>1. PICK url : url = UrlText(u)
    OBVIOUS
  <1>2. PICK n \in {5, 7} : UrlIs(u, url, n) /\ FrontIs(u, url, n)
    BY <1>1, UrlFound
  <1>3. PICK rest : rest = Behind(u)
    OBVIOUS
  <1>4. /\ url \in Seq(Tokens) /\ rest \in Seq(Tokens) /\ Len(url) = n + Len(rest)
        /\ \A i \in 1 .. Len(rest) : url[n + i] = rest[i]
    BY <1>2, <1>3, SMTT(30) DEF UrlIs
  <1>5. SubSeq(url, n + 1, Len(url)) = rest
    <2>1. Len(rest) \in Nat
      BY <1>4
    <2> QED  BY <1>4, <2>1, CutOut
  <1>6. UrlFront(url).path = n + 1
    BY <1>2 DEF FrontIs
  <1>7. answer.path = rest
    BY <1>1, <1>5, <1>6 DEF ParserBasicUrl, UrlFront
  <1>8. answer.tls = UrlFront(url).tls /\ answer.host = UrlFront(url).host /\ answer.port = UrlFront(url).port
    BY <1>1 DEF ParserBasicUrl, UrlFront
  <1>9. /\ answer.tls = (u.scheme = "https") /\ answer.host = <<u.host>>
        /\ HasPort(u) => answer.port = Numbers[u.port]
    BY <1>2, <1>8 DEF FrontIs
  <1>10. SameOrigin(answer, u)
    BY <1>9, Zenon DEF SameOrigin, HasPort
  <1> QED  BY <1>3, <1>7, <1>10

\* Where ParserQueryUrl's two searches should stop.
QueryEnds(url, n, k, q) ==
    /\ Find(url, n + 1, {"?", "#"}) = n + k + 1
    /\ Find(url, n + k + 1, {"#"}) = n + k + q + 1

\* The path ends where the query or the fragment begins, and the query where the fragment does.
LEMMA QueryFound ==
    ASSUME NEW u \in Urls, u.path # <<>>, NEW url, NEW n \in {5, 7}, UrlIs(u, url, n),
           NEW k \in Nat, NEW q \in Nat, RestIs(u, url, n, k, q)
    PROVE  QueryEnds(url, n, k, q)
  <1>1. PICK l \in Nat : l = Len(u.fragment) /\ DOMAIN u.fragment = 1 .. l
    BY RestParts
  <1>2. /\ url \in Seq(Tokens) /\ Len(url) = n + k + q + l
        /\ \A i \in 1 .. l : url[n + k + q + i] = u.fragment[i]
    BY <1>1 DEF RestIs, UrlIs
  <1>3. \A i \in 1 .. k : url[n + i] \notin {"?", "#"}
    BY RestParts DEF RestIs
  <1>4. \A i \in 1 .. q : url[n + k + i] # "#"
    <2>1. QueryText(u.params) \in Seq(QueryTokens)
      BY RestParts, QueryShape
    <2>2. \A x \in QueryTokens : x # "#"
      BY DEF QueryTokens, Run
    <2>3. PICK query \in Seq(QueryTokens) : query = QueryText(u.params)
      BY <2>1
    <2>4. q = Len(query) /\ \A i \in 1 .. q : url[n + k + i] = query[i]
      BY <2>3 DEF RestIs
    <2>5. \A i \in 1 .. q : query[i] \in QueryTokens
      BY <2>4
    <2> QED  BY <2>2, <2>4, <2>5
  <1>5. q >= 1 => url[n + k + 1] = "?"
    <2>1. q >= 1 => u.params # <<>>
      BY RestParts, QueryShape DEF RestIs
    <2>2. q >= 1 => QueryText(u.params)[1] = "?"
      BY <2>1, RestParts, QueryShape
    <2>3. q >= 1 => 1 \in 1 .. q
      OBVIOUS
    <2> QED  BY <2>2, <2>3 DEF RestIs
  <1>6. l >= 1 => url[n + k + q + 1] = "#"
    <2>1. l >= 1 => 1 \in 1 .. l /\ u.fragment # <<>>
      BY <1>1
    <2> QED  BY <1>2, <2>1, RestParts
  <1>7. PICK start : start = Find(url, n + 1, {"?", "#"})
    OBVIOUS
  <1>8. start = n + k + 1
    <2>1. n + 1 \in 1 .. Len(url) + 1
      BY <1>2
    <2>2. /\ start \in n + 1 .. Len(url) + 1
          /\ start <= Len(url) => url[start] \in {"?", "#"}
          /\ \A j \in n + 1 .. Len(url) : url[j] \in {"?", "#"} => start <= j
      BY <1>2, <1>7, <2>1, FindStops
    <2>3. ASSUME start <= n + k PROVE FALSE
      <3>1. start - n \in 1 .. k /\ n + (start - n) = start /\ start <= Len(url)
        BY <1>2, <2>2, <2>3
      <3> QED  BY <1>3, <2>2, <3>1
    <2>4. start <= n + k + 1
      <3>1. CASE q >= 1
        BY <1>2, <1>5, <2>2, <3>1
      <3>2. CASE q = 0 /\ l >= 1
        BY <1>2, <1>6, <2>2, <3>2
      <3>3. CASE q = 0 /\ l = 0
        BY <1>2, <2>2, <3>3
      <3> QED  BY <3>1, <3>2, <3>3
    <2> QED  BY <2>2, <2>3, <2>4
  <1>9. PICK end : end = Find(url, n + k + 1, {"#"})
    OBVIOUS
  <1>10. end = n + k + q + 1
    <2>1. n + k + 1 \in 1 .. Len(url) + 1
      BY <1>2
    <2>2. /\ end \in n + k + 1 .. Len(url) + 1
          /\ end <= Len(url) => url[end] \in {"#"}
          /\ \A j \in n + k + 1 .. Len(url) : url[j] \in {"#"} => end <= j
      BY <1>2, <1>9, <2>1, FindStops
    <2>3. ASSUME end <= n + k + q PROVE FALSE
      <3>1. PICK size : size = Len(url)
        OBVIOUS
      <3>2. size = n + k + q + l /\ end \in n + k + 1 .. size + 1
        BY <1>2, <2>2, <3>1, Zenon
      <3>3. PICK i : i = end - (n + k)
        OBVIOUS
      <3>4. i \in 1 .. q /\ n + k + i = end /\ end <= size
        BY <2>3, <3>2, <3>3
      <3> QED  BY <1>4, <2>2, <3>1, <3>4
    <2>4. end <= n + k + q + 1
      <3>1. CASE l >= 1
        BY <1>2, <1>6, <2>2, <3>1, SMTT(60)
      <3>2. CASE l = 0
        BY <1>2, <2>2, <3>2
      <3> QED  BY <3>1, <3>2
    <2> QED  BY <2>2, <2>3, <2>4
  <1>11. Find(url, n + 1, {"?", "#"}) = n + k + 1
    BY <1>7, <1>8
  <1>12. Find(url, n + k + 1, {"#"}) = n + k + q + 1
    BY <1>9, <1>10
  <1> QED  BY <1>11, <1>12, Zenon DEF QueryEnds


-----------------------------------------------------------------------------
(* The parameters of a query.                                              *)

\* M_parserQueryParamter at token i: where the key begins, where it and the parameter end.
KeyAt(query, i) == IF query[i] = "?" THEN i + 1 ELSE i
EqAt(query, i) == Find(query, KeyAt(query, i), {"="})
AmpAt(query, i) == Find(query, KeyAt(query, i), {"&"})
EntryAt(query, i) ==
    [key   |-> SubSeq(query, KeyAt(query, i), EqAt(query, i) - 1),
     value |-> IF EqAt(query, i) < AmpAt(query, i) THEN SubSeq(query, EqAt(query, i) + 1, AmpAt(query, i) - 1)
               ELSE <<"[EMPYTY-PARAMTER]">>]

\* What Parameters builds up, and what it makes of token i.
Body(f, query, i) == IF Ends(query, i) THEN <<>> ELSE <<EntryAt(query, i)>> \o f[AmpAt(query, i) + 1]
Lists(f, query) == f = [i \in 1 .. Len(query) + 2 |-> Body(f, query, i)]

\* The parser always moves on.
LEMMA AmpIsAhead ==
    ASSUME NEW S, NEW query \in Seq(S), NEW i \in 1 .. Len(query)
    PROVE  AmpAt(query, i) + 1 \in i + 1 .. Len(query) + 2
  <1>1. KeyAt(query, i) \in i .. Len(query) + 1 /\ Len(query) \in Nat
    BY DEF KeyAt
  <1>2. PICK k : k = KeyAt(query, i)
    OBVIOUS
  <1>3. Find(query, k, {"&"}) \in k .. Len(query) + 1
    <2>1. k \in 1 .. Len(query) + 1
      BY <1>1, <1>2
    <2> QED  BY <2>1, FindStops
  <1>4. AmpAt(query, i) \in k .. Len(query) + 1
    BY <1>2, <1>3 DEF AmpAt
  <1> QED  BY <1>1, <1>2, <1>4

\* The function that Parameters defines by recursion exists: one for the last d tokens is
\* continued to the front by one value.
LEMMA ListExists ==
    ASSUME NEW S, NEW query \in Seq(S)
    PROVE  \E f : Lists(f, query)
  <1>1. PICK last \in Nat : last = Len(query) + 2
    OBVIOUS
  <1> DEFINE UpTo(f, d) == f = [i \in 1 .. last |-> IF i <= last - d THEN <<>> ELSE Body(f, query, i)]
             T == {d \in Nat : \E f : UpTo(f, d)}
  <1>2. 0 \in T
    <2>1. UpTo([i \in 1 .. last |-> <<>>], 0)
      BY DEF Body
    <2> HIDE DEF UpTo
    <2> QED  BY <2>1
  <1>3. ASSUME NEW d \in Nat, d \in T PROVE d + 1 \in T
    <2>1. PICK f : UpTo(f, d)
      BY <1>3
    <2>2. PICK g : g = [i \in 1 .. last |-> IF i = last - d THEN Body(f, query, i) ELSE f[i]]
      OBVIOUS
    <2>3. \A i \in 1 .. last : f[i] = IF i <= last - d THEN <<>> ELSE Body(f, query, i)
      BY <2>1
    <2>4. ASSUME NEW i \in 1 .. last, i >= last - d PROVE Body(g, query, i) = Body(f, query, i)
      <3>1. CASE Ends(query, i)
        BY <3>1 DEF Body
      <3>2. CASE ~Ends(query, i)
        <4>1. i \in 1 .. Len(query) /\ Len(query) \in Nat
          BY <1>1, <3>2 DEF Ends
        <4>2. PICK next : next = AmpAt(query, i) + 1
          OBVIOUS
        <4>3. next \in i + 1 .. last
          BY <1>1, <4>1, <4>2, AmpIsAhead
        <4>4. next \in 1 .. last /\ next # last - d
          BY <2>4, <4>3
        <4>5. g[next] = f[next]
          BY <2>2, <4>4
        <4> QED  BY <4>2, <4>5, Zenon DEF Body
      <3> QED  BY <3>1, <3>2
    <2>5. ASSUME NEW i \in 1 .. last PROVE g[i] = IF i <= last - (d + 1) THEN <<>> ELSE Body(g, query, i)
      <3>1. CASE i = last - d
        <4>1. g[i] = Body(f, query, i)
          BY <2>2, <3>1
        <4>2. i >= last - d /\ ~(i <= last - (d + 1))
          BY <3>1
        <4> QED  BY <2>4, <4>1, <4>2
      <3>2. CASE i > last - d
        <4>1. g[i] = f[i] /\ f[i] = Body(f, query, i)
          BY <2>2, <2>3, <3>2
        <4>2. i >= last - d /\ ~(i <= last - (d + 1))
          BY <3>2
        <4> QED  BY <2>4, <4>1, <4>2
      <3>3. CASE i < last - d
        <4>1. g[i] = f[i] /\ f[i] = <<>>
          BY <2>2, <2>3, <3>3
        <4>2. i <= last - (d + 1)
          BY <3>3
        <4> QED  BY <4>1, <4>2
      <3> QED  BY <3>1, <3>2, <3>3
    <2>6. g = [i \in 1 .. last |-> g[i]]
      BY <2>2
    <2>7. UpTo(g, d + 1)
      BY <2>5, <2>6
    <2> HIDE DEF UpTo
    <2> QED  BY <2>7
  <1>4. Nat \subseteq T
    <2> HIDE DEF T
    <2> QED  BY <1>2, <1>3, Induction
  <1>5. PICK f : UpTo(f, last)
    <2>1. last \in T
      <3> HIDE DEF T
      <3> QED  BY <1>4
    <2> HIDE DEF UpTo
    <2> QED  BY <2>1
  <1>6. f = [i \in 1 .. last |-> Body(f, query, i)]
    <2>1. \A i \in 1 .. last : ~(i <= last - last)
      OBVIOUS
    <2> QED  BY <1>5, <2>1
  <1> QED  BY <1>1, <1>6 DEF Lists

\* Parameters returns its first value.
LEMMA ParametersAre ==
    ASSUME NEW S, NEW query \in Seq(S)
    PROVE  \E f : Lists(f, query) /\ Parameters(query) = f[1]
  <1>1. PICK f : f = CHOOSE h : Lists(h, query)
    OBVIOUS
  <1>2. Lists(f, query)
    BY <1>1, ListExists
  <1>3. Parameters(query) = f[1]
    BY <1>1, Zenon DEF Parameters, Lists, Body, EntryAt, KeyAt, EqAt, AmpAt
  <1> QED  BY <1>2, <1>3


\* How many tokens of the query are in front of parameter i, if all those have values.
InFront(params, i) ==
    IF i <= Len(params) THEN 4 * (i - 1) ELSE 4 * (i - 2) + 2 * Len(params[i - 1])

\* Where the parameters are in the query.
QueryPlaces(params, query) ==
    /\ query \in Seq(QueryTokens) /\ Len(query) = InFront(params, Len(params) + 1)
    /\ InFront(params, 1) = 0
    /\ \A i \in 1 .. Len(params) : InFront(params, i) \in Nat
    /\ \A i \in 1 .. Len(params) : InFront(params, i + 1) = InFront(params, i) + 2 * Len(params[i])
    /\ \A i \in 1 .. Len(params) : \A k \in 1 .. 2 * Len(params[i]) :
        query[InFront(params, i) + k] = Piece(params, i)[k]

LEMMA QueryIsPlaced ==
    ASSUME NEW params, WellFormed(params), AllHaveValues(params), params # <<>>
    PROVE  QueryPlaces(params, QueryText(params))
  <1>1. PICK n \in Nat : n = Len(params) /\ n >= 1
    BY DEF WellFormed
  <1>2. \A i \in 1 .. n : Len(params[i]) = 1 \/ Len(params[i]) = 2
    BY <1>1 DEF WellFormed
  <1>3. \A i \in 1 .. n - 1 : Len(params[i]) = 2
    BY <1>1 DEF AllHaveValues
  <1>4. \A i \in 1 .. n : InFront(params, i) = 4 * (i - 1)
    BY <1>1 DEF InFront
  <1>5. InFront(params, n + 1) = 4 * (n - 1) + 2 * Len(params[n])
    <2>1. ~(n + 1 <= n) /\ (n + 1) - 2 = n - 1 /\ (n + 1) - 1 = n
      BY <1>1
    <2> QED  BY <1>1, <2>1 DEF InFront
  <1>6. \A i \in 1 .. n : InFront(params, i + 1) = InFront(params, i) + 2 * Len(params[i])
    <2> SUFFICES ASSUME NEW i \in 1 .. n PROVE InFront(params, i + 1) = InFront(params, i) + 2 * Len(params[i])
      OBVIOUS
    <2>1. CASE i = n
      BY <1>4, <1>5, <2>1
    <2>2. CASE i # n
      <3>1. i \in 1 .. n - 1 /\ i + 1 \in 1 .. n
        BY <2>2
      <3>2. InFront(params, i + 1) = 4 * ((i + 1) - 1) /\ InFront(params, i) = 4 * (i - 1)
        BY <1>4, <3>1
      <3>3. Len(params[i]) = 2
        BY <1>3, <3>1
      <3>4. 4 * ((i + 1) - 1) = 4 * (i - 1) + 2 * 2
        OBVIOUS
      <3> QED  BY <3>2, <3>3, <3>4
    <2> QED  BY <2>1, <2>2
  <1>7. PICK at : at = [i \in 1 .. n + 1 |-> InFront(params, i)]
    OBVIOUS
  <1>8. PICK seqs : seqs = Pieces(params)
    OBVIOUS
  <1>9. seqs \in Seq(Seq(QueryTokens)) /\ Len(seqs) = n
    BY <1>1, <1>8, QueryShape
  <1>10. \A i \in 1 .. n : seqs[i] = Piece(params, i) /\ Len(seqs[i]) = 2 * Len(params[i])
    <2>1. DOMAIN params = 1 .. n
      BY <1>1 DEF WellFormed
    <2>2. ASSUME NEW i \in 1 .. n PROVE seqs[i] = Piece(params, i)
      BY <1>8, <2>1 DEF Pieces
    <2>3. ASSUME NEW i \in 1 .. n PROVE Len(Piece(params, i)) = 2 * Len(params[i])
      BY <1>1, PieceShape DEF PieceIs
    <2> QED  BY <2>2, <2>3
  <1>11. InFront(params, n + 1) \in Nat
    <2>1. PICK w : w = Len(params[n])
      OBVIOUS
    <2>2. w = 1 \/ w = 2
      BY <1>1, <1>2, <2>1
    <2>3. 4 * (n - 1) + 2 * w \in Nat
      BY <1>1, <2>2
    <2> QED  BY <1>5, <2>1, <2>3
  <1>12. at \in [1 .. n + 1 -> Nat] /\ at[1] = 0
    <2>1. ASSUME NEW i \in 1 .. n + 1 PROVE InFront(params, i) \in Nat
      BY <1>4, <1>11
    <2> QED  BY <1>1, <1>4, <1>7, <2>1
  <1>13. \A i \in 1 .. n : at[i + 1] = at[i] + Len(seqs[i])
    BY <1>6, <1>7, <1>10
  <1>14. PICK query : query = FlattenSeq(seqs)
    OBVIOUS
  <1>15. /\ query \in Seq(QueryTokens) /\ Len(query) = at[n + 1]
         /\ \A i \in 1 .. n : \A k \in 1 .. Len(seqs[i]) : query[at[i] + k] = seqs[i][k]
    <2>1. at \in [1 .. Len(seqs) + 1 -> Nat] /\ \A i \in 1 .. Len(seqs) : at[i + 1] = at[i] + Len(seqs[i])
      BY <1>9, <1>12, <1>13
    <2>2. /\ FlattenSeq(seqs) \in Seq(QueryTokens) /\ Len(FlattenSeq(seqs)) = at[Len(seqs) + 1]
          /\ \A i \in 1 .. Len(seqs) : \A k \in 1 .. Len(seqs[i]) : FlattenSeq(seqs)[at[i] + k] = seqs[i][k]
      BY <1>9, <1>12, <2>1, FlattenPlaces, ZenonT(60)
    <2> QED  BY <1>9, <1>14, <2>2, Zenon
  <1>16. \A i \in 1 .. n : \A k \in 1 .. 2 * Len(params[i]) : query[InFront(params, i) + k] = Piece(params, i)[k]
    <2> SUFFICES ASSUME NEW i \in 1 .. n, NEW k \in 1 .. 2 * Len(params[i])
                 PROVE  query[InFront(params, i) + k] = Piece(params, i)[k]
      OBVIOUS
    <2>1. k \in 1 .. Len(seqs[i]) /\ seqs[i] = Piece(params, i)
      BY <1>10
    <2>2. query[at[i] + k] = seqs[i][k]
      BY <1>15, <2>1
    <2>3. at[i] = InFront(params, i)
      BY <1>7
    <2> QED  BY <2>1, <2>2, <2>3
  <1>17. QueryText(params) = query
    BY <1>8, <1>14, QueryShape
  <1>18. Len(query) = InFront(params, n + 1) /\ \A i \in 1 .. n : InFront(params, i) \in Nat
    BY <1>4, <1>7, <1>15
  <1>19. InFront(params, 1) = 0
    BY <1>1, <1>4
  <1> QED  BY <1>1, <1>6, <1>15, <1>16, <1>17, <1>18, <1>19 DEF QueryPlaces

\* The tokens of a parameter in the query, behind a others.
PieceAt(query, a, p, first) ==
    /\ a \in Nat /\ Len(query) >= a + 2 * Len(p) /\ (Len(p) = 1 \/ Len(p) = 2)
    /\ first => a = 0 /\ query[1] = "?"
    /\ query[a + 2] = p[1] /\ p[1] \in Run
    /\ Len(p) = 1 => Len(query) = a + 2
    /\ Len(p) = 2 => query[a + 3] = "=" /\ query[a + 4] = p[2] /\ p[2] \in Run
    /\ Len(query) # a + 2 * Len(p) => query[a + 2 * Len(p) + 1] = "&"

LEMMA PieceIsAt ==
    ASSUME NEW params, WellFormed(params), AllHaveValues(params), params # <<>>,
           NEW i \in 1 .. Len(params), NEW query, QueryPlaces(params, query)
    PROVE  PieceAt(query, InFront(params, i), params[i], i = 1)
  <1>1. PICK n \in Nat : n = Len(params) /\ n >= 1 /\ i \in 1 .. n
    BY DEF WellFormed
  <1>2. PICK a \in Nat : a = InFront(params, i)
    BY DEF QueryPlaces
  <1>3. PICK p : p = params[i]
    OBVIOUS
  <1>4. p \in Seq(Run) /\ (Len(p) = 1 \/ Len(p) = 2)
    BY <1>1, <1>3 DEF WellFormed
  <1>5. PICK piece : piece = Piece(params, i)
    OBVIOUS
  <1>6. /\ piece[1] = IF i = 1 THEN "?" ELSE "&"
        /\ piece[2] = p[1] /\ (Len(p) = 2 => piece[3] = "=" /\ piece[4] = p[2])
    BY <1>3, <1>5, PieceShape DEF PieceIs
  <1>7. \A k \in 1 .. 2 * Len(p) : query[a + k] = piece[k]
    BY <1>2, <1>3, <1>5 DEF QueryPlaces
  <1>8. query[a + 1] = piece[1] /\ query[a + 2] = p[1]
    <2>1. 1 \in 1 .. 2 * Len(p) /\ 2 \in 1 .. 2 * Len(p)
      BY <1>4
    <2> QED  BY <1>6, <1>7, <2>1
  <1>9. Len(p) = 2 => query[a + 3] = "=" /\ query[a + 4] = p[2]
    <2>1. Len(p) = 2 => 3 \in 1 .. 2 * Len(p) /\ 4 \in 1 .. 2 * Len(p)
      OBVIOUS
    <2> QED  BY <1>6, <1>7, <2>1
  <1>10. p[1] \in Run /\ (Len(p) = 2 => p[2] \in Run)
    <2>1. 1 \in 1 .. Len(p) /\ (Len(p) = 2 => 2 \in 1 .. Len(p))
      BY <1>4
    <2> HIDE DEF Run
    <2> QED  BY <1>4, <2>1
  <1>11. InFront(params, i + 1) = a + 2 * Len(p)
    BY <1>2, <1>3 DEF QueryPlaces
  <1>12. i = n => Len(query) = a + 2 * Len(p)
    BY <1>1, <1>11 DEF QueryPlaces
  <1>13. ASSUME i # n PROVE Len(p) = 2 /\ Len(query) >= a + 2 * Len(p) /\ query[a + 2 * Len(p) + 1] = "&"
    <2>1. i \in 1 .. n - 1 /\ i + 1 \in 1 .. n /\ i + 1 # 1
      BY <1>1, <1>13
    <2>2. Len(p) = 2
      BY <1>1, <1>3, <2>1 DEF AllHaveValues
    <2>3. PICK next : next = params[i + 1]
      OBVIOUS
    <2>4. Len(next) = 1 \/ Len(next) = 2
      BY <1>1, <2>1, <2>3 DEF WellFormed
    <2>5. Piece(params, i + 1)[1] = "&"
      BY <1>1, <2>1, PieceShape DEF PieceIs
    <2>6. 1 \in 1 .. 2 * Len(next)
      BY <2>4
    <2>7. query[InFront(params, i + 1) + 1] = "&"
      BY <1>1, <2>1, <2>3, <2>5, <2>6 DEF QueryPlaces
    <2>8. Len(query) >= InFront(params, i + 1)
      <3>1. InFront(params, i + 1) = 4 * i /\ InFront(params, n + 1) = 4 * (n - 1) + 2 * Len(params[n])
        <4>1. ~(n + 1 <= n) /\ (n + 1) - 2 = n - 1 /\ (n + 1) - 1 = n /\ i + 1 <= n /\ (i + 1) - 1 = i
          BY <1>1, <2>1
        <4> QED  BY <1>1, <4>1 DEF InFront
      <3>2. PICK w : w = Len(params[n])
        OBVIOUS
      <3>3. w = 1 \/ w = 2
        BY <1>1, <3>2 DEF WellFormed
      <3>4. Len(query) = 4 * (n - 1) + 2 * w
        BY <1>1, <3>1, <3>2 DEF QueryPlaces
      <3>5. 4 * (n - 1) + 2 * w >= 4 * i
        BY <1>1, <2>1, <3>3
      <3> QED  BY <3>1, <3>4, <3>5
    <2> QED  BY <1>11, <2>2, <2>7, <2>8
  <1>14. Len(query) >= a + 2 * Len(p) /\ (Len(query) # a + 2 * Len(p) => query[a + 2 * Len(p) + 1] = "&")
    <2>1. a + 2 * Len(p) \in Nat
      BY <1>4
    <2> QED  BY <1>12, <1>13, <2>1
  <1>15. Len(p) = 1 => Len(query) = a + 2
    BY <1>12, <1>13
  <1>16. i = 1 => a = 0 /\ query[1] = "?"
    BY <1>2, <1>6, <1>8 DEF QueryPlaces
  <1> QED  BY <1>2, <1>3, <1>4, <1>8, <1>9, <1>10, <1>14, <1>15, <1>16 DEF PieceAt


\* What the parser should make of a parameter.
EntryOf(p) == [key |-> <<p[1]>>, value |-> IF Len(p) = 2 THEN <<p[2]>> ELSE <<"[EMPYTY-PARAMTER]">>]

\* The parser comes to a parameter at the "?" or behind the "&" in front of it.
IsStart(s, a, first) == s = IF first THEN 1 ELSE a + 2

\* A parameter is read as it is, and the parser moves on behind the next "&".
LEMMA EntryRead ==
    ASSUME NEW query \in Seq(QueryTokens), NEW a, NEW p, NEW first \in BOOLEAN, PieceAt(query, a, p, first),
           NEW s, IsStart(s, a, first)
    PROVE  /\ s \in 1 .. Len(query) /\ EntryAt(query, s) = EntryOf(p)
           /\ AmpAt(query, s) + 1 = a + 2 * Len(p) + 2
  <1>1. PICK L \in Nat, w \in Nat : L = Len(query) /\ w = Len(p) /\ (w = 1 \/ w = 2)
    <2>1. Len(p) = 1 \/ Len(p) = 2
      BY DEF PieceAt
    <2>2. Len(p) \in Nat /\ Len(query) \in Nat
      BY <2>1
    <2> QED  BY <2>1, <2>2
  <1>2. /\ a \in Nat /\ L >= a + 2 * w
        /\ first => a = 0 /\ query[1] = "?"
        /\ query[a + 2] = p[1] /\ p[1] \in Run
        /\ w = 1 => L = a + 2
        /\ w = 2 => query[a + 3] = "=" /\ query[a + 4] = p[2] /\ p[2] \in Run
        /\ L # a + 2 * w => query[a + 2 * w + 1] = "&"
    BY <1>1 DEF PieceAt
  <1>3. \A x \in Run : x # "?" /\ x # "=" /\ x # "&"
    BY DEF Run
  <1>4. KeyAt(query, s) = a + 2 /\ s \in 1 .. L
    <2>1. CASE first
      BY <1>1, <1>2, <2>1 DEF KeyAt, IsStart
    <2>2. CASE ~first
      BY <1>1, <1>2, <1>3, <2>2 DEF KeyAt, IsStart
    <2> QED  BY <2>1, <2>2
  <1>5. a + 2 \in 1 .. L + 1
    BY <1>1, <1>2
  <1>6. PICK eq : eq = Find(query, a + 2, {"="})
    OBVIOUS
  <1>7. eq = a + 3
    <2>1. /\ eq \in a + 2 .. L + 1
          /\ eq <= L => query[eq] \in {"="}
          /\ \A j \in a + 2 .. L : query[j] \in {"="} => eq <= j
      BY <1>1, <1>5, <1>6, FindStops
    <2>2. eq # a + 2
      BY <1>1, <1>2, <1>3, <2>1
    <2>3. w = 2 => eq <= a + 3
      BY <1>2, <2>1
    <2>4. w = 1 => eq <= a + 3
      BY <1>2, <2>1
    <2> QED  BY <1>1, <1>2, <2>1, <2>2, <2>3, <2>4
  <1>8. PICK amp : amp = Find(query, a + 2, {"&"})
    OBVIOUS
  <1>9. amp = a + 2 * w + 1
    <2>1. /\ amp \in a + 2 .. L + 1
          /\ amp <= L => query[amp] \in {"&"}
          /\ \A j \in a + 2 .. L : query[j] \in {"&"} => amp <= j
      BY <1>1, <1>5, <1>8, FindStops
    <2>2. amp # a + 2
      BY <1>1, <1>2, <1>3, <2>1
    <2>3. CASE w = 1
      BY <1>2, <2>1, <2>2, <2>3
    <2>4. CASE w = 2
      <3>1. amp # a + 3
        BY <1>2, <2>1, <2>4
      <3>2. amp # a + 4
        BY <1>2, <1>3, <2>1, <2>4
      <3>3. amp <= a + 5
        <4>1. CASE L = a + 4
          BY <1>2, <2>1, <4>1
        <4>2. CASE L # a + 4
          <5>1. query[a + 5] = "&" /\ a + 5 \in a + 2 .. L
            BY <1>2, <2>4, <4>2
          <5> QED  BY <2>1, <5>1
        <4> QED  BY <4>1, <4>2
      <3> QED  BY <1>2, <2>1, <2>2, <2>4, <3>1, <3>2, <3>3
    <2> QED  BY <1>1, <2>3, <2>4
  <1>10. EqAt(query, s) = a + 3 /\ AmpAt(query, s) = a + 2 * w + 1
    BY <1>4, <1>6, <1>7, <1>8, <1>9 DEF EqAt, AmpAt
  <1>11. SubSeq(query, a + 2, (a + 3) - 1) = <<p[1]>>
    <2>1. a + 2 \in 1 .. Len(query) /\ (a + 3) - 1 = a + 2
      BY <1>1, <1>2
    <2> QED  BY <1>2, <2>1, OneToken
  <1>12. w = 2 => SubSeq(query, (a + 3) + 1, (a + 2 * w + 1) - 1) = <<p[2]>> /\ a + 3 < a + 2 * w + 1
    <2>1. w = 2 => a + 4 \in 1 .. Len(query) /\ (a + 3) + 1 = a + 4 /\ (a + 2 * w + 1) - 1 = a + 4
      BY <1>1, <1>2
    <2> QED  BY <1>2, <2>1, OneToken
  <1>13. w = 1 => ~(a + 3 < a + 2 * w + 1)
    BY <1>2
  <1>14. EntryAt(query, s) = EntryOf(p)
    <2>1. CASE w = 2
      BY <1>1, <1>4, <1>10, <1>11, <1>12, <2>1 DEF EntryAt, EntryOf
    <2>2. CASE w = 1
      <3>1. ~(Len(p) = 2)
        BY <1>1, <2>2
      <3> QED  BY <1>4, <1>10, <1>11, <1>13, <2>2, <3>1, Zenon DEF EntryAt, EntryOf
    <2> QED  BY <1>1, <2>1, <2>2
  <1> QED  BY <1>1, <1>2, <1>4, <1>10, <1>14

\* One more element in front.
LEMMA Prepend ==
    ASSUME NEW S, NEW n \in Nat, NEW e \in [1 .. n -> S], NEW i \in 1 .. n
    PROVE  <<e[i]>> \o [j \in 1 .. n - i |-> e[i + j]] = [j \in 1 .. n + 1 - i |-> e[i + j - 1]]
  <1>1. PICK a : a = <<e[i]>>
    OBVIOUS
  <1>2. PICK b : b = [j \in 1 .. n - i |-> e[i + j]]
    OBVIOUS
  <1>3. a \in Seq(S) /\ Len(a) = 1 /\ a[1] = e[i]
    BY <1>1
  <1>4. b \in Seq(S) /\ Len(b) = n - i
    <2>1. n - i \in Nat /\ \A j \in 1 .. n - i : e[i + j] \in S
      OBVIOUS
    <2> QED  BY <1>2, <2>1
  <1>5. PICK c : c = [j \in 1 .. n + 1 - i |-> e[i + j - 1]]
    OBVIOUS
  <1>6. c \in Seq(S) /\ Len(c) = n + 1 - i
    <2>1. n + 1 - i \in Nat /\ \A j \in 1 .. n + 1 - i : e[i + j - 1] \in S
      OBVIOUS
    <2> QED  BY <1>5, <2>1
  <1>7. a \o b \in Seq(S) /\ Len(a \o b) = 1 + (n - i) /\ (a \o b)[1] = a[1] /\ \A j \in 1 .. n - i : (a \o b)[1 + j] = b[j]
    <2>1. 1 \in 1 .. Len(a)
      BY <1>3
    <2>2. a \in Seq(S) /\ b \in Seq(S)
      BY <1>3, <1>4
    <2>3. /\ a \o b \in Seq(S) /\ Len(a \o b) = Len(a) + Len(b)
          /\ \A j \in 1 .. Len(a) : (a \o b)[j] = a[j]
          /\ \A j \in 1 .. Len(b) : (a \o b)[Len(a) + j] = b[j]
      BY <2>2, TwoParts, SMTT(60)
    <2> QED  BY <1>3, <1>4, <2>1, <2>3
  <1>8. ASSUME NEW j \in 1 .. n + 1 - i PROVE (a \o b)[j] = c[j]
    <2>1. CASE j = 1
      BY <1>3, <1>5, <1>7, <2>1
    <2>2. CASE j # 1
      <3>1. j - 1 \in 1 .. n - i /\ 1 + (j - 1) = j /\ i + (j - 1) = i + j - 1
        BY <2>2
      <3> QED  BY <1>2, <1>5, <1>7, <3>1
    <2> QED  BY <2>1, <2>2
  <1>9. a \o b = c
    <2>1. Len(a \o b) = Len(c) /\ \A j \in 1 .. Len(a \o b) : (a \o b)[j] = c[j]
      BY <1>6, <1>7, <1>8
    <2> QED  BY <1>6, <1>7, <2>1, SeqEqual
  <1> QED  BY <1>1, <1>2, <1>5, <1>9


\* asyncParserQueryUri finds the parameters one after the other, if only the last one is
\* without a value.
LEMMA ParametersRead ==
    ASSUME NEW params, WellFormed(params), AllHaveValues(params)
    PROVE  Parameters(QueryText(params)) = [j \in 1 .. Len(params) |-> EntryOf(params[j])]
  <1>1. PICK query : query = QueryText(params)
    OBVIOUS
  <1>2. PICK n \in Nat : n = Len(params)
    BY DEF WellFormed
  <1>3. query \in Seq(QueryTokens)
    BY <1>1, QueryShape
  <1>4. PICK f : Lists(f, query) /\ Parameters(query) = f[1]
    BY <1>3, ParametersAre
  <1>5. PICK L \in Nat : L = Len(query)
    BY <1>3
  <1>6. \A i \in 1 .. L + 2 : f[i] = Body(f, query, i)
    BY <1>4, <1>5 DEF Lists
  <1>7. CASE params = <<>>
    <2>1. L = 0 /\ n = 0
      <3>1. query = <<>>
        BY <1>1, <1>7, QueryShape
      <3> QED  BY <1>2, <1>5, <1>7, <3>1
    <2>2. f[1] = <<>>
      BY <1>5, <1>6, <2>1 DEF Body, Ends
    <2>3. [j \in 1 .. n |-> EntryOf(params[j])] = <<>>
      BY <2>1
    <2> QED  BY <1>1, <1>2, <1>4, <2>2, <2>3
  <1>8. CASE params # <<>>
    <2>1. n >= 1 /\ QueryPlaces(params, query)
      BY <1>1, <1>2, <1>8, QueryIsPlaced DEF WellFormed
    <2>2. PICK start : start = [i \in 1 .. n + 1 |-> IF i = 1 THEN 1 ELSE InFront(params, i) + 2]
      OBVIOUS
    <2>3. ASSUME NEW i \in 1 .. n
          PROVE  /\ start[i] \in 1 .. L /\ EntryAt(query, start[i]) = EntryOf(params[i])
                 /\ AmpAt(query, start[i]) + 1 = start[i + 1]
      <3>1. PieceAt(query, InFront(params, i), params[i], i = 1)
        BY <1>2, <1>8, <2>1, PieceIsAt
      <3>2. IsStart(start[i], InFront(params, i), i = 1)
        BY <2>2 DEF IsStart
      <3>3. (i = 1) \in BOOLEAN
        OBVIOUS
      <3>4. /\ start[i] \in 1 .. L /\ EntryAt(query, start[i]) = EntryOf(params[i])
            /\ AmpAt(query, start[i]) + 1 = InFront(params, i) + 2 * Len(params[i]) + 2
        <4>1. PICK a, p : a = InFront(params, i) /\ p = params[i]
          OBVIOUS
        <4>2. PICK first \in BOOLEAN : first = (i = 1)
          BY <3>3
        <4>3. PICK s : s = start[i]
          OBVIOUS
        <4>4. PieceAt(query, a, p, first) /\ IsStart(s, a, first)
          BY <3>1, <3>2, <4>1, <4>2, <4>3
        <4>5. s \in 1 .. Len(query) /\ EntryAt(query, s) = EntryOf(p) /\ AmpAt(query, s) + 1 = a + 2 * Len(p) + 2
          BY <1>3, <4>4, EntryRead
        <4> QED  BY <1>5, <4>1, <4>3, <4>5
      <3>5. InFront(params, i + 1) = InFront(params, i) + 2 * Len(params[i])
        BY <1>2, <2>1 DEF QueryPlaces
      <3>6. i + 1 \in 1 .. n + 1 /\ i + 1 # 1
        OBVIOUS
      <3>7. start[i + 1] = InFront(params, i + 1) + 2
        BY <2>2, <3>6
      <3> QED  BY <3>4, <3>5, <3>7
    <2>4. start[n + 1] = L + 2
      <3>1. n + 1 \in 1 .. n + 1 /\ n + 1 # 1
        BY <2>1
      <3>2. L = InFront(params, n + 1)
        BY <1>2, <1>5, <2>1 DEF QueryPlaces
      <3> QED  BY <2>2, <3>1, <3>2
    <2>5. PICK e : e = [j \in 1 .. n |-> EntryOf(params[j])]
      OBVIOUS
    <2>6. PICK S : e \in [1 .. n -> S]
      <3>1. e \in [1 .. n -> {EntryOf(params[j]) : j \in 1 .. n}]
        BY <2>5
      <3> QED  BY <3>1
    <2> DEFINE Remaining(i) == [j \in 1 .. n + 1 - i |-> e[i + j - 1]]
               T == {d \in Nat : \A i \in 1 .. n + 1 : i = n + 1 - d => f[start[i]] = Remaining(i)}
    <2>7. 0 \in T
      <3> SUFFICES ASSUME NEW i \in 1 .. n + 1, i = n + 1 - 0 PROVE f[start[i]] = Remaining(i)
        OBVIOUS
      <3>1. i = n + 1 /\ start[i] = L + 2 /\ n + 1 - i = 0
        BY <2>4
      <3>2. L + 2 \in 1 .. L + 2 /\ Ends(query, L + 2)
        BY <1>5 DEF Ends
      <3>3. f[start[i]] = <<>>
        BY <1>6, <3>1, <3>2 DEF Body
      <3>4. Remaining(i) = <<>>
        BY <3>1
      <3> QED  BY <3>3, <3>4
    <2>8. ASSUME NEW d \in Nat, d \in T PROVE d + 1 \in T
      <3> SUFFICES ASSUME NEW i \in 1 .. n + 1, i = n + 1 - (d + 1) PROVE f[start[i]] = Remaining(i)
        OBVIOUS
      <3>1. i \in 1 .. n /\ i + 1 \in 1 .. n + 1 /\ i + 1 = n + 1 - d
        OBVIOUS
      <3>2. f[start[i + 1]] = Remaining(i + 1)
        BY <2>8, <3>1
      <3>3. Remaining(i + 1) = [j \in 1 .. n - i |-> e[i + j]]
        <4>1. n + 1 - (i + 1) = n - i /\ \A j \in 1 .. n - i : (i + 1) + j - 1 = i + j
          BY <3>1
        <4> QED  BY <4>1
      <3>4. start[i] \in 1 .. L + 2 /\ ~Ends(query, start[i])
        BY <1>5, <2>3, <3>1 DEF Ends
      <3>5. f[start[i]] = <<EntryAt(query, start[i])>> \o f[AmpAt(query, start[i]) + 1]
        BY <1>6, <3>4 DEF Body
      <3>6. f[start[i]] = <<e[i]>> \o [j \in 1 .. n - i |-> e[i + j]]
        <4>1. EntryAt(query, start[i]) = e[i]
          BY <2>3, <2>5, <3>1
        <4>2. f[AmpAt(query, start[i]) + 1] = Remaining(i + 1)
          BY <2>3, <3>1, <3>2
        <4> HIDE DEF Remaining
        <4> QED  BY <3>3, <3>5, <4>1, <4>2
      <3> QED  BY <2>6, <3>1, <3>6, Prepend
    <2>9. Nat \subseteq T
      <3> HIDE DEF T
      <3> QED  BY <2>7, <2>8, Induction
    <2>10. f[start[1]] = Remaining(1)
      <3>1. n \in T
        <4> HIDE DEF T
        <4> QED  BY <2>9
      <3>2. 1 \in 1 .. n + 1 /\ 1 = n + 1 - n
        BY <2>1
      <3> HIDE DEF Remaining
      <3> QED  BY <3>1, <3>2
    <2>11. Remaining(1) = e
      <3>1. n + 1 - 1 = n /\ \A j \in 1 .. n : 1 + j - 1 = j
        OBVIOUS
      <3>2. Remaining(1) = [j \in 1 .. n |-> e[j]]
        BY <3>1
      <3> QED  BY <2>5, <3>2
    <2>12. start[1] = 1
      BY <2>1, <2>2
    <2> HIDE DEF Remaining
    <2> QED  BY <1>1, <1>2, <1>4, <2>5, <2>10, <2>11, <2>12
  <1> QED  BY <1>7, <1>8

\* Positions have a greatest one.
LEMMA GreatestPosition ==
    ASSUME NEW n \in Nat, NEW T \in SUBSET (1 .. n), T # {}
    PROVE  Max(T) \in T /\ \A y \in T : y <= Max(T)
  <1> DEFINE U == {n + 1 - x : x \in T}
  <1>1. U \in SUBSET (1 .. n) /\ U # {}
    OBVIOUS
  <1>2. Min(U) \in U /\ \A y \in U : Min(U) <= y
    <2> HIDE DEF U
    <2> QED  BY <1>1, LeastPosition
  <1>3. PICK x \in T : Min(U) = n + 1 - x
    BY <1>2
  <1>4. ASSUME NEW y \in T PROVE y <= x
    <2>1. n + 1 - y \in U
      OBVIOUS
    <2>2. n + 1 - x <= n + 1 - y
      <3> HIDE DEF U
      <3> QED  BY <1>2, <1>3, <2>1
    <2>3. x \in Int /\ y \in Int
      OBVIOUS
    <2> QED  BY <2>2, <2>3
  <1>5. \E z \in T : \A y \in T : z >= y
    BY <1>4
  <1> QED  BY <1>5 DEF Max

\* The value of a parameter.
ValueOf(p) == IF Len(p) = 2 THEN <<p[2]>> ELSE <<"[EMPYTY-PARAMTER]">>

\* The map of the parameters is what they mean.
LEMMA MapIsMeaning ==
    ASSUME NEW params, WellFormed(params), AllHaveValues(params)
    PROVE  ParameterMap(QueryText(params)) = Meaning(params)
  <1>1. PICK n \in Nat : n = Len(params) /\ DOMAIN params = 1 .. n
    BY DEF WellFormed
  <1>2. PICK list : list = [j \in 1 .. n |-> EntryOf(params[j])]
    OBVIOUS
  <1>3. Parameters(QueryText(params)) = list
    BY <1>1, <1>2, ParametersRead
  <1>4. \A j \in 1 .. n : list[j].key = <<params[j][1]>> /\ DOMAIN list = 1 .. n
    BY <1>2 DEF EntryOf
  <1> DEFINE Keys == {<<params[j][1]>> : j \in 1 .. n}
             With(key) == {j \in 1 .. n : params[j][1] = key[1]}
  <1>5. {list[i].key : i \in DOMAIN list} = Keys
    BY <1>2, <1>4
  <1>6. {<<p[1]>> : p \in Range(params)} = Keys
    BY <1>1 DEF Range
  <1>7. ASSUME NEW key \in Keys
        PROVE  /\ {i \in DOMAIN list : list[i].key = key} = With(key)
               /\ {i \in DOMAIN params : params[i][1] = key[1]} = With(key)
               /\ Max(With(key)) \in 1 .. n
    <2>1. PICK j \in 1 .. n : key = <<params[j][1]>>
      OBVIOUS
    <2>2. \A i \in 1 .. n : (list[i].key = key) = (params[i][1] = key[1])
      BY <1>4, <2>1
    <2>3. DOMAIN list = 1 .. n
      BY <1>2
    <2>4. {i \in DOMAIN list : list[i].key = key} = With(key)
      BY <2>2, <2>3
    <2>5. With(key) \in SUBSET (1 .. n) /\ j \in With(key)
      BY <2>1
    <2>6. Max(With(key)) \in With(key)
      <3> HIDE DEF With
      <3> QED  BY <2>5, GreatestPosition
    <2> QED  BY <1>1, <2>4, <2>5, <2>6
  <1>8. ASSUME NEW j \in 1 .. n PROVE list[j].value = IF Len(params[j]) = 2 THEN <<params[j][2]>> ELSE <<"[EMPYTY-PARAMTER]">>
    BY <1>2 DEF EntryOf
  <1>9. PICK values : values = [j \in 1 .. n |-> list[j].value]
    OBVIOUS
  <1>10. ParameterMap(QueryText(params)) = [key \in Keys |-> values[Max(With(key))]]
    <2>1. ParameterMap(QueryText(params)) =
            [key \in {list[i].key : i \in DOMAIN list} |-> list[Max({i \in DOMAIN list : list[i].key = key})].value]
      BY <1>3 DEF ParameterMap
    <2>2. \A key \in Keys : list[Max({i \in DOMAIN list : list[i].key = key})].value = values[Max(With(key))]
      <3> HIDE DEF Keys, With
      <3> QED  BY <1>7, <1>9
    <2> HIDE DEF Keys, With
    <2> QED  BY <1>5, <2>1, <2>2
  <1>11. Meaning(params) = [key \in Keys |-> values[Max(With(key))]]
    <2>1. Meaning(params) =
            [key \in {<<p[1]>> : p \in Range(params)} |->
                ValueOf(params[Max({i \in DOMAIN params : params[i][1] = key[1]})])]
      BY Zenon DEF Meaning, ValueOf
    <2>2. \A key \in Keys : ValueOf(params[Max({i \in DOMAIN params : params[i][1] = key[1]})]) = values[Max(With(key))]
      <3>1. \A j \in 1 .. n : values[j] = ValueOf(params[j])
        BY <1>8, <1>9, Zenon DEF ValueOf
      <3> HIDE DEF Keys, With
      <3> QED  BY <1>7, <3>1
    <2> HIDE DEF Keys, With
    <2> QED  BY <1>6, <2>1, <2>2
  <1> HIDE DEF Keys, With
  <1> QED  BY <1>10, <1>11


\* What asyncParserQueryUri's callback is given of a URL.
QueryAnswer(url) ==
    LET found == ParserQueryUrl(url)
    IN [part \in DOMAIN found \cup {"fullPath"} |->
           IF part = "fullPath" THEN found.basicPath \o found.queryPath ELSE found[part]]

\* asyncParserQueryUri.
LEMMA QueryIsSplit ==
    ASSUME NEW u \in Urls, u.path # <<>>, NEW answer, answer = QueryAnswer(UrlText(u))
    PROVE  /\ SameOrigin(answer, u)
           /\ u.params \o u.fragment # <<>> =>
                /\ answer.basicPath = u.path /\ answer.queryPath = QueryText(u.params)
                /\ answer.fullPath = u.path \o QueryText(u.params)
                /\ AllHaveValues(u.params) => answer.map = Meaning(u.params)
  <1>1. PICK url : url = UrlText(u)
    OBVIOUS
  <1>2. PICK n \in {5, 7} : UrlIs(u, url, n) /\ FrontIs(u, url, n)
    BY <1>1, UrlFound
  <1>3. PICK found : found = ParserQueryUrl(url)
    OBVIOUS
  <1>4. PICK query : query = QueryText(u.params)
    OBVIOUS
  <1>5. PICK path, fragment : path = u.path /\ fragment = u.fragment
    OBVIOUS
  <1>6. query \in Seq(QueryTokens) /\ path \in Seq(STRING) /\ fragment \in Seq(STRING)
    BY <1>4, <1>5, RestParts, QueryShape
  <1>7. PICK k \in Nat, q \in Nat, l \in Nat : k = Len(path) /\ q = Len(query) /\ l = Len(fragment)
    BY <1>6
  <1>8. RestIs(u, url, n, k, q)
    BY <1>2, <1>4, <1>7, <1>5, RestFound
  <1>9. /\ url \in Seq(Tokens) /\ Len(url) = n + k + q + l
        /\ \A i \in 1 .. k : url[n + i] = path[i]
        /\ \A i \in 1 .. q : url[n + k + i] = query[i]
    BY <1>2, <1>4, <1>7, <1>8, <1>5 DEF UrlIs, RestIs
  <1>10. SubSeq(url, n + 1, n + k) = path
    <2>1. n \in Nat /\ n + k <= Len(url)
      BY <1>9
    <2>2. url \in Seq(Tokens) /\ path \in Seq(STRING) /\ k = Len(path) /\ \A i \in 1 .. k : url[n + i] = path[i]
      BY <1>6, <1>7, <1>9
    <2> QED  BY <2>1, <2>2, CutOut
  <1>11. SubSeq(url, n + k + 1, n + k + q) = query
    <2>1. n + k \in Nat /\ (n + k) + q <= Len(url)
      BY <1>9
    <2>2. url \in Seq(Tokens) /\ query \in Seq(QueryTokens) /\ q = Len(query)
          /\ \A i \in 1 .. q : url[(n + k) + i] = query[i]
      BY <1>6, <1>7, <1>9
    <2>3. SubSeq(url, (n + k) + 1, (n + k) + q) = query
      BY <2>1, <2>2, CutOut
    <2> QED  BY <2>3
  <1>12. Find(url, n + 1, {"?", "#"}) = n + k + 1 /\ Find(url, n + k + 1, {"#"}) = n + k + q + 1
    <2>1. UrlIs(u, url, n) /\ n \in {5, 7} /\ k \in Nat /\ q \in Nat
      BY <1>2
    <2>2. QueryEnds(url, n, k, q)
      BY <1>8, <2>1, QueryFound
    <2> QED  BY <2>2 DEF QueryEnds
  <1>13. UrlFront(url).path = n + 1 /\ (n + k + 1) - 1 = n + k /\ (n + k + q + 1) - 1 = n + k + q
    BY <1>2 DEF FrontIs
  <1>14. /\ found.queryPath = query /\ found.map = ParameterMap(query)
         /\ ~Ends(url, n + k + 1) => found.basicPath = path
    BY <1>3, <1>10, <1>11, <1>12, <1>13 DEF ParserQueryUrl
  <1>15. found.tls = UrlFront(url).tls /\ found.host = UrlFront(url).host /\ found.port = UrlFront(url).port
    BY <1>3 DEF ParserQueryUrl
  <1>16. DOMAIN found = {"end", "tls", "host", "port", "basicPath", "queryPath", "map"}
    BY <1>3 DEF ParserQueryUrl
  <1>17. answer = [part \in DOMAIN found \cup {"fullPath"} |->
                     IF part = "fullPath" THEN found.basicPath \o found.queryPath ELSE found[part]]
    BY <1>1, <1>3, Zenon DEF QueryAnswer
  <1>18. /\ answer.tls = found.tls /\ answer.host = found.host /\ answer.port = found.port
         /\ answer.basicPath = found.basicPath /\ answer.queryPath = found.queryPath /\ answer.map = found.map
         /\ answer.fullPath = found.basicPath \o found.queryPath
    BY <1>16, <1>17
  <1>19. SameOrigin(answer, u)
    <2>1. /\ answer.tls = (u.scheme = "https") /\ answer.host = <<u.host>>
          /\ HasPort(u) => answer.port = Numbers[u.port]
      BY <1>2, <1>15, <1>18 DEF FrontIs
    <2> QED  BY <2>1, Zenon DEF SameOrigin, HasPort
  <1>20. ASSUME u.params \o u.fragment # <<>> PROVE ~Ends(url, n + k + 1)
    <2>1. ASSUME q = 0, l = 0 PROVE FALSE
      <3>1. fragment = <<>>
        BY <1>6, <1>7, <2>1, EmptySeq
      <3>2. u.params = <<>>
        <4>1. u.params # <<>> => Len(query) >= 2
          BY <1>4, RestParts, QueryShape
        <4> QED  BY <1>7, <2>1, <4>1
      <3>3. u.params \o u.fragment = <<>>
        BY <1>5, <3>1, <3>2
      <3> QED  BY <1>20, <3>3
    <2> QED  BY <1>9, <2>1 DEF Ends
  <1>21. AllHaveValues(u.params) => answer.map = Meaning(u.params)
    BY <1>4, <1>14, <1>18, RestParts, MapIsMeaning
  <1> QED  BY <1>4, <1>14, <1>18, <1>19, <1>20, <1>21, <1>5


-----------------------------------------------------------------------------
(* What a server reads of a text of syncCreateHttpv1template.              *)

\* The end of a line by itself, and what a server makes of the i-th line behind the head.
CrLf == <<"\r", "\n">>
Raw(text, end, i) == IF text[end + i] = EmptyLine THEN CrLf ELSE text[end + i]

\* The numbers up to m that a line gives for the length of the body.
Lengths(line, m) == {n \in 0 .. m : line = Header("Content-Length", ToString(n))}

Largest(lengths) == Max({0} \cup lengths)
AllLengths(head, m) == {Lengths(line, m) : line \in Range(head)}

\* A server reads the head, and of the rest what the largest of its lengths says.
Reads(text, head, rest) ==
    /\ ServerReads(text).head = Range(head)
    /\ ServerReads(text).lines = Len(head)
    /\ ServerReads(text).body = SubSeq(rest, 1, Largest(UNION AllLengths(head, Len(rest))))

\* The body as a sequence of lines.
Bytes(body) == [i \in DOMAIN body |-> Byte(body[i])]

\* The place of the first e.
FirstOf(s, e) == LET I == {i \in 1 .. Len(s) : s[i] = e} IN IF I # {} THEN Min(I) ELSE 0

\* The first empty line ends the head.
LEMMA EndFound ==
    ASSUME NEW S, NEW head \in Seq(S), NEW rest \in Seq(S), NEW e \in S,
           \A i \in 1 .. Len(head) : head[i] # e, rest # <<>>, rest[1] = e
    PROVE  FirstOf(head \o rest, e) = Len(head) + 1
  <1>1. PICK h \in Nat, r \in Nat : h = Len(head) /\ r = Len(rest) /\ r >= 1
    BY EmptySeq
  <1>2. PICK text : text = head \o rest
    OBVIOUS
  <1>3. /\ text \in Seq(S) /\ Len(text) = h + r
        /\ \A i \in 1 .. h : text[i] = head[i]
        /\ \A i \in 1 .. r : text[h + i] = rest[i]
    BY <1>1, <1>2, TwoParts
  <1> DEFINE I == {i \in 1 .. Len(text) : text[i] = e}
  <1>4. h + 1 \in I /\ I \in SUBSET (1 .. Len(text)) /\ Len(text) \in Nat
    <2>1. 1 \in 1 .. r /\ h + 1 \in 1 .. Len(text)
      BY <1>1, <1>3
    <2> QED  BY <1>3, <2>1
  <1>5. \A i \in I : i >= h + 1
    <2> SUFFICES ASSUME NEW i \in I, i <= h PROVE FALSE
      BY <1>1, <1>4
    <2>1. i \in 1 .. h /\ text[i] = e
      BY <1>1
    <2> QED  BY <1>1, <1>3, <2>1
  <1>6. Min(I) = h + 1
    <2>1. Min(I) \in I /\ \A y \in I : Min(I) <= y
      <3> HIDE DEF I
      <3> QED  BY <1>4, LeastPosition
    <2>2. Min(I) <= h + 1 /\ Min(I) >= h + 1 /\ Min(I) \in 1 .. Len(text)
      <3> HIDE DEF I
      <3> QED  BY <1>4, <1>5, <2>1
    <2> HIDE DEF I
    <2> QED  BY <1>1, <1>4, <2>2
  <1>7. I # {}
    BY <1>4
  <1>8. FirstOf(text, e) = IF I # {} THEN Min(I) ELSE 0
    BY DEF FirstOf
  <1> HIDE DEF I
  <1> QED  BY <1>1, <1>2, <1>6, <1>7, <1>8

\* The lines of the body and the empty line too many in front of them are read as bytes.
ByteLines(seqs, body, a, b) ==
    seqs = [i \in 1 .. Len(body) + 1 |-> IF i = 1 THEN <<a, b>> ELSE <<body[i - 1]>>]

LEMMA BytesFlat ==
    ASSUME NEW S, NEW body \in Seq(S), NEW a \in S, NEW b \in S, NEW seqs, ByteLines(seqs, body, a, b)
    PROVE  FlattenSeq(seqs) = <<a, b>> \o body
  <1>1. PICK m \in Nat : m = Len(body)
    OBVIOUS
  <1>2. PICK crlf : crlf = <<a, b>>
    OBVIOUS
  <1>3. crlf \in Seq(S) /\ Len(crlf) = 2
    BY <1>2, FrontTokens
  <1>4. \A i \in 1 .. m : <<body[i]>> \in Seq(S) /\ Len(<<body[i]>>) = 1 /\ <<body[i]>>[1] = body[i]
    BY <1>1
  <1>5. seqs = [i \in 1 .. m + 1 |-> IF i = 1 THEN crlf ELSE <<body[i - 1]>>]
    BY <1>1, <1>2 DEF ByteLines
  <1>6. /\ seqs \in Seq(Seq(S)) /\ Len(seqs) = m + 1
        /\ seqs[1] = crlf /\ \A i \in 1 .. m : seqs[i + 1] = <<body[i]>>
    <2>1. ASSUME NEW i \in 1 .. m + 1 PROVE (IF i = 1 THEN crlf ELSE <<body[i - 1]>>) \in Seq(S)
      <3>1. i # 1 => i - 1 \in 1 .. m
        OBVIOUS
      <3> QED  BY <1>3, <1>4, <3>1
    <2>2. ASSUME NEW i \in 1 .. m PROVE seqs[i + 1] = <<body[i]>>
      <3>1. i + 1 \in 1 .. m + 1 /\ i + 1 # 1 /\ (i + 1) - 1 = i
        OBVIOUS
      <3> QED  BY <1>5, <3>1
    <2>3. seqs \in [1 .. m + 1 -> Seq(S)]
      BY <1>5, <2>1
    <2>4. seqs \in Seq(Seq(S)) /\ Len(seqs) = m + 1
      BY <2>3
    <2> QED  BY <1>5, <2>2, <2>4
  <1>7. PICK at : at = [i \in 1 .. m + 2 |-> IF i = 1 THEN 0 ELSE i]
    OBVIOUS
  <1>8. at \in [1 .. Len(seqs) + 1 -> Nat] /\ at[1] = 0
    BY <1>6, <1>7
  <1>9. ASSUME NEW i \in 1 .. Len(seqs) PROVE at[i + 1] = at[i] + Len(seqs[i])
    <2>1. i + 1 \in 1 .. m + 2 /\ i + 1 # 1 /\ i \in 1 .. m + 2
      BY <1>6
    <2>2. CASE i = 1
      BY <1>3, <1>6, <1>7, <2>1, <2>2
    <2>3. CASE i # 1
      <3>1. i - 1 \in 1 .. m /\ (i - 1) + 1 = i
        BY <1>6, <2>3
      <3>2. Len(seqs[i]) = 1
        BY <1>4, <1>6, <3>1
      <3> QED  BY <1>7, <2>1, <2>3, <3>2
    <2> QED  BY <2>2, <2>3
  <1>10. PICK flat : flat = FlattenSeq(seqs)
    OBVIOUS
  <1>11. /\ flat \in Seq(S) /\ Len(flat) = at[Len(seqs) + 1]
         /\ \A i \in 1 .. Len(seqs) : \A k \in 1 .. Len(seqs[i]) : flat[at[i] + k] = seqs[i][k]
    <2>1. /\ FlattenSeq(seqs) \in Seq(S) /\ Len(FlattenSeq(seqs)) = at[Len(seqs) + 1]
          /\ \A i \in 1 .. Len(seqs) : \A k \in 1 .. Len(seqs[i]) : FlattenSeq(seqs)[at[i] + k] = seqs[i][k]
      BY <1>6, <1>8, <1>9, FlattenPlaces, ZenonT(60)
    <2> QED  BY <1>10, <2>1, Zenon
  <1>12. PICK all : all = crlf \o body
    OBVIOUS
  <1>13. /\ all \in Seq(S) /\ Len(all) = 2 + m
         /\ \A i \in 1 .. 2 : all[i] = crlf[i]
         /\ \A i \in 1 .. m : all[2 + i] = body[i]
    <2>1. /\ all \in Seq(S) /\ Len(all) = Len(crlf) + Len(body)
          /\ \A i \in 1 .. Len(crlf) : all[i] = crlf[i]
          /\ \A i \in 1 .. Len(body) : all[Len(crlf) + i] = body[i]
      <3>1. crlf \in Seq(S) /\ body \in Seq(S)
        BY <1>3
      <3> QED  BY <1>12, <3>1, TwoParts
    <2> QED  BY <1>1, <1>3, <2>1
  <1>14. Len(flat) = 2 + m
    <2>1. m + 2 \in 1 .. m + 2 /\ m + 2 # 1 /\ Len(seqs) + 1 = m + 2
      BY <1>6
    <2> QED  BY <1>7, <1>11, <2>1
  <1>15. ASSUME NEW i \in 1 .. 2 + m PROVE flat[i] = all[i]
    <2>1. CASE i \in 1 .. 2
      <3>1. 1 \in 1 .. Len(seqs) /\ i \in 1 .. Len(seqs[1]) /\ at[1] + i = i
        <4>1. seqs[1] = crlf /\ Len(crlf) = 2 /\ Len(seqs) = m + 1 /\ at[1] = 0
          BY <1>3, <1>6, <1>8
        <4>2. Len(seqs[1]) = 2
          BY <4>1
        <4> QED  BY <2>1, <4>1, <4>2
      <3>2. flat[at[1] + i] = seqs[1][i]
        BY <1>11, <3>1
      <3> QED  BY <1>6, <1>13, <2>1, <3>1, <3>2
    <2>2. CASE i \notin 1 .. 2
      <3>1. PICK j \in 1 .. m : i = 2 + j
        BY <2>2, i - 2 \in 1 .. m
      <3>2. j + 1 \in 1 .. Len(seqs) /\ at[j + 1] = j + 1 /\ (j + 1) + 1 = i
        BY <1>6, <1>7, <3>1
      <3>3. seqs[j + 1] = <<body[j]>> /\ 1 \in 1 .. Len(seqs[j + 1])
        <4>1. seqs[j + 1] = <<body[j]>>
          BY <1>6
        <4>2. Len(seqs[j + 1]) = 1
          BY <1>4, <4>1
        <4> QED  BY <4>1, <4>2
      <3>4. flat[at[j + 1] + 1] = seqs[j + 1][1]
        BY <1>11, <3>2, <3>3
      <3> QED  BY <1>4, <1>13, <3>1, <3>2, <3>3, <3>4
    <2> QED  BY <2>1, <2>2
  <1>16. flat = all
    <2>1. flat \in Seq(S) /\ all \in Seq(S) /\ Len(flat) = Len(all) /\ \A i \in 1 .. Len(flat) : flat[i] = all[i]
      BY <1>11, <1>13, <1>14, <1>15
    <2> QED  BY <2>1, SeqEqual
  <1> QED  BY <1>2, <1>10, <1>12, <1>16


\* A server's reading in terms of the place of the empty line.
ReadAs(text, end, bytes) ==
    LET n == Max({0} \cup UNION {Lengths(text[i], Len(bytes)) : i \in 1 .. end - 1})
    IN ServerReads(text) = [head |-> Range(SubSeq(text, 1, end - 1)), lines |-> end - 1, body |-> SubSeq(bytes, 1, n)]

Raws(text, end) == FlattenSeq([i \in 1 .. Len(text) - end |-> Raw(text, end, i)])

LEMMA ServerReadsAs ==
    ASSUME NEW text
    PROVE  ReadAs(text, FirstOf(text, EmptyLine), Raws(text, FirstOf(text, EmptyLine)))
  BY Zenon DEF Raws, ServerReads, ReadAs, FirstOf, Raw, CrLf, Lengths, SelectInSeq

\* A text is the lines of the head, the two empty lines, and the body.
TextIs(text, head, body) == text = head \o (<<EmptyLine, EmptyLine>> \o Bytes(body))

\* The set holds every line of a body.
HasBytes(S) == EmptyLine \in S /\ \A b \in STRING : <<b>> \in S

LEMMA ServerFinds ==
    ASSUME NEW S, NEW head \in Seq(S), NEW body \in Seq(STRING), HasBytes(S),
           \A i \in 1 .. Len(head) : head[i] # EmptyLine, NEW text, TextIs(text, head, body)
    PROVE  Reads(text, head, CrLf \o body)
  <1>1. PICK h \in Nat, m \in Nat : h = Len(head) /\ m = Len(body)
    OBVIOUS
  <1>2. PICK lines : lines = Bytes(body)
    OBVIOUS
  <1>3. lines = [i \in 1 .. m |-> <<body[i]>>]
    BY <1>1, <1>2 DEF Bytes, Byte
  <1>4. lines \in Seq(S) /\ Len(lines) = m
    <2>1. ASSUME NEW i \in 1 .. m PROVE <<body[i]>> \in S
      <3>1. body[i] \in STRING
        BY <1>1
      <3> QED  BY <3>1 DEF HasBytes
    <2> QED  BY <1>3, <2>1
  <1>5. PICK two : two = <<EmptyLine, EmptyLine>>
    OBVIOUS
  <1>6. two \in Seq(S) /\ Len(two) = 2 /\ two[1] = EmptyLine /\ two[2] = EmptyLine
    BY <1>5, FrontTokens DEF HasBytes
  <1>7. PICK rest : rest = two \o lines
    OBVIOUS
  <1>8. /\ rest \in Seq(S) /\ Len(rest) = 2 + m
        /\ rest[1] = EmptyLine /\ rest[2] = EmptyLine
        /\ \A i \in 1 .. m : rest[2 + i] = lines[i]
    <2>1. /\ rest \in Seq(S) /\ Len(rest) = Len(two) + Len(lines)
          /\ \A i \in 1 .. Len(two) : rest[i] = two[i]
          /\ \A i \in 1 .. Len(lines) : rest[Len(two) + i] = lines[i]
      <3>1. two \in Seq(S) /\ lines \in Seq(S)
        BY <1>4, <1>6
      <3> QED  BY <1>7, <3>1, TwoParts
    <2>2. 1 \in 1 .. Len(two) /\ 2 \in 1 .. Len(two)
      BY <1>6
    <2> QED  BY <1>4, <1>6, <2>1, <2>2
  <1>9. text = head \o rest
    BY <1>2, <1>5, <1>7 DEF TextIs
  <1>10. /\ text \in Seq(S) /\ Len(text) = h + (2 + m)
         /\ \A i \in 1 .. h : text[i] = head[i]
         /\ \A i \in 1 .. 2 + m : text[h + i] = rest[i]
    <2>1. /\ text \in Seq(S) /\ Len(text) = Len(head) + Len(rest)
          /\ \A i \in 1 .. Len(head) : text[i] = head[i]
          /\ \A i \in 1 .. Len(rest) : text[Len(head) + i] = rest[i]
      <3>1. head \in Seq(S) /\ rest \in Seq(S)
        BY <1>8
      <3> QED  BY <1>9, <3>1, TwoParts
    <2> QED  BY <1>1, <1>8, <2>1
  <1>11. PICK end : end = FirstOf(text, EmptyLine)
    OBVIOUS
  <1>12. end = h + 1
    <2>1. rest \in Seq(S) /\ rest # <<>> /\ rest[1] = EmptyLine /\ EmptyLine \in S
      BY <1>8 DEF HasBytes
    <2>2. FirstOf(head \o rest, EmptyLine) = Len(head) + 1
      BY <2>1, EndFound
    <2> QED  BY <1>1, <1>9, <1>11, <2>2
  <1>13. PICK seqs : seqs = [i \in 1 .. Len(text) - end |-> Raw(text, end, i)]
    OBVIOUS
  <1>14. PICK a, b : a = "\r" /\ b = "\n"
    OBVIOUS
  <1>15. ByteLines(seqs, body, a, b)
    <2>1. Len(text) - end = m + 1
      BY <1>10, <1>12
    <2>2. ASSUME NEW i \in 1 .. m + 1 PROVE Raw(text, end, i) = IF i = 1 THEN <<a, b>> ELSE <<body[i - 1]>>
      <3>1. 1 + i \in 1 .. 2 + m /\ end + i = h + (1 + i)
        BY <1>12
      <3>2. text[end + i] = rest[1 + i]
        BY <1>10, <3>1
      <3>3. CASE i = 1
        <4>1. text[end + i] = EmptyLine
          BY <1>8, <3>2, <3>3
        <4> QED  BY <1>14, <3>3, <4>1 DEF Raw, CrLf
      <3>4. CASE i # 1
        <4>1. i - 1 \in 1 .. m /\ 2 + (i - 1) = 1 + i
          BY <3>4
        <4>2. text[end + i] = <<body[i - 1]>>
          BY <1>3, <1>8, <3>2, <4>1
        <4>3. <<body[i - 1]>> # EmptyLine
          BY DEF EmptyLine
        <4> QED  BY <3>4, <4>2, <4>3 DEF Raw
      <3> QED  BY <3>3, <3>4
    <2>3. seqs = [i \in 1 .. m + 1 |-> IF i = 1 THEN <<a, b>> ELSE <<body[i - 1]>>]
      BY <1>13, <2>1, <2>2
    <2> QED  BY <1>1, <2>3 DEF ByteLines
  <1>16. FlattenSeq(seqs) = <<a, b>> \o body
    <2>1. PICK Bs : Bs = STRING \cup {a, b}
      OBVIOUS
    <2>2. a \in Bs /\ b \in Bs /\ STRING \subseteq Bs
      BY <2>1
    <2>3. body \in Seq(Bs)
      BY <2>2, WiderSeq
    <2> QED  BY <1>15, <2>2, <2>3, BytesFlat
  <1>17. PICK bytes : bytes = CrLf \o body
    OBVIOUS
  <1>18. FlattenSeq(seqs) = bytes
    BY <1>14, <1>16, <1>17, Zenon DEF CrLf
  <1>19. ReadAs(text, end, bytes)
    <2>1. Raws(text, end) = bytes
      BY <1>13, <1>18 DEF Raws
    <2> QED  BY <1>11, <2>1, ServerReadsAs
  <1>20. end - 1 = h /\ SubSeq(text, 1, h) = head
    <2>1. 0 \in Nat /\ 0 + h <= Len(text) /\ \A i \in 1 .. h : text[0 + i] = head[i]
      BY <1>10
    <2>2. SubSeq(text, 0 + 1, 0 + h) = head
      BY <1>1, <1>10, <2>1, CutOut
    <2> QED  BY <1>12, <2>2
  <1>21. {Lengths(text[i], Len(bytes)) : i \in 1 .. h} = AllLengths(head, Len(bytes))
    <2>1. Range(head) = {head[i] : i \in 1 .. h}
      BY <1>1, RangeEquality
    <2> QED  BY <1>10, <2>1 DEF AllLengths
  <1>22. PICK found : found = ServerReads(text)
    OBVIOUS
  <1>23. PICK read : read = SubSeq(bytes, 1, Max({0} \cup UNION AllLengths(head, Len(bytes))))
    OBVIOUS
  <1>24. found = [head |-> Range(head), lines |-> h, body |-> read]
    BY <1>19, <1>20, <1>21, <1>22, <1>23, Zenon DEF ReadAs
  <1>25. found.head = Range(head) /\ found.lines = h /\ found.body = read
    BY <1>24
  <1>26. Reads(text, head, bytes)
    <2>1. Max({0} \cup UNION AllLengths(head, Len(bytes))) = Largest(UNION AllLengths(head, Len(bytes)))
      BY DEF Largest
    <2>2. read = SubSeq(bytes, 1, Largest(UNION AllLengths(head, Len(bytes))))
      BY <1>23, <2>1
    <2> QED  BY <1>1, <1>22, <1>25, <2>2, Zenon DEF Reads
  <1> QED  BY <1>17, <1>26


\* A header has a name and a value; where the first one without is, or 0.
Whole(h) == h[1] # "" /\ h[2] # ""
UntilOf(order) == LET I == {i \in 1 .. Len(order) : ~Whole(order[i])} IN IF I # {} THEN Min(I) ELSE 0

\* A text: its first two lines, headers, lines of the program's own, two empty lines, a body.
FirstLines(method, path, host) == <<RequestLine(method, path), Header("Host", host)>>
TextOf(first, mid, last, body) ==
    first \o (mid \o ((last \o <<EmptyLine, EmptyLine>>) \o Bytes(body)))

Close == <<Header("Connection", "close")>>
LengthAndClose(body) == <<Header("Content-Length", ToString(Len(body))), Header("Connection", "close")>>

\* The texts that syncCreateHttpv1template may return.
TextWith(text, first, method, body, order) ==
    text = first \o (IF UntilOf(order) = 0 THEN order \o Rest(method, body)
                     ELSE SubSeq(order, 1, UntilOf(order) - 1) \o Closing)

LEMMA TextsAre ==
    ASSUME NEW host, NEW path, NEW body, NEW method, NEW headers,
           NEW text \in CreateHttpv1Template(host, path, body, method, headers)
    PROVE  \E order \in SetToSeqs(headers) : TextWith(text, FirstLines(method, path, host), method, body, order)
  BY Zenon DEF CreateHttpv1Template, SelectInSeq, UntilOf, Whole, FirstLines, TextWith

\* Nothing is lost of the headers if all of them have a name and a value.
LEMMA UntilIs ==
    ASSUME NEW headers, NEW order \in Seq(headers)
    PROVE  /\ UntilOf(order) \in 0 .. Len(order)
           /\ (\A h \in headers : Whole(h)) => UntilOf(order) = 0
           /\ (\A i \in 1 .. Len(order) : Whole(order[i])) => UntilOf(order) = 0
           /\ UntilOf(order) = 0 => \A i \in 1 .. Len(order) : Whole(order[i])
  <1> DEFINE I == {i \in 1 .. Len(order) : ~Whole(order[i])}
  <1>1. Len(order) \in Nat /\ I \in SUBSET (1 .. Len(order)) /\ \A i \in 1 .. Len(order) : order[i] \in headers
    OBVIOUS
  <1>2. UntilOf(order) = IF I # {} THEN Min(I) ELSE 0
    BY DEF UntilOf
  <1>3. I # {} => Min(I) \in I
    <2> HIDE DEF I
    <2> QED  BY <1>1, LeastPosition
  <1>4. I # {} => UntilOf(order) \in 1 .. Len(order)
    BY <1>2, <1>3
  <1>5. I = {} <=> \A i \in 1 .. Len(order) : Whole(order[i])
    OBVIOUS
  <1>6. UntilOf(order) \in 0 .. Len(order) /\ (UntilOf(order) = 0 <=> I = {})
    <2>1. CASE I = {}
      <3>1. UntilOf(order) = 0
        BY <1>2, <2>1
      <3> QED  BY <1>1, <2>1, <3>1
    <2>2. CASE I # {}
      <3> HIDE DEF I
      <3>1. UntilOf(order) \in 1 .. Len(order)
        BY <1>4, <2>2
      <3>2. UntilOf(order) # 0 /\ UntilOf(order) \in 0 .. Len(order)
        BY <1>1, <3>1
      <3> QED  BY <2>2, <3>2, Zenon
    <2> QED  BY <2>1, <2>2
  <1>7. (\A h \in headers : Whole(h)) => \A i \in 1 .. Len(order) : Whole(order[i])
    BY <1>1
  <1> HIDE DEF I
  <1> QED  BY <1>5, <1>6, <1>7

\* An order of a set of headers has each of them once.
LEMMA OrderHasAll ==
    ASSUME NEW headers, IsFiniteSet(headers), NEW order \in SetToSeqs(headers)
    PROVE  order \in Seq(headers) /\ Len(order) = Cardinality(headers) /\ Range(order) = headers
  <1>1. PICK n \in Nat : n = Cardinality(headers)
    BY FS_CardinalityType
  <1>2. order \in [1 .. n -> headers] /\ \A i, j \in 1 .. n : i # j => order[i] # order[j]
    <2>1. order \in {f \in [1 .. Cardinality(headers) -> headers] :
                        \A i, j \in 1 .. Cardinality(headers) : i # j => f[i] # f[j]}
      BY Zenon DEF SetToSeqs
    <2>2. order \in {f \in [1 .. n -> headers] : \A i, j \in 1 .. n : i # j => f[i] # f[j]}
      BY <1>1, <2>1, Zenon
    <2> QED  BY <2>2
  <1>3. order \in Injection(1 .. n, headers)
    BY <1>2, Fun_IsInj
  <1>4. Cardinality(1 .. n) = Cardinality(headers)
    BY <1>1, FS_Interval
  <1>5. order \in Surjection(1 .. n, headers)
    BY <1>3, <1>4, FS_Injection
  <1>6. Range(order) = headers
    <2>1. Range(order) \subseteq headers
      BY <1>2 DEF Range
    <2>2. \A h \in headers : \E i \in 1 .. n : order[i] = h
      BY <1>5, Fun_SurjectionProperties
    <2> QED  BY <1>2, <2>1, <2>2 DEF Range
  <1>7. order \in Seq(headers) /\ Len(order) = n
    BY <1>2
  <1> QED  BY <1>1, <1>6, <1>7

\* Three sequences are the same text however they are joined.
Grouped(s, t, u) == (s \o t) \o u = s \o (t \o u)

LEMMA JoinsGroup == ASSUME NEW S, NEW s \in Seq(S), NEW t \in Seq(S), NEW u \in Seq(S) PROVE Grouped(s, t, u)
  BY ConcatAssociative DEF Grouped

\* The parts of a text in another grouping.
Regrouped(a, b, c, d, e) == a \o (b \o ((c \o d) \o e)) = ((a \o b) \o c) \o (d \o e)

LEMMA Regroup ==
    ASSUME NEW S, NEW a \in Seq(S), NEW b \in Seq(S), NEW c \in Seq(S), NEW d \in Seq(S), NEW e \in Seq(S)
    PROVE  Regrouped(a, b, c, d, e)
  <1>1. PICK de : de = d \o e
    OBVIOUS
  <1>2. PICK ab : ab = a \o b
    OBVIOUS
  <1>3. PICK cde : cde = c \o de
    OBVIOUS
  <1>4. de \in Seq(S)
    BY <1>1, ConcatProperties
  <1>5. ab \in Seq(S)
    BY <1>2, ConcatProperties
  <1>6. cde \in Seq(S)
    BY <1>3, <1>4, ConcatProperties
  <1>7. Grouped(c, d, e)
    BY JoinsGroup
  <1>8. Grouped(a, b, cde)
    BY <1>6, JoinsGroup
  <1>9. Grouped(ab, c, de)
    BY <1>4, <1>5, JoinsGroup
  <1>10. (c \o d) \o e = cde
    BY <1>1, <1>3, <1>7, Zenon DEF Grouped
  <1>11. a \o (b \o cde) = ab \o cde
    BY <1>2, <1>8, Zenon DEF Grouped
  <1>12. ab \o cde = (ab \o c) \o de
    BY <1>3, <1>9, Zenon DEF Grouped
  <1> QED  BY <1>1, <1>2, <1>10, <1>11, <1>12, Zenon DEF Regrouped

\* A pair is not an empty line.
LEMMA PairsAreFull == ASSUME NEW A, NEW B, NEW h \in A \X B PROVE h # <<>> /\ h[1] \in A /\ h[2] \in B
  OBVIOUS

\* What a server reads of a text: the first lines, the headers and the program's own lines.
TextIsOf(text, method, path, host, mid, last, body) ==
    text = TextOf(FirstLines(method, path, host), mid, last, body)

HeadIs(head, text, method, path, host, mid, last, body) ==
    /\ Reads(text, head, CrLf \o body)
    /\ Range(head) = {RequestLine(method, path), Header("Host", host)} \cup Range(mid) \cup Range(last)
    /\ Len(head) = 2 + Len(mid) + Len(last)

LEMMA HeadRead ==
    ASSUME NEW method, NEW path, NEW host, NEW headers, headers \subseteq STRING \X STRING,
           NEW mid \in Seq(headers), NEW body \in Seq(STRING), NEW last, NEW T, last \in Seq(T),
           \A line \in T : line # EmptyLine,
           NEW text, TextIsOf(text, method, path, host, mid, last, body)
    PROVE  \E head : HeadIs(head, text, method, path, host, mid, last, body)
  <1>1. PICK S : S = {RequestLine(method, path), Header("Host", host), EmptyLine} \cup headers \cup T \cup {<<b>> : b \in STRING}
    OBVIOUS
  <1>2. PICK first : first = FirstLines(method, path, host)
    OBVIOUS
  <1>3. PICK two : two = <<EmptyLine, EmptyLine>>
    OBVIOUS
  <1>4. HasBytes(S)
    BY <1>1 DEF HasBytes
  <1>5. RequestLine(method, path) \in S /\ Header("Host", host) \in S /\ EmptyLine \in S /\ headers \subseteq S /\ T \subseteq S
    BY <1>1
  <1>6. /\ first \in Seq(S) /\ Len(first) = 2
        /\ first[1] = RequestLine(method, path) /\ first[2] = Header("Host", host)
    BY <1>2, <1>5, FrontTokens DEF FirstLines
  <1>7. two \in Seq(S)
    BY <1>3, <1>5, FrontTokens
  <1>8. mid \in Seq(S) /\ last \in Seq(S)
    BY <1>5, WiderSeq
  <1>9. Bytes(body) \in Seq(S)
    <2>1. PICK m \in Nat : m = Len(body) /\ DOMAIN body = 1 .. m
      OBVIOUS
    <2>2. ASSUME NEW i \in 1 .. m PROVE Byte(body[i]) \in S
      <3>1. body[i] \in STRING
        BY <2>1
      <3> QED  BY <1>4, <3>1 DEF HasBytes, Byte
    <2> QED  BY <2>1, <2>2 DEF Bytes
  <1>10. PICK ab : ab = first \o mid
    OBVIOUS
  <1>11. ab \in Seq(S) /\ Len(ab) = 2 + Len(mid)
    <2>1. ab \in Seq(S) /\ Len(ab) = Len(first) + Len(mid)
      BY <1>6, <1>8, <1>10, ConcatProperties
    <2> QED  BY <1>6, <2>1
  <1>12. PICK head : head = ab \o last
    OBVIOUS
  <1>13. head \in Seq(S) /\ Len(head) = 2 + Len(mid) + Len(last)
    <2>1. head \in Seq(S) /\ Len(head) = Len(ab) + Len(last)
      BY <1>8, <1>12, <1>11, ConcatProperties
    <2> QED  BY <1>11, <2>1
  <1>14. TextIs(text, head, body)
    <2>1. text = first \o (mid \o ((last \o two) \o Bytes(body)))
      BY <1>2, <1>3, Zenon DEF TextOf, TextIsOf
    <2>2. text = ((first \o mid) \o last) \o (two \o Bytes(body))
      <3>1. PICK bytes \in Seq(S) : bytes = Bytes(body)
        BY <1>9
      <3>2. first \o (mid \o ((last \o two) \o bytes)) = ((first \o mid) \o last) \o (two \o bytes)
        <4>1. first \in Seq(S) /\ mid \in Seq(S) /\ last \in Seq(S) /\ two \in Seq(S)
          BY <1>6, <1>7, <1>8
        <4>2. Regrouped(first, mid, last, two, bytes)
          BY <3>1, <4>1, Regroup
        <4> QED  BY <4>2, Zenon DEF Regrouped
      <3> QED  BY <2>1, <3>1, <3>2, Zenon
    <2> QED  BY <1>3, <1>10, <1>12, <2>2, Zenon DEF TextIs
  <1>15. Range(first) = {RequestLine(method, path), Header("Host", host)}
    <2>1. DOMAIN first = {1, 2}
      BY <1>6
    <2> QED  BY <1>6, <2>1 DEF Range
  <1>16. Range(head) = {RequestLine(method, path), Header("Host", host)} \cup Range(mid) \cup Range(last)
    <2>1. Range(ab) = Range(first) \cup Range(mid)
      BY <1>6, <1>8, <1>10, RangeConcatenation
    <2>2. Range(head) = Range(ab) \cup Range(last)
      BY <1>8, <1>12, <1>11, RangeConcatenation
    <2> QED  BY <1>15, <2>1, <2>2
  <1>17. ASSUME NEW i \in 1 .. Len(head) PROVE head[i] # EmptyLine
    <2>1. head[i] \in Range(head)
      BY <1>13 DEF Range
    <2>2. Range(mid) \subseteq headers /\ Range(last) \subseteq T
      BY RangeOfSeq
    <2>3. RequestLine(method, path) # EmptyLine /\ Header("Host", host) # EmptyLine
      BY DEF RequestLine, Header, EmptyLine
    <2>4. \A h \in STRING \X STRING : h # EmptyLine
      BY PairsAreFull DEF EmptyLine
    <2> QED  BY <1>16, <2>1, <2>2, <2>3, <2>4
  <1>18. Reads(text, head, CrLf \o body)
    BY <1>4, <1>14, <1>17, <1>13, ServerFinds
  <1> QED  BY <1>16, <1>18, <1>13 DEF HeadIs


\* The lines of the program's own in another grouping.
LEMMA OwnLines ==
    ASSUME NEW x, NEW c, NEW e
    PROVE  /\ <<x>> \o <<c, e, e>> = <<x, c>> \o <<e, e>>
           /\ <<c, e, e>> = (<<c>> \o <<e, e>>) \o <<>>
  <1>1. PICK S : S = {x, c, e}
    OBVIOUS
  <1>2. PICK one, two, three, both : one = <<x>> /\ two = <<e, e>> /\ three = <<c, e, e>> /\ both = <<x, c>>
    OBVIOUS
  <1>3. /\ one \in Seq(S) /\ Len(one) = 1 /\ one[1] = x
        /\ two \in Seq(S) /\ Len(two) = 2 /\ two[1] = e /\ two[2] = e
        /\ three \in Seq(S) /\ Len(three) = 3 /\ three[1] = c /\ three[2] = e /\ three[3] = e
        /\ both \in Seq(S) /\ Len(both) = 2 /\ both[1] = x /\ both[2] = c
    BY <1>1, <1>2
  <1>4. one \o three = both \o two
    <2>1. PICK s, t : s = one \o three /\ t = both \o two
      OBVIOUS
    <2>2. s \in Seq(S) /\ Len(s) = 4 /\ s[1] = x /\ s[2] = c /\ s[3] = e /\ s[4] = e
      <3>1. /\ s \in Seq(S) /\ Len(s) = Len(one) + Len(three)
            /\ \A i \in 1 .. Len(one) : s[i] = one[i]
            /\ \A i \in 1 .. Len(three) : s[Len(one) + i] = three[i]
        <4>1. one \in Seq(S) /\ three \in Seq(S)
          BY <1>3
        <4> QED  BY <2>1, <4>1, TwoParts
      <3>2. 1 \in 1 .. Len(one) /\ 1 \in 1 .. Len(three) /\ 2 \in 1 .. Len(three) /\ 3 \in 1 .. Len(three)
        BY <1>3
      <3>3. s[1] = one[1] /\ s[1 + 1] = three[1] /\ s[1 + 2] = three[2] /\ s[1 + 3] = three[3]
        BY <1>3, <3>1, <3>2
      <3> QED  BY <1>3, <3>1, <3>3
    <2>3. t \in Seq(S) /\ Len(t) = 4 /\ t[1] = x /\ t[2] = c /\ t[3] = e /\ t[4] = e
      <3>1. /\ t \in Seq(S) /\ Len(t) = Len(both) + Len(two)
            /\ \A i \in 1 .. Len(both) : t[i] = both[i]
            /\ \A i \in 1 .. Len(two) : t[Len(both) + i] = two[i]
        <4>1. both \in Seq(S) /\ two \in Seq(S)
          BY <1>3
        <4> QED  BY <2>1, <4>1, TwoParts
      <3>2. 1 \in 1 .. Len(both) /\ 2 \in 1 .. Len(both) /\ 1 \in 1 .. Len(two) /\ 2 \in 1 .. Len(two)
        BY <1>3
      <3>3. t[1] = both[1] /\ t[2] = both[2] /\ t[2 + 1] = two[1] /\ t[2 + 2] = two[2]
        BY <1>3, <3>1, <3>2
      <3> QED  BY <1>3, <3>1, <3>3
    <2>4. s = t
      <3>1. \A i \in 1 .. 4 : i = 1 \/ i = 2 \/ i = 3 \/ i = 4
        OBVIOUS
      <3>2. \A i \in 1 .. Len(s) : s[i] = t[i]
        BY <2>2, <2>3, <3>1
      <3> QED  BY <2>2, <2>3, <3>2, SeqEqual
    <2> QED  BY <2>1, <2>4
  <1>5. PICK single : single = <<c>>
    OBVIOUS
  <1>6. single \in Seq(S) /\ Len(single) = 1 /\ single[1] = c
    BY <1>1, <1>5
  <1>7. three = single \o two
    <2>1. PICK s : s = single \o two
      OBVIOUS
    <2>2. s \in Seq(S) /\ Len(s) = 3 /\ s[1] = c /\ s[2] = e /\ s[3] = e
      <3>1. /\ s \in Seq(S) /\ Len(s) = Len(single) + Len(two)
            /\ \A i \in 1 .. Len(single) : s[i] = single[i]
            /\ \A i \in 1 .. Len(two) : s[Len(single) + i] = two[i]
        <4>1. single \in Seq(S) /\ two \in Seq(S)
          BY <1>3, <1>6
        <4> QED  BY <2>1, <4>1, TwoParts
      <3>2. 1 \in 1 .. Len(single) /\ 1 \in 1 .. Len(two) /\ 2 \in 1 .. Len(two)
        BY <1>3, <1>6
      <3>3. s[1] = single[1] /\ s[1 + 1] = two[1] /\ s[1 + 2] = two[2]
        BY <1>3, <1>6, <3>1, <3>2
      <3> QED  BY <1>3, <1>6, <3>1, <3>3
    <2>3. three = s
      BY <1>3, <2>2
    <2> QED  BY <2>1, <2>3
  <1>8. (single \o two) \o <<>> = three
    BY <1>3, <1>7
  <1> QED  BY <1>2, <1>4, <1>5, <1>8, Zenon

LEMMA NoBytes == Bytes(<<>>) = <<>>
  BY DEF Bytes

\* All headers have a name and a value.
AllWhole(headers) == \A h \in headers : Whole(h)

\* A text is one of two: with the body, or without.
TextForm(text, mid, host, path, body, method, headers) ==
    /\ IF method = "POST" /\ AllWhole(headers)
       THEN TextIsOf(text, method, path, host, mid, LengthAndClose(body), body)
       ELSE TextIsOf(text, method, path, host, mid, Close, <<>>)
    /\ AllWhole(headers) => Range(mid) = headers /\ Len(mid) = Cardinality(headers)

LEMMA TextForms ==
    ASSUME NEW host, NEW path, NEW body \in Seq(STRING), NEW method \in {"GET", "POST"},
           NEW headers, IsFiniteSet(headers), NEW text \in CreateHttpv1Template(host, path, body, method, headers)
    PROVE  \E mid \in Seq(headers) : TextForm(text, mid, host, path, body, method, headers)
  <1>1. PICK first : first = FirstLines(method, path, host)
    OBVIOUS
  <1>2. PICK order \in SetToSeqs(headers) : TextWith(text, first, method, body, order)
    BY <1>1, TextsAre
  <1>3. order \in Seq(headers) /\ Len(order) = Cardinality(headers) /\ Range(order) = headers
    BY OrderHasAll
  <1>4. PICK until : until = UntilOf(order)
    OBVIOUS
  <1>5. until \in 0 .. Len(order) /\ (until = 0 <=> AllWhole(headers))
    <2>1. /\ until \in 0 .. Len(order) /\ (AllWhole(headers) => until = 0)
          /\ until = 0 => \A i \in 1 .. Len(order) : Whole(order[i])
      BY <1>3, <1>4, UntilIs DEF AllWhole
    <2>2. \A h \in headers : \E i \in 1 .. Len(order) : order[i] = h
      BY <1>3 DEF Range
    <2> QED  BY <2>1, <2>2 DEF AllWhole
  <1>6. PICK cut : cut = SubSeq(order, 1, until - 1)
    OBVIOUS
  <1>7. cut \in Seq(headers)
    BY <1>3, <1>5, <1>6
  <1>8. Closing = (Close \o <<EmptyLine, EmptyLine>>) \o Bytes(<<>>)
    BY OwnLines, NoBytes DEF Closing, Close
  <1>9. method = "POST" => Rest(method, body) = (LengthAndClose(body) \o <<EmptyLine, EmptyLine>>) \o Bytes(body)
    <2>1. PICK x, c : x = Header("Content-Length", ToString(Len(body))) /\ c = Header("Connection", "close")
      OBVIOUS
    <2>2. PICK bytes : bytes = Bytes(body)
      OBVIOUS
    <2>3. method = "POST" => Rest(method, body) = (<<x>> \o <<c, EmptyLine, EmptyLine>>) \o bytes
      BY <2>1, <2>2, Zenon DEF Rest, Closing, Bytes
    <2>4. LengthAndClose(body) = <<x, c>>
      BY <2>1, Zenon DEF LengthAndClose
    <2>5. <<x>> \o <<c, EmptyLine, EmptyLine>> = <<x, c>> \o <<EmptyLine, EmptyLine>>
      BY OwnLines
    <2> QED  BY <2>2, <2>3, <2>4, <2>5, Zenon
  <1>10. method = "GET" => Rest(method, body) = Closing
    BY Zenon DEF Rest
  <1>11. CASE method = "POST" /\ AllWhole(headers)
    <2>1. until = 0
      BY <1>5, <1>11
    <2>2. text = first \o (order \o Rest(method, body))
      BY <1>2, <1>4, <2>1, Zenon DEF TextWith
    <2>3. text = TextOf(first, order, LengthAndClose(body), body)
      BY <1>9, <1>11, <2>2, Zenon DEF TextOf
    <2> QED  BY <1>1, <1>3, <1>11, <2>3, Zenon DEF TextForm, TextIsOf
  <1>12. CASE method = "GET" /\ AllWhole(headers)
    <2>1. until = 0
      BY <1>5, <1>12
    <2>2. text = first \o (order \o Closing)
      BY <1>2, <1>4, <1>10, <1>12, <2>1, Zenon DEF TextWith
    <2>3. text = TextOf(first, order, Close, <<>>)
      BY <1>8, <2>2, Zenon DEF TextOf
    <2>4. method # "POST"
      BY <1>12
    <2> QED  BY <1>1, <1>3, <2>3, <2>4, Zenon DEF TextForm, TextIsOf
  <1>13. CASE ~AllWhole(headers)
    <2>1. until # 0
      BY <1>5, <1>13
    <2>2. text = first \o (cut \o Closing)
      BY <1>2, <1>4, <1>6, <2>1, Zenon DEF TextWith
    <2>3. text = TextOf(first, cut, Close, <<>>)
      BY <1>8, <2>2, Zenon DEF TextOf
    <2> QED  BY <1>1, <1>7, <1>13, <2>3, Zenon DEF TextForm, TextIsOf
  <1> QED  BY <1>11, <1>12, <1>13


\* ToString writes numbers apart.
ToStringApart == \A a, b \in Nat : ToString(a) = ToString(b) => a = b

LEMMA LargestIs ==
    ASSUME NEW lengths
    PROVE  /\ lengths = {} => Largest(lengths) = 0
           /\ \A n \in Nat : lengths = {n} => Largest(lengths) = n
  <1>1. lengths = {} => Largest(lengths) = 0
    BY DEF Largest, Max
  <1>2. ASSUME NEW n \in Nat, lengths = {n} PROVE Largest(lengths) = n
    BY <1>2 DEF Largest, Max
  <1> QED  BY <1>1, <1>2

LEMMA PairIs == ASSUME NEW a, NEW b, NEW c, NEW d PROVE (<<a, b>> = <<c, d>>) = (a = c /\ b = d)
  OBVIOUS

\* Only the line that gives the length of the body gives one.
LEMMA LengthsAre ==
    ASSUME NEW m \in Nat
    PROVE  /\ \A h \in (STRING \ {"Content-Length"}) \X STRING : Lengths(h, m) = {}
           /\ \A method, path, host : /\ Lengths(RequestLine(method, path), m) = {}
                                      /\ Lengths(Header("Host", host), m) = {}
           /\ Lengths(Header("Connection", "close"), m) = {}
           /\ ToStringApart => \A n \in 0 .. m : Lengths(Header("Content-Length", ToString(n)), m) = {n}
  <1>1. ASSUME NEW h \in (STRING \ {"Content-Length"}) \X STRING, NEW n \in 0 .. m,
               h = Header("Content-Length", ToString(n))
        PROVE  FALSE
    <2>1. h[1] = "Content-Length"
      BY <1>1 DEF Header
    <2>2. h[1] \in STRING \ {"Content-Length"}
      OBVIOUS
    <2> QED  BY <2>1, <2>2
  <1>2. ASSUME NEW method, NEW path, NEW n \in 0 .. m, RequestLine(method, path) = Header("Content-Length", ToString(n))
        PROVE  FALSE
    BY <1>2 DEF RequestLine, Header
  <1>3. ASSUME NEW name, name # "Content-Length", NEW value, NEW n \in 0 .. m,
               Header(name, value) = Header("Content-Length", ToString(n))
        PROVE  FALSE
    BY <1>3, PairIs DEF Header
  <1>4. ASSUME ToStringApart, NEW n \in 0 .. m
        PROVE  Lengths(Header("Content-Length", ToString(n)), m) = {n}
    <2>1. ASSUME NEW i \in 0 .. m, Header("Content-Length", ToString(n)) = Header("Content-Length", ToString(i))
          PROVE  i = n
      <3>1. ToString(n) = ToString(i)
        BY <2>1, PairIs DEF Header
      <3>2. n \in Nat /\ i \in Nat
        OBVIOUS
      <3> QED  BY <1>4, <3>1, <3>2 DEF ToStringApart
    <2> QED  BY <2>1 DEF Lengths
  <1>5. "Host" # "Content-Length" /\ "Connection" # "Content-Length"
    OBVIOUS
  <1>6. \A h \in (STRING \ {"Content-Length"}) \X STRING : Lengths(h, m) = {}
    BY <1>1 DEF Lengths
  <1>7. ASSUME NEW method, NEW path, NEW host
        PROVE  Lengths(RequestLine(method, path), m) = {} /\ Lengths(Header("Host", host), m) = {}
    BY <1>2, <1>3, <1>5 DEF Lengths
  <1>8. Lengths(Header("Connection", "close"), m) = {}
    BY <1>3, <1>5 DEF Lengths
  <1> QED  BY <1>4, <1>6, <1>7, <1>8


\* What TemplateIsRead says of one text.
IsRead(text, host, path, body, method, headers) ==
    /\ {RequestLine(method, path), Header("Host", host), Header("Connection", "close")} \subseteq ServerReads(text).head
    /\ AllWhole(headers) =>
        /\ headers \subseteq ServerReads(text).head
        /\ ServerReads(text).lines = Cardinality(headers) + (IF method = "POST" THEN 4 ELSE 3)
    /\ ServerReads(text).body = IF AllWhole(headers) /\ method = "POST"
                                THEN SubSeq(CrLf \o body, 1, Len(body)) ELSE <<>>

\* A server finds of a text what syncCreateHttpv1template was called with.
LEMMA TemplateRead ==
    ASSUME ToStringApart,
           NEW host, NEW path, NEW body \in Seq(STRING), NEW method \in {"GET", "POST"},
           NEW headers, headers \subseteq (STRING \ {"Content-Length"}) \X STRING, IsFiniteSet(headers),
           NEW text \in CreateHttpv1Template(host, path, body, method, headers)
    PROVE  IsRead(text, host, path, body, method, headers)
  <1>1. PICK mid \in Seq(headers) : TextForm(text, mid, host, path, body, method, headers)
    BY TextForms
  <1>12. AllWhole(headers) => Range(mid) = headers /\ Len(mid) = Cardinality(headers)
    BY <1>1 DEF TextForm
  <1>2. headers \subseteq STRING \X STRING
    OBVIOUS
  <1>3. PICK c, x : c = Header("Connection", "close") /\ x = Header("Content-Length", ToString(Len(body)))
    OBVIOUS
  <1>4. c # EmptyLine /\ x # EmptyLine
    BY <1>3 DEF Header, EmptyLine
  <1>5. PICK request, own : request = RequestLine(method, path) /\ own = Header("Host", host)
    OBVIOUS
  <1>6. Range(mid) \subseteq headers /\ Cardinality(headers) \in Nat /\ Len(mid) \in Nat
    BY RangeOfSeq, FS_CardinalityType
  <1>7. PICK n \in Nat : n = Len(body)
    OBVIOUS
  <1>8. CASE method = "POST" /\ AllWhole(headers)
    <2>1. PICK last : last = LengthAndClose(body)
      OBVIOUS
    <2>2. last = <<x, c>>
      BY <1>3, <2>1, Zenon DEF LengthAndClose
    <2>3. last \in Seq({x, c}) /\ Range(last) = {x, c} /\ Len(last) = 2
      <3>1. last \in Seq({x, c}) /\ Len(last) = 2 /\ last[1] = x /\ last[2] = c
        BY <2>2
      <3>2. DOMAIN last = {1, 2}
        BY <3>1
      <3> QED  BY <3>1, <3>2 DEF Range
    <2>4. TextIsOf(text, method, path, host, mid, last, body)
      BY <1>1, <1>8, <2>1, Zenon DEF TextForm
    <2>15. PICK head : HeadIs(head, text, method, path, host, mid, last, body)
      <3>1. \A line \in {x, c} : line # EmptyLine
        BY <1>4
      <3> QED  BY <1>2, <2>3, <2>4, <3>1, HeadRead
    <2>5. /\ Reads(text, head, CrLf \o body)
          /\ Range(head) = {request, own} \cup Range(mid) \cup Range(last)
          /\ Len(head) = 2 + Len(mid) + Len(last)
      BY <1>5, <2>15 DEF HeadIs
    <2>6. PICK found : found = ServerReads(text)
      OBVIOUS
    <2>7. Range(head) = {request, own, x, c} \cup headers /\ Len(head) = Cardinality(headers) + 4
      BY <1>12, <1>6, <1>8, <2>3, <2>5
    <2>8. PICK rest : rest = CrLf \o body
      OBVIOUS
    <2>9. Len(rest) = n + 2
      <3>1. PICK B : B = STRING \cup {"\r", "\n"}
        OBVIOUS
      <3>2. body \in Seq(B) /\ CrLf \in Seq(B) /\ Len(CrLf) = 2
        BY <3>1 DEF CrLf
      <3>3. CrLf \in Seq(B) /\ body \in Seq(B)
        BY <3>2
      <3>4. Len(CrLf \o body) = Len(CrLf) + Len(body)
        BY <3>3, TwoParts
      <3>5. Len(rest) = Len(CrLf) + Len(body)
        BY <2>8, <3>4, Zenon
      <3> QED  BY <1>7, <3>2, <3>5
    <2>10. UNION AllLengths(head, n + 2) = {n}
      <3>1. n + 2 \in Nat /\ n \in 0 .. n + 2
        OBVIOUS
      <3>2. \A h \in headers : Lengths(h, n + 2) = {}
        BY <3>1, LengthsAre
      <3>3. Lengths(request, n + 2) = {} /\ Lengths(own, n + 2) = {} /\ Lengths(c, n + 2) = {}
        BY <1>3, <1>5, <3>1, LengthsAre
      <3>4. Lengths(x, n + 2) = {n}
        BY <1>3, <1>7, <3>1, LengthsAre
      <3>5. \A line \in Range(head) : Lengths(line, n + 2) \subseteq {n}
        BY <2>7, <3>2, <3>3, <3>4
      <3>6. x \in Range(head)
        BY <2>7
      <3> QED  BY <3>4, <3>5, <3>6 DEF AllLengths
    <2>11. found.body = SubSeq(rest, 1, n)
      <3>1. found.body = SubSeq(rest, 1, Largest(UNION AllLengths(head, Len(rest))))
        BY <2>5, <2>6, <2>8, Zenon DEF Reads
      <3>2. Largest(UNION AllLengths(head, n + 2)) = n
        BY <2>10, LargestIs
      <3> QED  BY <2>9, <3>1, <3>2, Zenon
    <2>12. found.head = Range(head) /\ found.lines = Len(head)
      BY <2>5, <2>6, Zenon DEF Reads
    <2>13. {request, own, c} \subseteq found.head /\ headers \subseteq found.head /\ found.lines = Cardinality(headers) + 4
      BY <2>7, <2>12
    <2>14. found.body = SubSeq(CrLf \o body, 1, Len(body))
      BY <1>7, <2>8, <2>11, Zenon
    <2> QED  BY <1>3, <1>5, <1>8, <2>6, <2>13, <2>14, Zenon DEF IsRead
  <1>9. CASE ~(method = "POST" /\ AllWhole(headers))
    <2>1. PICK last : last = Close
      OBVIOUS
    <2>2. last = <<c>>
      BY <1>3, <2>1, Zenon DEF Close
    <2>3. last \in Seq({c}) /\ Range(last) = {c} /\ Len(last) = 1
      <3>1. last \in Seq({c}) /\ Len(last) = 1 /\ last[1] = c
        BY <2>2
      <3>2. DOMAIN last = {1}
        BY <3>1
      <3> QED  BY <3>1, <3>2 DEF Range
    <2>4. TextIsOf(text, method, path, host, mid, last, <<>>)
      BY <1>1, <1>9, <2>1, Zenon DEF TextForm
    <2>15. PICK head : HeadIs(head, text, method, path, host, mid, last, <<>>)
      <3>1. (\A line \in {c} : line # EmptyLine) /\ <<>> \in Seq(STRING)
        BY <1>4
      <3> QED  BY <1>2, <2>3, <2>4, <3>1, HeadRead
    <2>5. /\ Reads(text, head, CrLf \o <<>>)
          /\ Range(head) = {request, own} \cup Range(mid) \cup Range(last)
          /\ Len(head) = 2 + Len(mid) + Len(last)
      BY <1>5, <2>15 DEF HeadIs
    <2>6. PICK found : found = ServerReads(text)
      OBVIOUS
    <2>7. /\ Range(head) = {request, own, c} \cup Range(mid)
          /\ AllWhole(headers) => headers \subseteq Range(head) /\ Len(head) = Cardinality(headers) + 3
      BY <1>12, <1>6, <2>3, <2>5
    <2>8. PICK rest : rest = CrLf \o <<>>
      OBVIOUS
    <2>9. PICK m \in Nat : m = Len(rest)
      <3>1. PICK B : B = STRING \cup {"\r", "\n"}
        OBVIOUS
      <3>2. <<>> \in Seq(B) /\ CrLf \in Seq(B)
        BY <3>1 DEF CrLf
      <3>3. rest \in Seq(B)
        BY <2>8, <3>2, ConcatProperties
      <3> QED  BY <3>3
    <2>10. UNION AllLengths(head, m) = {}
      <3>1. \A h \in headers : Lengths(h, m) = {}
        BY LengthsAre
      <3>2. Lengths(request, m) = {} /\ Lengths(own, m) = {} /\ Lengths(c, m) = {}
        BY <1>3, <1>5, LengthsAre
      <3>3. \A line \in Range(head) : Lengths(line, m) = {}
        BY <1>6, <2>7, <3>1, <3>2
      <3> QED  BY <3>3 DEF AllLengths
    <2>11. found.body = <<>>
      <3>1. found.body = SubSeq(rest, 1, Largest(UNION AllLengths(head, Len(rest))))
        BY <2>5, <2>6, <2>8, Zenon DEF Reads
      <3>2. Largest(UNION AllLengths(head, m)) = 0
        BY <2>10, LargestIs
      <3>3. found.body = SubSeq(rest, 1, 0)
        BY <2>9, <3>1, <3>2, Zenon
      <3> QED  BY <3>3, SubSeqEmpty
    <2>12. found.head = Range(head) /\ found.lines = Len(head)
      BY <2>5, <2>6, Zenon DEF Reads
    <2>13. {request, own, c} \subseteq found.head
      BY <2>7, <2>12
    <2>14. AllWhole(headers) => /\ headers \subseteq found.head
                                /\ found.lines = Cardinality(headers) + (IF method = "POST" THEN 4 ELSE 3)
      BY <1>9, <2>7, <2>12
    <2> QED  BY <1>3, <1>5, <1>9, <2>6, <2>11, <2>13, <2>14, Zenon DEF IsRead
  <1> QED  BY <1>8, <1>9
=============================================================================
