-------------------------- MODULE TcpConnectProofs --------------------------
(***************************************************************************)
(* TcpConnect for any address lists, any number of tries, resolutions and     *)
(* calls: a connect that succeeds is to the first address that answered, few  *)
(* descriptors stay open, and the first report that none answers is true.    *)
(***************************************************************************)
EXTENDS TcpConnect, FiniteSetTheorems, TLAPS

\* While addresses are tested those passed have been refused,
\* and the call has opened none that stays.
TestedInVain ==
    state = "test" =>
        /\ \A j \in 1 .. next - 1 : RightFamily(j) => j \in refused
        /\ Cardinality(open) < resolves + calls

\* Behind the test the descriptor is connected.
ConnectedOnTheWay == state \in {"again", "select", "retry"} => Connected

\* The inductive invariant.
IInv ==
    /\ TypeOK
    /\ IsFiniteSet(open)
    /\ FewDescriptors
    /\ TestedInVain
    /\ ConnectedOnTheWay
    /\ ConnectedToFirst

\* socket finds a descriptor: of one more number than are open, one is not.
LEMMA NewFdIsNew ==
    ASSUME open \subseteq Nat \ {NoFd}, IsFiniteSet(open)
    PROVE  /\ NewFd \in Nat \ {NoFd}
           /\ NewFd \notin open
           /\ IsFiniteSet(open \cup {NewFd})
           /\ Cardinality(open \cup {NewFd}) = Cardinality(open) + 1
  <1>1. Cardinality(open) \in Nat
    BY FS_CardinalityType
  <1>2. \E n \in 1 .. Cardinality(open) + 1 : n \notin open
    <2>1. SUFFICES ASSUME 1 .. Cardinality(open) + 1 \subseteq open PROVE FALSE
      OBVIOUS
    <2>2. Cardinality(1 .. Cardinality(open) + 1) <= Cardinality(open)
      BY <2>1, FS_Subset
    <2>3. Cardinality(1 .. Cardinality(open) + 1) = Cardinality(open) + 1
      BY <1>1, FS_Interval
    <2> QED  BY <1>1, <2>2, <2>3
  <1>3. NewFd \in 1 .. Cardinality(open) + 1 /\ NewFd \notin open
    BY <1>2 DEF NewFd
  <1> QED  BY <1>1, <1>3, FS_AddElement DEF NoFd

\* What the types say of the address list and of the descriptors.
LEMMA Typed ==
    ASSUME TypeOK, IsFiniteSet(open)
    PROVE  /\ addrs \in Seq(Families) /\ Len(addrs) \in Nat
           /\ DOMAIN addrs = 1 .. Len(addrs)
           /\ Cardinality(open) \in Nat
           /\ next \in Nat /\ resolves \in Nat /\ calls \in Nat /\ tries \in Nat
           /\ MaxRetry \in Nat /\ MaxCalls \in Nat /\ MaxResolves \in Nat
  <1>1. addrs \in Seq(Families)
    <2>1. <<>> \in Seq(Families)
      OBVIOUS
    <2>2. Lists \subseteq Seq(Families) /\ addrs \in Lists \cup {<<>>}
      BY ConnectAssumption DEF TypeOK
    <2> QED  BY <2>1, <2>2
  <1>2. Len(addrs) \in Nat /\ DOMAIN addrs = 1 .. Len(addrs)
    BY <1>1
  <1>3. Cardinality(open) \in Nat
    BY FS_CardinalityType
  <1>4. MaxRetry \in Nat /\ MaxCalls \in Nat /\ MaxResolves \in Nat
    BY ConnectAssumption
  <1>5. next \in Nat /\ resolves \in Nat /\ calls \in Nat /\ tries \in Nat
    BY <1>2, <1>4 DEF TypeOK
  <1> QED  BY <1>1, <1>2, <1>3, <1>4, <1>5

LEMMA InitIInv == Init => IInv
  <1> SUFFICES ASSUME Init PROVE IInv
    OBVIOUS
  <1>1. IsFiniteSet(open) /\ Cardinality(open) = 0
    BY FS_EmptySet DEF Init
  <1>2. TypeOK
    <2>1. MaxRetry \in Nat /\ MaxCalls \in Nat /\ MaxResolves \in Nat
      BY ConnectAssumption
    <2>2. next \in 1 .. Len(addrs) + 1 /\ linked \subseteq open \X Nat /\ refused \subseteq DOMAIN addrs
      BY DEF Init
    <2>3. /\ addrs \in Lists \cup {<<>>} /\ ipv6 \in BOOLEAN /\ fd \in Nat \cup {Unset}
          /\ open \subseteq Nat \ {NoFd}
          /\ state \in States /\ answer \in ErrorCode \cup {"pending"}
          /\ errno \in {"none", "isconn", "intr"} /\ {invalid, success} \subseteq BOOLEAN
      BY DEF Init, NoFd, States
    <2>4. tries \in 0 .. MaxRetry /\ resolves \in 0 .. MaxResolves /\ calls \in 0 .. MaxCalls
      BY <2>1 DEF Init
    <2> QED  BY <2>2, <2>3, <2>4 DEF TypeOK
  <1> QED  BY <1>1, <1>2 DEF Init, IInv, FewDescriptors, TestedInVain, ConnectedOnTheWay, ConnectedToFirst, Over

\* The caller's calls.  A resolution starts with a clean list; a connect, with no address
\* tested.
LEMMA ResolveStep ==
    ASSUME IInv, ResolverInvalid \/ ResolverThrows \/ ResolverNoSocket \/ Resolved
    PROVE  IInv'
  <1>1. PICK enable6 \in BOOLEAN : Resolve(enable6)
    BY DEF ResolverInvalid, ResolverThrows, ResolverNoSocket, Resolved, IInv, TypeOK
  <1>2. TypeOK /\ IsFiniteSet(open) /\ Cardinality(open) <= resolves + calls
    BY DEF IInv, FewDescriptors
  <1>3. /\ resolves' = resolves + 1 /\ resolves' \in 0 .. MaxResolves /\ calls' = calls
        /\ next' = 1 /\ refused' = {} /\ ipv6' \in BOOLEAN
        /\ UNCHANGED <<tries, errno, invalid, success>>
    BY <1>1, <1>2, Typed, SMTT(60) DEF Resolve, TypeOK
  <1>4. /\ addrs' \in Lists \cup {<<>>} /\ state' \in {"resolved", "over"}
        /\ answer' \in ErrorCode /\ (state' = "over" => answer' # "none")
    BY <1>2 DEF ResolverInvalid, ResolverThrows, ResolverNoSocket, Resolved, Post, TypeOK, ErrorCode
  <1>5. /\ fd' \in Nat \cup {Unset} /\ open' \subseteq Nat \ {NoFd} /\ linked' \subseteq open' \X Nat
        /\ IsFiniteSet(open') /\ Cardinality(open') <= Cardinality(open) + 1
    <2>1. CASE Resolved
      <3>1. fd' = NewFd /\ open' = open \cup {NewFd} /\ linked' = {}
        BY <2>1 DEF Resolved
      <3>2. /\ NewFd \in Nat \ {NoFd} /\ IsFiniteSet(open')
            /\ Cardinality(open') = Cardinality(open) + 1
        BY <1>2, <3>1, NewFdIsNew DEF TypeOK
      <3>3. fd' \in Nat \cup {Unset} /\ open' \subseteq Nat \ {NoFd} /\ linked' \subseteq open' \X Nat
        BY <1>2, <3>1, <3>2 DEF TypeOK
      <3> QED  BY <1>2, <3>2, <3>3, Typed
    <2>2. CASE ResolverInvalid \/ ResolverThrows \/ ResolverNoSocket
      <3>1. open' = open /\ linked' = linked /\ (fd' = fd \/ fd' = NoFd)
        BY <2>2 DEF ResolverInvalid, ResolverThrows, ResolverNoSocket
      <3>2. /\ fd \in Nat \cup {Unset} /\ open \subseteq Nat \ {NoFd} /\ linked \subseteq open \X Nat /\ IsFiniteSet(open)
        BY <1>2 DEF TypeOK
      <3>3. Cardinality(open) \in Nat
        BY <1>2, Typed
      <3>4. fd' \in Nat \cup {Unset}
        BY <3>1, <3>2 DEF NoFd
      <3>5. open' \subseteq Nat \ {NoFd} /\ linked' \subseteq open' \X Nat /\ IsFiniteSet(open')
        BY <3>1, <3>2
      <3>6. Cardinality(open') <= Cardinality(open) + 1
        BY <3>1, <3>3
      <3> QED  BY <3>4, <3>5, <3>6
    <2> QED  BY <2>1, <2>2
  <1>6. next' \in 1 .. Len(addrs') + 1
    <2>1. Len(addrs') \in Nat
      <3>1. <<>> \in Seq(Families)
        OBVIOUS
      <3>2. addrs' \in Seq(Families)
        BY <1>4, <3>1, ConnectAssumption
      <3> QED  BY <3>2
    <2> QED  BY <1>3, <2>1
  <1>7. TypeOK'
    BY <1>2, <1>3, <1>4, <1>5, <1>6 DEF TypeOK, States
  <1>8. FewDescriptors'
    <2>1. Cardinality(open') \in Nat
      BY <1>5, FS_CardinalityType
    <2>2. Cardinality(open) \in Nat /\ resolves \in Nat /\ calls \in Nat
      BY <1>2, Typed
    <2>3. /\ Cardinality(open') <= Cardinality(open) + 1 /\ Cardinality(open) <= resolves + calls
          /\ resolves' = resolves + 1 /\ calls' = calls
      BY <1>2, <1>3, <1>5
    <2>4. Cardinality(open') <= resolves' + calls'
      BY <2>1, <2>2, <2>3
    <2> QED  BY <2>4 DEF FewDescriptors
  <1> QED
    BY <1>4, <1>5, <1>7, <1>8 DEF IInv, TestedInVain, ConnectedOnTheWay, ConnectedToFirst, Over

LEMMA CallStep ==
    ASSUME IInv, TryConnect \/ TryRefused \/ TryUnset
    PROVE  IInv'
  <1>1. Call /\ TypeOK /\ IsFiniteSet(open) /\ Cardinality(open) <= resolves + calls
    BY DEF TryConnect, TryRefused, TryUnset, IInv, FewDescriptors
  <1>2. /\ calls' = calls + 1 /\ calls' \in 0 .. MaxCalls
        /\ next' = 1 /\ refused' = {} /\ tries' = 0 /\ ipv6' \in BOOLEAN
        /\ UNCHANGED <<addrs, fd, open, linked, errno, invalid, success, resolves>>
    BY <1>1, Typed, SMTT(60) DEF Call, TypeOK
  <1>3. /\ state' \in {"test", "over", "undefined"} /\ answer' \in {"pending", "bad_file_descriptor"}
    BY DEF TryConnect, TryRefused, TryUnset, Post
  <1>4. TypeOK'
    <2>1. /\ addrs' \in Lists \cup {<<>>} /\ ipv6' \in BOOLEAN /\ fd' \in Nat \cup {Unset} /\ open' \subseteq Nat \ {NoFd}
          /\ linked' \subseteq open' \X Nat
      BY <1>1, <1>2 DEF TypeOK
    <2>2. refused' \subseteq DOMAIN addrs'
      BY <1>2
    <2>3. next' \in 1 .. Len(addrs') + 1
      BY <1>1, <1>2, Typed
    <2>4. state' \in States /\ answer' \in ErrorCode \cup {"pending"}
      BY <1>3 DEF States, ErrorCode
    <2>5. tries' \in 0 .. MaxRetry
      BY <1>1, <1>2, Typed
    <2>6. errno' \in {"none", "isconn", "intr"} /\ {invalid', success'} \subseteq BOOLEAN
      BY <1>1, <1>2 DEF TypeOK
    <2>7. resolves' \in 0 .. MaxResolves /\ calls' \in 0 .. MaxCalls
      BY <1>1, <1>2 DEF TypeOK
    <2> QED  BY <2>1, <2>2, <2>3, <2>4, <2>5, <2>6, <2>7 DEF TypeOK
  <1>5. Cardinality(open') < resolves' + calls'
    BY <1>1, <1>2, Typed, SMTT(60)
  <1>6. TestedInVain' /\ FewDescriptors'
    BY <1>1, <1>2, <1>5, Typed, SMTT(60) DEF TestedInVain, FewDescriptors
  <1> QED
    BY <1>1, <1>2, <1>3, <1>4, <1>6 DEF IInv, ConnectedOnTheWay, ConnectedToFirst, Over

\* The tests, which leave the context's settings and counts alone.
LEMMA TestStep ==
    ASSUME IInv, SkipAddress \/ TestThrows \/ TestConnects \/ TestFails \/ AllInvalid
    PROVE  IInv'
  <1>1. /\ TypeOK /\ IsFiniteSet(open) /\ state = "test"
        /\ Cardinality(open) < resolves + calls
        /\ \A j \in 1 .. next - 1 : RightFamily(j) => j \in refused
    BY DEF IInv, TestedInVain, SkipAddress, TestThrows, TestConnects, TestFails, AllInvalid, Testing
  <1>2. UNCHANGED <<addrs, ipv6, success, resolves, calls, tries, errno>>
    BY DEF SkipAddress, TestThrows, TestConnects, TestFails, AllInvalid, Testing, connectVars
  <1>3. \A i : RightFamily(i)' = RightFamily(i)
    BY <1>2 DEF RightFamily
  <1> USE Typed
  <1>4. CASE SkipAddress
    <2>1. /\ next <= Len(addrs) /\ ~RightFamily(next) /\ next' = next + 1
          /\ UNCHANGED <<fd, open, linked, refused, state, answer, invalid>>
      BY <1>4 DEF SkipAddress
    <2>2. TypeOK'
      BY <1>1, <1>2, <2>1 DEF TypeOK
    <2>3. TestedInVain'
      <3>1. \A j \in 1 .. next' - 1 : RightFamily(j) => j \in refused
        BY <1>1, <2>1, SMTT(60)
      <3> QED  BY <1>1, <1>2, <1>3, <2>1, <3>1 DEF TestedInVain
    <2> QED
      BY <1>1, <1>2, <2>1, <2>2, <2>3 DEF IInv, FewDescriptors, ConnectedOnTheWay, ConnectedToFirst, Over
  <1>5. CASE TestThrows
    <2>1. /\ state' = "over" /\ answer' = "thrown"
          /\ UNCHANGED <<fd, open, linked, refused, next, invalid>>
      BY <1>5 DEF TestThrows, Testing, Post
    <2>2. TypeOK'
      BY <1>1, <1>2, <2>1 DEF TypeOK, States, ErrorCode
    <2> QED
      BY <1>1, <1>2, <2>1, <2>2 DEF IInv, FewDescriptors, TestedInVain, ConnectedOnTheWay, ConnectedToFirst, Over
  <1>6. CASE TestConnects
    <2>1. /\ next <= Len(addrs) /\ RightFamily(next)
          /\ open' = open \cup {NewFd} /\ linked' = linked \cup {<<NewFd, next>>}
          /\ fd' = NewFd /\ UNCHANGED <<refused, next, invalid>>
      BY <1>6 DEF TestConnects, Testing
    <2>2. \/ state' = "again" /\ answer' = answer
          \/ state' = "over" /\ answer' = "address_not_available"
      BY <1>6 DEF TestConnects, Tried, Post
    <2>3. /\ NewFd \in Nat \ {NoFd} /\ IsFiniteSet(open')
          /\ Cardinality(open') = Cardinality(open) + 1
      BY <1>1, <2>1, NewFdIsNew DEF TypeOK
    <2>4. TypeOK'
      <3>1. /\ fd' \in Nat \cup {Unset} /\ open' \subseteq Nat \ {NoFd} /\ linked' \subseteq open' \X Nat
        <4>1. linked \subseteq open \X Nat /\ open \subseteq Nat \ {NoFd} /\ next \in Nat
          BY <1>1 DEF TypeOK
        <4>2. linked' \subseteq open' \X Nat
          BY <2>1, <4>1
        <4> QED  BY <2>1, <2>3, <4>1, <4>2
      <3>2. state' \in States /\ answer' \in ErrorCode \cup {"pending"}
        BY <1>1, <2>2 DEF TypeOK, States, ErrorCode
      <3> QED  BY <1>1, <1>2, <2>1, <3>1, <3>2 DEF TypeOK
    <2>5. Connected'
      <3>1. PICK i : i = next
        OBVIOUS
      <3>2. i \in DOMAIN addrs' /\ <<fd', i>> \in linked' /\ RightFamily(i)'
        BY <1>1, <1>2, <1>3, <2>1, <3>1 DEF TypeOK
      <3>3. \A j \in 1 .. i - 1 : RightFamily(j)' => j \in refused'
        BY <1>1, <1>3, <2>1, <3>1
      <3> QED  BY <3>2, <3>3 DEF Connected, RightFamily
    <2> QED
      BY <1>1, <1>2, <2>2, <2>3, <2>4, <2>5 DEF IInv, FewDescriptors, TestedInVain, ConnectedOnTheWay, ConnectedToFirst, Over
  <1>7. CASE TestFails
    <2>1. /\ next <= Len(addrs) /\ refused' = refused \cup {next} /\ next' = next + 1
          /\ UNCHANGED <<fd, open, linked, state, answer, invalid>>
      BY <1>7 DEF TestFails, Testing
    <2>2. TypeOK'
      BY <1>1, <1>2, <2>1 DEF TypeOK
    <2>3. TestedInVain'
      <3>1. \A j \in 1 .. next' - 1 : RightFamily(j) => j \in refused'
        BY <1>1, <2>1, SMTT(60)
      <3> QED  BY <1>1, <1>2, <1>3, <2>1, <3>1 DEF TestedInVain
    <2> QED
      BY <1>1, <1>2, <2>1, <2>2, <2>3 DEF IInv, FewDescriptors, ConnectedOnTheWay, ConnectedToFirst, Over
  <1>8. CASE AllInvalid
    <2>1. /\ state' = "over" /\ answer' = "address_not_available" /\ invalid' = TRUE
          /\ UNCHANGED <<fd, open, linked, refused, next>>
      BY <1>8 DEF AllInvalid, Tried, Post
    <2>2. TypeOK'
      BY <1>1, <1>2, <2>1 DEF TypeOK, States, ErrorCode
    <2> QED
      BY <1>1, <1>2, <2>1, <2>2 DEF IInv, FewDescriptors, TestedInVain, ConnectedOnTheWay, ConnectedToFirst, Over
  <1> QED  BY <1>4, <1>5, <1>6, <1>7, <1>8

\* The second connect and its retries, on a descriptor that is connected.
LEMMA RetryStep ==
    ASSUME IInv,
           ConnectAgain \/ SelectWritable \/ SelectInterrupted \/ RetryConnected \/ RetryConnect
    PROVE  IInv'
  <1>1. /\ TypeOK /\ IsFiniteSet(open) /\ FewDescriptors /\ Connected
    BY DEF IInv, ConnectedOnTheWay, ConnectAgain, SelectWritable, SelectInterrupted, RetryConnected, RetryConnect
  <1>2. UNCHANGED <<addrs, ipv6, resolves, calls, fd, open, linked, refused, next, invalid>>
    BY DEF ConnectAgain, SelectWritable, SelectInterrupted, RetryConnected, RetryConnect, connectVars
  <1>3. Connected' /\ FewDescriptors' /\ IsFiniteSet(open')
    BY <1>1, <1>2 DEF Connected, RightFamily, FewDescriptors
  <1>4. /\ state' \in {"select", "retry", "over"} /\ answer' \in ErrorCode \cup {"pending"}
        /\ errno' \in {"none", "isconn", "intr"} /\ success' \in BOOLEAN
    BY <1>1 DEF ConnectAgain, SelectWritable, SelectInterrupted, RetryConnected, RetryConnect,
                Post, connectVars, TypeOK, ErrorCode
  <1>5. tries' \in 0 .. MaxRetry
    BY <1>1, Typed, SMTT(60) DEF ConnectAgain, SelectWritable, SelectInterrupted, RetryConnected, RetryConnect, TypeOK
  <1>6. TypeOK'
    BY <1>1, <1>2, <1>4, <1>5 DEF TypeOK, States
  <1> QED
    BY <1>3, <1>4, <1>6 DEF IInv, TestedInVain, ConnectedOnTheWay, ConnectedToFirst

LEMMA StepIInv ==
    ASSUME IInv, [Next]_vars
    PROVE  IInv'
  <1>1. CASE UNCHANGED vars
    BY <1>1 DEF vars, IInv, TypeOK, FewDescriptors, TestedInVain, ConnectedOnTheWay,
                ConnectedToFirst, Connected, RightFamily, Over
  <1>2. CASE Next
    BY <1>2, ResolveStep, CallStep, TestStep, RetryStep DEF Next
  <1> QED  BY <1>1, <1>2

-----------------------------------------------------------------------------
\* The inductive invariant holds always.
THEOREM Invariance == Spec => []IInv
  BY InitIInv, StepIInv, PTL DEF Spec

\* The types hold always: in particular a connected descriptor is open.
THEOREM TypeCorrect == Spec => []TypeOK
  <1>1. IInv => TypeOK
    BY DEF IInv
  <1> QED  BY <1>1, Invariance, PTL

\* Whatever fails and however often the calls are repeated with one context, a connect
\* that reports success is to the first address of the family that answered.
THEOREM FirstConnected == Spec => []ConnectedToFirst
  <1>1. IInv => ConnectedToFirst
    BY DEF IInv
  <1> QED  BY <1>1, Invariance, PTL

\* A resolution or a connect leaves one more descriptor open at most.
THEOREM DescriptorsBounded == Spec => []FewDescriptors
  <1>1. IInv => FewDescriptors
    BY DEF IInv
  <1> QED  BY <1>1, Invariance, PTL

\* Only when all addresses of the family were tried in vain is the flag set that makes
\* connects report that none is available.
THEOREM FirstRefusalTrue == Spec => FirstRefusalIsTrue
  <1>1. ASSUME IInv, [Next]_vars, ~invalid, invalid'
        PROVE  \A i \in DOMAIN addrs : RightFamily(i) => i \in refused'
    <2>1. AllInvalid
      BY <1>1 DEF Next, vars, ResolverInvalid, ResolverThrows, ResolverNoSocket, Resolved, Resolve,
                  TryConnect, TryRefused, TryUnset, Call, SkipAddress, TestThrows, TestConnects, TestFails, Testing,
                  ConnectAgain, SelectWritable, SelectInterrupted, RetryConnected, RetryConnect
    <2>2. state = "test" /\ next > Len(addrs) /\ refused' = refused
      BY <2>1 DEF AllInvalid
    <2>3. \A j \in 1 .. next - 1 : RightFamily(j) => j \in refused
      BY <1>1, <2>2 DEF IInv, TestedInVain
    <2>4. DOMAIN addrs \subseteq 1 .. next - 1
      BY <1>1, <2>2, Typed DEF IInv
    <2> QED  BY <2>2, <2>3, <2>4
  <1>2. IInv /\ [Next]_vars => [~invalid /\ invalid' => \A i \in DOMAIN addrs : RightFamily(i) => i \in refused']_vars
    BY <1>1
  <1> QED  BY <1>2, Invariance, PTL DEF Spec, FirstRefusalIsTrue

-----------------------------------------------------------------------------
\* What async_try_connect_tcp does by itself, once it is called.
Proceed ==
    \/ SkipAddress \/ TestThrows \/ TestConnects \/ TestFails \/ AllInvalid
    \/ ConnectAgain \/ SelectWritable \/ SelectInterrupted \/ RetryConnected \/ RetryConnect

\* It is over, or has followed a pointer that nobody assigned.
Ended == Idle \/ state = "undefined"

\* An upper bound of the steps it still takes: one for each address it has not looked at, one
\* for each try, and those between.
StepsLeft ==
    CASE Ended -> 0
      [] state = "retry" -> MaxRetry - tries + 1
      [] state = "select" -> MaxRetry + 3
      [] state = "again" -> MaxRetry + 4
      [] state = "test" -> MaxRetry + 5 + (Len(addrs) + 1 - next)

\* M_retryTcpConnect's loop always has a try left, so that one of its branches is taken; the
\* tries are counted there alone.
TryLeft ==
    /\ state \in {"test", "again", "select"} => tries = 0
    /\ state = "retry" => tries < MaxRetry

LEMMA Proceeds ==
    ASSUME IInv, Proceed
    PROVE  StepsLeft' < StepsLeft
  <1>1. /\ Len(addrs) \in Nat /\ next \in 1 .. Len(addrs) + 1
        /\ MaxRetry \in Nat /\ tries \in 0 .. MaxRetry
    BY Typed DEF IInv, TypeOK
  <1> USE <1>1
  <1>2. CASE SkipAddress \/ TestFails
    <2>1. /\ state = "test" /\ state' = "test" /\ next <= Len(addrs) /\ next' = next + 1 /\ addrs' = addrs
      BY <1>2 DEF SkipAddress, TestFails, Testing, connectVars
    <2> QED  BY <2>1 DEF StepsLeft, Ended, Idle
  <1>3. CASE TestThrows \/ TestConnects \/ AllInvalid
    <2>1. state = "test" /\ state' \in {"over", "again"}
      BY <1>3 DEF TestThrows, TestConnects, AllInvalid, Testing, Tried, Post
    <2> QED  BY <2>1 DEF StepsLeft, Ended, Idle
  <1>4. CASE ConnectAgain
    BY <1>4 DEF ConnectAgain, StepsLeft, Ended, Idle
  <1>5. CASE SelectWritable \/ SelectInterrupted
    <2>1. state = "select" /\ state' \in {"over", "retry"} /\ tries' = tries
      BY <1>5 DEF SelectWritable, SelectInterrupted, Post
    <2> QED  BY <2>1 DEF StepsLeft, Ended, Idle
  <1>6. CASE RetryConnected \/ RetryConnect
    <2>1. /\ state = "retry"
          /\ state' = "over" \/ (state' = "retry" /\ tries' = tries + 1)
      BY <1>6 DEF RetryConnected, RetryConnect, Post
    <2> QED  BY <2>1 DEF StepsLeft, Ended, Idle
  <1> QED  BY <1>2, <1>3, <1>4, <1>5, <1>6 DEF Proceed

LEMMA TryLeftStep == ASSUME IInv, TryLeft, [Next]_vars PROVE TryLeft'
  <1>1. MaxRetry \in Nat \ {0} /\ tries \in Nat
    BY Typed, ConnectAssumption DEF IInv
  <1> USE <1>1
  <1>2. CASE ResolverInvalid \/ ResolverThrows \/ ResolverNoSocket \/ Resolved \/ TryConnect \/ TryRefused \/ TryUnset
    BY <1>2 DEF ResolverInvalid, ResolverThrows, ResolverNoSocket, Resolved, TryConnect, TryRefused, TryUnset, Call, Post, TryLeft
  <1>3. CASE SkipAddress \/ TestThrows \/ TestConnects \/ TestFails \/ AllInvalid
    BY <1>3 DEF SkipAddress, TestThrows, TestConnects, TestFails, AllInvalid, Testing, Tried, Post, TryLeft
  <1>4. CASE ConnectAgain \/ SelectWritable \/ SelectInterrupted
    BY <1>4 DEF ConnectAgain, SelectWritable, SelectInterrupted, Post, TryLeft
  <1>5. CASE RetryConnected \/ RetryConnect
    BY <1>5 DEF RetryConnected, RetryConnect, Post, TryLeft
  <1>6. CASE UNCHANGED vars
    BY <1>6 DEF vars, TryLeft
  <1> QED  BY <1>2, <1>3, <1>4, <1>5, <1>6 DEF Next

\* async_try_connect_tcp is over after a bounded number of steps, whatever fails on the way and
\* however often the calls are repeated, and its retry loop does not run out of tries
\* before it answers: but for a call before any resolution, which may follow the uninitialised
\* pointer to the list.  (CallAnswered says so of a small instance.)
THEOREM CallsAreShort ==
  Spec => /\ [](StepsLeft \in 0 .. Len(addrs) + MaxRetry + 5 /\ (StepsLeft = 0 <=> Ended) /\ TryLeft)
          /\ [][Proceed => StepsLeft' < StepsLeft]_vars
  <1>1. IInv => StepsLeft \in 0 .. Len(addrs) + MaxRetry + 5 /\ (StepsLeft = 0 <=> Ended)
    <2> SUFFICES ASSUME IInv PROVE StepsLeft \in 0 .. Len(addrs) + MaxRetry + 5 /\ (StepsLeft = 0 <=> Ended)
      OBVIOUS
    <2>1. /\ Len(addrs) \in Nat /\ next \in 1 .. Len(addrs) + 1 /\ state \in States
          /\ MaxRetry \in Nat /\ tries \in 0 .. MaxRetry
      BY Typed DEF IInv, TypeOK
    <2>2. PICK length \in Nat : length = Len(addrs)
      BY <2>1
    <2>3. next \in Nat /\ 1 <= next /\ next <= length + 1 /\ tries \in Nat /\ tries <= MaxRetry
      BY <2>1, <2>2
    <2>4. CASE Ended
      <3>1. StepsLeft = 0
        BY <2>4 DEF StepsLeft, Ended, Idle
      <3>2. 0 \in 0 .. length + MaxRetry + 5
        BY <2>1
      <3> QED  BY <2>2, <2>4, <3>1, <3>2
    <2>5. CASE state = "retry"
      <3>1. ~Ended /\ StepsLeft = MaxRetry - tries + 1
        BY <2>5 DEF StepsLeft, Ended, Idle
      <3>2. MaxRetry - tries + 1 \in 1 .. length + MaxRetry + 5
        BY <2>1, <2>3
      <3> QED  BY <2>1, <2>2, <3>1, <3>2
    <2>6. CASE state = "select"
      <3>1. ~Ended /\ StepsLeft = MaxRetry + 3
        BY <2>6 DEF StepsLeft, Ended, Idle
      <3>2. MaxRetry + 3 \in 1 .. length + MaxRetry + 5
        BY <2>1
      <3> QED  BY <2>1, <2>2, <3>1, <3>2
    <2>7. CASE state = "again"
      <3>1. ~Ended /\ StepsLeft = MaxRetry + 4
        BY <2>7 DEF StepsLeft, Ended, Idle
      <3>2. MaxRetry + 4 \in 1 .. length + MaxRetry + 5
        BY <2>1
      <3> QED  BY <2>1, <2>2, <3>1, <3>2
    <2>8. CASE state = "test"
      <3>1. ~Ended /\ StepsLeft = MaxRetry + 5 + (length + 1 - next)
        BY <2>2, <2>8 DEF StepsLeft, Ended, Idle
      <3>2. MaxRetry + 5 + (length + 1 - next) \in 1 .. length + MaxRetry + 5
        BY <2>1, <2>3
      <3> QED  BY <2>1, <2>2, <3>1, <3>2
    <2> QED  BY <2>1, <2>4, <2>5, <2>6, <2>7, <2>8 DEF Ended, Idle, States
  <1>2. IInv /\ [Next]_vars => [Proceed => StepsLeft' < StepsLeft]_vars
    BY Proceeds
  <1>3. Init => TryLeft
    BY DEF Init, TryLeft
  <1> QED  BY <1>1, <1>2, <1>3, TryLeftStep, Invariance, PTL DEF Spec
=============================================================================
