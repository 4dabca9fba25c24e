------------------------ MODULE TcpConnectionProofs ------------------------
(***************************************************************************)
(* TcpConnection for streams and messages of any length, any delimiters, cache *)
(* sizes and send buffers, and any number of tries and calls: no byte of a     *)
(* read is lost, results are what they say they are, and each call is          *)
(* answered once.                                                          *)
(***************************************************************************)
EXTENDS TcpConnection, ReceiveSideProofs

\* What all calls share.
SharedTypes ==
    /\ task \in {"none", "until", "read", "write"}
    /\ calls \in 0 .. MaxCalls
    /\ KernelTypeOK
    /\ readable \in 0 .. MaxKept + StreamLen
    /\ room \in 0 .. MaxRoom

\* A call's callback is posted when its task ends, and not before.
PostedAtEnd ==
    task # "none" => IF state = "posted" THEN posted = <<posted[1]>> ELSE posted = <<>>

\* The errors of recv and select.
Failures == {"again", "intr", "reset"}

\* async_read_until: the bytes taken are in the buffer, those of the result as well.  For a
\* worker that starts with EAGAIN or EINTR: errno stays a failure that the retry loop
\* tells apart, and what is given up after a reset was searched for the delimiter.
UntilInv ==
    /\ Until!TypeOK
    /\ readable = taken
    /\ state = "posted" => posted[1].readable = taken
    /\ state = "CLOSE" => peer # "open"
    /\ state \in {"VERIFY", "READING"} => errno = stale
    /\ stale \in {"again", "intr"} =>
        /\ errno \in Failures
        /\ state = "READING" => ~Until!DelimiterIn(readable)
        /\ state \in {"ERROR", "retry"} /\ errno = "reset" => ~Until!DelimiterIn(readable)
        /\ Until!SuccessIsComplete
        /\ Until!OnlyLastTryOverlooks

\* async_read: the bytes kept and taken are in the buffer, those of the result as well.
\* ERROR is reached by a failure, and a retry begins with a try left.
ReadInv ==
    /\ Read!TypeOK
    /\ readable = kept + taken
    /\ state = "posted" => posted[1].readable = kept + taken
    /\ state = "CLOSE" => peer # "open"
    /\ state = "DONE" => readable >= cacheSize
    /\ state \in {"ERROR", "retry"} => errno \in Failures
    /\ state = "retry" => tries < MaxRetry
    /\ Read!DoneMeansEnough

\* async_write: the count is the kernel's and below the length until the task ends.  The
\* retry's own count is -1 as a size_t throughout: it never writes.
WriteInv ==
    /\ Write!TypeOK
    /\ total = sent
    /\ state # "posted" => bytes > 0 /\ sent < len
    /\ state = "retry" => offset = SizeMax
    /\ Write!SuccessIsComplete

\* The inductive invariant.
IInv ==
    /\ SharedTypes
    /\ PostedAtEnd
    /\ task = "until" => UntilInv
    /\ task = "read" => ReadInv
    /\ task = "write" => WriteInv

-----------------------------------------------------------------------------
(* The operators.                                                          *)

\* Sums of bounded numbers.
LEMMA SumInRange ==
    /\ \A a, b, c, d : a \in Nat /\ b \in Nat /\ c \in Nat /\ d \in Nat /\ a <= c /\ b <= d => a + b \in 0 .. c + d
    /\ \A a : a \in Nat => a + 0 = a
  OBVIOUS

\* The bounds of all three calls.
LEMMA Constants ==
    /\ StreamLen \in Nat /\ StartErrnos \subseteq Errno
    /\ CacheSize \in Nat \ {0} /\ RetrySize \in Nat \ {0} /\ MaxRetry \in Nat \ {0} /\ Ends \subseteq Nat
    /\ RecvSize \in Nat \ {0} /\ RecvRetrySize \in Nat \ {0} /\ DefaultSize \in Nat \ {0}
    /\ CacheSizes \subseteq Nat /\ MaxKept \in Nat
    /\ MaxLen \in Nat \ {0} /\ MaxRoom \in Nat \ {0} /\ SizeMax \in Nat \ {0} /\ MaxLen < SizeMax
    /\ MaxCalls \in Nat
  BY ReceiveAssumption, ConnectionAssumption
  DEF Until!ReadUntilAssumption, Read!ReadAssumption, Write!WriteAssumption

\* A first callback.
LEMMA FirstPosted ==
    ASSUME posted = <<>>, NEW R, NEW r \in R, posted' = Append(posted, r)
    PROVE  posted' = <<r>> /\ posted' = <<posted'[1]>> /\ posted'[1] = r /\ posted' \in Seq(R) /\ posted' # <<>>
  OBVIOUS

-----------------------------------------------------------------------------
LEMMA InitIInv == Init => IInv
  BY Constants DEF Init, KernelInit, IInv, SharedTypes, PostedAtEnd, KernelTypeOK

-----------------------------------------------------------------------------
(* async_read_until.                                                       *)

LEMMA CallUntilStep == ASSUME IInv, CallUntil PROVE IInv'
  <1>1. BeginCall
    BY DEF CallUntil, Until!Call, Until!BeginCall, BeginCall
  <1>2. KernelTypeOK' /\ taken' = 0
    BY <1>1, BeginTypes DEF IInv, SharedTypes
  <1>3. /\ task' = "until" /\ calls' \in 0 .. MaxCalls /\ UNCHANGED room
        /\ stale' = errno' /\ end' \in Ends /\ state' = "VERIFY" /\ tries' = 0 /\ readable' = 0 /\ posted' = <<>>
    BY Constants DEF CallUntil, Calls, Until!Call, IInv, SharedTypes
  <1>4. Until!TypeOK'
    BY <1>2, <1>3, Constants DEF Until!TypeOK, KernelTypeOK, Until!KernelTypeOK, Errno, Until!Errno
  <1>5. UntilInv'
    BY <1>2, <1>3, <1>4 DEF UntilInv, Until!SuccessIsComplete, Until!OnlyLastTryOverlooks, Until!Ended, Failures
  <1> QED
    BY <1>2, <1>3, <1>5, Constants, SMTT(60) DEF IInv, SharedTypes, PostedAtEnd

\* What the task's steps have in common.
UntilStepTypes ==
    /\ KernelTypeOK'
    /\ UNCHANGED <<task, stale, end>>
    /\ tries' \in 0 .. MaxRetry
    /\ readable' = taken'
    /\ stale \in {"again", "intr"} => errno' \in Failures

\* The task ends: what its result must satisfy.
LEMMA UntilPosts ==
    ASSUME UntilInv, task = "until", posted = <<>>, UntilStepTypes,
           NEW ec \in Errno, NEW size \in {0, readable'}, Until!Post(ec, size, readable'),
           stale \in {"again", "intr"} =>
             /\ ec = "none" => Until!DelimiterIn(readable') \/ peer' # "open"
             /\ ec # "none" /\ Until!DelimiterIn(readable') => tries' = MaxRetry
    PROVE  UntilInv' /\ PostedAtEnd'
  <1> DEFINE r == [ec |-> ec, size |-> size, readable |-> readable']
             R == [ec : Errno, size : 0 .. StreamLen, readable : 0 .. StreamLen]
  <1>1. readable' \in 0 .. StreamLen
    BY Constants DEF UntilStepTypes, KernelTypeOK
  <1>2. r \in R
    BY <1>1, Constants
  <1>3. state' = "posted" /\ posted' = Append(posted, r)
    BY DEF Until!Post
  <1>4. posted' = <<posted'[1]>> /\ posted'[1] = r /\ posted' \in Seq(R)
    <2> HIDE DEF r, R
    <2> QED  BY <1>2, <1>3, FirstPosted
  <1>5. Until!TypeOK'
    BY <1>1, <1>3, <1>4
    DEF UntilInv, UntilStepTypes, Until!TypeOK, KernelTypeOK, Until!KernelTypeOK, Errno, Until!Errno
  <1>6. posted'[1].ec = ec /\ posted'[1].readable = readable'
    BY <1>4
  <1> HIDE DEF r, R
  <1>7. stale' \in {"again", "intr"} => Until!SuccessIsComplete' /\ Until!OnlyLastTryOverlooks'
    BY <1>6 DEF Until!SuccessIsComplete, Until!OnlyLastTryOverlooks, Until!Result, Until!DelimiterIn, UntilStepTypes
  <1>8. UntilInv'
    BY <1>3, <1>5, <1>6, <1>7 DEF UntilInv, UntilStepTypes
  <1> QED  BY <1>3, <1>4, <1>8 DEF PostedAtEnd

\* The task goes on.
LEMMA UntilGoesOn ==
    ASSUME UntilInv, task = "until", posted = <<>>, UntilStepTypes, UNCHANGED posted,
           state' \in {"VERIFY", "READING", "ERROR", "CLOSE", "retry"},
           state' = "CLOSE" => peer' # "open",
           state' \in {"VERIFY", "READING"} => errno' = stale,
           stale \in {"again", "intr"} =>
             /\ state' = "READING" => ~Until!DelimiterIn(readable')
             /\ state' \in {"ERROR", "retry"} /\ errno' = "reset" => ~Until!DelimiterIn(readable')
    PROVE  UntilInv' /\ PostedAtEnd'
  <1>1. readable' \in 0 .. StreamLen
    BY Constants DEF UntilStepTypes, KernelTypeOK
  <1>2. Until!TypeOK'
    BY <1>1
    DEF UntilInv, UntilStepTypes, Until!TypeOK, KernelTypeOK, Until!KernelTypeOK, Errno, Until!Errno
  <1>3. UntilInv'
    BY <1>2 DEF UntilInv, UntilStepTypes, Until!SuccessIsComplete, Until!OnlyLastTryOverlooks, Until!Ended, Until!DelimiterIn
  <1> QED  BY <1>3 DEF PostedAtEnd

\* A step of async_read_until, whatever state it is in.
LEMMA UntilTaskStep ==
    ASSUME KernelTypeOK, UntilInv, PostedAtEnd, task = "until", UNCHANGED task, Until!Task
    PROVE  UntilInv' /\ PostedAtEnd' /\ KernelTypeOK' /\ readable' = taken'
  <1>1. /\ tries \in 0 .. MaxRetry /\ MaxRetry \in Nat \ {0} /\ readable = taken /\ stale \in Errno
        /\ taken \in 0 .. StreamLen /\ StreamLen \in Nat /\ errno \in Errno /\ end \in Nat
    BY Constants DEF UntilInv, Until!TypeOK, KernelTypeOK, Errno, Until!Errno
  <1>2. posted = <<>> /\ state # "posted"
    BY DEF PostedAtEnd, Until!Task, Until!Verify, Until!SelectFails, Until!Reading, Until!Error, Until!Close,
           Until!RetryExhausted, Until!RetryConnected, Until!RetryImpossible, Until!RetryFound, Until!RetryRead,
           Until!Retriable
  <1>3. "none" \in Errno
    BY DEF Errno
  <1> USE <1>1, <1>2, <1>3
  <1>4. CASE Until!Verify
    <2>1. UntilStepTypes
      BY <1>4 DEF Until!Verify, UntilStepTypes, Until!kernelVars, Until!untilVars, UntilInv, KernelTypeOK
    <2>2. CASE Until!DelimiterIn(readable)
      <3>1. Until!Post("none", readable', readable') /\ UNCHANGED <<readable, end>>
        BY <1>4, <2>2 DEF Until!Verify, Until!untilVars, Until!Post
      <3> QED  BY <2>1, <2>2, <3>1, UntilPosts DEF Until!DelimiterIn, UntilStepTypes
    <2>3. CASE ~Until!DelimiterIn(readable)
      <3>1. state' = "READING" /\ UNCHANGED <<posted, readable, end, errno>>
        BY <1>4, <2>3 DEF Until!Verify, Until!untilVars, Until!kernelVars
      <3>2. errno' = stale
        BY <1>4, <3>1 DEF Until!Verify, UntilInv
      <3> QED  BY <2>1, <2>3, <3>1, <3>2, UntilGoesOn DEF Until!DelimiterIn, UntilStepTypes
    <2> QED  BY <2>1, <2>2, <2>3 DEF UntilStepTypes
  <1>5. CASE Until!SelectFails
    <2>1. KernelTypeOK' /\ errno' = "intr" /\ UNCHANGED <<arrived, taken, peer>>
      BY <1>5, InterruptedTypes DEF Until!SelectFails, Until!SelectInterrupted, SelectInterrupted
    <2>2. UntilStepTypes /\ state' = "ERROR" /\ UNCHANGED posted
      BY <1>5, <2>1 DEF Until!SelectFails, UntilStepTypes, Until!untilVars, Failures
    <2> QED  BY <2>1, <2>2, UntilGoesOn DEF UntilStepTypes
  <1>6. CASE Until!Reading
    <2>1. PICK n \in RecvResults(CacheSize) :
            /\ Recv(CacheSize, n)
            /\ state' = IF n = 0 THEN "CLOSE" ELSE "ERROR"
            /\ readable' = IF n > 0 THEN readable + n ELSE readable
      BY <1>6 DEF Until!Reading, Until!RecvResults, RecvResults, Until!Recv, Recv, Until!Unread, Unread, Until!Min, Min
    <2>2. Received(n)
      BY <2>1, RecvReceives, Constants
    <2>3. UntilStepTypes /\ UNCHANGED posted
      BY <1>6, <2>1, <2>2 DEF Until!Reading, UntilStepTypes, Until!untilVars, Received, UntilInv, Failures
    <2>4. stale \in {"again", "intr"} /\ errno' = "reset" => ~Until!DelimiterIn(readable')
      BY <1>6, <2>1, <2>2, <2>3 DEF Until!Reading, UntilInv, Received, Until!DelimiterIn, UntilStepTypes
    <2> QED  BY <2>1, <2>2, <2>3, <2>4, UntilGoesOn DEF Received, UntilStepTypes
  <1>7. CASE Until!Error \/ Until!Close
    <2>1. UntilStepTypes /\ UNCHANGED <<readable, end, errno, peer>>
      BY <1>7 DEF Until!Error, Until!Close, UntilStepTypes, Until!kernelVars, Until!untilVars, UntilInv, KernelTypeOK
    <2>2. CASE Until!Error
      <3>1. state' = "retry" /\ UNCHANGED posted
        BY <2>2 DEF Until!Error
      <3>2. stale \in {"again", "intr"} /\ errno' = "reset" => ~Until!DelimiterIn(readable')
        BY <2>1, <2>2 DEF Until!Error, UntilInv, Until!DelimiterIn
      <3> QED  BY <2>1, <3>1, <3>2, UntilGoesOn DEF UntilStepTypes
    <2>3. CASE Until!Close
      <3>1. Until!Post("none", readable', readable') /\ peer' # "open"
        BY <2>1, <2>3 DEF Until!Close, Until!Post, UntilInv
      <3> QED  BY <2>1, <3>1, UntilPosts DEF UntilStepTypes
    <2> QED  BY <1>7, <2>2, <2>3
  <1>8. CASE Until!RetryExhausted \/ Until!RetryConnected \/ Until!RetryImpossible
    <2>1. UntilStepTypes /\ UNCHANGED <<readable, end, errno, peer, tries>> /\ state = "retry"
      BY <1>8 DEF Until!RetryExhausted, Until!RetryConnected, Until!RetryImpossible,
                  UntilStepTypes, Until!kernelVars, Until!untilVars, UntilInv, KernelTypeOK
    <2>2. CASE Until!RetryExhausted
      <3>1. Until!Post(errno, 0, readable') /\ tries' = MaxRetry
        BY <2>1, <2>2 DEF Until!RetryExhausted, Until!RetryFailed, Until!Post
      <3>2. stale \in {"again", "intr"} => errno # "none"
        BY DEF UntilInv, Failures
      <3> QED  BY <2>1, <3>1, <3>2, UntilPosts DEF UntilStepTypes
    <2>3. CASE Until!RetryConnected
      <3>1. Until!Post("none", readable', readable')
        BY <2>1, <2>3 DEF Until!RetryConnected, Until!RetrySuccess, Until!Post
      <3>2. stale \notin {"again", "intr"}
        BY <2>3 DEF Until!RetryConnected, UntilInv, Failures
      <3> QED  BY <2>1, <3>1, <3>2, UntilPosts DEF UntilStepTypes
    <2>4. CASE Until!RetryImpossible
      <3>1. Until!Post(errno, 0, readable')
        BY <2>1, <2>4 DEF Until!RetryImpossible, Until!RetryFailed, Until!Post
      <3>2. stale \in {"again", "intr"} => errno = "reset" /\ ~Until!DelimiterIn(readable')
        BY <2>1, <2>4 DEF Until!RetryImpossible, UntilInv, Failures, Until!DelimiterIn
      <3> QED  BY <2>1, <3>1, <3>2, UntilPosts DEF UntilStepTypes
    <2> QED  BY <1>8, <2>2, <2>3, <2>4
  <1>9. CASE Until!RetryFound
    <2>1. UntilStepTypes /\ UNCHANGED <<readable, end>>
      BY <1>9 DEF Until!RetryFound, Until!Retriable, UntilStepTypes, Until!kernelVars, Until!untilVars, UntilInv,
                  KernelTypeOK
    <2>2. Until!Post("none", readable', readable') /\ Until!DelimiterIn(readable')
      BY <1>9, <2>1 DEF Until!RetryFound, Until!RetrySuccess, Until!Post, Until!DelimiterIn
    <2> QED  BY <2>1, <2>2, UntilPosts DEF UntilStepTypes
  <1>10. CASE Until!RetryRead
    <2>1. PICK n \in RecvResults(RetrySize) : Recv(RetrySize, n) /\ Until!Retried(n)
      BY <1>10 DEF Until!RetryRead, Until!RecvResults, RecvResults, Until!Recv, Recv, Until!Unread, Unread, Until!Min, Min
    <2>2. Received(n) /\ n \in Int
      BY <2>1, RecvReceives, Constants DEF Received
    <2>3. /\ state = "retry" /\ errno \in {"again", "intr"} /\ tries < MaxRetry /\ tries' = tries + 1
          /\ ~(end <= readable) /\ UNCHANGED <<stale, end>>
      BY <1>10 DEF Until!RetryRead, Until!Retriable, Until!untilVars, Until!DelimiterIn
    <2>4. UntilStepTypes
      BY <2>1, <2>2, <2>3 DEF UntilStepTypes, Until!Retried, Received, Failures
    <2>5. CASE n > 0
      <3>1. UNCHANGED <<state, posted>>
        <4>1. n > 0 /\ ~(n = 0) /\ ~(n < 0)
          BY <2>5, <2>2
        <4> QED  BY <2>1, <4>1, Zenon DEF Until!Retried
      <3>2. errno' # "reset"
        BY <2>2, <2>3, <2>5 DEF Received
      <3> QED  BY <2>3, <2>4, <3>1, <3>2, UntilGoesOn DEF UntilStepTypes
    <2>6. CASE n = 0
      <3>1. UNCHANGED readable /\ errno' = errno /\ peer' # "open"
        BY <2>1, <2>2, <2>6 DEF Until!Retried, Received
      <3>2. CASE readable # 0
        <4>1. Until!Post("none", readable', readable')
          BY <2>1, <2>6, <3>1, <3>2 DEF Until!Retried, Until!RetrySuccess, Until!Post
        <4> QED  BY <2>4, <3>1, <4>1, UntilPosts DEF UntilStepTypes
      <3>3. CASE readable = 0
        <4>1. Until!Post(errno', 0, readable')
          BY <2>1, <2>6, <3>1, <3>3 DEF Until!Retried, Until!RetryFailed, Until!Post
        <4>2. errno' \in Errno /\ errno' # "none" /\ ~Until!DelimiterIn(readable')
          BY <2>3, <3>1 DEF Until!DelimiterIn
        <4> QED  BY <2>4, <4>1, <4>2, UntilPosts DEF UntilStepTypes
      <3> QED  BY <3>2, <3>3
    <2>7. CASE n < 0
      <3>1. UNCHANGED readable /\ errno' \in {"again", "reset"} /\ errno' \in Errno
        BY <2>1, <2>2, <2>7 DEF Until!Retried, Received, KernelTypeOK
      <3>2. ~Until!DelimiterIn(readable')
        BY <2>3, <3>1 DEF Until!DelimiterIn
      <3>3. CASE tries' >= MaxRetry
        <4>1. Until!Post(errno', 0, readable')
          BY <2>1, <2>7, <3>1, <3>3 DEF Until!Retried, Until!RetryFailed, Until!Post
        <4> QED  BY <2>4, <3>1, <3>2, <4>1, UntilPosts DEF UntilStepTypes
      <3>4. CASE ~(tries' >= MaxRetry)
        <4>1. UNCHANGED <<state, posted>>
          BY <2>1, <2>7, <3>4 DEF Until!Retried
        <4> QED  BY <2>3, <2>4, <3>2, <4>1, UntilGoesOn DEF UntilStepTypes
      <3> QED  BY <3>3, <3>4
    <2> QED  BY <2>2, <2>4, <2>5, <2>6, <2>7 DEF UntilStepTypes
  <1> QED
    BY <1>4, <1>5, <1>6, <1>7, <1>8, <1>9, <1>10 DEF Until!Task

LEMMA UntilTaskOfConnection == ASSUME IInv, UntilTask PROVE IInv'
  <1>1. KernelTypeOK /\ UntilInv /\ PostedAtEnd /\ task = "until" /\ UNCHANGED <<task, calls, room>> /\ Until!Task
    BY DEF IInv, SharedTypes, UntilTask, Works
  <1>2. UntilInv' /\ PostedAtEnd' /\ KernelTypeOK' /\ readable' = taken'
    BY <1>1, UntilTaskStep
  <1>3. readable' \in 0 .. MaxKept + StreamLen
    BY <1>2, Constants DEF KernelTypeOK
  <1> QED  BY <1>1, <1>2, <1>3 DEF IInv, SharedTypes

-----------------------------------------------------------------------------
(* async_read.                                                             *)

LEMMA CallReadStep == ASSUME IInv, CallRead PROVE IInv'
  <1>1. BeginCall
    BY DEF CallRead, Read!Call, Read!BeginCall, BeginCall
  <1>2. KernelTypeOK' /\ taken' = 0
    BY <1>1, BeginTypes DEF IInv, SharedTypes
  <1>3. /\ task' = "read" /\ calls' \in 0 .. MaxCalls /\ UNCHANGED room
        /\ state' = "READING" /\ tries' = 0 /\ readable' = kept' /\ posted' = <<>>
    BY Constants DEF CallRead, Calls, Read!Call, IInv, SharedTypes
  <1>4. kept' \in 0 .. MaxKept
    <2>1. kept' \in 0 .. Min({readable, MaxKept})
      BY DEF CallRead, Read!Call, Read!Min, Min
    <2>2. readable \in Nat
      BY Constants DEF IInv, SharedTypes
    <2> QED  BY <2>1, <2>2, MinOfTwo, Constants
  <1>5. cacheSize' \in Nat \ {0}
    BY Constants DEF CallRead, Read!Call
  <1>6. Read!TypeOK' /\ readable' \in 0 .. MaxKept + StreamLen
    BY <1>2, <1>3, <1>4, <1>5, Constants
    DEF Read!TypeOK, KernelTypeOK, Read!KernelTypeOK, Errno, Read!Errno, Read!MaxReadable
  <1>7. readable' = kept' + taken'
    <2>1. kept' \in Nat
      BY <1>4, Constants
    <2>2. kept' + 0 = kept'
      BY <2>1, SumInRange
    <2> QED  BY <1>2, <1>3, <2>2
  <1>8. ReadInv'
    BY <1>2, <1>3, <1>6, <1>7 DEF ReadInv, Read!DoneMeansEnough, Read!Ended
  <1> QED
    BY <1>2, <1>3, <1>6, <1>8 DEF IInv, SharedTypes, PostedAtEnd

\* What the task's steps have in common.
ReadStepTypes ==
    /\ KernelTypeOK'
    /\ UNCHANGED <<task, cacheSize, kept>>
    /\ tries' \in 0 .. MaxRetry
    /\ readable' = kept' + taken'

\* The task ends: what its result must satisfy.
LEMMA ReadPosts ==
    ASSUME ReadInv, task = "read", posted = <<>>, ReadStepTypes,
           NEW ec \in Errno, NEW size \in {0, readable'}, Read!Post(ec, size, readable'),
           ec = "none" /\ tries' = 0 => readable' >= cacheSize \/ peer' # "open"
    PROVE  ReadInv' /\ PostedAtEnd' /\ readable' \in 0 .. MaxKept + StreamLen
  <1> DEFINE r == [ec |-> ec, size |-> size, readable |-> readable']
             R == [ec : Errno, size : 0 .. MaxKept + StreamLen, readable : 0 .. MaxKept + StreamLen]
  <1>1. readable' \in 0 .. MaxKept + StreamLen
    <2>1. kept' \in Nat /\ kept' <= MaxKept
      <3>1. kept \in 0 .. MaxKept
        BY DEF ReadInv, Read!TypeOK
      <3> QED  BY <3>1, Constants DEF ReadStepTypes
    <2>2. taken' \in Nat /\ taken' <= StreamLen
      BY Constants DEF ReadStepTypes, KernelTypeOK
    <2> QED  BY <2>1, <2>2, SumInRange, Constants DEF ReadStepTypes
  <1>2. r \in R
    BY <1>1, Constants
  <1>3. state' = "posted" /\ posted' = Append(posted, r)
    BY DEF Read!Post
  <1>4. posted' = <<posted'[1]>> /\ posted'[1] = r /\ posted' \in Seq(R)
    <2> HIDE DEF r, R
    <2> QED  BY <1>2, <1>3, FirstPosted
  <1>5. Read!TypeOK'
    BY <1>1, <1>3, <1>4
    DEF ReadInv, ReadStepTypes, Read!TypeOK, KernelTypeOK, Read!KernelTypeOK, Errno, Read!Errno, Read!MaxReadable
  <1>6. posted'[1].ec = ec /\ posted'[1].readable = readable'
    BY <1>4
  <1> HIDE DEF r, R
  <1>7. Read!DoneMeansEnough'
    BY <1>6 DEF Read!DoneMeansEnough, Read!Result, ReadStepTypes
  <1>8. ReadInv'
    BY <1>3, <1>5, <1>6, <1>7 DEF ReadInv, ReadStepTypes
  <1> QED  BY <1>1, <1>3, <1>4, <1>8 DEF PostedAtEnd

\* The task goes on.
LEMMA ReadGoesOn ==
    ASSUME ReadInv, task = "read", posted = <<>>, ReadStepTypes, UNCHANGED posted,
           state' \in {"READING", "VERIFY", "CLOSE", "ERROR", "DONE", "retry"},
           state' = "CLOSE" => peer' # "open",
           state' = "DONE" => readable' >= cacheSize,
           state' \in {"ERROR", "retry"} => errno' \in Failures,
           state' = "retry" => tries' < MaxRetry
    PROVE  ReadInv' /\ PostedAtEnd' /\ readable' \in 0 .. MaxKept + StreamLen
  <1>1. readable' \in 0 .. MaxKept + StreamLen
    <2>1. kept' \in Nat /\ kept' <= MaxKept
      <3>1. kept \in 0 .. MaxKept
        BY DEF ReadInv, Read!TypeOK
      <3> QED  BY <3>1, Constants DEF ReadStepTypes
    <2>2. taken' \in Nat /\ taken' <= StreamLen
      BY Constants DEF ReadStepTypes, KernelTypeOK
    <2> QED  BY <2>1, <2>2, SumInRange, Constants DEF ReadStepTypes
  <1>2. Read!TypeOK'
    BY <1>1
    DEF ReadInv, ReadStepTypes, Read!TypeOK, KernelTypeOK, Read!KernelTypeOK, Errno, Read!Errno, Read!MaxReadable
  <1>3. ReadInv'
    BY <1>2 DEF ReadInv, ReadStepTypes, Read!DoneMeansEnough, Read!Ended
  <1> QED  BY <1>1, <1>3 DEF PostedAtEnd

\* A step of async_read.
LEMMA ReadTaskStep ==
    ASSUME KernelTypeOK, ReadInv, PostedAtEnd, task = "read", UNCHANGED task, Read!Task
    PROVE  ReadInv' /\ PostedAtEnd' /\ KernelTypeOK' /\ readable' \in 0 .. MaxKept + StreamLen
  <1>1. /\ tries \in 0 .. MaxRetry /\ MaxRetry \in Nat \ {0} /\ readable = kept + taken
        /\ taken \in 0 .. StreamLen /\ kept \in 0 .. MaxKept /\ MaxKept \in Nat /\ StreamLen \in Nat
        /\ errno \in Errno /\ cacheSize \in Nat \ {0}
    BY Constants DEF ReadInv, Read!TypeOK, KernelTypeOK, Errno, Read!Errno
  <1>2. posted = <<>> /\ state # "posted"
    BY DEF PostedAtEnd, Read!Task, Read!Verify, Read!SelectFails, Read!Reading, Read!Error, Read!CloseOrDone,
           Read!RetryImpossible, Read!RetryRecv
  <1>3. "none" \in Errno
    BY DEF Errno
  <1> USE <1>1, <1>2, <1>3
  <1>4. CASE Read!SelectFails
    <2>1. KernelTypeOK' /\ errno' = "intr" /\ UNCHANGED <<arrived, taken, peer>>
      BY <1>4, InterruptedTypes DEF Read!SelectFails, Read!SelectInterrupted, SelectInterrupted
    <2>2. ReadStepTypes /\ state' = "ERROR" /\ UNCHANGED posted
      BY <1>4, <2>1 DEF Read!SelectFails, ReadStepTypes, Read!readVars, Read!Goto
    <2> QED  BY <2>1, <2>2, ReadGoesOn DEF ReadStepTypes, Failures
  <1>5. CASE Read!Reading
    <2>1. PICK n \in RecvResults(RecvSize) :
            /\ Recv(RecvSize, n)
            /\ readable' = IF n > 0 THEN readable + n ELSE readable
            /\ Read!Goto(IF n > 0 THEN "VERIFY" ELSE IF n = 0 THEN "CLOSE" ELSE "ERROR")
      BY <1>5 DEF Read!Reading, Read!RecvResults, RecvResults, Read!Recv, Recv, Read!Unread, Unread, Read!Min, Min
    <2>2. Received(n)
      BY <2>1, RecvReceives, Constants
    <2>3. ReadStepTypes
      BY <1>5, <2>1, <2>2 DEF Read!Reading, ReadStepTypes, Read!readVars, Received
    <2>4. /\ UNCHANGED posted /\ state' \in {"VERIFY", "CLOSE", "ERROR"}
          /\ state' = "CLOSE" => n = 0
          /\ state' = "ERROR" => n < 0
      BY <2>1, <2>2 DEF Read!Goto, Received
    <2> QED  BY <2>2, <2>3, <2>4, ReadGoesOn DEF Received, Failures, ReadStepTypes
  <1>6. CASE Read!Verify \/ Read!Error
    <2>1. ReadStepTypes /\ UNCHANGED <<posted, readable, errno>>
      BY <1>6 DEF Read!Verify, Read!Error, Read!Goto, ReadStepTypes, Read!kernelVars, Read!readVars, KernelTypeOK
    <2>2. CASE Read!Verify
      BY <2>1, <2>2, ReadGoesOn DEF Read!Verify, Read!Goto, ReadStepTypes
    <2>3. CASE Read!Error
      BY <2>1, <2>3, ReadGoesOn DEF Read!Error, Read!Goto, ReadStepTypes, ReadInv
    <2> QED  BY <1>6, <2>2, <2>3
  <1>7. CASE Read!CloseOrDone
    <2>1. ReadStepTypes /\ UNCHANGED <<readable, peer>> /\ Read!Post("none", readable', readable')
      BY <1>7 DEF Read!CloseOrDone, Read!Post, ReadStepTypes, Read!kernelVars, Read!readVars, KernelTypeOK
    <2>2. readable' >= cacheSize \/ peer' # "open"
      BY <1>7, <2>1 DEF Read!CloseOrDone, ReadInv
    <2> QED  BY <2>1, <2>2, ReadPosts DEF ReadStepTypes
  <1>8. CASE Read!RetryImpossible
    <2>1. ReadStepTypes /\ UNCHANGED readable /\ Read!Post(errno, 0, readable')
      BY <1>8 DEF Read!RetryImpossible, Read!RetryFailed, Read!Post, ReadStepTypes, Read!kernelVars, Read!readVars,
                  KernelTypeOK
    <2>2. errno # "none"
      BY <1>8 DEF Read!RetryImpossible, ReadInv, Failures
    <2> QED  BY <2>1, <2>2, ReadPosts DEF ReadStepTypes
  <1>9. CASE Read!RetryRecv
    <2>1. PICK n \in RecvResults(RecvRetrySize) : Recv(RecvRetrySize, n) /\ Read!Retried(n)
      BY <1>9 DEF Read!RetryRecv, Read!RecvResults, RecvResults, Read!Recv, Recv, Read!Unread, Unread, Read!Min, Min
    <2>2. Received(n) /\ n \in Int
      BY <2>1, RecvReceives, Constants DEF Received
    <2>3. /\ state = "retry" /\ errno \in {"again", "intr"} /\ tries < MaxRetry /\ tries' = tries + 1
          /\ UNCHANGED <<cacheSize, kept>>
      BY <1>9 DEF Read!RetryRecv, Read!readVars, ReadInv
    <2>4. ReadStepTypes /\ tries' # 0
      BY <2>1, <2>2, <2>3, SMTT(60) DEF ReadStepTypes, Read!Retried, Received
    <2>5. CASE n > 0
      <3>1. n > 0 /\ ~(n = 0) /\ ~(n < 0)
        BY <2>2, <2>5
      <3>2. IF n < cacheSize /\ MaxRetry > tries' THEN Read!Goto("retry") ELSE Read!RetrySuccess(readable')
        BY <2>1, <3>1, Zenon DEF Read!Retried
      <3>3. CASE n < cacheSize /\ MaxRetry > tries'
        <4>1. state' = "retry" /\ UNCHANGED posted /\ errno' \in Failures /\ tries' < MaxRetry
          BY <2>2, <2>3, <2>5, <3>2, <3>3 DEF Read!Goto, Received, Failures
        <4> QED  BY <2>4, <4>1, ReadGoesOn DEF ReadStepTypes
      <3>4. CASE ~(n < cacheSize /\ MaxRetry > tries')
        <4>1. Read!Post("none", readable', readable')
          BY <3>2, <3>4 DEF Read!RetrySuccess
        <4> QED  BY <2>4, <4>1, ReadPosts DEF ReadStepTypes
      <3> QED  BY <3>3, <3>4
    <2>6. CASE n = 0
      <3>1. Read!Post("none", readable', readable')
        BY <2>1, <2>2, <2>6 DEF Read!Retried, Read!RetrySuccess, Read!Post
      <3> QED  BY <2>4, <3>1, ReadPosts DEF ReadStepTypes
    <2>7. CASE n < 0
      <3>1. Read!Post(errno', 0, readable') /\ errno' \in Errno
        BY <2>1, <2>2, <2>7 DEF Read!Retried, Read!RetryFailed, Read!Post, Received, KernelTypeOK
      <3> QED  BY <2>4, <3>1, ReadPosts DEF ReadStepTypes
    <2> QED  BY <2>2, <2>4, <2>5, <2>6, <2>7 DEF ReadStepTypes
  <1> QED
    BY <1>4, <1>5, <1>6, <1>7, <1>8, <1>9 DEF Read!Task, ReadStepTypes

LEMMA ReadTaskOfConnection == ASSUME IInv, ReadTask PROVE IInv'
  <1>1. KernelTypeOK /\ ReadInv /\ PostedAtEnd /\ task = "read" /\ UNCHANGED <<task, calls, room>> /\ Read!Task
    BY DEF IInv, SharedTypes, ReadTask, Works
  <1> QED  BY <1>1, ReadTaskStep DEF IInv, SharedTypes

-----------------------------------------------------------------------------
(* async_write.                                                            *)

\* An answered write, or one that begins.
LEMMA CallWriteStep == ASSUME IInv, CallWrite PROVE IInv'
  <1>1. BeginCall
    BY DEF CallWrite, Write!Call, Write!BeginCall, BeginCall
  <1>2. KernelTypeOK' /\ taken' = 0
    BY <1>1, BeginTypes DEF IInv, SharedTypes
  <1>3. /\ task' = "write" /\ calls' \in 0 .. MaxCalls /\ UNCHANGED <<room, readable>>
        /\ bytes' \in 0 .. MaxLen /\ len' \in 0 .. bytes'
        /\ sent' = 0 /\ total' = 0 /\ offset' = 0 /\ tries' = 0
        /\ state' = IF len' > 0 THEN "WRITING" ELSE "posted"
        /\ posted' = IF bytes' = 0 THEN <<[ec |-> "bad_file_descriptor", size |-> 0]>>
                     ELSE IF len' = 0 THEN <<[ec |-> "none", size |-> 0]>>
                     ELSE <<>>
    BY Constants DEF CallWrite, Calls, Write!Call, IInv, SharedTypes
  <1> DEFINE R == [ec : Write!ErrorCode, size : 0 .. 2 * MaxLen]
  <1>4. len' \in Nat /\ bytes' \in Nat /\ len' <= bytes' /\ len' <= MaxLen
    BY <1>3, Constants
  <1>5. /\ PostedAtEnd' /\ posted' \in Seq(R)
        /\ Write!SuccessIsComplete'
        /\ state' \in {"WRITING", "posted"} /\ (state' # "posted" => 0 < bytes' /\ 0 < len')
    <2>1. 0 \in 0 .. 2 * MaxLen
      BY Constants
    <2>2. CASE bytes' = 0
      <3> DEFINE r == [ec |-> "bad_file_descriptor", size |-> 0]
      <3>1. r \in R /\ r.ec # "none"
        BY <2>1 DEF Write!ErrorCode
      <3>2. posted' = <<r>> /\ state' = "posted"
        BY <1>3, <2>2
      <3>3. posted'[1] = r
        BY <3>2
      <3> HIDE DEF r, R
      <3> QED  BY <2>2, <3>1, <3>2, <3>3 DEF PostedAtEnd, Write!SuccessIsComplete, Write!Result
    <2>3. CASE bytes' # 0 /\ len' = 0
      <3> DEFINE r == [ec |-> "none", size |-> 0]
      <3>1. r \in R /\ r.ec = "none" /\ r.size = 0
        BY <2>1 DEF Write!ErrorCode
      <3>2. posted' = <<r>> /\ state' = "posted"
        BY <1>3, <2>3
      <3>3. posted'[1] = r
        BY <3>2
      <3> HIDE DEF r, R
      <3> QED  BY <1>3, <2>3, <3>1, <3>2, <3>3 DEF PostedAtEnd, Write!SuccessIsComplete, Write!Result
    <2>4. CASE bytes' # 0 /\ len' # 0
      <3>1. posted' = <<>> /\ state' = "WRITING" /\ 0 < len' /\ 0 < bytes'
        BY <1>3, <1>4, <2>4
      <3> QED  BY <2>4, <3>1 DEF PostedAtEnd, Write!SuccessIsComplete, Write!Ended
    <2> QED  BY <2>2, <2>3, <2>4
  <1>6. Write!TypeOK'
    <2>1. KernelTypeOK' /\ room' \in 0 .. MaxRoom
      BY <1>2, <1>3 DEF IInv, SharedTypes
    <2> QED
      BY <1>3, <1>5, <2>1, Constants
      DEF Write!TypeOK, KernelTypeOK, Write!KernelTypeOK, Errno, Write!Errno, Write!ErrorCode
  <1>7. WriteInv'
    BY <1>3, <1>5, <1>6 DEF WriteInv
  <1> QED
    BY <1>2, <1>3, <1>5, <1>7 DEF IInv, SharedTypes

\* What write does: it sends a part of the rest and something of it, or fails.
LEMMA SendSends ==
    ASSUME KernelTypeOK, room \in 0 .. MaxRoom, sent \in Nat,
           NEW cap \in Nat \ {0}, NEW n \in Write!SendResults, Write!Send(cap, n)
    PROVE  /\ KernelTypeOK' /\ room' \in 0 .. MaxRoom /\ UNCHANGED taken
           /\ n \in Int
           /\ n < 0 => sent' = sent
           /\ n >= 0 => n <= cap /\ sent' = sent + n
  <1>1. n \in Int /\ room \in Nat /\ room <= MaxRoom /\ MaxRoom \in Nat
    BY Constants DEF Write!SendResults
  <1>2. CASE /\ peer # "rst" /\ room > 0
             /\ n = Min({cap, room})
             /\ sent' = sent + n
             /\ room' = room - n
             /\ UNCHANGED errno
    <2>1. n = IF cap <= room THEN cap ELSE room
      BY <1>1, <1>2, MinOfTwo
    <2>2. n > 0 /\ n <= cap /\ n <= room
      BY <1>1, <1>2, <2>1
    <2>3. room - n \in 0 .. MaxRoom
      BY <1>1, <2>2
    <2> QED  BY <1>1, <1>2, <2>2, <2>3 DEF Write!Send, KernelTypeOK
  <1>3. CASE /\ n = -1
             /\ errno' = IF peer = "open" THEN "again" ELSE "reset"
             /\ UNCHANGED <<room, sent>>
    BY <1>1, <1>3 DEF Write!Send, KernelTypeOK, Errno
  <1> QED  BY <1>2, <1>3 DEF Write!Send, Write!sendVars, Write!Min, Min

\* What the task's steps have in common.
WriteStepTypes ==
    /\ KernelTypeOK'
    /\ room' \in 0 .. MaxRoom
    /\ UNCHANGED <<task, bytes, len>>
    /\ tries' \in 0 .. MaxRetry
    /\ offset' \in 0 .. SizeMax
    /\ total' = sent'
    /\ sent' \in Nat /\ sent' <= len

\* The task ends: what its result must satisfy.
LEMMA WritePosts ==
    ASSUME WriteInv, task = "write", state # "posted", posted = <<>>, WriteStepTypes,
           NEW ec \in Write!ErrorCode, NEW size \in 0 .. 2 * MaxLen, Write!Post(ec, size),
           ec = "none" <=> sent' = len,
           ec = "none" => size = sent'
    PROVE  WriteInv' /\ PostedAtEnd'
  <1> DEFINE r == [ec |-> ec, size |-> size]
             R == [ec : Write!ErrorCode, size : 0 .. 2 * MaxLen]
  <1>1. r \in R /\ r.ec = ec /\ r.size = size
    OBVIOUS
  <1>2. state' = "posted" /\ posted' = Append(posted, r)
    BY DEF Write!Post
  <1> HIDE DEF r, R
  <1>3. posted' = <<posted'[1]>> /\ posted'[1] = r /\ posted' \in Seq(R)
    BY <1>1, <1>2, FirstPosted
  <1>4. posted'[1].ec = ec /\ posted'[1].size = size
    BY <1>1, <1>3
  <1>5. len \in 0 .. MaxLen /\ sent' \in 0 .. MaxLen
    BY Constants DEF WriteInv, Write!TypeOK, WriteStepTypes
  <1>6. Write!TypeOK'
    BY <1>2, <1>3, <1>5
    DEF WriteInv, WriteStepTypes, Write!TypeOK, KernelTypeOK, Write!KernelTypeOK, Errno, Write!Errno, R
  <1>7. Write!SuccessIsComplete'
    BY <1>4 DEF Write!SuccessIsComplete, Write!Result, WriteInv, WriteStepTypes
  <1>8. WriteInv'
    BY <1>2, <1>6, <1>7 DEF WriteInv, WriteStepTypes
  <1> QED  BY <1>2, <1>3, <1>8 DEF PostedAtEnd

\* The task goes on.
LEMMA WriteGoesOn ==
    ASSUME WriteInv, task = "write", state # "posted", posted = <<>>, WriteStepTypes, UNCHANGED posted,
           state' \in {"WRITING", "retry"}, sent' < len, state' = "retry" => offset' = SizeMax
    PROVE  WriteInv' /\ PostedAtEnd'
  <1>1. len \in 0 .. MaxLen /\ sent' \in 0 .. MaxLen
    BY Constants DEF WriteInv, Write!TypeOK, WriteStepTypes
  <1>2. Write!TypeOK'
    BY <1>1
    DEF WriteInv, WriteStepTypes, Write!TypeOK, KernelTypeOK, Write!KernelTypeOK, Errno, Write!Errno
  <1>3. WriteInv'
    BY <1>2 DEF WriteInv, WriteStepTypes, Write!SuccessIsComplete, Write!Ended
  <1> QED  BY <1>3 DEF PostedAtEnd

\* -1 as a size_t.
LEMMA MinusOne == Write!AsSizeT(-1) = SizeMax
  <1>1. \A m \in Nat \ {0} : (-1) % m = m - 1
    OBVIOUS
  <1>2. SizeMax + 1 \in Nat \ {0} /\ (SizeMax + 1) - 1 = SizeMax
    BY Constants
  <1> QED  BY <1>1, <1>2 DEF Write!AsSizeT

\* A step of async_write.
LEMMA WriteTaskStep ==
    ASSUME KernelTypeOK, WriteInv, PostedAtEnd, task = "write", UNCHANGED task, Write!Task
    PROVE  WriteInv' /\ PostedAtEnd' /\ KernelTypeOK' /\ room' \in 0 .. MaxRoom
  <1>1. /\ tries \in 0 .. MaxRetry /\ MaxRetry \in Nat \ {0} /\ offset \in 0 .. SizeMax
        /\ room \in 0 .. MaxRoom /\ MaxRoom \in Nat /\ SizeMax \in Nat
        /\ len \in Nat /\ len <= MaxLen /\ MaxLen \in Nat /\ MaxLen < SizeMax
        /\ total = sent /\ sent \in Nat
    BY Constants DEF WriteInv, Write!TypeOK
  <1>2. state # "posted" /\ posted = <<>> /\ bytes > 0 /\ sent < len
    BY DEF PostedAtEnd, WriteInv, Write!Task, Write!Writing, Write!RetryImpossible, Write!RetryTurn, Write!RetryEnd
  <1>3. {"none", "io_error"} \subseteq Write!ErrorCode
    BY DEF Write!ErrorCode
  <1> USE <1>1, <1>2, <1>3
  <1>4. CASE Write!Writing
    <2>1. PICK n \in Write!SendResults :
            /\ Write!Send(len - total, n)
            /\ IF n < 0
               THEN /\ state' = "retry" /\ offset' = Write!AsSizeT(n) /\ tries' = 0
                    /\ UNCHANGED <<total, posted>>
               ELSE /\ total' = total + n
                    /\ IF total + n = len THEN Write!Post("none", len) ELSE UNCHANGED <<state, posted>>
                    /\ UNCHANGED <<offset, tries>>
      BY <1>4 DEF Write!Writing
    <2>2. len - total \in Nat \ {0}
      OBVIOUS
    <2>3. /\ KernelTypeOK' /\ room' \in 0 .. MaxRoom /\ n \in Int
          /\ n < 0 => sent' = sent
          /\ n >= 0 => n <= len - total /\ sent' = sent + n
      BY <2>1, <2>2, SendSends
    <2>4. UNCHANGED <<bytes, len>> /\ state = "WRITING"
      BY <1>4 DEF Write!Writing
    <2>5. CASE n < 0
      <3>1. n = -1
        BY <2>5 DEF Write!SendResults
      <3>2. state' = "retry" /\ offset' = SizeMax /\ tries' = 0 /\ UNCHANGED <<total, posted>>
        BY <2>1, <3>1, MinusOne
      <3>3. WriteStepTypes
        BY <2>3, <2>4, <2>5, <3>2 DEF WriteStepTypes
      <3> QED  BY <2>3, <2>5, <3>2, <3>3, WriteGoesOn
    <2>6. CASE n >= 0
      <3>1. total' = total + n /\ UNCHANGED <<offset, tries>>
        BY <2>1, <2>3, <2>6
      <3>2. sent' = sent + n /\ sent' \in Nat /\ sent' <= len
        BY <2>3, <2>6
      <3>3. WriteStepTypes
        BY <2>3, <2>4, <3>1, <3>2 DEF WriteStepTypes
      <3>4. CASE total + n = len
        <4>1. Write!Post("none", len) /\ len \in 0 .. 2 * MaxLen
          BY <2>1, <2>3, <2>6, <3>4
        <4> QED  BY <2>3, <3>2, <3>3, <3>4, <4>1, WritePosts
      <3>5. CASE total + n # len
        <4>1. UNCHANGED <<state, posted>>
          BY <2>1, <2>3, <2>6, <3>5
        <4>2. sent' < len
          BY <3>2, <3>5
        <4> QED  BY <2>3, <2>4, <3>3, <4>1, <4>2, WriteGoesOn
      <3> QED  BY <3>4, <3>5
    <2> QED  BY <2>3, <2>5, <2>6
  <1>5. CASE Write!RetryImpossible \/ Write!RetryEnd
    <2>1. UNCHANGED <<arrived, taken, peer, errno, room, sent, bytes, len, total, offset, tries>> /\ state = "retry"
      BY <1>5 DEF Write!RetryImpossible, Write!RetryEnd, Write!kernelVars, Write!sendVars, Write!writeVars
    <2>2. WriteStepTypes /\ sent' # len
      BY <2>1 DEF WriteStepTypes, KernelTypeOK
    <2>3. Write!RetryFailed
      BY <1>5, <2>1 DEF Write!RetryImpossible, Write!RetryEnd, WriteInv
    <2>4. Write!Post("io_error", total + total) /\ total + total \in 0 .. 2 * MaxLen
      BY <2>3 DEF Write!RetryFailed
    <2> QED  BY <2>2, <2>4, WritePosts DEF WriteStepTypes
  <1>6. CASE Write!RetryTurn
    <2>1. state = "retry" /\ offset = SizeMax
      BY <1>6 DEF Write!RetryTurn, WriteInv
    <2>2. UNCHANGED <<arrived, taken, peer, errno, room, sent, bytes, len, total, offset, state, posted>>
      BY <1>6, <2>1 DEF Write!RetryTurn, Write!kernelVars, Write!sendVars
    <2>3. tries' = tries + 1 /\ tries < MaxRetry
      BY <1>6 DEF Write!RetryTurn
    <2>4. WriteStepTypes
      BY <2>2, <2>3 DEF WriteStepTypes, KernelTypeOK
    <2> QED  BY <2>1, <2>2, <2>4, WriteGoesOn DEF WriteStepTypes
  <1> QED
    BY <1>4, <1>5, <1>6 DEF Write!Task

LEMMA WriteTaskOfConnection == ASSUME IInv, WriteTask PROVE IInv'
  <1>1. /\ KernelTypeOK /\ WriteInv /\ PostedAtEnd /\ task = "write" /\ UNCHANGED <<task, calls, readable>>
        /\ Write!Task
    BY DEF IInv, SharedTypes, WriteTask, Works
  <1> QED  BY <1>1, WriteTaskStep DEF IInv, SharedTypes

-----------------------------------------------------------------------------
(* The environment.                                                        *)

\* What the kernel and the peer leave alone.
LEMMA EnvironmentStep == ASSUME IInv, Environment PROVE IInv'
  <1>1. /\ UNCHANGED <<task, calls, state, tries, readable, posted, stale, end, cacheSize, kept>>
        /\ UNCHANGED <<bytes, len, total, offset, sent, taken, errno>>
        /\ KernelTypeOK' /\ room' \in 0 .. MaxRoom /\ (peer # "open" => peer' # "open")
    <2>1. UNCHANGED <<task, calls, taskVars, untilVars, readVars, bytes, len, total, offset>>
      BY DEF Environment
    <2>2. CASE (Arrive \/ PeerEnds) /\ UNCHANGED <<room, sent>>
      BY <2>1, <2>2, ArrivalTypes DEF IInv, SharedTypes, taskVars, untilVars, readVars
    <2>3. CASE Write!Drain
      <3>1. UNCHANGED <<arrived, taken, peer, errno, sent>> /\ room' \in room + 1 .. MaxRoom
        BY <2>3 DEF Write!Drain, Write!kernelVars
      <3> QED  BY <2>1, <3>1, Constants DEF IInv, SharedTypes, KernelTypeOK, taskVars, untilVars, readVars
    <2> QED  BY <2>2, <2>3 DEF Environment
  <1>2. SharedTypes' /\ PostedAtEnd'
    BY <1>1 DEF IInv, SharedTypes, PostedAtEnd
  <1>3. ASSUME task = "until" PROVE UntilInv'
    <2>1. UntilInv
      BY <1>3 DEF IInv
    <2>2. Until!TypeOK'
      BY <1>1, <2>1 DEF UntilInv, Until!TypeOK, KernelTypeOK, Until!KernelTypeOK, Errno, Until!Errno
    <2> QED
      BY <1>1, <2>1, <2>2 DEF UntilInv, Until!SuccessIsComplete, Until!OnlyLastTryOverlooks, Until!DelimiterIn,
                              Until!Ended, Until!Result
  <1>4. ASSUME task = "read" PROVE ReadInv'
    <2>1. ReadInv
      BY <1>4 DEF IInv
    <2>2. Read!TypeOK'
      BY <1>1, <2>1 DEF ReadInv, Read!TypeOK, KernelTypeOK, Read!KernelTypeOK, Errno, Read!Errno, Read!MaxReadable
    <2> QED
      BY <1>1, <2>1, <2>2 DEF ReadInv, Read!DoneMeansEnough, Read!Ended, Read!Result
  <1>5. ASSUME task = "write" PROVE WriteInv'
    <2>1. WriteInv
      BY <1>5 DEF IInv
    <2>2. Write!TypeOK'
      BY <1>1, <2>1 DEF WriteInv, Write!TypeOK, KernelTypeOK, Write!KernelTypeOK, Errno, Write!Errno
    <2> QED
      BY <1>1, <2>1, <2>2 DEF WriteInv, Write!SuccessIsComplete, Write!Ended, Write!Result
  <1> QED  BY <1>1, <1>2, <1>3, <1>4, <1>5 DEF IInv

LEMMA StutterStep == ASSUME IInv, UNCHANGED vars PROVE IInv'
  <1>1. /\ UNCHANGED <<task, calls, state, tries, readable, posted, stale, end, cacheSize, kept>>
        /\ UNCHANGED <<bytes, len, total, offset, sent, taken, errno, arrived, peer, room>>
    BY DEF vars, kernelVars, taskVars, untilVars, readVars, writeVars
  <1>2. SharedTypes' /\ PostedAtEnd'
    BY <1>1 DEF IInv, SharedTypes, PostedAtEnd, KernelTypeOK
  <1>3. ASSUME task = "until" PROVE UntilInv'
    BY <1>1, <1>3 DEF IInv, UntilInv, Until!TypeOK, Until!KernelTypeOK, Until!SuccessIsComplete,
                      Until!OnlyLastTryOverlooks, Until!DelimiterIn, Until!Ended, Until!Result
  <1>4. ASSUME task = "read" PROVE ReadInv'
    BY <1>1, <1>4 DEF IInv, ReadInv, Read!TypeOK, Read!KernelTypeOK, Read!DoneMeansEnough, Read!Ended, Read!Result
  <1>5. ASSUME task = "write" PROVE WriteInv'
    BY <1>1, <1>5 DEF IInv, WriteInv, Write!TypeOK, Write!KernelTypeOK, Write!SuccessIsComplete, Write!Ended,
                      Write!Result
  <1> QED  BY <1>1, <1>2, <1>3, <1>4, <1>5 DEF IInv

-----------------------------------------------------------------------------
\* Every reachable state satisfies the invariant: what each task's step and each call's
\* step keep.
THEOREM Invariance == Spec => []IInv
  <1>1. Init => IInv
    BY InitIInv
  <1>2. IInv /\ [Next]_vars => IInv'
    BY CallUntilStep, CallReadStep, CallWriteStep, UntilTaskOfConnection, ReadTaskOfConnection,
       WriteTaskOfConnection, EnvironmentStep, StutterStep DEF Next, Task
  <1> QED  BY <1>1, <1>2, PTL DEF Spec

\* The variables of the connection have their types, whichever call is under way.
THEOREM TypeCorrect == Spec => []TypeOK
  <1>1. IInv => TypeOK
    BY DEF IInv, SharedTypes, TypeOK, UntilInv, ReadInv, WriteInv
  <1> QED  BY <1>1, Invariance, PTL

\* No byte that async_read_until or async_read took from the socket is lost or handed over
\* twice, with any number of retries, and no callback is posted twice.
THEOREM BytesDeliveredOnce == Spec => []DeliveredOnce
  <1>1. IInv => DeliveredOnce
    <2>1. ASSUME IInv, task = "until" PROVE Until!DeliveredOnce
      <3>1. UntilInv /\ PostedAtEnd
        BY <2>1 DEF IInv
      <3>2. Len(posted) <= 1 /\ (posted # <<>> => state = "posted")
        BY <2>1, <3>1 DEF PostedAtEnd
      <3> QED  BY <3>1, <3>2 DEF UntilInv, Until!DeliveredOnce, Until!Ended, Until!Result
    <2>2. ASSUME IInv, task = "read" PROVE Read!DeliveredOnce
      <3>1. ReadInv /\ PostedAtEnd
        BY <2>2 DEF IInv
      <3>2. Len(posted) <= 1 /\ (posted # <<>> => state = "posted")
        BY <2>2, <3>1 DEF PostedAtEnd
      <3> QED  BY <3>1, <3>2 DEF ReadInv, Read!DeliveredOnce, Read!Ended, Read!Result
    <2> QED  BY <2>1, <2>2 DEF DeliveredOnce
  <1> QED  BY <1>1, Invariance, PTL

\* async_read_until on a worker whose errno was EAGAIN or EINTR: a success has the delimiter
\* or the stream has ended, and a failure overlooks a delimiter only when the tries are
\* used up.
THEOREM UntilReportsTruly == Spec => []UntilIsTruthful
  <1>1. IInv => UntilIsTruthful
    BY DEF IInv, UntilInv, UntilIsTruthful
  <1> QED  BY <1>1, Invariance, PTL

\* An async_read that needed no retry and reports success has the bytes asked for or has
\* met the end of the stream.
THEOREM ReadReportsTruly == Spec => []ReadIsComplete
  <1>1. IInv => ReadIsComplete
    BY DEF IInv, ReadInv, ReadIsComplete
  <1> QED  BY <1>1, Invariance, PTL

\* async_write counts what the kernel accepted, posts once, and reports success exactly when
\* it was accepted and what is in front of the message's first NUL was sent, with the size
\* of that: the retry, which takes -1 for its count, sends nothing.
THEOREM WriteReportsTruly == Spec => []WriteIsComplete
  <1>1. ASSUME IInv, task = "write" PROVE Write!CountedOnce /\ Write!SuccessIsComplete
    BY <1>1 DEF IInv, PostedAtEnd, WriteInv, Write!CountedOnce
  <1>2. IInv => WriteIsComplete
    BY <1>1 DEF WriteIsComplete
  <1> QED  BY <1>2, Invariance, PTL

\* M_retryTcpwrite sends nothing, however much room the send buffer gets meanwhile: its count
\* starts at -1, which is a size_t beyond every length, so its write loop is not entered.
THEOREM RetryNeverSends == Spec => [][task = "write" /\ state = "retry" => UNCHANGED sent]_vars
  <1>1. ASSUME IInv, [Next]_vars, task = "write", state = "retry" PROVE UNCHANGED sent
    <2>1. len <= MaxLen /\ MaxLen < SizeMax /\ len \in Nat /\ SizeMax \in Nat /\ MaxLen \in Nat /\ offset = SizeMax
      BY <1>1, Constants DEF IInv, WriteInv, Write!TypeOK
    <2>2. ~(offset < len)
      BY <2>1
    <2>3. CASE WriteTask
      BY <1>1, <2>2, <2>3
      DEF WriteTask, Write!Task, Write!Writing, Write!RetryImpossible, Write!RetryTurn, Write!RetryEnd, Write!sendVars
    <2>4. CASE Environment
      BY <2>4 DEF Environment, Write!Drain
    <2>5. CASE UNCHANGED vars
      BY <2>5 DEF vars, writeVars
    <2> QED
      BY <1>1, <2>3, <2>4, <2>5
      DEF Next, Task, CallUntil, CallRead, CallWrite, Until!Call, Read!Call, Write!Call, UntilTask, ReadTask, Works
  <1>2. IInv /\ [Next]_vars => [task = "write" /\ state = "retry" => UNCHANGED sent]_vars
    BY <1>1
  <1> QED  BY <1>2, Invariance, PTL DEF Spec

-----------------------------------------------------------------------------
(* How long a call may take.                                               *)

\* An upper bound of the steps that the task of the call under way still takes: a read can
\* go from VERIFY to READING and back for every byte it has not taken, and ends with at
\* most MaxRetry retries; a write for every byte not yet sent.
StepsLeft ==
    CASE state = "posted" -> 0
      [] state \in {"CLOSE", "DONE"} -> 1
      [] state = "retry" -> MaxRetry - tries + 1
      [] state = "ERROR" -> MaxRetry + 2
      [] state = "WRITING" -> MaxRetry + 2 + (len - total)
      [] state = "READING" -> MaxRetry + 3 + (IF task = "read" THEN 2 * (StreamLen - taken) ELSE 0)
      [] state = "VERIFY" -> MaxRetry + 4 + (IF task = "read" THEN 2 * (StreamLen - taken) ELSE 0)

LEMMA UntilTaskAdvances == ASSUME IInv, UntilTask PROVE StepsLeft' < StepsLeft
  <1>1. /\ tries \in 0 .. MaxRetry /\ MaxRetry \in Nat \ {0} /\ task = "until" /\ task' = "until"
        /\ Until!Task
    BY Constants DEF IInv, UntilInv, Until!TypeOK, UntilTask, Works
  <1> USE <1>1
  <1>2. CASE Until!Verify \/ Until!Error \/ Until!Close \/ Until!SelectFails
    BY <1>2 DEF StepsLeft, Until!Verify, Until!Post, Until!Error, Until!Close, Until!SelectFails
  <1>3. CASE Until!Reading
    <2>1. state = "READING" /\ state' \in {"CLOSE", "ERROR"}
      BY <1>3 DEF Until!Reading
    <2> QED  BY <2>1 DEF StepsLeft
  <1>4. CASE Until!RetryExhausted \/ Until!RetryConnected \/ Until!RetryImpossible \/ Until!RetryFound
    <2>1. state = "retry" /\ state' = "posted"
      BY <1>4 DEF Until!RetryExhausted, Until!RetryConnected, Until!RetryImpossible, Until!RetryFound, Until!Retriable,
                  Until!RetryFailed, Until!RetrySuccess, Until!Post
    <2> QED  BY <2>1 DEF StepsLeft
  <1>5. CASE Until!RetryRead
    <2>1. state = "retry" /\ tries < MaxRetry /\ tries' = tries + 1
      BY <1>5 DEF Until!RetryRead, Until!Retriable
    <2>2. PICK n \in RecvResults(RetrySize) : Until!Retried(n)
      BY <1>5 DEF Until!RetryRead, Until!RecvResults, RecvResults
    <2>3. n > 0 \/ n = 0 \/ n < 0
      BY Constants DEF RecvResults
    <2>4. state' \in {"retry", "posted"}
      BY <2>1, <2>2, <2>3 DEF Until!Retried, Until!RetrySuccess, Until!RetryFailed, Until!Post
    <2> QED  BY <2>1, <2>4 DEF StepsLeft
  <1> QED  BY <1>2, <1>3, <1>4, <1>5 DEF Until!Task

LEMMA ReadTaskAdvances == ASSUME IInv, ReadTask PROVE StepsLeft' < StepsLeft
  <1>1. /\ tries \in 0 .. MaxRetry /\ MaxRetry \in Nat \ {0} /\ task = "read" /\ task' = "read"
        /\ StreamLen \in Nat /\ taken \in 0 .. StreamLen /\ KernelTypeOK
        /\ state = "retry" => tries < MaxRetry
        /\ Read!Task
    BY Constants DEF IInv, SharedTypes, KernelTypeOK, ReadInv, Read!TypeOK, ReadTask, Works
  <1> USE <1>1
  <1>2. CASE Read!SelectFails \/ Read!CloseOrDone \/ Read!Error \/ Read!RetryImpossible
    BY <1>2, SMTT(60) DEF StepsLeft, Read!SelectFails, Read!CloseOrDone, Read!Error, Read!Goto, Read!Post, Read!RetryImpossible,
                Read!RetryFailed
  <1>3. CASE Read!Verify
    <2>1. state = "VERIFY" /\ state' \in {"DONE", "READING"} /\ UNCHANGED taken
      BY <1>3 DEF Read!Verify, Read!Goto, Read!kernelVars
    <2> QED  BY <2>1 DEF StepsLeft
  <1>4. CASE Read!Reading
    <2>1. state = "READING"
      BY <1>4 DEF Read!Reading
    <2>2. PICK n \in RecvResults(RecvSize) :
            /\ Recv(RecvSize, n)
            /\ Read!Goto(IF n > 0 THEN "VERIFY" ELSE IF n = 0 THEN "CLOSE" ELSE "ERROR")
      BY <1>4 DEF Read!Reading, Read!RecvResults, RecvResults, Read!Recv, Recv, Read!Unread, Unread, Read!Min, Min
    <2>3. Received(n)
      BY <2>2, RecvReceives, Constants
    <2>4. /\ taken' \in 0 .. StreamLen /\ n \in Int
          /\ n > 0 => taken' = taken + n
          /\ state' = IF n > 0 THEN "VERIFY" ELSE IF n = 0 THEN "CLOSE" ELSE "ERROR"
      BY <2>2, <2>3 DEF Received, KernelTypeOK, Read!Goto
    <2> QED  BY <2>1, <2>4 DEF StepsLeft
  <1>5. CASE Read!RetryRecv
    <2>1. state = "retry" /\ tries' = tries + 1
      BY <1>5 DEF Read!RetryRecv
    <2>2. PICK n \in RecvResults(RecvRetrySize) : Read!Retried(n)
      BY <1>5 DEF Read!RetryRecv, Read!RecvResults, RecvResults
    <2>3. n > 0 \/ n = 0 \/ n < 0
      BY Constants DEF RecvResults
    <2>4. state' \in {"retry", "posted"}
      BY <2>2, <2>3 DEF Read!Retried, Read!RetrySuccess, Read!RetryFailed, Read!Post, Read!Goto
    <2> QED  BY <2>1, <2>4 DEF StepsLeft
  <1> QED  BY <1>2, <1>3, <1>4, <1>5 DEF Read!Task

LEMMA WriteTaskAdvances == ASSUME IInv, WriteTask PROVE StepsLeft' < StepsLeft
  <1>1. /\ tries \in 0 .. MaxRetry /\ MaxRetry \in Nat \ {0} /\ task = "write" /\ task' = "write"
        /\ KernelTypeOK /\ room \in 0 .. MaxRoom
        /\ len \in Nat /\ total = sent /\ sent \in Nat
        /\ state # "posted" => sent < len
        /\ state = "retry" => ~(offset < len)
        /\ Write!Task
    <2>1. len <= MaxLen /\ MaxLen < SizeMax /\ SizeMax \in Nat /\ MaxLen \in Nat
          /\ task = "write" /\ task' = "write" /\ Write!Task /\ len \in Nat
      BY Constants DEF IInv, WriteInv, Write!TypeOK, WriteTask, Works
    <2> QED  BY <2>1, Constants DEF IInv, SharedTypes, WriteInv, Write!TypeOK
  <1> USE <1>1
  <1>2. CASE Write!Writing
    <2>1. state = "WRITING" /\ UNCHANGED len
      BY <1>2 DEF Write!Writing
    <2>2. PICK n \in Write!SendResults :
            /\ Write!Send(len - total, n)
            /\ IF n < 0
               THEN /\ state' = "retry" /\ tries' = 0
               ELSE /\ total' = total + n
                    /\ IF total + n = len THEN Write!Post("none", len) ELSE UNCHANGED <<state, posted>>
      BY <1>2 DEF Write!Writing
    <2>3. n \in Int /\ (n >= 0 => n > 0)
      BY <2>1, <2>2, MinOfTwo, Constants DEF Write!Send, Write!SendResults, Write!Min, Min
    <2>4. CASE n < 0
      BY <2>1, <2>2, <2>4 DEF StepsLeft
    <2>5. CASE n >= 0
      <3>1. total' = total + n /\ state' \in {"WRITING", "posted"} /\ n > 0
        BY <2>1, <2>2, <2>3, <2>5 DEF Write!Post
      <3> QED  BY <2>1, <2>3, <3>1 DEF StepsLeft
    <2> QED  BY <2>3, <2>4, <2>5
  <1>3. CASE Write!RetryImpossible \/ Write!RetryEnd
    <2>1. state = "retry" /\ state' = "posted"
      BY <1>3 DEF Write!RetryImpossible, Write!RetryEnd, Write!RetrySuccess, Write!RetryFailed, Write!Post
    <2> QED  BY <2>1 DEF StepsLeft
  <1>4. CASE Write!RetryTurn
    <2>1. state = "retry" /\ state' = "retry" /\ tries' = tries + 1
      BY <1>4 DEF Write!RetryTurn
    <2> QED  BY <2>1 DEF StepsLeft
  <1> QED  BY <1>2, <1>3, <1>4 DEF Write!Task

LEMMA EnvironmentWaits == ASSUME Environment PROVE UNCHANGED StepsLeft
  <1>1. UNCHANGED <<task, state, tries, taken, len, total>>
    BY DEF Environment, Arrive, PeerEnds, Write!Drain, Write!kernelVars, taskVars
  <1> QED  BY <1>1 DEF StepsLeft

\* Every call is over after a bounded number of its task's steps, which the peer, the send
\* buffer and their delays cannot make more of: so it is answered under no fairness but
\* that of the workers.  (CallsEnd says so of a small instance.)
THEOREM CallsAreShort ==
  Spec => /\ [](StepsLeft \in 0 .. 2 * StreamLen + MaxLen + MaxRetry + 4 /\ (StepsLeft = 0 <=> state = "posted"))
          /\ [][(Task => StepsLeft' < StepsLeft) /\ (Environment => UNCHANGED StepsLeft)]_vars
  <1>1. ASSUME IInv, task = "none" => state = "posted"
        PROVE  StepsLeft \in 0 .. 2 * StreamLen + MaxLen + MaxRetry + 4 /\ (StepsLeft = 0 <=> state = "posted")
    <2>1. taken \in 0 .. StreamLen /\ StreamLen \in Nat /\ MaxRetry \in Nat /\ MaxLen \in Nat
      BY <1>1, Constants DEF IInv, SharedTypes, KernelTypeOK
    <2>2. CASE state = "posted"
      BY <2>1, <2>2 DEF StepsLeft
    <2>3. CASE task = "until" /\ state # "posted"
      <3>1. tries \in 0 .. MaxRetry /\ state \in {"VERIFY", "READING", "ERROR", "CLOSE", "retry"}
        BY <1>1, <2>3 DEF IInv, UntilInv, Until!TypeOK
      <3> QED  BY <2>1, <2>3, <3>1 DEF StepsLeft
    <2>4. CASE task = "read" /\ state # "posted"
      <3>1. tries \in 0 .. MaxRetry /\ state \in {"VERIFY", "READING", "ERROR", "CLOSE", "DONE", "retry"}
        BY <1>1, <2>4 DEF IInv, ReadInv, Read!TypeOK
      <3> QED  BY <2>1, <2>4, <3>1 DEF StepsLeft
    <2>5. CASE task = "write" /\ state # "posted"
      <3>1. tries \in 0 .. MaxRetry /\ state \in {"WRITING", "retry"} /\ len \in 0 .. MaxLen /\ total \in 0 .. MaxLen
        BY <1>1, <2>5, Constants DEF IInv, WriteInv, Write!TypeOK
      <3>2. total < len
        BY <1>1, <2>5 DEF IInv, WriteInv
      <3> QED  BY <2>1, <2>5, <3>1, <3>2 DEF StepsLeft
    <2> QED  BY <1>1, <2>2, <2>3, <2>4, <2>5 DEF IInv, SharedTypes
  <1>2. IInv /\ [Next]_vars => [(Task => StepsLeft' < StepsLeft) /\ (Environment => UNCHANGED StepsLeft)]_vars
    BY UntilTaskAdvances, ReadTaskAdvances, WriteTaskAdvances, EnvironmentWaits DEF Task
  <1>3. Init => (task = "none" => state = "posted")
    BY DEF Init
  <1>4. (task = "none" => state = "posted") /\ [Next]_vars => (task = "none" => state = "posted")'
    BY DEF Next, CallUntil, CallRead, CallWrite, Calls, Task, UntilTask, ReadTask, WriteTask, Works, Environment, vars,
           taskVars
  <1> QED  BY <1>1, <1>2, <1>3, <1>4, Invariance, PTL DEF Spec
=============================================================================
