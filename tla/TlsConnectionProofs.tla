------------------------ MODULE TlsConnectionProofs ------------------------
(***************************************************************************)
(* TlsConnection for any number of calls and tries, any delimiters, streams    *)
(* and messages: no call loses more than one SSL object, and a released one is *)
(* used only in a handshake's retries, after a failure for good, or by the     *)
(* destructors; every call is answered once, and reports a success only when    *)
(* it had one.                                                              *)
(***************************************************************************)
EXTENDS TlsConnection, ReceiveSideProofs

\* The state of the objects and of the calls, as far as the proofs need its types.
ObjectTypes ==
    /\ leaked \in Nat /\ calls \in Nat
    /\ ctx \in {"null", "set"}
    /\ ssl \in {"null", "fresh", "connected", "released"}
    /\ retry \in {"same", "null", "fresh"}

\* A call's task is in the states of its kind.
StateOfTask ==
    /\ task = "none" => state = "over"
    /\ task = "create" => state \in {"create", "over"}
    /\ task = "connect" => state \in {"connect", "retry", "over", "crashed", "undefined"}
    /\ task = "write" => state \in {"write"} \cup Ended
    /\ task = "until" => state \notin {"create", "connect", "write"}
    /\ task = "destroy" => state \in {"over", "undefined"}
    /\ task \in {"none", "create", "connect", "write", "until", "destroy"}

Count(condition) == IF condition THEN 1 ELSE 0

\* The SSL objects that exist: those lost, the configuration's, and a retry's own.
Allocated ==
    leaked + Count(Live(ssl) /\ task # "destroy")
           + Count(task = "connect" /\ state = "retry" /\ retry = "fresh")

\* No call but async_create_tls has made one.
AllocatedByCalls == Allocated + Count(state = "create") <= calls

\* In its retries a handshake has one object, the configuration's or its own; it has none
\* when there is no context to make one from.  While it waits for the socket it keeps
\* the configuration's.
RetryHasOne ==
    task = "connect" /\ state = "retry" =>
        /\ retry = "same" => Live(ssl)
        /\ retry # "same" => ssl = "released" /\ error # "want"
        /\ retry = "null" => ctx = "null"

\* The tasks that begin with the configuration's object are given one.
BeginsWithOne ==
    /\ state \in {"connect", "write"} => ssl # "null"
    /\ state = "connect" => retry = "same"

\* An object is left released by a failure for good, or by retries under way.
ReleasedBy ==
    /\ ssl = "released" => broken \/ (task = "connect" /\ state \in {"retry", "crashed", "undefined"})
    /\ state = "undefined" => broken \/ task \in {"connect", "destroy"}

\* The inductive invariant.
IInv ==
    /\ ObjectTypes
    /\ StateOfTask
    /\ AllocatedByCalls
    /\ RetryHasOne
    /\ BeginsWithOne
    /\ ReleasedBy

LEMMA InitIInv == Init => IInv
  BY DEF Init, ObjectsInit, IInv, ObjectTypes, StateOfTask, AllocatedByCalls, Allocated, Count,
         Live, RetryHasOne, BeginsWithOne, ReleasedBy

LEMMA CallStep ==
    ASSUME IInv, CallCreate \/ CallConnect \/ CallWrite \/ CallUntil
    PROVE  IInv'
  <1> USE DEF Calls, objectVars, DropHandshake, Live, Ended, IInv, ObjectTypes, StateOfTask,
              AllocatedByCalls, Allocated, Count, RetryHasOne, BeginsWithOne, ReleasedBy
  <1>1. CASE CallCreate
    BY <1>1 DEF CallCreate, Handshake!CallCreate, Handshake!Begin, Handshake!objectVars
  <1>2. CASE CallConnect
    BY <1>2 DEF CallConnect, Handshake!CallConnect, Handshake!Begin, Handshake!Refuse, Handshake!objectVars
  <1>3. CASE CallWrite
    BY <1>3 DEF CallWrite, Write!Call, Write!Begin, Write!Refuse, Write!objectVars
  <1>4. CASE CallUntil
    BY <1>4 DEF CallUntil, Until!Call, Until!Begin, Until!Refuse, Until!objectVars
  <1> QED  BY <1>1, <1>2, <1>3, <1>4

LEMMA CacheType == CacheSize \in Nat
  BY TlsAssumption DEF Until!ReadUntilAssumption

\* What async_read_until_tls's task leaves alone.
LEMMA UntilTaskEffect ==
    ASSUME UntilTask, StateOfTask
    PROVE  /\ UNCHANGED <<objectVars, task, calls, error, retry>>
           /\ task = "until"
           /\ state' \notin {"create", "connect", "write"}
           /\ state' = "undefined" => ssl = "released"
  <1>1. task = "until" /\ Until!Task /\ UNCHANGED <<task, calls, error, retry>>
    BY DEF UntilTask, Works, handshakeVars
  <1>2. state \notin {"create", "connect", "write"}
    BY <1>1 DEF StateOfTask
  <1> USE <1>1, <1>2 DEF Until!objectVars, objectVars
  <1>3. CASE Until!Verify
    BY <1>3 DEF Until!Verify
  <1>4. CASE Until!SelectFails
    BY <1>4 DEF Until!SelectFails, Until!Post
  <1>5. CASE Until!ReadReleased
    BY <1>5 DEF Until!ReadReleased, Until!UsesReleased
  <1>6. CASE Until!Reading
    <2>1. PICK n \in Until!RecvResults(CacheSize) :
            CASE n < 0 -> state' = "ERROR" /\ UNCHANGED posted
              [] n = 0 -> Until!Closed
              [] n > 0 -> state' = "VERIFY" /\ UNCHANGED posted
      BY <1>6 DEF Until!Reading
    <2>2. n < 0 \/ n = 0 \/ n > 0
      BY CacheType DEF Until!RecvResults
    <2>3. state' \in {"ERROR", "crashed", "VERIFY"}
      BY <2>1, <2>2 DEF Until!Closed
    <2> QED  BY <1>6, <2>3 DEF Until!Reading
  <1>7. CASE Until!Error
    BY <1>7 DEF Until!Error, Until!RetryFailed, Until!Post
  <1>8. CASE Until!RetrySelectFails
    BY <1>8 DEF Until!RetrySelectFails, Until!RetryFailed, Until!Post
  <1>9. CASE Until!RetryExhausted
    BY <1>9 DEF Until!RetryExhausted, Until!RetryFailed, Until!Post
  <1>10. CASE Until!RetryFound
    BY <1>10 DEF Until!RetryFound, Until!RetrySuccess, Until!Post
  <1>11. CASE Until!RetryRead
    BY <1>11 DEF Until!RetryRead, Until!RetryTurn, Until!RetryFailed, Until!Post
  <1> QED
    BY <1>3, <1>4, <1>5, <1>6, <1>7, <1>8, <1>9, <1>10, <1>11 DEF Until!Task

LEMMA UntilStep == ASSUME IInv, UntilTask PROVE IInv'
  BY UntilTaskEffect DEF objectVars, Live, IInv, ObjectTypes, StateOfTask,
     AllocatedByCalls, Allocated, Count, RetryHasOne, BeginsWithOne, ReleasedBy

LEMMA WriteStep == ASSUME IInv, WriteTask PROVE IInv'
  <1>1. task = "write" /\ Write!Task /\ UNCHANGED <<task, calls, error, retry>>
    BY DEF WriteTask, Works, handshakeVars
  <1> USE <1>1 DEF Live, Ended, IInv, ObjectTypes, StateOfTask, AllocatedByCalls, Allocated, Count,
                   RetryHasOne, BeginsWithOne, ReleasedBy
  <1>2. CASE Write!WriteReleased
    BY <1>2 DEF Write!WriteReleased, Write!UsesReleased, Write!objectVars
  <1>3. CASE Write!Written
    BY <1>3 DEF Write!Written, Write!Post
  <1>4. CASE Write!NotWritten
    BY <1>4 DEF Write!NotWritten, Write!Post, Write!objectVars
  <1>5. CASE Write!Closed
    BY <1>5 DEF Write!Closed, Write!Post
  <1> QED  BY <1>2, <1>3, <1>4, <1>5 DEF Write!Task

LEMMA DestroyStep == ASSUME IInv, Destroy PROVE IInv'
  BY DEF Destroy, Live, IInv, ObjectTypes, StateOfTask, AllocatedByCalls, Allocated, Count,
         RetryHasOne, BeginsWithOne, ReleasedBy, handshakeVars

LEMMA OtherStep == ASSUME IInv, Environment \/ UNCHANGED vars PROVE IInv'
  <1>1. UNCHANGED <<objectVars, state, task, calls, error, retry>>
    BY DEF Environment, vars, taskVars, handshakeVars
  <1> QED
    BY <1>1 DEF objectVars, Live, IInv, ObjectTypes, StateOfTask, AllocatedByCalls, Allocated,
                Count, RetryHasOne, BeginsWithOne, ReleasedBy

\* SSL_connect on the configuration's object, and the select that follows.
LEMMA ConnectStep ==
    ASSUME IInv, task = "connect", UNCHANGED <<task, calls>>,
           Handshake!ConnectReleased \/ Handshake!Connect \/ Handshake!SelectFails
    PROVE  IInv'
  <1> USE DEF Live, IInv, ObjectTypes, StateOfTask, AllocatedByCalls, Allocated, Count,
              RetryHasOne, BeginsWithOne, ReleasedBy, Handshake!objectVars, Handshake!handshakeVars
  <1>1. CASE Handshake!ConnectReleased
    BY <1>1 DEF Handshake!ConnectReleased, Handshake!UsesReleased
  <1>2. CASE Handshake!Connect
    <2>1. PICK result \in Handshake!SslResults :
            IF result = "done"
            THEN Handshake!Done /\ UNCHANGED error
            ELSE state' = "retry" /\ error' = result /\ UNCHANGED <<objectVars, posted>>
      BY <1>2 DEF Handshake!Connect, objectVars
    <2> QED  BY <1>2, <2>1 DEF Handshake!Connect, Handshake!Done, Handshake!Post, objectVars
  <1>3. CASE Handshake!SelectFails
    BY <1>3 DEF Handshake!SelectFails, Handshake!Post
  <1> QED  BY <1>1, <1>2, <1>3

\* async_create_tls overwrites the pointers: an object that was live is lost.
LEMMA CreateStep ==
    ASSUME IInv, task \in {"create", "connect"}, UNCHANGED <<task, calls>>,
           Handshake!Created \/ Handshake!NotCreated
    PROVE  IInv'
  BY DEF Live, IInv, ObjectTypes, StateOfTask, AllocatedByCalls, Allocated, Count,
         RetryHasOne, BeginsWithOne, ReleasedBy, Handshake!objectVars, Handshake!handshakeVars,
         Handshake!Created, Handshake!NotCreated, Handshake!Post, Handshake!Live

\* What M_creater_new_retry_tls makes: without a context nothing, otherwise one object,
\* the configuration's or M_retry_tls's own.  It loses none.
LEMMA ReplacementTypes ==
    ASSUME NEW new \in Handshake!Replacements
    PROVE  /\ new.leaked = leaked
           /\ \/ new.ssl = "released" /\ new.retry = "null" /\ ctx = "null"
              \/ new.ssl = "fresh" /\ new.retry = "same" /\ ctx # "null"
              \/ new.ssl = "released" /\ new.retry = "fresh" /\ ctx # "null"
  BY DEF Handshake!Replacements

LEMMA RetryStep ==
    ASSUME IInv, task = "connect", UNCHANGED <<task, calls>>,
           \/ Handshake!TurnWanted \/ Handshake!TurnOther \/ Handshake!TurnThrows
           \/ Handshake!TurnFails \/ Handshake!TurnReconnects \/ Handshake!TurnsOver
    PROVE  IInv'
  <1> USE DEF Live, IInv, ObjectTypes, StateOfTask, AllocatedByCalls, Allocated, Count,
              RetryHasOne, BeginsWithOne, ReleasedBy, Handshake!objectVars, Handshake!handshakeVars
  <1>1. CASE Handshake!TurnWanted
    <2>1. PICK result \in Handshake!SslResults :
            IF result = "done"
            THEN Handshake!Done
            ELSE UNCHANGED <<Handshake!objectVars, state, posted>>
      BY <1>1 DEF Handshake!TurnWanted
    <2> QED  BY <1>1, <2>1 DEF Handshake!TurnWanted, Handshake!Turn, Handshake!Done, Handshake!Post
  <1>2. CASE Handshake!TurnOther
    <2>1. PICK new \in Handshake!Replacements : Handshake!Replaces(new)
      BY <1>2 DEF Handshake!TurnOther
    <2> QED
      BY <1>2, <2>1, ReplacementTypes DEF Handshake!TurnOther, Handshake!Replaces, Handshake!Turn
  <1>3. CASE Handshake!TurnThrows
    <2>1. PICK new \in Handshake!Replacements : Handshake!Replaces(new)
      BY <1>3 DEF Handshake!TurnThrows
    <2> QED
      BY <1>3, <2>1, ReplacementTypes DEF Handshake!TurnThrows, Handshake!Replaces, Handshake!Turn
  <1>4. CASE Handshake!TurnFails
    <2>1. PICK new \in Handshake!Replacements :
            Handshake!GiveUp(new.retry, new.leaked) /\ ssl' = new.ssl /\ retry' = new.retry
      BY <1>4 DEF Handshake!TurnFails
    <2> QED
      BY <1>4, <2>1, ReplacementTypes
      DEF Handshake!TurnFails, Handshake!GiveUp, Handshake!Turn, Handshake!Post
  <1>5. CASE Handshake!TurnReconnects
    <2>1. PICK new \in Handshake!Replacements, result \in Handshake!SslResults :
            IF new.retry = "null"
            THEN Handshake!Replaces(new) /\ state' = "crashed" /\ UNCHANGED <<broken, posted>>
            ELSE IF result = "done"
            THEN Handshake!Turn /\ Handshake!Done /\ retry' = "same" /\ UNCHANGED error
            ELSE /\ Handshake!Replaces(new)
                 /\ state' \in IF new.ssl = "released" THEN {"retry", "undefined"} ELSE {"retry"}
                 /\ UNCHANGED <<broken, posted>>
      BY <1>5 DEF Handshake!TurnReconnects
    <2>2. error = "syscall"
      BY <1>5 DEF Handshake!TurnReconnects
    <2> QED
      BY <2>1, <2>2, ReplacementTypes
      DEF Handshake!Replaces, Handshake!Turn, Handshake!Done, Handshake!Post
  <1>6. CASE Handshake!TurnsOver
    BY <1>6 DEF Handshake!TurnsOver, Handshake!GiveUp, Handshake!Post
  <1> QED  BY <1>1, <1>2, <1>3, <1>4, <1>5, <1>6

\* IInv is an invariant.
THEOREM Invariance == Spec => []IInv
  <1>1. Init => IInv
    BY InitIInv
  <1>2. IInv /\ [Next]_vars => IInv'
    <2> SUFFICES ASSUME IInv, [Next]_vars PROVE IInv'
      OBVIOUS
    <2>1. CASE CallCreate \/ CallConnect \/ CallWrite \/ CallUntil
      BY <2>1, CallStep
    <2>2. CASE HandshakeTask
      <3>1. task \in {"create", "connect"} /\ UNCHANGED <<task, calls>> /\ Handshake!Task
        BY <2>2 DEF HandshakeTask, Works
      <3>2. CASE Handshake!Created \/ Handshake!NotCreated
        BY <3>1, <3>2, CreateStep
      <3>3. CASE Handshake!ConnectReleased \/ Handshake!Connect \/ Handshake!SelectFails
        <4>1. task = "connect"
          BY <3>1, <3>3 DEF IInv, StateOfTask, Handshake!ConnectReleased, Handshake!Connect, Handshake!SelectFails
        <4> QED  BY <3>1, <3>3, <4>1, ConnectStep
      <3>4. CASE \/ Handshake!TurnWanted \/ Handshake!TurnOther \/ Handshake!TurnThrows
                 \/ Handshake!TurnFails \/ Handshake!TurnReconnects \/ Handshake!TurnsOver
        <4>1. state = "retry"
          BY <3>4 DEF Handshake!TurnWanted, Handshake!TurnOther, Handshake!TurnThrows, Handshake!TurnFails,
                      Handshake!TurnReconnects, Handshake!TurnsOver, Handshake!Replaces, Handshake!Turn
        <4>2. task = "connect"
          BY <3>1, <4>1 DEF IInv, StateOfTask
        <4> QED  BY <3>1, <3>4, <4>2, RetryStep
      <3> QED  BY <3>1, <3>2, <3>3, <3>4 DEF Handshake!Task
    <2>3. CASE WriteTask
      BY <2>3, WriteStep
    <2>4. CASE UntilTask
      BY <2>4, UntilStep
    <2>5. CASE Destroy
      BY <2>5, DestroyStep
    <2>6. CASE Environment \/ UNCHANGED vars
      BY <2>6, OtherStep
    <2> QED  BY <2>1, <2>2, <2>3, <2>4, <2>5, <2>6 DEF Next, Task
  <1> QED  BY <1>1, <1>2, PTL DEF Spec

\* Whatever is retried, a call loses one SSL object at most.
THEOREM ObjectsLost == Spec => []FewLeaks
  <1>1. IInv => FewLeaks
    BY DEF IInv, ObjectTypes, AllocatedByCalls, Allocated, Count, FewLeaks
  <1> QED  BY <1>1, Invariance, PTL

\* Between calls a released object is pointed to only after a failure for good; a task uses
\* one only then or in the retries of its handshake, and so may the destructors.
THEOREM ReleasedObjects == Spec => []ReleasedOnlyIfBroken
  <1>1. IInv => ReleasedOnlyIfBroken
    BY DEF IInv, ReleasedBy, ReleasedOnlyIfBroken
  <1> QED  BY <1>1, Invariance, PTL

-----------------------------------------------------------------------------
(* What the calls answer.                                                  *)

\* One callback at most.
OneAnswer ==
    posted = <<>> \/ (posted = <<posted[1]>> /\ posted[1].ec \in ErrorCode /\ posted[1].size \in Nat)

Unanswered == {"create", "connect", "retry", "write", "VERIFY", "READING", "ERROR", "silent", "undefined"}

\* The types all calls share; a task posts when it is over, or just before it crashes.
SharedTypes ==
    /\ calls \in 0 .. MaxCalls
    /\ KernelTypeOK
    /\ fd \in {"none", "open", "closed"}
    /\ broken \in BOOLEAN
    /\ tries \in 0 .. MaxRetry
    /\ OneAnswer
    /\ state \in Unanswered => posted = <<>>
    /\ state = "over" /\ task \notin {"none", "destroy"} => posted # <<>>

HandshakeInv ==
    /\ state \in {"create", "connect", "retry", "over", "crashed", "undefined"}
    /\ error \in {"none", "want", "syscall", "ssl", "other"}
    /\ task = "connect" => Handshake!SuccessIsConnected
    /\ state = "crashed" => task = "connect" /\ posted = <<>> /\ (error = "ssl" \/ ctx = "null")

WriteInv ==
    /\ len \in 0 .. MaxLen
    /\ state = "silent" => ssl = "null"
    /\ state = "crashed" => posted = <<>> /\ ctx = "null"

\* async_read_until_tls: the bytes taken are in the buffer, a success was tested since the last
\* of them, and a retry has a try left.  It is silent only before its retries, and
\* crashes only at the end of the stream.
UntilInv ==
    /\ delimiter \in Delimiters
    /\ state \in {"VERIFY", "READING", "ERROR", "retry"} \cup Ended
    /\ readable = taken
    /\ state \in {"VERIFY", "READING", "silent"} => tries = 0
    /\ state = "retry" => tries < MaxRetry
    /\ Until!SuccessIsComplete
    /\ state = "silent" => delimiter[1] <= readable
    /\ state = "crashed" => posted # <<>> /\ posted[1].ec = "connection_reset"

\* Inductive together with IInv.
AnswerInv ==
    /\ SharedTypes
    /\ task \in {"create", "connect"} => HandshakeInv
    /\ task = "write" => WriteInv
    /\ task = "until" => UntilInv

-----------------------------------------------------------------------------
LEMMA Bounds ==
    /\ StreamLen \in Nat /\ StartErrnos \subseteq Errno
    /\ CacheSize \in Nat \ {0} /\ RetrySize \in Nat \ {0} /\ MaxRetry \in Nat \ {0}
    /\ Delimiters \subseteq Nat \X Nat
    /\ MaxLen \in Nat \ {0} /\ MaxCalls \in Nat \ {0}
  BY ReceiveAssumption, TlsAssumption DEF Until!ReadUntilAssumption

\* The first callback of a call.
LEMMA FirstAnswer ==
    ASSUME posted = <<>>, NEW ec \in ErrorCode, NEW size \in Nat,
           posted' = Append(posted, [ec |-> ec, size |-> size])
    PROVE  OneAnswer' /\ posted' # <<>> /\ posted'[1].ec = ec
  <1> DEFINE r == [ec |-> ec, size |-> size]
  <1>1. r.ec = ec /\ r.size = size
    OBVIOUS
  <1>2. posted' = Append(posted, r)
    OBVIOUS
  <1> HIDE DEF r
  <1>3. posted' = <<r>> /\ posted'[1] = r
    BY <1>2
  <1> QED  BY <1>1, <1>3 DEF OneAnswer

\* A call is refused: its callback is posted with an error.
LEMMA RefusedAnswer ==
    ASSUME posted' = <<[ec |-> "bad_file_descriptor", size |-> 0]>>
    PROVE  OneAnswer' /\ posted' # <<>> /\ posted'[1].ec = "bad_file_descriptor"
  <1> DEFINE r == [ec |-> "bad_file_descriptor", size |-> 0]
  <1>1. r.ec = "bad_file_descriptor" /\ r.size = 0
    OBVIOUS
  <1>2. posted' = <<r>>
    OBVIOUS
  <1> HIDE DEF r
  <1>3. posted'[1] = r /\ posted' # <<>>
    BY <1>2
  <1> QED  BY <1>1, <1>2, <1>3 DEF OneAnswer, ErrorCode

\* SSL_connect and SSL_write set errno alone.
LEMMA SslConnectTypes ==
    ASSUME KernelTypeOK, NEW object, NEW result \in Handshake!SslResults, Handshake!SslConnect(object, result)
    PROVE  KernelTypeOK' /\ taken' = taken /\ (result = "done" => errno' = errno)
  BY DEF Handshake!SslConnect, Handshake!SslResults, KernelTypeOK, Errno

LEMMA SslWriteTypes ==
    ASSUME KernelTypeOK, NEW n, Write!SslWrite(n)
    PROVE  KernelTypeOK' /\ taken' = taken
  BY DEF Write!SslWrite, KernelTypeOK, Errno

\* SSL_read takes the bytes it returns.
LEMMA SslReadTypes ==
    ASSUME KernelTypeOK, NEW cap \in Nat \ {0}, NEW n \in Until!RecvResults(cap), Until!SslRead(cap, n)
    PROVE  /\ KernelTypeOK'
           /\ n \in Int
           /\ taken' = IF n > 0 THEN Min({taken + n, StreamLen}) ELSE taken
  <1>1. n \in RecvResults(cap) /\ n \in Int
    BY DEF Until!RecvResults, RecvResults
  <1>2. CASE Until!Recv(cap, n)
    <2>1. Recv(cap, n)
      BY <1>2 DEF Until!Recv, Recv, Until!Unread, Unread, Until!Min, Min
    <2>2. KernelTypeOK' /\ taken' = IF n > 0 THEN taken + n ELSE taken
      BY <1>1, <2>1, RecvReceives DEF Received
    <2>3. taken' \in Nat /\ taken' <= StreamLen /\ StreamLen \in Nat
      BY <2>2, Bounds DEF KernelTypeOK
    <2>4. n > 0 => Min({taken + n, StreamLen}) = taken + n
      BY <2>2, <2>3, MinOfTwo
    <2> QED  BY <1>1, <2>2, <2>4
  <1>3. CASE n = -1 /\ errno' = "other" /\ UNCHANGED <<arrived, taken, peer>>
    BY <1>1, <1>3 DEF KernelTypeOK, Errno
  <1>4. CASE taken = StreamLen /\ n \in 1 .. cap /\ UNCHANGED <<arrived, taken, peer, errno>>
    <2>1. StreamLen \in Nat /\ n > 0 /\ taken + n \in Nat /\ ~(taken + n <= StreamLen)
      BY <1>1, <1>4, Bounds
    <2>2. Min({taken + n, StreamLen}) = StreamLen
      BY <2>1, MinOfTwo
    <2> QED  BY <1>1, <1>4, <2>1, <2>2 DEF KernelTypeOK
  <1> QED  BY <1>2, <1>3, <1>4 DEF Until!SslRead, Until!kernelVars

\* No call yet.
LEMMA InitAnswerInv == Init => AnswerInv
  <1> SUFFICES ASSUME Init PROVE AnswerInv
    OBVIOUS
  <1>1. KernelTypeOK
    BY Bounds DEF Init, ObjectsInit, KernelInit, KernelTypeOK
  <1>2. SharedTypes
    <2>1. calls = 0 /\ tries = 0 /\ posted = <<>> /\ fd \in {"none", "open"} /\ broken = FALSE /\ task = "none"
      BY DEF Init, ObjectsInit
    <2>2. calls \in 0 .. MaxCalls /\ tries \in 0 .. MaxRetry
      BY <2>1, Bounds
    <2> QED  BY <1>1, <2>1, <2>2 DEF SharedTypes, OneAnswer
  <1> QED  BY <1>2 DEF Init, AnswerInv

\* What a call begins with, in every case.
LEMMA CallShared ==
    ASSUME AnswerInv, BeginCall, calls' = calls + 1, calls < MaxCalls, UNCHANGED objectVars,
           tries' = 0, OneAnswer',
           state' \in Unanswered => posted' = <<>>, state' = "over" => posted' # <<>>
    PROVE  SharedTypes' /\ taken' = 0
  <1>1. KernelTypeOK' /\ taken' = 0
    BY BeginTypes DEF AnswerInv, SharedTypes
  <1>2. calls' \in 0 .. MaxCalls /\ tries' \in 0 .. MaxRetry
    BY Bounds DEF AnswerInv, SharedTypes
  <1> QED  BY <1>1, <1>2 DEF AnswerInv, SharedTypes, objectVars

\* A call begins: nothing of an earlier one is left.
LEMMA CallAnswers ==
    ASSUME IInv, AnswerInv, CallCreate \/ CallConnect \/ CallWrite \/ CallUntil
    PROVE  AnswerInv'
  <1>1. CASE CallCreate
    <2>1. BeginCall /\ state' = "create" /\ tries' = 0 /\ posted' = <<>> /\ error' = "none" /\ UNCHANGED objectVars
      BY <1>1 DEF CallCreate, Handshake!CallCreate, Handshake!Begin, Handshake!BeginCall, BeginCall,
                  Handshake!objectVars, objectVars
    <2>2. task' = "create" /\ calls' = calls + 1 /\ calls < MaxCalls
      BY <1>1 DEF CallCreate, Calls
    <2>3. SharedTypes'
      BY <2>1, <2>2, CallShared DEF OneAnswer
    <2> QED  BY <2>1, <2>2, <2>3 DEF AnswerInv, HandshakeInv
  <1>2. CASE CallConnect
    <2>1. BeginCall /\ tries' = 0 /\ error' = "none" /\ UNCHANGED objectVars
      BY <1>2 DEF CallConnect, Handshake!CallConnect, Handshake!Begin, Handshake!Refuse, Handshake!BeginCall,
                  BeginCall, Handshake!objectVars, objectVars
    <2>2. task' = "connect" /\ calls' = calls + 1 /\ calls < MaxCalls
      BY <1>2 DEF CallConnect, Calls
    <2>3. \/ state' = "connect" /\ posted' = <<>>
          \/ state' = "over" /\ posted' = <<[ec |-> "bad_file_descriptor", size |-> 0]>>
      BY <1>2 DEF CallConnect, Handshake!CallConnect, Handshake!Begin, Handshake!Refuse
    <2>4. /\ OneAnswer' /\ state' \in {"connect", "over"}
          /\ state' = "connect" => posted' = <<>>
          /\ state' = "over" => posted' # <<>> /\ posted'[1].ec = "bad_file_descriptor"
      BY <2>3, RefusedAnswer DEF OneAnswer
    <2>5. SharedTypes'
      BY <2>1, <2>2, <2>4, CallShared DEF Unanswered
    <2> QED  BY <2>1, <2>2, <2>4, <2>5 DEF AnswerInv, HandshakeInv, Handshake!SuccessIsConnected
  <1>3. CASE CallWrite
    <2>1. BeginCall /\ tries' = 0 /\ len' \in 0 .. MaxLen /\ UNCHANGED objectVars
      BY <1>3 DEF CallWrite, Write!Call, Write!Begin, Write!Refuse, Write!BeginCall,
                  BeginCall, Write!objectVars, objectVars
    <2>2. task' = "write" /\ calls' = calls + 1 /\ calls < MaxCalls
      BY <1>3 DEF CallWrite, Calls
    <2>3. \/ state' = "write" /\ posted' = <<>>
          \/ state' = "silent" /\ posted' = <<>> /\ ssl = "null"
          \/ state' = "over" /\ posted' = <<[ec |-> "bad_file_descriptor", size |-> 0]>>
      BY <1>3 DEF CallWrite, Write!Call, Write!Begin, Write!Refuse
    <2>4. /\ OneAnswer' /\ state' \in {"write", "silent", "over"}
          /\ state' \in {"write", "silent"} => posted' = <<>>
          /\ state' = "silent" => ssl = "null"
          /\ state' = "over" => posted' # <<>>
      BY <2>3, RefusedAnswer DEF OneAnswer
    <2>5. SharedTypes'
      BY <2>1, <2>2, <2>4, CallShared DEF Unanswered
    <2> QED  BY <2>1, <2>2, <2>4, <2>5 DEF AnswerInv, WriteInv, objectVars
  <1>4. CASE CallUntil
    <2>1. BeginCall /\ tries' = 0 /\ delimiter' \in Delimiters /\ readable' = 0 /\ UNCHANGED objectVars
      BY <1>4 DEF CallUntil, Until!Call, Until!Begin, Until!Refuse, Until!BeginCall,
                  BeginCall, Until!objectVars, objectVars
    <2>2. task' = "until" /\ calls' = calls + 1 /\ calls < MaxCalls
      BY <1>4 DEF CallUntil, Calls
    <2>3. \/ state' = "VERIFY" /\ posted' = <<>>
          \/ state' = "over" /\ posted' = <<[ec |-> "bad_file_descriptor", size |-> 0]>>
      BY <1>4 DEF CallUntil, Until!Call, Until!Begin, Until!Refuse
    <2>4. /\ OneAnswer' /\ state' \in {"VERIFY", "over"}
          /\ state' = "VERIFY" => posted' = <<>>
          /\ state' = "over" => posted' # <<>> /\ posted'[1].ec = "bad_file_descriptor"
      BY <2>3, RefusedAnswer DEF OneAnswer
    <2>5. SharedTypes' /\ taken' = 0
      BY <2>1, <2>2, <2>4, CallShared DEF Unanswered
    <2> QED  BY <2>1, <2>2, <2>4, <2>5 DEF AnswerInv, UntilInv, Ended, Until!SuccessIsComplete
  <1> QED  BY <1>1, <1>2, <1>3, <1>4

\* A task ends with its callback.
LEMMA TaskPosts ==
    ASSUME SharedTypes, posted = <<>>, KernelTypeOK',
           calls' = calls, broken' \in BOOLEAN, fd' \in {"none", "open", "closed"}, tries' \in 0 .. MaxRetry,
           NEW ec \in ErrorCode, NEW size \in Nat, state' \in {"over", "crashed"},
           posted' = Append(posted, [ec |-> ec, size |-> size])
    PROVE  SharedTypes' /\ posted' # <<>> /\ posted'[1].ec = ec
  BY FirstAnswer DEF SharedTypes, Unanswered

\* A task goes on, or ends without a callback.
LEMMA TaskContinues ==
    ASSUME SharedTypes, posted = <<>>, posted' = <<>>, KernelTypeOK',
           UNCHANGED <<calls, broken, fd>>, tries' \in 0 .. MaxRetry, state' # "over"
    PROVE  SharedTypes'
  BY DEF SharedTypes, OneAnswer

\* async_write_tls's task.
LEMMA WriteAnswers == ASSUME AnswerInv, WriteTask PROVE AnswerInv'
  <1>1. task = "write" /\ Write!Task /\ task' = "write" /\ calls' = calls
    BY DEF WriteTask, Works
  <1>2. SharedTypes /\ len \in 0 .. MaxLen /\ len \in Nat /\ KernelTypeOK /\ tries \in 0 .. MaxRetry
    BY <1>1, Bounds DEF AnswerInv, SharedTypes, WriteInv
  <1>3. fd \in {"none", "open", "closed"} /\ broken \in BOOLEAN
    BY <1>2 DEF SharedTypes
  <1>4. state = "write" => posted = <<>>
    BY <1>2 DEF SharedTypes, Unanswered
  <1>5. CASE Write!WriteReleased
    <2>1. KernelTypeOK' /\ UNCHANGED <<fd, broken, tries, posted, len>> /\ state' = "undefined" /\ posted = <<>>
      BY <1>2, <1>4, <1>5
      DEF Write!WriteReleased, Write!UsesReleased, Write!kernelVars, Write!objectVars, KernelTypeOK
    <2>2. SharedTypes'
      BY <1>1, <1>2, <2>1, TaskContinues
    <2> QED  BY <1>1, <1>2, <2>1, <2>2 DEF AnswerInv, WriteInv
  <1>6. CASE Write!Written
    <2>1. /\ KernelTypeOK' /\ UNCHANGED <<fd, broken, tries, len>> /\ state' = "over" /\ posted = <<>>
          /\ posted' = Append(posted, [ec |-> "none", size |-> len])
      BY <1>2, <1>4, <1>6, SslWriteTypes DEF Write!Written, Write!Post
    <2>2. SharedTypes' /\ posted' # <<>>
      BY <1>1, <1>2, <1>3, <2>1, TaskPosts DEF ErrorCode, Errno
    <2> QED  BY <1>1, <1>2, <2>1, <2>2 DEF AnswerInv, WriteInv
  <1>7. CASE Write!NotWritten
    <2>1. KernelTypeOK' /\ UNCHANGED <<fd, broken, len>> /\ posted = <<>>
      BY <1>2, <1>4, <1>7, SslWriteTypes DEF Write!NotWritten, Write!objectVars
    <2>2. CASE ctx = "null"
      <3>1. state' = "crashed" /\ UNCHANGED <<tries, posted>>
        BY <1>7, <2>2 DEF Write!NotWritten
      <3>2. SharedTypes' /\ ctx' = "null"
        BY <1>1, <1>2, <1>7, <2>1, <2>2, <3>1, TaskContinues DEF Write!NotWritten, Write!objectVars
      <3> QED  BY <1>1, <1>2, <2>1, <3>1, <3>2 DEF AnswerInv, WriteInv
    <2>3. CASE ctx # "null"
      <3>1. tries' = 1 /\ state' = "over" /\ posted' = Append(posted, [ec |-> "io_error", size |-> 0])
        BY <1>7, <2>3 DEF Write!NotWritten, Write!Post
      <3>2. SharedTypes' /\ posted' # <<>>
        BY <1>1, <1>2, <1>3, <2>1, <3>1, Bounds, TaskPosts DEF ErrorCode
      <3> QED  BY <1>1, <1>2, <2>1, <3>1, <3>2 DEF AnswerInv, WriteInv
    <2> QED  BY <2>2, <2>3
  <1>8. CASE Write!Closed
    <2>1. /\ KernelTypeOK' /\ fd' = "closed" /\ broken' = TRUE /\ UNCHANGED <<tries, len>>
          /\ state' = "over" /\ posted = <<>>
          /\ posted' = Append(posted, [ec |-> "connection_reset", size |-> 0])
      BY <1>2, <1>4, <1>8, SslWriteTypes DEF Write!Closed, Write!Post
    <2>2. SharedTypes' /\ posted' # <<>>
      BY <1>1, <1>2, <2>1, TaskPosts DEF ErrorCode
    <2> QED  BY <1>1, <1>2, <2>1, <2>2 DEF AnswerInv, WriteInv
  <1> QED  BY <1>1, <1>5, <1>6, <1>7, <1>8 DEF Write!Task

\* async_read_until_tls's task ends with its callback.
LEMMA UntilPosts ==
    ASSUME SharedTypes, UntilInv, posted = <<>>, KernelTypeOK', readable' = taken', delimiter' = delimiter,
           UNCHANGED <<task, calls, fd, broken>>, task = "until", tries' \in 0 .. MaxRetry,
           NEW ec \in ErrorCode, NEW size \in Nat, state' \in {"over", "crashed"},
           state' = "crashed" => ec = "connection_reset",
           posted' = Append(posted, [ec |-> ec, size |-> size]),
           ec = "none" => Until!DelimiterIn(readable')
    PROVE  AnswerInv'
  <1>1. SharedTypes' /\ posted' # <<>> /\ posted'[1].ec = ec
    BY TaskPosts DEF SharedTypes
  <1>2. Until!SuccessIsComplete'
    BY <1>1 DEF Until!SuccessIsComplete, Until!DelimiterIn
  <1> QED  BY <1>1, <1>2 DEF AnswerInv, UntilInv, Ended

\* async_read_until_tls's task goes on, or ends without a callback.
LEMMA UntilContinues ==
    ASSUME SharedTypes, UntilInv, posted = <<>>, KernelTypeOK', readable' = taken', delimiter' = delimiter,
           UNCHANGED <<task, calls, fd, broken, posted>>, task = "until", tries' \in 0 .. MaxRetry,
           state' \in {"VERIFY", "READING", "ERROR", "retry", "silent", "undefined"},
           state' \in {"VERIFY", "READING", "silent"} => tries' = 0,
           state' = "silent" => delimiter[1] <= readable',
           state' = "retry" => tries' < MaxRetry
    PROVE  AnswerInv'
  <1>1. SharedTypes'
    BY TaskContinues
  <1>2. Until!SuccessIsComplete'
    BY DEF Until!SuccessIsComplete
  <1> QED  BY <1>1, <1>2 DEF AnswerInv, UntilInv, Ended

\* async_read_until_tls's task.
LEMMA UntilAnswers == ASSUME AnswerInv, UntilTask PROVE AnswerInv'
  <1>1. task = "until" /\ Until!Task /\ UNCHANGED <<task, calls>>
    BY DEF UntilTask, Works
  <1>2. SharedTypes /\ UntilInv /\ KernelTypeOK
    BY <1>1 DEF AnswerInv, SharedTypes
  <1>3. /\ tries \in Nat /\ tries <= MaxRetry /\ tries \in 0 .. MaxRetry /\ readable = taken /\ readable \in Nat
        /\ errno \in ErrorCode
    BY <1>2, Bounds DEF SharedTypes, UntilInv, KernelTypeOK, ErrorCode
  <1>4. state \in {"VERIFY", "READING", "ERROR", "retry"} => posted = <<>>
    BY <1>2 DEF SharedTypes, Unanswered
  <1>5. "io_error" \in ErrorCode /\ "timed_out" \in ErrorCode /\ "connection_reset" \in ErrorCode /\ "none" \in ErrorCode
    BY DEF ErrorCode, Errno
  <1>6. state = "retry" => tries + 1 \in 0 .. MaxRetry
    BY <1>2, <1>3, Bounds DEF UntilInv
  <1>7. UNCHANGED <<arrived, taken, peer, errno>> => KernelTypeOK' /\ taken' = taken
    BY <1>2 DEF KernelTypeOK
  <1> USE <1>1, <1>2, <1>3, <1>4, <1>5 DEF Until!kernelVars, Until!objectVars
  <1>8. CASE Until!Verify
    <2>1. /\ posted = <<>> /\ KernelTypeOK' /\ readable' = taken' /\ UNCHANGED <<fd, broken, posted, delimiter>>
          /\ tries' \in 0 .. MaxRetry /\ readable' = readable
      BY <1>7, <1>8 DEF Until!Verify
    <2>2. /\ tries' = 0
          /\ state' = "READING" \/ (state' = "silent" /\ delimiter[1] <= readable')
      BY <1>8 DEF Until!Verify, Until!DelimiterLength, UntilInv
    <2> QED  BY <2>1, <2>2, UntilContinues
  <1>9. CASE Until!SelectFails
    <2>1. /\ posted = <<>> /\ KernelTypeOK' /\ readable' = taken' /\ UNCHANGED <<fd, broken, delimiter>>
          /\ tries' \in 0 .. MaxRetry /\ state' = "over"
          /\ posted' = Append(posted, [ec |-> "timed_out", size |-> 0])
      BY <1>7, <1>9 DEF Until!SelectFails, objectVars, Until!Post
    <2> QED  BY <2>1, UntilPosts
  <1>10. CASE Until!ReadReleased
    <2>1. /\ posted = <<>> /\ KernelTypeOK' /\ readable' = taken' /\ UNCHANGED <<fd, broken, posted, delimiter>>
          /\ tries' \in 0 .. MaxRetry /\ state' = "undefined"
      BY <1>7, <1>10 DEF Until!ReadReleased, Until!UsesReleased
    <2> QED  BY <2>1, UntilContinues
  <1>11. CASE Until!Reading
    <2>1. PICK n \in Until!RecvResults(CacheSize) :
            /\ Until!SslRead(CacheSize, n)
            /\ readable' = IF n > 0 THEN Min({readable + n, StreamLen}) ELSE readable
            /\ CASE n < 0 -> state' = "ERROR" /\ UNCHANGED posted
                 [] n = 0 -> Until!Closed
                 [] n > 0 -> state' = "VERIFY" /\ UNCHANGED posted
      BY <1>11 DEF Until!Reading, Until!Appended, Until!Min, Min
    <2>2. n \in Int /\ KernelTypeOK' /\ readable' = taken'
      BY <2>1, Bounds, SslReadTypes
    <2>3. posted = <<>> /\ UNCHANGED <<fd, broken, delimiter, tries>> /\ tries' \in 0 .. MaxRetry /\ tries' = 0
      BY <1>11 DEF Until!Reading, UntilInv
    <2>4. CASE n < 0
      <3>1. n < 0 /\ ~(n = 0) /\ ~(n > 0)
        BY <2>2, <2>4
      <3>2. state' = "ERROR" /\ UNCHANGED posted
        BY <2>1, <3>1
      <3> QED  BY <2>2, <2>3, <3>2, UntilContinues
    <2>5. CASE n = 0
      <3>1. n = 0 /\ ~(n < 0) /\ ~(n > 0)
        BY <2>5
      <3>2. state' = "crashed" /\ posted' = Append(posted, [ec |-> "connection_reset", size |-> 0])
        BY <2>1, <3>1 DEF Until!Closed
      <3> QED  BY <2>2, <2>3, <3>2, UntilPosts
    <2>6. CASE n > 0
      <3>1. n > 0 /\ ~(n = 0) /\ ~(n < 0)
        BY <2>2, <2>6
      <3>2. state' = "VERIFY" /\ UNCHANGED posted
        BY <2>1, <3>1
      <3> QED  BY <2>2, <2>3, <3>2, UntilContinues
    <2> QED  BY <2>2, <2>4, <2>5, <2>6
  <1>12. CASE Until!Error
    <2>1. /\ posted = <<>> /\ KernelTypeOK' /\ readable' = taken' /\ UNCHANGED <<fd, broken, delimiter>>
          /\ tries' = 0 /\ tries' \in 0 .. MaxRetry /\ tries' < MaxRetry
      BY <1>7, <1>12, Bounds DEF Until!Error
    <2>2. CASE errno = "other"
      <3>1. state' = "over" /\ posted' = Append(posted, [ec |-> "io_error", size |-> 0])
        BY <1>12, <2>2 DEF Until!Error, Until!RetryFailed, Until!Post
      <3> QED  BY <2>1, <3>1, UntilPosts
    <2>3. CASE errno # "other"
      <3>1. state' = "retry" /\ UNCHANGED posted
        BY <1>12, <2>3 DEF Until!Error
      <3> QED  BY <2>1, <3>1, UntilContinues
    <2> QED  BY <2>2, <2>3
  <1>13. CASE Until!RetrySelectFails
    <2>1. /\ posted = <<>> /\ KernelTypeOK' /\ readable' = taken' /\ UNCHANGED <<fd, broken, delimiter>>
          /\ tries' \in 0 .. MaxRetry /\ state' = "over"
          /\ posted' = Append(posted, [ec |-> "io_error", size |-> 0])
      BY <1>7, <1>13, Bounds DEF Until!RetrySelectFails, Until!RetryFailed, Until!Post
    <2> QED  BY <2>1, UntilPosts
  <1>14. CASE Until!RetryExhausted
    <2>1. /\ posted = <<>> /\ KernelTypeOK' /\ readable' = taken' /\ UNCHANGED <<fd, broken, delimiter>>
          /\ tries' \in 0 .. MaxRetry /\ state' = "over"
          /\ posted' = Append(posted, [ec |-> "io_error", size |-> 0])
      BY <1>6, <1>7, <1>14
      DEF Until!RetryExhausted, Until!RetryTurn, Until!RetryFailed, Until!Post
    <2> QED  BY <2>1, UntilPosts
  <1>15. CASE Until!RetryFound
    <2>1. /\ posted = <<>> /\ KernelTypeOK' /\ readable' = taken' /\ UNCHANGED <<fd, broken, delimiter>>
          /\ tries' \in 0 .. MaxRetry /\ state' = "over" /\ readable' = readable
          /\ posted' = Append(posted, [ec |-> "none", size |-> readable])
          /\ Until!DelimiterIn(readable)
      BY <1>6, <1>7, <1>15
      DEF Until!RetryFound, Until!RetryTurn, Until!RetrySuccess, Until!Post
    <2> QED  BY <2>1, UntilPosts
  <1>16. CASE Until!RetryRead
    <2>1. PICK n \in Until!RecvResults(RetrySize) :
            /\ Until!SslRead(RetrySize, n)
            /\ readable' = IF n > 0 THEN Min({readable + n, StreamLen}) ELSE readable
            /\ IF n > 0 \/ (n < 0 /\ errno' = "again") THEN UNCHANGED <<state, posted>> ELSE Until!RetryFailed
      BY <1>16 DEF Until!RetryRead, Until!Appended, Until!Min, Min
    <2>2. n \in Int /\ KernelTypeOK' /\ readable' = taken'
      BY <2>1, Bounds, SslReadTypes
    <2>3. /\ posted = <<>> /\ UNCHANGED <<fd, broken, delimiter>> /\ tries' \in 0 .. MaxRetry
          /\ tries' < MaxRetry /\ state = "retry"
      BY <1>6, <1>16 DEF Until!RetryRead, Until!RetryTurn
    <2>4. CASE n > 0 \/ (n < 0 /\ errno' = "again")
      <3>1. state' = "retry" /\ UNCHANGED posted
        BY <2>1, <2>3, <2>4
      <3> QED  BY <2>2, <2>3, <3>1, UntilContinues
    <2>5. CASE ~(n > 0 \/ (n < 0 /\ errno' = "again"))
      <3>1. state' = "over" /\ posted' = Append(posted, [ec |-> "io_error", size |-> 0])
        BY <2>1, <2>5 DEF Until!RetryFailed, Until!Post
      <3> QED  BY <2>2, <2>3, <3>1, UntilPosts
    <2> QED  BY <2>4, <2>5
  <1> QED
    BY <1>8, <1>9, <1>10, <1>11, <1>12, <1>13, <1>14, <1>15, <1>16 DEF Until!Task

\* The task of a handshake, or of the creation of the objects, ends with its callback.
LEMMA HandshakePosts ==
    ASSUME SharedTypes, HandshakeInv, posted = <<>>, KernelTypeOK', task \in {"create", "connect"},
           UNCHANGED <<task, calls>>, fd' \in {"none", "open", "closed"}, broken' \in BOOLEAN,
           tries' \in 0 .. MaxRetry, error' \in {"none", "want", "syscall", "ssl", "other"},
           NEW ec \in ErrorCode, state' = "over",
           posted' = Append(posted, [ec |-> ec, size |-> 0]),
           task = "connect" /\ ec = "none" /\ errno' # "none" => ssl' = "connected"
    PROVE  AnswerInv'
  <1>1. SharedTypes' /\ posted' # <<>> /\ posted'[1].ec = ec
    BY TaskPosts DEF SharedTypes
  <1>2. task = "connect" => Handshake!SuccessIsConnected'
    BY <1>1 DEF Handshake!SuccessIsConnected
  <1> QED  BY <1>1, <1>2 DEF AnswerInv, HandshakeInv

\* The task of a handshake goes on, or ends without a callback.
LEMMA HandshakeContinues ==
    ASSUME SharedTypes, HandshakeInv, posted = <<>>, KernelTypeOK', task \in {"create", "connect"},
           UNCHANGED <<task, calls, fd, broken, posted>>,
           tries' \in 0 .. MaxRetry, error' \in {"none", "want", "syscall", "ssl", "other"},
           state' \in {"retry", "crashed", "undefined"},
           state' = "crashed" => task = "connect" /\ (error' = "ssl" \/ ctx' = "null")
    PROVE  AnswerInv'
  <1>1. SharedTypes'
    BY TaskContinues
  <1>2. Handshake!SuccessIsConnected'
    BY DEF Handshake!SuccessIsConnected
  <1> QED  BY <1>1, <1>2 DEF AnswerInv, HandshakeInv

\* The task of async_create_tls or async_try_connect_tls.
LEMMA HandshakeAnswers ==
    ASSUME IInv, AnswerInv, HandshakeTask
    PROVE  AnswerInv'
  <1>1. task \in {"create", "connect"} /\ Handshake!Task /\ UNCHANGED <<task, calls>>
    BY DEF HandshakeTask, Works
  <1>2. SharedTypes /\ HandshakeInv /\ KernelTypeOK /\ tries \in 0 .. MaxRetry /\ broken \in BOOLEAN
    BY <1>1 DEF AnswerInv, SharedTypes
  <1>3. /\ state \in {"create", "connect", "retry"} => posted = <<>>
        /\ fd \in {"none", "open", "closed"} /\ error \in {"none", "want", "syscall", "ssl", "other"}
        /\ errno \in ErrorCode /\ "none" \in ErrorCode /\ "timed_out" \in ErrorCode
    BY <1>2 DEF SharedTypes, Unanswered, HandshakeInv, KernelTypeOK, ErrorCode, Errno
  <1>4. Handshake!Turn => state = "retry" /\ posted = <<>> /\ tries' \in 0 .. MaxRetry
    BY <1>2, <1>3, Bounds DEF Handshake!Turn
  <1>5. UNCHANGED <<arrived, taken, peer, errno>> => KernelTypeOK' /\ errno' = errno
    BY <1>2 DEF KernelTypeOK
  <1> USE <1>1, <1>2, <1>3 DEF Handshake!objectVars, Handshake!kernelVars, Handshake!handshakeVars
  <1>6. CASE Handshake!Created
    <2>1. /\ posted = <<>> /\ KernelTypeOK' /\ UNCHANGED <<fd, tries, error>> /\ broken' = FALSE
          /\ state' = "over" /\ posted' = Append(posted, [ec |-> "none", size |-> 0]) /\ ssl' = "fresh"
      BY <1>5, <1>6 DEF Handshake!Created, Handshake!Post
    <2>2. task # "connect"
      BY <1>6 DEF Handshake!Created, IInv, StateOfTask
    <2> QED  BY <2>1, <2>2, HandshakePosts
  <1>7. CASE Handshake!NotCreated
    <2>1. errno' \in {errno, "other"} /\ errno \in Errno
      BY <1>7 DEF Handshake!NotCreated, KernelTypeOK
    <2>2. KernelTypeOK' /\ errno' \in ErrorCode
      BY <1>7, <2>1 DEF Handshake!NotCreated, KernelTypeOK, ErrorCode, Errno
    <2>3. /\ posted = <<>> /\ UNCHANGED <<fd, broken, tries, error>>
          /\ state' = "over" /\ posted' = Append(posted, [ec |-> errno', size |-> 0])
      BY <1>7 DEF Handshake!NotCreated, Handshake!Post
    <2>4. task # "connect"
      BY <1>7 DEF Handshake!NotCreated, IInv, StateOfTask
    <2> QED  BY <2>2, <2>3, <2>4, HandshakePosts
  <1>8. CASE Handshake!ConnectReleased
    <2>1. /\ posted = <<>> /\ KernelTypeOK' /\ UNCHANGED <<fd, broken, posted, tries, error>>
          /\ state' = "undefined"
      BY <1>5, <1>8 DEF Handshake!ConnectReleased, Handshake!UsesReleased
    <2> QED  BY <2>1, HandshakeContinues
  <1>9. CASE Handshake!Connect
    <2>1. PICK result \in Handshake!SslResults :
            /\ Handshake!SslConnect(ssl, result)
            /\ IF result = "done"
               THEN Handshake!Done /\ UNCHANGED error
               ELSE state' = "retry" /\ error' = result /\ UNCHANGED <<Handshake!objectVars, posted>>
      BY <1>9 DEF Handshake!Connect
    <2>2. KernelTypeOK' /\ posted = <<>> /\ UNCHANGED tries
      BY <1>9, <2>1, SslConnectTypes DEF Handshake!Connect
    <2>3. CASE result = "done"
      <3>1. /\ UNCHANGED <<fd, broken, error>> /\ state' = "over" /\ ssl' = "connected"
            /\ posted' = Append(posted, [ec |-> "none", size |-> 0])
        BY <2>1, <2>3 DEF Handshake!Done, Handshake!Post
      <3> QED  BY <2>2, <3>1, HandshakePosts
    <2>4. CASE result # "done"
      <3>1. state' = "retry" /\ error' = result /\ UNCHANGED <<fd, broken, posted>>
        BY <2>1, <2>4
      <3>2. error' \in {"none", "want", "syscall", "ssl", "other"}
        BY <2>4, <3>1 DEF Handshake!SslResults
      <3> QED  BY <2>2, <3>1, <3>2, HandshakeContinues
    <2> QED  BY <2>3, <2>4
  <1>10. CASE Handshake!SelectFails
    <2>1. "want" \in Handshake!SslResults
      BY DEF Handshake!SslResults
    <2>2. /\ posted = <<>> /\ KernelTypeOK' /\ UNCHANGED <<fd, broken, tries, error>>
          /\ state' = "over" /\ posted' = Append(posted, [ec |-> "timed_out", size |-> 0])
      BY <1>10, <2>1, SslConnectTypes DEF Handshake!SelectFails, Handshake!Post
    <2> QED  BY <2>2, HandshakePosts
  <1>11. CASE Handshake!TurnWanted
    <2>1. PICK result \in Handshake!SslResults :
            /\ Handshake!SslConnect(ssl, result)
            /\ IF result = "done" THEN Handshake!Done ELSE UNCHANGED <<Handshake!objectVars, state, posted>>
      BY <1>11 DEF Handshake!TurnWanted
    <2>2. /\ KernelTypeOK' /\ posted = <<>> /\ state = "retry" /\ tries' \in 0 .. MaxRetry /\ UNCHANGED error
      BY <1>4, <1>11, <2>1, SslConnectTypes DEF Handshake!TurnWanted
    <2>3. CASE result = "done"
      <3>1. /\ UNCHANGED <<fd, broken>> /\ state' = "over" /\ ssl' = "connected"
            /\ posted' = Append(posted, [ec |-> "none", size |-> 0])
        BY <2>1, <2>3 DEF Handshake!Done, Handshake!Post
      <3> QED  BY <2>2, <3>1, HandshakePosts
    <2>4. CASE result # "done"
      <3>1. state' = "retry" /\ UNCHANGED <<fd, broken, posted>>
        BY <2>1, <2>2, <2>4
      <3> QED  BY <2>2, <3>1, HandshakeContinues
    <2> QED  BY <2>3, <2>4
  <1>12. CASE Handshake!TurnOther
    <2>1. PICK new \in Handshake!Replacements : Handshake!Replaces(new)
      BY <1>12 DEF Handshake!TurnOther
    <2>2. /\ posted = <<>> /\ KernelTypeOK' /\ UNCHANGED <<fd, broken, posted, error>>
          /\ state' = "retry" /\ tries' \in 0 .. MaxRetry
      BY <1>4, <1>5, <1>12, <2>1 DEF Handshake!TurnOther, Handshake!Replaces
    <2> QED  BY <2>2, HandshakeContinues
  <1>13. CASE Handshake!TurnThrows
    <2>1. PICK new \in Handshake!Replacements : Handshake!Replaces(new)
      BY <1>13 DEF Handshake!TurnThrows
    <2>2. /\ posted = <<>> /\ KernelTypeOK' /\ UNCHANGED <<fd, broken, posted, error>>
          /\ state' = "crashed" /\ tries' \in 0 .. MaxRetry /\ error = "ssl" /\ state = "retry"
      BY <1>4, <1>5, <1>13, <2>1 DEF Handshake!TurnThrows, Handshake!Replaces
    <2>3. task = "connect"
      BY <2>2 DEF IInv, StateOfTask
    <2> QED  BY <2>2, <2>3, HandshakeContinues
  <1>14. CASE Handshake!TurnFails
    <2>1. PICK new \in Handshake!Replacements :
            Handshake!GiveUp(new.retry, new.leaked) /\ ssl' = new.ssl /\ retry' = new.retry
      BY <1>14 DEF Handshake!TurnFails
    <2>2. /\ posted = <<>> /\ KernelTypeOK' /\ UNCHANGED <<fd, error>> /\ errno' = errno
          /\ broken' = TRUE /\ state' = "over" /\ tries' \in 0 .. MaxRetry
          /\ posted' = Append(posted, [ec |-> errno, size |-> 0])
      BY <1>4, <1>5, <1>14, <2>1 DEF Handshake!TurnFails, Handshake!GiveUp, Handshake!Post
    <2> QED  BY <2>2, HandshakePosts
  <1>15. CASE Handshake!TurnReconnects
    <2>1. PICK new \in Handshake!Replacements, result \in Handshake!SslResults :
            /\ Handshake!SslConnect(new.retry, result)
            /\ IF new.retry = "null"
               THEN Handshake!Replaces(new) /\ state' = "crashed" /\ UNCHANGED <<broken, posted>>
               ELSE IF result = "done"
               THEN Handshake!Turn /\ Handshake!Done /\ retry' = "same" /\ UNCHANGED error
               ELSE /\ Handshake!Replaces(new)
                    /\ state' \in IF new.ssl = "released" THEN {"retry", "undefined"} ELSE {"retry"}
                    /\ UNCHANGED <<broken, posted>>
      BY <1>15 DEF Handshake!TurnReconnects
    <2>2. KernelTypeOK'
      BY <2>1, SslConnectTypes
    <2>3. CASE new.retry = "null" \/ result # "done"
      <3>1. /\ posted = <<>> /\ UNCHANGED <<fd, broken, posted, error>> /\ tries' \in 0 .. MaxRetry
            /\ state' \in {"retry", "crashed", "undefined"} /\ state = "retry" /\ ctx' = ctx
            /\ state' = "crashed" => new.retry = "null"
        BY <1>4, <2>1, <2>3 DEF Handshake!Replaces
      <3>2. task = "connect"
        BY <3>1 DEF IInv, StateOfTask
      <3>3. new.retry = "null" => ctx = "null"
        BY ReplacementTypes
      <3> QED  BY <2>2, <3>1, <3>2, <3>3, HandshakeContinues
    <2>4. CASE new.retry # "null" /\ result = "done"
      <3>1. /\ posted = <<>> /\ tries' \in 0 .. MaxRetry /\ UNCHANGED <<fd, broken, error>>
            /\ state' = "over" /\ ssl' = "connected"
            /\ posted' = Append(posted, [ec |-> "none", size |-> 0])
        BY <1>4, <2>1, <2>4 DEF Handshake!Done, Handshake!Post
      <3> QED  BY <2>2, <3>1, HandshakePosts
    <2> QED  BY <2>3, <2>4
  <1>16. CASE Handshake!TurnsOver
    <2>1. /\ posted = <<>> /\ KernelTypeOK' /\ UNCHANGED <<fd, error, tries>> /\ errno' = errno
          /\ broken' = TRUE /\ state' = "over"
          /\ posted' = Append(posted, [ec |-> errno, size |-> 0])
      BY <1>5, <1>16 DEF Handshake!TurnsOver, Handshake!GiveUp, Handshake!Post
    <2> QED  BY <2>1, HandshakePosts
  <1> QED
    BY <1>6, <1>7, <1>8, <1>9, <1>10, <1>11, <1>12, <1>13, <1>14, <1>15, <1>16 DEF Handshake!Task

\* The socket is destroyed; bytes arrive; nothing happens.
LEMMA OtherAnswers ==
    ASSUME AnswerInv, Destroy \/ Environment \/ UNCHANGED vars
    PROVE  AnswerInv'
  <1>1. SharedTypes /\ KernelTypeOK
    BY DEF AnswerInv, SharedTypes
  <1>2. CASE Destroy
    <2>1. KernelTypeOK' /\ posted' = <<>> /\ task' = "destroy" /\ UNCHANGED <<fd, broken, tries, calls>>
      BY <1>1, <1>2 DEF Destroy, KernelTypeOK, kernelVars
    <2>2. SharedTypes'
      BY <1>1, <2>1 DEF SharedTypes, OneAnswer
    <2> QED  BY <2>1, <2>2 DEF AnswerInv
  <1>3. CASE Environment \/ UNCHANGED vars
    <2>1. KernelTypeOK' /\ taken' = taken /\ errno' = errno
      BY <1>1, <1>3, ArrivalTypes DEF Environment, vars, kernelVars, KernelTypeOK
    <2>2. UNCHANGED <<fd, ctx, ssl, broken, state, tries, posted, task, calls, error, retry, len, delimiter, readable>>
      BY <1>3 DEF Environment, vars, objectVars, taskVars, handshakeVars, untilVars
    <2>3. SharedTypes'
      BY <1>1, <2>1, <2>2 DEF SharedTypes, OneAnswer
    <2>4. task \in {"create", "connect"} => HandshakeInv'
      BY <2>1, <2>2 DEF AnswerInv, HandshakeInv, Handshake!SuccessIsConnected
    <2>5. task = "write" => WriteInv'
      BY <2>2 DEF AnswerInv, WriteInv
    <2>6. task = "until" => UntilInv'
      BY <2>1, <2>2 DEF AnswerInv, UntilInv, Until!SuccessIsComplete, Until!DelimiterIn
    <2> QED  BY <2>2, <2>3, <2>4, <2>5, <2>6 DEF AnswerInv
  <1> QED  BY <1>2, <1>3

\* AnswerInv is an invariant: the calls' answers rest on what IInv says of the objects.
THEOREM Answers == Spec => []AnswerInv
  <1>1. Init => AnswerInv
    BY InitAnswerInv
  <1>2. IInv /\ AnswerInv /\ [Next]_vars => AnswerInv'
    BY CallAnswers, HandshakeAnswers, WriteAnswers, UntilAnswers, OtherAnswers DEF Next, Task
  <1> QED  BY <1>1, <1>2, Invariance, PTL DEF Spec

-----------------------------------------------------------------------------
\* The objects, the descriptor, the callbacks and each task's state, tries and buffer have
\* their types in every call of socket_ssl.hpp: no counter exceeds its bound.
THEOREM TypeCorrect == Spec => []TypeOK
  <1>1. ASSUME IInv, AnswerInv PROVE TypeOK
    <2>1. \A i \in DOMAIN posted : posted[i].ec \in ErrorCode /\ posted[i].size \in Nat
      BY <1>1 DEF AnswerInv, SharedTypes, OneAnswer
    <2>2. /\ KernelTypeOK /\ fd \in {"none", "open", "closed"} /\ broken \in BOOLEAN
          /\ tries \in 0 .. MaxRetry /\ calls \in 0 .. MaxCalls
      BY <1>1 DEF AnswerInv, SharedTypes
    <2>3. /\ task \in {"none", "create", "connect", "write", "until", "destroy"}
          /\ ctx \in {"null", "set"} /\ ssl \in {"null", "fresh", "connected", "released"}
          /\ leaked \in Nat /\ retry \in {"same", "null", "fresh"}
      BY <1>1 DEF IInv, ObjectTypes, StateOfTask
    <2>4. task \in {"create", "connect"} => Handshake!TypeOK
      BY <1>1, <2>1, <2>2, <2>3
      DEF AnswerInv, HandshakeInv, Handshake!TypeOK, Handshake!Ended, Ended, Handshake!ObjectsTypeOK, Handshake!KernelTypeOK,
          KernelTypeOK, Handshake!ErrorCode, ErrorCode, Handshake!Errno, Errno
    <2>5. task = "write" => Write!TypeOK
      <3>1. task = "write" => state \in {"write"} \cup Ended /\ len \in 0 .. MaxLen
        BY <1>1 DEF IInv, StateOfTask, AnswerInv, WriteInv
      <3> QED
        BY <2>1, <2>2, <2>3, <3>1
        DEF Write!TypeOK, Write!Ended, Ended, Write!ObjectsTypeOK, Write!KernelTypeOK, KernelTypeOK,
            Write!ErrorCode, ErrorCode, Write!Errno, Errno
    <2>6. task = "until" => Until!TypeOK
      <3>1. ASSUME task = "until" PROVE readable \in 0 .. StreamLen
        BY <1>1, <2>2, <3>1, Bounds DEF AnswerInv, UntilInv, KernelTypeOK
      <3>2. ASSUME task = "until"
            PROVE  /\ delimiter \in Delimiters
                   /\ state \in {"VERIFY", "READING", "ERROR", "retry"} \cup Ended
        BY <1>1, <3>2 DEF AnswerInv, UntilInv
      <3> QED
        BY <2>1, <2>2, <2>3, <3>1, <3>2
        DEF Until!TypeOK, Until!Ended, Ended, Until!ObjectsTypeOK, Until!KernelTypeOK, KernelTypeOK,
            Until!ErrorCode, ErrorCode, Until!Errno, Errno
    <2> QED  BY <2>2, <2>3, <2>4, <2>5, <2>6 DEF TypeOK
  <1> QED  BY <1>1, Invariance, Answers, PTL

\* async_try_connect_tls, given an errno that is not 0, reports a handshake as done only
\* when it is done on the object M_openssl_ptr points to, also after the retries made
\* others; async_read_until_tls reports success only with the delimiter in its buffer.
THEOREM SuccessIsSo == Spec => []SuccessIsTrue
  <1>1. AnswerInv => SuccessIsTrue
    BY DEF AnswerInv, HandshakeInv, UntilInv, SuccessIsTrue
  <1> QED  BY <1>1, Answers, PTL

\* What SSL_read takes, in READING or in M_ssl_read_until_retry, is in the buffer that
\* async_read_until_tls hands to its callback.
THEOREM UntilDelivers == Spec => []UntilDeliversAll
  <1>1. AnswerInv => UntilDeliversAll
    BY DEF AnswerInv, UntilInv, UntilDeliversAll, Until!DeliversAll
  <1> QED  BY <1>1, Answers, PTL

\* Every call of socket_ssl.hpp posts its callback once, and has when it is over.  A call
\* ends otherwise only as a silent write without an SSL object, as a silent read that holds
\* as many bytes as its delimiter and has not come to its retries, by the exceptions of a
\* handshake (SSL_ERROR_SSL, or no context) and of a write (no context), by the crash of
\* a read whose callback has been told of the end of the stream, or by the use of a
\* released object, which is posted nothing.
THEOREM OneCallback == Spec => []AnsweredOnce
  <1>1. IInv /\ AnswerInv => AnsweredOnce
    <2> SUFFICES ASSUME IInv, AnswerInv PROVE AnsweredOnce
      OBVIOUS
    <2>1. posted = <<>> \/ posted = <<posted[1]>>
      BY DEF AnswerInv, SharedTypes, OneAnswer
    <2>2. Len(posted) <= 1
      BY <2>1
    <2> QED  BY <2>2 DEF IInv, StateOfTask, AnswerInv, SharedTypes, Unanswered, HandshakeInv, WriteInv, UntilInv, Ended,
                         AnsweredOnce
  <1> QED  BY <1>1, Invariance, Answers, PTL

-----------------------------------------------------------------------------
(* How long a call may take.                                               *)

\* An upper bound of the steps that the task of the call under way still takes, if no piece
\* is taken before a read's retries: a handshake and a read end with MaxRetry retries at
\* most.
StepsLeft ==
    CASE state \in Ended -> 0
      [] state \in {"create", "write"} -> 1
      [] state = "retry" -> MaxRetry - tries + 1
      [] state \in {"connect", "ERROR"} -> MaxRetry + 2
      [] state = "READING" -> MaxRetry + 3
      [] state = "VERIFY" -> MaxRetry + 4

\* A step of a call's task makes the rest of the call shorter, or takes a piece.
Advances == IF TakesPiece THEN StepsLeft' = StepsLeft + 1 ELSE StepsLeft' < StepsLeft

LEMMA HandshakeAdvances == ASSUME IInv, AnswerInv, HandshakeTask PROVE Advances
  <1>1. tries \in 0 .. MaxRetry /\ MaxRetry \in Nat \ {0} /\ Handshake!Task /\ task # "until"
    BY Bounds DEF AnswerInv, SharedTypes, HandshakeTask, Works
  <1> USE <1>1 DEF Advances, TakesPiece, Ended
  <1>2. CASE Handshake!Created \/ Handshake!NotCreated
    <2>1. state = "create" /\ state' = "over"
      BY <1>2 DEF Handshake!Created, Handshake!NotCreated, Handshake!Post
    <2> QED  BY <2>1 DEF StepsLeft
  <1>3. CASE Handshake!ConnectReleased \/ Handshake!Connect \/ Handshake!SelectFails
    <2>1. /\ state = "connect"
          /\ state' \in {"undefined", "over"} \/ (state' = "retry" /\ tries' = tries)
      BY <1>3 DEF Handshake!ConnectReleased, Handshake!UsesReleased, Handshake!Connect, Handshake!Done,
                  Handshake!SelectFails, Handshake!Post
    <2> QED  BY <2>1 DEF StepsLeft
  <1>4. CASE Handshake!TurnWanted \/ Handshake!TurnOther \/ Handshake!TurnThrows \/ Handshake!TurnFails
             \/ Handshake!TurnReconnects
    <2>1. /\ state = "retry" /\ tries < MaxRetry /\ tries' = tries + 1
          /\ state' \in {"retry", "over", "crashed", "undefined"}
      BY <1>4 DEF Handshake!TurnWanted, Handshake!TurnOther, Handshake!TurnThrows, Handshake!TurnFails,
                  Handshake!TurnReconnects, Handshake!Turn, Handshake!Replaces, Handshake!Done, Handshake!GiveUp,
                  Handshake!Post
    <2> QED  BY <2>1 DEF StepsLeft
  <1>5. CASE Handshake!TurnsOver
    <2>1. state = "retry" /\ state' = "over"
      BY <1>5 DEF Handshake!TurnsOver, Handshake!GiveUp, Handshake!Post
    <2> QED  BY <2>1 DEF StepsLeft
  <1> QED  BY <1>2, <1>3, <1>4, <1>5 DEF Handshake!Task

LEMMA WriteAdvances == ASSUME WriteTask PROVE Advances
  <1>1. state = "write" /\ state' \in {"over", "crashed", "undefined"}
    BY DEF WriteTask, Write!Task, Write!WriteReleased, Write!Written, Write!NotWritten, Write!Closed,
           Write!UsesReleased, Write!Post
  <1> QED  BY <1>1 DEF StepsLeft, Advances, TakesPiece, Ended

LEMMA UntilAdvances == ASSUME AnswerInv, UntilTask PROVE Advances
  <1>1. /\ tries \in 0 .. MaxRetry /\ MaxRetry \in Nat \ {0} /\ Until!Task /\ task = "until" /\ KernelTypeOK
        /\ state = "retry" => tries < MaxRetry
    BY Bounds DEF AnswerInv, SharedTypes, UntilTask, Works, UntilInv
  <1> USE <1>1 DEF Advances, TakesPiece, Ended
  <1>2. CASE Until!Verify
    <2>1. state = "VERIFY" /\ state' \in {"silent", "READING"}
      BY <1>2 DEF Until!Verify
    <2> QED  BY <2>1 DEF StepsLeft
  <1>3. CASE Until!SelectFails \/ Until!ReadReleased
    <2>1. state = "READING" /\ state' \in {"over", "undefined"}
      BY <1>3 DEF Until!SelectFails, Until!ReadReleased, Until!UsesReleased, Until!Post
    <2> QED  BY <2>1 DEF StepsLeft
  <1>4. CASE Until!Reading
    <2>1. PICK n \in Until!RecvResults(CacheSize) :
            /\ Until!SslRead(CacheSize, n)
            /\ CASE n < 0 -> state' = "ERROR" /\ UNCHANGED posted
                 [] n = 0 -> Until!Closed
                 [] n > 0 -> state' = "VERIFY" /\ UNCHANGED posted
      BY <1>4 DEF Until!Reading
    <2>2. n \in Int
      BY <2>1, SslReadTypes, Bounds
    <2>3. state = "READING"
      BY <1>4 DEF Until!Reading
    <2>4. CASE n < 0
      <3>1. n < 0 /\ ~(n = 0) /\ ~(n > 0)
        BY <2>2, <2>4
      <3>2. state' = "ERROR"
        BY <2>1, <3>1
      <3> QED  BY <2>3, <3>2 DEF StepsLeft
    <2>5. CASE n = 0
      <3>1. n = 0 /\ ~(n < 0) /\ ~(n > 0)
        BY <2>5
      <3>2. state' = "crashed"
        BY <2>1, <3>1 DEF Until!Closed
      <3> QED  BY <2>3, <3>2 DEF StepsLeft
    <2>6. CASE n > 0
      <3>1. n > 0 /\ ~(n = 0) /\ ~(n < 0)
        BY <2>2, <2>6
      <3>2. state' = "VERIFY"
        BY <2>1, <3>1
      <3> QED  BY <2>3, <3>2 DEF StepsLeft
    <2> QED  BY <2>2, <2>4, <2>5, <2>6
  <1>5. CASE Until!Error \/ Until!RetrySelectFails
    <2>1. state = "ERROR" /\ state' \in {"over", "retry"} /\ tries' = 0
      BY <1>5 DEF Until!Error, Until!RetrySelectFails, Until!RetryFailed, Until!Post
    <2> QED  BY <2>1 DEF StepsLeft
  <1>6. CASE Until!RetryExhausted \/ Until!RetryFound \/ Until!RetryRead
    <2>1. state = "retry" /\ tries' = tries + 1 /\ state' \in {"over", "retry"}
      BY <1>6 DEF Until!RetryExhausted, Until!RetryFound, Until!RetryRead, Until!RetryTurn, Until!RetryFailed,
                  Until!RetrySuccess, Until!Post
    <2> QED  BY <2>1 DEF StepsLeft
  <1> QED  BY <1>2, <1>3, <1>4, <1>5, <1>6 DEF Until!Task

LEMMA EnvironmentWaits == ASSUME Environment PROVE UNCHANGED StepsLeft
  BY DEF Environment, taskVars, StepsLeft

\* Every step that the task of a call of socket_ssl.hpp takes brings the end of the call
\* nearer, which is MaxRetry + 4 steps away at most, unless it takes a piece before a
\* read's retries, and that adds no more than itself and the search that follows.  So a
\* call to which the peer sends k pieces takes no more than MaxRetry + 4 + 2k steps, under
\* no fairness but that of the workers; the peer's delays cannot make more of them.
\* (CallsEnd says so of a small instance.)
THEOREM CallsAreShort ==
  Spec => /\ [](StepsLeft \in 0 .. MaxRetry + 4 /\ (StepsLeft = 0 <=> state \in Ended))
          /\ [][/\ Task => IF TakesPiece THEN StepsLeft' = StepsLeft + 1 ELSE StepsLeft' < StepsLeft
                /\ Environment => UNCHANGED StepsLeft]_vars
  <1>1. ASSUME IInv, AnswerInv
        PROVE  StepsLeft \in 0 .. MaxRetry + 4 /\ (StepsLeft = 0 <=> state \in Ended)
    <2>1. MaxRetry \in Nat /\ tries \in 0 .. MaxRetry
      BY <1>1, Bounds DEF AnswerInv, SharedTypes
    <2>2. state \in {"create", "connect", "write", "retry", "ERROR", "READING", "VERIFY"} \cup Ended
      BY <1>1 DEF IInv, StateOfTask, AnswerInv, UntilInv, Ended
    <2> QED  BY <2>1, <2>2 DEF StepsLeft, Ended
  <1>2. IInv /\ AnswerInv /\ [Next]_vars =>
            [/\ Task => IF TakesPiece THEN StepsLeft' = StepsLeft + 1 ELSE StepsLeft' < StepsLeft
             /\ Environment => UNCHANGED StepsLeft]_vars
    BY HandshakeAdvances, WriteAdvances, UntilAdvances, EnvironmentWaits DEF Task, Advances
  <1> QED  BY <1>1, <1>2, Invariance, Answers, PTL DEF Spec
=============================================================================
