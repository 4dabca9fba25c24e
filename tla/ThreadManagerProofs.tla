------------------------- MODULE ThreadManagerProofs -------------------------
(***************************************************************************)
(* Theorems about ThreadManager, for any finite set of tasks and any sets   *)
(* of workers and clients.  They follow from one inductive invariant, IInv: *)
(* the lock discipline gives every thread in a critical section the mutex   *)
(* of that section, hence at most one submitter per mutex; a task moves     *)
(* from its submitter to the queue, to one worker and to retired, so it is  *)
(* at one place; and the counter changes with accepted \ retired.           *)
(* The second half is what the pool promises only when all tasks go through *)
(* the same function, so that pushes exclude each other: no task is lost;   *)
(* through asyncTaskvoid, waitAllthread believes the pool drained only when *)
(* it is and does not sleep through the end of the work; through            *)
(* asyncTaskret no worker sleeps while there is work.                       *)
(***************************************************************************)
EXTENDS ThreadManager, FiniteSetTheorems, TLAPS

-----------------------------------------------------------------------------
(* How a step moves the program counters.                                  *)

\* th goes to label; another thread stays where it is, or is woken up.
Moves(th, label) ==
    /\ pc' = [x \in Threads |-> pc'[x]]
    /\ pc'[th] = label
    /\ \A x \in Threads \ {th} :
         pc'[x] = pc[x] \/ (pc[x] = "asleep" /\ pc'[x] = Awakened(x))

\* The three ways of setting pc, lines 94-96, 118 and 155, are such moves.
LEMMA GotoMoves ==
    ASSUME TypeOK, NEW th \in Threads, NEW label, Goto(th, label)
    PROVE  Moves(th, label)
  BY DEF TypeOK, PcTypeOK, Goto, Moves

\* notify_all: the notifier goes on, every sleeper is woken.
LEMMA NotifyAllMoves ==
    ASSUME TypeOK, NEW th \in Threads, NEW label, NotifyAll(th, label)
    PROVE  Moves(th, label)
  BY DEF TypeOK, PcTypeOK, NotifyAll, Moves

\* notify_one: the notifier, who is awake, goes on, and at most one sleeper is woken.
LEMMA NotifyOneMoves ==
    ASSUME TypeOK, NEW th \in Threads, NEW label, pc[th] # "asleep", NotifyOne(th, label)
    PROVE  Moves(th, label)
  <1>1. CASE Goto(th, label)
    BY <1>1, GotoMoves
  <1>2. ASSUME NEW s \in Asleep,
               pc' = [pc EXCEPT ![th] = label, ![s] = Awakened(s)]
        PROVE  Moves(th, label)
    <2>1. s \in Threads /\ pc[s] = "asleep" /\ s # th
      BY DEF Asleep
    <2> QED  BY <1>2, <2>1 DEF TypeOK, PcTypeOK, Moves
  <1> QED  BY <1>1, <1>2 DEF NotifyOne

\* Where a thread may be.
LabelsOf(th) ==
    IF th \in Workers THEN WorkerPC \cup SubmitPC
    ELSE IF th = Main THEN SubmitPC \cup ShutdownPC \cup {"idle"}
    ELSE SubmitPC \cup {"idle"}

\* A move to a label of the right kind keeps the program counters well typed.
LEMMA MovesType ==
    ASSUME TypeOK, NEW th \in Threads, NEW label \in LabelsOf(th), Moves(th, label)
    PROVE  PcTypeOK'
  <1>1. \A x \in Threads : pc[x] \in LabelsOf(x)
    BY ThreadsAssumption DEF TypeOK, PcTypeOK, LabelsOf, Threads, ShutdownPC, SubmitPC
  <1>2. \A x \in Threads : pc[x] = "asleep" => Awakened(x) \in LabelsOf(x)
    BY <1>1, ThreadsAssumption DEF LabelsOf, Awakened, WorkerPC, ShutdownPC, SubmitPC
  <1>3. \A x \in Threads : pc'[x] \in LabelsOf(x)
    BY <1>1, <1>2 DEF Moves
  <1>4. \A x \in Threads : LabelsOf(x) \subseteq WorkerPC \cup SubmitPC \cup ShutdownPC \cup {"idle"}
    BY DEF LabelsOf
  <1>5. pc' \in [Threads -> WorkerPC \cup SubmitPC \cup ShutdownPC \cup {"idle"}]
    BY <1>3, <1>4 DEF Moves
  <1>6. \A w \in Workers : pc'[w] \in WorkerPC \cup SubmitPC
    BY <1>3 DEF LabelsOf, Threads
  <1>7. \A c \in Clients : pc'[c] \in SubmitPC \cup ShutdownPC \cup {"idle"}
    BY <1>3, ThreadsAssumption DEF LabelsOf, Threads
  <1>8. \A c \in Clients \ {Main} : pc'[c] \notin ShutdownPC
    BY <1>3, ThreadsAssumption DEF LabelsOf, Threads, SubmitPC, ShutdownPC
  <1> QED  BY <1>5, <1>6, <1>7, <1>8 DEF PcTypeOK

-----------------------------------------------------------------------------
(* The initial states.                                                     *)

\* Before the first step nothing is queued, held, counted or locked.
LEMMA InitIInv == Init => IInv
  <1> SUFFICES ASSUME Init PROVE IInv
    OBVIOUS
  <1>1. TypeOK
    <2>1. tasks \in Seq(Tasks \cup {NoTask})
      BY DEF Init
    <2>2. PcTypeOK
      BY ThreadsAssumption DEF Init, PcTypeOK, Threads, WorkerPC, ShutdownPC
    <2> QED  BY <2>1, <2>2 DEF Init, TypeOK
  <1>2. LocksHeld
    BY ThreadsAssumption DEF Init, LocksHeld, OwnsItsLocks, Threads
  <1>3. PushedIsCounted /\ HeldByWorkers
    BY ThreadsAssumption, TasksAssumption
    DEF Init, PushedIsCounted, HeldByWorkers, Threads, SubmitPC
  <1>4. QueueWasPushed /\ RunOnce /\ TestedIsReady /\ AbandonedOnlyIfLate
    BY DEF Init, QueueWasPushed, RunOnce, Queued, Held, TestedIsReady, AbandonedOnlyIfLate, Threads
  <1>5. retired \subseteq accepted /\ CountIsOutstanding
    BY FS_EmptySet DEF Init, CountIsOutstanding
  <1> QED  BY <1>1, <1>2, <1>3, <1>4, <1>5 DEF IInv

-----------------------------------------------------------------------------
(* Type correctness.                                                       *)

\* What every action that only moves a thread and its mutexes leaves alone.
data == <<tasks, count, arg, cur, origin, accepted, retired>>

\* Where a worker has a task in its hands.
Holding == {"run", "dec"} \cup SubmitPC

\* A step that touches only program counters, mutexes and the stop flag.  It neither
\* starts nor ends a push, nor takes or finishes a task; it takes no mutex another
\* thread owns; and it lets a worker past its wait, or out, only as the code allows.
Quiet(th, label) ==
    /\ Moves(th, label)
    /\ UNCHANGED data
    /\ {pc[th], label} \cap {"sPush", "sCount"} = {}
    /\ th \in Workers => (pc[th] \in Holding <=> label \in Holding)
    /\ stop' \in BOOLEAN /\ (stop => stop')
    /\ label = "test" => tasks # <<>> \/ stop
    /\ label = "exited" => tasks = <<>>
    /\ tasksMutex' \in {tasksMutex, th, NoThread}
    /\ countMutex' \in {countMutex, th, NoThread}
    /\ tasksMutex' = tasksMutex \/ tasksMutex \in {th, NoThread}
    /\ countMutex' = countMutex \/ countMutex \in {th, NoThread}
    /\ OwnsItsLocks(th)'

\* Such a step preserves the types.
LEMMA QuietType ==
    ASSUME TypeOK, NEW th \in Threads, NEW label \in LabelsOf(th), Quiet(th, label)
    PROVE  TypeOK'
  <1>1. PcTypeOK'
    BY MovesType DEF Quiet
  <1> QED  BY <1>1 DEF TypeOK, Quiet, data

QuietWork(w) ==
    SpuriousWake(w) \/ Lock(w) \/ Check(w) \/ Block(w) \/ Exit(w)
    \/ FinishTask(w) \/ DrainCount(w) \/ DrainEmpty(w)

QuietMain == Shutdown \/ StopForWait \/ StopForDestroy \/ SpuriousWake(Main)

\* The actions of the workers that are quiet, with where they lead.
LEMMA WorkIsQuiet ==
    ASSUME TypeOK, LocksHeld, NEW w \in Workers, QuietWork(w)
    PROVE  \E label \in WorkerPC : Quiet(w, label)
  <1> USE DEF Quiet, Moves, data, history, TypeOK, Threads, WorkerPC, Holding, SubmitPC, LocksHeld, OwnsItsLocks
  <1>1. CASE SpuriousWake(w)
    <2>1. Moves(w, "lock")
      BY <1>1, GotoMoves DEF SpuriousWake, Awakened
    <2> QED  BY <1>1, <2>1 DEF SpuriousWake
  <1>2. CASE Lock(w)
    BY <1>2, GotoMoves DEF Lock
  <1>3. CASE Check(w)
    BY <1>3, GotoMoves DEF Check
  <1>4. CASE Block(w)
    BY <1>4, GotoMoves DEF Block
  <1>5. CASE Exit(w)
    BY <1>5, GotoMoves DEF Exit
  <1>6. CASE FinishTask(w)
    BY <1>6, GotoMoves DEF FinishTask
  <1>7. CASE DrainCount(w)
    BY <1>7, GotoMoves DEF DrainCount
  <1>8. CASE DrainEmpty(w)
    BY <1>8, GotoMoves, NotifyAllMoves DEF DrainEmpty
  <1> QED  BY <1>1, <1>2, <1>3, <1>4, <1>5, <1>6, <1>7, <1>8 DEF QuietWork

\* The actions of Main that are quiet.
LEMMA ShutdownIsQuiet ==
    ASSUME TypeOK, LocksHeld, QuietMain
    PROVE  \E label \in ShutdownPC \cup {"idle"} : Quiet(Main, label)
  <1> USE DEF Quiet, Moves, data, history, TypeOK, Threads, ShutdownPC, LocksHeld, OwnsItsLocks
  <1>0. Main \in Threads /\ Main \notin Workers
    BY ThreadsAssumption
  <1>1. CASE NotifyStop
    BY <1>0, <1>1, NotifyAllMoves DEF NotifyStop
  <1>2. CASE WaitLock
    BY <1>0, <1>2, GotoMoves DEF WaitLock
  <1>3. CASE WaitCount
    BY <1>0, <1>3, GotoMoves DEF WaitCount
  <1>4. CASE WaitEmpty
    BY <1>0, <1>4, GotoMoves DEF WaitEmpty
  <1>5. CASE WaitBlock
    BY <1>0, <1>5, GotoMoves DEF WaitBlock
  <1>6. CASE Timeout
    BY <1>0, <1>6, GotoMoves DEF Timeout
  <1>7. CASE TimedOut
    BY <1>0, <1>7, GotoMoves DEF TimedOut
  <1>8. CASE Join
    BY <1>0, <1>8, GotoMoves DEF Join
  <1>9. CASE StopForWait
    BY <1>0, <1>9, GotoMoves DEF StopForWait
  <1>10. CASE StopForDestroy
    BY <1>0, <1>10, GotoMoves DEF StopForDestroy
  <1>11. CASE SpuriousWake(Main)
    <2>1. Moves(Main, "wLock")
      BY <1>0, <1>11, GotoMoves DEF SpuriousWake, Awakened
    <2> QED  BY <1>0, <1>11, <2>1 DEF SpuriousWake
  <1> QED  BY <1>1, <1>2, <1>3, <1>4, <1>5, <1>6, <1>7, <1>8, <1>9, <1>10, <1>11 DEF Shutdown, QuietMain

\* notify_one at the end of a submission is quiet too.
LEMMA SubmitNotifyIsQuiet ==
    ASSUME TypeOK, LocksHeld, NEW th \in Threads, SubmitNotify(th)
    PROVE  \E label \in {"run", "idle"} : label \in LabelsOf(th) /\ Quiet(th, label)
  <1> DEFINE label == IF th \in Workers THEN "run" ELSE "idle"
  <1>1. Moves(th, label)
    BY NotifyOneMoves DEF SubmitNotify
  <1>2. label \in LabelsOf(th)
    BY DEF LabelsOf, WorkerPC
  <1>3. Quiet(th, label)
    BY <1>1 DEF SubmitNotify, Quiet, Moves, data, history, TypeOK, Holding, SubmitPC, LocksHeld, OwnsItsLocks
  <1> QED  BY <1>2, <1>3

\* Every step is quiet, or one of the five that move tasks.
LEMMA StepKinds ==
    ASSUME TypeOK, LocksHeld, Next
    PROVE  \/ \E th \in Threads : \E label \in LabelsOf(th) : Quiet(th, label)
           \/ \E th \in Threads : Push(th) \/ Count(th) \/ \E t \in Tasks : Submit(th, t)
           \/ \E w \in Workers : Take(w) \/ Decrement(w)
  <1>1. ASSUME NEW w \in Workers, QuietWork(w)
        PROVE  \E th \in Threads : \E label \in LabelsOf(th) : Quiet(th, label)
    BY <1>1, WorkIsQuiet DEF LabelsOf, Threads
  <1>2. ASSUME QuietMain
        PROVE  \E th \in Threads : \E label \in LabelsOf(th) : Quiet(th, label)
    BY <1>2, ShutdownIsQuiet, ThreadsAssumption DEF LabelsOf, Threads
  <1>3. ASSUME NEW th \in Threads, SubmitNotify(th)
        PROVE  \E label \in LabelsOf(th) : Quiet(th, label)
    BY <1>3, SubmitNotifyIsQuiet
  <1>4. ASSUME NEW th \in Threads, SpuriousWake(th)
        PROVE  th = Main \/ th \in Workers
    BY <1>4 DEF SpuriousWake, TypeOK, PcTypeOK, ShutdownPC, Threads
  <1> QED  BY <1>1, <1>2, <1>3, <1>4 DEF Next, Submission, Work, QuietWork, QuietMain

\* The types are preserved: a pushed task was pushed by a thread that is submitting
\* it, and a task is counted out by a worker that holds it.
LEMMA StepTypeOK ==
    ASSUME TypeOK, LocksHeld, HeldByWorkers, Next
    PROVE  TypeOK'
  <1>1. ASSUME NEW th \in Threads, NEW label \in LabelsOf(th), Quiet(th, label)
        PROVE  TypeOK'
    BY <1>1, QuietType
  <1>2. ASSUME NEW th \in Threads, NEW t \in Tasks, Submit(th, t)
        PROVE  TypeOK'
    <2>1. PcTypeOK'
      BY <1>2, GotoMoves, MovesType DEF Submit, LabelsOf, SubmitPC
    <2> QED  BY <1>2, <2>1 DEF Submit, SetGuard, history, TypeOK
  <1>3. ASSUME NEW th \in Threads, Push(th)
        PROVE  TypeOK'
    <2>1. PcTypeOK'
      BY <1>3, GotoMoves, MovesType DEF Push, LabelsOf, SubmitPC
    <2>2. arg[th] \in Tasks
      BY <1>3 DEF Push, LocksHeld, OwnsItsLocks, TypeOK
    <2>3. tasks' \in Seq(Tasks \cup {NoTask})
      BY <1>3, <2>2, SMTT(60) DEF Push, PushResults, TypeOK
    <2>4. Origin(th) \in {"none", "client", "worker", "late"}
      BY DEF Origin
    <2> QED  BY <1>3, <2>1, <2>3, <2>4 DEF Push, TypeOK
  <1>4. ASSUME NEW th \in Threads, Count(th)
        PROVE  TypeOK'
    <2>1. PcTypeOK'
      BY <1>4, GotoMoves, MovesType DEF Count, LabelsOf, SubmitPC
    <2>2. arg[th] \in Tasks
      BY <1>4 DEF Count, LocksHeld, OwnsItsLocks, TypeOK
    <2> QED  BY <1>4, <2>1, <2>2 DEF Count, SetGuard, TypeOK
  <1>5. ASSUME NEW w \in Workers, Take(w)
        PROVE  TypeOK'
    <2>1. PcTypeOK'
      BY <1>5, GotoMoves, MovesType DEF Take, LabelsOf, WorkerPC, Threads
    <2>2. Head(tasks) \in Tasks \cup {NoTask} /\ Tail(tasks) \in Seq(Tasks \cup {NoTask})
      BY <1>5 DEF Take, TypeOK
    <2> QED  BY <1>5, <2>1, <2>2 DEF Take, history, TypeOK
  <1>6. ASSUME NEW w \in Workers, Decrement(w)
        PROVE  TypeOK'
    <2>1. PcTypeOK'
      BY <1>6, GotoMoves, MovesType DEF Decrement, LabelsOf, WorkerPC, Threads
    <2>2. cur[w] \in Tasks
      BY <1>6 DEF Decrement, HeldByWorkers, TypeOK
    <2> QED  BY <1>6, <2>1, <2>2 DEF Decrement, TypeOK
  <1> QED  BY <1>1, <1>2, <1>3, <1>4, <1>5, <1>6, StepKinds

-----------------------------------------------------------------------------
(* The lock discipline.                                                    *)

\* A move of one thread that takes no mutex from another leaves every other
\* thread with the mutexes of its section.
LEMMA OthersKeepLocks ==
    ASSUME TypeOK, LocksHeld, NEW th \in Threads, NEW label, Moves(th, label),
           tasksMutex' = tasksMutex \/ tasksMutex \in {th, NoThread},
           countMutex' = countMutex \/ countMutex \in {th, NoThread},
           \A x \in Threads \ {th} : arg'[x] = arg[x]
    PROVE  \A x \in Threads \ {th} : OwnsItsLocks(x)'
  <1> TAKE x \in Threads \ {th}
  <1>1. x # NoThread /\ OwnsItsLocks(x)
    BY ThreadsAssumption DEF Threads, LocksHeld
  <1>2. pc'[x] = pc[x] \/ (pc[x] = "asleep" /\ pc'[x] \in {"lock", "wLock"})
    BY DEF Moves, Awakened
  <1>3. arg'[x] = arg[x]
    OBVIOUS
  <1> QED  BY <1>1, <1>2, <1>3 DEF OwnsItsLocks, Guard

\* The lock discipline is kept: every action leaves its thread with the mutexes
\* of the section it enters.
LEMMA StepLocksHeld ==
    ASSUME TypeOK, LocksHeld, Next
    PROVE  LocksHeld'
  <1>0. \A th \in Threads : OwnsItsLocks(th)
    BY DEF LocksHeld
  <1>1. ASSUME NEW th \in Threads, NEW label \in LabelsOf(th), Quiet(th, label)
        PROVE  LocksHeld'
    <2>1. \A x \in Threads \ {th} : OwnsItsLocks(x)'
      BY <1>1, OthersKeepLocks DEF Quiet, data
    <2> QED  BY <1>1, <2>1 DEF Quiet, LocksHeld
  <1>2. ASSUME NEW th \in Threads, NEW t \in Tasks, Submit(th, t)
        PROVE  LocksHeld'
    <2>1. Moves(th, "sPush")
      BY <1>2, GotoMoves DEF Submit
    <2>2. /\ tasksMutex' = tasksMutex \/ tasksMutex \in {th, NoThread}
          /\ countMutex' = countMutex \/ countMutex \in {th, NoThread}
      BY <1>2 DEF Submit, SetGuard, Guard
    <2>3. \A x \in Threads \ {th} : arg'[x] = arg[x]
      BY <1>2 DEF Submit, TypeOK
    <2>4. \A x \in Threads \ {th} : OwnsItsLocks(x)'
      BY <2>1, <2>2, <2>3, OthersKeepLocks
    <2>5. OwnsItsLocks(th)'
      BY <1>2, <2>1, TasksAssumption
      DEF Submit, SetGuard, Guard, OwnsItsLocks, Moves, TypeOK
    <2> QED  BY <2>4, <2>5 DEF LocksHeld
  <1>3. ASSUME NEW th \in Threads, Push(th)
        PROVE  LocksHeld'
    <2>1. Moves(th, "sCount")
      BY <1>3, GotoMoves DEF Push
    <2>2. \A x \in Threads \ {th} : OwnsItsLocks(x)'
      BY <1>3, <2>1, OthersKeepLocks DEF Push
    <2>3. OwnsItsLocks(th)'
      BY <1>0, <1>3, <2>1 DEF Push, Guard, OwnsItsLocks, Moves
    <2> QED  BY <2>2, <2>3 DEF LocksHeld
  <1>4. ASSUME NEW th \in Threads, Count(th)
        PROVE  LocksHeld'
    <2>1. Moves(th, "sNotify")
      BY <1>4, GotoMoves DEF Count
    <2>2. Guard(arg[th]) = th
      BY <1>0, <1>4 DEF Count, OwnsItsLocks
    <2>3. /\ tasksMutex' = tasksMutex \/ tasksMutex \in {th, NoThread}
          /\ countMutex' = countMutex \/ countMutex \in {th, NoThread}
      BY <1>4, <2>2 DEF Count, SetGuard, Guard
    <2>4. \A x \in Threads \ {th} : arg'[x] = arg[x]
      BY <1>4 DEF Count, TypeOK
    <2>5. \A x \in Threads \ {th} : OwnsItsLocks(x)'
      BY <2>1, <2>3, <2>4, OthersKeepLocks
    <2>6. OwnsItsLocks(th)'
      BY <1>4, <2>1 DEF Count, OwnsItsLocks, Moves, TypeOK
    <2> QED  BY <2>5, <2>6 DEF LocksHeld
  <1>5. ASSUME NEW w \in Workers, Take(w)
        PROVE  LocksHeld'
    <2>1. w \in Threads /\ \E label \in {"lock", "run"} : Moves(w, label)
      BY <1>5, GotoMoves DEF Take, Threads
    <2>2. tasksMutex = w
      BY <1>0, <1>5 DEF Take, OwnsItsLocks, Threads
    <2>3. \A x \in Threads \ {w} : OwnsItsLocks(x)'
      BY <1>5, <2>1, <2>2, OthersKeepLocks DEF Take
    <2>4. OwnsItsLocks(w)'
      BY <1>0, <1>5, <2>1 DEF Take, OwnsItsLocks, Moves
    <2> QED  BY <2>3, <2>4 DEF LocksHeld
  <1>6. ASSUME NEW w \in Workers, Decrement(w)
        PROVE  LocksHeld'
    <2>1. w \in Threads /\ Moves(w, "drainCount")
      BY <1>6, GotoMoves DEF Decrement, Threads
    <2>2. \A x \in Threads \ {w} : OwnsItsLocks(x)'
      BY <1>6, <2>1, OthersKeepLocks DEF Decrement
    <2>3. OwnsItsLocks(w)'
      BY <1>0, <1>6, <2>1 DEF Decrement, OwnsItsLocks, Moves
    <2> QED  BY <2>2, <2>3 DEF LocksHeld
  <1> QED  BY <1>1, <1>2, <1>3, <1>4, <1>5, <1>6, StepKinds

\* Two threads cannot be submitting the same task: they would own one mutex.
LEMMA SubmittersDiffer ==
    ASSUME LocksHeld, NEW th \in Threads, NEW x \in Threads, th # x,
           pc[th] \in {"sPush", "sCount"}
    PROVE  arg[th] # arg[x]
  BY DEF LocksHeld, OwnsItsLocks

-----------------------------------------------------------------------------
(* Where a task is.                                                        *)

\* Being woken up neither starts nor ends a push, nor a task, nor a worker.
LEMMA OthersStay ==
    ASSUME NEW th \in Threads, NEW label, Moves(th, label), NEW x \in Threads \ {th}
    PROVE  /\ \A l \in {"sPush", "sCount", "test", "exited"} : pc'[x] = l <=> pc[x] = l
           /\ pc'[x] \in Holding <=> pc[x] \in Holding
  BY DEF Moves, Awakened, Holding, SubmitPC

\* A pushed task stays counted, or about to be: only its submitter counts it.
LEMMA StepPushedIsCounted ==
    ASSUME TypeOK, LocksHeld, PushedIsCounted, Next
    PROVE  PushedIsCounted'
  <1>0. \A th \in Threads : pc[th] \in {"sPush", "sCount"} => arg[th] \in Tasks
    BY DEF LocksHeld, OwnsItsLocks, TypeOK
  <1>1. ASSUME NEW th \in Threads, NEW label \in LabelsOf(th), Quiet(th, label)
        PROVE  PushedIsCounted'
    <2>1. \A x \in Threads : /\ pc'[x] = "sPush" <=> pc[x] = "sPush"
                             /\ pc'[x] = "sCount" <=> pc[x] = "sCount"
      BY <1>1, OthersStay DEF Quiet, Moves
    <2> QED  BY <1>1, <2>1 DEF Quiet, data, PushedIsCounted
  <1>2. ASSUME NEW th \in Threads, NEW t \in Tasks, Submit(th, t)
        PROVE  PushedIsCounted'
    <2>1. Moves(th, "sPush") /\ pc[th] \notin {"sPush", "sCount"}
      BY <1>2, GotoMoves DEF Submit, MaySubmit
    <2>2. \A x \in Threads \ {th} : /\ pc'[x] = "sPush" <=> pc[x] = "sPush"
                                    /\ pc'[x] = "sCount" <=> pc[x] = "sCount"
                                    /\ arg'[x] = arg[x]
      BY <1>2, <2>1, OthersStay DEF Submit, TypeOK
    <2>3. arg'[th] = t /\ pc'[th] = "sPush" /\ origin[t] = "none"
      BY <1>2, <2>1 DEF Submit, Moves, TypeOK
    <2> QED  BY <1>2, <2>1, <2>2, <2>3 DEF Submit, history, PushedIsCounted
  <1>3. ASSUME NEW th \in Threads, Push(th)
        PROVE  PushedIsCounted'
    <2>1. Moves(th, "sCount") /\ pc[th] = "sPush" /\ pc'[th] = "sCount"
      BY <1>3, GotoMoves DEF Push, Moves
    <2>2. \A x \in Threads \ {th} : /\ pc'[x] = "sPush" <=> pc[x] = "sPush"
                                    /\ pc'[x] = "sCount" <=> pc[x] = "sCount"
      BY <2>1, OthersStay
    <2>3. /\ arg[th] \in Tasks
          /\ \A x \in Threads \ {th} : arg[x] # arg[th]
      BY <1>0, <2>1, SubmittersDiffer
    <2>4. Origin(th) # "none"
      BY DEF Origin
    <2>5. /\ origin'[arg[th]] # "none"
          /\ \A t \in Tasks \ {arg[th]} : origin'[t] = origin[t]
      BY <1>3, <2>3, <2>4 DEF Push, TypeOK
    <2>6. arg[th] \notin accepted
      BY <2>1 DEF PushedIsCounted
    <2>7. accepted' = accepted /\ arg' = arg
      BY <1>3 DEF Push
    <2>8. \A x \in Threads : pc'[x] = "sPush" => origin'[arg'[x]] = "none"
      BY <1>0, <2>1, <2>2, <2>3, <2>5, <2>7 DEF PushedIsCounted
    <2>9. \A x \in Threads : pc'[x] = "sCount" =>
            origin'[arg'[x]] # "none" /\ arg'[x] \notin accepted'
      BY <1>0, <2>1, <2>2, <2>3, <2>5, <2>6, <2>7 DEF PushedIsCounted
    <2>10. \A t \in accepted' : origin'[t] # "none"
      BY <2>5, <2>7 DEF PushedIsCounted, TypeOK
    <2>11. \A t \in Tasks : origin'[t] # "none" =>
             t \in accepted' \/ \E x \in Threads : pc'[x] = "sCount" /\ arg'[x] = t
      <3> TAKE t \in Tasks
      <3>1. CASE t = arg[th]
        BY <2>1, <2>7, <3>1
      <3>2. CASE t # arg[th]
        BY <2>1, <2>2, <2>5, <2>7, <3>2 DEF PushedIsCounted
      <3> QED  BY <3>1, <3>2
    <2> QED  BY <2>8, <2>9, <2>10, <2>11 DEF PushedIsCounted
  <1>4. ASSUME NEW th \in Threads, Count(th)
        PROVE  PushedIsCounted'
    <2>1. Moves(th, "sNotify") /\ pc[th] = "sCount" /\ pc'[th] = "sNotify"
      BY <1>4, GotoMoves DEF Count, Moves
    <2>2. \A x \in Threads \ {th} : /\ pc'[x] = "sPush" <=> pc[x] = "sPush"
                                    /\ pc'[x] = "sCount" <=> pc[x] = "sCount"
                                    /\ arg'[x] = arg[x]
                                    /\ arg[x] # arg[th]
      BY <1>4, <2>1, OthersStay, SubmittersDiffer DEF Count, TypeOK
    <2>3. accepted' = accepted \cup {arg[th]} /\ origin' = origin
      BY <1>4 DEF Count
    <2>4. \A t \in Tasks : origin'[t] # "none" =>
             t \in accepted' \/ \E x \in Threads : pc'[x] = "sCount" /\ arg'[x] = t
      BY <2>1, <2>2, <2>3 DEF PushedIsCounted
    <2> QED  BY <2>1, <2>2, <2>3, <2>4 DEF PushedIsCounted
  <1>5. ASSUME NEW w \in Workers, Take(w) \/ Decrement(w)
        PROVE  PushedIsCounted'
    <2>1. /\ w \in Threads
          /\ \E label \in {"lock", "run", "drainCount"} : Moves(w, label)
          /\ pc[w] \in {"test", "dec"}
      BY <1>5, GotoMoves DEF Take, Decrement, Threads
    <2>2. \A x \in Threads : /\ pc'[x] = "sPush" <=> pc[x] = "sPush"
                             /\ pc'[x] = "sCount" <=> pc[x] = "sCount"
      BY <2>1, OthersStay DEF Moves
    <2> QED  BY <1>5, <2>2 DEF Take, Decrement, history, PushedIsCounted
  <1> QED  BY <1>1, <1>2, <1>3, <1>4, <1>5, StepKinds

\* A worker that takes a task of asyncTaskret owns the mutex its submitter needs
\* to count it, so the task is counted; and any task a worker counts out while it
\* owns M_countMutex_ is counted.
LEMMA CountedInTime ==
    ASSUME TypeOK, LocksHeld, PushedIsCounted, NEW w \in Workers, NEW t \in Tasks,
           origin[t] # "none",
           tasksMutex = w \/ t \notin RetTasks \/ t \in accepted,
           countMutex = w \/ t \in RetTasks \/ t \in accepted,
           pc[w] # "sCount"
    PROVE  t \in accepted
  <1> SUFFICES ASSUME t \notin accepted
               PROVE  FALSE
    OBVIOUS
  <1>1. PICK th \in Threads : pc[th] = "sCount" /\ arg[th] = t
    BY DEF PushedIsCounted
  <1>2. Guard(t) = th /\ th # w
    BY <1>1 DEF LocksHeld, OwnsItsLocks
  <1> QED  BY <1>2 DEF Guard

\* What a worker holds was pushed, and a task of asyncTaskret was counted.
LEMMA StepHeldByWorkers ==
    ASSUME TypeOK, LocksHeld, PushedIsCounted, HeldByWorkers, QueueWasPushed, Next
    PROVE  HeldByWorkers'
  <1>0. \A w \in Workers : w \in Threads
    BY DEF Threads
  <1>1. ASSUME NEW th \in Threads, NEW label \in LabelsOf(th), Quiet(th, label)
        PROVE  HeldByWorkers'
    <2>1. \A w \in Workers : pc'[w] \in Holding <=> pc[w] \in Holding
      BY <1>0, <1>1, OthersStay DEF Quiet, Moves
    <2> QED  BY <1>1, <2>1 DEF Quiet, data, HeldByWorkers, Holding
  <1>2. ASSUME NEW th \in Threads, NEW t \in Tasks, Submit(th, t)
        PROVE  HeldByWorkers'
    <2>1. /\ Moves(th, "sPush")
          /\ th \in Workers => pc[th] = "run"
      BY <1>2, GotoMoves, ThreadsAssumption DEF Submit, MaySubmit
    <2>2. \A w \in Workers : pc'[w] \in Holding <=> pc[w] \in Holding
      BY <1>0, <2>1, OthersStay DEF Moves, Holding, SubmitPC
    <2> QED  BY <1>2, <2>2 DEF Submit, history, HeldByWorkers, Holding
  <1>3. ASSUME NEW th \in Threads, Push(th)
        PROVE  HeldByWorkers'
    <2>1. Moves(th, "sCount") /\ pc[th] = "sPush"
      BY <1>3, GotoMoves DEF Push
    <2>2. \A w \in Workers : pc'[w] \in Holding <=> pc[w] \in Holding
      BY <1>0, <2>1, OthersStay DEF Moves, Holding, SubmitPC
    <2>3. \A t \in Tasks : origin[t] # "none" => origin'[t] # "none"
      BY <1>3 DEF Push, Origin, TypeOK
    <2>4. \A w \in Workers : cur[w] # NoTask => cur[w] \in Tasks
      BY DEF TypeOK
    <2> QED  BY <1>3, <2>2, <2>3, <2>4 DEF Push, HeldByWorkers, Holding
  <1>4. ASSUME NEW th \in Threads, Count(th)
        PROVE  HeldByWorkers'
    <2>1. Moves(th, "sNotify") /\ pc[th] = "sCount"
      BY <1>4, GotoMoves DEF Count
    <2>2. \A w \in Workers : pc'[w] \in Holding <=> pc[w] \in Holding
      BY <1>0, <2>1, OthersStay DEF Moves, Holding, SubmitPC
    <2> QED  BY <1>4, <2>2 DEF Count, HeldByWorkers, Holding
  <1>5. ASSUME NEW w \in Workers, Take(w)
        PROVE  HeldByWorkers'
    <2> DEFINE t == Head(tasks)
    <2>1. t \in Tasks \cup {NoTask} /\ t = tasks[1] /\ 1 \in DOMAIN tasks
      BY <1>5 DEF Take, TypeOK
    <2>2. pc[w] = "test" /\ tasksMutex = w
      BY <1>0, <1>5 DEF Take, LocksHeld, OwnsItsLocks
    <2>3. t # NoTask => origin[t] # "none"
      BY <2>1 DEF QueueWasPushed
    <2>4. t \in RetTasks => t \in accepted
      BY <2>1, <2>2, <2>3, CountedInTime, TasksAssumption
    <2>5. /\ Moves(w, IF t = NoTask THEN "lock" ELSE "run")
          /\ cur'[w] = t
          /\ \A x \in Workers \ {w} : cur'[x] = cur[x]
      BY <1>0, <1>5, GotoMoves DEF Take, TypeOK
    <2>6. \A x \in Workers \ {w} : pc'[x] \in Holding <=> pc[x] \in Holding
      BY <1>0, <2>5, OthersStay
    <2>7. pc'[w] \in Holding <=> t # NoTask
      BY <1>0, <2>5 DEF Moves, Holding, SubmitPC
    <2>8. origin' = origin /\ accepted' = accepted
      BY <1>5 DEF Take, history
    <2> QED  BY <2>3, <2>4, <2>5, <2>6, <2>7, <2>8 DEF HeldByWorkers, Holding
  <1>6. ASSUME NEW w \in Workers, Decrement(w)
        PROVE  HeldByWorkers'
    <2>1. /\ Moves(w, "drainCount")
          /\ cur'[w] = NoTask
          /\ \A x \in Workers \ {w} : cur'[x] = cur[x]
          /\ origin' = origin /\ accepted' = accepted
      BY <1>0, <1>6, GotoMoves DEF Decrement, TypeOK
    <2>2. \A x \in Workers \ {w} : pc'[x] \in Holding <=> pc[x] \in Holding
      BY <1>0, <2>1, OthersStay
    <2>3. pc'[w] \notin Holding
      BY <1>0, <2>1 DEF Moves, Holding, SubmitPC
    <2> QED  BY <2>1, <2>2, <2>3, TasksAssumption DEF HeldByWorkers, Holding
  <1> QED  BY <1>1, <1>2, <1>3, <1>4, <1>5, <1>6, StepKinds

\* What pushing and popping do to the queue, element by element.
LEMMA QueueOperators ==
    ASSUME NEW S, NEW q \in Seq(S), NEW e \in S
    PROVE  /\ DOMAIN Append(q, e) = DOMAIN q \cup {Len(q) + 1}
           /\ Append(q, e)[Len(q) + 1] = e
           /\ \A i \in DOMAIN q : Append(q, e)[i] = q[i] /\ i # Len(q) + 1
           /\ q # <<>> => /\ 1 \in DOMAIN q /\ Head(q) = q[1]
                          /\ \A i \in DOMAIN Tail(q) :
                               i \in Nat /\ i + 1 \in DOMAIN q /\ i + 1 # 1 /\ Tail(q)[i] = q[i + 1]
  <1>1. DOMAIN q = 1 .. Len(q) /\ Len(q) \in Nat
    OBVIOUS
  <1>2. /\ DOMAIN Append(q, e) = 1 .. Len(q) + 1
        /\ Append(q, e)[Len(q) + 1] = e
        /\ \A i \in 1 .. Len(q) : Append(q, e)[i] = q[i]
    OBVIOUS
  <1>3. ASSUME q # <<>>
        PROVE  /\ 1 \in DOMAIN q /\ Head(q) = q[1]
               /\ \A i \in DOMAIN Tail(q) :
                    i \in Nat /\ i + 1 \in DOMAIN q /\ i + 1 # 1 /\ Tail(q)[i] = q[i + 1]
    BY <1>3
  <1> QED  BY <1>1, <1>2, <1>3

\* A task is at one place: in the queue once, in one worker's hands, or retired.
LEMMA StepRunOnce ==
    ASSUME TypeOK, LocksHeld, PushedIsCounted, HeldByWorkers, QueueWasPushed,
           retired \subseteq accepted, RunOnce, Next
    PROVE  RunOnce' /\ QueueWasPushed'
  <1>0. /\ \A i \in DOMAIN tasks : tasks[i] \in Tasks \cup {NoTask}
        /\ \A w \in Workers : cur[w] \in Tasks \cup {NoTask}
        /\ NoTask \notin retired /\ NoTask \notin Tasks
    BY TasksAssumption DEF TypeOK
  <1>1. ASSUME UNCHANGED <<tasks, cur, origin, retired>>
        PROVE  RunOnce' /\ QueueWasPushed'
    BY <1>1 DEF RunOnce, QueueWasPushed, Queued, Held
  <1>2. ASSUME NEW th \in Threads, Push(th)
        PROVE  RunOnce' /\ QueueWasPushed'
    <2> DEFINE t == arg[th]
    <2>1. t \in Tasks /\ origin[t] = "none"
      BY <1>2 DEF Push, LocksHeld, OwnsItsLocks, PushedIsCounted, TypeOK
    <2>2. /\ \A i \in DOMAIN tasks : tasks[i] # t
          /\ \A w \in Workers : cur[w] # t
          /\ t \notin retired
      BY <1>0, <2>1 DEF QueueWasPushed, HeldByWorkers, PushedIsCounted
    <2>3. /\ \A x \in Tasks : origin[x] # "none" \/ x = t => origin'[x] # "none"
          /\ cur' = cur /\ retired' = retired
      BY <1>2, <2>1 DEF Push, Origin, TypeOK
    <2>4. ASSUME tasks' = tasks
          PROVE  RunOnce' /\ QueueWasPushed'
      <3>1. QueueWasPushed'
        BY <1>0, <2>3, <2>4 DEF QueueWasPushed
      <3> QED  BY <2>3, <2>4, <3>1 DEF RunOnce, Queued, Held
    <2>5. ASSUME NEW e \in {t, NoTask}, tasks' = Append(tasks, e)
          PROVE  RunOnce' /\ QueueWasPushed'
      <3>1. /\ DOMAIN tasks' = DOMAIN tasks \cup {Len(tasks) + 1}
            /\ tasks'[Len(tasks) + 1] = e
            /\ \A i \in DOMAIN tasks : tasks'[i] = tasks[i] /\ i # Len(tasks) + 1
        BY <2>1, <2>5, QueueOperators DEF TypeOK
      <3>2. QueueWasPushed'
        BY <1>0, <2>1, <2>3, <3>1 DEF QueueWasPushed
      <3>3. \A i, j \in DOMAIN tasks' : tasks'[i] = tasks'[j] /\ tasks'[i] # NoTask => i = j
        BY <2>2, <3>1 DEF RunOnce
      <3>4. Queued' = Queued \cup {e}
        BY <3>1 DEF Queued
      <3>5. e \notin Held \/ e = NoTask
        BY <2>2 DEF Held
      <3>6. e \notin retired
        BY <1>0, <2>2
      <3> QED  BY <2>3, <3>2, <3>3, <3>4, <3>5, <3>6 DEF RunOnce, Held
    <2> QED  BY <1>2, <2>4, <2>5 DEF Push, PushResults
  <1>3. ASSUME NEW w \in Workers, Take(w)
        PROVE  RunOnce' /\ QueueWasPushed'
    <2> DEFINE t == Head(tasks)
    <2>1. /\ 1 \in DOMAIN tasks /\ t = tasks[1]
          /\ \A i \in DOMAIN tasks' : i \in Nat /\ i + 1 \in DOMAIN tasks /\ i + 1 # 1 /\ tasks'[i] = tasks[i + 1]
      BY <1>3, QueueOperators DEF Take, TypeOK
    <2>2. /\ cur'[w] = t
          /\ \A x \in Workers \ {w} : cur'[x] = cur[x]
          /\ origin' = origin /\ retired' = retired
      BY <1>3 DEF Take, history, TypeOK
    <2>3. QueueWasPushed'
      BY <2>1, <2>2 DEF QueueWasPushed
    <2>4. \A i, j \in DOMAIN tasks' : tasks'[i] = tasks'[j] /\ tasks'[i] # NoTask => i = j
      <3> TAKE i, j \in DOMAIN tasks'
      <3> HAVE tasks'[i] = tasks'[j] /\ tasks'[i] # NoTask
      <3>1. i + 1 = j + 1
        BY <2>1 DEF RunOnce
      <3> QED  BY <2>1, <3>1
    <2>5. \A i \in DOMAIN tasks' : tasks'[i] # NoTask => tasks'[i] # t
      BY <2>1 DEF RunOnce
    <2>6. Queued' \subseteq Queued /\ t \in Queued
      BY <2>1 DEF Queued
    <2>7. Held' \subseteq Held \cup {t}
      BY <2>2 DEF Held
    <2>8. \A x, y \in Workers : cur'[x] = cur'[y] /\ cur'[x] # NoTask => x = y
      <3>1. \A x \in Workers : cur[x] = t => t = NoTask
        BY <2>6 DEF RunOnce, Held
      <3> QED  BY <2>2, <3>1 DEF RunOnce
    <2>9. Queued' \cap Held' \subseteq {NoTask}
      <3>1. t \notin Queued' \/ t = NoTask
        BY <2>5 DEF Queued
      <3> QED  BY <2>6, <2>7, <3>1 DEF RunOnce
    <2>10. (Queued' \cup Held') \cap retired' = {}
      BY <2>2, <2>6, <2>7 DEF RunOnce
    <2> QED  BY <2>3, <2>4, <2>8, <2>9, <2>10 DEF RunOnce
  <1>4. ASSUME NEW w \in Workers, Decrement(w)
        PROVE  RunOnce' /\ QueueWasPushed'
    <2>1. /\ cur'[w] = NoTask
          /\ \A x \in Workers \ {w} : cur'[x] = cur[x]
          /\ tasks' = tasks /\ origin' = origin /\ retired' = retired \cup {cur[w]}
      BY <1>4 DEF Decrement, TypeOK
    <2>2. cur[w] # NoTask
      BY <1>4 DEF Decrement, HeldByWorkers
    <2>3. \A x, y \in Workers : cur'[x] = cur'[y] /\ cur'[x] # NoTask => x = y
      BY <2>1 DEF RunOnce
    <2>4. cur[w] \notin Queued /\ Queued' = Queued
      BY <2>1, <2>2 DEF RunOnce, Held, Queued
    <2>5. Held' \subseteq (Held \ {cur[w]}) \cup {NoTask}
      BY <2>1, <2>2 DEF RunOnce, Held
    <2>6. (Queued' \cup Held') \cap retired' = {}
      BY <1>0, <2>1, <2>2, <2>4, <2>5 DEF RunOnce
    <2>7. Queued' \cap Held' \subseteq {NoTask}
      BY <2>4, <2>5 DEF RunOnce
    <2> QED  BY <2>1, <2>3, <2>6, <2>7 DEF RunOnce, QueueWasPushed
  <1>5. ASSUME NEW th \in Threads, Count(th) \/ \E t \in Tasks : Submit(th, t)
        PROVE  UNCHANGED <<tasks, cur, origin, retired>>
    BY <1>5 DEF Count, Submit, history
  <1>6. ASSUME NEW th \in Threads, NEW label \in LabelsOf(th), Quiet(th, label)
        PROVE  UNCHANGED <<tasks, cur, origin, retired>>
    BY <1>6 DEF Quiet, data
  <1> QED  BY <1>1, <1>2, <1>3, <1>4, <1>5, <1>6, StepKinds

-----------------------------------------------------------------------------
(* The counter.                                                            *)

\* Counting in happens once per task and before counting out, so the counter is the
\* number of tasks in between; the test of the counter before the decrement
\* (line 114) always succeeds.
LEMMA StepCount ==
    ASSUME TypeOK, LocksHeld, PushedIsCounted, HeldByWorkers, RunOnce,
           retired \subseteq accepted, CountIsOutstanding, Next
    PROVE  retired' \subseteq accepted' /\ CountIsOutstanding'
  <1>0. IsFiniteSet(accepted \ retired)
    BY FS_Subset, TasksAssumption DEF TypeOK
  <1>1. ASSUME UNCHANGED <<count, accepted, retired>>
        PROVE  retired' \subseteq accepted' /\ CountIsOutstanding'
    BY <1>1 DEF CountIsOutstanding
  <1>2. ASSUME NEW th \in Threads, Count(th)
        PROVE  retired' \subseteq accepted' /\ CountIsOutstanding'
    <2>1. /\ accepted' = accepted \cup {arg[th]} /\ retired' = retired
          /\ count' = count + 1
      BY <1>2 DEF Count
    <2>2. arg[th] \notin accepted
      BY <1>2 DEF Count, PushedIsCounted
    <2>3. accepted' \ retired' = (accepted \ retired) \cup {arg[th]}
      BY <2>1, <2>2
    <2>4. Cardinality(accepted' \ retired') = Cardinality(accepted \ retired) + 1
      BY <1>0, <2>2, <2>3, FS_AddElement
    <2> QED  BY <2>1, <2>4 DEF CountIsOutstanding
  <1>3. ASSUME NEW w \in Workers, Decrement(w)
        PROVE  retired' \subseteq accepted' /\ CountIsOutstanding'
    <2> DEFINE t == cur[w]
    <2>1. pc[w] = "dec" /\ countMutex = w
      BY <1>3 DEF Decrement, LocksHeld, OwnsItsLocks, Threads
    <2>2. t \in Tasks /\ origin[t] # "none" /\ (t \in RetTasks => t \in accepted)
      BY <2>1 DEF HeldByWorkers, TypeOK
    <2>3. t \in accepted \ retired
      BY <2>1, <2>2, CountedInTime DEF RunOnce, Held
    <2>4. /\ retired' = retired \cup {t} /\ accepted' = accepted
          /\ count' = IF count > 0 THEN count - 1 ELSE count
      BY <1>3 DEF Decrement
    <2>5. accepted' \ retired' = (accepted \ retired) \ {t}
      BY <2>4
    <2>6. Cardinality((accepted \ retired) \ {t}) = Cardinality(accepted \ retired) - 1
      BY <1>0, <2>3, FS_RemoveElement
    <2>7. count # 0
      BY <1>0, <2>3, FS_EmptySet DEF CountIsOutstanding
    <2>8. count' = count - 1
      BY <2>4, <2>7 DEF TypeOK
    <2>9. count' = Cardinality(accepted' \ retired')
      BY <2>5, <2>6, <2>8 DEF CountIsOutstanding
    <2> QED  BY <2>3, <2>4, <2>9 DEF CountIsOutstanding
  <1>4. ASSUME NEW th \in Threads, Push(th) \/ \E t \in Tasks : Submit(th, t)
        PROVE  UNCHANGED <<count, accepted, retired>>
    BY <1>4 DEF Push, Submit, history
  <1>5. ASSUME NEW w \in Workers, Take(w)
        PROVE  UNCHANGED <<count, accepted, retired>>
    BY <1>5 DEF Take, history
  <1>6. ASSUME NEW th \in Threads, NEW label \in LabelsOf(th), Quiet(th, label)
        PROVE  UNCHANGED <<count, accepted, retired>>
    BY <1>6 DEF Quiet, data
  <1> QED  BY <1>1, <1>2, <1>3, <1>4, <1>5, <1>6, StepKinds

-----------------------------------------------------------------------------
(* The end of a worker.                                                    *)

\* Between a worker's wait and its decision only that worker can take a task.
LEMMA StepTestedIsReady ==
    ASSUME TypeOK, LocksHeld, TestedIsReady, Next
    PROVE  TestedIsReady'
  <1>0. \A w \in Workers : w \in Threads
    BY DEF Threads
  <1>1. ASSUME NEW th \in Threads, NEW label \in LabelsOf(th), Quiet(th, label)
        PROVE  TestedIsReady'
    <2>1. \A x \in Threads \ {th} : pc'[x] = "test" <=> pc[x] = "test"
      BY <1>1, OthersStay DEF Quiet
    <2> QED  BY <1>0, <1>1, <2>1 DEF Quiet, Moves, data, TestedIsReady
  <1>2. ASSUME NEW th \in Threads, Push(th) \/ Count(th) \/ \E t \in Tasks : Submit(th, t)
        PROVE  TestedIsReady'
    <2>1. \E label \in SubmitPC : Moves(th, label)
      BY <1>2, GotoMoves DEF Push, Count, Submit, SubmitPC
    <2>2. \A x \in Workers : pc'[x] = "test" => pc[x] = "test"
      BY <1>0, <2>1, OthersStay DEF Moves, SubmitPC
    <2>3. stop' = stop /\ (tasks # <<>> => tasks' # <<>>)
      BY <1>2 DEF Push, PushResults, Count, Submit, TypeOK
    <2> QED  BY <2>2, <2>3 DEF TestedIsReady
  <1>3. ASSUME NEW w \in Workers, Take(w)
        PROVE  TestedIsReady'
    <2>1. \E label \in {"lock", "run"} : Moves(w, label)
      BY <1>0, <1>3, GotoMoves DEF Take
    <2>2. tasksMutex = w
      BY <1>0, <1>3 DEF Take, LocksHeld, OwnsItsLocks
    <2>3. \A x \in Workers \ {w} : pc[x] # "test"
      BY <1>0, <2>2 DEF LocksHeld, OwnsItsLocks
    <2>4. \A x \in Workers : pc'[x] # "test"
      BY <1>0, <2>1, <2>3, OthersStay DEF Moves
    <2> QED  BY <2>4 DEF TestedIsReady
  <1>4. ASSUME NEW w \in Workers, Decrement(w)
        PROVE  TestedIsReady'
    <2>1. Moves(w, "drainCount")
      BY <1>0, <1>4, GotoMoves DEF Decrement
    <2>2. \A x \in Workers : pc'[x] = "test" => pc[x] = "test"
      BY <1>0, <2>1, OthersStay DEF Moves
    <2> QED  BY <1>4, <2>2 DEF Decrement, TestedIsReady
  <1> QED  BY <1>1, <1>2, <1>3, <1>4, StepKinds

\* The last worker to leave saw an empty queue; what comes after it is late.
LEMMA StepAbandoned ==
    ASSUME TypeOK, LocksHeld, AbandonedOnlyIfLate, Next
    PROVE  AbandonedOnlyIfLate'
  <1>0. \A w \in Workers : w \in Threads
    BY DEF Threads
  <1>1. ASSUME NEW th \in Threads, NEW label \in LabelsOf(th), Quiet(th, label)
        PROVE  AbandonedOnlyIfLate'
    <2>1. \A x \in Threads \ {th} : pc'[x] = "exited" <=> pc[x] = "exited"
      BY <1>1, OthersStay DEF Quiet
    <2>2. CASE label = "exited"
      BY <1>1, <2>2 DEF Quiet, data, AbandonedOnlyIfLate, Queued
    <2>3. CASE label # "exited"
      <3>1. AllExited' => AllExited
        BY <1>0, <1>1, <2>1, <2>3 DEF AllExited, Quiet, Moves
      <3> QED  BY <1>1, <3>1 DEF Quiet, data, AbandonedOnlyIfLate, Queued
    <2> QED  BY <2>2, <2>3
  <1>2. ASSUME NEW th \in Threads, Push(th)
        PROVE  AbandonedOnlyIfLate'
    <2>1. Moves(th, "sCount") /\ pc[th] = "sPush"
      BY <1>2, GotoMoves DEF Push
    <2>2. AllExited' => AllExited /\ th \notin Workers
      BY <1>0, <2>1, OthersStay DEF AllExited, Moves
    <2>3. SUFFICES ASSUME AllExited, th \notin Workers
                   PROVE  \A t \in Queued' : t # NoTask => origin'[t] = "late"
      BY <2>2 DEF AbandonedOnlyIfLate
    <2>4. Origin(th) = "late" /\ arg[th] \in Tasks
      BY <2>1, <2>3 DEF Origin, LocksHeld, OwnsItsLocks, TypeOK
    <2>5. Queued' \subseteq Queued \cup {arg[th], NoTask}
      <3>1. ASSUME NEW e \in {arg[th], NoTask}, tasks' = Append(tasks, e)
            PROVE  Queued' \subseteq Queued \cup {e}
        <4>1. /\ DOMAIN tasks' = DOMAIN tasks \cup {Len(tasks) + 1}
              /\ tasks'[Len(tasks) + 1] = e
              /\ \A i \in DOMAIN tasks : tasks'[i] = tasks[i]
          BY <2>4, <3>1, QueueOperators DEF TypeOK
        <4> QED  BY <4>1 DEF Queued
      <3>2. ASSUME tasks' = tasks
            PROVE  Queued' = Queued
        BY <3>2 DEF Queued
      <3> QED  BY <1>2, <3>1, <3>2 DEF Push, PushResults
    <2>6. Queued \subseteq Tasks \cup {NoTask}
      BY DEF Queued, TypeOK
    <2>7. \A t \in Queued : t # NoTask => origin[t] = "late"
      BY <2>3 DEF AbandonedOnlyIfLate
    <2>8. \A t \in Tasks : origin'[t] = IF t = arg[th] THEN "late" ELSE origin[t]
      BY <1>2, <2>4 DEF Push, TypeOK
    <2> QED  BY <2>4, <2>5, <2>6, <2>7, <2>8
  <1>3. ASSUME NEW th \in Threads, Count(th) \/ \E t \in Tasks : Submit(th, t)
        PROVE  AbandonedOnlyIfLate'
    <2>1. \E label \in SubmitPC : Moves(th, label)
      BY <1>3, GotoMoves DEF Count, Submit, SubmitPC
    <2>2. AllExited' => AllExited
      BY <1>0, <2>1, OthersStay DEF AllExited, Moves, SubmitPC
    <2> QED  BY <1>3, <2>2 DEF Count, Submit, history, AbandonedOnlyIfLate, Queued
  <1>4. ASSUME NEW w \in Workers, Take(w) \/ Decrement(w)
        PROVE  AbandonedOnlyIfLate'
    <2>1. \E label \in {"lock", "run", "drainCount"} : Moves(w, label)
      BY <1>0, <1>4, GotoMoves DEF Take, Decrement
    <2>2. ~AllExited'
      BY <1>0, <2>1 DEF AllExited, Moves
    <2> QED  BY <2>2 DEF AbandonedOnlyIfLate
  <1> QED  BY <1>1, <1>2, <1>3, <1>4, StepKinds

-----------------------------------------------------------------------------
(* The theorems.                                                           *)

\* IInv is inductive.
LEMMA InductiveStep == IInv /\ [Next]_vars => IInv'
  <1> SUFFICES ASSUME IInv, [Next]_vars PROVE IInv'
    OBVIOUS
  <1>1. CASE Next
    BY <1>1, StepTypeOK, StepLocksHeld, StepPushedIsCounted, StepHeldByWorkers, StepRunOnce,
       StepCount, StepTestedIsReady, StepAbandoned DEF IInv
  <1>2. CASE UNCHANGED vars
    <2>1. TypeOK' /\ LocksHeld' /\ PushedIsCounted'
      BY <1>2 DEF IInv, vars, TypeOK, PcTypeOK, LocksHeld, OwnsItsLocks, Guard, PushedIsCounted
    <2>2. HeldByWorkers' /\ QueueWasPushed' /\ RunOnce'
      BY <1>2 DEF IInv, vars, HeldByWorkers, QueueWasPushed, RunOnce, Queued, Held
    <2>3. (retired \subseteq accepted)' /\ CountIsOutstanding' /\ TestedIsReady' /\ AbandonedOnlyIfLate'
      BY <1>2 DEF IInv, vars, CountIsOutstanding, TestedIsReady, AbandonedOnlyIfLate, AllExited, Queued
    <2> QED  BY <2>1, <2>2, <2>3 DEF IInv
  <1> QED  BY <1>1, <1>2

\* Every reachable state of the pool satisfies the invariant, whatever the number of
\* workers, clients and tasks, and with both kinds of submission mixed.
THEOREM Invariance == Spec => []IInv
  <1> QED  BY InitIInv, InductiveStep, PTL DEF Spec

\* The variables keep their types: no step counts an unknown task in or out.
THEOREM TypeCorrect == Spec => []TypeOK
  <1>1. IInv => TypeOK
    BY DEF IInv
  <1> QED  BY <1>1, Invariance, PTL

\* The counter waitAllthread waits on (199) is the number of tasks counted in by a
\* submission (152, 185) and not yet counted out by a worker (115).
THEOREM CounterCorrect == Spec => []CountIsOutstanding
  <1>1. IInv => CountIsOutstanding
    BY DEF IInv
  <1> QED  BY <1>1, Invariance, PTL

\* No task is run twice, even when two pushes damage the queue (106-111).
THEOREM NoTaskRunsTwice == Spec => []RunOnce
  <1>1. IInv => RunOnce
    BY DEF IInv
  <1> QED  BY <1>1, Invariance, PTL

\* When all workers are gone (98-100), only tasks pushed after that are left: what was
\* queued before the stop, and what tasks themselves submitted, was taken.
THEOREM OnlyLateTasksAbandoned == Spec => []AbandonedOnlyIfLate
  <1>1. IInv => AbandonedOnlyIfLate
    BY DEF IInv
  <1> QED  BY <1>1, Invariance, PTL

\* The continue of line 103 is dead code: a worker past its wait has a task or leaves.
THEOREM ContinueUnreachable == Spec => []TestedIsReady
  <1>1. IInv => TestedIsReady
    BY DEF IInv
  <1> QED  BY <1>1, Invariance, PTL

-----------------------------------------------------------------------------
(* The pool implements TaskPool when one kind of submission is used.        *)

\* With one kind of submission one mutex guards every push: pushes do not overlap.
LEMMA NoRace ==
    ASSUME TypeOK, LocksHeld, RetTasks = {} \/ RetTasks = Tasks,
           NEW th \in Threads, pc[th] = "sPush"
    PROVE  ~RacingPush(th)
  <1> SUFFICES ASSUME NEW x \in Threads \ {th}, pc[x] = "sPush"
               PROVE  FALSE
    BY DEF RacingPush
  <1>1. arg[th] \in Tasks /\ arg[x] \in Tasks
    BY DEF LocksHeld, OwnsItsLocks, TypeOK
  <1>2. Guard(arg[th]) = th /\ Guard(arg[x]) = x
    BY DEF LocksHeld, OwnsItsLocks
  <1> QED  BY <1>1, <1>2 DEF Guard

\* A step of the pool is a submission, a start or a finish of TaskPool, or changes
\* nothing TaskPool knows about.
LEMMA RefinementStep ==
    ASSUME IInv, RetTasks = {} \/ RetTasks = Tasks, [Next]_vars
    PROVE  [Pool!Next]_(Pool!vars)
  <1> USE DEF IInv
  <1>1. ASSUME UNCHANGED <<tasks, cur, retired>>
        PROVE  UNCHANGED Pool!vars
    BY <1>1 DEF Pool!vars
  <1>2. ASSUME NEW th \in Threads, Push(th)
        PROVE  Pool!Next
    <2> DEFINE t == arg[th]
    <2>1. t \in Tasks /\ origin[t] = "none"
      BY <1>2 DEF Push, LocksHeld, OwnsItsLocks, PushedIsCounted, TypeOK
    <2>2. t \notin Queued /\ t \notin Held /\ t \notin retired
      BY <2>1, TasksAssumption
      DEF Queued, Held, QueueWasPushed, HeldByWorkers, PushedIsCounted
    <2>3. t \notin Pool!Pending \cup Pool!Running \cup retired
      BY <2>2 DEF Pool!Pending, Pool!Running, Queued, Held
    <2>4. tasks' = Append(tasks, t) /\ UNCHANGED <<cur, retired>>
      BY <1>2, NoRace DEF Push, PushResults
    <2>5. Pool!Submit(t)
      BY <2>3, <2>4 DEF Pool!Submit
    <2> QED  BY <2>1, <2>5 DEF Pool!Next
  <1>3. ASSUME NEW w \in Workers, Take(w)
        PROVE  Pool!Next
    <2>1. cur[w] = NoTask
      BY <1>3 DEF Take, HeldByWorkers, SubmitPC
    <2>2. Pool!Start(w)
      BY <1>3, <2>1 DEF Take, Pool!Start, history
    <2> QED  BY <2>2 DEF Pool!Next
  <1>4. ASSUME NEW w \in Workers, Decrement(w)
        PROVE  Pool!Next
    <2>1. cur[w] # NoTask
      BY <1>4 DEF Decrement, HeldByWorkers
    <2>2. Pool!Finish(w)
      BY <1>4, <2>1 DEF Decrement, Pool!Finish
    <2> QED  BY <2>2 DEF Pool!Next
  <1>5. ASSUME NEW th \in Threads, Count(th) \/ \E t \in Tasks : Submit(th, t)
        PROVE  UNCHANGED <<tasks, cur, retired>>
    BY <1>5 DEF Count, Submit, history
  <1>6. ASSUME NEW th \in Threads, NEW label \in LabelsOf(th), Quiet(th, label)
        PROVE  UNCHANGED <<tasks, cur, retired>>
    BY <1>6 DEF Quiet, data
  <1>7. ASSUME UNCHANGED vars
        PROVE  UNCHANGED <<tasks, cur, retired>>
    BY <1>7 DEF vars
  <1> QED  BY <1>1, <1>2, <1>3, <1>4, <1>5, <1>6, <1>7, StepKinds

\* As long as the program submits through one of asyncTaskvoid (the library's choice)
\* and asyncTaskret, the pool is a FIFO pool that loses nothing and runs each task once.
THEOREM Refinement ==
    ASSUME RetTasks = {} \/ RetTasks = Tasks
    PROVE  Spec => ImplementsTaskPool
  <1>1. Init => Pool!Init
    BY DEF Init, Pool!Init
  <1>2. IInv /\ [Next]_vars => [Pool!Next]_(Pool!vars)
    BY RefinementStep
  <1> QED  BY <1>1, <1>2, Invariance, PTL DEF Spec, ImplementsTaskPool, Pool!Spec

-----------------------------------------------------------------------------
(* What the pool promises only when all tasks are submitted through the    *)
(* same function.                                                          *)

\* What the two functions have in common: the queue holds no empty function.
QueueIsWhole == \A i \in DOMAIN tasks : tasks[i] # NoTask

WholeInv == IInv /\ QueueIsWhole /\ NoTaskLost

\* asyncTaskvoid.  While someone owns M_countMutex_, nobody counts a task in or out: what was
\* read from the counter is still true.  While waitAllthread sleeps, there is a counted
\* task, or the worker that finished the last one is on its way.
DrainInv ==
    /\ pc[Main] = "wEmpty" => count = 0
    /\ pc[Main] = "wBlock" => count # 0
    /\ \A w \in Workers : pc[w] = "drainEmpty" => count = 0
    /\ pc[Main] = "asleep" => count # 0 \/ \E w \in Workers : pc[w] \in {"drainCount", "drainEmpty"}

\* asyncTaskret.  A worker about to sleep owns M_tasksMutex_, so nothing was pushed since its
\* test.  waitAllthread, which could be woken in a worker's place, comes after the stop.
AwakeInv ==
    /\ \A w \in Workers : pc[w] = "block" => tasks = <<>>
    /\ pc[Main] \in ShutdownPC => stop
    /\ WorkConserving

-----------------------------------------------------------------------------
(* No task is lost.                                                        *)

\* A pushed task goes from the end of the queue to its front, to a worker's hands and to
\* those that are finished.
LEMMA StepWhole ==
    ASSUME WholeInv, RetTasks = {} \/ RetTasks = Tasks, Next
    PROVE  QueueIsWhole' /\ NoTaskLost'
  <1> USE DEF WholeInv, IInv
  <1>1. ASSUME UNCHANGED <<tasks, cur, origin, retired>>
        PROVE  QueueIsWhole' /\ NoTaskLost'
    BY <1>1 DEF QueueIsWhole, NoTaskLost, Queued, Held
  <1>2. ASSUME NEW th \in Threads, Push(th)
        PROVE  QueueIsWhole' /\ NoTaskLost'
    <2> DEFINE t == arg[th]
    <2>1. t \in Tasks /\ t # NoTask
      BY <1>2, TasksAssumption DEF Push, LocksHeld, OwnsItsLocks, TypeOK
    <2>2. tasks' = Append(tasks, t) /\ UNCHANGED <<cur, retired>>
      BY <1>2, NoRace DEF Push, PushResults
    <2>3. /\ DOMAIN tasks' = DOMAIN tasks \cup {Len(tasks) + 1}
          /\ tasks'[Len(tasks) + 1] = t
          /\ \A i \in DOMAIN tasks : tasks'[i] = tasks[i]
      BY <2>1, <2>2, QueueOperators DEF TypeOK
    <2>4. Queued' = Queued \cup {t}
      BY <2>3 DEF Queued
    <2>5. \A u \in Tasks : origin'[u] # "none" => u = t \/ origin[u] # "none"
      BY <1>2, <2>1 DEF Push, TypeOK
    <2>6. NoTaskLost'
      BY <2>2, <2>4, <2>5 DEF NoTaskLost, Held
    <2> QED  BY <2>1, <2>3, <2>6 DEF QueueIsWhole
  <1>3. ASSUME NEW w \in Workers, Take(w)
        PROVE  QueueIsWhole' /\ NoTaskLost'
    <2> DEFINE t == Head(tasks)
    <2>1. /\ t = tasks[1]
          /\ \A i \in DOMAIN tasks' : i \in Nat /\ i + 1 \in DOMAIN tasks /\ tasks'[i] = tasks[i + 1]
      BY <1>3, QueueOperators DEF Take, TypeOK
    <2>2. /\ cur[w] = NoTask /\ cur'[w] = t
          /\ \A x \in Workers \ {w} : cur'[x] = cur[x]
          /\ tasks' = Tail(tasks)
          /\ UNCHANGED <<origin, retired>>
      BY <1>3 DEF Take, HeldByWorkers, SubmitPC, TypeOK, history
    <2>3. QueueIsWhole'
      BY <2>1 DEF QueueIsWhole
    <2>4. Queued \subseteq Queued' \cup {t}
      <3>1. \A i \in DOMAIN tasks : i = 1 \/ \E j \in DOMAIN Tail(tasks) : Tail(tasks)[j] = tasks[i]
        <4>1. tasks \in Seq(Tasks \cup {NoTask}) /\ tasks # <<>>
          BY <1>3 DEF Take, TypeOK
        <4> TAKE i \in DOMAIN tasks
        <4>2. SUFFICES ASSUME i # 1 PROVE \E j \in DOMAIN Tail(tasks) : Tail(tasks)[j] = tasks[i]
          OBVIOUS
        <4>3. i - 1 \in DOMAIN Tail(tasks) /\ Tail(tasks)[i - 1] = tasks[i]
          BY <4>1, <4>2
        <4> QED  BY <4>3
      <3> QED  BY <2>1, <2>2, <3>1 DEF Queued
    <2>5. Held \subseteq Held' \cup {NoTask} /\ t \in Held'
      BY <2>2 DEF Held
    <2>6. NoTaskLost'
      BY <2>2, <2>4, <2>5, TasksAssumption DEF NoTaskLost
    <2> QED  BY <2>3, <2>6
  <1>4. ASSUME NEW w \in Workers, Decrement(w)
        PROVE  QueueIsWhole' /\ NoTaskLost'
    <2>1. /\ \A x \in Workers \ {w} : cur'[x] = cur[x]
          /\ tasks' = tasks /\ origin' = origin /\ retired' = retired \cup {cur[w]}
      BY <1>4 DEF Decrement, TypeOK
    <2>2. Held \subseteq Held' \cup {cur[w]}
      BY <2>1 DEF Held
    <2> QED  BY <2>1, <2>2 DEF QueueIsWhole, NoTaskLost, Queued
  <1>5. ASSUME NEW th \in Threads, Count(th) \/ \E t \in Tasks : Submit(th, t)
        PROVE  UNCHANGED <<tasks, cur, origin, retired>>
    BY <1>5 DEF Count, Submit, history
  <1>6. ASSUME NEW th \in Threads, NEW label \in LabelsOf(th), Quiet(th, label)
        PROVE  UNCHANGED <<tasks, cur, origin, retired>>
    BY <1>6 DEF Quiet, data
  <1> QED  BY <1>1, <1>2, <1>3, <1>4, <1>5, <1>6, StepKinds

\* The invariant that both kinds of submission share.
LEMMA WholeInvariant ==
    ASSUME RetTasks = {} \/ RetTasks = Tasks
    PROVE  Spec => []WholeInv
  <1>1. Init => WholeInv
    BY InitIInv DEF Init, WholeInv, QueueIsWhole, NoTaskLost
  <1>2. ASSUME WholeInv, [Next]_vars PROVE WholeInv'
    <2>1. CASE Next
      BY <1>2, <2>1, StepWhole, InductiveStep DEF WholeInv
    <2>2. CASE UNCHANGED vars
      BY <1>2, <2>2, InductiveStep DEF WholeInv, vars, QueueIsWhole, NoTaskLost, Queued, Held
    <2> QED  BY <1>2, <2>1, <2>2
  <1> QED  BY <1>1, <1>2, PTL DEF Spec

\* A pushed task (150, 182) is in the queue, in a worker's hands or finished: no path of the
\* worker's loop drops it.
THEOREM NothingLost ==
    ASSUME RetTasks = {} \/ RetTasks = Tasks
    PROVE  Spec => []NoTaskLost
  <1>1. WholeInv => NoTaskLost
    BY DEF WholeInv
  <1> QED  BY <1>1, WholeInvariant, PTL

-----------------------------------------------------------------------------
(* asyncTaskvoid: waitAllthread and the last task.                          *)

\* With the counter at 0 and nobody about to count, the pool is drained: every task that was
\* pushed was counted, hence counted out.
LEMMA ZeroMeansDrained ==
    ASSUME WholeInv, count = 0, \A th \in Threads : pc[th] # "sCount"
    PROVE  /\ tasks = <<>>
           /\ \A w \in Workers : cur[w] = NoTask
           /\ accepted \subseteq retired
  <1> USE DEF WholeInv, IInv
  <1>1. accepted \ retired = {}
    <2>1. IsFiniteSet(accepted \ retired)
      BY FS_Subset, TasksAssumption DEF TypeOK
    <2> QED  BY <2>1, FS_EmptySet DEF CountIsOutstanding
  <1>2. \A t \in Tasks : origin[t] # "none" => t \in retired
    BY <1>1 DEF PushedIsCounted
  <1>3. \A w \in Workers : cur[w] = NoTask
    <2> SUFFICES ASSUME NEW w \in Workers, cur[w] # NoTask PROVE FALSE
      OBVIOUS
    <2>1. cur[w] \in Tasks /\ cur[w] \in retired
      BY <1>2 DEF HeldByWorkers, TypeOK
    <2> QED  BY <2>1 DEF RunOnce, Held
  <1>4. tasks = <<>>
    <2> SUFFICES ASSUME tasks # <<>> PROVE FALSE
      OBVIOUS
    <2>1. 1 \in DOMAIN tasks /\ tasks[1] \in Tasks \cup {NoTask}
      BY DEF TypeOK
    <2>2. tasks[1] \in Tasks /\ tasks[1] \in retired
      BY <1>2, <2>1 DEF QueueIsWhole, QueueWasPushed
    <2> QED  BY <2>1, <2>2 DEF RunOnce, Queued
  <1> QED  BY <1>1, <1>3, <1>4

\* Where a thread owns M_countMutex_ and neither submits nor counts out, the counter rests.
Resting == {"wCount", "wEmpty", "wBlock", "drainCount", "drainEmpty"}

\* Who may be there.
LEMMA RestingOwns ==
    ASSUME WholeInv, RetTasks = {}, NEW x \in Threads, pc[x] \in Resting
    PROVE  /\ countMutex = x
           /\ \A th \in Threads : pc[th] \notin {"sPush", "sCount", "dec"}
  <1> USE DEF WholeInv, IInv, Resting
  <1>1. countMutex = x
    <2>1. x \in Workers \/ pc[x] \in {"wCount", "wEmpty", "wBlock"}
      BY DEF TypeOK, PcTypeOK, Threads, SubmitPC, ShutdownPC
    <2> QED  BY <2>1 DEF LocksHeld, OwnsItsLocks
  <1>2. \A th \in Threads : pc[th] = "dec" => th \in Workers
    BY DEF TypeOK, PcTypeOK, Threads, SubmitPC, ShutdownPC
  <1> QED  BY <1>1, <1>2 DEF LocksHeld, OwnsItsLocks, Guard

\* The counter changes by submissions and by the workers' decrements only.
LEMMA CounterSteps ==
    ASSUME WholeInv, Next
    PROVE  \/ count' = count
           \/ \E th \in Threads : pc[th] = "sCount" /\ count' = count + 1
           \/ \E w \in Workers : pc[w] = "dec" /\ pc'[w] = "drainCount"
  <1>1. ASSUME NEW w \in Workers, Decrement(w)
        PROVE  pc[w] = "dec" /\ pc'[w] = "drainCount"
    BY <1>1 DEF Decrement, Goto, WholeInv, IInv, TypeOK, PcTypeOK, Threads
  <1>2. ASSUME NEW th \in Threads, Count(th)
        PROVE  pc[th] = "sCount" /\ count' = count + 1
    BY <1>2 DEF Count
  <1>3. ASSUME NEW th \in Threads, Push(th) \/ \E t \in Tasks : Submit(th, t)
        PROVE  count' = count
    BY <1>3 DEF Push, Submit
  <1>4. ASSUME NEW w \in Workers, Take(w)
        PROVE  count' = count
    BY <1>4 DEF Take
  <1>5. ASSUME NEW th \in Threads, NEW label \in LabelsOf(th), Quiet(th, label)
        PROVE  count' = count
    BY <1>5 DEF Quiet, data
  <1> QED  BY <1>1, <1>2, <1>3, <1>4, <1>5, StepKinds DEF WholeInv, IInv

\* The steps that lead to and from the places of DrainInv.
Passages ==
    /\ pc'[Main] = "wEmpty" => pc[Main] = "wEmpty" \/ WaitCount
    /\ pc'[Main] = "wBlock" => pc[Main] = "wBlock" \/ WaitCount \/ WaitEmpty
    /\ pc'[Main] = "asleep" => pc[Main] = "asleep" \/ WaitBlock
    /\ \A w \in Workers :
         /\ pc'[w] = "drainEmpty" => pc[w] = "drainEmpty" \/ DrainCount(w)
         /\ pc[w] \in {"drainCount", "drainEmpty"} => pc'[w] = pc[w] \/ DrainCount(w) \/ DrainEmpty(w)

\* Most moves are none of them.
LEMMA NoPassage ==
    ASSUME NEW th \in Threads, NEW label, Moves(th, label),
           th = Main => label \notin {"wEmpty", "wBlock", "asleep"},
           th \in Workers => label # "drainEmpty" /\ pc[th] \notin {"drainCount", "drainEmpty"}
    PROVE  Passages
  BY ThreadsAssumption DEF Moves, Awakened, Passages, Threads

\* Every step of the pool is such a passage.
LEMMA StepPassages ==
    ASSUME TypeOK, Next
    PROVE  Passages
  <1>0. Main \in Threads /\ Main \notin Workers /\ \A w \in Workers : w \in Threads
    BY ThreadsAssumption DEF Threads
  <1>1. ASSUME NEW th \in Threads, NEW t \in Tasks, Submit(th, t)
        PROVE  Passages
    <2>1. pc[th] \notin {"drainCount", "drainEmpty"}
      BY <1>1, ThreadsAssumption DEF Submit, MaySubmit
    <2> QED  BY <1>1, <2>1, GotoMoves, NoPassage DEF Submit
  <1>2. ASSUME NEW th \in Threads, Push(th) \/ Count(th)
        PROVE  Passages
    BY <1>2, GotoMoves, NoPassage DEF Push, Count
  <1>3. ASSUME NEW th \in Threads, SubmitNotify(th)
        PROVE  Passages
    <2> DEFINE label == IF th \in Workers THEN "run" ELSE "idle"
    <2>1. Moves(th, label)
      BY <1>3, NotifyOneMoves DEF SubmitNotify
    <2> QED  BY <1>3, <2>1, NoPassage DEF SubmitNotify
  <1>4. ASSUME NEW th \in Threads, SpuriousWake(th)
        PROVE  Passages
    <2>1. Moves(th, Awakened(th)) /\ Awakened(th) \in {"lock", "wLock"}
      BY <1>4, GotoMoves DEF SpuriousWake, Awakened
    <2> QED  BY <1>4, <2>1, NoPassage DEF SpuriousWake
  <1>5. ASSUME NEW w \in Workers, Lock(w) \/ Check(w) \/ Block(w) \/ Exit(w) \/ Take(w) \/ FinishTask(w) \/ Decrement(w)
        PROVE  Passages
    <2>1. \E label : label # "drainEmpty" /\ Moves(w, label)
      BY <1>0, <1>5, GotoMoves DEF Lock, Check, Block, Exit, Take, FinishTask, Decrement
    <2>2. pc[w] \notin {"drainCount", "drainEmpty"}
      BY <1>5 DEF Lock, Check, Block, Exit, Take, FinishTask, Decrement
    <2> QED  BY <1>0, <2>1, <2>2, NoPassage
  <1>6. ASSUME NEW w \in Workers, DrainCount(w) \/ DrainEmpty(w)
        PROVE  Passages
    <2>1. \E label : Moves(w, label) /\ (label = "drainEmpty" => DrainCount(w))
      BY <1>0, <1>6, GotoMoves, NotifyAllMoves DEF DrainCount, DrainEmpty
    <2> QED  BY <1>0, <1>6, <2>1 DEF Moves, Awakened, Passages
  <1>7. ASSUME StopForWait \/ StopForDestroy \/ NotifyStop \/ WaitLock \/ Timeout \/ TimedOut \/ Join
        PROVE  Passages
    <2>1. \E label : label \notin {"wEmpty", "wBlock", "asleep"} /\ Moves(Main, label)
      BY <1>0, <1>7, GotoMoves, NotifyAllMoves
      DEF StopForWait, StopForDestroy, NotifyStop, WaitLock, Timeout, TimedOut, Join
    <2> QED  BY <1>0, <2>1, NoPassage
  <1>8. CASE WaitCount \/ WaitEmpty \/ WaitBlock
    <2>1. \E label : /\ Moves(Main, label)
                     /\ label = "wEmpty" => WaitCount
                     /\ label = "wBlock" => WaitCount \/ WaitEmpty
                     /\ label = "asleep" => WaitBlock
      BY <1>0, <1>8, GotoMoves DEF WaitCount, WaitEmpty, WaitBlock
    <2> QED  BY <1>0, <2>1 DEF Moves, Awakened, Passages
  <1> QED  BY <1>1, <1>2, <1>3, <1>4, <1>5, <1>6, <1>7, <1>8 DEF Next, Submission, Work, Shutdown

\* Every step keeps what waitAllthread relies on.
LEMMA StepDrainInv ==
    ASSUME WholeInv, RetTasks = {}, DrainInv, Next
    PROVE  DrainInv'
  <1>0. Passages /\ Main \in Threads /\ Main \notin Workers /\ \A w \in Workers : w \in Threads
    BY StepPassages, ThreadsAssumption DEF WholeInv, IInv, Threads
  <1>1. ASSUME NEW x \in Threads, pc[x] \in Resting
        PROVE  count' = count
    <2>1. \A th \in Threads : pc[th] \notin {"sPush", "sCount", "dec"}
      BY <1>1, RestingOwns
    <2> QED  BY <1>0, <2>1, CounterSteps
  <1>2. pc'[Main] = "wEmpty" => count' = 0
    <2>1. CASE pc[Main] = "wEmpty"
      BY <1>0, <1>1, <2>1 DEF DrainInv, Resting
    <2>2. CASE WaitCount
      BY <1>0, <2>2 DEF WaitCount, Goto, WholeInv, IInv, TypeOK, PcTypeOK
    <2> QED  BY <1>0, <2>1, <2>2 DEF Passages
  <1>3. pc'[Main] = "wBlock" => count' # 0
    <2>1. CASE pc[Main] = "wBlock"
      BY <1>0, <1>1, <2>1 DEF DrainInv, Resting
    <2>2. CASE WaitCount
      BY <1>0, <2>2 DEF WaitCount, Goto, WholeInv, IInv, TypeOK, PcTypeOK
    <2>3. CASE WaitEmpty
      <3>1. pc[Main] \in Resting /\ count = 0
        BY <2>3 DEF WaitEmpty, Resting, DrainInv
      <3>2. tasks = <<>>
        BY <1>0, <3>1, RestingOwns, ZeroMeansDrained
      <3>3. pc'[Main] = "wJoin"
        BY <1>0, <2>3, <3>2 DEF WaitEmpty, Goto, WholeInv, IInv, TypeOK, PcTypeOK
      <3> QED  BY <3>3
    <2> QED  BY <1>0, <2>1, <2>2, <2>3 DEF Passages
  <1>4. \A w \in Workers : pc'[w] = "drainEmpty" => count' = 0
    <2> SUFFICES ASSUME NEW w \in Workers, pc'[w] = "drainEmpty" PROVE count' = 0
      OBVIOUS
    <2>1. CASE pc[w] = "drainEmpty"
      BY <1>0, <1>1, <2>1 DEF DrainInv, Resting
    <2>2. CASE DrainCount(w)
      BY <1>0, <2>2 DEF DrainCount, Goto, WholeInv, IInv, TypeOK, PcTypeOK
    <2> QED  BY <1>0, <2>1, <2>2 DEF Passages
  <1>5. pc'[Main] = "asleep" => count' # 0 \/ \E w \in Workers : pc'[w] \in {"drainCount", "drainEmpty"}
    <2>1. CASE WaitBlock
      BY <2>1 DEF WaitBlock, DrainInv
    <2>2. CASE pc[Main] = "asleep" /\ count # 0
      BY <2>2, CounterSteps DEF WholeInv, IInv, TypeOK
    <2>3. ASSUME pc[Main] = "asleep", count = 0, pc'[Main] = "asleep",
                 NEW w \in Workers, pc[w] \in {"drainCount", "drainEmpty"}
          PROVE  pc'[w] \in {"drainCount", "drainEmpty"}
      <3>1. CASE pc'[w] = pc[w]
        BY <2>3, <3>1
      <3>2. CASE DrainCount(w)
        BY <1>0, <2>3, <3>2 DEF DrainCount, Goto, WholeInv, IInv, TypeOK, PcTypeOK
      <3>3. CASE DrainEmpty(w)
        <4>1. tasks = <<>>
          BY <1>0, <2>3, RestingOwns, ZeroMeansDrained DEF Resting
        <4>2. NotifyAll(w, "lock")
          BY <3>3, <4>1 DEF DrainEmpty
        <4>3. pc'[Main] = "wLock"
          BY <1>0, <2>3, <4>2 DEF NotifyAll, Awakened
        <4> QED  BY <2>3, <4>3
      <3> QED  BY <1>0, <2>3, <3>1, <3>2, <3>3 DEF Passages
    <2> QED  BY <1>0, <2>1, <2>2, <2>3 DEF Passages, DrainInv
  <1> QED  BY <1>2, <1>3, <1>4, <1>5 DEF DrainInv

\* The invariant of a pool that is used through asyncTaskvoid.
LEMMA DrainInvariant ==
    ASSUME RetTasks = {}
    PROVE  Spec => [](WholeInv /\ DrainInv)
  <1>1. Init => DrainInv
    BY ThreadsAssumption DEF Init, DrainInv, Threads
  <1>2. ASSUME WholeInv, DrainInv, [Next]_vars PROVE DrainInv'
    <2>1. CASE UNCHANGED vars
      BY <1>2, <2>1 DEF vars, DrainInv
    <2> QED  BY <1>2, <2>1, StepDrainInv
  <1>3. Spec => []WholeInv
    BY WholeInvariant
  <1> QED  BY <1>1, <1>2, <1>3, PTL DEF Spec

\* When waitAllthread finds the counter at 0 and the queue empty (197-200), no worker runs a
\* task and all that was counted is finished, although a worker takes tasks under the other
\* mutex and the two are read one after the other.
THEOREM DrainedIsQuiet ==
    ASSUME RetTasks = {}
    PROVE  Spec => []QuietWhenDrained
  <1>1. ASSUME WholeInv, DrainInv PROVE QuietWhenDrained
    <2> SUFFICES ASSUME pc[Main] = "wEmpty"
                 PROVE  (\A w \in Workers : cur[w] = NoTask) /\ accepted \subseteq retired
      BY DEF QuietWhenDrained
    <2>1. Main \in Threads
      BY ThreadsAssumption DEF Threads
    <2>2. count = 0 /\ pc[Main] \in Resting
      BY <1>1 DEF DrainInv, Resting
    <2> QED  BY <1>1, <2>1, <2>2, RestingOwns, ZeroMeansDrained
  <1> QED  BY <1>1, DrainInvariant, PTL

\* waitAllthread does not sleep through the end of the work: its test and its sleep are
\* one section of M_countMutex_ for the workers' decrement, and whoever empties the pool has
\* yet to notify it (117-119).
THEOREM DrainNotMissed ==
    ASSUME RetTasks = {}
    PROVE  Spec => []NoMissedDrain
  <1>1. DrainInv => NoMissedDrain
    BY DEF DrainInv, NoMissedDrain
  <1> QED  BY <1>1, DrainInvariant, PTL

-----------------------------------------------------------------------------
(* asyncTaskret: work and those who will look for it.                       *)

\* A move keeps those on their way and those that notify, but for the thread that moves; and
\* nobody falls asleep but this thread.
LEMMA OthersStayOnTheWay ==
    ASSUME NEW th \in Threads, NEW label, Moves(th, label)
    PROVE  /\ OnTheWay \ {th} \subseteq OnTheWay'
           /\ Notifying \ {th} \subseteq Notifying'
           /\ label \in {"lock", "check", "test", "dec", "drainCount", "drainEmpty"} /\ th \in Workers => th \in OnTheWay'
           /\ label \in {"sCount", "sNotify"} => th \in Notifying'
           /\ label # "asleep" => \A w \in Workers : pc'[w] = "asleep" => pc[w] = "asleep"
  BY DEF Moves, OnTheWay, Notifying, Threads

\* Sets of threads can be counted.
LEMMA ThreadSets ==
    ASSUME NEW S \in SUBSET Threads
    PROVE  IsFiniteSet(S) /\ Cardinality(S) \in Nat /\ \A R \in SUBSET S : Cardinality(R) <= Cardinality(S)
  <1>1. IsFiniteSet(S)
    BY ThreadsAssumption, FS_Subset DEF Threads
  <1> QED  BY <1>1, FS_CardinalityType, FS_Subset

\* What a step does to the bound: it may take a thread from those on their way only with
\* the task, and from those that notify only for one on its way.
LEMMA BoundKept ==
    ASSUME tasks \in Seq(Tasks \cup {NoTask}), tasks' \in Seq(Tasks \cup {NoTask}),
           Len(tasks) <= Cardinality(OnTheWay) + Cardinality(Notifying),
           \/ /\ OnTheWay \subseteq OnTheWay' /\ Notifying \subseteq Notifying'
              /\ Len(tasks') <= Len(tasks)
           \/ \E th \in Threads \ Notifying :
                /\ OnTheWay \subseteq OnTheWay' /\ Notifying \cup {th} \subseteq Notifying'
                /\ Len(tasks') <= Len(tasks) + 1
           \/ \E w \in OnTheWay :
                /\ OnTheWay \ {w} \subseteq OnTheWay' /\ Notifying \subseteq Notifying'
                /\ Len(tasks') + 1 <= Len(tasks)
           \/ \E th \in Notifying, s \in Workers \ OnTheWay :
                /\ OnTheWay \cup {s} \subseteq OnTheWay' /\ Notifying \ {th} \subseteq Notifying'
                /\ Len(tasks') <= Len(tasks)
    PROVE  Len(tasks') <= Cardinality(OnTheWay') + Cardinality(Notifying')
  <1>1. /\ OnTheWay \in SUBSET Threads /\ OnTheWay' \in SUBSET Threads
        /\ Notifying \in SUBSET Threads /\ Notifying' \in SUBSET Threads
    BY DEF OnTheWay, Notifying, Threads
  <1>2. /\ IsFiniteSet(OnTheWay) /\ IsFiniteSet(Notifying)
        /\ Cardinality(OnTheWay) \in Nat /\ Cardinality(OnTheWay') \in Nat
        /\ Cardinality(Notifying) \in Nat /\ Cardinality(Notifying') \in Nat
        /\ \A R \in SUBSET OnTheWay' : Cardinality(R) <= Cardinality(OnTheWay')
        /\ \A R \in SUBSET Notifying' : Cardinality(R) <= Cardinality(Notifying')
    BY <1>1, ThreadSets
  <1>3. Len(tasks) \in Nat /\ Len(tasks') \in Nat
    OBVIOUS
  <1>4. ASSUME NEW th \in Threads \ Notifying
        PROVE  Cardinality(Notifying \cup {th}) = Cardinality(Notifying) + 1
    BY <1>2, <1>4, FS_AddElement
  <1>5. ASSUME NEW s \in Workers \ OnTheWay
        PROVE  Cardinality(OnTheWay \cup {s}) = Cardinality(OnTheWay) + 1
    BY <1>2, <1>5, FS_AddElement
  <1>6. ASSUME NEW w \in OnTheWay
        PROVE  Cardinality(OnTheWay \ {w}) = Cardinality(OnTheWay) - 1
    BY <1>2, <1>6, FS_RemoveElement
  <1>7. ASSUME NEW th \in Notifying
        PROVE  Cardinality(Notifying \ {th}) = Cardinality(Notifying) - 1
    BY <1>2, <1>7, FS_RemoveElement
  <1>8. CASE /\ OnTheWay \subseteq OnTheWay' /\ Notifying \subseteq Notifying'
             /\ Len(tasks') <= Len(tasks)
    <2>1. Cardinality(OnTheWay) <= Cardinality(OnTheWay') /\ Cardinality(Notifying) <= Cardinality(Notifying')
      BY <1>2, <1>8
    <2> QED  BY <1>2, <1>3, <1>8, <2>1
  <1>9. ASSUME NEW th \in Threads \ Notifying,
               OnTheWay \subseteq OnTheWay', Notifying \cup {th} \subseteq Notifying', Len(tasks') <= Len(tasks) + 1
        PROVE  Len(tasks') <= Cardinality(OnTheWay') + Cardinality(Notifying')
    <2>1. Cardinality(OnTheWay) <= Cardinality(OnTheWay') /\ Cardinality(Notifying) + 1 <= Cardinality(Notifying')
      BY <1>2, <1>4, <1>9
    <2> QED  BY <1>2, <1>3, <1>9, <2>1
  <1>10. ASSUME NEW w \in OnTheWay,
                OnTheWay \ {w} \subseteq OnTheWay', Notifying \subseteq Notifying', Len(tasks') + 1 <= Len(tasks)
         PROVE  Len(tasks') <= Cardinality(OnTheWay') + Cardinality(Notifying')
    <2>1. Cardinality(OnTheWay) - 1 <= Cardinality(OnTheWay') /\ Cardinality(Notifying) <= Cardinality(Notifying')
      BY <1>2, <1>6, <1>10
    <2> QED  BY <1>2, <1>3, <1>10, <2>1
  <1>11. ASSUME NEW th \in Notifying, NEW s \in Workers \ OnTheWay,
                OnTheWay \cup {s} \subseteq OnTheWay', Notifying \ {th} \subseteq Notifying', Len(tasks') <= Len(tasks)
         PROVE  Len(tasks') <= Cardinality(OnTheWay') + Cardinality(Notifying')
    <2>1. Cardinality(OnTheWay) + 1 <= Cardinality(OnTheWay')
      BY <1>2, <1>5, <1>11
    <2>2. Cardinality(Notifying) - 1 <= Cardinality(Notifying')
      BY <1>2, <1>7, <1>11
    <2> QED  BY <1>2, <1>3, <1>11, <2>1, <2>2
  <1> QED  BY <1>8, <1>9, <1>10, <1>11

\* Who owns M_tasksMutex_ in a section of the worker's loop keeps everybody from pushing and
\* from taking.
LEMMA TasksOwned ==
    ASSUME WholeInv, RetTasks = Tasks, NEW w \in Workers, pc[w] \in {"check", "block", "test"}
    PROVE  /\ \A th \in Threads : pc[th] # "sPush"
           /\ \A x \in Workers \ {w} : pc[x] \notin {"check", "block", "test"}
  <1> USE DEF WholeInv, IInv
  <1>1. tasksMutex = w /\ w \in Threads
    BY DEF LocksHeld, OwnsItsLocks, Threads
  <1>2. ASSUME NEW th \in Threads, pc[th] = "sPush" PROVE FALSE
    <2>1. arg[th] \in Tasks /\ Guard(arg[th]) = th
      BY <1>2 DEF LocksHeld, OwnsItsLocks, TypeOK
    <2> QED  BY <1>1, <1>2, <2>1 DEF Guard
  <1>3. \A x \in Workers \ {w} : pc[x] \notin {"check", "block", "test"}
    BY <1>1 DEF LocksHeld, OwnsItsLocks, Threads
  <1> QED  BY <1>2, <1>3

\* Before the stop, Main is not shutting down: it does not sleep, and takes no wake-up away.
LEMMA StepStopped ==
    ASSUME WholeInv, pc[Main] \in ShutdownPC => stop, Next
    PROVE  /\ pc'[Main] \in ShutdownPC => stop'
           /\ QuietMain => stop'
  <1> USE DEF WholeInv, IInv
  <1>0. Main \in Threads /\ Main \notin Workers
    BY ThreadsAssumption DEF Threads
  <1>1. ASSUME QuietMain PROVE stop'
    <2>1. CASE StopForWait \/ StopForDestroy
      BY <2>1 DEF StopForWait, StopForDestroy
    <2>2. CASE Shutdown \/ SpuriousWake(Main)
      BY <2>2 DEF Shutdown, SpuriousWake, NotifyStop, WaitLock, WaitCount, WaitEmpty, WaitBlock, Timeout, TimedOut,
                  Join, ShutdownPC
    <2> QED  BY <1>1, <2>1, <2>2 DEF QuietMain
  <1>2. ASSUME NEW th \in Threads, Push(th) \/ Count(th) \/ SubmitNotify(th) \/ \E t \in Tasks : Submit(th, t)
        PROVE  pc'[Main] \in ShutdownPC => pc[Main] \in ShutdownPC /\ stop' = stop
    <2>1. \E label \in SubmitPC \cup {"idle", "run"} : Moves(th, label)
      BY <1>2, GotoMoves, NotifyOneMoves DEF Push, Count, SubmitNotify, Submit, SubmitPC
    <2>2. stop' = stop
      BY <1>2 DEF Push, Count, SubmitNotify, Submit
    <2> QED  BY <1>0, <2>1, <2>2 DEF Moves, SubmitPC, ShutdownPC
  <1>3. ASSUME NEW w \in Workers, Work(w) \/ SpuriousWake(w)
        PROVE  pc'[Main] \in ShutdownPC => pc[Main] \in ShutdownPC /\ stop' = stop
    <2>1. \E label : Moves(w, label)
      BY <1>3, GotoMoves, NotifyAllMoves
      DEF Work, Lock, Check, Block, Exit, Take, FinishTask, Decrement, DrainCount, DrainEmpty, SpuriousWake, Threads
    <2>2. stop' = stop
      BY <1>3 DEF Work, Lock, Check, Block, Exit, Take, FinishTask, Decrement, DrainCount, DrainEmpty, SpuriousWake
    <2> QED  BY <1>0, <2>1, <2>2 DEF Moves, Awakened, ShutdownPC
  <1>4. ASSUME NEW th \in Threads, SpuriousWake(th)
        PROVE  th = Main \/ th \in Workers
    BY <1>4 DEF SpuriousWake, TypeOK, PcTypeOK, ShutdownPC, Threads
  <1> QED  BY <1>1, <1>2, <1>3, <1>4 DEF Next, Submission, QuietMain

\* Nothing is pushed between a worker's test and its sleep.
LEMMA StepBlockIsIdle ==
    ASSUME WholeInv, RetTasks = Tasks, \A w \in Workers : pc[w] = "block" => tasks = <<>>, Next
    PROVE  \A w \in Workers : pc'[w] = "block" => tasks' = <<>>
  <1> SUFFICES ASSUME NEW w \in Workers, pc'[w] = "block" PROVE tasks' = <<>>
    OBVIOUS
  <1> USE DEF WholeInv, IInv
  <1>0. w \in Threads /\ \A x \in Workers : x \in Threads
    BY DEF Threads
  <1>1. CASE pc[w] = "block"
    <2>1. tasks = <<>> /\ \A th \in Threads : pc[th] # "sPush"
      BY <1>1, TasksOwned
    <2>2. tasks' = tasks
      <3>1. ASSUME NEW th \in Threads, Push(th) PROVE FALSE
        BY <2>1, <3>1 DEF Push
      <3>2. ASSUME NEW x \in Workers, Take(x) PROVE FALSE
        BY <2>1, <3>2 DEF Take
      <3>3. ASSUME NEW th \in Threads, Count(th) \/ \E t \in Tasks : Submit(th, t) PROVE tasks' = tasks
        BY <3>3 DEF Count, Submit
      <3>4. ASSUME NEW x \in Workers, Decrement(x) PROVE tasks' = tasks
        BY <3>4 DEF Decrement
      <3>5. ASSUME NEW th \in Threads, NEW label \in LabelsOf(th), Quiet(th, label) PROVE tasks' = tasks
        BY <3>5 DEF Quiet, data
      <3> QED  BY <3>1, <3>2, <3>3, <3>4, <3>5, StepKinds
    <2> QED  BY <2>1, <2>2
  <1>2. CASE Check(w)
    <2>1. pc'[w] = IF tasks # <<>> \/ stop THEN "test" ELSE "block"
      BY <1>0, <1>2 DEF Check, Goto, TypeOK, PcTypeOK
    <2> QED  BY <1>2, <2>1 DEF Check
  <1>3. ASSUME NEW th \in Threads, NEW label, Moves(th, label), label # "block" PROVE pc[w] = "block"
    BY <1>0, <1>3 DEF Moves, Awakened
  <1>4. ASSUME NEW x \in Workers, Check(x), x # w PROVE pc[w] = "block"
    <2>1. \E label : Moves(x, label)
      BY <1>0, <1>4, GotoMoves DEF Check
    <2> QED  BY <1>0, <1>4, <2>1 DEF Moves, Awakened
  <1>5. ASSUME NEW x \in Workers,
               Lock(x) \/ Block(x) \/ Exit(x) \/ Take(x) \/ FinishTask(x) \/ Decrement(x) \/ DrainCount(x) \/ DrainEmpty(x)
        PROVE  pc[w] = "block"
    <2>1. \E label : label # "block" /\ Moves(x, label)
      BY <1>0, <1>5, GotoMoves, NotifyAllMoves
      DEF Lock, Block, Exit, Take, FinishTask, Decrement, DrainCount, DrainEmpty
    <2> QED  BY <1>0, <1>3, <2>1
  <1>6. ASSUME NEW th \in Threads,
               Push(th) \/ Count(th) \/ SubmitNotify(th) \/ SpuriousWake(th) \/ \E t \in Tasks : Submit(th, t)
        PROVE  pc[w] = "block"
    <2>1. \E label : label # "block" /\ Moves(th, label)
      BY <1>6, GotoMoves, NotifyOneMoves DEF Push, Count, SubmitNotify, SpuriousWake, Awakened, Submit
    <2> QED  BY <1>3, <2>1
  <1>7. ASSUME QuietMain PROVE pc[w] = "block"
    <2>1. PICK label \in ShutdownPC \cup {"idle"} : Quiet(Main, label)
      BY <1>7, ShutdownIsQuiet
    <2>2. label # "block" /\ Moves(Main, label) /\ Main \in Threads
      BY <2>1, ThreadsAssumption DEF Quiet, ShutdownPC, Threads
    <2> QED  BY <1>3, <2>2
  <1> QED  BY <1>1, <1>2, <1>4, <1>5, <1>6, <1>7 DEF Next, Submission, Work, QuietMain

\* A worker that falls asleep saw an empty queue; while one sleeps, a push brings a
\* notification, a notification a worker, and a worker takes one task at most.
LEMMA StepWorkConserving ==
    ASSUME WholeInv, WholeInv', RetTasks = Tasks, AwakeInv, Next
    PROVE  WorkConserving'
  <1> USE DEF WholeInv, IInv
  <1> DEFINE Bound == Len(tasks) <= Cardinality(OnTheWay) + Cardinality(Notifying)
  <1>0. /\ Main \in Threads /\ Main \notin Workers /\ \A w \in Workers : w \in Threads
        /\ tasks \in Seq(Tasks \cup {NoTask}) /\ tasks' \in Seq(Tasks \cup {NoTask})
    BY ThreadsAssumption DEF Threads, TypeOK
  <1>1. (QuietMain => stop') /\ (pc[Main] \in ShutdownPC => stop) /\ (stop => stop')
    <2>1. \A th \in Threads : \A label \in LabelsOf(th) : Quiet(th, label) => (stop => stop')
      BY DEF Quiet
    <2>2. \A th \in Threads : Push(th) \/ Count(th) \/ (\E t \in Tasks : Submit(th, t)) => stop' = stop
      BY DEF Push, Count, Submit
    <2>3. \A w \in Workers : Take(w) \/ Decrement(w) => stop' = stop
      BY DEF Take, Decrement
    <2> QED  BY <2>1, <2>2, <2>3, StepStopped, StepKinds DEF AwakeInv
  <1>2. SUFFICES ASSUME ~stop', NEW sleeper \in Workers, pc'[sleeper] = "asleep"
                 PROVE  Bound'
    BY DEF WorkConserving
  <1>3. ~stop /\ ~QuietMain /\ pc[Main] # "asleep"
    BY <1>1, <1>2 DEF ShutdownPC
  <1>4. ASSUME pc[sleeper] = "asleep" PROVE Bound
    BY <1>3, <1>4 DEF AwakeInv, WorkConserving
  <1>5. ASSUME tasks' = <<>> PROVE Bound'
    <2>1. OnTheWay' \in SUBSET Threads /\ Notifying' \in SUBSET Threads
      BY DEF OnTheWay, Notifying, Threads
    <2>2. Cardinality(OnTheWay') \in Nat /\ Cardinality(Notifying') \in Nat
      BY <2>1, ThreadSets
    <2> QED  BY <1>5, <2>2
  <1>6. ASSUME NEW w \in Workers, Block(w) PROVE Bound'
    BY <1>5, <1>6 DEF Block, AwakeInv
  <1>7. ASSUME NEW w \in Workers, Check(w) PROVE Bound'
    <2>1. CASE tasks = <<>>
      BY <1>5, <1>7, <2>1 DEF Check
    <2>2. CASE tasks # <<>>
      <3>1. Moves(w, "test") /\ tasks' = tasks
        BY <1>0, <1>7, <2>2, GotoMoves DEF Check
      <3>2. /\ OnTheWay \subseteq OnTheWay'
            /\ Notifying \subseteq Notifying'
            /\ pc[sleeper] = "asleep"
        BY <1>0, <1>2, <1>7, <3>1, OthersStayOnTheWay DEF Check, Notifying
      <3> QED  BY <1>0, <1>4, <3>1, <3>2, BoundKept
    <2> QED  BY <2>1, <2>2
  <1>8. ASSUME NEW w \in Workers,
               Lock(w) \/ FinishTask(w) \/ Decrement(w) \/ DrainCount(w) \/ DrainEmpty(w) \/ SpuriousWake(w)
        PROVE  Bound'
    <2>1. PICK label \in {"lock", "check", "dec", "drainCount", "drainEmpty"} : Moves(w, label)
      BY <1>0, <1>8, GotoMoves, NotifyAllMoves
      DEF Lock, FinishTask, Decrement, DrainCount, DrainEmpty, SpuriousWake, Awakened
    <2>2. tasks' = tasks /\ pc[w] \notin {"sCount", "sNotify"}
      BY <1>8 DEF Lock, FinishTask, Decrement, DrainCount, DrainEmpty, SpuriousWake
    <2>3. OnTheWay \subseteq OnTheWay' /\ Notifying \subseteq Notifying' /\ pc[sleeper] = "asleep"
      BY <1>0, <1>2, <2>1, <2>2, OthersStayOnTheWay DEF Notifying
    <2> QED  BY <1>0, <1>4, <2>2, <2>3, BoundKept
  <1>9. ASSUME NEW w \in Workers, Exit(w) PROVE Bound'
    BY <1>3, <1>9 DEF Exit
  <1>10. ASSUME NEW w \in Workers, Take(w) PROVE Bound'
    <2>1. \E label \in {"lock", "run"} : Moves(w, label)
      BY <1>0, <1>10, GotoMoves DEF Take
    <2>2. tasks' = Tail(tasks) /\ tasks # <<>> /\ pc[w] = "test"
      BY <1>10 DEF Take
    <2>3. Len(tasks') + 1 <= Len(tasks)
      BY <1>0, <2>2
    <2>4. w \in OnTheWay /\ w \notin Notifying
      BY <2>2 DEF OnTheWay, Notifying
    <2>5. OnTheWay \ {w} \subseteq OnTheWay' /\ Notifying \subseteq Notifying' /\ pc[sleeper] = "asleep"
      BY <1>0, <1>2, <2>1, <2>4, OthersStayOnTheWay
    <2> QED  BY <1>0, <1>4, <2>3, <2>4, <2>5, BoundKept
  <1>11. ASSUME NEW th \in Threads, NEW t \in Tasks, Submit(th, t) PROVE Bound'
    <2>1. Moves(th, "sPush") /\ tasks' = tasks
      BY <1>11, GotoMoves DEF Submit
    <2>2. th \notin OnTheWay /\ th \notin Notifying
      BY <1>11, ThreadsAssumption DEF Submit, MaySubmit, OnTheWay, Notifying
    <2>3. OnTheWay \subseteq OnTheWay' /\ Notifying \subseteq Notifying' /\ pc[sleeper] = "asleep"
      BY <1>2, <2>1, <2>2, OthersStayOnTheWay
    <2> QED  BY <1>0, <1>4, <2>1, <2>3, BoundKept
  <1>12. ASSUME NEW th \in Threads, Push(th) PROVE Bound'
    <2>1. Moves(th, "sCount") /\ pc[th] = "sPush"
      BY <1>12, GotoMoves DEF Push
    <2>2. tasks' = Append(tasks, arg[th])
      BY <1>12, NoRace DEF Push, PushResults
    <2>3. Len(tasks') <= Len(tasks) + 1
      BY <1>0, <2>2
    <2>4. th \notin OnTheWay /\ th \in Threads \ Notifying
      BY <2>1 DEF OnTheWay, Notifying
    <2>5. OnTheWay \subseteq OnTheWay' /\ Notifying \cup {th} \subseteq Notifying' /\ pc[sleeper] = "asleep"
      BY <1>2, <2>1, <2>4, OthersStayOnTheWay
    <2> QED  BY <1>0, <1>4, <2>3, <2>4, <2>5, BoundKept
  <1>13. ASSUME NEW th \in Threads, Count(th) PROVE Bound'
    <2>1. Moves(th, "sNotify") /\ tasks' = tasks /\ th \notin OnTheWay
      BY <1>13, GotoMoves DEF Count, OnTheWay
    <2>2. OnTheWay \subseteq OnTheWay' /\ Notifying \subseteq Notifying' /\ pc[sleeper] = "asleep"
      BY <1>2, <2>1, OthersStayOnTheWay
    <2> QED  BY <1>0, <1>4, <2>1, <2>2, BoundKept
  <1>14. ASSUME NEW th \in Threads, SubmitNotify(th) PROVE Bound'
    <2> DEFINE label == IF th \in Workers THEN "run" ELSE "idle"
    <2>1. Moves(th, label) /\ tasks' = tasks /\ th \in Notifying /\ th \notin OnTheWay /\ label # "asleep"
      BY <1>14, NotifyOneMoves DEF SubmitNotify, OnTheWay, Notifying
    <2>2. OnTheWay \subseteq OnTheWay' /\ Notifying \ {th} \subseteq Notifying' /\ pc[sleeper] = "asleep"
      BY <1>2, <2>1, OthersStayOnTheWay
    <2>3. sleeper \in Asleep
      BY <1>0, <2>2 DEF Asleep
    <2>4. PICK s \in Asleep : pc' = [pc EXCEPT ![th] = label, ![s] = Awakened(s)]
      BY <1>14, <2>3 DEF SubmitNotify, NotifyOne
    <2>5. s \in Workers /\ s \notin OnTheWay
      <3>1. s \in Threads /\ pc[s] = "asleep"
        BY DEF Asleep
      <3>2. s # Main
        BY <1>3, <3>1
      <3>3. \A c \in Clients \ {Main} : pc[c] # "asleep"
        BY DEF TypeOK, PcTypeOK, ShutdownPC
      <3> QED  BY <3>1, <3>2, <3>3 DEF OnTheWay, Threads
    <2>6. pc'[s] = "lock"
      BY <1>0, <2>4, <2>5 DEF Awakened, TypeOK, PcTypeOK
    <2>7. s \in OnTheWay'
      BY <2>5, <2>6 DEF OnTheWay
    <2> QED  BY <1>0, <1>4, <2>1, <2>2, <2>5, <2>7, BoundKept
  <1>15. ASSUME NEW th \in Threads, SpuriousWake(th)
         PROVE  th = Main \/ th \in Workers
    BY <1>15 DEF SpuriousWake, TypeOK, PcTypeOK, ShutdownPC, Threads
  <1> HIDE DEF Bound
  <1> QED
    BY <1>3, <1>6, <1>7, <1>8, <1>9, <1>10, <1>11, <1>12, <1>13, <1>14, <1>15 DEF Next, Submission, Work, QuietMain

\* The invariant of a pool that is used through asyncTaskret.
LEMMA AwakeInvariant ==
    ASSUME RetTasks = Tasks
    PROVE  Spec => []AwakeInv
  <1>1. Init => AwakeInv
    BY ThreadsAssumption DEF Init, AwakeInv, WorkConserving, ShutdownPC, Threads
  <1>2. ASSUME WholeInv, WholeInv', AwakeInv, [Next]_vars PROVE AwakeInv'
    <2>1. CASE Next
      BY <1>2, <2>1, StepBlockIsIdle, StepStopped, StepWorkConserving DEF AwakeInv
    <2>2. CASE UNCHANGED vars
      BY <1>2, <2>2 DEF vars, AwakeInv, WorkConserving, OnTheWay, Notifying
    <2> QED  BY <1>2, <2>1, <2>2
  <1>3. Spec => []WholeInv
    BY WholeInvariant
  <1> QED  BY <1>1, <1>2, <1>3, PTL DEF Spec

\* No wake-up is lost through asyncTaskret: as long as a worker sleeps in a running pool, the
\* workers on their way to the queue and the notifications under way suffice for the tasks
\* in it (92-96, 180-187).
THEOREM NoWorkerSleepsOnWork ==
    ASSUME RetTasks = Tasks
    PROVE  Spec => []WorkConserving
  <1>1. AwakeInv => WorkConserving
    BY DEF AwakeInv
  <1> QED  BY <1>1, AwakeInvariant, PTL
=============================================================================
