---------------------------- MODULE ThreadManager ----------------------------
(***************************************************************************)
(* The thread pool every asynchronous call of the library runs on          *)
(* (include/thread/threadTask.hpp): a deque of tasks, an atomic count of    *)
(* the tasks not yet finished, a stop flag, two mutexes and ONE condition   *)
(* variable on which the workers wait with the first mutex and             *)
(* waitAllthread with the second.  A client submits through asyncTaskvoid   *)
(* or asyncTaskret, and so may a task that is being run.  One client, Main, *)
(* shuts the pool down (waitAllthread, then the destructor).                *)
(*                                                                         *)
(* The grain of atomicity is one access to shared state: a call is the      *)
(* sequence of its lock, push, count and notify steps.  Testing a wait      *)
(* predicate and going to sleep are two steps; releasing the mutex and      *)
(* going to sleep are one, as the condition variable guarantees.            *)
(***************************************************************************)
EXTENDS Naturals, Sequences, FiniteSets

CONSTANTS
    Workers,    \* the pool's threads
    Clients,    \* the threads of the program that submit tasks
    Main,       \* the client that shuts the pool down
    Tasks,      \* the tasks, each submitted at most once
    RetTasks,   \* those submitted through asyncTaskret (the others: asyncTaskvoid)
    NoTask,     \* an empty std::function, and "no task"
    NoThread    \* the owner of a free mutex

ASSUME ThreadsAssumption ==
    /\ Main \in Clients
    /\ Workers \cap Clients = {}
    /\ NoThread \notin Workers \cup Clients
    /\ IsFiniteSet(Workers \cup Clients)
ASSUME TasksAssumption ==
    /\ RetTasks \subseteq Tasks
    /\ NoTask \notin Tasks
    /\ IsFiniteSet(Tasks)

Threads == Workers \cup Clients

VARIABLES
    tasks,      \* M_tasks
    count,      \* M_thread_rurinng_count
    stop,       \* M_stop
    tasksMutex, \* the owner of M_tasksMutex_
    countMutex, \* the owner of M_countMutex_
    pc,         \* where each thread is
    arg,        \* the task a thread is in the middle of submitting
    cur,        \* the task a worker holds
    origin,     \* history: who pushed each task ("late": after every worker left)
    accepted,   \* history: the tasks that were counted in
    retired     \* history: the tasks that were counted out

vars == <<tasks, count, stop, tasksMutex, countMutex, pc, arg, cur,
          origin, accepted, retired>>

history == <<origin, accepted, retired>>

WorkerPC == {"lock", "check", "block", "asleep", "test", "run", "dec",
             "drainCount", "drainEmpty", "exited"}
SubmitPC == {"sPush", "sCount", "sNotify"}
ShutdownPC == {"wNotify", "wLock", "wCount", "wEmpty", "wBlock", "asleep",
               "wTimeout", "wJoin", "dNotify", "dJoin", "destroyed"}

PcTypeOK ==
    /\ pc \in [Threads -> WorkerPC \cup SubmitPC \cup ShutdownPC \cup {"idle"}]
    /\ \A w \in Workers : pc[w] \in WorkerPC \cup SubmitPC
    /\ \A c \in Clients : pc[c] \in SubmitPC \cup ShutdownPC \cup {"idle"}
    /\ \A c \in Clients \ {Main} : pc[c] \notin ShutdownPC

TypeOK ==
    /\ tasks \in Seq(Tasks \cup {NoTask})
    /\ count \in Nat
    /\ stop \in BOOLEAN
    /\ tasksMutex \in Threads \cup {NoThread}
    /\ countMutex \in Threads \cup {NoThread}
    /\ PcTypeOK
    /\ arg \in [Threads -> Tasks \cup {NoTask}]
    /\ cur \in [Workers -> Tasks \cup {NoTask}]
    /\ origin \in [Tasks -> {"none", "client", "worker", "late"}]
    /\ accepted \in SUBSET Tasks
    /\ retired \in SUBSET Tasks

Init ==
    /\ tasks = <<>>
    /\ count = 0
    /\ stop = FALSE
    /\ tasksMutex = NoThread
    /\ countMutex = NoThread
    /\ pc = [th \in Threads |-> IF th \in Workers THEN "lock" ELSE "idle"]
    /\ arg = [th \in Threads |-> NoTask]
    /\ cur = [w \in Workers |-> NoTask]
    /\ origin = [t \in Tasks |-> "none"]
    /\ accepted = {}
    /\ retired = {}

-----------------------------------------------------------------------------
(* The condition variable.                                                 *)

Asleep == {th \in Threads : pc[th] = "asleep"}

\* A woken thread first takes back the mutex it waited with.
Awakened(th) == IF th \in Workers THEN "lock" ELSE "wLock"

Goto(th, label) == pc' = [pc EXCEPT ![th] = label]

NotifyAll(th, label) ==
    pc' = [x \in Threads |-> IF x = th THEN label
                             ELSE IF pc[x] = "asleep" THEN Awakened(x)
                             ELSE pc[x]]

\* Any one sleeper is woken, a worker or the thread in waitAllthread.
NotifyOne(th, label) ==
    \/ Asleep = {} /\ Goto(th, label)
    \/ \E s \in Asleep :
         pc' = [pc EXCEPT ![th] = label, ![s] = Awakened(s)]

SpuriousWake(th) ==
    /\ pc[th] = "asleep"
    /\ Goto(th, Awakened(th))
    /\ UNCHANGED <<tasks, count, stop, tasksMutex, countMutex, arg, cur, history>>

-----------------------------------------------------------------------------
(* Submission: asyncTaskvoid and asyncTaskret.                             *)

\* asyncTaskret pushes under M_tasksMutex_, asyncTaskvoid under M_countMutex_.
Guard(t) == IF t \in RetTasks THEN tasksMutex ELSE countMutex

SetGuard(t, owner) ==
    IF t \in RetTasks
    THEN tasksMutex' = owner /\ UNCHANGED countMutex
    ELSE countMutex' = owner /\ UNCHANGED tasksMutex

AllExited == \A w \in Workers : pc[w] = "exited"

\* Nobody but the pool's own tasks uses a pool that is being destroyed.
MaySubmit(th) ==
    \/ th \in Workers /\ pc[th] = "run"
    \/ th \in Clients /\ pc[th] = "idle" /\ pc[Main] \notin {"dNotify", "dJoin", "destroyed"}

\* Mutant: the push is not guarded by the mutex.
Submit_NoLock(th, t) ==
    /\ MaySubmit(th)
    /\ origin[t] = "none"
    /\ \A x \in Threads : arg[x] # t
    /\ SetGuard(t, th)
    /\ arg' = [arg EXCEPT ![th] = t]
    /\ Goto(th, "sPush")
    /\ UNCHANGED <<tasks, count, stop, cur, history>>

Submit(th, t) ==
    /\ MaySubmit(th)
    /\ origin[t] = "none"
    /\ \A x \in Threads : arg[x] # t
    /\ Guard(t) = NoThread
    /\ SetGuard(t, th)
    /\ arg' = [arg EXCEPT ![th] = t]
    /\ Goto(th, "sPush")
    /\ UNCHANGED <<tasks, count, stop, cur, history>>

\* Two pushes are in progress at once: the deque is written without a common lock.
RacingPush(th) == \E x \in Threads \ {th} : pc[x] = "sPush"

PushResults(th) ==
    {Append(tasks, arg[th])} \cup
    (IF RacingPush(th) THEN {tasks, Append(tasks, NoTask)} ELSE {})

Origin(th) == IF th \in Workers THEN "worker" ELSE IF AllExited THEN "late" ELSE "client"

Push(th) ==
    /\ pc[th] = "sPush"
    /\ tasks' \in PushResults(th)
    /\ origin' = [origin EXCEPT ![arg[th]] = Origin(th)]
    /\ Goto(th, "sCount")
    /\ UNCHANGED <<count, stop, tasksMutex, countMutex, arg, cur, accepted, retired>>

Count(th) ==
    /\ pc[th] = "sCount"
    /\ count' = count + 1
    /\ accepted' = accepted \cup {arg[th]}
    /\ SetGuard(arg[th], NoThread)
    /\ arg' = [arg EXCEPT ![th] = NoTask]
    /\ Goto(th, "sNotify")
    /\ UNCHANGED <<tasks, stop, cur, origin, retired>>

\* Mutant: only the push onto an empty queue notifies.
SubmitNotify_FirstOnly(th) ==
    /\ pc[th] = "sNotify"
    /\ IF Len(tasks) = 1 THEN NotifyOne(th, IF th \in Workers THEN "run" ELSE "idle")
                         ELSE Goto(th, IF th \in Workers THEN "run" ELSE "idle")
    /\ UNCHANGED <<tasks, count, stop, tasksMutex, countMutex, arg, cur, history>>

\* Mutant: no notification.
SubmitNotify_None(th) ==
    /\ pc[th] = "sNotify"
    /\ Goto(th, IF th \in Workers THEN "run" ELSE "idle")
    /\ UNCHANGED <<tasks, count, stop, tasksMutex, countMutex, arg, cur, history>>

SubmitNotify(th) ==
    /\ pc[th] = "sNotify"
    /\ NotifyOne(th, IF th \in Workers THEN "run" ELSE "idle")
    /\ UNCHANGED <<tasks, count, stop, tasksMutex, countMutex, arg, cur, history>>

-----------------------------------------------------------------------------
(* The worker's loop.                                                      *)

\* Mutant: the wait predicate is tested without the mutex.
Lock_Skipped(w) ==
    /\ pc[w] = "lock"
    /\ tasksMutex' = w
    /\ Goto(w, "check")
    /\ UNCHANGED <<tasks, count, stop, countMutex, arg, cur, history>>

Lock(w) ==
    /\ pc[w] = "lock"
    /\ tasksMutex = NoThread
    /\ tasksMutex' = w
    /\ Goto(w, "check")
    /\ UNCHANGED <<tasks, count, stop, countMutex, arg, cur, history>>

\* The predicate of the workers' wait.
Check(w) ==
    /\ pc[w] = "check"
    /\ Goto(w, IF tasks # <<>> \/ stop THEN "test" ELSE "block")
    /\ UNCHANGED <<tasks, count, stop, tasksMutex, countMutex, arg, cur, history>>

Block(w) ==
    /\ pc[w] = "block"
    /\ tasksMutex' = NoThread
    /\ Goto(w, "asleep")
    /\ UNCHANGED <<tasks, count, stop, countMutex, arg, cur, history>>

\* Mutant: a stopped worker leaves without looking at the queue.
Exit_QueueIgnored(w) ==
    /\ pc[w] = "test"
    /\ stop
    /\ tasksMutex' = NoThread
    /\ Goto(w, "exited")
    /\ UNCHANGED <<tasks, count, stop, countMutex, arg, cur, history>>

\* The third branch, an empty queue without stop (continue), has no action: it
\* is unreachable, as TestedIsReady states.
Exit(w) ==
    /\ pc[w] = "test"
    /\ tasks = <<>> /\ stop
    /\ tasksMutex' = NoThread
    /\ Goto(w, "exited")
    /\ UNCHANGED <<tasks, count, stop, countMutex, arg, cur, history>>

\* Mutant: pop_front is forgotten.
Take_NoPop(w) ==
    /\ pc[w] = "test"
    /\ tasks # <<>>
    /\ cur' = [cur EXCEPT ![w] = Head(tasks)]
    /\ tasksMutex' = NoThread
    /\ Goto(w, IF Head(tasks) = NoTask THEN "lock" ELSE "run")
    /\ UNCHANGED <<tasks, count, stop, countMutex, arg, history>>

\* Mutant: back and pop_back.
Take_Newest(w) ==
    /\ pc[w] = "test"
    /\ tasks # <<>>
    /\ cur' = [cur EXCEPT ![w] = tasks[Len(tasks)]]
    /\ tasks' = SubSeq(tasks, 1, Len(tasks) - 1)
    /\ tasksMutex' = NoThread
    /\ Goto(w, IF tasks[Len(tasks)] = NoTask THEN "lock" ELSE "run")
    /\ UNCHANGED <<count, stop, countMutex, arg, history>>

\* An empty function is dropped: neither run nor counted out.
Take(w) ==
    /\ pc[w] = "test"
    /\ tasks # <<>>
    /\ cur' = [cur EXCEPT ![w] = Head(tasks)]
    /\ tasks' = Tail(tasks)
    /\ tasksMutex' = NoThread
    /\ Goto(w, IF Head(tasks) = NoTask THEN "lock" ELSE "run")
    /\ UNCHANGED <<count, stop, countMutex, arg, history>>

\* Mutant: the counter is decremented without the mutex.
FinishTask_NoLock(w) ==
    /\ pc[w] = "run"
    /\ Goto(w, "dec")
    /\ UNCHANGED <<tasks, count, stop, tasksMutex, countMutex, arg, cur, history>>

\* The task returns; its worker takes M_countMutex_.
FinishTask(w) ==
    /\ pc[w] = "run"
    /\ countMutex = NoThread
    /\ countMutex' = w
    /\ Goto(w, "dec")
    /\ UNCHANGED <<tasks, count, stop, tasksMutex, arg, cur, history>>

Decrement(w) ==
    /\ pc[w] = "dec"
    /\ count' = IF count > 0 THEN count - 1 ELSE count
    /\ retired' = retired \cup {cur[w]}
    /\ cur' = [cur EXCEPT ![w] = NoTask]
    /\ Goto(w, "drainCount")
    /\ UNCHANGED <<tasks, stop, tasksMutex, countMutex, arg, origin, accepted>>

\* Is this the last task?  First the counter is read, then the queue.
DrainCount(w) ==
    /\ pc[w] = "drainCount"
    /\ IF count = 0
       THEN Goto(w, "drainEmpty") /\ UNCHANGED countMutex
       ELSE Goto(w, "lock") /\ countMutex' = NoThread
    /\ UNCHANGED <<tasks, count, stop, tasksMutex, arg, cur, history>>

\* Mutant: notify_one, which may wake a worker instead of waitAllthread.
DrainEmpty_One(w) ==
    /\ pc[w] = "drainEmpty"
    /\ IF tasks = <<>> THEN NotifyOne(w, "lock") ELSE Goto(w, "lock")
    /\ countMutex' = NoThread
    /\ UNCHANGED <<tasks, count, stop, tasksMutex, arg, cur, history>>

DrainEmpty(w) ==
    /\ pc[w] = "drainEmpty"
    /\ IF tasks = <<>> THEN NotifyAll(w, "lock") ELSE Goto(w, "lock")
    /\ countMutex' = NoThread
    /\ UNCHANGED <<tasks, count, stop, tasksMutex, arg, cur, history>>

-----------------------------------------------------------------------------
(* Shutdown: waitAllthread and the destructor, both by Main.               *)

StopForWait ==
    /\ pc[Main] = "idle"
    /\ stop' = TRUE
    /\ Goto(Main, "wNotify")
    /\ UNCHANGED <<tasks, count, tasksMutex, countMutex, arg, cur, history>>

\* The destructor runs when no client is inside the pool any more.
StopForDestroy ==
    /\ \A c \in Clients : pc[c] = "idle"
    /\ stop' = TRUE
    /\ Goto(Main, "dNotify")
    /\ UNCHANGED <<tasks, count, tasksMutex, countMutex, arg, cur, history>>

\* Mutant: notify_one, which leaves the other sleepers asleep.
NotifyStop_One ==
    /\ \/ pc[Main] = "wNotify" /\ NotifyOne(Main, "wLock")
       \/ pc[Main] = "dNotify" /\ NotifyOne(Main, "dJoin")
    /\ UNCHANGED <<tasks, count, stop, tasksMutex, countMutex, arg, cur, history>>

NotifyStop ==
    /\ \/ pc[Main] = "wNotify" /\ NotifyAll(Main, "wLock")
       \/ pc[Main] = "dNotify" /\ NotifyAll(Main, "dJoin")
    /\ UNCHANGED <<tasks, count, stop, tasksMutex, countMutex, arg, cur, history>>

WaitLock ==
    /\ pc[Main] = "wLock"
    /\ countMutex = NoThread
    /\ countMutex' = Main
    /\ Goto(Main, "wCount")
    /\ UNCHANGED <<tasks, count, stop, tasksMutex, arg, cur, history>>

\* Mutant: the predicate looks at the queue only.
WaitCount_Ignored ==
    /\ pc[Main] = "wCount"
    /\ Goto(Main, "wEmpty")
    /\ UNCHANGED <<tasks, count, stop, tasksMutex, countMutex, arg, cur, history>>

\* The predicate of waitAllthread: the counter is read, then the queue.
WaitCount ==
    /\ pc[Main] = "wCount"
    /\ Goto(Main, IF count = 0 THEN "wEmpty" ELSE "wBlock")
    /\ UNCHANGED <<tasks, count, stop, tasksMutex, countMutex, arg, cur, history>>

WaitEmpty ==
    /\ pc[Main] = "wEmpty"
    /\ IF tasks = <<>>
       THEN Goto(Main, "wJoin") /\ countMutex' = NoThread
       ELSE Goto(Main, "wBlock") /\ UNCHANGED countMutex
    /\ UNCHANGED <<tasks, count, stop, tasksMutex, arg, cur, history>>

WaitBlock ==
    /\ pc[Main] = "wBlock"
    /\ countMutex' = NoThread
    /\ Goto(Main, "asleep")
    /\ UNCHANGED <<tasks, count, stop, tasksMutex, arg, cur, history>>

\* The five seconds are over.
Timeout ==
    /\ pc[Main] = "asleep"
    /\ Goto(Main, "wTimeout")
    /\ UNCHANGED <<tasks, count, stop, tasksMutex, countMutex, arg, cur, history>>

\* The mutex is taken back and released; the predicate only decides a warning.
TimedOut ==
    /\ pc[Main] = "wTimeout"
    /\ countMutex = NoThread
    /\ Goto(Main, "wJoin")
    /\ UNCHANGED <<tasks, count, stop, tasksMutex, countMutex, arg, cur, history>>

Join ==
    /\ AllExited
    /\ \/ pc[Main] = "wJoin" /\ Goto(Main, "idle")
       \/ pc[Main] = "dJoin" /\ Goto(Main, "destroyed")
    /\ UNCHANGED <<tasks, count, stop, tasksMutex, countMutex, arg, cur, history>>

-----------------------------------------------------------------------------
Submission(th) == Push(th) \/ Count(th) \/ SubmitNotify(th)

Work(w) ==
    Lock(w) \/ Check(w) \/ Block(w) \/ Exit(w) \/ Take(w)
    \/ FinishTask(w) \/ Decrement(w) \/ DrainCount(w) \/ DrainEmpty(w)

Shutdown ==
    NotifyStop \/ WaitLock \/ WaitCount \/ WaitEmpty \/ WaitBlock
    \/ Timeout \/ TimedOut \/ Join

Next ==
    \/ \E th \in Threads : \/ \E t \in Tasks : Submit(th, t)
                           \/ Submission(th)
                           \/ SpuriousWake(th)
    \/ \E w \in Workers : Work(w)
    \/ StopForWait \/ StopForDestroy
    \/ Shutdown

Spec == Init /\ [][Next]_vars

(***************************************************************************)
(* Every thread is scheduled, every task returns, the five seconds (counted *)
(* from the call, whatever wakes the thread in between) pass, and a mutex   *)
(* that is free again and again is granted to every thread that asks for it.*)
(* Nothing makes a client submit or shut the pool down, and nothing makes a *)
(* wait wake up spuriously.                                                *)
(***************************************************************************)
Fairness ==
    /\ \A th \in Threads : WF_vars(Submission(th))
    /\ \A w \in Workers : /\ WF_vars(Work(w))
                          /\ SF_vars(Lock(w))
                          /\ SF_vars(FinishTask(w))
    /\ WF_vars(Shutdown)
    /\ SF_vars(WaitLock)
    /\ SF_vars(Timeout)
    /\ SF_vars(TimedOut)

FairSpec == Spec /\ Fairness

-----------------------------------------------------------------------------
(* Safety.                                                                 *)

Queued == {tasks[i] : i \in DOMAIN tasks}
Held == {cur[w] : w \in Workers}

\* A worker that got past its wait finds a task or the stop flag (lines 94-104):
\* the continue of line 103 is never taken.
TestedIsReady == \A w \in Workers : pc[w] = "test" => tasks # <<>> \/ stop

\* The counter that waitAllthread tests is exactly the number of tasks whose
\* submission was counted and which no worker has finished, although tasks are
\* pushed and taken under different mutexes (lines 113-116, 149-154, 181-186).
CountIsOutstanding == count = Cardinality(accepted \ retired)

\* No pushed task disappears: it is queued, held by a worker or finished.
NoTaskLost ==
    \A t \in Tasks : origin[t] # "none" => t \in Queued \cup Held \cup retired

\* No task is run twice: it is at one place of the queue or in one worker's
\* hands, and nowhere once it is finished.
RunOnce ==
    /\ \A i, j \in DOMAIN tasks : tasks[i] = tasks[j] /\ tasks[i] # NoTask => i = j
    /\ \A w, x \in Workers : cur[w] = cur[x] /\ cur[w] # NoTask => w = x
    /\ Queued \cap Held \subseteq {NoTask}
    /\ (Queued \cup Held) \cap retired = {}

\* When the last worker has left, what is still queued was pushed after that: a
\* task submitted before, and any task submitted by a task, has been run (98-107).
AbandonedOnlyIfLate ==
    AllExited => \A t \in Queued : t # NoTask => origin[t] = "late"

\* When waitAllthread sees its predicate hold, no worker is running a task and
\* every counted task is finished (197-200).
QuietWhenDrained ==
    pc[Main] = "wEmpty" /\ tasks = <<>> =>
        /\ \A w \in Workers : cur[w] = NoTask
        /\ accepted \subseteq retired

\* waitAllthread never sleeps through the end of the work: while it sleeps and the
\* pool is drained, the worker that finished last is on its way to wake it (117-119).
NoMissedDrain ==
    pc[Main] = "asleep" /\ count = 0 /\ tasks = <<>> =>
        \E w \in Workers : pc[w] \in {"drainCount", "drainEmpty"}

\* No worker sleeps while there is work for it: as long as one sleeps, the others
\* that are not running a task, and the notifications under way, are enough for
\* the queue (92-96, 155, 187).  It holds when every task is submitted through
\* asyncTaskret, whose push excludes a worker between its test and its sleep.
OnTheWay == {w \in Workers : pc[w] \in {"lock", "check", "test", "dec", "drainCount", "drainEmpty"}}
Notifying == {th \in Threads : pc[th] \in {"sCount", "sNotify"}}

WorkConserving ==
    ~stop /\ (\E w \in Workers : pc[w] = "asleep") =>
        Len(tasks) <= Cardinality(OnTheWay) + Cardinality(Notifying)

-----------------------------------------------------------------------------
(* The inductive invariant behind the safety properties.                   *)

\* Who is between a lock and its unlock owns the mutex of that section.
OwnsItsLocks(th) ==
    /\ th \in Workers /\ pc[th] \in {"check", "block", "test"} => tasksMutex = th
    /\ th \in Workers /\ pc[th] \in {"dec", "drainCount", "drainEmpty"} => countMutex = th
    /\ pc[th] \in {"wCount", "wEmpty", "wBlock"} => countMutex = th
    /\ IF pc[th] \in {"sPush", "sCount"}
       THEN arg[th] # NoTask /\ Guard(arg[th]) = th
       ELSE arg[th] = NoTask

LocksHeld == \A th \in Threads : OwnsItsLocks(th)

\* A pushed task is counted, or its submitter is about to count it.
PushedIsCounted ==
    /\ \A th \in Threads : pc[th] = "sPush" => origin[arg[th]] = "none"
    /\ \A th \in Threads : pc[th] = "sCount" => /\ origin[arg[th]] # "none"
                                                /\ arg[th] \notin accepted
    /\ \A t \in accepted : origin[t] # "none"
    /\ \A t \in Tasks : origin[t] # "none" =>
         t \in accepted \/ \E th \in Threads : pc[th] = "sCount" /\ arg[th] = t

\* A worker holds a task from taking it to counting it out; one submitted through
\* asyncTaskret was counted before it could be taken.
HeldByWorkers ==
    \A w \in Workers :
        /\ cur[w] # NoTask <=> pc[w] \in {"run", "dec"} \cup SubmitPC
        /\ cur[w] # NoTask => origin[cur[w]] # "none"
        /\ cur[w] \in RetTasks => cur[w] \in accepted

QueueWasPushed == \A i \in DOMAIN tasks : tasks[i] # NoTask => origin[tasks[i]] # "none"

IInv ==
    /\ TypeOK
    /\ LocksHeld
    /\ PushedIsCounted
    /\ HeldByWorkers
    /\ QueueWasPushed
    /\ RunOnce
    /\ retired \subseteq accepted
    /\ CountIsOutstanding
    /\ TestedIsReady
    /\ AbandonedOnlyIfLate

-----------------------------------------------------------------------------
(* The abstract pool.  Its tasks are the ones it is asked to run.           *)

Pool == INSTANCE TaskPool WITH pending <- tasks, running <- cur, done <- retired

\* Lock steps, wakeups, counting and shutdown are invisible: the pool queues,
\* starts in order and finishes as TaskPool says.
ImplementsTaskPool == Pool!Spec

-----------------------------------------------------------------------------
(* Liveness.                                                               *)

\* A task submitted by a task is finished, even when the pool is being shut down:
\* its submitter is a worker that has yet to come back to the queue (90-107).
NestedComplete == \A t \in Tasks : origin[t] = "worker" ~> t \in retired

\* A task that a client submitted to a running pool is finished.
AcceptedComplete == \A t \in Tasks : t \in accepted ~> t \in retired \/ stop

\* waitAllthread returns and the destructor ends, at the latest some steps after the five
\* seconds of line 195, but for one thing: a worker that has tested the stop flag and is
\* not yet asleep when the flag is set.  If there is none when the notification is due,
\* the shutdown ends, and nested tasks with it.
ShutdownCompletesUnraced ==
    pc[Main] \in {"wNotify", "dNotify"} /\ (\A w \in Workers : pc[w] # "block")
        ~> pc[Main] \in {"idle", "destroyed"}
=============================================================================
