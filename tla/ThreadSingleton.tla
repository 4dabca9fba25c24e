--------------------------- MODULE ThreadSingleton ---------------------------
(***************************************************************************)
(* THREAD, the process-wide thread pool (include/thread/thread.h): a pointer   *)
(* to the pool and a flag, neither of them locked.  Threads of the program     *)
(* create the pool, get a reference to it and submit a task through it; so do  *)
(* the tasks, on the pool's workers.  Main waits for the pool and, when it     *)
(* leaves, destroys the singleton with it.  The pools themselves are as        *)
(* TaskPool promises: queues from which idle workers take the oldest task.     *)
(***************************************************************************)
EXTENDS Integers, Sequences, FiniteSets

CONSTANTS
    Callers,    \* the threads of the program that use the library
    Main,       \* the one that runs main
    PoolSize,   \* how many workers a pool has
    NoTask      \* what a thread has in hand when it has nothing

\* A caller makes at most one pool.
Pools == 1 .. Cardinality(Callers)
Workers == Pools \X (1 .. PoolSize)
Threads == Callers \cup Workers

ASSUME CallersAssumption ==
    /\ Main \in Callers
    /\ IsFiniteSet(Callers) /\ Cardinality(Callers) <= 2
    /\ PoolSize \in Nat \ {0}
    /\ Callers \cap Workers = {}

VARIABLES
    process,    \* "running", "ending" once the singleton is destroyed, "ended", or how it failed
    flag,       \* M_is_init_threadmnager
    pool,       \* M_threadmanager: a pool, or 0
    made,       \* how many pools have been constructed
    queue,      \* the tasks of each pool, oldest first
    stop,       \* the pools that are to stop
    deleted,    \* the pools that are destroyed
    pc,         \* what each thread is doing
    ref,        \* the pool a thread refers to: the one it made, got or waits for
    old,        \* the pool a caller is about to replace
    arg,        \* the task a thread is submitting or running
    overlapped  \* history: a creation began while another was under way

threadVars == <<pc, ref, old, arg>>
poolVars == <<flag, pool, made, queue, stop, deleted>>
singletonVars == <<process, poolVars, threadVars, overlapped>>

Creating == {"make", "swap", "join", "mark"}

SingletonInit ==
    /\ process = "running" /\ overlapped = FALSE
    /\ flag = FALSE /\ pool = 0 /\ made = 0
    /\ queue = [p \in Pools |-> <<>>] /\ stop = {} /\ deleted = {}
    /\ pc = [t \in Threads |-> "idle"]
    /\ ref = [t \in Threads |-> 0]
    /\ old = [c \in Callers |-> 0]
    /\ arg = [t \in Threads |-> NoTask]

Alive == process \in {"running", "ending"}
At(t, where) == Alive /\ pc[t] = where
Goto(t, where) == pc' = [pc EXCEPT ![t] = where]
Fail(how) == process' = how
Joined(p) == \A i \in 1 .. PoolSize : pc[<<p, i>>] = "exited"

-----------------------------------------------------------------------------
\* createThreadManager, when no pool is marked; else it returns.
CreateTest(c) ==
    /\ At(c, "idle") /\ ~flag
    /\ Goto(c, "make")
    /\ overlapped' = (overlapped \/ \E d \in Callers : pc[d] \in Creating)
    /\ UNCHANGED <<process, poolVars, ref, old, arg>>

\* The pool is constructed; the assignment begins by reading the pointer.
Make(c) ==
    /\ At(c, "make")
    /\ made' = made + 1
    /\ ref' = [ref EXCEPT ![c] = made + 1]
    /\ old' = [old EXCEPT ![c] = pool]
    /\ Goto(c, "swap")
    /\ UNCHANGED <<process, flag, pool, queue, stop, deleted, arg, overlapped>>

\* The pointer is written, and the pool that it replaces is told to stop.
Swap(c) ==
    /\ At(c, "swap")
    /\ pool' = ref[c]
    /\ stop' = stop \cup ({old[c]} \ {0})
    /\ Goto(c, IF old[c] = 0 THEN "mark" ELSE "join")
    /\ UNCHANGED <<process, flag, made, queue, deleted, ref, old, arg, overlapped>>

\* ~ThreadManager of the replaced pool, once its workers have left.
JoinOld(c) ==
    /\ At(c, "join") /\ Joined(old[c])
    /\ deleted' = deleted \cup {old[c]}
    /\ Goto(c, "mark")
    /\ UNCHANGED <<process, flag, pool, made, queue, stop, ref, old, arg, overlapped>>

Mark(c) ==
    /\ At(c, "mark")
    /\ flag' = TRUE
    /\ Goto(c, "idle")
    /\ UNCHANGED <<process, pool, made, queue, stop, deleted, ref, old, arg, overlapped>>

Create(c) == CreateTest(c) \/ Make(c) \/ Swap(c) \/ JoinOld(c) \/ Mark(c)

-----------------------------------------------------------------------------
\* getThreadManager, for a thread that is going to submit a task.
Get(t, task) ==
    /\ flag
    /\ ref' = [ref EXCEPT ![t] = pool]
    /\ arg' = [arg EXCEPT ![t] = task]
    /\ Goto(t, "submit")
    /\ UNCHANGED <<process, poolVars, old, overlapped>>

\* The task is queued in the pool the thread got, if that still exists.
Submit(t) ==
    /\ At(t, "submit")
    /\ IF ref[t] \in deleted
       THEN Fail("useAfterFree") /\ UNCHANGED queue
       ELSE queue' = [queue EXCEPT ![ref[t]] = Append(@, arg[t])] /\ UNCHANGED process
    /\ Goto(t, "idle")
    /\ arg' = [arg EXCEPT ![t] = NoTask]
    /\ UNCHANGED <<flag, pool, made, stop, deleted, ref, old, overlapped>>

\* Mutant: the pool is destroyed when it has been waited for.
Waited_Deletes ==
    /\ At(Main, "wait") /\ Joined(ref[Main])
    /\ deleted' = deleted \cup {ref[Main]}
    /\ Goto(Main, "idle")
    /\ UNCHANGED <<process, flag, pool, made, queue, stop, ref, old, arg, overlapped>>

\* waitThread: the pool stops for good, and stays.
WaitThread ==
    /\ At(Main, "idle") /\ flag
    /\ ref' = [ref EXCEPT ![Main] = pool]
    /\ stop' = stop \cup {pool}
    /\ Goto(Main, "wait")
    /\ UNCHANGED <<process, flag, pool, made, queue, deleted, old, arg, overlapped>>

Waited ==
    /\ At(Main, "wait") /\ Joined(ref[Main])
    /\ IF ref[Main] \in deleted THEN Fail("useAfterFree") ELSE UNCHANGED process
    /\ Goto(Main, "idle")
    /\ UNCHANGED <<poolVars, ref, old, arg, overlapped>>

\* main returns: ~THREAD waits for the pool, if there is one; so does the destructor of
\* its pointer, for the pool that this points to by then.
Return ==
    /\ \/ At(Main, "idle")
       \/ At(Main, "exit") /\ pool \notin stop \cup {0}
    /\ stop' = stop \cup ({pool} \ {0})
    /\ Goto(Main, "exit")
    /\ UNCHANGED <<process, flag, pool, made, queue, deleted, ref, old, arg, overlapped>>

Destroy ==
    /\ At(Main, "exit")
    /\ pool = 0 \/ (pool \in stop /\ Joined(pool))
    /\ deleted' = deleted \cup ({pool} \ {0})
    /\ Fail("ending")
    /\ Goto(Main, "gone")
    /\ UNCHANGED <<flag, pool, made, queue, stop, ref, old, arg, overlapped>>

\* Until now the other threads went on.
End ==
    /\ process = "ending"
    /\ Fail("ended")
    /\ UNCHANGED <<poolVars, threadVars, overlapped>>

-----------------------------------------------------------------------------
\* Mutant: a worker leaves a stopped pool at once.
Leave_Queued(w) ==
    /\ At(w, "idle") /\ w[1] \in stop
    /\ Goto(w, "exited")
    /\ UNCHANGED <<process, poolVars, ref, old, arg, overlapped>>

\* Mutant: the task stays in the queue.
Take_NoPop(w) ==
    /\ At(w, "idle") /\ queue[w[1]] # <<>>
    /\ arg' = [arg EXCEPT ![w] = Head(queue[w[1]])]
    /\ Goto(w, "run")
    /\ UNCHANGED <<process, poolVars, ref, old, overlapped>>

\* A worker takes the oldest task, or leaves a stopped pool that has none.
Take(w) ==
    /\ At(w, "idle") /\ queue[w[1]] # <<>>
    /\ arg' = [arg EXCEPT ![w] = Head(queue[w[1]])]
    /\ queue' = [queue EXCEPT ![w[1]] = Tail(@)]
    /\ Goto(w, "run")
    /\ UNCHANGED <<process, flag, pool, made, stop, deleted, ref, old, overlapped>>

Leave(w) ==
    /\ At(w, "idle") /\ w[1] \in stop /\ queue[w[1]] = <<>>
    /\ Goto(w, "exited")
    /\ UNCHANGED <<process, poolVars, ref, old, arg, overlapped>>

-----------------------------------------------------------------------------
SingletonTypeOK ==
    /\ process \in {"running", "ending", "ended", "terminated", "overrun", "useAfterFree"}
    /\ {flag, overlapped} \subseteq BOOLEAN
    /\ made \in 0 .. Cardinality(Callers) /\ pool \in 0 .. made
    /\ stop \cup deleted \subseteq 1 .. made /\ deleted \subseteq stop
    /\ \A t \in Threads : ref[t] \in 0 .. made
=============================================================================
