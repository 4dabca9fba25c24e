-------------------------- MODULE ClientToolProofs --------------------------
(***************************************************************************)
(* ClientTool for pools of any size and any requests: no request is answered   *)
(* twice, what a running pool accepted is answered before the process ends,     *)
(* the pool lives as long as its users, and only what callers hand in ends the   *)
(* process by an exception.                                               *)
(***************************************************************************)
EXTENDS ParsingProofs

CallerStates == Creating \cup {"idle", "submit", "wait", "exit", "gone"}
WorkerStates == {"idle", "run", "submit", "exited"}

\* The callers that are creating a pool; of them, those that have not constructed it yet.
Creators == {c \in Callers : pc[c] \in Creating}
Makers == {c \in Callers : pc[c] = "make"}

LifeTypes ==
    /\ process \in {"running", "ending", "ended", "terminated", "overrun", "useAfterFree"}
    /\ flag \in BOOLEAN /\ overlapped \in BOOLEAN
    /\ made \in Nat /\ pool \in 0 .. made
    /\ stop \subseteq 1 .. made /\ deleted \subseteq stop
    /\ pc \in [Threads -> CallerStates \cup WorkerStates]
    /\ \A c \in Callers : pc[c] \in CallerStates
    /\ \A w \in Workers : pc[w] \in WorkerStates
    /\ ref \in [Threads -> 0 .. made]
    /\ old \in [Callers -> 0 .. made]

\* Every caller makes one pool at most: the flag, once set, stays.
OneEach ==
    /\ made + Cardinality(Makers) <= Cardinality(Callers)
    /\ ~flag => made + Cardinality(Makers) = Cardinality(Creators)

\* Whoever got a pool, made one or is destroying one refers to it.
Pointers ==
    /\ flag => pool # 0
    /\ \A t \in Threads : pc[t] \in {"swap", "submit"} => ref[t] # 0
    /\ \A t \in Threads : pc[t] = "submit" => flag
    /\ \A c \in Callers : pc[c] = "join" => old[c] \in stop
    /\ \A c \in Callers : pc[c] \in {"join", "mark"} => pool # 0

\* Without overlap there is one pool, and none is replaced.
OnePool ==
    ~overlapped =>
        /\ made <= 1
        /\ \A c, d \in Callers : pc[c] \in Creating /\ pc[d] \in Creating => c = d
        /\ \A c \in Callers : pc[c] = "make" => made = 0
        /\ \A c \in Callers : pc[c] = "swap" => old[c] = 0
        /\ \A c \in Callers : pc[c] # "join"
        /\ ~flag /\ made > 0 => Creators # {}
        /\ pc[Main] # "gone" => deleted = {}

\* How the process ends.
Endings ==
    /\ \A w \in Workers : pc[w] = "exited" => w[1] \in stop
    /\ process \in {"ending", "ended"} => pc[Main] = "gone"
    /\ PoolOutlivesUse

\* The life of the pools.
LifeInv == LifeTypes /\ OneEach /\ Pointers /\ OnePool /\ Endings

-----------------------------------------------------------------------------
Requests == UNION {Menu[c] : c \in Callers}
Tasks ==
    [by : Callers, request : Requests]
    \cup [by : Callers, answer : UNION {Answers(r) : r \in Requests}]

Has(q, c) == \E i \in DOMAIN q : q[i].by = c
Distinct(q) == \A i, j \in DOMAIN q : q[i].by = q[j].by => i = j
Holds(t, c) == pc[t] \in {"submit", "run"} /\ arg[t].by = c

TaskTypes ==
    /\ queue \in [Pools -> Seq(Tasks)]
    /\ arg \in [Threads -> Tasks \cup {NoTask}]
    /\ \A t \in Threads : pc[t] \in {"submit", "run"} => arg[t] \in Tasks
    /\ \A c \in Callers : pc[c] = "submit" => arg[c].by = c
    /\ asked \in [Callers -> {<<>>} \cup {<<r>> : r \in Requests}]
    /\ answers \in [Callers -> Seq(UNION {Answers(r) : r \in Requests})]
    /\ early \subseteq Callers

\* A request, or its answer, is in one place: in a thread's hands, in a queue or answered.
OnePlace ==
    \A c \in Callers :
        /\ \A t, u \in Threads : Holds(t, c) /\ Holds(u, c) => t = u
        /\ \A t \in Threads, p \in Pools : ~(Holds(t, c) /\ Has(queue[p], c))
        /\ \A p, q \in Pools : Has(queue[p], c) /\ Has(queue[q], c) => p = q
        /\ asked[c] = <<>> \/ answers[c] # <<>> =>
            /\ \A t \in Threads : ~Holds(t, c)
            /\ \A p \in Pools : ~Has(queue[p], c)
        /\ asked[c] = <<>> => answers[c] = <<>> /\ c \notin early
        /\ Len(answers[c]) <= 1

NoDoubles == \A p \in Pools : Distinct(queue[p])

\* A request on its way is the one its caller made, an answer is one to that request.
Made(task) ==
    /\ "request" \in DOMAIN task => asked[task.by] = <<task.request>>
    /\ "answer" \in DOMAIN task => task.answer \in Answers(asked[task.by][1])
OwnRequests ==
    /\ \A t \in Threads : pc[t] \in {"submit", "run"} => Made(arg[t])
    /\ \A p \in Pools : \A i \in DOMAIN queue[p] : Made(queue[p][i])

\* So is what a callback was called with.
OwnAnswers == \A c \in Callers : \A i \in DOMAIN answers[c] : answers[c][i] \in Answers(asked[c][1])

TaskInv == TaskTypes /\ OnePlace /\ NoDoubles /\ OwnRequests /\ OwnAnswers

-----------------------------------------------------------------------------
\* What the only pool has accepted is in its queue, with a worker left, or in the hands of
\* one of its workers.
InPool(c) ==
    \/ Has(queue[1], c) /\ \E i \in 1 .. PoolSize : pc[<<1, i>>] # "exited"
    \/ \E i \in 1 .. PoolSize : Holds(<<1, i>>, c)

EarlyInv ==
    ~overlapped /\ process # "useAfterFree" =>
        \A c \in early :
            /\ flag
            /\ answers[c] # <<>> \/ InPool(c)
            /\ pc[Main] = "gone" => answers[c] # <<>>

\* An exception comes from a request that some caller made: from its task, from its callback
\* when that is called, or from the test of the flag.
CrashInv ==
    process \in {"terminated", "overrun"} =>
        \E c \in Callers, r \in Requests :
            /\ asked[c] = <<r>>
            /\ \/ \E answer \in Answers(r) : answer.end # "returns"
               \/ process = "terminated" /\ r.callback = "plain" /\ answers[c] # <<>>
               \/ process = "terminated" /\ r.callback = "noexcept" /\ ~flag

-----------------------------------------------------------------------------
(* The life of the pools.                                                  *)

LEMMA Constants ==
    /\ Main \in Callers /\ IsFiniteSet(Callers) /\ PoolSize \in Nat \ {0}
    /\ Callers \cap Workers = {}
    /\ \A c \in Callers : c \in Threads
    /\ \A w \in Workers : w \in Threads
    /\ Cardinality(Callers) \in Nat
  BY CallersAssumption, FS_CardinalityType DEF Threads

\* No pool, and every thread idle.
LEMMA InitLife == Init => LifeInv
  <1> SUFFICES ASSUME Init PROVE LifeInv
    OBVIOUS
  <1>1. /\ process = "running" /\ overlapped = FALSE /\ flag = FALSE /\ pool = 0 /\ made = 0
        /\ stop = {} /\ deleted = {}
        /\ pc = [t \in Threads |-> "idle"] /\ ref = [t \in Threads |-> 0] /\ old = [c \in Callers |-> 0]
    BY DEF Init, SingletonInit
  <1>2. \A t \in Threads : pc[t] = "idle"
    BY <1>1
  <1>3. Creators = {} /\ Makers = {}
    BY <1>2, Constants DEF Creators, Makers, Creating
  <1>4. LifeTypes
    <2>1. pc \in [Threads -> CallerStates \cup WorkerStates]
      BY <1>1 DEF CallerStates, WorkerStates
    <2>2. ref \in [Threads -> 0 .. made] /\ old \in [Callers -> 0 .. made]
      BY <1>1
    <2>3. \A c \in Callers : pc[c] \in CallerStates
      BY <1>2, Constants DEF CallerStates
    <2>4. \A w \in Workers : pc[w] \in WorkerStates
      BY <1>2, Constants DEF WorkerStates
    <2>5. made \in Nat /\ pool \in 0 .. made /\ stop \subseteq 1 .. made /\ deleted \subseteq stop
      BY <1>1
    <2>6. flag \in BOOLEAN /\ overlapped \in BOOLEAN
      BY <1>1
    <2> QED  BY <1>1, <2>1, <2>2, <2>3, <2>4, <2>5, <2>6, Zenon DEF LifeTypes
  <1>5. OneEach
    BY <1>1, <1>3, Constants, FS_EmptySet DEF OneEach
  <1>6. Pointers
    BY <1>1, <1>2, Constants DEF Pointers
  <1>7. OnePool
    BY <1>1, <1>2, Constants DEF OnePool, Creating
  <1>8. Endings
    BY <1>1, <1>2, Constants DEF Endings, PoolOutlivesUse
  <1> QED  BY <1>4, <1>5, <1>6, <1>7, <1>8 DEF LifeInv

\* What a thread that goes to another place leaves alone.
LEMMA Going ==
    ASSUME LifeTypes, NEW t \in Threads, NEW where \in CallerStates \cup WorkerStates, Goto(t, where),
           t \in Callers => where \in CallerStates,
           t \in Workers => where \in WorkerStates
    PROVE  /\ pc' \in [Threads -> CallerStates \cup WorkerStates]
           /\ \A c \in Callers : pc'[c] \in CallerStates
           /\ \A w \in Workers : pc'[w] \in WorkerStates
           /\ pc'[t] = where
           /\ \A u \in Threads : u # t => pc'[u] = pc[u]
  BY Constants DEF LifeTypes, Goto

\* The callers that create a pool are the same after steps of other kinds.
LEMMA SameCreators ==
    ASSUME LifeTypes, OneEach, NEW t \in Threads, \A u \in Threads : u # t => pc'[u] = pc[u],
           pc[t] \notin Creating, pc'[t] \notin Creating, UNCHANGED <<made, flag>>
    PROVE  Creators' = Creators /\ Makers' = Makers /\ OneEach'
  <1>1. \A c \in Callers : (pc'[c] \in Creating <=> pc[c] \in Creating) /\ (pc'[c] = "make" <=> pc[c] = "make")
    BY Constants DEF Creating
  <1>2. Creators' = Creators /\ Makers' = Makers
    BY <1>1 DEF Creators, Makers
  <1> QED  BY <1>2 DEF OneEach

\* A thread that is not creating a pool goes on: it gets a pool, submits or runs a task,
\* waits for the pool or leaves it.
LEMMA Moves ==
    ASSUME LifeInv, NEW t \in Threads, NEW where \in CallerStates \cup WorkerStates, Goto(t, where),
           t \in Callers => where \in CallerStates,
           t \in Workers => where \in WorkerStates,
           pc[t] \notin Creating, where \notin Creating, pc[t] # "gone", where # "gone",
           UNCHANGED <<flag, pool, made, deleted, old, overlapped>>,
           UNCHANGED ref \/ ref' = [ref EXCEPT ![t] = pool],
           stop \subseteq stop', stop' \subseteq 1 .. made,
           where = "submit" => flag /\ ref' = [ref EXCEPT ![t] = pool],
           where = "exited" => t[1] \in stop,
           process' = process \/ process' = "terminated" \/ (process' = "useAfterFree" /\ deleted # {})
    PROVE  LifeInv'
  <1>1. LifeTypes /\ OneEach /\ Pointers /\ OnePool /\ Endings
    BY DEF LifeInv
  <1>2. /\ pc' \in [Threads -> CallerStates \cup WorkerStates]
        /\ \A c \in Callers : pc'[c] \in CallerStates
        /\ \A w \in Workers : pc'[w] \in WorkerStates
        /\ pc'[t] = where
        /\ \A u \in Threads : u # t => pc'[u] = pc[u]
    BY <1>1, Going
  <1>3. Creators' = Creators /\ Makers' = Makers /\ OneEach'
    BY <1>1, <1>2, SameCreators
  <1>4. ref' \in [Threads -> 0 .. made] /\ (\A u \in Threads : u # t => ref'[u] = ref[u]) /\ (where = "submit" => ref'[t] = pool)
    BY <1>1 DEF LifeTypes
  <1>5. \A c \in Callers : pc'[c] \in Creating => pc'[c] = pc[c]
    BY <1>2, Constants DEF Creating
  <1>6. \A u \in Threads : pc'[u] \in Creating => pc'[u] = pc[u] /\ u # t
    BY <1>2 DEF Creating
  <1>7. pc'[Main] = "gone" <=> pc[Main] = "gone"
    BY <1>2, Constants
  <1>8. LifeTypes'
    BY <1>1, <1>2, <1>4 DEF LifeTypes
  <1>9. Pointers'
    <2>1. ASSUME NEW u \in Threads, pc'[u] \in {"swap", "submit"} PROVE ref'[u] # 0
      <3>1. CASE u = t
        BY <1>1, <1>2, <1>4, <2>1, <3>1 DEF Pointers, Creating
      <3>2. CASE u # t
        BY <1>1, <1>2, <1>4, <2>1, <3>2 DEF Pointers
      <3> QED  BY <3>1, <3>2
    <2>2. \A c \in Callers : pc'[c] = "join" => old'[c] \in stop'
      BY <1>1, <1>5 DEF Pointers, Creating
    <2>3. \A c \in Callers : pc'[c] \in {"join", "mark"} => pool' # 0
      BY <1>1, <1>5 DEF Pointers, Creating
    <2>4. \A u \in Threads : pc'[u] = "submit" => flag'
      BY <1>1, <1>2 DEF Pointers
    <2> QED  BY <1>1, <2>1, <2>2, <2>3, <2>4 DEF Pointers
  <1>10. OnePool'
    BY <1>1, <1>3, <1>5, <1>7 DEF OnePool, Creating
  <1>11. Endings'
    <2>1. \A w \in Workers : pc'[w] = "exited" => w[1] \in stop'
      BY <1>1, <1>2, Constants DEF Endings
    <2>2. deleted # {} => overlapped \/ pc[Main] = "gone"
      BY <1>1 DEF OnePool
    <2> QED  BY <1>1, <1>7, <2>1, <2>2 DEF Endings, PoolOutlivesUse
  <1> QED  BY <1>3, <1>8, <1>9, <1>10, <1>11 DEF LifeInv

\* The process ends, or fails because of an exception.
LEMMA ProcessEnds ==
    ASSUME LifeInv, UNCHANGED <<poolVars, pc, ref, old, overlapped>>,
           process' = process \/ process' \in {"terminated", "overrun"} \/ (process = "ending" /\ process' = "ended")
    PROVE  LifeInv'
  <1>1. UNCHANGED <<flag, pool, made, queue, stop, deleted, pc, ref, old, overlapped>>
    BY DEF poolVars
  <1>2. LifeTypes'
    BY <1>1 DEF LifeInv, LifeTypes
  <1>3. OneEach' /\ Pointers' /\ OnePool'
    BY <1>1 DEF LifeInv, OneEach, Pointers, OnePool, Creators, Makers
  <1>4. Endings'
    BY <1>1 DEF LifeInv, Endings, PoolOutlivesUse
  <1> QED  BY <1>2, <1>3, <1>4 DEF LifeInv

-----------------------------------------------------------------------------
(* The creation of a pool.                                                 *)

\* A caller that is creating a pool goes on.
LEMMA CreatingGoes ==
    ASSUME LifeTypes, NEW c \in Callers, NEW where \in CallerStates, Goto(c, where)
    PROVE  /\ pc' \in [Threads -> CallerStates \cup WorkerStates]
           /\ \A d \in Callers : pc'[d] \in CallerStates
           /\ \A w \in Workers : pc'[w] \in WorkerStates /\ pc'[w] = pc[w]
           /\ pc'[c] = where
           /\ \A u \in Threads : u # c => pc'[u] = pc[u]
  <1>1. c \in Threads /\ c \notin Workers
    BY Constants
  <1> QED  BY <1>1, Constants DEF LifeTypes, Goto

\* The callers that create are finitely many.
LEMMA CountTypes ==
    /\ IsFiniteSet(Creators) /\ IsFiniteSet(Makers)
    /\ Cardinality(Creators) \in Nat /\ Cardinality(Makers) \in Nat
    /\ Cardinality(Creators) <= Cardinality(Callers)
  <1>1. Creators \in SUBSET Callers /\ Makers \in SUBSET Callers
    BY DEF Creators, Makers
  <1> QED  BY <1>1, Constants, FS_Subset, FS_CardinalityType

\* The flag is not set yet: another creation begins, or the first.
LEMMA CreateTestLife == ASSUME LifeInv, NEW c \in Callers, CreateTest(c) PROVE LifeInv'
  <1>1. LifeTypes /\ OneEach /\ Pointers /\ OnePool /\ Endings
    BY DEF LifeInv
  <1>2. /\ ~flag /\ pc[c] = "idle" /\ Goto(c, "make")
        /\ UNCHANGED <<process, flag, pool, made, queue, stop, deleted, ref, old>>
        /\ overlapped' = (overlapped \/ \E d \in Callers : pc[d] \in Creating)
    BY DEF CreateTest, At, poolVars
  <1>3. "make" \in CallerStates
    BY DEF CallerStates, Creating
  <1>4. /\ pc' \in [Threads -> CallerStates \cup WorkerStates]
        /\ \A d \in Callers : pc'[d] \in CallerStates
        /\ \A w \in Workers : pc'[w] \in WorkerStates /\ pc'[w] = pc[w]
        /\ pc'[c] = "make"
        /\ \A u \in Threads : u # c => pc'[u] = pc[u]
    BY <1>1, <1>2, <1>3, CreatingGoes
  <1>5. \A d \in Callers : d # c => pc'[d] = pc[d]
    BY <1>4, Constants
  <1>6. overlapped' \in BOOLEAN
    BY <1>1, <1>2 DEF LifeTypes
  <1>7. LifeTypes'
    BY <1>1, <1>2, <1>4, <1>6 DEF LifeTypes
  <1>8. OneEach'
    <2>1. c \notin Creators /\ c \notin Makers
      BY <1>2 DEF Creators, Makers, Creating
    <2>2. Creators' = Creators \cup {c} /\ Makers' = Makers \cup {c}
      BY <1>4, <1>5 DEF Creators, Makers, Creating
    <2>3. Cardinality(Creators') = Cardinality(Creators) + 1 /\ Cardinality(Makers') = Cardinality(Makers) + 1
      BY <2>1, <2>2, CountTypes, FS_AddElement
    <2>4. Cardinality(Creators') <= Cardinality(Callers)
      <3>1. Creators' \in SUBSET Callers
        BY DEF Creators
      <3> QED  BY <3>1, Constants, FS_Subset
    <2>5. made \in Nat /\ made + Cardinality(Makers) = Cardinality(Creators)
      BY <1>1, <1>2 DEF OneEach, LifeTypes
    <2>6. made + Cardinality(Makers') = Cardinality(Creators')
      BY <2>3, <2>5, CountTypes
    <2> QED  BY <1>2, <2>4, <2>6 DEF OneEach
  <1>9. Pointers'
    BY <1>1, <1>2, <1>4, <1>5 DEF Pointers
  <1>10. OnePool'
    <2> SUFFICES ASSUME ~overlapped'
                 PROVE  /\ made' <= 1
                        /\ \A a, d \in Callers : pc'[a] \in Creating /\ pc'[d] \in Creating => a = d
                        /\ \A d \in Callers : pc'[d] = "make" => made' = 0
                        /\ \A d \in Callers : pc'[d] = "swap" => old'[d] = 0
                        /\ \A d \in Callers : pc'[d] # "join"
                        /\ ~flag' /\ made' > 0 => Creators' # {}
                        /\ pc'[Main] # "gone" => deleted' = {}
      BY DEF OnePool
    <2>1. ~overlapped /\ \A d \in Callers : pc[d] \notin Creating
      BY <1>2
    <2>2. made = 0
      BY <1>1, <1>2, <2>1 DEF OnePool, Creators, LifeTypes
    <2>3. \A d \in Callers : pc'[d] \in Creating => d = c
      BY <1>5, <2>1
    <2>4. pc'[Main] # "gone" => pc[Main] # "gone"
      BY <1>2, <1>4, Constants
    <2> QED  BY <1>1, <1>2, <1>4, <2>1, <2>2, <2>3, <2>4 DEF OnePool, Creating
  <1>11. Endings'
    BY <1>1, <1>2, <1>4, <1>5, Constants DEF Endings, PoolOutlivesUse, At
  <1> QED  BY <1>7, <1>8, <1>9, <1>10, <1>11 DEF LifeInv

\* A caller constructs its pool.
LEMMA MakeLife == ASSUME LifeInv, NEW c \in Callers, Make(c) PROVE LifeInv'
  <1>1. LifeTypes /\ OneEach /\ Pointers /\ OnePool /\ Endings
    BY DEF LifeInv
  <1>2. /\ pc[c] = "make" /\ Goto(c, "swap") /\ made' = made + 1
        /\ ref' = [ref EXCEPT ![c] = made + 1] /\ old' = [old EXCEPT ![c] = pool]
        /\ UNCHANGED <<process, flag, pool, stop, deleted, overlapped>>
    BY DEF Make, At
  <1>3. "swap" \in CallerStates
    BY DEF CallerStates, Creating
  <1>4. /\ pc' \in [Threads -> CallerStates \cup WorkerStates]
        /\ \A d \in Callers : pc'[d] \in CallerStates
        /\ \A w \in Workers : pc'[w] \in WorkerStates /\ pc'[w] = pc[w]
        /\ pc'[c] = "swap"
        /\ \A u \in Threads : u # c => pc'[u] = pc[u]
    BY <1>1, <1>2, <1>3, CreatingGoes
  <1>5. \A d \in Callers : d # c => pc'[d] = pc[d]
    BY <1>4, Constants
  <1>6. /\ made \in Nat /\ made' \in Nat /\ pool' \in 0 .. made' /\ stop' \subseteq 1 .. made'
        /\ ref' \in [Threads -> 0 .. made'] /\ old' \in [Callers -> 0 .. made']
    <2>1. made \in Nat /\ made' \in Nat /\ made + 1 \in 0 .. made' /\ 0 .. made \subseteq 0 .. made' /\ 1 .. made \subseteq 1 .. made'
      BY <1>1, <1>2 DEF LifeTypes
    <2>2. pool \in 0 .. made'
      BY <1>1, <2>1 DEF LifeTypes
    <2> QED  BY <1>1, <1>2, <2>1, <2>2 DEF LifeTypes
  <1>7. LifeTypes'
    BY <1>1, <1>2, <1>4, <1>6 DEF LifeTypes
  <1>8. ref'[c] # 0 /\ (\A u \in Threads : u # c => ref'[u] = ref[u])
        /\ old'[c] = pool /\ (\A d \in Callers : d # c => old'[d] = old[d])
    BY <1>1, <1>2, <1>6, Constants DEF LifeTypes
  <1>9. OneEach'
    <2>1. Creators' = Creators
      BY <1>2, <1>4, <1>5 DEF Creators, Creating
    <2>2. c \in Makers /\ Makers' = Makers \ {c}
      BY <1>2, <1>4, <1>5 DEF Makers
    <2>3. Cardinality(Makers') = Cardinality(Makers) - 1
      BY <2>2, CountTypes, FS_RemoveElement
    <2> QED  BY <1>1, <1>2, <1>6, <2>1, <2>3, CountTypes, Constants DEF OneEach
  <1>10. Pointers'
    BY <1>1, <1>2, <1>4, <1>5, <1>8 DEF Pointers
  <1>11. OnePool'
    <2> SUFFICES ASSUME ~overlapped'
                 PROVE  /\ made' <= 1
                        /\ \A a, d \in Callers : pc'[a] \in Creating /\ pc'[d] \in Creating => a = d
                        /\ \A d \in Callers : pc'[d] = "make" => made' = 0
                        /\ \A d \in Callers : pc'[d] = "swap" => old'[d] = 0
                        /\ \A d \in Callers : pc'[d] # "join"
                        /\ ~flag' /\ made' > 0 => Creators' # {}
                        /\ pc'[Main] # "gone" => deleted' = {}
      BY DEF OnePool
    <2>1. ~overlapped /\ made = 0 /\ pool = 0 /\ \A d \in Callers : d # c => pc[d] \notin Creating
      BY <1>1, <1>2 DEF OnePool, LifeTypes, Creating
    <2>2. \A d \in Callers : pc'[d] \in Creating => d = c
      BY <1>5, <2>1
    <2>3. c \in Creators'
      BY <1>4 DEF Creators, Creating
    <2>4. pc'[Main] # "gone" => pc[Main] # "gone"
      BY <1>2, <1>4, Constants
    <2> QED  BY <1>1, <1>2, <1>4, <1>8, <2>1, <2>2, <2>3, <2>4 DEF OnePool, Creating
  <1>12. Endings'
    BY <1>1, <1>2, <1>4, <1>5, Constants DEF Endings, PoolOutlivesUse
  <1> QED  BY <1>7, <1>9, <1>10, <1>11, <1>12 DEF LifeInv

\* The pointer gets the pool, and the old pool, if any, is to stop.
LEMMA SwapLife == ASSUME LifeInv, NEW c \in Callers, Swap(c) PROVE LifeInv'
  <1>1. LifeTypes /\ OneEach /\ Pointers /\ OnePool /\ Endings
    BY DEF LifeInv
  <1>2. /\ pc[c] = "swap" /\ Goto(c, IF old[c] = 0 THEN "mark" ELSE "join")
        /\ pool' = ref[c] /\ stop' = stop \cup ({old[c]} \ {0})
        /\ UNCHANGED <<process, flag, made, deleted, ref, old, overlapped>>
    BY DEF Swap, At
  <1>3. (IF old[c] = 0 THEN "mark" ELSE "join") \in CallerStates
    BY DEF CallerStates, Creating
  <1>4. /\ pc' \in [Threads -> CallerStates \cup WorkerStates]
        /\ \A d \in Callers : pc'[d] \in CallerStates
        /\ \A w \in Workers : pc'[w] \in WorkerStates /\ pc'[w] = pc[w]
        /\ pc'[c] = IF old[c] = 0 THEN "mark" ELSE "join"
        /\ \A u \in Threads : u # c => pc'[u] = pc[u]
    BY <1>1, <1>2, <1>3, CreatingGoes
  <1>5. \A d \in Callers : d # c => pc'[d] = pc[d]
    BY <1>4, Constants
  <1>6. LifeTypes'
    <2>1. ref[c] \in 0 .. made /\ old[c] \in 0 .. made /\ made \in Nat
      BY <1>1, Constants DEF LifeTypes
    <2>2. {old[c]} \ {0} \subseteq 1 .. made
      BY <2>1
    <2>3. stop \subseteq 1 .. made
      BY <1>1 DEF LifeTypes
    <2>4. stop' \subseteq 1 .. made /\ stop \subseteq stop'
      BY <1>2, <2>2, <2>3
    <2>5. pool' \in 0 .. made
      BY <1>2, <2>1
    <2> QED  BY <1>1, <1>2, <1>4, <2>4, <2>5 DEF LifeTypes
  <1>7. OneEach'
    <2>1. Creators' = Creators /\ Makers' = Makers
      BY <1>2, <1>4, <1>5 DEF Creators, Makers, Creating
    <2> QED  BY <1>1, <1>2, <2>1 DEF OneEach
  <1>8. Pointers'
    <2>1. ref[c] # 0
      BY <1>1, <1>2, Constants DEF Pointers
    <2> QED  BY <1>1, <1>2, <1>4, <1>5, <2>1 DEF Pointers
  <1>9. OnePool'
    <2>1. \A d \in Callers : pc'[d] \in Creating => pc[d] \in Creating
      BY <1>2, <1>5 DEF Creating
    <2>2. c \in Creators'
      BY <1>4 DEF Creators, Creating
    <2>3. pc'[Main] # "gone" => pc[Main] # "gone"
      BY <1>2, <1>4, Constants
    <2> QED  BY <1>1, <1>2, <1>3, <1>4, <1>5, <2>1, <2>2, <2>3 DEF OnePool, Creating
  <1>10. Endings'
    BY <1>1, <1>2, <1>4, <1>5, Constants DEF Endings, PoolOutlivesUse
  <1> QED  BY <1>6, <1>7, <1>8, <1>9, <1>10 DEF LifeInv

\* The replaced pool is destroyed: only when creations overlapped is there one.
LEMMA JoinOldLife == ASSUME LifeInv, NEW c \in Callers, JoinOld(c) PROVE LifeInv'
  <1>1. LifeTypes /\ OneEach /\ Pointers /\ OnePool /\ Endings
    BY DEF LifeInv
  <1>2. /\ pc[c] = "join" /\ Goto(c, "mark")
        /\ deleted' = deleted \cup {old[c]}
        /\ UNCHANGED <<process, flag, pool, made, stop, ref, old, overlapped>>
    BY DEF JoinOld, At
  <1>3. "mark" \in CallerStates
    BY DEF CallerStates, Creating
  <1>4. /\ pc' \in [Threads -> CallerStates \cup WorkerStates]
        /\ \A d \in Callers : pc'[d] \in CallerStates
        /\ \A w \in Workers : pc'[w] \in WorkerStates /\ pc'[w] = pc[w]
        /\ pc'[c] = "mark"
        /\ \A u \in Threads : u # c => pc'[u] = pc[u]
    BY <1>1, <1>2, <1>3, CreatingGoes
  <1>5. \A d \in Callers : d # c => pc'[d] = pc[d]
    BY <1>4, Constants
  <1>6. LifeTypes'
    <2>1. old[c] \in stop
      BY <1>1, <1>2 DEF Pointers
    <2> QED  BY <1>1, <1>2, <1>4, <2>1 DEF LifeTypes
  <1>7. OneEach'
    <2>1. Creators' = Creators /\ Makers' = Makers
      BY <1>2, <1>3, <1>4, <1>5 DEF Creators, Makers, Creating
    <2> QED  BY <1>1, <1>2, <2>1 DEF OneEach
  <1>8. Pointers'
    BY <1>1, <1>2, <1>4, <1>5 DEF Pointers
  <1>9. OnePool'
    <2>1. \A d \in Callers : pc'[d] \in Creating => pc[d] \in Creating
      BY <1>2, <1>5 DEF Creating
    <2>2. c \in Creators'
      BY <1>3, <1>4 DEF Creators, Creating
    <2>3. pc'[Main] # "gone" => pc[Main] # "gone"
      BY <1>2, <1>4, Constants
    <2> QED  BY <1>1, <1>2, <1>3, <1>4, <1>5, <2>1, <2>2, <2>3 DEF OnePool, Creating
  <1>10. Endings'
    BY <1>1, <1>2, <1>4, <1>5, Constants DEF Endings, PoolOutlivesUse
  <1> QED  BY <1>6, <1>7, <1>8, <1>9, <1>10 DEF LifeInv

\* The flag is set: from now on no creation begins.
LEMMA MarkLife == ASSUME LifeInv, NEW c \in Callers, Mark(c) PROVE LifeInv'
  <1>1. LifeTypes /\ OneEach /\ Pointers /\ OnePool /\ Endings
    BY DEF LifeInv
  <1>2. /\ pc[c] = "mark" /\ Goto(c, "idle") /\ flag' = TRUE
        /\ UNCHANGED <<process, pool, made, stop, deleted, ref, old, overlapped>>
    BY DEF Mark, At
  <1>3. "idle" \in CallerStates
    BY DEF CallerStates, Creating
  <1>4. /\ pc' \in [Threads -> CallerStates \cup WorkerStates]
        /\ \A d \in Callers : pc'[d] \in CallerStates
        /\ \A w \in Workers : pc'[w] \in WorkerStates /\ pc'[w] = pc[w]
        /\ pc'[c] = "idle"
        /\ \A u \in Threads : u # c => pc'[u] = pc[u]
    BY <1>1, <1>2, <1>3, CreatingGoes
  <1>5. \A d \in Callers : d # c => pc'[d] = pc[d]
    BY <1>4, Constants
  <1>6. LifeTypes'
    BY <1>1, <1>2, <1>4 DEF LifeTypes
  <1>7. OneEach'
    <2>1. Makers' = Makers
      BY <1>2, <1>4, <1>5 DEF Makers
    <2> QED  BY <1>1, <1>2, <2>1 DEF OneEach
  <1>8. Pointers'
    BY <1>1, <1>2, <1>4, <1>5 DEF Pointers
  <1>9. OnePool'
    <2>1. \A d \in Callers : pc'[d] \in Creating => pc[d] \in Creating
      BY <1>2, <1>5 DEF Creating
    <2>2. flag'
      BY <1>2
    <2>3. pc'[Main] # "gone" => pc[Main] # "gone"
      BY <1>2, <1>4, Constants
    <2> QED  BY <1>1, <1>2, <1>3, <1>4, <1>5, <2>1, <2>2, <2>3 DEF OnePool, Creating
  <1>10. Endings'
    BY <1>1, <1>2, <1>4, <1>5, Constants DEF Endings, PoolOutlivesUse
  <1> QED  BY <1>6, <1>7, <1>8, <1>9, <1>10 DEF LifeInv

-----------------------------------------------------------------------------
\* Main destroys the singleton.
LEMMA DestroyLife == ASSUME LifeInv, Destroy PROVE LifeInv'
  <1>1. LifeTypes /\ OneEach /\ Pointers /\ OnePool /\ Endings
    BY DEF LifeInv
  <1>2. /\ pc[Main] = "exit" /\ Goto(Main, "gone") /\ (pool = 0 \/ pool \in stop)
        /\ deleted' = deleted \cup ({pool} \ {0}) /\ process' = "ending"
        /\ UNCHANGED <<flag, pool, made, stop, ref, old, overlapped>>
    BY DEF Destroy, At, Fail
  <1>3. "gone" \in CallerStates
    BY DEF CallerStates
  <1>4. /\ pc' \in [Threads -> CallerStates \cup WorkerStates]
        /\ \A d \in Callers : pc'[d] \in CallerStates
        /\ \A w \in Workers : pc'[w] \in WorkerStates /\ pc'[w] = pc[w]
        /\ pc'[Main] = "gone"
        /\ \A u \in Threads : u # Main => pc'[u] = pc[u]
    BY <1>1, <1>2, <1>3, CreatingGoes, Constants
  <1>5. \A d \in Callers : d # Main => pc'[d] = pc[d]
    BY <1>4, Constants
  <1>6. LifeTypes'
    BY <1>1, <1>2, <1>4 DEF LifeTypes
  <1>7. Creators' = Creators /\ OneEach'
    BY <1>1, <1>2, <1>4, Constants, SameCreators DEF Creating
  <1>8. Pointers'
    BY <1>1, <1>2, <1>4, <1>5 DEF Pointers
  <1>9. OnePool'
    <2>1. \A d \in Callers : pc'[d] \in Creating => pc[d] \in Creating /\ d # Main
      BY <1>4, <1>5 DEF Creating
    <2> QED  BY <1>1, <1>2, <1>4, <1>5, <1>7, <2>1 DEF OnePool, Creating
  <1>10. Endings'
    BY <1>1, <1>2, <1>4 DEF Endings, PoolOutlivesUse
  <1> QED  BY <1>6, <1>7, <1>8, <1>9, <1>10 DEF LifeInv

\* A thread submits to the pool it got, wherever it is.
LEMMA SubmitLife ==
    ASSUME LifeInv, NEW t \in Threads, Submit(t)
    PROVE  LifeInv'
  <1>1. /\ pc[t] = "submit" /\ Goto(t, "idle")
        /\ UNCHANGED <<flag, pool, made, stop, deleted, ref, old, overlapped>>
        /\ process' = process \/ (process' = "useAfterFree" /\ deleted # {})
    BY DEF Submit, At, Fail
  <1>2. "idle" \in CallerStates /\ "idle" \in WorkerStates /\ "idle" \notin Creating /\ "submit" \notin Creating
    BY DEF CallerStates, WorkerStates, Creating
  <1>3. stop \subseteq stop' /\ stop' \subseteq 1 .. made
    BY <1>1 DEF LifeInv, LifeTypes
  <1> QED  BY <1>1, <1>2, <1>3, Moves

\* A thread gets the pool.
LEMMA GetLife ==
    ASSUME LifeInv, NEW t \in Threads, NEW task, pc[t] \in {"idle", "run"}, Get(t, task)
    PROVE  LifeInv'
  <1>1. /\ flag /\ ref' = [ref EXCEPT ![t] = pool] /\ Goto(t, "submit")
        /\ UNCHANGED <<process, flag, pool, made, stop, deleted, old, overlapped>>
    BY DEF Get, poolVars
  <1>2. "submit" \in CallerStates /\ "submit" \in WorkerStates /\ {"idle", "run", "submit"} \cap Creating = {}
    BY DEF CallerStates, WorkerStates, Creating
  <1>3. stop \subseteq stop' /\ stop' \subseteq 1 .. made
    BY <1>1 DEF LifeInv, LifeTypes
  <1> QED  BY <1>1, <1>2, <1>3, Moves

\* Main waits for the pool, or leaves.
LEMMA MainLife ==
    ASSUME LifeInv, WaitThread \/ Waited \/ Return
    PROVE  LifeInv'
  <1>1. {"idle", "wait", "exit"} \subseteq CallerStates /\ {"idle", "wait", "exit"} \cap Creating = {}
    BY DEF CallerStates, Creating
  <1>2. Main \in Callers /\ Main \in Threads /\ Main \notin Workers
    BY Constants
  <1>3. made \in Nat /\ pool \in 0 .. made /\ stop \subseteq 1 .. made /\ (flag => pool # 0)
    BY DEF LifeInv, LifeTypes, Pointers
  <1>4. CASE WaitThread
    <2>1. /\ pc[Main] = "idle" /\ flag /\ ref' = [ref EXCEPT ![Main] = pool] /\ stop' = stop \cup {pool}
          /\ Goto(Main, "wait") /\ UNCHANGED <<process, flag, pool, made, deleted, old, overlapped>>
      BY <1>4 DEF WaitThread, At
    <2>2. stop \subseteq stop' /\ stop' \subseteq 1 .. made
      BY <1>3, <2>1
    <2> QED  BY <1>1, <1>2, <2>1, <2>2, Moves
  <1>5. CASE Waited
    <2>1. /\ pc[Main] = "wait" /\ Goto(Main, "idle")
          /\ UNCHANGED <<flag, pool, made, stop, deleted, ref, old, overlapped>>
          /\ process' = process \/ (process' = "useAfterFree" /\ deleted # {})
      BY <1>5 DEF Waited, At, Fail, poolVars
    <2> QED  BY <1>1, <1>2, <1>3, <2>1, Moves
  <1>6. CASE Return
    <2>1. /\ pc[Main] \in {"idle", "exit"} /\ stop' = stop \cup ({pool} \ {0}) /\ Goto(Main, "exit")
          /\ UNCHANGED <<process, flag, pool, made, deleted, ref, old, overlapped>>
      BY <1>6 DEF Return, At
    <2>2. {pool} \ {0} \subseteq 1 .. made
      BY <1>3
    <2>3. stop \subseteq stop' /\ stop' \subseteq 1 .. made
      BY <1>3, <2>1, <2>2
    <2> QED  BY <1>1, <1>2, <2>1, <2>3, Moves
  <1> QED  BY <1>4, <1>5, <1>6

\* A worker takes a task, ends one, or leaves.
LEMMA WorkerLife ==
    ASSUME LifeInv, NEW w \in Workers, Take(w) \/ Leave(w) \/ Callback(w)
    PROVE  LifeInv'
  <1>1. {"idle", "run", "exited"} \subseteq WorkerStates /\ {"idle", "run", "exited"} \cap Creating = {}
    BY DEF WorkerStates, Creating
  <1>2. w \in Threads /\ w \notin Callers
    BY Constants
  <1>3. \E where \in {"idle", "run", "exited"} :
          /\ pc[w] \in {"idle", "run"} /\ Goto(w, where) /\ (where = "exited" => w[1] \in stop)
          /\ UNCHANGED <<flag, pool, made, stop, deleted, ref, old, overlapped>>
          /\ process' = process \/ process' = "terminated"
    BY DEF Take, Leave, Callback, At, Fail, poolVars
  <1>4. stop \subseteq stop' /\ stop' \subseteq 1 .. made
    BY <1>3 DEF LifeInv, LifeTypes
  <1> QED  BY <1>1, <1>2, <1>3, <1>4, Moves

\* The life of the pools: an invariant.
LEMMA LifeStep == ASSUME LifeInv, [Next]_vars PROVE LifeInv'
  <1>1. ASSUME NEW c \in Callers, Ask(c) PROVE LifeInv'
    BY <1>1, GetLife, Constants DEF Ask, At
  <1>8. ASSUME NEW c \in Callers, Refused(c) PROVE LifeInv'
    BY <1>8, ProcessEnds DEF Refused, Fail, threadVars
  <1>2. ASSUME NEW c \in Callers, Asked(c) PROVE LifeInv'
    BY <1>2, SubmitLife, Constants DEF Asked
  <1>3. ASSUME NEW w \in Workers, Work(w) PROVE LifeInv'
    <2>1. \/ \E task : Get(w, task)
          \/ process' \in {"terminated", "overrun"} /\ UNCHANGED <<poolVars, pc, ref, old, overlapped>>
      BY <1>3 DEF Work, Fail, threadVars
    <2>2. pc[w] = "run" /\ w \in Threads
      BY <1>3, Constants DEF Work, At
    <2> QED  BY <2>1, <2>2, GetLife, ProcessEnds
  <1>4. ASSUME NEW w \in Workers, Worked(w) PROVE LifeInv'
    BY <1>4, SubmitLife, Constants DEF Worked
  <1>5. ASSUME NEW w \in Workers, Callback(w) PROVE LifeInv'
    BY <1>5, WorkerLife
  <1>6. ASSUME Singleton PROVE LifeInv'
    <2>1. ASSUME NEW c \in Callers, Create(c) PROVE LifeInv'
      BY <2>1, CreateTestLife, MakeLife, SwapLife, JoinOldLife, MarkLife DEF Create
    <2>2. ASSUME End PROVE LifeInv'
      BY <2>2, ProcessEnds DEF End, Fail, threadVars
    <2>3. ASSUME NEW w \in Workers, Take(w) \/ Leave(w) PROVE LifeInv'
      BY <2>3, WorkerLife
    <2> QED  BY <1>6, <2>1, <2>2, <2>3, MainLife, DestroyLife DEF Singleton
  <1>7. CASE UNCHANGED vars
    BY <1>7, ProcessEnds DEF vars, singletonVars, threadVars
  <1> QED  BY <1>1, <1>2, <1>3, <1>4, <1>5, <1>6, <1>7, <1>8 DEF Next

-----------------------------------------------------------------------------
(* The way of a request.                                                   *)

\* Every task is made for a caller.
LEMMA TaskBy == ASSUME NEW e \in Tasks PROVE e.by \in Callers
  BY DEF Tasks

\* What a queue has after an append, and after its head was taken.
LEMMA AppendHas ==
    ASSUME NEW q \in Seq(Tasks), NEW e \in Tasks
    PROVE  /\ Append(q, e) \in Seq(Tasks)
           /\ \A c : Has(Append(q, e), c) <=> Has(q, c) \/ e.by = c
           /\ \A i \in DOMAIN Append(q, e) : Append(q, e)[i] = e \/ \E j \in DOMAIN q : Append(q, e)[i] = q[j]
           /\ Distinct(q) /\ ~Has(q, e.by) => Distinct(Append(q, e))
  <1> DEFINE a == Append(q, e)
             n == Len(q)
  <1>1. n \in Nat /\ DOMAIN q = 1 .. n /\ a \in Seq(Tasks) /\ DOMAIN a = 1 .. n + 1
    OBVIOUS
  <1>2. a[n + 1] = e /\ \A i \in 1 .. n : a[i] = q[i]
    OBVIOUS
  <1>3. 1 .. n + 1 = 1 .. n \cup {n + 1}
    BY <1>1
  <1> HIDE DEF a, n
  <1>4. \A i \in DOMAIN a : (i \in DOMAIN q /\ a[i] = q[i]) \/ (i = n + 1 /\ a[i] = e)
    BY <1>1, <1>2, <1>3
  <1>5. \A j \in DOMAIN q : j \in DOMAIN a /\ a[j] = q[j]
    BY <1>1, <1>2, <1>3
  <1>6. n + 1 \in DOMAIN a /\ a[n + 1] = e
    BY <1>1, <1>2, <1>3
  <1>7. \A c : Has(a, c) <=> Has(q, c) \/ e.by = c
    BY <1>4, <1>5, <1>6 DEF Has
  <1>8. Distinct(q) /\ ~Has(q, e.by) => Distinct(a)
    BY <1>4 DEF Has, Distinct
  <1>9. \A i \in DOMAIN a : a[i] = e \/ \E j \in DOMAIN q : a[i] = q[j]
    BY <1>4
  <1> QED  BY <1>1, <1>7, <1>8, <1>9 DEF a

LEMMA TailHas ==
    ASSUME NEW q \in Seq(Tasks), q # <<>>
    PROVE  /\ Tail(q) \in Seq(Tasks) /\ Head(q) \in Tasks
           /\ \A c : Has(q, c) <=> Has(Tail(q), c) \/ Head(q).by = c
           /\ \A i \in DOMAIN Tail(q) : \E j \in DOMAIN q : Tail(q)[i] = q[j]
           /\ \E j \in DOMAIN q : Head(q) = q[j]
           /\ Distinct(q) => Distinct(Tail(q)) /\ ~Has(Tail(q), Head(q).by)
  <1> DEFINE t == Tail(q)
             h == Head(q)
             n == Len(q)
  <1>1. n \in Nat /\ n > 0 /\ DOMAIN q = 1 .. n /\ t \in Seq(Tasks) /\ DOMAIN t = 1 .. n - 1
    OBVIOUS
  <1>2. h = q[1] /\ h \in Tasks /\ \A i \in 1 .. n - 1 : t[i] = q[i + 1]
    OBVIOUS
  <1> HIDE DEF t, h, n
  <1>3. 1 \in DOMAIN q
    BY <1>1
  <1>4. \A i \in DOMAIN t : i \in Int /\ i + 1 \in DOMAIN q /\ i + 1 # 1 /\ t[i] = q[i + 1]
    BY <1>1, <1>2
  <1>5. \A j \in DOMAIN q : j = 1 \/ (j - 1 \in DOMAIN t /\ t[j - 1] = q[j])
    <2>1. ASSUME NEW j \in 1 .. n, j # 1 PROVE j - 1 \in 1 .. n - 1 /\ (j - 1) + 1 = j
      BY <1>1, <2>1
    <2> QED  BY <1>1, <1>2, <2>1
  <1>6. \A c : Has(q, c) <=> Has(t, c) \/ h.by = c
    BY <1>2, <1>3, <1>4, <1>5 DEF Has
  <1>7. ASSUME Distinct(q) PROVE Distinct(t) /\ ~Has(t, h.by)
    <2>1. ASSUME NEW i \in DOMAIN t, NEW j \in DOMAIN t, t[i].by = t[j].by PROVE i = j
      <3>1. i + 1 = j + 1
        BY <1>4, <1>7, <2>1 DEF Distinct
      <3> QED  BY <1>4, <3>1
    <2>2. ASSUME Has(t, h.by) PROVE FALSE
      BY <1>2, <1>3, <1>4, <1>7, <2>2 DEF Has, Distinct
    <2> QED  BY <2>1, <2>2 DEF Distinct
  <1>8. \A i \in DOMAIN t : \E j \in DOMAIN q : t[i] = q[j]
    BY <1>4
  <1> QED  BY <1>1, <1>2, <1>3, <1>6, <1>7, <1>8 DEF t, h

\* No request, and so no exception.
LEMMA InitTask == Init => TaskInv /\ EarlyInv /\ CrashInv
  <1> SUFFICES ASSUME Init PROVE TaskInv /\ EarlyInv /\ CrashInv
    OBVIOUS
  <1>1. /\ queue = [p \in Pools |-> <<>>] /\ arg = [t \in Threads |-> NoTask]
        /\ pc = [t \in Threads |-> "idle"] /\ process = "running"
        /\ asked = [c \in Callers |-> <<>>] /\ answers = [c \in Callers |-> <<>>] /\ early = {}
    BY DEF Init, SingletonInit
  <1>2. \A t \in Threads : pc[t] = "idle"
    BY <1>1
  <1>3. \A p \in Pools : queue[p] = <<>> /\ \A c : ~Has(queue[p], c)
    BY <1>1 DEF Has
  <1>4. TaskTypes
    BY <1>1, <1>2, Constants DEF TaskTypes
  <1>5. OnePlace
    BY <1>1, <1>2, <1>3 DEF OnePlace, Holds
  <1>6. NoDoubles /\ OwnRequests /\ OwnAnswers
    BY <1>1, <1>2, <1>3 DEF NoDoubles, OwnRequests, Distinct, OwnAnswers
  <1>7. EarlyInv /\ CrashInv
    BY <1>1 DEF EarlyInv, CrashInv
  <1> QED  BY <1>4, <1>5, <1>6, <1>7 DEF TaskInv

\* Steps that move no task.
LEMMA QuietTask ==
    ASSUME TaskInv, UNCHANGED <<queue, arg, asked, answers, early>>,
           \A t \in Threads : pc'[t] \in {"submit", "run"} => pc'[t] = pc[t]
    PROVE  TaskInv'
  <1>1. \A t \in Threads : \A c : Holds(t, c)' => Holds(t, c)
    BY DEF Holds
  <1>2. TaskTypes'
    BY Constants DEF TaskInv, TaskTypes
  <1>3. OnePlace'
    BY <1>1 DEF TaskInv, OnePlace
  <1>4. NoDoubles' /\ OwnRequests' /\ OwnAnswers'
    BY DEF TaskInv, NoDoubles, OwnRequests, Made, OwnAnswers
  <1> QED  BY <1>2, <1>3, <1>4 DEF TaskInv

\* What a thread that changes place and hands leaves to the others.
LEMMA OtherHands ==
    ASSUME LifeTypes, TaskTypes, NEW t \in Threads, NEW where, NEW task, Goto(t, where),
           arg' = [arg EXCEPT ![t] = task]
    PROVE  /\ pc'[t] = where /\ arg'[t] = task
           /\ \A u \in Threads : u # t => pc'[u] = pc[u] /\ arg'[u] = arg[u]
           /\ \A u \in Threads : \A c : u # t => (Holds(u, c)' <=> Holds(u, c))
           /\ \A c : Holds(t, c)' <=> where \in {"submit", "run"} /\ task.by = c
           /\ task \in Tasks \cup {NoTask} => arg' \in [Threads -> Tasks \cup {NoTask}]
  <1>1. pc'[t] = where /\ arg'[t] = task
    BY DEF LifeTypes, TaskTypes, Goto
  <1>2. \A u \in Threads : u # t => pc'[u] = pc[u] /\ arg'[u] = arg[u]
    BY DEF LifeTypes, TaskTypes, Goto
  <1>3. task \in Tasks \cup {NoTask} => arg' \in [Threads -> Tasks \cup {NoTask}]
    BY DEF TaskTypes
  <1> QED  BY <1>1, <1>2, <1>3 DEF Holds

\* A caller's first request.
LEMMA AskTask == ASSUME LifeInv, TaskInv, NEW c \in Callers, Ask(c) PROVE TaskInv'
  <1>1. PICK request \in Menu[c] :
          /\ asked' = [asked EXCEPT ![c] = <<request>>]
          /\ Get(c, [by |-> c, request |-> request])
    BY DEF Ask
  <1> DEFINE task == [by |-> c, request |-> request]
  <1>2. task \in Tasks /\ task.by = c /\ request \in Requests
    BY DEF Tasks, Requests
  <1>13. task.by = c /\ task.request = request /\ DOMAIN task = {"by", "request"}
    OBVIOUS
  <1>3. /\ pc[c] = "idle" /\ asked[c] = <<>> /\ Goto(c, "submit") /\ arg' = [arg EXCEPT ![c] = task]
        /\ UNCHANGED <<queue, answers, early>> /\ c \in Threads
    BY <1>1, Constants DEF Ask, At, Get, poolVars
  <1> HIDE DEF task
  <1>4. LifeTypes /\ TaskTypes /\ OnePlace /\ NoDoubles /\ OwnRequests
    BY DEF LifeInv, TaskInv
  <1>5. /\ pc'[c] = "submit" /\ arg'[c] = task
        /\ \A u \in Threads : u # c => pc'[u] = pc[u] /\ arg'[u] = arg[u]
        /\ \A u \in Threads : \A d : u # c => (Holds(u, d)' <=> Holds(u, d))
        /\ \A d : Holds(c, d)' <=> d = c
        /\ arg' \in [Threads -> Tasks \cup {NoTask}]
    <2>1. LifeTypes /\ TaskTypes /\ c \in Threads /\ Goto(c, "submit") /\ arg' = [arg EXCEPT ![c] = task]
      BY <1>3, <1>4
    <2>2. /\ pc'[c] = "submit" /\ arg'[c] = task
          /\ \A u \in Threads : u # c => pc'[u] = pc[u] /\ arg'[u] = arg[u]
          /\ \A u \in Threads : \A d : u # c => (Holds(u, d)' <=> Holds(u, d))
          /\ \A d : Holds(c, d)' <=> "submit" \in {"submit", "run"} /\ task.by = d
          /\ task \in Tasks \cup {NoTask} => arg' \in [Threads -> Tasks \cup {NoTask}]
      BY <2>1, OtherHands
    <2> QED  BY <1>2, <2>2
  <1>6. asked'[c] = <<request>> /\ <<request>> # <<>> /\ \A d \in Callers : d # c => asked'[d] = asked[d]
    BY <1>1, <1>4 DEF TaskTypes
  <1>7. /\ \A t \in Threads : ~Holds(t, c)
        /\ \A p \in Pools : ~Has(queue[p], c)
        /\ answers[c] = <<>>
    BY <1>3, <1>4 DEF OnePlace
  <1>8. TaskTypes'
    <2>1. asked' \in [Callers -> {<<>>} \cup {<<r>> : r \in Requests}]
      BY <1>1, <1>2, <1>4 DEF TaskTypes
    <2>2. \A t \in Threads : pc'[t] \in {"submit", "run"} => arg'[t] \in Tasks
      BY <1>2, <1>4, <1>5 DEF TaskTypes
    <2>3. \A d \in Callers : pc'[d] = "submit" => arg'[d].by = d
      BY <1>2, <1>4, <1>5, Constants DEF TaskTypes
    <2> QED  BY <1>3, <1>4, <1>5, <2>1, <2>2, <2>3 DEF TaskTypes
  <1>9. OnePlace'
    BY <1>3, <1>4, <1>5, <1>6, <1>7 DEF OnePlace
  <1>10. OwnRequests'
    <2>1. ASSUME NEW e \in Tasks, Made(e), e.by # c PROVE Made(e)'
      BY <1>6, <2>1, TaskBy DEF Made
    <2>2. ASSUME NEW t \in Threads, pc'[t] \in {"submit", "run"} PROVE Made(arg[t])'
      <3>1. CASE t = c
        BY <1>5, <1>6, <1>13, <3>1 DEF Made
      <3>2. CASE t # c
        <4>1. pc[t] \in {"submit", "run"} /\ arg'[t] = arg[t] /\ arg[t] \in Tasks /\ Made(arg[t])
          BY <1>4, <1>5, <2>2, <3>2 DEF TaskTypes, OwnRequests
        <4>2. arg[t].by # c
          BY <1>7, <4>1 DEF Holds
        <4> QED  BY <2>1, <4>1, <4>2 DEF Made
      <3> QED  BY <3>1, <3>2
    <2>3. ASSUME NEW p \in Pools, NEW i \in DOMAIN queue[p] PROVE Made(queue[p][i])'
      <3>1. queue[p][i] \in Tasks /\ Made(queue[p][i])
        BY <1>4 DEF TaskTypes, OwnRequests
      <3>2. queue[p][i].by # c
        BY <1>7 DEF Has
      <3> QED  BY <1>3, <2>1, <3>1, <3>2 DEF Made
    <2> QED  BY <1>3, <2>2, <2>3 DEF OwnRequests
  <1>11. NoDoubles'
    BY <1>3, <1>4 DEF NoDoubles
  <1>12. OwnAnswers'
    <2>1. ASSUME NEW d \in Callers, NEW i \in DOMAIN answers[d] PROVE answers[d][i] \in Answers(asked'[d][1])
      <3>1. d # c
        BY <1>7
      <3> QED  BY <1>6, <3>1 DEF TaskInv, OwnAnswers
    <2> QED  BY <1>3, <2>1 DEF OwnAnswers
  <1> QED  BY <1>8, <1>9, <1>10, <1>11, <1>12 DEF TaskInv

\* A request that is refused before a pool is marked goes nowhere.
LEMMA RefusedTask == ASSUME LifeInv, TaskInv, NEW c \in Callers, Refused(c) PROVE TaskInv'
  <1>1. PICK request \in Menu[c] : asked' = [asked EXCEPT ![c] = <<request>>]
    BY DEF Refused
  <1>2. asked[c] = <<>> /\ UNCHANGED <<queue, pc, arg, answers, early>> /\ request \in Requests
    BY <1>1 DEF Refused, Requests, poolVars, threadVars
  <1>3. TaskTypes /\ OnePlace /\ NoDoubles /\ OwnRequests /\ OwnAnswers
    BY DEF TaskInv
  <1>4. asked'[c] = <<request>> /\ <<request>> # <<>> /\ \A d \in Callers : d # c => asked'[d] = asked[d]
    BY <1>1, <1>3 DEF TaskTypes
  <1>5. /\ \A t \in Threads : ~Holds(t, c)
        /\ \A p \in Pools : ~Has(queue[p], c)
        /\ answers[c] = <<>>
    BY <1>2, <1>3 DEF OnePlace
  <1>6. TaskTypes'
    <2>1. asked' \in [Callers -> {<<>>} \cup {<<r>> : r \in Requests}]
      BY <1>1, <1>2, <1>3 DEF TaskTypes
    <2> QED  BY <1>2, <1>3, <2>1 DEF TaskTypes
  <1>7. OnePlace'
    <2>1. \A t \in Threads : \A d : Holds(t, d)' <=> Holds(t, d)
      BY <1>2 DEF Holds
    <2> QED  BY <1>2, <1>3, <1>4, <1>5, <2>1 DEF OnePlace
  <1>8. OwnRequests'
    <2>1. ASSUME NEW e \in Tasks, Made(e), e.by # c PROVE Made(e)'
      BY <1>4, <2>1, TaskBy DEF Made
    <2>2. ASSUME NEW t \in Threads, pc[t] \in {"submit", "run"} PROVE Made(arg[t])'
      <3>1. arg[t] \in Tasks /\ Made(arg[t]) /\ arg[t].by # c
        BY <1>3, <1>5, <2>2 DEF TaskTypes, OwnRequests, Holds
      <3> QED  BY <1>2, <2>1, <3>1 DEF Made
    <2>3. ASSUME NEW p \in Pools, NEW i \in DOMAIN queue[p] PROVE Made(queue[p][i])'
      <3>1. queue[p][i] \in Tasks /\ Made(queue[p][i])
        BY <1>3 DEF TaskTypes, OwnRequests
      <3>2. queue[p][i].by # c
        BY <1>5 DEF Has
      <3> QED  BY <1>2, <2>1, <3>1, <3>2 DEF Made
    <2> QED  BY <1>2, <2>2, <2>3 DEF OwnRequests
  <1>9. NoDoubles'
    BY <1>2, <1>3 DEF NoDoubles
  <1>10. OwnAnswers'
    <2>1. ASSUME NEW d \in Callers, NEW i \in DOMAIN answers[d] PROVE answers[d][i] \in Answers(asked'[d][1])
      <3>1. d # c
        BY <1>5
      <3> QED  BY <1>3, <1>4, <3>1 DEF OwnAnswers
    <2> QED  BY <1>2, <2>1 DEF OwnAnswers
  <1> QED  BY <1>6, <1>7, <1>8, <1>9, <1>10 DEF TaskInv

\* The pool a thread submits to is one of Pools.
LEMMA PoolOfSubmit == ASSUME LifeInv, NEW t \in Threads, pc[t] = "submit" PROVE ref[t] \in Pools
  <1>1. made \in Nat /\ ref[t] \in 0 .. made /\ ref[t] # 0
    BY DEF LifeInv, LifeTypes, Pointers
  <1>2. made <= Cardinality(Callers)
    BY <1>1, CountTypes, Constants DEF LifeInv, OneEach
  <1> QED  BY <1>1, <1>2, Constants DEF Pools

\* The queues g are the queues f, or task e is appended to that of pool p.
MayAppend(f, g, p, e) == g = f \/ g = [f EXCEPT ![p] = Append(f[p], e)]

Queued(f, g, p, e) ==
    /\ g \in [Pools -> Seq(Tasks)]
    /\ \A q \in Pools : q # p => g[q] = f[q]
    /\ \A q \in Pools : \A d : Has(g[q], d) => Has(f[q], d) \/ (q = p /\ e.by = d)
    /\ \A q \in Pools : \A i \in DOMAIN g[q] : g[q][i] = e \/ \E j \in DOMAIN f[q] : g[q][i] = f[q][j]
    /\ Distinct(f[p]) /\ ~Has(f[p], e.by) => Distinct(g[p])

\* What the queues of the pools have then.
LEMMA MayQueue ==
    ASSUME NEW f \in [Pools -> Seq(Tasks)], NEW p \in Pools, NEW e \in Tasks,
           NEW g, MayAppend(f, g, p, e)
    PROVE  Queued(f, g, p, e)
  <1> USE DEF MayAppend, Queued
  <1>1. CASE g = f
    BY <1>1
  <1>2. CASE g = [f EXCEPT ![p] = Append(f[p], e)]
    <2> DEFINE a == Append(f[p], e)
    <2>1. f[p] \in Seq(Tasks)
      OBVIOUS
    <2>2. /\ a \in Seq(Tasks)
          /\ \A d : Has(a, d) <=> Has(f[p], d) \/ e.by = d
          /\ \A i \in DOMAIN a : a[i] = e \/ \E j \in DOMAIN f[p] : a[i] = f[p][j]
          /\ Distinct(f[p]) /\ ~Has(f[p], e.by) => Distinct(a)
      BY <2>1, AppendHas
    <2>3. g = [f EXCEPT ![p] = a]
      BY <1>2
    <2> HIDE DEF a
    <2>4. g[p] = a /\ g \in [Pools -> Seq(Tasks)] /\ \A q \in Pools : q # p => g[q] = f[q]
      BY <2>2, <2>3
    <2>5. \A q \in Pools : \A d : Has(g[q], d) => Has(f[q], d) \/ (q = p /\ e.by = d)
      BY <2>2, <2>4
    <2>6. \A q \in Pools : \A i \in DOMAIN g[q] : g[q][i] = e \/ \E j \in DOMAIN f[q] : g[q][i] = f[q][j]
      <3>1. ASSUME NEW q \in Pools, NEW i \in DOMAIN g[q]
            PROVE  g[q][i] = e \/ \E j \in DOMAIN f[q] : g[q][i] = f[q][j]
        <4>1. CASE q = p
          BY <2>2, <2>4, <4>1
        <4>2. CASE q # p
          <5>1. g[q] = f[q]
            BY <2>4, <4>2
          <5> QED  BY <5>1
        <4> QED  BY <4>1, <4>2
      <3> QED  BY <3>1
    <2> QED  BY <2>2, <2>4, <2>5, <2>6
  <1> QED  BY <1>1, <1>2

\* A thread submits what it holds: it is queued, or lost with a pool that is destroyed.
LEMMA SubmitTask ==
    ASSUME LifeInv, TaskInv, NEW t \in Threads, Submit(t), UNCHANGED <<asked, answers>>,
           early' = early \/ (t \in Callers /\ early' = early \cup {t})
    PROVE  TaskInv'
  <1>1. LifeTypes /\ TaskTypes /\ OnePlace /\ NoDoubles /\ OwnRequests
    BY DEF LifeInv, TaskInv
  <1>2. /\ pc[t] = "submit" /\ Goto(t, "idle") /\ arg' = [arg EXCEPT ![t] = NoTask]
        /\ UNCHANGED queue \/ queue' = [queue EXCEPT ![ref[t]] = Append(queue[ref[t]], arg[t])]
    BY DEF Submit, At
  <1>3. PICK p \in Pools, e \in Tasks : p = ref[t] /\ e = arg[t]
    BY <1>1, <1>2, PoolOfSubmit DEF TaskTypes
  <1>4. queue \in [Pools -> Seq(Tasks)] /\ Made(e) /\ e.by \in Callers
    BY <1>1, <1>2, <1>3, TaskBy DEF TaskTypes, OwnRequests
  <1>5. /\ pc'[t] = "idle"
        /\ \A u \in Threads : u # t => pc'[u] = pc[u] /\ arg'[u] = arg[u]
        /\ \A u \in Threads : \A d : u # t => (Holds(u, d)' <=> Holds(u, d))
        /\ \A d : ~Holds(t, d)'
        /\ arg' \in [Threads -> Tasks \cup {NoTask}]
    BY <1>1, <1>2, OtherHands
  <1>6. \A d : Holds(t, d) <=> e.by = d
    BY <1>2, <1>3 DEF Holds
  <1>7. ~Has(queue[p], e.by) /\ Distinct(queue[p])
    BY <1>1, <1>4, <1>6 DEF OnePlace, NoDoubles
  <1>8. queue' = queue \/ queue' = [queue EXCEPT ![p] = Append(queue[p], e)]
    BY <1>2, <1>3
  <1>9. /\ queue' \in [Pools -> Seq(Tasks)]
        /\ \A q \in Pools : q # p => queue'[q] = queue[q]
        /\ \A q \in Pools : \A d : Has(queue'[q], d) => Has(queue[q], d) \/ (q = p /\ e.by = d)
        /\ \A q \in Pools : \A i \in DOMAIN queue'[q] :
              queue'[q][i] = e \/ \E j \in DOMAIN queue[q] : queue'[q][i] = queue[q][j]
        /\ Distinct(queue'[p])
    <2>1. PICK f \in [Pools -> Seq(Tasks)] : f = queue
      BY <1>4
    <2>2. PICK g : g = queue'
      OBVIOUS
    <2>3. Distinct(f[p]) /\ ~Has(f[p], e.by) /\ (g = f \/ g = [f EXCEPT ![p] = Append(f[p], e)])
      BY <1>7, <1>8, <2>1, <2>2
    <2>4. Queued(f, g, p, e)
      BY <2>3, MayQueue DEF MayAppend
    <2> QED  BY <2>1, <2>2, <2>3, <2>4 DEF Queued
  <1>11. TaskTypes'
    <2>1. \A u \in Threads : pc'[u] \in {"submit", "run"} => arg'[u] \in Tasks
      BY <1>1, <1>5 DEF TaskTypes
    <2>2. \A c \in Callers : pc'[c] = "submit" => arg'[c].by = c
      BY <1>1, <1>5, Constants DEF TaskTypes
    <2>3. asked' = asked /\ answers' = answers /\ early' \subseteq Callers
      BY <1>1 DEF TaskTypes
    <2> QED  BY <1>1, <1>5, <1>9, <2>1, <2>2, <2>3 DEF TaskTypes
  <1>12. OnePlace'
    <2>1. ASSUME t \in Callers PROVE asked[t] # <<>>
      BY <1>1, <1>2, <2>1, Constants DEF OnePlace, Holds, TaskTypes
    <2> SUFFICES ASSUME NEW c \in Callers
                 PROVE  /\ \A u, v \in Threads : Holds(u, c)' /\ Holds(v, c)' => u = v
                        /\ \A u \in Threads, q \in Pools : ~(Holds(u, c)' /\ Has(queue'[q], c))
                        /\ \A q, r \in Pools : Has(queue'[q], c) /\ Has(queue'[r], c) => q = r
                        /\ asked'[c] = <<>> \/ answers'[c] # <<>> =>
                            /\ \A u \in Threads : ~Holds(u, c)'
                            /\ \A q \in Pools : ~Has(queue'[q], c)
                        /\ asked'[c] = <<>> => answers'[c] = <<>> /\ c \notin early'
                        /\ Len(answers'[c]) <= 1
      BY DEF OnePlace, Has
    <2>2. \A u \in Threads : Holds(u, c)' => Holds(u, c) /\ u # t
      BY <1>5
    <2>3. \A q \in Pools : Has(queue'[q], c) => Has(queue[q], c) \/ (q = p /\ Holds(t, c))
      BY <1>6, <1>9
    <2> QED  BY <1>1, <2>1, <2>2, <2>3 DEF OnePlace
  <1>13. NoDoubles'
    <2>1. \A q \in Pools : Distinct(queue'[q])
      BY <1>1, <1>9 DEF NoDoubles
    <2> QED  BY <2>1 DEF NoDoubles, Distinct
  <1>14. OwnRequests'
    <2>1. \A task : Made(task)' <=> Made(task)
      BY DEF Made
    <2>2. \A u \in Threads : pc'[u] \in {"submit", "run"} => Made(arg'[u])
      BY <1>1, <1>5 DEF OwnRequests
    <2>3. \A q \in Pools : \A i \in DOMAIN queue'[q] : Made(queue'[q][i])
      BY <1>1, <1>4, <1>9 DEF OwnRequests
    <2> QED  BY <2>2, <2>3 DEF OwnRequests, Made
  <1>15. OwnAnswers'
    BY DEF TaskInv, OwnAnswers
  <1> QED  BY <1>11, <1>12, <1>13, <1>14, <1>15 DEF TaskInv

\* A worker computes the answer and gets the pool.
LEMMA WorkTask == ASSUME LifeInv, TaskInv, NEW w \in Workers, Work(w) PROVE TaskInv'
  <1>1. LifeTypes /\ TaskTypes /\ OnePlace /\ NoDoubles /\ OwnRequests
    BY DEF LifeInv, TaskInv
  <1>2. /\ pc[w] = "run" /\ "request" \in DOMAIN arg[w] /\ UNCHANGED <<asked, answers, early>>
        /\ w \in Threads /\ w \notin Callers /\ arg[w] \in Tasks
    BY <1>1, Constants DEF Work, At, TaskTypes
  <1>3. CASE UNCHANGED <<poolVars, threadVars>>
    <2>1. UNCHANGED <<queue, arg, asked, answers, early, pc>>
      BY <1>2, <1>3 DEF poolVars, threadVars
    <2> QED  BY <2>1, QuietTask
  <1>4. ASSUME NEW answer \in Answers(arg[w].request), Get(w, [by |-> arg[w].by, answer |-> answer])
        PROVE  TaskInv'
    <2>1. arg[w].request \in Requests /\ arg[w].by \in Callers
      <3>1. CASE arg[w] \in [by : Callers, request : Requests]
        BY <3>1
      <3>2. CASE arg[w] \in [by : Callers, answer : UNION {Answers(r) : r \in Requests}]
        <4>1. DOMAIN arg[w] = {"by", "answer"}
          BY <3>2
        <4> QED  BY <1>2, <4>1
      <3> QED  BY <1>2, <3>1, <3>2 DEF Tasks
    <2>2. PICK task \in Tasks : task = [by |-> arg[w].by, answer |-> answer]
      BY <1>4, <2>1 DEF Tasks
    <2>3. task.by = arg[w].by /\ DOMAIN task = {"by", "answer"}
      BY <2>2
    <2>4. Goto(w, "submit") /\ arg' = [arg EXCEPT ![w] = task] /\ UNCHANGED queue
      BY <1>4, <2>2 DEF Get, poolVars
    <2>5. /\ pc'[w] = "submit" /\ arg'[w] = task
          /\ \A u \in Threads : u # w => pc'[u] = pc[u] /\ arg'[u] = arg[u]
          /\ \A u \in Threads : \A d : u # w => (Holds(u, d)' <=> Holds(u, d))
          /\ \A d : Holds(w, d)' <=> "submit" \in {"submit", "run"} /\ task.by = d
          /\ arg' \in [Threads -> Tasks \cup {NoTask}]
      BY <1>1, <1>2, <2>4, OtherHands
    <2>6. \A u \in Threads : \A d : Holds(u, d)' <=> Holds(u, d)
      BY <1>2, <2>3, <2>5 DEF Holds
    <2>7. TaskTypes'
      <3>1. \A u \in Threads : pc'[u] \in {"submit", "run"} => arg'[u] \in Tasks
        BY <1>1, <2>2, <2>5 DEF TaskTypes
      <3>2. \A c \in Callers : pc'[c] = "submit" => arg'[c].by = c
        BY <1>1, <1>2, <2>5, Constants DEF TaskTypes
      <3> QED  BY <1>1, <1>2, <2>4, <2>5, <3>1, <3>2 DEF TaskTypes
    <2>8. OnePlace'
      BY <1>1, <1>2, <2>4, <2>6 DEF OnePlace
    <2>9. NoDoubles'
      BY <1>1, <2>4 DEF NoDoubles
    <2>10. OwnRequests'
      <3>1. Made(task)'
        <4>1. asked[arg[w].by] = <<arg[w].request>>
          BY <1>1, <1>2 DEF OwnRequests, Made
        <4>2. asked'[task.by][1] = arg[w].request /\ task.answer = answer
          BY <1>2, <2>2, <4>1
        <4> QED  BY <1>4, <2>3, <4>2 DEF Made
      <3>2. ASSUME NEW u \in Threads, pc'[u] \in {"submit", "run"} PROVE Made(arg[u])'
        BY <1>1, <1>2, <2>5, <3>1, <3>2 DEF OwnRequests, Made
      <3> QED  BY <1>1, <1>2, <2>4, <3>2 DEF OwnRequests, Made
    <2>11. OwnAnswers'
      BY <1>2 DEF TaskInv, OwnAnswers
    <2> QED  BY <2>7, <2>8, <2>9, <2>10, <2>11 DEF TaskInv
  <1> QED  BY <1>3, <1>4 DEF Work

\* A worker takes the oldest task of its pool.
TakenFrom(f, g, p) ==
    /\ g \in [Pools -> Seq(Tasks)] /\ Head(f[p]) \in Tasks
    /\ \A q \in Pools : q # p => g[q] = f[q]
    /\ \A q \in Pools : \A d : Has(f[q], d) <=> Has(g[q], d) \/ (q = p /\ Head(f[p]).by = d)
    /\ \A q \in Pools : \A i \in DOMAIN g[q] : \E j \in DOMAIN f[q] : g[q][i] = f[q][j]
    /\ \E j \in DOMAIN f[p] : Head(f[p]) = f[p][j]
    /\ Distinct(f[p]) => Distinct(g[p]) /\ ~Has(g[p], Head(f[p]).by)

\* What the queues of the pools have when one of them loses its head.
LEMMA Taking ==
    ASSUME NEW f \in [Pools -> Seq(Tasks)], NEW p \in Pools, f[p] # <<>>
    PROVE  TakenFrom(f, [f EXCEPT ![p] = Tail(f[p])], p)
  <1> DEFINE t == Tail(f[p])
             h == Head(f[p])
  <1>1. f[p] \in Seq(Tasks)
    OBVIOUS
  <1>2. /\ t \in Seq(Tasks) /\ h \in Tasks
        /\ \A c : Has(f[p], c) <=> Has(t, c) \/ h.by = c
        /\ \A i \in DOMAIN t : \E j \in DOMAIN f[p] : t[i] = f[p][j]
        /\ \E j \in DOMAIN f[p] : h = f[p][j]
        /\ Distinct(f[p]) => Distinct(t) /\ ~Has(t, h.by)
    BY <1>1, TailHas
  <1>3. PICK g : g = [f EXCEPT ![p] = t]
    OBVIOUS
  <1> HIDE DEF t, h
  <1>4. g[p] = t /\ g \in [Pools -> Seq(Tasks)] /\ \A q \in Pools : q # p => g[q] = f[q]
    BY <1>2, <1>3
  <1>5. \A q \in Pools : \A d : Has(f[q], d) <=> Has(g[q], d) \/ (q = p /\ h.by = d)
    BY <1>2, <1>4
  <1>6. ASSUME NEW q \in Pools, NEW i \in DOMAIN g[q] PROVE \E j \in DOMAIN f[q] : g[q][i] = f[q][j]
    <2>1. CASE q = p
      BY <1>2, <1>4, <2>1
    <2>2. CASE q # p
      <3>1. g[q] = f[q]
        BY <1>4, <2>2
      <3> QED  BY <3>1
    <2> QED  BY <2>1, <2>2
  <1>7. TakenFrom(f, g, p)
    BY <1>2, <1>4, <1>5, <1>6 DEF TakenFrom, h
  <1> QED  BY <1>3, <1>7 DEF t

\* The task goes from the queue into the hands of the worker.
LEMMA TakeTask ==
    ASSUME LifeInv, TaskInv, NEW w \in Workers, Take(w), UNCHANGED <<asked, answers, early>>
    PROVE  TaskInv'
  <1>1. LifeTypes /\ TaskTypes /\ OnePlace /\ NoDoubles /\ OwnRequests
    BY DEF LifeInv, TaskInv
  <1>2. /\ pc[w] = "idle" /\ Goto(w, "run") /\ queue[w[1]] # <<>>
        /\ arg' = [arg EXCEPT ![w] = Head(queue[w[1]])]
        /\ queue' = [queue EXCEPT ![w[1]] = Tail(queue[w[1]])]
        /\ w \in Threads /\ w \notin Callers
    BY Constants DEF Take, At
  <1>3. queue \in [Pools -> Seq(Tasks)] /\ w[1] \in Pools
    BY <1>1 DEF TaskTypes, Workers
  <1>4. TakenFrom(queue, queue', w[1])
    BY <1>2, <1>3, Taking
  <1>5. PICK e \in Tasks, p \in Pools : e = Head(queue[w[1]]) /\ p = w[1]
    BY <1>3, <1>4 DEF TakenFrom
  <1>6. arg' = [arg EXCEPT ![w] = e]
    BY <1>2, <1>5
  <1>7. /\ pc'[w] = "run" /\ arg'[w] = e
        /\ \A u \in Threads : u # w => pc'[u] = pc[u] /\ arg'[u] = arg[u]
        /\ \A u \in Threads : \A d : u # w => (Holds(u, d)' <=> Holds(u, d))
        /\ \A d : Holds(w, d)' <=> "run" \in {"submit", "run"} /\ e.by = d
        /\ arg' \in [Threads -> Tasks \cup {NoTask}]
    BY <1>1, <1>2, <1>6, OtherHands, ZenonT(60)
  <1>8. Distinct(queue[p])
    BY <1>1 DEF NoDoubles
  <1>9. /\ queue' \in [Pools -> Seq(Tasks)]
        /\ \A q \in Pools : q # p => queue'[q] = queue[q]
        /\ \A q \in Pools : \A d : Has(queue[q], d) <=> Has(queue'[q], d) \/ (q = p /\ e.by = d)
        /\ \A q \in Pools : \A i \in DOMAIN queue'[q] : \E j \in DOMAIN queue[q] : queue'[q][i] = queue[q][j]
        /\ \E j \in DOMAIN queue[p] : e = queue[p][j]
        /\ Distinct(queue'[p]) /\ ~Has(queue'[p], e.by)
    BY <1>4, <1>5, <1>8 DEF TakenFrom
  <1>10. TaskTypes'
    <2>1. \A u \in Threads : pc'[u] \in {"submit", "run"} => arg'[u] \in Tasks
      BY <1>1, <1>7 DEF TaskTypes
    <2>2. \A c \in Callers : pc'[c] = "submit" => arg'[c].by = c
      BY <1>1, <1>2, <1>7, Constants DEF TaskTypes
    <2> QED  BY <1>1, <1>7, <1>9, <2>1, <2>2 DEF TaskTypes
  <1>11. OnePlace'
    <2> SUFFICES ASSUME NEW c \in Callers
                 PROVE  /\ \A u, v \in Threads : Holds(u, c)' /\ Holds(v, c)' => u = v
                        /\ \A u \in Threads, q \in Pools : ~(Holds(u, c)' /\ Has(queue'[q], c))
                        /\ \A q, r \in Pools : Has(queue'[q], c) /\ Has(queue'[r], c) => q = r
                        /\ asked'[c] = <<>> \/ answers'[c] # <<>> =>
                            /\ \A u \in Threads : ~Holds(u, c)'
                            /\ \A q \in Pools : ~Has(queue'[q], c)
                        /\ asked'[c] = <<>> => answers'[c] = <<>> /\ c \notin early'
                        /\ Len(answers'[c]) <= 1
      BY DEF OnePlace, Has
    <2>1. \A u \in Threads : ~Holds(w, c) /\ (Holds(u, c)' => Holds(u, c) \/ (u = w /\ e.by = c))
      BY <1>2, <1>7 DEF Holds
    <2>2. \A q \in Pools : Has(queue'[q], c) => Has(queue[q], c)
      BY <1>9
    <2>3. e.by = c => Has(queue[p], c) /\ ~Has(queue'[p], c)
      BY <1>9
    <2> QED  BY <1>1, <2>1, <2>2, <2>3 DEF OnePlace
  <1>12. NoDoubles'
    <2>1. \A q \in Pools : Distinct(queue'[q])
      BY <1>1, <1>9 DEF NoDoubles
    <2> QED  BY <2>1 DEF NoDoubles, Distinct
  <1>13. OwnRequests'
    <2>1. \A q \in Pools : \A i \in DOMAIN queue'[q] : Made(queue'[q][i])
      BY <1>1, <1>9 DEF OwnRequests
    <2>2. Made(e)
      BY <1>1, <1>9 DEF OwnRequests
    <2>3. \A u \in Threads : pc'[u] \in {"submit", "run"} => Made(arg'[u])
      BY <1>1, <1>7, <2>2 DEF OwnRequests
    <2> QED  BY <2>1, <2>3 DEF OwnRequests, Made
  <1>14. OwnAnswers'
    BY DEF TaskInv, OwnAnswers
  <1> QED  BY <1>10, <1>11, <1>12, <1>13, <1>14 DEF TaskInv

\* The callback of a request is called, the only time.
LEMMA CallbackTask ==
    ASSUME LifeInv, TaskInv, NEW w \in Workers, Callback(w)
    PROVE  /\ TaskInv'
           /\ arg[w].by \in Callers /\ Holds(w, arg[w].by) /\ answers'[arg[w].by] # <<>>
           /\ \A d \in Callers : d # arg[w].by => answers'[d] = answers[d]
  <1>1. LifeTypes /\ TaskTypes /\ OnePlace /\ NoDoubles /\ OwnRequests
    BY DEF LifeInv, TaskInv
  <1>2. /\ pc[w] = "run" /\ Goto(w, "idle") /\ "answer" \in DOMAIN arg[w] /\ arg' = [arg EXCEPT ![w] = NoTask]
        /\ answers' = [answers EXCEPT ![arg[w].by] = Append(answers[arg[w].by], arg[w].answer)]
        /\ UNCHANGED <<queue, asked, early>> /\ w \in Threads /\ w \notin Callers
    BY Constants DEF Callback, At, poolVars
  <1>3. arg[w] \in Tasks
    BY <1>1, <1>2 DEF TaskTypes
  <1>4. arg[w].answer \in UNION {Answers(r) : r \in Requests}
    <2>1. CASE arg[w] \in [by : Callers, request : Requests]
      <3>1. DOMAIN arg[w] = {"by", "request"}
        BY <2>1
      <3> QED  BY <1>2, <3>1
    <2>2. CASE arg[w] \in [by : Callers, answer : UNION {Answers(r) : r \in Requests}]
      BY <2>2
    <2> QED  BY <1>3, <2>1, <2>2 DEF Tasks
  <1>5. PICK b \in Callers, a \in UNION {Answers(r) : r \in Requests} : b = arg[w].by /\ a = arg[w].answer
    BY <1>3, <1>4, TaskBy
  <1>6. Holds(w, b)
    BY <1>2, <1>5 DEF Holds
  <1>7. answers \in [Callers -> Seq(UNION {Answers(r) : r \in Requests})] /\ answers[b] = <<>>
    BY <1>1, <1>2, <1>6 DEF TaskTypes, OnePlace
  <1>8. /\ answers'[b] = Append(<<>>, a) /\ \A d \in Callers : d # b => answers'[d] = answers[d]
        /\ answers' \in [Callers -> Seq(UNION {Answers(r) : r \in Requests})]
    BY <1>2, <1>5, <1>7
  <1>9. answers'[b] # <<>> /\ Len(answers'[b]) = 1
    BY <1>8
  <1>10. /\ pc'[w] = "idle"
         /\ \A u \in Threads : u # w => pc'[u] = pc[u] /\ arg'[u] = arg[u]
         /\ \A u \in Threads : \A d : u # w => (Holds(u, d)' <=> Holds(u, d))
         /\ \A d : Holds(w, d)' <=> "idle" \in {"submit", "run"} /\ NoTask.by = d
         /\ arg' \in [Threads -> Tasks \cup {NoTask}]
    BY <1>1, <1>2, OtherHands
  <1>11. TaskTypes'
    <2>1. \A u \in Threads : pc'[u] \in {"submit", "run"} => arg'[u] \in Tasks
      BY <1>1, <1>10 DEF TaskTypes
    <2>2. \A c \in Callers : pc'[c] = "submit" => arg'[c].by = c
      BY <1>1, <1>2, <1>10, Constants DEF TaskTypes
    <2> QED  BY <1>1, <1>2, <1>8, <1>10, <2>1, <2>2 DEF TaskTypes
  <1>12. OnePlace'
    <2> SUFFICES ASSUME NEW c \in Callers
                 PROVE  /\ \A u, v \in Threads : Holds(u, c)' /\ Holds(v, c)' => u = v
                        /\ \A u \in Threads, q \in Pools : ~(Holds(u, c)' /\ Has(queue'[q], c))
                        /\ \A q, r \in Pools : Has(queue'[q], c) /\ Has(queue'[r], c) => q = r
                        /\ asked'[c] = <<>> \/ answers'[c] # <<>> =>
                            /\ \A u \in Threads : ~Holds(u, c)'
                            /\ \A q \in Pools : ~Has(queue'[q], c)
                        /\ asked'[c] = <<>> => answers'[c] = <<>> /\ c \notin early'
                        /\ Len(answers'[c]) <= 1
      BY DEF OnePlace, Has
    <2>1. \A u \in Threads : Holds(u, c)' => Holds(u, c) /\ u # w
      <3>1. ~Holds(w, c)'
        BY <1>10 DEF Holds
      <3> QED  BY <1>10, <3>1
    <2>2. c = b => asked[c] # <<>> /\ (\A u \in Threads : ~Holds(u, c)') /\ \A q \in Pools : ~Has(queue[q], c)
      BY <1>1, <1>2, <1>6, <2>1 DEF OnePlace
    <2> QED  BY <1>1, <1>2, <1>8, <1>9, <2>1, <2>2 DEF OnePlace
  <1>13. NoDoubles'
    BY <1>1, <1>2 DEF NoDoubles
  <1>14. OwnRequests'
    <2>1. \A u \in Threads : pc'[u] \in {"submit", "run"} => Made(arg'[u])
      BY <1>1, <1>10 DEF OwnRequests
    <2>2. \A q \in Pools : \A i \in DOMAIN queue'[q] : Made(queue'[q][i])
      BY <1>1, <1>2 DEF OwnRequests
    <2> QED  BY <1>2, <2>1, <2>2 DEF OwnRequests, Made
  <1>15. OwnAnswers'
    <2>1. a \in Answers(asked[b][1])
      BY <1>1, <1>2, <1>5 DEF OwnRequests, Made
    <2>2. ASSUME NEW d \in Callers, NEW i \in DOMAIN answers'[d] PROVE answers'[d][i] \in Answers(asked[d][1])
      <3>1. CASE d = b
        <4>1. i = 1 /\ answers'[d][1] = a
          BY <1>8, <1>9, <3>1
        <4> QED  BY <2>1, <3>1, <4>1
      <3>2. CASE d # b
        <4>1. answers'[d] = answers[d]
          BY <1>8, <3>2
        <4> QED  BY <4>1 DEF TaskInv, OwnAnswers
      <3> QED  BY <3>1, <3>2
    <2> QED  BY <1>2, <2>2 DEF OwnAnswers
  <1> QED  BY <1>5, <1>6, <1>8, <1>9, <1>11, <1>12, <1>13, <1>14, <1>15 DEF TaskInv

\* The way of a request: an invariant.
LEMMA TaskStep == ASSUME LifeInv, TaskInv, [Next]_vars PROVE TaskInv'
  <1>1. ASSUME NEW c \in Callers, Ask(c) PROVE TaskInv'
    BY <1>1, AskTask
  <1>8. ASSUME NEW c \in Callers, Refused(c) PROVE TaskInv'
    BY <1>8, RefusedTask
  <1>2. ASSUME NEW c \in Callers, Asked(c) PROVE TaskInv'
    BY <1>2, SubmitTask, Constants DEF Asked
  <1>3. ASSUME NEW w \in Workers, Work(w) PROVE TaskInv'
    BY <1>3, WorkTask
  <1>4. ASSUME NEW w \in Workers, Worked(w) PROVE TaskInv'
    BY <1>4, SubmitTask, Constants DEF Worked
  <1>5. ASSUME NEW w \in Workers, Callback(w) PROVE TaskInv'
    BY <1>5, CallbackTask
  <1>6. ASSUME Singleton PROVE TaskInv'
    <2>1. UNCHANGED <<asked, answers, early>> /\ LifeTypes
      BY <1>6 DEF Singleton, LifeInv
    <2>2. ASSUME NEW t \in Threads, NEW where, where \notin {"submit", "run"}, Goto(t, where), UNCHANGED <<queue, arg>>
          PROVE  TaskInv'
      <3>1. \A u \in Threads : pc'[u] \in {"submit", "run"} => pc'[u] = pc[u]
        BY <2>1, <2>2 DEF Goto, LifeTypes
      <3> QED  BY <2>1, <2>2, <3>1, QuietTask
    <2>3. ASSUME NEW c \in Callers, Create(c) PROVE TaskInv'
      <3>1. /\ UNCHANGED <<queue, arg>>
            /\ \/ Goto(c, "make") \/ Goto(c, "swap") \/ Goto(c, "join") \/ Goto(c, "mark") \/ Goto(c, "idle")
        BY <2>3 DEF Create, CreateTest, Make, Swap, JoinOld, Mark, poolVars
      <3> QED  BY <2>2, <3>1, Constants
    <2>4. ASSUME WaitThread \/ Waited \/ Return \/ Destroy PROVE TaskInv'
      <3>1. /\ UNCHANGED <<queue, arg>>
            /\ Goto(Main, "wait") \/ Goto(Main, "idle") \/ Goto(Main, "exit") \/ Goto(Main, "gone")
        BY <2>4 DEF WaitThread, Waited, Return, Destroy, poolVars
      <3> QED  BY <2>2, <3>1, Constants
    <2>5. ASSUME End PROVE TaskInv'
      <3>1. UNCHANGED <<queue, arg, pc>>
        BY <2>5 DEF End, poolVars, threadVars
      <3> QED  BY <2>1, <3>1, QuietTask
    <2>6. ASSUME NEW w \in Workers, Take(w) PROVE TaskInv'
      BY <2>1, <2>6, TakeTask
    <2>7. ASSUME NEW w \in Workers, Leave(w) PROVE TaskInv'
      <3>1. UNCHANGED <<queue, arg>> /\ Goto(w, "exited") /\ w \in Threads
        BY <2>7, Constants DEF Leave, poolVars
      <3> QED  BY <2>2, <3>1
    <2> QED  BY <1>6, <2>3, <2>4, <2>5, <2>6, <2>7 DEF Singleton
  <1>7. CASE UNCHANGED vars
    <2>1. UNCHANGED <<queue, arg, asked, answers, early, pc>>
      BY <1>7 DEF vars, singletonVars, poolVars, threadVars
    <2> QED  BY <2>1, QuietTask
  <1> QED  BY <1>1, <1>2, <1>3, <1>4, <1>5, <1>6, <1>7, <1>8 DEF Next

-----------------------------------------------------------------------------
(* What a running pool has accepted.                                       *)

\* There is a first pool, with a first worker.
LEMMA FirstPool ==
    /\ 1 \in Pools
    /\ \A i \in 1 .. PoolSize : <<1, i>> \in Workers /\ <<1, i>> \in Threads /\ <<1, i>> \notin Callers
    /\ \A w \in Workers : w[1] = 1 => \E i \in 1 .. PoolSize : w = <<1, i>>
    /\ 1 \in 1 .. PoolSize
  <1>1. Cardinality(Callers) # 0
    BY Constants, FS_EmptySet
  <1>2. 1 \in Pools
    BY <1>1, Constants DEF Pools
  <1>3. \A i \in 1 .. PoolSize : <<1, i>> \in Workers
    BY <1>2 DEF Workers
  <1>4. \A w \in Workers : w[1] = 1 => \E i \in 1 .. PoolSize : w = <<1, i>>
    BY DEF Workers
  <1> QED  BY <1>2, <1>3, <1>4, Constants

\* The pool of a request that was accepted, or is on its way, is the first and the only one.
LEMMA OnlyPool ==
    ASSUME LifeInv, ~overlapped
    PROVE  /\ flag => pool = 1
           /\ \A t \in Threads : pc[t] = "submit" => flag /\ ref[t] = 1
  <1>1. made \in Nat /\ made <= 1 /\ pool \in 0 .. made /\ \A t \in Threads : ref[t] \in 0 .. made
    BY DEF LifeInv, LifeTypes, OnePool
  <1>2. pool \in {0, 1} /\ \A t \in Threads : ref[t] \in {0, 1}
    BY <1>1
  <1>3. /\ flag => pool # 0
        /\ \A t \in Threads : pc[t] = "submit" => flag /\ ref[t] # 0
    BY DEF LifeInv, Pointers
  <1> QED  BY <1>2, <1>3

\* A request stays in the pool when no worker leaves or drops it.
LEMMA StaysInPool ==
    ASSUME NEW c, InPool(c), Has(queue[1], c) => Has(queue'[1], c),
           \A i \in 1 .. PoolSize :
                /\ pc[<<1, i>>] # "exited" => pc'[<<1, i>>] # "exited"
                /\ Holds(<<1, i>>, c) => Holds(<<1, i>>, c)'
    PROVE  InPool(c)'
  BY DEF InPool, Has

\* A step that neither moves a task nor concerns a worker.
LEMMA QuietEarly ==
    ASSUME EarlyInv, UNCHANGED <<queue, answers, early>>, overlapped => overlapped', flag => flag',
           process' # "useAfterFree" => process # "useAfterFree",
           \A w \in Workers : pc'[w] = pc[w] /\ arg'[w] = arg[w],
           pc'[Main] = "gone" => pc[Main] = "gone"
    PROVE  EarlyInv'
  <1>1. ASSUME NEW c, InPool(c) PROVE InPool(c)'
    BY <1>1, FirstPool, StaysInPool DEF Holds
  <1> QED  BY <1>1 DEF EarlyInv

\* A step after which the accepted requests are still in the pool.
LEMMA KeepsEarly ==
    ASSUME EarlyInv, UNCHANGED <<answers, early, overlapped, flag>>,
           process' # "useAfterFree" => process # "useAfterFree",
           pc'[Main] = "gone" => pc[Main] = "gone",
           \A c : InPool(c) => InPool(c)'
    PROVE  EarlyInv'
  BY DEF EarlyInv

\* A worker leaves only when the queue is empty, and has nothing in hand.
LEMMA LeaveEarly ==
    ASSUME LifeInv, TaskInv, EarlyInv, NEW w \in Workers, Leave(w), UNCHANGED <<asked, answers, early>>
    PROVE  EarlyInv'
  <1>1. LifeTypes /\ TaskTypes
    BY DEF LifeInv, TaskInv
  <1>2. /\ pc[w] = "idle" /\ queue[w[1]] = <<>> /\ Goto(w, "exited")
        /\ UNCHANGED <<process, flag, queue, arg, overlapped>> /\ w # Main /\ w \in Threads
    BY Constants DEF Leave, At, poolVars
  <1>3. \A u \in Threads : u # w => pc'[u] = pc[u] /\ arg'[u] = arg[u]
    BY <1>1, <1>2 DEF LifeTypes, Goto
  <1>4. ASSUME NEW c, InPool(c) PROVE InPool(c)'
    <2>1. CASE w[1] = 1
      <3>1. ~Has(queue[1], c)
        BY <1>2, <2>1 DEF Has
      <3>2. PICK i \in 1 .. PoolSize : Holds(<<1, i>>, c)
        BY <1>4, <3>1 DEF InPool
      <3>3. <<1, i>> # w /\ <<1, i>> \in Threads
        BY <1>2, <3>2, FirstPool DEF Holds
      <3>4. Holds(<<1, i>>, c)'
        BY <1>3, <3>2, <3>3 DEF Holds
      <3> QED  BY <3>4 DEF InPool
    <2>2. CASE w[1] # 1
      <3>1. \A i \in 1 .. PoolSize : <<1, i>> # w
        BY <2>2
      <3> QED  BY <1>2, <1>3, <1>4, <3>1, FirstPool, StaysInPool DEF Holds
    <2> QED  BY <2>1, <2>2
  <1>5. pc'[Main] = pc[Main]
    BY <1>2, <1>3, Constants
  <1> QED  BY <1>2, <1>4, <1>5, KeepsEarly

\* The worker that takes a task has it in hand.
LEMMA TakeEarly ==
    ASSUME LifeInv, TaskInv, EarlyInv, NEW w \in Workers, Take(w), UNCHANGED <<asked, answers, early>>
    PROVE  EarlyInv'
  <1>1. LifeTypes /\ TaskTypes
    BY DEF LifeInv, TaskInv
  <1>2. /\ pc[w] = "idle" /\ Goto(w, "run") /\ queue[w[1]] # <<>>
        /\ arg' = [arg EXCEPT ![w] = Head(queue[w[1]])]
        /\ queue' = [queue EXCEPT ![w[1]] = Tail(queue[w[1]])]
        /\ UNCHANGED <<process, flag, overlapped>> /\ w \in Threads /\ w # Main
    BY Constants DEF Take, At
  <1>3. queue \in [Pools -> Seq(Tasks)] /\ w[1] \in Pools
    BY <1>1 DEF TaskTypes, Workers
  <1>4. TakenFrom(queue, queue', w[1])
    BY <1>2, <1>3, Taking
  <1>5. PICK e \in Tasks, p \in Pools : e = Head(queue[w[1]]) /\ p = w[1]
    BY <1>3, <1>4 DEF TakenFrom
  <1>6. arg' = [arg EXCEPT ![w] = e]
    BY <1>2, <1>5
  <1>7. /\ pc'[w] = "run" /\ arg'[w] = e
        /\ \A u \in Threads : u # w => pc'[u] = pc[u] /\ arg'[u] = arg[u]
        /\ \A u \in Threads : \A d : u # w => (Holds(u, d)' <=> Holds(u, d))
        /\ \A d : Holds(w, d)' <=> "run" \in {"submit", "run"} /\ e.by = d
    BY <1>1, <1>2, <1>6, OtherHands
  <1>8. /\ \A q \in Pools : q # p => queue'[q] = queue[q]
        /\ \A q \in Pools : \A d : Has(queue[q], d) <=> Has(queue'[q], d) \/ (q = p /\ e.by = d)
    BY <1>4, <1>5 DEF TakenFrom
  <1>9. ASSUME NEW c, InPool(c) PROVE InPool(c)'
    <2>1. CASE Has(queue[1], c) /\ ~Has(queue'[1], c)
      <3>1. p = 1 /\ e.by = c
        BY <1>8, <2>1, FirstPool
      <3>2. PICK i \in 1 .. PoolSize : w = <<1, i>>
        BY <1>5, <3>1, FirstPool
      <3>3. Holds(<<1, i>>, c)'
        BY <1>7, <3>1, <3>2
      <3> QED  BY <3>3 DEF InPool
    <2>2. CASE Has(queue[1], c) => Has(queue'[1], c)
      <3>1. ASSUME NEW i \in 1 .. PoolSize
            PROVE  /\ pc[<<1, i>>] # "exited" => pc'[<<1, i>>] # "exited"
                   /\ Holds(<<1, i>>, c) => Holds(<<1, i>>, c)'
        <4>1. CASE <<1, i>> = w
          BY <1>2, <1>7, <4>1 DEF Holds
        <4>2. CASE <<1, i>> # w
          BY <1>7, <4>2, FirstPool
        <4> QED  BY <4>1, <4>2
      <3> QED  BY <1>9, <2>2, <3>1, StaysInPool
    <2> QED  BY <2>1, <2>2
  <1>10. pc'[Main] = pc[Main]
    BY <1>2, <1>7, Constants
  <1> QED  BY <1>2, <1>9, <1>10, KeepsEarly

\* The task that is submitted is in the queue of the pool, if there is one pool only.
LEMMA SubmitPool ==
    ASSUME LifeInv, TaskInv, NEW t \in Threads, Submit(t), ~overlapped, process' # "useAfterFree"
    PROVE  /\ \A c : InPool(c) => InPool(c)'
           /\ Has(queue'[1], arg[t].by) /\ flag /\ ref[t] = 1
           /\ pc'[t] = "idle" /\ \A u \in Threads : u # t => pc'[u] = pc[u]
  <1>1. LifeTypes /\ TaskTypes
    BY DEF LifeInv, TaskInv
  <1>2. /\ pc[t] = "submit" /\ Goto(t, "idle") /\ arg' = [arg EXCEPT ![t] = NoTask]
        /\ flag /\ ref[t] = 1
    BY OnlyPool DEF Submit, At
  <1>3. queue' = [queue EXCEPT ![1] = Append(queue[1], arg[t])]
    BY <1>2 DEF Submit, Fail
  <1>4. PICK e \in Tasks : e = arg[t]
    BY <1>1, <1>2 DEF TaskTypes
  <1>5. queue \in [Pools -> Seq(Tasks)] /\ queue'[1] = Append(queue[1], e)
    BY <1>1, <1>3, <1>4, FirstPool DEF TaskTypes
  <1>6. \A c : Has(Append(queue[1], e), c) <=> Has(queue[1], c) \/ e.by = c
    <2>1. queue[1] \in Seq(Tasks)
      BY <1>5, FirstPool
    <2> QED  BY <2>1, AppendHas
  <1>7. \A c : Has(queue'[1], c) <=> Has(queue[1], c) \/ e.by = c
    BY <1>5, <1>6
  <1>8. /\ pc'[t] = "idle"
        /\ \A u \in Threads : u # t => pc'[u] = pc[u]
        /\ \A u \in Threads : \A d : u # t => (Holds(u, d)' <=> Holds(u, d))
    BY <1>1, <1>2, OtherHands
  <1>9. ASSUME NEW c, InPool(c) PROVE InPool(c)'
    <2>1. Has(queue[1], c) => Has(queue'[1], c)
      BY <1>7
    <2>2. ASSUME NEW i \in 1 .. PoolSize PROVE pc[<<1, i>>] # "exited" => pc'[<<1, i>>] # "exited"
      BY <1>8, FirstPool
    <2>3. CASE \A i \in 1 .. PoolSize : <<1, i>> = t => ~Holds(t, c)
      <3>1. \A i \in 1 .. PoolSize : Holds(<<1, i>>, c) => Holds(<<1, i>>, c)'
        BY <1>8, <2>3, FirstPool
      <3> QED  BY <1>9, <2>1, <2>2, <3>1, StaysInPool
    <2>4. CASE \E i \in 1 .. PoolSize : <<1, i>> = t /\ Holds(t, c)
      <3>1. Has(queue'[1], c)
        BY <1>4, <1>7, <2>4 DEF Holds
      <3>2. \E i \in 1 .. PoolSize : pc'[<<1, i>>] # "exited"
        BY <1>8, <2>4
      <3> QED  BY <3>1, <3>2 DEF InPool, Has
    <2> QED  BY <2>3, <2>4
  <1>10. Has(queue'[1], arg[t].by)
    BY <1>4, <1>7
  <1> QED  BY <1>2, <1>8, <1>9, <1>10

\* The answer is submitted to the pool whose worker computed it.
LEMMA WorkedEarly ==
    ASSUME LifeInv, TaskInv, EarlyInv, NEW w \in Workers, Worked(w)
    PROVE  EarlyInv'
  <1>1. UNCHANGED <<flag, overlapped, asked, answers, early>> /\ process # "useAfterFree" /\ Submit(w)
    BY DEF Worked, Submit, At, Alive
  <1>2. w \in Threads /\ w # Main /\ Main \in Threads
    BY Constants
  <1>3. ASSUME ~overlapped', process' # "useAfterFree" PROVE EarlyInv'
    <2>1. (\A c : InPool(c) => InPool(c)') /\ \A u \in Threads : u # w => pc'[u] = pc[u]
      BY <1>1, <1>2, <1>3, SubmitPool
    <2>2. pc'[Main] = pc[Main]
      BY <1>2, <2>1
    <2> QED  BY <1>1, <2>1, <2>2, KeepsEarly
  <1> QED  BY <1>3 DEF EarlyInv

\* A running pool accepts the request.
LEMMA AskedEarly ==
    ASSUME LifeInv, TaskInv, EarlyInv, NEW c \in Callers, Asked(c)
    PROVE  EarlyInv'
  <1>1. UNCHANGED <<flag, overlapped, asked, answers>> /\ process # "useAfterFree" /\ Submit(c) /\ pc[c] = "submit"
    BY DEF Asked, Submit, At, Alive
  <1>2. c \in Threads /\ Main \in Threads /\ arg[c].by = c
    BY <1>1, Constants DEF TaskInv, TaskTypes
  <1>3. ASSUME ~overlapped', process' # "useAfterFree" PROVE EarlyInv'
    <2>1. /\ \A d : InPool(d) => InPool(d)'
          /\ Has(queue'[1], c) /\ flag /\ ref[c] = 1
          /\ pc'[c] = "idle" /\ \A u \in Threads : u # c => pc'[u] = pc[u]
      BY <1>1, <1>2, <1>3, SubmitPool
    <2>2. pc'[Main] = "gone" => pc[Main] = "gone" /\ Main # c
      BY <1>2, <2>1
    <2>3. ASSUME NEW d \in early
          PROVE  /\ flag' /\ (answers'[d] # <<>> \/ InPool(d)')
                 /\ pc'[Main] = "gone" => answers'[d] # <<>>
      BY <1>1, <1>3, <2>1, <2>2, <2>3 DEF EarlyInv
    <2>4. ASSUME c \in early', c \notin early
          PROVE  /\ flag' /\ InPool(c)'
                 /\ pc'[Main] # "gone"
      <3>1. 1 \notin stop /\ pc[Main] # "gone"
        BY <2>1, <2>4 DEF Asked
      <3>2. pc[<<1, 1>>] # "exited" /\ pc'[<<1, 1>>] # "exited"
        <4>1. <<1, 1>> \in Workers /\ <<1, 1>> \in Threads /\ <<1, 1>>[1] = 1
          BY FirstPool
        <4>2. pc[<<1, 1>>] # "exited"
          BY <3>1, <4>1 DEF LifeInv, Endings
        <4> QED  BY <2>1, <4>1, <4>2
      <3>3. InPool(c)'
        BY <2>1, <3>2, FirstPool DEF InPool, Has
      <3> QED  BY <1>1, <2>1, <2>2, <3>1, <3>3
    <2>5. \A d \in early' : d \in early \/ d = c
      BY DEF Asked
    <2>6. ASSUME NEW d, d \in early'
          PROVE  /\ flag' /\ (answers'[d] # <<>> \/ InPool(d)')
                 /\ pc'[Main] = "gone" => answers'[d] # <<>>
      <3>1. CASE d \in early
        BY <2>3, <3>1
      <3>2. CASE d \notin early
        <4>1. c \in early' /\ c \notin early /\ d = c
          BY <2>5, <2>6, <3>2
        <4> QED  BY <2>4, <4>1
      <3> QED  BY <3>1, <3>2
    <2> QED  BY <2>6 DEF EarlyInv
  <1> QED  BY <1>3 DEF EarlyInv

\* A task gets the pool to submit the answer.
LEMMA WorkEarly ==
    ASSUME LifeInv, TaskInv, EarlyInv, NEW w \in Workers, Work(w)
    PROVE  EarlyInv'
  <1>1. LifeTypes /\ TaskTypes /\ w \in Threads /\ w # Main /\ Main \in Threads
    BY Constants DEF LifeInv, TaskInv
  <1>2. pc[w] = "run" /\ process # "useAfterFree" /\ UNCHANGED <<asked, answers, early>>
    BY DEF Work, At, Alive
  <1>3. CASE UNCHANGED <<poolVars, threadVars, overlapped>>
    BY <1>2, <1>3, QuietEarly DEF poolVars, threadVars
  <1>4. ASSUME NEW answer, Get(w, [by |-> arg[w].by, answer |-> answer]) PROVE EarlyInv'
    <2>1. PICK task : task = [by |-> arg[w].by, answer |-> answer]
      OBVIOUS
    <2>2. /\ task.by = arg[w].by /\ Goto(w, "submit") /\ arg' = [arg EXCEPT ![w] = task]
          /\ UNCHANGED <<process, flag, queue, overlapped>>
      BY <1>4, <2>1 DEF Get, poolVars
    <2>3. /\ pc'[w] = "submit"
          /\ \A u \in Threads : u # w => pc'[u] = pc[u]
          /\ \A u \in Threads : \A d : u # w => (Holds(u, d)' <=> Holds(u, d))
          /\ \A d : Holds(w, d)' <=> task.by = d
      <3>1. /\ pc'[w] = "submit" /\ arg'[w] = task
            /\ \A u \in Threads : u # w => pc'[u] = pc[u] /\ arg'[u] = arg[u]
        BY <1>1, <2>2 DEF Goto, LifeTypes, TaskTypes
      <3> QED  BY <3>1 DEF Holds
    <2>4. ASSUME NEW c, InPool(c) PROVE InPool(c)'
      <3>1. ASSUME NEW u \in Threads
            PROVE  /\ pc[u] # "exited" => pc'[u] # "exited"
                   /\ Holds(u, c) => Holds(u, c)'
        BY <2>2, <2>3 DEF Holds
      <3> QED  BY <2>2, <2>4, <3>1, FirstPool, StaysInPool
    <2>5. pc'[Main] = pc[Main]
      BY <1>1, <2>3
    <2> QED  BY <1>2, <2>2, <2>4, <2>5, KeepsEarly
  <1> QED  BY <1>3, <1>4 DEF Work

\* A callback answers its request, and no other.
LEMMA CallbackEarly ==
    ASSUME LifeInv, TaskInv, EarlyInv, NEW w \in Workers, Callback(w)
    PROVE  EarlyInv'
  <1>1. LifeTypes /\ TaskTypes /\ w \in Threads /\ w # Main /\ Main \in Threads
    BY Constants DEF LifeInv, TaskInv
  <1>2. /\ arg[w].by \in Callers /\ Holds(w, arg[w].by) /\ answers'[arg[w].by] # <<>>
        /\ \A d \in Callers : d # arg[w].by => answers'[d] = answers[d]
    BY CallbackTask
  <1>3. /\ Goto(w, "idle") /\ arg' = [arg EXCEPT ![w] = NoTask] /\ process # "useAfterFree"
        /\ UNCHANGED <<flag, queue, overlapped, early>>
    BY DEF Callback, poolVars, At, Alive
  <1>4. /\ pc'[w] = "idle"
        /\ \A u \in Threads : u # w => pc'[u] = pc[u]
        /\ \A u \in Threads : \A d : u # w => (Holds(u, d)' <=> Holds(u, d))
    BY <1>1, <1>3, OtherHands
  <1>5. ASSUME NEW d, d # arg[w].by, InPool(d) PROVE InPool(d)'
    <2>1. ASSUME NEW u \in Threads
          PROVE  /\ pc[u] # "exited" => pc'[u] # "exited"
                 /\ Holds(u, d) => Holds(u, d)'
      BY <1>4, <1>5 DEF Holds
    <2> QED  BY <1>3, <1>5, <2>1, FirstPool, StaysInPool
  <1>6. pc'[Main] = pc[Main] /\ early \subseteq Callers
    BY <1>1, <1>4 DEF TaskTypes
  <1> QED  BY <1>2, <1>3, <1>5, <1>6 DEF EarlyInv

\* When the pool is destroyed, its workers have left, and so nothing is left in it.
LEMMA DestroyEarly ==
    ASSUME LifeInv, EarlyInv, Destroy, UNCHANGED <<asked, answers, early>>
    PROVE  EarlyInv'
  <1>1. UNCHANGED <<flag, overlapped>> /\ process # "useAfterFree" /\ (pool = 0 \/ Joined(pool))
    BY DEF Destroy, At, Alive
  <1>2. ASSUME ~overlapped, NEW c \in early PROVE flag /\ answers[c] # <<>>
    <2>1. flag /\ (answers[c] # <<>> \/ InPool(c))
      BY <1>1, <1>2 DEF EarlyInv
    <2>2. Joined(1)
      BY <1>1, <1>2, <2>1, OnlyPool
    <2>3. ~InPool(c)
      BY <2>2 DEF InPool, Joined, Holds
    <2> QED  BY <2>1, <2>3
  <1> QED  BY <1>1, <1>2 DEF EarlyInv

\* The accepted requests: an invariant.
LEMMA EarlyStep == ASSUME LifeInv, TaskInv, EarlyInv, [Next]_vars PROVE EarlyInv'
  <1>1. LifeTypes /\ TaskTypes
    BY DEF LifeInv, TaskInv
  <1>2. ASSUME NEW c \in Callers, NEW where, Goto(c, where), where = "gone" => FALSE,
               UNCHANGED <<queue, answers, early>>, overlapped => overlapped', flag => flag',
               process # "useAfterFree", \A w \in Workers : arg'[w] = arg[w]
        PROVE  EarlyInv'
    <2>1. \A w \in Workers : pc'[w] = pc[w]
      BY <1>1, <1>2, Constants DEF LifeTypes, Goto
    <2>2. pc'[Main] = "gone" => pc[Main] = "gone"
      BY <1>1, <1>2, Constants DEF LifeTypes, Goto
    <2> QED  BY <1>2, <2>1, <2>2, QuietEarly
  <1>3. ASSUME NEW c \in Callers, Ask(c) PROVE EarlyInv'
    <2>1. /\ UNCHANGED <<queue, answers, early, overlapped, flag>> /\ Goto(c, "submit")
          /\ process # "useAfterFree"
      BY <1>3 DEF Ask, Get, At, Alive, poolVars
    <2>2. \A w \in Workers : arg'[w] = arg[w]
      <3>1. PICK task : arg' = [arg EXCEPT ![c] = task]
        BY <1>3 DEF Ask, Get
      <3> QED  BY <1>1, <3>1, Constants DEF TaskTypes
    <2> QED  BY <1>2, <2>1, <2>2
  <1>8. ASSUME NEW c \in Callers, Refused(c) PROVE EarlyInv'
    BY <1>8, QuietEarly DEF Refused, poolVars, threadVars, At, Alive
  <1>4. ASSUME NEW c \in Callers, Asked(c) PROVE EarlyInv'
    BY <1>4, AskedEarly
  <1>5. ASSUME NEW w \in Workers, Work(w) \/ Worked(w) \/ Callback(w) PROVE EarlyInv'
    BY <1>5, WorkEarly, WorkedEarly, CallbackEarly
  <1>6. ASSUME Singleton PROVE EarlyInv'
    <2>1. UNCHANGED <<asked, answers, early>>
      BY <1>6 DEF Singleton
    <2>2. ASSUME NEW c \in Callers, Create(c) PROVE EarlyInv'
      <3>1. UNCHANGED <<queue, arg>> /\ process # "useAfterFree" /\ (flag' = TRUE \/ UNCHANGED flag)
        BY <2>2 DEF Create, CreateTest, Make, Swap, JoinOld, Mark, poolVars, At, Alive
      <3>2. Goto(c, "make") \/ Goto(c, "swap") \/ Goto(c, "join") \/ Goto(c, "mark") \/ Goto(c, "idle")
        BY <2>2 DEF Create, CreateTest, Make, Swap, JoinOld, Mark
      <3>3. overlapped => overlapped'
        <4>1. CASE CreateTest(c)
          BY <4>1, Zenon DEF CreateTest
        <4>2. CASE Make(c) \/ Swap(c) \/ JoinOld(c) \/ Mark(c)
          <5>1. UNCHANGED overlapped
            BY <4>2 DEF Make, Swap, JoinOld, Mark
          <5> QED  BY <5>1
        <4> QED  BY <2>2, <4>1, <4>2 DEF Create
      <3>4. flag => flag'
        BY <3>1
      <3> QED  BY <1>2, <2>1, <3>1, <3>2, <3>3, <3>4
    <2>3. ASSUME WaitThread \/ Waited \/ Return PROVE EarlyInv'
      <3>1. UNCHANGED <<queue, arg, overlapped, flag>> /\ process # "useAfterFree"
        BY <2>3 DEF WaitThread, Waited, Return, poolVars, At, Alive
      <3>2. Goto(Main, "wait") \/ Goto(Main, "idle") \/ Goto(Main, "exit")
        BY <2>3 DEF WaitThread, Waited, Return
      <3> QED  BY <1>2, <2>1, <3>1, <3>2, Constants
    <2>4. ASSUME Destroy PROVE EarlyInv'
      BY <2>1, <2>4, DestroyEarly
    <2>5. ASSUME End PROVE EarlyInv'
      BY <2>1, <2>5, QuietEarly DEF End, poolVars, threadVars
    <2>6. ASSUME NEW w \in Workers, Take(w) \/ Leave(w) PROVE EarlyInv'
      BY <2>1, <2>6, TakeEarly, LeaveEarly
    <2> QED  BY <1>6, <2>2, <2>3, <2>4, <2>5, <2>6 DEF Singleton
  <1>7. CASE UNCHANGED vars
    BY <1>7, QuietEarly DEF vars, singletonVars, poolVars, threadVars
  <1> QED  BY <1>3, <1>4, <1>5, <1>6, <1>7, <1>8 DEF Next

\* Only a request whose answer does not return, a callback that throws and a refusal end the
\* process by an exception.
LEMMA CrashStep == ASSUME LifeInv, TaskInv, CrashInv, [Next]_vars PROVE CrashInv'
  <1>1. LifeTypes /\ TaskTypes /\ OnePlace /\ OwnRequests
    BY DEF LifeInv, TaskInv
  <1>2. CASE process' \notin {"terminated", "overrun"}
    BY <1>2 DEF CrashInv
  <1>4. CASE UNCHANGED vars
    <2>1. UNCHANGED <<process, flag, asked, answers>>
      BY <1>4 DEF vars, singletonVars, poolVars
    <2> QED  BY <2>1 DEF CrashInv
  <1>5. ASSUME NEW w \in Workers, Work(w), process' \in {"terminated", "overrun"} PROVE CrashInv'
    <2>1. /\ w \in Threads /\ arg[w] \in Tasks /\ "request" \in DOMAIN arg[w] /\ Made(arg[w])
          /\ process \notin {"terminated", "overrun"} /\ asked' = asked
      BY <1>1, <1>5, Constants DEF Work, At, Alive, TaskTypes, OwnRequests
    <2>2. arg[w].request \in Requests /\ arg[w].by \in Callers
      <3>1. CASE arg[w] \in [by : Callers, request : Requests]
        BY <3>1
      <3>2. CASE arg[w] \in [by : Callers, answer : UNION {Answers(r) : r \in Requests}]
        <4>1. DOMAIN arg[w] = {"by", "answer"}
          BY <3>2
        <4> QED  BY <2>1, <4>1
      <3> QED  BY <2>1, <3>1, <3>2 DEF Tasks
    <2>3. \E answer \in Answers(arg[w].request) : answer.end # "returns"
      BY <1>5, <2>1 DEF Work, Get
    <2>4. asked'[arg[w].by] = <<arg[w].request>>
      BY <2>1 DEF Made
    <2> QED  BY <2>2, <2>3, <2>4 DEF CrashInv
  <1>7. ASSUME NEW w \in Workers, Callback(w), process' \in {"terminated", "overrun"} PROVE CrashInv'
    <2>1. /\ process' = "terminated" /\ asked[arg[w].by][1].callback = "plain" /\ UNCHANGED asked
      BY <1>7 DEF Callback, At, Alive, Fail
    <2>2. arg[w].by \in Callers /\ Holds(w, arg[w].by) /\ answers'[arg[w].by] # <<>> /\ w \in Threads
      BY <1>7, CallbackTask, Constants
    <2>3. asked[arg[w].by] # <<>>
      BY <1>1, <2>2 DEF OnePlace
    <2>4. PICK r \in Requests : asked[arg[w].by] = <<r>>
      BY <1>1, <2>2, <2>3 DEF TaskTypes
    <2>5. r.callback = "plain"
      BY <2>1, <2>4
    <2> QED  BY <2>1, <2>2, <2>4, <2>5 DEF CrashInv
  <1>8. ASSUME NEW c \in Callers, Refused(c) PROVE CrashInv'
    <2>1. PICK request \in Menu[c] : request.callback = "noexcept" /\ asked' = [asked EXCEPT ![c] = <<request>>]
      BY <1>8 DEF Refused
    <2>2. process' = "terminated" /\ ~flag' /\ request \in Requests
      BY <1>8 DEF Refused, Fail, poolVars, Requests
    <2>3. asked'[c] = <<request>>
      BY <1>1, <2>1 DEF TaskTypes
    <2> QED  BY <2>1, <2>2, <2>3 DEF CrashInv
  <1>6. ASSUME Next, ~\E w \in Workers : Work(w) \/ Callback(w), ~\E c \in Callers : Refused(c)
        PROVE  process' \notin {"terminated", "overrun"}
    BY <1>6 DEF Next, Ask, Asked, Worked, Singleton, Create, CreateTest, Make, Swap, JoinOld, Mark,
          WaitThread, Waited, Return, Destroy, End, Take, Leave, Get, Submit, At, Alive, Fail
  <1> QED  BY <1>2, <1>4, <1>5, <1>6, <1>7, <1>8

-----------------------------------------------------------------------------
(* The theorems.                                                           *)

\* The life of the pools, the way of every request and the requests accepted in time: what
\* every step of the callers, of main and of the workers keeps.
THEOREM Invariance == Spec => [](LifeInv /\ TaskInv /\ EarlyInv /\ CrashInv)
  <1>1. Init => LifeInv /\ TaskInv /\ EarlyInv /\ CrashInv
    BY InitLife, InitTask
  <1>2. LifeInv /\ TaskInv /\ EarlyInv /\ CrashInv /\ [Next]_vars
            => (LifeInv /\ TaskInv /\ EarlyInv /\ CrashInv)'
    BY LifeStep, TaskStep, EarlyStep, CrashStep
  <1> QED  BY <1>1, <1>2, PTL DEF Spec

\* Every caller makes one pool at most, and no callback of a request is called twice.
THEOREM TypeCorrect == Spec => []TypeOK
  <1>1. LifeInv /\ TaskInv => TypeOK
    <2> SUFFICES ASSUME LifeInv, TaskInv PROVE TypeOK
      OBVIOUS
    <2>1. LifeTypes /\ OneEach /\ TaskTypes /\ OnePlace
      BY DEF LifeInv, TaskInv
    <2>2. made \in 0 .. Cardinality(Callers)
      <3>1. made \in Nat
        BY <2>1 DEF LifeTypes
      <3> QED  BY <2>1, <3>1, CountTypes, Constants DEF OneEach
    <2>3. {flag, overlapped} \subseteq BOOLEAN
      BY <2>1, Zenon DEF LifeTypes
    <2>4. SingletonTypeOK
      BY <2>1, <2>2, <2>3 DEF LifeTypes, SingletonTypeOK
    <2>5. ASSUME NEW c \in Callers
          PROVE  Len(answers[c]) <= Len(asked[c]) /\ (c \in early => asked[c] # <<>>)
      <3>1. Len(answers[c]) <= 1 /\ (asked[c] = <<>> => answers[c] = <<>> /\ c \notin early)
        BY <2>1 DEF OnePlace
      <3>2. asked[c] = <<>> \/ \E r \in Requests : asked[c] = <<r>>
        BY <2>1 DEF TaskTypes
      <3>3. asked[c] = <<>> => Len(answers[c]) = 0 /\ Len(asked[c]) = 0
        BY <3>1
      <3>4. (\E r \in Requests : asked[c] = <<r>>) => Len(asked[c]) = 1
        OBVIOUS
      <3> QED  BY <3>1, <3>2, <3>3, <3>4
    <2> QED  BY <2>4, <2>5 DEF TypeOK
  <1> QED  BY <1>1, Invariance, PTL

\* The reference that getThreadManager gives away lives as long as it is used, unless two
\* threads created a pool at the same time or main has returned.
THEOREM PoolLives == Spec => []PoolOutlivesUse
  <1>1. LifeInv => PoolOutlivesUse
    BY DEF LifeInv, Endings
  <1> QED  BY <1>1, Invariance, PTL

\* ~THREAD waits for the workers, and these leave only an empty queue: every request that
\* asyncParserBasicUri, asyncParserQueryUri or asyncCreateHttpv1Tmp gave a running pool has
\* been answered when the process ends.
THEOREM AnsweredInTime == Spec => []AnsweredByEnd
  <1>1. LifeInv /\ EarlyInv => AnsweredByEnd
    BY DEF LifeInv, Endings, EarlyInv, AnsweredByEnd
  <1> QED  BY <1>1, Invariance, PTL

-----------------------------------------------------------------------------
(* What the callers are answered.                                         *)

\* The task of a request returns when the URL is well-formed; that of a template always does.
LEMMA TaskReturns ==
    ASSUME NEW r \in Requests, r.kind \in {"basic", "query"} => \E u \in Urls : r.url = UrlText(u),
           NEW answer \in Answers(r)
    PROVE  answer.end = "returns"
  <1>1. r.kind \in {"basic", "query", "template"}
    BY MenuAssumption DEF Requests
  <1>2. CASE r.kind = "basic"
    <2>1. UrlFront(r.url).end = "returns"
      BY <1>2, FrontReturns
    <2>2. answer = ParserBasicUrl(r.url)
      BY <1>2 DEF Answers
    <2>3. answer = [UrlFront(r.url) EXCEPT !.path = SubSeq(r.url, UrlFront(r.url).path, Len(r.url))]
      BY <2>2 DEF ParserBasicUrl
    <2>4. "end" \in DOMAIN UrlFront(r.url)
      BY DEF UrlFront
    <2> QED  BY <2>1, <2>3, <2>4
  <1>3. CASE r.kind = "query"
    <2>1. UrlFront(r.url).end = "returns"
      BY <1>3, FrontReturns
    <2>2. PICK found : found = ParserQueryUrl(r.url)
      OBVIOUS
    <2>3. "end" \in DOMAIN found /\ found.end = "returns"
      BY <2>1, <2>2 DEF ParserQueryUrl
    <2>4. answer = [part \in DOMAIN found \cup {"fullPath"} |->
                        IF part = "fullPath" THEN found.basicPath \o found.queryPath ELSE found[part]]
      BY <1>3, <2>2 DEF Answers
    <2> QED  BY <2>3, <2>4
  <1>4. CASE r.kind = "template"
    BY <1>4 DEF Answers
  <1> QED  BY <1>1, <1>2, <1>3, <1>4

\* An exception that ends the process, and a loop that leaves the string, come from a URL that
\* is not well-formed, from a callback that throws when it is called, or from a request with a
\* noexcept callback before a pool was marked: std::stoi is given the port of a well-formed URL,
\* the three characters behind the scheme are there, and once a pool is marked no task finds none.
THEOREM CrashesExplained == Spec => []CrashesAreTheCallers
  <1>1. CrashInv => CrashesAreTheCallers
    <2> SUFFICES ASSUME CrashInv, process \in {"terminated", "overrun"}
                 PROVE  \E c \in Callers : \E request \in Range(asked[c]) :
                            \/ request.kind \in {"basic", "query"} /\ \A u \in Urls : request.url # UrlText(u)
                            \/ process = "terminated" /\ request.callback = "plain" /\ answers[c] # <<>>
                            \/ process = "terminated" /\ request.callback = "noexcept" /\ ~flag
      BY DEF CrashesAreTheCallers
    <2>1. PICK c \in Callers, r \in Requests :
            /\ asked[c] = <<r>>
            /\ \/ \E answer \in Answers(r) : answer.end # "returns"
               \/ process = "terminated" /\ r.callback = "plain" /\ answers[c] # <<>>
               \/ process = "terminated" /\ r.callback = "noexcept" /\ ~flag
      BY DEF CrashInv
    <2>2. (\E answer \in Answers(r) : answer.end # "returns") =>
            r.kind \in {"basic", "query"} /\ \A u \in Urls : r.url # UrlText(u)
      BY TaskReturns
    <2>3. r \in Range(asked[c])
      <3>1. 1 \in DOMAIN asked[c] /\ asked[c][1] = r
        BY <2>1
      <3> QED  BY <3>1 DEF Range
    <2> QED  BY <2>1, <2>2, <2>3
  <1> QED  BY <1>1, Invariance, PTL

\* What a callback was called with is the answer to its caller's request.
LEMMA AnswerIsOwn ==
    ASSUME TaskInv, NEW c \in Callers, NEW answer \in Range(answers[c])
    PROVE  asked[c][1] \in Requests /\ answer \in Answers(asked[c][1])
  <1>1. PICK i \in DOMAIN answers[c] : answers[c][i] = answer
    BY DEF Range
  <1>2. answers[c] # <<>>
    BY <1>1
  <1>3. PICK r \in Requests : asked[c] = <<r>>
    BY <1>2 DEF TaskInv, TaskTypes, OnePlace
  <1> QED  BY <1>1, <1>3 DEF TaskInv, OwnAnswers

LEMMA BasicAnswer ==
    ASSUME NEW r, r.kind = "basic", NEW answer \in Answers(r), NEW u \in Urls, r.url = UrlText(u), u.path # <<>>
    PROVE  SameOrigin(answer, u) /\ answer.path = Behind(u)
  <1>1. answer = ParserBasicUrl(r.url)
    BY DEF Answers
  <1>2. answer = ParserBasicUrl(UrlText(u))
    BY <1>1, Zenon
  <1> QED  BY <1>2, BasicIsSplit

LEMMA QueryAnswered ==
    ASSUME NEW r, r.kind = "query", NEW answer \in Answers(r), NEW u \in Urls, r.url = UrlText(u), u.path # <<>>
    PROVE  /\ SameOrigin(answer, u)
           /\ u.params \o u.fragment # <<>> =>
                /\ answer.basicPath = u.path /\ answer.queryPath = QueryText(u.params)
                /\ answer.fullPath = u.path \o QueryText(u.params)
                /\ AllHaveValues(u.params) => answer.map = Meaning(u.params)
  <1>1. answer = QueryAnswer(r.url)
    BY Zenon DEF Answers, QueryAnswer
  <1>2. answer = QueryAnswer(UrlText(u))
    BY <1>1, Zenon
  <1> QED  BY <1>2, QueryIsSplit

\* asyncParserBasicUri and asyncParserQueryUri give their callbacks the parts that a URL of any
\* length was made of, however the pool's workers and the callers interleave: no callback is
\* called with what another caller's URL was.
THEOREM UrlsSplit == Spec => []UrlsAreSplit
  <1>1. TaskInv => UrlsAreSplit
    <2> SUFFICES ASSUME TaskInv PROVE UrlsAreSplit
      OBVIOUS
    <2>1. ASSUME NEW c \in Callers, NEW answer \in Range(answers[c]), NEW u \in Urls,
                 asked[c][1].kind = "basic", asked[c][1].url = UrlText(u), u.path # <<>>
          PROVE  SameOrigin(answer, u) /\ answer.path = Behind(u)
      BY <2>1, AnswerIsOwn, BasicAnswer
    <2>2. ASSUME NEW c \in Callers, NEW answer \in Range(answers[c]), NEW u \in Urls,
                 asked[c][1].kind = "query", asked[c][1].url = UrlText(u), u.path # <<>>
          PROVE  /\ SameOrigin(answer, u)
                 /\ u.params \o u.fragment # <<>> =>
                      /\ answer.basicPath = u.path /\ answer.queryPath = QueryText(u.params)
                      /\ answer.fullPath = u.path \o QueryText(u.params)
                      /\ AllHaveValues(u.params) => answer.map = Meaning(u.params)
      BY <2>2, AnswerIsOwn, QueryAnswered
    <2> QED  BY <2>1, <2>2, Zenon DEF UrlsAreSplit, AnswersTo
  <1> QED  BY <1>1, Invariance, PTL

\* TemplateIsRead of one answer.
LEMMA TemplateAnswered ==
    ASSUME ToStringApart, NEW r \in Requests, r.kind = "template", NEW answer \in Answers(r)
    PROVE  IsRead(answer.text, r.host, r.path, r.body, r.method, r.headers)
  <1>1. PICK text \in CreateHttpv1Template(r.host, r.path, r.body, r.method, r.headers) :
            answer = [end |-> "returns", text |-> text]
    BY DEF Answers
  <1>2. /\ r.method \in {"GET", "POST"} /\ r.body \in Seq(STRING) /\ IsFiniteSet(r.headers)
        /\ r.headers \subseteq (STRING \ {"Content-Length"}) \X STRING
    BY MenuAssumption DEF Requests
  <1>3. IsRead(text, r.host, r.path, r.body, r.method, r.headers)
    BY <1>2, TemplateRead
  <1>4. answer.text = text
    BY <1>1
  <1> QED  BY <1>3, <1>4

\* What asyncCreateHttpv1Tmp gives its callback is, for a body of any length and any headers,
\* a text of which a server reads the caller's request line, headers and as many bytes as
\* Content-Length says, provided that different numbers are written differently.
THEOREM TemplatesRead == ASSUME ToStringApart PROVE Spec => []TemplateIsRead
  <1>1. TaskInv => TemplateIsRead
    <2> SUFFICES ASSUME TaskInv, NEW c \in Callers, NEW answer \in Range(answers[c]), NEW request,
                        request = asked[c][1], request.kind = "template", NEW read, read = ServerReads(answer.text)
                 PROVE  LET complete == \A h \in request.headers : h[1] # "" /\ h[2] # ""
                        IN /\ RequestLine(request.method, request.path) \in read.head
                           /\ {Header("Host", request.host), Header("Connection", "close")} \subseteq read.head
                           /\ complete =>
                                /\ request.headers \subseteq read.head
                                /\ read.lines = Cardinality(request.headers)
                                                    + (IF request.method = "POST" THEN 4 ELSE 3)
                           /\ read.body = IF complete /\ request.method = "POST"
                                          THEN SubSeq(<<"\r", "\n">> \o request.body, 1, Len(request.body)) ELSE <<>>
      BY Zenon DEF TemplateIsRead
    <2>1. IsRead(answer.text, request.host, request.path, request.body, request.method, request.headers)
      BY AnswerIsOwn, TemplateAnswered
    <2>2. AllWhole(request.headers) <=> \A h \in request.headers : h[1] # "" /\ h[2] # ""
      BY Zenon DEF AllWhole, Whole
    <2> QED  BY <2>1, <2>2, Zenon DEF IsRead, CrLf
  <1> QED  BY <1>1, Invariance, PTL
=============================================================================
