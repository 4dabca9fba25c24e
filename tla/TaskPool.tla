------------------------------ MODULE TaskPool ------------------------------
(***************************************************************************)
(* What a thread pool promises, without locks, counters or condition       *)
(* variables: tasks are queued in the order they are submitted, each       *)
(* worker starts the oldest one when it has nothing to do, and a task that *)
(* was started is finished by the worker that started it.                  *)
(***************************************************************************)
EXTENDS Naturals, Sequences

CONSTANTS
    Tasks,      \* the tasks that may be submitted, each at most once
    Workers,    \* the threads that run them
    NoTask      \* what an idle worker is running: not one of Tasks

VARIABLES
    pending,    \* the submitted tasks nobody has started, oldest first
    running,    \* the task each worker is running
    done        \* the finished tasks

vars == <<pending, running, done>>

Pending == {pending[i] : i \in DOMAIN pending}
Running == {running[w] : w \in Workers} \ {NoTask}

Init ==
    /\ pending = <<>>
    /\ running = [w \in Workers |-> NoTask]
    /\ done = {}

\* A fresh task is queued; nothing else is affected.
Submit(t) ==
    /\ t \notin Pending \cup Running \cup done
    /\ pending' = Append(pending, t)
    /\ UNCHANGED <<running, done>>

\* An idle worker starts the oldest task.
Start(w) ==
    /\ running[w] = NoTask
    /\ pending # <<>>
    /\ running' = [running EXCEPT ![w] = Head(pending)]
    /\ pending' = Tail(pending)
    /\ UNCHANGED done

\* A worker finishes what it runs.
Finish(w) ==
    /\ running[w] # NoTask
    /\ done' = done \cup {running[w]}
    /\ running' = [running EXCEPT ![w] = NoTask]
    /\ UNCHANGED pending

Next ==
    \/ \E t \in Tasks : Submit(t)
    \/ \E w \in Workers : Start(w) \/ Finish(w)

Spec == Init /\ [][Next]_vars
=============================================================================
