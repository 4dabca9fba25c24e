--------------------------- MODULE MCThreadManager ---------------------------
(***************************************************************************)
(* ThreadManager on small instances: two workers, the client that shuts the *)
(* pool down and one more, three tasks.                                     *)
(***************************************************************************)
EXTENDS ThreadManager, TLC

CONSTANTS w1, w2, main, client, t1, t2, t3

MCWorkers == {w1, w2}
OneWorker == {w1}
MCClients == {main, client}
MCTasks == {t1, t2, t3}
TwoTasks == {t1, t2}
OneRetTask == {t1}
NoRetTasks == {}

\* Workers are interchangeable, and so are tasks submitted in the same way.
\* Used for safety only.
Symmetry == Permutations(MCWorkers) \cup Permutations(MCTasks)
MixedSymmetry == Permutations(MCWorkers) \cup Permutations({t2, t3})
=============================================================================
