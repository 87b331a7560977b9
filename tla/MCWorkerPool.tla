---------------------------- MODULE MCWorkerPool ----------------------------
(* The pool on two tasks and two workers; b is the more urgent task.        *)
EXTENDS WorkerPool, TLC

CONSTANTS a, b, v, w

MCItems == {a, b}

MCWorkers == {v, w}

MCDedupKey == [i \in MCItems |-> NoKey]

MCPriority == [i \in MCItems |-> IF i = b THEN 1 ELSE 0]

WorkerSymmetry == Permutations(MCWorkers)

MCOneWorker == {v}
=============================================================================
