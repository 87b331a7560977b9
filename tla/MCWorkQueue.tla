---------------------------- MODULE MCWorkQueue ----------------------------
(* WorkQueue on three tasks: a and b share a dedup key, c is urgent.        *)
EXTENDS WorkQueue

CONSTANTS a, b, c

MCItems == {a, b, c}

MCDedupKey == [i \in MCItems |-> IF i = c THEN NoKey ELSE "k"]

MCPriority == [i \in MCItems |-> IF i = c THEN 1 ELSE 0]
=============================================================================
