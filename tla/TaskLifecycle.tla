--------------------------- MODULE TaskLifecycle ---------------------------
(***************************************************************************)
(* What the runtime promises about one unit of work, whatever the storage: *)
(* the life cycle documented on the enum TaskStatus (tasks/domain/ports.py)*)
(* with the retry budget of WorkItem.max_attempts.  A task is accepted     *)
(* once, is started at most MaxAttempts times, is parked while a human     *)
(* decides, and ends in exactly one terminal state it never leaves.        *)
(* WorkQueue.tla, the durable SQLite queue, is shown to implement it.      *)
(***************************************************************************)
EXTENDS Naturals

CONSTANTS
    Items,        \* ids of the units of work
    MaxAttempts   \* WorkItem.max_attempts: how often one may be started

VARIABLES
    state,        \* the life-cycle state of every id ever used
    starts        \* how many times each task has been handed to a worker

Terminal == {"completed", "failed", "rejected", "cancelled"}

Live == {"pending", "in_progress", "pending_approval"}

States == {"absent"} \cup Live \cup Terminal

LInit ==
    /\ state = [i \in Items |-> "absent"]
    /\ starts = [i \in Items |-> 0]

Accept(i) ==
    /\ state[i] = "absent"
    /\ state' = [state EXCEPT ![i] = "pending"]
    /\ UNCHANGED starts

Start(i) ==
    /\ state[i] = "pending"
    /\ starts[i] < MaxAttempts
    /\ state' = [state EXCEPT ![i] = "in_progress"]
    /\ starts' = [starts EXCEPT ![i] = @ + 1]

(* The task ends: with evidence, exhausted, refused, or stopped.           *)
Finish(i, end) ==
    /\ state[i] = "in_progress"
    /\ state' = [state EXCEPT ![i] = end]
    /\ UNCHANGED starts

(* The action it proposed waits for a human; its worker is free again.     *)
Park(i) ==
    /\ state[i] = "in_progress"
    /\ state' = [state EXCEPT ![i] = "pending_approval"]
    /\ UNCHANGED starts

Unpark(i) ==
    /\ state[i] = "pending_approval"
    /\ state' = [state EXCEPT ![i] = "pending"]
    /\ UNCHANGED starts

(* A retry with backoff (one task) or the recovery of orphans (several).   *)
Requeue(S) ==
    /\ \A i \in S : state[i] = "in_progress"
    /\ state' = [i \in Items |-> IF i \in S THEN "pending" ELSE state[i]]
    /\ UNCHANGED starts

LNext ==
    \/ \E i \in Items :
          \/ Accept(i)
          \/ Start(i)
          \/ \E end \in Terminal : Finish(i, end)
          \/ Park(i)
          \/ Unpark(i)
    \/ \E S \in SUBSET Items : Requeue(S)

LSpec == LInit /\ [][LNext]_<<state, starts>>
=============================================================================
