----------------------------- MODULE WorkerPool -----------------------------
(***************************************************************************)
(* The daemon that drains the queue: the workers of tasks/application/     *)
(* worker_pool.py, each running AgentLoopOrchestrator._process on the task *)
(* it claimed, with the kill switch, the cancel registry, the heartbeat    *)
(* that renews the lease, and a process that may die at any point and is   *)
(* started again by systemd (reconcile_stale runs at start-up only).       *)
(*                                                                         *)
(* The workers are coroutines of one event loop and the SQLite calls do    *)
(* not suspend, so is_paused and the claim_next after it are one step, and *)
(* so are a mark_* and the assignments around it.  A worker is suspended,  *)
(* and others run, while it signs TASK_CLAIMED, while the engine and the   *)
(* broker work, and while it signs the outcome.                            *)
(***************************************************************************)
EXTENDS WorkQueue

CONSTANTS
    Workers,       \* the coroutines worker-0 .. worker-(size-1)
    MaxCrashes,    \* bound: how often the process dies (SIGKILL, SIGTERM)
    MaxErrors      \* bound: how often a worker meets an unexpected exception

ASSUME PoolAssumption ==
    /\ Workers # {}
    /\ MaxCrashes \in Nat
    /\ MaxErrors \in Nat

VARIABLES
    pc,          \* where each worker is in _worker_main / _process
    held,        \* the claim token of the item a worker processes, 0 if none
    up,          \* the daemon process is running
    paused,      \* agent_runtime_state.loop_state = 'paused' (durable)
    cancelReq,   \* TaskCancelRegistry._reasons (lost with the process)
    crashes,
    errors

procVars == <<pc, held, up, paused, cancelReq, crashes, errors>>

poolVars == <<vars, procVars>>

(* "idle"    at the top of _worker_main;                                    *)
(* "claimed" signing TASK_CLAIMED, before the cancel check;                 *)
(* "cycle"   in engine.run_cycle or in broker.dispatch;                     *)
(* "report"  after the mark, signing the outcome and notifying;             *)
(* "off"     the coroutine has ended, or the process is down.               *)
Places == {"idle", "claimed", "cycle", "report", "off"}

(* The row of the item a worker processes is still to be settled by it.    *)
Busy(w) == pc[w] \in {"claimed", "cycle"}

Task(w) == receipts[held[w]]

Runs(w, i) == Busy(w) /\ Task(w) = i

(* In progress for the table, but no worker of this process works on it.   *)
Orphan(i) ==
    /\ status[i] = "in_progress"
    /\ \A w \in Workers : ~Runs(w, i)

-----------------------------------------------------------------------------
PoolInit ==
    /\ Init
    /\ pc = [w \in Workers |-> "idle"]
    /\ held = [w \in Workers |-> 0]
    /\ up = TRUE
    /\ paused = FALSE
    /\ cancelReq = {}
    /\ crashes = 0
    /\ errors = 0

(* Every way in (control plane, triggers, delegations) ends in enqueue, in *)
(* this process.  Only the control plane refuses while paused: the timers  *)
(* and events go on filling the queue.                                     *)
Submit(i) ==
    /\ up
    /\ Enqueue(i)
    /\ UNCHANGED procVars

(* Variant: claim_next hands out the first row in line whatever its state. *)
Claim_NoStatusGuard(w, i) ==
    /\ pc[w] = "idle"
    /\ ~paused
    /\ FirstInLine(i) \/ status[i] = "in_progress"
    /\ attempts[i] < MaxAttempts
    /\ status' = [status EXCEPT ![i] = "in_progress"]
    /\ attempts' = [attempts EXCEPT ![i] = @ + 1]
    /\ receipts' = Append(receipts, i)
    /\ token' = [token EXCEPT ![i] = Len(receipts) + 1]
    /\ lease' = [lease EXCEPT ![i] = LeaseTime]
    /\ pc' = [pc EXCEPT ![w] = "claimed"]
    /\ held' = [held EXCEPT ![w] = Len(receipts) + 1]
    /\ UNCHANGED <<backoff, born, evidence, up, paused, cancelReq, crashes, errors>>

(* One turn of _worker_main.  When claim_next raises (the CHECK on the     *)
(* retry budget) the worker idles and tries again: no step here.           *)
Claim(w, i) ==
    /\ pc[w] = "idle"
    /\ ~paused
    /\ ClaimNext(i)
    /\ pc' = [pc EXCEPT ![w] = "claimed"]
    /\ held' = [held EXCEPT ![w] = Len(receipts) + 1]
    /\ UNCHANGED <<up, paused, cancelReq, crashes, errors>>

(* _handle_cancelled: mark_cancelled, then clear the flag.                 *)
StopAsCancelled(w) ==
    /\ MarkCancelled(held[w], Task(w))
    /\ cancelReq' = cancelReq \ {Task(w)}
    /\ pc' = [pc EXCEPT ![w] = "idle"]
    /\ held' = [held EXCEPT ![w] = 0]
    /\ UNCHANGED <<up, paused, crashes, errors>>

(* Variant: a cancelled task is skipped here and never marked.             *)
BeginCycle_WaitsOnCancel(w) ==
    /\ pc[w] = "claimed"
    /\ Task(w) \notin cancelReq
    /\ pc' = [pc EXCEPT ![w] = "cycle"]
    /\ UNCHANGED <<vars, held, up, paused, cancelReq, crashes, errors>>

(* The cancel check before the cycle: start the engine, or stop here.      *)
BeginCycle(w) ==
    /\ pc[w] = "claimed"
    /\ \/ /\ Task(w) \in cancelReq
          /\ StopAsCancelled(w)
       \/ /\ Task(w) \notin cancelReq
          /\ pc' = [pc EXCEPT ![w] = "cycle"]
          /\ UNCHANGED <<vars, held, up, paused, cancelReq, crashes, errors>>

(* OperationCancelled: the stream callback saw the flag, or the authority  *)
(* the turn ran under was revoked.                                         *)
CycleCancelled(w) ==
    /\ pc[w] = "cycle"
    /\ StopAsCancelled(w)

(* The other ends of _process.  A turn that acted in line, or answered     *)
(* outside a chat, completes with audit_entry_id None; a chat answer and a *)
(* dispatched action complete with their audit entry; engine errors and    *)
(* turns without actions fail; the broker parks, refuses or fails.         *)
CycleEnds(w) ==
    /\ pc[w] = "cycle"
    /\ \/ \E e \in Evidence : MarkCompleted(held[w], Task(w), e)
       \/ \E r \in BOOLEAN : MarkFailed(held[w], Task(w), r)
       \/ MarkPendingApproval(held[w], Task(w))
       \/ MarkRejected(held[w], Task(w))
    /\ pc' = [pc EXCEPT ![w] = "report"]
    /\ UNCHANGED <<held, up, paused, cancelReq, crashes, errors>>

(* _dispatch_proposals returns None without having marked the row: every   *)
(* proposal had already been executed in an earlier attempt.               *)
CycleUnsettled(w) ==
    /\ pc[w] = "cycle"
    /\ pc' = [pc EXCEPT ![w] = "idle"]
    /\ held' = [held EXCEPT ![w] = 0]
    /\ UNCHANGED <<vars, up, paused, cancelReq, crashes, errors>>

Reported(w) ==
    /\ pc[w] = "report"
    /\ pc' = [pc EXCEPT ![w] = "idle"]
    /\ held' = [held EXCEPT ![w] = 0]
    /\ UNCHANGED <<vars, up, paused, cancelReq, crashes, errors>>

(* An exception nobody catches (the audit signer, SQLite on a mark): the   *)
(* try of _worker_main has no except, so the coroutine ends.               *)
WorkerRaises(w) ==
    /\ pc[w] \in {"claimed", "cycle", "report"}
    /\ errors < MaxErrors
    /\ errors' = errors + 1
    /\ pc' = [pc EXCEPT ![w] = "off"]
    /\ held' = [held EXCEPT ![w] = 0]
    /\ UNCHANGED <<vars, up, paused, cancelReq, crashes>>

(* _lease_heartbeat, which lives exactly as long as _process.              *)
Heartbeat(w) ==
    /\ Busy(w)
    /\ RenewLease(held[w], Task(w))
    /\ UNCHANGED procVars

(* CancelTask takes any task id, of a task that has ended included.         *)
RequestCancel(i) ==
    /\ up
    /\ status[i] # "absent"
    /\ cancelReq' = cancelReq \cup {i}
    /\ UNCHANGED <<vars, pc, held, up, paused, crashes, errors>>

(* The kill switch also cancels the turns with live activity.              *)
Pause(S) ==
    /\ up
    /\ \A i \in S : \E w \in Workers : Runs(w, i)
    /\ paused' = TRUE
    /\ cancelReq' = cancelReq \cup S
    /\ UNCHANGED <<vars, pc, held, up, crashes, errors>>

Resume ==
    /\ up /\ paused
    /\ paused' = FALSE
    /\ UNCHANGED <<vars, pc, held, up, cancelReq, crashes, errors>>

(* A human approves: approve_action here, or the config_sync process,      *)
(* which reaches the table even while the daemon is down.                  *)
Approve(i) ==
    /\ ReEnqueueAfterApproval(i)
    /\ UNCHANGED procVars

(* SIGKILL, power loss, or SIGTERM once the grace period cancels the tasks.*)
Crash ==
    /\ up
    /\ crashes < MaxCrashes
    /\ crashes' = crashes + 1
    /\ up' = FALSE
    /\ pc' = [w \in Workers |-> "off"]
    /\ held' = [w \in Workers |-> 0]
    /\ cancelReq' = {}
    /\ UNCHANGED <<vars, paused, errors>>

StartWorkers ==
    /\ up' = TRUE
    /\ pc' = [w \in Workers |-> "idle"]
    /\ UNCHANGED <<held, paused, cancelReq, crashes, errors>>

(* Variant: the reconciliation runs on a timer, with the workers running.  *)
Boot_WhileRunning ==
    \/ /\ ~up
       /\ IF \E i \in Items : Stale(i) THEN ReconcileStale ELSE UNCHANGED vars
       /\ StartWorkers
    \/ /\ up
       /\ ReconcileStale
       /\ UNCHANGED procVars

(* bootstrap, then run_forever.                                            *)
Boot ==
    /\ ~up
    /\ IF \E i \in Items : Stale(i) THEN ReconcileStale ELSE UNCHANGED vars
    /\ StartWorkers

Clock ==
    /\ Tick
    /\ UNCHANGED procVars

WorkerStep(w) ==
    \/ \E i \in Items : Claim(w, i)
    \/ BeginCycle(w)
    \/ CycleCancelled(w)
    \/ CycleEnds(w)
    \/ CycleUnsettled(w)
    \/ Reported(w)

PoolNext ==
    \/ \E w \in Workers : WorkerStep(w) \/ WorkerRaises(w) \/ Heartbeat(w)
    \/ \E i \in Items : Submit(i) \/ RequestCancel(i) \/ Approve(i)
    \/ \E S \in SUBSET Items : Pause(S)
    \/ Resume
    \/ Crash
    \/ Boot
    \/ Clock

PoolSpec == PoolInit /\ [][PoolNext]_poolVars

(* The event loop runs every coroutine that can move, run_cycle returns or *)
(* raises (its model calls time out), systemd restarts the daemon, time    *)
(* passes.  Nobody has to submit, approve, cancel, pause or resume.        *)
PoolFairness ==
    /\ \A w \in Workers : WF_poolVars(WorkerStep(w))
    /\ WF_poolVars(Boot)
    /\ WF_poolVars(Clock)

FairPoolSpec == PoolSpec /\ PoolFairness

-----------------------------------------------------------------------------
(* Properties                                                              *)

(* The queue and the daemon's own state have their types, and a worker     *)
(* never holds a token that was not handed out.                            *)
PoolTypeOK ==
    /\ TypeOK
    /\ pc \in [Workers -> Places]
    /\ held \in [Workers -> 0 .. Len(receipts)]
    /\ up \in BOOLEAN
    /\ paused \in BOOLEAN
    /\ cancelReq \subseteq Items
    /\ crashes \in 0 .. MaxCrashes
    /\ errors \in 0 .. MaxErrors

(* A worker that is processing a task holds the live claim on it, however  *)
(* late its lease: every mark_* of _process finds its row, and the         *)
(* ClaimTokenMismatch that would kill the coroutine cannot arise within    *)
(* one daemon.  It rests on reconcile_stale being run at start-up only.    *)
BusyWorkerOwns ==
    \A w \in Workers : Busy(w) => Owns(held[w], Task(w))

(* Two workers never process the same task ("No double-claim", tests/      *)
(* tasks/test_worker_pool_concurrency.py), restarts included.              *)
OneRunnerPerTask ==
    \A v, w \in Workers : v # w /\ Busy(v) /\ Busy(w) => Task(v) # Task(w)

(* The pool uses the queue only through the operations of WorkQueue, so    *)
(* everything shown of the queue holds of the running system.              *)
ImplementsQueue == Spec

(* The retry budget of no queued row is used up.                           *)
NoSpentRow ==
    \A i \in Items : status[i] = "pending" => attempts[i] < MaxAttempts

(* When the agent is up, not paused, has a worker left and no row with a   *)
(* spent budget sits in the queue, every queued task is claimed: neither   *)
(* priorities, backoff, approvals nor restarts starve one.                 *)
NothingStarves ==
    <>[](up /\ ~paused /\ NoSpentRow /\ \E w \in Workers : pc[w] # "off")
    => \A i \in Items : status[i] = "pending" ~> status[i] # "pending"

(* A claimed task is settled by its worker, unless the worker or the       *)
(* process ends first, or the dispatch leaves the row as it is.            *)
ClaimedIsSettled ==
    \A i \in Items :
       status[i] = "in_progress" ~> (status[i] # "in_progress" \/ Orphan(i))

(* re_enqueue_after_approval: "La tarea vuelve a la cola para ser          *)
(* reclamada por el loop en el proximo ciclo" (sqlite_work_queue.py:530).  *)
(* Without crashes a queued task is new, retried or approved.              *)
ApprovedIsReclaimed ==
    <>[](up /\ ~paused)
    => \A i \in Items : status[i] = "pending" ~> status[i] # "pending"

(* "reconciliacion de huerfanos tras reinicio" (ports.py:136): a task left *)
(* in progress by a process that died goes back to the queue.              *)
OrphansAreRecovered ==
    \A i \in Items : Orphan(i) ~> ~Orphan(i)

\* Nobody works on what another worker owns, across crashes, dying workers
\* and restarts (_worker_main, _process).
PoolSafe ==
    /\ PoolTypeOK /\ BusyWorkerOwns /\ OneRunnerPerTask
=============================================================================
