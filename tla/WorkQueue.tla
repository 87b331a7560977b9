----------------------------- MODULE WorkQueue -----------------------------
(***************************************************************************)
(* The durable work queue: the table agent_tasks of the SQLite file, with  *)
(* the CHECK constraints of tasks/infrastructure/schema.py, and the        *)
(* operations of SqliteWorkQueue (tasks/infrastructure/                    *)
(* sqlite_work_queue.py), each of which is one SQLite transaction.         *)
(*                                                                         *)
(* A column that changes is a variable, a function from ids; a column      *)
(* fixed by the WorkItem at insertion is a constant.  Timestamps are       *)
(* countdowns to them, so time needs no bound.  Claim tokens (uuid4, never *)
(* repeated) are the positions of the sequence `receipts` of the ids       *)
(* claim_next has returned: a caller keeps its receipt forever and may     *)
(* present it arbitrarily late, as a worker that lost its lease does.      *)
(***************************************************************************)
EXTENDS Naturals, Sequences, FiniteSets

CONSTANTS
    Items,          \* task_id
    NoKey,          \* dedup_key IS NULL
    DedupKey,       \* [Items -> keys or NoKey], column dedup_key
    Priority,       \* [Items -> Nat], column priority
    MaxAttempts,    \* column max_retries
    LeaseTime,      \* _LEASE_SECONDS, in clock units
    BackoffBase,    \* _BACKOFF_BASE_SECONDS, in clock units
    BackoffCap      \* _BACKOFF_CAP_SECONDS, in clock units

ASSUME QueueAssumption ==
    /\ IsFiniteSet(Items)
    /\ DOMAIN DedupKey = Items
    /\ Priority \in [Items -> Nat]
    /\ MaxAttempts \in Nat \ {0}
    /\ LeaseTime \in Nat \ {0}
    /\ BackoffBase \in Nat \ {0}
    /\ BackoffCap \in Nat \ {0}

(* A fact of arithmetic the provers do not know of 2^n.                    *)
ASSUME DoublingAssumption ==
    \A n \in 0 .. MaxAttempts : BackoffBase * 2 ^ n \in Nat \ {0}

VARIABLES
    status,      \* column status; "absent" is an id not yet inserted
    attempts,    \* column retry_count
    token,       \* column claim_token; 0 is NULL
    lease,       \* column lease_expires_at, as the time left; 0 is expired
    backoff,     \* column next_attempt_at, as the time left; 0 is NULL or due
    born,        \* column created_at, as the position in insertion order
    evidence,    \* column execution_audit_entry_id; "null" is NULL
    receipts     \* receipts[t] is the id that claim token t was minted for

vars == <<status, attempts, token, lease, backoff, born, evidence, receipts>>

Terminal == {"completed", "failed", "rejected", "cancelled"}

Live == {"pending", "in_progress", "pending_approval"}

Statuses == {"absent"} \cup Live \cup Terminal

(* mark_completed stores str(audit_entry_id): the id of an audit entry, or *)
(* the four letters "None" when the caller had no entry to give.           *)
Evidence == {"audit_entry", "None"}

Tokens == 1 .. Len(receipts)

-----------------------------------------------------------------------------
(* Reading the table                                                       *)

(* _find_by_dedup_key finds a row that is not terminal.                    *)
HoldsKey(j, i) ==
    /\ status[j] \in Live
    /\ DedupKey[j] = DedupKey[i]
    /\ DedupKey[i] # NoKey

Claimable(i) ==
    /\ status[i] = "pending"
    /\ backoff[i] = 0

(* ORDER BY priority DESC, created_at ASC                                  *)
Precedes(i, j) ==
    \/ Priority[i] > Priority[j]
    \/ Priority[i] = Priority[j] /\ born[i] < born[j]

(* The row the SELECT of claim_next returns (LIMIT 1).                     *)
FirstInLine(i) ==
    /\ Claimable(i)
    /\ \A j \in Items \ {i} : Claimable(j) => Precedes(i, j)

(* The WHERE clause of every mark_* and of renew_lease.                    *)
Owns(t, i) ==
    /\ status[i] = "in_progress"
    /\ token[i] = t

Stale(i) ==
    /\ status[i] = "in_progress"
    /\ lease[i] = 0

(* _reschedule_with_backoff: base * 2^attempts, capped.                    *)
Delay(n) ==
    LET raw == BackoffBase * 2 ^ n
    IN  IF raw < BackoffCap THEN raw ELSE BackoffCap

-----------------------------------------------------------------------------
(* The operations                                                          *)

Init ==
    /\ status = [i \in Items |-> "absent"]
    /\ attempts = [i \in Items |-> 0]
    /\ token = [i \in Items |-> 0]
    /\ lease = [i \in Items |-> 0]
    /\ backoff = [i \in Items |-> 0]
    /\ born = [i \in Items |-> 0]
    /\ evidence = [i \in Items |-> "null"]
    /\ receipts = << >>

(* enqueue: with a live row under the same dedup_key the call returns that *)
(* row and inserts nothing.                                                *)
Enqueue(i) ==
    /\ status[i] = "absent"
    /\ \A j \in Items : ~HoldsKey(j, i)
    /\ status' = [status EXCEPT ![i] = "pending"]
    /\ born' = [born EXCEPT ![i] =
                  Cardinality({j \in Items : status[j] # "absent"}) + 1]
    /\ UNCHANGED <<attempts, token, lease, backoff, evidence, receipts>>

(* Variant: one token per queue object instead of one per claim.           *)
ClaimNext_SameToken(i) ==
    /\ FirstInLine(i)
    /\ attempts[i] + 1 <= MaxAttempts
    /\ status' = [status EXCEPT ![i] = "in_progress"]
    /\ attempts' = [attempts EXCEPT ![i] = @ + 1]
    /\ receipts' = Append(receipts, i)
    /\ token' = [token EXCEPT ![i] = 1]
    /\ lease' = [lease EXCEPT ![i] = LeaseTime]
    /\ UNCHANGED <<backoff, born, evidence>>

(* Variant: the table without CHECK (retry_count <= max_retries).          *)
ClaimNext_NoBudget(i) ==
    /\ FirstInLine(i)
    /\ attempts[i] <= MaxAttempts
    /\ status' = [status EXCEPT ![i] = "in_progress"]
    /\ attempts' = [attempts EXCEPT ![i] = @ + 1]
    /\ receipts' = Append(receipts, i)
    /\ token' = [token EXCEPT ![i] = Len(receipts) + 1]
    /\ lease' = [lease EXCEPT ![i] = LeaseTime]
    /\ UNCHANGED <<backoff, born, evidence>>

(* Variant: CHECK (retry_count < max_retries), the last try never granted. *)
ClaimNext_OffByOne(i) ==
    /\ FirstInLine(i)
    /\ attempts[i] + 1 < MaxAttempts
    /\ status' = [status EXCEPT ![i] = "in_progress"]
    /\ attempts' = [attempts EXCEPT ![i] = @ + 1]
    /\ receipts' = Append(receipts, i)
    /\ token' = [token EXCEPT ![i] = Len(receipts) + 1]
    /\ lease' = [lease EXCEPT ![i] = LeaseTime]
    /\ UNCHANGED <<backoff, born, evidence>>

(* claim_next on the row it selects.  The UPDATE adds one to retry_count;  *)
(* CHECK (retry_count <= max_retries) refuses it when the budget is spent, *)
(* the transaction rolls back and the call raises: no state change.        *)
ClaimNext(i) ==
    /\ FirstInLine(i)
    /\ attempts[i] + 1 <= MaxAttempts
    /\ status' = [status EXCEPT ![i] = "in_progress"]
    /\ attempts' = [attempts EXCEPT ![i] = @ + 1]
    /\ receipts' = Append(receipts, i)
    /\ token' = [token EXCEPT ![i] = Len(receipts) + 1]
    /\ lease' = [lease EXCEPT ![i] = LeaseTime]
    /\ UNCHANGED <<backoff, born, evidence>>

(* What every mark_* writes: the new status, the claim columns to NULL.    *)
Release(t, i, s) ==
    /\ Owns(t, i)
    /\ status' = [status EXCEPT ![i] = s]
    /\ token' = [token EXCEPT ![i] = 0]
    /\ lease' = [lease EXCEPT ![i] = 0]
    /\ UNCHANGED <<attempts, born, receipts>>

MarkCompleted(t, i, e) ==
    /\ Release(t, i, "completed")
    /\ evidence' = [evidence EXCEPT ![i] = e]
    /\ UNCHANGED backoff

(* work_item.mark_failed decides: retry with backoff or terminal FAILED.   *)
MarkFailed(t, i, retryable) ==
    /\ UNCHANGED evidence
    /\ \/ /\ retryable /\ attempts[i] < MaxAttempts
          /\ Release(t, i, "pending")
          /\ backoff' = [backoff EXCEPT ![i] = Delay(attempts[i])]
       \/ /\ ~(retryable /\ attempts[i] < MaxAttempts)
          /\ Release(t, i, "failed")
          /\ UNCHANGED backoff

MarkPendingApproval(t, i) ==
    /\ Release(t, i, "pending_approval")
    /\ UNCHANGED <<backoff, evidence>>

MarkRejected(t, i) ==
    /\ Release(t, i, "rejected")
    /\ UNCHANGED <<backoff, evidence>>

MarkCancelled(t, i) ==
    /\ Release(t, i, "cancelled")
    /\ UNCHANGED <<backoff, evidence>>

(* Variant: every claim found at start-up is taken for an orphan.          *)
ReconcileStale_IgnoresLease ==
    /\ \E i \in Items : status[i] = "in_progress"
    /\ status' = [i \in Items |-> IF status[i] = "in_progress"
                                  THEN "pending" ELSE status[i]]
    /\ token' = [i \in Items |-> 0]
    /\ lease' = [i \in Items |-> 0]
    /\ UNCHANGED <<attempts, backoff, born, evidence, receipts>>

(* One UPDATE for every row whose lease has run out.                       *)
ReconcileStale ==
    /\ \E i \in Items : Stale(i)
    /\ status' = [i \in Items |-> IF Stale(i) THEN "pending" ELSE status[i]]
    /\ token' = [i \in Items |-> IF Stale(i) THEN 0 ELSE token[i]]
    /\ UNCHANGED <<attempts, lease, backoff, born, evidence, receipts>>

(* Succeeds after the expiry too, as long as nobody reconciled the row.    *)
RenewLease(t, i) ==
    /\ Owns(t, i)
    /\ lease' = [lease EXCEPT ![i] = LeaseTime]
    /\ UNCHANGED <<status, attempts, token, backoff, born, evidence, receipts>>

(* retry_count and next_attempt_at stay as they are.                       *)
ReEnqueueAfterApproval(i) ==
    /\ status[i] = "pending_approval"
    /\ status' = [status EXCEPT ![i] = "pending"]
    /\ UNCHANGED <<attempts, token, lease, backoff, born, evidence, receipts>>

(* The wall clock: every deadline is one unit nearer.                      *)
Countdown(f) == [i \in Items |-> IF f[i] > 0 THEN f[i] - 1 ELSE 0]

Tick ==
    /\ \E i \in Items : lease[i] > 0 \/ backoff[i] > 0
    /\ lease' = Countdown(lease)
    /\ backoff' = Countdown(backoff)
    /\ UNCHANGED <<status, attempts, token, born, evidence, receipts>>

-----------------------------------------------------------------------------
(* Any caller, any order: what holds here holds under every worker.        *)

Mark(t, i) ==
    \/ \E e \in Evidence : MarkCompleted(t, i, e)
    \/ \E r \in BOOLEAN : MarkFailed(t, i, r)
    \/ MarkPendingApproval(t, i)
    \/ MarkRejected(t, i)
    \/ MarkCancelled(t, i)

Next ==
    \/ \E i \in Items : Enqueue(i) \/ ClaimNext(i) \/ ReEnqueueAfterApproval(i)
    \/ \E i \in Items, t \in Tokens : Mark(t, i) \/ RenewLease(t, i)
    \/ ReconcileStale
    \/ Tick

Spec == Init /\ [][Next]_vars

-----------------------------------------------------------------------------
(* Properties                                                              *)

(* Every column holds a value of its declared type (DDL of agent_tasks).   *)
TypeOK ==
    /\ status \in [Items -> Statuses]
    /\ attempts \in [Items -> 0 .. MaxAttempts]
    /\ token \in [Items -> Nat]
    /\ lease \in [Items -> 0 .. LeaseTime]
    /\ backoff \in [Items -> 0 .. BackoffCap]
    /\ born \in [Items -> Nat]
    /\ evidence \in [Items -> Evidence \cup {"null"}]
    /\ receipts \in Seq(Items)

(* A claim exists exactly while the row is in_progress: no operation, in   *)
(* any order of late and early callers, leaves a claim on a row that is    *)
(* not being worked on, or a row in progress that nobody can settle (the   *)
(* CHECKs I2 and I3 of schema.py, in both directions).                     *)
ClaimMatchesStatus ==
    \A i \in Items :
       /\ status[i] = "in_progress" <=> token[i] # 0
       /\ status[i] # "in_progress" => lease[i] = 0

(* Fencing: the token on a row is the last one ever minted for that row,   *)
(* so a worker whose lease was reconciled away can never settle the row    *)
(* its successor is working on ("the old claim_token can no longer         *)
(* transition the item", tests/tasks/test_worker_pool_concurrency.py).     *)
ReceiptFencing ==
    \A i \in Items : token[i] # 0 =>
       /\ token[i] \in Tokens
       /\ receipts[token[i]] = i
       /\ \A u \in Tokens : receipts[u] = i => u <= token[i]

(* retry_count is exactly the number of times the row was handed out: not  *)
(* doubled by the retry path, not lost by reconciliation or by approval    *)
(* (tests/integration/test_retry_semantics.py).                            *)
AttemptsCountClaims ==
    \A i \in Items :
       attempts[i] = Cardinality({t \in Tokens : receipts[t] = i})

(* Two rows that are not terminal never share a dedup_key ("dedup_key vivo *)
(* unico", ports.py): a parked or retried task still absorbs duplicates.   *)
LiveDedupUnique ==
    \A i, j \in Items :
       /\ i # j
       /\ status[i] \in Live
       /\ status[j] \in Live
       /\ DedupKey[i] # NoKey
       => DedupKey[i] # DedupKey[j]

(* Nothing changes a row that is completed, failed, rejected or cancelled: *)
(* not a late mark, not a late approval, not the start-up reconciliation.  *)
TerminalIsFinal ==
    [][\A i \in Items : status[i] \in Terminal =>
          /\ status'[i] = status[i]
          /\ evidence'[i] = evidence[i]
          /\ attempts'[i] = attempts[i]]_vars

(* While a lease has time left the row goes back to pending only when its  *)
(* owner gives it back (a retry with backoff and budget left): starting a  *)
(* second runtime on the same file takes nothing from a live worker.       *)
LeaseProtectsOwner ==
    [][\A i \in Items :
          status[i] = "in_progress" /\ lease[i] > 0 /\ status'[i] = "pending"
          => backoff'[i] > 0 /\ attempts[i] < MaxAttempts]_vars

Lifecycle == INSTANCE TaskLifecycle WITH state <- status, starts <- attempts

(* The queue implements the documented life cycle of a task (TaskStatus,   *)
(* ports.py): only the documented transitions, and at most MaxAttempts     *)
(* starts however crashes, retries and approvals interleave.               *)
ImplementsLifecycle == Lifecycle!LSpec

\* The rows of agent_tasks are sound whoever calls, in whatever order and
\* however late: claims, tokens, attempts and dedup keys agree with each
\* other.
QueueSafe ==
    /\ TypeOK /\ ClaimMatchesStatus /\ ReceiptFencing /\ AttemptsCountClaims
    /\ LiveDedupUnique
=============================================================================
