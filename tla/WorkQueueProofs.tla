-------------------------- MODULE WorkQueueProofs --------------------------
(***************************************************************************)
(* What the durable queue guarantees for every set of tasks, every retry   *)
(* budget, every lease and backoff, and the worker pool for every number   *)
(* of workers: proofs about WorkQueue.tla and WorkerPool.tla.              *)
(***************************************************************************)
EXTENDS WorkerPool, FiniteSetTheorems, TLAPS

(* A retry is scheduled at most BackoffCap units ahead and never at once   *)
(* (_reschedule_with_backoff).                                             *)
LEMMA DelayType == \A n \in 0 .. MaxAttempts : Delay(n) \in 1 .. BackoffCap
  BY QueueAssumption, DoublingAssumption DEF Delay

(* The clock never takes a deadline out of its range.                      *)
LEMMA CountdownType ==
  ASSUME NEW n \in Nat, NEW f \in [Items -> 0 .. n]
  PROVE  Countdown(f) \in [Items -> 0 .. n]
<1>1. \A i \in Items : (IF f[i] > 0 THEN f[i] - 1 ELSE 0) \in 0 .. n
  OBVIOUS
<1> QED BY <1>1, Zenon DEF Countdown

(* A settlement keeps the types of the columns every mark_* writes.        *)
LEMMA ReleaseType ==
    ASSUME TypeOK, NEW i \in Items, NEW t \in Tokens, NEW s \in Statuses,
           Release(t, i, s),
           evidence' \in [Items -> Evidence \cup {"null"}],
           backoff' \in [Items -> 0 .. BackoffCap]
    PROVE  TypeOK'
<1>1. status' \in [Items -> Statuses]
  BY Zenon DEF Release, TypeOK
<1>2. token' \in [Items -> Nat]
  BY Zenon DEF Release, TypeOK
<1>3. lease' \in [Items -> 0 .. LeaseTime]
  BY QueueAssumption DEF Release, TypeOK, QueueAssumption
<1>4. UNCHANGED <<attempts, born, receipts>>
  BY Zenon DEF Release
<1> QED BY <1>1, <1>2, <1>3, <1>4, Zenon DEF TypeOK

(* Every operation keeps the column types and the retry budget.            *)
LEMMA TypeStep == TypeOK /\ [Next]_vars => TypeOK'
<1> SUFFICES ASSUME TypeOK, [Next]_vars PROVE TypeOK'
  OBVIOUS
<1> USE QueueAssumption DEF TypeOK, Statuses, Live, Terminal
<1>1. CASE UNCHANGED vars
  BY <1>1, Zenon DEF vars
<1>2. ASSUME NEW i \in Items, Enqueue(i) PROVE TypeOK'
  <2> DEFINE S == {j \in Items : status[j] # "absent"}
  <2>1. IsFiniteSet(S)
    BY FS_Subset, Zenon
  <2>2. Cardinality(S) \in Nat
    BY <2>1, FS_CardinalityType, Zenon
  <2>3. \E n \in Nat : born' = [born EXCEPT ![i] = n + 1]
    BY <1>2, <2>2, Zenon DEF Enqueue
  <2>4. born' \in [Items -> Nat]
    BY <2>3
  <2> QED BY <1>2, <2>4, Zenon DEF Enqueue
<1>3. ASSUME NEW i \in Items, ClaimNext(i) PROVE TypeOK'
  <2>1. status' \in [Items -> Statuses]
    BY <1>3, Zenon DEF ClaimNext
  <2>2. attempts' \in [Items -> 0 .. MaxAttempts]
    BY <1>3 DEF ClaimNext
  <2>3. token' \in [Items -> Nat] /\ receipts' \in Seq(Items)
    BY <1>3 DEF ClaimNext
  <2>4. lease' \in [Items -> 0 .. LeaseTime]
    BY <1>3 DEF ClaimNext
  <2>5. UNCHANGED <<backoff, born, evidence>>
    BY <1>3, Zenon DEF ClaimNext
  <2> HIDE DEF Statuses
  <2> QED BY <2>1, <2>2, <2>3, <2>4, <2>5, Zenon
<1>4. ASSUME NEW i \in Items, ReEnqueueAfterApproval(i) PROVE TypeOK'
  BY <1>4, Zenon DEF ReEnqueueAfterApproval
<1>5. ASSUME NEW i \in Items, NEW t \in Tokens, Mark(t, i) PROVE TypeOK'
  <2>0. ASSUME NEW s \in Statuses, Release(t, i, s),
               evidence' \in [Items -> Evidence \cup {"null"}],
               backoff' \in [Items -> 0 .. BackoffCap]
        PROVE  TypeOK'
    BY <2>0, ReleaseType, Zenon
  <2> HIDE DEF Statuses
  <2>s. {"completed", "failed", "pending", "pending_approval", "rejected", "cancelled"}
          \subseteq Statuses
    BY Zenon DEF Statuses
  <2>k. UNCHANGED evidence => evidence' \in [Items -> Evidence \cup {"null"}]
    BY Zenon
  <2>b. UNCHANGED backoff => backoff' \in [Items -> 0 .. BackoffCap]
    BY Zenon
  <2>1. ASSUME NEW e \in Evidence, MarkCompleted(t, i, e) PROVE TypeOK'
    <3>1. evidence' \in [Items -> Evidence \cup {"null"}]
      BY <2>1, Zenon DEF MarkCompleted
    <3> HIDE DEF TypeOK
    <3> QED BY <2>0, <2>s, <2>b, <2>1, <3>1, Zenon DEF MarkCompleted
  <2>2. CASE \E r \in BOOLEAN : MarkFailed(t, i, r)
    <3>1. Delay(attempts[i]) \in 0 .. BackoffCap
      BY DelayType
    <3>2. UNCHANGED evidence
      BY <2>2, Zenon DEF MarkFailed
    <3>3. \/ /\ Release(t, i, "pending")
             /\ backoff' = [backoff EXCEPT ![i] = Delay(attempts[i])]
          \/ /\ Release(t, i, "failed")
             /\ UNCHANGED backoff
      BY <2>2, Zenon DEF MarkFailed
    <3>4. backoff' \in [Items -> 0 .. BackoffCap]
      BY <3>1, <3>3, Zenon
    <3> HIDE DEF TypeOK
    <3> QED BY <2>0, <2>s, <2>k, <3>2, <3>3, <3>4, Zenon
  <2> HIDE DEF TypeOK
  <2>3. CASE MarkPendingApproval(t, i)
    BY <2>0, <2>s, <2>k, <2>b, <2>3, Zenon DEF MarkPendingApproval
  <2>4. CASE MarkRejected(t, i)
    BY <2>0, <2>s, <2>k, <2>b, <2>4, Zenon DEF MarkRejected
  <2>5. CASE MarkCancelled(t, i)
    BY <2>0, <2>s, <2>k, <2>b, <2>5, Zenon DEF MarkCancelled
  <2> QED BY <1>5, <2>1, <2>2, <2>3, <2>4, <2>5, Zenon DEF Mark
<1>6. ASSUME NEW i \in Items, NEW t \in Tokens, RenewLease(t, i) PROVE TypeOK'
  BY <1>6 DEF RenewLease
<1>7. CASE ReconcileStale
  BY <1>7, Zenon DEF ReconcileStale
<1>8. CASE Tick
  <2>1. lease' \in [Items -> 0 .. LeaseTime]
    BY <1>8, CountdownType, Zenon DEF Tick
  <2>2. backoff' \in [Items -> 0 .. BackoffCap]
    BY <1>8, CountdownType, Zenon DEF Tick
  <2> QED BY <1>8, <2>1, <2>2, Zenon DEF Tick
<1> HIDE DEF TypeOK, Statuses, Live, Terminal
<1> QED
  BY <1>1, <1>2, <1>3, <1>4, <1>5, <1>6, <1>7, <1>8, Zenon DEF Next

(* Every reachable row respects the column types of agent_tasks, with      *)
(* retry_count within the budget: the CHECK of schema.py is never the one  *)
(* to be violated by a committed row.                                      *)
THEOREM TypeCorrect == Spec => []TypeOK
<1>1. Init => TypeOK
  BY QueueAssumption DEF Init, TypeOK, Statuses, Evidence
<1> QED BY <1>1, TypeStep, PTL DEF Spec

(* Every settlement writes its new status and clears the claim, whatever   *)
(* else it does (the mark_* methods share their WHERE and their SET).      *)
LEMMA MarkReleases ==
  ASSUME NEW i \in Items, NEW t \in Tokens, Mark(t, i)
  PROVE  \E s \in (Live \cup Terminal) \ {"in_progress"} : Release(t, i, s)
<1>1. CASE \E e \in Evidence : MarkCompleted(t, i, e)
  BY <1>1, Zenon DEF MarkCompleted, Live, Terminal
<1>2. CASE \E r \in BOOLEAN : MarkFailed(t, i, r)
  <2>1. Release(t, i, "pending") \/ Release(t, i, "failed")
    BY <1>2, Zenon DEF MarkFailed
  <2> QED BY <2>1, Zenon DEF Live, Terminal
<1>3. CASE MarkPendingApproval(t, i)
  BY <1>3, Zenon DEF MarkPendingApproval, Live, Terminal
<1>4. CASE MarkRejected(t, i)
  BY <1>4, Zenon DEF MarkRejected, Live, Terminal
<1>5. CASE MarkCancelled(t, i)
  BY <1>5, Zenon DEF MarkCancelled, Live, Terminal
<1> QED BY <1>1, <1>2, <1>3, <1>4, <1>5, Zenon DEF Mark

(* A claim is on a row exactly while it is in progress.                    *)
LEMMA ClaimStep == TypeOK /\ ClaimMatchesStatus /\ [Next]_vars => ClaimMatchesStatus'
<1> SUFFICES ASSUME TypeOK, ClaimMatchesStatus, [Next]_vars PROVE ClaimMatchesStatus'
  OBVIOUS
<1> USE QueueAssumption DEF TypeOK, ClaimMatchesStatus
<1>1. CASE UNCHANGED vars
  BY <1>1, Zenon DEF vars
<1>2. ASSUME NEW i \in Items, Enqueue(i) PROVE ClaimMatchesStatus'
  BY <1>2, Zenon DEF Enqueue
<1>3. ASSUME NEW i \in Items, ClaimNext(i) PROVE ClaimMatchesStatus'
  <2>1. Len(receipts) + 1 # 0
    OBVIOUS
  <2> QED BY <1>3, <2>1, Zenon DEF ClaimNext
<1>4. ASSUME NEW i \in Items, ReEnqueueAfterApproval(i) PROVE ClaimMatchesStatus'
  BY <1>4, Zenon DEF ReEnqueueAfterApproval
<1>5. ASSUME NEW i \in Items, NEW t \in Tokens, Mark(t, i) PROVE ClaimMatchesStatus'
  <2>1. PICK s \in (Live \cup Terminal) \ {"in_progress"} : Release(t, i, s)
    BY <1>5, MarkReleases, Zenon
  <2> QED BY <2>1, Zenon DEF Release, Owns, Live, Terminal
<1>6. ASSUME NEW i \in Items, NEW t \in Tokens, RenewLease(t, i) PROVE ClaimMatchesStatus'
  BY <1>6, Zenon DEF RenewLease, Owns
<1>7. CASE ReconcileStale
  BY <1>7, Zenon DEF ReconcileStale, Stale
<1>8. CASE Tick
  BY <1>8 DEF Tick, Countdown
<1> HIDE DEF TypeOK, ClaimMatchesStatus
<1> QED
  BY <1>1, <1>2, <1>3, <1>4, <1>5, <1>6, <1>7, <1>8, Zenon DEF Next

(* No order of late and early callers leaves a claim on a row that is not  *)
(* in progress, or a row in progress that nobody can settle.               *)
THEOREM ClaimsAreExact == Spec => []ClaimMatchesStatus
<1>1. Init => ClaimMatchesStatus
  BY Zenon DEF Init, ClaimMatchesStatus
<1> QED BY <1>1, ClaimStep, TypeCorrect, PTL DEF Spec

(* The token on a row stays the newest receipt for it.                     *)
LEMMA FencingStep == TypeOK /\ ReceiptFencing /\ [Next]_vars => ReceiptFencing'
<1> SUFFICES ASSUME TypeOK, ReceiptFencing, [Next]_vars PROVE ReceiptFencing'
  OBVIOUS
<1> USE QueueAssumption DEF TypeOK, ReceiptFencing, Tokens
<1>1. CASE UNCHANGED vars
  BY <1>1, Zenon DEF vars
<1>2. ASSUME NEW i \in Items, Enqueue(i) PROVE ReceiptFencing'
  BY <1>2, Zenon DEF Enqueue
<1>3. ASSUME NEW i \in Items, ClaimNext(i) PROVE ReceiptFencing'
  <2>1. /\ receipts' = Append(receipts, i)
        /\ token' = [token EXCEPT ![i] = Len(receipts) + 1]
    BY <1>3, Zenon DEF ClaimNext
  <2>2. /\ Len(receipts) \in Nat
        /\ Len(receipts') = Len(receipts) + 1
        /\ \A u \in 1 .. Len(receipts) : receipts'[u] = receipts[u]
        /\ receipts'[Len(receipts) + 1] = i
    BY <2>1
  <2>3. ASSUME NEW j \in Items, token'[j] # 0
        PROVE  /\ token'[j] \in 1 .. Len(receipts')
               /\ receipts'[token'[j]] = j
               /\ \A u \in 1 .. Len(receipts') : receipts'[u] = j => u <= token'[j]
    <3>1. CASE j = i
      BY <2>1, <2>2, <3>1
    <3>2. CASE j # i
      <4>1. token'[j] = token[j]
        BY <2>1, <3>2, Zenon
      <4>2. /\ token[j] \in 1 .. Len(receipts)
            /\ receipts[token[j]] = j
            /\ \A u \in 1 .. Len(receipts) : receipts[u] = j => u <= token[j]
        BY <2>3, <4>1, Zenon
      <4>3. ASSUME NEW u \in 1 .. Len(receipts'), receipts'[u] = j
            PROVE  u <= token[j]
        <5>1. u # Len(receipts) + 1
          BY <2>2, <3>2, <4>3, Zenon
        <5> HIDE DEF TypeOK, ReceiptFencing
        <5>2. u \in 1 .. Len(receipts)
          BY <2>2, <5>1
        <5> QED BY <2>2, <4>2, <4>3, <5>2, Zenon
      <4>4. token[j] \in 1 .. Len(receipts') /\ receipts'[token[j]] = j
        <5> HIDE DEF TypeOK, ReceiptFencing
        <5> QED BY <2>2, <4>2
      <4> QED BY <4>1, <4>3, <4>4, Zenon
    <3> QED BY <3>1, <3>2, Zenon
  <2> QED BY <2>3, Zenon
<1>4. ASSUME NEW i \in Items, ReEnqueueAfterApproval(i) PROVE ReceiptFencing'
  BY <1>4, Zenon DEF ReEnqueueAfterApproval
<1>5. ASSUME NEW i \in Items, NEW t \in Tokens, Mark(t, i) PROVE ReceiptFencing'
  <2>1. PICK s \in (Live \cup Terminal) \ {"in_progress"} : Release(t, i, s)
    BY <1>5, MarkReleases, Zenon
  <2> QED BY <2>1, Zenon DEF Release
<1>6. ASSUME NEW i \in Items, NEW t \in Tokens, RenewLease(t, i) PROVE ReceiptFencing'
  BY <1>6, Zenon DEF RenewLease
<1>7. CASE ReconcileStale
  BY <1>7, Zenon DEF ReconcileStale
<1>8. CASE Tick
  BY <1>8, Zenon DEF Tick
<1> HIDE DEF TypeOK, ReceiptFencing, Tokens
<1> QED
  BY <1>1, <1>2, <1>3, <1>4, <1>5, <1>6, <1>7, <1>8, Zenon DEF Next

(* A worker that lost its lease can never settle the row its successor     *)
(* works on: the row's token is the last one ever minted for it.           *)
THEOREM TokensFence == Spec => []ReceiptFencing
<1>1. Init => ReceiptFencing
  BY Zenon DEF Init, ReceiptFencing
<1> QED BY <1>1, FencingStep, TypeCorrect, PTL DEF Spec

(* Only an insertion makes a row live, and it finds the key free.          *)
LEMMA DedupStep == TypeOK /\ LiveDedupUnique /\ [Next]_vars => LiveDedupUnique'
<1> SUFFICES ASSUME TypeOK, LiveDedupUnique, [Next]_vars PROVE LiveDedupUnique'
  OBVIOUS
<1> USE DEF TypeOK, LiveDedupUnique, Live
<1>1. CASE UNCHANGED vars
  BY <1>1, Zenon DEF vars
<1>2. ASSUME NEW i \in Items, Enqueue(i) PROVE LiveDedupUnique'
  <2>1. /\ \A j \in Items : ~HoldsKey(j, i)
        /\ status' = [status EXCEPT ![i] = "pending"]
    BY <1>2, Zenon DEF Enqueue
  <2>2. \A j \in Items : j # i => status'[j] = status[j]
    BY <2>1, Zenon
  <2>3. ASSUME NEW j \in Items, j # i, status'[j] \in Live, DedupKey[i] # NoKey
        PROVE  DedupKey[j] # DedupKey[i]
    BY <2>1, <2>2, <2>3, Zenon DEF HoldsKey
  <2> HIDE DEF TypeOK, Live
  <2> QED BY <2>2, <2>3, Zenon
<1>3. ASSUME NEW i \in Items, ClaimNext(i) PROVE LiveDedupUnique'
  <2>1. status[i] = "pending" /\ status' = [status EXCEPT ![i] = "in_progress"]
    BY <1>3, Zenon DEF ClaimNext, FirstInLine, Claimable
  <2> QED BY <2>1, ZenonT(60)
<1>4. ASSUME NEW i \in Items, ReEnqueueAfterApproval(i) PROVE LiveDedupUnique'
  BY <1>4, ZenonT(60) DEF ReEnqueueAfterApproval
<1>5. ASSUME NEW i \in Items, NEW t \in Tokens, Mark(t, i) PROVE LiveDedupUnique'
  <2>1. PICK s \in (Live \cup Terminal) \ {"in_progress"} : Release(t, i, s)
    BY <1>5, MarkReleases, Zenon
  <2> QED BY <2>1, Zenon DEF Release, Owns
<1>6. ASSUME NEW i \in Items, NEW t \in Tokens, RenewLease(t, i) PROVE LiveDedupUnique'
  BY <1>6, Zenon DEF RenewLease
<1>7. CASE ReconcileStale
  BY <1>7, Zenon DEF ReconcileStale, Stale
<1>8. CASE Tick
  BY <1>8, Zenon DEF Tick
<1> HIDE DEF TypeOK, LiveDedupUnique, Live
<1> QED
  BY <1>1, <1>2, <1>3, <1>4, <1>5, <1>6, <1>7, <1>8, Zenon DEF Next

(* Whatever is retried, parked, approved or reconciled, two rows that are  *)
(* not terminal never share a dedup_key.                                   *)
THEOREM DedupIsUnique == Spec => []LiveDedupUnique
<1>1. Init => LiveDedupUnique
  BY Zenon DEF Init, LiveDedupUnique, Live
<1> QED BY <1>1, DedupStep, TypeCorrect, PTL DEF Spec

(* A terminal row is final: no late mark, approval or reconciliation       *)
(* changes its status, its evidence or its count of attempts.              *)
THEOREM TerminalStays == Spec => TerminalIsFinal
<1> DEFINE Kept(i) == status[i] \in Terminal =>
                         /\ status'[i] = status[i]
                         /\ evidence'[i] = evidence[i]
                         /\ attempts'[i] = attempts[i]
           AllKept == \A i \in Items : Kept(i)
<1>1. TypeOK /\ [Next]_vars => [AllKept]_vars
  <2> SUFFICES ASSUME TypeOK, Next PROVE AllKept
    BY Zenon
  <2> USE DEF TypeOK, Terminal
  <2>1. ASSUME NEW i \in Items, Enqueue(i) PROVE AllKept
    BY <2>1, Zenon DEF Enqueue
  <2>2. ASSUME NEW i \in Items, ClaimNext(i) PROVE AllKept
    BY <2>2, Zenon DEF ClaimNext, FirstInLine, Claimable
  <2>3. ASSUME NEW i \in Items, ReEnqueueAfterApproval(i) PROVE AllKept
    BY <2>3, Zenon DEF ReEnqueueAfterApproval
  <2>4. ASSUME NEW i \in Items, NEW t \in Tokens, Mark(t, i) PROVE AllKept
    <3>1. PICK s \in (Live \cup Terminal) \ {"in_progress"} : Release(t, i, s)
      BY <2>4, MarkReleases, Zenon
    <3>2. UNCHANGED evidence \/ \E e \in Evidence : evidence' = [evidence EXCEPT ![i] = e]
      BY <2>4, Zenon DEF Mark, MarkCompleted, MarkFailed, MarkPendingApproval,
                         MarkRejected, MarkCancelled
    <3> QED BY <3>1, <3>2, Zenon DEF Release, Owns
  <2>5. ASSUME NEW i \in Items, NEW t \in Tokens, RenewLease(t, i) PROVE AllKept
    BY <2>5, Zenon DEF RenewLease
  <2>6. CASE ReconcileStale
    BY <2>6, Zenon DEF ReconcileStale, Stale
  <2>7. CASE Tick
    BY <2>7, Zenon DEF Tick
  <2> HIDE DEF TypeOK, Terminal, AllKept
  <2> QED BY <2>1, <2>2, <2>3, <2>4, <2>5, <2>6, <2>7, Zenon DEF Next
<1> QED BY <1>1, TypeCorrect, PTL DEF Spec, TerminalIsFinal

(* A lease that has time left protects its owner: only the owner's own     *)
(* retry puts the row back in the queue.                                   *)
THEOREM LeasesProtect == Spec => LeaseProtectsOwner
<1> DEFINE Protected(i) == status[i] = "in_progress" /\ lease[i] > 0 /\ status'[i] = "pending"
                           => backoff'[i] > 0 /\ attempts[i] < MaxAttempts
           AllProtected == \A i \in Items : Protected(i)
<1>1. TypeOK /\ [Next]_vars => [AllProtected]_vars
  <2> SUFFICES ASSUME TypeOK, Next PROVE AllProtected
    BY Zenon
  <2> USE DEF TypeOK
  <2>1. ASSUME NEW i \in Items, Enqueue(i) PROVE AllProtected
    BY <2>1, Zenon DEF Enqueue
  <2>2. ASSUME NEW i \in Items, ClaimNext(i) PROVE AllProtected
    BY <2>2, Zenon DEF ClaimNext
  <2>3. ASSUME NEW i \in Items, ReEnqueueAfterApproval(i) PROVE AllProtected
    BY <2>3, Zenon DEF ReEnqueueAfterApproval
  <2>4. ASSUME NEW i \in Items, NEW t \in Tokens, Mark(t, i) PROVE AllProtected
    <3>1. \/ Release(t, i, "completed") \/ Release(t, i, "failed")
          \/ Release(t, i, "pending_approval") \/ Release(t, i, "rejected")
          \/ Release(t, i, "cancelled")
          \/ /\ Release(t, i, "pending")
             /\ attempts[i] < MaxAttempts
             /\ backoff' = [backoff EXCEPT ![i] = Delay(attempts[i])]
      BY <2>4, Zenon DEF Mark, MarkCompleted, MarkFailed, MarkPendingApproval,
                         MarkRejected, MarkCancelled
    <3>2. Delay(attempts[i]) > 0
      BY DelayType, QueueAssumption
    <3> QED BY <3>1, <3>2, Zenon DEF Release
  <2>5. ASSUME NEW i \in Items, NEW t \in Tokens, RenewLease(t, i) PROVE AllProtected
    BY <2>5, Zenon DEF RenewLease
  <2>6. CASE ReconcileStale
    BY <2>6 DEF ReconcileStale, Stale
  <2>7. CASE Tick
    BY <2>7, Zenon DEF Tick
  <2> HIDE DEF TypeOK, AllProtected
  <2> QED BY <2>1, <2>2, <2>3, <2>4, <2>5, <2>6, <2>7, Zenon DEF Next
<1> QED BY <1>1, TypeCorrect, PTL DEF Spec, LeaseProtectsOwner

(* The queue implements the documented life cycle of a task.               *)
THEOREM QueueImplementsLifecycle == Spec => ImplementsLifecycle
<1>1. Init => Lifecycle!LInit
  BY Zenon DEF Init, Lifecycle!LInit
<1>2. TypeOK /\ [Next]_vars => [Lifecycle!LNext]_<<status, attempts>>
  <2> SUFFICES ASSUME TypeOK, Next
               PROVE  Lifecycle!LNext \/ UNCHANGED <<status, attempts>>
    BY Zenon DEF vars
  <2>1. ASSUME NEW i \in Items, Enqueue(i) PROVE Lifecycle!LNext
    BY <2>1, Zenon DEF Enqueue, Lifecycle!LNext, Lifecycle!Accept
  <2>2. ASSUME NEW i \in Items, ClaimNext(i) PROVE Lifecycle!LNext
    <3>1. Lifecycle!Start(i)
      BY <2>2, QueueAssumption
      DEF TypeOK, ClaimNext, FirstInLine, Claimable, Lifecycle!Start
    <3> QED BY <3>1, Zenon DEF Lifecycle!LNext
  <2>3. ASSUME NEW i \in Items, ReEnqueueAfterApproval(i) PROVE Lifecycle!LNext
    BY <2>3, Zenon DEF ReEnqueueAfterApproval, Lifecycle!LNext, Lifecycle!Unpark
  <2>4. ASSUME NEW i \in Items, NEW t \in Tokens, Mark(t, i) PROVE Lifecycle!LNext
    <3>1. PICK s \in (Live \cup Terminal) \ {"in_progress"} : Release(t, i, s)
      BY <2>4, MarkReleases, Zenon
    <3>2. CASE s \in Terminal
      BY <3>1, <3>2, Zenon DEF Release, Owns, Terminal, Lifecycle!LNext, Lifecycle!Finish, Lifecycle!Terminal
    <3>3. CASE s = "pending_approval"
      BY <3>1, <3>3, Zenon DEF Release, Owns, Lifecycle!LNext, Lifecycle!Park
    <3>4. CASE s = "pending"
      <4>1. Lifecycle!Requeue({i})
        BY <3>1, <3>4, Zenon DEF Release, Owns, TypeOK, Lifecycle!Requeue
      <4> QED BY <4>1, Zenon DEF Lifecycle!LNext
    <3> QED BY <3>1, <3>2, <3>3, <3>4, Zenon DEF Live
  <2>5. ASSUME NEW i \in Items, NEW t \in Tokens, RenewLease(t, i)
        PROVE  UNCHANGED <<status, attempts>>
    BY <2>5, Zenon DEF RenewLease
  <2>6. CASE ReconcileStale
    <3> DEFINE S == {i \in Items : Stale(i)}
    <3>1. Lifecycle!Requeue(S)
      BY <2>6, Zenon DEF ReconcileStale, Stale, Lifecycle!Requeue
    <3> QED BY <3>1, Zenon DEF Lifecycle!LNext
  <2>7. CASE Tick
    BY <2>7, Zenon DEF Tick
  <2> QED BY <2>1, <2>2, <2>3, <2>4, <2>5, <2>6, <2>7, Zenon DEF Next
<1> QED BY <1>1, <1>2, TypeCorrect, PTL DEF Spec, ImplementsLifecycle, Lifecycle!LSpec

(* A claim adds one receipt to its own row's and none to another's; no     *)
(* other operation writes a receipt or counts an attempt.                  *)
LEMMA AttemptsStep ==
    TypeOK /\ AttemptsCountClaims /\ [Next]_vars => AttemptsCountClaims'
<1> SUFFICES ASSUME TypeOK, AttemptsCountClaims, [Next]_vars
             PROVE  AttemptsCountClaims'
  OBVIOUS
<1> DEFINE Claims(j) == {t \in Tokens : receipts[t] = j}
<1>0. ASSUME UNCHANGED <<attempts, receipts>> PROVE AttemptsCountClaims'
  BY <1>0, Zenon DEF AttemptsCountClaims, Tokens
<1>1. CASE UNCHANGED vars
  BY <1>0, <1>1, Zenon DEF vars
<1>2. ASSUME NEW i \in Items, Enqueue(i) PROVE AttemptsCountClaims'
  BY <1>0, <1>2, Zenon DEF Enqueue
<1>3. ASSUME NEW i \in Items, ClaimNext(i) PROVE AttemptsCountClaims'
  <2>1. receipts' = Append(receipts, i) /\ attempts' = [attempts EXCEPT ![i] = @ + 1]
    BY <1>3, Zenon DEF ClaimNext
  <2>2. /\ Len(receipts) \in Nat
        /\ Len(receipts') = Len(receipts) + 1
        /\ \A u \in 1 .. Len(receipts) : receipts'[u] = receipts[u]
        /\ receipts'[Len(receipts) + 1] = i
    BY <2>1 DEF TypeOK
  <2>3. /\ Tokens' = Tokens \cup {Len(receipts) + 1}
        /\ Len(receipts) + 1 \notin Tokens
        /\ \A u \in Tokens : receipts'[u] = receipts[u]
    BY <2>2 DEF Tokens
  <2>4. ASSUME NEW j \in Items
        PROVE  attempts'[j] = Cardinality({t \in Tokens' : receipts'[t] = j})
    <3>1. IsFiniteSet(Tokens)
      BY <2>2, FS_Interval DEF Tokens
    <3>2. IsFiniteSet(Claims(j))
      BY <3>1, FS_Subset, Zenon
    <3>3. attempts[j] = Cardinality(Claims(j)) /\ attempts[j] \in Nat
      BY QueueAssumption DEF AttemptsCountClaims, TypeOK
    <3>4. CASE j = i
      <4>1. {t \in Tokens' : receipts'[t] = j} = Claims(j) \cup {Len(receipts) + 1}
        BY <2>2, <2>3, <3>4, Zenon
      <4>2. Len(receipts) + 1 \notin Claims(j)
        BY <2>3, Zenon
      <4> HIDE DEF Claims
      <4>3. Cardinality(Claims(j) \cup {Len(receipts) + 1}) = Cardinality(Claims(j)) + 1
        BY <3>2, <4>2, FS_AddElement, Zenon
      <4>4. attempts'[j] = attempts[j] + 1
        BY <2>1, <3>4, Zenon DEF TypeOK
      <4> QED BY <3>3, <4>1, <4>3, <4>4, Zenon
    <3>5. CASE j # i
      <4>1. {t \in Tokens' : receipts'[t] = j} = Claims(j)
        BY <2>2, <2>3, <3>5, Zenon
      <4>2. attempts'[j] = attempts[j]
        BY <2>1, <3>5, Zenon DEF TypeOK
      <4> HIDE DEF Claims
      <4> QED BY <3>3, <4>1, <4>2, Zenon
    <3> QED BY <3>4, <3>5, Zenon
  <2> QED BY <2>4, Zenon DEF AttemptsCountClaims
<1>4. ASSUME NEW i \in Items, ReEnqueueAfterApproval(i) PROVE AttemptsCountClaims'
  BY <1>0, <1>4, Zenon DEF ReEnqueueAfterApproval
<1>5. ASSUME NEW i \in Items, NEW t \in Tokens, Mark(t, i) PROVE AttemptsCountClaims'
  <2>1. PICK s \in (Live \cup Terminal) \ {"in_progress"} : Release(t, i, s)
    BY <1>5, MarkReleases, Zenon
  <2> QED BY <1>0, <2>1, Zenon DEF Release
<1>6. ASSUME NEW i \in Items, NEW t \in Tokens, RenewLease(t, i) PROVE AttemptsCountClaims'
  BY <1>0, <1>6, Zenon DEF RenewLease
<1>7. CASE ReconcileStale
  BY <1>0, <1>7, Zenon DEF ReconcileStale
<1>8. CASE Tick
  BY <1>0, <1>8, Zenon DEF Tick
<1> QED
  BY <1>1, <1>2, <1>3, <1>4, <1>5, <1>6, <1>7, <1>8, Zenon DEF Next

(* retry_count is exactly the number of times claim_next handed the row    *)
(* out, whatever retries, approvals and reconciliations came between.      *)
THEOREM AttemptsAreClaims == Spec => []AttemptsCountClaims
<1>1. Init => AttemptsCountClaims
  <2> SUFFICES ASSUME Init, NEW i \in Items
               PROVE  attempts[i] = Cardinality({t \in Tokens : receipts[t] = i})
    BY Zenon DEF AttemptsCountClaims
  <2>1. Tokens = {} /\ attempts[i] = 0
    BY DEF Init, Tokens
  <2>2. {t \in Tokens : receipts[t] = i} = {}
    BY <2>1, Zenon
  <2> QED BY <2>1, <2>2, FS_EmptySet, Zenon
<1> QED BY <1>1, AttemptsStep, TypeCorrect, PTL DEF Spec

(* The rows of agent_tasks are sound whoever calls SqliteWorkQueue: what   *)
(* the runs check of the queue, for every set of tasks and every budget.   *)
THEOREM QueueIsSafe == Spec => []QueueSafe
BY TypeCorrect, ClaimsAreExact, TokensFence, AttemptsAreClaims, DedupIsUnique, PTL
   DEF QueueSafe

(***************************************************************************)
(* The worker pool.  Ownership is not inductive by itself: a claim or a    *)
(* settlement of one worker could disturb another, unless busy workers     *)
(* hold different tokens, and a start-up could reconcile the row of a busy *)
(* worker, unless a process that is down has none.                         *)
(***************************************************************************)
Ownership ==
    /\ \A w \in Workers : Busy(w) => held[w] \in Tokens
    /\ BusyWorkerOwns
    /\ \A v, w \in Workers : v # w /\ Busy(v) /\ Busy(w) => held[v] # held[w]

DownIsIdle == ~up => \A w \in Workers : pc[w] = "off"

PoolInv == PoolTypeOK /\ DownIsIdle /\ Ownership

(* The row of a busy worker names a task.                                  *)
LEMMA TaskIsItem ==
  ASSUME PoolInv, NEW w \in Workers, Busy(w)
  PROVE  held[w] \in Tokens /\ Task(w) \in Items
  BY DEF PoolInv, Ownership, PoolTypeOK, TypeOK, Task, Tokens

(* Two busy workers process different tasks.                               *)
LEMMA TasksDiffer ==
  ASSUME PoolInv, NEW v \in Workers, NEW w \in Workers, v # w, Busy(v), Busy(w)
  PROVE  Task(v) # Task(w)
  BY ZenonT(60) DEF PoolInv, Ownership, BusyWorkerOwns, Owns

(* Every step of the pool is a step of the queue, or leaves it alone.      *)
LEMMA PoolDrivesQueue == PoolInv /\ [PoolNext]_poolVars => [Next]_vars
<1> SUFFICES ASSUME PoolInv, PoolNext PROVE Next \/ UNCHANGED vars
  BY Zenon DEF poolVars
<1>1. ASSUME NEW w \in Workers, WorkerStep(w) PROVE Next \/ UNCHANGED vars
  <2>1. ASSUME NEW i \in Items, Claim(w, i) PROVE Next
    BY <2>1, Zenon DEF Claim, Next
  <2>2. ASSUME Busy(w), Mark(held[w], Task(w)) PROVE Next
    BY <2>2, TaskIsItem, Zenon DEF Next
  <2>3. ASSUME Busy(w), StopAsCancelled(w) PROVE Next
    BY <2>2, <2>3, Zenon DEF StopAsCancelled, Mark
  <2>4. CASE BeginCycle(w)
    <3>1. Busy(w)
      BY <2>4, Zenon DEF BeginCycle, Busy
    <3> QED BY <2>3, <2>4, <3>1, Zenon DEF BeginCycle
  <2>5. CASE CycleCancelled(w)
    <3>1. Busy(w)
      BY <2>5, Zenon DEF CycleCancelled, Busy
    <3> QED BY <2>3, <2>5, <3>1, Zenon DEF CycleCancelled
  <2>6. CASE CycleEnds(w)
    <3>1. Busy(w)
      BY <2>6, Zenon DEF CycleEnds, Busy
    <3> QED BY <2>2, <2>6, <3>1, Zenon DEF CycleEnds, Mark
  <2>7. CASE CycleUnsettled(w)
    BY <2>7, Zenon DEF CycleUnsettled
  <2>8. CASE Reported(w)
    BY <2>8, Zenon DEF Reported
  <2> QED BY <1>1, <2>1, <2>4, <2>5, <2>6, <2>7, <2>8, Zenon DEF WorkerStep
<1>2. ASSUME NEW w \in Workers, WorkerRaises(w) PROVE UNCHANGED vars
  BY <1>2, Zenon DEF WorkerRaises
<1>3. ASSUME NEW w \in Workers, Heartbeat(w) PROVE Next
  BY <1>3, TaskIsItem, Zenon DEF Heartbeat, Next
<1>4. ASSUME NEW i \in Items, Submit(i) \/ RequestCancel(i) \/ Approve(i)
      PROVE  Next \/ UNCHANGED vars
  BY <1>4, Zenon DEF Submit, RequestCancel, Approve, Next
<1>5. ASSUME NEW S \in SUBSET Items, Pause(S) PROVE UNCHANGED vars
  BY <1>5, Zenon DEF Pause
<1>6. CASE Resume \/ Crash \/ Boot \/ Clock
  BY <1>6, Zenon DEF Resume, Crash, Boot, Clock, Next
<1> QED BY <1>1, <1>2, <1>3, <1>4, <1>5, <1>6, Zenon DEF PoolNext

(* A step that leaves the claims in the table alone and makes no worker    *)
(* busy disturbs nobody's claim.                                           *)
LEMMA QuietStep ==
  ASSUME PoolInv, UNCHANGED <<status, token, receipts>>,
         \A w \in Workers : Busy(w)' => Busy(w) /\ held'[w] = held[w]
  PROVE  Ownership'
  BY ZenonT(60) DEF PoolInv, Ownership, BusyWorkerOwns, Owns, Task, Tokens

(* A step that changes the status of a row nobody works on disturbs        *)
(* nobody's claim (an insertion, an approval).                             *)
LEMMA OtherRowStep ==
  ASSUME PoolInv, NEW i \in Items, status[i] # "in_progress",
         NEW s, status' = [status EXCEPT ![i] = s],
         UNCHANGED <<token, receipts, pc, held>>
  PROVE  Ownership'
<1>1. \A w \in Workers : Busy(w)' <=> Busy(w)
  BY Zenon DEF Busy
<1>2. ASSUME NEW w \in Workers, Busy(w) PROVE Owns(held[w], Task(w))'
  <2>1. Owns(held[w], Task(w)) /\ Task(w) \in Items
    BY <1>2, TaskIsItem, Zenon DEF PoolInv, Ownership, BusyWorkerOwns
  <2>2. Task(w) # i
    BY <2>1, Zenon DEF Owns
  <2> QED BY <2>1, <2>2, Zenon DEF Owns, Task, PoolInv, PoolTypeOK, TypeOK
<1> QED BY <1>1, <1>2, Zenon DEF PoolInv, Ownership, BusyWorkerOwns, Tokens

(* Settling its task frees the worker and leaves the others their claims.  *)
LEMMA SettleStep ==
  ASSUME PoolInv, NEW w \in Workers, Busy(w), NEW s, Release(held[w], Task(w), s),
         ~Busy(w)', \A v \in Workers \ {w} : pc'[v] = pc[v] /\ held'[v] = held[v]
  PROVE  Ownership'
<1>1. ASSUME NEW v \in Workers, Busy(v)'
      PROVE  /\ v # w
             /\ Busy(v)
             /\ held'[v] = held[v]
             /\ held'[v] \in Tokens'
             /\ Owns(held[v], Task(v))'
  <2>1. v # w /\ Busy(v) /\ held'[v] = held[v]
    BY <1>1, Zenon DEF Busy
  <2>2. Task(v) # Task(w) /\ Task(v) \in Items /\ Task(w) \in Items
    BY <2>1, TasksDiffer, TaskIsItem, Zenon
  <2>3. held[v] \in Tokens /\ Owns(held[v], Task(v))
    BY <2>1, Zenon DEF PoolInv, Ownership, BusyWorkerOwns
  <2>4. UNCHANGED receipts
    BY Zenon DEF Release
  <2>5. status'[Task(v)] = status[Task(v)] /\ token'[Task(v)] = token[Task(v)]
    BY <2>2, Zenon DEF Release, PoolInv, PoolTypeOK, TypeOK
  <2> QED BY <2>1, <2>3, <2>4, <2>5, Zenon DEF Owns, Task, Tokens
<1>2. ASSUME NEW u \in Workers, NEW v \in Workers, u # v, Busy(u)', Busy(v)'
      PROVE  held'[u] # held'[v]
  BY <1>1, <1>2, Zenon DEF PoolInv, Ownership
<1>3. BusyWorkerOwns'
  BY <1>1, Zenon DEF BusyWorkerOwns
<1> QED BY <1>1, <1>2, <1>3, Zenon DEF Ownership

(* A claim takes a row nobody works on, under a token nobody holds.        *)
LEMMA ClaimOwns ==
  ASSUME PoolInv, NEW w \in Workers, NEW i \in Items, Claim(w, i)
  PROVE  Ownership'
<1>1. /\ receipts \in Seq(Items) /\ Len(receipts) \in Nat
      /\ status \in [Items -> Statuses] /\ token \in [Items -> Nat]
      /\ held \in [Workers -> 0 .. Len(receipts)] /\ pc \in [Workers -> Places]
  BY DEF PoolInv, PoolTypeOK, TypeOK
<1>2. /\ status[i] = "pending"
      /\ status' = [status EXCEPT ![i] = "in_progress"]
      /\ token' = [token EXCEPT ![i] = Len(receipts) + 1]
      /\ receipts' = Append(receipts, i)
      /\ pc' = [pc EXCEPT ![w] = "claimed"]
      /\ held' = [held EXCEPT ![w] = Len(receipts) + 1]
  BY Zenon DEF Claim, ClaimNext, FirstInLine, Claimable
<1>3. /\ Len(receipts') = Len(receipts) + 1
      /\ \A u \in 1 .. Len(receipts) : receipts'[u] = receipts[u]
      /\ receipts'[Len(receipts) + 1] = i
  BY <1>1, <1>2
<1>4. held'[w] = Len(receipts) + 1 /\ held'[w] \in Tokens' /\ Owns(held[w], Task(w))'
  BY <1>1, <1>2, <1>3 DEF Owns, Task, Tokens
<1>5. ASSUME NEW v \in Workers, v # w, Busy(v)'
      PROVE  /\ Busy(v)
             /\ held'[v] = held[v]
             /\ held[v] \in 1 .. Len(receipts)
             /\ Owns(held[v], Task(v))'
  <2>1. Busy(v) /\ held'[v] = held[v]
    BY <1>1, <1>2, <1>5, Zenon DEF Busy
  <2>2. held[v] \in 1 .. Len(receipts) /\ Owns(held[v], Task(v)) /\ Task(v) \in Items
    BY <2>1, TaskIsItem, Zenon DEF PoolInv, Ownership, BusyWorkerOwns, Tokens
  <2>3. Task(v) # i
    BY <1>2, <2>2, Zenon DEF Owns
  <2>4. Task(v)' = Task(v)
    BY <1>3, <2>1, <2>2 DEF Task
  <2> QED BY <1>1, <1>2, <2>1, <2>2, <2>3, <2>4, Zenon DEF Owns
<1>6. ASSUME NEW v \in Workers, Busy(v)'
      PROVE  held'[v] \in Tokens' /\ Owns(held[v], Task(v))'
  <2>1. CASE v = w
    BY <1>4, <2>1, Zenon
  <2>2. CASE v # w
    BY <1>1, <1>3, <1>5, <1>6, <2>2 DEF Tokens
  <2> QED BY <2>1, <2>2, Zenon
<1>7. ASSUME NEW u \in Workers, NEW v \in Workers, u # v, Busy(u)', Busy(v)'
      PROVE  held'[u] # held'[v]
  <2>1. CASE u = w
    BY <1>1, <1>4, <1>5, <1>7, <2>1
  <2>2. CASE v = w
    BY <1>1, <1>4, <1>5, <1>7, <2>2
  <2>3. CASE u # w /\ v # w
    BY <1>5, <1>7, <2>3, Zenon DEF PoolInv, Ownership
  <2> QED BY <2>1, <2>2, <2>3, Zenon
<1>8. BusyWorkerOwns'
  BY <1>6, Zenon DEF BusyWorkerOwns
<1> QED BY <1>6, <1>7, <1>8, Zenon DEF Ownership

(* Stopping a cancelled task is a settlement.                              *)
LEMMA CancelOwns ==
  ASSUME PoolInv, NEW w \in Workers, Busy(w), StopAsCancelled(w)
  PROVE  Ownership'
<1>1. Release(held[w], Task(w), "cancelled")
  BY Zenon DEF StopAsCancelled, MarkCancelled
<1>2. ~Busy(w)' /\ \A v \in Workers \ {w} : pc'[v] = pc[v] /\ held'[v] = held[v]
  BY Zenon DEF StopAsCancelled, Busy, PoolInv, PoolTypeOK
<1> QED BY <1>1, <1>2, SettleStep, Zenon

(* Every step of the pool leaves every busy worker its claim.              *)
LEMMA OwnershipStep == PoolInv /\ PoolNext => Ownership'
<1> SUFFICES ASSUME PoolInv, PoolNext PROVE Ownership'
  OBVIOUS
<1>0. pc \in [Workers -> Places] /\ held \in [Workers -> 0 .. Len(receipts)]
  BY Zenon DEF PoolInv, PoolTypeOK
<1>1. ASSUME NEW w \in Workers, WorkerStep(w) PROVE Ownership'
  <2>1. CASE BeginCycle(w)
    <3>1. Busy(w)
      BY <2>1, Zenon DEF BeginCycle, Busy
    <3>2. CASE StopAsCancelled(w)
      BY <3>1, <3>2, CancelOwns, Zenon
    <3>3. CASE pc' = [pc EXCEPT ![w] = "cycle"] /\ UNCHANGED vars /\ UNCHANGED held
      <4>1. \A v \in Workers : Busy(v)' => Busy(v) /\ held'[v] = held[v]
        BY <1>0, <3>1, <3>3, Zenon DEF Busy
      <4> QED BY <3>3, <4>1, QuietStep, Zenon DEF vars
    <3> QED BY <2>1, <3>2, <3>3, Zenon DEF BeginCycle
  <2>2. CASE CycleCancelled(w)
    BY <2>2, CancelOwns, Zenon DEF CycleCancelled, Busy
  <2>3. CASE CycleEnds(w)
    <3>1. Busy(w) /\ Mark(held[w], Task(w))
      BY <2>3, Zenon DEF CycleEnds, Busy, Mark
    <3>2. PICK s : Release(held[w], Task(w), s)
      BY <3>1, TaskIsItem, MarkReleases, Zenon
    <3>3. pc' = [pc EXCEPT ![w] = "report"] /\ held' = held
      BY <2>3, Zenon DEF CycleEnds
    <3>4. ~Busy(w)' /\ \A v \in Workers \ {w} : pc'[v] = pc[v] /\ held'[v] = held[v]
      BY <1>0, <3>3, Zenon DEF Busy
    <3> QED BY <3>1, <3>2, <3>4, SettleStep, Zenon
  <2>4. CASE CycleUnsettled(w) \/ Reported(w)
    <3>1. \A v \in Workers : Busy(v)' => Busy(v) /\ held'[v] = held[v]
      BY <1>0, <2>4, Zenon DEF CycleUnsettled, Reported, Busy
    <3> QED BY <2>4, <3>1, QuietStep, Zenon DEF CycleUnsettled, Reported, vars
  <2> QED BY <1>1, <2>1, <2>2, <2>3, <2>4, ClaimOwns, Zenon DEF WorkerStep
<1>2. ASSUME NEW w \in Workers, WorkerRaises(w) PROVE Ownership'
  <2>1. \A v \in Workers : Busy(v)' => Busy(v) /\ held'[v] = held[v]
    BY <1>0, <1>2, Zenon DEF WorkerRaises, Busy
  <2> QED BY <1>2, <2>1, QuietStep, Zenon DEF WorkerRaises, vars
<1>3. ASSUME NEW w \in Workers, Heartbeat(w) PROVE Ownership'
  BY <1>3, QuietStep, Zenon DEF Heartbeat, RenewLease, procVars, Busy
<1>4. ASSUME NEW i \in Items, Submit(i) PROVE Ownership'
  BY <1>4, OtherRowStep, Zenon DEF Submit, Enqueue, procVars
<1>5. ASSUME NEW i \in Items, RequestCancel(i) PROVE Ownership'
  BY <1>5, QuietStep, Zenon DEF RequestCancel, vars, Busy
<1>6. ASSUME NEW i \in Items, Approve(i) PROVE Ownership'
  BY <1>6, OtherRowStep, Zenon DEF Approve, ReEnqueueAfterApproval, procVars
<1>7. ASSUME NEW S \in SUBSET Items, Pause(S) PROVE Ownership'
  BY <1>7, QuietStep, Zenon DEF Pause, vars, Busy
<1>8. CASE Resume
  BY <1>8, QuietStep, Zenon DEF Resume, vars, Busy
<1>9. CASE Crash
  <2>1. \A w \in Workers : ~Busy(w)'
    BY <1>9, Zenon DEF Crash, Busy
  <2> QED BY <2>1, Zenon DEF Ownership, BusyWorkerOwns
<1>10. CASE Boot
  <2>1. \A w \in Workers : ~Busy(w)'
    BY <1>10, Zenon DEF Boot, StartWorkers, Busy
  <2> QED BY <2>1, Zenon DEF Ownership, BusyWorkerOwns
<1>11. CASE Clock
  BY <1>11, QuietStep, Zenon DEF Clock, Tick, procVars, Busy
<1> QED BY <1>1, <1>2, <1>3, <1>4, <1>5, <1>6, <1>7, <1>8, <1>9, <1>10, <1>11, Zenon
        DEF PoolNext

(* A process that is down runs no worker.                                  *)
LEMMA DownStep == PoolInv /\ PoolNext => DownIsIdle'
<1> SUFFICES ASSUME PoolInv, PoolNext PROVE DownIsIdle'
  OBVIOUS
<1>0. pc \in [Workers -> Places] /\ DownIsIdle
  BY Zenon DEF PoolInv, PoolTypeOK
<1>1. ASSUME NEW w \in Workers, WorkerStep(w) \/ WorkerRaises(w) PROVE DownIsIdle'
  <2>1. pc[w] # "off" /\ up' = up
    BY <1>1, Zenon DEF WorkerStep, WorkerRaises, Claim, BeginCycle, StopAsCancelled,
                       CycleCancelled, CycleEnds, CycleUnsettled, Reported
  <2>2. up
    BY <1>0, <2>1, Zenon DEF DownIsIdle
  <2> QED BY <2>1, <2>2, Zenon DEF DownIsIdle
<1>2. ASSUME UNCHANGED <<up, pc>> PROVE DownIsIdle'
  BY <1>0, <1>2, Zenon DEF DownIsIdle
<1>3. ASSUME NEW w \in Workers, Heartbeat(w) PROVE DownIsIdle'
  BY <1>2, <1>3, Zenon DEF Heartbeat, procVars
<1>4. ASSUME NEW i \in Items, Submit(i) \/ RequestCancel(i) \/ Approve(i) PROVE DownIsIdle'
  BY <1>2, <1>4, Zenon DEF Submit, RequestCancel, Approve, procVars
<1>5. ASSUME NEW S \in SUBSET Items, Pause(S) PROVE DownIsIdle'
  BY <1>2, <1>5, Zenon DEF Pause
<1>6. CASE Resume
  BY <1>2, <1>6, Zenon DEF Resume
<1>7. CASE Crash
  BY <1>7, Zenon DEF Crash, DownIsIdle
<1>8. CASE Boot
  BY <1>8, Zenon DEF Boot, StartWorkers, DownIsIdle
<1>9. CASE Clock
  BY <1>2, <1>9, Zenon DEF Clock, procVars
<1> QED BY <1>1, <1>3, <1>4, <1>5, <1>6, <1>7, <1>8, <1>9, Zenon DEF PoolNext

(* Receipts are only ever added.                                           *)
LEMMA ReceiptsGrow ==
  ASSUME TypeOK, [Next]_vars
  PROVE  Len(receipts) \in Nat /\ Len(receipts') \in Nat /\ Len(receipts) <= Len(receipts')
<1>1. CASE UNCHANGED receipts
  BY <1>1 DEF TypeOK
<1>2. ASSUME NEW i \in Items, receipts' = Append(receipts, i)
      PROVE  Len(receipts) \in Nat /\ Len(receipts') = Len(receipts) + 1
  BY <1>2 DEF TypeOK
<1>3. UNCHANGED receipts \/ \E i \in Items : receipts' = Append(receipts, i)
  BY Zenon DEF Next, vars, Enqueue, ClaimNext, ReEnqueueAfterApproval, Mark, MarkCompleted,
               MarkFailed, MarkPendingApproval, MarkRejected, MarkCancelled, Release,
               RenewLease, ReconcileStale, Tick
<1> QED BY <1>1, <1>2, <1>3

(* The pool keeps the types of its variables.                              *)
LEMMA PoolTypeStep == PoolInv /\ PoolNext => PoolTypeOK'
<1> SUFFICES ASSUME PoolInv, PoolNext PROVE PoolTypeOK'
  OBVIOUS
<1> DEFINE Rest == /\ pc' \in [Workers -> Places]
                   /\ held' \in [Workers -> 0 .. Len(receipts')]
                   /\ cancelReq' \subseteq Items
                   /\ crashes' \in 0 .. MaxCrashes
                   /\ errors' \in 0 .. MaxErrors
<1>1. [Next]_vars
  BY PoolDrivesQueue, Zenon
<1>2. TypeOK /\ TypeOK'
  BY <1>1, TypeStep, Zenon DEF PoolInv, PoolTypeOK
<1>3. Len(receipts) \in Nat /\ Len(receipts') \in Nat /\ Len(receipts) <= Len(receipts')
  BY <1>1, <1>2, ReceiptsGrow, Zenon
<1>4. /\ pc \in [Workers -> Places]
      /\ held \in [Workers -> 0 .. Len(receipts)]
      /\ held \in [Workers -> 0 .. Len(receipts')]
      /\ cancelReq \subseteq Items
      /\ crashes \in 0 .. MaxCrashes
      /\ errors \in 0 .. MaxErrors
  BY <1>3 DEF PoolInv, PoolTypeOK
<1>5. up' \in BOOLEAN /\ paused' \in BOOLEAN
  BY Zenon DEF PoolInv, PoolTypeOK, PoolNext, WorkerStep, WorkerRaises, Heartbeat, Claim,
               BeginCycle, StopAsCancelled, CycleCancelled, CycleEnds, CycleUnsettled,
               Reported, Submit, RequestCancel, Approve, Pause, Resume, Crash, Boot,
               StartWorkers, Clock, procVars
<1>6. Rest
  <2>1. ASSUME UNCHANGED procVars PROVE Rest
    BY <1>4, <2>1, Zenon DEF procVars
  <2>2. ASSUME NEW w \in Workers, WorkerStep(w) PROVE Rest
    <3>1. ASSUME NEW i \in Items, Claim(w, i) PROVE Rest
      <4>1. Len(receipts') = Len(receipts) + 1
        BY <1>2, <3>1 DEF Claim, ClaimNext, TypeOK
      <4> QED BY <1>3, <1>4, <3>1, <4>1 DEF Claim, Places
    <3>2. CASE StopAsCancelled(w)
      BY <1>3, <1>4, <3>2 DEF StopAsCancelled, Places
    <3>3. CASE BeginCycle(w)
      <4>1. StopAsCancelled(w) \/ (pc' = [pc EXCEPT ![w] = "cycle"] /\ UNCHANGED <<held, cancelReq, crashes, errors>>)
        BY <3>3, Zenon DEF BeginCycle
      <4>2. CASE pc' = [pc EXCEPT ![w] = "cycle"] /\ UNCHANGED <<held, cancelReq, crashes, errors>>
        BY <1>4, <4>2, Zenon DEF Places
      <4> HIDE DEF Rest
      <4> QED BY <3>2, <4>1, <4>2, Zenon
    <3>4. CASE CycleEnds(w)
      <4>1. pc' = [pc EXCEPT ![w] = "report"] /\ UNCHANGED <<held, cancelReq, crashes, errors>>
        BY <3>4, Zenon DEF CycleEnds
      <4>2. pc' \in [Workers -> Places]
        BY <1>4, <4>1, Zenon DEF Places
      <4>3. held' \in [Workers -> 0 .. Len(receipts')]
        BY <1>4, <4>1, Zenon
      <4> QED BY <1>4, <4>1, <4>2, <4>3, Zenon
    <3>5. CASE CycleUnsettled(w) \/ Reported(w)
      BY <1>3, <1>4, <3>5 DEF CycleUnsettled, Reported, Places
    <3> HIDE DEF Rest
    <3> QED BY <2>2, <3>1, <3>2, <3>3, <3>4, <3>5, Zenon DEF WorkerStep, CycleCancelled
  <2>3. ASSUME NEW w \in Workers, WorkerRaises(w) PROVE Rest
    BY <1>3, <1>4, <2>3, PoolAssumption DEF WorkerRaises, Places
  <2>4. ASSUME NEW i \in Items, RequestCancel(i) PROVE Rest
    BY <1>4, <2>4, Zenon DEF RequestCancel
  <2>5. ASSUME NEW S \in SUBSET Items, Pause(S) PROVE Rest
    BY <1>4, <2>5, Zenon DEF Pause
  <2>6. CASE Resume
    BY <1>4, <2>6, Zenon DEF Resume
  <2>7. CASE Crash
    BY <1>3, <1>4, <2>7, PoolAssumption DEF Crash, Places
  <2>8. CASE Boot
    BY <1>4, <2>8, Zenon DEF Boot, StartWorkers, Places
  <2> HIDE DEF Rest
  <2> QED BY <2>1, <2>2, <2>3, <2>4, <2>5, <2>6, <2>7, <2>8, Zenon
          DEF PoolNext, Heartbeat, Submit, Approve, Clock
<1> QED BY <1>2, <1>5, <1>6, Zenon DEF PoolTypeOK

(* The invariant the pool's guarantees rest on.                            *)
THEOREM PoolInvariant == PoolSpec => []PoolInv
<1>1. PoolInit => PoolInv
  <2> SUFFICES ASSUME PoolInit PROVE PoolInv
    OBVIOUS
  <2>1. TypeOK
    BY QueueAssumption DEF PoolInit, Init, TypeOK, Statuses
  <2>2. \A w \in Workers : ~Busy(w)
    BY Zenon DEF PoolInit, Busy
  <2>3. Len(receipts) = 0
    BY Zenon DEF PoolInit, Init
  <2>4. up = TRUE /\ paused = FALSE
    BY Zenon DEF PoolInit
  <2>5. /\ pc \in [Workers -> Places]
        /\ held \in [Workers -> 0 .. Len(receipts)]
        /\ cancelReq \subseteq Items
        /\ crashes \in 0 .. MaxCrashes
        /\ errors \in 0 .. MaxErrors
    BY <2>3, PoolAssumption DEF PoolInit, Places
  <2>6. PoolTypeOK
    BY <2>1, <2>4, <2>5, Zenon DEF PoolTypeOK
  <2>7. Ownership
    BY <2>2, Zenon DEF Ownership, BusyWorkerOwns
  <2> QED BY <2>4, <2>6, <2>7, Zenon DEF PoolInv, DownIsIdle
<1>2. PoolInv /\ [PoolNext]_poolVars => PoolInv'
  <2>1. PoolInv /\ PoolNext => PoolInv'
    BY OwnershipStep, DownStep, PoolTypeStep, Zenon DEF PoolInv
  <2>2. PoolInv /\ UNCHANGED poolVars => PoolInv'
    BY DEF poolVars, vars, procVars, PoolInv, PoolTypeOK, TypeOK, DownIsIdle, Ownership,
           BusyWorkerOwns, Busy, Owns, Task, Tokens
  <2> QED BY <2>1, <2>2, Zenon
<1> QED BY <1>1, <1>2, PTL DEF PoolSpec

(* The daemon's state keeps its types for any number of workers and tasks: *)
(* no worker ever holds a token claim_next did not hand out.               *)
THEOREM PoolTypesHold == PoolSpec => []PoolTypeOK
<1>1. PoolInv => PoolTypeOK
  BY Zenon DEF PoolInv
<1> QED BY <1>1, PoolInvariant, PTL

(* For any number of workers and tasks: who processes a task holds the     *)
(* live claim on it, so no mark_* of _process is ever refused.             *)
THEOREM WorkersOwnTheirTasks == PoolSpec => []BusyWorkerOwns
<1>1. PoolInv => BusyWorkerOwns
  BY Zenon DEF PoolInv, Ownership
<1> QED BY <1>1, PoolInvariant, PTL

(* For any number of workers and tasks: no task is processed twice at the  *)
(* same time, across cancellations, dying workers, crashes and restarts.   *)
THEOREM NoTaskRunsTwice == PoolSpec => []OneRunnerPerTask
<1>1. PoolInv => OneRunnerPerTask
  BY TasksDiffer, Zenon DEF OneRunnerPerTask
<1> QED BY <1>1, PoolInvariant, PTL

(* The pool drives the queue only through the queue's operations, so the   *)
(* theorems about WorkQueue hold of the running daemon.                    *)
THEOREM PoolImplementsQueue == PoolSpec => ImplementsQueue
<1>1. PoolInit => Init
  BY Zenon DEF PoolInit
<1> QED BY <1>1, PoolDrivesQueue, PoolInvariant, PTL DEF PoolSpec, Spec, ImplementsQueue

(* What the runs check of the pool, for every number of workers and tasks: *)
(* nobody works on what another worker owns (_worker_main, _process).      *)
THEOREM PoolIsSafe == PoolSpec => []PoolSafe
BY PoolTypesHold, WorkersOwnTheirTasks, NoTaskRunsTwice, PTL DEF PoolSafe
=============================================================================
