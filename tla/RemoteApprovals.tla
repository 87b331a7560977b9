-------------------------- MODULE RemoteApprovals --------------------------
(***************************************************************************)
(* Approvals that an organisation's cloud decides: the process config_sync *)
(* (config_sync/remote_approvals.py) pushes the pending rows routed to it, *)
(* polls signed decisions, applies them to the table of ApprovalGate and   *)
(* to the queue, and acknowledges them.  It shares nothing with the daemon *)
(* but the database, every statement is a transaction of its own, and it   *)
(* may die between any two; requests and answers of the cloud may be lost. *)
(*                                                                         *)
(* A request is the position of `requests`: the uuid4 of one push.  The    *)
(* cloud signs one decision per request, so the request also stands for    *)
(* the nonce.  `born` is created_at of a row, as a count of insertions.    *)
(***************************************************************************)
EXTENDS ApprovalGate, FiniteSets

CONSTANTS
    MaxAttempts,    \* claims of a task
    MaxRequests,    \* bound: how many pushes reach the cloud
    MaxRows         \* bound: how often the row of an action is inserted

ASSUME RemoteAssumption ==
    /\ MaxAttempts \in Nat \ {0}
    /\ MaxRequests \in Nat
    /\ MaxRows \in Nat

VARIABLES
    native,         \* Enterprise actions of native tools: no work item
    state, starts,  \* the queue (TaskLifecycle)
    parking,        \* the action a task is about to be parked on
    waiting,        \* native actions whose conversation thread is blocked
    born,           \* column created_at
    requests,       \* requests[r]: the action pushed and its created_at
    verdict,        \* what the cloud decided on each request
    acked,          \* decisions the cloud need not serve again
    pushed,         \* table remote_approval_pushed
    seen,           \* table remote_approval_decision_nonces
    syncAt,         \* where config_sync is
    outbox,         \* rows it has selected and not pushed yet
    inbox,          \* decisions it has fetched and not handled yet
    toAck,          \* decisions it will acknowledge
    settled,        \* history: the decisions that resolved a row
    cut,            \* history: died between the nonce and the row
    forgotten,      \* history: nonces that were pruned
    parkedOn        \* history: the row a task was last parked on, if not approved yet

Queue == INSTANCE TaskLifecycle WITH Items <- Tasks

queueVars == <<state, starts, parking, parkedOn>>

cloudVars == <<requests, verdict, acked>>

roundVars == <<pushed, seen, syncAt, outbox, inbox, toAck>>

historyVars == <<settled, cut, forgotten>>

remoteVars == <<gateVars, native, queueVars, waiting, born, cloudVars, roundVars, historyVars>>

(* Where config_sync is; in the last five it handles the decision .req.    *)
Idle == [at |-> "idle", req |-> 0]

At(place, r) == [at |-> place, req |-> r]

Action(r) == requests[r].action

(* _is_broker_row                                                          *)
BrokerRow(p) == workItem[p] # NoTask

-----------------------------------------------------------------------------
RemoteInit ==
    /\ GateInit
    /\ native \in SUBSET Enterprise
    /\ state = [t \in Tasks |-> "pending"]
    /\ starts = [t \in Tasks |-> 0]
    /\ parking = [t \in Tasks |-> NoAction]
    /\ parkedOn = [t \in Tasks |-> NoAction]
    /\ waiting = {}
    /\ born = [p \in Actions |-> 0]
    /\ requests = << >>
    /\ verdict = << >>
    /\ acked = {}
    /\ pushed = {}
    /\ seen = {}
    /\ syncAt = Idle
    /\ outbox = {}
    /\ inbox = {}
    /\ toAck = {}
    /\ settled = {}
    /\ cut = {}
    /\ forgotten = {}

SyncUnaffected == UNCHANGED <<native, cloudVars, roundVars, historyVars>>

(* A row that is inserted has a new created_at.                            *)
Stamp(p) ==
    /\ status[p] = "none" \/ Rearmed(p) => born[p] < MaxRows
    /\ born' = [born EXCEPT ![p] = IF status[p] = "none" \/ Rearmed(p) THEN @ + 1 ELSE @]

(* Tasks in the daemon.  The broker registers the card ...                 *)
Propose(t, p) ==
    /\ state[t] = "in_progress"
    /\ parking[t] = NoAction
    /\ p \notin native
    /\ LiveToken(p) = 0
    /\ RegisterPending(p, t)
    /\ Stamp(p)
    /\ IF status'[p] = "pending"
         THEN parking' = [parking EXCEPT ![t] = p] /\ UNCHANGED state
         ELSE state' = [state EXCEPT ![t] = "rejected"] /\ UNCHANGED parking
    /\ UNCHANGED <<starts, waiting, parkedOn>>
    /\ SyncUnaffected

(* ... and the orchestrator parks the task: config_sync may be faster.     *)
ParkTask(t) ==
    /\ parking[t] # NoAction
    /\ Queue!Park(t)
    /\ parking' = [parking EXCEPT ![t] = NoAction]
    /\ parkedOn' = [parkedOn EXCEPT ![t] =
                      IF status[parking[t]] = "approved" THEN NoAction ELSE parking[t]]
    /\ UNCHANGED <<gateVars, waiting, born>>
    /\ SyncUnaffected

StartTask(t) ==
    /\ Queue!Start(t)
    /\ UNCHANGED <<gateVars, parking, parkedOn, waiting, born>>
    /\ SyncUnaffected

(* The task dispatches the approved action with its token.                 *)
UseApproval(t, p) ==
    /\ state[t] = "in_progress"
    /\ parking[t] = NoAction
    /\ LiveToken(p) # 0
    /\ AcceptToken(p, LiveToken(p))
    /\ UNCHANGED <<queueVars, waiting, born>>
    /\ SyncUnaffected

(* _resolve_native_danger_approval: the row, whatever register_pending     *)
(* answers, then the wait.                                                 *)
HookAsks(p) ==
    /\ p \in native
    /\ p \notin waiting
    /\ RegisterPending(p, NoTask)
    /\ Stamp(p)
    /\ waiting' = waiting \cup {p}
    /\ UNCHANGED queueVars
    /\ SyncUnaffected

HookTimesOut(p) ==
    /\ p \in waiting
    /\ Expire(p)
    /\ waiting' = waiting \ {p}
    /\ UNCHANGED <<queueVars, born>>
    /\ SyncUnaffected

(* Time passes for a row and for a token.                                  *)
RowAges(p) ==
    /\ Age(p)
    /\ UNCHANGED <<queueVars, waiting, born>>
    /\ SyncUnaffected

TokenLapses(k) ==
    /\ Lapse(k)
    /\ UNCHANGED <<queueVars, waiting, born>>
    /\ SyncUnaffected

(* The owner may always deny, and wakes the thread.                        *)
DenyReads(p) ==
    /\ RejectReads(p)
    /\ UNCHANGED <<queueVars, waiting, born>>
    /\ SyncUnaffected

DenyWrites(p) ==
    /\ RejectWrites(p)
    /\ waiting' = waiting \ {p}
    /\ UNCHANGED <<queueVars, born>>
    /\ SyncUnaffected

DaemonRestarts ==
    /\ Restart
    /\ Queue!Requeue({t \in Tasks : state[t] = "in_progress"})
    /\ parking' = [t \in Tasks |-> NoAction]
    /\ waiting' = {}
    /\ UNCHANGED <<born, parkedOn>>
    /\ SyncUnaffected

-----------------------------------------------------------------------------
(* The cloud: somebody decides; the decision is served until it is acked.  *)

DaemonUnaffected == UNCHANGED <<native, state, starts, parking, parkedOn, waiting, born>>

Decide(r, c) ==
    /\ verdict[r] = "none"
    /\ verdict' = [verdict EXCEPT ![r] = c]
    /\ UNCHANGED <<gateVars, requests, acked, roundVars, historyVars>>
    /\ DaemonUnaffected

-----------------------------------------------------------------------------
(* config_sync, one tick: push, poll, apply, acknowledge.                  *)

(* _fetch_unpushed_enterprise_rows                                         *)
Unpushed(p) ==
    /\ status[p] = "pending"
    /\ \A r \in pushed : Action(r) = p => requests[r].born < born[p]

TickBegins ==
    /\ syncAt = Idle
    /\ outbox' = {[action |-> p, born |-> born[p]] : p \in {e \in Enterprise : Unpushed(e)}}
    /\ syncAt' = At("push", 0)
    /\ UNCHANGED <<gateVars, cloudVars, pushed, seen, inbox, toAck, historyVars>>
    /\ DaemonUnaffected

(* _post_approval: the request reaches the cloud, and the answer comes     *)
(* back or does not; or nothing reaches it.  Only an answer is recorded.   *)
Post(row) ==
    /\ syncAt.at = "push"
    /\ row \in outbox
    /\ outbox' = outbox \ {row}
    /\ \/ /\ Len(requests) < MaxRequests
          /\ requests' = Append(requests, row)
          /\ verdict' = Append(verdict, "none")
          /\ \/ syncAt' = At("posted", Len(requests) + 1)
             \/ UNCHANGED syncAt
       \/ UNCHANGED <<requests, verdict, syncAt>>
    /\ UNCHANGED <<gateVars, acked, pushed, seen, inbox, toAck, historyVars>>
    /\ DaemonUnaffected

MarkPushed ==
    /\ syncAt.at = "posted"
    /\ pushed' = pushed \cup {syncAt.req}
    /\ syncAt' = At("push", 0)
    /\ UNCHANGED <<gateVars, cloudVars, seen, outbox, inbox, toAck, historyVars>>
    /\ DaemonUnaffected

(* _fetch_decisions and _prune_stale_remote_approval_state, where the      *)
(* pushes up to k and the nonces up to j are past the retention.           *)
Poll(k, j) ==
    /\ syncAt.at = "push"
    /\ outbox = {}
    /\ j <= k
    /\ \/ inbox' = {r \in DOMAIN requests : verdict[r] # "none"} \ acked
       \/ inbox' = {}
    /\ pushed' = {r \in pushed : r > k \/ status[Action(r)] = "pending"}
    /\ seen' = {r \in seen : r > j}
    /\ forgotten' = forgotten \cup {r \in seen : r <= j}
    /\ syncAt' = At("apply", 0)
    /\ UNCHANGED <<gateVars, cloudVars, outbox, toAck, settled, cut>>
    /\ DaemonUnaffected

(* Variant: the request is looked up and not compared with later ones.     *)
Latest_Any(r) == TRUE

(* _is_latest_request_for_proposal                                         *)
Latest(r) ==
    \A q \in pushed :
       Action(q) = Action(r) => requests[q].born <= requests[r].born

(* Minted on an earlier tick, and the task is still parked.                *)
Stuck(r) ==
    LET card == Action(r)
    IN  /\ verdict[r] = "approve"
        /\ status[card] = "approved"
        /\ BrokerRow(card)
        /\ state[workItem[card]] = "pending_approval"

(* _nonce_seen_or_mark finds the nonce.                                    *)
Replayed(r) == r \in seen

(* The decision is done with; it is acknowledged if `ack`.                 *)
Handled(r, ack) ==
    /\ inbox' = inbox \ {r}
    /\ toAck' = IF ack THEN toAck \cup {r} ELSE toAck
    /\ syncAt' = At("apply", 0)

SyncOnly == UNCHANGED <<gateVars, cloudVars, outbox>> /\ DaemonUnaffected

(* _verify_and_apply_decision, up to the point where it acts.  An item     *)
(* that fails a check is left to be served again; a request superseded and *)
(* a row resolved are acknowledged.                                        *)
Verify(r) ==
    /\ syncAt.at = "apply"
    /\ r \in inbox
    /\ \/ /\ r \notin pushed
          /\ Handled(r, FALSE)
          /\ UNCHANGED seen
       \/ /\ r \in pushed /\ ~Latest(r)
          /\ Handled(r, TRUE)
          /\ UNCHANGED seen
       \/ /\ r \in pushed /\ Latest(r)
          /\ status[Action(r)] # "pending"
          /\ IF Stuck(r)
               THEN syncAt' = At("minted", r) /\ UNCHANGED <<inbox, toAck>>
               ELSE Handled(r, TRUE)
          /\ UNCHANGED seen
       \/ /\ r \in pushed /\ Latest(r)
          /\ status[Action(r)] = "pending"
          /\ verdict[r] = "approve" /\ BrokerRow(Action(r))
          /\ syncAt' = At("mint", r)
          /\ UNCHANGED <<seen, inbox, toAck>>
       \/ /\ r \in pushed /\ Latest(r)
          /\ status[Action(r)] = "pending"
          /\ verdict[r] = "deny" \/ ~BrokerRow(Action(r))
          /\ IF Replayed(r)
               THEN Handled(r, TRUE)
               ELSE syncAt' = At("noted", r) /\ UNCHANGED <<inbox, toAck>>
          /\ seen' = seen \cup {r}
    /\ UNCHANGED <<pushed, historyVars>>
    /\ SyncOnly

(* The row resolved is not the one pushed, if that one has been replaced.  *)
Record(r) ==
    settled' = settled \cup
        {[req   |-> r,
          born  |-> born[Action(r)],
          known |-> \E q \in pushed : /\ Action(q) = Action(r)
                                      /\ requests[q].born = born[Action(r)],
          mint  |-> syncAt.at = "mint"]}

(* approve_enterprise_decision: minted, resolved by somebody else in the   *)
(* meantime (acknowledged), or failed (not acknowledged).                  *)
MintDecision ==
    /\ syncAt.at = "mint"
    /\ LET r == syncAt.req
       IN  \/ /\ ApproveEnterprise(Action(r))
              /\ Record(r)
              /\ syncAt' = At("minted", r)
              /\ UNCHANGED <<inbox, toAck>>
           \/ /\ status[Action(r)] # "pending"
              /\ Handled(r, TRUE)
              /\ UNCHANGED <<gateVars, settled>>
           \/ /\ status[Action(r)] = "pending"
              /\ Handled(r, FALSE)
              /\ UNCHANGED <<gateVars, settled>>
    /\ UNCHANGED <<cloudVars, outbox, pushed, seen, cut, forgotten>>
    /\ DaemonUnaffected

(* re_enqueue_after_approval: done, nothing to do (ValueError), or failed. *)
Reenqueue ==
    /\ syncAt.at = "minted"
    /\ LET task == workItem[Action(syncAt.req)]
       IN  \/ /\ IF state[task] = "pending_approval"
                   THEN Queue!Unpark(task)
                   ELSE UNCHANGED <<state, starts>>
              /\ syncAt' = At("confirm", syncAt.req)
              /\ UNCHANGED <<inbox, toAck>>
           \/ /\ Handled(syncAt.req, FALSE)
              /\ UNCHANGED <<state, starts>>
    /\ UNCHANGED <<gateVars, native, parking, parkedOn, waiting, born, cloudVars>>
    /\ UNCHANGED <<pushed, seen, outbox, historyVars>>

(* The status is read again: only a task that has moved is a success.      *)
Confirm ==
    /\ syncAt.at = "confirm"
    /\ LET moved == state[workItem[Action(syncAt.req)]] # "pending_approval"
       IN  /\ seen' = IF moved THEN seen \cup {syncAt.req} ELSE seen
           /\ Handled(syncAt.req, moved)
    /\ UNCHANGED <<pushed, historyVars>>
    /\ SyncOnly

(* _resolve_pending_row of a denial or a native approval, and the signal,  *)
(* which looks for waiters in the table of this process: there are none.   *)
ResolveRow ==
    /\ syncAt.at = "noted"
    /\ LET r == syncAt.req
           card == Action(r)
       IN  /\ Handled(r, TRUE)
           /\ IF status[card] = "pending"
                THEN /\ status' = [status EXCEPT ![card] =
                                     IF verdict[r] = "approve" THEN "approved" ELSE "rejected"]
                     /\ Record(r)
                ELSE UNCHANGED <<status, settled>>
    /\ UNCHANGED <<tries, workItem, consumed, hmac, aged, tokenVars, denying, restarts>>
    /\ UNCHANGED <<cloudVars, outbox, pushed, seen, cut, forgotten>>
    /\ DaemonUnaffected

(* _ack_decisions: one request for all, which may be lost.                 *)
Ack ==
    /\ syncAt.at = "apply"
    /\ inbox = {}
    /\ acked' = acked \cup toAck \/ UNCHANGED acked
    /\ toAck' = {}
    /\ syncAt' = Idle
    /\ UNCHANGED <<gateVars, requests, verdict, pushed, seen, outbox, inbox, historyVars>>
    /\ DaemonUnaffected

SyncDies ==
    /\ syncAt # Idle
    /\ syncAt' = Idle
    /\ outbox' = {}
    /\ inbox' = {}
    /\ toAck' = {}
    /\ cut' = IF syncAt.at = "noted" THEN cut \cup {syncAt.req} ELSE cut
    /\ UNCHANGED <<gateVars, cloudVars, pushed, seen, settled, forgotten>>
    /\ DaemonUnaffected

ConfigSyncNext ==
    \/ TickBegins
    \/ \E row \in outbox : Post(row)
    \/ MarkPushed
    \/ \E k, j \in 0 .. Len(requests) : Poll(k, j)
    \/ \E r \in inbox : Verify(r)
    \/ MintDecision
    \/ Reenqueue
    \/ Confirm
    \/ ResolveRow
    \/ Ack
    \/ SyncDies

RemoteNext ==
    \/ \E t \in Tasks :
          \/ StartTask(t)
          \/ ParkTask(t)
          \/ \E p \in Enterprise : Propose(t, p) \/ UseApproval(t, p)
    \/ \E p \in Enterprise :
          \/ HookAsks(p) \/ HookTimesOut(p)
          \/ RowAges(p) \/ DenyReads(p) \/ DenyWrites(p)
    \/ \E k \in Tokens : TokenLapses(k)
    \/ DaemonRestarts
    \/ \E r \in DOMAIN requests, c \in {"approve", "deny"} : Decide(r, c)
    \/ ConfigSyncNext

RemoteSpec == RemoteInit /\ [][RemoteNext]_remoteVars
-----------------------------------------------------------------------------
(* Properties                                                              *)

(* The state of config_sync, of the cloud and of the tasks has its type.   *)
RemoteTypeOK ==
    /\ native \subseteq Enterprise
    /\ state \in [Tasks -> Queue!States]
    /\ starts \in [Tasks -> 0 .. MaxAttempts]
    /\ parking \in [Tasks -> Actions \cup {NoAction}]
    /\ parkedOn \in [Tasks -> Actions \cup {NoAction}]
    /\ born \in [Actions -> Nat]
    /\ requests \in Seq([action : Enterprise, born : Nat])
    /\ verdict \in Seq({"none", "approve", "deny"})
    /\ Len(verdict) = Len(requests)
    /\ acked \cup pushed \cup seen \cup inbox \cup toAck \subseteq DOMAIN requests
    /\ syncAt \in [at : {"idle", "push", "posted", "apply", "mint", "minted",
                         "confirm", "noted"},
                   req : 0 .. Len(requests)]

(* "a decision that arrives for an OLDER, superseded occurrence must never *)
(* resolve the newer one's still-pending row" (remote_approvals.py:450):   *)
(* once the row that is there has been pushed itself, only the decision on *)
(* that push resolves it, whatever is served late, twice or after a crash. *)
OccurrenceDecided ==
    \A s \in settled : s.known => requests[s.req].born = s.born

(* A denial, and the approval of a native action, resolves one row only,   *)
(* although it is served until it is acknowledged and acknowledgements get *)
(* lost: the nonce is spent before the row is touched.  (A nonce that was  *)
(* pruned in between guards nothing.)                                      *)
DecidedOnce ==
    \A s, u \in settled :
       s.req = u.req /\ ~s.mint /\ ~u.mint /\ s.req \notin forgotten => s = u

(* No decision is lost by acknowledging it: the row it was made for is not *)
(* pending any more, unless config_sync died between the nonce and the row *)
(* (the served again decision is then taken for a replay).                 *)
AckedIsSettled ==
    \A r \in acked \cup toAck :
       /\ status[Action(r)] = "pending"
       /\ born[Action(r)] = requests[r].born
       => r \in cut

(* An approval that was minted and acknowledged is not stranded (comment   *)
(* of _reenqueue_and_confirm_broker_row): no task is left parked on it,    *)
(* also when config_sync died between the two writes, unless the task was  *)
(* parked after the approval.                                              *)
AckedTaskMoves ==
    \A r \in acked \cup toAck :
       LET card == Action(r)
       IN  /\ verdict[r] = "approve"
           /\ status[card] = "approved"
           /\ born[card] = requests[r].born
           /\ BrokerRow(card)
           /\ LiveToken(card) # 0
           /\ ~consumed[card]
           => ~ /\ state[workItem[card]] = "pending_approval"
                /\ parkedOn[workItem[card]] = card

\* A decision of the cloud settles the occurrence it was made for, once, and
\* is acknowledged only then, whatever is lost, late or served twice.
RemoteSafe ==
    /\ RemoteTypeOK /\ OccurrenceDecided /\ DecidedOnce /\ AckedIsSettled
    /\ AckedTaskMoves
=============================================================================
