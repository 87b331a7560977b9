--------------------------- MODULE ActionDispatch ---------------------------
(***************************************************************************)
(* How an action the engine proposes reaches the world: the turns of       *)
(* NousReasoningEngine that call CapabilityBroker.dispatch in line and     *)
(* block a chat until the owner decides, the second dispatch that          *)
(* AgentLoopOrchestrator makes for what stayed pending, the broker's gates *)
(* and its IntentLog, the owner's approve_action and reject_action, and a  *)
(* daemon that dies between any two steps.                                 *)
(*                                                                         *)
(* The queue appears as its abstract life cycle (TaskLifecycle, which      *)
(* WorkQueue implements).  A dispatch runs without suspension up to the    *)
(* call of the adapter, and again up to the signing of the audit entry.    *)
(***************************************************************************)
EXTENDS ApprovalGate

CONSTANTS
    Chats,         \* tasks with a conversation: they wait for the owner
    Risky,         \* actions whose effective risk needs a human
    MaxAttempts,   \* claims of a task
    MaxTodo,       \* bound: actions left pending by one turn
    MaxFailures    \* bound: how often an adapter reports a failure

ASSUME DispatchAssumption ==
    /\ Chats \subseteq Tasks
    /\ Risky \subseteq Actions
    /\ MaxAttempts \in Nat \ {0}
    /\ MaxTodo \in Nat
    /\ MaxFailures \in Nat

VARIABLES
    state, starts,   \* the queue (TaskLifecycle)
    parkedOn,        \* payload["_pending_proposal_id"], or NoAction
    turn,            \* where the turn of each task is
    from,            \* who made the current dispatch: "engine", "resume", "loop"
    act,             \* the action being dispatched, or waited for
    pid,             \* the proposal id it is dispatched under
    tok,             \* the token in hand (resume, or pre-approved in the loop)
    spent,           \* the token the gate let the current dispatch through with
    todo,            \* GovernedAIAgent._pending_proposals
    proof,           \* real_evidence_id is set
    slot,            \* the Event slot a blocked chat waits on
    presignal,       \* security_hook._presignals
    deciding,        \* decisions written but not yet re-queued and signalled
    outcome,         \* the intent log: outcome[<<id, action>>]
    effects,         \* history: the changes of the world, in order
    failures,
    turnedAway       \* history: actions refused to the task they were approved for

queueVars == <<state, starts, parkedOn>>

turnVars == <<turn, from, act, pid, tok, spent, todo, proof>>

signalVars == <<slot, presignal, deciding>>

logVars == <<outcome, effects, failures, turnedAway>>

dispatchVars == <<gateVars, queueVars, turnVars, signalVars, logVars>>

Queue == INSTANCE TaskLifecycle WITH Items <- Tasks

Keys == Actions \X Actions

(* "off" no turn; "engine" the model reasons; "asked" the card is shown,    *)
(* "checking" the thread has registered its slot, "waiting" it sleeps,      *)
(* "expiring" it has slept too long; "resumed" approved; "armed" token      *)
(* read; "loop" the orchestrator dispatches what stayed pending; "effect"   *)
(* intent recorded, adapter called; "applied" the world changed; "signing   *)
(* ok", "signing failed" outcome recorded, audit entry not yet signed.      *)
Places == {"off", "engine", "asked", "checking", "waiting", "expiring",
           "resumed", "armed", "loop", "effect", "applied", "signing ok",
           "signing failed"}

SlotValues == {"none", "approved", "denied"}

Key(t) == <<pid[t], act[t]>>

(* What the ledger of the world notes of a change: the action and the id   *)
(* it was dispatched under, the token, and which life of the daemon it was.*)
ChangeBy(t) == [key |-> Key(t), token |-> spent[t], life |-> restarts]

-----------------------------------------------------------------------------
DispatchInit ==
    /\ GateInit
    /\ state = [t \in Tasks |-> "pending"]
    /\ starts = [t \in Tasks |-> 0]
    /\ parkedOn = [t \in Tasks |-> NoAction]
    /\ turn = [t \in Tasks |-> "off"]
    /\ from = [t \in Tasks |-> "engine"]
    /\ act = [t \in Tasks |-> NoAction]
    /\ pid = [t \in Tasks |-> NoAction]
    /\ tok = [t \in Tasks |-> 0]
    /\ spent = [t \in Tasks |-> 0]
    /\ todo = [t \in Tasks |-> << >>]
    /\ proof = [t \in Tasks |-> FALSE]
    /\ slot = [t \in Tasks |-> "none"]
    /\ presignal = [p \in Actions |-> "none"]
    /\ deciding = {}
    /\ outcome = [k \in Keys |-> "none"]
    /\ effects = << >>
    /\ failures = 0
    /\ turnedAway = {}

(* The turn goes to place pl, with no dispatch in progress.                *)
GoTo(t, pl) ==
    /\ turn' = [turn EXCEPT ![t] = pl]
    /\ from' = [from EXCEPT ![t] = "engine"]
    /\ act' = [act EXCEPT ![t] = NoAction]
    /\ pid' = [pid EXCEPT ![t] = NoAction]
    /\ spent' = [spent EXCEPT ![t] = 0]

(* _process returns.                                                       *)
EndTurn(t) ==
    /\ GoTo(t, "off")
    /\ tok' = [tok EXCEPT ![t] = 0]
    /\ todo' = [todo EXCEPT ![t] = << >>]
    /\ proof' = [proof EXCEPT ![t] = FALSE]

(* mark_failed: back to the queue, or terminal.                            *)
Fail(t) ==
    \/ starts[t] < MaxAttempts /\ Queue!Requeue({t})
    \/ starts[t] >= MaxAttempts /\ Queue!Finish(t, "failed")

-----------------------------------------------------------------------------
(* What the callers of the broker do with its outcome r for action a:      *)
(* "pending", "refused", "failed", "repeat" (EXECUTED, found in the intent *)
(* log, without audit entry) or "done" (EXECUTED with its audit entry).    *)

(* _dispatch_write_proposal and _handle_outcome: a pending action of a     *)
(* chat blocks the thread, any other is left for the orchestrator.         *)
EngineGets(t, c, a, r) ==
    /\ tok' = [tok EXCEPT ![t] = 0]
    /\ UNCHANGED <<queueVars, proof>>
    /\ \/ /\ r = "pending" /\ t \in Chats
          /\ c # "resume"
          /\ turn' = [turn EXCEPT ![t] = "asked"]
          /\ act' = [act EXCEPT ![t] = a]
          /\ from' = [from EXCEPT ![t] = "engine"]
          /\ pid' = [pid EXCEPT ![t] = NoAction]
          /\ spent' = [spent EXCEPT ![t] = 0]
          /\ UNCHANGED todo
       \/ /\ r = "pending"
          /\ t \notin Chats \/ c = "resume"
          /\ Len(todo[t]) < MaxTodo
          /\ GoTo(t, "engine")
          /\ todo' = [todo EXCEPT ![t] = Append(@, a)]
       \/ /\ r # "pending"
          /\ GoTo(t, "engine")
          /\ UNCHANGED todo

(* _dispatch_proposals: the task is parked under the id the engine gave,   *)
(* not under the one the broker was called with.                           *)
LoopGets(t, a, r) ==
    /\ \/ /\ r = "pending"
          /\ Queue!Park(t)
          /\ parkedOn' = [parkedOn EXCEPT ![t] = a]
          /\ EndTurn(t)
       \/ /\ r = "refused"
          /\ Queue!Finish(t, "rejected")
          /\ EndTurn(t)
          /\ UNCHANGED parkedOn
       \/ /\ r = "failed"
          /\ Fail(t)
          /\ EndTurn(t)
          /\ UNCHANGED parkedOn
       \/ /\ r \in {"repeat", "done"}
          /\ GoTo(t, "loop")
          /\ todo' = [todo EXCEPT ![t] = Tail(@)]
          /\ proof' = [proof EXCEPT ![t] = @ \/ r = "done"]
          /\ UNCHANGED <<queueVars, tok>>

CallerGets(t, c, a, r) ==
    IF c = "loop" THEN LoopGets(t, a, r) ELSE EngineGets(t, c, a, r)

-----------------------------------------------------------------------------
(* CapabilityBroker.dispatch of action a under proposal id `id` with token *)
(* k (0: none), called by c for task t.                                    *)

Presented(id, k) == Authentic(id, k) /\ ~consumed[id]

(* The daemon is paused, or tool, path, egress or consent is refused.      *)
Refused(t, c, a) ==
    /\ CallerGets(t, c, a, "refused")
    /\ UNCHANGED <<gateVars, signalVars, logVars>>

(* The action needs a human and the token does not stand for one: a card   *)
(* in the mailbox, unless the row there is closed or approved.  An         *)
(* authentic token of a used-up row loses its nonce.                       *)
Gated(t, c, a, id, k) ==
    /\ a \in Risky
    /\ Free
    /\ ~Presented(id, k)
    /\ PutRow(id, t)
    /\ nonces' = IF Authentic(id, k) THEN nonces \cup {k} ELSE nonces
    /\ CallerGets(t, c, a, IF status'[id] = "pending" THEN "pending" ELSE "refused")
    /\ turnedAway' = IF parkedOn[t] = id /\ LiveToken(id) # 0 /\ ~consumed[id]
                       THEN turnedAway \cup {id} ELSE turnedAway
    /\ UNCHANGED <<minted, lapsed, held, accepted, denying, restarts>>
    /\ UNCHANGED <<signalVars, outcome, effects, failures>>

(* Variant: the token is not verified before the effect.                   *)
Cleared_Unverified(a, id, k) == UNCHANGED gateVars

(* The gate lets the action through.                                       *)
Cleared(a, id, k) ==
    IF a \in Risky THEN AcceptToken(id, k) ELSE UNCHANGED gateVars

(* was_executed, and has_pending_intent.                                   *)
Known(t, c, a, id, k) ==
    /\ outcome[<<id, a>>] \in {"executed", "open"}
    /\ Cleared(a, id, k)
    /\ CallerGets(t, c, a, IF outcome[<<id, a>>] = "executed" THEN "repeat" ELSE "failed")
    /\ UNCHANGED <<signalVars, logVars>>

(* Variant: an intent without outcome does not stop the next attempt.      *)
Intend_Reexecutes(t, c, a, id, k) ==
    /\ outcome[<<id, a>>] \in {"none", "failed", "open"}
    /\ Cleared(a, id, k)
    /\ outcome' = [outcome EXCEPT ![<<id, a>>] = IF @ = "none" THEN "open" ELSE @]
    /\ turn' = [turn EXCEPT ![t] = "effect"]
    /\ from' = [from EXCEPT ![t] = c]
    /\ act' = [act EXCEPT ![t] = a]
    /\ pid' = [pid EXCEPT ![t] = id]
    /\ spent' = [spent EXCEPT ![t] = k]
    /\ UNCHANGED <<tok, todo, proof, queueVars, signalVars, effects, failures, turnedAway>>

(* Variant: the outcome is recorded together with the intent.              *)
Intend_OutcomeFirst(t, c, a, id, k) ==
    /\ outcome[<<id, a>>] \in {"none", "failed"}
    /\ Cleared(a, id, k)
    /\ outcome' = [outcome EXCEPT ![<<id, a>>] = "executed"]
    /\ turn' = [turn EXCEPT ![t] = "effect"]
    /\ from' = [from EXCEPT ![t] = c]
    /\ act' = [act EXCEPT ![t] = a]
    /\ pid' = [pid EXCEPT ![t] = id]
    /\ spent' = [spent EXCEPT ![t] = k]
    /\ UNCHANGED <<tok, todo, proof, queueVars, signalVars, effects, failures, turnedAway>>

(* record_intent is INSERT OR IGNORE, and a failed outcome is still there. *)
Intend(t, c, a, id, k) ==
    /\ outcome[<<id, a>>] \in {"none", "failed"}
    /\ Cleared(a, id, k)
    /\ outcome' = [outcome EXCEPT ![<<id, a>>] = IF @ = "none" THEN "open" ELSE @]
    /\ turn' = [turn EXCEPT ![t] = "effect"]
    /\ from' = [from EXCEPT ![t] = c]
    /\ act' = [act EXCEPT ![t] = a]
    /\ pid' = [pid EXCEPT ![t] = id]
    /\ spent' = [spent EXCEPT ![t] = k]
    /\ UNCHANGED <<tok, todo, proof, queueVars, signalVars, effects, failures, turnedAway>>

Dispatch(t, c, a, id, k) ==
    \/ Refused(t, c, a)
    \/ Gated(t, c, a, id, k)
    \/ Known(t, c, a, id, k)
    \/ Intend(t, c, a, id, k)

(* The adapter changes the world ...                                       *)
EffectHappens(t) ==
    /\ turn[t] = "effect"
    /\ turn' = [turn EXCEPT ![t] = "applied"]
    /\ effects' = Append(effects, ChangeBy(t))
    /\ UNCHANGED <<gateVars, queueVars, from, act, pid, tok, spent, todo, proof>>
    /\ UNCHANGED <<signalVars, outcome, failures, turnedAway>>

(* ... and returns: record_outcome is INSERT OR REPLACE.                   *)
RecordOutcome(t) ==
    /\ turn[t] = "applied"
    /\ outcome' = [outcome EXCEPT ![Key(t)] = "executed"]
    /\ turn' = [turn EXCEPT ![t] = "signing ok"]
    /\ UNCHANGED <<gateVars, queueVars, from, act, pid, tok, spent, todo, proof>>
    /\ UNCHANGED <<signalVars, effects, failures, turnedAway>>

(* The adapter reports that nothing was done.                              *)
EffectFails(t) ==
    /\ turn[t] = "effect"
    /\ failures < MaxFailures
    /\ failures' = failures + 1
    /\ outcome' = [outcome EXCEPT ![Key(t)] = "failed"]
    /\ turn' = [turn EXCEPT ![t] = "signing failed"]
    /\ UNCHANGED <<gateVars, queueVars, from, act, pid, tok, spent, todo, proof>>
    /\ UNCHANGED <<signalVars, effects, turnedAway>>

(* No adapter for the surface: refused, with the intent left open.         *)
NoAdapter(t) ==
    /\ turn[t] = "effect"
    /\ failures < MaxFailures
    /\ failures' = failures + 1
    /\ CallerGets(t, from[t], act[t], "refused")
    /\ UNCHANGED <<gateVars, signalVars, outcome, effects, turnedAway>>

(* append_and_persist returns.                                             *)
Sign(t) ==
    /\ turn[t] \in {"signing ok", "signing failed"}
    /\ CallerGets(t, from[t], act[t], IF turn[t] = "signing ok" THEN "done" ELSE "failed")
    /\ UNCHANGED <<gateVars, signalVars, logVars>>

-----------------------------------------------------------------------------
(* A turn: _process of the orchestrator around one run of the engine.      *)

Start(t) ==
    /\ turn[t] = "off"
    /\ Queue!Start(t)
    /\ turn' = [turn EXCEPT ![t] = "engine"]
    /\ UNCHANGED <<gateVars, parkedOn, from, act, pid, tok, spent, todo, proof>>
    /\ UNCHANGED <<signalVars, logVars>>

(* The engine dispatches in line, under the action's own id, with no token.*)
EngineCalls(t, a) ==
    /\ turn[t] = "engine"
    /\ Dispatch(t, "engine", a, a, 0)

(* The engine returns with actions left: read the pre-approved token.      *)
EngineEnds(t) ==
    /\ turn[t] = "engine"
    /\ todo[t] # << >>
    /\ Free
    /\ turn' = [turn EXCEPT ![t] = "loop"]
    /\ tok' = [tok EXCEPT ![t] =
                 IF parkedOn[t] = NoAction THEN 0 ELSE LiveToken(parkedOn[t])]
    /\ UNCHANGED <<gateVars, queueVars, from, act, pid, spent, todo, proof>>
    /\ UNCHANGED <<signalVars, logVars>>

(* The engine returns with nothing left to dispatch, or raises.            *)
EngineStops(t) ==
    /\ turn[t] = "engine"
    /\ \/ todo[t] = << >> /\ Queue!Finish(t, "completed")
       \/ Fail(t)
       \/ Queue!Finish(t, "cancelled")
    /\ EndTurn(t)
    /\ UNCHANGED <<gateVars, parkedOn, signalVars, logVars>>

(* _dispatch_proposals, one proposal: without a token of its own it takes  *)
(* the id and the token the task was approved for.                         *)
LoopCalls(t) ==
    /\ turn[t] = "loop"
    /\ todo[t] # << >>
    /\ Free
    /\ LET a == Head(todo[t])
       IN  IF LiveToken(a) # 0 \/ tok[t] = 0
             THEN Dispatch(t, "loop", a, a, LiveToken(a))
             ELSE Dispatch(t, "loop", a, parkedOn[t], tok[t])

(* All dispatched.  Without an audit entry the row is left as it is.       *)
LoopEnds(t) ==
    /\ turn[t] = "loop"
    /\ todo[t] = << >>
    /\ \/ proof[t] /\ Queue!Finish(t, "completed")
       \/ ~proof[t] /\ UNCHANGED <<state, starts>>
    /\ EndTurn(t)
    /\ UNCHANGED <<gateVars, parkedOn, signalVars, logVars>>

-----------------------------------------------------------------------------
(* _await_owner_and_resume, in the thread of the chat.                     *)

Unaffected == UNCHANGED <<queueVars, todo, proof, deciding, logVars>>

(* Variant: the approval is looked for before the slot is registered.      *)
RegisterSlot_AfterCheck(t) ==
    /\ turn[t] = "asked"
    /\ slot' = [slot EXCEPT ![t] = presignal[act[t]]]
    /\ presignal' = [presignal EXCEPT ![act[t]] = "none"]
    /\ turn' = [turn EXCEPT ![t] = "waiting"]
    /\ UNCHANGED <<gateVars, from, act, pid, tok, spent>>
    /\ Unaffected

(* _register_pending_event                                                 *)
RegisterSlot(t) ==
    /\ turn[t] = "asked"
    /\ slot' = [slot EXCEPT ![t] = presignal[act[t]]]
    /\ presignal' = [presignal EXCEPT ![act[t]] = "none"]
    /\ turn' = [turn EXCEPT ![t] = "checking"]
    /\ UNCHANGED <<gateVars, from, act, pid, tok, spent>>
    /\ Unaffected

(* The owner may have approved before the slot was there.                  *)
CheckToken(t) ==
    /\ turn[t] = "checking"
    /\ Free
    /\ \/ /\ LiveToken(act[t]) # 0
          /\ turn' = [turn EXCEPT ![t] = "resumed"]
          /\ slot' = [slot EXCEPT ![t] = "none"]
       \/ /\ LiveToken(act[t]) = 0
          /\ turn' = [turn EXCEPT ![t] = "waiting"]
          /\ UNCHANGED slot
    /\ UNCHANGED <<gateVars, from, act, pid, tok, spent, presignal>>
    /\ Unaffected

Wake(t) ==
    /\ turn[t] = "waiting"
    /\ \/ /\ slot[t] = "approved"
          /\ turn' = [turn EXCEPT ![t] = "resumed"]
          /\ UNCHANGED <<from, act, pid, spent>>
       \/ /\ slot[t] = "denied"
          /\ GoTo(t, "engine")
    /\ slot' = [slot EXCEPT ![t] = "none"]
    /\ UNCHANGED <<gateVars, tok, presignal>>
    /\ Unaffected

TimeOut(t) ==
    /\ turn[t] = "waiting"
    /\ slot[t] = "none"
    /\ turn' = [turn EXCEPT ![t] = "expiring"]
    /\ UNCHANGED <<gateVars, from, act, pid, tok, spent, slot, presignal>>
    /\ Unaffected

ExpireCard(t) ==
    /\ turn[t] = "expiring"
    /\ Expire(act[t])
    /\ GoTo(t, "engine")
    /\ slot' = [slot EXCEPT ![t] = "none"]
    /\ UNCHANGED <<tok, presignal>>
    /\ Unaffected

FetchToken(t) ==
    /\ turn[t] = "resumed"
    /\ Free
    /\ tok' = [tok EXCEPT ![t] = LiveToken(act[t])]
    /\ turn' = [turn EXCEPT ![t] = "armed"]
    /\ UNCHANGED <<gateVars, from, act, pid, spent, slot, presignal>>
    /\ Unaffected

ResumeCalls(t) ==
    /\ turn[t] = "armed"
    /\ Dispatch(t, "resume", act[t], act[t], tok[t])

-----------------------------------------------------------------------------
(* approve_action and reject_action: the gate first ...                    *)

TurnsUnaffected == UNCHANGED <<turnVars, logVars>>

OwnerApproves(p) ==
    /\ Approve(p)
    /\ deciding' = deciding \cup {<<p, "approved">>}
    /\ UNCHANGED <<queueVars, slot, presignal>>
    /\ TurnsUnaffected

OwnerReads(p) ==
    /\ RejectReads(p)
    /\ UNCHANGED <<queueVars, signalVars>>
    /\ TurnsUnaffected

OwnerRejects(p) ==
    /\ RejectWrites(p)
    /\ deciding' = deciding \cup {<<p, "denied">>}
    /\ UNCHANGED <<queueVars, slot, presignal>>
    /\ TurnsUnaffected

Waiters(p) ==
    {t \in Tasks : turn[t] \in {"checking", "waiting", "expiring"} /\ act[t] = p}

(* signal_native_danger_approval                                           *)
Signal(p, c) ==
    IF Waiters(p) = {}
      THEN presignal' = [presignal EXCEPT ![p] = c] /\ UNCHANGED slot
      ELSE /\ slot' = [t \in Tasks |-> IF t \in Waiters(p) THEN c ELSE slot[t]]
           /\ UNCHANGED presignal

(* ... then, once the decision is audited, the queue (an approval only,    *)
(* and only the task the row names, if it is parked) and the waiters.      *)
FinishDecision(p, c) ==
    /\ <<p, c>> \in deciding
    /\ Free
    /\ deciding' = deciding \ {<<p, c>>}
    /\ IF c = "approved" /\ workItem[p] # NoTask /\ state[workItem[p]] = "pending_approval"
         THEN Queue!Unpark(workItem[p])
         ELSE UNCHANGED <<state, starts>>
    /\ Signal(p, c)
    /\ UNCHANGED <<gateVars, parkedOn>>
    /\ TurnsUnaffected

-----------------------------------------------------------------------------
(* Time and crashes.                                                       *)

Time ==
    /\ \/ \E k \in Tokens : Lapse(k) /\ UNCHANGED presignal
       \/ \E p \in Actions : Age(p) /\ UNCHANGED presignal
       \/ \E p \in Actions : /\ presignal[p] # "none"
                             /\ presignal' = [presignal EXCEPT ![p] = "none"]
                             /\ UNCHANGED gateVars
    /\ UNCHANGED <<queueVars, turnVars, slot, deciding, logVars>>

(* The daemon dies; the next one gives every claimed task back.            *)
Crash ==
    /\ Restart
    /\ Queue!Requeue({t \in Tasks : state[t] = "in_progress"})
    /\ turn' = [t \in Tasks |-> "off"]
    /\ from' = [t \in Tasks |-> "engine"]
    /\ act' = [t \in Tasks |-> NoAction]
    /\ pid' = [t \in Tasks |-> NoAction]
    /\ tok' = [t \in Tasks |-> 0]
    /\ spent' = [t \in Tasks |-> 0]
    /\ todo' = [t \in Tasks |-> << >>]
    /\ proof' = [t \in Tasks |-> FALSE]
    /\ slot' = [t \in Tasks |-> "none"]
    /\ presignal' = [p \in Actions |-> "none"]
    /\ deciding' = {}
    /\ UNCHANGED <<parkedOn, logVars>>

Step(t) ==
    \/ Start(t)
    \/ \E a \in Actions : EngineCalls(t, a)
    \/ EngineEnds(t) \/ EngineStops(t)
    \/ LoopCalls(t) \/ LoopEnds(t)
    \/ EffectHappens(t) \/ RecordOutcome(t) \/ EffectFails(t) \/ NoAdapter(t)
    \/ Sign(t)
    \/ RegisterSlot(t) \/ CheckToken(t) \/ Wake(t) \/ TimeOut(t) \/ ExpireCard(t)
    \/ FetchToken(t) \/ ResumeCalls(t)

DispatchNext ==
    \/ \E t \in Tasks : Step(t)
    \/ \E p \in Actions : OwnerApproves(p) \/ OwnerReads(p) \/ OwnerRejects(p)
    \/ \E p \in Actions, c \in {"approved", "denied"} : FinishDecision(p, c)
    \/ Time
    \/ Crash

DispatchSpec == DispatchInit /\ [][DispatchNext]_dispatchVars
-----------------------------------------------------------------------------
(* Properties                                                              *)

(* Every variable of the composition has its type.                         *)
DispatchTypeOK ==
    /\ GateTypeOK
    /\ state \in [Tasks -> Queue!States]
    /\ starts \in [Tasks -> 0 .. MaxAttempts]
    /\ parkedOn \in [Tasks -> Actions \cup {NoAction}]
    /\ turn \in [Tasks -> Places]
    /\ from \in [Tasks -> {"engine", "resume", "loop"}]
    /\ act \in [Tasks -> Actions \cup {NoAction}]
    /\ pid \in [Tasks -> Actions \cup {NoAction}]
    /\ tok \in [Tasks -> 0 .. Len(minted)]
    /\ spent \in [Tasks -> 0 .. Len(minted)]
    /\ todo \in [Tasks -> Seq(Actions)]
    /\ \A t \in Tasks : Len(todo[t]) <= MaxTodo
    /\ proof \in [Tasks -> BOOLEAN]
    /\ slot \in [Tasks -> SlotValues]
    /\ presignal \in [Actions -> SlotValues]
    /\ deciding \subseteq Actions \X {"approved", "denied"}
    /\ outcome \in [Keys -> {"none", "open", "executed", "failed"}]
    /\ effects \in Seq([key : Keys, token : 0 .. Len(minted), life : 0 .. restarts])
    /\ failures \in 0 .. MaxFailures
    /\ turnedAway \subseteq Actions

(* As long as no adapter has reported a failure, an action changes the     *)
(* world at most once under one proposal id, whoever proposes it again and *)
(* wherever the daemon died: the intent log is written before the effect.  *)
AtMostOnceUntilFailure ==
    failures = 0 => \A i, j \in DOMAIN effects : effects[i].key = effects[j].key => i = j

(* The intent log never calls an action executed that did not happen, so   *)
(* the answer {"idempotent": True} is true of the world.                   *)
ExecutedIsTrue ==
    \A k \in Keys :
       outcome[k] = "executed" => \E i \in DOMAIN effects : effects[i].key = k

(* A chat that sleeps with no decision in its slot, while its action is    *)
(* approved and usable, will still be signalled: the approve_action that   *)
(* approved it has not finished.                                           *)
NoLostApproval ==
    \A t \in Tasks :
        /\ turn[t] = "waiting"
        /\ slot[t] = "none"
        /\ LiveToken(act[t]) # 0
        => <<act[t], "approved">> \in deciding

(* Every change of the world by a risky action was made with a token the   *)
(* owner minted for the id it ran under, and while one daemon lives every  *)
(* such change has a token of its own, across retries and tasks that share *)
(* the id: verify_token uses up what it accepts before the effect.         *)
EffectsNeedApprovals ==
    \A i \in DOMAIN effects : effects[i].key[2] \in Risky =>
       /\ effects[i].token \in Tokens
       /\ minted[effects[i].token] = effects[i].key[1]
       /\ \A j \in DOMAIN effects :
             /\ effects[j].key[2] \in Risky
             /\ effects[j].token = effects[i].token
             /\ effects[j].life = effects[i].life
             => i = j

(* What the repository says of these steps, and the code does not keep.    *)

(* "Para garantizar exactamente-una-vez" (intent_log.py): an action        *)
(* changes the world at most once under one proposal id.                   *)
AtMostOnce ==
    \A i, j \in DOMAIN effects : effects[i].key = effects[j].key => i = j

(* "El broker, al re-dispatchar la tarea, encontrara el token aprobado"    *)
(* (ports.py, re_enqueue_after_approval): the task that was parked on an   *)
(* action and proposes it again is not refused while the approval is live. *)
ApprovedIsNotTurnedAway == turnedAway = {}

\* What the intent log, the gate and the world say about an action agree,
\* wherever the daemon dies (dispatch, record_intent, record_outcome).
DispatchSafe ==
    /\ DispatchTypeOK /\ AtMostOnceUntilFailure /\ ExecutedIsTrue
    /\ EffectsNeedApprovals
=============================================================================
