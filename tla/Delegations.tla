---------------------------- MODULE Delegations ----------------------------
(***************************************************************************)
(* Delegations between the assistants of two colleagues, seen from one     *)
(* instance.  hermes-config-sync polls the cloud's inbox                   *)
(* (config_sync/delegation_inbox.py): a request becomes a card at the      *)
(* daemon, which the human approves into a task or rejects                 *)
(* (DelegationApprovalService, SqlitePendingDelegationRepository), and the *)
(* answer of a completed task is pushed back; a result, the answer to what *)
(* the local agent delegated, becomes a message of the conversation that   *)
(* asked.  Both processes can die between any two commits, calls and their *)
(* answers get lost, and the owner can unpair and pair again meanwhile.    *)
(*                                                                         *)
(* Nothing suspends approve: the daemon serves one decision at a time, and *)
(* only the other processes move between its commits.                      *)
(***************************************************************************)
EXTENDS Naturals, FiniteSets

CONSTANTS
    Requests,       \* message ids of kind "request" addressed to this instance
    Results,        \* message ids of kind "result"
    NoMessage,
    MaxPairings,    \* bound: pairings
    MaxLost         \* bound: crashes, failed calls and lost answers

Messages == Requests \union Results

ASSUME DelegationAssumption ==
    /\ Requests \intersect Results = {}
    /\ NoMessage \notin Messages
    /\ {MaxPairings, MaxLost} \subseteq Nat

VARIABLES
    pairing,        \* number of the pairing in force, 0 when there is none
    paired,         \* pairings so far
    sent,           \* the pairing a message is addressed to, 0: not sent yet
    stale,          \* messages past the freshness window
    acked,          \* messages the cloud serves no more
    cursor,         \* messages older than delegation_inbox_poll_cursor
    asked, known,   \* results awaited; with a delegation_outbox_correlations row
    seen,           \* delegation_inbox_seen
    taken,          \* delegation_result_delivered
    posts,          \* times a result was appended to its conversation
    phase,          \* the step of the tick
    session,        \* the pairing the tick read
    batch,          \* items of the phase still to do
    item,           \* the one in hand
    handled,        \* to_ack
    unacked,        \* any_unacked
    card,           \* pending_delegations.status, "none" without a row
    proofOf,          \* pairing of the row's delegation_admission_proofs
    claims,         \* delegation_admission_claims
    granted,         \* one-shot authorizations that are enabled
    op,             \* the decision in progress: [msg, step]
    work,           \* the task of a request; "live": not in a terminal status
    admitted,       \* history: tasks enqueued for a request, and the pairing then
    torn,           \* history: messages a crash left half done
    pushed,         \* delegation_result_pushed
    answers,        \* answers the cloud has received for a request
    strayed   \* crashes, failed calls and lost answers so far

cloudVars == <<pairing, paired, sent, stale, asked>>

inboxVars == <<acked, cursor, known, seen, taken, posts>>

pollVars == <<phase, session, batch, item, handled, unacked>>

cardVars == <<card, proofOf, claims, granted, op, work, admitted>>

answerVars == <<pushed, answers>>

delegationVars ==
    <<cloudVars, inboxVars, pollVars, cardVars, torn, answerVars, strayed>>

NoDecision == [msg |-> NoMessage, step |-> "none"]

DelegationInit ==
    /\ pairing = 0 /\ paired = 0
    /\ sent = [m \in Messages |-> 0]
    /\ stale = {} /\ acked = {} /\ cursor = {} /\ asked = {} /\ known = {}
    /\ seen = {} /\ taken = {}
    /\ posts = [m \in Results |-> 0]
    /\ phase = "idle" /\ session = 0 /\ batch = {} /\ item = NoMessage
    /\ handled = {} /\ unacked = FALSE
    /\ card = [m \in Requests |-> "none"]
    /\ proofOf = [m \in Requests |-> 0]
    /\ claims = {} /\ granted = {} /\ op = NoDecision
    /\ work = [m \in Requests |-> "none"]
    /\ admitted = [m \in Requests |-> {}]
    /\ torn = {} /\ pushed = {}
    /\ answers = [m \in Requests |-> 0]
    /\ strayed = 0

Loses == strayed < MaxLost /\ strayed' = strayed + 1

(***************************************************************************)
(* The owner, the cloud, and the agent that delegates.                     *)
(***************************************************************************)
PairAgain ==
    /\ pairing = 0 /\ paired < MaxPairings
    /\ paired' = paired + 1 /\ pairing' = paired'
    /\ UNCHANGED <<sent, stale, asked, inboxVars, pollVars, cardVars, torn,
                   answerVars, strayed>>

DropPairing ==
    /\ pairing # 0
    /\ pairing' = 0
    /\ UNCHANGED <<paired, sent, stale, asked, inboxVars, pollVars, cardVars,
                   torn, answerVars, strayed>>

(* DelegationSurfaceAdapter.replay: the POST to the outbox, ...             *)
Delegate(m) ==
    /\ pairing # 0 /\ m \in Results \ asked
    /\ asked' = asked \union {m}
    /\ UNCHANGED <<pairing, paired, sent, stale, inboxVars, pollVars, cardVars,
                   torn, answerVars, strayed>>

(* ... then, best effort, the row that says which conversation asked.       *)
RecordCorrelation(m) ==
    /\ m \in asked \ known /\ m \notin stale
    /\ known' = known \union {m}
    /\ UNCHANGED <<cloudVars, acked, cursor, seen, taken, posts, pollVars,
                   cardVars, torn, answerVars, strayed>>

Send(m) ==
    /\ pairing # 0 /\ sent[m] = 0
    /\ m \in Requests \union asked
    /\ sent' = [sent EXCEPT ![m] = pairing]
    /\ UNCHANGED <<pairing, paired, stale, asked, inboxVars, pollVars, cardVars,
                   torn, answerVars, strayed>>

GoStale(m) ==
    /\ sent[m] # 0 /\ m \notin stale
    /\ stale' = stale \union {m}
    /\ UNCHANGED <<pairing, paired, sent, asked, inboxVars, pollVars, cardVars,
                   torn, answerVars, strayed>>

(***************************************************************************)
(* One tick: run_delegation_inbox_once.                                    *)
(***************************************************************************)

EndTick ==
    /\ phase' = "idle" /\ session' = 0 /\ batch' = {} /\ item' = NoMessage
    /\ handled' = {} /\ unacked' = FALSE

(* _fetch_unpushed_delegation_results of the pairing just read.             *)
BeginResults ==
    /\ phase = "idle" /\ pairing # 0
    /\ phase' = "results" /\ session' = pairing
    /\ batch' = {m \in Requests : /\ card[m] = "approved" /\ sent[m] = pairing
                                  /\ work[m] = "completed" /\ m \notin pushed}
    /\ UNCHANGED <<cloudVars, inboxVars, item, handled, unacked, cardVars, torn,
                   answerVars, strayed>>

(* Variant: the marker is written before the POST.                         *)
PushResult_MarksFirst(m) ==
    /\ phase = "results" /\ m \in batch
    /\ batch' = batch \ {m}
    /\ pushed' = pushed \union {m}
    /\ \/ answers' = [answers EXCEPT ![m] = @ + 1] /\ UNCHANGED strayed
       \/ UNCHANGED answers /\ Loses
    /\ UNCHANGED <<cloudVars, inboxVars, phase, session, item, handled, unacked,
                   cardVars, torn>>

(* is_current, the POST, and the marker once the receipt is there.          *)
PushResult(m) ==
    /\ phase = "results" /\ m \in batch
    /\ \/ /\ pairing = session
          /\ batch' = batch \ {m}
          /\ \/ pushed' = pushed \union {m} /\ UNCHANGED strayed
             \/ UNCHANGED pushed /\ Loses
          /\ answers' = [answers EXCEPT ![m] = @ + 1]
       \/ /\ pairing = session
          /\ batch' = batch \ {m}
          /\ Loses
          /\ UNCHANGED answerVars
       \/ /\ pairing # session
          /\ batch' = {}
          /\ UNCHANGED <<answerVars, strayed>>
    /\ UNCHANGED <<cloudVars, inboxVars, phase, session, item, handled, unacked,
                   cardVars, torn>>

(* is_current, _prune_stale_delegation_state and _fetch_inbox.  A row 30    *)
(* days old is of a message past the window of 24 hours; the correlation of *)
(* a result can be older than the result.                                   *)
FetchInbox ==
    /\ phase = "results" /\ batch = {}
    /\ \/ /\ pairing = session
          /\ \E old \in {{}, stale} :
                seen' = seen \ old /\ taken' = taken \ old
          /\ \E old \in {{}, known} : known' = known \ old
          /\ phase' = "poll"
          /\ batch' = {m \in Messages : sent[m] = session} \ (acked \union cursor)
          /\ UNCHANGED <<session, item, handled, unacked>>
       \/ /\ pairing # session
          /\ EndTick
          /\ UNCHANGED <<seen, taken, known>>
    /\ UNCHANGED <<cloudVars, acked, cursor, posts, cardVars, torn, answerVars,
                   strayed>>

Settle(m) == phase' = "terminal" /\ item' = m /\ UNCHANGED unacked

LeaveUnacked == unacked' = TRUE /\ UNCHANGED <<phase, item>>

(* The outcomes of _verify_envelope that end the item here.                 *)
TakeKnown(m) ==
    /\ phase = "poll" /\ m \in batch
    /\ m \in stale \union seen
    /\ batch' = batch \ {m}
    /\ Settle(m)
    /\ UNCHANGED <<cloudVars, inboxVars, session, handled, cardVars, torn,
                   answerVars, strayed>>

(* _dispatch_request: submit_inbound_delegation, where capture verifies the *)
(* envelope again, against the pairing the daemon reads; an INSERT OR       *)
(* IGNORE, and an answer that can get lost after it.                       *)
TakeRequest(m) ==
    /\ phase = "poll" /\ m \in batch \intersect Requests
    /\ m \notin stale \union seen
    /\ op = NoDecision
    /\ batch' = batch \ {m}
    /\ \/ /\ pairing = sent[m]
          /\ IF card[m] = "none"
             THEN /\ card' = [card EXCEPT ![m] = "pending"]
                  /\ proofOf' = [proofOf EXCEPT ![m] = pairing]
             ELSE UNCHANGED <<card, proofOf>>
          /\ \/ Settle(m) /\ UNCHANGED strayed
             \/ LeaveUnacked /\ Loses
       \/ Loses /\ LeaveUnacked /\ UNCHANGED <<card, proofOf>>
       \/ pairing # sent[m] /\ LeaveUnacked /\ UNCHANGED <<card, proofOf, strayed>>
    /\ UNCHANGED <<cloudVars, inboxVars, session, handled, claims, granted, op,
                   work, admitted, torn, answerVars>>

(* _dispatch_result: the correlation, then _claim_result_delivery, ...      *)
TakeResult(m) ==
    /\ phase = "poll" /\ m \in batch \intersect Results
    /\ m \notin stale \union seen
    /\ batch' = batch \ {m}
    /\ CASE m \notin known -> LeaveUnacked /\ UNCHANGED taken
         [] m \in known /\ m \in taken -> Settle(m) /\ UNCHANGED taken
         [] m \in known /\ m \notin taken ->
               /\ phase' = "claimed" /\ item' = m
               /\ taken' = taken \union {m}
               /\ UNCHANGED unacked
    /\ UNCHANGED <<cloudVars, acked, cursor, known, seen, posts, session,
                   handled, cardVars, torn, answerVars, strayed>>

(* ... then the message, or the claim is given back.                        *)
AppendResult ==
    /\ phase = "claimed"
    /\ \/ /\ posts' = [posts EXCEPT ![item] = @ + 1]
          /\ phase' = "terminal"
          /\ UNCHANGED <<taken, unacked, item, strayed>>
       \/ /\ Loses
          /\ taken' = taken \ {item}
          /\ unacked' = TRUE /\ phase' = "poll" /\ item' = NoMessage
          /\ UNCHANGED posts
    /\ UNCHANGED <<cloudVars, acked, cursor, known, seen, session, batch,
                   handled, cardVars, torn, answerVars>>

MarkSeen ==
    /\ phase = "terminal"
    /\ seen' = seen \union {item}
    /\ handled' = handled \union {item}
    /\ phase' = "poll" /\ item' = NoMessage
    /\ UNCHANGED <<cloudVars, acked, cursor, known, taken, posts, session, batch,
                   unacked, cardVars, torn, answerVars, strayed>>

(* Variant: the cursor moves past what was not handled.                    *)
MoveCursor_Always ==
    /\ phase = "poll" /\ batch = {}
    /\ phase' = "ack"
    /\ cursor' = cursor \union {m \in Messages : sent[m] = session}
    /\ UNCHANGED <<cloudVars, acked, known, seen, taken, posts, session, batch,
                   item, handled, unacked, cardVars, torn, answerVars, strayed>>

(* The cursor moves only past a batch in which every item was handled.      *)
MoveCursor ==
    /\ phase = "poll" /\ batch = {}
    /\ phase' = "ack"
    /\ cursor' = IF unacked THEN cursor ELSE cursor \union handled
    /\ UNCHANGED <<cloudVars, acked, known, seen, taken, posts, session, batch,
                   item, handled, unacked, cardVars, torn, answerVars, strayed>>

(* _ack_messages never raises.                                              *)
AckBatch ==
    /\ phase = "ack"
    /\ \/ acked' = acked \union handled /\ UNCHANGED strayed
       \/ UNCHANGED acked /\ Loses
    /\ EndTick
    /\ UNCHANGED <<cloudVars, cursor, known, seen, taken, posts, cardVars, torn,
                   answerVars>>

SyncDies ==
    /\ phase # "idle"
    /\ Loses
    /\ torn' = IF phase = "claimed" THEN torn \union {item} ELSE torn
    /\ EndTick
    /\ UNCHANGED <<cloudVars, inboxVars, cardVars, answerVars>>

(***************************************************************************)
(* The decision of the human: DelegationApprovalService.                   *)
(***************************************************************************)

(* DelegationAdmissionAuthority.validate.                                   *)
Valid(m) == card[m] = "pending" /\ pairing = proofOf[m] /\ m \notin stale

Decide(m, step) == op' = [msg |-> m, step |-> step]

(* Variant: a claimed card is claimed again.                               *)
ClaimApproval_Again(m) ==
    /\ op = NoDecision
    /\ Valid(m)
    /\ claims' = claims \union {m}
    /\ Decide(m, "claimed")
    /\ UNCHANGED <<cloudVars, inboxVars, pollVars, card, proofOf, granted, work,
                   admitted, torn, answerVars, strayed>>

(* approve up to claim_approval.                                            *)
ClaimApproval(m) ==
    /\ op = NoDecision
    /\ Valid(m)
    /\ m \notin claims
    /\ claims' = claims \union {m}
    /\ Decide(m, "claimed")
    /\ UNCHANGED <<cloudVars, inboxVars, pollVars, card, proofOf, granted, work,
                   admitted, torn, answerVars, strayed>>

(* _touch_conversation and _mint_one_shot_authorization.                    *)
MintOneShot ==
    /\ op.step = "claimed"
    /\ granted' = granted \union {op.msg}
    /\ Decide(op.msg, "granted")
    /\ UNCHANGED <<cloudVars, inboxVars, pollVars, card, proofOf, claims, work,
                   admitted, torn, answerVars, strayed>>

(* enqueue_from_trigger: the authorization of this decision, then, under    *)
(* the lock of the pairing's writers, validate and the insertion; a live    *)
(* task with the dedup key is not the receipt of this decision and raises.  *)
EnqueueGuarded ==
    /\ op.step = "granted" /\ op.msg \in granted
    /\ IF Valid(op.msg) /\ work[op.msg] # "live"
       THEN /\ work' = [work EXCEPT ![op.msg] = "live"]
            /\ admitted' = [admitted EXCEPT
                              ![op.msg] = @ \union {<<Cardinality(@), pairing>>}]
            /\ Decide(op.msg, "enqueued")
            /\ UNCHANGED claims
       ELSE /\ claims' = IF Valid(op.msg) THEN claims ELSE claims \ {op.msg}
            /\ Decide(op.msg, "refused")
            /\ UNCHANGED <<work, admitted>>
    /\ UNCHANGED <<cloudVars, inboxVars, pollVars, card, proofOf, granted, torn,
                   answerVars, strayed>>

(* The revoke of the finally clause.                                        *)
RevokeOneShot ==
    /\ op.step \in {"enqueued", "refused"}
    /\ granted' = granted \ {op.msg}
    /\ op' = IF op.step = "enqueued" THEN [op EXCEPT !.step = "revoked"]
             ELSE NoDecision
    /\ UNCHANGED <<cloudVars, inboxVars, pollVars, card, proofOf, claims, work,
                   admitted, torn, answerVars, strayed>>

(* resolve(approved), with the claim of this decision.                      *)
ResolveApproved ==
    /\ op.step = "revoked"
    /\ card' = [card EXCEPT ![op.msg] = "approved"]
    /\ op' = NoDecision
    /\ UNCHANGED <<cloudVars, inboxVars, pollVars, proofOf, claims, granted, work,
                   admitted, torn, answerVars, strayed>>

(* reject: resolve refuses a row that an approval has claimed.              *)
RejectCard(m) ==
    /\ op = NoDecision
    /\ card[m] = "pending" /\ m \notin claims
    /\ card' = [card EXCEPT ![m] = "rejected"]
    /\ UNCHANGED <<cloudVars, inboxVars, pollVars, proofOf, claims, granted, op,
                   work, admitted, torn, answerVars, strayed>>

DaemonDiesDeciding ==
    /\ op # NoDecision
    /\ Loses
    /\ torn' = torn \union {op.msg}
    /\ op' = NoDecision
    /\ UNCHANGED <<cloudVars, inboxVars, pollVars, card, proofOf, claims, granted,
                   work, admitted, answerVars>>

(* The workers; "failed" stands for rejected and cancelled too.             *)
TaskEnds(m) ==
    /\ op = NoDecision
    /\ work[m] = "live"
    /\ \E end \in {"completed", "failed"} : work' = [work EXCEPT ![m] = end]
    /\ UNCHANGED <<cloudVars, inboxVars, pollVars, card, proofOf, claims, granted,
                   op, admitted, torn, answerVars, strayed>>

-----------------------------------------------------------------------------
InboxTick ==
    \/ BeginResults \/ FetchInbox \/ AppendResult \/ MarkSeen \/ MoveCursor
    \/ AckBatch
    \/ \E m \in Requests : PushResult(m) \/ TakeRequest(m)
    \/ \E m \in Results : TakeResult(m)
    \/ \E m \in Messages : TakeKnown(m)

Deciding ==
    \/ MintOneShot \/ EnqueueGuarded \/ RevokeOneShot \/ ResolveApproved

DelegationNext ==
    \/ InboxTick \/ Deciding
    \/ PairAgain \/ DropPairing \/ SyncDies \/ DaemonDiesDeciding
    \/ \E m \in Results : Delegate(m) \/ RecordCorrelation(m)
    \/ \E m \in Messages : Send(m) \/ GoStale(m)
    \/ \E m \in Requests : ClaimApproval(m) \/ RejectCard(m) \/ TaskEnds(m)

DelegationSpec == DelegationInit /\ [][DelegationNext]_delegationVars

-----------------------------------------------------------------------------
(* The cards, the tick of config_sync and the decision under way: an item is*)
(* in hand exactly while it is being dispatched.                            *)
DelegationTypeOK ==
    /\ pairing \in 0 .. MaxPairings /\ paired \in 0 .. MaxPairings
    /\ sent \in [Messages -> 0 .. MaxPairings]
    /\ {stale, acked, cursor, seen, batch, handled, torn} \subseteq SUBSET Messages
    /\ {asked, known, taken} \subseteq SUBSET Results
    /\ {claims, granted, pushed} \subseteq SUBSET Requests
    /\ phase \in {"idle", "results", "poll", "claimed", "terminal", "ack"}
    /\ session \in 0 .. MaxPairings /\ (session = 0) = (phase = "idle")
    /\ item \in Messages \union {NoMessage}
    /\ (item # NoMessage) = (phase \in {"claimed", "terminal"})
    /\ card \in [Requests -> {"none", "pending", "approved", "rejected"}]
    /\ work \in [Requests -> {"none", "live", "completed", "failed"}]
    /\ op = NoDecision \/ op.msg \in Requests
    /\ strayed \in 0 .. MaxLost

(* One decision, one task: whatever crashes between the claim, the task and *)
(* the receipt, and however often the human decides again, a request has at *)
(* most one task, none when it was rejected, and one when it was approved.  *)
OneTaskPerDecision ==
    \A m \in Requests :
        /\ Cardinality(admitted[m]) <= 1
        /\ card[m] \in {"none", "rejected"} => admitted[m] = {}
        /\ card[m] = "approved" => admitted[m] # {}

(* A task was admitted under the pairing its request was signed for: the    *)
(* guard of enqueue_guarded looks again, since the owner can unpair between *)
(* the check of approve and the insertion.                                  *)
AdmittedUnderItsPairing ==
    \A m \in Requests : \A a \in admitted[m] : a[2] = sent[m]

(* Once the cloud stops serving a message, or the cursor is past it, it was *)
(* dealt with: a request has its card and a result is in the conversation,  *)
(* unless it expired.  A result whose delivery a crash tore after the claim *)
(* is the exception: the next tick takes the claim for the message.         *)
GoneIsHandled ==
    \A m \in acked \union cursor \union seen :
        \/ m \in stale
        \/ m \in Requests /\ card[m] # "none"
        \/ m \in Results /\ (posts[m] > 0 \/ m \in torn)

(* A result enters the conversation once, however often it is served again. *)
PostedOnce == \A m \in Results : posts[m] <= 1

(* The authorization granted for a decision does not outlive it, on any path *)
(* but a crash ("the revoke MUST run even if enqueue_from_trigger raises"). *)
OneShotEnds ==
    \A m \in granted : m \in torn \/ op.msg = m

(* An answer leaves only for a request approved and completed here, and the *)
(* marker is there once the cloud confirmed it.                             *)
AnswersAreDue ==
    \A m \in Requests :
        /\ answers[m] > 0 => card[m] = "approved" /\ work[m] = "completed"
        /\ m \in pushed => answers[m] > 0

(* config_sync ticks for ever, and the daemon ends the decisions it began.  *)
DelegationFairness == WF_delegationVars(InboxTick) /\ WF_delegationVars(Deciding)

(* Nothing is left at the cloud for ever: a request either gets its card,   *)
(* or expires, or its pairing is given up.                                  *)
RequestSurfaces ==
    \A m \in Requests :
        sent[m] # 0 ~> \/ card[m] # "none" \/ m \in stale
                       \/ pairing # sent[m]

(* The answer of an approved and completed request reaches the cloud, for   *)
(* as long as the pairing stands.                                           *)
AnswerReturns ==
    \A m \in Requests :
        card[m] = "approved" /\ work[m] = "completed"
            ~> answers[m] > 0 \/ pairing # sent[m]

\* A delegated request becomes at most one task, under its own pairing and
\* after one decision, and a result one message, whatever is lost or served
\* again.
DelegationSafe ==
    /\ DelegationTypeOK /\ OneTaskPerDecision /\ AdmittedUnderItsPairing
    /\ GoneIsHandled /\ PostedOnce /\ OneShotEnds /\ AnswersAreDue
=============================================================================
