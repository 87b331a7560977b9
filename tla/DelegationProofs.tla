-------------------------- MODULE DelegationProofs --------------------------
(***************************************************************************)
(* Proofs about delegations between colleagues and their status channel:   *)
(* for every set of requests and results and every number of crashes and   *)
(* lost answers, a request becomes at most one task, a result one message, *)
(* and the cloud is told the statuses of a request in order.               *)
(***************************************************************************)
EXTENDS Delegations, DelegationStatus, FiniteSetTheorems, TLAPS

CloudTypes ==
    /\ pairing \in 0 .. MaxPairings /\ paired \in 0 .. MaxPairings
    /\ sent \in [Messages -> 0 .. MaxPairings]
    /\ stale \subseteq Messages /\ asked \subseteq Results

InboxTypes ==
    /\ acked \subseteq Messages /\ cursor \subseteq Messages
    /\ known \subseteq Results /\ seen \subseteq Messages
    /\ taken \subseteq Results
    /\ posts \in [Results -> Nat]

PollTypes ==
    /\ phase \in {"idle", "results", "poll", "claimed", "terminal", "ack"}
    /\ session \in 0 .. MaxPairings /\ (session = 0 <=> phase = "idle")
    /\ batch \subseteq Messages
    /\ item \in Messages \union {NoMessage}
    /\ item # NoMessage <=> phase \in {"claimed", "terminal"}
    /\ handled \subseteq Messages
    /\ unacked \in BOOLEAN

DecisionSteps == {"claimed", "granted", "enqueued", "refused", "revoked"}

CardTypes ==
    /\ card \in [Requests -> {"none", "pending", "approved", "rejected"}]
    /\ proofOf \in [Requests -> 0 .. MaxPairings]
    /\ claims \subseteq Requests /\ granted \subseteq Requests
    /\ op \in [msg : Requests, step : DecisionSteps] \union {NoDecision}
    /\ work \in [Requests -> {"none", "live", "completed", "failed"}]
    /\ admitted \in [Requests -> SUBSET (Nat \X (0 .. MaxPairings))]

OtherTypes ==
    /\ torn \subseteq Messages /\ pushed \subseteq Requests
    /\ answers \in [Requests -> Nat]
    /\ strayed \in 0 .. MaxLost

(* A card has the proof of the pairing its request was sent over.          *)
ProofIsOfSender ==
    \A m \in Requests : card[m] # "none" => sent[m] # 0 /\ proofOf[m] = sent[m]

(* What the tasks of a request say about its card and its claim.           *)
TaskOfCard(m) ==
    \/ /\ admitted[m] = {} /\ work[m] = "none"
       /\ card[m] # "approved"
       /\ m \in claims => card[m] = "pending"
    \/ /\ admitted[m] = {<<0, sent[m]>>} /\ work[m] # "none"
       /\ card[m] \in {"pending", "approved"} /\ m \in claims

(* The decision in progress is on a pending card; the task is there after  *)
(* the insertion and not before, and the one-shot is gone after the revoke.*)
DecisionIsOpen ==
    op # NoDecision =>
        /\ card[op.msg] = "pending"
        /\ op.step \in {"claimed", "granted"} =>
              admitted[op.msg] = {} /\ op.msg \in claims
        /\ op.step \in {"enqueued", "revoked"} => admitted[op.msg] # {}
        /\ op.step = "revoked" => op.msg \notin granted

CardInv ==
    /\ ProofIsOfSender /\ DecisionIsOpen /\ OneShotEnds
    /\ \A m \in Requests : TaskOfCard(m)

(* What a message needs before the cloud may forget it.                    *)
Handled(m) ==
    \/ m \in stale
    \/ m \in Requests /\ card[m] # "none"
    \/ m \in Results /\ (posts[m] > 0 \/ m \in torn)

HandledInv ==
    /\ \A m \in acked \union cursor \union seen \union handled : Handled(m)
    /\ phase = "terminal" => Handled(item)

(* The claim of a delivery and the message of the conversation.            *)
PostInv ==
    /\ \A m \in Results :
          /\ posts[m] <= 1
          /\ posts[m] > 0 => m \in taken \union stale
          /\ m \in taken => \/ posts[m] > 0 \/ m \in torn
                            \/ phase = "claimed" /\ item = m
    /\ phase = "claimed" => item \in taken /\ posts[item] = 0

(* The results of a tick are of requests approved and completed.           *)
Due(m) == m \in Requests /\ card[m] = "approved" /\ work[m] = "completed"

AnswerInv ==
    /\ phase = "results" => \A m \in batch : Due(m)
    /\ \A m \in Requests : answers[m] > 0 => Due(m)
    /\ \A m \in pushed : answers[m] > 0

(* What the inbox served was sent.                                         *)
ServedWasSent ==
    phase \in {"poll", "claimed", "terminal"} => \A m \in batch : sent[m] # 0

DelegationTypes == CloudTypes /\ InboxTypes /\ PollTypes /\ CardTypes /\ OtherTypes

DelegationInv ==
    /\ DelegationTypes /\ ServedWasSent
    /\ CardInv /\ HandledInv /\ PostInv /\ AnswerInv

USE DEF DelegationTypes, CloudTypes, InboxTypes, PollTypes, CardTypes, OtherTypes

LEMMA OpTypes ==
    ASSUME DelegationAssumption, CardTypes, op # NoDecision
    PROVE  op.msg \in Requests /\ op.step \in DecisionSteps /\ op.msg \in Messages
  BY Zenon DEF Messages

LEMMA NotDeciding ==
    ASSUME DelegationAssumption, CardTypes, op.step \in DecisionSteps
    PROVE  op # NoDecision /\ op.msg \in Requests
  BY DEF NoDecision, DecisionSteps

(* The owner, the cloud and the agent keep the types.                      *)
LEMMA CloudTyped ==
    ASSUME DelegationAssumption, DelegationTypes,
           \/ PairAgain \/ DropPairing
           \/ \E m \in Results : Delegate(m) \/ RecordCorrelation(m)
           \/ \E m \in Messages : Send(m) \/ GoStale(m)
    PROVE  DelegationTypes'
  <1> USE DEF inboxVars, pollVars, cardVars, answerVars, cloudVars
  <1>0. MaxPairings \in Nat
    BY Zenon DEF DelegationAssumption
  <1>1. CASE PairAgain \/ DropPairing
    BY <1>0, <1>1 DEF PairAgain, DropPairing
  <1>2. CASE \E m \in Results : Delegate(m)
    BY <1>2, ZenonT(60) DEF Delegate
  <1>3. CASE \E m \in Results : RecordCorrelation(m)
    BY <1>3, ZenonT(60) DEF RecordCorrelation
  <1>4. CASE \E m \in Messages : Send(m)
    BY <1>4 DEF Send
  <1>5. CASE \E m \in Messages : GoStale(m)
    BY <1>5, ZenonT(60) DEF GoStale
  <1> QED  BY <1>1, <1>2, <1>3, <1>4, <1>5, Zenon

LEMMA LosesTyped ==
    ASSUME DelegationAssumption, strayed \in 0 .. MaxLost, Loses
    PROVE  strayed' \in 0 .. MaxLost
  BY DEF Loses, DelegationAssumption

LEMMA EndTickTyped ==
    ASSUME DelegationAssumption, EndTick
    PROVE  PollTypes'
  <1>1. 0 \in 0 .. MaxPairings
    BY DEF DelegationAssumption
  <1> QED  BY <1>1, Zenon DEF EndTick

(* The tick keeps the types.                                               *)
LEMMA TickTyped ==
    ASSUME DelegationAssumption, DelegationTypes, PostInv, InboxTick \/ SyncDies
    PROVE  DelegationTypes'
  <1> USE DEF inboxVars, pollVars, cardVars, answerVars, cloudVars
  <1>0. /\ Requests \subseteq Messages /\ Results \subseteq Messages
        /\ NoMessage \notin Messages
        /\ 0 \in 0 .. MaxPairings
    BY DEF DelegationAssumption, Messages
  <1>1. CASE BeginResults
    BY <1>0, <1>1, Zenon DEF BeginResults
  <1>2. CASE FetchInbox
    <2>1. /\ UNCHANGED <<cloudVars, acked, cursor, posts, cardVars, torn, answerVars,
                         strayed>>
          /\ seen' \subseteq seen /\ taken' \subseteq taken /\ known' \subseteq known
      BY <1>2, Zenon DEF FetchInbox
    <2>2. CASE pairing = session
      <3>1. /\ phase' = "poll" /\ batch' \subseteq Messages
            /\ phase = "results" /\ UNCHANGED <<session, item, handled, unacked>>
        BY <1>2, <2>2, Zenon DEF FetchInbox
      <3> QED  BY <2>1, <3>1, Zenon
    <2>3. CASE pairing # session
      <3>1. EndTick
        BY <1>2, <2>3, Zenon DEF FetchInbox
      <3> QED  BY <2>1, <3>1, EndTickTyped, Zenon
    <2> QED  BY <2>2, <2>3, Zenon
  <1>3. CASE AppendResult
    <2>1. item \in Results
      BY <1>3, Zenon DEF PostInv, AppendResult
    <2>4. strayed' \in 0 .. MaxLost
      BY <1>3, LosesTyped, Zenon DEF AppendResult
    <2>2. CASE posts' = [posts EXCEPT ![item] = @ + 1]
      BY <1>0, <1>3, <2>1, <2>2, <2>4 DEF AppendResult
    <2>3. CASE posts' = posts
      BY <1>0, <1>3, <2>1, <2>3, <2>4, Zenon DEF AppendResult
    <2> QED  BY <1>3, <2>2, <2>3, Zenon DEF AppendResult
  <1>4. CASE MarkSeen
    BY <1>0, <1>4, Zenon DEF MarkSeen
  <1>5. CASE MoveCursor
    BY <1>5, Zenon DEF MoveCursor
  <1>6. CASE AckBatch
    <2>1. strayed' \in 0 .. MaxLost /\ acked' \subseteq Messages
      BY <1>6, LosesTyped, Zenon DEF AckBatch
    <2>2. PollTypes'
      BY <1>6, EndTickTyped, Zenon DEF AckBatch
    <2> QED  BY <1>6, <2>1, <2>2, Zenon DEF AckBatch
  <1>7. ASSUME NEW m \in Requests, PushResult(m) PROVE DelegationTypes'
    <2>1. /\ UNCHANGED <<cloudVars, inboxVars, phase, session, item, handled, unacked,
                         cardVars, torn>>
          /\ batch' \subseteq batch
          /\ pushed' \subseteq Requests
      BY <1>7, Zenon DEF PushResult
    <2>2. answers' \in [Requests -> Nat]
      BY <1>7 DEF PushResult
    <2>3. strayed' \in 0 .. MaxLost
      BY <1>7, LosesTyped, Zenon DEF PushResult
    <2> QED  BY <2>1, <2>2, <2>3, Zenon
  <1>8. ASSUME NEW m \in Requests, TakeRequest(m) PROVE DelegationTypes'
    <2>1. UNCHANGED <<cloudVars, inboxVars, session, handled, claims, granted, op,
                      work, admitted, torn, answerVars>>
          /\ phase = "poll" /\ batch' \subseteq batch
      BY <1>8, Zenon DEF TakeRequest
    <2>2. /\ card' \in [Requests -> {"none", "pending", "approved", "rejected"}]
          /\ proofOf' \in [Requests -> 0 .. MaxPairings]
      BY <1>8, Zenon DEF TakeRequest
    <2>3. \/ phase' = "terminal" /\ item' = m /\ unacked' = unacked
          \/ unacked' = TRUE /\ phase' = phase /\ item' = item
      BY <1>8, Zenon DEF TakeRequest, Settle, LeaveUnacked
    <2>4. strayed' \in 0 .. MaxLost
      BY <1>8, LosesTyped, Zenon DEF TakeRequest
    <2> QED  BY <1>0, <2>1, <2>2, <2>3, <2>4, Zenon
  <1>9. ASSUME NEW m \in Results, TakeResult(m) PROVE DelegationTypes'
    <2>1. UNCHANGED <<cloudVars, acked, cursor, known, seen, posts, session,
                   handled, cardVars, torn, answerVars, strayed>>
          /\ phase = "poll" /\ batch' \subseteq batch
      BY <1>9, Zenon DEF TakeResult
    <2>2. /\ taken' \subseteq Results
          /\ \/ phase' \in {"terminal", "claimed"} /\ item' = m /\ unacked' = unacked
             \/ unacked' = TRUE /\ phase' = phase /\ item' = item
      BY <1>9, Zenon DEF TakeResult, Settle, LeaveUnacked
    <2> QED  BY <1>0, <2>1, <2>2, Zenon
  <1>10. ASSUME NEW m \in Messages, TakeKnown(m) PROVE DelegationTypes'
    BY <1>0, <1>10, Zenon DEF TakeKnown, Settle
  <1>11. CASE SyncDies
    <2>1. strayed' \in 0 .. MaxLost /\ torn' \subseteq Messages
      BY <1>0, <1>11, LosesTyped, Zenon DEF SyncDies
    <2>2. PollTypes'
      BY <1>11, EndTickTyped, Zenon DEF SyncDies
    <2> QED  BY <1>11, <2>1, <2>2, Zenon DEF SyncDies
  <1> QED
    BY <1>1, <1>2, <1>3, <1>4, <1>5, <1>6, <1>7, <1>8, <1>9, <1>10, <1>11, Zenon
       DEF InboxTick

(* The decision and the workers keep the types.                            *)
LEMMA DecisionTyped ==
    ASSUME DelegationAssumption, DelegationTypes, CardInv,
           \/ Deciding \/ DaemonDiesDeciding
           \/ \E m \in Requests : ClaimApproval(m) \/ RejectCard(m) \/ TaskEnds(m)
    PROVE  DelegationTypes'
  <1> USE DEF inboxVars, pollVars, cardVars, answerVars, cloudVars
  <1>1. ASSUME NEW m \in Requests, ClaimApproval(m) PROVE DelegationTypes'
    <2>1. op' \in [msg : Requests, step : DecisionSteps]
      BY <1>1, Zenon DEF ClaimApproval, Decide, DecisionSteps
    <2> QED  BY <1>1, <2>1, Zenon DEF ClaimApproval
  <1>2. ASSUME NEW m \in Requests, RejectCard(m) PROVE DelegationTypes'
    BY <1>2, Zenon DEF RejectCard
  <1>3. ASSUME NEW m \in Requests, TaskEnds(m) PROVE DelegationTypes'
    BY <1>3 DEF TaskEnds
  <1>4. CASE MintOneShot
    <2>1. op.msg \in Requests
      BY <1>4, NotDeciding, Zenon DEF MintOneShot, DecisionSteps
    <2>2. op' \in [msg : Requests, step : DecisionSteps]
      BY <1>4, <2>1, Zenon DEF MintOneShot, Decide, DecisionSteps
    <2> QED  BY <1>4, <2>1, <2>2, Zenon DEF MintOneShot
  <1>5. CASE EnqueueGuarded
    <2>1. op # NoDecision /\ op.msg \in Requests /\ op.step = "granted"
      BY <1>5, NotDeciding, Zenon DEF EnqueueGuarded, DecisionSteps
    <2>2. admitted[op.msg] = {}
      BY <2>1, Zenon DEF CardInv, DecisionIsOpen
    <2>3. Cardinality({}) = 0
      BY FS_EmptySet, Zenon
    <2>4. CASE Valid(op.msg) /\ work[op.msg] # "live"
      <3>1. /\ work' = [work EXCEPT ![op.msg] = "live"]
            /\ admitted' = [admitted EXCEPT
                              ![op.msg] = @ \union {<<Cardinality(@), pairing>>}]
            /\ Decide(op.msg, "enqueued")
            /\ UNCHANGED claims
        BY <1>5, <2>4, Zenon DEF EnqueueGuarded
      <3>2. admitted' = [admitted EXCEPT ![op.msg] = {<<0, pairing>>}]
        <4>1. admitted' = [admitted EXCEPT ![op.msg] =
                             admitted[op.msg] \union {<<Cardinality(admitted[op.msg]), pairing>>}]
          BY <3>1, Zenon
        <4>2. admitted[op.msg] \union {<<Cardinality(admitted[op.msg]), pairing>>}
                = {<<0, pairing>>}
          BY <2>2, <2>3, Zenon
        <4> QED  BY <4>1, <4>2, Zenon
      <3>3. <<0, pairing>> \in Nat \X (0 .. MaxPairings)
        OBVIOUS
      <3>4. admitted' \in [Requests -> SUBSET (Nat \X (0 .. MaxPairings))]
        BY <2>1, <3>2, <3>3, Zenon
      <3>5. op' \in [msg : Requests, step : DecisionSteps]
        BY <2>1, <3>1, Zenon DEF Decide, DecisionSteps
      <3>6. work' \in [Requests -> {"none", "live", "completed", "failed"}]
        BY <3>1, Zenon
      <3> QED  BY <1>5, <3>1, <3>4, <3>5, <3>6, Zenon DEF EnqueueGuarded
    <2>5. CASE ~(Valid(op.msg) /\ work[op.msg] # "live")
      <3>1. claims' \subseteq claims /\ Decide(op.msg, "refused") /\ UNCHANGED <<work, admitted>>
        BY <1>5, <2>5, Zenon DEF EnqueueGuarded
      <3>2. op' \in [msg : Requests, step : DecisionSteps]
        BY <2>1, <3>1, Zenon DEF Decide, DecisionSteps
      <3> QED  BY <1>5, <3>1, <3>2, Zenon DEF EnqueueGuarded
    <2> QED  BY <2>4, <2>5, Zenon
  <1>6. CASE RevokeOneShot
    <2>1. op # NoDecision /\ op.msg \in Requests
      BY <1>6, NotDeciding, Zenon DEF RevokeOneShot, DecisionSteps
    <2>2. op' \in [msg : Requests, step : DecisionSteps] \union {NoDecision}
      BY <1>6, <2>1, Zenon DEF RevokeOneShot, DecisionSteps
    <2> QED  BY <1>6, <2>2, Zenon DEF RevokeOneShot
  <1>7. CASE ResolveApproved
    BY <1>7, Zenon DEF ResolveApproved
  <1>8. CASE DaemonDiesDeciding
    <2>1. op.msg \in Messages
      BY <1>8, OpTypes, Zenon DEF DaemonDiesDeciding
    <2> QED  BY <1>8, <2>1, LosesTyped, Zenon DEF DaemonDiesDeciding
  <1> QED
    BY <1>1, <1>2, <1>3, <1>4, <1>5, <1>6, <1>7, <1>8, Zenon DEF Deciding

(* What no step takes back.                                                *)
LEMMA NothingIsUndone ==
    ASSUME DelegationAssumption, DelegationInv, DelegationNext
    PROVE  /\ \A m \in Messages : sent[m] # 0 => sent'[m] = sent[m]
           /\ stale \subseteq stale' /\ torn \subseteq torn'
           /\ \A m \in Requests : card[m] # "none" => card'[m] # "none"
           /\ \A m \in Requests : Due(m) => Due(m)'
           /\ \A m \in Results : posts[m] > 0 => posts'[m] > 0
  <1> USE DEF inboxVars, pollVars, cardVars, answerVars, cloudVars
  <1> USE DEF DelegationInv
  <1>1. CASE \/ PairAgain \/ DropPairing
             \/ \E m \in Results : Delegate(m) \/ RecordCorrelation(m)
             \/ \E m \in Messages : Send(m) \/ GoStale(m)
    BY <1>1, Zenon DEF PairAgain, DropPairing, Delegate, RecordCorrelation, Send, GoStale, Due
  <1>2. CASE \/ BeginResults \/ FetchInbox \/ MarkSeen \/ MoveCursor \/ AckBatch \/ SyncDies
             \/ \E m \in Results : TakeResult(m)
             \/ \E m \in Messages : TakeKnown(m)
    BY <1>2, Zenon DEF BeginResults, FetchInbox, MarkSeen, MoveCursor, AckBatch, SyncDies,
                TakeResult, TakeKnown, Due
  <1>3. CASE AppendResult
    <2>1. item \in Results
      BY <1>3, Zenon DEF PostInv, AppendResult
    <2>2. UNCHANGED <<cloudVars, cardVars, torn>>
      BY <1>3, Zenon DEF AppendResult
    <2>3. \A m \in Results : posts[m] > 0 => posts'[m] > 0
      BY <1>3, <2>1 DEF AppendResult
    <2> QED  BY <2>2, <2>3, Zenon DEF Due
  <1>4. CASE \E m \in Requests : PushResult(m)
    BY <1>4, Zenon DEF PushResult, Due
  <1>5. ASSUME NEW m \in Requests, TakeRequest(m)
        PROVE  /\ UNCHANGED <<cloudVars, torn, posts, work>>
               /\ \A u \in Requests : card[u] # "none" => card'[u] = card[u]
    BY <1>5, Zenon DEF TakeRequest
  <1>6. ASSUME Deciding \/ DaemonDiesDeciding
               \/ \E m \in Requests : ClaimApproval(m) \/ RejectCard(m) \/ TaskEnds(m)
        PROVE  /\ UNCHANGED <<cloudVars, posts>> /\ torn \subseteq torn'
               /\ \A u \in Requests : card[u] # "none" => card'[u] # "none"
               /\ \A u \in Requests : Due(u) => Due(u)'
    <2>1. CASE DaemonDiesDeciding \/ \E m \in Requests : ClaimApproval(m) \/ RejectCard(m)
      BY <2>1, Zenon DEF DaemonDiesDeciding, ClaimApproval, RejectCard, Due
    <2>2. CASE \E m \in Requests : TaskEnds(m)
      BY <2>2, Zenon DEF TaskEnds, Due
    <2>3. CASE MintOneShot \/ RevokeOneShot
      BY <2>3, Zenon DEF MintOneShot, RevokeOneShot, Due
    <2>4. CASE EnqueueGuarded
      <3>1. op # NoDecision /\ op.msg \in Requests
        BY <2>4, NotDeciding, Zenon DEF EnqueueGuarded, DecisionSteps
      <3>2. card[op.msg] = "pending"
        BY <3>1, Zenon DEF CardInv, DecisionIsOpen
      <3>3. /\ UNCHANGED <<cloudVars, posts, torn, card>>
            /\ work' = work \/ work' = [work EXCEPT ![op.msg] = "live"]
        BY <2>4, Zenon DEF EnqueueGuarded
      <3> QED  BY <3>2, <3>3, Zenon DEF Due
    <2>5. CASE ResolveApproved
      <3>1. op # NoDecision /\ op.msg \in Requests
        BY <2>5, NotDeciding, Zenon DEF ResolveApproved, DecisionSteps
      <3> QED  BY <2>5, <3>1, Zenon DEF ResolveApproved, Due
    <2> QED  BY <1>6, <2>1, <2>2, <2>3, <2>4, <2>5, Zenon DEF Deciding
  <1>7. CASE \E m \in Requests : TakeRequest(m)
    BY <1>5, <1>7, Zenon DEF Due
  <1>8. CASE Deciding \/ DaemonDiesDeciding
               \/ \E m \in Requests : ClaimApproval(m) \/ RejectCard(m) \/ TaskEnds(m)
    BY <1>6, <1>8, Zenon
  <1> QED  BY <1>1, <1>2, <1>3, <1>4, <1>7, <1>8, Zenon DEF DelegationNext, InboxTick

(* What was handled stays handled.                                         *)
LEMMA HandledStays ==
    ASSUME DelegationAssumption, DelegationInv, DelegationNext,
           NEW m \in Messages, Handled(m)
    PROVE  Handled(m)'
  BY NothingIsUndone, Zenon DEF Handled

(* Steps that leave the cards, the decision and the tasks alone.           *)
LEMMA CardsLeftAlone ==
    ASSUME DelegationAssumption, DelegationInv, UNCHANGED cardVars,
           \A m \in Messages : sent[m] # 0 => sent'[m] = sent[m],
           torn \subseteq torn'
    PROVE  CardInv'
  <1>1. UNCHANGED <<card, proofOf, claims, granted, op, work, admitted>>
    BY Zenon DEF cardVars
  <1>2. \A m \in Requests : card[m] # "none" => sent[m] # 0 /\ sent'[m] = sent[m]
    BY Zenon DEF DelegationInv, CardInv, ProofIsOfSender, Messages
  <1>3. ProofIsOfSender'
    BY <1>1, <1>2, Zenon DEF DelegationInv, CardInv, ProofIsOfSender
  <1>4. DecisionIsOpen' /\ OneShotEnds'
    BY <1>1, Zenon DEF DelegationInv, CardInv, DecisionIsOpen, OneShotEnds
  <1>5. ASSUME NEW m \in Requests PROVE TaskOfCard(m)'
    <2>1. TaskOfCard(m)
      BY Zenon DEF DelegationInv, CardInv
    <2> QED  BY <1>1, <1>2, <2>1, Zenon DEF TaskOfCard
  <1> QED  BY <1>3, <1>4, <1>5, Zenon DEF CardInv

(* The card of a request: TakeRequest and RejectCard.                      *)
LEMMA CardStep ==
    ASSUME DelegationAssumption, DelegationInv, NEW m \in Requests,
           TakeRequest(m) \/ RejectCard(m)
    PROVE  CardInv'
  <1>1. /\ UNCHANGED <<sent, claims, granted, op, work, admitted, torn>>
        /\ op = NoDecision
    BY Zenon DEF TakeRequest, RejectCard, cloudVars
  <1>2. \A u \in Requests \ {m} : card'[u] = card[u] /\ proofOf'[u] = proofOf[u]
    BY Zenon DEF TakeRequest, RejectCard, DelegationInv
  <1>3. \/ UNCHANGED <<card, proofOf>>
        \/ card[m] = "none" /\ card'[m] = "pending" /\ proofOf'[m] = sent[m] /\ sent[m] # 0
        \/ card[m] = "pending" /\ m \notin claims /\ card'[m] = "rejected" /\ UNCHANGED proofOf
    <2>1. CASE TakeRequest(m)
      <3>1. \/ UNCHANGED <<card, proofOf>>
            \/ card[m] = "none" /\ card' = [card EXCEPT ![m] = "pending"]
               /\ proofOf' = [proofOf EXCEPT ![m] = pairing] /\ pairing = sent[m]
        BY <2>1, Zenon DEF TakeRequest
      <3>2. sent[m] # 0
        BY <2>1, Zenon DEF TakeRequest, DelegationInv, ServedWasSent
      <3> QED  BY <3>1, <3>2, Zenon DEF DelegationInv
    <2>2. CASE RejectCard(m)
      BY <2>2, Zenon DEF RejectCard, DelegationInv
    <2> QED  BY <2>1, <2>2, Zenon
  <1>4. ProofIsOfSender'
    BY <1>1, <1>2, <1>3, Zenon DEF DelegationInv, CardInv, ProofIsOfSender
  <1>5. DecisionIsOpen' /\ OneShotEnds'
    BY <1>1, Zenon DEF DelegationInv, CardInv, DecisionIsOpen, OneShotEnds
  <1>6. ASSUME NEW u \in Requests PROVE TaskOfCard(u)'
    <2>1. TaskOfCard(u)
      BY Zenon DEF DelegationInv, CardInv
    <2>2. CASE card'[u] = card[u]
      BY <1>1, <2>1, <2>2, Zenon DEF TaskOfCard
    <2>3. CASE card'[u] # card[u]
      <3>1. \/ card[u] = "none" /\ card'[u] = "pending"
            \/ card[u] = "pending" /\ u \notin claims /\ card'[u] = "rejected"
        BY <1>2, <1>3, <2>3, Zenon
      <3> QED  BY <1>1, <2>1, <3>1, Zenon DEF TaskOfCard
    <2> QED  BY <2>2, <2>3, Zenon
  <1> QED  BY <1>4, <1>5, <1>6, Zenon DEF CardInv

(* The steps of the decision, its crash, and the end of the task.          *)
LEMMA DecisionStep ==
    ASSUME DelegationAssumption, DelegationInv, DelegationTypes',
           \/ Deciding \/ DaemonDiesDeciding
           \/ \E m \in Requests : ClaimApproval(m) \/ TaskEnds(m)
    PROVE  CardInv'
  <1> USE DEF DelegationInv
  <1>0. UNCHANGED <<sent, proofOf, pairing>> /\ torn \subseteq torn'
    BY Zenon DEF Deciding, MintOneShot, EnqueueGuarded, RevokeOneShot, ResolveApproved,
           DaemonDiesDeciding, ClaimApproval, TaskEnds, cloudVars
  <1>1. ASSUME NEW m \in Requests, ClaimApproval(m) PROVE CardInv'
    <2>1. /\ op = NoDecision /\ card[m] = "pending" /\ m \notin claims
          /\ claims' = claims \union {m} /\ op' = [msg |-> m, step |-> "claimed"]
          /\ UNCHANGED <<card, granted, work, admitted, torn>>
      BY <1>1, Zenon DEF ClaimApproval, Valid, Decide
    <2>2. ProofIsOfSender'
      BY <1>0, <2>1, Zenon DEF CardInv, ProofIsOfSender
    <2>3. TaskOfCard(m) /\ admitted[m] = {}
      BY <2>1, Zenon DEF CardInv, TaskOfCard
    <2>4. DecisionIsOpen'
      BY <2>1, <2>3, Zenon DEF DecisionIsOpen
    <2>5. op.msg = NoMessage /\ NoMessage \notin Requests
      BY <2>1, Zenon DEF NoDecision, DelegationAssumption, Messages
    <2>6. OneShotEnds'
      BY <2>1, <2>5 DEF CardInv, OneShotEnds
    <2>7. ASSUME NEW u \in Requests PROVE TaskOfCard(u)'
      <3>1. TaskOfCard(u)
        BY Zenon DEF CardInv
      <3> QED  BY <1>0, <2>1, <3>1, Zenon DEF TaskOfCard
    <2> QED  BY <2>2, <2>4, <2>6, <2>7, Zenon DEF CardInv
  <1>2. ASSUME NEW m \in Requests, TaskEnds(m) PROVE CardInv'
    <2>1. /\ op = NoDecision /\ work[m] = "live"
          /\ UNCHANGED <<card, claims, granted, op, admitted, torn>>
          /\ \A u \in Requests : work'[u] # work[u] => work[u] # "none" /\ work'[u] # "none"
      BY <1>2 DEF TaskEnds
    <2>2. ProofIsOfSender' /\ DecisionIsOpen' /\ OneShotEnds'
      BY <1>0, <2>1, Zenon DEF CardInv, ProofIsOfSender, DecisionIsOpen, OneShotEnds
    <2>3. ASSUME NEW u \in Requests PROVE TaskOfCard(u)'
      <3>1. TaskOfCard(u)
        BY Zenon DEF CardInv
      <3> QED  BY <1>0, <2>1, <3>1, Zenon DEF TaskOfCard
    <2> QED  BY <2>2, <2>3, Zenon DEF CardInv
  <1>3. CASE MintOneShot
    <2>1. /\ op # NoDecision /\ op.msg \in Requests /\ op.step = "claimed"
          /\ granted' = granted \union {op.msg}
          /\ op' = [msg |-> op.msg, step |-> "granted"]
          /\ UNCHANGED <<card, claims, work, admitted, torn>>
      BY <1>3, NotDeciding, Zenon DEF MintOneShot, Decide, DecisionSteps
    <2>2. ProofIsOfSender' /\ DecisionIsOpen' /\ OneShotEnds'
      BY <1>0, <2>1, Zenon DEF CardInv, ProofIsOfSender, DecisionIsOpen, OneShotEnds
    <2>3. ASSUME NEW u \in Requests PROVE TaskOfCard(u)'
      BY <1>0, <2>1, Zenon DEF CardInv, TaskOfCard
    <2> QED  BY <2>2, <2>3, Zenon DEF CardInv
  <1>4. CASE EnqueueGuarded
    <2>1. /\ op # NoDecision /\ op.msg \in Requests /\ op.step = "granted"
          /\ UNCHANGED <<card, granted, torn>>
      BY <1>4, NotDeciding, Zenon DEF EnqueueGuarded, DecisionSteps
    <2>2. card[op.msg] = "pending" /\ admitted[op.msg] = {} /\ op.msg \in claims
      BY <2>1, Zenon DEF CardInv, DecisionIsOpen
    <2>3. work[op.msg] = "none"
      <3>1. TaskOfCard(op.msg)
        BY <2>1, Zenon DEF CardInv
      <3>2. {<<0, sent[op.msg]>>} # {}
        BY Zenon
      <3> QED  BY <2>2, <3>1, <3>2, Zenon DEF TaskOfCard
    <2>4. CASE Valid(op.msg)
      <3>1. /\ work' = [work EXCEPT ![op.msg] = "live"]
            /\ admitted' = [admitted EXCEPT
                              ![op.msg] = @ \union {<<Cardinality(@), pairing>>}]
            /\ op' = [msg |-> op.msg, step |-> "enqueued"]
            /\ UNCHANGED claims
        BY <1>4, <2>3, <2>4, Zenon DEF EnqueueGuarded, Decide
      <3>2. pairing = sent[op.msg]
        BY <2>1, <2>4, Zenon DEF Valid, CardInv, ProofIsOfSender
      <3>3. Cardinality({}) = 0
        BY FS_EmptySet, Zenon
      <3>4. admitted'[op.msg] = {<<0, sent[op.msg]>>}
        <4>1. admitted'[op.msg] = admitted[op.msg] \union
                                   {<<Cardinality(admitted[op.msg]), pairing>>}
          BY <2>1, <3>1
        <4> QED  BY <2>2, <3>2, <3>3, <4>1, Zenon
      <3>5. \A u \in Requests : u # op.msg => admitted'[u] = admitted[u] /\ work'[u] = work[u]
        BY <3>1
      <3>6. work'[op.msg] = "live"
        BY <2>1, <3>1
      <3>7. ProofIsOfSender' /\ OneShotEnds'
        BY <1>0, <2>1, <3>1, Zenon DEF CardInv, ProofIsOfSender, OneShotEnds
      <3>8. DecisionIsOpen'
        BY <2>1, <2>2, <3>1, <3>4, ZenonT(60) DEF DecisionIsOpen
      <3>9. ASSUME NEW u \in Requests PROVE TaskOfCard(u)'
        <4>1. CASE u = op.msg
          BY <1>0, <2>1, <2>2, <3>1, <3>4, <3>6, <4>1, Zenon DEF TaskOfCard
        <4>2. CASE u # op.msg
          <5>1. TaskOfCard(u)
            BY Zenon DEF CardInv
          <5> QED  BY <1>0, <2>1, <3>1, <3>5, <4>2, <5>1, Zenon DEF TaskOfCard
        <4> QED  BY <4>1, <4>2, Zenon
      <3> QED  BY <3>7, <3>8, <3>9, Zenon DEF CardInv
    <2>5. CASE ~Valid(op.msg)
      <3>1. /\ claims' = claims \ {op.msg} /\ op' = [msg |-> op.msg, step |-> "refused"]
            /\ UNCHANGED <<work, admitted>>
        BY <1>4, <2>5, Zenon DEF EnqueueGuarded, Decide
      <3>2. ProofIsOfSender' /\ DecisionIsOpen' /\ OneShotEnds'
        BY <1>0, <2>1, <2>2, <3>1, Zenon DEF CardInv, ProofIsOfSender, DecisionIsOpen, OneShotEnds
      <3>3. ASSUME NEW u \in Requests PROVE TaskOfCard(u)'
        <4>1. TaskOfCard(u)
          BY Zenon DEF CardInv
        <4> QED  BY <1>0, <2>1, <2>2, <3>1, <4>1, ZenonT(60) DEF TaskOfCard
      <3> QED  BY <3>2, <3>3, Zenon DEF CardInv
    <2> QED  BY <2>4, <2>5, Zenon
  <1>5. CASE RevokeOneShot
    <2>1. /\ op # NoDecision /\ op.msg \in Requests
          /\ granted' = granted \ {op.msg}
          /\ UNCHANGED <<card, claims, work, admitted, torn>>
          /\ \/ op.step = "enqueued" /\ op'.msg = op.msg /\ op'.step = "revoked"
             \/ op' = NoDecision
      BY <1>5, NotDeciding, Zenon DEF RevokeOneShot, DecisionSteps
    <2>2. ProofIsOfSender' /\ DecisionIsOpen'
      BY <1>0, <2>1, Zenon DEF CardInv, ProofIsOfSender, DecisionIsOpen
    <2>3. OneShotEnds'
      BY <2>1, Zenon DEF CardInv, OneShotEnds
    <2>4. ASSUME NEW u \in Requests PROVE TaskOfCard(u)'
      BY <1>0, <2>1, Zenon DEF CardInv, TaskOfCard
    <2> QED  BY <2>2, <2>3, <2>4, Zenon DEF CardInv
  <1>6. CASE ResolveApproved
    <2>1. /\ op # NoDecision /\ op.msg \in Requests /\ op.step = "revoked"
          /\ card' = [card EXCEPT ![op.msg] = "approved"] /\ op' = NoDecision
          /\ UNCHANGED <<claims, granted, work, admitted, torn>>
      BY <1>6, NotDeciding, Zenon DEF ResolveApproved, DecisionSteps
    <2>2. card[op.msg] = "pending" /\ admitted[op.msg] # {} /\ op.msg \notin granted
      BY <2>1, Zenon DEF CardInv, DecisionIsOpen
    <2>3. ProofIsOfSender'
      BY <1>0, <2>1, <2>2 DEF CardInv, ProofIsOfSender
    <2>4. DecisionIsOpen' /\ OneShotEnds'
      BY <2>1, <2>2 DEF CardInv, DecisionIsOpen, OneShotEnds
    <2>5. ASSUME NEW u \in Requests PROVE TaskOfCard(u)'
      <3>1. TaskOfCard(u)
        BY Zenon DEF CardInv
      <3> QED  BY <1>0, <2>1, <2>2, <3>1, ZenonT(60) DEF TaskOfCard
    <2> QED  BY <2>3, <2>4, <2>5, Zenon DEF CardInv
  <1>7. CASE DaemonDiesDeciding
    <2>1. /\ op # NoDecision /\ torn' = torn \union {op.msg} /\ op' = NoDecision
          /\ UNCHANGED <<card, claims, granted, work, admitted>>
      BY <1>7, Zenon DEF DaemonDiesDeciding
    <2>2. ProofIsOfSender' /\ DecisionIsOpen' /\ OneShotEnds'
      BY <1>0, <2>1, Zenon DEF CardInv, ProofIsOfSender, DecisionIsOpen, OneShotEnds
    <2>3. ASSUME NEW u \in Requests PROVE TaskOfCard(u)'
      BY <1>0, <2>1, Zenon DEF CardInv, TaskOfCard
    <2> QED  BY <2>2, <2>3, Zenon DEF CardInv
  <1> QED  BY <1>1, <1>2, <1>3, <1>4, <1>5, <1>6, <1>7, Zenon DEF Deciding

LEMMA CardInvStep ==
    ASSUME DelegationAssumption, DelegationInv, DelegationTypes', DelegationNext
    PROVE  CardInv'
  <1>1. /\ \A m \in Messages : sent[m] # 0 => sent'[m] = sent[m]
        /\ torn \subseteq torn'
    BY NothingIsUndone, Zenon
  <1>2. CASE \E m \in Requests : TakeRequest(m) \/ RejectCard(m)
    BY <1>2, CardStep, Zenon
  <1>3. CASE \/ Deciding \/ DaemonDiesDeciding
             \/ \E m \in Requests : ClaimApproval(m) \/ TaskEnds(m)
    BY <1>3, DecisionStep, Zenon
  <1>4. CASE \/ PairAgain \/ DropPairing \/ SyncDies
             \/ \E m \in Results : Delegate(m) \/ RecordCorrelation(m)
             \/ \E m \in Messages : Send(m) \/ GoStale(m)
             \/ BeginResults \/ FetchInbox \/ AppendResult \/ MarkSeen \/ MoveCursor
             \/ AckBatch
             \/ \E m \in Requests : PushResult(m)
             \/ \E m \in Results : TakeResult(m)
             \/ \E m \in Messages : TakeKnown(m)
    <2>1. UNCHANGED cardVars
      BY <1>4, Zenon DEF PairAgain, DropPairing, SyncDies, Delegate, RecordCorrelation, Send,
            GoStale, BeginResults, FetchInbox, AppendResult, MarkSeen, MoveCursor,
            AckBatch, PushResult, TakeResult, TakeKnown
    <2> QED  BY <1>1, <2>1, CardsLeftAlone, Zenon
  <1> QED  BY <1>2, <1>3, <1>4, Zenon DEF DelegationNext, InboxTick

(* A message that the tick, the cursor or the cloud is done with.          *)
LEMMA HandledStep ==
    ASSUME DelegationAssumption, DelegationInv, DelegationTypes', DelegationNext
    PROVE  HandledInv'
  <1> DEFINE Gone == acked \union cursor \union seen \union handled
  <1>0. \A m \in Gone : m \in Messages /\ Handled(m) /\ Handled(m)'
    <2>1. \A m \in Gone : m \in Messages /\ Handled(m)
      BY Zenon DEF DelegationInv, HandledInv
    <2> QED  BY <2>1, HandledStays, Zenon
  <1>1. phase = "terminal" => item \in Messages /\ Handled(item)
    BY Zenon DEF DelegationInv, HandledInv
  <1>2. ASSUME phase = "terminal" PROVE \E m \in Messages : m = item /\ Handled(m)'
    BY <1>1, <1>2, HandledStays, Zenon
  <1>3. Gone' \subseteq Gone \union {m \in {item} : phase = "terminal"}
    <2>1. CASE MarkSeen
      BY <2>1, Zenon DEF MarkSeen
    <2>2. CASE MoveCursor
      BY <2>2, Zenon DEF MoveCursor
    <2>3. CASE AckBatch \/ SyncDies
      BY <2>3, Zenon DEF AckBatch, SyncDies, EndTick, inboxVars
    <2>4. CASE FetchInbox
      BY <2>4, Zenon DEF FetchInbox, EndTick
    <2>5. CASE ~(MarkSeen \/ MoveCursor \/ AckBatch \/ SyncDies \/ FetchInbox)
      <3>1. UNCHANGED <<acked, cursor, seen, handled>>
        BY <2>5, Zenon DEF DelegationNext, InboxTick, Deciding, PairAgain, DropPairing, Delegate,
             RecordCorrelation, Send, GoStale, BeginResults, AppendResult, PushResult,
             TakeRequest, TakeResult, TakeKnown, MintOneShot, EnqueueGuarded, RevokeOneShot,
             ResolveApproved, DaemonDiesDeciding, ClaimApproval, RejectCard, TaskEnds,
             inboxVars, pollVars
      <3> QED  BY <3>1, Zenon
    <2> QED  BY <2>1, <2>2, <2>3, <2>4, <2>5, Zenon
  <1>4. ASSUME phase' = "terminal" PROVE \E m \in Messages : m = item' /\ Handled(m)'
    <2>1. CASE phase = "terminal" /\ item' = item
      BY <1>2, <2>1, Zenon
    <2>2. ASSUME NEW m \in Messages, TakeKnown(m), item' = m PROVE Handled(m)'
      <3>1. Handled(m)
        BY <1>0, <2>2, Zenon DEF TakeKnown, Handled
      <3> QED  BY <3>1, HandledStays, Zenon
    <2>3. ASSUME NEW m \in Requests, TakeRequest(m), item' = m, phase = "poll"
          PROVE  Handled(m)'
      <3>1. card'[m] # "none"
        BY <1>4, <2>3 DEF TakeRequest, DelegationInv, Settle, LeaveUnacked
      <3> QED  BY <3>1, Zenon DEF Handled
    <2>4. ASSUME NEW m \in Results, TakeResult(m), item' = m, phase = "poll"
          PROVE  Handled(m)'
      <3>1. m \in taken
        BY <1>4, <2>4, Zenon DEF TakeResult, Settle, LeaveUnacked
      <3>2. posts[m] > 0 \/ m \in torn
        BY <2>4, <3>1, Zenon DEF DelegationInv, PostInv
      <3> QED  BY <3>2, HandledStays, Zenon DEF Handled, Messages
    <2>5. ASSUME AppendResult PROVE \E m \in Messages : m = item' /\ Handled(m)'
      <3>1. /\ item \in Results /\ posts[item] = 0 /\ item' = item
            /\ posts' = [posts EXCEPT ![item] = @ + 1]
        BY <1>4, <2>5, Zenon DEF AppendResult, DelegationInv, PostInv
      <3>2. posts'[item] > 0
        BY <3>1 DEF DelegationInv
      <3>3. PICK m \in Results : m = item
        BY <3>1, Zenon
      <3> QED  BY <3>1, <3>2, <3>3, Zenon DEF Handled, Messages
    <2>6. \/ phase = "terminal" /\ item' = item
          \/ \E m \in Messages : TakeKnown(m) /\ item' = m
          \/ \E m \in Requests : TakeRequest(m) /\ item' = m /\ phase = "poll"
          \/ \E m \in Results : TakeResult(m) /\ item' = m /\ phase = "poll"
          \/ AppendResult
      BY <1>4, Zenon DEF DelegationNext, InboxTick, Deciding, PairAgain, DropPairing, SyncDies,
           Delegate, RecordCorrelation, Send, GoStale, BeginResults, FetchInbox, AppendResult,
           MarkSeen, MoveCursor, AckBatch, PushResult, TakeRequest, TakeResult, TakeKnown,
           MintOneShot, EnqueueGuarded, RevokeOneShot, ResolveApproved, DaemonDiesDeciding,
           ClaimApproval, RejectCard, TaskEnds, EndTick, Settle, LeaveUnacked, pollVars
    <2> QED  BY <2>1, <2>2, <2>3, <2>4, <2>5, <2>6, Zenon DEF Messages
  <1>5. \A m \in Gone' : Handled(m)'
    BY <1>0, <1>2, <1>3, Zenon
  <1> QED  BY <1>4, <1>5, Zenon DEF HandledInv

(* The steps of the tick and of the owner that no result is posted by.     *)
LEMMA PostStep ==
    ASSUME DelegationAssumption, DelegationInv, DelegationTypes', DelegationNext
    PROVE  PostInv'
  <1>0. stale \subseteq stale' /\ torn \subseteq torn'
    BY NothingIsUndone, Zenon
  <1>1. CASE AppendResult
    <2>1. phase = "claimed" /\ item \in Results /\ posts[item] = 0 /\ item \in taken
      BY <1>1, Zenon DEF AppendResult, DelegationInv, PostInv
    <2>2. CASE posts' = [posts EXCEPT ![item] = @ + 1]
      <3>1. UNCHANGED <<taken, torn, stale>> /\ phase' # "claimed"
        BY <1>1, <2>1, <2>2 DEF AppendResult, cloudVars, DelegationInv
      <3> QED  BY <2>1, <2>2, <3>1 DEF DelegationInv, PostInv
    <2>3. CASE posts' = posts
      <3>1. /\ UNCHANGED <<torn, stale>> /\ phase' = "poll" /\ taken' = taken \ {item}
        BY <1>1, <2>1, <2>3 DEF AppendResult, cloudVars, DelegationInv
      <3> QED  BY <2>1, <2>3, <3>1 DEF DelegationInv, PostInv
    <2> QED  BY <1>1, <2>2, <2>3, Zenon DEF AppendResult
  <1>2. ASSUME NEW m \in Results, TakeResult(m) PROVE PostInv'
    <2>1. /\ phase = "poll" /\ m \notin stale /\ UNCHANGED <<posts, stale, torn>>
      BY <1>2, Zenon DEF TakeResult, cloudVars
    <2>2. CASE phase' = "claimed"
      <3>1. /\ m \notin taken /\ item' = m /\ taken' = taken \union {m}
        BY <1>2, <2>1, <2>2, Zenon DEF TakeResult, Settle, LeaveUnacked
      <3>2. posts[m] = 0
        BY <2>1, <3>1 DEF DelegationInv, PostInv
      <3> QED  BY <2>1, <2>2, <3>1, <3>2, Zenon DEF DelegationInv, PostInv
    <2>3. CASE phase' # "claimed"
      <3>1. taken' = taken
        BY <1>2, <2>3, Zenon DEF TakeResult
      <3> QED  BY <2>1, <2>3, <3>1, Zenon DEF DelegationInv, PostInv
    <2> QED  BY <2>2, <2>3, Zenon
  <1>3. CASE FetchInbox
    <2>1. /\ UNCHANGED <<posts, stale, torn>> /\ phase = "results" /\ phase' # "claimed"
          /\ taken' = taken \/ taken' = taken \ stale
      BY <1>3, Zenon DEF FetchInbox, EndTick, cloudVars
    <2> QED  BY <2>1, Zenon DEF DelegationInv, PostInv
  <1>4. CASE SyncDies
    <2>1. /\ UNCHANGED <<posts, stale, taken>> /\ phase' = "idle"
          /\ torn' = IF phase = "claimed" THEN torn \union {item} ELSE torn
      BY <1>4, Zenon DEF SyncDies, EndTick, cloudVars, inboxVars
    <2> QED  BY <2>1, Zenon DEF DelegationInv, PostInv
  <1>5. CASE ~(AppendResult \/ FetchInbox \/ SyncDies \/ \E m \in Results : TakeResult(m))
    <2>1. /\ UNCHANGED <<posts, taken>>
          /\ UNCHANGED <<phase, item>> \/ (phase # "claimed" /\ phase' # "claimed")
      BY <1>5, Zenon DEF DelegationNext, InboxTick, Deciding, PairAgain, DropPairing,
           Delegate, RecordCorrelation, Send, GoStale, BeginResults,
           MarkSeen, MoveCursor, AckBatch, PushResult, TakeRequest, TakeKnown,
           MintOneShot, EnqueueGuarded, RevokeOneShot, ResolveApproved, DaemonDiesDeciding,
           ClaimApproval, RejectCard, TaskEnds, EndTick, Settle, LeaveUnacked,
           pollVars, inboxVars
    <2> QED  BY <1>0, <2>1, Zenon DEF DelegationInv, PostInv
  <1> QED  BY <1>1, <1>2, <1>3, <1>4, <1>5, Zenon

(* The answers, and what the inbox serves.                                 *)
LEMMA AnswerStep ==
    ASSUME DelegationAssumption, DelegationInv, DelegationTypes', DelegationNext
    PROVE  AnswerInv' /\ ServedWasSent'
  <1>0. /\ \A m \in Requests : Due(m) => Due(m)'
        /\ \A m \in Messages : sent[m] # 0 => sent'[m] = sent[m]
    BY NothingIsUndone, Zenon
  <1>1. /\ phase' = "results" => \A m \in batch' : m \in Requests /\ Due(m)'
        /\ phase' \in {"poll", "claimed", "terminal"} => \A m \in batch' : sent'[m] # 0
    <2>1. CASE BeginResults
      <3>1. /\ UNCHANGED <<card, work>> /\ phase' = "results"
            /\ \A m \in batch' : m \in Requests /\ card[m] = "approved" /\ work[m] = "completed"
        BY <2>1, Zenon DEF BeginResults, cardVars
      <3> QED  BY <3>1, Zenon DEF Due
    <2>2. CASE FetchInbox
      <3>1. \/ /\ phase' = "poll" /\ UNCHANGED sent /\ session # 0
               /\ \A m \in batch' : sent[m] = session
            \/ phase' = "idle"
        BY <2>2, ZenonT(60) DEF FetchInbox, EndTick, cloudVars, DelegationInv
      <3> QED  BY <3>1, Zenon
    <2>3. CASE ~(BeginResults \/ FetchInbox)
      <3>1. /\ batch' \subseteq batch
            /\ phase' = "results" => phase = "results"
            /\ phase' \in {"poll", "claimed", "terminal"} =>
                  phase \in {"poll", "claimed", "terminal"}
        BY <2>3, Zenon DEF DelegationNext, InboxTick, Deciding, PairAgain, DropPairing, SyncDies,
           Delegate, RecordCorrelation, Send, GoStale, AppendResult,
           MarkSeen, MoveCursor, AckBatch, PushResult, TakeRequest, TakeResult, TakeKnown,
           MintOneShot, EnqueueGuarded, RevokeOneShot, ResolveApproved, DaemonDiesDeciding,
           ClaimApproval, RejectCard, TaskEnds, EndTick, Settle, LeaveUnacked, pollVars
      <3>2. \A m \in batch : m \in Messages
        BY Zenon DEF DelegationInv
      <3>3. phase = "results" => \A m \in batch : m \in Requests /\ Due(m)
        BY Zenon DEF DelegationInv, AnswerInv, Due
      <3>4. phase \in {"poll", "claimed", "terminal"} => \A m \in batch : sent[m] # 0
        BY Zenon DEF DelegationInv, ServedWasSent
      <3> QED  BY <1>0, <3>1, <3>2, <3>3, <3>4, Zenon
    <2> QED  BY <2>1, <2>2, <2>3, Zenon
  <1>2. /\ \A m \in Requests : answers'[m] > 0 => Due(m)'
        /\ \A m \in pushed' : answers'[m] > 0
    <2>1. ASSUME NEW m \in Requests, PushResult(m)
          PROVE  /\ \A u \in Requests : answers'[u] > 0 => Due(u)'
                 /\ \A u \in pushed' : answers'[u] > 0
      <3>1. Due(m)
        BY <2>1, Zenon DEF PushResult, DelegationInv, AnswerInv
      <3>2. \/ UNCHANGED answers /\ UNCHANGED pushed
            \/ /\ answers' = [answers EXCEPT ![m] = @ + 1]
               /\ pushed' = pushed \/ pushed' = pushed \union {m}
        BY <2>1, Zenon DEF PushResult, answerVars
      <3>3. \A u \in Requests : answers'[u] > 0 => answers[u] > 0 \/ u = m
        BY <3>2, ZenonT(60) DEF DelegationInv
      <3>4. \A u \in pushed' : answers'[u] > 0
        BY <3>2 DEF DelegationInv, AnswerInv
      <3>5. \A u \in Requests : answers[u] > 0 => Due(u)
        BY Zenon DEF DelegationInv, AnswerInv
      <3> QED  BY <1>0, <3>1, <3>3, <3>4, <3>5, Zenon
    <2>2. CASE ~\E m \in Requests : PushResult(m)
      <3>1. UNCHANGED <<answers, pushed>>
        BY <2>2, Zenon DEF DelegationNext, InboxTick, Deciding, PairAgain, DropPairing, SyncDies,
           Delegate, RecordCorrelation, Send, GoStale, BeginResults, FetchInbox, AppendResult,
           MarkSeen, MoveCursor, AckBatch, TakeRequest, TakeResult, TakeKnown,
           MintOneShot, EnqueueGuarded, RevokeOneShot, ResolveApproved, DaemonDiesDeciding,
           ClaimApproval, RejectCard, TaskEnds, answerVars
      <3> QED  BY <1>0, <3>1, Zenon DEF DelegationInv, AnswerInv
    <2> QED  BY <2>1, <2>2, Zenon
  <1>3. ServedWasSent'
    BY <1>1, Zenon DEF ServedWasSent
  <1>4. AnswerInv'
    BY <1>1, <1>2, Zenon DEF AnswerInv
  <1> QED  BY <1>3, <1>4, Zenon

LEMMA DelegationStarts == DelegationAssumption /\ DelegationInit => DelegationInv
  <1> SUFFICES ASSUME DelegationAssumption, DelegationInit PROVE DelegationInv
    OBVIOUS
  <1>0. 0 \in 0 .. MaxPairings /\ 0 \in 0 .. MaxLost
    BY DEF DelegationAssumption
  <1>1. CloudTypes /\ InboxTypes /\ PollTypes /\ OtherTypes
    BY <1>0, Zenon DEF DelegationInit
  <1>2. CardTypes
    BY <1>0, Zenon DEF DelegationInit
  <1>3. ServedWasSent /\ HandledInv /\ PostInv /\ AnswerInv
    BY DEF DelegationInit, ServedWasSent, HandledInv, PostInv, AnswerInv
  <1>4. CardInv
    BY Zenon DEF DelegationInit, CardInv, ProofIsOfSender, DecisionIsOpen, OneShotEnds, TaskOfCard
  <1> QED  BY <1>1, <1>2, <1>3, <1>4, Zenon DEF DelegationInv

LEMMA DelegationStep ==
    DelegationAssumption /\ DelegationInv /\ [DelegationNext]_delegationVars
        => DelegationInv'
  <1> SUFFICES ASSUME DelegationAssumption, DelegationInv, [DelegationNext]_delegationVars
               PROVE  DelegationInv'
    OBVIOUS
  <1>1. CASE UNCHANGED delegationVars
    <2> USE DEF delegationVars, cloudVars, inboxVars, pollVars, cardVars, answerVars
    <2>1. DelegationTypes'
      BY <1>1, Zenon DEF DelegationInv
    <2>2. ServedWasSent' /\ HandledInv' /\ PostInv' /\ AnswerInv'
      BY <1>1, Zenon DEF DelegationInv, ServedWasSent, HandledInv, Handled, PostInv, AnswerInv, Due
    <2>3. CardInv'
      BY <1>1, CardsLeftAlone, Zenon
    <2> QED  BY <2>1, <2>2, <2>3, Zenon DEF DelegationInv
  <1>2. CASE DelegationNext
    <2>1. DelegationTypes'
      <3>1. DelegationTypes /\ PostInv /\ CardInv
        BY Zenon DEF DelegationInv
      <3> HIDE DEF DelegationTypes
      <3> QED  BY <1>2, <3>1, CloudTyped, TickTyped, DecisionTyped, Zenon DEF DelegationNext
    <2> QED  BY <1>2, <2>1, CardInvStep, HandledStep, PostStep, AnswerStep, Zenon DEF DelegationInv
  <1> QED  BY <1>1, <1>2, Zenon

(* Every reachable state of the inbox, the cards and the decisions         *)
(* satisfies the inductive invariant.                                      *)
THEOREM DelegationInvariant == DelegationSpec => []DelegationInv
  BY DelegationAssumption, DelegationStarts, DelegationStep, PTL DEF DelegationSpec

(* For every set of requests and results, and every number of crashes,     *)
(* lost answers and pairings: claim_approval, enqueue_guarded and resolve  *)
(* give a request at most one task, under the pairing it was signed for;   *)
(* _claim_result_delivery lets a result into its conversation once; what   *)
(* the cloud or the cursor is done with was dealt with; a one-shot ends    *)
(* with its decision; and only an approved and completed request is        *)
(* answered.                                                               *)
THEOREM DelegationIsSafe == DelegationSpec => []DelegationSafe
  <1>1. DelegationInv => DelegationSafe
    <2> SUFFICES ASSUME DelegationInv PROVE DelegationSafe
      OBVIOUS
    <2>1. DelegationTypeOK
      <3>1. op = NoDecision \/ op.msg \in Requests
        BY Zenon DEF DelegationInv
      <3>2. /\ (session = 0) = (phase = "idle")
            /\ (item # NoMessage) = (phase \in {"claimed", "terminal"})
        BY DEF DelegationInv
      <3> QED  BY <3>1, <3>2, Zenon DEF DelegationInv, DelegationTypeOK
    <2>2. OneTaskPerDecision
      <3> SUFFICES ASSUME NEW m \in Requests
                   PROVE  /\ Cardinality(admitted[m]) <= 1
                          /\ card[m] \in {"none", "rejected"} => admitted[m] = {}
                          /\ card[m] = "approved" => admitted[m] # {}
        BY Zenon DEF OneTaskPerDecision
      <3>1. TaskOfCard(m)
        BY Zenon DEF DelegationInv, CardInv
      <3>2. Cardinality({}) = 0 /\ Cardinality({<<0, sent[m]>>}) = 1
        BY FS_EmptySet, FS_Singleton, Zenon
      <3> QED  BY <3>1, <3>2 DEF TaskOfCard
    <2>3. AdmittedUnderItsPairing
      <3> SUFFICES ASSUME NEW m \in Requests, NEW a \in admitted[m] PROVE a[2] = sent[m]
        BY Zenon DEF AdmittedUnderItsPairing
      <3>1. TaskOfCard(m)
        BY Zenon DEF DelegationInv, CardInv
      <3> QED  BY <3>1 DEF TaskOfCard
    <2>4. GoneIsHandled
      BY Zenon DEF DelegationInv, HandledInv, Handled, GoneIsHandled
    <2>5. PostedOnce /\ OneShotEnds /\ AnswersAreDue
      BY Zenon DEF DelegationInv, PostInv, CardInv, AnswerInv, Due, PostedOnce, AnswersAreDue
    <2> QED  BY <2>1, <2>2, <2>3, <2>4, <2>5, Zenon DEF DelegationSafe
  <1> QED  BY <1>1, DelegationInvariant, PTL

-----------------------------------------------------------------------------
(***************************************************************************)
(* The status channel.                                                     *)
(***************************************************************************)
HIDE DEF DelegationTypes, CloudTypes, InboxTypes, PollTypes, CardTypes, OtherTypes

Statuses == TerminalStatus \union {"awaiting_approval", "blocked", "queued", "running"}

Rows == [msg : Watched, seq : 1 .. MaxSequence]

StatusTypes ==
    /\ local \in [Watched -> Statuses]
    /\ events \in [Watched -> Seq(Statuses)]
    /\ delivered \in [Watched -> SUBSET Nat]
    /\ received \in [Watched -> SUBSET Nat]
    /\ quarantine \subseteq Watched
    /\ picks \in Seq(Rows) /\ Len(picks) <= SendLimit
    /\ sending \in BOOLEAN /\ linked \in BOOLEAN
    /\ misses \in 0 .. MaxMisses

(* The outbox of one request: what is delivered is a prefix, and what the  *)
(* cloud has is at most one event more.                                    *)
OutboxOf(m) ==
    /\ Len(events[m]) <= MaxSequence
    /\ delivered[m] \subseteq received[m]
    /\ received[m] \subseteq 1 .. Len(events[m])
    /\ \A n \in received[m] : 1 .. n - 1 \subseteq delivered[m]

(* A row of the pass is an event all of whose predecessors are delivered.  *)
RowIsNext(row) ==
    /\ row.seq <= Len(events[row.msg])
    /\ 1 .. row.seq - 1 \subseteq delivered[row.msg]

StatusInv ==
    /\ StatusTypes
    /\ \A m \in Watched : OutboxOf(m)
    /\ \A i \in 1 .. Len(picks) : RowIsNext(picks[i])
    /\ TerminalIsLast

LEMMA FollowsTyped == \A s \in Statuses : Follows(s) \subseteq Statuses
  BY Zenon DEF Statuses, Follows, TerminalStatus

(* The events of a request after a pass has observed its status.           *)
LEMMA CollectKeepsInv ==
    ASSUME StatusAssumption, StatusInv, Collect
    PROVE  StatusInv'
  <1>0. /\ UNCHANGED <<local, delivered, picks, linked, received, misses>>
        /\ events' = [m \in Watched |-> IF m \in Changed /\ ~Conflict(m)
                                        THEN Append(events[m], local[m])
                                        ELSE events[m]]
        /\ quarantine' = quarantine \union {m \in Changed : Conflict(m)}
        /\ sending' = TRUE
    BY Zenon DEF Collect
  <1>1. ASSUME NEW m \in Watched
        PROVE  /\ events'[m] \in Seq(Statuses)
               /\ \/ events'[m] = events[m]
                  \/ /\ events'[m] = Append(events[m], local[m])
                     /\ LastEvent(m) # local[m] /\ LastEvent(m) \notin TerminalStatus
                     /\ Len(events[m]) # MaxSequence
    BY <1>0 DEF StatusInv, StatusTypes, Changed, Conflict
  <1>2. ASSUME NEW m \in Watched
        PROVE  /\ Len(events'[m]) \in Nat /\ Len(events[m]) \in Nat
               /\ Len(events[m]) <= Len(events'[m]) /\ Len(events'[m]) <= MaxSequence
               /\ \A n \in 1 .. Len(events[m]) : events'[m][n] = events[m][n]
               /\ \A n \in 1 .. Len(events'[m]) - 1 :
                     /\ events'[m][n] \notin TerminalStatus
                     /\ events'[m][n] # events'[m][n + 1]
    <2>0. /\ events[m] \in Seq(Statuses) /\ local[m] \in Statuses
          /\ Len(events[m]) \in Nat /\ Len(events[m]) <= MaxSequence
          /\ MaxSequence \in Nat
          /\ \A n \in 1 .. Len(events[m]) - 1 :
                     /\ events[m][n] \notin TerminalStatus
                     /\ events[m][n] # events[m][n + 1]
      BY DEF StatusInv, StatusTypes, OutboxOf, TerminalIsLast, StatusAssumption
    <2>1. CASE events'[m] = events[m]
      BY <2>0, <2>1
    <2>2. CASE /\ events'[m] = Append(events[m], local[m])
               /\ LastEvent(m) # local[m] /\ LastEvent(m) \notin TerminalStatus
               /\ Len(events[m]) # MaxSequence
      <3>1. /\ Len(events'[m]) = Len(events[m]) + 1
            /\ \A n \in 1 .. Len(events[m]) : events'[m][n] = events[m][n]
            /\ events'[m][Len(events[m]) + 1] = local[m]
        BY <2>0, <2>2
      <3>2. Len(events[m]) > 0 =>
               /\ events[m][Len(events[m])] # local[m]
               /\ events[m][Len(events[m])] \notin TerminalStatus
        <4>1. Len(events[m]) > 0 => events[m] # <<>>
          BY <2>0
        <4> QED  BY <2>2, <4>1, Zenon DEF LastEvent
      <3>3. ASSUME NEW n \in 1 .. Len(events'[m]) - 1
            PROVE  /\ events'[m][n] \notin TerminalStatus
                   /\ events'[m][n] # events'[m][n + 1]
        <4>1. n \in 1 .. Len(events[m])
          BY <2>0, <3>1
        <4>2. CASE n = Len(events[m])
          BY <2>0, <3>1, <3>2, <4>1, <4>2
        <4>3. CASE n # Len(events[m])
          <5>1. n \in 1 .. Len(events[m]) - 1 /\ n + 1 \in 1 .. Len(events[m])
            BY <2>0, <4>1, <4>3
          <5> QED  BY <2>0, <3>1, <4>1, <5>1, Zenon
        <4> QED  BY <4>2, <4>3, Zenon
      <3> QED  BY <2>0, <2>2, <3>1, <3>3
    <2> QED  BY <1>1, <2>1, <2>2, Zenon
  <1>3. StatusTypes'
    <2>1. events' \in [Watched -> Seq(Statuses)]
      BY <1>0, <1>1, Zenon
    <2> QED  BY <1>0, <2>1, Zenon DEF StatusInv, StatusTypes, Changed
  <1>4. ASSUME NEW m \in Watched PROVE OutboxOf(m)'
    BY <1>0, <1>2 DEF StatusInv, OutboxOf
  <1>5. ASSUME NEW i \in 1 .. Len(picks') PROVE RowIsNext(picks[i])'
    <2>1. picks[i] \in Rows /\ RowIsNext(picks[i])
      BY <1>0, <1>5 DEF StatusInv, StatusTypes
    <2>2. picks[i].msg \in Watched /\ picks[i].seq \in Nat
      BY <2>1 DEF Rows
    <2> QED  BY <1>0, <1>2, <2>1, <2>2 DEF RowIsNext
  <1>6. TerminalIsLast'
    BY <1>2, Zenon DEF TerminalIsLast
  <1> QED  BY <1>0, <1>3, <1>4, <1>5, <1>6, Zenon DEF StatusInv

(* The rows a pass selects.                                                *)
LEMMA SelectKeepsInv ==
    ASSUME StatusAssumption, StatusInv, Select
    PROVE  StatusInv'
  <1>1. /\ UNCHANGED <<local, events, delivered, quarantine, linked, received, misses>>
        /\ sending' \in BOOLEAN
    BY Zenon DEF Select, outboxVars
  <1>2. PICK size \in 0 .. SendLimit : picks' \in [1 .. size -> Ready]
    BY Zenon DEF Select
  <1>3. ASSUME NEW row \in Ready PROVE row \in Rows /\ RowIsNext(row)
    <2>1. row \in Rows /\ row.msg \in Watched /\ row.seq \in Nat
          /\ IsHead(row.msg, row.seq)
      BY DEF Ready, Rows
    <2>2. /\ row.seq \in 1 .. Len(events[row.msg])
          /\ \A k \in 1 .. Len(events[row.msg]) : k \notin delivered[row.msg] => row.seq <= k
      BY <2>1, Zenon DEF IsHead, Undelivered
    <2>3. Len(events[row.msg]) \in Nat
      BY <2>1 DEF StatusInv, StatusTypes
    <2>4. ASSUME NEW k \in 1 .. row.seq - 1 PROVE k \in delivered[row.msg]
      BY <2>1, <2>2, <2>3
    <2> QED  BY <2>1, <2>2, <2>3, <2>4 DEF RowIsNext
  <1>4. size \in Nat /\ SendLimit \in Nat /\ size <= SendLimit
    BY DEF StatusAssumption
  <1>5. picks' \in [1 .. size -> Rows]
    BY <1>2, <1>3, Zenon
  <1>6. picks' \in Seq(Rows) /\ Len(picks') = size
    BY <1>4, <1>5
  <1>7. StatusTypes'
    BY <1>1, <1>4, <1>6, Zenon DEF StatusInv, StatusTypes
  <1>8. \A i \in 1 .. Len(picks') : RowIsNext(picks'[i])
    BY <1>2, <1>3, <1>6, Zenon
  <1>9. ASSUME NEW i \in 1 .. Len(picks') PROVE RowIsNext(picks[i])'
    BY <1>1, <1>8, Zenon DEF RowIsNext
  <1>10. TerminalIsLast' /\ \A m \in Watched : OutboxOf(m)'
    BY <1>1, Zenon DEF StatusInv, TerminalIsLast, OutboxOf
  <1> QED  BY <1>7, <1>9, <1>10, Zenon DEF StatusInv

(* The rest of the pass after a row, and the end of it.                    *)
LEMMA PicksShrink ==
    ASSUME StatusInv, picks # <<>>, NextPick \/ EndPass
    PROVE  /\ picks' \in Seq(Rows) /\ Len(picks') <= SendLimit /\ sending' \in BOOLEAN
           /\ \A i \in 1 .. Len(picks') : \E j \in 1 .. Len(picks) : picks'[i] = picks[j]
  <1>0. picks \in Seq(Rows) /\ Len(picks) \in Nat /\ Len(picks) <= SendLimit
    BY DEF StatusInv, StatusTypes
  <1>1. CASE NextPick
    <2>1. picks' = Tail(picks) /\ sending' \in BOOLEAN
      BY <1>1, Zenon DEF NextPick
    <2>2. Tail(picks) \in Seq(Rows) /\ Len(Tail(picks)) = Len(picks) - 1
          /\ \A i \in 1 .. Len(Tail(picks)) : Tail(picks)[i] = picks[i + 1]
      BY <1>0
    <2>3. \A i \in 1 .. Len(picks) - 1 : i + 1 \in 1 .. Len(picks)
      BY <1>0
    <2>4. Len(picks) - 1 <= SendLimit
      <3>1. SendLimit \in Nat
        BY StatusAssumption, Zenon DEF StatusAssumption
      <3> QED  BY <1>0, <3>1
    <2> QED  BY <2>1, <2>2, <2>3, <2>4, Zenon
  <1>2. CASE EndPass
    <2>1. picks' = <<>> /\ sending' = FALSE
      BY <1>2, Zenon DEF EndPass
    <2>2. <<>> \in Seq(Rows) /\ Len(<<>>) = 0
      OBVIOUS
    <2>3. SendLimit \in Nat
      BY StatusAssumption, Zenon DEF StatusAssumption
    <2>4. Len(picks') = 0 /\ picks' \in Seq(Rows)
      BY <2>1, <2>2, Zenon
    <2>5. Len(picks') <= SendLimit /\ 1 .. Len(picks') = {}
      BY <2>3, <2>4
    <2> QED  BY <2>1, <2>4, <2>5, Zenon
  <1> QED  BY <1>1, <1>2, Zenon

(* A step that adds the receipts of one event at most, after its           *)
(* predecessors.                                                           *)
LEMMA ReceiptKeepsInv ==
    ASSUME StatusAssumption, StatusInv, NEW row \in Rows, RowIsNext(row),
           NextPick \/ EndPass, picks # <<>>,
           UNCHANGED <<local, events, linked>>,
           quarantine' \subseteq Watched, misses' \in 0 .. MaxMisses,
           \/ UNCHANGED <<received, delivered>>
           \/ /\ received' = [received EXCEPT ![row.msg] = @ \union {row.seq}]
              /\ \/ delivered' = delivered
                 \/ delivered' = [delivered EXCEPT ![row.msg] = @ \union {row.seq}]
    PROVE  StatusInv'
  <1>0. /\ row.msg \in Watched /\ row.seq \in 1 .. Len(events[row.msg]) /\ row.seq \in Nat
        /\ 1 .. row.seq - 1 \subseteq delivered[row.msg]
        /\ Len(events[row.msg]) \in Nat
    BY DEF Rows, RowIsNext, StatusInv, StatusTypes
  <1>1. /\ picks' \in Seq(Rows) /\ Len(picks') <= SendLimit /\ sending' \in BOOLEAN
        /\ \A i \in 1 .. Len(picks') : \E j \in 1 .. Len(picks) : picks'[i] = picks[j]
    BY PicksShrink, Zenon
  <1>2. received' \in [Watched -> SUBSET Nat] /\ delivered' \in [Watched -> SUBSET Nat]
    <2>1. /\ received \in [Watched -> SUBSET Nat] /\ delivered \in [Watched -> SUBSET Nat]
          /\ received[row.msg] \union {row.seq} \in SUBSET Nat
          /\ delivered[row.msg] \union {row.seq} \in SUBSET Nat
      BY <1>0, Zenon DEF StatusInv, StatusTypes
    <2> QED  BY <1>0, <2>1
  <1>3. StatusTypes'
    BY <1>1, <1>2, Zenon DEF StatusInv, StatusTypes
  <1>4. \A m \in Watched : delivered[m] \subseteq delivered'[m]
    BY ZenonT(60) DEF StatusInv, StatusTypes
  <1>5. ASSUME NEW m \in Watched PROVE OutboxOf(m)'
    <2>1. OutboxOf(m)
      BY Zenon DEF StatusInv
    <2>2. CASE received'[m] = received[m] /\ delivered'[m] = delivered[m]
      BY <2>1, <2>2, Zenon DEF OutboxOf
    <2>3. CASE m = row.msg /\ received'[m] = received[m] \union {row.seq}
               /\ delivered'[m] \in {delivered[m], delivered[m] \union {row.seq}}
      BY <1>0, <2>1, <2>3, Zenon DEF OutboxOf
    <2> QED  BY <1>0, <2>2, <2>3, Zenon DEF StatusInv, StatusTypes
  <1>6. ASSUME NEW i \in 1 .. Len(picks') PROVE RowIsNext(picks[i])'
    <2>1. PICK j \in 1 .. Len(picks) : picks'[i] = picks[j]
      BY <1>1, Zenon
    <2>2. RowIsNext(picks[j]) /\ picks[j] \in Rows
      BY DEF StatusInv, StatusTypes
    <2>3. picks[j].msg \in Watched
      BY <2>2, Zenon DEF Rows
    <2> QED  BY <1>4, <2>1, <2>2, <2>3, Zenon DEF RowIsNext
  <1>7. TerminalIsLast'
    BY Zenon DEF StatusInv, TerminalIsLast
  <1> QED  BY <1>3, <1>5, <1>6, <1>7, Zenon DEF StatusInv

LEMMA SendKeepsInv ==
    ASSUME StatusAssumption, StatusInv, SendEvent
    PROVE  StatusInv'
  <1>0. /\ picks # <<>> /\ UNCHANGED <<local, events, linked>>
    BY Zenon DEF SendEvent
  <1>1. PICK row \in Rows : row = Head(picks) /\ RowIsNext(row)
    <2>1. picks \in Seq(Rows) /\ Len(picks) \in Nat /\ Head(picks) = picks[1]
          /\ 1 \in 1 .. Len(picks)
      BY <1>0 DEF StatusInv, StatusTypes
    <2> QED  BY <2>1 DEF StatusInv
  <1>2. MaxMisses \in Nat /\ misses \in 0 .. MaxMisses /\ quarantine \subseteq Watched
        /\ row.msg \in Watched
    BY <1>1, Zenon DEF StatusAssumption, StatusInv, StatusTypes, Rows
  <1>3. misses < MaxMisses => misses + 1 \in 0 .. MaxMisses
    BY <1>2
  <1>4. CASE SendAccepted(row)
    <2>1. /\ received' = [received EXCEPT ![row.msg] = @ \union {row.seq}]
          /\ \/ delivered' = delivered
             \/ delivered' = [delivered EXCEPT ![row.msg] = @ \union {row.seq}]
          /\ NextPick /\ quarantine' = quarantine /\ misses' \in 0 .. MaxMisses
      BY <1>2, <1>3, <1>4, Zenon DEF SendAccepted
    <2> QED  BY <1>0, <1>1, <1>2, <2>1, ReceiptKeepsInv, Zenon
  <1>5. CASE SendFails(row.msg) \/ SendRefused(row.msg)
    <2>1. /\ UNCHANGED <<received, delivered>> /\ quarantine' \subseteq Watched
          /\ NextPick \/ EndPass
          /\ misses' \in 0 .. MaxMisses
      BY <1>2, <1>3, <1>5, Zenon DEF SendFails, SendRefused
    <2> QED  BY <1>0, <1>1, <2>1, ReceiptKeepsInv, Zenon
  <1>6. CASE EndPass /\ UNCHANGED <<delivered, quarantine, tried, received, misses>>
    BY <1>0, <1>1, <1>2, <1>6, ReceiptKeepsInv, Zenon
  <1> QED  BY <1>1, <1>4, <1>5, <1>6, Zenon DEF SendEvent

LEMMA StatusStarts == StatusAssumption /\ StatusInit => StatusInv
  <1> SUFFICES ASSUME StatusAssumption, StatusInit PROVE StatusInv
    OBVIOUS
  <1>0. /\ <<>> \in Seq(Statuses) /\ <<>> \in Seq(Rows) /\ Len(<<>>) = 0
        /\ 0 \in 0 .. MaxMisses /\ 0 <= SendLimit /\ 0 <= MaxSequence
        /\ "awaiting_approval" \in Statuses
    BY DEF StatusAssumption, Statuses
  <1>1. StatusTypes
    BY <1>0, Zenon DEF StatusInit, StatusTypes
  <1>2. \A m \in Watched : OutboxOf(m)
    BY <1>0, Zenon DEF StatusInit, OutboxOf
  <1>3. TerminalIsLast /\ \A i \in 1 .. Len(picks) : RowIsNext(picks[i])
    BY <1>0 DEF StatusInit, TerminalIsLast
  <1> QED  BY <1>1, <1>2, <1>3, Zenon DEF StatusInv

LEMMA StatusKeepsInv ==
    StatusAssumption /\ StatusInv /\ [StatusNext]_statusVars => StatusInv'
  <1> SUFFICES ASSUME StatusAssumption, StatusInv, [StatusNext]_statusVars
               PROVE  StatusInv'
    OBVIOUS
  <1>0. ASSUME UNCHANGED <<events, delivered, received>>,
               local' \in [Watched -> Statuses], quarantine' = quarantine,
               picks' = picks \/ picks' = <<>>, sending' \in BOOLEAN, linked' \in BOOLEAN,
               misses' \in 0 .. MaxMisses
        PROVE  StatusInv'
    <2>0. <<>> \in Seq(Rows) /\ Len(<<>>) = 0 /\ SendLimit \in Nat
      BY DEF StatusAssumption
    <2>1. StatusTypes'
      <3>1. picks' \in Seq(Rows) /\ Len(picks') <= SendLimit
        <4>1. CASE picks' = picks
          BY <4>1, Zenon DEF StatusInv, StatusTypes
        <4>2. CASE picks' = <<>>
          <5>1. picks' \in Seq(Rows) /\ Len(picks') = 0
            BY <2>0, <4>2, Zenon
          <5> QED  BY <2>0, <5>1
        <4> QED  BY <1>0, <4>1, <4>2, Zenon
      <3> QED  BY <1>0, <3>1, Zenon DEF StatusInv, StatusTypes
    <2>2. \A m \in Watched : OutboxOf(m)'
      BY <1>0, Zenon DEF StatusInv, OutboxOf
    <2>3. TerminalIsLast'
      BY <1>0, Zenon DEF StatusInv, TerminalIsLast
    <2>4. ASSUME NEW i \in 1 .. Len(picks') PROVE RowIsNext(picks[i])'
      BY <1>0, <2>0 DEF StatusInv, RowIsNext
    <2> QED  BY <2>1, <2>2, <2>3, <2>4, Zenon DEF StatusInv
  <1>1. CASE UNCHANGED statusVars
    BY <1>0, <1>1, Zenon DEF statusVars, outboxVars, StatusInv, StatusTypes
  <1>2. CASE Collect \/ Select \/ SendEvent
    BY <1>2, CollectKeepsInv, SelectKeepsInv, SendKeepsInv, Zenon
  <1>3. CASE PassDies
    <2>1. misses < MaxMisses => misses + 1 \in 0 .. MaxMisses
      BY DEF StatusInv, StatusTypes, StatusAssumption
    <2> QED  BY <1>0, <1>3, <2>1, Zenon DEF PassDies, EndPass, outboxVars, StatusInv, StatusTypes
  <1>4. CASE Unlink
    BY <1>0, <1>4, Zenon DEF Unlink, outboxVars, StatusInv, StatusTypes
  <1>5. ASSUME NEW m \in Watched, LocalMoves(m) PROVE StatusInv'
    <2>1. local' \in [Watched -> Statuses]
      BY <1>5, FollowsTyped, Zenon DEF LocalMoves, StatusInv, StatusTypes
    <2> QED  BY <1>0, <1>5, <2>1, Zenon DEF LocalMoves, outboxVars, StatusInv, StatusTypes
  <1> QED  BY <1>1, <1>2, <1>3, <1>4, <1>5, Zenon DEF StatusNext

(* Every reachable state of the outbox and of the pass satisfies the       *)
(* inductive invariant.                                                    *)
THEOREM StatusInvariant == StatusSpec => []StatusInv
  BY StatusAssumption, StatusStarts, StatusKeepsInv, PTL DEF StatusSpec

(* For every set of requests, limit of a pass and number of lost answers:  *)
(* push_status_events sends the events of a request in their order and     *)
(* without a gap, and collect_status_events records nothing after a        *)
(* terminal status and no status twice in a row.                           *)
THEOREM StatusIsSafe == StatusSpec => []StatusSafe
  <1>1. StatusInv => StatusSafe
    <2> SUFFICES ASSUME StatusInv PROVE StatusSafe
      OBVIOUS
    <2>1. StatusTypeOK
      BY Zenon DEF StatusInv, StatusTypes, OutboxOf, StatusTypeOK
    <2>2. ReportedInOrder
      BY Zenon DEF StatusInv, OutboxOf, ReportedInOrder
    <2> QED  BY <2>1, <2>2, Zenon DEF StatusInv, StatusSafe
  <1> QED  BY <1>1, StatusInvariant, PTL

=============================================================================
