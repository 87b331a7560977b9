------------------------- MODULE GateDispatchProofs -------------------------
(***************************************************************************)
(* What the mailbox of approvals guarantees for every set of actions and   *)
(* tasks and every breaker threshold: proofs about ApprovalGate.tla.  Then *)
(* where a turn can be and what it holds while an action is dispatched,    *)
(* the type invariant of ActionDispatch.tla: what the operations it is     *)
(* built from (a call of the adapter, an intent, a move of a turn) do to   *)
(* it, that every step keeps it, and that what a step does to the          *)
(* approvals is a move of ApprovalGate.tla.                                *)
(***************************************************************************)
EXTENDS ActionDispatch, SequenceTheorems, TLAPS

-----------------------------------------------------------------------------
(* The mailbox of approvals.                                               *)

(* A row past the breaker is rejected: this is what makes the breaker      *)
(* final, since only pending rows are approved or expired.                 *)
BreakerRejects == \A p \in Actions : tries[p] > MaxTries => status[p] = "rejected"

GateInv == GateTypeOK /\ BreakerRejects

(* What the daemon can do to the mailbox in one step, by a call of its own *)
(* or inside the dispatch of an action: the arguments below use no more    *)
(* than this of the gate's surroundings.                                   *)
GateMove ==
    \/ \E p \in Actions, t \in Tasks \cup {NoTask} :
          /\ PutRow(p, t)
          /\ nonces' \in SUBSET Tokens
          /\ UNCHANGED <<minted, lapsed, held, accepted, denying, restarts>>
    \/ \E p \in Actions :
          \/ Mint(p) \/ RejectReads(p) \/ RejectWrites(p)
          \/ Expire(p) \/ Fetch(p) \/ Age(p)
    \/ \E p \in Actions, k \in Tokens : AcceptToken(p, k) \/ RefuseToken(p, k)
    \/ \E k \in Tokens : Lapse(k)
    \/ Restart
    \/ UNCHANGED gateVars

(* The gate's own operations are such moves.                               *)
LEMMA GateNextMoves == GateInv /\ [GateNext]_gateVars => GateMove
<1> SUFFICES ASSUME GateInv, [GateNext]_gateVars PROVE GateMove
  OBVIOUS
<1>1. held \subseteq Tokens /\ nonces \in SUBSET Tokens
  BY Zenon DEF GateInv, GateTypeOK
<1>2. ASSUME NEW p \in Actions, NEW t \in Tasks \cup {NoTask}, RegisterPending(p, t)
      PROVE  GateMove
  <2>1. /\ PutRow(p, t)
        /\ nonces' = nonces
        /\ UNCHANGED <<minted, lapsed, held, accepted, denying, restarts>>
    BY <1>2, Zenon DEF RegisterPending, tokenVars
  <2> QED BY <1>1, <2>1, Zenon DEF GateMove
<1>3. ASSUME NEW p \in Actions, Approve(p) \/ ApproveEnterprise(p) PROVE GateMove
  BY <1>3, Zenon DEF Approve, ApproveEnterprise, GateMove
<1>4. ASSUME NEW p \in Actions, NEW k \in held, AcceptToken(p, k) \/ RefuseToken(p, k)
      PROVE  GateMove
  BY <1>1, <1>4, Zenon DEF GateMove
<1> QED BY <1>2, <1>3, <1>4, Zenon DEF GateNext, GateMove

(* The columns of pending_approvals have their types.                      *)
RowTypes ==
    /\ status \in [Actions -> RowStates]
    /\ tries \in [Actions -> 0 .. MaxTries + 1]
    /\ workItem \in [Actions -> Tasks \cup {NoTask}]
    /\ consumed \in [Actions -> BOOLEAN]
    /\ hmac \in [Actions -> 0 .. Len(minted)]
    /\ aged \in [Actions -> BOOLEAN]

TokenTypes ==
    /\ minted \in Seq(Actions)
    /\ Len(minted) <= MaxMints
    /\ lapsed \subseteq Tokens
    /\ nonces \subseteq Tokens
    /\ held \subseteq Tokens
    /\ denying \in Actions \cup {NoAction}
    /\ accepted \in Seq([token : Tokens, life : Nat])
    /\ restarts \in 0 .. MaxRestarts

LEMMA GateTypes == GateTypeOK <=> RowTypes /\ TokenTypes
BY Zenon DEF GateTypeOK, RowTypes, TokenTypes

(* register_pending keeps the rows well-formed and the breaker's verdicts. *)
LEMMA PutRowInv ==
  ASSUME GateInv, NEW p \in Actions, NEW t \in Tasks \cup {NoTask},
         PutRow(p, t), UNCHANGED minted
  PROVE  RowTypes' /\ BreakerRejects'
<1> USE GateAssumption
<1>0. RowTypes /\ BreakerRejects /\ minted \in Seq(Actions) /\ Len(minted) \in Nat
  BY GateTypes DEF GateInv, TokenTypes
<1>1. CASE InsertRow(p, t)
  <2>1. hmac' \in [Actions -> 0 .. Len(minted)] /\ 0 \in 0 .. Len(minted)
    BY <1>0, <1>1 DEF InsertRow, RowTypes
  <2>2. status' \in [Actions -> RowStates] /\ tries' \in [Actions -> 0 .. MaxTries + 1]
    BY <1>0, <1>1 DEF InsertRow, RowTypes, RowStates
  <2>3. /\ workItem' \in [Actions -> Tasks \cup {NoTask}]
        /\ consumed' \in [Actions -> BOOLEAN]
        /\ aged' \in [Actions -> BOOLEAN]
    BY <1>0, <1>1, Zenon DEF InsertRow, RowTypes
  <2>4. BreakerRejects'
    BY <1>0, <1>1 DEF InsertRow, RowTypes, BreakerRejects
  <2> QED BY <2>1, <2>2, <2>3, <2>4, Zenon DEF RowTypes
<1>2. CASE status[p] = "pending" /\ CountAttempt(p, t)
  <2>1. UNCHANGED <<consumed, hmac, aged, minted>>
    BY <1>2, Zenon DEF CountAttempt
  <2>2. tries' \in [Actions -> 0 .. MaxTries + 1]
    <3>1. tries[p] + 1 \in 0 .. MaxTries + 1
      <4>1. ~(tries[p] > MaxTries)
        BY <1>0, <1>2, Zenon DEF BreakerRejects
      <4>2. tries[p] \in 0 .. MaxTries + 1 /\ MaxTries \in Nat
        BY <1>0, Zenon DEF RowTypes
      <4> QED BY <4>1, <4>2
    <3>2. tries' = [tries EXCEPT ![p] = tries[p] + 1]
      BY <1>2, Zenon DEF CountAttempt
    <3> QED BY <1>0, <3>1, <3>2, Zenon DEF RowTypes
  <2>3. status' \in [Actions -> RowStates]
    BY <1>0, <1>2, Zenon DEF CountAttempt, RowTypes, RowStates
  <2>4. workItem' \in [Actions -> Tasks \cup {NoTask}]
    BY <1>0, <1>2, Zenon DEF CountAttempt, RowTypes
  <2>5. BreakerRejects'
    BY <1>0, <1>2, Zenon DEF CountAttempt, RowTypes, BreakerRejects
  <2> QED BY <1>0, <2>1, <2>2, <2>3, <2>4, <2>5, Zenon DEF RowTypes
<1>3. CASE UNCHANGED rowVars
  <2>1. UNCHANGED <<status, tries, workItem, consumed, hmac, aged, minted>>
    BY <1>3, Zenon DEF rowVars
  <2> QED BY <1>0, <2>1, Zenon DEF RowTypes, BreakerRejects
<1> QED BY <1>1, <1>2, <1>3, Zenon DEF PutRow

(* An approval extends the list of tokens by one and writes it in the row. *)
LEMMA MintInv ==
  ASSUME GateInv, NEW p \in Actions, Mint(p)
  PROVE  GateInv'
<1>0. RowTypes /\ BreakerRejects /\ TokenTypes /\ Len(minted) \in Nat
  BY GateTypes DEF GateInv, TokenTypes
<1>1. /\ minted' = Append(minted, p)
      /\ Len(minted) < MaxMints
      /\ UNCHANGED <<tries, workItem, consumed, aged, lapsed, nonces, held, denying,
                     accepted, restarts>>
  BY Zenon DEF Mint
<1>2. minted' \in Seq(Actions) /\ Len(minted') = Len(minted) + 1
  BY <1>0, <1>1 DEF TokenTypes
<1>3. Tokens \subseteq Tokens'
  BY <1>0, <1>2 DEF Tokens
<1>4. accepted' \in Seq([token : Tokens', life : Nat])
  <2>1. [token : Tokens, life : Nat] \subseteq [token : Tokens', life : Nat]
    BY <1>3, Zenon
  <2>2. accepted \in Seq([token : Tokens, life : Nat])
    BY <1>0, Zenon DEF TokenTypes
  <2> QED BY <1>1, <2>1, <2>2, SeqMonotonic, Zenon
<1>5. TokenTypes'
  <2>1. Len(minted') <= MaxMints
    BY <1>0, <1>1, <1>2, GateAssumption
  <2>2. lapsed' \subseteq Tokens' /\ nonces' \subseteq Tokens' /\ held' \subseteq Tokens'
    BY <1>0, <1>1, <1>3, Zenon DEF TokenTypes
  <2> QED BY <1>0, <1>1, <1>2, <1>4, <2>1, <2>2, Zenon DEF TokenTypes
<1>6. hmac' \in [Actions -> 0 .. Len(minted')]
  <2>1. hmac \in [Actions -> 0 .. Len(minted)]
    BY <1>0, Zenon DEF RowTypes
  <2>2. hmac' = [hmac EXCEPT ![p] = Len(minted) + 1]
    BY Zenon DEF Mint
  <2> QED BY <1>0, <1>2, <2>1, <2>2
<1>7. status' \in [Actions -> RowStates]
  BY <1>0, Zenon DEF Mint, RowTypes, RowStates
<1>8. BreakerRejects'
  BY <1>0, Zenon DEF Mint, RowTypes, BreakerRejects
<1>9. RowTypes'
  BY <1>0, <1>1, <1>6, <1>7, Zenon DEF RowTypes
<1> QED BY <1>5, <1>8, <1>9, GateTypes, PTL DEF GateInv

(* Every move keeps it.                                                    *)
LEMMA GateMoveInv == GateInv /\ GateMove => GateInv'
<1> SUFFICES ASSUME GateInv, GateMove PROVE GateInv'
  OBVIOUS
<1>0. RowTypes /\ BreakerRejects /\ TokenTypes
  BY GateTypes, Zenon DEF GateInv
<1>t. ASSUME RowTypes', BreakerRejects', TokenTypes' PROVE GateInv'
  BY <1>t, GateTypes, PTL DEF GateInv
<1>r. ASSUME UNCHANGED <<rowVars, minted>> PROVE RowTypes' /\ BreakerRejects'
  BY <1>0, <1>r, Zenon DEF rowVars, RowTypes, BreakerRejects
<1>k. ASSUME UNCHANGED <<tokenVars, denying, restarts>> PROVE TokenTypes'
  BY <1>0, <1>k, Zenon DEF tokenVars, TokenTypes, Tokens
<1>1. ASSUME NEW p \in Actions, NEW t \in Tasks \cup {NoTask}, PutRow(p, t),
             nonces' \in SUBSET Tokens,
             UNCHANGED <<minted, lapsed, held, accepted, denying, restarts>>
      PROVE  GateInv'
  <2>1. TokenTypes'
    BY <1>0, <1>1, Zenon DEF TokenTypes, Tokens
  <2> QED BY <1>1, <1>t, <2>1, PutRowInv, Zenon
<1>2. ASSUME NEW p \in Actions, Mint(p) PROVE GateInv'
  BY <1>2, MintInv, Zenon
<1>3. ASSUME NEW p \in Actions, RejectReads(p) PROVE GateInv'
  <2>1. TokenTypes'
    BY <1>0, <1>3, Zenon DEF RejectReads, tokenVars, TokenTypes, Tokens
  <2> QED BY <1>3, <1>t, <1>r, <2>1, Zenon DEF RejectReads, tokenVars
<1>4. ASSUME NEW p \in Actions, RejectWrites(p) PROVE GateInv'
  <2>1. TokenTypes'
    BY <1>0, <1>4, Zenon DEF RejectWrites, tokenVars, TokenTypes, Tokens
  <2>2. RowTypes' /\ BreakerRejects'
    BY <1>0, <1>4, Zenon DEF RejectWrites, tokenVars, RowTypes, RowStates, BreakerRejects
  <2> QED BY <1>t, <2>1, <2>2, Zenon
<1>5. ASSUME NEW p \in Actions, Expire(p) PROVE GateInv'
  <2>1. RowTypes' /\ BreakerRejects'
    BY <1>0, <1>5, Zenon DEF Expire, tokenVars, RowTypes, RowStates, BreakerRejects
  <2> QED BY <1>t, <1>k, <1>5, <2>1, Zenon DEF Expire
<1>6. ASSUME NEW p \in Actions, Fetch(p) PROVE GateInv'
  <2>1. LiveToken(p) \in Tokens
    BY <1>0, <1>6 DEF Fetch, LiveToken, RowTypes, TokenTypes, Tokens
  <2>2. TokenTypes'
    BY <1>0, <1>6, <2>1, Zenon DEF Fetch, TokenTypes, Tokens
  <2> QED BY <1>t, <1>r, <1>6, <2>2, Zenon DEF Fetch
<1>7. ASSUME NEW p \in Actions, Age(p) PROVE GateInv'
  <2>1. RowTypes' /\ BreakerRejects'
    BY <1>0, <1>7, Zenon DEF Age, tokenVars, RowTypes, BreakerRejects
  <2> QED BY <1>t, <1>k, <1>7, <2>1, Zenon DEF Age
<1>8. ASSUME NEW p \in Actions, NEW k \in Tokens, AcceptToken(p, k) PROVE GateInv'
  <2>1. RowTypes' /\ BreakerRejects'
    BY <1>0, <1>8, Zenon DEF AcceptToken, RowTypes, BreakerRejects
  <2>2. accepted' \in Seq([token : Tokens, life : Nat])
    <3>1. restarts \in Nat /\ accepted \in Seq([token : Tokens, life : Nat])
      BY <1>0, GateAssumption DEF TokenTypes
    <3>2. [token |-> k, life |-> restarts] \in [token : Tokens, life : Nat]
      BY <3>1, Zenon
    <3>3. accepted' = Append(accepted, [token |-> k, life |-> restarts])
      BY <1>8, Zenon DEF AcceptToken
    <3> QED BY <3>1, <3>2, <3>3
  <2>3. nonces' \subseteq Tokens /\ UNCHANGED <<minted, lapsed, held, denying, restarts>>
    BY <1>0, <1>8, Zenon DEF AcceptToken, TokenTypes
  <2>4. Tokens' = Tokens
    BY <2>3, Zenon DEF Tokens
  <2>5. TokenTypes'
    BY <1>0, <2>2, <2>3, <2>4, Zenon DEF TokenTypes
  <2> QED BY <1>t, <2>1, <2>5, Zenon
<1>9. ASSUME NEW p \in Actions, NEW k \in Tokens, RefuseToken(p, k) PROVE GateInv'
  <2>1. TokenTypes'
    BY <1>0, <1>9, Zenon DEF RefuseToken, TokenTypes, Tokens
  <2> QED BY <1>t, <1>r, <1>9, <2>1, Zenon DEF RefuseToken
<1>10. ASSUME NEW k \in Tokens, Lapse(k) PROVE GateInv'
  <2>1. TokenTypes'
    BY <1>0, <1>10, Zenon DEF Lapse, TokenTypes, Tokens
  <2> QED BY <1>t, <1>r, <1>10, <2>1, Zenon DEF Lapse
<1>11. CASE Restart
  <2>1. restarts' \in 0 .. MaxRestarts
    BY <1>0, <1>11, GateAssumption DEF Restart, TokenTypes
  <2>2. TokenTypes'
    BY <1>0, <1>11, <2>1, Zenon DEF Restart, TokenTypes, Tokens
  <2> QED BY <1>t, <1>r, <1>11, <2>2, Zenon DEF Restart
<1>12. CASE UNCHANGED gateVars
  BY <1>t, <1>r, <1>k, <1>12, Zenon DEF gateVars, tokenVars
<1> QED
  BY <1>1, <1>2, <1>3, <1>4, <1>5, <1>6, <1>7, <1>8, <1>9, <1>10, <1>11, <1>12,
     Zenon DEF GateMove

(* The mailbox is empty.                                                   *)
LEMMA GateStarts == GateInit => GateInv
<1> SUFFICES ASSUME GateInit PROVE GateInv
  OBVIOUS
<1>1. RowTypes /\ BreakerRejects
  BY GateAssumption DEF GateInit, RowTypes, BreakerRejects, RowStates
<1>2. TokenTypes
  BY GateAssumption DEF GateInit, TokenTypes
<1> QED BY <1>1, <1>2, GateTypes, Zenon DEF GateInv

(* In every reachable state the rows have their types and a row whose      *)
(* attempts exceed _MAX_DURABLE_PENDING_ATTEMPTS is rejected.              *)
THEOREM GateInvariant == GateSpec => []GateInv
BY GateStarts, GateNextMoves, GateMoveInv, PTL DEF GateSpec

(* A row past the breaker keeps its status and its count.                  *)
Closed ==
    \A p \in Actions :
       tries[p] > MaxTries => status'[p] = status[p] /\ tries'[p] = tries[p]

(* Only a pending row is approved, expired or counted, and the DELETE of   *)
(* register_pending spares what the breaker closed.                        *)
LEMMA MoveKeepsClosed == GateInv /\ GateMove => Closed
<1> SUFFICES ASSUME GateInv, GateMove PROVE Closed
  OBVIOUS
<1>0. RowTypes /\ BreakerRejects
  BY GateTypes, Zenon DEF GateInv
<1> USE GateAssumption, <1>0 DEF RowTypes, RowStates, BreakerRejects, Closed
<1>1. ASSUME NEW p \in Actions, NEW t, PutRow(p, t) PROVE Closed
  <2>1. CASE InsertRow(p, t) /\ (status[p] = "none" \/ Rearmed(p))
    BY <2>1 DEF InsertRow, Rearmed
  <2>2. CASE CountAttempt(p, t) /\ status[p] = "pending"
    BY <2>2, Zenon DEF CountAttempt
  <2>3. CASE UNCHANGED rowVars
    BY <2>3, Zenon DEF rowVars
  <2> QED BY <1>1, <2>1, <2>2, <2>3, Zenon DEF PutRow
<1>2. ASSUME NEW p \in Actions, Mint(p) PROVE Closed
  BY <1>2, Zenon DEF Mint
<1>3. ASSUME NEW p \in Actions, RejectWrites(p) PROVE Closed
  BY <1>3, Zenon DEF RejectWrites
<1>4. ASSUME NEW p \in Actions, Expire(p) PROVE Closed
  BY <1>4, Zenon DEF Expire
<1>5. ASSUME UNCHANGED <<status, tries>> PROVE Closed
  BY <1>5, Zenon
<1>6. ASSUME NEW p \in Actions, RejectReads(p) \/ Fetch(p) \/ Age(p) PROVE Closed
  BY <1>5, <1>6, Zenon DEF RejectReads, Fetch, Age, rowVars
<1>7. ASSUME NEW p \in Actions, NEW k \in Tokens, AcceptToken(p, k) \/ RefuseToken(p, k)
      PROVE  Closed
  BY <1>5, <1>7, Zenon DEF AcceptToken, RefuseToken, rowVars
<1>8. ASSUME NEW k \in Tokens, Lapse(k) PROVE Closed
  BY <1>5, <1>8, Zenon DEF Lapse, rowVars
<1>9. CASE Restart \/ UNCHANGED gateVars
  BY <1>5, <1>9, Zenon DEF Restart, gateVars, rowVars
<1> HIDE DEF Closed
<1> QED BY <1>1, <1>2, <1>3, <1>4, <1>6, <1>7, <1>8, <1>9, Zenon DEF GateMove

(* A row the breaker closed stays closed for this action, whatever is      *)
(* registered, decided or restarted afterwards.                            *)
THEOREM BreakerStays == GateSpec => BreakerIsFinal
<1>1. GateInv /\ [GateNext]_gateVars => [Closed]_gateVars
  BY GateNextMoves, MoveKeepsClosed, Zenon
<1> QED BY <1>1, GateInvariant, PTL DEF GateSpec, BreakerIsFinal, Closed

(* A row with an approval nobody has used keeps it, unless a reject that   *)
(* had read it before is about to write.                                   *)
Stands ==
    \A p \in Actions :
       status[p] = "approved" /\ ~consumed[p] /\ denying # p
       => status'[p] = "approved" /\ hmac'[p] = hmac[p]

(* Every UPDATE but the one of reject asks for another status, and the     *)
(* DELETE of register_pending spares unused approvals.                     *)
LEMMA MoveKeepsApprovals == GateInv /\ GateMove => Stands
<1> SUFFICES ASSUME GateInv, GateMove PROVE Stands
  OBVIOUS
<1>0. status \in [Actions -> RowStates] /\ hmac \in [Actions -> 0 .. Len(minted)]
  BY Zenon DEF GateInv, GateTypeOK
<1>1. ASSUME NEW p \in Actions, NEW t, PutRow(p, t) PROVE Stands
  <2>1. CASE InsertRow(p, t) /\ (status[p] = "none" \/ Rearmed(p))
    <3>1. status[p] = "none" \/ ~(status[p] = "approved" /\ ~consumed[p])
      BY <2>1, Zenon DEF Rearmed
    <3>2. \A q \in Actions : q # p => status'[q] = status[q] /\ hmac'[q] = hmac[q]
      BY <1>0, <2>1, Zenon DEF InsertRow
    <3>3. ~(status[p] = "approved" /\ ~consumed[p])
      BY <3>1, Zenon
    <3> QED BY <3>2, <3>3, Zenon DEF Stands
  <2>2. CASE CountAttempt(p, t) /\ status[p] = "pending"
    BY <1>0, <2>2, Zenon DEF CountAttempt, Stands
  <2>3. CASE UNCHANGED rowVars
    BY <2>3, Zenon DEF rowVars, Stands
  <2> QED BY <1>1, <2>1, <2>2, <2>3, Zenon DEF PutRow
<1>2. ASSUME NEW p \in Actions, Mint(p) PROVE Stands
  BY <1>0, <1>2, Zenon DEF Mint, Stands
<1>3. ASSUME NEW p \in Actions, RejectWrites(p) PROVE Stands
  BY <1>0, <1>3, Zenon DEF RejectWrites, Stands
<1>4. ASSUME NEW p \in Actions, Expire(p) PROVE Stands
  BY <1>0, <1>4, Zenon DEF Expire, Stands
<1>5. ASSUME UNCHANGED <<status, hmac>> PROVE Stands
  BY <1>5, Zenon DEF Stands
<1>6. ASSUME NEW p \in Actions, RejectReads(p) \/ Fetch(p) \/ Age(p) PROVE Stands
  BY <1>5, <1>6, Zenon DEF RejectReads, Fetch, Age, rowVars
<1>7. ASSUME NEW p \in Actions, NEW k \in Tokens, AcceptToken(p, k) \/ RefuseToken(p, k)
      PROVE  Stands
  BY <1>5, <1>7, Zenon DEF AcceptToken, RefuseToken, rowVars
<1>8. ASSUME NEW k \in Tokens, Lapse(k) PROVE Stands
  BY <1>5, <1>8, Zenon DEF Lapse, rowVars
<1>9. CASE Restart \/ UNCHANGED gateVars
  BY <1>5, <1>9, Zenon DEF Restart, gateVars, rowVars
<1> QED BY <1>1, <1>2, <1>3, <1>4, <1>6, <1>7, <1>8, <1>9, Zenon DEF GateMove

(* An approval nobody has used is not undone by proposing the action       *)
(* again, by a timeout, by the age of the row or by a restart: only by a   *)
(* reject that had read the row before.                                    *)
THEOREM ApprovalStands == GateSpec => LiveApprovalStands
<1>1. GateInv /\ [GateNext]_gateVars => [Stands]_gateVars
  BY GateNextMoves, MoveKeepsApprovals, Zenon
<1> QED BY <1>1, GateInvariant, PTL DEF GateSpec, LiveApprovalStands, Stands

(* What the history of accepted tokens has to do with the nonces: those    *)
(* accepted by the running process are in its set, and no entry is of a    *)
(* later process.  Single use is not inductive without it.                 *)
Receipt == [token : Nat, life : Nat]

Ledger ==
    /\ restarts \in Nat
    /\ accepted \in Seq(Receipt)
    /\ \A i \in 1 .. Len(accepted) :
          /\ accepted[i].life <= restarts
          /\ accepted[i].life = restarts => accepted[i].token \in nonces

SingleInv == Ledger /\ SingleUsePerProcess

(* A token that is accepted has a fresh nonce, so no entry of this process *)
(* equals the new one.                                                     *)
LEMMA AcceptIsNew ==
  ASSUME GateInv, SingleInv, NEW p \in Actions, NEW k, AcceptToken(p, k)
  PROVE  SingleInv'
<1> DEFINE new == [token |-> k, life |-> restarts]
           n == Len(accepted)
<1>1. k \in Nat /\ k \notin nonces
  BY DEF AcceptToken, Authentic, Tokens, GateInv, GateTypeOK
<1>2. /\ accepted' = Append(accepted, new)
      /\ nonces' = nonces \cup {k}
      /\ restarts' = restarts
  BY Zenon DEF AcceptToken
<1>3. restarts \in Nat /\ accepted \in Seq(Receipt) /\ n \in Nat
  BY DEF SingleInv, Ledger
<1>4. new \in Receipt /\ new.token = k /\ new.life = restarts
  BY <1>1, <1>3, Zenon DEF Receipt
<1>5. /\ accepted' \in Seq(Receipt)
      /\ Len(accepted') = n + 1
      /\ DOMAIN accepted' = 1 .. n + 1
      /\ DOMAIN accepted = 1 .. n
      /\ \A i \in 1 .. n : accepted'[i] = accepted[i]
      /\ accepted'[n + 1] = new
  BY <1>2, <1>3, <1>4
<1>6. \A i \in 1 .. n :
         /\ accepted[i].life <= restarts
         /\ accepted[i].life = restarts => accepted[i].token \in nonces
  BY Zenon DEF SingleInv, Ledger
<1>7. \A i \in 1 .. n : accepted[i] # new
  BY <1>1, <1>4, <1>6, Zenon
<1> HIDE DEF new, n
<1>8. ASSUME NEW i \in 1 .. n + 1
      PROVE  /\ accepted'[i].life <= restarts'
             /\ accepted'[i].life = restarts' => accepted'[i].token \in nonces'
  <2>1. CASE i = n + 1
    BY <1>2, <1>3, <1>4, <1>5, <2>1
  <2>2. CASE i \in 1 .. n
    BY <1>2, <1>5, <1>6, <2>2, Zenon
  <2> QED BY <1>3, <2>1, <2>2
<1>9. Ledger'
  BY <1>2, <1>3, <1>5, <1>8, Zenon DEF Ledger
<1>10. ASSUME NEW i \in 1 .. n + 1, NEW j \in 1 .. n + 1, accepted'[i] = accepted'[j]
       PROVE  i = j
  <2>1. CASE i = n + 1
    BY <1>3, <1>5, <1>7, <1>10, <2>1
  <2>2. CASE j = n + 1
    BY <1>3, <1>5, <1>7, <1>10, <2>2
  <2>3. CASE i \in 1 .. n /\ j \in 1 .. n
    BY <1>5, <1>10, <2>3, Zenon DEF SingleInv, SingleUsePerProcess
  <2> QED BY <1>3, <2>1, <2>2, <2>3
<1>11. SingleUsePerProcess'
  BY <1>5, <1>10, Zenon DEF SingleUsePerProcess
<1> QED BY <1>9, <1>11, Zenon DEF SingleInv

(* While one daemon lives no token is accepted twice, whatever becomes of  *)
(* the row it was minted for.                                              *)
THEOREM TokensAreSingleUse == GateSpec => []SingleUsePerProcess
<1>1. GateInit => SingleInv
  BY DEF GateInit, SingleInv, Ledger, SingleUsePerProcess
<1>2. GateInv /\ SingleInv /\ [GateNext]_gateVars => SingleInv'
  <2> SUFFICES ASSUME GateInv, SingleInv, [GateNext]_gateVars PROVE SingleInv'
    OBVIOUS
  <2>1. ASSUME UNCHANGED <<accepted, nonces, restarts>> PROVE SingleInv'
    BY <2>1, Zenon DEF SingleInv, Ledger, SingleUsePerProcess
  <2>2. ASSUME NEW p \in Actions, NEW t \in Tasks \cup {NoTask}, RegisterPending(p, t)
        PROVE  SingleInv'
    BY <2>1, <2>2, Zenon DEF RegisterPending, tokenVars
  <2>3. ASSUME NEW p \in Actions,
               \/ Approve(p) \/ ApproveEnterprise(p) \/ RejectReads(p)
               \/ RejectWrites(p) \/ Expire(p) \/ Fetch(p) \/ Age(p)
        PROVE  SingleInv'
    BY <2>1, <2>3, Zenon DEF Approve, ApproveEnterprise, Mint, RejectReads, RejectWrites,
                             Expire, Fetch, Age, tokenVars
  <2>4. ASSUME NEW p \in Actions, NEW k \in held, AcceptToken(p, k) PROVE SingleInv'
    BY <2>4, AcceptIsNew, Zenon
  <2>5. ASSUME NEW p \in Actions, NEW k \in held, RefuseToken(p, k) PROVE SingleInv'
    BY <2>5, Zenon DEF RefuseToken, SingleInv, Ledger, SingleUsePerProcess
  <2>6. ASSUME NEW k \in Tokens, Lapse(k) PROVE SingleInv'
    BY <2>1, <2>6, Zenon DEF Lapse
  <2>7. CASE Restart
    <3>1. UNCHANGED accepted /\ restarts' = restarts + 1 /\ restarts \in Nat
      BY <2>7, Zenon DEF Restart, SingleInv, Ledger
    <3>2. \A i \in 1 .. Len(accepted) : accepted[i] \in Receipt /\ accepted[i].life \in Nat
      <4>1. accepted \in Seq(Receipt)
        BY Zenon DEF SingleInv, Ledger
      <4>2. \A i \in 1 .. Len(accepted) : accepted[i] \in Receipt
        BY <4>1
      <4>3. \A r \in Receipt : r.life \in Nat
        BY Zenon DEF Receipt
      <4> QED BY <4>2, <4>3, Zenon
    <3>3. Ledger'
      BY <3>1, <3>2 DEF SingleInv, Ledger
    <3> QED BY <3>1, <3>3, Zenon DEF SingleInv, SingleUsePerProcess
  <2>8. CASE UNCHANGED gateVars
    BY <2>1, <2>8, Zenon DEF gateVars, tokenVars
  <2> QED BY <2>2, <2>3, <2>4, <2>5, <2>6, <2>7, <2>8, Zenon DEF GateNext
<1>3. SingleInv => SingleUsePerProcess
  BY Zenon DEF SingleInv
<1> QED BY <1>1, <1>2, <1>3, GateInvariant, PTL DEF GateSpec

(* The mailbox is well-formed and no process accepts a token twice.        *)
THEOREM GateIsSafe == GateSpec => []GateSafe
<1>1. GateInv /\ SingleUsePerProcess => GateSafe
  BY Zenon DEF GateInv, GateSafe
<1> QED BY <1>1, GateInvariant, TokensAreSingleUse, PTL

-----------------------------------------------------------------------------
(* The dispatch of an action: types.                                       *)

(* Where a turn has called the adapter and has not returned yet.           *)
Dispatching == {"effect", "applied", "signing ok", "signing failed"}

(* Where a turn knows which action it is about.                            *)
About == Dispatching \cup {"asked", "checking", "waiting", "expiring", "resumed", "armed"}

QueueTypes ==
    /\ state \in [Tasks -> Queue!States]
    /\ starts \in [Tasks -> 0 .. MaxAttempts]
    /\ parkedOn \in [Tasks -> Actions \cup {NoAction}]

TurnTypes ==
    /\ turn \in [Tasks -> Places]
    /\ from \in [Tasks -> {"engine", "resume", "loop"}]
    /\ act \in [Tasks -> Actions \cup {NoAction}]
    /\ pid \in [Tasks -> Actions \cup {NoAction}]
    /\ tok \in [Tasks -> Nat]
    /\ spent \in [Tasks -> Nat]
    /\ todo \in [Tasks -> Seq(Actions)]
    /\ proof \in [Tasks -> BOOLEAN]

SignalTypes ==
    /\ slot \in [Tasks -> SlotValues]
    /\ presignal \in [Actions -> SlotValues]
    /\ deciding \subseteq Actions \X {"approved", "denied"}

LogTypes ==
    /\ outcome \in [Keys -> {"none", "open", "executed", "failed"}]
    /\ effects \in Seq([key : Keys, token : Nat, life : Nat])
    /\ failures \in 0 .. MaxFailures
    /\ turnedAway \subseteq Actions

(* A turn that is about an action has one, a turn inside a dispatch has    *)
(* the id too, and the orchestrator only holds a token for the action the  *)
(* task was parked on.                                                     *)
Placed ==
    \A t \in Tasks :
       /\ turn[t] \in About => act[t] \in Actions
       /\ turn[t] \in Dispatching => pid[t] \in Actions
       /\ Len(todo[t]) <= MaxTodo
       /\ from[t] = "loop" => turn[t] \in Dispatching /\ todo[t] # << >>
       /\ (turn[t] = "loop" \/ from[t] = "loop") /\ tok[t] # 0 => parkedOn[t] \in Actions

(* Tokens in hand and tokens in the ledger are tokens that were minted.    *)
Minted ==
    /\ \A t \in Tasks : tok[t] <= Len(minted) /\ spent[t] <= Len(minted)
    /\ \A i \in DOMAIN effects : effects[i].token <= Len(minted) /\ effects[i].life <= restarts

TypesInv ==
    /\ GateInv
    /\ QueueTypes
    /\ TurnTypes
    /\ SignalTypes
    /\ LogTypes
    /\ Placed
    /\ Minted

(* What the proofs keep taking out of the type invariant.                  *)
LEMMA TypesFacts ==
  ASSUME TypesInv
  PROVE  /\ GateInv /\ QueueTypes /\ TurnTypes /\ SignalTypes /\ LogTypes /\ Placed /\ Minted
         /\ minted \in Seq(Actions) /\ Len(minted) \in Nat
         /\ restarts \in Nat /\ restarts <= restarts
         /\ \A t \in Tasks : /\ tok[t] \in Nat /\ tok[t] <= Len(minted)
                              /\ spent[t] \in Nat /\ spent[t] <= Len(minted)
         /\ \A i \in DOMAIN effects : effects[i].token <= Len(minted) /\ effects[i].life <= restarts
<1>1. GateInv /\ QueueTypes /\ TurnTypes /\ SignalTypes /\ LogTypes /\ Placed /\ Minted
  BY Zenon DEF TypesInv
<1>2. minted \in Seq(Actions) /\ restarts \in 0 .. MaxRestarts
  BY <1>1, Zenon DEF GateInv, GateTypeOK
<1>3. Len(minted) \in Nat
  BY <1>2
<1>4. restarts \in Nat /\ restarts <= restarts
  BY <1>2, GateAssumption
<1>5. tok \in [Tasks -> Nat] /\ spent \in [Tasks -> Nat]
  BY <1>1, Zenon DEF TurnTypes
<1> QED BY <1>1, <1>2, <1>3, <1>4, <1>5, Zenon DEF Minted

(* The ledger grows by one entry at its end; a counter below its bound may *)
(* take one more.                                                          *)
LEMMA OneMore ==
  /\ \A n \in Nat : \A i \in 1 .. n + 1 : i = n + 1 \/ i \in 1 .. n
  /\ \A n \in 0 .. MaxFailures : n < MaxFailures => n + 1 \in 0 .. MaxFailures
  BY DispatchAssumption

(* The parts of the type invariant are the type invariant.                 *)
LEMMA TypesAreTypes == TypesInv => DispatchTypeOK
<1> SUFFICES ASSUME TypesInv PROVE DispatchTypeOK
  OBVIOUS
<1> USE DEF TypesInv
<1>1. minted \in Seq(Actions) /\ Len(minted) \in Nat /\ restarts \in Nat
  BY GateAssumption DEF GateInv, GateTypeOK
<1>2. tok \in [Tasks -> 0 .. Len(minted)] /\ spent \in [Tasks -> 0 .. Len(minted)]
  BY <1>1 DEF TurnTypes, Minted
<1>3. effects \in Seq([key : Keys, token : 0 .. Len(minted), life : 0 .. restarts])
  <2> DEFINE R == [key : Keys, token : 0 .. Len(minted), life : 0 .. restarts]
             n == Len(effects)
  <2>1. effects \in Seq([key : Keys, token : Nat, life : Nat])
    BY Zenon DEF LogTypes
  <2>2. n \in Nat /\ effects \in [1 .. n -> [key : Keys, token : Nat, life : Nat]]
        /\ DOMAIN effects = 1 .. n
    BY <2>1, LenProperties, Zenon
  <2>3. ASSUME NEW i \in 1 .. n PROVE effects[i] \in R
    <3>1. effects[i] \in [key : Keys, token : Nat, life : Nat]
      BY <2>2, Zenon
    <3>2. effects[i].token <= Len(minted) /\ effects[i].life <= restarts
      BY <2>2, Zenon DEF Minted
    <3> QED BY <1>1, <3>1, <3>2
  <2> HIDE DEF R, n
  <2>4. effects \in [1 .. n -> R]
    BY <2>2, <2>3, Zenon
  <2>5. effects \in Seq(R)
    BY <2>2, <2>4
  <2> QED BY <2>5, Zenon DEF R
<1>4. \A t \in Tasks : Len(todo[t]) <= MaxTodo
  BY Zenon DEF Placed
<1> QED
  BY <1>2, <1>3, <1>4, Zenon
     DEF DispatchTypeOK, GateInv, QueueTypes, TurnTypes, SignalTypes, LogTypes

(* The entries of the ledger, one by one.                                  *)
LEMMA LedgerTypes ==
  ASSUME LogTypes
  PROVE  /\ DOMAIN effects = 1 .. Len(effects) /\ Len(effects) \in Nat
         /\ \A i \in DOMAIN effects :
               effects[i].key \in Keys /\ effects[i].token \in Nat /\ effects[i].life \in Nat
<1> DEFINE R == [key : Keys, token : Nat, life : Nat]
<1>1. effects \in Seq(R)
  BY Zenon DEF LogTypes
<1>2. \A e \in R : e.key \in Keys /\ e.token \in Nat /\ e.life \in Nat
  OBVIOUS
<1> HIDE DEF R
<1>3. /\ DOMAIN effects = 1 .. Len(effects) /\ Len(effects) \in Nat
      /\ \A i \in DOMAIN effects : effects[i] \in R
  BY <1>1
<1> QED BY <1>2, <1>3, Zenon

(* The states of the life cycle, spelled out.                              *)
LEMMA QueueStates ==
  /\ {"absent", "pending", "in_progress", "pending_approval"} \subseteq Queue!States
  /\ {"completed", "failed", "rejected", "cancelled"} \subseteq Queue!States
BY Zenon DEF Queue!States, Queue!Live, Queue!Terminal

(* Every transition of the queue keeps its types.                          *)
LEMMA QueueKeepsTypes ==
  ASSUME QueueTypes, NEW t \in Tasks, NEW S \in SUBSET Tasks,
         \/ Queue!Start(t) \/ Queue!Park(t) \/ Queue!Unpark(t) \/ Queue!Requeue(S)
         \/ \E end \in {"completed", "failed", "rejected", "cancelled"} : Queue!Finish(t, end)
         \/ UNCHANGED <<state, starts>>
  PROVE  state' \in [Tasks -> Queue!States] /\ starts' \in [Tasks -> 0 .. MaxAttempts]
<1> USE QueueStates DEF QueueTypes
<1>1. CASE Queue!Start(t)
  BY <1>1, DispatchAssumption DEF Queue!Start
<1>2. CASE Queue!Park(t) \/ Queue!Unpark(t)
  BY <1>2, Zenon DEF Queue!Park, Queue!Unpark
<1>3. CASE Queue!Requeue(S)
  BY <1>3, Zenon DEF Queue!Requeue
<1>4. ASSUME NEW end \in {"completed", "failed", "rejected", "cancelled"}, Queue!Finish(t, end)
      PROVE  state' \in [Tasks -> Queue!States] /\ starts' \in [Tasks -> 0 .. MaxAttempts]
  BY <1>4, Zenon DEF Queue!Finish
<1>5. CASE UNCHANGED <<state, starts>>
  BY <1>5, Zenon
<1> QED BY <1>1, <1>2, <1>3, <1>4, <1>5, Zenon

(* A failed attempt goes back to the queue or ends there.                  *)
LEMMA FailKeepsTypes ==
  ASSUME QueueTypes, NEW t \in Tasks, Fail(t)
  PROVE  state' \in [Tasks -> Queue!States] /\ starts' \in [Tasks -> 0 .. MaxAttempts]
<1>1. {t} \in SUBSET Tasks
  OBVIOUS
<1> QED BY <1>1, QueueKeepsTypes, Zenon DEF Fail

(* The other turns are not touched by a step of t.                         *)
Others(t) ==
    \A u \in Tasks \ {t} :
       /\ turn'[u] = turn[u] /\ from'[u] = from[u]
       /\ act'[u] = act[u] /\ pid'[u] = pid[u]
       /\ tok'[u] = tok[u] /\ spent'[u] = spent[u]
       /\ todo'[u] = todo[u] /\ parkedOn'[u] = parkedOn[u]

(* A turn leaves the broker: it ends, goes on in the engine or in the      *)
(* orchestrator's loop, or asks the owner.                                 *)
LEMMA TurnLands ==
  ASSUME TurnTypes, Placed, Minted, QueueTypes',
         NEW t \in Tasks,
         NEW pl \in {"off", "engine", "loop", "asked"},
         NEW b \in Actions \cup {NoAction}, NEW m \in Nat, NEW s \in Seq(Actions),
         NEW e \in BOOLEAN,
         turn' = [turn EXCEPT ![t] = pl],
         from' = [from EXCEPT ![t] = "engine"],
         act' = [act EXCEPT ![t] = b],
         pid' = [pid EXCEPT ![t] = NoAction],
         spent' = [spent EXCEPT ![t] = 0],
         tok' = [tok EXCEPT ![t] = m],
         todo' = [todo EXCEPT ![t] = s],
         proof' = [proof EXCEPT ![t] = e],
         pl = "asked" => b \in Actions,
         Len(s) <= MaxTodo,
         m \in {0, tok[t]},
         pl = "loop" /\ m # 0 => parkedOn'[t] \in Actions,
         \A u \in Tasks \ {t} : parkedOn'[u] = parkedOn[u],
         UNCHANGED <<minted, effects, restarts>>
  PROVE  /\ QueueTypes' /\ TurnTypes' /\ Placed' /\ Minted'
         /\ Others(t)
         /\ turn'[t] \in {"off", "engine", "asked", "loop"}
<1>1. TurnTypes'
  BY Zenon DEF TurnTypes, Places
<1>2. Others(t)
  BY Zenon DEF Others, TurnTypes
<1>3. turn'[t] = pl /\ from'[t] = "engine" /\ act'[t] = b /\ tok'[t] = m
      /\ spent'[t] = 0 /\ todo'[t] = s
  BY Zenon DEF TurnTypes
<1>4. Placed'
  <2> SUFFICES ASSUME NEW u \in Tasks
               PROVE  /\ turn'[u] \in About => act'[u] \in Actions
                      /\ turn'[u] \in Dispatching => pid'[u] \in Actions
                      /\ Len(todo'[u]) <= MaxTodo
                      /\ from'[u] = "loop" => turn'[u] \in Dispatching /\ todo'[u] # << >>
                      /\ (turn'[u] = "loop" \/ from'[u] = "loop") /\ tok'[u] # 0
                         => parkedOn'[u] \in Actions
    BY Zenon DEF Placed
  <2>1. CASE u = t
    BY <1>3, <2>1, Zenon DEF About, Dispatching
  <2>2. CASE u # t
    BY <1>2, <2>2, Zenon DEF Others, Placed
  <2> QED BY <2>1, <2>2, Zenon
<1>5. Minted'
  <2>1. ASSUME NEW u \in Tasks PROVE tok'[u] <= Len(minted) /\ spent'[u] <= Len(minted)
    <3>1. tok[u] \in Nat /\ spent[u] \in Nat /\ tok[u] <= Len(minted)
          /\ spent[u] <= Len(minted) /\ 0 <= Len(minted)
      BY DEF TurnTypes, Minted
    <3>2. CASE u = t
      BY <1>3, <3>1, <3>2, Zenon
    <3>3. CASE u # t
      BY <1>2, <3>1, <3>3, Zenon DEF Others
    <3> QED BY <3>2, <3>3, Zenon
  <2> QED BY <2>1, Zenon DEF Minted
<1> QED BY <1>1, <1>2, <1>3, <1>4, <1>5, Zenon

(* The callers of the broker: whatever the outcome, the turn goes on       *)
(* outside a dispatch, or ends.                                            *)
LEMMA CallerKeepsTypes ==
  ASSUME QueueTypes, TurnTypes, Placed, Minted,
         NEW t \in Tasks, NEW a \in Actions,
         NEW c \in {"engine", "resume", "loop"}, NEW r,
         c = "loop" => todo[t] # << >>,
         c = "loop" /\ tok[t] # 0 => parkedOn[t] \in Actions,
         CallerGets(t, c, a, r),
         UNCHANGED <<minted, effects, restarts>>
  PROVE  /\ QueueTypes' /\ TurnTypes' /\ Placed' /\ Minted'
         /\ Others(t)
         /\ turn'[t] \in {"off", "engine", "asked", "loop"}
<1> DEFINE Goal == /\ QueueTypes' /\ TurnTypes' /\ Placed' /\ Minted'
                   /\ Others(t)
                   /\ turn'[t] \in {"off", "engine", "asked", "loop"}
<1>0. minted' = minted /\ effects' = effects /\ restarts' = restarts
  OBVIOUS
<1>g. ASSUME NEW pl \in {"off", "engine", "loop"}, GoTo(t, pl)
      PROVE  /\ turn' = [turn EXCEPT ![t] = pl]
             /\ from' = [from EXCEPT ![t] = "engine"]
             /\ act' = [act EXCEPT ![t] = NoAction]
             /\ pid' = [pid EXCEPT ![t] = NoAction]
             /\ spent' = [spent EXCEPT ![t] = 0]
  BY <1>g, Zenon DEF GoTo
<1> HIDE DEF Goal
<1>1. /\ todo[t] \in Seq(Actions) /\ Len(todo[t]) \in Nat /\ Len(todo[t]) <= MaxTodo
      /\ proof[t] \in BOOLEAN /\ tok[t] \in Nat /\ 0 \in {0, tok[t]}
      /\ MaxTodo \in Nat
      /\ NoAction \in Actions \cup {NoAction} /\ a \in Actions \cup {NoAction}
      /\ << >> \in Seq(Actions) /\ Len(<< >>) = 0 /\ 0 <= MaxTodo
  BY DispatchAssumption DEF TurnTypes, Placed
<1>2. todo = [todo EXCEPT ![t] = todo[t]] /\ proof = [proof EXCEPT ![t] = proof[t]]
      /\ tok = [tok EXCEPT ![t] = tok[t]]
  BY Zenon DEF TurnTypes
<1>3. ASSUME UNCHANGED queueVars
      PROVE  QueueTypes' /\ \A u \in Tasks : parkedOn'[u] = parkedOn[u]
  BY <1>3, Zenon DEF queueVars, QueueTypes
<1>4. ASSUME EngineGets(t, c, a, r) PROVE Goal
  <2>0. /\ tok' = [tok EXCEPT ![t] = 0]
        /\ proof' = [proof EXCEPT ![t] = proof[t]]
        /\ QueueTypes' /\ \A u \in Tasks \ {t} : parkedOn'[u] = parkedOn[u]
    BY <1>2, <1>3, <1>4, Zenon DEF EngineGets
  <2>g. ASSUME NEW s \in Seq(Actions), Len(s) <= MaxTodo, GoTo(t, "engine"),
               todo' = [todo EXCEPT ![t] = s]
        PROVE  Goal
    BY <1>1, TurnLands, <1>g, <2>0, <2>g, ZenonT(60) DEF Goal
  <2>1. CASE /\ turn' = [turn EXCEPT ![t] = "asked"]
             /\ act' = [act EXCEPT ![t] = a]
             /\ from' = [from EXCEPT ![t] = "engine"]
             /\ pid' = [pid EXCEPT ![t] = NoAction]
             /\ spent' = [spent EXCEPT ![t] = 0]
             /\ UNCHANGED todo
    <3>1. todo' = [todo EXCEPT ![t] = todo[t]]
      BY <1>2, <2>1, Zenon
    <3> QED BY <1>1, TurnLands, <2>0, <2>1, <3>1, Zenon DEF Goal
  <2>2. CASE /\ Len(todo[t]) < MaxTodo
             /\ GoTo(t, "engine")
             /\ todo' = [todo EXCEPT ![t] = Append(@, a)]
    <3>1. todo' = [todo EXCEPT ![t] = Append(todo[t], a)]
      BY <2>2, Zenon
    <3>2. Append(todo[t], a) \in Seq(Actions) /\ Len(Append(todo[t], a)) <= MaxTodo
      BY <1>1, <2>2
    <3>3. GoTo(t, "engine")
      BY <2>2, Zenon
    <3> QED BY <2>g, <3>1, <3>2, <3>3, Zenon
  <2>3. CASE GoTo(t, "engine") /\ UNCHANGED todo
    <3>1. todo' = [todo EXCEPT ![t] = todo[t]]
      BY <1>2, <2>3, Zenon
    <3> QED BY <1>1, <2>g, <2>3, <3>1, Zenon
  <2> QED BY <1>4, <2>1, <2>2, <2>3, Zenon DEF EngineGets
<1>5. ASSUME EndTurn(t), QueueTypes', \A u \in Tasks \ {t} : parkedOn'[u] = parkedOn[u]
      PROVE  Goal
  <2>1. /\ GoTo(t, "off")
        /\ tok' = [tok EXCEPT ![t] = 0]
        /\ todo' = [todo EXCEPT ![t] = << >>]
        /\ proof' = [proof EXCEPT ![t] = FALSE]
    BY <1>5, Zenon DEF EndTurn
  <2> QED BY <1>1, TurnLands, <1>g, <1>5, <2>1, Zenon DEF Goal
<1>6. ASSUME c = "loop", LoopGets(t, a, r) PROVE Goal
  <2>1. CASE /\ Queue!Park(t)
             /\ parkedOn' = [parkedOn EXCEPT ![t] = a]
             /\ EndTurn(t)
    <3>1. QueueTypes'
      <4>1. {} \in SUBSET Tasks /\ Queue!Park(t)
        BY <2>1, Zenon
      <4>2. parkedOn' \in [Tasks -> Actions \cup {NoAction}]
        BY <2>1, Zenon DEF QueueTypes
      <4> QED BY <4>1, <4>2, QueueKeepsTypes, Zenon DEF QueueTypes
    <3>2. \A u \in Tasks \ {t} : parkedOn'[u] = parkedOn[u]
      BY <2>1, Zenon DEF QueueTypes
    <3> QED BY <1>5, <2>1, <3>1, <3>2, Zenon
  <2>2. CASE Queue!Finish(t, "rejected") /\ EndTurn(t) /\ UNCHANGED parkedOn
    <3>1. {} \in SUBSET Tasks /\ "rejected" \in {"completed", "failed", "rejected", "cancelled"}
      OBVIOUS
    <3>2. QueueTypes'
      BY <2>2, <3>1, QueueKeepsTypes, Zenon DEF QueueTypes
    <3> QED BY <1>5, <2>2, <3>2, Zenon
  <2>3. CASE Fail(t) /\ EndTurn(t) /\ UNCHANGED parkedOn
    <3>1. QueueTypes'
      BY <2>3, FailKeepsTypes, Zenon DEF QueueTypes
    <3> QED BY <1>5, <2>3, <3>1, Zenon
  <2>4. CASE /\ GoTo(t, "loop")
             /\ todo' = [todo EXCEPT ![t] = Tail(@)]
             /\ proof' = [proof EXCEPT ![t] = @ \/ r = "done"]
             /\ UNCHANGED <<queueVars, tok>>
    <3>1. /\ todo' = [todo EXCEPT ![t] = Tail(todo[t])]
          /\ proof' = [proof EXCEPT ![t] = proof[t] \/ r = "done"]
      BY <2>4, Zenon
    <3>2. Tail(todo[t]) \in Seq(Actions) /\ Len(Tail(todo[t])) <= MaxTodo
      BY <1>1, <1>6
    <3>3. PICK e \in BOOLEAN : proof' = [proof EXCEPT ![t] = e]
      <4>1. (proof[t] \/ r = "done") \in BOOLEAN
        OBVIOUS
      <4> QED BY <3>1, <4>1, Zenon
    <3>4. tok' = [tok EXCEPT ![t] = tok[t]] /\ UNCHANGED queueVars
      BY <1>2, <2>4, Zenon
    <3>5. QueueTypes' /\ \A u \in Tasks : parkedOn'[u] = parkedOn[u]
      BY <1>3, <3>4, Zenon
    <3>6. GoTo(t, "loop")
      BY <2>4, Zenon
    <3>7. /\ tok[t] # 0 => parkedOn'[t] \in Actions
          /\ tok[t] \in {0, tok[t]}
      BY <1>6, <3>5, Zenon
    <3>8. todo' = [todo EXCEPT ![t] = Tail(todo[t])]
      BY <3>1, Zenon
    <3>9. /\ turn' = [turn EXCEPT ![t] = "loop"]
          /\ from' = [from EXCEPT ![t] = "engine"]
          /\ act' = [act EXCEPT ![t] = NoAction]
          /\ pid' = [pid EXCEPT ![t] = NoAction]
          /\ spent' = [spent EXCEPT ![t] = 0]
      BY <1>g, <3>6, Zenon
    <3>10. tok[t] \in Nat /\ NoAction \in Actions \cup {NoAction}
      BY <1>1, Zenon
    <3> QED BY <3>2, <3>3, <3>4, <3>5, <3>7, <3>8, <3>9, <3>10, TurnLands, Zenon DEF Goal
  <2> QED BY <1>6, <2>1, <2>2, <2>3, <2>4, Zenon DEF LoopGets
<1> QED BY <1>4, <1>6, Zenon DEF CallerGets, Goal

(* The broker is called for an action the turn has, under an id that is an *)
(* action's, with a token that was minted or with none.                    *)
Call(t, c, a, id, k) ==
    /\ c \in {"engine", "resume", "loop"}
    /\ a \in Actions
    /\ id \in Actions
    /\ k \in 0 .. Len(minted)
    /\ c = "loop" => todo[t] # << >>
    /\ c = "loop" /\ tok[t] # 0 => parkedOn[t] \in Actions

(* approved_token_for answers with a token that was minted, or with none.  *)
LEMMA LiveTokenType ==
  ASSUME GateInv, NEW p \in Actions
  PROVE  LiveToken(p) \in 0 .. Len(minted)
<1>1. hmac \in [Actions -> 0 .. Len(minted)] /\ Len(minted) \in Nat
  BY DEF GateInv, GateTypeOK
<1> QED BY <1>1 DEF LiveToken

(* The three places that call dispatch do so.                              *)
LEMMA CallsAreCalls ==
  ASSUME TypesInv, NEW t \in Tasks,
         (\E a \in Actions : EngineCalls(t, a)) \/ LoopCalls(t) \/ ResumeCalls(t)
  PROVE  \E c, a, id, k : Call(t, c, a, id, k) /\ Dispatch(t, c, a, id, k)
<1>0. GateInv /\ TurnTypes /\ Placed /\ Minted /\ Len(minted) \in Nat
  BY TypesFacts, Zenon
<1>1. ASSUME NEW a \in Actions, EngineCalls(t, a)
      PROVE  Call(t, "engine", a, a, 0) /\ Dispatch(t, "engine", a, a, 0)
  BY <1>0, <1>1 DEF EngineCalls, Call
<1>2. ASSUME LoopCalls(t)
      PROVE  \E a, id, k : Call(t, "loop", a, id, k) /\ Dispatch(t, "loop", a, id, k)
  <2> DEFINE a == Head(todo[t])
  <2>1. turn[t] = "loop" /\ todo[t] # << >> /\ todo[t] \in Seq(Actions)
    BY <1>0, <1>2, Zenon DEF LoopCalls, TurnTypes
  <2>2. a \in Actions
    BY <2>1
  <2>3. LiveToken(a) \in 0 .. Len(minted)
    BY <1>0, <2>2, LiveTokenType, Zenon
  <2>4. tok[t] \in 0 .. Len(minted) /\ (tok[t] # 0 => parkedOn[t] \in Actions)
    BY <1>0, <2>1 DEF TurnTypes, Placed, Minted
  <2>5. CASE Dispatch(t, "loop", a, a, LiveToken(a))
    BY <2>1, <2>2, <2>3, <2>4, <2>5, Zenon DEF Call
  <2>6. CASE tok[t] # 0 /\ Dispatch(t, "loop", a, parkedOn[t], tok[t])
    BY <2>1, <2>2, <2>4, <2>6, Zenon DEF Call
  <2> QED BY <1>2, <2>5, <2>6, Zenon DEF LoopCalls
<1>3. ASSUME ResumeCalls(t)
      PROVE  /\ Call(t, "resume", act[t], act[t], tok[t])
             /\ Dispatch(t, "resume", act[t], act[t], tok[t])
  <2>1. act[t] \in Actions
    BY <1>0, <1>3, Zenon DEF ResumeCalls, Placed, About
  <2>2. tok[t] \in 0 .. Len(minted)
    BY <1>0 DEF TurnTypes, Minted
  <2> QED BY <1>3, <2>1, <2>2, Zenon DEF ResumeCalls, Call
<1> QED BY <1>1, <1>2, <1>3, Zenon

(* What a dispatch does to the mailbox.                                    *)
LEMMA DispatchMoves ==
  ASSUME TypesInv, NEW t \in Tasks, NEW c, NEW a, NEW id, NEW k,
         Call(t, c, a, id, k), Dispatch(t, c, a, id, k)
  PROVE  GateMove
<1>0. id \in Actions /\ nonces \subseteq Tokens
  BY Zenon DEF Call, TypesInv, GateInv, GateTypeOK
<1>1. CASE Refused(t, c, a)
  BY <1>1, Zenon DEF Refused, GateMove
<1>2. CASE Gated(t, c, a, id, k)
  <2>1. /\ PutRow(id, t)
        /\ nonces' = IF Authentic(id, k) THEN nonces \cup {k} ELSE nonces
        /\ UNCHANGED <<minted, lapsed, held, accepted, denying, restarts>>
    BY <1>2, Zenon DEF Gated
  <2>2. Authentic(id, k) => k \in Tokens
    BY Zenon DEF Authentic
  <2>3. nonces' \in SUBSET Tokens
    BY <1>0, <2>1, <2>2, Zenon
  <2>4. t \in Tasks \cup {NoTask}
    OBVIOUS
  <2> QED BY <1>0, <2>1, <2>3, <2>4, Zenon DEF GateMove
<1>3. ASSUME Cleared(a, id, k) PROVE GateMove
  <2>1. CASE a \in Risky
    <3>1. AcceptToken(id, k)
      BY <1>3, <2>1, Zenon DEF Cleared
    <3>2. k \in Tokens
      BY <3>1, Zenon DEF AcceptToken, Authentic
    <3> QED BY <1>0, <3>1, <3>2, Zenon DEF GateMove
  <2>2. CASE a \notin Risky
    BY <1>3, <2>2, Zenon DEF Cleared, GateMove
  <2> QED BY <2>1, <2>2, Zenon
<1>4. CASE Known(t, c, a, id, k) \/ Intend(t, c, a, id, k)
  BY <1>3, <1>4, Zenon DEF Known, Intend
<1> QED BY <1>1, <1>2, <1>4, Zenon DEF Dispatch

(* Passing the gate mints nothing and restarts nothing.                    *)
LEMMA ClearedFrame ==
  ASSUME NEW a, NEW id, NEW k, Cleared(a, id, k)
  PROVE  UNCHANGED <<minted, restarts>> /\ nonces \subseteq nonces'
<1>1. CASE a \in Risky
  <2>1. AcceptToken(id, k)
    BY <1>1, Zenon DEF Cleared
  <2> QED BY <2>1, Zenon DEF AcceptToken
<1>2. CASE a \notin Risky
  <2>1. UNCHANGED gateVars
    BY <1>2, Zenon DEF Cleared
  <2> QED BY <2>1, Zenon DEF gateVars, tokenVars
<1> QED BY <1>1, <1>2, Zenon

(* A turn that has passed the gate is inside a dispatch.                   *)
LEMMA IntendKeepsTypes ==
  ASSUME TypesInv, NEW t \in Tasks, NEW c, NEW a, NEW id, NEW k,
         Call(t, c, a, id, k), Intend(t, c, a, id, k)
  PROVE  QueueTypes' /\ TurnTypes' /\ SignalTypes' /\ LogTypes' /\ Placed' /\ Minted'
<1>0. QueueTypes /\ TurnTypes /\ SignalTypes /\ LogTypes /\ Placed /\ Minted
  BY Zenon DEF TypesInv
<1>1. /\ outcome' = [outcome EXCEPT ![<<id, a>>] = IF @ = "none" THEN "open" ELSE @]
      /\ turn' = [turn EXCEPT ![t] = "effect"]
      /\ from' = [from EXCEPT ![t] = c]
      /\ act' = [act EXCEPT ![t] = a]
      /\ pid' = [pid EXCEPT ![t] = id]
      /\ spent' = [spent EXCEPT ![t] = k]
      /\ UNCHANGED <<tok, todo, proof, queueVars, signalVars, effects, failures, turnedAway>>
  BY Zenon DEF Intend
<1>2. UNCHANGED <<minted, restarts>>
  BY ClearedFrame, Zenon DEF Intend
<1>3. /\ c \in {"engine", "resume", "loop"} /\ a \in Actions /\ id \in Actions
      /\ k \in Nat /\ k <= Len(minted)
      /\ c = "loop" => todo[t] # << >>
      /\ c = "loop" /\ tok[t] # 0 => parkedOn[t] \in Actions
  BY DEF Call
<1>4. UNCHANGED <<state, starts, parkedOn, slot, presignal, deciding>>
  BY <1>1, Zenon DEF queueVars, signalVars
<1>5. QueueTypes' /\ SignalTypes'
  BY <1>0, <1>4, Zenon DEF QueueTypes, SignalTypes
<1>6. TurnTypes'
  BY <1>0, <1>1, <1>3, Zenon DEF TurnTypes, Places
<1>7. LogTypes'
  <2>1. outcome' \in [Keys -> {"none", "open", "executed", "failed"}]
    BY <1>0, <1>1, Zenon DEF LogTypes
  <2> QED BY <1>0, <1>1, <2>1, Zenon DEF LogTypes
<1>8. /\ turn'[t] = "effect" /\ from'[t] = c /\ act'[t] = a /\ pid'[t] = id /\ spent'[t] = k
      /\ \A u \in Tasks \ {t} : /\ turn'[u] = turn[u] /\ from'[u] = from[u]
                                /\ act'[u] = act[u] /\ pid'[u] = pid[u] /\ spent'[u] = spent[u]
  BY <1>0, <1>1, Zenon DEF TurnTypes
<1>9. Placed'
  <2> SUFFICES ASSUME NEW u \in Tasks
               PROVE  /\ turn'[u] \in About => act'[u] \in Actions
                      /\ turn'[u] \in Dispatching => pid'[u] \in Actions
                      /\ Len(todo'[u]) <= MaxTodo
                      /\ from'[u] = "loop" => turn'[u] \in Dispatching /\ todo'[u] # << >>
                      /\ (turn'[u] = "loop" \/ from'[u] = "loop") /\ tok'[u] # 0
                         => parkedOn'[u] \in Actions
    BY Zenon DEF Placed
  <2>1. CASE u = t
    BY <1>0, <1>1, <1>3, <1>4, <1>8, <2>1, Zenon DEF Placed, Dispatching
  <2>2. CASE u # t
    BY <1>0, <1>1, <1>4, <1>8, <2>2, Zenon DEF Placed
  <2> QED BY <2>1, <2>2, Zenon
<1>10. Minted'
  <2>1. ASSUME NEW u \in Tasks PROVE tok'[u] <= Len(minted') /\ spent'[u] <= Len(minted')
    BY <1>0, <1>1, <1>2, <1>3, <1>8, Zenon DEF Minted
  <2> QED BY <1>0, <1>1, <1>2, <2>1, Zenon DEF Minted
<1> QED BY <1>5, <1>6, <1>7, <1>9, <1>10, Zenon

(* Every outcome of a dispatch keeps the types.                            *)
LEMMA DispatchKeepsTypes ==
  ASSUME TypesInv, NEW t \in Tasks, NEW c, NEW a, NEW id, NEW k,
         Call(t, c, a, id, k), Dispatch(t, c, a, id, k)
  PROVE  TypesInv'
<1>1. GateInv'
  BY DispatchMoves, GateMoveInv, Zenon DEF TypesInv
<1>2. ASSUME NEW r, CallerGets(t, c, a, r),
             UNCHANGED <<minted, restarts, signalVars, outcome, effects, failures>>,
             turnedAway' \subseteq Actions
      PROVE  TypesInv'
  <2>1. QueueTypes' /\ TurnTypes' /\ Placed' /\ Minted'
    <3>1. QueueTypes /\ TurnTypes /\ Placed /\ Minted
      BY Zenon DEF TypesInv
    <3>2. UNCHANGED <<minted, effects, restarts>>
      BY <1>2, Zenon
    <3>3. /\ c \in {"engine", "resume", "loop"} /\ a \in Actions
          /\ c = "loop" => todo[t] # << >>
          /\ c = "loop" /\ tok[t] # 0 => parkedOn[t] \in Actions
      BY Zenon DEF Call
    <3> QED BY <1>2, <3>1, <3>2, <3>3, CallerKeepsTypes, Zenon
  <2>2. SignalTypes'
    BY <1>2, Zenon DEF TypesInv, SignalTypes, signalVars
  <2>3. LogTypes'
    BY <1>2, Zenon DEF TypesInv, LogTypes
  <2> QED BY <1>1, <2>1, <2>2, <2>3, Zenon DEF TypesInv
<1>3. turnedAway \subseteq Actions
  BY Zenon DEF TypesInv, LogTypes
<1>4. CASE Refused(t, c, a)
  <2>1. /\ CallerGets(t, c, a, "refused")
        /\ UNCHANGED <<gateVars, signalVars, outcome, effects, failures, turnedAway>>
    BY <1>4, Zenon DEF Refused, logVars
  <2>2. UNCHANGED <<minted, restarts>>
    BY <2>1, Zenon DEF gateVars, tokenVars
  <2> QED BY <1>2, <1>3, <2>1, <2>2, Zenon
<1>5. CASE Gated(t, c, a, id, k)
  <2>1. PICK r : CallerGets(t, c, a, r)
    BY <1>5, Zenon DEF Gated
  <2>2. /\ turnedAway' = IF parkedOn[t] = id /\ LiveToken(id) # 0 /\ ~consumed[id]
                            THEN turnedAway \cup {id} ELSE turnedAway
        /\ UNCHANGED <<minted, restarts, signalVars, outcome, effects, failures>>
    BY <1>5, Zenon DEF Gated
  <2>3. turnedAway' \subseteq Actions
    BY <1>3, <2>2, Zenon DEF Call
  <2> QED BY <1>2, <2>1, <2>2, <2>3, Zenon
<1>6. CASE Known(t, c, a, id, k)
  <2>1. PICK r : CallerGets(t, c, a, r)
    BY <1>6, Zenon DEF Known
  <2>2. UNCHANGED <<signalVars, outcome, effects, failures, turnedAway>>
    BY <1>6, Zenon DEF Known, logVars
  <2>3. UNCHANGED <<minted, restarts>>
    BY <1>6, ClearedFrame, Zenon DEF Known
  <2> QED BY <1>2, <1>3, <2>1, <2>2, <2>3, Zenon
<1>7. CASE Intend(t, c, a, id, k)
  BY <1>1, <1>7, IntendKeepsTypes, Zenon DEF TypesInv
<1> QED BY <1>4, <1>5, <1>6, <1>7, Zenon DEF Dispatch

(* A turn goes from one place to another and keeps its action, its id and  *)
(* what it has left to do.                                                 *)
LEMMA TurnMoves ==
  ASSUME TypesInv, GateInv', QueueTypes', SignalTypes', LogTypes',
         NEW t \in Tasks, NEW pl \in Places, NEW m \in 0 .. Len(minted),
         turn' = [turn EXCEPT ![t] = pl],
         tok' = [tok EXCEPT ![t] = m],
         UNCHANGED <<from, act, pid, spent, todo, proof, parkedOn, minted, restarts>>,
         \A i \in DOMAIN effects' :
            effects'[i].token <= Len(minted) /\ effects'[i].life <= restarts,
         pl \in About => act[t] \in Actions,
         pl \in Dispatching => pid[t] \in Actions,
         from[t] = "loop" => pl \in Dispatching,
         (pl = "loop" \/ from[t] = "loop") /\ m # 0 => parkedOn[t] \in Actions
  PROVE  TypesInv'
<1>0. TurnTypes /\ Placed /\ Minted /\ Len(minted) \in Nat
  BY TypesFacts, Zenon
<1>1. TurnTypes'
  BY <1>0 DEF TurnTypes
<1>2. /\ turn'[t] = pl /\ tok'[t] = m
      /\ \A u \in Tasks \ {t} : turn'[u] = turn[u] /\ tok'[u] = tok[u]
  BY <1>0, Zenon DEF TurnTypes
<1>3. Placed'
  <2> SUFFICES ASSUME NEW u \in Tasks
               PROVE  /\ turn'[u] \in About => act'[u] \in Actions
                      /\ turn'[u] \in Dispatching => pid'[u] \in Actions
                      /\ Len(todo'[u]) <= MaxTodo
                      /\ from'[u] = "loop" => turn'[u] \in Dispatching /\ todo'[u] # << >>
                      /\ (turn'[u] = "loop" \/ from'[u] = "loop") /\ tok'[u] # 0
                         => parkedOn'[u] \in Actions
    BY Zenon DEF Placed
  <2>1. CASE u = t
    BY <1>0, <1>2, <2>1, Zenon DEF Placed
  <2>2. CASE u # t
    BY <1>0, <1>2, <2>2, Zenon DEF Placed
  <2> QED BY <2>1, <2>2, Zenon
<1>4. Minted'
  <2>1. ASSUME NEW u \in Tasks PROVE tok'[u] <= Len(minted') /\ spent'[u] <= Len(minted')
    <3>1. CASE u = t
      BY <1>0, <1>2, <3>1 DEF Minted
    <3>2. CASE u # t
      BY <1>0, <1>2, <3>2, Zenon DEF Minted
    <3> QED BY <3>1, <3>2, Zenon
  <2> QED BY <2>1, Zenon DEF Minted
<1> QED BY <1>1, <1>3, <1>4, Zenon DEF TypesInv

(* The facts about one turn the cases below share.                         *)
LEMMA TurnFacts ==
  ASSUME TypesInv, NEW t \in Tasks
  PROVE  /\ tok[t] \in 0 .. Len(minted)
         /\ tok = [tok EXCEPT ![t] = tok[t]]
         /\ todo = [todo EXCEPT ![t] = todo[t]]
         /\ proof = [proof EXCEPT ![t] = proof[t]]
         /\ todo[t] \in Seq(Actions) /\ proof[t] \in BOOLEAN /\ Len(todo[t]) <= MaxTodo
         /\ turn[t] \in About => act[t] \in Actions
         /\ turn[t] \in Dispatching => pid[t] \in Actions /\ act[t] \in Actions
         /\ turn[t] \notin Dispatching => from[t] \in {"engine", "resume"}
         /\ from[t] \in {"engine", "resume", "loop"}
         /\ from[t] = "loop" => todo[t] # << >>
         /\ (turn[t] = "loop" \/ from[t] = "loop") /\ tok[t] # 0 => parkedOn[t] \in Actions
         /\ \A i \in DOMAIN effects :
               effects[i].token <= Len(minted) /\ effects[i].life <= restarts
<1>0. TurnTypes /\ Placed /\ Minted /\ Len(minted) \in Nat
  BY TypesFacts, Zenon
<1>1. /\ tok[t] \in 0 .. Len(minted)
      /\ tok = [tok EXCEPT ![t] = tok[t]]
      /\ todo = [todo EXCEPT ![t] = todo[t]]
      /\ proof = [proof EXCEPT ![t] = proof[t]]
      /\ todo[t] \in Seq(Actions) /\ proof[t] \in BOOLEAN
      /\ from[t] \in {"engine", "resume", "loop"}
  BY <1>0 DEF TurnTypes, Minted
<1>2. /\ turn[t] \in About => act[t] \in Actions
      /\ turn[t] \in Dispatching => pid[t] \in Actions
      /\ Len(todo[t]) <= MaxTodo
      /\ from[t] = "loop" => turn[t] \in Dispatching /\ todo[t] # << >>
      /\ (turn[t] = "loop" \/ from[t] = "loop") /\ tok[t] # 0 => parkedOn[t] \in Actions
  BY <1>0, Zenon DEF Placed
<1>3. turn[t] \in Dispatching => turn[t] \in About
  BY Zenon DEF About
<1>4. \A i \in DOMAIN effects : effects[i].token <= Len(minted) /\ effects[i].life <= restarts
  BY <1>0, Zenon DEF Minted
<1> QED BY <1>1, <1>2, <1>3, <1>4, Zenon

(* The adapter's effect is one more entry of the ledger.                   *)
LEMMA LedgerGrows ==
  ASSUME TypesInv, NEW t \in Tasks, EffectHappens(t)
  PROVE  /\ effects' \in Seq([key : Keys, token : Nat, life : Nat])
         /\ Len(effects) \in Nat /\ DOMAIN effects = 1 .. Len(effects)
         /\ DOMAIN effects' = 1 .. Len(effects) + 1
         /\ \A i \in 1 .. Len(effects) : effects'[i] = effects[i]
         /\ effects'[Len(effects) + 1].key = Key(t)
         /\ effects'[Len(effects) + 1].token = spent[t]
         /\ effects'[Len(effects) + 1].life = restarts
         /\ Key(t) \in Keys
<1> DEFINE R == [key : Keys, token : Nat, life : Nat]
<1>1. turn[t] \in Dispatching /\ effects' = Append(effects, ChangeBy(t))
  BY Zenon DEF EffectHappens, Dispatching
<1>2. pid[t] \in Actions /\ act[t] \in Actions
  BY <1>1, TurnFacts, Zenon
<1>3. spent[t] \in Nat /\ restarts \in Nat
  BY TypesFacts, Zenon
<1>4. /\ ChangeBy(t) \in R /\ Key(t) \in Keys /\ ChangeBy(t).key = Key(t)
      /\ ChangeBy(t).token = spent[t] /\ ChangeBy(t).life = restarts
  BY <1>2, <1>3, Zenon DEF ChangeBy, Key, Keys
<1>5. effects \in Seq(R)
  BY Zenon DEF TypesInv, LogTypes
<1> HIDE DEF R
<1>6. /\ Append(effects, ChangeBy(t)) \in Seq(R)
      /\ DOMAIN Append(effects, ChangeBy(t)) = 1 .. Len(effects) + 1
      /\ Append(effects, ChangeBy(t))[Len(effects) + 1] = ChangeBy(t)
      /\ DOMAIN effects = 1 .. Len(effects) /\ Len(effects) \in Nat
      /\ \A i \in 1 .. Len(effects) : Append(effects, ChangeBy(t))[i] = effects[i]
  BY <1>4, <1>5
<1> QED BY <1>1, <1>4, <1>6 DEF R

(* The steps of a turn that are not a call of the broker keep the types,   *)
(* given that the mailbox stays well-formed.                               *)
LEMMA StepKeepsTypes ==
  ASSUME TypesInv, GateInv', NEW t \in Tasks,
         \/ Start(t) \/ EngineEnds(t) \/ EngineStops(t) \/ LoopEnds(t)
         \/ EffectHappens(t) \/ RecordOutcome(t) \/ EffectFails(t) \/ NoAdapter(t)
         \/ Sign(t) \/ RegisterSlot(t) \/ CheckToken(t) \/ Wake(t) \/ TimeOut(t)
         \/ ExpireCard(t) \/ FetchToken(t)
  PROVE  TypesInv'
<1>0. GateInv /\ QueueTypes /\ TurnTypes /\ SignalTypes /\ LogTypes /\ Placed /\ Minted
  BY Zenon DEF TypesInv
<1>q. ASSUME UNCHANGED queueVars PROVE QueueTypes' /\ UNCHANGED parkedOn
  BY <1>0, <1>q, Zenon DEF queueVars, QueueTypes
<1>s. ASSUME UNCHANGED signalVars PROVE SignalTypes'
  BY <1>0, <1>s, Zenon DEF signalVars, SignalTypes
<1>l. ASSUME UNCHANGED logVars PROVE LogTypes' /\ UNCHANGED effects
  BY <1>0, <1>l, Zenon DEF logVars, LogTypes
<1>g. ASSUME UNCHANGED gateVars PROVE UNCHANGED <<minted, restarts>>
  BY <1>g, Zenon DEF gateVars, tokenVars
<1>1. CASE Start(t)
  <2>1. /\ turn' = [turn EXCEPT ![t] = "engine"] /\ turn[t] = "off"
        /\ Queue!Start(t)
        /\ UNCHANGED <<gateVars, parkedOn, from, act, pid, tok, spent, todo, proof>>
        /\ UNCHANGED signalVars /\ UNCHANGED logVars
    BY <1>1, Zenon DEF Start
  <2>2. QueueTypes'
    <3>1. {} \in SUBSET Tasks
      OBVIOUS
    <3> QED BY <1>0, <2>1, <3>1, QueueKeepsTypes, Zenon DEF QueueTypes
  <2>3. "engine" \in Places /\ "engine" \notin About /\ "off" \notin Dispatching
        /\ "engine" \notin Dispatching
    BY Zenon DEF Places, About, Dispatching
  <2>4. tok' = [tok EXCEPT ![t] = tok[t]] /\ from[t] # "loop" /\ tok[t] \in 0 .. Len(minted)
        /\ \A i \in DOMAIN effects :
              effects[i].token <= Len(minted) /\ effects[i].life <= restarts
    BY <2>1, <2>3, TurnFacts, Zenon
  <2> QED BY <1>s, <1>l, <1>g, <2>1, <2>2, <2>3, <2>4, TurnMoves, Zenon
<1>2. CASE EngineEnds(t)
  <2> DEFINE m == IF parkedOn[t] = NoAction THEN 0 ELSE LiveToken(parkedOn[t])
  <2>1. /\ turn' = [turn EXCEPT ![t] = "loop"] /\ turn[t] = "engine"
        /\ tok' = [tok EXCEPT ![t] = m]
        /\ UNCHANGED <<gateVars, from, act, pid, spent, todo, proof>>
        /\ UNCHANGED queueVars /\ UNCHANGED signalVars /\ UNCHANGED logVars
    BY <1>2, Zenon DEF EngineEnds
  <2>2. m \in 0 .. Len(minted) /\ (m # 0 => parkedOn[t] \in Actions)
    <3>1. parkedOn[t] \in Actions \cup {NoAction} /\ Len(minted) \in Nat
      BY TypesFacts, Zenon DEF QueueTypes
    <3>2. CASE parkedOn[t] = NoAction
      BY <3>1, <3>2
    <3>3. CASE parkedOn[t] \in Actions
      BY <1>0, <3>1, <3>3, LiveTokenType
    <3> QED BY <3>1, <3>2, <3>3, Zenon
  <2> HIDE DEF m
  <2>3. "loop" \in Places /\ "loop" \notin About /\ "engine" \notin Dispatching
        /\ "loop" \notin Dispatching
    BY Zenon DEF Places, About, Dispatching
  <2>4. from[t] # "loop"
        /\ \A i \in DOMAIN effects :
              effects[i].token <= Len(minted) /\ effects[i].life <= restarts
    BY <2>1, <2>3, TurnFacts, Zenon
  <2> QED BY <1>q, <1>s, <1>l, <1>g, <2>1, <2>2, <2>3, <2>4, TurnMoves, Zenon
<1>e. ASSUME EndTurn(t), state' \in [Tasks -> Queue!States],
             starts' \in [Tasks -> 0 .. MaxAttempts],
             UNCHANGED gateVars, UNCHANGED parkedOn, UNCHANGED signalVars, UNCHANGED logVars
      PROVE  TypesInv'
  <2>1. QueueTypes' /\ \A u \in Tasks \ {t} : parkedOn'[u] = parkedOn[u]
    BY <1>0, <1>e, Zenon DEF QueueTypes
  <2>2. /\ turn' = [turn EXCEPT ![t] = "off"]
        /\ from' = [from EXCEPT ![t] = "engine"]
        /\ act' = [act EXCEPT ![t] = NoAction]
        /\ pid' = [pid EXCEPT ![t] = NoAction]
        /\ spent' = [spent EXCEPT ![t] = 0]
        /\ tok' = [tok EXCEPT ![t] = 0]
        /\ todo' = [todo EXCEPT ![t] = << >>]
        /\ proof' = [proof EXCEPT ![t] = FALSE]
    BY <1>e, Zenon DEF EndTurn, GoTo
  <2>3. << >> \in Seq(Actions) /\ Len(<< >>) <= MaxTodo /\ 0 \in Nat
    BY DispatchAssumption
  <2>4. TurnTypes' /\ Placed' /\ Minted'
    BY <1>0, <1>e, <1>l, <1>g, <2>1, <2>2, <2>3, TurnLands, Zenon
  <2> QED BY <1>e, <1>s, <1>l, <2>1, <2>4, Zenon DEF TypesInv
<1>3. CASE EngineStops(t)
  <2>1. /\ EndTurn(t) /\ UNCHANGED gateVars /\ UNCHANGED parkedOn
        /\ UNCHANGED signalVars /\ UNCHANGED logVars
        /\ Queue!Finish(t, "completed") \/ Fail(t) \/ Queue!Finish(t, "cancelled")
    BY <1>3, Zenon DEF EngineStops
  <2>2. state' \in [Tasks -> Queue!States] /\ starts' \in [Tasks -> 0 .. MaxAttempts]
    <3>1. {} \in SUBSET Tasks
          /\ {"completed", "cancelled"} \subseteq {"completed", "failed", "rejected", "cancelled"}
      OBVIOUS
    <3>2. CASE Fail(t)
      BY <1>0, <3>2, FailKeepsTypes, Zenon
    <3>3. ASSUME NEW end \in {"completed", "cancelled"}, Queue!Finish(t, end)
          PROVE  state' \in [Tasks -> Queue!States] /\ starts' \in [Tasks -> 0 .. MaxAttempts]
      BY <1>0, <3>1, <3>3, QueueKeepsTypes, Zenon
    <3> QED BY <2>1, <3>2, <3>3, Zenon
  <2> QED BY <1>e, <2>1, <2>2, Zenon
<1>4. CASE LoopEnds(t)
  <2>1. /\ EndTurn(t) /\ UNCHANGED gateVars /\ UNCHANGED parkedOn
        /\ UNCHANGED signalVars /\ UNCHANGED logVars
        /\ Queue!Finish(t, "completed") \/ UNCHANGED <<state, starts>>
    BY <1>4, Zenon DEF LoopEnds
  <2>2. state' \in [Tasks -> Queue!States] /\ starts' \in [Tasks -> 0 .. MaxAttempts]
    <3>1. {} \in SUBSET Tasks /\ "completed" \in {"completed", "failed", "rejected", "cancelled"}
      OBVIOUS
    <3> QED BY <1>0, <2>1, <3>1, QueueKeepsTypes, Zenon
  <2> QED BY <1>e, <2>1, <2>2, Zenon
(* The places of the second half of a dispatch and of a waiting chat.      *)
<1>p. /\ {"applied", "signing ok", "signing failed"} \subseteq Places \cap Dispatching
      /\ "effect" \in Dispatching
      /\ {"checking", "waiting", "expiring", "resumed", "armed"} \subseteq Places
      /\ {"asked", "checking", "waiting", "expiring", "resumed", "armed"} \subseteq About
      /\ \A pl \in {"asked", "checking", "waiting", "expiring", "resumed", "armed"} :
            pl \notin Dispatching
  BY Zenon DEF Places, About, Dispatching
<1>m. ASSUME NEW pl \in {"applied", "signing ok", "signing failed"},
             turn[t] \in Dispatching,
             turn' = [turn EXCEPT ![t] = pl],
             UNCHANGED <<gateVars, queueVars, from, act, pid, tok, spent, todo, proof>>,
             UNCHANGED signalVars, LogTypes',
             \A i \in DOMAIN effects' :
                effects'[i].token <= Len(minted) /\ effects'[i].life <= restarts
      PROVE  TypesInv'
  <2>1. UNCHANGED gateVars /\ UNCHANGED queueVars
    BY <1>m, Zenon
  <2>2. UNCHANGED <<from, act, pid, spent, todo, proof, parkedOn, minted, restarts>>
    BY <1>m, <1>q, <1>g, <2>1, Zenon
  <2>3. tok' = [tok EXCEPT ![t] = tok[t]] /\ tok[t] \in 0 .. Len(minted)
        /\ act[t] \in Actions /\ pid[t] \in Actions
        /\ (from[t] = "loop" /\ tok[t] # 0 => parkedOn[t] \in Actions)
    BY <1>m, TurnFacts, Zenon
  <2>4. pl \in Places /\ pl \in Dispatching /\ pl # "loop"
    BY <1>p, Zenon
  <2> QED BY <1>m, <1>q, <1>s, <2>1, <2>2, <2>3, <2>4, TurnMoves, Zenon
<1>5. CASE EffectHappens(t)
  <2>1. /\ turn[t] = "effect" /\ turn' = [turn EXCEPT ![t] = "applied"]
        /\ effects' = Append(effects, ChangeBy(t))
        /\ UNCHANGED <<gateVars, queueVars, from, act, pid, tok, spent, todo, proof>>
        /\ UNCHANGED signalVars /\ UNCHANGED <<outcome, failures, turnedAway>>
    BY <1>5, Zenon DEF EffectHappens
  <2>2. spent[t] <= Len(minted) /\ restarts <= restarts
    BY TypesFacts, Zenon
  <2>5. effects' \in Seq([key : Keys, token : Nat, life : Nat])
    BY <1>5, LedgerGrows, Zenon
  <2>6. LogTypes'
    BY <1>0, <2>1, <2>5, Zenon DEF LogTypes
  <2>7. ASSUME NEW i \in DOMAIN effects'
        PROVE  effects'[i].token <= Len(minted) /\ effects'[i].life <= restarts
    <3>0. /\ Len(effects) \in Nat /\ DOMAIN effects = 1 .. Len(effects)
          /\ DOMAIN effects' = 1 .. Len(effects) + 1
          /\ \A j \in 1 .. Len(effects) : effects'[j] = effects[j]
          /\ effects'[Len(effects) + 1].token = spent[t]
          /\ effects'[Len(effects) + 1].life = restarts
      BY <1>5, LedgerGrows, Zenon
    <3>1. CASE i = Len(effects) + 1
      BY <2>2, <3>0, <3>1, Zenon
    <3>2. CASE i \in 1 .. Len(effects)
      BY <3>0, <3>2, TypesFacts, Zenon
    <3> QED BY <3>0, <3>1, <3>2, OneMore, Zenon
  <2>8. turn[t] \in Dispatching
    BY <1>p, <2>1, Zenon
  <2> QED BY <1>m, <2>1, <2>6, <2>7, <2>8, Zenon
<1>6. CASE RecordOutcome(t) \/ EffectFails(t)
  <2>1. /\ turn[t] \in Dispatching
        /\ \E pl \in {"signing ok", "signing failed"} : turn' = [turn EXCEPT ![t] = pl]
        /\ \E o \in {"executed", "failed"} : outcome' = [outcome EXCEPT ![Key(t)] = o]
        /\ UNCHANGED <<gateVars, queueVars, from, act, pid, tok, spent, todo, proof>>
        /\ UNCHANGED signalVars /\ UNCHANGED <<effects, turnedAway>>
    BY <1>6, <1>p, Zenon DEF RecordOutcome, EffectFails
  <2>2. failures' \in 0 .. MaxFailures
    <3>1. failures' = failures \/ (failures < MaxFailures /\ failures' = failures + 1)
      BY <1>6, Zenon DEF RecordOutcome, EffectFails
    <3>2. failures \in 0 .. MaxFailures
      BY <1>0, Zenon DEF LogTypes
    <3> QED BY <3>1, <3>2, DispatchAssumption
  <2>3. LogTypes'
    BY <1>0, <2>1, <2>2, Zenon DEF LogTypes
  <2>4. \A i \in DOMAIN effects' :
           effects'[i].token <= Len(minted) /\ effects'[i].life <= restarts
    BY <2>1, TurnFacts, Zenon
  <2> QED BY <1>m, <2>1, <2>3, <2>4, Zenon
<1>c. ASSUME turn[t] \in Dispatching, NEW r, CallerGets(t, from[t], act[t], r),
             UNCHANGED gateVars, UNCHANGED signalVars, LogTypes', UNCHANGED effects
      PROVE  TypesInv'
  <2>1. /\ from[t] \in {"engine", "resume", "loop"} /\ act[t] \in Actions
        /\ from[t] = "loop" => todo[t] # << >>
        /\ from[t] = "loop" /\ tok[t] # 0 => parkedOn[t] \in Actions
    BY <1>c, TurnFacts, Zenon
  <2>2. UNCHANGED <<minted, effects, restarts>>
    BY <1>c, <1>g, Zenon
  <2>3. QueueTypes' /\ TurnTypes' /\ Placed' /\ Minted'
    BY <1>0, <1>c, <2>1, <2>2, CallerKeepsTypes, Zenon
  <2> QED BY <1>c, <1>s, <2>3, Zenon DEF TypesInv
<1>7. CASE NoAdapter(t)
  <2>1. /\ turn[t] = "effect" /\ failures < MaxFailures /\ failures' = failures + 1
        /\ CallerGets(t, from[t], act[t], "refused")
        /\ UNCHANGED gateVars /\ UNCHANGED signalVars
        /\ UNCHANGED <<outcome, effects, turnedAway>>
    BY <1>7, Zenon DEF NoAdapter
  <2>2. LogTypes'
    BY <1>0, <2>1, OneMore, Zenon DEF LogTypes
  <2>3. turn[t] \in Dispatching /\ UNCHANGED effects
    BY <1>p, <2>1, Zenon
  <2> QED BY <1>c, <2>1, <2>2, <2>3, Zenon
<1>8. CASE Sign(t)
  <2>1. PICK r : CallerGets(t, from[t], act[t], r)
    BY <1>8, Zenon DEF Sign
  <2>2. turn[t] \in Dispatching
    BY <1>8, Zenon DEF Sign, Dispatching
  <2>3. UNCHANGED gateVars /\ UNCHANGED signalVars /\ UNCHANGED logVars
    BY <1>8, Zenon DEF Sign
  <2> QED BY <1>c, <1>l, <2>1, <2>2, <2>3, Zenon
<1>w. ASSUME NEW pl \in {"checking", "waiting", "expiring", "resumed", "armed"},
             NEW m \in 0 .. Len(minted),
             turn[t] \in About \ Dispatching,
             turn' = [turn EXCEPT ![t] = pl],
             tok' = [tok EXCEPT ![t] = m],
             UNCHANGED gateVars, UNCHANGED <<from, act, pid, spent>>,
             Unaffected, SignalTypes'
      PROVE  TypesInv'
  <2>1. UNCHANGED queueVars /\ UNCHANGED <<todo, proof>> /\ UNCHANGED logVars
    BY <1>w, Zenon DEF Unaffected
  <2>2. pl \in Places /\ pl \in About /\ pl \notin Dispatching /\ pl # "loop"
    BY <1>p, Zenon
  <2>3. act[t] \in Actions /\ from[t] # "loop"
        /\ \A i \in DOMAIN effects :
              effects[i].token <= Len(minted) /\ effects[i].life <= restarts
    BY <1>w, TurnFacts, Zenon
  <2> QED BY <1>w, <1>q, <1>l, <1>g, <2>1, <2>2, <2>3, TurnMoves, Zenon
<1>a. ASSUME turn[t] \in {"asked", "checking", "waiting", "expiring", "resumed", "armed"}
      PROVE  act[t] \in Actions /\ turn[t] \in About \ Dispatching
  BY <1>a, <1>p, TurnFacts, Zenon
<1>k. tok = [tok EXCEPT ![t] = tok[t]] /\ tok[t] \in 0 .. Len(minted)
  BY TurnFacts, Zenon
<1>v. "none" \in SlotValues /\ \A b \in Actions : presignal[b] \in SlotValues
  BY <1>0, Zenon DEF SignalTypes, SlotValues
<1>9. CASE RegisterSlot(t)
  <2>1. /\ turn[t] = "asked" /\ turn' = [turn EXCEPT ![t] = "checking"]
        /\ slot' = [slot EXCEPT ![t] = presignal[act[t]]]
        /\ presignal' = [presignal EXCEPT ![act[t]] = "none"]
        /\ UNCHANGED gateVars /\ UNCHANGED <<from, act, pid, spent>> /\ UNCHANGED tok
        /\ Unaffected /\ UNCHANGED deciding
    BY <1>9, Zenon DEF RegisterSlot, Unaffected
  <2>2. SignalTypes'
    BY <1>0, <1>a, <1>v, <2>1, Zenon DEF SignalTypes
  <2> QED BY <1>a, <1>k, <1>w, <2>1, <2>2, Zenon
<1>10. CASE CheckToken(t) \/ TimeOut(t)
  <2>1. /\ turn[t] \in {"checking", "waiting"}
        /\ \E pl \in {"resumed", "waiting", "expiring"} : turn' = [turn EXCEPT ![t] = pl]
        /\ UNCHANGED gateVars /\ UNCHANGED <<from, act, pid, spent>> /\ UNCHANGED tok
        /\ Unaffected /\ UNCHANGED <<presignal, deciding>>
    BY <1>10, Zenon DEF CheckToken, TimeOut, Unaffected
  <2>2. slot' = [slot EXCEPT ![t] = "none"] \/ UNCHANGED slot
    BY <1>10, Zenon DEF CheckToken, TimeOut
  <2>3. SignalTypes'
    BY <1>0, <1>v, <2>1, <2>2, Zenon DEF SignalTypes
  <2>4. turn[t] \in About \ Dispatching
    BY <1>a, <2>1, Zenon
  <2> QED BY <1>k, <1>w, <2>1, <2>3, <2>4, Zenon
<1>11. CASE FetchToken(t)
  <2>1. /\ turn[t] = "resumed" /\ turn' = [turn EXCEPT ![t] = "armed"]
        /\ tok' = [tok EXCEPT ![t] = LiveToken(act[t])]
        /\ UNCHANGED gateVars /\ UNCHANGED <<from, act, pid, spent>>
        /\ Unaffected /\ UNCHANGED <<slot, presignal, deciding>>
    BY <1>11, Zenon DEF FetchToken, Unaffected
  <2>2. SignalTypes'
    BY <1>0, <2>1, Zenon DEF SignalTypes
  <2>3. turn[t] \in About \ Dispatching /\ act[t] \in Actions
    BY <1>a, <2>1, Zenon
  <2>4. LiveToken(act[t]) \in 0 .. Len(minted)
    BY <1>0, <2>3, LiveTokenType, Zenon
  <2> QED BY <1>w, <2>1, <2>2, <2>3, <2>4, Zenon
(* A chat goes back to its engine: refused, or tired of waiting.           *)
<1>b. ASSUME GoTo(t, "engine"), UNCHANGED tok, UNCHANGED <<minted, restarts>>,
             Unaffected, SignalTypes'
      PROVE  TypesInv'
  <2>1. UNCHANGED queueVars /\ UNCHANGED <<todo, proof>> /\ UNCHANGED logVars
    BY <1>b, Zenon DEF Unaffected
  <2>2. /\ turn' = [turn EXCEPT ![t] = "engine"]
        /\ from' = [from EXCEPT ![t] = "engine"]
        /\ act' = [act EXCEPT ![t] = NoAction]
        /\ pid' = [pid EXCEPT ![t] = NoAction]
        /\ spent' = [spent EXCEPT ![t] = 0]
    BY <1>b, Zenon DEF GoTo
  <2>3. /\ tok' = [tok EXCEPT ![t] = tok[t]]
        /\ todo' = [todo EXCEPT ![t] = todo[t]]
        /\ proof' = [proof EXCEPT ![t] = proof[t]]
        /\ todo[t] \in Seq(Actions) /\ proof[t] \in BOOLEAN /\ Len(todo[t]) <= MaxTodo
        /\ tok[t] \in {0, tok[t]} /\ NoAction \in Actions \cup {NoAction}
    BY <1>b, <2>1, TurnFacts, Zenon
  <2>4. tok[t] \in Nat
    BY <1>0, Zenon DEF TurnTypes
  <2>5. QueueTypes' /\ UNCHANGED parkedOn /\ LogTypes' /\ UNCHANGED <<minted, effects, restarts>>
    BY <1>b, <1>q, <1>l, <2>1, Zenon
  <2>6. TurnTypes' /\ Placed' /\ Minted'
    BY <1>0, <2>2, <2>3, <2>4, <2>5, TurnLands, Zenon
  <2> QED BY <1>b, <2>5, <2>6, Zenon DEF TypesInv
<1>12. CASE Wake(t)
  <2>1. /\ turn[t] = "waiting"
        /\ slot' = [slot EXCEPT ![t] = "none"]
        /\ UNCHANGED gateVars /\ UNCHANGED tok /\ UNCHANGED <<presignal, deciding>>
        /\ Unaffected
    BY <1>12, Zenon DEF Wake, Unaffected
  <2>2. SignalTypes'
    BY <1>0, <1>v, <2>1, Zenon DEF SignalTypes
  <2>3. CASE turn' = [turn EXCEPT ![t] = "resumed"] /\ UNCHANGED <<from, act, pid, spent>>
    BY <1>a, <1>k, <1>w, <2>1, <2>2, <2>3, Zenon
  <2>4. CASE GoTo(t, "engine")
    BY <1>b, <1>g, <2>1, <2>2, <2>4, Zenon
  <2> QED BY <1>12, <2>3, <2>4, Zenon DEF Wake
<1>13. CASE ExpireCard(t)
  <2>1. /\ GoTo(t, "engine") /\ UNCHANGED tok /\ Unaffected
        /\ slot' = [slot EXCEPT ![t] = "none"] /\ UNCHANGED <<presignal, deciding>>
        /\ Expire(act[t])
    BY <1>13, Zenon DEF ExpireCard, Unaffected
  <2>2. SignalTypes'
    BY <1>0, <1>v, <2>1, Zenon DEF SignalTypes
  <2>3. UNCHANGED <<minted, restarts>>
    BY <2>1, Zenon DEF Expire, tokenVars
  <2> QED BY <1>b, <2>1, <2>2, <2>3, Zenon
<1> QED
  BY <1>1, <1>2, <1>3, <1>4, <1>5, <1>6, <1>7, <1>8, <1>9, <1>10, <1>11, <1>12, <1>13, Zenon

(* What every step of the composition does to the mailbox.                 *)
LEMMA StepMoves == TypesInv /\ [DispatchNext]_dispatchVars => GateMove
<1> SUFFICES ASSUME TypesInv, [DispatchNext]_dispatchVars PROVE GateMove
  OBVIOUS
<1>1. ASSUME NEW t \in Tasks, Step(t) PROVE GateMove
  <2>1. CASE (\E a \in Actions : EngineCalls(t, a)) \/ LoopCalls(t) \/ ResumeCalls(t)
    BY <2>1, CallsAreCalls, DispatchMoves, Zenon
  <2>2. CASE ExpireCard(t)
    <3>1. act[t] \in Actions /\ Expire(act[t])
      BY <2>2, TurnFacts, Zenon DEF ExpireCard, About
    <3> QED BY <3>1, Zenon DEF GateMove
  <2>3. CASE \/ Start(t) \/ EngineEnds(t) \/ EngineStops(t) \/ LoopEnds(t)
             \/ EffectHappens(t) \/ RecordOutcome(t) \/ EffectFails(t) \/ NoAdapter(t)
             \/ Sign(t) \/ RegisterSlot(t) \/ CheckToken(t) \/ Wake(t) \/ TimeOut(t)
             \/ FetchToken(t)
    <3>1. UNCHANGED gateVars
      BY <2>3, Zenon
         DEF Start, EngineEnds, EngineStops, LoopEnds, EffectHappens, RecordOutcome,
             EffectFails, NoAdapter, Sign, RegisterSlot, CheckToken, Wake, TimeOut, FetchToken
    <3> QED BY <3>1, Zenon DEF GateMove
  <2> QED BY <1>1, <2>1, <2>2, <2>3, Zenon DEF Step
<1>2. ASSUME NEW p \in Actions, OwnerApproves(p) \/ OwnerReads(p) \/ OwnerRejects(p)
      PROVE  GateMove
  BY <1>2, Zenon DEF OwnerApproves, OwnerReads, OwnerRejects, Approve, GateMove
<1>3. ASSUME NEW p \in Actions, NEW c, FinishDecision(p, c) PROVE GateMove
  BY <1>3, Zenon DEF FinishDecision, GateMove
<1>4. CASE Time
  BY <1>4, Zenon DEF Time, GateMove
<1>5. CASE Crash
  BY <1>5, Zenon DEF Crash, GateMove
<1>6. CASE UNCHANGED dispatchVars
  <2>1. UNCHANGED gateVars
    BY <1>6, Zenon DEF dispatchVars
  <2> QED BY <2>1, Zenon DEF GateMove
<1> QED BY <1>1, <1>2, <1>3, <1>4, <1>5, <1>6, Zenon DEF DispatchNext

(* The owner, time and crashes keep the types as well.                     *)
LEMMA TypesStep == TypesInv /\ [DispatchNext]_dispatchVars => TypesInv'
<1> SUFFICES ASSUME TypesInv, [DispatchNext]_dispatchVars PROVE TypesInv'
  OBVIOUS
<1>0. GateInv /\ QueueTypes /\ TurnTypes /\ SignalTypes /\ LogTypes /\ Placed /\ Minted
  BY Zenon DEF TypesInv
<1>1. GateInv'
  BY <1>0, StepMoves, GateMoveInv, Zenon
(* A step that leaves the turns and the log alone.                         *)
<1>2. ASSUME UNCHANGED <<turnVars, logVars>>, UNCHANGED parkedOn,
             state' \in [Tasks -> Queue!States], starts' \in [Tasks -> 0 .. MaxAttempts],
             SignalTypes', UNCHANGED restarts, Len(minted') >= Len(minted)
      PROVE  TypesInv'
  <2>1. UNCHANGED <<turn, from, act, pid, tok, spent, todo, proof>>
        /\ UNCHANGED <<outcome, effects, failures, turnedAway>>
    BY <1>2, Zenon DEF turnVars, logVars
  <2>2. QueueTypes'
    BY <1>0, <1>2, Zenon DEF QueueTypes
  <2>3. TurnTypes'
    BY <1>0, <2>1, Zenon DEF TurnTypes
  <2>4. LogTypes'
    BY <1>0, <2>1, Zenon DEF LogTypes
  <2>5. Placed'
    BY <1>0, <1>2, <2>1, Zenon DEF Placed
  <2>6. Minted'
    <3>1. Len(minted) \in Nat /\ Len(minted') \in Nat
      BY <1>0, <1>1 DEF GateInv, GateTypeOK
    <3>2. ASSUME NEW t \in Tasks PROVE tok'[t] <= Len(minted') /\ spent'[t] <= Len(minted')
      <4>1. tok[t] \in Nat /\ spent[t] \in Nat /\ tok[t] <= Len(minted) /\ spent[t] <= Len(minted)
        BY <1>0, Zenon DEF TurnTypes, Minted
      <4> QED BY <1>2, <2>1, <3>1, <4>1
    <3>3. ASSUME NEW i \in DOMAIN effects'
          PROVE  effects'[i].token <= Len(minted') /\ effects'[i].life <= restarts'
      <4>1. i \in DOMAIN effects /\ effects'[i] = effects[i]
        BY <2>1, Zenon
      <4>2. effects[i].token \in Nat /\ effects[i].token <= Len(minted)
            /\ effects[i].life <= restarts
        BY <1>0, <4>1, LedgerTypes, Zenon DEF Minted
      <4> QED BY <1>2, <3>1, <4>1, <4>2
    <3> QED BY <3>2, <3>3, Zenon DEF Minted
  <2> QED BY <1>1, <1>2, <2>2, <2>3, <2>4, <2>5, <2>6, Zenon DEF TypesInv
<1>q. ASSUME UNCHANGED queueVars
      PROVE  /\ UNCHANGED parkedOn
             /\ state' \in [Tasks -> Queue!States] /\ starts' \in [Tasks -> 0 .. MaxAttempts]
  BY <1>0, <1>q, Zenon DEF queueVars, QueueTypes
<1>n. Len(minted) \in Nat /\ Len(minted) >= Len(minted)
  BY <1>0 DEF GateInv, GateTypeOK
<1>3. ASSUME NEW t \in Tasks, Step(t) PROVE TypesInv'
  <2>1. CASE (\E a \in Actions : EngineCalls(t, a)) \/ LoopCalls(t) \/ ResumeCalls(t)
    BY <2>1, CallsAreCalls, DispatchKeepsTypes, Zenon
  <2>2. CASE \/ Start(t) \/ EngineEnds(t) \/ EngineStops(t) \/ LoopEnds(t)
             \/ EffectHappens(t) \/ RecordOutcome(t) \/ EffectFails(t) \/ NoAdapter(t)
             \/ Sign(t) \/ RegisterSlot(t) \/ CheckToken(t) \/ Wake(t) \/ TimeOut(t)
             \/ ExpireCard(t) \/ FetchToken(t)
    BY <1>1, <2>2, StepKeepsTypes, Zenon
  <2> QED BY <1>3, <2>1, <2>2, Zenon DEF Step
<1>4. ASSUME NEW p \in Actions, OwnerApproves(p) PROVE TypesInv'
  <2>1. /\ Mint(p) /\ deciding' = deciding \cup {<<p, "approved">>}
        /\ UNCHANGED queueVars /\ UNCHANGED <<slot, presignal>>
        /\ UNCHANGED <<turnVars, logVars>>
    BY <1>4, Zenon DEF OwnerApproves, Approve, TurnsUnaffected
  <2>2. SignalTypes'
    BY <1>0, <2>1 DEF SignalTypes
  <2>3. UNCHANGED restarts /\ Len(minted') >= Len(minted)
    BY <1>0, <1>n, <2>1 DEF Mint, GateInv, GateTypeOK
  <2> QED BY <1>2, <1>q, <2>1, <2>2, <2>3, Zenon
<1>5. ASSUME NEW p \in Actions, OwnerReads(p) \/ OwnerRejects(p) PROVE TypesInv'
  <2>1. /\ UNCHANGED queueVars /\ UNCHANGED <<slot, presignal>>
        /\ UNCHANGED <<turnVars, logVars>> /\ UNCHANGED <<minted, restarts>>
    BY <1>5, Zenon
       DEF OwnerReads, OwnerRejects, RejectReads, RejectWrites, tokenVars, TurnsUnaffected,
           signalVars
  <2>2. deciding' = deciding \/ deciding' = deciding \cup {<<p, "denied">>}
    BY <1>5, Zenon DEF OwnerReads, OwnerRejects, signalVars
  <2>3. SignalTypes'
    BY <1>0, <2>1, <2>2 DEF SignalTypes
  <2>4. UNCHANGED restarts /\ Len(minted') >= Len(minted)
    BY <1>n, <2>1, Zenon
  <2> QED BY <1>2, <1>q, <2>1, <2>3, <2>4, Zenon
<1>6. ASSUME NEW p \in Actions, NEW c \in {"approved", "denied"}, FinishDecision(p, c)
      PROVE  TypesInv'
  <2>1. /\ deciding' = deciding \ {<<p, c>>} /\ Signal(p, c)
        /\ UNCHANGED gateVars /\ UNCHANGED parkedOn /\ UNCHANGED <<turnVars, logVars>>
        /\ \/ workItem[p] # NoTask /\ Queue!Unpark(workItem[p])
           \/ UNCHANGED <<state, starts>>
    BY <1>6, Zenon DEF FinishDecision, TurnsUnaffected
  <2>2. SignalTypes'
    <3>1. c \in SlotValues
      BY Zenon DEF SlotValues
    <3>2. slot' \in [Tasks -> SlotValues] /\ presignal' \in [Actions -> SlotValues]
      <4>1. CASE presignal' = [presignal EXCEPT ![p] = c] /\ UNCHANGED slot
        BY <1>0, <3>1, <4>1, Zenon DEF SignalTypes
      <4>2. CASE slot' = [t \in Tasks |-> IF t \in Waiters(p) THEN c ELSE slot[t]]
                 /\ UNCHANGED presignal
        BY <1>0, <3>1, <4>2, Zenon DEF SignalTypes
      <4> QED BY <2>1, <4>1, <4>2, Zenon DEF Signal
    <3> QED BY <1>0, <2>1, <3>2, Zenon DEF SignalTypes
  <2>3. state' \in [Tasks -> Queue!States] /\ starts' \in [Tasks -> 0 .. MaxAttempts]
    <3>1. CASE UNCHANGED <<state, starts>>
      BY <1>0, <3>1, Zenon DEF QueueTypes
    <3>2. CASE workItem[p] # NoTask /\ Queue!Unpark(workItem[p])
      <4>1. workItem[p] \in Tasks /\ {} \in SUBSET Tasks
        BY <1>0, <3>2, Zenon DEF GateInv, GateTypeOK
      <4> QED BY <1>0, <3>2, <4>1, QueueKeepsTypes, Zenon
    <3> QED BY <2>1, <3>1, <3>2, Zenon
  <2>4. UNCHANGED <<minted, restarts>>
    BY <2>1, Zenon DEF gateVars, tokenVars
  <2>5. UNCHANGED restarts /\ Len(minted') >= Len(minted)
    BY <1>n, <2>4, Zenon
  <2> QED BY <1>2, <2>1, <2>2, <2>3, <2>5, Zenon
<1>7. CASE Time
  <2>1. /\ UNCHANGED queueVars /\ UNCHANGED <<turnVars, logVars>> /\ UNCHANGED <<slot, deciding>>
        /\ \/ UNCHANGED presignal
           \/ \E p \in Actions : presignal' = [presignal EXCEPT ![p] = "none"]
    BY <1>7, Zenon DEF Time
  <2>2. UNCHANGED <<minted, restarts>>
    BY <1>7, Zenon DEF Time, Lapse, Age, gateVars, tokenVars
  <2>3. SignalTypes'
    BY <1>0, <2>1, Zenon DEF SignalTypes, SlotValues
  <2>4. UNCHANGED restarts /\ Len(minted') >= Len(minted)
    BY <1>n, <2>2, Zenon
  <2> QED BY <1>2, <1>q, <2>1, <2>3, <2>4, Zenon
<1>8. CASE Crash
  <2> DEFINE S == {t \in Tasks : state[t] = "in_progress"}
  <2>1. /\ Restart /\ Queue!Requeue(S) /\ UNCHANGED parkedOn /\ UNCHANGED logVars
        /\ turn' = [t \in Tasks |-> "off"]
        /\ from' = [t \in Tasks |-> "engine"]
        /\ act' = [t \in Tasks |-> NoAction]
        /\ pid' = [t \in Tasks |-> NoAction]
        /\ tok' = [t \in Tasks |-> 0]
        /\ spent' = [t \in Tasks |-> 0]
        /\ todo' = [t \in Tasks |-> << >>]
        /\ proof' = [t \in Tasks |-> FALSE]
        /\ slot' = [t \in Tasks |-> "none"]
        /\ presignal' = [p \in Actions |-> "none"]
        /\ deciding' = {}
    BY <1>8, Zenon DEF Crash
  <2>2. QueueTypes'
    <3>1. S \in SUBSET Tasks
      OBVIOUS
    <3>2. ASSUME NEW t \in Tasks
          PROVE  state' \in [Tasks -> Queue!States] /\ starts' \in [Tasks -> 0 .. MaxAttempts]
      BY <1>0, <2>1, <3>1, QueueKeepsTypes, Zenon
    <3>3. CASE Tasks = {}
      BY <1>0, <2>1, <3>3, Zenon DEF QueueTypes, Queue!Requeue
    <3> QED BY <1>0, <2>1, <3>2, <3>3, Zenon DEF QueueTypes
  <2>3. TurnTypes' /\ SignalTypes'
    BY <2>1 DEF TurnTypes, SignalTypes, Places, SlotValues
  <2>4. LogTypes' /\ UNCHANGED effects
    BY <1>0, <2>1, Zenon DEF LogTypes, logVars
  <2>5. Placed'
    BY <2>1, DispatchAssumption DEF Placed, About, Dispatching
  <2>6. Minted'
    <3>1. UNCHANGED minted /\ restarts' = restarts + 1 /\ restarts \in Nat /\ Len(minted) \in Nat
      BY <1>0, <1>n, <2>1, GateAssumption DEF Restart, GateInv, GateTypeOK
    <3>2. \A i \in DOMAIN effects : effects[i].token <= Len(minted) /\ effects[i].life <= restarts
                                   /\ effects[i].life \in Nat
      BY <1>0, LedgerTypes, Zenon DEF Minted
    <3>3. \A i \in DOMAIN effects' :
             effects'[i].token <= Len(minted') /\ effects'[i].life <= restarts'
      BY <2>4, <3>1, <3>2
    <3>4. \A t \in Tasks : tok'[t] <= Len(minted') /\ spent'[t] <= Len(minted')
      BY <2>1, <3>1
    <3> QED BY <3>3, <3>4, Zenon DEF Minted
  <2> QED BY <1>1, <2>2, <2>3, <2>4, <2>5, <2>6, Zenon DEF TypesInv
<1>9. CASE UNCHANGED dispatchVars
  <2>1. /\ UNCHANGED gateVars /\ UNCHANGED queueVars /\ UNCHANGED <<turnVars, logVars>>
        /\ UNCHANGED <<slot, presignal, deciding>>
    BY <1>9, Zenon DEF dispatchVars, signalVars
  <2>2. UNCHANGED <<minted, restarts>>
    BY <2>1, Zenon DEF gateVars, tokenVars
  <2>3. UNCHANGED restarts /\ Len(minted') >= Len(minted) /\ SignalTypes'
    BY <1>0, <1>n, <2>1, <2>2, Zenon DEF SignalTypes
  <2> QED BY <1>2, <1>q, <2>1, <2>3
<1> QED BY <1>3, <1>4, <1>5, <1>6, <1>7, <1>8, <1>9, Zenon DEF DispatchNext
=============================================================================
