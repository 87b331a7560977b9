------------------------ MODULE ActionDispatchProofs ------------------------
(***************************************************************************)
(* Dispatching an action, for every number of tasks, actions, approvals,   *)
(* failures and restarts: what the intent log says is true, an action      *)
(* happens once until an adapter fails, every risky change of the world    *)
(* has an approval of its own, and no sleeping chat misses its approval.   *)
(* Most steps leave log, ledger and tokens alone (Quiet); the few that do  *)
(* not (Loud) are taken one by one.                                        *)
(***************************************************************************)
EXTENDS GateDispatchProofs

(* The change of the world a turn is about to make is not in the ledger.   *)
Unmade(t) == \A i \in DOMAIN effects : effects[i].key # Key(t)

(* The intent log against the world.  An id that was ever tried is in the  *)
(* log, and until an adapter fails at most one turn is between the intent  *)
(* and the effect of an action that has not happened yet.                  *)
LogInv ==
    /\ \A i \in DOMAIN effects : outcome[effects[i].key] # "none"
    /\ \A t \in Tasks : turn[t] \in {"effect", "applied"} => outcome[Key(t)] # "none"
    /\ \A t \in Tasks : turn[t] = "applied" => ~Unmade(t)
    /\ ExecutedIsTrue
    /\ failures = 0 =>
          /\ \A k \in Keys : outcome[k] # "failed"
          /\ \A t \in Tasks : turn[t] = "effect" =>
                /\ Unmade(t)
                /\ \A u \in Tasks : turn[u] = "effect" /\ Key(u) = Key(t) => u = t
    /\ AtMostOnceUntilFailure

(* A turn about to make a risky change holds a token of its own, which the *)
(* minter will not accept again in this life of the daemon.                *)
Pays(t) ==
    /\ spent[t] \in Tokens
    /\ minted[spent[t]] = pid[t]
    /\ spent[t] \in nonces
    /\ \A i \in DOMAIN effects :
          effects[i].key[2] \in Risky /\ effects[i].life = restarts
          => effects[i].token # spent[t]
    /\ \A u \in Tasks :
          turn[u] = "effect" /\ act[u] \in Risky /\ spent[u] = spent[t] => u = t

PayInv ==
    /\ \A t \in Tasks : turn[t] = "effect" /\ act[t] \in Risky => Pays(t)
    /\ \A i \in DOMAIN effects :
          effects[i].key[2] \in Risky /\ effects[i].life = restarts
          => effects[i].token \in nonces
    /\ EffectsNeedApprovals

DispatchInv == TypesInv /\ LogInv /\ PayInv /\ NoLostApproval

(* A step that starts no effect and ends none as far as the intent log and *)
(* the ledger can tell: turns may leave the broker, none gets in.          *)
Quiet ==
    /\ UNCHANGED <<outcome, effects, restarts>>
    /\ failures' = failures \/ failures' # 0
    /\ nonces \subseteq nonces'
    /\ Len(minted) <= Len(minted')
    /\ \A k \in Tokens : minted'[k] = minted[k]
    /\ \A t \in Tasks :
          turn'[t] \in {"effect", "applied"} =>
             /\ turn'[t] = turn[t] /\ act'[t] = act[t]
             /\ pid'[t] = pid[t] /\ spent'[t] = spent[t]

(* The steps that are not quiet.                                           *)
Loud ==
    \/ \E t \in Tasks :
          \/ \E c, a, id, k : Call(t, c, a, id, k) /\ Intend(t, c, a, id, k)
          \/ EffectHappens(t) \/ RecordOutcome(t) \/ EffectFails(t)
    \/ Crash

(* Every other step is.                                                    *)
LEMMA QuietOrLoud == TypesInv /\ [DispatchNext]_dispatchVars => Quiet \/ Loud
<1> SUFFICES ASSUME TypesInv, [DispatchNext]_dispatchVars, ~Loud PROVE Quiet
  OBVIOUS
<1>0. GateInv /\ QueueTypes /\ TurnTypes /\ SignalTypes /\ LogTypes /\ Placed /\ Minted
  BY Zenon DEF TypesInv
<1>n. Len(minted) \in Nat /\ Len(minted) <= Len(minted)
  BY <1>0 DEF GateInv, GateTypeOK
<1>m. ASSUME UNCHANGED minted PROVE Len(minted) <= Len(minted') /\ \A k \in Tokens : minted'[k] = minted[k]
  BY <1>n, <1>m, Zenon
<1>g. ASSUME UNCHANGED gateVars
      PROVE  /\ UNCHANGED restarts /\ nonces \subseteq nonces'
             /\ Len(minted) <= Len(minted') /\ \A k \in Tokens : minted'[k] = minted[k]
  <2>1. UNCHANGED <<minted, nonces, restarts>>
    BY <1>g, Zenon DEF gateVars, tokenVars
  <2> QED BY <1>m, <2>1, Zenon
<1>f. ASSUME UNCHANGED failures PROVE failures' = failures \/ failures' # 0
  BY <1>f, Zenon
<1>t. ASSUME UNCHANGED turnVars
      PROVE  \A t \in Tasks : /\ turn'[t] = turn[t] /\ act'[t] = act[t]
                              /\ pid'[t] = pid[t] /\ spent'[t] = spent[t]
  BY <1>t, Zenon DEF turnVars
<1>1. ASSUME NEW t \in Tasks, Others(t), turn'[t] \notin {"effect", "applied"}
      PROVE  \A u \in Tasks : turn'[u] \in {"effect", "applied"} =>
                /\ turn'[u] = turn[u] /\ act'[u] = act[u]
                /\ pid'[u] = pid[u] /\ spent'[u] = spent[u]
  BY <1>1, Zenon DEF Others
<1>2. ASSUME NEW t \in Tasks, NEW a \in Actions, NEW c \in {"engine", "resume", "loop"}, NEW r,
             c = "loop" => todo[t] # << >>,
             c = "loop" /\ tok[t] # 0 => parkedOn[t] \in Actions,
             CallerGets(t, c, a, r),
             UNCHANGED <<minted, restarts, outcome, effects>>,
             nonces \subseteq nonces', failures' = failures \/ failures' # 0
      PROVE  Quiet
  <2>1. UNCHANGED <<minted, effects, restarts>>
    BY <1>2, Zenon
  <2>2. Others(t) /\ turn'[t] \in {"off", "engine", "asked", "loop"}
    BY <1>0, <1>2, <2>1, CallerKeepsTypes, Zenon
  <2>3. turn'[t] \notin {"effect", "applied"}
    BY <2>2, Zenon
  <2> QED BY <1>1, <1>2, <1>m, <2>2, <2>3, Zenon DEF Quiet
<1>3. ASSUME NEW t \in Tasks, NEW c, NEW a, NEW id, NEW k,
             Call(t, c, a, id, k), Dispatch(t, c, a, id, k)
      PROVE  Quiet
  <2>0. /\ c \in {"engine", "resume", "loop"} /\ a \in Actions
        /\ c = "loop" => todo[t] # << >>
        /\ c = "loop" /\ tok[t] # 0 => parkedOn[t] \in Actions
    BY <1>3, Zenon DEF Call
  <2>1. CASE Refused(t, c, a)
    <3>1. CallerGets(t, c, a, "refused") /\ UNCHANGED <<gateVars, outcome, effects, failures>>
      BY <2>1, Zenon DEF Refused, logVars
    <3>2. UNCHANGED <<minted, nonces, restarts>>
      BY <3>1, Zenon DEF gateVars, tokenVars
    <3> QED BY <1>2, <2>0, <3>1, <3>2, Zenon
  <2>2. CASE Gated(t, c, a, id, k)
    <3>1. PICK r : CallerGets(t, c, a, r)
      BY <2>2, Zenon DEF Gated
    <3>2. /\ UNCHANGED <<minted, restarts, outcome, effects, failures>>
          /\ nonces' = IF Authentic(id, k) THEN nonces \cup {k} ELSE nonces
      BY <2>2, Zenon DEF Gated
    <3>3. nonces \subseteq nonces'
      BY <3>2, Zenon
    <3> QED BY <1>2, <2>0, <3>1, <3>2, <3>3, Zenon
  <2>3. CASE Known(t, c, a, id, k)
    <3>1. PICK r : CallerGets(t, c, a, r)
      BY <2>3, Zenon DEF Known
    <3>2. UNCHANGED <<outcome, effects, failures>> /\ Cleared(a, id, k)
      BY <2>3, Zenon DEF Known, logVars
    <3>3. UNCHANGED <<minted, restarts>> /\ nonces \subseteq nonces'
      BY <3>2, ClearedFrame, Zenon
    <3> QED BY <1>2, <2>0, <3>1, <3>2, <3>3, Zenon
  <2>4. ~Intend(t, c, a, id, k)
    BY <1>3, Zenon DEF Loud
  <2> QED BY <1>3, <2>1, <2>2, <2>3, <2>4, Zenon DEF Dispatch
<1>4. ASSUME NEW t \in Tasks, NoAdapter(t) \/ Sign(t) PROVE Quiet
  <2>1. PICK r : CallerGets(t, from[t], act[t], r)
    BY <1>4, Zenon DEF NoAdapter, Sign
  <2>2. turn[t] \in Dispatching
    BY <1>4, Zenon DEF NoAdapter, Sign, Dispatching
  <2>3. /\ from[t] \in {"engine", "resume", "loop"} /\ act[t] \in Actions
        /\ from[t] = "loop" => todo[t] # << >>
        /\ from[t] = "loop" /\ tok[t] # 0 => parkedOn[t] \in Actions
    BY <2>2, TurnFacts, Zenon
  <2>4. /\ UNCHANGED <<gateVars, outcome, effects>>
        /\ failures' = failures \/ failures' = failures + 1
    BY <1>4, Zenon DEF NoAdapter, Sign, logVars
  <2>5. UNCHANGED <<minted, nonces, restarts>>
    BY <2>4, Zenon DEF gateVars, tokenVars
  <2>6. failures' = failures \/ failures' # 0
    BY <1>0, <2>4 DEF LogTypes
  <2> QED BY <1>2, <2>1, <2>3, <2>4, <2>5, <2>6, Zenon
<1>5. ASSUME NEW t \in Tasks,
             NEW pl \in {"off", "engine", "checking", "waiting", "expiring", "resumed",
                         "armed", "loop"},
             turn' = [turn EXCEPT ![t] = pl],
             \A u \in Tasks \ {t} : act'[u] = act[u] /\ pid'[u] = pid[u] /\ spent'[u] = spent[u],
             UNCHANGED <<minted, nonces, restarts>>, UNCHANGED <<outcome, effects, failures>>
      PROVE  Quiet
  <2>1. turn'[t] = pl /\ \A u \in Tasks \ {t} : turn'[u] = turn[u]
    BY <1>0, <1>5, Zenon DEF TurnTypes
  <2>2. pl \notin {"effect", "applied"}
    OBVIOUS
  <2>3. \A u \in Tasks : turn'[u] \in {"effect", "applied"} =>
           /\ turn'[u] = turn[u] /\ act'[u] = act[u]
           /\ pid'[u] = pid[u] /\ spent'[u] = spent[u]
    BY <1>5, <2>1, <2>2, Zenon
  <2> QED BY <1>5, <1>m, <2>3, Zenon DEF Quiet
<1>6. ASSUME NEW t \in Tasks,
             \/ Start(t) \/ EngineEnds(t) \/ RegisterSlot(t) \/ CheckToken(t) \/ TimeOut(t)
             \/ FetchToken(t)
      PROVE  Quiet
  <2>1. /\ \E pl \in {"engine", "loop", "checking", "waiting", "expiring", "resumed", "armed"} :
              turn' = [turn EXCEPT ![t] = pl]
        /\ UNCHANGED gateVars /\ UNCHANGED <<act, pid, spent>> /\ UNCHANGED logVars
    BY <1>6, Zenon
       DEF Start, EngineEnds, RegisterSlot, CheckToken, TimeOut, FetchToken, Unaffected
  <2>2. UNCHANGED <<minted, nonces, restarts>>
    BY <2>1, Zenon DEF gateVars, tokenVars
  <2>3. UNCHANGED <<outcome, effects, failures>>
    BY <2>1, Zenon DEF logVars
  <2> QED BY <1>5, <2>1, <2>2, <2>3, Zenon
<1>7. ASSUME NEW t \in Tasks, NEW pl \in {"off", "engine"}, GoTo(t, pl),
             UNCHANGED <<minted, nonces, restarts>>, UNCHANGED logVars
      PROVE  Quiet
  <2>1. /\ turn' = [turn EXCEPT ![t] = pl] /\ act' = [act EXCEPT ![t] = NoAction]
        /\ pid' = [pid EXCEPT ![t] = NoAction] /\ spent' = [spent EXCEPT ![t] = 0]
    BY <1>7, Zenon DEF GoTo
  <2>2. \A u \in Tasks \ {t} : act'[u] = act[u] /\ pid'[u] = pid[u] /\ spent'[u] = spent[u]
    BY <1>0, <2>1, Zenon DEF TurnTypes
  <2>3. UNCHANGED <<outcome, effects, failures>>
    BY <1>7, Zenon DEF logVars
  <2> QED BY <1>5, <1>7, <2>1, <2>2, <2>3, Zenon
<1>8. ASSUME NEW t \in Tasks,
             EngineStops(t) \/ LoopEnds(t) \/ (Wake(t) /\ GoTo(t, "engine")) \/ ExpireCard(t)
      PROVE  Quiet
  <2>1. (\E pl \in {"off", "engine"} : GoTo(t, pl)) /\ UNCHANGED logVars
    BY <1>8, Zenon DEF EngineStops, LoopEnds, EndTurn, Wake, ExpireCard, Unaffected
  <2>2. UNCHANGED <<minted, nonces, restarts>>
    BY <1>8, Zenon DEF EngineStops, LoopEnds, Wake, ExpireCard, Expire, gateVars, tokenVars
  <2> QED BY <1>7, <2>1, <2>2, Zenon
<1>9. ASSUME NEW t \in Tasks, Wake(t), ~GoTo(t, "engine") PROVE Quiet
  <2>1. /\ turn' = [turn EXCEPT ![t] = "resumed"]
        /\ UNCHANGED gateVars /\ UNCHANGED <<act, pid, spent>> /\ UNCHANGED logVars
    BY <1>9, Zenon DEF Wake, Unaffected
  <2>2. UNCHANGED <<minted, nonces, restarts>>
    BY <2>1, Zenon DEF gateVars, tokenVars
  <2>3. UNCHANGED <<outcome, effects, failures>>
    BY <2>1, Zenon DEF logVars
  <2> QED BY <1>5, <2>1, <2>2, <2>3, Zenon
<1>10. ASSUME NEW t \in Tasks, Step(t) PROVE Quiet
  <2>1. CASE (\E a \in Actions : EngineCalls(t, a)) \/ LoopCalls(t) \/ ResumeCalls(t)
    BY <1>3, <2>1, CallsAreCalls, Zenon
  <2>2. ~(EffectHappens(t) \/ RecordOutcome(t) \/ EffectFails(t))
    BY Zenon DEF Loud
  <2>3. CASE \/ Start(t) \/ EngineEnds(t) \/ RegisterSlot(t) \/ CheckToken(t) \/ TimeOut(t)
             \/ FetchToken(t)
    BY <1>6, <2>3, Zenon
  <2>4. CASE EngineStops(t) \/ LoopEnds(t) \/ Wake(t) \/ ExpireCard(t)
    BY <1>8, <1>9, <2>4, Zenon
  <2>5. CASE NoAdapter(t) \/ Sign(t)
    BY <1>4, <2>5, Zenon
  <2> QED BY <1>10, <2>1, <2>2, <2>3, <2>4, <2>5, Zenon DEF Step
<1>11. ASSUME NEW p \in Actions, OwnerApproves(p) PROVE Quiet
  <2>1. /\ minted' = Append(minted, p) /\ UNCHANGED <<nonces, restarts>>
        /\ UNCHANGED turnVars /\ UNCHANGED logVars
    BY <1>11, Zenon DEF OwnerApproves, Approve, Mint, TurnsUnaffected
  <2>2. UNCHANGED <<outcome, effects, failures>>
    BY <2>1, Zenon DEF logVars
  <2>3. minted \in Seq(Actions)
    BY <1>0, Zenon DEF GateInv, GateTypeOK
  <2>4. Len(minted) <= Len(minted') /\ \A k \in Tokens : minted'[k] = minted[k]
    BY <2>1, <2>3 DEF Tokens
  <2> QED BY <1>t, <2>1, <2>2, <2>4, Zenon DEF Quiet
<1>12. ASSUME UNCHANGED turnVars, UNCHANGED logVars, UNCHANGED <<minted, nonces, restarts>>
       PROVE  Quiet
  <2>1. UNCHANGED <<outcome, effects, failures>>
    BY <1>12, Zenon DEF logVars
  <2> QED BY <1>m, <1>t, <1>12, <2>1, Zenon DEF Quiet
<1>13. ASSUME NEW p \in Actions, NEW c,
              OwnerReads(p) \/ OwnerRejects(p) \/ FinishDecision(p, c) \/ Time
       PROVE  Quiet
  <2>1. UNCHANGED turnVars /\ UNCHANGED logVars
    BY <1>13, Zenon DEF OwnerReads, OwnerRejects, FinishDecision, Time, TurnsUnaffected
  <2>2. UNCHANGED <<minted, nonces, restarts>>
    BY <1>13, Zenon
       DEF OwnerReads, OwnerRejects, FinishDecision, Time, RejectReads, RejectWrites,
           Lapse, Age, gateVars, tokenVars
  <2> QED BY <1>12, <2>1, <2>2, Zenon
<1>14. CASE Time
  <2>1. UNCHANGED turnVars /\ UNCHANGED logVars /\ UNCHANGED <<minted, nonces, restarts>>
    BY <1>14, Zenon DEF Time, Lapse, Age, gateVars, tokenVars
  <2> QED BY <1>12, <2>1, Zenon
<1>15. ~Crash
  BY Zenon DEF Loud
<1>16. CASE UNCHANGED dispatchVars
  <2>1. UNCHANGED turnVars /\ UNCHANGED logVars /\ UNCHANGED <<minted, nonces, restarts>>
    BY <1>16, Zenon DEF dispatchVars, gateVars, tokenVars
  <2> QED BY <1>12, <2>1, Zenon
<1> QED BY <1>10, <1>11, <1>13, <1>14, <1>15, <1>16, Zenon DEF DispatchNext

(* A dispatch that passed the gate, spelled out.                           *)
LEMMA IntendFacts ==
  ASSUME TypesInv, NEW t \in Tasks, NEW c, NEW a, NEW id, NEW k,
         Call(t, c, a, id, k), Intend(t, c, a, id, k)
  PROVE  /\ <<id, a>> \in Keys /\ outcome[<<id, a>>] \in {"none", "failed"}
         /\ turn'[t] = "effect" /\ act'[t] = a /\ pid'[t] = id /\ spent'[t] = k
         /\ Key(t)' = <<id, a>>
         /\ \A u \in Tasks \ {t} : /\ turn'[u] = turn[u] /\ act'[u] = act[u]
                                   /\ pid'[u] = pid[u] /\ spent'[u] = spent[u]
                                   /\ Key(u)' = Key(u)
         /\ UNCHANGED <<effects, failures, minted, restarts>>
         /\ a \in Risky => AcceptToken(id, k)
         /\ nonces \subseteq nonces'
<1>1. /\ outcome[<<id, a>>] \in {"none", "failed"}
      /\ outcome' = [outcome EXCEPT ![<<id, a>>] = IF @ = "none" THEN "open" ELSE @]
      /\ turn' = [turn EXCEPT ![t] = "effect"]
      /\ act' = [act EXCEPT ![t] = a]
      /\ pid' = [pid EXCEPT ![t] = id]
      /\ spent' = [spent EXCEPT ![t] = k]
      /\ UNCHANGED <<effects, failures>>
      /\ Cleared(a, id, k)
  BY Zenon DEF Intend
<1>2. TurnTypes
  BY Zenon DEF TypesInv
<1>3. /\ turn'[t] = "effect" /\ act'[t] = a /\ pid'[t] = id /\ spent'[t] = k
      /\ \A u \in Tasks \ {t} : /\ turn'[u] = turn[u] /\ act'[u] = act[u]
                                /\ pid'[u] = pid[u] /\ spent'[u] = spent[u]
  BY <1>1, <1>2, Zenon DEF TurnTypes
<1>4. <<id, a>> \in Keys
  BY Zenon DEF Call, Keys
<1>5. a \in Risky => AcceptToken(id, k)
  BY <1>1, Zenon DEF Cleared
<1>6. UNCHANGED <<minted, restarts>> /\ nonces \subseteq nonces'
  BY <1>1, ClearedFrame, Zenon
<1>7. Key(t)' = <<id, a>> /\ \A u \in Tasks \ {t} : Key(u)' = Key(u)
  BY <1>3, Zenon DEF Key
<1> QED BY <1>1, <1>3, <1>4, <1>5, <1>6, <1>7, Zenon

(* A turn that leaves "effect" or "applied" for pl and keeps its key.      *)
LEMMA PlaceFacts ==
  ASSUME TypesInv, NEW t \in Tasks, EffectHappens(t) \/ RecordOutcome(t) \/ EffectFails(t)
  PROVE  /\ turn[t] \in {"effect", "applied"} /\ Key(t) \in Keys
         /\ \A u \in Tasks : Key(u)' = Key(u) /\ act'[u] = act[u] /\ pid'[u] = pid[u]
                             /\ spent'[u] = spent[u]
         /\ \A u \in Tasks \ {t} : turn'[u] = turn[u]
         /\ EffectHappens(t) => turn'[t] = "applied"
         /\ RecordOutcome(t) \/ EffectFails(t) => turn'[t] \notin {"effect", "applied"}
         /\ UNCHANGED <<minted, nonces, restarts>>
<1>1. /\ turn[t] \in {"effect", "applied"}
      /\ UNCHANGED <<gateVars, queueVars, from, act, pid, tok, spent, todo, proof>>
      /\ \E pl \in {"applied", "signing ok", "signing failed"} :
            /\ turn' = [turn EXCEPT ![t] = pl]
            /\ EffectHappens(t) => pl = "applied"
            /\ RecordOutcome(t) \/ EffectFails(t) => pl # "applied"
  <2>1. CASE EffectHappens(t) /\ ~RecordOutcome(t) /\ ~EffectFails(t)
    BY <2>1, Zenon DEF EffectHappens
  <2>2. CASE RecordOutcome(t) /\ ~EffectHappens(t)
    BY <2>2, Zenon DEF RecordOutcome
  <2>3. CASE EffectFails(t) /\ ~EffectHappens(t)
    BY <2>3, Zenon DEF EffectFails
  <2>4. ~(EffectHappens(t) /\ (RecordOutcome(t) \/ EffectFails(t)))
    <3>1. turn \in [Tasks -> Places]
      BY Zenon DEF TypesInv, TurnTypes
    <3> QED BY <3>1, Zenon DEF EffectHappens, RecordOutcome, EffectFails
  <2> QED BY <2>1, <2>2, <2>3, <2>4, Zenon
<1>2. TurnTypes /\ pid[t] \in Actions /\ act[t] \in Actions
  BY <1>1, TurnFacts, Zenon DEF TypesInv, Dispatching
<1>3. UNCHANGED gateVars /\ UNCHANGED <<act, pid, spent>>
  BY <1>1, Zenon
<1>4. UNCHANGED <<minted, nonces, restarts>>
  BY <1>3, Zenon DEF gateVars, tokenVars
<1> QED BY <1>1, <1>2, <1>3, <1>4, Zenon DEF TurnTypes, Key, Keys

(* A step that is quiet says nothing new to the intent log.                *)
LEMMA QuietKeepsLog ==
  ASSUME TypesInv, LogInv, Quiet
  PROVE  LogInv'
<1>1. UNCHANGED <<outcome, effects>> /\ (failures' = 0 => failures = 0)
  BY Zenon DEF Quiet
<1>2. \A t \in Tasks : turn'[t] \in {"effect", "applied"} => turn'[t] = turn[t] /\ Key(t)' = Key(t)
  BY Zenon DEF Quiet, Key
<1>3. \A i \in DOMAIN effects' : outcome'[effects'[i].key] # "none"
  BY <1>1, Zenon DEF LogInv
<1>4. \A t \in Tasks : turn'[t] \in {"effect", "applied"} => outcome'[Key(t)'] # "none"
  BY <1>1, <1>2, Zenon DEF LogInv
<1>5. \A t \in Tasks : turn'[t] = "applied" => ~Unmade(t)'
  BY <1>1, <1>2, ZenonT(60) DEF LogInv, Unmade
<1>6. ExecutedIsTrue'
  BY <1>1, Zenon DEF LogInv, ExecutedIsTrue
<1>7. ASSUME failures' = 0
      PROVE  /\ \A k \in Keys : outcome'[k] # "failed"
             /\ \A t \in Tasks : turn'[t] = "effect" =>
                   /\ Unmade(t)'
                   /\ \A u \in Tasks : turn'[u] = "effect" /\ Key(u)' = Key(t)' => u = t
  BY <1>1, <1>2, <1>7 DEF LogInv, Unmade
<1>8. AtMostOnceUntilFailure'
  BY <1>1, Zenon DEF LogInv, AtMostOnceUntilFailure
<1> QED BY <1>3, <1>4, <1>5, <1>6, <1>7, <1>8, Zenon DEF LogInv

(* The five steps that are not.                                            *)
LEMMA LoudKeepsLog ==
  ASSUME TypesInv, LogInv, Loud
  PROVE  LogInv'
<1>0. /\ LogTypes /\ DOMAIN effects = 1 .. Len(effects) /\ Len(effects) \in Nat
      /\ \A i \in DOMAIN effects : effects[i].key \in Keys
  BY LedgerTypes, Zenon DEF TypesInv
<1>1. ASSUME NEW t \in Tasks, NEW c, NEW a, NEW id, NEW k,
             Call(t, c, a, id, k), Intend(t, c, a, id, k)
      PROVE  LogInv'
  <2> DEFINE x == <<id, a>>
  <2>1. /\ x \in Keys /\ outcome[x] \in {"none", "failed"}
        /\ turn'[t] = "effect" /\ Key(t)' = x
        /\ \A u \in Tasks \ {t} : turn'[u] = turn[u] /\ Key(u)' = Key(u)
        /\ UNCHANGED <<effects, failures>>
    BY <1>1, IntendFacts, SMTT(30) DEF Key
  <2>o. outcome' = [outcome EXCEPT ![<<id, a>>] = IF @ = "none" THEN "open" ELSE @]
    BY <1>1, Zenon DEF Intend
  <2>2. /\ outcome'[x] \in {"open", "failed"} /\ outcome'[x] # "none"
        /\ outcome[x] = "none" => outcome'[x] = "open"
        /\ \A y \in Keys : y # x => outcome'[y] = outcome[y]
    BY <1>0, <2>1, <2>o, Zenon DEF LogTypes
  <2> HIDE DEF x
  <2>k. \A u \in Tasks : turn[u] \in {"effect", "applied"} => Key(u) \in Keys
    BY TurnFacts, Zenon DEF Dispatching, Key, Keys
  <2>3. \A i \in DOMAIN effects' : outcome'[effects'[i].key] # "none"
    BY <1>0, <2>1, <2>2, Zenon DEF LogInv
  <2>4. \A u \in Tasks : turn'[u] \in {"effect", "applied"} => outcome'[Key(u)'] # "none"
    BY <2>1, <2>2, <2>k, Zenon DEF LogInv
  <2>5. \A u \in Tasks : turn'[u] = "applied" => ~Unmade(u)'
    BY <2>1, Zenon DEF LogInv, Unmade
  <2>6. ExecutedIsTrue'
    BY <2>1, <2>2, Zenon DEF LogInv, ExecutedIsTrue
  <2>7. ASSUME failures' = 0
        PROVE  /\ \A y \in Keys : outcome'[y] # "failed"
               /\ \A u \in Tasks : turn'[u] = "effect" =>
                     /\ Unmade(u)'
                     /\ \A v \in Tasks : turn'[v] = "effect" /\ Key(v)' = Key(u)' => v = u
    <3>1. outcome[x] = "none" /\ failures = 0
      BY <2>1, <2>7, Zenon DEF LogInv
    <3>2. \A y \in Keys : outcome'[y] # "failed"
      BY <2>2, <3>1, Zenon DEF LogInv
    <3>3. \A i \in DOMAIN effects : effects[i].key # x
      BY <3>1, Zenon DEF LogInv
    <3>4. \A u \in Tasks : turn[u] = "effect" => Key(u) # x
      BY <3>1, Zenon DEF LogInv
    <3>5. ASSUME NEW u \in Tasks, turn'[u] = "effect" PROVE Unmade(u)'
      <4>1. CASE u = t
        BY <2>1, <3>3, <4>1, Zenon DEF Unmade
      <4>2. CASE u # t
        BY <2>1, <3>1, <3>5, <4>2, ZenonT(60) DEF LogInv, Unmade
      <4> QED BY <4>1, <4>2, Zenon
    <3>6. ASSUME NEW u \in Tasks, NEW v \in Tasks, turn'[u] = "effect", turn'[v] = "effect",
                 Key(v)' = Key(u)'
          PROVE  v = u
      BY <2>1, <3>1, <3>4, <3>6 DEF LogInv
    <3> QED BY <3>2, <3>5, <3>6, Zenon
  <2>8. AtMostOnceUntilFailure'
    BY <2>1, Zenon DEF LogInv, AtMostOnceUntilFailure
  <2> QED BY <2>3, <2>4, <2>5, <2>6, <2>7, <2>8, Zenon DEF LogInv
<1>2. ASSUME NEW t \in Tasks, EffectHappens(t) PROVE LogInv'
  <2> DEFINE n == Len(effects)
  <2>1. /\ n \in Nat /\ DOMAIN effects = 1 .. n /\ DOMAIN effects' = 1 .. n + 1
        /\ \A i \in 1 .. n : effects'[i] = effects[i]
        /\ effects'[n + 1].key = Key(t) /\ Key(t) \in Keys
    BY <1>2, LedgerGrows, Zenon
  <2>2. /\ \A u \in Tasks : Key(u)' = Key(u)
        /\ \A u \in Tasks \ {t} : turn'[u] = turn[u]
        /\ turn'[t] = "applied"
    BY <1>2, PlaceFacts, Zenon
  <2>3. turn[t] = "effect" /\ UNCHANGED <<outcome, failures>>
    BY <1>2, Zenon DEF EffectHappens
  <2> HIDE DEF n
  <2>4. ASSUME NEW i \in DOMAIN effects'
        PROVE  /\ outcome'[effects'[i].key] # "none"
               /\ effects'[i].key = Key(t) \/ \E j \in DOMAIN effects : effects[j].key = effects'[i].key
    <3>1. CASE i = n + 1
      BY <2>1, <2>3, <3>1, Zenon DEF LogInv
    <3>2. CASE i \in 1 .. n
      BY <2>1, <2>3, <3>2, Zenon DEF LogInv
    <3> QED BY <2>1, <3>1, <3>2, OneMore, Zenon
  <2>5. \A u \in Tasks : turn'[u] \in {"effect", "applied"} => outcome'[Key(u)'] # "none"
    BY <2>2, <2>3, Zenon DEF LogInv
  <2>6. \A y : (\E i \in DOMAIN effects : effects[i].key = y) \/ y = Key(t)
               <=> (\E i \in DOMAIN effects' : effects'[i].key = y)
    <3>1. n + 1 \in DOMAIN effects' /\ \A i \in DOMAIN effects : i \in DOMAIN effects'
      BY <2>1
    <3> QED BY <2>1, <2>4, <3>1, Zenon
  <2>7. \A u \in Tasks : turn'[u] = "applied" => ~Unmade(u)'
    BY <2>2, <2>6 DEF LogInv, Unmade
  <2>8. ExecutedIsTrue'
    BY <2>3, <2>6, Zenon DEF LogInv, ExecutedIsTrue
  <2>9. ASSUME failures' = 0
        PROVE  /\ \A y \in Keys : outcome'[y] # "failed"
               /\ \A u \in Tasks : turn'[u] = "effect" =>
                     /\ Unmade(u)'
                     /\ \A v \in Tasks : turn'[v] = "effect" /\ Key(v)' = Key(u)' => v = u
               /\ \A i, j \in DOMAIN effects' : effects'[i].key = effects'[j].key => i = j
    <3>1. failures = 0
      BY <2>3, <2>9, Zenon
    <3>2. \A y \in Keys : outcome'[y] # "failed"
      BY <2>3, <3>1, Zenon DEF LogInv
    <3>3. \A u \in Tasks : turn'[u] = "effect" => u # t /\ turn[u] = "effect" /\ Key(u) # Key(t)
      BY <2>2, <2>3, <3>1, Zenon DEF LogInv
    <3>4. ASSUME NEW u \in Tasks, turn'[u] = "effect" PROVE Unmade(u)'
      <4>1. Unmade(u) /\ Key(u) # Key(t) /\ Key(u)' = Key(u)
        BY <2>2, <3>1, <3>3, <3>4, Zenon DEF LogInv
      <4> QED BY <2>6, <4>1, Zenon DEF Unmade
    <3>5. ASSUME NEW u \in Tasks, NEW v \in Tasks, turn'[u] = "effect", turn'[v] = "effect",
                 Key(v)' = Key(u)'
          PROVE  v = u
      BY <2>2, <3>1, <3>3, <3>5 DEF LogInv
    <3>6. \A i \in 1 .. n : effects[i].key # Key(t)
      BY <2>1, <2>3, <3>1, Zenon DEF LogInv, Unmade
    <3>7. ASSUME NEW i \in 1 .. n + 1, NEW j \in 1 .. n + 1, effects'[i].key = effects'[j].key
          PROVE  i = j
      <4>1. CASE i = n + 1
        BY <2>1, <3>6, <3>7, <4>1
      <4>2. CASE j = n + 1
        BY <2>1, <3>6, <3>7, <4>2
      <4>3. CASE i \in 1 .. n /\ j \in 1 .. n
        BY <2>1, <3>1, <3>7, <4>3, Zenon DEF LogInv, AtMostOnceUntilFailure
      <4> QED BY <2>1, <4>1, <4>2, <4>3
    <3> QED BY <2>1, <3>2, <3>4, <3>5, <3>7, Zenon
  <2> QED BY <2>4, <2>5, <2>7, <2>8, <2>9, Zenon DEF LogInv, AtMostOnceUntilFailure
<1>3. ASSUME NEW t \in Tasks, RecordOutcome(t) \/ EffectFails(t) PROVE LogInv'
  <2>1. /\ Key(t) \in Keys
        /\ \A u \in Tasks : Key(u)' = Key(u)
        /\ \A u \in Tasks \ {t} : turn'[u] = turn[u]
        /\ turn'[t] \notin {"effect", "applied"}
    BY <1>3, PlaceFacts, Zenon
  <2>2. /\ UNCHANGED effects
        /\ \/ /\ outcome' = [outcome EXCEPT ![Key(t)] = "executed"]
              /\ turn[t] = "applied" /\ UNCHANGED failures
           \/ /\ outcome' = [outcome EXCEPT ![Key(t)] = "failed"]
              /\ failures' = failures + 1
    BY <1>3, Zenon DEF RecordOutcome, EffectFails
  <2>3. failures \in Nat
    BY <1>0 DEF LogTypes
  <2>4. /\ outcome'[Key(t)] # "none"
        /\ \A y \in Keys : y # Key(t) => outcome'[y] = outcome[y]
        /\ outcome'[Key(t)] = "executed" => turn[t] = "applied"
        /\ failures' = 0 => failures = 0 /\ outcome'[Key(t)] = "executed"
    BY <1>0, <2>1, <2>2, <2>3 DEF LogTypes
  <2>k. \A u \in Tasks : turn[u] \in {"effect", "applied"} => Key(u) \in Keys
    BY TurnFacts, Zenon DEF Dispatching, Key, Keys
  <2>u. \A u \in Tasks : turn'[u] \in {"effect", "applied"} =>
           turn'[u] = turn[u] /\ Key(u)' = Key(u) /\ Key(u) \in Keys
    BY <2>1, <2>k, Zenon
  <2>5. \A i \in DOMAIN effects' : outcome'[effects'[i].key] # "none"
    BY <1>0, <2>2, <2>4, Zenon DEF LogInv
  <2>6. \A u \in Tasks : turn'[u] \in {"effect", "applied"} => outcome'[Key(u)'] # "none"
    BY <2>4, <2>u, ZenonT(60) DEF LogInv
  <2>7. \A u \in Tasks : turn'[u] = "applied" => ~Unmade(u)'
    BY <2>2, <2>u DEF LogInv, Unmade
  <2>8. ExecutedIsTrue'
    BY <2>2, <2>4, Zenon DEF LogInv, ExecutedIsTrue, Unmade
  <2>9. ASSUME failures' = 0
        PROVE  /\ \A y \in Keys : outcome'[y] # "failed"
               /\ \A u \in Tasks : turn'[u] = "effect" =>
                     /\ Unmade(u)'
                     /\ \A v \in Tasks : turn'[v] = "effect" /\ Key(v)' = Key(u)' => v = u
    BY <2>2, <2>4, <2>9, <2>u DEF LogInv, Unmade
  <2>10. AtMostOnceUntilFailure'
    BY <2>2, <2>4, Zenon DEF LogInv, AtMostOnceUntilFailure
  <2> QED BY <2>5, <2>6, <2>7, <2>8, <2>9, <2>10, Zenon DEF LogInv
<1>4. CASE Crash
  <2>1. UNCHANGED <<outcome, effects, failures>> /\ \A t \in Tasks : turn'[t] = "off"
    BY <1>4, Zenon DEF Crash, logVars
  <2> QED BY <2>1, Zenon DEF LogInv, ExecutedIsTrue, AtMostOnceUntilFailure
<1> QED BY <1>1, <1>2, <1>3, <1>4, Zenon DEF Loud

(* A quiet step leaves every payment where it was.                         *)
LEMMA QuietKeepsPay ==
  ASSUME TypesInv, PayInv, Quiet
  PROVE  PayInv'
<1>1. /\ effects' = effects /\ restarts' = restarts /\ nonces \subseteq nonces'
      /\ Len(minted) <= Len(minted')
      /\ \A k \in Tokens : minted'[k] = minted[k]
  BY Zenon DEF Quiet
<1>2. Len(minted) \in Nat
  BY TypesFacts, Zenon
<1>4. \A t \in Tasks : turn'[t] = "effect" =>
         turn[t] = "effect" /\ act'[t] = act[t] /\ pid'[t] = pid[t] /\ spent'[t] = spent[t]
  BY Zenon DEF Quiet
<1>5. \A k \in Tokens : k \in Tokens'
  BY <1>1, <1>2 DEF Tokens
<1>6. ASSUME NEW t \in Tasks, turn'[t] = "effect", act'[t] \in Risky PROVE Pays(t)'
  <2>1. Pays(t)
    BY <1>4, <1>6, Zenon DEF PayInv
  <2> QED BY <1>1, <1>4, <1>5, <1>6, <2>1, Zenon DEF Pays
<1>7. EffectsNeedApprovals'
  BY <1>1, <1>5, Zenon DEF PayInv, EffectsNeedApprovals
<1> QED BY <1>1, <1>6, <1>7, Zenon DEF PayInv

(* The key of the intent log is the proposal id with the action.           *)
LEMMA KeyParts == \A t : Key(t)[1] = pid[t] /\ Key(t)[2] = act[t]
  BY Zenon DEF Key

(* The five steps that are not.  verify_token accepts no nonce twice, so   *)
(* the token that starts an effect is none that this daemon has seen.      *)
LEMMA LoudKeepsPay ==
  ASSUME TypesInv, PayInv, Loud
  PROVE  PayInv'
<1>0. /\ LogTypes /\ DOMAIN effects = 1 .. Len(effects) /\ Len(effects) \in Nat
      /\ \A i \in DOMAIN effects : effects[i].token \in Nat /\ effects[i].life \in Nat
  BY LedgerTypes, Zenon DEF TypesInv
<1>1. ASSUME NEW t \in Tasks, NEW c, NEW a, NEW id, NEW k,
             Call(t, c, a, id, k), Intend(t, c, a, id, k)
      PROVE  PayInv'
  <2>1. /\ turn'[t] = "effect" /\ act'[t] = a /\ pid'[t] = id /\ spent'[t] = k
        /\ \A u \in Tasks \ {t} : /\ turn'[u] = turn[u] /\ act'[u] = act[u]
                                  /\ pid'[u] = pid[u] /\ spent'[u] = spent[u]
        /\ effects' = effects /\ minted' = minted /\ restarts' = restarts
        /\ nonces \subseteq nonces'
    <3>0. /\ turn' = [turn EXCEPT ![t] = "effect"] /\ act' = [act EXCEPT ![t] = a]
          /\ pid' = [pid EXCEPT ![t] = id] /\ spent' = [spent EXCEPT ![t] = k]
      BY <1>1, Zenon DEF Intend
    <3>1. turn'[t] = "effect" /\ act'[t] = a /\ pid'[t] = id /\ spent'[t] = k
      BY <3>0, Zenon DEF TypesInv, TurnTypes
    <3>2. \A u \in Tasks \ {t} : /\ turn'[u] = turn[u] /\ act'[u] = act[u]
                                 /\ pid'[u] = pid[u] /\ spent'[u] = spent[u]
      BY <3>0, Zenon DEF TypesInv, TurnTypes
    <3>3. effects' = effects /\ minted' = minted /\ restarts' = restarts
      BY <1>1, IntendFacts, Zenon
    <3>4. nonces \subseteq nonces'
      BY <1>1, IntendFacts, Zenon
    <3> QED BY <3>1, <3>2, <3>3, <3>4, Zenon
  <2>2. a \in Risky => /\ k \in Tokens /\ minted[k] = id
                       /\ k \notin nonces /\ k \in nonces'
    <3>1. a \in Risky => AcceptToken(id, k)
      BY <1>1, Zenon DEF Intend, Cleared
    <3> QED BY <3>1, Zenon DEF AcceptToken, Authentic
  <2>3. Tokens' = Tokens
    BY <2>1, Zenon DEF Tokens
  <2>4. ASSUME NEW u \in Tasks, turn'[u] = "effect", act'[u] \in Risky PROVE Pays(u)'
    <3>1. \A v \in Tasks \ {t} : turn'[v] = "effect" /\ act'[v] \in Risky => Pays(v)
      BY <2>1, Zenon DEF PayInv
    <3>2. CASE u = t
      <4>1. /\ spent'[t] \in Tokens' /\ minted'[spent'[t]] = pid'[t] /\ spent'[t] \in nonces'
            /\ spent'[t] \notin nonces
        BY <2>1, <2>2, <2>3, <2>4, <3>2, Zenon
      <4>2. \A i \in DOMAIN effects' :
               effects'[i].key[2] \in Risky /\ effects'[i].life = restarts'
               => effects'[i].token # spent'[t]
        BY <2>1, <4>1, Zenon DEF PayInv
      <4>3. ASSUME NEW v \in Tasks, v # t, turn'[v] = "effect", act'[v] \in Risky
            PROVE  spent'[v] # spent'[t]
        <5>1. Pays(v) /\ spent'[v] = spent[v]
          BY <2>1, <3>1, <4>3, Zenon
        <5> QED BY <4>1, <5>1, Zenon DEF Pays
      <4> QED BY <3>2, <4>1, <4>2, <4>3, Zenon DEF Pays
    <3>3. CASE u # t
      <4>1. /\ Pays(u) /\ turn[u] = "effect" /\ act[u] \in Risky
            /\ spent'[u] = spent[u] /\ pid'[u] = pid[u]
        BY <2>1, <2>4, <3>1, <3>3, Zenon
      <4>2. /\ spent'[u] \in Tokens' /\ minted'[spent'[u]] = pid'[u] /\ spent'[u] \in nonces'
            /\ \A i \in DOMAIN effects' :
                  effects'[i].key[2] \in Risky /\ effects'[i].life = restarts'
                  => effects'[i].token # spent'[u]
        BY <2>1, <2>3, <4>1, Zenon DEF Pays
      <4>3. ASSUME NEW v \in Tasks, turn'[v] = "effect", act'[v] \in Risky,
                   spent'[v] = spent'[u]
            PROVE  v = u
        <5>1. v # t
          BY <2>1, <2>2, <4>1, <4>3, Zenon DEF Pays
        <5> QED BY <2>1, <4>1, <4>3, <5>1, Zenon DEF Pays
      <4> QED BY <4>2, <4>3, Zenon DEF Pays
    <3> QED BY <3>2, <3>3, Zenon
  <2>5. EffectsNeedApprovals'
    BY <2>1, <2>3, Zenon DEF PayInv, EffectsNeedApprovals
  <2> QED BY <2>1, <2>4, <2>5, Zenon DEF PayInv
<1>2. ASSUME NEW t \in Tasks, EffectHappens(t) PROVE PayInv'
  <2> DEFINE n == Len(effects)
  <2>1. /\ n \in Nat /\ DOMAIN effects = 1 .. n /\ DOMAIN effects' = 1 .. n + 1
        /\ \A i \in 1 .. n : effects'[i] = effects[i]
        /\ effects'[n + 1].key = Key(t) /\ effects'[n + 1].token = spent[t]
        /\ effects'[n + 1].life = restarts
    BY <1>2, LedgerGrows, Zenon
  <2>2. /\ \A u \in Tasks : act'[u] = act[u] /\ pid'[u] = pid[u] /\ spent'[u] = spent[u]
        /\ \A u \in Tasks \ {t} : turn'[u] = turn[u]
        /\ turn'[t] = "applied" /\ turn[t] = "effect"
        /\ minted' = minted /\ nonces' = nonces /\ restarts' = restarts
    BY <1>2, PlaceFacts, Zenon DEF EffectHappens
  <2>3. effects'[n + 1].key[1] = pid[t] /\ effects'[n + 1].key[2] = act[t]
    BY <2>1, KeyParts, Zenon
  <2>4. Tokens' = Tokens
    BY <2>2, Zenon DEF Tokens
  <2> HIDE DEF n
  <2>5. act[t] \in Risky => Pays(t)
    BY <2>2, Zenon DEF PayInv
  <2>6. ASSUME NEW u \in Tasks, turn'[u] = "effect", act'[u] \in Risky PROVE Pays(u)'
    <3>1. u # t /\ turn[u] = "effect" /\ act[u] \in Risky /\ Pays(u)
      BY <2>2, <2>6, Zenon DEF PayInv
    <3>2. act[t] \in Risky => spent[t] # spent[u]
      BY <2>2, <3>1, Zenon DEF Pays
    <3>3. ASSUME NEW i \in 1 .. n + 1, effects'[i].key[2] \in Risky,
                 effects'[i].life = restarts
          PROVE  effects'[i].token # spent[u]
      <4>1. CASE i = n + 1
        BY <2>1, <2>3, <3>2, <3>3, <4>1, Zenon
      <4>2. CASE i \in 1 .. n
        BY <2>1, <3>1, <3>3, <4>2, Zenon DEF Pays
      <4> QED BY <2>1, <4>1, <4>2, OneMore, Zenon
    <3> QED BY <2>1, <2>2, <2>4, <3>1, <3>3, Zenon DEF Pays
  <2>7. ASSUME NEW i \in 1 .. n + 1, effects'[i].key[2] \in Risky,
               effects'[i].life = restarts
        PROVE  effects'[i].token \in nonces
    <3>1. CASE i = n + 1
      BY <2>1, <2>3, <2>5, <2>7, <3>1, Zenon DEF Pays
    <3>2. CASE i \in 1 .. n
      BY <2>1, <2>7, <3>2, Zenon DEF PayInv
    <3> QED BY <2>1, <3>1, <3>2, OneMore, Zenon
  <2>8. ASSUME NEW i \in 1 .. n + 1, effects'[i].key[2] \in Risky
        PROVE  /\ effects'[i].token \in Tokens
               /\ minted[effects'[i].token] = effects'[i].key[1]
    <3>1. CASE i = n + 1
      BY <2>1, <2>3, <2>5, <2>8, <3>1, Zenon DEF Pays
    <3>2. CASE i \in 1 .. n
      BY <2>1, <2>8, <3>2, Zenon DEF PayInv, EffectsNeedApprovals
    <3> QED BY <2>1, <3>1, <3>2, OneMore, Zenon
  <2>9. ASSUME NEW i \in 1 .. n + 1, effects'[i].key[2] \in Risky,
               NEW j \in 1 .. n + 1, effects'[j].key[2] \in Risky,
               effects'[j].token = effects'[i].token, effects'[j].life = effects'[i].life
        PROVE  i = j
    <3>1. CASE i = n + 1 /\ j \in 1 .. n
      BY <2>1, <2>3, <2>5, <2>9, <3>1, Zenon DEF Pays
    <3>2. CASE j = n + 1 /\ i \in 1 .. n
      BY <2>1, <2>3, <2>5, <2>9, <3>2, Zenon DEF Pays
    <3>3. CASE i \in 1 .. n /\ j \in 1 .. n
      BY <2>1, <2>9, <3>3, ZenonT(60) DEF PayInv, EffectsNeedApprovals
    <3> QED BY <2>1, <3>1, <3>2, <3>3, OneMore, Zenon
  <2>10. EffectsNeedApprovals'
    BY <2>1, <2>2, <2>4, <2>8, <2>9, Zenon DEF EffectsNeedApprovals
  <2> QED BY <2>1, <2>2, <2>6, <2>7, <2>10, Zenon DEF PayInv
<1>3. ASSUME NEW t \in Tasks, RecordOutcome(t) \/ EffectFails(t) PROVE PayInv'
  <2>1. /\ \A u \in Tasks : act'[u] = act[u] /\ pid'[u] = pid[u] /\ spent'[u] = spent[u]
        /\ \A u \in Tasks : turn'[u] = "effect" => turn[u] = "effect"
        /\ minted' = minted /\ nonces' = nonces /\ restarts' = restarts
    BY <1>3, PlaceFacts, Zenon
  <2>2. effects' = effects
    BY <1>3, Zenon DEF RecordOutcome, EffectFails
  <2>3. Tokens' = Tokens
    BY <2>1, Zenon DEF Tokens
  <2>4. ASSUME NEW u \in Tasks, turn'[u] = "effect", act'[u] \in Risky PROVE Pays(u)'
    <3>1. Pays(u)
      BY <2>1, <2>4, Zenon DEF PayInv
    <3> QED BY <2>1, <2>2, <2>3, <3>1, Zenon DEF Pays
  <2>5. EffectsNeedApprovals'
    BY <2>1, <2>2, <2>3, Zenon DEF PayInv, EffectsNeedApprovals
  <2> QED BY <2>1, <2>2, <2>4, <2>5, Zenon DEF PayInv
<1>4. CASE Crash
  <2>1. /\ effects' = effects /\ minted' = minted /\ restarts' = restarts + 1
        /\ \A t \in Tasks : turn'[t] = "off"
    BY <1>4, Zenon DEF Crash, Restart, logVars
  <2>2. restarts \in Nat /\ Tokens' = Tokens
    BY <2>1, TypesFacts, Zenon DEF Tokens
  <2>3. \A i \in DOMAIN effects : effects[i].life <= restarts
    BY Zenon DEF TypesInv, Minted
  <2>4. \A i \in DOMAIN effects' : effects'[i].life # restarts'
    BY <1>0, <2>1, <2>2, <2>3
  <2>5. EffectsNeedApprovals'
    BY <2>1, <2>2, Zenon DEF PayInv, EffectsNeedApprovals
  <2> QED BY <2>1, <2>4, <2>5, Zenon DEF PayInv
<1> QED BY <1>1, <1>2, <1>3, <1>4, Zenon DEF Loud

(* Only an approval makes an action usable that was not.                   *)
LEMMA OnlyMintRevives ==
  ASSUME GateInv, GateMove, UNCHANGED minted
  PROVE  \A q \in Actions : LiveToken(q)' # 0 => LiveToken(q) # 0
<1> DEFINE Same == /\ \A q \in Actions : status'[q] = "approved" =>
                         status[q] = "approved" /\ hmac'[q] = hmac[q]
                   /\ lapsed \subseteq lapsed'
<1>0. /\ status \in [Actions -> RowStates] /\ hmac \in [Actions -> 0 .. Len(minted)]
      /\ minted \in Seq(Actions)
  BY Zenon DEF GateInv, GateTypeOK
<1>1. ASSUME NEW p \in Actions, NEW t, PutRow(p, t), UNCHANGED lapsed PROVE Same
  <2>1. CASE InsertRow(p, t)
    BY <1>0, <1>1, <2>1, Zenon DEF InsertRow
  <2>2. CASE CountAttempt(p, t) /\ status[p] = "pending"
    BY <1>0, <1>1, <2>2, Zenon DEF CountAttempt
  <2>3. CASE UNCHANGED rowVars
    BY <1>1, <2>3, Zenon DEF rowVars
  <2> QED BY <1>1, <2>1, <2>2, <2>3, Zenon DEF PutRow
<1>2. ASSUME NEW p \in Actions PROVE ~Mint(p)
  BY <1>0 DEF Mint
<1>3. ASSUME NEW p \in Actions, RejectWrites(p) PROVE Same
  BY <1>0, <1>3, Zenon DEF RejectWrites, tokenVars
<1>4. ASSUME NEW p \in Actions, Expire(p) PROVE Same
  BY <1>0, <1>4, Zenon DEF Expire, tokenVars
<1>5. ASSUME UNCHANGED <<status, hmac>>, lapsed \subseteq lapsed' PROVE Same
  BY <1>5, Zenon
<1>6. ASSUME NEW p \in Actions, RejectReads(p) \/ Fetch(p) \/ Age(p) PROVE Same
  <2>1. UNCHANGED <<status, hmac, lapsed>>
    BY <1>6, Zenon DEF RejectReads, Fetch, Age, rowVars, tokenVars
  <2> QED BY <1>5, <2>1, Zenon
<1>7. ASSUME NEW p \in Actions, NEW k \in Tokens, AcceptToken(p, k) \/ RefuseToken(p, k)
      PROVE  Same
  <2>1. UNCHANGED <<status, hmac, lapsed>>
    BY <1>7, Zenon DEF AcceptToken, RefuseToken, rowVars
  <2> QED BY <1>5, <2>1, Zenon
<1>8. ASSUME NEW k \in Tokens, Lapse(k) PROVE Same
  BY <1>5, <1>8, Zenon DEF Lapse, rowVars
<1>9. ASSUME Restart \/ UNCHANGED gateVars PROVE Same
  <2>1. UNCHANGED <<status, hmac, lapsed>>
    BY <1>9, Zenon DEF Restart, gateVars, rowVars, tokenVars
  <2> QED BY <1>5, <2>1, Zenon
<1>10. Same
  <2> HIDE DEF Same
  <2>1. ASSUME NEW p \in Actions, NEW t, PutRow(p, t),
               UNCHANGED <<minted, lapsed, held, accepted, denying, restarts>>
        PROVE  Same
    BY <1>1, <2>1, Zenon
  <2> QED BY <1>2, <1>3, <1>4, <1>6, <1>7, <1>8, <1>9, <2>1, Zenon DEF GateMove
<1> QED BY <1>10, Zenon DEF LiveToken

(* _register_pending_event before the look at the mailbox, and the signal  *)
(* after the approval: whichever comes last finds the other.               *)
LEMMA ApprovalStep ==
  TypesInv /\ NoLostApproval /\ [DispatchNext]_dispatchVars => NoLostApproval'
<1> SUFFICES ASSUME TypesInv, NoLostApproval, [DispatchNext]_dispatchVars
             PROVE  NoLostApproval'
  OBVIOUS
<1> DEFINE Sleeps(u) == turn[u] = "waiting" /\ slot[u] = "none"
           NoSleeper == \A u \in Tasks : turn'[u] = "waiting" /\ slot'[u] = "none" =>
                           Sleeps(u) /\ act'[u] = act[u]
<1>0. GateInv /\ QueueTypes /\ TurnTypes /\ SignalTypes /\ LogTypes /\ Placed /\ Minted
  BY Zenon DEF TypesInv
<1>w. \A u \in Tasks : turn[u] = "waiting" => act[u] \in Actions
  BY <1>0, Zenon DEF Placed, About
<1>1. ASSUME NoSleeper, deciding \subseteq deciding', UNCHANGED minted PROVE NoLostApproval'
  <2>1. \A q \in Actions : LiveToken(q)' # 0 => LiveToken(q) # 0
    BY <1>0, <1>1, OnlyMintRevives, StepMoves, Zenon
  <2>2. \A u \in Tasks : turn'[u] = "waiting" /\ slot'[u] = "none" =>
           Sleeps(u) /\ act'[u] = act[u] /\ act[u] \in Actions
    BY <1>1, <1>w, Zenon
  <2>3. ASSUME NEW u \in Tasks, turn'[u] = "waiting", slot'[u] = "none",
               LiveToken(act[u])' # 0
        PROVE  <<act'[u], "approved">> \in deciding'
    <3>1. Sleeps(u) /\ act'[u] = act[u] /\ act[u] \in Actions
      BY <2>2, <2>3, Zenon
    <3>2. PICK q \in Actions : q = act[u]
      BY <3>1, Zenon
    <3>3. LiveToken(q)' # 0
      BY <2>3, <3>1, <3>2, Zenon DEF LiveToken
    <3>4. LiveToken(act[u]) # 0
      BY <2>1, <3>2, <3>3, Zenon
    <3>5. <<act[u], "approved">> \in deciding
      BY <3>1, <3>4, Zenon DEF NoLostApproval
    <3> QED BY <1>1, <3>1, <3>5, Zenon
  <2> QED BY <2>3, Zenon DEF NoLostApproval
<1> HIDE DEF NoSleeper
<1>2. ASSUME NEW t \in Tasks, Others(t), turn'[t] # "waiting", UNCHANGED slot PROVE NoSleeper
  BY <1>2, Zenon DEF Others, NoSleeper
<1>3. ASSUME NEW t \in Tasks, NEW a \in Actions, NEW c \in {"engine", "resume", "loop"}, NEW r,
             c = "loop" => todo[t] # << >>,
             c = "loop" /\ tok[t] # 0 => parkedOn[t] \in Actions,
             CallerGets(t, c, a, r),
             UNCHANGED <<minted, restarts, effects>>, UNCHANGED signalVars
      PROVE  NoLostApproval'
  <2>1. UNCHANGED <<minted, effects, restarts>> /\ UNCHANGED <<slot, deciding>>
    BY <1>3, Zenon DEF signalVars
  <2>2. Others(t) /\ turn'[t] \in {"off", "engine", "asked", "loop"}
    BY <1>0, <1>3, <2>1, CallerKeepsTypes, Zenon
  <2> QED BY <1>1, <1>2, <2>1, <2>2, Zenon
<1>4. ASSUME NEW t \in Tasks, NEW c, NEW a, NEW id, NEW k,
             Call(t, c, a, id, k), Dispatch(t, c, a, id, k)
      PROVE  NoLostApproval'
  <2>0. /\ c \in {"engine", "resume", "loop"} /\ a \in Actions
        /\ c = "loop" => todo[t] # << >>
        /\ c = "loop" /\ tok[t] # 0 => parkedOn[t] \in Actions
    BY <1>4, Zenon DEF Call
  <2>1. CASE Refused(t, c, a) \/ Gated(t, c, a, id, k) \/ Known(t, c, a, id, k)
    <3>1. PICK r : CallerGets(t, c, a, r)
      BY <2>1, Zenon DEF Refused, Gated, Known
    <3>2. UNCHANGED signalVars /\ UNCHANGED effects
      BY <2>1, Zenon DEF Refused, Gated, Known, logVars
    <3>3. UNCHANGED <<minted, restarts>>
      <4>1. CASE Refused(t, c, a) \/ Gated(t, c, a, id, k)
        BY <4>1, Zenon DEF Refused, Gated, gateVars, tokenVars
      <4>2. CASE Known(t, c, a, id, k)
        <5>1. Cleared(a, id, k)
          BY <4>2, Zenon DEF Known
        <5> QED BY <5>1, ClearedFrame, Zenon
      <4> QED BY <2>1, <4>1, <4>2, Zenon
    <3> QED BY <1>3, <2>0, <3>1, <3>2, <3>3, Zenon
  <2>2. CASE Intend(t, c, a, id, k)
    <3>1. /\ turn' = [turn EXCEPT ![t] = "effect"] /\ act' = [act EXCEPT ![t] = a]
          /\ UNCHANGED signalVars /\ Cleared(a, id, k)
      BY <2>2, Zenon DEF Intend
    <3>2. UNCHANGED minted /\ UNCHANGED <<slot, deciding>>
      BY <3>1, ClearedFrame, Zenon DEF signalVars
    <3>3. NoSleeper
      BY <1>0, <3>1, <3>2, Zenon DEF TurnTypes, NoSleeper
    <3> QED BY <1>1, <3>2, <3>3, Zenon
  <2> QED BY <1>4, <2>1, <2>2, Zenon DEF Dispatch
<1>5. ASSUME NEW t \in Tasks, NoAdapter(t) \/ Sign(t) PROVE NoLostApproval'
  <2>1. PICK r : CallerGets(t, from[t], act[t], r)
    BY <1>5, Zenon DEF NoAdapter, Sign
  <2>2. turn[t] \in Dispatching
    BY <1>5, Zenon DEF NoAdapter, Sign, Dispatching
  <2>3. /\ from[t] \in {"engine", "resume", "loop"} /\ act[t] \in Actions
        /\ from[t] = "loop" => todo[t] # << >>
        /\ from[t] = "loop" /\ tok[t] # 0 => parkedOn[t] \in Actions
    BY <2>2, TurnFacts, Zenon
  <2>4. UNCHANGED gateVars /\ UNCHANGED signalVars /\ UNCHANGED effects
    BY <1>5, Zenon DEF NoAdapter, Sign, logVars
  <2>5. UNCHANGED <<minted, restarts>>
    BY <2>4, Zenon DEF gateVars, tokenVars
  <2> QED BY <1>3, <2>1, <2>3, <2>4, <2>5, Zenon
<1>6. ASSUME NEW t \in Tasks, NEW pl \in Places \ {"waiting"}, turn' = [turn EXCEPT ![t] = pl],
             \A u \in Tasks \ {t} : act'[u] = act[u] /\ slot'[u] = slot[u],
             UNCHANGED <<minted, deciding>>
      PROVE  NoLostApproval'
  <2>1. NoSleeper
    BY <1>0, <1>6, Zenon DEF TurnTypes, NoSleeper
  <2> QED BY <1>1, <1>6, <2>1, Zenon
<1>7. ASSUME NEW t \in Tasks,
             \/ Start(t) \/ EngineEnds(t) \/ TimeOut(t) \/ FetchToken(t)
             \/ EffectHappens(t) \/ RecordOutcome(t) \/ EffectFails(t)
      PROVE  NoLostApproval'
  <2>1. /\ \E pl \in {"engine", "loop", "expiring", "armed", "applied", "signing ok",
                      "signing failed"} : turn' = [turn EXCEPT ![t] = pl]
        /\ UNCHANGED act /\ UNCHANGED <<slot, deciding>> /\ UNCHANGED gateVars
    BY <1>7, Zenon
       DEF Start, EngineEnds, TimeOut, FetchToken, EffectHappens, RecordOutcome, EffectFails,
           Unaffected, signalVars
  <2>2. UNCHANGED minted
    BY <2>1, Zenon DEF gateVars, tokenVars
  <2>3. PICK pl \in Places \ {"waiting"} : turn' = [turn EXCEPT ![t] = pl]
    BY <2>1, Zenon DEF Places
  <2> QED BY <1>6, <2>1, <2>2, <2>3, Zenon
<1>8. ASSUME NEW t \in Tasks, EngineStops(t) \/ LoopEnds(t) PROVE NoLostApproval'
  <2>1. GoTo(t, "off") /\ UNCHANGED gateVars /\ UNCHANGED <<slot, deciding>>
    BY <1>8, Zenon DEF EngineStops, LoopEnds, EndTurn, signalVars
  <2>2. turn' = [turn EXCEPT ![t] = "off"] /\ act' = [act EXCEPT ![t] = NoAction]
    BY <2>1, Zenon DEF GoTo
  <2>3. UNCHANGED minted
    BY <2>1, Zenon DEF gateVars, tokenVars
  <2>4. /\ "off" \in Places \ {"waiting"}
        /\ \A u \in Tasks \ {t} : act'[u] = act[u] /\ slot'[u] = slot[u]
    BY <1>0, <2>1, <2>2, Zenon DEF Places, TurnTypes
  <2> QED BY <1>6, <2>1, <2>2, <2>3, <2>4, Zenon
<1>9. ASSUME NEW t \in Tasks, RegisterSlot(t) PROVE NoLostApproval'
  <2>1. /\ turn' = [turn EXCEPT ![t] = "checking"] /\ UNCHANGED act
        /\ slot' = [slot EXCEPT ![t] = presignal[act[t]]]
        /\ UNCHANGED gateVars /\ UNCHANGED deciding
    BY <1>9, Zenon DEF RegisterSlot, Unaffected
  <2>2. UNCHANGED minted
    BY <2>1, Zenon DEF gateVars, tokenVars
  <2>3. /\ "checking" \in Places \ {"waiting"}
        /\ \A u \in Tasks \ {t} : act'[u] = act[u] /\ slot'[u] = slot[u]
    BY <1>0, <2>1, Zenon DEF Places, SignalTypes
  <2> QED BY <1>6, <2>1, <2>2, <2>3, Zenon
<1>10. ASSUME NEW t \in Tasks, Wake(t) \/ ExpireCard(t) PROVE NoLostApproval'
  <2>1. /\ \/ turn' = [turn EXCEPT ![t] = "resumed"] /\ UNCHANGED act
           \/ GoTo(t, "engine")
        /\ slot' = [slot EXCEPT ![t] = "none"] /\ UNCHANGED deciding
    BY <1>10, Zenon DEF Wake, ExpireCard, Unaffected
  <2>2. \/ turn' = [turn EXCEPT ![t] = "resumed"] /\ UNCHANGED act
        \/ turn' = [turn EXCEPT ![t] = "engine"] /\ act' = [act EXCEPT ![t] = NoAction]
    BY <2>1, Zenon DEF GoTo
  <2>3. UNCHANGED minted
    BY <1>10, Zenon DEF Wake, ExpireCard, Expire, gateVars, tokenVars
  <2>4. /\ "resumed" \in Places \ {"waiting"} /\ "engine" \in Places \ {"waiting"}
        /\ \A u \in Tasks \ {t} : act'[u] = act[u] /\ slot'[u] = slot[u]
    BY <1>0, <2>1, <2>2, Zenon DEF Places, SignalTypes, TurnTypes
  <2> QED BY <1>6, <2>1, <2>2, <2>3, <2>4, Zenon
<1>11. ASSUME NEW t \in Tasks, CheckToken(t) PROVE NoLostApproval'
  <2>1. CASE turn' = [turn EXCEPT ![t] = "resumed"] /\ slot' = [slot EXCEPT ![t] = "none"]
    <3>1. UNCHANGED act /\ UNCHANGED gateVars /\ UNCHANGED deciding
      BY <1>11, Zenon DEF CheckToken, Unaffected
    <3>2. UNCHANGED minted
      BY <3>1, Zenon DEF gateVars, tokenVars
    <3>3. /\ "resumed" \in Places \ {"waiting"}
          /\ \A u \in Tasks \ {t} : act'[u] = act[u] /\ slot'[u] = slot[u]
      BY <1>0, <2>1, <3>1, Zenon DEF Places, SignalTypes
    <3> QED BY <1>6, <2>1, <3>1, <3>2, <3>3, Zenon
  <2>2. CASE /\ LiveToken(act[t]) = 0 /\ turn' = [turn EXCEPT ![t] = "waiting"]
             /\ UNCHANGED slot
    <3>1. UNCHANGED act /\ UNCHANGED gateVars /\ UNCHANGED deciding
      BY <1>11, Zenon DEF CheckToken, Unaffected
    <3>2. UNCHANGED <<status, hmac, lapsed>>
      BY <3>1, Zenon DEF gateVars, rowVars, tokenVars
    <3>3. \A u \in Tasks : LiveToken(act[u])' = LiveToken(act[u])
      BY <3>1, <3>2, Zenon DEF LiveToken
    <3>4. \A u \in Tasks \ {t} : turn'[u] = turn[u]
      BY <1>0, <2>2, Zenon DEF TurnTypes
    <3>5. ASSUME NEW u \in Tasks, turn'[u] = "waiting", slot'[u] = "none",
                 LiveToken(act[u])' # 0
          PROVE  <<act'[u], "approved">> \in deciding'
      <4>1. LiveToken(act[u]) # 0 /\ u # t
        BY <2>2, <3>3, <3>5, Zenon
      <4>2. <<act[u], "approved">> \in deciding
        BY <2>2, <3>4, <3>5, <4>1, Zenon DEF NoLostApproval
      <4> QED BY <3>1, <4>2, Zenon
    <3> QED BY <3>5, Zenon DEF NoLostApproval
  <2> QED BY <1>11, <2>1, <2>2, Zenon DEF CheckToken
<1>12. ASSUME NEW t \in Tasks, Step(t) PROVE NoLostApproval'
  <2>1. CASE (\E a \in Actions : EngineCalls(t, a)) \/ LoopCalls(t) \/ ResumeCalls(t)
    BY <1>4, <2>1, CallsAreCalls, Zenon
  <2> QED BY <1>5, <1>7, <1>8, <1>9, <1>10, <1>11, <1>12, <2>1, Zenon DEF Step
<1>13. ASSUME UNCHANGED turnVars, UNCHANGED slot, deciding \subseteq deciding', UNCHANGED minted
       PROVE  NoLostApproval'
  <2>1. NoSleeper
    BY <1>13, Zenon DEF turnVars, NoSleeper
  <2> QED BY <1>1, <1>13, <2>1, Zenon
<1>14. ASSUME NEW p \in Actions, OwnerApproves(p) PROVE NoLostApproval'
  <2>1. /\ UNCHANGED turnVars /\ UNCHANGED slot
        /\ deciding' = deciding \cup {<<p, "approved">>}
        /\ status' = [status EXCEPT ![p] = "approved"]
        /\ hmac' = [hmac EXCEPT ![p] = Len(minted) + 1]
        /\ UNCHANGED lapsed
    BY <1>14, Zenon DEF OwnerApproves, Approve, Mint, TurnsUnaffected
  <2>2. /\ status \in [Actions -> RowStates] /\ hmac \in [Actions -> 0 .. Len(minted)]
        /\ UNCHANGED <<turn, act>>
    BY <1>0, <2>1, Zenon DEF GateInv, GateTypeOK, turnVars
  <2>3. ASSUME NEW u \in Tasks, turn'[u] = "waiting", slot'[u] = "none",
               LiveToken(act[u])' # 0
        PROVE  <<act'[u], "approved">> \in deciding'
    <3>1. CASE act[u] = p
      BY <2>1, <2>2, <3>1, Zenon
    <3>2. CASE act[u] # p
      <4>1. act[u] \in Actions
        BY <1>w, <2>2, <2>3, Zenon
      <4>2. LiveToken(act[u]) # 0
        BY <2>1, <2>2, <2>3, <3>2, <4>1, Zenon DEF LiveToken
      <4>3. <<act[u], "approved">> \in deciding
        BY <2>1, <2>2, <2>3, <4>2, Zenon DEF NoLostApproval
      <4> QED BY <2>1, <2>2, <4>3, Zenon
    <3> QED BY <3>1, <3>2, Zenon
  <2> QED BY <2>3, Zenon DEF NoLostApproval
<1>15. ASSUME NEW p \in Actions, OwnerReads(p) \/ OwnerRejects(p) PROVE NoLostApproval'
  <2>1. /\ UNCHANGED turnVars /\ UNCHANGED slot /\ UNCHANGED minted
        /\ \/ UNCHANGED deciding
           \/ deciding' = deciding \cup {<<p, "denied">>}
    BY <1>15, Zenon DEF OwnerReads, OwnerRejects, RejectReads, RejectWrites, TurnsUnaffected,
       signalVars, tokenVars
  <2>2. deciding \subseteq deciding'
    BY <2>1, Zenon
  <2> QED BY <1>13, <2>1, <2>2, Zenon
<1>16. ASSUME NEW p \in Actions, NEW c \in {"approved", "denied"}, FinishDecision(p, c)
       PROVE  NoLostApproval'
  <2>1. /\ UNCHANGED turnVars /\ UNCHANGED gateVars /\ deciding' = deciding \ {<<p, c>>}
        /\ Signal(p, c)
    BY <1>16, Zenon DEF FinishDecision, TurnsUnaffected
  <2>2. UNCHANGED <<turn, act>> /\ UNCHANGED <<status, hmac, lapsed>>
    BY <2>1, Zenon DEF turnVars, gateVars, rowVars, tokenVars
  <2>3. ASSUME NEW u \in Tasks, turn[u] = "waiting", slot'[u] = "none"
        PROVE  slot[u] = "none" /\ act[u] # p
    <3>1. CASE Waiters(p) = {}
      BY <2>1, <2>3, <3>1, Zenon DEF Signal, Waiters
    <3>2. CASE Waiters(p) # {}
      <4>1. slot'[u] = IF u \in Waiters(p) THEN c ELSE slot[u]
        BY <2>1, <3>2, Zenon DEF Signal
      <4> QED BY <2>3, <4>1, Zenon DEF Waiters
    <3> QED BY <3>1, <3>2, Zenon
  <2>4. ASSUME NEW u \in Tasks, turn'[u] = "waiting", slot'[u] = "none",
               LiveToken(act[u])' # 0
        PROVE  <<act'[u], "approved">> \in deciding'
    <3>1. LiveToken(act[u]) # 0 /\ turn[u] = "waiting" /\ act'[u] = act[u]
      BY <2>2, <2>4, Zenon DEF LiveToken
    <3>2. slot[u] = "none" /\ act[u] # p
      BY <2>3, <2>4, <3>1, Zenon
    <3>3. <<act[u], "approved">> \in deciding
      BY <3>1, <3>2, Zenon DEF NoLostApproval
    <3> QED BY <2>1, <3>1, <3>2, <3>3, Zenon
  <2> QED BY <2>4, Zenon DEF NoLostApproval
<1>17. CASE Time
  <2>1. UNCHANGED turnVars /\ UNCHANGED slot /\ UNCHANGED deciding /\ UNCHANGED minted
    BY <1>17, Zenon DEF Time, Lapse, Age, gateVars, tokenVars
  <2> QED BY <1>13, <2>1, Zenon
<1>18. CASE Crash
  <2>1. \A u \in Tasks : turn'[u] = "off"
    BY <1>18, Zenon DEF Crash
  <2> QED BY <2>1, Zenon DEF NoLostApproval
<1>19. CASE UNCHANGED dispatchVars
  <2>1. UNCHANGED turnVars /\ UNCHANGED slot /\ UNCHANGED deciding /\ UNCHANGED minted
    BY <1>19, Zenon DEF dispatchVars, gateVars, tokenVars, signalVars
  <2> QED BY <1>13, <2>1, Zenon
<1> QED BY <1>12, <1>14, <1>15, <1>16, <1>17, <1>18, <1>19, Zenon DEF DispatchNext

(* The queue has been filled and nothing has been dispatched yet.          *)
LEMMA DispatchStarts == DispatchInit => DispatchInv
<1> SUFFICES ASSUME DispatchInit PROVE DispatchInv
  OBVIOUS
<1>1. /\ GateInit
      /\ state = [t \in Tasks |-> "pending"]
      /\ starts = [t \in Tasks |-> 0]
      /\ parkedOn = [t \in Tasks |-> NoAction]
  BY Zenon DEF DispatchInit
<1>2. /\ turn = [t \in Tasks |-> "off"]
      /\ from = [t \in Tasks |-> "engine"]
      /\ act = [t \in Tasks |-> NoAction]
      /\ pid = [t \in Tasks |-> NoAction]
      /\ tok = [t \in Tasks |-> 0]
      /\ spent = [t \in Tasks |-> 0]
      /\ todo = [t \in Tasks |-> << >>]
      /\ proof = [t \in Tasks |-> FALSE]
  BY Zenon DEF DispatchInit
<1>3. /\ slot = [t \in Tasks |-> "none"]
      /\ presignal = [p \in Actions |-> "none"]
      /\ deciding = {}
      /\ outcome = [k \in Keys |-> "none"]
      /\ effects = << >>
      /\ failures = 0
      /\ turnedAway = {}
  BY Zenon DEF DispatchInit
<1>4. GateInv /\ Len(minted) = 0
  BY <1>1, GateStarts, Zenon DEF GateInit
<1>5. QueueTypes
  BY <1>1, QueueStates, DispatchAssumption DEF QueueTypes
<1>6. TurnTypes
  BY <1>2 DEF TurnTypes, Places
<1>7. SignalTypes
  BY <1>3, Zenon DEF SignalTypes, SlotValues
<1>8. LogTypes
  BY <1>3, DispatchAssumption DEF LogTypes
<1>9. Placed
  BY <1>2, DispatchAssumption DEF Placed, About, Dispatching
<1>10. Minted
  BY <1>2, <1>3, <1>4 DEF Minted
<1>11. LogInv
  BY <1>2, <1>3 DEF LogInv, ExecutedIsTrue, AtMostOnceUntilFailure
<1>12. PayInv
  BY <1>2, <1>3 DEF PayInv, EffectsNeedApprovals
<1>13. NoLostApproval
  BY <1>2, Zenon DEF NoLostApproval
<1> QED BY <1>4, <1>5, <1>6, <1>7, <1>8, <1>9, <1>10, <1>11, <1>12, <1>13, Zenon
        DEF DispatchInv, TypesInv

(* The inductive invariant: the types, with where each turn can be; the    *)
(* intent log against the ledger of the world; the tokens against both;    *)
(* and the chats that sleep.                                               *)
THEOREM DispatchInvariant == DispatchSpec => []DispatchInv
<1>1. DispatchInv /\ [DispatchNext]_dispatchVars => DispatchInv'
  BY TypesStep, QuietOrLoud, QuietKeepsLog, LoudKeepsLog, QuietKeepsPay, LoudKeepsPay,
     ApprovalStep, Zenon DEF DispatchInv
<1> QED BY <1>1, DispatchStarts, PTL DEF DispatchSpec

(* As long as no adapter reports a failure an action changes the world at  *)
(* most once under one proposal id, for any number of tasks, actions,      *)
(* retries and restarts (record_intent before the adapter is called).      *)
THEOREM EffectsAreSingle == DispatchSpec => []AtMostOnceUntilFailure
<1>1. DispatchInv => AtMostOnceUntilFailure
  BY Zenon DEF DispatchInv, LogInv
<1> QED BY <1>1, DispatchInvariant, PTL

(* An action the intent log calls executed did change the world            *)
(* (record_outcome after the adapter returned).                            *)
THEOREM LogIsTrue == DispatchSpec => []ExecutedIsTrue
<1>1. DispatchInv => ExecutedIsTrue
  BY Zenon DEF DispatchInv, LogInv
<1> QED BY <1>1, DispatchInvariant, PTL

(* No risky change of the world without a token the owner minted for its   *)
(* id, and none with a token that paid for another in the same life of the *)
(* daemon (verify_token before the effect).                                *)
THEOREM EffectsAreApproved == DispatchSpec => []EffectsNeedApprovals
<1>1. DispatchInv => EffectsNeedApprovals
  BY DEF DispatchInv, PayInv
<1> QED BY <1>1, DispatchInvariant, PTL

(* A sleeping chat whose action is approved and usable will be signalled,  *)
(* however its registration, its look at the mailbox and approve_action    *)
(* interleave.                                                             *)
THEOREM ApprovalsReachTheirChat == DispatchSpec => []NoLostApproval
<1>1. DispatchInv => NoLostApproval
  BY DEF DispatchInv
<1> QED BY <1>1, DispatchInvariant, PTL

(* Everything the run over two chats checks of the dispatch at once.       *)
THEOREM DispatchIsSafe == DispatchSpec => []DispatchSafe
<1>1. DispatchInv => DispatchSafe
  BY TypesAreTypes DEF DispatchInv, LogInv, PayInv, DispatchSafe
<1> QED BY <1>1, DispatchInvariant, PTL

(* The gate's own promise survives in the composition: no turn, no retry   *)
(* and no crash of the daemon undoes an approval that nobody has used.     *)
THEOREM ApprovalStandsInDispatch == DispatchSpec => LiveApprovalStands
<1>1. DispatchInv /\ [DispatchNext]_dispatchVars => [Stands]_gateVars
  BY StepMoves, MoveKeepsApprovals, Zenon DEF DispatchInv, TypesInv
<1> QED BY <1>1, DispatchInvariant, PTL DEF DispatchSpec, LiveApprovalStands, Stands

(* Nor does one open a row the breaker has closed.                         *)
THEOREM BreakerStaysInDispatch == DispatchSpec => BreakerIsFinal
<1>1. DispatchInv /\ [DispatchNext]_dispatchVars => [Closed]_gateVars
  BY StepMoves, MoveKeepsClosed, Zenon DEF DispatchInv, TypesInv
<1> QED BY <1>1, DispatchInvariant, PTL DEF DispatchSpec, BreakerIsFinal, Closed
=============================================================================
