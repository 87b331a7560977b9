---------------------------- MODULE ApprovalGate ----------------------------
(***************************************************************************)
(* The mailbox of actions that wait for a human: SqliteApprovalGate        *)
(* (capabilities/infrastructure/sqlite_approval_gate.py) over the table    *)
(* pending_approvals, and HitlApprovalMinter with its set of used nonces.  *)
(*                                                                         *)
(* A proposal id is a digest of the tool and its parameters, so it stands  *)
(* for the action itself and is used again when the action is proposed     *)
(* again.  Tokens are the positions of `minted`.  A caller in the daemon   *)
(* reads a token with approved_token_for and presents it later; what it    *)
(* holds, and the nonces, are lost when the daemon restarts.               *)
(*                                                                         *)
(* The daemon runs a method of the gate to its end before anything else    *)
(* of its event loop.  The one other process is config_sync, which applies *)
(* the decisions of the Enterprise cloud and may come between the SELECT   *)
(* and the UPDATE of reject.                                               *)
(***************************************************************************)
EXTENDS Naturals, Sequences

CONSTANTS
    Actions,       \* proposal ids
    Tasks,         \* work item ids
    NoTask,        \* UUID(int=0): registered without a work item
    NoAction,      \* no action
    Enterprise,    \* actions routed to the Enterprise cloud
    MaxTries,      \* _MAX_DURABLE_PENDING_ATTEMPTS
    MaxMints,      \* bound: how many tokens are ever minted
    MaxRestarts    \* bound: how often the daemon restarts

ASSUME GateAssumption ==
    /\ NoTask \notin Tasks
    /\ NoAction \notin Actions
    /\ Enterprise \subseteq Actions
    /\ MaxTries \in Nat \ {0}
    /\ MaxMints \in Nat
    /\ MaxRestarts \in Nat

VARIABLES
    status,      \* column status; "none" is no row
    tries,       \* column attempt_count
    workItem,    \* column work_item_id
    consumed,    \* column consumed_at is not NULL
    hmac,        \* column token_hmac; 0 is NULL
    aged,        \* the row satisfies created_at <= datetime('now', '-35 minutes')
    minted,      \* minted[k] is the action token k is bound to
    lapsed,      \* the tokens past their expiry
    nonces,      \* HitlApprovalMinter._consumed_nonces
    held,        \* tokens read by callers of this daemon process
    denying,     \* the action whose reject is between SELECT and UPDATE
    accepted,    \* history: the tokens verify_token accepted, with `restarts`
    restarts

rowVars == <<status, tries, workItem, consumed, hmac, aged>>

tokenVars == <<minted, lapsed, nonces, held, accepted>>

gateVars == <<rowVars, tokenVars, denying, restarts>>

RowStates == {"none", "pending", "approved", "rejected", "expired"}

Tokens == 1 .. Len(minted)

(* The daemon's event loop is not inside reject.                           *)
Free == denying = NoAction

(* approved_token_for: consumed_at is not looked at.                       *)
LiveToken(p) ==
    IF status[p] = "approved" /\ hmac[p] \notin lapsed THEN hmac[p] ELSE 0

(* Variant: HitlApprovalMinter without its set of used nonces.             *)
Authentic_NoNonces(p, k) ==
    /\ k \in Tokens
    /\ minted[k] = p
    /\ k \notin lapsed

(* HitlApprovalMinter.verify                                               *)
Authentic(p, k) ==
    /\ k \in Tokens
    /\ minted[k] = p
    /\ k \notin lapsed
    /\ k \notin nonces

-----------------------------------------------------------------------------
GateInit ==
    /\ status = [p \in Actions |-> "none"]
    /\ tries = [p \in Actions |-> 0]
    /\ workItem = [p \in Actions |-> NoTask]
    /\ consumed = [p \in Actions |-> FALSE]
    /\ hmac = [p \in Actions |-> 0]
    /\ aged = [p \in Actions |-> FALSE]
    /\ minted = << >>
    /\ lapsed = {}
    /\ nonces = {}
    /\ held = {}
    /\ denying = NoAction
    /\ accepted = << >>
    /\ restarts = 0

(* Variant: the DELETE also takes approvals that nobody has used yet.      *)
Rearmed_AnyApproval(p) ==
    /\ status[p] # "none"
    /\ tries[p] <= MaxTries
    /\ status[p] # "pending" \/ aged[p]

(* Variant: the DELETE also takes rows the breaker has closed.             *)
Rearmed_ForgetsBreaker(p) ==
    /\ status[p] # "none"
    /\ ~(status[p] = "approved" /\ ~consumed[p])
    /\ status[p] # "pending" \/ aged[p]

(* The DELETE of register_pending removes the old row for this action.     *)
Rearmed(p) ==
    /\ status[p] # "none"
    /\ ~(status[p] = "approved" /\ ~consumed[p])
    /\ tries[p] <= MaxTries
    /\ status[p] # "pending" \/ aged[p]

(* INSERT OR IGNORE inserts.                                               *)
InsertRow(p, t) ==
    /\ status' = [status EXCEPT ![p] = "pending"]
    /\ tries' = [tries EXCEPT ![p] = 1]
    /\ workItem' = [workItem EXCEPT ![p] = t]
    /\ consumed' = [consumed EXCEPT ![p] = FALSE]
    /\ hmac' = [hmac EXCEPT ![p] = 0]
    /\ aged' = [aged EXCEPT ![p] = FALSE]

(* INSERT OR IGNORE finds a pending row: count the attempt, adopt a work   *)
(* item if it had none, and close the row when there were too many.        *)
CountAttempt(p, t) ==
    /\ tries' = [tries EXCEPT ![p] = @ + 1]
    /\ workItem' = [workItem EXCEPT ![p] = IF @ = NoTask THEN t ELSE @]
    /\ status' = [status EXCEPT ![p] =
                    IF tries[p] + 1 > MaxTries THEN "rejected" ELSE @]
    /\ UNCHANGED <<consumed, hmac, aged>>

(* register_pending on the table; what it returns is status'[p].           *)
PutRow(p, t) ==
    \/ /\ status[p] = "none" \/ Rearmed(p)
       /\ InsertRow(p, t)
    \/ /\ status[p] = "pending" /\ ~Rearmed(p)
       /\ CountAttempt(p, t)
    \/ /\ status[p] \notin {"none", "pending"} /\ ~Rearmed(p)
       /\ UNCHANGED rowVars

RegisterPending(p, t) ==
    /\ Free
    /\ PutRow(p, t)
    /\ UNCHANGED <<tokenVars, denying, restarts>>

(* The UPDATE of both approve methods, guarded by status = 'pending'.      *)
Mint(p) ==
    /\ status[p] = "pending"
    /\ Len(minted) < MaxMints
    /\ status' = [status EXCEPT ![p] = "approved"]
    /\ hmac' = [hmac EXCEPT ![p] = Len(minted) + 1]
    /\ minted' = Append(minted, p)
    /\ UNCHANGED <<tries, workItem, consumed, aged, lapsed, nonces, held>>
    /\ UNCHANGED <<denying, accepted, restarts>>

(* approve: the owner of the machine.                                      *)
Approve(p) ==
    /\ Free
    /\ p \notin Enterprise
    /\ Mint(p)

(* approve_enterprise_decision, in config_sync.                            *)
ApproveEnterprise(p) ==
    /\ p \in Enterprise
    /\ Mint(p)

(* reject: the SELECT and its check ...                                    *)
RejectReads(p) ==
    /\ Free
    /\ status[p] = "pending"
    /\ denying' = p
    /\ UNCHANGED <<rowVars, tokenVars, restarts>>

(* ... and the UPDATE, which has no condition on status.                   *)
RejectWrites(p) ==
    /\ denying = p
    /\ status' = [status EXCEPT ![p] = "rejected"]
    /\ denying' = NoAction
    /\ UNCHANGED <<tries, workItem, consumed, hmac, aged, tokenVars, restarts>>

(* expire: the wait for the owner timed out.                               *)
Expire(p) ==
    /\ Free
    /\ status' = [status EXCEPT ![p] = IF @ = "pending" THEN "expired" ELSE @]
    /\ UNCHANGED <<tries, workItem, consumed, hmac, aged, tokenVars, denying, restarts>>

Fetch(p) ==
    /\ Free
    /\ LiveToken(p) # 0
    /\ held' = held \cup {LiveToken(p)}
    /\ UNCHANGED <<rowVars, minted, lapsed, nonces, denying, accepted, restarts>>

(* verify_token, where the UPDATE ... consumed_at IS NULL changes a row.   *)
AcceptToken(p, k) ==
    /\ Free
    /\ Authentic(p, k)
    /\ ~consumed[p]
    /\ consumed' = [consumed EXCEPT ![p] = TRUE]
    /\ nonces' = nonces \cup {k}
    /\ accepted' = Append(accepted, [token |-> k, life |-> restarts])
    /\ UNCHANGED <<status, tries, workItem, hmac, aged, minted, lapsed, held>>
    /\ UNCHANGED <<denying, restarts>>

(* verify_token, where it changes none: the nonce is used up all the same. *)
RefuseToken(p, k) ==
    /\ Free
    /\ Authentic(p, k)
    /\ consumed[p]
    /\ nonces' = nonces \cup {k}
    /\ UNCHANGED <<rowVars, minted, lapsed, held, denying, accepted, restarts>>

(* An hour after the approval.                                             *)
Lapse(k) ==
    /\ k \in Tokens \ lapsed
    /\ lapsed' = lapsed \cup {k}
    /\ UNCHANGED <<rowVars, minted, nonces, held, denying, accepted, restarts>>

(* created_at is written as ...T... and compared as text with a time that  *)
(* has a space there: a row counts as old 35 minutes after the midnight    *)
(* that follows its creation, and not before.                              *)
Age(p) ==
    /\ status[p] = "pending" /\ ~aged[p]
    /\ aged' = [aged EXCEPT ![p] = TRUE]
    /\ UNCHANGED <<status, tries, workItem, consumed, hmac, tokenVars, denying, restarts>>

(* The daemon dies and is started again; the tables stay.                  *)
Restart ==
    /\ restarts < MaxRestarts
    /\ restarts' = restarts + 1
    /\ nonces' = {}
    /\ held' = {}
    /\ denying' = NoAction
    /\ UNCHANGED <<rowVars, minted, lapsed, accepted>>

GateNext ==
    \/ \E p \in Actions :
          \/ \E t \in Tasks \cup {NoTask} : RegisterPending(p, t)
          \/ Approve(p)
          \/ ApproveEnterprise(p)
          \/ RejectReads(p)
          \/ RejectWrites(p)
          \/ Expire(p)
          \/ Fetch(p)
          \/ Age(p)
          \/ \E k \in held : AcceptToken(p, k) \/ RefuseToken(p, k)
    \/ \E k \in Tokens : Lapse(k)
    \/ Restart

GateSpec == GateInit /\ [][GateNext]_gateVars
-----------------------------------------------------------------------------
(* Properties                                                              *)

(* Every column of pending_approvals has its type, and the attempts of a   *)
(* row stay within the durable breaker's threshold and one.                *)
GateTypeOK ==
    /\ status \in [Actions -> RowStates]
    /\ tries \in [Actions -> 0 .. MaxTries + 1]
    /\ workItem \in [Actions -> Tasks \cup {NoTask}]
    /\ consumed \in [Actions -> BOOLEAN]
    /\ hmac \in [Actions -> 0 .. Len(minted)]
    /\ aged \in [Actions -> BOOLEAN]
    /\ minted \in Seq(Actions)
    /\ Len(minted) <= MaxMints
    /\ lapsed \subseteq Tokens
    /\ nonces \subseteq Tokens
    /\ held \subseteq Tokens
    /\ denying \in Actions \cup {NoAction}
    /\ accepted \in Seq([token : Tokens, life : Nat])
    /\ restarts \in 0 .. MaxRestarts

(* "Nunca tocamos una aprobacion VIVA sin consumir" (register_pending): an *)
(* approval nobody has used yet is undone only by a reject that had read   *)
(* the row before the approval, never by proposing the action again, by a  *)
(* timeout, by the age of the row or by a restart.                         *)
LiveApprovalStands ==
    [][\A p \in Actions :
          status[p] = "approved" /\ ~consumed[p] /\ denying # p
          => status'[p] = "approved" /\ hmac'[p] = hmac[p]]_gateVars

(* "a row the durable breaker rejected must STAY rejected for this exact   *)
(* proposal_id" (register_pending), whatever is registered, decided or     *)
(* restarted afterwards.                                                   *)
BreakerIsFinal ==
    [][\A p \in Actions :
          tries[p] > MaxTries => status'[p] = status[p] /\ tries'[p] = tries[p]]_gateVars

(* While one daemon lives no token is accepted twice, even when the row it *)
(* was minted for has been consumed, deleted and created again (consumed_at*)
(* and the minter's nonces together).                                      *)
SingleUsePerProcess ==
    \A i, j \in DOMAIN accepted :
       accepted[i] = accepted[j] => i = j

(* verify_token: "Asi el single-use sobrevive a reinicios"                 *)
(* (sqlite_approval_gate.py:577).                                          *)
SingleUse ==
    \A i, j \in DOMAIN accepted :
       accepted[i].token = accepted[j].token => i = j

(* Re-arming exists because otherwise "la tarjeta nunca reapareceria tras  *)
(* consumirse o caducar" (sqlite_approval_gate.py:186): the row of an      *)
(* approval that can no longer be used makes way when the action is        *)
(* proposed again, so that a new card is shown.                            *)
CardReappears ==
    \A p \in Actions :
       status[p] = "approved" /\ LiveToken(p) = 0 /\ tries[p] <= MaxTries
       => Rearmed(p)

\* The rows of pending_approvals and the minter's nonces keep their form and
\* no process accepts a token twice (verify).
GateSafe ==
    /\ GateTypeOK /\ SingleUsePerProcess
=============================================================================
