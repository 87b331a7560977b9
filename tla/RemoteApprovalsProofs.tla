----------------------- MODULE RemoteApprovalsProofs -----------------------
(***************************************************************************)
(* Proofs about the enterprise approvals: for every set of actions and     *)
(* tasks, and every number of lost calls, crashes and forgotten nonces, a  *)
(* decision of the console settles the occurrence it was made for, once,   *)
(* and it is acknowledged only when its row and its task have moved on.    *)
(***************************************************************************)
EXTENDS RemoteApprovals, TLAPS

(* The row is still the one that request r was made for, and nobody has    *)
(* decided it.                                                             *)
Undecided(r) ==
    /\ status[Action(r)] = "pending"
    /\ born[Action(r)] = requests[r].born

(* What AckedIsSettled and AckedTaskMoves say of one request.              *)
Settles(r) == Undecided(r) => r \in cut

Moves(r) ==
    LET card == Action(r)
    IN  /\ verdict[r] = "approve"
        /\ status[card] = "approved"
        /\ born[card] = requests[r].born
        /\ BrokerRow(card)
        /\ LiveToken(card) # 0
        /\ ~consumed[card]
        => ~ /\ state[workItem[card]] = "pending_approval"
             /\ parkedOn[workItem[card]] = card

Row == [action : Enterprise, born : Nat]

Places == {"idle", "push", "posted", "apply", "mint", "minted", "confirm", "noted"}

ColumnTypes ==
    /\ status \in [Actions -> RowStates]
    /\ workItem \in [Actions -> Tasks \cup {NoTask}]
    /\ hmac \in [Actions -> Nat]
    /\ consumed \in [Actions -> BOOLEAN]
    /\ minted \in Seq(Actions)

DaemonTypes ==
    /\ native \subseteq Enterprise
    /\ state \in [Tasks -> Queue!States]
    /\ starts \in [Tasks -> 0 .. MaxAttempts]
    /\ parking \in [Tasks -> Actions \cup {NoAction}]
    /\ parkedOn \in [Tasks -> Actions \cup {NoAction}]
    /\ born \in [Actions -> Nat]

CloudTypes ==
    /\ requests \in Seq(Row)
    /\ verdict \in Seq({"none", "approve", "deny"})
    /\ Len(verdict) = Len(requests)
    /\ acked \subseteq DOMAIN requests

ProcessTypes ==
    /\ pushed \subseteq DOMAIN requests
    /\ seen \subseteq DOMAIN requests
    /\ inbox \subseteq DOMAIN requests
    /\ toAck \subseteq DOMAIN requests
    /\ cut \subseteq DOMAIN requests
    /\ outbox \subseteq Row
    /\ syncAt \in [at : Places, req : 0 .. Len(requests)]
    /\ syncAt.at \in {"posted", "mint", "minted", "confirm", "noted"}
       => syncAt.req \in DOMAIN requests
    /\ \A s \in settled : s.req \in DOMAIN requests

(* The row of a native action has no work item; a pending one of a broker  *)
(* action has, and no token yet.                                           *)
Owned ==
    \A p \in Enterprise :
       /\ p \in native => workItem[p] = NoTask
       /\ status[p] = "pending" => hmac[p] = 0
       /\ status[p] = "pending" /\ workItem[p] = NoTask => p \in native

(* Nothing is pushed before the row it is made from is there.              *)
BornBefore ==
    /\ \A r \in DOMAIN requests : requests[r].born <= born[Action(r)]
    /\ \A row \in outbox : row.born <= born[row.action]

(* What config_sync has established when it is about to act.               *)
Handling ==
    /\ syncAt.at \in {"mint", "noted"} =>
          Latest(syncAt.req) /\ status[Action(syncAt.req)] # "approved"
    /\ syncAt.at \in {"minted", "confirm"} => ~Undecided(syncAt.req)
    /\ syncAt.at = "noted" =>
          /\ syncAt.req \in seen
          /\ verdict[syncAt.req] = "deny" \/ Action(syncAt.req) \in native
          /\ \A s \in settled :
                s.req = syncAt.req /\ ~s.mint => syncAt.req \in forgotten

(* Only decisions are handled and acknowledged.                            *)
Served ==
    /\ \A r \in inbox \cup acked \cup toAck : verdict[r] # "none"
    /\ syncAt.at \in {"mint", "minted", "confirm", "noted"} => verdict[syncAt.req] # "none"

(* A nonce is spent before the row is resolved, and only then can it be    *)
(* spent for nothing.                                                      *)
NoncesSpent ==
    /\ \A s \in settled : ~s.mint => s.req \in seen \cup forgotten
    /\ \A r \in seen :
          Undecided(r) => r \in cut \/ (syncAt.at = "noted" /\ syncAt.req = r)
    /\ \A r \in cut : verdict[r] = "deny" \/ Action(r) \in native

Answered == \A r \in acked \cup toAck : Settles(r) /\ Moves(r)

RemoteTypes == ColumnTypes /\ DaemonTypes /\ CloudTypes /\ ProcessTypes

RemoteInv ==
    /\ RemoteTypes
    /\ Owned /\ BornBefore /\ Handling /\ Served /\ NoncesSpent
    /\ OccurrenceDecided /\ DecidedOnce /\ Answered

(* The parts of RemoteSafe under this invariant.                           *)
LEMMA RemoteInvIsSafe == RemoteInv => RemoteSafe
<1> SUFFICES ASSUME RemoteInv PROVE RemoteSafe
  OBVIOUS
<1> USE DEF RemoteInv, RemoteTypes
<1>1. syncAt \in [at : {"idle", "push", "posted", "apply", "mint", "minted",
                        "confirm", "noted"},
                  req : 0 .. Len(requests)]
  BY Zenon DEF ProcessTypes, Places
<1>2. acked \cup pushed \cup seen \cup inbox \cup toAck \subseteq DOMAIN requests
  BY Zenon DEF ProcessTypes, CloudTypes
<1>3. RemoteTypeOK
  BY <1>1, <1>2, Zenon DEF RemoteTypeOK, DaemonTypes, CloudTypes, Row
<1>4. AckedIsSettled
  BY Zenon DEF Answered, Settles, Undecided, AckedIsSettled
<1>5. AckedTaskMoves
  BY Zenon DEF Answered, Moves, AckedTaskMoves
<1> QED BY <1>3, <1>4, <1>5, Zenon DEF RemoteSafe

LEMMA RemoteInitially == RemoteInit => RemoteInv
<1> SUFFICES ASSUME RemoteInit PROVE RemoteInv
  OBVIOUS
<1>1. ColumnTypes
  <2>1. "none" \in RowStates
    BY Zenon DEF RowStates
  <2> QED BY <2>1, SMT DEF RemoteInit, GateInit, ColumnTypes
<1>2. DaemonTypes
  <2>1. 0 \in 0 .. MaxAttempts
    BY RemoteAssumption, SMT
  <2>2. "pending" \in Queue!States
    BY Zenon DEF Queue!States, Queue!Live
  <2>3. 0 \in Nat
    BY SMT
  <2> QED BY <2>1, <2>2, <2>3, Zenon DEF RemoteInit, DaemonTypes
<1>3. DOMAIN requests = {} /\ Len(requests) = 0 /\ CloudTypes
  BY SMT DEF RemoteInit, CloudTypes
<1>4. syncAt = [at |-> "idle", req |-> 0] /\ 0 \in 0 .. Len(requests)
  BY <1>3, SMT DEF RemoteInit, Idle
<1>5. syncAt \in [at : Places, req : 0 .. Len(requests)] /\ syncAt.at = "idle"
  BY <1>4, Zenon DEF Places
<1>6. ProcessTypes
  BY <1>5, Zenon DEF ProcessTypes, RemoteInit
<1>7. Owned
  <2>1. ASSUME NEW p \in Enterprise PROVE status[p] = "none" /\ workItem[p] = NoTask
    BY GateAssumption, Zenon DEF RemoteInit, GateInit
  <2> QED BY <2>1, Zenon DEF Owned
<1>8. BornBefore
  BY <1>3, Zenon DEF BornBefore, RemoteInit
<1>9. Handling
  BY <1>5, Zenon DEF Handling
<1>10. Served /\ NoncesSpent /\ OccurrenceDecided /\ DecidedOnce /\ Answered
  BY <1>5, Zenon DEF Served, NoncesSpent, OccurrenceDecided, DecidedOnce, Answered, RemoteInit
<1> QED
  BY <1>1, <1>2, <1>3, <1>6, <1>7, <1>8, <1>9, <1>10, Zenon DEF RemoteInv, RemoteTypes

-----------------------------------------------------------------------------
(* What a step of the daemon does to the row p: it is inserted with a new  *)
(* created_at, or a pending or an approved row is left as it is, or the    *)
(* row is closed.                                                          *)
KeepsRow(p) ==
    /\ born[p] <= born'[p]
    /\ status'[p] = "pending" =>
          \/ /\ status[p] = "pending" /\ born'[p] = born[p] /\ hmac'[p] = hmac[p]
             /\ workItem'[p] = NoTask => workItem[p] = NoTask
          \/ /\ born[p] < born'[p] /\ hmac'[p] = 0
             /\ workItem'[p] = NoTask => p \in native
    /\ status'[p] = "approved" =>
          /\ status[p] = "approved" /\ born'[p] = born[p]
          /\ hmac'[p] = hmac[p] /\ workItem'[p] = workItem[p]
          /\ ~consumed'[p] => ~consumed[p]
    /\ p \in native /\ workItem[p] = NoTask => workItem'[p] = NoTask

(* ... and to a task: it is parked on rows that are not approved.          *)
KeepsTask(t) ==
    state'[t] = "pending_approval" =>
       \/ state[t] = "pending_approval" /\ parkedOn'[t] = parkedOn[t]
       \/ \A p \in Actions : parkedOn'[t] = p => status[p] # "approved"

DaemonKeeps ==
    /\ SyncUnaffected
    /\ lapsed \subseteq lapsed'
    /\ \A p \in Enterprise : KeepsRow(p)
    /\ \A t \in Tasks : KeepsTask(t)

LEMMA SameRow ==
    ASSUME ColumnTypes, DaemonTypes, NEW p \in Actions,
           status'[p] = status[p], born'[p] = born[p], hmac'[p] = hmac[p],
           workItem'[p] = workItem[p], ~consumed'[p] => ~consumed[p]
    PROVE  KeepsRow(p)
<1>1. born[p] <= born[p]
  BY SMT DEF DaemonTypes
<1> QED BY <1>1, Zenon DEF KeepsRow

(* A request that was there says the same as before.                       *)
LEMMA SameRequests ==
    ASSUME SyncUnaffected
    PROVE  /\ requests' = requests /\ verdict' = verdict /\ native' = native
           /\ \A r \in DOMAIN requests : Action(r)' = Action(r)
           /\ Latest(syncAt.req)' = Latest(syncAt.req)
           /\ syncAt' = syncAt /\ seen' = seen /\ cut' = cut /\ settled' = settled
           /\ forgotten' = forgotten /\ acked' = acked /\ toAck' = toAck
           /\ inbox' = inbox /\ outbox' = outbox /\ pushed' = pushed
BY Zenon DEF SyncUnaffected, cloudVars, roundVars, historyVars, Action, Latest

LEMMA RequestFacts ==
    ASSUME CloudTypes, NEW r \in DOMAIN requests
    PROVE  /\ Action(r) \in Enterprise /\ Action(r) \in Actions
           /\ requests[r].born \in Nat
           /\ verdict[r] \in {"none", "approve", "deny"}
<1>1. requests[r] \in Row
  BY SMT DEF CloudTypes
<1>2. r \in DOMAIN verdict
  BY SMT DEF CloudTypes
<1>3. verdict[r] \in {"none", "approve", "deny"}
  BY <1>2, SMT DEF CloudTypes
<1>4. Action(r) \in Enterprise /\ requests[r].born \in Nat
  BY <1>1, Zenon DEF Row, Action
<1> QED BY <1>3, <1>4, GateAssumption, Zenon

(* A row that is undecided after a step of the daemon was so before.       *)
LEMMA StaysDecided ==
    ASSUME RemoteInv, DaemonKeeps, NEW r \in DOMAIN requests, Undecided(r)'
    PROVE  Undecided(r)
<1> DEFINE p == Action(r)
<1>1. Action(r)' = p /\ requests' = requests
  BY SameRequests, Zenon DEF DaemonKeeps
<1>2. p \in Enterprise /\ p \in Actions /\ requests[r].born \in Nat
  BY RequestFacts, Zenon DEF RemoteInv, RemoteTypes
<1>3. status'[p] = "pending" /\ born'[p] = requests[r].born
  BY <1>1, Zenon DEF Undecided
<1>4. requests[r].born <= born[p] /\ born[p] \in Nat
  BY <1>2, Zenon DEF RemoteInv, RemoteTypes, BornBefore, DaemonTypes
<1>5. ~(born[p] < born'[p])
  BY <1>2, <1>3, <1>4, SMT
<1>6. status[p] = "pending" /\ born'[p] = born[p]
  BY <1>2, <1>3, <1>5, Zenon DEF DaemonKeeps, KeepsRow
<1> QED BY <1>3, <1>6, Zenon DEF Undecided

(* ... and a request whose task has moved on is not taken back.            *)
LEMMA StaysMoved ==
    ASSUME RemoteInv, DaemonKeeps, NEW r \in DOMAIN requests, Moves(r)
    PROVE  Moves(r)'
<1>0. PICK p : p = Action(r)
  BY Zenon
<1> DEFINE t == workItem[p]
<1>1. Action(r)' = p /\ requests' = requests /\ verdict' = verdict
  BY <1>0, SameRequests, Zenon DEF DaemonKeeps
<1>2. p \in Enterprise /\ p \in Actions
  BY <1>0, RequestFacts, Zenon DEF RemoteInv, RemoteTypes
<1> SUFFICES ASSUME verdict[r] = "approve", status'[p] = "approved",
                    born'[p] = requests[r].born, workItem'[p] # NoTask,
                    LiveToken(p)' # 0, ~consumed'[p],
                    state'[workItem'[p]] = "pending_approval",
                    parkedOn'[workItem'[p]] = p
             PROVE  FALSE
  BY <1>0, <1>1, Zenon DEF Moves, BrokerRow
<1>3. /\ status[p] = "approved" /\ born'[p] = born[p]
      /\ hmac'[p] = hmac[p] /\ workItem'[p] = t /\ ~consumed[p]
  BY <1>2, Zenon DEF DaemonKeeps, KeepsRow
<1>4. LiveToken(p) # 0
  BY <1>3, Zenon DEF LiveToken, DaemonKeeps
<1>5. t \in Tasks
  BY <1>2, <1>3, Zenon DEF RemoteInv, RemoteTypes, ColumnTypes
<1>6. KeepsTask(t)
  BY <1>5, Zenon DEF DaemonKeeps
<1>7. state[t] = "pending_approval" /\ parkedOn[t] = p
  BY <1>2, <1>3, <1>6, Zenon DEF KeepsTask
<1> QED BY <1>0, <1>3, <1>4, <1>7, Zenon DEF Moves, BrokerRow

LEMMA DaemonInv ==
    ASSUME RemoteInv, DaemonKeeps, ColumnTypes', DaemonTypes'
    PROVE  RemoteInv'
<1> USE DEF RemoteInv, RemoteTypes
<1>1. SyncUnaffected
  BY Zenon DEF DaemonKeeps
<1>2. CloudTypes' /\ ProcessTypes'
  BY <1>1, SameRequests, Zenon DEF CloudTypes, ProcessTypes
<1>3. Owned'
  <2> SUFFICES ASSUME NEW p \in Enterprise
               PROVE  /\ p \in native' => workItem'[p] = NoTask
                      /\ status'[p] = "pending" => hmac'[p] = 0
                      /\ status'[p] = "pending" /\ workItem'[p] = NoTask => p \in native'
    BY Zenon DEF Owned
  <2>1. KeepsRow(p) /\ native' = native
    BY <1>1, SameRequests, Zenon DEF DaemonKeeps
  <2> QED BY <2>1, Zenon DEF KeepsRow, Owned
<1>4. BornBefore'
  <2>1. ASSUME NEW r \in DOMAIN requests PROVE requests[r].born <= born'[Action(r)]
    <3>1. /\ Action(r) \in Enterprise /\ Action(r) \in Actions
          /\ requests[r].born \in Nat /\ requests[r].born <= born[Action(r)]
      BY RequestFacts, Zenon DEF BornBefore
    <3>2. born[Action(r)] <= born'[Action(r)]
      BY <3>1, Zenon DEF DaemonKeeps, KeepsRow
    <3>3. born[Action(r)] \in Nat /\ born'[Action(r)] \in Nat
      BY <3>1, Zenon DEF DaemonTypes
    <3> QED BY <3>1, <3>2, <3>3, SMT
  <2>2. ASSUME NEW row \in outbox PROVE row.born <= born'[row.action]
    <3>1. row.action \in Enterprise /\ row.born \in Nat /\ row.born <= born[row.action]
      BY Zenon DEF ProcessTypes, Row, BornBefore
    <3>2. born[row.action] <= born'[row.action] /\ row.action \in Actions
      BY <3>1, GateAssumption, Zenon DEF DaemonKeeps, KeepsRow
    <3>3. born[row.action] \in Nat /\ born'[row.action] \in Nat
      BY <3>2, Zenon DEF DaemonTypes
    <3> QED BY <3>1, <3>2, <3>3, SMT
  <2> QED BY <1>1, <2>1, <2>2, SameRequests, Zenon DEF BornBefore
<1>5. Handling'
  <2>0. PICK r : r = syncAt.req
    BY Zenon
  <2>1. CASE r \in DOMAIN requests
    <3>1. Action(r)' = Action(r) /\ Action(r) \in Enterprise
      BY <1>1, <2>1, SameRequests, RequestFacts, Zenon
    <3>2. status'[Action(r)] = "approved" => status[Action(r)] = "approved"
      BY <3>1, Zenon DEF DaemonKeeps, KeepsRow
    <3>3. Undecided(r)' => Undecided(r)
      BY <2>1, StaysDecided, Zenon
    <3>4. syncAt' = syncAt /\ (syncAt.req)' = r
      BY <1>1, <2>0, SameRequests, Zenon
    <3>5. Latest(r)' = Latest(r) /\ native' = native /\ verdict' = verdict
          /\ seen' = seen /\ settled' = settled /\ forgotten' = forgotten
      BY <1>1, <2>0, SameRequests, Zenon DEF Latest, Action
    <3>6. syncAt.at \in {"mint", "noted"} =>
              Latest(r)' /\ status'[Action(r)'] # "approved"
      BY <2>0, <3>1, <3>2, <3>5, Zenon DEF Handling
    <3>7. syncAt.at \in {"minted", "confirm"} => ~Undecided(r)'
      BY <2>0, <3>3, Zenon DEF Handling
    <3>8. syncAt.at = "noted" =>
              /\ r \in seen'
              /\ verdict'[r] = "deny" \/ Action(r)' \in native'
              /\ \A s \in settled' : s.req = r /\ ~s.mint => r \in forgotten'
      BY <2>0, <3>1, <3>5, Zenon DEF Handling
    <3> QED BY <2>0, <3>4, <3>6, <3>7, <3>8, Zenon DEF Handling
  <2>2. CASE r \notin DOMAIN requests
    <3>1. syncAt' = syncAt
      BY <1>1, SameRequests, Zenon
    <3>2. syncAt.at \notin {"mint", "noted", "minted", "confirm"}
      BY <2>0, <2>2, Zenon DEF ProcessTypes
    <3> QED BY <3>1, <3>2, Zenon DEF Handling
  <2> QED BY <2>1, <2>2, Zenon
<1>6. Served' /\ OccurrenceDecided' /\ DecidedOnce'
  BY <1>1, SameRequests, Zenon DEF Served, OccurrenceDecided, DecidedOnce
<1>7. NoncesSpent'
  <2>1. \A r \in seen' : Undecided(r)' => r \in cut' \/ (syncAt'.at = "noted" /\ syncAt'.req = r)
    BY <1>1, SameRequests, StaysDecided, Zenon DEF NoncesSpent, ProcessTypes
  <2>2. \A r \in cut' : verdict'[r] = "deny" \/ Action(r)' \in native'
    BY <1>1, SameRequests, Zenon DEF NoncesSpent, ProcessTypes
  <2>3. \A s \in settled' : ~s.mint => s.req \in seen' \cup forgotten'
    BY <1>1, SameRequests, Zenon DEF NoncesSpent
  <2> QED BY <2>1, <2>2, <2>3, Zenon DEF NoncesSpent
<1>8. Answered'
  <2> SUFFICES ASSUME NEW r \in acked \cup toAck PROVE Settles(r)' /\ Moves(r)'
    BY <1>1, SameRequests, Zenon DEF Answered
  <2>1. r \in DOMAIN requests /\ Settles(r) /\ Moves(r)
    BY Zenon DEF CloudTypes, ProcessTypes, Answered
  <2>2. Undecided(r)' => r \in cut'
    BY <1>1, <2>1, SameRequests, StaysDecided, Zenon DEF Settles
  <2> QED BY <2>1, <2>2, StaysMoved, Zenon DEF Settles
<1> QED BY <1>2, <1>3, <1>4, <1>5, <1>6, <1>7, <1>8, Zenon

-----------------------------------------------------------------------------
(* register_pending, by a task for one of its own actions or by the hook   *)
(* for a native one.                                                       *)
LEMMA AskedFor ==
    ASSUME RemoteInv, NEW p \in Enterprise, NEW t \in Tasks \cup {NoTask},
           RegisterPending(p, t), Stamp(p),
           p \in native <=> t = NoTask
    PROVE  /\ ColumnTypes' /\ born' \in [Actions -> Nat]
           /\ lapsed' = lapsed
           /\ \A q \in Enterprise : KeepsRow(q)
<1> USE DEF RemoteInv, RemoteTypes
<1>0. p \in Actions /\ \A q \in Enterprise : q \in Actions
  BY GateAssumption, Zenon
<1>1. PutRow(p, t) /\ lapsed' = lapsed /\ minted' = minted
  BY Zenon DEF RegisterPending, tokenVars
<1>2. born' \in [Actions -> Nat] /\ \A q \in Actions \ {p} : born'[q] = born[q]
  BY <1>0, SMT DEF Stamp, DaemonTypes
<1>3. CASE (status[p] = "none" \/ Rearmed(p)) /\ InsertRow(p, t)
  <2>1. /\ status' = [status EXCEPT ![p] = "pending"]
        /\ workItem' = [workItem EXCEPT ![p] = t]
        /\ consumed' = [consumed EXCEPT ![p] = FALSE]
        /\ hmac' = [hmac EXCEPT ![p] = 0]
    BY <1>3, Zenon DEF InsertRow
  <2>2. "pending" \in RowStates /\ 0 \in Nat
    BY SMT DEF RowStates
  <2>3. ColumnTypes'
    BY <1>0, <1>1, <2>1, <2>2, Zenon DEF ColumnTypes
  <2>4. born'[p] = born[p] + 1 /\ born[p] \in Nat
    BY <1>0, <1>3, SMT DEF Stamp, DaemonTypes
  <2>5. born[p] <= born'[p] /\ born[p] < born'[p]
    BY <2>4, SMT
  <2>6. status'[p] = "pending" /\ workItem'[p] = t /\ hmac'[p] = 0
    BY <1>0, <2>1, Zenon DEF ColumnTypes
  <2>7. KeepsRow(p)
    BY <2>5, <2>6, Zenon DEF KeepsRow
  <2>8. ASSUME NEW q \in Enterprise, q # p PROVE KeepsRow(q)
    <3>1. /\ status'[q] = status[q] /\ hmac'[q] = hmac[q]
          /\ workItem'[q] = workItem[q] /\ consumed'[q] = consumed[q]
      BY <1>0, <2>1, <2>8, Zenon DEF ColumnTypes
    <3> QED BY <1>0, <1>2, <2>8, <3>1, SameRow, Zenon
  <2> QED BY <1>1, <1>2, <2>3, <2>7, <2>8, Zenon
<1>4. CASE status[p] = "pending" /\ ~Rearmed(p) /\ CountAttempt(p, t)
  <2>1. /\ workItem' = [workItem EXCEPT ![p] = IF workItem[p] = NoTask THEN t ELSE workItem[p]]
        /\ status' = [status EXCEPT ![p] = IF tries[p] + 1 > MaxTries THEN "rejected" ELSE status[p]]
        /\ consumed' = consumed /\ hmac' = hmac
    BY <1>4, Zenon DEF CountAttempt
  <2>2. "rejected" \in RowStates /\ status[p] \in RowStates
        /\ workItem[p] \in Tasks \cup {NoTask}
    BY <1>0, Zenon DEF RowStates, ColumnTypes
  <2>3. ColumnTypes'
    BY <1>0, <1>1, <2>1, <2>2, Zenon DEF ColumnTypes
  <2>4. born'[p] = born[p] /\ born[p] \in Nat
    BY <1>0, <1>4, Zenon DEF Stamp, DaemonTypes
  <2>5. born[p] <= born'[p]
    BY <2>4, SMT
  <2>6. /\ status'[p] \in {"rejected", "pending"}
        /\ workItem'[p] = IF workItem[p] = NoTask THEN t ELSE workItem[p]
        /\ hmac'[p] = hmac[p]
    BY <1>0, <1>4, <2>1, Zenon DEF ColumnTypes
  <2>7. KeepsRow(p)
    BY <1>4, <2>4, <2>5, <2>6, Zenon DEF KeepsRow
  <2>8. ASSUME NEW q \in Enterprise, q # p PROVE KeepsRow(q)
    <3>1. /\ status'[q] = status[q] /\ hmac'[q] = hmac[q]
          /\ workItem'[q] = workItem[q] /\ consumed'[q] = consumed[q]
      BY <1>0, <2>1, <2>8, Zenon DEF ColumnTypes
    <3> QED BY <1>0, <1>2, <2>8, <3>1, SameRow, Zenon
  <2> QED BY <1>1, <1>2, <2>3, <2>7, <2>8, Zenon
<1>5. CASE status[p] \notin {"none", "pending"} /\ ~Rearmed(p) /\ UNCHANGED rowVars
  <2>1. /\ status' = status /\ workItem' = workItem /\ hmac' = hmac
        /\ consumed' = consumed
    BY <1>5, Zenon DEF rowVars
  <2>2. born'[p] = born[p]
    BY <1>0, <1>5, Zenon DEF Stamp, DaemonTypes
  <2>3. ColumnTypes'
    BY <1>1, <2>1, Zenon DEF ColumnTypes
  <2>4. ASSUME NEW q \in Enterprise PROVE KeepsRow(q)
    BY <1>0, <1>2, <2>1, <2>2, SameRow, Zenon
  <2> QED BY <1>1, <1>2, <2>3, <2>4, Zenon
<1> QED BY <1>1, <1>3, <1>4, <1>5, Zenon DEF PutRow

LEMMA TasksStay ==
    ASSUME parkedOn' = parkedOn,
           \A t \in Tasks : state'[t] = "pending_approval" => state[t] = "pending_approval"
    PROVE  \A t \in Tasks : KeepsTask(t)
BY Zenon DEF KeepsTask

LEMMA ProposeStep ==
    ASSUME RemoteInv, NEW t \in Tasks, NEW p \in Enterprise, Propose(t, p)
    PROVE  RemoteInv'
<1> USE DEF RemoteInv, RemoteTypes
<1>1. p \in native <=> t = NoTask
  BY GateAssumption, Zenon DEF Propose
<1>2. /\ ColumnTypes' /\ born' \in [Actions -> Nat] /\ lapsed' = lapsed
      /\ \A q \in Enterprise : KeepsRow(q)
  BY <1>1, AskedFor, Zenon DEF Propose
<1>3. p \in Actions
  BY GateAssumption, Zenon
<1>4. "rejected" \in Queue!States
  BY Zenon DEF Queue!States, Queue!Terminal
<1>5. /\ state' = state \/ state' = [state EXCEPT ![t] = "rejected"]
      /\ parking' = parking \/ parking' = [parking EXCEPT ![t] = p]
      /\ starts' = starts /\ parkedOn' = parkedOn /\ SyncUnaffected
  BY Zenon DEF Propose
<1>6. state' \in [Tasks -> Queue!States]
  BY <1>4, <1>5, Zenon DEF DaemonTypes
<1>7. parking' \in [Tasks -> Actions \cup {NoAction}]
  BY <1>3, <1>5, Zenon DEF DaemonTypes
<1>8. DaemonTypes'
  BY <1>2, <1>5, <1>6, <1>7, SameRequests, Zenon DEF DaemonTypes
<1>9. \A u \in Tasks : state'[u] = "pending_approval" => state[u] = "pending_approval"
  BY <1>5, Zenon DEF DaemonTypes
<1>10. DaemonKeeps
  BY <1>2, <1>5, <1>9, TasksStay, Zenon DEF DaemonKeeps
<1> QED BY <1>2, <1>8, <1>10, DaemonInv, Zenon

LEMMA HookAsksStep ==
    ASSUME RemoteInv, NEW p \in Enterprise, HookAsks(p)
    PROVE  RemoteInv'
<1> USE DEF RemoteInv, RemoteTypes
<1>1. /\ ColumnTypes' /\ born' \in [Actions -> Nat] /\ lapsed' = lapsed
      /\ \A q \in Enterprise : KeepsRow(q)
  BY AskedFor, Zenon DEF HookAsks
<1>2. /\ state' = state /\ parking' = parking /\ starts' = starts
      /\ parkedOn' = parkedOn /\ SyncUnaffected
  BY Zenon DEF HookAsks, queueVars
<1>3. DaemonTypes'
  BY <1>1, <1>2, SameRequests, Zenon DEF DaemonTypes
<1>4. DaemonKeeps
  BY <1>1, <1>2, TasksStay, Zenon DEF DaemonKeeps
<1> QED BY <1>1, <1>3, <1>4, DaemonInv, Zenon

(* The queue moves and the rows do not.                                    *)
LEMMA QueueStep ==
    ASSUME RemoteInv, UNCHANGED gateVars, UNCHANGED born, SyncUnaffected,
           state' \in [Tasks -> Queue!States],
           starts' \in [Tasks -> 0 .. MaxAttempts],
           parking' \in [Tasks -> Actions \cup {NoAction}],
           parkedOn' \in [Tasks -> Actions \cup {NoAction}],
           \A t \in Tasks : KeepsTask(t)
    PROVE  RemoteInv'
<1> USE DEF RemoteInv, RemoteTypes
<1>1. /\ status' = status /\ workItem' = workItem /\ hmac' = hmac
      /\ consumed' = consumed /\ minted' = minted /\ lapsed' = lapsed
  BY Zenon DEF gateVars, rowVars, tokenVars
<1>2. ColumnTypes'
  BY <1>1, Zenon DEF ColumnTypes
<1>3. DaemonTypes'
  BY SameRequests, Zenon DEF DaemonTypes
<1>4. ASSUME NEW q \in Enterprise PROVE KeepsRow(q)
  BY <1>1, GateAssumption, SameRow, Zenon
<1>5. DaemonKeeps
  BY <1>1, <1>4, Zenon DEF DaemonKeeps
<1> QED BY <1>2, <1>3, <1>5, DaemonInv, Zenon

LEMMA ParkTaskStep ==
    ASSUME RemoteInv, NEW t \in Tasks, ParkTask(t)
    PROVE  RemoteInv'
<1> USE DEF RemoteInv, RemoteTypes
<1>1. /\ state' = [state EXCEPT ![t] = "pending_approval"]
      /\ starts' = starts
  BY Zenon DEF ParkTask, Queue!Park
<1>2. /\ parking' = [parking EXCEPT ![t] = NoAction]
      /\ parkedOn' = [parkedOn EXCEPT ![t] =
                        IF status[parking[t]] = "approved" THEN NoAction ELSE parking[t]]
      /\ UNCHANGED gateVars /\ UNCHANGED born /\ SyncUnaffected
  BY Zenon DEF ParkTask
<1>3. "pending_approval" \in Queue!States
  BY Zenon DEF Queue!States, Queue!Live
<1>4. parking[t] \in Actions \cup {NoAction}
  BY Zenon DEF DaemonTypes
<1>5. /\ state' \in [Tasks -> Queue!States]
      /\ starts' \in [Tasks -> 0 .. MaxAttempts]
      /\ parking' \in [Tasks -> Actions \cup {NoAction}]
  BY <1>1, <1>2, <1>3, Zenon DEF DaemonTypes
<1>6. parkedOn' \in [Tasks -> Actions \cup {NoAction}]
  BY <1>2, <1>4, Zenon DEF DaemonTypes
<1>7. ASSUME NEW u \in Tasks PROVE KeepsTask(u)
  <2>1. CASE u = t
    <3>1. parkedOn'[t] = IF status[parking[t]] = "approved" THEN NoAction ELSE parking[t]
      BY <1>2, Zenon DEF DaemonTypes
    <3>2. \A p \in Actions : parkedOn'[t] = p => status[p] # "approved"
      BY <3>1, GateAssumption, Zenon
    <3> QED BY <2>1, <3>2, Zenon DEF KeepsTask
  <2>2. CASE u # t
    <3>1. parkedOn'[u] = parkedOn[u] /\ state'[u] = state[u]
      BY <1>1, <1>2, <2>2, Zenon DEF DaemonTypes
    <3> QED BY <3>1, Zenon DEF KeepsTask
  <2> QED BY <2>1, <2>2, Zenon
<1> QED BY <1>2, <1>5, <1>6, <1>7, QueueStep, Zenon

LEMMA StartTaskStep ==
    ASSUME RemoteInv, NEW t \in Tasks, StartTask(t)
    PROVE  RemoteInv'
<1> USE DEF RemoteInv, RemoteTypes
<1>1. /\ state' = [state EXCEPT ![t] = "in_progress"]
      /\ starts[t] < MaxAttempts
      /\ starts' = [starts EXCEPT ![t] = starts[t] + 1]
  BY Zenon DEF StartTask, Queue!Start
<1>2. /\ parking' = parking /\ parkedOn' = parkedOn
      /\ UNCHANGED gateVars /\ UNCHANGED born /\ SyncUnaffected
  BY Zenon DEF StartTask
<1>3. "in_progress" \in Queue!States
  BY Zenon DEF Queue!States, Queue!Live
<1>4. starts[t] \in 0 .. MaxAttempts
  BY Zenon DEF DaemonTypes
<1>5. starts[t] + 1 \in 0 .. MaxAttempts
  BY <1>1, <1>4, RemoteAssumption, SMT
<1>6. /\ state' \in [Tasks -> Queue!States]
      /\ starts' \in [Tasks -> 0 .. MaxAttempts]
      /\ parking' \in [Tasks -> Actions \cup {NoAction}]
      /\ parkedOn' \in [Tasks -> Actions \cup {NoAction}]
  BY <1>1, <1>2, <1>3, <1>5, Zenon DEF DaemonTypes
<1>7. \A u \in Tasks : state'[u] = "pending_approval" => state[u] = "pending_approval"
  BY <1>1, Zenon DEF DaemonTypes
<1> QED BY <1>2, <1>6, <1>7, TasksStay, QueueStep, Zenon

LEMMA RestartStep ==
    ASSUME RemoteInv, DaemonRestarts
    PROVE  RemoteInv'
<1> USE DEF RemoteInv, RemoteTypes
<1>1. /\ state' = [t \in Tasks |-> IF t \in {u \in Tasks : state[u] = "in_progress"}
                                     THEN "pending" ELSE state[t]]
      /\ starts' = starts
  BY Zenon DEF DaemonRestarts, Queue!Requeue
<1>2. /\ parking' = [t \in Tasks |-> NoAction] /\ parkedOn' = parkedOn
      /\ born' = born /\ SyncUnaffected
  BY Zenon DEF DaemonRestarts
<1>3. /\ status' = status /\ workItem' = workItem /\ hmac' = hmac
      /\ consumed' = consumed /\ minted' = minted /\ lapsed' = lapsed
  BY Zenon DEF DaemonRestarts, Restart, rowVars
<1>4. "pending" \in Queue!States
  BY Zenon DEF Queue!States, Queue!Live
<1>5. state' \in [Tasks -> Queue!States]
  BY <1>1, <1>4, Zenon DEF DaemonTypes
<1>6. DaemonTypes' /\ ColumnTypes'
  BY <1>1, <1>2, <1>3, <1>5, SameRequests, Zenon DEF DaemonTypes, ColumnTypes
<1>7. \A u \in Tasks : state'[u] = "pending_approval" => state[u] = "pending_approval"
  BY <1>1, Zenon
<1>8. ASSUME NEW q \in Enterprise PROVE KeepsRow(q)
  BY <1>2, <1>3, GateAssumption, SameRow, Zenon
<1>9. DaemonKeeps
  BY <1>2, <1>3, <1>7, <1>8, TasksStay, Zenon DEF DaemonKeeps
<1> QED BY <1>6, <1>9, DaemonInv, Zenon

(* The daemon closes a row, uses one up, or time passes.                   *)
LEMMA RowStep ==
    ASSUME RemoteInv, UNCHANGED <<queueVars, born>>, SyncUnaffected,
           lapsed \subseteq lapsed', minted' = minted,
           workItem' = workItem, hmac' = hmac,
           status' \in [Actions -> RowStates], consumed' \in [Actions -> BOOLEAN],
           \A q \in Actions :
              /\ status'[q] = status[q] \/ status'[q] \in {"rejected", "expired"}
              /\ ~consumed'[q] => ~consumed[q]
    PROVE  RemoteInv'
<1> USE DEF RemoteInv, RemoteTypes
<1>1. /\ state' = state /\ parking' = parking /\ starts' = starts
      /\ parkedOn' = parkedOn /\ born' = born
  BY Zenon DEF queueVars
<1>2. ColumnTypes' /\ DaemonTypes'
  BY <1>1, SameRequests, Zenon DEF ColumnTypes, DaemonTypes
<1>3. ASSUME NEW q \in Enterprise PROVE KeepsRow(q)
  <2>1. q \in Actions
    BY GateAssumption, Zenon
  <2>2. CASE status'[q] = status[q]
    BY <1>1, <2>1, <2>2, SameRow, Zenon
  <2>3. CASE status'[q] \in {"rejected", "expired"}
    <3>1. born[q] <= born[q]
      BY <2>1, SMT DEF DaemonTypes
    <3>2. status'[q] # "pending" /\ status'[q] # "approved"
      BY <2>3, Zenon
    <3> QED BY <1>1, <3>1, <3>2, Zenon DEF KeepsRow
  <2> QED BY <2>1, <2>2, <2>3, Zenon
<1>4. DaemonKeeps
  BY <1>1, <1>3, TasksStay, Zenon DEF DaemonKeeps
<1> QED BY <1>2, <1>4, DaemonInv, Zenon

LEMMA RowSteps ==
    ASSUME RemoteInv, NEW p \in Enterprise,
           \/ HookTimesOut(p) \/ RowAges(p) \/ DenyReads(p) \/ DenyWrites(p)
           \/ \E t \in Tasks : UseApproval(t, p)
    PROVE  RemoteInv'
<1> USE DEF RemoteInv, RemoteTypes
<1>0. /\ status \in [Actions -> RowStates] /\ consumed \in [Actions -> BOOLEAN]
      /\ p \in Actions /\ "rejected" \in RowStates /\ "expired" \in RowStates
  BY GateAssumption, Zenon DEF ColumnTypes, RowStates
<1>1. CASE HookTimesOut(p)
  <2>1. /\ status' = [status EXCEPT ![p] =
                         IF status[p] = "pending" THEN "expired" ELSE status[p]]
        /\ UNCHANGED <<queueVars, born>> /\ SyncUnaffected
        /\ lapsed' = lapsed /\ minted' = minted /\ workItem' = workItem
        /\ hmac' = hmac /\ consumed' = consumed
    BY <1>1, Zenon DEF HookTimesOut, Expire, tokenVars
  <2>2. status' \in [Actions -> RowStates]
    BY <1>0, <2>1, Zenon
  <2>3. \A q \in Actions : status'[q] = status[q] \/ status'[q] \in {"rejected", "expired"}
    BY <1>0, <2>1, Zenon
  <2> QED BY <1>0, <2>1, <2>2, <2>3, RowStep, Zenon
<1>2. CASE DenyWrites(p)
  <2>1. /\ status' = [status EXCEPT ![p] = "rejected"]
        /\ UNCHANGED <<queueVars, born>> /\ SyncUnaffected
        /\ lapsed' = lapsed /\ minted' = minted /\ workItem' = workItem
        /\ hmac' = hmac /\ consumed' = consumed
    BY <1>2, Zenon DEF DenyWrites, RejectWrites, tokenVars
  <2>2. status' \in [Actions -> RowStates]
    BY <1>0, <2>1, Zenon
  <2>3. \A q \in Actions : status'[q] = status[q] \/ status'[q] \in {"rejected", "expired"}
    BY <1>0, <2>1, Zenon
  <2> QED BY <1>0, <2>1, <2>2, <2>3, RowStep, Zenon
<1>3. CASE RowAges(p) \/ DenyReads(p)
  <2>1. /\ status' = status /\ consumed' = consumed
        /\ UNCHANGED <<queueVars, born>> /\ SyncUnaffected
        /\ lapsed' = lapsed /\ minted' = minted /\ workItem' = workItem
        /\ hmac' = hmac
    BY <1>3, Zenon DEF RowAges, Age, DenyReads, RejectReads, tokenVars, rowVars
  <2> QED BY <1>0, <2>1, RowStep, Zenon
<1>4. ASSUME NEW t \in Tasks, UseApproval(t, p) PROVE RemoteInv'
  <2>1. /\ status' = status /\ consumed' = [consumed EXCEPT ![p] = TRUE]
        /\ UNCHANGED <<queueVars, born>> /\ SyncUnaffected
        /\ lapsed' = lapsed /\ minted' = minted /\ workItem' = workItem
        /\ hmac' = hmac
    BY <1>4, Zenon DEF UseApproval, AcceptToken
  <2>2. consumed' \in [Actions -> BOOLEAN] /\ \A q \in Actions : ~consumed'[q] => ~consumed[q]
    BY <1>0, <2>1, Zenon
  <2> QED BY <1>0, <2>1, <2>2, RowStep, Zenon
<1> QED BY <1>1, <1>2, <1>3, <1>4, Zenon

LEMMA LapseStep ==
    ASSUME RemoteInv, NEW k \in Tokens, TokenLapses(k)
    PROVE  RemoteInv'
<1>1. /\ status' = status /\ consumed' = consumed
      /\ UNCHANGED <<queueVars, born>> /\ SyncUnaffected
      /\ lapsed \subseteq lapsed' /\ minted' = minted /\ workItem' = workItem
      /\ hmac' = hmac
  BY Zenon DEF TokenLapses, Lapse, rowVars
<1>2. status \in [Actions -> RowStates] /\ consumed \in [Actions -> BOOLEAN]
  BY Zenon DEF RemoteInv, RemoteTypes, ColumnTypes
<1> QED BY <1>1, <1>2, RowStep, Zenon

-----------------------------------------------------------------------------
(* config_sync.  A step that touches no row, no request and no decision,   *)
(* and parks no task, takes nothing back of what is said of a request.     *)
QuietTick ==
    /\ UNCHANGED <<gateVars, requests, verdict, settled, native, starts, parking>>
    /\ UNCHANGED <<parkedOn, born>>
    /\ cut \subseteq cut'
    /\ state' \in [Tasks -> Queue!States]
    /\ \A t \in Tasks : state'[t] = "pending_approval" => state[t] = "pending_approval"

LEMMA QuietFacts ==
    ASSUME QuietTick
    PROVE  /\ requests' = requests /\ verdict' = verdict /\ native' = native
           /\ settled' = settled /\ status' = status /\ born' = born
           /\ parkedOn' = parkedOn /\ workItem' = workItem
           /\ hmac' = hmac /\ consumed' = consumed /\ lapsed' = lapsed
           /\ minted' = minted /\ parking' = parking /\ starts' = starts
BY Zenon DEF QuietTick, gateVars, rowVars, tokenVars

LEMMA QuietFrame ==
    ASSUME RemoteInv, UNCHANGED <<gateVars, requests, verdict, settled>>,
           cut \subseteq cut', DaemonUnaffected
    PROVE  QuietTick
BY Zenon DEF QuietTick, DaemonUnaffected, RemoteInv, RemoteTypes, DaemonTypes

LEMMA QuietSame ==
    ASSUME QuietTick, NEW r
    PROVE  /\ Action(r)' = Action(r)
           /\ Undecided(r)' = Undecided(r)
           /\ Settles(r) => Settles(r)'
<1>1. Action(r)' = Action(r) /\ Undecided(r)' = Undecided(r)
  BY QuietFacts, Zenon DEF Action, Undecided
<1> QED BY <1>1, Zenon DEF Settles, QuietTick

LEMMA QuietMoves ==
    ASSUME RemoteInv, QuietTick, NEW r \in DOMAIN requests, Moves(r)
    PROVE  Moves(r)'
<1> DEFINE p == Action(r)
<1>1. p \in Actions
  BY RequestFacts, Zenon DEF RemoteInv, RemoteTypes
<1>2. workItem[p] # NoTask => workItem[p] \in Tasks
  BY <1>1, Zenon DEF RemoteInv, RemoteTypes, ColumnTypes
<1>3. LiveToken(p)' = LiveToken(p) /\ BrokerRow(p)' = BrokerRow(p) /\ Action(r)' = p
  BY QuietFacts, QuietSame, Zenon DEF LiveToken, BrokerRow
<1>4. BrokerRow(p) /\ state'[workItem[p]] = "pending_approval"
      => state[workItem[p]] = "pending_approval"
  BY <1>2, Zenon DEF BrokerRow, QuietTick
<1> QED BY <1>3, <1>4, QuietFacts, Zenon DEF Moves

LEMMA QuietInv ==
    ASSUME RemoteInv, QuietTick, ProcessTypes', acked' \subseteq DOMAIN requests,
           \A row \in outbox' : row.born <= born[row.action],
           Handling', Served', NoncesSpent', forgotten \subseteq forgotten',
           \A r \in acked' \cup toAck' :
              r \in acked \cup toAck \/ (Settles(r) /\ Moves(r))
    PROVE  RemoteInv'
<1> USE DEF RemoteInv, RemoteTypes
<1>1. ColumnTypes' /\ DaemonTypes' /\ CloudTypes'
  BY QuietFacts, Zenon DEF ColumnTypes, DaemonTypes, CloudTypes, QuietTick
<1>2. Owned'
  BY QuietFacts, Zenon DEF Owned
<1>3. BornBefore'
  BY QuietFacts, QuietSame, Zenon DEF BornBefore
<1>4. OccurrenceDecided' /\ DecidedOnce'
  BY QuietFacts, Zenon DEF OccurrenceDecided, DecidedOnce
<1>5. Answered'
  <2> SUFFICES ASSUME NEW r \in acked' \cup toAck' PROVE Settles(r)' /\ Moves(r)'
    BY Zenon DEF Answered
  <2>1. Settles(r) /\ Moves(r)
    BY Zenon DEF Answered
  <2>2. r \in DOMAIN requests
    BY QuietFacts, Zenon DEF ProcessTypes
  <2> QED BY <2>1, <2>2, QuietSame, QuietMoves, Zenon
<1> QED BY <1>1, <1>2, <1>3, <1>4, <1>5, Zenon

(* Where the process is next, and what is known there.                     *)
LEMMA PlaceFacts ==
    ASSUME NEW place \in Places, NEW r \in 0 .. Len(requests)
    PROVE  /\ At(place, r) \in [at : Places, req : 0 .. Len(requests)]
           /\ At(place, r).at = place /\ At(place, r).req = r
BY Zenon DEF At

LEMMA IdleFacts ==
    ASSUME CloudTypes
    PROVE  /\ Idle \in [at : Places, req : 0 .. Len(requests)] /\ Idle.at = "idle"
           /\ At("push", 0) \in [at : Places, req : 0 .. Len(requests)]
           /\ At("push", 0).at = "push"
           /\ At("apply", 0) \in [at : Places, req : 0 .. Len(requests)]
           /\ At("apply", 0).at = "apply"
<1>1. 0 \in 0 .. Len(requests)
  BY SMT DEF CloudTypes
<1>2. "idle" \in Places /\ "push" \in Places /\ "apply" \in Places
  BY Zenon DEF Places
<1> QED BY <1>1, <1>2, Zenon DEF Idle, At

LEMMA InRange ==
    ASSUME CloudTypes, NEW r \in DOMAIN requests
    PROVE  r \in 0 .. Len(requests)
BY SMT DEF CloudTypes

(* A step into a place where nothing is handled needs no more of Handling  *)
(* and, unless it leaves "noted", no more of the nonces.                   *)
LEMMA RestHandling ==
    ASSUME syncAt'.at \in {"idle", "push", "posted", "apply"}
    PROVE  Handling'
BY Zenon DEF Handling

LEMMA SameNonces ==
    ASSUME RemoteInv, QuietTick, seen' = seen, forgotten' = forgotten, cut' = cut,
           syncAt.at # "noted" \/ syncAt' = syncAt
    PROVE  NoncesSpent'
BY QuietFacts, QuietSame, Zenon DEF RemoteInv, NoncesSpent

LEMMA TickBeginsStep ==
    ASSUME RemoteInv, TickBegins
    PROVE  RemoteInv'
<1> USE DEF RemoteInv, RemoteTypes
<1>1. /\ seen' = seen /\ forgotten' = forgotten /\ acked' = acked /\ cut' = cut
      /\ toAck' = toAck /\ inbox' = inbox /\ pushed' = pushed /\ QuietTick
  BY QuietFrame, Zenon DEF TickBegins, cloudVars, historyVars
<1>2. outbox' = {[action |-> p, born |-> born[p]] : p \in {e \in Enterprise : Unpushed(e)}}
      /\ syncAt' = At("push", 0) /\ syncAt = Idle
  BY Zenon DEF TickBegins
<1>3. ASSUME NEW row \in outbox' PROVE row \in Row /\ row.born <= born[row.action]
  <2>1. PICK p \in Enterprise : row = [action |-> p, born |-> born[p]]
    BY <1>2, Zenon
  <2>2. p \in Actions /\ born[p] \in Nat
    BY GateAssumption, Zenon DEF DaemonTypes
  <2>3. born[p] <= born[p]
    BY <2>2, SMT
  <2> QED BY <2>1, <2>2, <2>3, Zenon DEF Row
<1>4. syncAt' \in [at : Places, req : 0 .. Len(requests)] /\ syncAt'.at = "push"
      /\ syncAt.at = "idle"
  BY <1>2, IdleFacts, Zenon
<1>5. ProcessTypes'
  BY <1>1, <1>3, <1>4, QuietFacts, Zenon DEF ProcessTypes
<1>6. Handling' /\ NoncesSpent' /\ Served'
  BY <1>1, <1>4, RestHandling, SameNonces, QuietFacts, Zenon DEF Served
<1> QED BY <1>1, <1>3, <1>5, <1>6, QuietInv, Zenon DEF CloudTypes

LEMMA MarkPushedStep ==
    ASSUME RemoteInv, MarkPushed
    PROVE  RemoteInv'
<1> USE DEF RemoteInv, RemoteTypes
<1>1. /\ seen' = seen /\ forgotten' = forgotten /\ acked' = acked /\ cut' = cut
      /\ toAck' = toAck /\ inbox' = inbox /\ outbox' = outbox /\ QuietTick
  BY QuietFrame, Zenon DEF MarkPushed, cloudVars, historyVars
<1>2. /\ syncAt.at = "posted" /\ pushed' = pushed \cup {syncAt.req}
      /\ syncAt' = At("push", 0)
  BY Zenon DEF MarkPushed
<1>3. syncAt' \in [at : Places, req : 0 .. Len(requests)] /\ syncAt'.at = "push"
  BY <1>2, IdleFacts, Zenon
<1>4. ProcessTypes'
  BY <1>1, <1>2, <1>3, QuietFacts, Zenon DEF ProcessTypes
<1>5. Handling' /\ NoncesSpent' /\ Served'
  BY <1>1, <1>2, <1>3, RestHandling, SameNonces, QuietFacts, Zenon DEF Served
<1> QED BY <1>1, <1>4, <1>5, QuietInv, Zenon DEF CloudTypes, BornBefore

LEMMA PollStep ==
    ASSUME RemoteInv, NEW k \in 0 .. Len(requests), NEW j \in 0 .. Len(requests),
           Poll(k, j)
    PROVE  RemoteInv'
<1> USE DEF RemoteInv, RemoteTypes
<1>1. /\ acked' = acked /\ cut' = cut /\ toAck' = toAck /\ outbox' = outbox
      /\ QuietTick
  BY QuietFrame, Zenon DEF Poll, cloudVars
<1>2. /\ syncAt.at = "push" /\ syncAt' = At("apply", 0)
      /\ pushed' \subseteq pushed
      /\ inbox' \subseteq {r \in DOMAIN requests : verdict[r] # "none"}
      /\ seen' = {r \in seen : r > j}
      /\ forgotten' = forgotten \cup {r \in seen : r <= j}
  BY Zenon DEF Poll
<1>3. syncAt' \in [at : Places, req : 0 .. Len(requests)] /\ syncAt'.at = "apply"
  BY <1>2, IdleFacts, Zenon
<1>4. ProcessTypes'
  BY <1>1, <1>2, <1>3, QuietFacts, Zenon DEF ProcessTypes
<1>5. Handling' /\ Served'
  BY <1>1, <1>2, <1>3, RestHandling, QuietFacts, Zenon DEF Served
<1>6. \A r \in seen : r > j \/ r <= j
  BY SMT DEF ProcessTypes, CloudTypes
<1>7. seen \subseteq seen' \cup forgotten' /\ seen' \subseteq seen
      /\ forgotten \subseteq forgotten'
  BY <1>2, <1>6, Zenon
<1>8. NoncesSpent'
  BY <1>1, <1>2, <1>7, QuietFacts, QuietSame, Zenon DEF NoncesSpent
<1> QED BY <1>1, <1>4, <1>5, <1>7, <1>8, QuietInv, Zenon DEF CloudTypes, BornBefore

LEMMA AckStep ==
    ASSUME RemoteInv, Ack
    PROVE  RemoteInv'
<1> USE DEF RemoteInv, RemoteTypes
<1>1. /\ seen' = seen /\ forgotten' = forgotten /\ cut' = cut
      /\ pushed' = pushed /\ inbox' = inbox /\ outbox' = outbox /\ QuietTick
  BY QuietFrame, Zenon DEF Ack, historyVars
<1>2. /\ syncAt.at = "apply" /\ syncAt' = Idle /\ toAck' = {}
      /\ acked' \subseteq acked \cup toAck
  BY Zenon DEF Ack
<1>3. syncAt' \in [at : Places, req : 0 .. Len(requests)] /\ syncAt'.at = "idle"
  BY <1>2, IdleFacts, Zenon
<1>4. ProcessTypes'
  BY <1>1, <1>2, <1>3, QuietFacts, Zenon DEF ProcessTypes
<1>5. Handling' /\ NoncesSpent' /\ Served'
  BY <1>1, <1>2, <1>3, RestHandling, SameNonces, QuietFacts, Zenon DEF Served
<1>6. acked' \subseteq DOMAIN requests
  BY <1>2, Zenon DEF CloudTypes, ProcessTypes
<1> QED BY <1>1, <1>2, <1>4, <1>5, <1>6, QuietInv, Zenon DEF BornBefore

LEMMA SyncDiesStep ==
    ASSUME RemoteInv, SyncDies
    PROVE  RemoteInv'
<1> USE DEF RemoteInv, RemoteTypes
<1>1. /\ seen' = seen /\ forgotten' = forgotten /\ acked' = acked
      /\ pushed' = pushed /\ inbox' = {} /\ outbox' = {} /\ toAck' = {}
      /\ syncAt' = Idle
      /\ cut' = IF syncAt.at = "noted" THEN cut \cup {syncAt.req} ELSE cut
  BY Zenon DEF SyncDies, cloudVars
<1>2. QuietTick
  BY <1>1, QuietFrame, Zenon DEF SyncDies, cloudVars
<1>3. syncAt' \in [at : Places, req : 0 .. Len(requests)] /\ syncAt'.at = "idle"
  BY <1>1, IdleFacts, Zenon
<1>4. cut' \subseteq DOMAIN requests
  BY <1>1, Zenon DEF ProcessTypes
<1>5. ProcessTypes'
  BY <1>1, <1>2, <1>3, <1>4, QuietFacts, Zenon DEF ProcessTypes
<1>6. Handling' /\ Served'
  BY <1>1, <1>2, <1>3, RestHandling, QuietFacts, Zenon DEF Served
<1>7. \A r \in seen : Undecided(r) => r \in cut'
  BY <1>1, Zenon DEF NoncesSpent
<1>8. \A r \in cut' : verdict[r] = "deny" \/ Action(r) \in native
  BY <1>1, Zenon DEF NoncesSpent, Handling
<1>9. NoncesSpent'
  <2>1. \A r \in seen' : Undecided(r)' => r \in cut'
    BY <1>1, <1>2, <1>7, QuietSame, Zenon
  <2>2. \A r \in cut' : verdict'[r] = "deny" \/ Action(r)' \in native'
    BY <1>2, <1>8, QuietFacts, QuietSame, Zenon
  <2>3. \A s \in settled' : ~s.mint => s.req \in seen' \cup forgotten'
    BY <1>1, <1>2, QuietFacts, Zenon DEF NoncesSpent
  <2> QED BY <2>1, <2>2, <2>3, Zenon DEF NoncesSpent
<1> QED BY <1>1, <1>2, <1>5, <1>6, <1>9, QuietInv, Zenon DEF CloudTypes

(* The decision is put aside: the process goes on with the next one.       *)
LEMMA HandledFacts ==
    ASSUME RemoteInv, NEW r \in DOMAIN requests, NEW ack \in BOOLEAN,
           verdict[r] # "none", QuietTick, Handled(r, ack),
           outbox' = outbox, pushed' = pushed, acked' = acked, cut' = cut,
           seen' \subseteq DOMAIN requests
    PROVE  /\ syncAt'.at = "apply"
           /\ ProcessTypes' /\ Handling' /\ Served'
           /\ toAck' = IF ack THEN toAck \cup {r} ELSE toAck
<1> USE DEF RemoteInv, RemoteTypes
<1>1. /\ inbox' \subseteq inbox /\ syncAt' = At("apply", 0)
      /\ toAck' = IF ack THEN toAck \cup {r} ELSE toAck
  BY Zenon DEF Handled
<1>2. syncAt' \in [at : Places, req : 0 .. Len(requests)] /\ syncAt'.at = "apply"
  BY <1>1, IdleFacts, Zenon
<1>3. toAck' \subseteq toAck \cup {r}
  BY <1>1, Zenon
<1>4. ProcessTypes'
  BY <1>1, <1>2, <1>3, QuietFacts, Zenon DEF ProcessTypes
<1>5. Handling' /\ Served'
  BY <1>1, <1>2, <1>3, RestHandling, QuietFacts, Zenon DEF Served
<1> QED BY <1>1, <1>2, <1>4, <1>5, Zenon

(* ... or it is worked on.                                                 *)
LEMMA TakenUp ==
    ASSUME RemoteInv, NEW r \in DOMAIN requests, QuietTick,
           NEW place \in {"mint", "minted", "confirm", "noted"},
           verdict[r] # "none", syncAt' = At(place, r),
           outbox' = outbox, pushed' = pushed, acked' = acked, cut' = cut,
           inbox' = inbox, toAck' = toAck, seen' \subseteq DOMAIN requests
    PROVE  /\ syncAt'.at = place /\ syncAt'.req = r
           /\ ProcessTypes' /\ Served'
<1> USE DEF RemoteInv, RemoteTypes
<1>1. place \in Places
  BY Zenon DEF Places
<1>2. /\ syncAt' \in [at : Places, req : 0 .. Len(requests)]
      /\ syncAt'.at = place /\ syncAt'.req = r
  BY <1>1, InRange, PlaceFacts, Zenon
<1>3. ProcessTypes'
  BY <1>2, QuietFacts, Zenon DEF ProcessTypes
<1>4. Served'
  BY <1>2, QuietFacts, Zenon DEF Served
<1> QED BY <1>2, <1>3, <1>4, Zenon

(* A request that a later push has superseded speaks of an older row.      *)
LEMMA Superseded ==
    ASSUME RemoteInv, NEW r \in DOMAIN requests, ~Latest(r)
    PROVE  born[Action(r)] # requests[r].born
<1> USE DEF RemoteInv, RemoteTypes
<1>1. PICK q \in pushed : /\ Action(q) = Action(r)
                          /\ ~(requests[q].born <= requests[r].born)
  BY Zenon DEF Latest
<1>2. q \in DOMAIN requests
  BY Zenon DEF ProcessTypes
<1>3. requests[q].born <= born[Action(r)] /\ requests[q].born \in Nat
  BY <1>1, <1>2, RequestFacts, Zenon DEF BornBefore
<1>4. requests[r].born \in Nat
  BY RequestFacts, Zenon
<1> QED BY <1>1, <1>3, <1>4, SMT

LEMMA VerifyStep ==
    ASSUME RemoteInv, NEW r \in inbox, Verify(r)
    PROVE  RemoteInv'
<1> USE DEF RemoteInv, RemoteTypes
<1>1. /\ forgotten' = forgotten /\ acked' = acked /\ cut' = cut
      /\ pushed' = pushed /\ outbox' = outbox /\ QuietTick
  BY QuietFrame, Zenon DEF Verify, SyncOnly, cloudVars, historyVars
<1>2. r \in DOMAIN requests /\ verdict[r] # "none" /\ syncAt.at = "apply"
  BY Zenon DEF Verify, ProcessTypes, Served
<1>3. acked' \subseteq DOMAIN requests /\ forgotten \subseteq forgotten'
      /\ \A row \in outbox' : row.born <= born[row.action]
  BY <1>1, Zenon DEF CloudTypes, BornBefore
<1>4. \A q \in seen : Undecided(q) => q \in cut
  BY <1>2, Zenon DEF NoncesSpent
<1>5. seen' = seen => NoncesSpent' /\ seen' \subseteq DOMAIN requests
  BY <1>1, <1>2, SameNonces, Zenon DEF ProcessTypes
(* The decision is dropped.                                                *)
<1>6. ASSUME Handled(r, FALSE), seen' = seen PROVE RemoteInv'
  <2>1. ProcessTypes' /\ Handling' /\ Served' /\ toAck' = toAck
    BY <1>1, <1>2, <1>5, <1>6, HandledFacts, Zenon
  <2> QED BY <1>1, <1>3, <1>5, <1>6, <2>1, QuietInv, Zenon
(* The decision is acknowledged.                                           *)
<1>7. ASSUME Handled(r, TRUE), seen' = seen, Settles(r), Moves(r) PROVE RemoteInv'
  <2>1. ProcessTypes' /\ Handling' /\ Served' /\ toAck' = toAck \cup {r}
    BY <1>1, <1>2, <1>5, <1>7, HandledFacts, Zenon
  <2> QED BY <1>1, <1>3, <1>5, <1>7, <2>1, QuietInv, Zenon
<1>8. CASE r \notin pushed /\ Handled(r, FALSE) /\ UNCHANGED seen
  BY <1>6, <1>8, Zenon
<1>9. CASE ~Latest(r) /\ Handled(r, TRUE) /\ UNCHANGED seen
  <2>1. born[Action(r)] # requests[r].born
    BY <1>2, <1>9, Superseded, Zenon
  <2>2. Settles(r) /\ Moves(r)
    BY <2>1, Zenon DEF Settles, Undecided, Moves
  <2> QED BY <1>7, <1>9, <2>2, Zenon
<1>10. CASE /\ status[Action(r)] # "pending" /\ ~Stuck(r)
            /\ Handled(r, TRUE) /\ UNCHANGED seen
  <2>1. Settles(r)
    BY <1>10, Zenon DEF Settles, Undecided
  <2>2. Moves(r)
    BY <1>10, Zenon DEF Stuck, Moves
  <2> QED BY <1>7, <1>10, <2>1, <2>2, Zenon
<1>11. CASE /\ status[Action(r)] # "pending"
            /\ syncAt' = At("minted", r) /\ UNCHANGED <<inbox, toAck>> /\ UNCHANGED seen
  <2>1. syncAt'.at = "minted" /\ syncAt'.req = r /\ ProcessTypes' /\ Served'
    BY <1>1, <1>2, <1>5, <1>11, TakenUp, Zenon
  <2>2. ~Undecided(r)
    BY <1>11, Zenon DEF Undecided
  <2>3. Handling'
    BY <1>1, <2>1, <2>2, QuietSame, Zenon DEF Handling
  <2> QED BY <1>1, <1>3, <1>5, <1>11, <2>1, <2>3, QuietInv, Zenon
<1>12. CASE /\ Latest(r) /\ status[Action(r)] = "pending"
            /\ syncAt' = At("mint", r) /\ UNCHANGED <<seen, inbox, toAck>>
  <2>1. syncAt'.at = "mint" /\ syncAt'.req = r /\ ProcessTypes' /\ Served'
    BY <1>1, <1>2, <1>5, <1>12, TakenUp, Zenon
  <2>2. Latest(r)' /\ Action(r)' = Action(r) /\ status' = status
    BY <1>1, <1>12, QuietFacts, Zenon DEF Latest, Action
  <2>3. status[Action(r)] # "approved"
    BY <1>12, Zenon
  <2>4. Handling'
    BY <2>1, <2>2, <2>3, Zenon DEF Handling
  <2> QED BY <1>1, <1>3, <1>5, <1>12, <2>1, <2>4, QuietInv, Zenon
<1>13. CASE /\ status[Action(r)] = "pending" /\ Replayed(r)
            /\ Handled(r, TRUE) /\ seen' = seen \cup {r}
  <2>1. seen' = seen /\ r \in seen
    BY <1>13, Zenon DEF Replayed
  <2>2. Settles(r) /\ Moves(r)
    BY <1>4, <1>13, <2>1, Zenon DEF Settles, Moves
  <2> QED BY <1>7, <1>13, <2>1, <2>2, Zenon
<1>14. CASE /\ Latest(r) /\ status[Action(r)] = "pending"
            /\ verdict[r] = "deny" \/ ~BrokerRow(Action(r))
            /\ ~Replayed(r) /\ syncAt' = At("noted", r) /\ UNCHANGED <<inbox, toAck>>
            /\ seen' = seen \cup {r}
  <2>1. seen' \subseteq DOMAIN requests
    BY <1>2, <1>14, Zenon DEF ProcessTypes
  <2>2. syncAt'.at = "noted" /\ syncAt'.req = r /\ ProcessTypes' /\ Served'
    BY <1>1, <1>2, <1>14, <2>1, TakenUp, Zenon
  <2>3. Latest(r)' /\ Action(r)' = Action(r) /\ status' = status
    BY <1>1, <1>14, QuietFacts, Zenon DEF Latest, Action
  <2>4. status[Action(r)] # "approved" /\ Action(r) \in Enterprise
    BY <1>2, <1>14, RequestFacts, Zenon
  <2>5. verdict[r] = "deny" \/ Action(r) \in native
    BY <1>14, <2>4, Zenon DEF BrokerRow, Owned
  <2>6. \A s \in settled : s.req = r /\ ~s.mint => r \in forgotten
    BY <1>14, Zenon DEF NoncesSpent, Replayed
  <2>7. verdict' = verdict /\ native' = native /\ settled' = settled
    BY <1>1, QuietFacts, Zenon
  <2>8. Handling'
    BY <1>1, <1>14, <2>2, <2>3, <2>4, <2>5, <2>6, <2>7, Zenon DEF Handling
  <2>9. \A q \in seen' : Undecided(q)' => q \in cut' \/ (syncAt'.at = "noted" /\ syncAt'.req = q)
    BY <1>1, <1>4, <1>14, <2>2, QuietSame, Zenon
  <2>10. NoncesSpent'
    BY <1>1, <1>14, <2>7, <2>9, QuietSame, Zenon DEF NoncesSpent
  <2> QED BY <1>1, <1>3, <1>14, <2>2, <2>8, <2>10, QuietInv, Zenon
<1> QED BY <1>8, <1>9, <1>10, <1>11, <1>12, <1>13, <1>14, Zenon DEF Verify

LEMMA ReenqueueStep ==
    ASSUME RemoteInv, Reenqueue
    PROVE  RemoteInv'
<1> USE DEF RemoteInv, RemoteTypes
<1> DEFINE r == syncAt.req
           task == workItem[Action(r)]
<1>1. /\ forgotten' = forgotten /\ acked' = acked /\ cut' = cut /\ seen' = seen
      /\ pushed' = pushed /\ outbox' = outbox /\ settled' = settled
      /\ UNCHANGED <<gateVars, requests, verdict, native, parking, parkedOn, born>>
      /\ syncAt.at = "minted"
  BY Zenon DEF Reenqueue, cloudVars, historyVars
<1>2. /\ state' = state \/ state' = [state EXCEPT ![task] = "pending"]
      /\ starts' = starts
  BY Zenon DEF Reenqueue, Queue!Unpark
<1>3. "pending" \in Queue!States
  BY Zenon DEF Queue!States, Queue!Live
<1>4. /\ state' \in [Tasks -> Queue!States]
      /\ \A t \in Tasks : state'[t] = "pending_approval" => state[t] = "pending_approval"
  BY <1>2, <1>3, Zenon DEF DaemonTypes
<1>5. QuietTick
  BY <1>1, <1>2, <1>4, Zenon DEF QuietTick
<1>6. r \in DOMAIN requests /\ verdict[r] # "none" /\ ~Undecided(r)
  BY <1>1, Zenon DEF ProcessTypes, Served, Handling
<1>7. acked' \subseteq DOMAIN requests /\ forgotten \subseteq forgotten'
      /\ \A row \in outbox' : row.born <= born[row.action]
  BY <1>1, Zenon DEF CloudTypes, BornBefore
<1>8. NoncesSpent' /\ seen' \subseteq DOMAIN requests
  BY <1>1, <1>5, SameNonces, Zenon DEF ProcessTypes
<1>9. CASE syncAt' = At("confirm", r) /\ UNCHANGED <<inbox, toAck>>
  <2>1. syncAt'.at = "confirm" /\ syncAt'.req = r /\ ProcessTypes' /\ Served'
    BY <1>1, <1>5, <1>6, <1>8, <1>9, TakenUp, Zenon
  <2>2. Handling'
    BY <1>5, <1>6, <2>1, QuietSame, Zenon DEF Handling
  <2> QED BY <1>1, <1>5, <1>7, <1>8, <1>9, <2>1, <2>2, QuietInv, Zenon
<1>10. CASE Handled(r, FALSE)
  <2>1. ProcessTypes' /\ Handling' /\ Served' /\ toAck' = toAck
    BY <1>1, <1>5, <1>6, <1>8, <1>10, HandledFacts, Zenon
  <2> QED BY <1>1, <1>5, <1>7, <1>8, <2>1, QuietInv, Zenon
<1> QED BY <1>9, <1>10, Zenon DEF Reenqueue

LEMMA ConfirmStep ==
    ASSUME RemoteInv, Confirm
    PROVE  RemoteInv'
<1> USE DEF RemoteInv, RemoteTypes
<1> DEFINE r == syncAt.req
           moved == state[workItem[Action(r)]] # "pending_approval"
<1>1. /\ forgotten' = forgotten /\ acked' = acked /\ cut' = cut
      /\ pushed' = pushed /\ outbox' = outbox /\ QuietTick
      /\ syncAt.at = "confirm" /\ moved \in BOOLEAN
      /\ seen' = (IF moved THEN seen \cup {r} ELSE seen) /\ Handled(r, moved)
  BY QuietFrame, Zenon DEF Confirm, SyncOnly, cloudVars, historyVars
<1>2. r \in DOMAIN requests /\ verdict[r] # "none" /\ ~Undecided(r)
  BY <1>1, Zenon DEF ProcessTypes, Served, Handling
<1>3. acked' \subseteq DOMAIN requests /\ forgotten \subseteq forgotten'
      /\ \A row \in outbox' : row.born <= born[row.action]
  BY <1>1, Zenon DEF CloudTypes, BornBefore
<1>4. seen \subseteq seen' /\ seen' \subseteq seen \cup {r} /\ seen' \subseteq DOMAIN requests
  BY <1>1, <1>2, Zenon DEF ProcessTypes
<1>5. /\ ProcessTypes' /\ Handling' /\ Served' /\ syncAt'.at = "apply"
      /\ toAck' = IF moved THEN toAck \cup {r} ELSE toAck
  BY <1>1, <1>2, <1>4, HandledFacts, Zenon
<1>6. \A q \in seen' : Undecided(q)' => q \in cut'
  BY <1>1, <1>2, <1>4, QuietSame, Zenon DEF NoncesSpent
<1>7. NoncesSpent'
  BY <1>1, <1>4, <1>6, QuietFacts, QuietSame, Zenon DEF NoncesSpent
<1>8. moved => Settles(r) /\ Moves(r)
  BY <1>2, Zenon DEF Settles, Moves
<1>9. \A q \in acked' \cup toAck' : q \in acked \cup toAck \/ (Settles(q) /\ Moves(q))
  BY <1>1, <1>5, <1>8, Zenon
<1> QED BY <1>1, <1>3, <1>5, <1>7, <1>9, QuietInv, Zenon

-----------------------------------------------------------------------------
(* A decision resolves the row it is for: no other row changes, and of the *)
(* requests for this one only those cut off are still unanswered.          *)
Resolves(r, v) ==
    /\ status[Action(r)] = "pending"
    /\ status' = [status EXCEPT ![Action(r)] = v]
    /\ hmac' \in [Actions -> Nat] /\ minted' \in Seq(Actions)
    /\ \A p \in Actions : p # Action(r) => hmac'[p] = hmac[p]
    /\ Record(r)
    /\ DaemonUnaffected
    /\ UNCHANGED <<requests, verdict, workItem, consumed, lapsed, cut, forgotten>>
    /\ UNCHANGED <<acked, seen, pushed, outbox>>

LEMMA ResolvedRequests ==
    ASSUME RemoteInv, NEW r \in DOMAIN requests, NEW v \in {"approved", "rejected"},
           Resolves(r, v), NEW q \in DOMAIN requests
    PROVE  /\ Action(q)' = Action(q)
           /\ Undecided(q)' => Undecided(q) /\ Action(q) # Action(r)
           /\ Settles(q) => Settles(q)'
           /\ Settles(q) /\ Moves(q) => Moves(q)'
<1> USE DEF RemoteInv, RemoteTypes
<1> DEFINE p == Action(q)
<1>1. /\ Action(q) \in Actions /\ Action(r) \in Actions /\ Action(q) \in Enterprise
  BY RequestFacts, Zenon
<1>2. /\ requests' = requests /\ verdict' = verdict /\ native' = native
      /\ born' = born /\ state' = state /\ parkedOn' = parkedOn
      /\ workItem' = workItem /\ consumed' = consumed /\ lapsed' = lapsed
      /\ cut' = cut
  BY Zenon DEF Resolves, DaemonUnaffected
<1>3. Action(q)' = p
  BY <1>2, Zenon DEF Action
<1>4. status'[Action(r)] = v /\ (p # Action(r) => status'[p] = status[p])
  BY <1>1, Zenon DEF Resolves, ColumnTypes
<1>5. Undecided(q)' => Undecided(q) /\ p # Action(r)
  BY <1>2, <1>3, <1>4, Zenon DEF Undecided
<1>6. Settles(q) => Settles(q)'
  BY <1>2, <1>5, Zenon DEF Settles
<1>7. ASSUME Settles(q), Moves(q), p # Action(r) PROVE Moves(q)'
  <2>1. hmac'[p] = hmac[p]
    BY <1>1, <1>7, Zenon DEF Resolves
  <2>2. LiveToken(Action(q))' = LiveToken(p) /\ BrokerRow(Action(q))' = BrokerRow(p)
    BY <1>2, <1>3, <1>4, <1>7, <2>1, Zenon DEF LiveToken, BrokerRow
  <2> QED BY <1>2, <1>3, <1>4, <1>7, <2>2, Zenon DEF Moves
<1>8. ASSUME Settles(q), p = Action(r) PROVE Moves(q)'
  <2>1. SUFFICES ASSUME verdict[q] = "approve", born[p] = requests[q].born,
                        workItem[p] # NoTask
                 PROVE  FALSE
    BY <1>2, <1>3, Zenon DEF Moves, BrokerRow
  <2>2. Undecided(q)
    BY <1>8, <2>1, Zenon DEF Undecided, Resolves
  <2>3. p \in native
    BY <1>8, <2>1, <2>2, Zenon DEF Settles, NoncesSpent
  <2> QED BY <1>1, <2>1, <2>3, Zenon DEF Owned
<1> QED BY <1>3, <1>5, <1>6, <1>7, <1>8, Zenon

LEMMA ResolveInv ==
    ASSUME RemoteInv, NEW v \in {"approved", "rejected"},
           syncAt.at \in {"mint", "noted"}, NEW r, r = syncAt.req, Resolves(r, v),
           inbox' \subseteq inbox, toAck' \subseteq toAck \cup {r},
           r \in toAck' => Moves(r)' \/ r \in toAck,
           syncAt' \in [at : Places, req : 0 .. Len(requests)],
           syncAt' = At("minted", r) \/ syncAt' = At("apply", 0)
    PROVE  RemoteInv'
<1> USE DEF RemoteInv, RemoteTypes
<1> DEFINE p == Action(r)
<1>1. r \in DOMAIN requests /\ p \in Actions /\ p \in Enterprise /\ verdict[r] # "none"
      /\ requests[r].born \in Nat
  BY RequestFacts, Zenon DEF ProcessTypes, Served
<1>2. /\ requests' = requests /\ verdict' = verdict /\ native' = native
      /\ born' = born /\ state' = state /\ parkedOn' = parkedOn
      /\ workItem' = workItem /\ consumed' = consumed /\ lapsed' = lapsed
      /\ cut' = cut /\ acked' = acked /\ seen' = seen /\ pushed' = pushed
      /\ outbox' = outbox /\ forgotten' = forgotten /\ parking' = parking
      /\ starts' = starts /\ Record(r)
  BY Zenon DEF Resolves, DaemonUnaffected
<1>3. PICK s : /\ settled' = settled \cup {s} /\ s.req = r /\ s.born = born[p]
               /\ s.known <=> \E q \in pushed : /\ Action(q) = p
                                                /\ requests[q].born = born[p]
               /\ s.mint <=> syncAt.at = "mint"
  <2> DEFINE known == \E q \in pushed : Action(q) = p /\ requests[q].born = born[p]
             rec == [req |-> r, born |-> born[p], known |-> known,
                     mint |-> syncAt.at = "mint"]
  <2>1. settled' = settled \cup {rec}
    BY <1>2, Zenon DEF Record
  <2>2. /\ rec.req = r /\ rec.born = born[p] /\ rec.known = known
        /\ rec.mint = (syncAt.at = "mint")
    BY Zenon
  <2> HIDE DEF rec
  <2> QED BY <2>1, <2>2, Zenon
<1>4. ColumnTypes'
  <2>1. v \in RowStates
    BY Zenon DEF RowStates
  <2>2. status' \in [Actions -> RowStates]
    BY <2>1, Zenon DEF Resolves, ColumnTypes
  <2> QED BY <1>2, <2>2, Zenon DEF Resolves, ColumnTypes
<1>5. DaemonTypes' /\ CloudTypes'
  BY <1>2, Zenon DEF DaemonTypes, CloudTypes
<1>6. syncAt'.at \in {"minted", "apply"} /\ (syncAt'.at = "minted" => syncAt'.req = r)
  <2>1. CASE syncAt' = At("minted", r)
    BY <2>1, Zenon DEF At
  <2>2. CASE syncAt' = At("apply", 0)
    BY <2>2, Zenon DEF At
  <2> QED BY <2>1, <2>2, Zenon
<1>7. ProcessTypes'
  BY <1>1, <1>2, <1>3, <1>6, Zenon DEF ProcessTypes
<1>8. status'[p] = v /\ \A q \in Actions : q # p => status'[q] = status[q] /\ hmac'[q] = hmac[q]
  BY <1>1, Zenon DEF Resolves, ColumnTypes
<1>9. Owned'
  <2> SUFFICES ASSUME NEW q \in Enterprise
               PROVE  /\ q \in native' => workItem'[q] = NoTask
                      /\ status'[q] = "pending" => hmac'[q] = 0
                      /\ status'[q] = "pending" /\ workItem'[q] = NoTask => q \in native'
    BY Zenon DEF Owned
  <2>1. q \in Actions
    BY GateAssumption, Zenon
  <2>2. status'[q] = "pending" => status[q] = "pending" /\ hmac'[q] = hmac[q]
    BY <1>8, <2>1, Zenon
  <2> QED BY <1>2, <2>2, Zenon DEF Owned
<1>10. BornBefore'
  BY <1>2, Zenon DEF BornBefore, Action
<1>11. Handling'
  <2>1. ~Undecided(r)'
    BY <1>1, ResolvedRequests, Zenon
  <2> QED BY <1>6, <2>1, Zenon DEF Handling
<1>12. Served'
  BY <1>1, <1>2, <1>6, Zenon DEF Served
<1>13. NoncesSpent'
  <2>1. ASSUME NEW q \in seen, Undecided(q)' PROVE q \in cut
    <3>1. q \in DOMAIN requests
      BY Zenon DEF ProcessTypes
    <3>2. Undecided(q) /\ q # r
      BY <1>1, <2>1, <3>1, ResolvedRequests, Zenon
    <3> QED BY <3>2, Zenon DEF NoncesSpent
  <2>2. \A q \in cut : verdict[q] = "deny" \/ Action(q)' \in native
    BY <1>2, Zenon DEF NoncesSpent, Action
  <2>3. ~s.mint => r \in seen
    BY <1>3, Zenon DEF Handling
  <2>4. \A u \in settled' : ~u.mint => u.req \in seen \cup forgotten
    BY <1>3, <2>3, Zenon DEF NoncesSpent
  <2> QED BY <1>2, <2>1, <2>2, <2>4, Zenon DEF NoncesSpent
<1>14. OccurrenceDecided'
  <2>1. s.known => requests[r].born = born[p]
    <3> SUFFICES ASSUME s.known PROVE requests[r].born = born[p]
      OBVIOUS
    <3>1. PICK q \in pushed : Action(q) = p /\ requests[q].born = born[p]
      BY <1>3, Zenon
    <3>2. requests[q].born <= requests[r].born
      BY <3>1, Zenon DEF Handling, Latest
    <3>3. requests[r].born <= born[p] /\ born[p] \in Nat
      BY <1>1, Zenon DEF BornBefore, DaemonTypes
    <3> QED BY <1>1, <3>1, <3>2, <3>3, SMT
  <2> QED BY <1>2, <1>3, <2>1, Zenon DEF OccurrenceDecided
<1>15. DecidedOnce'
  <2>1. ~s.mint => \A u \in settled : u.req = r /\ ~u.mint => r \in forgotten
    BY <1>3, Zenon DEF Handling
  <2> SUFFICES ASSUME NEW t \in settled', NEW u \in settled', t.req = u.req,
                      ~t.mint, ~u.mint, t.req \notin forgotten
               PROVE  t = u
    BY <1>2, Zenon DEF DecidedOnce
  <2>2. t \in settled \cup {s} /\ u \in settled \cup {s}
    BY <1>3, Zenon
  <2>3. CASE t \in settled /\ u \in settled
    BY <2>3, Zenon DEF DecidedOnce
  <2>4. t = s => u \notin settled
    BY <1>3, <2>1, Zenon
  <2>5. u = s => t \notin settled
    BY <1>3, <2>1, Zenon
  <2> QED BY <2>2, <2>3, <2>4, <2>5, Zenon
<1>16. Answered'
  <2> SUFFICES ASSUME NEW q \in acked \cup toAck' PROVE Settles(q)' /\ Moves(q)'
    BY <1>2, Zenon DEF Answered
  <2>1. q \in DOMAIN requests
    BY <1>1, Zenon DEF CloudTypes, ProcessTypes
  <2>2. CASE q \in acked \cup toAck
    BY <1>1, <2>1, <2>2, ResolvedRequests, Zenon DEF Answered
  <2>3. CASE q = r /\ q \notin acked \cup toAck
    BY <1>1, <2>1, <2>3, ResolvedRequests, Zenon DEF Settles
  <2> QED BY <2>2, <2>3, Zenon
<1> QED
  BY <1>4, <1>5, <1>7, <1>9, <1>10, <1>11, <1>12, <1>13, <1>14, <1>15, <1>16, Zenon

LEMMA MintStep ==
    ASSUME RemoteInv, MintDecision
    PROVE  RemoteInv'
<1> USE DEF RemoteInv, RemoteTypes
<1>0. PICK r : r = syncAt.req
  BY Zenon
<1> DEFINE p == Action(r)
<1>1. /\ syncAt.at = "mint" /\ DaemonUnaffected
      /\ UNCHANGED <<requests, verdict, acked, outbox, pushed, seen, cut, forgotten>>
  BY Zenon DEF MintDecision, cloudVars
<1>2. /\ r \in DOMAIN requests /\ p \in Actions /\ verdict[r] # "none"
      /\ status[p] # "approved" /\ acked' = acked
  BY <1>0, <1>1, RequestFacts, Zenon DEF ProcessTypes, Served, Handling
<1>3. CASE /\ ApproveEnterprise(p) /\ Record(r) /\ syncAt' = At("minted", r)
           /\ UNCHANGED <<inbox, toAck>>
  <2>1. /\ status[p] = "pending" /\ status' = [status EXCEPT ![p] = "approved"]
        /\ hmac' = [hmac EXCEPT ![p] = Len(minted) + 1] /\ minted' = Append(minted, p)
        /\ UNCHANGED <<workItem, consumed, lapsed>>
    BY <1>3, Zenon DEF ApproveEnterprise, Mint
  <2>2. Len(minted) + 1 \in Nat /\ minted' \in Seq(Actions)
    BY <1>2, <2>1, SMT DEF ColumnTypes
  <2>3. hmac' \in [Actions -> Nat] /\ \A q \in Actions : q # p => hmac'[q] = hmac[q]
    BY <2>1, <2>2, Zenon DEF ColumnTypes
  <2>4. Resolves(r, "approved")
    BY <1>1, <1>3, <2>1, <2>2, <2>3, Zenon DEF Resolves
  <2>5. syncAt' \in [at : Places, req : 0 .. Len(requests)]
    <3>1. "minted" \in Places
      BY Zenon DEF Places
    <3> QED BY <1>2, <1>3, <3>1, InRange, PlaceFacts, Zenon
  <2> QED BY <1>0, <1>1, <1>3, <2>4, <2>5, ResolveInv, Zenon
<1>4. CASE Handled(r, FALSE) /\ UNCHANGED <<gateVars, settled>>
  <2>1. QuietTick
    BY <1>1, <1>4, QuietFrame, Zenon
  <2>2. ProcessTypes' /\ Handling' /\ Served' /\ toAck' = toAck
    BY <1>1, <1>2, <1>4, <2>1, HandledFacts, Zenon DEF ProcessTypes
  <2>3. NoncesSpent'
    BY <1>1, <2>1, SameNonces, Zenon
  <2> QED BY <1>1, <2>1, <2>2, <2>3, QuietInv, Zenon DEF CloudTypes, BornBefore
<1>5. CASE status[p] # "pending" /\ Handled(r, TRUE) /\ UNCHANGED <<gateVars, settled>>
  <2>1. QuietTick
    BY <1>1, <1>5, QuietFrame, Zenon
  <2>2. ProcessTypes' /\ Handling' /\ Served' /\ toAck' = toAck \cup {r}
    BY <1>1, <1>2, <1>5, <2>1, HandledFacts, Zenon DEF ProcessTypes
  <2>3. NoncesSpent'
    BY <1>1, <2>1, SameNonces, Zenon
  <2>4. Settles(r) /\ Moves(r)
    BY <1>2, <1>5, Zenon DEF Settles, Undecided, Moves
  <2> QED BY <1>1, <2>1, <2>2, <2>3, <2>4, QuietInv, Zenon DEF CloudTypes, BornBefore
<1> QED BY <1>0, <1>3, <1>4, <1>5, Zenon DEF MintDecision

LEMMA ResolveRowStep ==
    ASSUME RemoteInv, ResolveRow
    PROVE  RemoteInv'
<1> USE DEF RemoteInv, RemoteTypes
<1>0. PICK r : r = syncAt.req
  BY Zenon
<1> DEFINE p == Action(r)
           v == IF verdict[r] = "approve" THEN "approved" ELSE "rejected"
<1>1. /\ syncAt.at = "noted" /\ DaemonUnaffected /\ Handled(r, TRUE)
      /\ UNCHANGED <<requests, verdict, acked, outbox, pushed, seen, cut, forgotten>>
      /\ UNCHANGED <<tries, workItem, consumed, hmac, aged, tokenVars, denying, restarts>>
  BY <1>0, Zenon DEF ResolveRow, cloudVars
<1>2. /\ r \in DOMAIN requests /\ p \in Actions /\ p \in Enterprise
      /\ verdict[r] # "none" /\ status[p] # "approved"
  BY <1>0, <1>1, RequestFacts, Zenon DEF ProcessTypes, Served, Handling
<1>3. CASE status[p] = "pending" /\ status' = [status EXCEPT ![p] = v] /\ Record(r)
  <2>1. v \in {"approved", "rejected"}
    OBVIOUS
  <2>2. lapsed' = lapsed /\ minted' = minted /\ hmac' = hmac /\ workItem' = workItem
        /\ consumed' = consumed
    BY <1>1, Zenon DEF tokenVars
  <2>3. Resolves(r, v)
    BY <1>1, <1>3, <2>2, Zenon DEF Resolves, ColumnTypes
  <2>4. /\ inbox' \subseteq inbox /\ toAck' \subseteq toAck \cup {r}
        /\ syncAt' = At("apply", 0)
    BY <1>1, Zenon DEF Handled
  <2>5. syncAt' \in [at : Places, req : 0 .. Len(requests)]
    BY <2>4, IdleFacts, Zenon
  <2>6. hmac[p] = 0
    BY <1>2, <1>3, Zenon DEF Owned
  <2>7. Action(r)' = p
    BY <1>1, Zenon DEF Action
  <2>8. LiveToken(Action(r))' = 0
    BY <2>2, <2>6, <2>7, Zenon DEF LiveToken
  <2>9. Moves(r)'
    BY <2>8, Zenon DEF Moves
  <2> HIDE DEF v
  <2> QED BY <1>0, <1>1, <2>1, <2>3, <2>4, <2>5, <2>9, ResolveInv, Zenon
<1>4. CASE status[p] # "pending" /\ UNCHANGED <<status, settled>>
  <2>1. UNCHANGED gateVars
    BY <1>1, <1>4, Zenon DEF gateVars, rowVars
  <2>2. QuietTick
    BY <1>1, <1>4, <2>1, QuietFrame, Zenon
  <2>3. /\ ProcessTypes' /\ Handling' /\ Served' /\ toAck' = toAck \cup {r}
        /\ syncAt'.at = "apply"
    BY <1>1, <1>2, <2>2, HandledFacts, Zenon DEF ProcessTypes
  <2>4. ~Undecided(r)
    BY <1>4, Zenon DEF Undecided
  <2>5. NoncesSpent'
    BY <1>0, <1>1, <2>2, <2>4, QuietFacts, QuietSame, Zenon DEF NoncesSpent
  <2>6. Settles(r) /\ Moves(r)
    BY <1>2, <2>4, Zenon DEF Settles, Moves
  <2> QED BY <1>1, <2>2, <2>3, <2>5, <2>6, QuietInv, Zenon DEF CloudTypes, BornBefore
<1> QED BY <1>0, <1>3, <1>4, Zenon DEF ResolveRow

-----------------------------------------------------------------------------
(* The cloud decides a request that was open.                              *)
LEMMA DecideStep ==
    ASSUME RemoteInv, NEW r \in DOMAIN requests, NEW c \in {"approve", "deny"},
           Decide(r, c)
    PROVE  RemoteInv'
<1> USE DEF RemoteInv, RemoteTypes
<1>1. /\ verdict[r] = "none" /\ verdict' = [verdict EXCEPT ![r] = c]
      /\ DaemonUnaffected /\ UNCHANGED <<gateVars, requests, acked, roundVars, historyVars>>
  BY Zenon DEF Decide
<1>2. /\ requests' = requests /\ acked' = acked /\ native' = native /\ state' = state
      /\ starts' = starts /\ parking' = parking /\ parkedOn' = parkedOn /\ born' = born
      /\ pushed' = pushed /\ seen' = seen /\ syncAt' = syncAt /\ outbox' = outbox
      /\ inbox' = inbox /\ toAck' = toAck /\ settled' = settled /\ cut' = cut
      /\ forgotten' = forgotten
  BY <1>1, Zenon DEF roundVars, historyVars, DaemonUnaffected
<1>3. /\ status' = status /\ workItem' = workItem /\ hmac' = hmac /\ lapsed' = lapsed
      /\ consumed' = consumed /\ minted' = minted
  BY <1>1, Zenon DEF gateVars, rowVars, tokenVars
<1>4. ColumnTypes' /\ DaemonTypes' /\ ProcessTypes'
  BY <1>2, <1>3, Zenon DEF ColumnTypes, DaemonTypes, ProcessTypes
<1>5. CloudTypes'
  <2>1. verdict' \in Seq({"none", "approve", "deny"}) /\ Len(verdict') = Len(verdict)
    BY <1>1, SMT DEF CloudTypes
  <2> QED BY <1>2, <2>1, Zenon DEF CloudTypes
<1>6. ASSUME NEW q \in DOMAIN requests
      PROVE  /\ verdict[q] # "none" => verdict'[q] = verdict[q]
             /\ verdict'[q] # "none" \/ verdict'[q] = verdict[q]
  <2>1. q \in DOMAIN verdict
    BY SMT DEF CloudTypes
  <2> QED BY <1>1, <2>1, Zenon
<1>7. ASSUME NEW q
      PROVE  /\ Action(q)' = Action(q) /\ Undecided(q)' = Undecided(q)
             /\ Settles(q)' = Settles(q) /\ Latest(q)' = Latest(q)
  <2>1. Action(q)' = Action(q) /\ Undecided(q)' = Undecided(q)
    BY <1>2, <1>3, Zenon DEF Action, Undecided
  <2>2. Latest(q)' = Latest(q)
    BY <1>2, Zenon DEF Latest, Action
  <2> QED BY <1>2, <2>1, <2>2, Zenon DEF Settles
<1>8. Owned' /\ BornBefore' /\ OccurrenceDecided' /\ DecidedOnce'
  BY <1>2, <1>3, Zenon DEF Owned, BornBefore, OccurrenceDecided, DecidedOnce, Action
<1>9. Served'
  <2>1. \A q \in inbox \cup acked \cup toAck : q \in DOMAIN requests
    BY Zenon DEF ProcessTypes, CloudTypes
  <2>2. \A q \in inbox \cup acked \cup toAck : verdict'[q] # "none"
    BY <1>6, <2>1, Zenon DEF Served
  <2>3. syncAt.at \in {"mint", "minted", "confirm", "noted"} => verdict'[syncAt.req] # "none"
    BY <1>6, Zenon DEF Served, ProcessTypes
  <2> QED BY <1>2, <2>2, <2>3, Zenon DEF Served
<1>10. Handling'
  <2>1. syncAt.at = "noted" => verdict'[syncAt.req] = "deny" \/ Action(syncAt.req) \in native
    <3>1. syncAt.at = "noted" => syncAt.req \in DOMAIN requests /\ verdict[syncAt.req] # "none"
      BY Zenon DEF ProcessTypes, Served
    <3> QED BY <1>6, <3>1, Zenon DEF Handling
  <2>2. /\ Action(syncAt.req)' = Action(syncAt.req) /\ Latest(syncAt.req)' = Latest(syncAt.req)
        /\ Undecided(syncAt.req)' = Undecided(syncAt.req)
    BY <1>2, <1>3, Zenon DEF Action, Latest, Undecided
  <2> QED BY <1>2, <1>3, <2>1, <2>2, Zenon DEF Handling
<1>11. NoncesSpent'
  <2>1. ASSUME NEW q \in cut PROVE verdict'[q] = "deny" \/ Action(q) \in native
    <3>1. q \in DOMAIN requests
      BY Zenon DEF ProcessTypes
    <3>2. verdict[q] = "deny" => verdict'[q] = "deny"
      BY <1>6, <3>1, Zenon
    <3> QED BY <3>2, Zenon DEF NoncesSpent
  <2> QED BY <1>2, <1>7, <2>1, Zenon DEF NoncesSpent
<1>12. Answered'
  <2> SUFFICES ASSUME NEW q \in acked \cup toAck PROVE Settles(q)' /\ Moves(q)'
    BY <1>2, Zenon DEF Answered
  <2>1. q \in DOMAIN requests /\ verdict[q] # "none" /\ Settles(q) /\ Moves(q)
    BY Zenon DEF ProcessTypes, CloudTypes, Served, Answered
  <2>2. verdict'[q] = verdict[q]
    BY <1>6, <2>1, Zenon
  <2>3. LiveToken(Action(q))' = LiveToken(Action(q)) /\ BrokerRow(Action(q))' = BrokerRow(Action(q))
    <3>1. Action(q)' = Action(q)
      BY <1>7, Zenon
    <3> QED BY <1>2, <1>3, <3>1, Zenon DEF LiveToken, BrokerRow
  <2>4. Moves(q)'
    BY <1>2, <1>3, <1>7, <2>1, <2>2, <2>3, Zenon DEF Moves
  <2> QED BY <1>7, <2>1, <2>4, Zenon
<1> QED BY <1>4, <1>5, <1>8, <1>9, <1>10, <1>11, <1>12, Zenon

-----------------------------------------------------------------------------
(* A push that reaches the cloud adds a request and changes none.          *)
LEMMA PushGrows ==
    ASSUME CloudTypes, NEW row \in Row,
           requests' = Append(requests, row), verdict' = Append(verdict, "none")
    PROVE  /\ requests' \in Seq(Row) /\ verdict' \in Seq({"none", "approve", "deny"})
           /\ Len(verdict') = Len(requests')
           /\ DOMAIN requests' = DOMAIN requests \cup {Len(requests) + 1}
           /\ Len(requests) + 1 \in 0 .. Len(requests')
           /\ 0 .. Len(requests) \subseteq 0 .. Len(requests')
           /\ Len(requests) + 1 \notin DOMAIN requests
           /\ requests'[Len(requests) + 1] = row
           /\ \A r \in DOMAIN requests : requests'[r] = requests[r] /\ verdict'[r] = verdict[r]
<1>1. requests' \in Seq(Row) /\ Len(requests') = Len(requests) + 1 /\ Len(requests) \in Nat
  BY SMT DEF CloudTypes
<1>2. /\ verdict' \in Seq({"none", "approve", "deny"})
      /\ Len(verdict') = Len(verdict) + 1
  BY SMT DEF CloudTypes
<1>3. DOMAIN requests = 1 .. Len(requests) /\ DOMAIN requests' = 1 .. Len(requests')
  BY <1>1, SMT DEF CloudTypes
<1>4. /\ DOMAIN requests' = DOMAIN requests \cup {Len(requests) + 1}
      /\ Len(requests) + 1 \in 0 .. Len(requests')
      /\ 0 .. Len(requests) \subseteq 0 .. Len(requests')
      /\ Len(requests) + 1 \notin DOMAIN requests
  BY <1>1, <1>3, SMT
<1>5. requests'[Len(requests) + 1] = row
  BY SMT DEF CloudTypes
<1>6. \A r \in DOMAIN requests : requests'[r] = requests[r]
  BY SMT DEF CloudTypes
<1>7. \A r \in DOMAIN requests : verdict'[r] = verdict[r]
  BY SMT DEF CloudTypes
<1> QED BY <1>1, <1>2, <1>4, <1>5, <1>6, <1>7, Zenon DEF CloudTypes

LEMMA PostStep ==
    ASSUME RemoteInv, NEW row \in outbox, Post(row)
    PROVE  RemoteInv'
<1> USE DEF RemoteInv, RemoteTypes
<1>0. PICK n : n = Len(requests) + 1
  BY Zenon
<1>1. /\ syncAt.at = "push" /\ outbox' = outbox \ {row} /\ DaemonUnaffected
      /\ UNCHANGED gateVars
      /\ UNCHANGED <<acked, pushed, seen, inbox, toAck, settled, cut, forgotten>>
  BY Zenon DEF Post, historyVars
<1>2. row \in Row /\ row.born <= born[row.action]
  BY Zenon DEF ProcessTypes, BornBefore
<1>3. CASE UNCHANGED <<requests, verdict, syncAt>>
  <2>1. QuietTick
    BY <1>1, <1>3, QuietFrame, Zenon
  <2>2. ProcessTypes'
    BY <1>1, <1>3, Zenon DEF ProcessTypes
  <2>3. Handling' /\ Served' /\ NoncesSpent'
    BY <1>1, <1>3, <2>1, RestHandling, SameNonces, Zenon DEF Served
  <2> QED BY <1>1, <2>1, <2>2, <2>3, QuietInv, Zenon DEF CloudTypes, BornBefore
<1>4. CASE /\ requests' = Append(requests, row) /\ verdict' = Append(verdict, "none")
           /\ syncAt' = At("posted", n) \/ syncAt' = syncAt
  <2>1. /\ requests' \in Seq(Row) /\ verdict' \in Seq({"none", "approve", "deny"})
        /\ Len(verdict') = Len(requests')
        /\ DOMAIN requests' = DOMAIN requests \cup {n}
        /\ n \in 0 .. Len(requests')
        /\ 0 .. Len(requests) \subseteq 0 .. Len(requests')
        /\ requests'[n] = row
        /\ \A r \in DOMAIN requests : requests'[r] = requests[r] /\ verdict'[r] = verdict[r]
    BY <1>0, <1>2, <1>4, PushGrows, Zenon
  <2>2. /\ native' = native /\ state' = state
        /\ starts' = starts /\ parking' = parking /\ parkedOn' = parkedOn /\ born' = born
        /\ status' = status /\ workItem' = workItem /\ hmac' = hmac /\ lapsed' = lapsed
        /\ consumed' = consumed /\ minted' = minted
    BY <1>1, Zenon DEF gateVars, rowVars, tokenVars, DaemonUnaffected
  <2>3. ColumnTypes' /\ DaemonTypes' /\ CloudTypes'
    BY <1>1, <2>1, <2>2, Zenon DEF ColumnTypes, DaemonTypes, CloudTypes
  <2>4. syncAt'.at \in {"push", "posted"} /\ (syncAt'.at = "posted" => syncAt'.req = n)
    <3>1. CASE syncAt' = At("posted", n)
      BY <3>1, Zenon DEF At
    <3>2. CASE syncAt' = syncAt
      BY <1>1, <3>2, Zenon
    <3> QED BY <1>4, <3>1, <3>2, Zenon
  <2>5. syncAt' \in [at : Places, req : 0 .. Len(requests')]
    <3>1. "posted" \in Places
      BY Zenon DEF Places
    <3>2. syncAt \in [at : Places, req : 0 .. Len(requests')]
      BY <2>1, SMT DEF ProcessTypes
    <3>3. At("posted", n) \in [at : Places, req : 0 .. Len(requests')]
      BY <2>1, <3>1, Zenon DEF At
    <3> QED BY <1>4, <3>2, <3>3, Zenon
  <2>6. ProcessTypes'
    BY <1>1, <2>1, <2>4, <2>5, Zenon DEF ProcessTypes
  <2>7. ASSUME NEW r \in DOMAIN requests
        PROVE  /\ Action(r)' = Action(r) /\ Undecided(r)' = Undecided(r)
               /\ Settles(r)' = Settles(r) /\ verdict'[r] = verdict[r]
               /\ requests'[r].born = requests[r].born
    BY <1>1, <2>1, <2>2, Zenon DEF Action, Undecided, Settles
  <2>8. Owned'
    BY <2>2, Zenon DEF Owned
  <2>9. BornBefore'
    <3>1. \A r \in DOMAIN requests : requests'[r].born <= born'[Action(r)']
      BY <2>2, <2>7, Zenon DEF BornBefore
    <3>2. requests'[n].born <= born'[Action(n)']
      <4>1. Action(n)' = row.action
        BY <2>1, <2>2, Zenon DEF Action
      <4> QED BY <1>2, <2>1, <2>2, <4>1, Zenon
    <3>3. \A x \in outbox' : x.born <= born'[x.action]
      BY <1>1, <2>2, Zenon DEF BornBefore
    <3> QED BY <2>1, <3>1, <3>2, <3>3, Zenon DEF BornBefore
  <2>10. Handling'
    BY <2>4, RestHandling, Zenon
  <2>11. Served'
    BY <1>1, <2>4, <2>7, Zenon DEF Served, ProcessTypes, CloudTypes
  <2>12. NoncesSpent'
    <3>1. \A r \in seen' : Undecided(r)' => r \in cut'
      BY <1>1, <2>7, Zenon DEF NoncesSpent, ProcessTypes
    <3>2. \A r \in cut' : verdict'[r] = "deny" \/ Action(r)' \in native'
      BY <1>1, <2>2, <2>7, Zenon DEF NoncesSpent, ProcessTypes
    <3> QED BY <1>1, <3>1, <3>2, Zenon DEF NoncesSpent
  <2>13. OccurrenceDecided' /\ DecidedOnce'
    <3>1. \A s \in settled : requests'[s.req].born = requests[s.req].born
      BY <2>7, Zenon DEF ProcessTypes
    <3> QED BY <1>1, <3>1, Zenon DEF OccurrenceDecided, DecidedOnce
  <2>14. Answered'
    <3> SUFFICES ASSUME NEW r \in acked \cup toAck PROVE Settles(r)' /\ Moves(r)'
      BY <1>1, Zenon DEF Answered
    <3>1. r \in DOMAIN requests /\ Settles(r) /\ Moves(r)
      BY Zenon DEF ProcessTypes, CloudTypes, Answered
    <3>2. LiveToken(Action(r))' = LiveToken(Action(r)) /\ BrokerRow(Action(r))' = BrokerRow(Action(r))
      BY <2>2, <2>7, <3>1, Zenon DEF LiveToken, BrokerRow
    <3>3. Moves(r)'
      BY <2>2, <2>7, <3>1, <3>2, Zenon DEF Moves
    <3> QED BY <2>7, <3>1, <3>3, Zenon
  <2> QED BY <2>3, <2>6, <2>8, <2>9, <2>10, <2>11, <2>12, <2>13, <2>14, Zenon
<1> QED BY <1>0, <1>3, <1>4, Zenon DEF Post

LEMMA RemoteStutters == RemoteInv /\ UNCHANGED remoteVars => RemoteInv'
<1> SUFFICES ASSUME RemoteInv, UNCHANGED remoteVars PROVE RemoteInv'
  OBVIOUS
<1>1. /\ UNCHANGED <<gateVars, native, queueVars, waiting, born>>
      /\ UNCHANGED <<cloudVars, roundVars, historyVars>>
  BY Zenon DEF remoteVars
<1>2. /\ SyncUnaffected /\ state' = state /\ starts' = starts /\ parking' = parking
      /\ parkedOn' = parkedOn
  BY <1>1, Zenon DEF SyncUnaffected, queueVars
<1> QED BY <1>1, <1>2, TasksStay, QueueStep, Zenon DEF RemoteInv, RemoteTypes, DaemonTypes

LEMMA ConfigSyncStep == RemoteInv /\ ConfigSyncNext => RemoteInv'
BY TickBeginsStep, PostStep, MarkPushedStep, PollStep, VerifyStep, MintStep,
   ReenqueueStep, ConfirmStep, ResolveRowStep, AckStep, SyncDiesStep, Zenon
   DEF ConfigSyncNext

LEMMA RemoteStep == RemoteInv /\ [RemoteNext]_remoteVars => RemoteInv'
BY ProposeStep, ParkTaskStep, StartTaskStep, HookAsksStep, RowSteps, LapseStep,
   RestartStep, DecideStep, ConfigSyncStep, RemoteStutters, Zenon DEF RemoteNext

(* The inductive invariant of the Enterprise approvals.                    *)
THEOREM RemoteInvariant == RemoteSpec => []RemoteInv
BY RemoteInitially, RemoteStep, PTL DEF RemoteSpec

(* A decision of the cloud settles the occurrence it was made for, once,   *)
(* and is acknowledged only then, with its task on its way: whatever       *)
(* requests and answers are lost, whatever is served twice, and wherever   *)
(* config_sync and the daemon die (remote_approvals.py).                   *)
THEOREM RemoteIsSafe == RemoteSpec => []RemoteSafe
BY RemoteInvariant, RemoteInvIsSafe, PTL
=============================================================================
