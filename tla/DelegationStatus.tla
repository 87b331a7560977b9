-------------------------- MODULE DelegationStatus --------------------------
(***************************************************************************)
(* The telemetry of delegated requests (config_sync/delegation_status.py). *)
(* A pass of hermes-config-sync compares what it observes of every request *)
(* with what it last recorded, commits an event with the next sequence     *)
(* number, and then sends the oldest undelivered event of a few requests,  *)
(* the least recently attempted first.  The answers of the cloud can be    *)
(* late, missing or a refusal, and the process can die after any commit.   *)
(***************************************************************************)
EXTENDS Integers, Sequences, FiniteSets

CONSTANTS
    Order,          \* the requests, in the order of their ids
    Dead,           \* requests whose POST the cloud never answers with 200
    SendLimit,      \* _SEND_LIMIT
    MaxSequence,    \* _MAX_SEQUENCE
    MaxMoves,       \* bound: changes of the local status of a request
    MaxMisses       \* bound: crashes, refusals and answers lost

Watched == {Order[i] : i \in DOMAIN Order}

ASSUME StatusAssumption ==
    /\ Dead \subseteq Watched
    /\ {SendLimit, MaxSequence} \subseteq Nat \ {0}
    /\ {MaxMoves, MaxMisses} \subseteq Nat

VARIABLES
    local,          \* what pending_delegations and agent_tasks say
    moves,
    events,         \* delegation_status_outbox: statuses, by sequence number
    delivered,      \* sequence numbers with delivered = 1
    quarantine,     \* delegation_status_quarantine
    tried,          \* heads attempted before, least recently attempted first
    picks,          \* rows [msg, seq] selected by the pass, still to send
    sending,        \* a pass is under way
    linked,         \* the pairing the requests came over is in force
    received,       \* sequence numbers the cloud has accepted
    misses

outboxVars == <<events, delivered, quarantine, tried>>

statusVars ==
    <<local, moves, outboxVars, picks, sending, linked, received, misses>>

TerminalStatus == {"completed", "failed", "rejected"}

(* The statuses of a request, "failed" standing for cancelled too, and the  *)
(* ones that can follow.                                                    *)
Follows(s) ==
    CASE s = "awaiting_approval" -> {"blocked", "rejected"}
      [] s = "blocked" -> {"awaiting_approval", "queued", "rejected"}
      [] s = "queued" -> {"running", "failed"}
      [] s = "running" -> {"queued", "blocked", "completed", "failed"}
      [] OTHER -> {}

StatusInit ==
    /\ local = [m \in Watched |-> "awaiting_approval"]
    /\ moves = [m \in Watched |-> 0]
    /\ events = [m \in Watched |-> <<>>]
    /\ delivered = [m \in Watched |-> {}]
    /\ quarantine = {} /\ tried = <<>> /\ picks = <<>>
    /\ sending = FALSE /\ linked = TRUE
    /\ received = [m \in Watched |-> {}]
    /\ misses = 0

LastEvent(m) == IF events[m] = <<>> THEN "unknown" ELSE events[m][Len(events[m])]

Undelivered(m) == (1 .. Len(events[m])) \ delivered[m]

(* Variant: the newest event goes first.                                   *)
IsHead_Newest(m, n) ==
    n \in Undelivered(m) /\ \A k \in Undelivered(m) : n >= k

(* The oldest undelivered event: no prior one is undelivered.               *)
IsHead(m, n) ==
    n \in Undelivered(m) /\ \A k \in Undelivered(m) : n <= k

LocalMoves(m) ==
    /\ moves[m] < MaxMoves
    /\ moves' = [moves EXCEPT ![m] = @ + 1]
    /\ \E s \in Follows(local[m]) : local' = [local EXCEPT ![m] = s]
    /\ UNCHANGED <<outboxVars, picks, sending, linked, received, misses>>

Unlink ==
    /\ linked /\ linked' = FALSE
    /\ UNCHANGED <<local, moves, outboxVars, picks, sending, received, misses>>

(* collect_status_events, one transaction.  A sequence that would pass the  *)
(* limit, or a status after a terminal one, quarantines the request.        *)
Changed == {m \in Watched \ quarantine : LastEvent(m) # local[m]}

Conflict(m) == Len(events[m]) = MaxSequence \/ LastEvent(m) \in TerminalStatus

Collect ==
    /\ ~sending /\ linked
    /\ events' = [m \in Watched |-> IF m \in Changed /\ ~Conflict(m)
                                    THEN Append(events[m], local[m])
                                    ELSE events[m]]
    /\ quarantine' = quarantine \union {m \in Changed : Conflict(m)}
    /\ sending' = TRUE
    /\ UNCHANGED <<local, moves, delivered, tried, picks, linked, received,
                   misses>>

(* The rows push_status_events can take: the heads of the requests that are *)
(* not quarantined.                                                         *)
Ready ==
    {row \in [msg : Watched \ quarantine, seq : 1 .. MaxSequence] :
        IsHead(row.msg, row.seq)}

(* Variant: the first request is always taken first.                       *)
Place_ById(m) == CHOOSE i \in DOMAIN Order : Order[i] = m

(* Their order: heads never attempted, in the order of the ids, then the    *)
(* others, least recently attempted first.                                  *)
Place(m) ==
    IF \E i \in DOMAIN tried : tried[i] = m
    THEN Len(Order) + CHOOSE i \in DOMAIN tried : tried[i] = m
    ELSE CHOOSE i \in DOMAIN Order : Order[i] = m

(* The first SendLimit rows in that order.                                  *)
IsPage(rows) ==
    /\ \A i, j \in DOMAIN rows : i < j => Place(rows[i].msg) < Place(rows[j].msg)
    /\ \A row \in Ready :
          \/ \E i \in DOMAIN rows : rows[i] = row
          \/ /\ Len(rows) = SendLimit
             /\ \A i \in DOMAIN rows : Place(rows[i].msg) < Place(row.msg)

Select ==
    /\ sending /\ picks = <<>>
    /\ \E size \in 0 .. SendLimit : \E rows \in [1 .. size -> Ready] :
          IsPage(rows) /\ picks' = rows
    /\ sending' = (picks' # <<>>)
    /\ UNCHANGED <<local, moves, outboxVars, linked, received, misses>>

(* A stored receipt: the next event of the request was never attempted.     *)
Forgotten(m) == SelectSeq(tried, LAMBDA x : x # m)

Attempted(m) == Append(Forgotten(m), m)

EndPass == picks' = <<>> /\ sending' = FALSE

NextPick == picks' = Tail(picks) /\ sending' = (Tail(picks) # <<>>)

(* One row of the loop: is_current, the attempt on record, the POST, and    *)
(* the delivered flag once the receipt is the exact one.                    *)
SendAccepted(row) ==
    /\ row.msg \notin Dead
    /\ received' = [received EXCEPT ![row.msg] = @ \union {row.seq}]
    /\ NextPick
    /\ \/ /\ delivered' = [delivered EXCEPT ![row.msg] = @ \union {row.seq}]
          /\ tried' = Forgotten(row.msg)
          /\ UNCHANGED misses
       \/ /\ misses < MaxMisses /\ misses' = misses + 1
          /\ tried' = Attempted(row.msg)
          /\ UNCHANGED delivered
    /\ UNCHANGED quarantine

(* Not 200, or no answer; 401, 403 and 429 end the pass.                    *)
SendFails(m) ==
    /\ IF m \in Dead THEN UNCHANGED misses
       ELSE misses < MaxMisses /\ misses' = misses + 1
    /\ tried' = Attempted(m)
    /\ NextPick \/ EndPass
    /\ UNCHANGED <<delivered, quarantine, received>>

(* 409 and 422.                                                             *)
SendRefused(m) ==
    /\ misses < MaxMisses /\ misses' = misses + 1
    /\ tried' = Attempted(m)
    /\ quarantine' = quarantine \union {m}
    /\ NextPick
    /\ UNCHANGED <<delivered, received>>

SendEvent ==
    /\ sending /\ picks # <<>>
    /\ \/ linked /\ SendAccepted(Head(picks))
       \/ linked /\ SendFails(Head(picks).msg)
       \/ linked /\ SendRefused(Head(picks).msg)
       \/ /\ ~linked /\ EndPass
          /\ UNCHANGED <<delivered, quarantine, tried, received, misses>>
    /\ UNCHANGED <<local, moves, events, linked>>

PassDies ==
    /\ sending
    /\ misses < MaxMisses /\ misses' = misses + 1
    /\ EndPass
    /\ UNCHANGED <<local, moves, outboxVars, linked, received>>

StatusNext ==
    \/ Collect \/ Select \/ SendEvent \/ PassDies \/ Unlink
    \/ \E m \in Watched : LocalMoves(m)

StatusSpec == StatusInit /\ [][StatusNext]_statusVars

-----------------------------------------------------------------------------
(* The outbox of the status channel: the events of a request stay within the*)
(* limit of its sequence and only recorded ones are delivered.              *)
StatusTypeOK ==
    /\ \A m \in Watched :
          /\ Len(events[m]) <= MaxSequence
          /\ delivered[m] \subseteq 1 .. Len(events[m])
          /\ received[m] \subseteq 1 .. Len(events[m])
          /\ delivered[m] \subseteq received[m]
    /\ quarantine \subseteq Watched
    /\ Len(picks) <= SendLimit
    /\ {sending, linked} \subseteq BOOLEAN
    /\ misses \in 0 .. MaxMisses

(* The cloud gets the events of a request in their order and without a gap: *)
(* a later one leaves only when the receipt of every earlier one is stored. *)
ReportedInOrder ==
    \A m \in Watched : \A n \in received[m] : (1 .. n - 1) \subseteq delivered[m]

(* Every event was true when it was observed, the next one is a different   *)
(* status, and nothing is reported after a terminal one.                    *)
TerminalIsLast ==
    \A m \in Watched : \A n \in 1 .. Len(events[m]) - 1 :
        /\ events[m][n] \notin TerminalStatus
        /\ events[m][n] # events[m][n + 1]

(* The loop of config_sync comes back for ever.                             *)
StatusStep == Collect \/ Select \/ SendEvent

StatusFairness == WF_statusVars(StatusStep)

(* A request whose POST never succeeds does not starve the others: how a    *)
(* request ended reaches the cloud, unless it is quarantined or unpaired    *)
(* ("a dead endpoint/request cannot occupy the first eight slots forever"). *)
EndIsTold ==
    \A m \in Watched \ Dead :
        local[m] \in TerminalStatus ~>
            \/ LastEvent(m) = local[m] /\ Len(events[m]) \in received[m]
            \/ m \in quarantine \/ ~linked

\* The cloud is told the statuses of a request in their order, without a gap
\* and nothing after the last (push_status_events).
StatusSafe ==
    /\ StatusTypeOK /\ ReportedInOrder /\ TerminalIsLast
=============================================================================
