------------------------------- MODULE Timers -------------------------------
(***************************************************************************)
(* Scheduled tasks: the allow-list of timer authorizations kept in SQLite, *)
(* the D-Bus verbs that edit it (dbus_runtime_service.py) and the poll     *)
(* loop that turns a calendar slot into a task (timer_trigger_source.py)   *)
(* through the trigger gate (trigger_gate.py).                             *)
(*                                                                         *)
(* All of it runs on the daemon's event loop and none of it suspends       *)
(* inside a handler or inside a poll, so while a poll or a handler is      *)
(* under way only the clock moves, or the daemon dies.  What a timer has   *)
(* already run is not stored with the timer: it is read back from the      *)
(* newest task that carries the timer's id.  The gate gives a task the id  *)
(* of the newest enabled authorization of the same cron expression, which  *)
(* need not be the timer that fired.                                       *)
(***************************************************************************)
EXTENDS Naturals, Sequences, FiniteSets, SequencesExt

CONSTANTS
    Timers,      \* instance ids of timer authorizations
    NoTimer,     \* "no timer"
    Crons,       \* cron expressions
    Wildcard,    \* the scope '*', which covers every cron and never fires
    Slots,       \* the instants at which each cron expression is due
    MaxTime,     \* bound: the last instant of the clock
    MaxEdits,    \* bound: updates, disablings and enablings
    MaxSlips    \* bound: deaths of the daemon and failed writes

ASSUME TimerAssumption ==
    /\ NoTimer \notin Timers
    /\ Wildcard \in Crons
    /\ MaxTime \in Nat /\ MaxEdits \in Nat /\ MaxSlips \in Nat
    /\ Slots \in [Crons -> SUBSET (1..MaxTime)]
    /\ Slots[Wildcard] = {}

VARIABLES
    clock,     \* now
    order,     \* the timers authorized so far, by authorized_at
    cron,      \* scope_value of each timer
    authorizedAt,     \* authorized_at of each timer
    on,        \* the column enabled
    oneShot,   \* the column one_shot
    listed,    \* timers with an entry in the dashboard's catalog (jobs.json)
    last,      \* created_at of the newest task that carries the timer's id
    live,      \* dedup keys <<timer, slot>> of tasks that have not ended
    rows,      \* what is left of the poll under way
    revoking,  \* the one-shot timer whose task was just enqueued
    patching,  \* the timer whose extra columns are about to be written
    wants,     \* whether the timer being created is to be a one-shot
    \* History.
    fired,     \* how many tasks each timer made of each slot, up to 2
    mixed,     \* timers that shared a run: a task of one carries the other's id
    spared,    \* one-shot timers left or put back in force after firing
    slipped,   \* timers whose catalog entry was not written, or is gone
    edits,     \* updates, disablings and enablings so far
    slips      \* deaths of the daemon and failed writes so far

allowVars == <<order, cron, authorizedAt, on, oneShot, listed>>
firingVars == <<last, live, rows, revoking, fired, mixed>>
createVars == <<patching, wants>>
timerVars == <<clock, allowVars, firingVars, createVars, spared, slipped, edits, slips>>

SlotRows == [timer : Timers, slot : 1..MaxTime]

TimerInit ==
    /\ clock = 1
    /\ order = <<>>
    /\ cron = [t \in Timers |-> Wildcard]
    /\ authorizedAt = [t \in Timers |-> 0]
    /\ on = [t \in Timers |-> FALSE]
    /\ oneShot = [t \in Timers |-> FALSE]
    /\ listed = {}
    /\ last = [t \in Timers |-> 0]
    /\ live = {}
    /\ rows = <<>>
    /\ revoking = NoTimer
    /\ patching = NoTimer
    /\ wants = FALSE
    /\ fired = [t \in Timers |-> [s \in 1..MaxTime |-> 0]]
    /\ mixed = {}
    /\ spared = {}
    /\ slipped = {}
    /\ edits = 0
    /\ slips = 0

\* No handler and no poll is under way on the event loop.
LoopIdle == rows = <<>> /\ revoking = NoTimer /\ patching = NoTimer

Enrolled == {order[i] : i \in DOMAIN order}

(***************************************************************************)
(* When a timer is due                                                     *)
(***************************************************************************)

\* The most recent slot of a cron expression, 0 when there is none.
PrevFire(c, now) == Max({s \in Slots[c] : s <= now} \cup {0})

\* The last run the database remembers, or the authorization itself.
Floor(t) == IF last[t] > 0 THEN last[t] ELSE authorizedAt[t]

\* Variant: a slot is due at its very instant only.
DueSlot_Exact(t, now) ==
    LET slot == PrevFire(cron[t], now)
    IN IF slot > Floor(t) /\ slot = now THEN slot ELSE 0

\* Variant: the last run is forgotten.
DueSlot_Since(t, now) ==
    LET slot == PrevFire(cron[t], now) IN IF slot > authorizedAt[t] THEN slot ELSE 0

\* The slot to fire, 0 when none is due.
DueSlot(t, now) ==
    LET slot == PrevFire(cron[t], now) IN IF slot > Floor(t) THEN slot ELSE 0

\* is_authorized without an instance id: the newest enabled authorization
\* whose scope is this cron expression or the wildcard.
Covering(c) == {i \in DOMAIN order : on[order[i]] /\ cron[order[i]] \in {c, Wildcard}}
Authorization(c) == order[Max(Covering(c))]

(***************************************************************************)
(* The poll                                                                *)
(***************************************************************************)

TimeAdvances ==
    /\ clock < MaxTime
    /\ clock' = clock + 1
    /\ UNCHANGED <<allowVars, firingVars, createVars, spared, slipped, slips, edits>>

\* The rows and the floors are read once, before anything is fired.
Poll ==
    /\ LoopIdle
    /\ LET due == SelectSeq(order, LAMBDA t : on[t] /\ DueSlot(t, clock) > 0)
       IN rows' = [i \in DOMAIN due |-> [timer |-> due[i], slot |-> DueSlot(due[i], clock)]]
    /\ UNCHANGED <<clock, allowVars, last, live, revoking, fired, mixed, createVars,
                   spared, slipped, slips, edits>>

\* One due timer goes through the gate: a task is created unless one with
\* the same dedup key is still live, and either way the timer has fired.
Fire ==
    /\ rows # <<>> /\ revoking = NoTimer
    /\ LET t == Head(rows).timer
           s == Head(rows).slot
           owner == Authorization(cron[t])
           fresh == <<t, s>> \notin live
       IN /\ Covering(cron[t]) # {}
          /\ live' = live \cup {<<t, s>>}
          /\ last' = IF fresh THEN [last EXCEPT ![owner] = clock] ELSE last
          /\ fired' = IF fresh /\ fired[t][s] < 2
                      THEN [fired EXCEPT ![t][s] = @ + 1] ELSE fired
          /\ mixed' = IF owner # t THEN mixed \cup {t, owner} ELSE mixed
          /\ revoking' = IF oneShot[t] THEN t ELSE NoTimer
    /\ rows' = Tail(rows)
    /\ UNCHANGED <<clock, allowVars, createVars, spared, slipped, slips, edits>>

\* A one-shot timer is disabled once its task is enqueued.  A failed write
\* is logged and ignored, and the catalog entry is removed all the same.
RevokeSpent ==
    /\ revoking # NoTimer
    /\ \/ /\ on' = [on EXCEPT ![revoking] = FALSE]
          /\ UNCHANGED <<spared, slipped, slips>>
       \/ /\ slips < MaxSlips /\ slips' = slips + 1
          /\ spared' = spared \cup {revoking}
          /\ slipped' = slipped \cup {revoking}
          /\ UNCHANGED on
    /\ listed' = listed \ {revoking}
    /\ revoking' = NoTimer
    /\ UNCHANGED <<clock, order, cron, authorizedAt, oneShot, last, live, rows, fired,
                   mixed, createVars, edits>>

\* A worker finishes a task, and its dedup key is free again.
TimerTaskEnds(key) ==
    /\ LoopIdle /\ key \in live
    /\ live' = live \ {key}
    /\ UNCHANGED <<clock, allowVars, last, rows, revoking, fired, mixed, createVars,
                   spared, slipped, slips, edits>>

(***************************************************************************)
(* The verbs that edit the allow-list                                      *)
(***************************************************************************)

\* INSERT of a new authorization.
Authorized(t, c) ==
    /\ LoopIdle /\ t \notin Enrolled
    /\ order' = Append(order, t)
    /\ cron' = [cron EXCEPT ![t] = c]
    /\ authorizedAt' = [authorizedAt EXCEPT ![t] = clock]
    /\ on' = [on EXCEPT ![t] = TRUE]

\* authorize_trigger: an administrator authorizes a scope, the wildcard
\* included.  It has no entry in the catalog.
AuthorizeTrigger(t, c) ==
    /\ Authorized(t, c)
    /\ slipped' = slipped \cup {t}
    /\ UNCHANGED <<clock, oneShot, listed, firingVars, createVars, spared, slips,
                   edits>>

\* create_scheduled_task commits the authorization first ...
CreateScheduledTask(t, c, shot) ==
    /\ c # Wildcard
    /\ Authorized(t, c)
    /\ patching' = t
    /\ wants' = shot
    /\ UNCHANGED <<clock, oneShot, listed, firingVars, spared, slipped, slips, edits>>

\* ... and then its extra columns and its catalog entry, whose failure is
\* logged and ignored.
PatchTimer ==
    /\ patching # NoTimer
    /\ oneShot' = [oneShot EXCEPT ![patching] = wants]
    /\ \/ /\ listed' = listed \cup {patching}
          /\ UNCHANGED <<slipped, slips>>
       \/ /\ slips < MaxSlips /\ slips' = slips + 1
          /\ slipped' = slipped \cup {patching}
          /\ UNCHANGED listed
    /\ patching' = NoTimer /\ wants' = FALSE
    /\ UNCHANGED <<clock, order, cron, authorizedAt, on, firingVars, spared, edits>>

\* update_scheduled_task: the cron of an enabled timer is not validated and
\* neither authorized_at nor the last run moves.
UpdateScheduledTask(t, c) ==
    /\ LoopIdle /\ on[t] /\ cron[t] # c
    /\ cron' = [cron EXCEPT ![t] = c]
    /\ edits < MaxEdits /\ edits' = edits + 1
    /\ UNCHANGED <<clock, order, authorizedAt, on, oneShot, listed, firingVars,
                   createVars, spared, slipped, slips>>

\* revoke_trigger and set_scheduled_task_enabled(FALSE) keep the catalog
\* entry, delete_scheduled_task removes it if it can.
DisableTimer(t) ==
    /\ LoopIdle /\ on[t]
    /\ on' = [on EXCEPT ![t] = FALSE]
    /\ listed' \in {listed, listed \ {t}}
    /\ edits < MaxEdits /\ edits' = edits + 1
    /\ UNCHANGED <<clock, order, cron, authorizedAt, oneShot, firingVars, createVars,
                   spared, slipped, slips>>

\* set_scheduled_task_enabled(TRUE) puts any row back in force, the one of
\* a deleted timer or of a spent one-shot included.
EnableTimer(t) ==
    /\ LoopIdle /\ t \in Enrolled /\ ~on[t]
    /\ on' = [on EXCEPT ![t] = TRUE]
    /\ spared' = IF oneShot[t] THEN spared \cup {t} ELSE spared
    /\ slipped' = IF t \in listed THEN slipped ELSE slipped \cup {t}
    /\ edits < MaxEdits /\ edits' = edits + 1
    /\ UNCHANGED <<clock, order, cron, authorizedAt, oneShot, listed, firingVars,
                   createVars, slips>>

\* The daemon dies in the middle of a poll or of a handler.
TimerDaemonDies ==
    /\ ~LoopIdle /\ slips < MaxSlips
    /\ slips' = slips + 1
    /\ rows' = <<>>
    /\ spared' = IF revoking # NoTimer THEN spared \cup {revoking} ELSE spared
    /\ slipped' = IF patching # NoTimer THEN slipped \cup {patching} ELSE slipped
    /\ revoking' = NoTimer /\ patching' = NoTimer /\ wants' = FALSE
    /\ UNCHANGED <<clock, allowVars, last, live, fired, mixed, edits>>

TimerNext ==
    \/ TimeAdvances \/ Poll \/ Fire \/ RevokeSpent \/ PatchTimer \/ TimerDaemonDies
    \/ \E key \in live : TimerTaskEnds(key)
    \/ \E t \in Timers :
        \/ DisableTimer(t) \/ EnableTimer(t)
        \/ \E c \in Crons : \/ AuthorizeTrigger(t, c) \/ UpdateScheduledTask(t, c)
                            \/ \E shot \in BOOLEAN : CreateScheduledTask(t, c, shot)

TimerSpec == TimerInit /\ [][TimerNext]_timerVars

\* The loop polls every minute and a started poll or handler runs to its
\* end.
TimerStep == Poll \/ Fire \/ RevokeSpent \/ PatchTimer

TimerFairness == WF_timerVars(TimerStep)

(***************************************************************************)
(* Properties                                                              *)
(***************************************************************************)

\* Every variable has its type; the timers are kept oldest authorization first
\* and the rows a poll still has to fire are of enabled timers (_tick).
TimersTypeOK ==
    /\ clock \in 1..MaxTime
    /\ Enrolled \subseteq Timers
    /\ \A i, j \in DOMAIN order :
        i < j => order[i] # order[j] /\ authorizedAt[order[i]] <= authorizedAt[order[j]]
    /\ cron \in [Timers -> Crons]
    /\ authorizedAt \in [Timers -> 0..MaxTime]
    /\ on \in [Timers -> BOOLEAN]
    /\ oneShot \in [Timers -> BOOLEAN]
    /\ listed \subseteq Enrolled
    /\ last \in [Timers -> 0..MaxTime]
    /\ live \subseteq Enrolled \X (1..MaxTime)
    /\ \A i \in DOMAIN rows : rows[i] \in SlotRows /\ on[rows[i].timer]
    /\ revoking \in Enrolled \cup {NoTimer}
    /\ patching \in Enrolled \cup {NoTimer}
    /\ wants \in BOOLEAN
    /\ fired \in [Timers -> [1..MaxTime -> 0..2]]
    /\ mixed \cup spared \cup slipped \subseteq Timers
    /\ edits \in 0..MaxEdits
    /\ slips \in 0..MaxSlips

\* A slot of the calendar becomes one task, however often the timer is
\* polled, edited, disabled, enabled or restarted in between, as long as the
\* timer's tasks carry its own id (timer_trigger_source._due_slot, _fire).
SlotRunsOnce ==
    \A t \in Timers \ mixed : \A s \in 1..MaxTime : fired[t][s] <= 1

\* A timer never makes up for slots from before it was authorized
\* (timer_trigger_source._due_slot).
NothingBackdated ==
    \A t \in Enrolled : \A s \in 1..MaxTime : fired[t][s] > 0 => s > authorizedAt[t]

\* A one-shot timer makes one task, unless the daemon dies or the write
\* fails between the enqueueing and the revocation, or someone enables it
\* again (timer_trigger_source._revoke_one_shot).
OneShotRunsOnce ==
    \A t \in Timers \ (spared \cup mixed) :
        oneShot[t] => Cardinality({s \in 1..MaxTime : fired[t][s] > 0}) <= 1

\* A scheduled task that can fire is in the catalog the dashboard shows,
\* unless a write of the catalog failed or the row was created or revived
\* without one (dbus_runtime_service.create_scheduled_task).
ArmedIsListed ==
    LoopIdle => \A t \in Enrolled \ slipped : on[t] => t \in listed

\* The latest slot of an enabled timer is followed by a task of the timer
\* (its own, or one the poll made of the slot before it while the clock
\* reached this one), unless the timer is disabled or edited first, a later
\* slot overtakes it, or the timer shared a run with another
\* (timer_trigger_source.run_forever).
DueSlotFires ==
    \A t \in Timers, s \in UNION {Slots[k] : k \in Crons} :
        (on[t] /\ s = PrevFire(cron[t], clock) /\ s > Floor(t))
            ~> (last[t] >= s \/ ~on[t] \/ s # PrevFire(cron[t], clock) \/ t \in mixed)

\* A slot of the calendar becomes one task of a timer that was authorized
\* before it and is shown in the catalog (_tick, _fire).
TimersSafe ==
    /\ TimersTypeOK /\ SlotRunsOnce /\ NothingBackdated /\ OneShotRunsOnce
    /\ ArmedIsListed
=============================================================================
