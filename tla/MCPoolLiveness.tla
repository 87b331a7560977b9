-------------------------- MODULE MCPoolLiveness ----------------------------
(* The worker pool, the delegations and the reports on them, the timers    *)
(* and the usage upload. They share no state: a behaviour is one of its    *)
(* part alone, and TLC explores the sum of their state spaces.             *)
EXTENDS MCWorkerPool, Delegations, DelegationStatus, MCTimers, UsageMetering

CONSTANTS r1, r2

MCOrder == <<r1, r2>>

VARIABLE part

mcVars == <<part, poolVars, delegationVars, statusVars, timerVars, usageVars>>

MCInit ==
    /\ part \in {"pool", "delegations", "status", "timers", "usage"}
    /\ PoolInit /\ DelegationInit /\ StatusInit /\ TimerInit /\ UsageInit

\* Only the chosen part moves.
Alone(x) ==
    /\ part = x /\ UNCHANGED part
    /\ (x # "pool") => UNCHANGED poolVars
    /\ (x # "delegations") => UNCHANGED delegationVars
    /\ (x # "status") => UNCHANGED statusVars
    /\ (x # "timers") => UNCHANGED timerVars
    /\ (x # "usage") => UNCHANGED usageVars

MCNext ==
    \/ Alone("pool") /\ PoolNext
    \/ Alone("delegations") /\ DelegationNext
    \/ Alone("status") /\ StatusNext
    \/ Alone("timers") /\ TimerNext
    \/ Alone("usage") /\ UsageNext

\* The fairness of each part, which holds of it when it is the one that moves.
MCFairness ==
    /\ \A worker \in Workers : WF_poolVars(part = "pool" /\ WorkerStep(worker))
    /\ WF_poolVars(part = "pool" /\ Boot)
    /\ WF_poolVars(part = "pool" /\ Clock)
    /\ WF_delegationVars(part = "delegations" /\ InboxTick)
    /\ WF_delegationVars(part = "delegations" /\ Deciding)
    /\ WF_statusVars(part = "status" /\ StatusStep)
    /\ WF_timerVars(part = "timers" /\ TimerStep)
    /\ WF_usageVars(part = "usage" /\ UploadTick)

MCSpec == MCInit /\ [][MCNext]_mcVars /\ MCFairness
=============================================================================
