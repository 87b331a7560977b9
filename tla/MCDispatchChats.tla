-------------------------- MODULE MCDispatchChats ---------------------------
(* The dispatch of actions for two chats, the pairing, the signed policy   *)
(* and the delegations. They share no state: a behaviour is one of its     *)
(* part alone, and TLC explores the sum of their state spaces.             *)
EXTENDS MCActionDispatch, MCRuntimeAuthority, MCPolicySync, Delegations

VARIABLE part

mcVars == <<part, dispatchVars, authorityVars, syncVars, delegationVars>>

MCInit ==
    /\ part \in {"dispatch", "authority", "sync", "delegations"}
    /\ DispatchInit /\ AuthorityInit /\ SyncInit /\ DelegationInit

\* Only the chosen part moves.
Alone(x) ==
    /\ part = x /\ UNCHANGED part
    /\ (x # "dispatch") => UNCHANGED dispatchVars
    /\ (x # "authority") => UNCHANGED authorityVars
    /\ (x # "sync") => UNCHANGED syncVars
    /\ (x # "delegations") => UNCHANGED delegationVars

MCNext ==
    \/ Alone("dispatch") /\ DispatchNext
    \/ Alone("authority") /\ AuthorityNext
    \/ Alone("sync") /\ SyncNext
    \/ Alone("delegations") /\ DelegationNext

MCSpec == MCInit /\ [][MCNext]_mcVars
=============================================================================
