------------------------------ MODULE MCQueue -------------------------------
(* The work queue; a task's event stream, the start of the desktop         *)
(* application, the pairing and the signed policy. They share no state: a  *)
(* behaviour is one of its part alone, and TLC explores the sum of their   *)
(* state spaces.                                                           *)
EXTENDS MCWorkQueue, TaskStream, MCDesktopBoot, MCRuntimeAuthority, MCPolicySync

VARIABLE part

mcVars == <<part, vars, streamVars, desktopVars, authorityVars, syncVars>>

MCInit ==
    /\ part \in {"queue", "stream", "desktop", "authority", "sync"}
    /\ Init /\ StreamInit /\ DesktopInit /\ AuthorityInit /\ SyncInit
    /\ part # "desktop" => step = "idle" /\ wanted /\ host = MCOldHost

\* Only the chosen part moves.
Alone(x) ==
    /\ part = x /\ UNCHANGED part
    /\ (x # "queue") => UNCHANGED vars
    /\ (x # "stream") => UNCHANGED streamVars
    /\ (x # "desktop") => UNCHANGED desktopVars
    /\ (x # "authority") => UNCHANGED authorityVars
    /\ (x # "sync") => UNCHANGED syncVars

MCNext ==
    \/ Alone("queue") /\ Next
    \/ Alone("stream") /\ StreamNext
    \/ Alone("desktop") /\ DesktopNext
    \/ Alone("authority") /\ AuthorityNext
    \/ Alone("sync") /\ SyncNext

\* The fairness of each part, which holds of it when it is the one that moves.
MCFairness ==
    /\ WF_streamVars(part = "stream" /\ AfterCycle)
    /\ WF_desktopVars(part = "desktop" /\ AttemptStep)
    /\ WF_authorityVars(part = "authority" /\ DaemonStep)
    /\ WF_syncVars(part = "sync" /\ TickStep)
    /\ \A page \in Browsers : /\ WF_streamVars(part = "stream" /\ Deliver(page))
                               /\ WF_streamVars(part = "stream" /\ PageStep(page))

MCSpec == MCInit /\ [][MCNext]_mcVars /\ MCFairness
=============================================================================
