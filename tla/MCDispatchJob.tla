--------------------------- MODULE MCDispatchJob ----------------------------
(* The dispatch of actions for an autonomous task, a task's event stream,  *)
(* the start of the desktop application and the timers. They share no      *)
(* state: a behaviour is one of its part alone, and TLC explores the sum   *)
(* of their state spaces.                                                  *)
EXTENDS MCActionDispatch, TaskStream, MCDesktopBoot, MCTimers

VARIABLE part

mcVars == <<part, dispatchVars, streamVars, desktopVars, timerVars>>

MCInit ==
    /\ part \in {"dispatch", "stream", "desktop", "timers"}
    /\ DispatchInit /\ StreamInit /\ DesktopInit /\ TimerInit
    /\ part # "desktop" => step = "idle" /\ wanted /\ host = MCOldHost

\* Only the chosen part moves.
Alone(x) ==
    /\ part = x /\ UNCHANGED part
    /\ (x # "dispatch") => UNCHANGED dispatchVars
    /\ (x # "stream") => UNCHANGED streamVars
    /\ (x # "desktop") => UNCHANGED desktopVars
    /\ (x # "timers") => UNCHANGED timerVars

MCNext ==
    \/ Alone("dispatch") /\ DispatchNext
    \/ Alone("stream") /\ StreamNext
    \/ Alone("desktop") /\ DesktopNext
    \/ Alone("timers") /\ TimerNext

MCSpec == MCInit /\ [][MCNext]_mcVars
=============================================================================
