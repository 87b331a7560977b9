---------------------------- MODULE DesktopBoot ----------------------------
(***************************************************************************)
(* The desktop app bringing the engine up: the observe / plan / apply loop *)
(* of one bootstrap attempt (boot.rs), the planner it asks for the next    *)
(* repair (reconcile.rs), the lifecycle that decides when to give up       *)
(* (domain.rs), and the one slot that the attempts, the worker that serves *)
(* companion requests and the app updater compete for                      *)
(* (bootstrap_control.rs, companion_requests.rs, update/native.rs).        *)
(*                                                                         *)
(* The repairs themselves are verbs of the bundled command line, a         *)
(* separate process: it is modelled by what it may leave on the host and   *)
(* by the answer it may give.                                              *)
(***************************************************************************)
EXTENDS Naturals, Sequences, FiniteSets

CONSTANTS
    Hosts,            \* the hosts the app may be opened on
    Companions,       \* whether the companion is desired: a set of booleans
    Codes,            \* failure codes the command line may report
    MaxAttemptIds,    \* bound on bootstrap attempts in one process
    MaxChecks,        \* bound on update checks in one process
    MaxTroubles       \* bound on what goes wrong outside the command line

Machines == {"none", "foreign", "off", "drifted_off", "drifted", "serving"}

HostFacts ==
    [staged : BOOLEAN, machine : Machines, helper : BOOLEAN,
     image : BOOLEAN, core : {"none", "stale", "off", "on"}, port : BOOLEAN,
     scaffold : BOOLEAN, adsImage : BOOLEAN, ads : BOOLEAN,
     disk : 0..2, other : BOOLEAN]

ASSUME HostsAssumption ==
    /\ Hosts \subseteq HostFacts /\ Companions \subseteq BOOLEAN
    /\ {MaxAttemptIds, MaxChecks, MaxTroubles} \subseteq Nat

VARIABLES
    host,       \* what is true of the host now
    wanted,     \* is the companion part of the desired state
    observed,   \* the facts of the last observation
    step,       \* where the attempt's thread is
    lifecycle,  \* EngineLifecycle: phase and the last failure of the episode
    repair,     \* the action being applied
    effective,  \* last_effective_repair: the last action that reported success
    verdict,    \* how the attempt ended
    ticketed,   \* a ticket was minted and nothing was observed since
    latestId, signal, cancelled,            \* BootstrapControl's attempt slot
    updating, ticking,                      \* its two other reservations
    worker, closing,                        \* CompanionRequests
    updater, generation, checkedUpdate, expired,  \* NativeUpdater
    app,        \* the process: running, quitting or gone
    code,       \* the code the next failure will carry
    lastCodes,  \* the last two failures since a repair succeeded
    cancelAsked, \* attempts a cancel was accepted for
    quitBusy,   \* an attempt was alive, or began, while quitting
    troubles

attemptVars == <<observed, step, lifecycle, repair, effective, verdict, ticketed, lastCodes>>
slotVars == <<latestId, signal, cancelled, cancelAsked>>
companionVars == <<ticking, worker, closing>>
updaterVars == <<updating, updater, generation, checkedUpdate, expired>>
worldVars == <<wanted, app, code, quitBusy, troubles>>
desktopVars ==
    <<host, attemptVars, slotVars, companionVars, updaterVars, worldVars>>

(* The repairs of domain.rs that reconcile can ask for.                    *)
Repairs ==
    {"StageRuntime", "AdoptMachine", "CreateMachine", "StartMachine",
     "InstallPrivilegedHelper", "PullEngine", "PullCompanion", "ChoosePort",
     "CreateContainer", "StartContainer", "EnsureCompanionScaffold",
     "ComposeCompanionUp", "RecreateEngine"}
NoRepair == "none"
NoCode == "none"
AllCodes == Codes \cup {"disk", "observe", "ineffective", "ticket"}

Phases ==
    {"Fresh", "Preflight", "RuntimeStaging", "EngineProvisioning",
     "EnginePulling", "EngineStarting", "EngineReady",
     "CompanionProvisioning", "CompanionReady", "Reconnecting", "Repairing",
     "Degraded"}

StageRank ==
    [Preflight |-> 0, RuntimeStaging |-> 1, EngineProvisioning |-> 2,
     EnginePulling |-> 3, EngineStarting |-> 4]
StagePhases == DOMAIN StageRank

FreshLife == [phase |-> "Fresh", action |-> NoRepair, code |-> NoCode]

(* The facts of an attempt that has observed nothing.                      *)
NoFacts ==
    [staged |-> FALSE, machine |-> "none", helper |-> FALSE, image |-> FALSE,
     core |-> "none", port |-> FALSE, scaffold |-> FALSE, adsImage |-> FALSE,
     ads |-> FALSE, disk |-> 0, other |-> FALSE]
NothingApplied == [action |-> NoRepair, facts |-> NoFacts]

(* boot::start has just spawned the first attempt, or failed to.           *)
DesktopInit ==
    /\ host \in Hosts
    /\ wanted \in Companions
    /\ observed = NoFacts
    /\ lifecycle = FreshLife
    /\ repair = NoRepair
    /\ effective = NothingApplied
    /\ verdict = "none"
    /\ ticketed = FALSE
    /\ latestId = 1 /\ cancelled = FALSE
    /\ \/ signal = TRUE /\ step = "starting"
       \/ signal = FALSE /\ step = "idle"
    /\ updating = FALSE /\ ticking = FALSE
    /\ worker = FALSE /\ closing = FALSE
    /\ updater = "idle" /\ generation = 0 /\ checkedUpdate = 0 /\ expired = FALSE
    /\ app = "running"
    /\ code \in Codes
    /\ lastCodes = <<>>
    /\ cancelAsked = {}
    /\ quitBusy = FALSE
    /\ troubles = 0

-----------------------------------------------------------------------------
(* reconcile.rs: the next repair, from the observed facts alone.           *)

(* preflight_violation: disk level 0 is below the minimum; levels 1 and 2  *)
(* both suffice and differ only in the bytes that are free.                *)
PreflightViolation(f) == f.disk = 0

(* A host without a machine to provision (Linux) is always "serving".      *)
MachineGap(f) ==
    CASE f.machine = "none" -> "CreateMachine"
      [] f.machine = "foreign" -> "AdoptMachine"
      [] f.machine \in {"off", "drifted_off"} -> "StartMachine"
      [] f.machine = "drifted" -> "RecreateEngine"
      [] f.machine = "serving" -> NoRepair

ImagesGap(f) ==
    CASE ~f.image -> "PullEngine"
      [] f.image /\ f.core = "stale" -> "RecreateEngine"
      [] OTHER -> NoRepair

ContainerGap(f) ==
    CASE f.core = "none" -> IF f.port THEN "ChoosePort" ELSE "CreateContainer"
      [] f.core = "off" -> "StartContainer"
      [] OTHER -> NoRepair

CompanionGap(f) ==
    CASE ~wanted -> NoRepair
      [] wanted /\ ~f.scaffold -> "EnsureCompanionScaffold"
      [] wanted /\ f.scaffold /\ ~f.adsImage -> "PullCompanion"
      [] wanted /\ f.scaffold /\ f.adsImage /\ ~f.ads -> "ComposeCompanionUp"
      [] OTHER -> NoRepair

Plan(f) ==
    CASE ~f.staged -> "StageRuntime"
      [] f.staged /\ MachineGap(f) # NoRepair -> MachineGap(f)
      [] f.staged /\ MachineGap(f) = NoRepair /\ f.helper ->
            "InstallPrivilegedHelper"
      [] OTHER ->
            IF ImagesGap(f) # NoRepair THEN ImagesGap(f)
            ELSE IF ContainerGap(f) # NoRepair THEN ContainerGap(f)
            ELSE CompanionGap(f)

(* phase_for and phase_past_point_of_no_return.                            *)
PhaseFor(a) ==
    CASE a = "StageRuntime" -> "RuntimeStaging"
      [] a \in {"AdoptMachine", "CreateMachine", "StartMachine",
                "InstallPrivilegedHelper"} -> "EngineProvisioning"
      [] a \in {"PullEngine", "PullCompanion"} -> "EnginePulling"
      [] a \in {"ChoosePort", "CreateContainer", "StartContainer",
                "RecreateEngine"} -> "EngineStarting"
      [] OTHER -> "CompanionProvisioning"

PastNoReturn(a) ==
    PhaseFor(a) \in {"EngineStarting", "CompanionProvisioning"}

Ups == {a \in Repairs : PhaseFor(a) = "EngineStarting"}

-----------------------------------------------------------------------------
(* EngineLifecycle.                                                        *)

Allowed(from, to) ==
    IF from \in StagePhases /\ to \in StagePhases
    THEN StageRank[to] > StageRank[from]
    ELSE \/ <<from, to>> \in
              {<<"Fresh", "Preflight">>, <<"EngineStarting", "EngineReady">>,
               <<"EngineStarting", "Reconnecting">>,
               <<"EngineReady", "CompanionProvisioning">>,
               <<"EngineReady", "Reconnecting">>,
               <<"CompanionProvisioning", "CompanionReady">>,
               <<"CompanionProvisioning", "Degraded">>,
               <<"CompanionReady", "CompanionProvisioning">>,
               <<"Reconnecting", "EngineReady">>,
               <<"Repairing", "Degraded">>, <<"Degraded", "Repairing">>}
         \/ from \in StagePhases /\ to = "Repairing"
         \/ from = "Repairing" /\ to \in StagePhases

(* enter: an illegal transition is refused, and every caller but `fail'    *)
(* ignores the refusal. Leaving Repairing closes the episode.              *)
Enter(l, to) ==
    IF ~Allowed(l.phase, to) THEN l
    ELSE IF l.phase = "Repairing" /\ to # "Degraded"
         THEN [FreshLife EXCEPT !.phase = to]
         ELSE [l EXCEPT !.phase = to]

SameAsLast(l, a, c) == l.action = a /\ l.code = c

(* fail: the verdict, and the lifecycle after it.                          *)
FailVerdict(l, a, c) ==
    CASE l.phase = "Repairing" /\ SameAsLast(l, a, c) -> "degraded"
      [] l.phase # "Repairing" /\ ~Allowed(l.phase, "Repairing") -> "illegal"
      [] OTHER -> "repairing"

FailAttempt(l, a, c) ==
    CASE FailVerdict(l, a, c) = "degraded" -> Enter(l, "Degraded")
      [] FailVerdict(l, a, c) = "illegal" -> l
      [] OTHER -> [phase |-> "Repairing", action |-> a, code |-> c]

(* advance_to.                                                             *)
AdvanceTo(l, a) ==
    IF a \in {"EnsureCompanionScaffold", "PullCompanion", "ComposeCompanionUp"}
    THEN LET up == IF l.phase \in {"EngineReady", "CompanionProvisioning",
                                   "CompanionReady"}
                   THEN l
                   ELSE Enter(Enter(l, "EngineStarting"), "EngineReady")
         IN  Enter(up, "CompanionProvisioning")
    ELSE Enter(l, PhaseFor(a))

-----------------------------------------------------------------------------
(* BootstrapControl: one slot for attempts, app update and companion work. *)

SlotFree == ~signal /\ ~updating /\ ~ticking

Alive == app \notin {"gone", "replaced"}

(* spawn_attempt: begin(expected) refuses a stale identity and a taken     *)
(* slot; the retry command names the attempt it follows, while the tray's  *)
(* restart names none. A thread that cannot be spawned gives the slot      *)
(* back.                                                                   *)
Begin(expected, first) ==
    /\ Alive
    /\ expected = latestId
    /\ SlotFree
    /\ latestId < MaxAttemptIds
    /\ latestId' = latestId + 1
    /\ cancelled' = FALSE
    /\ \/ signal' = TRUE /\ step' = first
       \/ signal' = FALSE /\ UNCHANGED step
    /\ quitBusy' = (quitBusy \/ app = "quitting")
    /\ UNCHANGED <<host, observed, lifecycle, repair, effective, verdict, ticketed,
                   lastCodes, cancelAsked, companionVars, updaterVars, wanted, app,
                   code, troubles>>

Retry(expected) == Begin(expected, "starting")
RestartEngine == Begin(latestId, "restarting")

(* cancel_bootstrap: only the attempt the owner was looking at.            *)
Cancel(expected) ==
    /\ Alive
    /\ expected = latestId
    /\ signal
    /\ cancelled' = TRUE
    /\ cancelAsked' = cancelAsked \cup {expected}
    /\ UNCHANGED <<host, attemptVars, latestId, signal, companionVars,
                   updaterVars, worldVars>>

(* stop_engine_best_effort: a stop that fails is not noticed.              *)
Stopped(h) == IF h.core = "on" THEN [h EXCEPT !.core = "off"] ELSE h

StopForRestart ==
    /\ Alive
    /\ step = "restarting"
    /\ host' \in {host, Stopped(host)}
    /\ step' = "starting"
    /\ UNCHANGED <<observed, lifecycle, repair, effective, verdict, ticketed, lastCodes,
                   slotVars, companionVars, updaterVars, worldVars>>

(* The end of a run, before the attempt's slot is released.                *)
End(o) == verdict' = o /\ step' = "ended"

(* run_once up to the loop: without a usable desired state nothing runs.   *)
Prepare ==
    /\ Alive
    /\ step = "starting"
    /\ \/ /\ step' = "observing"
          /\ lifecycle' = Enter(FreshLife, "Preflight")
          /\ UNCHANGED verdict
       \/ /\ End("degraded")
          /\ UNCHANGED lifecycle
    /\ UNCHANGED <<host, observed, repair, effective, ticketed, lastCodes, slotVars,
                   companionVars, updaterVars, worldVars>>

(* handle_failure: back to observing after the backoff, or the end.        *)
HandleFailure(l, a, c) ==
    /\ lifecycle' = FailAttempt(l, a, c)
    /\ lastCodes' = IF lastCodes = <<>> THEN <<(<<a, c>>)>>
                   ELSE <<lastCodes[Len(lastCodes)], <<a, c>> >>
    /\ IF FailVerdict(l, a, c) = "repairing"
       THEN step' = "observing" /\ UNCHANGED verdict
       ELSE End("degraded")

(* One turn of the loop up to the repair it applies: observe, refuse what  *)
(* preflight refuses, plan, and refuse a repair that reported success      *)
(* against exactly these facts.                                            *)
ObserveFails ==
    /\ Alive
    /\ step = "observing"
    /\ troubles < MaxTroubles
    /\ troubles' = troubles + 1
    /\ HandleFailure(lifecycle, NoRepair, "observe")
    /\ UNCHANGED <<host, observed, repair, effective, ticketed, slotVars,
                   companionVars, updaterVars, wanted, app, code, quitBusy>>

(* Variant: a repair that changes nothing is repeated.                     *)
Ineffective_Never(a, f) == FALSE

Ineffective(a, f) == effective.action = a /\ effective.facts = f

LoopTurn ==
    /\ Alive
    /\ step = "observing"
    /\ observed' = host
    /\ ticketed' = FALSE
    /\ IF host.other
       THEN End("focus") /\ UNCHANGED <<lifecycle, repair, lastCodes>>
       ELSE IF PreflightViolation(host)
       THEN HandleFailure(lifecycle, NoRepair, "disk") /\ UNCHANGED repair
       ELSE IF Plan(host) = NoRepair
       THEN /\ lifecycle' = AdvanceTo(lifecycle, "StartContainer")
            /\ step' = "confirming"
            /\ repair' = "StartContainer"
            /\ UNCHANGED <<verdict, lastCodes>>
       ELSE IF Ineffective(Plan(host), host)
       THEN HandleFailure(lifecycle, Plan(host), "ineffective") /\ UNCHANGED repair
       ELSE /\ repair' = Plan(host)
            /\ step' = "applying"
            /\ UNCHANGED <<lifecycle, verdict, lastCodes>>
    /\ UNCHANGED <<host, effective, slotVars, companionVars, updaterVars,
                   worldVars>>

-----------------------------------------------------------------------------
(* The bundled command line: what a verb leaves on the host when it works. *)

MachineReady(m) == IF m = "drifted_off" THEN "drifted" ELSE "serving"

Effect(a, h) ==
    CASE a = "StageRuntime" -> [h EXCEPT !.staged = TRUE]
      [] a \in {"AdoptMachine", "CreateMachine", "StartMachine"} ->
            [h EXCEPT !.machine = MachineReady(@)]
      [] a = "InstallPrivilegedHelper" -> [h EXCEPT !.helper = FALSE]
      [] a \in {"PullEngine", "PullCompanion"} ->
            [h EXCEPT !.image = TRUE, !.adsImage = @ \/ wanted]
      [] a \in Ups ->
            [h EXCEPT !.machine = "serving", !.core = "on", !.port = TRUE,
                      !.scaffold = @ \/ wanted]
      [] a = "EnsureCompanionScaffold" -> [h EXCEPT !.scaffold = TRUE]
      [] OTHER -> [h EXCEPT !.ads = TRUE]

(* A verb may report success and change nothing, and fail after it changed *)
(* everything.                                                             *)
AfterVerb(a) == {host, Effect(a, host)}

(* apply_gated: the owner's signal reaches only the verbs before the point *)
(* of no return.                                                           *)
SignalReaches(a) == cancelled /\ ~PastNoReturn(a)

ApplyCancelled ==
    /\ Alive
    /\ step = "applying"
    /\ SignalReaches(repair)
    /\ host' \in AfterVerb(repair)
    /\ End("cancelled")
    /\ UNCHANGED <<observed, lifecycle, repair, effective, ticketed, lastCodes, slotVars,
                   companionVars, updaterVars, worldVars>>

ApplyProgressed ==
    /\ Alive
    /\ step = "applying"
    /\ host' \in AfterVerb(repair)
    /\ lifecycle' = AdvanceTo(lifecycle, repair)
    /\ effective' = [action |-> repair, facts |-> observed]
    /\ lastCodes' = <<>>
    /\ step' = "observing"
    /\ UNCHANGED <<observed, repair, verdict, ticketed, slotVars, companionVars,
                   updaterVars, worldVars>>

(* `up' delivered a ticket. With the companion desired the ticket is       *)
(* dropped and the loop goes on; without it the attempt is ready.          *)
ApplyReady ==
    /\ Alive
    /\ step = "applying"
    /\ repair \in Ups
    /\ host' = Effect(repair, host)
    /\ lifecycle' = Enter(AdvanceTo(lifecycle, repair), "EngineReady")
    /\ lastCodes' = <<>>
    /\ ticketed' = TRUE
    /\ IF wanted
       THEN /\ effective' = [action |-> repair, facts |-> observed]
            /\ step' = "observing"
            /\ UNCHANGED verdict
       ELSE End("ready") /\ UNCHANGED effective
    /\ UNCHANGED <<observed, repair, slotVars, companionVars, updaterVars, worldVars>>

ApplyFails ==
    /\ Alive
    /\ step = "applying"
    /\ host' \in AfterVerb(repair)
    /\ effective' = NothingApplied
    /\ HandleFailure(lifecycle, repair, code)
    /\ UNCHANGED <<observed, repair, ticketed, slotVars, companionVars, updaterVars,
                   worldVars>>

(* `up' ran and its secret channel closed without a line.                  *)
ApplyWithoutTicket ==
    /\ Alive
    /\ step = "applying"
    /\ repair \in Ups
    /\ host' = Effect(repair, host)
    /\ effective' = NothingApplied
    /\ HandleFailure(Enter(lifecycle, "Reconnecting"), repair, "ticket")
    /\ UNCHANGED <<observed, repair, ticketed, slotVars, companionVars, updaterVars,
                   worldVars>>

(* confirm_ready: `up' once more, for a fresh ticket.                      *)
ConfirmTicket ==
    /\ Alive
    /\ step = "confirming"
    /\ host' = Effect("StartContainer", host)
    /\ ticketed' = TRUE
    /\ IF wanted
       THEN step' = "rechecking" /\ UNCHANGED <<lifecycle, verdict>>
       ELSE lifecycle' = Enter(lifecycle, "EngineReady") /\ End("ready")
    /\ UNCHANGED <<observed, repair, effective, lastCodes, slotVars, companionVars,
                   updaterVars, worldVars>>

ConfirmFails ==
    /\ Alive
    /\ step = "confirming"
    /\ host' \in AfterVerb("StartContainer")
    /\ lifecycle' \in {lifecycle, Enter(lifecycle, "Reconnecting")}
    /\ End("degraded")
    /\ UNCHANGED <<observed, repair, effective, ticketed, lastCodes, slotVars,
                   companionVars, updaterVars, worldVars>>

(* The companion is observed again before the ticket is shown.             *)
CompanionConfirmed(l) ==
    LET up == IF l.phase = "CompanionProvisioning" THEN l
              ELSE Enter(Enter(l, "EngineReady"), "CompanionProvisioning")
    IN  Enter(up, "CompanionReady")

ReobserveCompanion ==
    /\ Alive
    /\ step = "rechecking"
    /\ \/ /\ ~host.other /\ Plan(host) = NoRepair
          /\ observed' = host
          /\ ticketed' = FALSE
          /\ lifecycle' = CompanionConfirmed(lifecycle)
          /\ End("ready")
       \/ /\ \/ host.other
             \/ Plan(host) # NoRepair
             \/ troubles < MaxTroubles
          /\ End("degraded")
          /\ UNCHANGED <<observed, ticketed, lifecycle>>
    /\ UNCHANGED <<host, repair, effective, lastCodes, slotVars, companionVars,
                   updaterVars, worldVars>>

(* run_once after the loop: a ready product starts the companion worker,   *)
(* unless it was told to stop, and what the attempt knew goes with its     *)
(* thread; the attempt is dropped and its slot is free.                    *)
Finish ==
    /\ Alive
    /\ step = "ended"
    /\ worker' = (worker \/ (verdict = "ready" /\ ~closing))
    /\ signal' = FALSE
    /\ step' = "idle"
    /\ observed' = NoFacts
    /\ lifecycle' = FreshLife
    /\ repair' = NoRepair
    /\ effective' = NothingApplied
    /\ verdict' = "none"
    /\ ticketed' = FALSE
    /\ lastCodes' = <<>>
    /\ UNCHANGED <<host, latestId, cancelled, cancelAsked, ticking, closing,
                   updaterVars, worldVars>>

-----------------------------------------------------------------------------
(* CompanionRequests: the worker takes the slot for each tick and leaves   *)
(* at once when it is told to stop, but a tick under way is drained.       *)

(* Variant: the update takes no slot.                                      *)
TickBegins_Unreserved ==
    /\ Alive
    /\ worker /\ ~closing
    /\ ~updating /\ ~ticking
    /\ ticking' = TRUE
    /\ UNCHANGED <<host, attemptVars, slotVars, worker, closing, updaterVars,
                   worldVars>>

TickBegins ==
    /\ Alive
    /\ worker /\ ~closing
    /\ SlotFree
    /\ ticking' = TRUE
    /\ UNCHANGED <<host, attemptVars, slotVars, worker, closing, updaterVars,
                   worldVars>>

TickEnds ==
    /\ Alive
    /\ ticking
    /\ ticking' = FALSE
    /\ host' \in {host, [host EXCEPT !.ads = TRUE]}
    /\ UNCHANGED <<attemptVars, slotVars, worker, closing, updaterVars, worldVars>>

-----------------------------------------------------------------------------
(* NativeUpdater: one check or installation at a time.                     *)

CheckBegins ==
    /\ Alive
    /\ updater = "idle"
    /\ generation < MaxChecks
    /\ updater' = "checking"
    /\ generation' = generation + 1
    /\ checkedUpdate' = 0
    /\ UNCHANGED <<host, attemptVars, slotVars, companionVars, updating, expired,
                   worldVars>>

CheckEnds ==
    /\ Alive
    /\ updater = "checking"
    /\ updater' = "idle"
    /\ \/ checkedUpdate' = generation /\ expired' = FALSE
       \/ UNCHANGED <<checkedUpdate, expired>>
    /\ UNCHANGED <<host, attemptVars, slotVars, companionVars, updating,
                   generation, worldVars>>

CheckExpires ==
    /\ Alive
    /\ checkedUpdate # 0 \/ updater = "asking"
    /\ ~expired
    /\ expired' = TRUE
    /\ UNCHANGED <<host, attemptVars, slotVars, companionVars, updating, updater,
                   generation, checkedUpdate, worldVars>>

(* install: the slot, then the checked update itself, which is taken once. *)
InstallBegins(id) ==
    /\ Alive
    /\ updater = "idle"
    /\ SlotFree
    /\ checkedUpdate # 0 /\ checkedUpdate = id /\ ~expired
    /\ updater' = "asking"
    /\ updating' = TRUE
    /\ checkedUpdate' = 0
    /\ UNCHANGED <<host, attemptVars, slotVars, companionVars, generation,
                   expired, worldVars>>

(* The owner answers the dialog; a confirmation that came too late is      *)
(* refused.                                                                *)
InstallAnswered ==
    /\ Alive
    /\ updater = "asking"
    /\ \/ ~expired /\ updater' = "installing" /\ UNCHANGED updating
       \/ updater' = "idle" /\ updating' = FALSE
    /\ UNCHANGED <<host, attemptVars, slotVars, companionVars, generation, checkedUpdate,
                   expired, worldVars>>

(* Download, verification and installation; success restarts the process. *)
InstallEnds ==
    /\ Alive
    /\ updater = "installing"
    /\ \/ app' = "replaced" /\ UNCHANGED <<updater, updating>>
       \/ updater' = "idle" /\ updating' = FALSE /\ UNCHANGED app
    /\ UNCHANGED <<host, attemptVars, slotVars, companionVars, generation, checkedUpdate,
                   expired, wanted, code, quitBusy, troubles>>

-----------------------------------------------------------------------------
(* The tray's quit: the companion worker is drained, the engine stopped,   *)
(* the process exits. A bootstrap attempt is neither awaited nor excluded. *)

QuitRequested ==
    /\ app = "running"
    /\ app' = "quitting"
    /\ closing' = TRUE
    /\ quitBusy' = signal
    /\ UNCHANGED <<host, attemptVars, slotVars, ticking, worker, updaterVars,
                   wanted, code, troubles>>

QuitStopsAndExits ==
    /\ app = "quitting"
    /\ ~ticking
    /\ worker' = FALSE
    /\ \/ host' = Stopped(host) /\ UNCHANGED troubles
       \/ /\ troubles < MaxTroubles /\ troubles' = troubles + 1
          /\ UNCHANGED host
    /\ app' = "gone"
    /\ UNCHANGED <<attemptVars, slotVars, ticking, closing, updaterVars, wanted,
                   code, quitBusy>>

(* What the host does by itself: the engine or the companion stops, free   *)
(* space moves, another instance appears, the next failure has another     *)
(* cause.                                                                  *)
HostChanges ==
    /\ Alive
    /\ troubles < MaxTroubles
    /\ troubles' = troubles + 1
    /\ \/ host' = Stopped(host) /\ host' # host /\ UNCHANGED code
       \/ host.ads /\ host' = [host EXCEPT !.ads = FALSE] /\ UNCHANGED code
       \/ /\ \E d \in 0..2 \ {host.disk} : host' = [host EXCEPT !.disk = d]
          /\ UNCHANGED code
       \/ ~host.other /\ host' = [host EXCEPT !.other = TRUE] /\ UNCHANGED code
       \/ code' \in Codes \ {code} /\ UNCHANGED host
    /\ UNCHANGED <<attemptVars, slotVars, companionVars, updaterVars, wanted, app,
                   quitBusy>>

-----------------------------------------------------------------------------
AttemptStep ==
    \/ StopForRestart \/ Prepare \/ LoopTurn \/ ApplyCancelled \/ ApplyProgressed
    \/ ApplyReady \/ ApplyFails \/ ApplyWithoutTicket \/ ConfirmTicket
    \/ ConfirmFails \/ ReobserveCompanion \/ Finish

DesktopNext ==
    \/ RestartEngine
    \/ \E id \in 0..MaxAttemptIds : Retry(id) \/ Cancel(id)
    \/ AttemptStep \/ ObserveFails
    \/ TickBegins \/ TickEnds
    \/ CheckBegins \/ CheckEnds \/ CheckExpires
    \/ \E id \in 1..MaxChecks : InstallBegins(id)
    \/ InstallAnswered \/ InstallEnds
    \/ QuitRequested \/ QuitStopsAndExits \/ HostChanges

DesktopSpec == DesktopInit /\ [][DesktopNext]_desktopVars

(* The attempt has a thread of its own, every verb it waits for is bounded *)
(* by a hard timeout, and the backoff between repairs by thirty seconds.   *)
DesktopFairness == WF_desktopVars(AttemptStep)

-----------------------------------------------------------------------------
(* The state of the app's bootstrap, its slot, its worker and its updater. *)
DesktopTypeOK ==
    /\ host \in HostFacts /\ observed \in HostFacts
    /\ step \in {"idle", "starting", "restarting", "observing", "applying",
                 "confirming", "rechecking", "ended"}
    /\ lifecycle \in [phase : Phases, action : Repairs \cup {NoRepair},
                 code : AllCodes \cup {NoCode}]
    /\ repair \in Repairs \cup {NoRepair}
    /\ effective \in [action : Repairs \cup {NoRepair}, facts : HostFacts]
    /\ verdict \in {"none", "ready", "degraded", "cancelled", "focus"}
    /\ latestId \in 0..MaxAttemptIds /\ generation \in 0..MaxChecks
    /\ checkedUpdate \in 0..generation /\ cancelAsked \subseteq 1..latestId
    /\ app \in {"running", "quitting", "gone", "replaced"}
    /\ signal = (step # "idle")
    /\ updating = (updater \in {"asking", "installing"})

(* boot.rs `confirm_ready': with the companion desired, the product is     *)
(* declared ready only on an observation made after the ticket was minted, *)
(* and that observation leaves nothing to repair.                          *)
ReadyIsConfirmed ==
    verdict = "ready" /\ wanted => ~ticketed /\ Plan(observed) = NoRepair

(* bootstrap_control.rs `cancel': an attempt ends as cancelled only when   *)
(* the owner cancelled that very attempt.                                  *)
CancelNamesItsAttempt == verdict = "cancelled" => latestId \in cancelAsked

(* boot.rs `apply_gated': a verb that starts or recreates the engine, or   *)
(* brings the companion up, is never killed by a cancel.                   *)
UpIsNeverKilled == verdict = "cancelled" => ~PastNoReturn(repair)

(* domain.rs `fail': the lifecycle is degraded only when the same repair   *)
(* failed with the same code twice and nothing succeeded in between.       *)
DegradedMeansStuck ==
    lifecycle.phase = "Degraded" =>
        Len(lastCodes) = 2 /\ lastCodes[1] = lastCodes[2]

(* bootstrap_control.rs: a bootstrap attempt, a companion request and the  *)
(* replacement of the app, which replaces the command line the other two   *)
(* run, are never under way together.                                      *)
OneUserOfTheCli ==
    /\ ~(step # "idle" /\ ticking)
    /\ updater \in {"asking", "installing"} => step = "idle" /\ ~ticking

(* boot.rs quit listener: the app leaves only when no companion request is *)
(* under way, and the engine it leaves is down unless the stop failed or a *)
(* bootstrap attempt was alive.                                            *)
QuitDrains ==
    app = "gone" =>
        /\ ~ticking
        /\ host.core = "on" => quitBusy \/ troubles > 0

(* boot.rs `run': every attempt ends and gives its slot back, whatever the *)
(* command line answers, once the host stops changing under it.            *)
AttemptEnds == step # "idle" ~> (step = "idle" \/ ~Alive)

\* Attempts, cancels, the companion worker, updates and quitting share the
\* command line without undoing each other, and ready means ready.
DesktopSafe ==
    /\ DesktopTypeOK /\ ReadyIsConfirmed /\ CancelNamesItsAttempt
    /\ UpIsNeverKilled /\ DegradedMeansStuck /\ OneUserOfTheCli /\ QuitDrains
=============================================================================
