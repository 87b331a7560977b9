-------------------------- MODULE RuntimeAuthority --------------------------
(***************************************************************************)
(* Who may run inference: the Enterprise pairing and the signed LLM policy *)
(* (instance/association_store.py, runtime/managed_llm.py), the generation *)
(* counter that every write of either one moves, the daemon that boots     *)
(* under one generation (runtime/managed_llm_bootstrap.py) and the latch   *)
(* and fences its turns go through (runtime/managed_llm_lifecycle.py).     *)
(*                                                                         *)
(* Every writer, every check and every step of the boot holds the          *)
(* cross-process configuration_lock, so each of them is one step here.  A  *)
(* writer can still die or fail between two of its transactions: that is   *)
(* the `outcome` of ApplySignedGateway.                                    *)
(***************************************************************************)
EXTENDS Integers, FiniteSets

CONSTANTS
    Threads,        \* workers of the executor: concurrent native turns
    Pairings,       \* [tenant, key]: what a pairing identifies and trusts
    MaxVersion,     \* bound: versions of the signed policy
    MaxGeneration,  \* bound: writes of the authority
    MaxFaults,      \* bound: crashes, signals and unavailable checks
    NoPairing, NoPolicy

ASSUME AuthorityAssumption ==
    /\ {MaxVersion, MaxFaults} \subseteq Nat
    /\ MaxGeneration \in Nat \ {0}
    /\ \A p \in Pairings : DOMAIN p = {"tenant", "key"}
    /\ NoPairing \notin [pairing : Pairings, state : {"active", "revoked"}]
    /\ NoPolicy \notin [version : 1 .. MaxVersion, assigns : BOOLEAN,
                        status : {"applying", "active", "revoked"},
                        pairing : Pairings]

VARIABLES
    association,    \* instance_association, or NoPairing
    floor,          \* its last_applied_version
    handshakes,     \* pairings that passed is_associated and are not saved
    policy,         \* managed_llm_policy, or NoPolicy
    credential,     \* version whose key the cloud-managed provider row holds
    life,           \* generation of managed_llm_lifecycle, 0 when it has no row
    recorded,       \* its fingerprint (which determines its mode)
    pending,        \* its restart_pending
    proc,           \* the daemon: "down", "exec", "confining", "up"
    boot,           \* the Generation it booted under: [gen, auth]
    latch,          \* ProcessAdmission._closed
    stopping,       \* _handle_sigterm ran
    at,             \* a turn: see Steps
    key,            \* the credential its model config holds, 0 for a local one
    interrupts,     \* ProcessAdmission._interrupts
    interrupted,    \* history: turns whose native call was interrupted
    moved,          \* history: the authority has left the one of the boot
    faults          \* counter of the bound

storeVars == <<association, floor, handshakes, policy, credential>>

lifeVars == <<life, recorded, pending>>

bootVars == <<proc, boot, latch, stopping>>

nativeVars == <<at, key, interrupts, interrupted>>

authorityVars == <<storeVars, lifeVars, bootVars, nativeVars, moved, faults>>

Steps == {"idle", "resolved", "built", "checked", "calling", "returned",
          "ready", "delivered"}

(* _authority: the mode and the fingerprint of the stored configuration.    *)
(* The fingerprint hashes the policy row and the association row.           *)
Local == [mode |-> "local", policy |-> NoPolicy, association |-> NoPairing]

Active(pol, asc) ==
    /\ pol.status = "active"
    /\ asc # NoPairing
    /\ asc.state = "active"
    /\ asc.pairing = pol.pairing

Authority(pol, asc) ==
    IF pol = NoPolicy THEN Local
    ELSE [mode |-> IF Active(pol, asc) THEN "managed" ELSE "blocked",
          policy |-> pol, association |-> asc]

Current == Authority(policy, association)

AuthorityInit ==
    /\ association = NoPairing /\ floor = 0 /\ handshakes = {}
    /\ policy = NoPolicy /\ credential = 0
    /\ life = 0 /\ recorded = Local /\ pending = FALSE
    /\ proc = "down" /\ boot = [gen |-> 0, auth |-> Local]
    /\ latch = FALSE /\ stopping = FALSE
    /\ at = [t \in Threads |-> "idle"]
    /\ key = [t \in Threads |-> 0]
    /\ interrupts = {} /\ interrupted = {}
    /\ moved = FALSE /\ faults = 0

(* Variant: the generation moves the first time only.                      *)
Record_Overwrites(auth) ==
    /\ life' = IF life = 0 THEN 1 ELSE life
    /\ recorded' = auth
    /\ pending' = (pending \/ life = 0)
    /\ moved' = (moved \/ (proc = "up" /\ auth # boot.auth))

(* record_authority_transition, in the transaction of the writer: the       *)
(* generation moves when the authority differs from the recorded one.       *)
Record(auth) ==
    /\ IF life = 0 \/ recorded # auth
       THEN life' = life + 1 /\ recorded' = auth /\ pending' = TRUE
       ELSE UNCHANGED lifeVars
    /\ moved' = (moved \/ (proc = "up" /\ auth # boot.auth))

Writable == life < MaxGeneration

(***************************************************************************)
(* Writers of the authority.                                               *)
(***************************************************************************)

IsAssociated == association # NoPairing /\ association.state = "active"

(* PairingService.pair: the guard, then the handshake with the cloud ...    *)
BeginPair(p) ==
    /\ ~IsAssociated
    /\ handshakes' = handshakes \union {p}
    /\ UNCHANGED <<association, floor, policy, credential, lifeVars, bootVars,
                   nativeVars, moved, faults>>

(* ... which can fail, ...                                                  *)
AbandonPair(p) ==
    /\ p \in handshakes
    /\ handshakes' = handshakes \ {p}
    /\ UNCHANGED <<association, floor, policy, credential, lifeVars, bootVars,
                   nativeVars, moved, faults>>

(* ... and SQLiteAssociationStore.save, which asks nothing again.           *)
SavePairing(p) ==
    /\ Writable
    /\ p \in handshakes
    /\ handshakes' = handshakes \ {p}
    /\ association' = [pairing |-> p, state |-> "active"]
    /\ floor' = 0
    /\ Record(Authority(policy, association'))
    /\ UNCHANGED <<policy, credential, bootVars, nativeVars, faults>>

(* mark_revoked: the row stays, as a tombstone.                             *)
MarkRevoked ==
    /\ Writable
    /\ association # NoPairing
    /\ association' = [association EXCEPT !.state = "revoked"]
    /\ Record(Authority(policy, association'))
    /\ UNCHANGED <<floor, handshakes, policy, credential, bootVars, nativeVars,
                   faults>>

(* cmd_unpair and clear: the pairing, the policy and its provider go.       *)
Clear ==
    /\ Writable
    /\ IsAssociated
    /\ association' = NoPairing /\ floor' = 0
    /\ policy' = NoPolicy
    /\ credential' = 0
    /\ Record(Local)
    /\ UNCHANGED <<handshakes, bootVars, nativeVars, faults>>

(* set_last_applied_version, by config_sync after a bundle is applied.      *)
SetLastAppliedVersion(v) ==
    /\ IsAssociated
    /\ floor < v
    /\ policy # NoPolicy /\ policy.version >= v
    /\ floor' = v
    /\ UNCHANGED <<association, handshakes, policy, credential, lifeVars,
                   bootVars, nativeVars, moved, faults>>

(* _read_policy(check_trust=False) of the policy in force: it must be of    *)
(* the tenant of the pairing; a bundle of a lower version, or another one   *)
(* of the same version, is refused, and the same one changes nothing.       *)
Accepts(version, assigns) ==
    IF policy = NoPolicy THEN version >= floor
    ELSE /\ policy.pairing.tenant = association.pairing.tenant
         /\ \/ version > policy.version
            \/ /\ version = policy.version /\ assigns = policy.assigns
               /\ \/ policy.status = "applying"
                  \/ policy.pairing # association.pairing

(* _apply_signed_gateway_locked: the blocking state is saved first, then    *)
(* the key, then the final state.  An exception or a crash leaves it at     *)
(* "early", before the key, or at "late", after it.                         *)
Written(outcome, assigns) ==
    CASE outcome # "done" -> "applying"
      [] outcome = "done" -> IF assigns THEN "active" ELSE "revoked"

ApplySignedGateway(version, assigns, outcome) ==
    /\ life + 1 < MaxGeneration
    /\ proc = "up"
    /\ IsAssociated
    /\ Accepts(version, assigns)
    /\ policy' = [version |-> version, assigns |-> assigns,
                  pairing |-> association.pairing,
                  status |-> Written(outcome, assigns)]
    /\ credential' = IF outcome = "early" THEN credential
                     ELSE IF assigns THEN version ELSE 0
    /\ LET applying == Authority([policy' EXCEPT !.status = "applying"],
                                 association)
           final == Authority(policy', association)
           first == IF recorded = applying THEN life ELSE life + 1
       IN /\ life' = IF applying = final THEN first ELSE first + 1
          /\ recorded' = final
          /\ pending' = (pending \/ life' # life)
          /\ moved' = (moved \/ {applying, final} # {boot.auth})
    /\ UNCHANGED <<association, floor, handshakes, bootVars, nativeVars, faults>>

(***************************************************************************)
(* The daemon: initialize_process, exec, complete_process_bootstrap.       *)
(***************************************************************************)
Expected == [gen |-> life, auth |-> recorded]

(* reconcile_generation; a local process goes on, another one execs with a  *)
(* sealed receipt of the generation it saw.                                 *)
InitializeProcess ==
    /\ proc = "down"
    /\ Record(Current)
    /\ proc' = IF Current.mode = "local" THEN "confining" ELSE "exec"
    /\ boot' = [gen |-> life', auth |-> recorded']
    /\ latch' = FALSE /\ stopping' = FALSE
    /\ interrupts' = {} /\ interrupted' = {}
    /\ UNCHANGED <<storeVars, at, key, faults>>

(* After the exec the receipt must still be the current generation.         *)
ReadReceipt ==
    /\ proc = "exec"
    /\ proc' = IF boot = Expected THEN "confining" ELSE "down"
    /\ UNCHANGED <<storeVars, lifeVars, boot, latch, stopping, nativeVars,
                   moved, faults>>

(* complete_process_bootstrap with acknowledge_boot: compare and set.       *)
CompleteBootstrap ==
    /\ proc = "confining"
    /\ \/ /\ boot = Expected
          /\ proc' = "up" /\ pending' = FALSE /\ moved' = FALSE
       \/ /\ boot # Expected
          /\ proc' = "down"
          /\ UNCHANGED <<pending, moved>>
    /\ UNCHANGED <<storeVars, life, recorded, boot, latch, stopping,
                   nativeVars, faults>>

(* ProcessAdmission.check: the authority of the boot still stands.          *)
Stands == boot = Expected /\ ~pending

(* Variant: a blocked boot is admitted.                                    *)
Admits_Any == ~latch /\ Stands

Admits == ~latch /\ Stands /\ boot.auth.mode # "blocked"

(* Variant: a refusal closes the latch of a blocked boot too.              *)
Refusal_Closes == latch' = TRUE

(* What a failed check does to the latch: a blocked boot is refused but not *)
(* closed, so that it stays manageable.                                     *)
Refusal == latch' = (latch \/ ~Stands)

(* _handle_sigterm: the latch is closed before the callbacks are collected. *)
HandleSigterm ==
    /\ latch' = TRUE /\ stopping' = TRUE
    /\ interrupted' = interrupted \union interrupts
    /\ interrupts' = {}

(* watch_authority, which allows a blocked boot: every failed check asks    *)
(* for the shutdown.                                                        *)
Watch ==
    /\ proc = "up" /\ ~stopping
    /\ latch \/ ~Stands
    /\ HandleSigterm
    /\ UNCHANGED <<storeVars, lifeVars, proc, boot, at, key, moved, faults>>

(* SIGTERM from outside.                                                    *)
Sigterm ==
    /\ proc = "up" /\ ~stopping /\ faults < MaxFaults
    /\ faults' = faults + 1
    /\ HandleSigterm
    /\ UNCHANGED <<storeVars, lifeVars, proc, boot, at, key, moved>>

(* A check that cannot reach the store closes the latch.                    *)
CheckUnavailable ==
    /\ proc = "up" /\ ~latch /\ faults < MaxFaults
    /\ faults' = faults + 1
    /\ latch' = TRUE
    /\ UNCHANGED <<storeVars, lifeVars, proc, boot, stopping, nativeVars, moved>>

Gone ==
    /\ proc' = "down"
    /\ at' = [t \in Threads |-> "idle"]
    /\ key' = [t \in Threads |-> 0]
    /\ interrupts' = {} /\ interrupted' = {}
    /\ UNCHANGED <<storeVars, lifeVars, boot, latch, stopping, moved>>

(* The loop ends, or ShutdownDeadline ends the process.                     *)
Exit == proc = "up" /\ stopping /\ Gone /\ UNCHANGED faults

DaemonCrash ==
    /\ proc # "down" /\ faults < MaxFaults
    /\ faults' = faults + 1
    /\ Gone

(***************************************************************************)
(* One native turn: _resolve_model_config, the construction of the agent,  *)
(* and run_admitted_native.                                                *)
(***************************************************************************)
At(t, step) == proc = "up" /\ at[t] = step

Goto(t, step) == at' = [at EXCEPT ![t] = step]

(* resolve_managed_config holds the lock: the key read is the one of the    *)
(* policy it checked.                                                       *)
Resolve(t) ==
    /\ \/ At(t, "idle")
       \/ At(t, "delivered")
    /\ Admits
    /\ boot.auth.mode = "managed" => credential # 0
    /\ key' = [key EXCEPT ![t] = IF boot.auth.mode = "managed"
                                 THEN credential ELSE 0]
    /\ Goto(t, "resolved")
    /\ UNCHANGED <<storeVars, lifeVars, bootVars, interrupts, interrupted,
                   moved, faults>>

(* _assert_managed_execution_ready compares the binding once more.          *)
Build(t) ==
    /\ At(t, "resolved")
    /\ Admits
    /\ (key[t] # 0) = (boot.auth.mode = "managed")
    /\ key[t] # 0 => key[t] = credential
    /\ Goto(t, "built")
    /\ UNCHANGED <<storeVars, lifeVars, bootVars, key, interrupts, interrupted,
                   moved, faults>>

(* The worker's first check, ...                                            *)
Check(t) ==
    /\ At(t, "built")
    /\ Admits
    /\ Goto(t, "checked")
    /\ UNCHANGED <<storeVars, lifeVars, bootVars, key, interrupts, interrupted,
                   moved, faults>>

(* ... register_interrupt, under the same gate as close, ...                *)
RegisterInterrupt(t) ==
    /\ At(t, "checked")
    /\ ~latch
    /\ interrupts' = interrupts \union {t}
    /\ Goto(t, "calling")
    /\ UNCHANGED <<storeVars, lifeVars, bootVars, key, interrupted, moved,
                   faults>>

(* ... the native call, ...                                                 *)
NativeReturns(t) ==
    /\ At(t, "calling")
    /\ Goto(t, "returned")
    /\ UNCHANGED <<storeVars, lifeVars, bootVars, key, interrupts, interrupted,
                   moved, faults>>

(* ... the second check, after which the callback is released, ...          *)
Recheck(t) ==
    /\ At(t, "returned")
    /\ Admits
    /\ Goto(t, "ready")
    /\ interrupts' = interrupts \ {t}
    /\ UNCHANGED <<storeVars, lifeVars, bootVars, key, interrupted, moved,
                   faults>>

(* ... and the delivery fence of the event loop, check_process_open.        *)
DeliverResult(t) ==
    /\ At(t, "ready")
    /\ ~latch
    /\ Goto(t, "delivered")
    /\ UNCHANGED <<storeVars, lifeVars, bootVars, key, interrupts, interrupted,
                   moved, faults>>

(* A check that fails, on the way in, in a tool call of the running native  *)
(* turn (_invoke_tool) or on the way out: the turn ends without a result.   *)
ProducerRefused(t) ==
    /\ proc = "up" /\ at[t] \notin {"idle", "delivered"}
    /\ \/ at[t] \in {"resolved", "built", "calling", "returned"} /\ ~Admits
       \/ at[t] \in {"checked", "ready"} /\ latch
    /\ IF at[t] \in {"checked", "ready"} THEN UNCHANGED latch ELSE Refusal
    /\ Goto(t, "idle")
    /\ interrupts' = interrupts \ {t}
    /\ UNCHANGED <<storeVars, lifeVars, proc, boot, stopping, key, interrupted,
                   moved, faults>>

(* A turn that is asked for while the check fails.                          *)
Denied ==
    /\ proc = "up" /\ ~Admits
    /\ Refusal
    /\ UNCHANGED <<storeVars, lifeVars, proc, boot, stopping, nativeVars,
                   moved, faults>>

(* The await is cancelled before the worker starts.                         *)
CancelledEarly(t) ==
    /\ At(t, "built")
    /\ Goto(t, "idle")
    /\ UNCHANGED <<storeVars, lifeVars, bootVars, key, interrupts, interrupted,
                   moved, faults>>

Writer ==
    \/ \E p \in Pairings : BeginPair(p) \/ AbandonPair(p) \/ SavePairing(p)
    \/ MarkRevoked
    \/ Clear
    \/ \E v \in 1 .. MaxVersion : SetLastAppliedVersion(v)
    \/ \E v \in 1 .. MaxVersion, assigns \in BOOLEAN,
          outcome \in {"early", "late", "done"} :
          ApplySignedGateway(v, assigns, outcome)

Daemon ==
    \/ InitializeProcess \/ ReadReceipt \/ CompleteBootstrap
    \/ Watch \/ Sigterm \/ CheckUnavailable \/ Exit \/ DaemonCrash \/ Denied

Turn(t) ==
    \/ Resolve(t) \/ Build(t) \/ Check(t) \/ RegisterInterrupt(t)
    \/ NativeReturns(t) \/ Recheck(t) \/ DeliverResult(t) \/ ProducerRefused(t)
    \/ CancelledEarly(t)

AuthorityNext == Writer \/ Daemon \/ \E t \in Threads : Turn(t)

AuthoritySpec == AuthorityInit /\ [][AuthorityNext]_authorityVars

-----------------------------------------------------------------------------
(* Types.                                                                   *)
Associations == [pairing : Pairings, state : {"active", "revoked"}]

Policies == [version : 1 .. MaxVersion, assigns : BOOLEAN,
             pairing : Pairings, status : {"applying", "active", "revoked"}]

Authorities ==
    [mode : {"local", "managed", "blocked"},
     policy : Policies \union {NoPolicy},
     association : Associations \union {NoPairing}]

(* The rows of the two databases, the receipt the process booted with and   *)
(* the threads of the engine have the values the code writes to them.       *)
AuthorityTypeOK ==
    /\ association \in Associations \union {NoPairing}
    /\ floor \in 0 .. MaxVersion
    /\ handshakes \subseteq Pairings
    /\ policy \in Policies \union {NoPolicy}
    /\ credential \in 0 .. MaxVersion
    /\ life \in 0 .. MaxGeneration
    /\ recorded \in Authorities
    /\ pending \in BOOLEAN
    /\ proc \in {"down", "exec", "confining", "up"}
    /\ boot \in [gen : 0 .. MaxGeneration, auth : Authorities]
    /\ latch \in BOOLEAN /\ stopping \in BOOLEAN
    /\ at \in [Threads -> Steps]
    /\ key \in [Threads -> 0 .. MaxVersion]
    /\ interrupts \subseteq Threads
    /\ interrupted \subseteq Threads
    /\ moved \in BOOLEAN
    /\ faults \in 0 .. MaxFaults

(* The key a stored authority assigns: of its policy's version, or the      *)
(* owner's own (0) for a local one.                                         *)
Assigned(auth) == IF auth.mode = "managed" THEN auth.policy.version ELSE 0

(* Partial failure: the policy is "active" only with the key of its own     *)
(* version in the provider row.  A step of _apply_signed_gateway_locked     *)
(* that fails, or a crash in the middle of it, leaves "applying", and so    *)
(* does a retry that fails again.                                           *)
ActiveIsComplete ==
    Current.mode = "managed" => credential = policy.version

(* A turn that the worker handed to the event loop ran, from its first      *)
(* check to its last, on the key the authority of the boot assigns, and     *)
(* never under a blocked one, whatever was paired, assigned, revoked or     *)
(* unpaired meanwhile (run_admitted_native).                                *)
ProducedUnderBoot ==
    \A t \in Threads : at[t] \in {"ready", "delivered"} =>
        /\ boot.auth.mode # "blocked"
        /\ key[t] = Assigned(boot.auth)

(* "A process cannot resume after authority changes, even if it changes     *)
(* back" (ProcessAdmission): once the stored authority has differed from    *)
(* the one of the boot, no turn passes a check again in this process.       *)
LossIsFinal ==
    [][(proc = "up" /\ moved) =>
         \A t \in Threads :
            at'[t] \in {"resolved", "built", "checked", "ready"} =>
                at[t] = at'[t]]_authorityVars

(* Shutdown reaches every native call: a call that is running after         *)
(* _handle_sigterm collected the callbacks was among them, since            *)
(* register_interrupt refuses once the latch is closed.                     *)
ShutdownReachesCalls ==
    stopping => \A t \in Threads : at[t] = "calling" => t \in interrupted

(* The daemon starts again after every end (its unit restarts it), and its  *)
(* own steps are not delayed for ever.                                      *)
DaemonStep == InitializeProcess \/ ReadReceipt \/ CompleteBootstrap \/ Watch \/ Exit

AuthorityFairness == WF_authorityVars(DaemonStep)

(* Once nothing writes the authority any more, a daemon that has begun to   *)
(* start settles: it is up under the generation in force and stays,         *)
(* "denying work must not produce an endless restart loop" included.        *)
DaemonSettles == proc # "down" ~> [](proc = "up" /\ ~stopping /\ Stands)

\* No turn is produced under an authority other than the one of the boot, and
\* none outlives a shutdown (ProcessAdmission).
AuthoritySafe ==
    /\ AuthorityTypeOK /\ ActiveIsComplete /\ ProducedUnderBoot
    /\ ShutdownReachesCalls
=============================================================================
