----------------------------- MODULE PolicySync -----------------------------
(***************************************************************************)
(* One tick of hermes-config-sync (config_sync/__main__.py) and the        *)
(* PolicyApplier it drives: the pairing is read, the signed bundle fetched *)
(* and verified, its sections applied one D-Bus call after the other, and  *)
(* only then last_applied_version and the license recorded.  The process   *)
(* can die at any call, a call can fail, and meanwhile the owner, in other *)
(* processes, pairs and unpairs, edits agents and grants domains.          *)
(***************************************************************************)
EXTENDS Integers, Sequences, FiniteSets

CONSTANTS
    Tenants, NoTenant,
    CloudAgents,    \* agent_template ids
    Servers,        \* MCP servers
    Verdict,        \* what the Security Center says of a server
    Domains,
    Bundle,         \* of a tenant: its versions, [agents, servers, domains] each
    MaxPairs,       \* bound: pairings
    MaxLosses       \* bound: crashes and calls that fail

Newest(t) == Len(Bundle[t])

Versions(t) == 1 .. Newest(t)

ASSUME SyncAssumption ==
    /\ NoTenant \notin Tenants
    /\ {MaxPairs, MaxLosses} \subseteq Nat
    /\ \A t \in Tenants : Newest(t) \in Nat \ {0}
    /\ \A t \in Tenants : \A v \in Versions(t) :
          Bundle[t][v] \in [agents : SUBSET CloudAgents, servers : SUBSET Servers,
                            domains : SUBSET Domains]
    /\ \A s \in Servers : Verdict[s] \in {"PASS", "WARN", "FAIL"}

VARIABLES
    tenant,         \* the pairing: whose it is, NoTenant when there is none
    lastApplied,    \* its last_applied_version
    license,        \* version whose license it holds
    published,      \* newest version of every tenant at the cloud
    roster,         \* cloud-managed agents of the registry: [of, at] or NoAgent
    servers,        \* MCP servers installed
    grants,         \* egress-grants.json
    edit,           \* the grants the owner's REST handler has loaded, not saved
    draft,          \* the grants the daemon's add_egress_domain has loaded
    owned,          \* history: domains the owner has granted
    crossed,        \* history: two writers of egress-grants.json overlapped
    tick,           \* the step of the tick
    snap,           \* what it read: [tenant, lastApplied, version]
    managed,        \* cloud_managed of its list_agents
    failed,         \* ApplyResult.failed is not empty
    blind,          \* history: list_agents failed in this tick
    left,           \* entities of the section still to apply
    pairs, losses   \* counters of the bounds

pairVars == <<tenant, lastApplied, license, published>>

daemonVars == <<roster, servers, grants, draft, owned, crossed>>

tickVars == <<tick, snap, managed, failed, blind, left>>

syncVars == <<pairVars, daemonVars, edit, tickVars, pairs, losses>>

NoAgent == [of |-> NoTenant, at |-> 0]

Content == Bundle[snap.tenant][snap.version]

SyncInit ==
    /\ tenant = NoTenant /\ lastApplied = 0 /\ license = 0
    /\ published = [t \in Tenants |-> 0]
    /\ roster = [a \in CloudAgents |-> NoAgent]
    /\ servers = {} /\ grants = {}
    /\ edit = {} /\ draft = {} /\ owned = {} /\ crossed = FALSE
    /\ tick = "idle"
    /\ snap = [tenant |-> NoTenant, lastApplied |-> 0, version |-> 0]
    /\ managed = {} /\ failed = FALSE /\ blind = FALSE /\ left = {}
    /\ pairs = 0 /\ losses = 0

(***************************************************************************)
(* Around the tick.                                                        *)
(***************************************************************************)
PublishVersion(t) ==
    /\ published[t] < Newest(t)
    /\ published' = [published EXCEPT ![t] = @ + 1]
    /\ UNCHANGED <<tenant, lastApplied, license, daemonVars, edit, tickVars, pairs,
                   losses>>

(* PairingService.pair ends in save: the version starts again at 0.         *)
PairWith(t) ==
    /\ tenant = NoTenant /\ pairs < MaxPairs
    /\ pairs' = pairs + 1
    /\ tenant' = t /\ lastApplied' = 0 /\ license' = 0
    /\ UNCHANGED <<published, daemonVars, edit, tickVars, losses>>

Unpair ==
    /\ tenant # NoTenant
    /\ tenant' = NoTenant /\ lastApplied' = 0 /\ license' = 0
    /\ UNCHANGED <<published, daemonVars, edit, tickVars, pairs, losses>>

(* The owner removes a cloud agent with the daemon's own verb.              *)
OwnerDeletes(a) ==
    /\ roster[a] # NoAgent
    /\ roster' = [roster EXCEPT ![a] = NoAgent]
    /\ UNCHANGED <<pairVars, servers, grants, draft, owned, crossed, edit, tickVars,
                   pairs, losses>>

(* grant of egress_api: the shell-server loads the file, ...                *)
LoadGrants(d) ==
    /\ edit = {} /\ d \notin owned
    /\ edit' = grants \union {d}
    /\ owned' = owned \union {d}
    /\ crossed' = (crossed \/ draft # {})
    /\ UNCHANGED <<pairVars, roster, servers, grants, draft, tickVars, pairs,
                   losses>>

(* ... and writes it.  Nothing locks it against the daemon's writer.        *)
SaveGrants ==
    /\ edit # {}
    /\ grants' = edit
    /\ edit' = {}
    /\ UNCHANGED <<pairVars, roster, servers, draft, owned, crossed, tickVars, pairs,
                   losses>>

(***************************************************************************)
(* _sync_once.                                                             *)
(***************************************************************************)
Section(step, entities) == tick' = step /\ left' = entities

(* store.get, the fetch with the secret of that pairing, and the checks of  *)
(* signature, tenant and freshness, all against the values just read; the   *)
(* anti-rollback gate compares with the version read.                       *)
Pull ==
    /\ tick = "idle"
    /\ tenant # NoTenant
    /\ published[tenant] > lastApplied
    /\ snap' = [tenant |-> tenant, lastApplied |-> lastApplied,
                version |-> published[tenant]]
    /\ failed' = FALSE /\ blind' = FALSE /\ managed' = {}
    /\ Section("mcp", Bundle[tenant][snap'.version].servers \ servers)
    /\ UNCHANGED <<pairVars, daemonVars, edit, pairs, losses>>

(* A call to the daemon fails: _call_mutator answers ok = False, and the    *)
(* section records the entity as failed.                                    *)
CallFails ==
    /\ losses < MaxLosses
    /\ losses' = losses + 1
    /\ failed' = TRUE

(* Variant: a permanent rejection counts as failed.                        *)
ApplyServer_Retries(s) ==
    /\ tick = "mcp" /\ s \in left
    /\ left' = left \ {s}
    /\ \/ /\ servers' = IF Verdict[s] = "FAIL" THEN servers
                        ELSE servers \union {s}
          /\ failed' = (failed \/ Verdict[s] = "FAIL")
          /\ UNCHANGED losses
       \/ UNCHANGED servers /\ CallFails
    /\ UNCHANGED <<pairVars, roster, grants, draft, owned, crossed, edit, tick,
                   snap, managed, blind, pairs>>

(* _apply_one_mcp_server: a WARN is forced, a FAIL is rejected for good and *)
(* does not count as failed.                                                *)
ApplyServer(s) ==
    /\ tick = "mcp" /\ s \in left
    /\ left' = left \ {s}
    /\ \/ /\ servers' = IF Verdict[s] = "FAIL" THEN servers
                        ELSE servers \union {s}
          /\ UNCHANGED <<failed, losses>>
       \/ UNCHANGED servers /\ CallFails
    /\ UNCHANGED <<pairVars, roster, grants, draft, owned, crossed, edit, tick, snap,
                   managed, blind, pairs>>

(* _fetch_agents: a failure reads as an empty roster.                       *)
ListAgents ==
    /\ tick = "mcp" /\ left = {}
    /\ Section("agents", Content.agents)
    /\ \/ /\ managed' = {a \in CloudAgents : roster[a] # NoAgent}
          /\ UNCHANGED <<blind, losses>>
       \/ /\ losses < MaxLosses /\ losses' = losses + 1
          /\ managed' = {} /\ blind' = TRUE
    /\ UNCHANGED <<pairVars, daemonVars, edit, snap, failed, pairs>>

(* _upsert_agent: update_agent of one that is gone fails, and create_agent  *)
(* of one that exists.                                                      *)
UpsertAgent(a) ==
    /\ tick = "agents" /\ a \in left
    /\ left' = left \ {a}
    /\ \/ /\ (a \in managed) = (roster[a] # NoAgent)
          /\ roster' = [roster EXCEPT ![a] = [of |-> snap.tenant,
                                              at |-> snap.version]]
          /\ UNCHANGED <<failed, losses>>
       \/ /\ (a \in managed) # (roster[a] # NoAgent)
          /\ failed' = TRUE
          /\ UNCHANGED <<roster, losses>>
       \/ UNCHANGED roster /\ CallFails
    /\ UNCHANGED <<pairVars, servers, grants, draft, owned, crossed, edit, tick, snap,
                   managed, blind, pairs>>

(* _apply_egress lists once and adds what is missing ...                    *)
ListGrants ==
    /\ tick = "agents" /\ left = {}
    /\ Section("egress", Content.domains \ grants)
    /\ UNCHANGED <<pairVars, daemonVars, edit, snap, managed, failed, blind,
                   pairs, losses>>

(* ... through add_egress_domain, which loads the file and saves it; the    *)
(* shell-server can write it in between.                                    *)
LoadDraft(d) ==
    /\ tick = "egress" /\ d \in left /\ draft = {}
    /\ \/ /\ d \in grants
          /\ left' = left \ {d}
          /\ UNCHANGED <<draft, crossed, failed, losses>>
       \/ /\ d \notin grants
          /\ draft' = grants \union {d}
          /\ crossed' = (crossed \/ edit # {})
          /\ UNCHANGED <<failed, losses, left>>
       \/ left' = left \ {d} /\ UNCHANGED <<draft, crossed>> /\ CallFails
    /\ UNCHANGED <<pairVars, roster, servers, grants, owned, edit, tick, snap,
                   managed, blind, pairs>>

SaveDraft ==
    /\ draft # {}
    /\ grants' = draft
    /\ draft' = {}
    /\ left' = IF tick = "egress" THEN left \ grants' ELSE left
    /\ UNCHANGED <<pairVars, roster, servers, owned, crossed, edit, tick, snap,
                   managed, failed, blind, pairs, losses>>

(* Variant: deletes follow a failed upsert too.                            *)
BeginDeletes_Always ==
    /\ tick = "egress" /\ left = {} /\ draft = {}
    /\ Section("delete", managed \ Content.agents)
    /\ UNCHANGED <<pairVars, daemonVars, edit, snap, managed, failed, blind,
                   pairs, losses>>

(* Phase 2 of apply, only when no upsert failed.                            *)
BeginDeletes ==
    /\ tick = "egress" /\ left = {} /\ draft = {}
    /\ IF failed THEN Section("idle", {})
       ELSE Section("delete", managed \ Content.agents)
    /\ UNCHANGED <<pairVars, daemonVars, edit, snap, managed, failed, blind,
                   pairs, losses>>

(* delete_agent of one that is gone fails too.                              *)
DeleteStale(a) ==
    /\ tick = "delete" /\ a \in left
    /\ left' = left \ {a}
    /\ \/ /\ roster' = [roster EXCEPT ![a] = NoAgent]
          /\ failed' = (failed \/ roster[a] = NoAgent)
          /\ UNCHANGED losses
       \/ UNCHANGED roster /\ CallFails
    /\ UNCHANGED <<pairVars, servers, grants, draft, owned, crossed, edit, tick, snap,
                   managed, blind, pairs>>

(* set_last_applied_version: of the row that is there now, if it is lower.  *)
Advance ==
    /\ tick = "delete" /\ left = {}
    /\ IF failed
       THEN Section("idle", {}) /\ UNCHANGED lastApplied
       ELSE /\ Section("license", {})
            /\ lastApplied' = IF tenant # NoTenant /\ lastApplied < snap.version
                          THEN snap.version ELSE lastApplied
    /\ UNCHANGED <<tenant, license, published, daemonVars, edit, snap, managed,
                   failed, blind, pairs, losses>>

(* update_license, a transaction of its own.                                *)
UpdateLicense ==
    /\ tick = "license"
    /\ license' = IF tenant # NoTenant THEN snap.version ELSE license
    /\ Section("idle", {})
    /\ UNCHANGED <<tenant, lastApplied, published, daemonVars, edit, snap, managed,
                   failed, blind, pairs, losses>>

(* The process dies, or a list call raises out of apply.                    *)
Abort ==
    /\ tick # "idle" /\ losses < MaxLosses
    /\ losses' = losses + 1
    /\ Section("idle", {})
    /\ UNCHANGED <<pairVars, daemonVars, edit, snap, managed, failed, blind,
                   pairs>>

TickStep ==
    \/ Pull \/ ListAgents \/ ListGrants \/ BeginDeletes \/ Advance
    \/ UpdateLicense
    \/ \E s \in Servers : ApplyServer(s)
    \/ \E a \in CloudAgents : UpsertAgent(a) \/ DeleteStale(a)
    \/ \E d \in Domains : LoadDraft(d)
    \/ SaveDraft

Owner ==
    \/ \E t \in Tenants : PairWith(t)
    \/ Unpair
    \/ \E a \in CloudAgents : OwnerDeletes(a)
    \/ \E d \in Domains : LoadGrants(d)
    \/ SaveGrants

SyncNext == TickStep \/ Abort \/ Owner \/ \E t \in Tenants : PublishVersion(t)

SyncSpec == SyncInit /\ [][SyncNext]_syncVars

-----------------------------------------------------------------------------
(* The pairing, the tick and what the daemon holds: no agent is of a version*)
(* the control plane did not publish.                                       *)
SyncTypeOK ==
    /\ tenant \in Tenants \union {NoTenant}
    /\ lastApplied \in Nat /\ license \in Nat
    /\ \A t \in Tenants : published[t] \in 0 .. Newest(t)
    /\ \A a \in CloudAgents :
          \/ roster[a] = NoAgent
          \/ roster[a].of \in Tenants /\ roster[a].at \in Versions(roster[a].of)
    /\ servers \subseteq Servers
    /\ {grants, edit, draft, owned} \subseteq SUBSET Domains
    /\ tick \in {"idle", "mcp", "agents", "egress", "delete", "license"}
    /\ tick # "idle" => snap.tenant \in Tenants
                        /\ snap.version \in Versions(snap.tenant)
    /\ left = {} \/ tick \in {"mcp", "agents", "egress", "delete"}
    /\ managed \subseteq CloudAgents
    /\ {failed, blind, crossed} \subseteq BOOLEAN
    /\ pairs \in 0 .. MaxPairs /\ losses \in 0 .. MaxLosses

Installed(bundle) ==
    /\ {s \in bundle.servers : Verdict[s] # "FAIL"} \subseteq servers
    /\ \A a \in bundle.agents :
          roster[a] \in {[of |-> snap.tenant, at |-> snap.version], NoAgent}
    /\ crossed \/ bundle.domains \subseteq grants

(* Partial failure: stale agents are deleted only after every upsert of the *)
(* bundle landed (P1-4), whatever calls failed in this tick or the ones     *)
(* before it.  An agent the owner has deleted since may be gone.            *)
DeletesAfterUpserts == tick = "delete" => Installed(Content)

(* When last_applied_version moves, the whole bundle is in force: its       *)
(* servers but for the ones the Security Center refuses, its agents at this *)
(* version, its domains, and no cloud agent besides its own.  The last part *)
(* needs the list_agents of the tick to have answered: a failure reads as   *)
(* an empty roster, and the stale agents stay until the next version.       *)
AdvancedIsApplied ==
    tick = "license" =>
        /\ Installed(Content)
        /\ blind \/ \A a \in CloudAgents \ Content.agents : roster[a] = NoAgent

(* A server with a FAIL verdict is never installed by a bundle, the retry   *)
(* with force=True of _retry_mcp_bundle_warn_override included.             *)
RejectedStaysOut == \A s \in servers : Verdict[s] # "FAIL"

(* "Never removes owner domains": the file holds every domain the owner     *)
(* granted, unless the shell-server and the daemon wrote it at the same     *)
(* time; the two load and save it without a lock.                           *)
OwnerGrantsKept == crossed \/ owned \subseteq grants \union edit

(* The loop of _run_loop ticks for ever, and the daemon ends its call.      *)
SyncFairness == WF_syncVars(TickStep)

(* No bundle blocks the loop: once the owner leaves the pairing and the     *)
(* agents alone and calls stop failing, the pairing gets to the version the *)
(* cloud publishes, refused servers or not.                                 *)
Converges ==
    <>[][~Owner]_syncVars =>
        <>[](tenant = NoTenant \/ lastApplied >= published[tenant])

\* A bundle is applied in an order that a failure in the middle cannot turn
\* into a loss, and its version is recorded only when it is in force.
SyncSafe ==
    /\ SyncTypeOK /\ DeletesAfterUpserts /\ AdvancedIsApplied
    /\ RejectedStaysOut /\ OwnerGrantsKept
=============================================================================
