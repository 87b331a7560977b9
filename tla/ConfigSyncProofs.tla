-------------------------- MODULE ConfigSyncProofs --------------------------
(***************************************************************************)
(* Proofs about the process config_sync: for every set of tenants, bundles *)
(* and events, and every number of crashes and failed calls, the version   *)
(* of a policy is recorded only when its bundle is in force, and a usage   *)
(* event is counted again only when an answer was lost.                    *)
(***************************************************************************)
EXTENDS PolicySync, UsageMetering, TLAPS

(***************************************************************************)
(* Policy sync.                                                            *)
(***************************************************************************)
AgentRows ==
    {r \in [of : Tenants, at : Nat] : r.at \in Versions(r.of)} \union {NoAgent}

PairTypes ==
    /\ tenant \in Tenants \union {NoTenant}
    /\ lastApplied \in Nat /\ license \in Nat
    /\ published \in [Tenants -> Nat]
    /\ \A t \in Tenants : published[t] \in 0 .. Newest(t)

HeldTypes ==
    /\ roster \in [CloudAgents -> AgentRows]
    /\ servers \subseteq Servers
    /\ grants \subseteq Domains /\ edit \subseteq Domains
    /\ draft \subseteq Domains /\ owned \subseteq Domains
    /\ crossed \in BOOLEAN

TickTypes ==
    /\ tick \in {"idle", "mcp", "agents", "egress", "delete", "license"}
    /\ tick # "idle" => snap.tenant \in Tenants
                        /\ snap.version \in Versions(snap.tenant)
    /\ left = {} \/ tick \in {"mcp", "agents", "egress", "delete"}
    /\ managed \subseteq CloudAgents
    /\ failed \in BOOLEAN /\ blind \in BOOLEAN

CountTypes == pairs \in 0 .. MaxPairs /\ losses \in 0 .. MaxLosses

(* What of the bundle is in force, but for what its section has yet to do. *)
ServersDone ==
    \A s \in Content.servers :
        Verdict[s] = "FAIL" \/ s \in servers \/ (tick = "mcp" /\ s \in left)

AgentsDone ==
    \A a \in Content.agents :
        \/ roster[a] = [of |-> snap.tenant, at |-> snap.version]
        \/ roster[a] = NoAgent
        \/ tick = "agents" /\ a \in left

DomainsDone ==
    crossed \/ \A d \in Content.domains :
                   d \in grants \/ (tick = "egress" /\ d \in left)

(* A section is done when the next one begins, unless something failed;    *)
(* nothing failed when the deletes begin.                                  *)
SectionsInv ==
    /\ tick \in {"mcp", "agents", "egress"} => failed \/ ServersDone
    /\ tick \in {"agents", "egress"} => failed \/ AgentsDone
    /\ tick = "egress" => failed \/ DomainsDone
    /\ tick \in {"delete", "license"} => ServersDone /\ AgentsDone /\ DomainsDone

(* The agents to upsert are the bundle's; the stale ones are among those   *)
(* listed, then among those to delete.                                     *)
StaleInv ==
    /\ tick = "agents" => left \subseteq Content.agents
    /\ tick \in {"agents", "egress"} =>
          blind \/ \A a \in CloudAgents : \/ roster[a] = NoAgent
                                          \/ a \in managed \/ a \in Content.agents
    /\ tick = "delete" =>
          blind \/ failed
          \/ \A a \in CloudAgents : \/ roster[a] = NoAgent
                                    \/ a \in left \/ a \in Content.agents
    /\ tick = "license" =>
          blind \/ \A a \in CloudAgents : roster[a] = NoAgent \/ a \in Content.agents

(* Two writers that do not overlap each hold what the file has.            *)
WritersInv ==
    /\ crossed \/ edit = {} \/ draft = {}
    /\ crossed \/ edit = {} \/ grants \subseteq edit
    /\ crossed \/ draft = {} \/ grants \subseteq draft
    /\ tick \in {"delete", "license"} => draft = {}
    /\ OwnerGrantsKept

SyncTypes == PairTypes /\ HeldTypes /\ TickTypes /\ CountTypes

SyncInv == SyncTypes /\ SectionsInv /\ StaleInv /\ WritersInv /\ RejectedStaysOut

LEMMA VersionFacts ==
    ASSUME SyncAssumption, NEW t \in Tenants
    PROVE  /\ Newest(t) \in Nat
           /\ 0 \in 0 .. Newest(t)
           /\ \A v \in Versions(t) : v \in Nat
           /\ \A n \in 0 .. Newest(t) : n < Newest(t) => n + 1 \in 0 .. Newest(t)
           /\ \A n \in 0 .. Newest(t), k \in Nat : n > k => n \in Versions(t)
  <1>1. Newest(t) \in Nat \ {0}
    BY Zenon DEF SyncAssumption
  <1> QED  BY <1>1 DEF Versions

LEMMA BundleFacts ==
    ASSUME SyncAssumption, NEW t \in Tenants, NEW v \in Versions(t)
    PROVE  /\ Bundle[t][v].agents \subseteq CloudAgents
           /\ Bundle[t][v].servers \subseteq Servers
           /\ Bundle[t][v].domains \subseteq Domains
  <1>1. Bundle[t][v] \in [agents : SUBSET CloudAgents, servers : SUBSET Servers,
                          domains : SUBSET Domains]
    BY Zenon DEF SyncAssumption
  <1> QED  BY <1>1, Zenon

LEMMA LossTyped ==
    ASSUME SyncAssumption, losses \in 0 .. MaxLosses, losses < MaxLosses,
           losses' = losses + 1
    PROVE  losses' \in 0 .. MaxLosses
  BY DEF SyncAssumption

LEMMA PairCountTyped ==
    ASSUME SyncAssumption, pairs \in 0 .. MaxPairs, pairs < MaxPairs,
           pairs' = pairs + 1
    PROVE  pairs' \in 0 .. MaxPairs
  BY DEF SyncAssumption

LEMMA SyncInitially ==
    ASSUME SyncAssumption, SyncInit
    PROVE  SyncInv
  <1>1. 0 \in Nat /\ 0 \in 0 .. MaxPairs /\ 0 \in 0 .. MaxLosses
    BY DEF SyncAssumption
  <1>2. PairTypes
    <2>1. \A t \in Tenants : 0 \in 0 .. Newest(t)
      BY VersionFacts, Zenon
    <2> QED  BY <1>1, <2>1, Zenon DEF SyncInit, PairTypes
  <1>3. HeldTypes
    BY Zenon DEF SyncInit, HeldTypes, AgentRows
  <1>4. TickTypes /\ CountTypes
    BY <1>1, Zenon DEF SyncInit, TickTypes, CountTypes
  <1>5. SectionsInv /\ StaleInv /\ WritersInv /\ RejectedStaysOut
    BY Zenon DEF SyncInit, SectionsInv, StaleInv, WritersInv, RejectedStaysOut,
                 OwnerGrantsKept
  <1> QED  BY <1>2, <1>3, <1>4, <1>5, Zenon DEF SyncInv, SyncTypes

(* Pairing, unpairing and publishing touch nothing else.                   *)
LEMMA PairingStep ==
    ASSUME SyncAssumption, SyncInv,
           Unpair \/ \E t \in Tenants : PairWith(t) \/ PublishVersion(t)
    PROVE  SyncInv'
  <1> USE DEF SyncInv, SyncTypes
  <1>1. UNCHANGED <<daemonVars, edit, tickVars, losses>>
    BY Zenon DEF Unpair, PairWith, PublishVersion
  <1>2. UNCHANGED <<roster, servers, grants, draft, owned, crossed, edit, tick, snap,
                    managed, failed, blind, left, losses>>
    BY <1>1, Zenon DEF daemonVars, tickVars
  <1>3. HeldTypes' /\ TickTypes' /\ RejectedStaysOut'
    BY <1>2, Zenon DEF HeldTypes, TickTypes, RejectedStaysOut
  <1>4. SectionsInv'
    BY <1>2, Zenon DEF SectionsInv, ServersDone, AgentsDone, DomainsDone, Content
  <1>5. StaleInv'
    BY <1>2, Zenon DEF StaleInv, Content
  <1>6. WritersInv'
    BY <1>2, Zenon DEF WritersInv, OwnerGrantsKept
  <1>7. pairs' \in 0 .. MaxPairs
    BY PairCountTyped, Zenon DEF CountTypes, Unpair, PairWith, PublishVersion
  <1>8. PairTypes'
    <2>0. 0 \in Nat
      OBVIOUS
    <2>1. CASE Unpair \/ \E t \in Tenants : PairWith(t)
      BY <2>0, <2>1, Zenon DEF PairTypes, Unpair, PairWith
    <2>2. ASSUME NEW t \in Tenants, PublishVersion(t) PROVE PairTypes'
      <3>1. published[t] \in 0 .. Newest(t) /\ published[t] < Newest(t)
        BY <2>2, Zenon DEF PairTypes, PublishVersion
      <3>2. published[t] + 1 \in 0 .. Newest(t) /\ published[t] + 1 \in Nat
        <4>1. published[t] + 1 \in 0 .. Newest(t)
          BY <3>1, VersionFacts, Zenon
        <4>2. published[t] \in Nat
          BY Zenon DEF PairTypes
        <4> QED  BY <4>1, <4>2
      <3>3. published' = [published EXCEPT ![t] = published[t] + 1]
        BY <2>2, Zenon DEF PublishVersion
      <3> QED  BY <2>2, <3>2, <3>3, Zenon DEF PairTypes, PublishVersion
    <2> QED  BY <2>1, <2>2, Zenon
  <1> QED  BY <1>2, <1>3, <1>4, <1>5, <1>6, <1>7, <1>8, Zenon DEF CountTypes

(* While a tick runs, its bundle is one of a tenant's versions.            *)
LEMMA ContentFacts ==
    ASSUME SyncAssumption, TickTypes, tick # "idle"
    PROVE  Content.agents \subseteq CloudAgents
  <1>1. snap.tenant \in Tenants /\ snap.version \in Versions(snap.tenant)
    BY Zenon DEF TickTypes
  <1> QED  BY <1>1, BundleFacts, Zenon DEF Content

(* Steps within a section keep what it and the ones before it have done: an *)
(* entity leaves the section when it is in force, or something failed.     *)
LEMMA WithinSection ==
    ASSUME SyncAssumption, SyncInv, UNCHANGED <<tick, snap>>,
           failed => failed', crossed => crossed',
           servers \subseteq servers',
           \A a \in CloudAgents :
              \/ roster'[a] \in {roster[a], NoAgent}
              \/ roster'[a] = [of |-> snap.tenant, at |-> snap.version],
           crossed' \/ grants \subseteq grants',
           \A x \in left \ left' :
              \/ failed' \/ tick = "delete"
              \/ tick = "mcp" /\ (x \in servers' \/ Verdict[x] = "FAIL")
              \/ tick = "agents"
                 /\ roster'[x] = [of |-> snap.tenant, at |-> snap.version]
              \/ tick = "egress" /\ (crossed' \/ x \in grants')
    PROVE  SectionsInv'
  <1> USE DEF SyncInv, SyncTypes
  <1>0. Content' = Content
    BY Zenon DEF Content
  <1>1. ASSUME ServersDone, failed' \/ tick \in {"agents", "egress", "delete", "license"}
                            \/ tick = "mcp"
        PROVE  failed' \/ ServersDone'
    BY <1>0, <1>1, Zenon DEF ServersDone
  <1>2. ASSUME ServersDone, tick \in {"delete", "license"}
        PROVE  ServersDone'
    BY <1>0, <1>2, Zenon DEF ServersDone
  <1>3. ASSUME AgentsDone, tick \in {"agents", "egress"}
        PROVE  failed' \/ AgentsDone'
    <2>1. Content.agents \subseteq CloudAgents
      BY <1>3, ContentFacts, Zenon
    <2> QED  BY <1>0, <1>3, <2>1, Zenon DEF AgentsDone
  <1>4. ASSUME AgentsDone, tick \in {"delete", "license"}
        PROVE  AgentsDone'
    <2>1. Content.agents \subseteq CloudAgents
      BY <1>4, ContentFacts, Zenon
    <2> QED  BY <1>0, <1>4, <2>1, Zenon DEF AgentsDone
  <1>5. ASSUME DomainsDone, tick = "egress"
        PROVE  failed' \/ DomainsDone'
    BY <1>0, <1>5, Zenon DEF DomainsDone
  <1>6. ASSUME DomainsDone, tick \in {"delete", "license"}
        PROVE  DomainsDone'
    BY <1>0, <1>6, Zenon DEF DomainsDone
  <1> QED  BY <1>1, <1>2, <1>3, <1>4, <1>5, <1>6, Zenon DEF SectionsInv

(* ... and the stale agents where they were.                               *)
LEMMA StaleWithin ==
    ASSUME SyncInv, UNCHANGED <<tick, snap, managed, blind>>, failed => failed',
           left' \subseteq left,
           \A a \in CloudAgents :
              roster'[a] \in {roster[a], NoAgent} \/ a \in Content.agents,
           \A x \in left \ left' : failed' \/ tick # "delete" \/ roster'[x] = NoAgent
    PROVE  StaleInv'
  <1>0. Content' = Content
    BY Zenon DEF Content
  <1> QED  BY <1>0, Zenon DEF SyncInv, StaleInv

(* The owner's agents and grants.                                          *)
LEMMA OwnerStep ==
    ASSUME SyncAssumption, SyncInv,
           \/ \E a \in CloudAgents : OwnerDeletes(a)
           \/ \E d \in Domains : LoadGrants(d)
           \/ SaveGrants
    PROVE  SyncInv'
  <1> USE DEF SyncInv, SyncTypes
  <1>1. UNCHANGED <<tenant, lastApplied, license, published, servers, draft, tick, snap,
                    managed, failed, blind, left, pairs, losses>>
    BY Zenon DEF OwnerDeletes, LoadGrants, SaveGrants, pairVars, tickVars
  <1>2. PairTypes' /\ TickTypes' /\ CountTypes' /\ RejectedStaysOut'
    BY <1>1, Zenon DEF PairTypes, TickTypes, CountTypes, RejectedStaysOut
  <1>3. ASSUME NEW a \in CloudAgents, OwnerDeletes(a)
        PROVE  /\ HeldTypes' /\ WritersInv' /\ (crossed => crossed')
               /\ crossed' \/ grants \subseteq grants'
               /\ \A b \in CloudAgents : roster'[b] \in {roster[b], NoAgent}
    <2>1. /\ roster' = [roster EXCEPT ![a] = NoAgent]
          /\ UNCHANGED <<grants, edit, owned, crossed>>
      BY <1>3, Zenon DEF OwnerDeletes
    <2>2. roster' \in [CloudAgents -> AgentRows]
      BY <2>1, Zenon DEF HeldTypes, AgentRows
    <2>3. \A b \in CloudAgents : roster'[b] \in {roster[b], NoAgent}
      BY <2>1, Zenon DEF HeldTypes
    <2>4. WritersInv'
      BY <1>1, <2>1, Zenon DEF WritersInv, OwnerGrantsKept
    <2> QED  BY <1>1, <2>1, <2>2, <2>3, <2>4, Zenon DEF HeldTypes
  <1>4. ASSUME NEW d \in Domains, LoadGrants(d)
        PROVE  /\ HeldTypes' /\ WritersInv' /\ (crossed => crossed')
               /\ crossed' \/ grants \subseteq grants'
               /\ \A b \in CloudAgents : roster'[b] \in {roster[b], NoAgent}
    <2>1. /\ edit = {} /\ edit' = grants \union {d} /\ owned' = owned \union {d}
          /\ crossed' = (crossed \/ draft # {})
          /\ UNCHANGED <<grants, roster>>
      BY <1>4, Zenon DEF LoadGrants
    <2>2. crossed' \in BOOLEAN
      BY <2>1, Zenon
    <2>3. HeldTypes'
      BY <1>1, <2>1, <2>2, Zenon DEF HeldTypes
    <2>4. OwnerGrantsKept'
      BY <2>1, Zenon DEF WritersInv, OwnerGrantsKept
    <2> QED  BY <1>1, <2>1, <2>3, <2>4, Zenon DEF WritersInv
  <1>5. ASSUME SaveGrants
        PROVE  /\ HeldTypes' /\ WritersInv' /\ (crossed => crossed')
               /\ crossed' \/ grants \subseteq grants'
               /\ \A b \in CloudAgents : roster'[b] \in {roster[b], NoAgent}
    <2>1. /\ edit # {} /\ grants' = edit /\ edit' = {}
          /\ UNCHANGED <<roster, owned, crossed>>
      BY <1>5, Zenon DEF SaveGrants
    <2>2. HeldTypes'
      BY <1>1, <2>1, Zenon DEF HeldTypes
    <2>3. crossed \/ grants \subseteq grants'
      BY <2>1, Zenon DEF WritersInv
    <2>4. OwnerGrantsKept'
      BY <2>1, <2>3, Zenon DEF WritersInv, OwnerGrantsKept
    <2> QED  BY <1>1, <2>1, <2>2, <2>3, <2>4, Zenon DEF WritersInv
  <1>6. /\ HeldTypes' /\ WritersInv' /\ (crossed => crossed')
        /\ crossed' \/ grants \subseteq grants'
        /\ \A b \in CloudAgents : roster'[b] \in {roster[b], NoAgent}
    BY <1>3, <1>4, <1>5, Zenon
  <1>7. SectionsInv'
    BY <1>1, <1>6, WithinSection, Zenon
  <1>8. StaleInv'
    BY <1>1, <1>6, StaleWithin, Zenon
  <1> QED  BY <1>2, <1>6, <1>7, <1>8, Zenon

(* The calls of the sections.                                              *)
LEMMA ServerStep ==
    ASSUME SyncAssumption, SyncInv, NEW s \in Servers, ApplyServer(s)
    PROVE  SyncInv'
  <1> USE DEF SyncInv, SyncTypes
  <1>1. /\ tick = "mcp" /\ left' = left \ {s}
        /\ UNCHANGED <<tenant, lastApplied, license, published, roster, grants, draft,
                       owned, crossed, edit, tick, snap, managed, blind, pairs>>
    BY Zenon DEF ApplyServer, pairVars
  <1>2. \/ /\ servers' = IF Verdict[s] = "FAIL" THEN servers ELSE servers \union {s}
           /\ failed' = failed /\ losses' = losses
        \/ /\ servers' = servers /\ failed' = TRUE
           /\ losses < MaxLosses /\ losses' = losses + 1
    BY Zenon DEF ApplyServer, CallFails
  <1>3. /\ servers \subseteq servers' /\ servers' \subseteq Servers
        /\ failed' \in BOOLEAN /\ (failed => failed')
        /\ failed' \/ s \in servers' \/ Verdict[s] = "FAIL"
        /\ RejectedStaysOut'
    BY <1>2, Zenon DEF HeldTypes, TickTypes, RejectedStaysOut
  <1>4. losses' \in 0 .. MaxLosses
    BY <1>2, LossTyped, Zenon DEF CountTypes
  <1>5. SyncTypes'
    BY <1>1, <1>3, <1>4, Zenon DEF PairTypes, HeldTypes, TickTypes, CountTypes
  <1>6. SectionsInv'
    BY <1>1, <1>3, WithinSection, Zenon
  <1>7. StaleInv'
    BY <1>1, <1>3, StaleWithin, Zenon
  <1>8. WritersInv'
    BY <1>1, Zenon DEF WritersInv, OwnerGrantsKept
  <1> QED  BY <1>3, <1>5, <1>6, <1>7, <1>8, Zenon

LEMMA AgentStep ==
    ASSUME SyncAssumption, SyncInv, NEW a \in CloudAgents,
           UpsertAgent(a) \/ DeleteStale(a)
    PROVE  SyncInv'
  <1> USE DEF SyncInv, SyncTypes
  <1> DEFINE Mine == [of |-> snap.tenant, at |-> snap.version]
  <1>1. /\ tick \in {"agents", "delete"} /\ left' = left \ {a}
        /\ UNCHANGED <<tenant, lastApplied, license, published, servers, grants, draft,
                       owned, crossed, edit, tick, snap, managed, blind, pairs>>
    BY Zenon DEF UpsertAgent, DeleteStale, pairVars
  <1>2. \/ /\ tick = "agents" /\ roster' = [roster EXCEPT ![a] = Mine]
           /\ failed' = failed /\ losses' = losses
        \/ /\ tick = "delete" /\ roster' = [roster EXCEPT ![a] = NoAgent]
           /\ failed' = (failed \/ roster[a] = NoAgent) /\ losses' = losses
        \/ /\ roster' = roster /\ failed' = TRUE
           /\ losses' = losses \/ (losses < MaxLosses /\ losses' = losses + 1)
    BY Zenon DEF UpsertAgent, DeleteStale, CallFails
  <1>3. failed' \in BOOLEAN /\ (failed => failed')
    BY <1>2, Zenon DEF TickTypes
  <1>4. losses' \in 0 .. MaxLosses
    BY <1>2, LossTyped, Zenon DEF CountTypes
  <1>5. Mine \in AgentRows /\ NoAgent \in AgentRows
    <2>1. snap.tenant \in Tenants /\ snap.version \in Versions(snap.tenant)
      BY <1>1, Zenon DEF TickTypes
    <2>2. snap.version \in Nat
      BY <2>1, VersionFacts, Zenon
    <2> QED  BY <2>1, <2>2, Zenon DEF AgentRows
  <1>6. roster' \in [CloudAgents -> AgentRows]
    BY <1>2, <1>5, Zenon DEF HeldTypes
  <1>7. /\ \A b \in CloudAgents : roster'[b] \in {roster[b], NoAgent} \/ roster'[b] = Mine
        /\ tick = "delete" => \A b \in CloudAgents : roster'[b] \in {roster[b], NoAgent}
        /\ \A b \in CloudAgents : b = a \/ roster'[b] = roster[b]
        /\ failed' \/ tick = "delete" \/ roster'[a] = Mine
        /\ failed' \/ tick # "delete" \/ roster'[a] = NoAgent
    BY <1>1, <1>2, Zenon DEF HeldTypes
  <1>8. SyncTypes'
    BY <1>1, <1>3, <1>4, <1>6, Zenon DEF PairTypes, HeldTypes, TickTypes, CountTypes
  <1>9. SectionsInv'
    BY <1>1, <1>3, <1>7, WithinSection, Zenon
  <1>10. StaleInv'
    <2>1. CASE UpsertAgent(a)
      <3>1. a \in Content.agents
        BY <2>1, Zenon DEF UpsertAgent, StaleInv
      <3> QED  BY <1>1, <1>3, <1>7, <2>1, <3>1, StaleWithin, Zenon DEF UpsertAgent
    <2>2. CASE DeleteStale(a)
      BY <1>1, <1>3, <1>7, <2>2, StaleWithin, Zenon DEF DeleteStale
    <2> QED  BY <2>1, <2>2, Zenon
  <1>11. WritersInv' /\ RejectedStaysOut'
    BY <1>1, Zenon DEF WritersInv, OwnerGrantsKept, RejectedStaysOut
  <1> QED  BY <1>8, <1>9, <1>10, <1>11, Zenon

LEMMA DomainStep ==
    ASSUME SyncAssumption, SyncInv, SaveDraft \/ \E d \in Domains : LoadDraft(d)
    PROVE  SyncInv'
  <1> USE DEF SyncInv, SyncTypes
  <1>1. UNCHANGED <<tenant, lastApplied, license, published, roster, servers, owned, edit,
                    tick, snap, managed, blind, pairs>>
    BY Zenon DEF SaveDraft, LoadDraft, pairVars
  <1>2. ASSUME NEW d \in Domains, LoadDraft(d)
        PROVE  /\ HeldTypes' /\ WritersInv' /\ left' \subseteq left
               /\ failed' \in BOOLEAN /\ (failed => failed') /\ (crossed => crossed')
               /\ losses' \in 0 .. MaxLosses
               /\ crossed' \/ grants \subseteq grants'
               /\ \A x \in left \ left' : failed' \/ (tick = "egress" /\ x \in grants')
    <2>1. /\ tick = "egress" /\ draft = {} /\ grants' = grants
          /\ \/ /\ d \in grants /\ left' = left \ {d}
                /\ UNCHANGED <<draft, crossed, failed, losses>>
             \/ /\ draft' = grants \union {d} /\ crossed' = (crossed \/ edit # {})
                /\ UNCHANGED <<failed, losses, left>>
             \/ /\ left' = left \ {d} /\ UNCHANGED <<draft, crossed>>
                /\ failed' = TRUE /\ losses < MaxLosses /\ losses' = losses + 1
      BY <1>2, Zenon DEF LoadDraft, CallFails
    <2>2. crossed' \in BOOLEAN /\ (crossed => crossed') /\ draft' \subseteq Domains
      BY <2>1, Zenon DEF HeldTypes
    <2>3. HeldTypes'
      BY <1>1, <2>1, <2>2, Zenon DEF HeldTypes
    <2>4. OwnerGrantsKept'
      BY <1>1, <2>1, <2>2, Zenon DEF WritersInv, OwnerGrantsKept
    <2>5. WritersInv'
      BY <1>1, <2>1, <2>4, Zenon DEF WritersInv
    <2>6. losses' \in 0 .. MaxLosses
      BY <2>1, LossTyped, Zenon DEF CountTypes
    <2>7. /\ left' \subseteq left /\ failed' \in BOOLEAN /\ (failed => failed')
          /\ \A x \in left \ left' : failed' \/ x \in grants'
      BY <2>1, Zenon DEF TickTypes
    <2> QED  BY <2>1, <2>2, <2>3, <2>5, <2>6, <2>7, Zenon
  <1>3. ASSUME SaveDraft
        PROVE  /\ HeldTypes' /\ WritersInv' /\ left' \subseteq left
               /\ failed' \in BOOLEAN /\ (failed => failed') /\ (crossed => crossed')
               /\ losses' \in 0 .. MaxLosses
               /\ crossed' \/ grants \subseteq grants'
               /\ \A x \in left \ left' : failed' \/ (tick = "egress" /\ x \in grants')
    <2>1. /\ draft # {} /\ grants' = draft /\ draft' = {}
          /\ left' = IF tick = "egress" THEN left \ grants' ELSE left
          /\ UNCHANGED <<crossed, failed, losses>>
      BY <1>3, Zenon DEF SaveDraft
    <2>2. HeldTypes'
      BY <1>1, <2>1, Zenon DEF HeldTypes
    <2>3. crossed \/ grants \subseteq grants'
      BY <2>1, Zenon DEF WritersInv
    <2>4. OwnerGrantsKept'
      BY <1>1, <2>1, <2>3, Zenon DEF WritersInv, OwnerGrantsKept
    <2>5. WritersInv'
      BY <1>1, <2>1, <2>3, <2>4, Zenon DEF WritersInv
    <2> QED  BY <2>1, <2>2, <2>3, <2>5, Zenon DEF TickTypes, CountTypes
  <1>4. /\ HeldTypes' /\ WritersInv' /\ left' \subseteq left
        /\ failed' \in BOOLEAN /\ (failed => failed') /\ (crossed => crossed')
        /\ losses' \in 0 .. MaxLosses
        /\ crossed' \/ grants \subseteq grants'
        /\ \A x \in left \ left' : failed' \/ (tick = "egress" /\ x \in grants')
    BY <1>2, <1>3, Zenon
  <1>5. PairTypes' /\ TickTypes' /\ CountTypes' /\ RejectedStaysOut'
    BY <1>1, <1>4, Zenon DEF PairTypes, TickTypes, CountTypes, RejectedStaysOut
  <1>6. SectionsInv'
    BY <1>1, <1>4, WithinSection, Zenon
  <1>7. StaleInv'
    BY <1>1, <1>4, StaleWithin, Zenon
  <1> QED  BY <1>4, <1>5, <1>6, <1>7, Zenon

(* The steps from one section to the next leave the daemon alone.          *)
LEMMA PullStep ==
    ASSUME SyncAssumption, SyncInv, Pull
    PROVE  SyncInv'
  <1> USE DEF SyncInv, SyncTypes
  <1>1. /\ tick = "idle" /\ tenant # NoTenant /\ published[tenant] > lastApplied
        /\ snap' = [tenant |-> tenant, lastApplied |-> lastApplied,
                    version |-> published[tenant]]
        /\ failed' = FALSE /\ blind' = FALSE /\ managed' = {}
        /\ tick' = "mcp" /\ left' = Bundle[tenant][snap'.version].servers \ servers
        /\ UNCHANGED <<tenant, lastApplied, license, published, roster, servers, grants,
                       draft, owned, crossed, edit, pairs, losses>>
    BY Zenon DEF Pull, Section, pairVars, daemonVars
  <1>2. snap'.tenant = tenant /\ snap'.version = published[tenant]
    BY <1>1, Zenon
  <1>3. tenant \in Tenants /\ published[tenant] \in Versions(tenant)
    <2>1. tenant \in Tenants
      BY <1>1, Zenon DEF PairTypes
    <2>2. published[tenant] \in 0 .. Newest(tenant) /\ lastApplied \in Nat
      BY <2>1, Zenon DEF PairTypes
    <2> QED  BY <1>1, <2>1, <2>2, VersionFacts, Zenon
  <1>4. TickTypes'
    BY <1>1, <1>2, <1>3, Zenon DEF TickTypes
  <1>5. PairTypes' /\ HeldTypes' /\ CountTypes' /\ RejectedStaysOut'
    BY <1>1, Zenon DEF PairTypes, HeldTypes, CountTypes, RejectedStaysOut
  <1>6. SectionsInv'
    BY <1>1, <1>2, Zenon DEF SectionsInv, ServersDone, Content
  <1>7. StaleInv'
    BY <1>1, Zenon DEF StaleInv
  <1>8. WritersInv'
    BY <1>1, Zenon DEF WritersInv, OwnerGrantsKept
  <1> QED  BY <1>4, <1>5, <1>6, <1>7, <1>8, Zenon

LEMMA ListStep ==
    ASSUME SyncAssumption, SyncInv, ListAgents \/ ListGrants
    PROVE  SyncInv'
  <1> USE DEF SyncInv, SyncTypes
  <1>1. /\ left = {}
        /\ UNCHANGED <<tenant, lastApplied, license, published, roster, servers, grants,
                       draft, owned, crossed, edit, snap, failed, pairs>>
    BY Zenon DEF ListAgents, ListGrants, pairVars, daemonVars
  <1>2. \/ /\ tick = "mcp" /\ tick' = "agents" /\ left' = Content.agents
           /\ \/ /\ managed' = {a \in CloudAgents : roster[a] # NoAgent}
                 /\ blind' = blind /\ losses' = losses
              \/ /\ managed' = {} /\ blind' = TRUE
                 /\ losses < MaxLosses /\ losses' = losses + 1
        \/ /\ tick = "agents" /\ tick' = "egress" /\ left' = Content.domains \ grants
           /\ managed' = managed /\ blind' = blind /\ losses' = losses
    BY Zenon DEF ListAgents, ListGrants, Section
  <1>3. Content' = Content
    BY <1>1, Zenon DEF Content
  <1>4. losses' \in 0 .. MaxLosses
    BY <1>2, LossTyped, Zenon DEF CountTypes
  <1>5. TickTypes'
    BY <1>1, <1>2, Zenon DEF TickTypes
  <1>6. PairTypes' /\ HeldTypes' /\ CountTypes' /\ RejectedStaysOut'
    BY <1>1, <1>4, Zenon DEF PairTypes, HeldTypes, CountTypes, RejectedStaysOut
  <1>7. SectionsInv'
    <2>1. failed' \/ ServersDone'
      BY <1>1, <1>2, <1>3, Zenon DEF SectionsInv, ServersDone
    <2>2. failed' \/ AgentsDone'
      BY <1>1, <1>2, <1>3, Zenon DEF SectionsInv, AgentsDone
    <2>3. tick' = "egress" => DomainsDone'
      BY <1>1, <1>2, <1>3, Zenon DEF DomainsDone
    <2> QED  BY <1>2, <2>1, <2>2, <2>3, Zenon DEF SectionsInv
  <1>8. StaleInv'
    BY <1>1, <1>2, <1>3, Zenon DEF StaleInv
  <1>9. WritersInv'
    BY <1>1, <1>2, Zenon DEF WritersInv, OwnerGrantsKept
  <1> QED  BY <1>5, <1>6, <1>7, <1>8, <1>9, Zenon

LEMMA DeletesStep ==
    ASSUME SyncAssumption, SyncInv, BeginDeletes
    PROVE  SyncInv'
  <1> USE DEF SyncInv, SyncTypes
  <1>1. /\ tick = "egress" /\ left = {} /\ draft = {}
        /\ UNCHANGED <<tenant, lastApplied, license, published, roster, servers, grants,
                       draft, owned, crossed, edit, snap, managed, failed, blind, pairs,
                       losses>>
    BY Zenon DEF BeginDeletes, pairVars, daemonVars
  <1>2. \/ failed /\ tick' = "idle" /\ left' = {}
        \/ ~failed /\ tick' = "delete" /\ left' = managed \ Content.agents
    BY Zenon DEF BeginDeletes, Section
  <1>3. Content' = Content
    BY <1>1, Zenon DEF Content
  <1>4. TickTypes'
    BY <1>1, <1>2, Zenon DEF TickTypes
  <1>5. PairTypes' /\ HeldTypes' /\ CountTypes' /\ RejectedStaysOut'
    BY <1>1, Zenon DEF PairTypes, HeldTypes, CountTypes, RejectedStaysOut
  <1>6. SectionsInv'
    <2>1. failed \/ ServersDone'
      BY <1>1, <1>3, Zenon DEF SectionsInv, ServersDone
    <2>2. failed \/ AgentsDone'
      BY <1>1, <1>3, Zenon DEF SectionsInv, AgentsDone
    <2>3. failed \/ DomainsDone'
      BY <1>1, <1>3, Zenon DEF SectionsInv, DomainsDone
    <2> QED  BY <1>2, <2>1, <2>2, <2>3, Zenon DEF SectionsInv
  <1>7. StaleInv'
    BY <1>1, <1>2, <1>3, Zenon DEF StaleInv
  <1>8. WritersInv'
    BY <1>1, <1>2, Zenon DEF WritersInv, OwnerGrantsKept
  <1> QED  BY <1>4, <1>5, <1>6, <1>7, <1>8, Zenon

LEMMA RecordStep ==
    ASSUME SyncAssumption, SyncInv, Advance \/ UpdateLicense \/ Abort
    PROVE  SyncInv'
  <1> USE DEF SyncInv, SyncTypes
  <1>1. UNCHANGED <<tenant, published, roster, servers, grants, draft, owned, crossed,
                    edit, snap, managed, failed, blind, pairs>>
    BY Zenon DEF Advance, UpdateLicense, Abort, pairVars, daemonVars
  <1>2. /\ tick # "idle" /\ left' = {}
        /\ \/ tick' = "idle"
           \/ tick = "delete" /\ left = {} /\ tick' = "license" /\ ~failed
        /\ lastApplied' \in {lastApplied, snap.version}
        /\ license' \in {license, snap.version}
        /\ losses' = losses \/ (losses < MaxLosses /\ losses' = losses + 1)
    BY Zenon DEF Advance, UpdateLicense, Abort, Section, pairVars
  <1>3. Content' = Content
    BY <1>1, Zenon DEF Content
  <1>4. snap.version \in Nat
    BY <1>2, VersionFacts, Zenon DEF TickTypes
  <1>5. losses' \in 0 .. MaxLosses
    BY <1>2, LossTyped, Zenon DEF CountTypes
  <1>6. TickTypes'
    BY <1>1, <1>2, Zenon DEF TickTypes
  <1>7. PairTypes'
    BY <1>1, <1>2, <1>4, Zenon DEF PairTypes
  <1>8. HeldTypes' /\ CountTypes' /\ RejectedStaysOut'
    BY <1>1, <1>5, Zenon DEF HeldTypes, CountTypes, RejectedStaysOut
  <1>9. SectionsInv'
    <2>1. tick' = "license" => ServersDone' /\ AgentsDone' /\ DomainsDone'
      BY <1>1, <1>2, <1>3, Zenon DEF SectionsInv, ServersDone, AgentsDone, DomainsDone
    <2> QED  BY <1>2, <2>1, Zenon DEF SectionsInv
  <1>10. StaleInv'
    BY <1>1, <1>2, <1>3, Zenon DEF StaleInv
  <1>11. WritersInv'
    BY <1>1, <1>2, Zenon DEF WritersInv, OwnerGrantsKept
  <1> QED  BY <1>6, <1>7, <1>8, <1>9, <1>10, <1>11, Zenon

LEMMA SyncStutters ==
    ASSUME SyncInv, UNCHANGED syncVars
    PROVE  SyncInv'
  <1> USE DEF SyncInv, SyncTypes, syncVars, pairVars, daemonVars, tickVars
  <1>1. PairTypes' /\ HeldTypes' /\ TickTypes' /\ CountTypes' /\ RejectedStaysOut'
    BY Zenon DEF PairTypes, HeldTypes, TickTypes, CountTypes, RejectedStaysOut
  <1>2. SectionsInv'
    BY Zenon DEF SectionsInv, ServersDone, AgentsDone, DomainsDone, Content
  <1>3. StaleInv' /\ WritersInv'
    BY Zenon DEF StaleInv, WritersInv, OwnerGrantsKept, Content
  <1> QED  BY <1>1, <1>2, <1>3, Zenon

(* Whatever fails, whoever writes meanwhile and wherever config_sync dies,  *)
(* a tick knows of every section it has behind it that it is in force       *)
(* (PolicyApplier.apply, _sync_once).                                       *)
THEOREM SyncInvariant == SyncSpec => []SyncInv
  <1>1. SyncInit => SyncInv
    BY SyncInitially, SyncAssumption, Zenon
  <1>2. SyncInv /\ [SyncNext]_syncVars => SyncInv'
    <2> SUFFICES ASSUME SyncInv, [SyncNext]_syncVars PROVE SyncInv'
      OBVIOUS
    <2>1. CASE TickStep
      BY <2>1, SyncAssumption, PullStep, ListStep, DeletesStep, RecordStep, ServerStep,
         AgentStep, DomainStep, Zenon DEF TickStep
    <2>2. CASE Abort
      BY <2>2, SyncAssumption, RecordStep, Zenon
    <2>3. CASE Owner \/ \E t \in Tenants : PublishVersion(t)
      BY <2>3, SyncAssumption, PairingStep, OwnerStep, Zenon DEF Owner
    <2>4. CASE UNCHANGED syncVars
      BY <2>4, SyncStutters, Zenon
    <2> QED  BY <2>1, <2>2, <2>3, <2>4, Zenon DEF SyncNext
  <1> QED  BY <1>1, <1>2, PTL DEF SyncSpec

(* Stale agents are deleted only after every upsert landed, and             *)
(* last_applied_version moves only when the whole bundle is in force; no    *)
(* refused server is installed and no domain of the owner is lost, but      *)
(* where two writers of egress-grants.json overlap (PolicyApplier.apply,    *)
(* set_last_applied_version, add_egress_domain).                            *)
THEOREM SyncIsSafe == SyncSpec => []SyncSafe
  <1>1. SyncInv => SyncSafe
    <2> SUFFICES ASSUME SyncInv PROVE SyncSafe
      OBVIOUS
    <2> USE DEF SyncInv, SyncTypes
    <2>1. SyncTypeOK
      <3>1. ASSUME NEW a \in CloudAgents
            PROVE  \/ roster[a] = NoAgent
                   \/ roster[a].of \in Tenants /\ roster[a].at \in Versions(roster[a].of)
        BY Zenon DEF HeldTypes, AgentRows
      <3>2. {failed, blind, crossed} \subseteq BOOLEAN
        BY Zenon DEF HeldTypes, TickTypes
      <3>3. {grants, edit, draft, owned} \subseteq SUBSET Domains
        BY Zenon DEF HeldTypes
      <3> QED  BY <3>1, <3>2, <3>3, Zenon DEF SyncTypeOK, PairTypes, HeldTypes,
                  TickTypes, CountTypes
    <2>2. tick \in {"delete", "license"} => Installed(Content)
      BY Zenon DEF SectionsInv, ServersDone, AgentsDone, DomainsDone, Installed
    <2>3. DeletesAfterUpserts
      BY <2>2, Zenon DEF DeletesAfterUpserts
    <2>4. AdvancedIsApplied
      BY <2>2, Zenon DEF AdvancedIsApplied, StaleInv
    <2> QED  BY <2>1, <2>3, <2>4, Zenon DEF SyncSafe, WritersInv
  <1> QED  BY <1>1, SyncInvariant, PTL

(***************************************************************************)
(* Usage metering.                                                         *)
(***************************************************************************)

(* An event is counted at most once more than its uploads in doubt, and    *)
(* that once only if it is marked or its batch was accepted.               *)
Owed(e) == IF e \in uploaded \/ (uploadAt = "accepted" /\ e \in picked) THEN 1 ELSE 0

CountInv ==
    /\ picked \intersect uploaded = {}
    /\ \A e \in uploaded : counted[e] > 0
    /\ uploadAt = "accepted" => \A e \in picked : counted[e] > 0
    /\ \A e \in Events : counted[e] <= unanswered[e] + Owed(e)

UsageInv == UsageTypeOK /\ CountInv

LEMMA UsageInitially ==
    ASSUME UsageAssumption, UsageInit
    PROVE  UsageInv
  <1>1. 0 \in Nat /\ 0 \in 0 .. MaxSwaps /\ 0 \in 0 .. MaxUnread
    BY DEF UsageAssumption
  <1>2. UsageTypeOK
    BY <1>1, Zenon DEF UsageInit, UsageTypeOK
  <1>3. \A e \in Events : counted[e] <= unanswered[e] + Owed(e)
    BY DEF UsageInit, Owed
  <1> QED  BY <1>2, <1>3, Zenon DEF UsageInit, UsageInv, CountInv

LEMMA UnreadTyped ==
    ASSUME UsageAssumption, unread \in 0 .. MaxUnread, GoesUnread
    PROVE  unread' \in 0 .. MaxUnread
  BY DEF UsageAssumption, GoesUnread

(* The batch added to a tally.                                             *)
LEMMA PlusFacts ==
    ASSUME NEW tally \in [Events -> Nat]
    PROVE  /\ PlusPicked(tally) \in [Events -> Nat]
           /\ \A e \in Events : e \in picked => PlusPicked(tally)[e] = tally[e] + 1
           /\ \A e \in Events : e \notin picked => PlusPicked(tally)[e] = tally[e]
  BY DEF PlusPicked

(* What is recorded, paired and read for an upload leaves the counts alone. *)
LEMMA UsageQuiet ==
    ASSUME UsageAssumption, UsageInv,
           \/ \E e \in Events : RecordCycle(e)
           \/ \E t \in Payers \union {Unpaired} : SwapPairing(t)
           \/ BeginUpload \/ ReadUnsent \/ NoSecret \/ PostRefused
           \/ UNCHANGED usageVars
    PROVE  UsageInv'
  <1> USE DEF UsageInv
  <1>1. /\ UNCHANGED <<uploaded, counted, unanswered, unread>>
        /\ uploadAt # "accepted" \/ UNCHANGED <<uploadAt, picked>>
        /\ uploadAt' # "accepted" \/ UNCHANGED <<uploadAt, picked>>
    BY Zenon DEF RecordCycle, SwapPairing, BeginUpload, ReadUnsent, NoSecret, PostRefused,
                 UploadOver, usageVars
  <1>2. \A e : Owed(e)' = Owed(e)
    BY <1>1, Zenon DEF Owed
  <1>3. UsageTypeOK'
    <2>1. swaps' \in 0 .. MaxSwaps
      <3>1. swaps' = swaps \/ (swaps < MaxSwaps /\ swaps' = swaps + 1)
        BY Zenon DEF RecordCycle, SwapPairing, BeginUpload, ReadUnsent, NoSecret,
                     PostRefused, usageVars
      <3> QED  BY <3>1 DEF UsageTypeOK, UsageAssumption
    <2>2. CASE \/ \E e \in Events : RecordCycle(e)
               \/ \E t \in Payers \union {Unpaired} : SwapPairing(t)
               \/ UNCHANGED usageVars
      BY <1>1, <2>1, <2>2, Zenon DEF RecordCycle, SwapPairing, UsageTypeOK, usageVars
    <2>3. CASE BeginUpload
      BY <1>1, <2>1, <2>3, Zenon DEF BeginUpload, UsageTypeOK
    <2>4. CASE ReadUnsent \/ NoSecret \/ PostRefused
      BY <1>1, <2>1, <2>4, Zenon DEF ReadUnsent, NoSecret, PostRefused, UploadOver,
                                     UsageTypeOK
    <2> QED  BY <2>2, <2>3, <2>4, Zenon
  <1>4. picked' \intersect uploaded' = {}
    BY <1>1, Zenon DEF CountInv, RecordCycle, SwapPairing, BeginUpload, ReadUnsent,
                       NoSecret, PostRefused, UploadOver, usageVars
  <1> QED  BY <1>1, <1>2, <1>3, <1>4, Zenon DEF CountInv

(* The POST, its loss, and the mark.                                       *)
LEMMA UsageCounts ==
    ASSUME UsageAssumption, UsageInv, PostUsage \/ PostLost \/ MarkUploaded \/ MarkFails
    PROVE  UsageInv'
  <1> USE DEF UsageInv
  <1>0. /\ counted \in [Events -> Nat] /\ unanswered \in [Events -> Nat]
        /\ picked \subseteq Events
        /\ \A e \in picked : e \notin uploaded
    BY Zenon DEF UsageTypeOK, CountInv
  <1>1. unread' \in 0 .. MaxUnread
    BY UnreadTyped, Zenon DEF PostUsage, PostLost, MarkUploaded, MarkFails, UsageTypeOK
  <1>2. CASE PostUsage
    <2>1. /\ uploadAt = "read" /\ uploadAt' = "accepted" /\ counted' = PlusPicked(counted)
          /\ UNCHANGED <<metered, uploaded, payer, assoc, picked, unanswered, swaps>>
      BY <1>2, Zenon DEF PostUsage
    <2>2. counted' \in [Events -> Nat]
      BY <1>0, <2>1, PlusFacts, Zenon
    <2>3. UsageTypeOK'
      BY <1>1, <2>1, <2>2, Zenon DEF UsageTypeOK
    <2>4. ASSUME NEW e \in Events, e \in picked
          PROVE  counted'[e] > 0 /\ counted'[e] <= unanswered'[e] + Owed(e)'
      <3>1. Owed(e) = 0 /\ Owed(e)' = 1
        BY <1>0, <2>1, <2>4, Zenon DEF Owed
      <3>2. counted'[e] = counted[e] + 1 /\ counted[e] \in Nat /\ unanswered'[e] = unanswered[e]
        BY <1>0, <2>1, <2>4, PlusFacts, Zenon
      <3>3. counted[e] <= unanswered[e] + Owed(e) /\ unanswered[e] \in Nat
        BY <1>0, Zenon DEF CountInv
      <3> QED  BY <3>1, <3>2, <3>3
    <2>5. ASSUME NEW e \in Events, e \notin picked
          PROVE  counted'[e] = counted[e] /\ unanswered'[e] = unanswered[e] /\ Owed(e)' = Owed(e)
      BY <1>0, <2>1, <2>5, PlusFacts, Zenon DEF Owed
    <2>6. \A e \in Events : counted'[e] <= unanswered'[e] + Owed(e)'
      BY <2>4, <2>5, Zenon DEF CountInv
    <2>7. \A e \in uploaded' : counted'[e] > 0
      BY <1>0, <2>1, <2>5, Zenon DEF CountInv, UsageTypeOK
    <2> QED  BY <1>0, <2>1, <2>3, <2>4, <2>6, <2>7, Zenon DEF CountInv
  <1>3. CASE PostLost
    <2>1. /\ uploadAt = "read" /\ uploadAt' = "idle" /\ picked' = {} /\ assoc' = Unpaired
          /\ UNCHANGED <<metered, uploaded, payer, swaps>>
          /\ \/ UNCHANGED <<counted, unanswered>>
             \/ counted' = PlusPicked(counted) /\ unanswered' = PlusPicked(unanswered)
      BY <1>3, Zenon DEF PostLost, UploadOver
    <2>2. counted' \in [Events -> Nat] /\ unanswered' \in [Events -> Nat]
      BY <1>0, <2>1, PlusFacts, Zenon
    <2>3. UsageTypeOK'
      BY <1>1, <2>1, <2>2, Zenon DEF UsageTypeOK
    <2>4. ASSUME NEW e \in Events
          PROVE  /\ counted'[e] <= unanswered'[e] + Owed(e)'
                 /\ counted[e] > 0 => counted'[e] > 0
      <3>1. Owed(e)' = Owed(e) /\ Owed(e) \in {0, 1}
        BY <2>1, Zenon DEF Owed
      <3>2. \/ counted'[e] = counted[e] /\ unanswered'[e] = unanswered[e]
            \/ counted'[e] = counted[e] + 1 /\ unanswered'[e] = unanswered[e] + 1
        BY <1>0, <2>1, PlusFacts, Zenon
      <3>3. /\ counted[e] <= unanswered[e] + Owed(e)
            /\ counted[e] \in Nat /\ unanswered[e] \in Nat
        BY <1>0, Zenon DEF CountInv
      <3> QED  BY <3>1, <3>2, <3>3
    <2>5. uploaded' \subseteq Events
      BY <2>1, Zenon DEF UsageTypeOK
    <2> QED  BY <2>1, <2>3, <2>4, <2>5, Zenon DEF CountInv
  <1>4. CASE MarkUploaded
    <2>1. /\ uploadAt = "accepted" /\ uploadAt' = "idle" /\ picked' = {}
          /\ assoc' = Unpaired /\ uploaded' = uploaded \union picked
          /\ UNCHANGED <<metered, payer, counted, unanswered, swaps, unread>>
      BY <1>4, Zenon DEF MarkUploaded, UploadOver
    <2>2. UsageTypeOK'
      BY <1>0, <2>1, Zenon DEF UsageTypeOK
    <2>3. \A e \in Events : Owed(e)' = Owed(e)
      BY <2>1, Zenon DEF Owed
    <2> QED  BY <2>1, <2>2, <2>3, Zenon DEF CountInv
  <1>5. CASE MarkFails
    <2>1. /\ uploadAt = "accepted" /\ uploadAt' = "idle" /\ picked' = {}
          /\ assoc' = Unpaired /\ unanswered' = PlusPicked(unanswered)
          /\ UNCHANGED <<metered, uploaded, payer, counted, swaps>>
      BY <1>5, Zenon DEF MarkFails, UploadOver
    <2>2. unanswered' \in [Events -> Nat]
      BY <1>0, <2>1, PlusFacts, Zenon
    <2>3. UsageTypeOK'
      BY <1>1, <2>1, <2>2, Zenon DEF UsageTypeOK
    <2>4. ASSUME NEW e \in Events PROVE counted'[e] <= unanswered'[e] + Owed(e)'
      <3>1. counted'[e] = counted[e] /\ counted[e] <= unanswered[e] + Owed(e)
        BY <2>1, Zenon DEF CountInv
      <3>2. counted[e] \in Nat /\ unanswered[e] \in Nat
        BY <1>0, Zenon
      <3>3. CASE e \in picked
        <4>1. Owed(e) = 1 /\ Owed(e)' = 0
          BY <1>0, <2>1, <3>3, Zenon DEF Owed
        <4>2. unanswered'[e] = unanswered[e] + 1
          BY <1>0, <2>1, <3>3, PlusFacts, Zenon
        <4> QED  BY <3>1, <3>2, <4>1, <4>2
      <3>4. CASE e \notin picked
        <4>1. Owed(e)' = Owed(e)
          BY <2>1, <3>4, Zenon DEF Owed
        <4>2. unanswered'[e] = unanswered[e]
          BY <1>0, <2>1, <3>4, PlusFacts, Zenon
        <4> QED  BY <3>1, <4>1, <4>2, Zenon
      <3> QED  BY <3>3, <3>4, Zenon
    <2> QED  BY <2>1, <2>3, <2>4, Zenon DEF CountInv
  <1> QED  BY <1>2, <1>3, <1>4, <1>5, Zenon

(* An event is counted at most once beyond the uploads of it in doubt, and  *)
(* that once only if it is marked or about to be (UsageUploader.upload_once,*)
(* SQLiteUsageRepository.mark_uploaded).                                    *)
THEOREM UsageInvariant == UsageSpec => []UsageInv
  <1>1. UsageInit => UsageInv
    BY UsageInitially, UsageAssumption, Zenon
  <1>2. UsageInv /\ [UsageNext]_usageVars => UsageInv'
    BY UsageQuiet, UsageCounts, UsageAssumption, Zenon DEF UsageNext, UploadTick
  <1> QED  BY <1>1, <1>2, PTL DEF UsageSpec

(* A cycle recorded while the POST is in flight is not marked with the      *)
(* batch, and an event is counted again only after an upload of it whose    *)
(* answer was lost or whose mark failed, whatever tenant is paired in       *)
(* between (UsageUploader.upload_once).                                     *)
THEOREM UsageIsSafe == UsageSpec => []UsageSafe
  <1>1. UsageInv => UsageSafe
    <2> SUFFICES ASSUME UsageInv PROVE UsageSafe
      OBVIOUS
    <2>1. UsageTypeOK /\ UploadedWasCounted
      BY Zenon DEF UsageInv, CountInv, UploadedWasCounted
    <2>2. ASSUME NEW e \in Events PROVE counted[e] <= 1 + unanswered[e]
      <3>1. counted[e] <= unanswered[e] + Owed(e) /\ Owed(e) \in {0, 1}
        BY Zenon DEF UsageInv, CountInv, Owed
      <3>2. counted[e] \in Nat /\ unanswered[e] \in Nat
        BY Zenon DEF UsageInv, UsageTypeOK
      <3> QED  BY <3>1, <3>2
    <2> QED  BY <2>1, <2>2, Zenon DEF UsageSafe, CountedAgainOnlyInDoubt
  <1> QED  BY <1>1, UsageInvariant, PTL
=============================================================================
