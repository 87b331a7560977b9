----------------------------- MODULE AuditChain -----------------------------
(***************************************************************************)
(* The signed audit chain: AuditHashChainSigner.append_and_persist signs   *)
(* an entry against the hash of the previous one and stores it, under the  *)
(* signer's asyncio.Lock; SqliteAuditRepository.append inserts the row and *)
(* anchors its hash in the WORM file and at the time-stamping authority    *)
(* (TSA), whose heads wait in pending_queue.json while it is unreachable.  *)
(*                                                                         *)
(* Two kinds of actors append.  Callers are coroutines of the daemon's     *)
(* event loop: the broker, the pool, the gate, the hook's bridge.         *)
(* SshThreads are tailnet SSH calls, run with asyncio.to_thread, that record *)
(* themselves with asyncio.run: in an event loop of their own, while       *)
(* asyncio.Lock is made for one loop and one thread.                       *)
(*                                                                         *)
(* The hash of an entry is its number in signing order; 0 is the genesis.  *)
(***************************************************************************)
EXTENDS Naturals, Sequences, FiniteSets, Functions


CONSTANTS
    Callers,         \* coroutines of the daemon's loop that append
    SshThreads,      \* SSH calls that append from a loop of their own
    MaxEntries,      \* bound: entries signed
    MaxMishaps       \* bound: failed writes, TSA refusals and daemon deaths

ASSUME AuditAssumption ==
    /\ MaxEntries \in Nat /\ MaxMishaps \in Nat
    /\ Callers \cap SshThreads = {}
    /\ SshThreads \cap {"none", "main", "closed"} = {}

VARIABLES
    chain,       \* audit_chain_entries by seq: the hash and the previous hash
    lastHash,    \* AuditHashChainSigner._last_hash
    signed,      \* entries signed so far
    locked,      \* _chain_lock._locked
    waiters,     \* _chain_lock._waiters, in order
    woken,       \* the future of the first waiter is resolved
    boundTo,     \* _chain_lock._loop: "none", "main", a thread's or a closed one
    deaf,        \* threads asleep in select when another thread woke them
    spot,        \* where each actor is in append_and_persist
    entry,       \* the entry an actor has signed
    flushing,    \* the heads _flush_queue took from the queue and has not tried
    unsent,      \* pending_queue.json
    tokens,      \* heads with a .tsr token on disk
    latest,      \* latest.txt
    unanchored,  \* history: rows whose anchoring never reached the queue
    overlap,     \* history: two actors were inside the lock at once
    mishaps      \* failed writes, refusals and deaths so far

auditVars == <<chain, lastHash, signed, locked, waiters, woken, boundTo, deaf, spot,
               entry, flushing, unsent, tokens, latest, unanchored, overlap, mishaps>>

lockVars == <<locked, waiters, woken, boundTo, deaf, overlap>>
tsaVars == <<unsent, tokens, latest>>

Actors == Callers \cup SshThreads
Hashes == 1..MaxEntries
Genesis == 0
NoEntry == [hash |-> 0, prev |-> 0]
Entries == [hash : 0..MaxEntries, prev : 0..MaxEntries]
AuditPlaces == {"idle", "peeked", "waiting", "holding", "flushing"}
Inside == {"holding", "flushing"}

AuditInit ==
    /\ chain = <<>> /\ lastHash = Genesis /\ signed = 0
    /\ locked = FALSE /\ waiters = <<>> /\ woken = FALSE
    /\ boundTo = "none" /\ deaf = {}
    /\ spot = [a \in Actors |-> "idle"]
    /\ entry = [a \in Actors |-> NoEntry]
    /\ flushing = [a \in Actors |-> <<>>]
    /\ unsent = <<>> /\ tokens = {} /\ latest = 0
    /\ unanchored = {} /\ overlap = FALSE /\ mishaps = 0

Mishap == mishaps < MaxMishaps /\ mishaps' = mishaps + 1

LoopOf(a) == IF a \in SshThreads THEN a ELSE "main"

-----------------------------------------------------------------------------
(* asyncio.Lock, as append_and_persist uses it.                            *)

\* append(): sign against _last_hash and advance it, with no suspension.
SignEntry(a) ==
    /\ signed' = signed + 1
    /\ entry' = [entry EXCEPT ![a] = [hash |-> signed + 1, prev |-> lastHash]]
    /\ lastHash' = signed + 1

\* Past the lock: the entry is signed in the same synchronous stretch.
Enters(a) ==
    /\ locked' = TRUE
    /\ overlap' = (overlap \/ \E b \in Actors \ {a} : spot[b] \in Inside)
    /\ spot' = [spot EXCEPT ![a] = "holding"]
    /\ SignEntry(a)

\* Bound: an append starts only if its entry can still be signed.
Room ==
    signed + Cardinality({a \in Actors : spot[a] \in {"peeked", "waiting"}}) < MaxEntries

\* The fast path of acquire(): the lock is free and nobody waits for it.
LockFree == ~locked /\ waiters = <<>>

\* A coroutine of the daemon's loop finds the lock free.
Acquire(a) ==
    /\ a \in Callers /\ spot[a] = "idle" /\ LockFree /\ Room
    /\ Enters(a)
    /\ UNCHANGED <<chain, waiters, woken, boundTo, deaf, flushing, tsaVars, unanchored,
                   mishaps>>

\* A thread looks at the lock; another thread may run before it takes it.
Peek(a) ==
    /\ a \in SshThreads /\ spot[a] = "idle" /\ LockFree /\ Room
    /\ spot' = [spot EXCEPT ![a] = "peeked"]
    /\ UNCHANGED <<chain, lastHash, signed, lockVars, entry, flushing, tsaVars,
                   unanchored, mishaps>>

\* The thread takes the lock it saw free.
Seize(a) ==
    /\ spot[a] = "peeked"
    /\ Enters(a)
    /\ UNCHANGED <<chain, waiters, woken, boundTo, deaf, flushing, tsaVars, unanchored,
                   mishaps>>

\* The slow path: the first actor to wait binds the lock to its loop, ...
Wait(a) ==
    /\ spot[a] = "idle" /\ ~LockFree /\ Room
    /\ boundTo \in {"none", LoopOf(a)}
    /\ boundTo' = LoopOf(a)
    /\ waiters' = Append(waiters, a)
    /\ spot' = [spot EXCEPT ![a] = "waiting"]
    /\ UNCHANGED <<chain, lastHash, signed, locked, woken, deaf, overlap, entry, flushing,
                   tsaVars, unanchored, mishaps>>

\* ... and acquire() raises RuntimeError in every other loop: nothing is
\* signed. The SSH call swallows it; the broker's and the pool's callers see it.
WrongLoop(a) ==
    /\ spot[a] = "idle" /\ ~LockFree /\ Room
    /\ boundTo \notin {"none", LoopOf(a)}
    /\ Mishap
    /\ UNCHANGED <<chain, lastHash, signed, lockVars, spot, entry, flushing, tsaVars,
                   unanchored>>

\* The woken waiter leaves the queue and takes the lock, without looking at it.
WakeUp(a) ==
    /\ spot[a] = "waiting" /\ woken /\ Head(waiters) = a /\ a \notin deaf
    /\ waiters' = Tail(waiters)
    /\ woken' = FALSE
    /\ Enters(a)
    /\ UNCHANGED <<chain, boundTo, deaf, flushing, tsaVars, unanchored, mishaps>>

\* release(): the first waiter's future is resolved. A thread's loop that
\* sleeps in select is not woken by another thread's call_soon. Releasing a
\* free lock raises and wakes nobody. A thread's loop is closed when it ends.
LetGo(a) ==
    /\ locked' = FALSE
    /\ woken' = (woken \/ (locked /\ waiters # <<>>))
    /\ \/ UNCHANGED deaf
       \/ /\ locked /\ ~woken /\ waiters # <<>> /\ Head(waiters) \in SshThreads
          /\ deaf' = deaf \cup {Head(waiters)}
    /\ boundTo' = IF boundTo = a THEN "closed" ELSE boundTo
    /\ spot' = [spot EXCEPT ![a] = "idle"]
    /\ entry' = [entry EXCEPT ![a] = NoEntry]
    /\ flushing' = [flushing EXCEPT ![a] = <<>>]
    /\ UNCHANGED <<waiters, overlap>>

-----------------------------------------------------------------------------
(* SqliteAuditRepository.append and the anchors.                           *)

\* INSERT, WORM line and _enqueue; _flush_queue then takes a copy of the queue.
Store(a) ==
    /\ spot[a] = "holding"
    /\ chain' = Append(chain, entry[a])
    /\ unsent' = Append(unsent, entry[a].hash)
    /\ flushing' = [flushing EXCEPT ![a] = unsent']
    /\ spot' = [spot EXCEPT ![a] = "flushing"]
    /\ UNCHANGED <<lastHash, signed, lockVars, entry, tokens, latest, unanchored,
                   mishaps>>

\* The INSERT fails: the exception leaves the lock, _last_hash stays advanced.
StoreFails(a) ==
    /\ spot[a] = "holding"
    /\ Mishap
    /\ LetGo(a)
    /\ UNCHANGED <<chain, lastHash, signed, tsaVars, unanchored>>

\* The WORM file cannot be written: CompositeExternalAnchor never reaches the
\* TSA, and _try_anchor swallows the error.
WormFails(a) ==
    /\ spot[a] = "holding"
    /\ chain' = Append(chain, entry[a])
    /\ unanchored' = unanchored \cup {entry[a].hash}
    /\ Mishap
    /\ LetGo(a)
    /\ UNCHANGED <<lastHash, signed, tsaVars>>

\* list.remove: the first occurrence, if there is one.
Without(q, h) ==
    IF h \in Range(q)
    THEN LET i == CHOOSE k \in DOMAIN q : q[k] = h /\ \A j \in 1..(k - 1) : q[j] # h
         IN SubSeq(q, 1, i - 1) \o SubSeq(q, i + 1, Len(q))
    ELSE q

\* _do_anchor succeeds: the token is kept, the head leaves the queue.
Anchor(a) ==
    /\ spot[a] = "flushing" /\ flushing[a] # <<>>
    /\ LET h == Head(flushing[a]) IN
         /\ unsent' = Without(unsent, h)
         /\ tokens' = tokens \cup {h}
         /\ latest' = IF h \in tokens THEN latest ELSE h
    /\ flushing' = [flushing EXCEPT ![a] = Tail(@)]
    /\ UNCHANGED <<chain, lastHash, signed, lockVars, spot, entry, unanchored, mishaps>>

\* The TSA cannot be reached or its answer is not accepted: the flush stops.
AnchorFails(a) ==
    /\ spot[a] = "flushing" /\ flushing[a] # <<>> /\ Head(flushing[a]) \notin tokens
    /\ Mishap
    /\ LetGo(a)
    /\ UNCHANGED <<chain, lastHash, signed, tsaVars, unanchored>>

\* The flush is through: append returns and the lock is released.
Finished(a) ==
    /\ spot[a] = "flushing" /\ flushing[a] = <<>>
    /\ LetGo(a)
    /\ UNCHANGED <<chain, lastHash, signed, tsaVars, unanchored, mishaps>>

\* A new process has a new lock.
LockReset ==
    /\ locked' = FALSE /\ waiters' = <<>> /\ woken' = FALSE
    /\ boundTo' = "none" /\ deaf' = {}

\* Variant: the chain starts from the genesis hash.
AuditDaemonDies_Unseeded ==
    /\ Mishap
    /\ lastHash' = Genesis
    /\ LockReset
    /\ spot' = [a \in Actors |-> "idle"]
    /\ entry' = [a \in Actors |-> NoEntry]
    /\ flushing' = [a \in Actors |-> <<>>]
    /\ UNCHANGED <<chain, signed, tsaVars, unanchored, overlap>>

\* The daemon dies: rows and the anchors' files stay, and the next process
\* seeds _last_hash from the last row (_seed_firmer) before anything runs.
AuditDaemonDies ==
    /\ Mishap
    /\ lastHash' = IF chain = <<>> THEN Genesis ELSE chain[Len(chain)].hash
    /\ LockReset
    /\ spot' = [a \in Actors |-> "idle"]
    /\ entry' = [a \in Actors |-> NoEntry]
    /\ flushing' = [a \in Actors |-> <<>>]
    /\ UNCHANGED <<chain, signed, tsaVars, unanchored, overlap>>

\* ... or dies between the INSERT and the WORM line.
AuditDaemonDiesStoring ==
    \E a \in Actors :
      /\ spot[a] = "holding"
      /\ Mishap
      /\ chain' = Append(chain, entry[a])
      /\ unanchored' = unanchored \cup {entry[a].hash}
      /\ lastHash' = entry[a].hash
      /\ LockReset
      /\ spot' = [b \in Actors |-> "idle"]
      /\ entry' = [b \in Actors |-> NoEntry]
      /\ flushing' = [b \in Actors |-> <<>>]
      /\ UNCHANGED <<signed, tsaVars, overlap>>

-----------------------------------------------------------------------------
AuditStep(a) ==
    \/ Acquire(a) \/ Seize(a) \/ WakeUp(a)
    \/ Store(a) \/ Anchor(a) \/ Finished(a)

AuditNext ==
    \/ \E a \in Actors :
         \/ AuditStep(a)
         \/ Peek(a) \/ Wait(a) \/ WrongLoop(a)
         \/ StoreFails(a) \/ WormFails(a) \/ AnchorFails(a)
    \/ AuditDaemonDies \/ AuditDaemonDiesStoring

AuditSpec == AuditInit /\ [][AuditNext]_auditVars

-----------------------------------------------------------------------------
\* Every variable has its type, and _chain_lock is locked exactly while an
\* actor is between signing and the end of its anchoring, on every path out of
\* append_and_persist, unless a thread took it behind another's back.
AuditTypeOK ==
    /\ chain \in Seq(Entries) /\ lastHash \in 0..MaxEntries
    /\ signed \in 0..MaxEntries
    /\ locked \in BOOLEAN /\ waiters \in Seq(Actors) /\ woken \in BOOLEAN
    /\ boundTo \in {"none", "main", "closed"} \cup SshThreads
    /\ deaf \subseteq SshThreads
    /\ spot \in [Actors -> AuditPlaces] /\ entry \in [Actors -> Entries]
    /\ flushing \in [Actors -> Seq(Hashes)]
    /\ unsent \in Seq(Hashes) /\ tokens \subseteq Hashes
    /\ latest \in 0..MaxEntries /\ unanchored \subseteq Hashes
    /\ overlap \in BOOLEAN /\ mishaps \in 0..MaxMishaps
    /\ ~overlap => locked = (\E a \in Actors : spot[a] \in Inside)

Stored == {chain[i].hash : i \in DOMAIN chain}

\* The stored chain never forks and never turns back: a row continues the row
\* before it, or an entry that was signed and never stored, whatever the
\* interleaving of the callers, the failed INSERTs and the restarts, as long
\* as no two actors were inside _chain_lock at once (append_and_persist,
\* "Firma Y persiste de forma atomica").
ChainNeverForks ==
    ~overlap =>
      \A i \in DOMAIN chain :
        \/ chain[i].prev = IF i = 1 THEN Genesis ELSE chain[i - 1].hash
        \/ chain[i].prev \notin Stored \cup {Genesis}

\* No stored row is forgotten by the anchors: it has a token or waits in
\* pending_queue.json, unless its anchoring failed before it was queued.
NothingForgotten ==
    ~overlap => Stored \subseteq tokens \cup Range(unsent) \cup unanchored

\* Heads are time-stamped in chain order, so a token vouches for every queued
\* row before it, and latest.txt names the newest of them.
TokensInOrder ==
    ~overlap =>
      /\ \A i, j \in DOMAIN chain :
           i < j /\ chain[j].hash \in tokens
             => chain[i].hash \in tokens \cup unanchored
      /\ \A h \in tokens : h <= latest

\* No append waits for a lock that nobody will release: while one waits, an
\* append that can still move is inside it, or a release has woken the first of
\* the queue and its loop hears it.  (An SSH call that waits takes the lock to
\* its own loop; then it may sleep on.)
WaitersAreServed ==
    (boundTo \in {"none", "main"} /\ waiters # <<>>)
      => \/ woken /\ Head(waiters) \notin deaf
         \/ \E a \in Actors : spot[a] \in Inside

\* The stored chain is linear, its anchors lose nothing and no append waits
\* for ever (append_and_persist).
AuditSafe ==
    /\ AuditTypeOK /\ ChainNeverForks /\ NothingForgotten /\ TokensInOrder
    /\ WaitersAreServed
=============================================================================
