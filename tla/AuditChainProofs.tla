-------------------------- MODULE AuditChainProofs --------------------------
(***************************************************************************)
(* Proofs about the signed audit chain, for any number of callers and SSH  *)
(* threads, entries and mishaps.  Two layers: what holds whatever threads  *)
(* do to the lock (the types, the entries promised, LockKept), and what    *)
(* holds while no two actors were inside it at once (Linear).              *)
(***************************************************************************)
EXTENDS AuditChain, FiniteSetTheorems, WellFoundedInduction, TLAPS

AuditTypes ==
    /\ chain \in Seq(Entries) /\ lastHash \in 0..MaxEntries
    /\ signed \in 0..MaxEntries
    /\ locked \in BOOLEAN /\ waiters \in Seq(Actors) /\ woken \in BOOLEAN
    /\ boundTo \in {"none", "main", "closed"} \cup SshThreads
    /\ deaf \subseteq SshThreads
    /\ spot \in [Actors -> AuditPlaces] /\ entry \in [Actors -> Entries]
    /\ flushing \in [Actors -> Seq(Hashes)]
    /\ unsent \in Seq(Hashes) /\ tokens \subseteq Hashes
    /\ latest \in 0..MaxEntries /\ unanchored \subseteq Hashes
    /\ overlap \in BOOLEAN /\ mishaps \in 0..MaxMishaps

(* The appends that have been promised an entry; those inside the lock.    *)
Promised == {a \in Actors : spot[a] \in {"peeked", "waiting"}}
IsInside(a) == spot[a] \in Inside

Counted == IsFiniteSet(Promised) /\ signed + Cardinality(Promised) <= MaxEntries

(* The lock, also when threads take it behind each other's back: it is     *)
(* locked only by an actor inside, and whoever waits for it is woken or    *)
(* waits while it is locked.                                               *)
LockKept ==
    /\ locked => \E a \in Actors : IsInside(a)
    /\ waiters # <<>> => woken \/ locked
    /\ woken => waiters # <<>>
    /\ boundTo \in {"none", "main"} => \A i \in DOMAIN waiters : waiters[i] \in Callers

(* The hash of the last row, and what may be signed against next: that     *)
(* hash, or one that was signed and never stored.                          *)
Tip == IF chain = <<>> THEN Genesis ELSE chain[Len(chain)].hash
Continues(h) == h = Tip \/ h \notin Stored \cup {Genesis}
Issued == Stored \cup Range(unsent) \cup tokens

SignedInOrder ==
    /\ \A i, j \in DOMAIN chain : i < j => chain[i].hash < chain[j].hash
    /\ \A i \in DOMAIN chain : chain[i].prev < chain[i].hash
    /\ \A h \in Issued : 1 <= h /\ h <= signed
    /\ lastHash <= signed /\ Continues(lastHash)

OneInside ==
    /\ \A a, b \in Actors : IsInside(a) /\ IsInside(b) => a = b
    /\ \A a \in Actors : IsInside(a) => locked
    /\ \A a \in Actors : spot[a] = "flushing" => flushing[a] = unsent
    /\ \A a \in Actors :
          spot[a] = "holding" =>
             /\ entry[a].hash = lastHash /\ entry[a].prev < entry[a].hash
             /\ \A h \in Issued : h < entry[a].hash
             /\ Continues(entry[a].prev)

QueueInOrder ==
    /\ \A i, j \in DOMAIN unsent : i < j => unsent[i] < unsent[j]
    /\ \A h \in tokens : h <= latest /\ \A i \in DOMAIN unsent : h < unsent[i]

Linear == SignedInOrder /\ OneInside /\ QueueInOrder /\ ChainNeverForks /\ NothingForgotten

AuditInv ==
    /\ AuditTypes /\ Counted /\ LockKept
    /\ \A a \in Actors : spot[a] = "holding" => entry[a].hash \in 1..signed
    /\ ~overlap => Linear

(* Sequences: what appending, taking the head and list.remove do.          *)
LEMMA Appended ==
    ASSUME NEW S, NEW s \in Seq(S), NEW e \in S
    PROVE  /\ Append(s, e) \in Seq(S) /\ Len(s) \in Nat
           /\ Append(s, e) # <<>>
           /\ DOMAIN s = 1..Len(s) /\ DOMAIN Append(s, e) = 1..(Len(s) + 1)
           /\ Len(Append(s, e)) = Len(s) + 1
           /\ \A i \in 1..Len(s) : Append(s, e)[i] = s[i]
           /\ Append(s, e)[Len(s) + 1] = e
  OBVIOUS

LEMMA AppendedSet ==
    ASSUME NEW S, NEW s \in Seq(S), NEW e \in S
    PROVE  Range(Append(s, e)) = Range(s) \cup {e}
<1>1. \A i \in DOMAIN Append(s, e) : Append(s, e)[i] \in Range(s) \cup {e}
  <2> SUFFICES ASSUME NEW i \in DOMAIN Append(s, e)
               PROVE  Append(s, e)[i] \in Range(s) \cup {e}
    OBVIOUS
  <2>1. Append(s, e)[i] = e \/ (i \in DOMAIN s /\ Append(s, e)[i] = s[i])
    OBVIOUS
  <2> QED BY <2>1, Zenon DEF Range
<1>2. \A i \in DOMAIN s : s[i] \in Range(Append(s, e))
  <2>1. \A i \in DOMAIN s : i \in DOMAIN Append(s, e) /\ Append(s, e)[i] = s[i]
    BY Appended
  <2> QED BY <2>1, Zenon DEF Range
<1>3. e \in Range(Append(s, e))
  <2>1. Len(s) + 1 \in DOMAIN Append(s, e) /\ Append(s, e)[Len(s) + 1] = e
    BY Appended
  <2> QED BY <2>1, Zenon DEF Range
<1> QED BY <1>1, <1>2, <1>3, Zenon DEF Range

LEMMA Beheaded ==
    ASSUME NEW S, NEW s \in Seq(S), s # <<>>
    PROVE  /\ Tail(s) \in Seq(S) /\ Head(s) \in S /\ Head(s) = s[1]
           /\ DOMAIN s = 1..Len(s) /\ Len(s) \in Nat \ {0}
           /\ DOMAIN Tail(s) = 1..(Len(s) - 1)
           /\ \A i \in 1..(Len(s) - 1) : Tail(s)[i] = s[i + 1]
<1>1. Len(s) \in Nat \ {0} /\ DOMAIN s = 1..Len(s)
  OBVIOUS
<1> QED BY <1>1

LEMMA BeheadedSet ==
    ASSUME NEW S, NEW s \in Seq(S), s # <<>>
    PROVE  Range(s) = {Head(s)} \cup Range(Tail(s))
<1>1. \A i \in DOMAIN s : s[i] \in {Head(s)} \cup Range(Tail(s))
  <2> SUFFICES ASSUME NEW i \in DOMAIN s, i # 1 PROVE s[i] \in Range(Tail(s))
    BY Beheaded, Zenon
  <2>1. i - 1 \in DOMAIN Tail(s) /\ Tail(s)[i - 1] = s[i]
    BY Beheaded
  <2> QED BY <2>1, Zenon DEF Range
<1>2. \A i \in DOMAIN Tail(s) : Tail(s)[i] \in Range(s)
  <2>1. \A i \in DOMAIN Tail(s) : i + 1 \in DOMAIN s /\ Tail(s)[i] = s[i + 1]
    BY Beheaded
  <2> QED BY <2>1, Zenon DEF Range
<1>3. Head(s) \in Range(s)
  <2>1. 1 \in DOMAIN s /\ s[1] = Head(s)
    BY Beheaded
  <2> QED BY <2>1, Zenon DEF Range
<1> QED BY <1>1, <1>2, <1>3, Zenon DEF Range

LEMMA RemovedType ==
    ASSUME NEW S, NEW s \in Seq(S), NEW i \in DOMAIN s
    PROVE  SubSeq(s, 1, i - 1) \o SubSeq(s, i + 1, Len(s)) \in Seq(S)
<1>1. i \in 1..Len(s) /\ Len(s) \in Nat /\ \A k \in 1..Len(s) : s[k] \in S
  OBVIOUS
<1>2. i \in Int /\ i - 1 \in Int /\ i + 1 \in Int /\ Len(s) \in Int /\ 1 \in Int
  BY <1>1
<1>3. \A k \in 1..(i - 1) : s[k] \in S
  BY <1>1
<1>4. \A k \in (i + 1)..Len(s) : s[k] \in S
  BY <1>1
<1>5. SubSeq(s, 1, i - 1) \in Seq(S)
  BY <1>1, <1>2, <1>3
<1>6. SubSeq(s, i + 1, Len(s)) \in Seq(S)
  BY <1>1, <1>2, <1>4
<1> QED BY <1>5, <1>6

(* A value that occurs in a sequence has a first occurrence.               *)
LEMMA FirstOccurs ==
    ASSUME NEW S, NEW s \in Seq(S), NEW h \in Range(s)
    PROVE  \E k \in DOMAIN s : s[k] = h /\ \A j \in 1..(k - 1) : s[j] # h
<1> DEFINE T == {k \in DOMAIN s : s[k] = h}
           R == {ss \in Nat \X Nat : ss[1] < ss[2]}
<1>1. DOMAIN s = 1..Len(s) /\ Len(s) \in Nat
  OBVIOUS
<1>2. T \subseteq Nat
  BY <1>1
<1>3. T # {}
  BY Zenon DEF Range
<1>4. IsWellFoundedOn(R, Nat)
  BY NatLessThanWellFounded, Zenon DEF OpToRel
<1>5. PICK k \in T : \A j \in T : ~(<<j, k>> \in R)
  <2> HIDE DEF T, R
  <2> QED BY <1>2, <1>3, <1>4, WFMin, Zenon
<1>6. ASSUME NEW j \in 1..(k - 1), s[j] = h PROVE FALSE
  <2>1. k \in 1..Len(s)
    BY <1>1, <1>5, Zenon
  <2>2. j \in DOMAIN s /\ j \in Nat /\ k \in Nat /\ j < k
    BY <1>1, <2>1
  <2>3. <<j, k>> \in R
    BY <2>2
  <2> QED BY <1>5, <1>6, <2>2, <2>3, Zenon
<1> QED BY <1>5, <1>6, Zenon

LEMMA WithoutType ==
    ASSUME NEW S, NEW s \in Seq(S), NEW h
    PROVE  Without(s, h) \in Seq(S)
<1>1. CASE h \in Range(s)
  <2> DEFINE i == CHOOSE k \in DOMAIN s : s[k] = h /\ \A j \in 1..(k - 1) : s[j] # h
  <2>1. Without(s, h) = SubSeq(s, 1, i - 1) \o SubSeq(s, i + 1, Len(s))
    BY <1>1, Zenon DEF Without
  <2>2. i \in DOMAIN s
    BY <1>1, FirstOccurs, Zenon
  <2> HIDE DEF i
  <2> QED BY <2>1, <2>2, RemovedType, Zenon
<1>2. CASE h \notin Range(s)
  BY <1>2, Zenon DEF Without
<1> QED BY <1>1, <1>2, Zenon

(* list.remove of the first element leaves the rest.                       *)
LEMMA WithoutHead ==
    ASSUME NEW S, NEW s \in Seq(S), s # <<>>
    PROVE  Without(s, Head(s)) = Tail(s)
<1> DEFINE h == Head(s)
           i == CHOOSE k \in DOMAIN s : s[k] = h /\ \A j \in 1..(k - 1) : s[j] # h
<1>1. h \in Range(s)
  BY BeheadedSet, Zenon
<1>2. i \in DOMAIN s /\ s[i] = h /\ \A j \in 1..(i - 1) : s[j] # h
  BY <1>1, FirstOccurs, Zenon
<1>3. Without(s, h) = SubSeq(s, 1, i - 1) \o SubSeq(s, i + 1, Len(s))
  BY <1>1, Zenon DEF Without
<1> HIDE DEF i, h
<1>4. i = 1
  <2>1. s[1] = h /\ DOMAIN s = 1..Len(s) /\ Len(s) \in Nat
    BY Beheaded, Zenon DEF h
  <2>2. i # 1 => 1 \in 1..(i - 1)
    BY <1>2, <2>1
  <2> QED BY <1>2, <2>1, <2>2, Zenon
<1>5. SubSeq(s, 1, 1 - 1) \o SubSeq(s, 1 + 1, Len(s)) = Tail(s)
  <2>1. SubSeq(s, 1, 0) = <<>>
    OBVIOUS
  <2>2. 1 - 1 = 0 /\ 1 + 1 = 2
    OBVIOUS
  <2>3. SubSeq(s, 2, Len(s)) = Tail(s)
    OBVIOUS
  <2>4. \A t \in Seq(S) : <<>> \o t = t
    OBVIOUS
  <2>5. <<>> \o Tail(s) = Tail(s)
    BY <2>4, Beheaded, Zenon
  <2> QED BY <2>1, <2>2, <2>3, <2>5, Zenon
<1> QED BY <1>3, <1>4, <1>5, Zenon DEF h

(* Counting the entries that are promised.                                 *)
LEMMA PlaceFacts ==
    /\ Inside \subseteq AuditPlaces /\ "idle" \in AuditPlaces
    /\ {"peeked", "waiting", "holding", "flushing"} \subseteq AuditPlaces
    /\ "idle" \notin Inside /\ "peeked" \notin Inside /\ "waiting" \notin Inside
    /\ "holding" \in Inside /\ "flushing" \in Inside
  BY Zenon DEF Inside, AuditPlaces

LEMMA SpotTo ==
    ASSUME AuditInv, NEW a \in Actors, NEW x \in AuditPlaces,
           spot' = [spot EXCEPT ![a] = x]
    PROVE  /\ spot' \in [Actors -> AuditPlaces] /\ spot'[a] = x
           /\ \A b \in Actors : b # a => spot'[b] = spot[b]
<1>1. spot \in [Actors -> AuditPlaces]
  BY Zenon DEF AuditInv, AuditTypes
<1> QED BY <1>1, Zenon

LEMMA CountedFacts ==
    ASSUME AuditInv
    PROVE  /\ IsFiniteSet(Promised) /\ Cardinality(Promised) \in Nat
           /\ signed \in Nat /\ MaxEntries \in Nat
           /\ signed + Cardinality(Promised) <= MaxEntries
<1>1. IsFiniteSet(Promised) /\ signed + Cardinality(Promised) <= MaxEntries
  BY Zenon DEF AuditInv, Counted
<1>2. signed \in 0..MaxEntries
  BY Zenon DEF AuditInv, AuditTypes
<1>3. signed \in Nat
  BY <1>2, AuditAssumption
<1> QED BY <1>1, <1>3, AuditAssumption, FS_CardinalityType, Zenon

(* Nobody is promised an entry who was not, and the number stays.          *)
LEMMA CountStays ==
    ASSUME AuditInv, NEW a \in Actors, signed' = signed,
           \A b \in Actors : b # a => spot'[b] = spot[b],
           a \notin Promised, spot'[a] \notin {"peeked", "waiting"}
    PROVE  Counted'
<1>1. Promised' = Promised
  BY Zenon DEF Promised
<1> QED BY <1>1, Zenon DEF AuditInv, Counted

LEMMA CountGrows ==
    ASSUME AuditInv, NEW a \in Actors, signed' = signed, Room,
           \A b \in Actors : b # a => spot'[b] = spot[b],
           a \notin Promised, spot'[a] \in {"peeked", "waiting"}
    PROVE  Counted'
<1>1. Promised' = Promised \cup {a}
  BY Zenon DEF Promised
<1>2. /\ IsFiniteSet(Promised \cup {a})
      /\ Cardinality(Promised \cup {a}) = Cardinality(Promised) + 1
  BY CountedFacts, FS_AddElement, Zenon
<1>3. signed + Cardinality(Promised) < MaxEntries
  BY Zenon DEF Room, Promised
<1>4. signed + (Cardinality(Promised) + 1) <= MaxEntries
  BY <1>3, CountedFacts
<1> QED BY <1>1, <1>2, <1>4, Zenon DEF Counted

(* A promise is kept: the entry is signed.                                 *)
LEMMA CountMoves ==
    ASSUME AuditInv, NEW a \in Actors, signed' = signed + 1,
           \A b \in Actors : b # a => spot'[b] = spot[b],
           a \in Promised, spot'[a] \notin {"peeked", "waiting"}
    PROVE  Counted' /\ signed + 1 <= MaxEntries
<1>1. Promised' = Promised \ {a}
  BY Zenon DEF Promised
<1>2. /\ IsFiniteSet(Promised \ {a})
      /\ Cardinality(Promised \ {a}) = Cardinality(Promised) - 1
  BY CountedFacts, FS_RemoveElement, Zenon
<1>3. Cardinality(Promised \ {a}) \in Nat
  BY <1>2, FS_CardinalityType, Zenon
<1>4. /\ (signed + 1) + (Cardinality(Promised) - 1) <= MaxEntries
      /\ Cardinality(Promised) - 1 \in Nat => signed + 1 <= MaxEntries
  BY CountedFacts
<1> QED BY <1>1, <1>2, <1>3, <1>4, Zenon DEF Counted

LEMMA CountSigns ==
    ASSUME AuditInv, NEW a \in Actors, signed' = signed + 1, Room,
           \A b \in Actors : b # a => spot'[b] = spot[b],
           a \notin Promised, spot'[a] \notin {"peeked", "waiting"}
    PROVE  Counted' /\ signed + 1 <= MaxEntries
<1>1. Promised' = Promised
  BY Zenon DEF Promised
<1>2. signed + Cardinality(Promised) < MaxEntries
  BY Zenon DEF Room, Promised
<1>3. signed + 1 + Cardinality(Promised) <= MaxEntries /\ signed + 1 <= MaxEntries
  BY <1>2, CountedFacts
<1> QED BY <1>1, <1>3, CountedFacts, Zenon DEF Counted

LEMMA CountResets ==
    ASSUME AuditInv, signed' = signed, spot' = [a \in Actors |-> "idle"]
    PROVE  Counted'
<1>1. \A a \in Actors : spot'[a] \notin {"peeked", "waiting"}
  BY Zenon
<1>2. Promised' = {}
  BY <1>1, Zenon DEF Promised
<1>3. signed + 0 <= MaxEntries
  BY CountedFacts
<1> QED BY <1>2, <1>3, FS_EmptySet, Zenon DEF Counted

LEMMA MishapCounted ==
    ASSUME AuditInv, Mishap
    PROVE  mishaps' \in 0..MaxMishaps
<1>1. mishaps \in 0..MaxMishaps
  BY Zenon DEF AuditInv, AuditTypes
<1> QED BY <1>1, AuditAssumption DEF Mishap

(* What does not change when the rows and the queue of heads do not.       *)
ChainStays ==
    /\ chain' = chain /\ unsent' = unsent /\ tokens' = tokens /\ latest' = latest
    /\ unanchored' = unanchored

LEMMA SetsStay ==
    ASSUME ChainStays
    PROVE  /\ Stored' = Stored /\ Issued' = Issued /\ Tip' = Tip
           /\ \A h : Continues(h)' <=> Continues(h)
<1>1. Stored' = Stored /\ Tip' = Tip
  BY Zenon DEF ChainStays, Stored, Tip
<1>2. Issued' = Issued
  BY <1>1, Zenon DEF ChainStays, Issued
<1>3. \A h : Continues(h)' <=> Continues(h)
  BY <1>1, Zenon DEF Continues
<1> QED BY <1>1, <1>2, <1>3, Zenon

LEMMA RowTypes ==
    ASSUME AuditInv, NEW i \in DOMAIN chain
    PROVE  /\ chain[i] \in Entries /\ chain[i].hash \in Nat /\ chain[i].prev \in Nat
           /\ chain[i].hash \in Stored
<1>1. chain \in Seq(Entries)
  BY Zenon DEF AuditInv, AuditTypes
<1>2. chain[i] \in Entries
  BY <1>1
<1>3. chain[i].hash \in 0..MaxEntries /\ chain[i].prev \in 0..MaxEntries
  BY <1>2, Zenon DEF Entries
<1>4. \A n \in 0..MaxEntries : n \in Nat
  BY AuditAssumption
<1> QED BY <1>2, <1>3, <1>4, Zenon DEF Stored

LEMMA IssuedNat == AuditInv => Issued \subseteq Nat
<1> SUFFICES ASSUME AuditInv PROVE Issued \subseteq Nat
  OBVIOUS
<1>1. Stored \subseteq Nat
  BY RowTypes, Zenon DEF Stored
<1>2. \A n \in Hashes : n \in Nat
  BY DEF Hashes
<1>3. tokens \subseteq Hashes /\ unsent \in Seq(Hashes)
  BY Zenon DEF AuditInv, AuditTypes
<1>4. \A i \in DOMAIN unsent : unsent[i] \in Hashes
  BY <1>3
<1> QED BY <1>1, <1>2, <1>3, <1>4, Zenon DEF Issued, Range

LEMMA OrderStays ==
    ASSUME ChainStays, ~overlap', ~overlap, Linear,
           signed' = signed, lastHash' = lastHash
    PROVE  SignedInOrder' /\ QueueInOrder' /\ ChainNeverForks' /\ NothingForgotten'
<1>1. SignedInOrder'
  BY SetsStay, Zenon DEF Linear, SignedInOrder, ChainStays
<1>2. QueueInOrder'
  BY Zenon DEF Linear, QueueInOrder, ChainStays
<1>3. ChainNeverForks' /\ NothingForgotten'
  BY SetsStay, Zenon DEF Linear, ChainNeverForks, NothingForgotten, ChainStays
<1> QED BY <1>1, <1>2, <1>3, Zenon

(* An append gets past the lock and signs its entry.                       *)
LEMMA EnterTypes ==
    ASSUME AuditInv, NEW a \in Actors, Enters(a), signed + 1 <= MaxEntries
    PROVE  /\ lastHash' \in 0..MaxEntries /\ signed' \in 0..MaxEntries
           /\ entry' \in [Actors -> Entries]
           /\ entry'[a].hash = signed + 1 /\ entry'[a].prev = lastHash
           /\ lastHash' = signed + 1 /\ signed' = signed + 1
           /\ \A b \in Actors : b # a => entry'[b] = entry[b]
<1>1. entry \in [Actors -> Entries] /\ lastHash \in 0..MaxEntries
  BY Zenon DEF AuditInv, AuditTypes
<1>2. signed + 1 \in 0..MaxEntries
  BY CountedFacts
<1> DEFINE e == [hash |-> signed + 1, prev |-> lastHash]
<1>3. e \in Entries /\ e.hash = signed + 1 /\ e.prev = lastHash
  BY <1>1, <1>2, Zenon DEF Entries
<1>4. entry' = [entry EXCEPT ![a] = e] /\ lastHash' = signed + 1 /\ signed' = signed + 1
  BY Zenon DEF Enters, SignEntry
<1> HIDE DEF e
<1> QED BY <1>1, <1>2, <1>3, <1>4, Zenon

LEMMA EnterStep ==
    ASSUME AuditInv, NEW a \in Actors, ~IsInside(a), Enters(a),
           signed + 1 <= MaxEntries, Counted',
           \/ UNCHANGED <<waiters, woken>>
           \/ waiters # <<>> /\ waiters' = Tail(waiters) /\ woken' = FALSE,
           UNCHANGED <<chain, boundTo, deaf, flushing, tsaVars, unanchored, mishaps>>
    PROVE  AuditInv'
<1>1. /\ spot' \in [Actors -> AuditPlaces] /\ spot'[a] = "holding"
      /\ \A b \in Actors : b # a => spot'[b] = spot[b]
  BY SpotTo, PlaceFacts, Zenon DEF Enters
<1>2. ChainStays
  BY Zenon DEF ChainStays, tsaVars
<1>3. waiters' \in Seq(Actors) /\ woken' \in BOOLEAN
  <2>1. waiters \in Seq(Actors) /\ woken \in BOOLEAN
    BY Zenon DEF AuditInv, AuditTypes
  <2> QED BY <2>1, Beheaded, Zenon
<1>4. /\ locked' = TRUE
      /\ overlap' = (overlap \/ \E b \in Actors \ {a} : spot[b] \in Inside)
  BY Zenon DEF Enters
<1>5. AuditTypes'
  <2>1. overlap' \in BOOLEAN
    BY <1>4, Zenon DEF AuditInv, AuditTypes
  <2> QED BY <1>1, <1>3, <1>4, <2>1, EnterTypes, Zenon DEF AuditInv, AuditTypes, tsaVars
<1>6. LockKept'
  <2>1. IsInside(a)'
    BY <1>1, PlaceFacts, Zenon DEF IsInside
  <2>2. woken' => waiters' # <<>>
    BY Zenon DEF AuditInv, LockKept
  <2>3. ASSUME boundTo' \in {"none", "main"}, NEW i \in DOMAIN waiters'
        PROVE  waiters'[i] \in Callers
    <3>1. \A j \in DOMAIN waiters : waiters[j] \in Callers
      BY <2>3, Zenon DEF AuditInv, LockKept
    <3>2. CASE waiters' = waiters
      BY <2>3, <3>1, <3>2, Zenon
    <3>3. CASE waiters # <<>> /\ waiters' = Tail(waiters)
      <4>1. waiters \in Seq(Actors)
        BY Zenon DEF AuditInv, AuditTypes
      <4>2. i + 1 \in DOMAIN waiters /\ waiters'[i] = waiters[i + 1]
        BY <2>3, <3>3, <4>1, Beheaded
      <4> QED BY <3>1, <4>2, Zenon
    <3> QED BY <3>2, <3>3, Zenon
  <2> QED BY <1>4, <2>1, <2>2, <2>3, Zenon DEF LockKept
<1>7. \A b \in Actors : spot'[b] = "holding" => entry'[b].hash \in 1..signed'
  <2>1. signed + 1 \in 1..(signed + 1) /\ \A h \in 1..signed : h \in 1..(signed + 1)
    BY CountedFacts
  <2> QED BY <1>1, <2>1, EnterTypes, Zenon DEF AuditInv
<1>8. ASSUME ~overlap' PROVE Linear'
  <2>1. ~overlap /\ Linear /\ \A b \in Actors : b # a => ~IsInside(b)
    BY <1>4, <1>8, Zenon DEF AuditInv, IsInside
  <2>2. \A h \in Issued : 1 <= h /\ h <= signed /\ h < signed + 1
    <3>1. \A h \in Issued : 1 <= h /\ h <= signed
      BY <2>1, Zenon DEF Linear, SignedInOrder
    <3> QED BY <3>1, IssuedNat, CountedFacts
  <2>3. lastHash <= signed /\ lastHash \in Nat
    BY <2>1, AuditAssumption DEF Linear, SignedInOrder, AuditInv, AuditTypes
  <2>4. signed + 1 \notin Stored \cup {Genesis}
    <3>1. signed + 1 \notin Issued
      BY <2>2, CountedFacts
    <3>2. signed + 1 # Genesis
      BY CountedFacts DEF Genesis
    <3> QED BY <3>1, <3>2, Zenon DEF Issued
  <2>5. SignedInOrder'
    <3>1. \A h \in Issued' : 1 <= h /\ h <= signed'
      <4>1. \A h \in Issued : h <= signed + 1
        BY <2>2, IssuedNat, CountedFacts
      <4> QED BY <1>2, <2>2, <4>1, SetsStay, EnterTypes, Zenon
    <3>2. lastHash' <= signed'
      BY EnterTypes, CountedFacts
    <3>3. Continues(lastHash)'
      BY <1>2, <2>4, SetsStay, EnterTypes, Zenon DEF Continues
    <3> QED BY <1>2, <2>1, <3>1, <3>2, <3>3, Zenon DEF Linear, SignedInOrder, ChainStays
  <2>6. OneInside'
    <3>1. \A b \in Actors : IsInside(b)' => b = a
      BY <1>1, <2>1, Zenon DEF IsInside
    <3>2. \A b \in Actors : spot'[b] # "flushing"
      BY <1>1, <3>1, PlaceFacts, Zenon DEF IsInside
    <3>3. /\ entry'[a].hash = lastHash' /\ entry'[a].prev < entry'[a].hash
          /\ \A h \in Issued' : h < entry'[a].hash
      <4>1. lastHash < signed + 1
        BY <2>3, CountedFacts
      <4> QED BY <1>2, <2>2, <4>1, EnterTypes, SetsStay, Zenon
    <3>4. Continues(entry[a].prev)'
      BY <1>2, <2>1, EnterTypes, SetsStay, Zenon DEF Linear, SignedInOrder, Continues
    <3>5. \A b \in Actors : spot'[b] = "holding" => b = a
      BY <3>1, PlaceFacts, Zenon DEF IsInside
    <3> QED BY <1>4, <3>1, <3>2, <3>3, <3>4, <3>5, Zenon DEF OneInside
  <2>7. QueueInOrder'
    BY <1>2, <2>1, Zenon DEF Linear, QueueInOrder, ChainStays
  <2>8. ChainNeverForks' /\ NothingForgotten'
    BY <1>2, <2>1, SetsStay, Zenon DEF Linear, ChainNeverForks, NothingForgotten, ChainStays
  <2> QED BY <2>5, <2>6, <2>7, <2>8, Zenon DEF Linear
<1> QED BY <1>5, <1>6, <1>7, <1>8, Zenon DEF AuditInv

(* A row is stored: it continues the chain, and its hash is queued or its  *)
(* anchoring has failed.                                                   *)
RowAdded(e) ==
    /\ chain' = Append(chain, e) /\ tokens' = tokens /\ latest' = latest
    /\ \/ unsent' = Append(unsent, e.hash) /\ unanchored' = unanchored
       \/ unsent' = unsent /\ unanchored' = unanchored \cup {e.hash}

LEMMA EntryFacts ==
    ASSUME AuditInv, NEW a \in Actors, spot[a] = "holding"
    PROVE  /\ entry[a] \in Entries /\ entry[a].hash \in Hashes
           /\ entry[a].hash \in Nat /\ entry[a].prev \in Nat
           /\ 1 <= entry[a].hash /\ entry[a].hash <= signed
           /\ entry[a].hash \in 0..MaxEntries
<1>1. entry[a] \in Entries /\ entry[a].hash \in 1..signed /\ signed \in 0..MaxEntries
  BY Zenon DEF AuditInv, AuditTypes
<1>2. entry[a].prev \in 0..MaxEntries
  BY <1>1, Zenon DEF Entries
<1>3. ASSUME NEW h \in 1..signed, NEW p \in 0..MaxEntries
      PROVE  h \in 1..MaxEntries /\ h \in Nat /\ p \in Nat /\ 1 <= h /\ h <= signed
             /\ h \in 0..MaxEntries
  BY <1>1, AuditAssumption
<1> QED BY <1>1, <1>2, <1>3, Zenon DEF Hashes

LEMMA AddedTypes ==
    ASSUME AuditInv, NEW a \in Actors, spot[a] = "holding", RowAdded(entry[a])
    PROVE  /\ chain' \in Seq(Entries) /\ unsent' \in Seq(Hashes)
           /\ tokens' \subseteq Hashes /\ latest' \in 0..MaxEntries
           /\ unanchored' \subseteq Hashes
<1>1. /\ chain \in Seq(Entries) /\ unsent \in Seq(Hashes) /\ tokens \subseteq Hashes
      /\ latest \in 0..MaxEntries /\ unanchored \subseteq Hashes
  BY Zenon DEF AuditInv, AuditTypes
<1>2. Append(chain, entry[a]) \in Seq(Entries) /\ Append(unsent, entry[a].hash) \in Seq(Hashes)
  BY <1>1, EntryFacts, Appended, Zenon
<1> QED BY <1>1, <1>2, EntryFacts, Zenon DEF RowAdded

LEMMA AddedSets ==
    ASSUME AuditInv, NEW a \in Actors, spot[a] = "holding", RowAdded(entry[a])
    PROVE  /\ Stored' = Stored \cup {entry[a].hash}
           /\ Issued' = Issued \cup {entry[a].hash}
           /\ Tip' = entry[a].hash
           /\ DOMAIN chain = 1..Len(chain) /\ Len(chain) \in Nat
           /\ DOMAIN chain' = 1..(Len(chain) + 1)
           /\ \A i \in 1..Len(chain) : chain'[i] = chain[i]
           /\ chain'[Len(chain) + 1] = entry[a]
<1> DEFINE e == entry[a]
           n == Len(chain)
<1>1. chain \in Seq(Entries) /\ unsent \in Seq(Hashes)
  BY Zenon DEF AuditInv, AuditTypes
<1>2. e \in Entries /\ e.hash \in Hashes
  BY EntryFacts, Zenon
<1>3. /\ n \in Nat /\ DOMAIN chain = 1..n /\ DOMAIN chain' = 1..(n + 1) /\ chain' # <<>>
      /\ Len(chain') = n + 1 /\ \A i \in 1..n : chain'[i] = chain[i]
      /\ chain'[n + 1] = e
  <2>1. chain' = Append(chain, e)
    BY Zenon DEF RowAdded
  <2> HIDE DEF e, n
  <2>2. Len(chain) = n
    BY DEF n
  <2> QED BY <1>1, <1>2, <2>1, <2>2, Appended
<1>4. \A i : i \in 1..(n + 1) <=> i \in 1..n \/ i = n + 1
  BY <1>3
<1>5. Stored' = Stored \cup {e.hash}
  <2> HIDE DEF e, n
  <2> QED BY <1>3, <1>4, Zenon DEF Stored
<1>6. Tip' = e.hash
  BY <1>3, Zenon DEF Tip
<1>7. Range(unsent') \subseteq Range(unsent) \cup {e.hash} /\ Range(unsent) \subseteq Range(unsent')
  <2>1. unsent' = unsent \/ unsent' = Append(unsent, e.hash)
    BY Zenon DEF RowAdded
  <2>2. Range(Append(unsent, e.hash)) = Range(unsent) \cup {e.hash}
    <3> HIDE DEF e
    <3> QED BY <1>1, <1>2, AppendedSet
  <2> QED BY <2>1, <2>2, Zenon
<1>8. Issued' = Issued \cup {e.hash}
  BY <1>5, <1>7, Zenon DEF Issued, RowAdded
<1> QED BY <1>3, <1>5, <1>6, <1>8, Zenon

LEMMA AddedInOrder ==
    ASSUME AuditInv, ~overlap, NEW a \in Actors, spot[a] = "holding",
           RowAdded(entry[a]), signed' = signed, lastHash' = entry[a].hash
    PROVE  SignedInOrder' /\ QueueInOrder'
<1> DEFINE e == entry[a]
           n == Len(chain)
<1>1. Linear
  BY Zenon DEF AuditInv
<1>2. e.prev < e.hash /\ \A h \in Issued : h < e.hash
  BY <1>1, Zenon DEF Linear, OneInside
<1>3. /\ DOMAIN chain = 1..n /\ n \in Nat /\ DOMAIN chain' = 1..(n + 1)
      /\ \A i \in 1..n : chain'[i] = chain[i] /\ chain[i].hash \in Issued
      /\ chain'[n + 1] = e
  <2>1. \A i \in DOMAIN chain : chain[i].hash \in Issued
    BY Zenon DEF Issued, Stored
  <2> QED BY <2>1, AddedSets, Zenon
<1> HIDE DEF e, n
<1>4. \A i, j \in 1..(n + 1) :
         i < j => i \in 1..n /\ (j \in 1..n \/ j = n + 1)
  BY <1>3
<1>5. \A i \in 1..(n + 1) : i \in 1..n \/ i = n + 1
  BY <1>3
<1>6. \A i, j \in DOMAIN chain' : i < j => chain'[i].hash < chain'[j].hash
  BY <1>1, <1>2, <1>3, <1>4, Zenon DEF Linear, SignedInOrder
<1>7. \A i \in DOMAIN chain' : chain'[i].prev < chain'[i].hash
  BY <1>1, <1>2, <1>3, <1>5, Zenon DEF Linear, SignedInOrder
<1>8. \A h \in Issued' : 1 <= h /\ h <= signed'
  BY <1>1, AddedSets, EntryFacts, Zenon DEF Linear, SignedInOrder, e
<1>9. lastHash' <= signed' /\ Continues(lastHash)'
  BY AddedSets, EntryFacts, Zenon DEF Continues
<1>10. QueueInOrder'
  <2>1. \A h \in tokens : h <= latest /\ h < e.hash
    BY <1>1, <1>2, Zenon DEF Linear, QueueInOrder, Issued
  <2>2. \A i \in DOMAIN unsent : unsent[i] < e.hash
    BY <1>2, Zenon DEF Issued, Range
  <2>3. CASE unsent' = unsent
    BY <1>1, <2>3, Zenon DEF Linear, QueueInOrder, RowAdded
  <2>4. CASE unsent' = Append(unsent, e.hash)
    <3> DEFINE m == Len(unsent)
    <3>1. unsent \in Seq(Hashes) /\ e.hash \in Hashes
      BY EntryFacts, Zenon DEF AuditInv, AuditTypes, e
    <3>2. /\ m \in Nat /\ DOMAIN unsent = 1..m /\ DOMAIN unsent' = 1..(m + 1)
          /\ \A i \in 1..m : unsent'[i] = unsent[i]
          /\ unsent'[m + 1] = e.hash
      BY <2>4, <3>1, Appended
    <3> HIDE DEF m
    <3>3. \A i, j \in 1..(m + 1) :
             i < j => i \in 1..m /\ (j \in 1..m \/ j = m + 1)
      BY <3>2
    <3>4. \A i \in 1..(m + 1) : i \in 1..m \/ i = m + 1
      BY <3>2
    <3>5. \A i, j \in DOMAIN unsent' : i < j => unsent'[i] < unsent'[j]
      BY <1>1, <2>2, <3>2, <3>3, Zenon DEF Linear, QueueInOrder
    <3>6. \A h \in tokens, i \in DOMAIN unsent' : h < unsent'[i]
      BY <1>1, <2>1, <3>2, <3>4, Zenon DEF Linear, QueueInOrder
    <3> QED BY <2>1, <3>5, <3>6, Zenon DEF QueueInOrder, RowAdded
  <2> QED BY <2>3, <2>4, Zenon DEF RowAdded, e
<1> QED BY <1>6, <1>7, <1>8, <1>9, <1>10, Zenon DEF SignedInOrder

LEMMA AddedContinues ==
    ASSUME AuditInv, ~overlap, NEW a \in Actors, spot[a] = "holding", RowAdded(entry[a])
    PROVE  ChainNeverForks' /\ NothingForgotten'
<1> DEFINE e == entry[a]
           n == Len(chain)
           Before(i) == IF i = 1 THEN Genesis ELSE chain[i - 1].hash
<1>1. Linear
  BY Zenon DEF AuditInv
<1>2. e.prev < e.hash /\ Continues(e.prev) /\ \A h \in Issued : h < e.hash
  BY <1>1, Zenon DEF Linear, OneInside
<1>3. /\ DOMAIN chain = 1..n /\ n \in Nat /\ DOMAIN chain' = 1..(n + 1)
      /\ \A i \in 1..n : chain'[i] = chain[i]
      /\ chain'[n + 1] = e /\ Stored' = Stored \cup {e.hash}
  BY AddedSets, Zenon
<1>4. e.hash \in Nat /\ e.prev \in Nat
  BY EntryFacts, Zenon
<1>5. ASSUME NEW i \in 1..n
      PROVE  chain[i].prev # e.hash
  <2>1. chain[i].prev < chain[i].hash /\ chain[i].hash < e.hash
    <3>1. i \in DOMAIN chain /\ chain[i].hash \in Issued
      BY <1>3, Zenon DEF Issued, Stored
    <3> QED BY <1>1, <1>2, <3>1, Zenon DEF Linear, SignedInOrder
  <2>2. chain[i].prev \in Nat /\ chain[i].hash \in Nat
    BY <1>3, RowTypes, Zenon
  <2> HIDE DEF e
  <2> QED BY <1>4, <2>1, <2>2
<1>6. e.prev # e.hash
  <2> HIDE DEF e
  <2> QED BY <1>2, <1>4
<1>7. ASSUME NEW i \in 1..(n + 1)
      PROVE  \/ i \in 1..n /\ (i # 1 => i - 1 \in 1..n)
             \/ i = n + 1 /\ (i # 1 => n \in 1..n /\ i - 1 = n)
  <2> HIDE DEF n
  <2> QED BY <1>3
<1>8. chain = <<>> <=> n = 0
  <2>1. chain \in Seq(Entries)
    BY Zenon DEF AuditInv, AuditTypes
  <2> QED BY <2>1
<1>9. n + 1 = 1 <=> n = 0
  BY <1>3
<1>10. ASSUME NEW i \in 1..n
       PROVE  \/ chain'[i].prev = IF i = 1 THEN Genesis ELSE chain'[i - 1].hash
              \/ chain'[i].prev \notin Stored' \cup {Genesis}
  <2>1. \/ chain[i].prev = IF i = 1 THEN Genesis ELSE chain[i - 1].hash
        \/ chain[i].prev \notin Stored \cup {Genesis}
    BY <1>1, <1>3, Zenon DEF Linear, ChainNeverForks
  <2>2. i # 1 => i - 1 \in 1..n
    BY <1>3
  <2> HIDE DEF e, n
  <2> QED BY <1>3, <1>5, <2>1, <2>2, Zenon
<1>11. \/ e.prev = IF n + 1 = 1 THEN Genesis ELSE chain'[(n + 1) - 1].hash
       \/ e.prev \notin Stored' \cup {Genesis}
  <2>1. CASE e.prev = Tip
    <3>1. n # 0 => n \in 1..n /\ (n + 1) - 1 = n
      BY <1>3
    <3> QED BY <1>3, <1>8, <1>9, <2>1, <3>1, Zenon DEF Tip
  <2>2. CASE e.prev \notin Stored \cup {Genesis}
    <3> HIDE DEF e, n
    <3> QED BY <1>3, <1>6, <2>2, Zenon
  <2> QED BY <1>2, <2>1, <2>2, Zenon DEF Continues
<1>12. ChainNeverForks'
  <2>1. \A i \in 1..(n + 1) : i \in 1..n \/ i = n + 1
    BY <1>7, Zenon
  <2> HIDE DEF e, n
  <2> QED BY <1>3, <1>10, <1>11, <2>1, Zenon DEF ChainNeverForks
<1>13. NothingForgotten'
  <2>1. Stored \subseteq tokens \cup Range(unsent) \cup unanchored
    BY <1>1, Zenon DEF Linear, NothingForgotten
  <2>2. unsent \in Seq(Hashes) /\ e.hash \in Hashes
    BY EntryFacts, Zenon DEF AuditInv, AuditTypes
  <2>3. Range(Append(unsent, e.hash)) = Range(unsent) \cup {e.hash}
    <3> HIDE DEF e
    <3> QED BY <2>2, AppendedSet
  <2> QED BY <1>3, <2>1, <2>3, Zenon DEF NothingForgotten, RowAdded
<1> QED BY <1>12, <1>13, Zenon

(* An append leaves the lock.                                              *)
LEMMA LetGoTypes ==
    ASSUME AuditInv, NEW a \in Actors, LetGo(a)
    PROVE  /\ locked' = FALSE /\ waiters' = waiters /\ overlap' = overlap
           /\ woken' \in BOOLEAN /\ boundTo' \in {"none", "main", "closed"} \cup SshThreads
           /\ deaf' \subseteq SshThreads
           /\ spot' \in [Actors -> AuditPlaces] /\ spot'[a] = "idle"
           /\ \A b \in Actors : b # a => spot'[b] = spot[b] /\ entry'[b] = entry[b]
           /\ entry' \in [Actors -> Entries] /\ flushing' \in [Actors -> Seq(Hashes)]
<1>1. /\ entry \in [Actors -> Entries] /\ flushing \in [Actors -> Seq(Hashes)]
      /\ woken \in BOOLEAN /\ locked \in BOOLEAN /\ deaf \subseteq SshThreads
      /\ boundTo \in {"none", "main", "closed"} \cup SshThreads
  BY Zenon DEF AuditInv, AuditTypes
<1>2. /\ spot' \in [Actors -> AuditPlaces] /\ spot'[a] = "idle"
      /\ \A b \in Actors : b # a => spot'[b] = spot[b]
  BY SpotTo, PlaceFacts, Zenon DEF LetGo
<1>3. NoEntry \in Entries
  BY AuditAssumption DEF NoEntry, Entries
<1>4. entry' \in [Actors -> Entries] /\ \A b \in Actors : b # a => entry'[b] = entry[b]
  BY <1>1, <1>3, Zenon DEF LetGo
<1>5. flushing' \in [Actors -> Seq(Hashes)]
  <2>1. <<>> \in Seq(Hashes)
    OBVIOUS
  <2>2. flushing' = [flushing EXCEPT ![a] = <<>>]
    BY Zenon DEF LetGo
  <2> QED BY <1>1, <2>1, <2>2, Zenon
<1>6. locked' = FALSE /\ waiters' = waiters /\ overlap' = overlap
  BY Zenon DEF LetGo
<1>7. deaf' \subseteq SshThreads
  BY <1>1, Zenon DEF LetGo
<1>8. woken' \in BOOLEAN
  BY <1>1, Zenon DEF LetGo
<1>9. boundTo' \in {"none", "main", "closed"} \cup SshThreads
  BY <1>1, Zenon DEF LetGo
<1> QED BY <1>2, <1>4, <1>5, <1>6, <1>7, <1>8, <1>9, Zenon

LEMMA LeaveStep ==
    ASSUME AuditInv, NEW a \in Actors, IsInside(a), LetGo(a), signed' = signed,
           /\ chain' \in Seq(Entries) /\ unsent' \in Seq(Hashes)
           /\ lastHash' \in 0..MaxEntries
           /\ tokens' \subseteq Hashes /\ latest' \in 0..MaxEntries
           /\ unanchored' \subseteq Hashes /\ mishaps' \in 0..MaxMishaps,
           ~overlap => /\ SignedInOrder' /\ QueueInOrder'
                       /\ ChainNeverForks' /\ NothingForgotten'
    PROVE  AuditInv'
<1>1. AuditTypes'
  <2>1. locked' \in BOOLEAN /\ overlap' \in BOOLEAN /\ waiters' \in Seq(Actors)
    BY LetGoTypes, Zenon DEF AuditInv, AuditTypes
  <2>2. signed' \in 0..MaxEntries
    BY Zenon DEF AuditInv, AuditTypes
  <2> QED BY <2>1, <2>2, LetGoTypes, Zenon DEF AuditTypes
<1>2. Counted'
  <2>1. a \notin Promised
    BY PlaceFacts, Zenon DEF Promised, IsInside
  <2>2. "idle" \notin {"peeked", "waiting"}
    BY Zenon
  <2> QED BY <2>1, <2>2, LetGoTypes, CountStays, Zenon
<1>3. LockKept'
  <2>1. waiters' # <<>> => woken'
    BY LetGoTypes, Zenon DEF AuditInv, LockKept, LetGo
  <2>2. woken' => waiters' # <<>>
    BY LetGoTypes, Zenon DEF AuditInv, LockKept, LetGo
  <2>3. boundTo' \in {"none", "main"} => boundTo \in {"none", "main"}
    BY Zenon DEF LetGo
  <2> QED BY <2>1, <2>2, <2>3, LetGoTypes, Zenon DEF AuditInv, LockKept
<1>4. \A b \in Actors : spot'[b] = "holding" => entry'[b].hash \in 1..signed'
  <2>1. "idle" # "holding"
    BY Zenon
  <2> QED BY <2>1, LetGoTypes, Zenon DEF AuditInv
<1>5. ASSUME ~overlap' PROVE Linear'
  <2>1. ~overlap
    BY <1>5, LetGoTypes, Zenon
  <2>2. \A b \in Actors : IsInside(b) => b = a
    BY <2>1, Zenon DEF AuditInv, Linear, OneInside
  <2>3. \A b \in Actors : ~IsInside(b)'
    BY <2>2, LetGoTypes, PlaceFacts, Zenon DEF IsInside
  <2>4. OneInside'
    BY <2>3, PlaceFacts, Zenon DEF OneInside, IsInside
  <2> QED BY <2>1, <2>4, Zenon DEF Linear
<1> QED BY <1>1, <1>2, <1>3, <1>4, <1>5, Zenon DEF AuditInv

(* The append ends and no row was stored in this step.                     *)
LEMMA LeaveOnly ==
    ASSUME AuditInv, NEW a \in Actors, IsInside(a), LetGo(a),
           mishaps' \in 0..MaxMishaps,
           UNCHANGED <<chain, lastHash, signed, tsaVars, unanchored>>
    PROVE  AuditInv'
<1>1. ChainStays /\ signed' = signed /\ lastHash' = lastHash
  BY Zenon DEF ChainStays, tsaVars
<1>2. /\ chain' \in Seq(Entries) /\ unsent' \in Seq(Hashes)
      /\ lastHash' \in 0..MaxEntries
      /\ tokens' \subseteq Hashes /\ latest' \in 0..MaxEntries
      /\ unanchored' \subseteq Hashes
  BY <1>1, Zenon DEF AuditInv, AuditTypes, ChainStays
<1>3. ~overlap => SignedInOrder' /\ QueueInOrder' /\ ChainNeverForks' /\ NothingForgotten'
  <2>1. overlap' = overlap
    BY LetGoTypes, Zenon
  <2> QED BY <1>1, <2>1, OrderStays, Zenon DEF AuditInv
<1> QED BY <1>1, <1>2, <1>3, LeaveStep, Zenon

LEMMA StoreFailsStep ==
    ASSUME AuditInv, NEW a \in Actors, StoreFails(a) PROVE AuditInv'
<1>1. IsInside(a) /\ mishaps' \in 0..MaxMishaps /\ LetGo(a)
  BY MishapCounted, Zenon DEF StoreFails, IsInside, Inside
<1> QED BY <1>1, LeaveOnly, Zenon DEF StoreFails

LEMMA AnchorFailsStep ==
    ASSUME AuditInv, NEW a \in Actors, AnchorFails(a) PROVE AuditInv'
<1>1. IsInside(a) /\ mishaps' \in 0..MaxMishaps /\ LetGo(a)
  BY MishapCounted, Zenon DEF AnchorFails, IsInside, Inside
<1> QED BY <1>1, LeaveOnly, Zenon DEF AnchorFails

LEMMA FinishedStep ==
    ASSUME AuditInv, NEW a \in Actors, Finished(a) PROVE AuditInv'
<1>1. IsInside(a) /\ mishaps' \in 0..MaxMishaps /\ LetGo(a)
  BY Zenon DEF Finished, AuditInv, AuditTypes, IsInside, Inside
<1> QED BY <1>1, LeaveOnly, Zenon DEF Finished

LEMMA WormFailsStep ==
    ASSUME AuditInv, NEW a \in Actors, WormFails(a) PROVE AuditInv'
<1>1. IsInside(a) /\ mishaps' \in 0..MaxMishaps /\ LetGo(a) /\ spot[a] = "holding"
  BY MishapCounted, Zenon DEF WormFails, IsInside, Inside
<1>2. RowAdded(entry[a]) /\ signed' = signed /\ lastHash' = lastHash
  BY Zenon DEF WormFails, RowAdded, tsaVars
<1>3. ASSUME ~overlap
      PROVE  SignedInOrder' /\ QueueInOrder' /\ ChainNeverForks' /\ NothingForgotten'
  <2>1. lastHash' = entry[a].hash
    BY <1>1, <1>2, <1>3, Zenon DEF AuditInv, Linear, OneInside
  <2> QED BY <1>1, <1>2, <1>3, <2>1, AddedInOrder, AddedContinues, Zenon
<1>4. lastHash' \in 0..MaxEntries
  BY <1>2, Zenon DEF AuditInv, AuditTypes
<1> QED BY <1>1, <1>2, <1>3, <1>4, AddedTypes, LeaveStep, Zenon

(* The row is stored and its hash queued; the append goes on to flush.     *)
LEMMA StoreStep ==
    ASSUME AuditInv, NEW a \in Actors, Store(a) PROVE AuditInv'
<1>1. spot[a] = "holding" /\ RowAdded(entry[a]) /\ signed' = signed /\ lastHash' = lastHash
  BY Zenon DEF Store, RowAdded
<1>2. /\ spot' \in [Actors -> AuditPlaces] /\ spot'[a] = "flushing"
      /\ \A b \in Actors : b # a => spot'[b] = spot[b]
  BY SpotTo, PlaceFacts, Zenon DEF Store
<1>3. flushing' \in [Actors -> Seq(Hashes)] /\ flushing'[a] = unsent'
  <2>1. flushing \in [Actors -> Seq(Hashes)] /\ unsent' \in Seq(Hashes)
    BY <1>1, AddedTypes, Zenon DEF AuditInv, AuditTypes
  <2>2. flushing' = [flushing EXCEPT ![a] = unsent']
    BY Zenon DEF Store
  <2> QED BY <2>1, <2>2, Zenon
<1>4. UNCHANGED <<locked, waiters, woken, boundTo, deaf, overlap, entry, mishaps>>
  BY Zenon DEF Store, lockVars
<1>5. AuditTypes'
  BY <1>1, <1>2, <1>3, <1>4, AddedTypes, Zenon DEF AuditInv, AuditTypes
<1>6. Counted'
  <2>1. a \notin Promised /\ "flushing" \notin {"peeked", "waiting"}
    BY <1>1, Zenon DEF Promised
  <2> QED BY <1>1, <1>2, <2>1, CountStays, Zenon
<1>7. \A b \in Actors : IsInside(b)' <=> IsInside(b)
  BY <1>1, <1>2, PlaceFacts, Zenon DEF IsInside
<1>8. LockKept'
  BY <1>4, <1>7, Zenon DEF AuditInv, LockKept
<1>9. \A b \in Actors : spot'[b] = "holding" => b # a /\ spot[b] = "holding"
  <2>1. "flushing" # "holding"
    BY Zenon
  <2> QED BY <1>2, <2>1, Zenon
<1>10. \A b \in Actors : spot'[b] = "holding" => entry'[b].hash \in 1..signed'
  BY <1>1, <1>4, <1>9, Zenon DEF AuditInv
<1>11. ASSUME ~overlap' PROVE Linear'
  <2>1. ~overlap
    BY <1>4, <1>11, Zenon
  <2>2. /\ \A b \in Actors : IsInside(b) => b = a
        /\ locked /\ lastHash' = entry[a].hash
    BY <1>1, <2>1, PlaceFacts, Zenon DEF AuditInv, Linear, OneInside, IsInside
  <2>3. SignedInOrder' /\ QueueInOrder' /\ ChainNeverForks' /\ NothingForgotten'
    BY <1>1, <2>1, <2>2, AddedInOrder, AddedContinues, Zenon
  <2>4. \A b \in Actors : spot'[b] # "holding"
    BY <1>9, <2>2, PlaceFacts, Zenon DEF IsInside
  <2>5. \A b \in Actors : spot'[b] = "flushing" => b = a
    BY <1>7, <2>2, PlaceFacts, Zenon DEF IsInside
  <2>6. OneInside'
    BY <1>3, <1>4, <1>7, <2>2, <2>4, <2>5, Zenon DEF OneInside
  <2> QED BY <2>3, <2>6, Zenon DEF Linear
<1> QED BY <1>5, <1>6, <1>8, <1>10, <1>11, Zenon DEF AuditInv

(* A head is time-stamped and leaves the queue.  With one append inside,   *)
(* the copy being flushed is the queue itself.                             *)
LEMMA AnchorTypes ==
    ASSUME AuditInv, NEW a \in Actors, Anchor(a)
    PROVE  /\ Head(flushing[a]) \in Hashes
           /\ unsent' \in Seq(Hashes) /\ tokens' \subseteq Hashes
           /\ tokens' = tokens \cup {Head(flushing[a])}
           /\ latest' = (IF Head(flushing[a]) \in tokens THEN latest ELSE Head(flushing[a]))
           /\ latest' \in 0..MaxEntries
           /\ unsent' = Without(unsent, Head(flushing[a]))
           /\ flushing' \in [Actors -> Seq(Hashes)] /\ flushing'[a] = Tail(flushing[a])
<1> DEFINE h == Head(flushing[a])
<1>1. /\ flushing \in [Actors -> Seq(Hashes)] /\ unsent \in Seq(Hashes)
      /\ tokens \subseteq Hashes /\ latest \in 0..MaxEntries
  BY Zenon DEF AuditInv, AuditTypes
<1>2. flushing[a] \in Seq(Hashes) /\ flushing[a] # <<>>
  BY <1>1, Zenon DEF Anchor
<1>3. h \in Hashes /\ Tail(flushing[a]) \in Seq(Hashes)
  BY <1>2, Beheaded, Zenon
<1>4. /\ unsent' = Without(unsent, h) /\ tokens' = tokens \cup {h}
      /\ latest' = IF h \in tokens THEN latest ELSE h
      /\ flushing' = [flushing EXCEPT ![a] = Tail(flushing[a])]
  BY Zenon DEF Anchor
<1>5. unsent' \in Seq(Hashes)
  BY <1>1, <1>4, WithoutType, Zenon
<1>6. flushing' \in [Actors -> Seq(Hashes)] /\ flushing'[a] = Tail(flushing[a])
  BY <1>1, <1>3, <1>4, Zenon
<1>7. \A n \in Hashes : n \in 0..MaxEntries
  BY DEF Hashes
<1>8. tokens' \subseteq Hashes
  BY <1>1, <1>3, <1>4, Zenon
<1>9. latest' \in 0..MaxEntries
  BY <1>1, <1>3, <1>4, <1>7, Zenon
<1> HIDE DEF h
<1> QED BY <1>3, <1>4, <1>5, <1>6, <1>8, <1>9, Zenon DEF h

LEMMA AnchorInOrder ==
    ASSUME AuditInv, NEW a \in Actors, Anchor(a), ~overlap
    PROVE  /\ QueueInOrder' /\ Issued' = Issued
           /\ tokens' \cup Range(unsent') = tokens \cup Range(unsent)
           /\ unsent' = Tail(unsent)
<1>1. Linear /\ flushing[a] = unsent /\ unsent # <<>>
  BY Zenon DEF AuditInv, Linear, OneInside, Anchor
<1>2. unsent \in Seq(Hashes)
  BY Zenon DEF AuditInv, AuditTypes
<1> DEFINE h == Head(unsent)
<1>3. tokens' = tokens \cup {h} /\ unsent' = Tail(unsent) /\ h \in Hashes
  BY <1>1, <1>2, AnchorTypes, WithoutHead, Zenon
<1>4. Range(unsent) = {h} \cup Range(Tail(unsent))
  BY <1>1, <1>2, BeheadedSet, Zenon
<1>5. tokens' \cup Range(unsent') = tokens \cup Range(unsent)
  BY <1>3, <1>4, Zenon
<1>6. Issued' = Issued
  <2>1. Stored' = Stored
    BY Zenon DEF Stored, Anchor
  <2> QED BY <1>5, <2>1, Zenon DEF Issued
<1> DEFINE n == Len(unsent)
<1>7. /\ DOMAIN unsent = 1..n /\ n \in Nat \ {0} /\ DOMAIN unsent' = 1..(n - 1)
      /\ h = unsent[1] /\ \A i \in 1..(n - 1) : unsent'[i] = unsent[i + 1]
  BY <1>1, <1>2, <1>3, Beheaded, Zenon
<1>8. \A x \in tokens : x <= latest /\ x < h
  <2>1. 1 \in DOMAIN unsent
    BY <1>7
  <2> QED BY <1>1, <1>7, <2>1, Zenon DEF Linear, QueueInOrder
<1>9. tokens \subseteq Nat /\ h \in Nat
  BY <1>3, IssuedNat DEF Issued, Hashes
<1> HIDE DEF n, h
<1>10. h \notin tokens
  <2>1. ~(h < h)
    BY <1>9
  <2> QED BY <1>8, <2>1, Zenon
<1>11. latest' = h
  BY <1>1, <1>10, AnchorTypes, Zenon DEF h
<1>12. \A i \in 1..(n - 1) : 1 \in 1..n /\ i + 1 \in 1..n /\ 1 < i + 1
  BY <1>7
<1>13. \A i, j \in DOMAIN unsent' : i < j => unsent'[i] < unsent'[j]
  <2>1. \A i, j \in 1..(n - 1) : i < j => i + 1 < j + 1
    BY <1>7
  <2>2. \A i, j \in 1..n : i < j => unsent[i] < unsent[j]
    BY <1>1, <1>7, Zenon DEF Linear, QueueInOrder
  <2>3. ASSUME NEW i \in 1..(n - 1), NEW j \in 1..(n - 1), i < j
        PROVE  unsent'[i] < unsent'[j]
    <3>1. unsent[i + 1] < unsent[j + 1]
      BY <1>12, <2>1, <2>2, <2>3, Zenon
    <3> QED BY <1>7, <3>1, Zenon
  <2> QED BY <1>7, <2>3, Zenon
<1>14. \A x \in tokens' : x <= latest'
  <2>1. \A x \in tokens : x <= h
    BY <1>8, <1>9
  <2>2. h <= h
    BY <1>9
  <2> QED BY <1>3, <1>11, <2>1, <2>2, Zenon
<1>15. \A x \in tokens', i \in DOMAIN unsent' : x < unsent'[i]
  <2>1. \A i, j \in 1..n : i < j => unsent[i] < unsent[j]
    BY <1>1, <1>7, Zenon DEF Linear, QueueInOrder
  <2>2. \A x \in tokens, i \in 1..n : x < unsent[i]
    BY <1>1, <1>7, Zenon DEF Linear, QueueInOrder
  <2>3. \A i \in 1..(n - 1) : h < unsent'[i]
    BY <1>7, <1>12, <2>1, Zenon
  <2>4. \A x \in tokens, i \in 1..(n - 1) : x < unsent'[i]
    BY <1>7, <1>12, <2>2, Zenon
  <2> QED BY <1>3, <1>7, <2>3, <2>4, Zenon
<1>16. QueueInOrder'
  BY <1>13, <1>14, <1>15, Zenon DEF QueueInOrder
<1> QED BY <1>3, <1>5, <1>6, <1>16, Zenon

LEMMA AnchorStep ==
    ASSUME AuditInv, NEW a \in Actors, Anchor(a) PROVE AuditInv'
<1>1. UNCHANGED <<chain, lastHash, signed, locked, waiters, woken, boundTo, deaf, overlap,
                  spot, entry, unanchored, mishaps>>
  BY Zenon DEF Anchor, lockVars
<1>2. AuditTypes'
  BY <1>1, AnchorTypes, Zenon DEF AuditInv, AuditTypes
<1>3. Counted'
  BY <1>1, Zenon DEF AuditInv, Counted, Promised
<1>4. LockKept'
  BY <1>1, Zenon DEF AuditInv, LockKept, IsInside
<1>5. \A b \in Actors : spot'[b] = "holding" => entry'[b].hash \in 1..signed'
  BY <1>1, Zenon DEF AuditInv
<1>6. ASSUME ~overlap' PROVE Linear'
  <2>1. ~overlap /\ Linear /\ spot[a] = "flushing"
    BY <1>1, <1>6, Zenon DEF AuditInv, Anchor
  <2>2. Stored' = Stored /\ Tip' = Tip
    BY <1>1, Zenon DEF Stored, Tip
  <2>3. \A h : Continues(h)' <=> Continues(h)
    BY <2>2, Zenon DEF Continues
  <2>4. SignedInOrder'
    BY <1>1, <2>1, <2>3, AnchorInOrder, Zenon DEF Linear, SignedInOrder
  <2>5. ChainNeverForks'
    BY <1>1, <2>1, <2>2, Zenon DEF Linear, ChainNeverForks
  <2>6. NothingForgotten'
    BY <1>1, <2>1, <2>2, AnchorInOrder, Zenon DEF Linear, NothingForgotten
  <2>7. OneInside'
    <3>1. \A b \in Actors : IsInside(b) => b = a
      BY <2>1, PlaceFacts, Zenon DEF Linear, OneInside, IsInside
    <3>2. \A b \in Actors : spot[b] # "holding" /\ (spot[b] = "flushing" => b = a)
      <4>1. "flushing" # "holding"
        BY Zenon
      <4> QED BY <2>1, <3>1, <4>1, PlaceFacts, Zenon DEF IsInside
    <3>3. flushing'[a] = unsent'
      BY <2>1, AnchorTypes, AnchorInOrder, Zenon DEF Linear, OneInside
    <3> QED BY <1>1, <2>1, <3>2, <3>3, Zenon DEF Linear, OneInside, IsInside
  <2> QED BY <2>1, <2>4, <2>5, <2>6, <2>7, AnchorInOrder, Zenon DEF Linear
<1> QED BY <1>2, <1>3, <1>4, <1>5, <1>6, Zenon DEF AuditInv

(* The ways past the lock.                                                 *)
LEMMA AcquireStep ==
    ASSUME AuditInv, NEW a \in Actors, Acquire(a) PROVE AuditInv'
<1>1. spot[a] = "idle" /\ Room /\ Enters(a) /\ signed' = signed + 1
  BY Zenon DEF Acquire, Enters, SignEntry
<1>2. /\ spot'[a] = "holding" /\ \A b \in Actors : b # a => spot'[b] = spot[b]
  BY <1>1, SpotTo, PlaceFacts, Zenon DEF Enters
<1>3. /\ a \notin Promised /\ ~IsInside(a) /\ "holding" \notin {"peeked", "waiting"}
  BY <1>1, Zenon DEF Promised, IsInside, Inside
<1>4. Counted' /\ signed + 1 <= MaxEntries
  BY <1>1, <1>2, <1>3, CountSigns, Zenon
<1> QED BY <1>1, <1>3, <1>4, EnterStep, Zenon DEF Acquire

LEMMA KeepsPromise ==
    ASSUME AuditInv, NEW a \in Actors, spot[a] \in {"peeked", "waiting"}, Enters(a)
    PROVE  Counted' /\ signed + 1 <= MaxEntries /\ ~IsInside(a)
<1>1. /\ spot'[a] = "holding" /\ \A b \in Actors : b # a => spot'[b] = spot[b]
  BY SpotTo, PlaceFacts, Zenon DEF Enters
<1>2. /\ a \in Promised /\ ~IsInside(a) /\ "holding" \notin {"peeked", "waiting"}
  BY Zenon DEF Promised, IsInside, Inside
<1>3. signed' = signed + 1
  BY Zenon DEF Enters, SignEntry
<1> QED BY <1>1, <1>2, <1>3, CountMoves, Zenon

LEMMA SeizeStep ==
    ASSUME AuditInv, NEW a \in Actors, Seize(a) PROVE AuditInv'
<1>1. spot[a] \in {"peeked", "waiting"} /\ Enters(a)
  BY Zenon DEF Seize
<1> QED BY <1>1, KeepsPromise, EnterStep, Zenon DEF Seize

LEMMA WakeUpStep ==
    ASSUME AuditInv, NEW a \in Actors, WakeUp(a) PROVE AuditInv'
<1>1. spot[a] \in {"peeked", "waiting"} /\ Enters(a)
  BY Zenon DEF WakeUp
<1>2. waiters # <<>> /\ waiters' = Tail(waiters) /\ woken' = FALSE
  BY Zenon DEF WakeUp, AuditInv, LockKept
<1> QED BY <1>1, <1>2, KeepsPromise, EnterStep, Zenon DEF WakeUp

(* An append comes to the lock and is not past it yet.                     *)
LEMMA ArriveStep ==
    ASSUME AuditInv, NEW a \in Actors, spot[a] = "idle", Room,
           NEW x \in {"peeked", "waiting"}, spot' = [spot EXCEPT ![a] = x],
           /\ waiters' \in Seq(Actors)
           /\ boundTo' \in {"none", "main", "closed"} \cup SshThreads,
           LockKept',
           UNCHANGED <<chain, lastHash, signed, locked, woken, deaf, overlap, entry,
                       flushing, tsaVars, unanchored, mishaps>>
    PROVE  AuditInv'
<1>1. /\ spot' \in [Actors -> AuditPlaces] /\ spot'[a] = x
      /\ \A b \in Actors : b # a => spot'[b] = spot[b]
  BY SpotTo, PlaceFacts, Zenon
<1>2. AuditTypes'
  BY <1>1, Zenon DEF AuditInv, AuditTypes, tsaVars
<1>3. Counted'
  <2>1. a \notin Promised /\ signed' = signed
    BY Zenon DEF Promised
  <2> QED BY <1>1, <2>1, CountGrows, Zenon
<1>4. \A b \in Actors : /\ spot'[b] = "holding" <=> spot[b] = "holding"
                        /\ spot'[b] = "flushing" <=> spot[b] = "flushing"
  BY <1>1, Zenon
<1>5. \A b \in Actors : IsInside(b)' <=> IsInside(b)
  BY <1>4, Zenon DEF IsInside, Inside
<1>6. \A b \in Actors : spot'[b] = "holding" => entry'[b].hash \in 1..signed'
  BY <1>4, Zenon DEF AuditInv
<1>7. ASSUME ~overlap' PROVE Linear'
  <2>1. ~overlap /\ Linear
    BY <1>7, Zenon DEF AuditInv
  <2>2. ChainStays
    BY Zenon DEF ChainStays, tsaVars
  <2>3. SignedInOrder' /\ QueueInOrder' /\ ChainNeverForks' /\ NothingForgotten'
    BY <1>7, <2>1, <2>2, OrderStays, Zenon
  <2>4. \A b \in Actors : Continues(entry[b].prev)' <=> Continues(entry[b].prev)
    BY <2>2, SetsStay, Zenon DEF Continues
  <2>5. Issued' = Issued /\ unsent' = unsent
    BY <2>2, SetsStay, Zenon DEF ChainStays
  <2>6. OneInside'
    BY <1>4, <1>5, <2>1, <2>4, <2>5, Zenon DEF Linear, OneInside
  <2> QED BY <2>3, <2>6, Zenon DEF Linear
<1> QED BY <1>2, <1>3, <1>6, <1>7, Zenon DEF AuditInv

LEMMA SameInside ==
    ASSUME AuditInv, NEW a \in Actors, spot[a] = "idle",
           NEW x \in {"peeked", "waiting"}, spot' = [spot EXCEPT ![a] = x]
    PROVE  \A b \in Actors : IsInside(b) => IsInside(b)'
<1>1. \A b \in Actors : b # a => spot'[b] = spot[b]
  BY SpotTo, PlaceFacts, Zenon
<1> QED BY <1>1, PlaceFacts, Zenon DEF IsInside

LEMMA PeekStep ==
    ASSUME AuditInv, NEW a \in Actors, Peek(a) PROVE AuditInv'
<1>1. /\ spot[a] = "idle" /\ Room /\ spot' = [spot EXCEPT ![a] = "peeked"]
      /\ UNCHANGED <<chain, lastHash, signed, locked, woken, deaf, overlap, entry,
                     flushing, tsaVars, unanchored, mishaps, waiters, boundTo>>
      /\ "peeked" \in {"peeked", "waiting"}
  BY Zenon DEF Peek, lockVars
<1>2. LockKept'
  BY <1>1, SameInside, Zenon DEF AuditInv, LockKept
<1>3. waiters' \in Seq(Actors) /\ boundTo' \in {"none", "main", "closed"} \cup SshThreads
  BY <1>1, Zenon DEF AuditInv, AuditTypes
<1> QED BY <1>1, <1>2, <1>3, ArriveStep, Zenon

LEMMA WaitStep ==
    ASSUME AuditInv, NEW a \in Actors, Wait(a) PROVE AuditInv'
<1>1. /\ spot[a] = "idle" /\ Room /\ spot' = [spot EXCEPT ![a] = "waiting"]
      /\ UNCHANGED <<chain, lastHash, signed, locked, woken, deaf, overlap, entry,
                     flushing, tsaVars, unanchored, mishaps>>
      /\ waiters' = Append(waiters, a) /\ boundTo' = LoopOf(a)
      /\ boundTo \in {"none", LoopOf(a)}
      /\ "waiting" \in {"peeked", "waiting"} /\ ~LockFree
  BY Zenon DEF Wait
<1>2. waiters \in Seq(Actors)
  BY Zenon DEF AuditInv, AuditTypes
<1> DEFINE n == Len(waiters)
<1>3. /\ waiters' \in Seq(Actors) /\ waiters' # <<>>
      /\ n \in Nat /\ DOMAIN waiters = 1..n /\ DOMAIN waiters' = 1..(n + 1)
      /\ \A i \in 1..n : waiters'[i] = waiters[i]
      /\ waiters'[n + 1] = a
  BY <1>1, <1>2, Appended
<1> HIDE DEF n
<1>4. boundTo' \in {"none", "main", "closed"} \cup SshThreads
  BY <1>1, Zenon DEF LoopOf
<1>5. woken \/ locked
  BY <1>1, Zenon DEF LockFree, AuditInv, LockKept
<1>6. ASSUME boundTo' \in {"none", "main"}, NEW i \in DOMAIN waiters'
      PROVE  waiters'[i] \in Callers
  <2>1. a \in Callers /\ LoopOf(a) = "main"
    BY <1>1, <1>6, AuditAssumption, Zenon DEF LoopOf, Actors
  <2>2. \A j \in DOMAIN waiters : waiters[j] \in Callers
    BY <1>1, <2>1, Zenon DEF AuditInv, LockKept
  <2>3. i \in 1..n \/ i = n + 1
    BY <1>3, <1>6
  <2> QED BY <1>3, <2>1, <2>2, <2>3, Zenon
<1>7. LockKept'
  BY <1>1, <1>3, <1>5, <1>6, SameInside, Zenon DEF AuditInv, LockKept
<1> QED BY <1>1, <1>3, <1>4, <1>7, ArriveStep, Zenon

(* Nothing but the count of mishaps changes: acquire() raises in the wrong *)
(* loop, or nobody moves.                                                  *)
LEMMA NothingMoves ==
    ASSUME AuditInv, mishaps' \in 0..MaxMishaps,
           UNCHANGED <<chain, lastHash, signed, locked, waiters, woken, boundTo, deaf, overlap,
                       spot, entry, flushing, unsent, tokens, latest, unanchored>>
    PROVE  AuditInv'
<1>1. AuditTypes'
  BY Zenon DEF AuditInv, AuditTypes
<1>2. Counted' /\ LockKept'
  BY Zenon DEF AuditInv, Counted, Promised, LockKept, IsInside
<1>3. \A b \in Actors : spot'[b] = "holding" => entry'[b].hash \in 1..signed'
  BY Zenon DEF AuditInv
<1>4. ASSUME ~overlap' PROVE Linear'
  <2>1. ~overlap /\ Linear /\ ChainStays
    BY <1>4, Zenon DEF AuditInv, ChainStays
  <2>2. SignedInOrder' /\ QueueInOrder' /\ ChainNeverForks' /\ NothingForgotten'
    BY <1>4, <2>1, OrderStays, Zenon
  <2>3. \A b \in Actors : Continues(entry[b].prev)' <=> Continues(entry[b].prev)
    BY <2>1, SetsStay, Zenon DEF Continues
  <2>4. OneInside'
    BY <2>1, <2>3, SetsStay, Zenon DEF Linear, OneInside, IsInside
  <2> QED BY <2>2, <2>4, Zenon DEF Linear
<1> QED BY <1>1, <1>2, <1>3, <1>4, Zenon DEF AuditInv

LEMMA WrongLoopStep ==
    ASSUME AuditInv, NEW a \in Actors, WrongLoop(a) PROVE AuditInv'
  BY MishapCounted, NothingMoves, Zenon DEF WrongLoop, lockVars, tsaVars

(* The daemon dies: the next process starts with nobody inside the lock.   *)
LEMMA DeathStep ==
    ASSUME AuditInv, LockReset, signed' = signed, overlap' = overlap,
           spot' = [a \in Actors |-> "idle"], entry' = [a \in Actors |-> NoEntry],
           flushing' = [a \in Actors |-> <<>>], Mishap,
           /\ chain' \in Seq(Entries) /\ unsent' \in Seq(Hashes)
           /\ lastHash' \in 0..MaxEntries
           /\ tokens' \subseteq Hashes /\ latest' \in 0..MaxEntries
           /\ unanchored' \subseteq Hashes,
           ~overlap => /\ SignedInOrder' /\ QueueInOrder'
                       /\ ChainNeverForks' /\ NothingForgotten'
    PROVE  AuditInv'
<1>1. \A b \in Actors : spot'[b] = "idle"
  BY Zenon
<1>2. AuditTypes'
  <2>1. <<>> \in Seq(Hashes) /\ <<>> \in Seq(Actors)
    OBVIOUS
  <2>2. NoEntry \in Entries
    BY AuditAssumption DEF NoEntry, Entries
  <2>3. spot' \in [Actors -> AuditPlaces]
    BY PlaceFacts, Zenon
  <2>4. entry' \in [Actors -> Entries] /\ flushing' \in [Actors -> Seq(Hashes)]
    BY <2>1, <2>2, Zenon
  <2>5. /\ locked' \in BOOLEAN /\ waiters' \in Seq(Actors) /\ woken' \in BOOLEAN
        /\ boundTo' \in {"none", "main", "closed"} \cup SshThreads
        /\ deaf' \subseteq SshThreads
    BY <2>1, Zenon DEF LockReset
  <2>6. overlap' \in BOOLEAN /\ signed' \in 0..MaxEntries
    BY Zenon DEF AuditInv, AuditTypes
  <2> QED BY <2>3, <2>4, <2>5, <2>6, MishapCounted, Zenon DEF AuditTypes
<1>3. Counted'
  BY CountResets, Zenon
<1>4. LockKept'
  <2>1. locked' = FALSE /\ waiters' = <<>> /\ woken' = FALSE
    BY Zenon DEF LockReset
  <2>2. DOMAIN waiters' = {}
    BY <2>1
  <2> QED BY <2>1, <2>2, Zenon DEF LockKept
<1>5. \A b \in Actors : spot'[b] # "holding" /\ spot'[b] # "flushing" /\ ~IsInside(b)'
  BY <1>1, PlaceFacts, Zenon DEF IsInside
<1>6. OneInside'
  BY <1>5, Zenon DEF OneInside
<1> QED BY <1>2, <1>3, <1>4, <1>5, <1>6, Zenon DEF AuditInv, Linear

LEMMA TipFacts ==
    ASSUME AuditInv
    PROVE  /\ Tip \in 0..MaxEntries /\ Tip \in Stored \cup {Genesis}
           /\ ~overlap => Tip <= signed
<1>1. chain \in Seq(Entries)
  BY Zenon DEF AuditInv, AuditTypes
<1>2. chain # <<>> => Len(chain) \in DOMAIN chain
  BY <1>1, Beheaded
<1>3. Tip \in Stored \cup {Genesis}
  BY <1>2, RowTypes, Zenon DEF Tip
<1>4. Tip \in 0..MaxEntries
  <2>1. Genesis \in 0..MaxEntries
    BY AuditAssumption DEF Genesis
  <2>2. \A e \in Entries : e.hash \in 0..MaxEntries
    BY Zenon DEF Entries
  <2> QED BY <1>2, <2>1, <2>2, RowTypes, Zenon DEF Tip
<1>5. ~overlap => Tip <= signed
  <2>1. Genesis <= signed
    BY CountedFacts DEF Genesis
  <2> QED BY <1>3, <2>1, Zenon DEF AuditInv, Linear, SignedInOrder, Issued
<1> QED BY <1>3, <1>4, <1>5, Zenon

LEMMA DiesStep ==
    ASSUME AuditInv, AuditDaemonDies PROVE AuditInv'
<1>1. ChainStays /\ lastHash' = Tip /\ signed' = signed
  BY Zenon DEF AuditDaemonDies, ChainStays, tsaVars, Tip
<1>2. /\ chain' \in Seq(Entries) /\ unsent' \in Seq(Hashes)
      /\ lastHash' \in 0..MaxEntries
      /\ tokens' \subseteq Hashes /\ latest' \in 0..MaxEntries
      /\ unanchored' \subseteq Hashes
  BY <1>1, TipFacts, Zenon DEF AuditInv, AuditTypes, ChainStays
<1>3. ASSUME ~overlap
      PROVE  SignedInOrder' /\ QueueInOrder' /\ ChainNeverForks' /\ NothingForgotten'
  <2>1. Linear
    BY <1>3, Zenon DEF AuditInv
  <2>2. Continues(lastHash)'
    BY <1>1, SetsStay, Zenon DEF Continues
  <2>3. SignedInOrder'
    BY <1>1, <1>3, <2>1, <2>2, SetsStay, TipFacts, Zenon DEF Linear, SignedInOrder, ChainStays
  <2>4. QueueInOrder'
    BY <1>1, <2>1, Zenon DEF Linear, QueueInOrder, ChainStays
  <2>5. ChainNeverForks' /\ NothingForgotten'
    BY <1>1, <1>3, <2>1, SetsStay, Zenon
       DEF Linear, ChainNeverForks, NothingForgotten, ChainStays
  <2> QED BY <2>3, <2>4, <2>5, Zenon
<1> QED BY <1>1, <1>2, <1>3, DeathStep, Zenon DEF AuditDaemonDies

LEMMA DiesStoringStep ==
    ASSUME AuditInv, AuditDaemonDiesStoring PROVE AuditInv'
<1>1. PICK a \in Actors :
        /\ spot[a] = "holding" /\ RowAdded(entry[a]) /\ lastHash' = entry[a].hash
        /\ Mishap /\ LockReset /\ signed' = signed /\ overlap' = overlap
        /\ spot' = [b \in Actors |-> "idle"] /\ entry' = [b \in Actors |-> NoEntry]
        /\ flushing' = [b \in Actors |-> <<>>]
  BY Zenon DEF AuditDaemonDiesStoring, RowAdded, tsaVars
<1>2. lastHash' \in 0..MaxEntries
  BY <1>1, EntryFacts, Zenon
<1>3. ~overlap => SignedInOrder' /\ QueueInOrder' /\ ChainNeverForks' /\ NothingForgotten'
  BY <1>1, AddedInOrder, AddedContinues, Zenon
<1> QED BY <1>1, <1>2, <1>3, AddedTypes, DeathStep, Zenon

(* What the invariant says of the state.                                   *)
LEMMA InvIsSafe ==
    ASSUME AuditInv PROVE AuditSafe
<1>1. AuditTypeOK
  <2>1. ~overlap => locked = (\E a \in Actors : spot[a] \in Inside)
    BY Zenon DEF AuditInv, AuditTypes, LockKept, Linear, OneInside, IsInside
  <2> QED BY <2>1, Zenon DEF AuditInv, AuditTypes, AuditTypeOK
<1>2. ChainNeverForks /\ NothingForgotten
  BY Zenon DEF AuditInv, Linear, ChainNeverForks, NothingForgotten
<1>3. TokensInOrder
  <2> SUFFICES ASSUME ~overlap PROVE TokensInOrder
    BY Zenon DEF TokensInOrder
  <2>1. Linear
    BY Zenon DEF AuditInv
  <2>2. ASSUME NEW i \in DOMAIN chain, NEW j \in DOMAIN chain, i < j,
               chain[j].hash \in tokens
        PROVE  chain[i].hash \in tokens \cup unanchored
    <3>1. chain[i].hash \in tokens \cup Range(unsent) \cup unanchored
      BY <2>1, RowTypes, Zenon DEF Linear, NothingForgotten
    <3>2. chain[i].hash < chain[j].hash
      BY <2>1, <2>2, Zenon DEF Linear, SignedInOrder
    <3>3. ASSUME chain[i].hash \in Range(unsent) PROVE FALSE
      <4>1. chain[j].hash < chain[i].hash
        BY <2>1, <2>2, <3>3, Zenon DEF Linear, QueueInOrder, Range
      <4>2. chain[i].hash \in Nat /\ chain[j].hash \in Nat
        BY RowTypes, Zenon
      <4> QED BY <3>2, <4>1, <4>2
    <3> QED BY <3>1, <3>3, Zenon
  <2>3. \A h \in tokens : h <= latest
    BY <2>1, Zenon DEF Linear, QueueInOrder
  <2> QED BY <2>2, <2>3, Zenon DEF TokensInOrder
<1>4. WaitersAreServed
  <2> SUFFICES ASSUME boundTo \in {"none", "main"}, waiters # <<>>
               PROVE  \/ woken /\ Head(waiters) \notin deaf
                      \/ \E a \in Actors : spot[a] \in Inside
    BY Zenon DEF WaitersAreServed
  <2>1. waiters \in Seq(Actors) /\ deaf \subseteq SshThreads
    BY Zenon DEF AuditInv, AuditTypes
  <2>2. 1 \in DOMAIN waiters /\ Head(waiters) = waiters[1]
    BY <2>1, Beheaded
  <2>3. Head(waiters) \notin deaf
    BY <2>1, <2>2, AuditAssumption, Zenon DEF AuditInv, LockKept
  <2> QED BY <2>3, Zenon DEF AuditInv, LockKept, IsInside
<1> QED BY <1>1, <1>2, <1>3, <1>4, Zenon DEF AuditSafe

LEMMA AuditStarts == AuditInit => AuditInv
<1> SUFFICES ASSUME AuditInit PROVE AuditInv
  OBVIOUS
<1>1. AuditTypes
  <2>1. <<>> \in Seq(Hashes) /\ <<>> \in Seq(Actors) /\ <<>> \in Seq(Entries)
    OBVIOUS
  <2>2. NoEntry \in Entries /\ 0 \in 0..MaxEntries /\ 0 \in 0..MaxMishaps
    BY AuditAssumption DEF NoEntry, Entries
  <2>3. spot \in [Actors -> AuditPlaces]
    BY PlaceFacts, Zenon DEF AuditInit
  <2>4. entry \in [Actors -> Entries] /\ flushing \in [Actors -> Seq(Hashes)]
    BY <2>1, <2>2, Zenon DEF AuditInit
  <2> QED BY <2>1, <2>2, <2>3, <2>4, Zenon DEF AuditInit, AuditTypes, Genesis
<1>2. \A a \in Actors : spot[a] = "idle"
  BY Zenon DEF AuditInit
<1>3. Counted
  <2>1. Promised = {}
    BY <1>2, Zenon DEF Promised
  <2>2. signed + 0 <= MaxEntries
    BY AuditAssumption DEF AuditInit
  <2> QED BY <2>1, <2>2, FS_EmptySet, Zenon DEF Counted
<1>4. DOMAIN chain = {} /\ DOMAIN unsent = {} /\ DOMAIN waiters = {}
  BY DEF AuditInit
<1>5. LockKept
  BY <1>4, Zenon DEF AuditInit, LockKept
<1>6. \A b \in Actors : spot[b] # "holding" /\ spot[b] # "flushing" /\ ~IsInside(b)
  BY <1>2, PlaceFacts, Zenon DEF IsInside
<1>7. Stored = {} /\ Issued = {}
  BY <1>4, Zenon DEF Stored, Issued, AuditInit, Range
<1>8. SignedInOrder
  <2>1. lastHash <= signed
    BY DEF AuditInit, Genesis
  <2>2. Continues(lastHash)
    BY Zenon DEF Continues, Tip, AuditInit
  <2> QED BY <1>4, <1>7, <2>1, <2>2, Zenon DEF SignedInOrder
<1>9. OneInside
  BY <1>6, Zenon DEF OneInside
<1>10. QueueInOrder /\ ChainNeverForks /\ NothingForgotten
  BY <1>4, <1>7, Zenon DEF QueueInOrder, ChainNeverForks, NothingForgotten, AuditInit
<1> QED BY <1>1, <1>3, <1>5, <1>6, <1>8, <1>9, <1>10, Zenon DEF AuditInv, Linear

(* The invariant is kept by every step of the appends, by failed writes,   *)
(* by threads that seize the lock and by deaths of the daemon.             *)
THEOREM AuditInvariant == AuditSpec => []AuditInv
<1>1. ASSUME AuditInv, [AuditNext]_auditVars PROVE AuditInv'
  <2>1. ASSUME NEW a \in Actors,
               \/ AuditStep(a)
               \/ Peek(a) \/ Wait(a) \/ WrongLoop(a)
               \/ StoreFails(a) \/ WormFails(a) \/ AnchorFails(a)
        PROVE  AuditInv'
    BY <1>1, <2>1, AcquireStep, SeizeStep, WakeUpStep, StoreStep, AnchorStep, FinishedStep,
       PeekStep, WaitStep, WrongLoopStep, StoreFailsStep, WormFailsStep, AnchorFailsStep,
       Zenon DEF AuditStep
  <2>2. CASE AuditDaemonDies
    BY <1>1, <2>2, DiesStep, Zenon
  <2>3. CASE AuditDaemonDiesStoring
    BY <1>1, <2>3, DiesStoringStep, Zenon
  <2>4. CASE UNCHANGED auditVars
    BY <1>1, <2>4, NothingMoves, Zenon DEF AuditInv, AuditTypes, auditVars
  <2> QED BY <1>1, <2>1, <2>2, <2>3, <2>4, Zenon DEF AuditNext
<1> QED BY <1>1, AuditStarts, PTL DEF AuditSpec

(* For any number of callers and SSH threads, and any bounds: as long as   *)
(* no two actors were inside _chain_lock at once, the stored chain is      *)
(* linear through failed INSERTs, failed anchors and restarts, no stored   *)
(* row is forgotten by the anchors, tokens are given in chain order and    *)
(* latest.txt names the newest; and whatever the threads do to the lock,   *)
(* no append of the daemon's loop waits for one that nobody will release.  *)
THEOREM AuditIsSafe == AuditSpec => []AuditSafe
  BY AuditInvariant, InvIsSafe, PTL
=============================================================================
