--------------------------- MODULE RuntimeProofs ----------------------------
(***************************************************************************)
(* Proofs about the runtime authority: for every set of pairings and       *)
(* threads and every bound, a native turn is produced on the key that the  *)
(* authority of the boot assigns, a loss of authority is final for the     *)
(* process, and a shutdown reaches every call.                             *)
(*                                                                         *)
(* Proofs about the MCP servers: for every set of commands and of          *)
(* concurrent calls, only a cleared command runs, no client is lost        *)
(* between its owners, and a server the operator removed stays removed.    *)
(***************************************************************************)
EXTENDS RuntimeAuthority, McpServers, TLAPS

-----------------------------------------------------------------------------
(* The runtime authority.                                                  *)

StoreTypes ==
    /\ association \in Associations \union {NoPairing}
    /\ floor \in 0 .. MaxVersion
    /\ handshakes \subseteq Pairings
    /\ policy \in Policies \union {NoPolicy}
    /\ credential \in 0 .. MaxVersion

LifeTypes ==
    /\ life \in 0 .. MaxGeneration
    /\ recorded \in Authorities
    /\ pending \in BOOLEAN
    /\ moved \in BOOLEAN
    /\ faults \in 0 .. MaxFaults

BootTypes ==
    /\ proc \in {"down", "exec", "confining", "up"}
    /\ boot \in [gen : 0 .. MaxGeneration, auth : Authorities]
    /\ latch \in BOOLEAN /\ stopping \in BOOLEAN

NativeTypes ==
    /\ at \in [Threads -> Steps]
    /\ key \in [Threads -> 0 .. MaxVersion]
    /\ interrupts \subseteq Threads
    /\ interrupted \subseteq Threads

(* The key of an active policy is stored, also while the pairing is a      *)
(* tombstone: the same pairing can be saved again.                         *)
KeyIsStored ==
    policy # NoPolicy /\ policy.status = "active" => credential = policy.version

(* The lifecycle row tells the authority of the two stores.                *)
RowIsCurrent ==
    /\ life # 0 => recorded = Current
    /\ life = 0 => policy = NoPolicy /\ proc = "down"

(* A process holds a generation that was in force; while it still is, so   *)
(* is its authority, and once the authority has differed it is not.        *)
BootIsPast ==
    /\ proc # "down" =>
          /\ boot.gen <= life
          /\ boot.gen = life => boot.auth = recorded
    /\ proc = "up" /\ moved => boot.gen # life

(* A turn exists only in a process that is up, and from its first check on *)
(* it has the key of the boot.                                             *)
TurnsUnderBoot ==
    \A t \in Threads : at[t] # "idle" =>
        /\ proc = "up"
        /\ boot.auth.mode # "blocked"
        /\ key[t] = Assigned(boot.auth)

(* A running call has its callback registered, or it was interrupted.      *)
CallsAreKnown ==
    /\ stopping => latch
    /\ \A t \in Threads : at[t] = "calling" => t \in interrupts \union interrupted
    /\ ShutdownReachesCalls

AuthorityInv ==
    /\ StoreTypes /\ LifeTypes /\ BootTypes /\ NativeTypes
    /\ KeyIsStored /\ RowIsCurrent /\ BootIsPast /\ TurnsUnderBoot /\ CallsAreKnown

USE DEF StoreTypes, LifeTypes, BootTypes, NativeTypes

(* The value _authority computes is one the row can hold.                  *)
LEMMA AuthorityIsTyped ==
    ASSUME NEW pol \in Policies \union {NoPolicy},
           NEW asc \in Associations \union {NoPairing}
    PROVE  Authority(pol, asc) \in Authorities
  BY Zenon DEF Authority, Local, Active, Authorities

(* record_authority_transition: the row tells the authority it was given,  *)
(* the generation does not go back, and it stays only with the authority.  *)
LEMMA RecordFacts ==
    ASSUME LifeTypes, BootTypes, Writable \/ life = 0, AuthorityAssumption,
           NEW auth \in Authorities, Record(auth)
    PROVE  /\ life' \in 1 .. MaxGeneration /\ pending' \in BOOLEAN
           /\ recorded' = auth
           /\ life <= life'
           /\ life' = life => recorded' = recorded
           /\ moved' \in BOOLEAN
           /\ moved' => moved \/ (proc = "up" /\ auth # boot.auth)
  <1>1. CASE life = 0 \/ recorded # auth
    <2>1. life' = life + 1 /\ recorded' = auth /\ pending' = TRUE
      BY <1>1, Zenon DEF Record
    <2>2. moved' = (moved \/ (proc = "up" /\ auth # boot.auth))
      BY Zenon DEF Record
    <2>3. life \in 0 .. MaxGeneration /\ MaxGeneration \in Nat \ {0}
      BY Zenon DEF AuthorityAssumption
    <2>4. life' \in 1 .. MaxGeneration /\ life <= life' /\ life' # life
      BY <2>1, <2>3 DEF Writable
    <2> QED  BY <2>1, <2>2, <2>4, Zenon
  <1>2. CASE ~(life = 0 \/ recorded # auth)
    <2>1. life' = life /\ recorded' = recorded /\ pending' = pending
      BY <1>2, Zenon DEF Record, lifeVars
    <2>2. moved' = (moved \/ (proc = "up" /\ auth # boot.auth))
      BY Zenon DEF Record
    <2>3. life \in 1 .. MaxGeneration /\ life <= life
      BY <1>2
    <2> QED  BY <1>2, <2>1, <2>2, <2>3, Zenon
  <1> QED  BY <1>1, <1>2, Zenon

(* A process keeps its place in the past when the row moves by those rules.*)
LEMMA BootStaysPast ==
    ASSUME LifeTypes, BootTypes, BootIsPast, RowIsCurrent,
           life' \in 1 .. MaxGeneration, life <= life',
           life' = life => recorded' = recorded,
           moved' => moved \/ (proc = "up" /\ (life' # life \/ recorded' # boot.auth)),
           proc' = proc, boot' = boot
    PROVE  BootIsPast'
  <1>1. proc # "down" => boot.gen <= life /\ (boot.gen = life => boot.auth = recorded)
    BY Zenon DEF BootIsPast
  <1>2. boot.gen \in Int /\ life \in Int /\ life' \in Int
    OBVIOUS
  <1>3. proc # "down" => boot.gen <= life'
    BY <1>1, <1>2
  <1>4. proc # "down" /\ boot.gen = life' => life' = life /\ boot.auth = recorded'
    BY <1>1, <1>2
  <1>5. proc = "up" /\ moved' => boot.gen # life'
    BY <1>1, <1>2, <1>4, Zenon DEF BootIsPast
  <1> QED  BY <1>3, <1>4, <1>5, Zenon DEF BootIsPast

(* The two stores after a writer, and the row that tells them.             *)
LEMMA RecordKeepsInv ==
    ASSUME AuthorityInv, AuthorityAssumption, Writable,
           NEW auth \in Authorities, Record(auth),
           StoreTypes', KeyIsStored', auth = Current',
           UNCHANGED <<bootVars, nativeVars, faults>>
    PROVE  AuthorityInv'
  <1>1. /\ life' \in 1 .. MaxGeneration /\ pending' \in BOOLEAN
        /\ recorded' = auth /\ life <= life'
        /\ life' = life => recorded' = recorded
        /\ moved' \in BOOLEAN
        /\ moved' => moved \/ (proc = "up" /\ auth # boot.auth)
    BY RecordFacts, Zenon DEF AuthorityInv
  <1>2. LifeTypes' /\ BootTypes' /\ NativeTypes'
    BY <1>1 DEF AuthorityInv, bootVars, nativeVars
  <1>3. proc' = proc /\ boot' = boot
    BY Zenon DEF bootVars
  <1>4. RowIsCurrent'
    BY <1>1 DEF RowIsCurrent
  <1>5. BootIsPast'
    BY <1>1, <1>3, BootStaysPast, Zenon DEF AuthorityInv
  <1>6. TurnsUnderBoot' /\ CallsAreKnown'
    BY Zenon DEF AuthorityInv, TurnsUnderBoot, CallsAreKnown, ShutdownReachesCalls,
           bootVars, nativeVars
  <1> QED  BY <1>2, <1>4, <1>5, <1>6, Zenon DEF AuthorityInv

(* The writers of the pairing.                                             *)
LEMMA PairingKeepsInv ==
    ASSUME AuthorityInv, AuthorityAssumption, NEW p \in Pairings,
           SavePairing(p) \/ MarkRevoked
    PROVE  AuthorityInv'
  <1>1. /\ Writable
        /\ association' \in Associations /\ floor' \in 0 .. MaxVersion
        /\ handshakes' \subseteq Pairings
        /\ UNCHANGED <<policy, credential>>
        /\ Record(Authority(policy, association'))
        /\ UNCHANGED <<bootVars, nativeVars, faults>>
    <2>1. CASE SavePairing(p)
      <3>1. association' = [pairing |-> p, state |-> "active"] /\ floor' = 0
        BY <2>1, Zenon DEF SavePairing
      <3>2. handshakes' \subseteq Pairings
        BY <2>1, Zenon DEF SavePairing, AuthorityInv
      <3>3. 0 \in 0 .. MaxVersion
        BY DEF AuthorityAssumption
      <3>4. association' \in Associations
        BY <3>1, Zenon DEF Associations
      <3> QED  BY <2>1, <3>1, <3>2, <3>3, <3>4, Zenon DEF SavePairing
    <2>2. CASE MarkRevoked
      <3>1. association \in Associations
        BY <2>2, Zenon DEF MarkRevoked, AuthorityInv
      <3>2. association' \in Associations
        BY <2>2, <3>1, Zenon DEF MarkRevoked, Associations
      <3> QED  BY <2>2, <3>2, Zenon DEF MarkRevoked, AuthorityInv
    <2> QED  BY <2>1, <2>2, Zenon
  <1>2. StoreTypes' /\ KeyIsStored'
    BY <1>1, Zenon DEF AuthorityInv, KeyIsStored
  <1>3. Authority(policy, association') \in Authorities
    BY <1>1, AuthorityIsTyped, Zenon DEF AuthorityInv
  <1>4. Authority(policy, association') = Current'
    BY <1>1, Zenon DEF Current
  <1> QED  BY <1>1, <1>2, <1>3, <1>4, RecordKeepsInv, Zenon

LEMMA ClearKeepsInv ==
    ASSUME AuthorityInv, AuthorityAssumption, Clear
    PROVE  AuthorityInv'
  <1>1. /\ Writable /\ association' = NoPairing /\ floor' = 0
        /\ policy' = NoPolicy /\ credential' = 0 /\ handshakes' = handshakes
        /\ Record(Local)
        /\ UNCHANGED <<bootVars, nativeVars, faults>>
    BY Zenon DEF Clear
  <1>2. StoreTypes' /\ KeyIsStored'
    BY <1>1 DEF AuthorityInv, KeyIsStored, AuthorityAssumption
  <1>3. Local = Current' /\ Local \in Authorities
    BY <1>1, Zenon DEF Current, Authority, Local, Authorities
  <1> QED  BY <1>1, <1>2, <1>3, RecordKeepsInv, Zenon

(* _apply_signed_gateway_locked, however far it came.                      *)
LEMMA GatewayKeepsInv ==
    ASSUME AuthorityInv, AuthorityAssumption,
           NEW v \in 1 .. MaxVersion, NEW assigns \in BOOLEAN,
           NEW outcome \in {"early", "late", "done"},
           ApplySignedGateway(v, assigns, outcome)
    PROVE  AuthorityInv'
  <1> DEFINE applying == Authority([policy' EXCEPT !.status = "applying"], association)
             first == IF recorded = applying THEN life ELSE life + 1
  <1>1. /\ life + 1 < MaxGeneration /\ proc = "up"
        /\ association \in Associations
        /\ policy' = [version |-> v, assigns |-> assigns,
                      pairing |-> association.pairing,
                      status |-> Written(outcome, assigns)]
        /\ credential' = IF outcome = "early" THEN credential
                         ELSE IF assigns THEN v ELSE 0
        /\ UNCHANGED <<association, floor, handshakes, bootVars, nativeVars, faults>>
    BY Zenon DEF ApplySignedGateway, AuthorityInv, IsAssociated
  <1>2. /\ life' = IF applying = Current' THEN first ELSE first + 1
        /\ recorded' = Current'
        /\ pending' = (pending \/ life' # life)
        /\ moved' = (moved \/ {applying, Current'} # {boot.auth})
    BY <1>1, Zenon DEF ApplySignedGateway, Current
  <1>3. Written(outcome, assigns) \in {"applying", "active", "revoked"}
    BY Zenon DEF Written
  <1>4. policy' \in Policies
    BY <1>1, <1>3, Zenon DEF Policies, Associations
  <1>5. StoreTypes'
    BY <1>1, <1>4 DEF AuthorityInv
  <1>6. KeyIsStored'
    BY <1>1, Zenon DEF Written, KeyIsStored
  <1>7. Current' \in Authorities
    BY <1>1, <1>4, AuthorityIsTyped, Zenon DEF Current
  <1>8. life \in 0 .. MaxGeneration /\ MaxGeneration \in Nat
    BY Zenon DEF AuthorityInv, AuthorityAssumption
  <1>9. life # 0
    BY <1>1, Zenon DEF AuthorityInv, RowIsCurrent
  <1> HIDE DEF applying
  <1>10. life' \in 1 .. MaxGeneration /\ life <= life'
    BY <1>1, <1>2, <1>8, <1>9
  <1>11. life' = life => recorded = applying /\ applying = Current'
    BY <1>2, <1>8
  <1>12. moved' => moved \/ (proc = "up" /\ (life' # life \/ recorded' # boot.auth))
    BY <1>1, <1>2, <1>11, Zenon
  <1>13. LifeTypes' /\ BootTypes' /\ NativeTypes'
    BY <1>1, <1>2, <1>7, <1>10, <1>12 DEF AuthorityInv, bootVars, nativeVars
  <1>14. RowIsCurrent'
    BY <1>2, <1>10 DEF RowIsCurrent
  <1>15. BootIsPast'
    BY <1>1, <1>2, <1>10, <1>11, <1>12, BootStaysPast, Zenon DEF AuthorityInv, bootVars
  <1>16. TurnsUnderBoot' /\ CallsAreKnown'
    BY <1>1, Zenon DEF AuthorityInv, TurnsUnderBoot, CallsAreKnown, ShutdownReachesCalls,
           bootVars, nativeVars
  <1> QED  BY <1>5, <1>6, <1>13, <1>14, <1>15, <1>16, Zenon DEF AuthorityInv

(* The writers that leave the authority as it is.                          *)
LEMMA HandshakeKeepsInv ==
    ASSUME AuthorityInv, AuthorityAssumption,
           \/ \E p \in Pairings : BeginPair(p) \/ AbandonPair(p)
           \/ \E v \in 1 .. MaxVersion : SetLastAppliedVersion(v)
    PROVE  AuthorityInv'
  <1>1. /\ UNCHANGED <<association, policy, credential, lifeVars, bootVars,
                       nativeVars, moved, faults>>
        /\ handshakes' \subseteq Pairings /\ floor' \in 0 .. MaxVersion
    BY DEF BeginPair, AbandonPair, SetLastAppliedVersion, AuthorityInv
  <1>2. /\ UNCHANGED <<association, policy, credential, life, recorded, pending>>
        /\ UNCHANGED <<proc, boot, latch, stopping>>
        /\ UNCHANGED <<at, key, interrupts, interrupted, moved, faults>>
    BY <1>1, Zenon DEF lifeVars, bootVars, nativeVars
  <1>3. StoreTypes' /\ LifeTypes' /\ BootTypes' /\ NativeTypes'
    BY <1>1, <1>2, Zenon DEF AuthorityInv
  <1>4. KeyIsStored' /\ RowIsCurrent' /\ BootIsPast' /\ TurnsUnderBoot' /\ CallsAreKnown'
    BY <1>2, Zenon DEF AuthorityInv, KeyIsStored, RowIsCurrent, Current, BootIsPast,
                TurnsUnderBoot, CallsAreKnown, ShutdownReachesCalls
  <1> QED  BY <1>3, <1>4, Zenon DEF AuthorityInv

(* initialize_process.                                                     *)
LEMMA InitializeKeepsInv ==
    ASSUME AuthorityInv, AuthorityAssumption, InitializeProcess
    PROVE  AuthorityInv'
  <1>1. /\ proc = "down" /\ Record(Current)
        /\ proc' = IF Current.mode = "local" THEN "confining" ELSE "exec"
        /\ boot' = [gen |-> life', auth |-> recorded']
        /\ latch' = FALSE /\ stopping' = FALSE
        /\ interrupts' = {} /\ interrupted' = {}
        /\ UNCHANGED <<storeVars, at, key, faults>>
    BY Zenon DEF InitializeProcess
  <1>2. UNCHANGED <<association, floor, handshakes, policy, credential>>
    BY <1>1, Zenon DEF storeVars
  <1>3. Current \in Authorities /\ Current' = Current
    BY <1>2, AuthorityIsTyped, Zenon DEF AuthorityInv, Current
  <1>4. /\ life' \in 1 .. MaxGeneration /\ pending' \in BOOLEAN
        /\ recorded' = Current /\ moved' \in BOOLEAN
    <2>1. CASE life = 0
      BY <1>1, <1>3, <2>1, RecordFacts, Zenon DEF AuthorityInv
    <2>2. CASE life # 0
      <3>1. recorded = Current
        BY <2>2, Zenon DEF AuthorityInv, RowIsCurrent
      <3>2. UNCHANGED lifeVars
        BY <1>1, <2>2, <3>1, Zenon DEF Record
      <3>3. moved' = (moved \/ (proc = "up" /\ Current # boot.auth))
        BY <1>1, Zenon DEF Record
      <3> QED  BY <2>2, <3>1, <3>2, <3>3 DEF AuthorityInv, lifeVars
    <2> QED  BY <2>1, <2>2, Zenon
  <1>5. \A t \in Threads : at[t] = "idle"
    BY <1>1, Zenon DEF AuthorityInv, TurnsUnderBoot
  <1>6. StoreTypes' /\ LifeTypes'
    BY <1>1, <1>2, <1>3, <1>4 DEF AuthorityInv
  <1>7. BootTypes'
    <2>1. boot' \in [gen : 0 .. MaxGeneration, auth : Authorities]
      BY <1>1, <1>3, <1>4
    <2>2. proc' \in {"down", "exec", "confining", "up"}
      BY <1>1, Zenon
    <2> QED  BY <1>1, <2>1, <2>2, Zenon
  <1>8. NativeTypes'
    BY <1>1, Zenon DEF AuthorityInv
  <1>9. KeyIsStored'
    BY <1>2, Zenon DEF AuthorityInv, KeyIsStored
  <1>10. RowIsCurrent'
    BY <1>3, <1>4 DEF RowIsCurrent
  <1>11. BootIsPast'
    BY <1>1, <1>4 DEF BootIsPast
  <1>12. TurnsUnderBoot' /\ CallsAreKnown'
    BY <1>1, <1>5, Zenon DEF TurnsUnderBoot, CallsAreKnown, ShutdownReachesCalls
  <1> QED
    BY <1>6, <1>7, <1>8, <1>9, <1>10, <1>11, <1>12, Zenon DEF AuthorityInv

(* What the other steps of the daemon and all steps of a turn leave alone. *)
LEMMA FrameKeepsStores ==
    ASSUME AuthorityInv, UNCHANGED <<storeVars, life, recorded, boot>>,
           pending' \in BOOLEAN, moved' \in BOOLEAN, faults' \in 0 .. MaxFaults,
           proc' \in {"down", "exec", "confining", "up"},
           proc = "down" => proc' = "down",
           proc' = "up" /\ moved' => proc = "up" /\ moved,
           latch' \in BOOLEAN, stopping' \in BOOLEAN
    PROVE  /\ StoreTypes' /\ LifeTypes' /\ BootTypes'
           /\ KeyIsStored' /\ RowIsCurrent' /\ BootIsPast'
  <1>1. /\ UNCHANGED <<association, floor, handshakes, policy, credential>>
        /\ UNCHANGED <<life, recorded, boot>>
    BY Zenon DEF storeVars
  <1>2. StoreTypes' /\ LifeTypes' /\ BootTypes'
    BY <1>1, Zenon DEF AuthorityInv
  <1>3. KeyIsStored' /\ RowIsCurrent'
    BY <1>1, Zenon DEF AuthorityInv, KeyIsStored, RowIsCurrent, Current
  <1>4. BootIsPast'
    BY <1>1, Zenon DEF AuthorityInv, BootIsPast
  <1> QED  BY <1>2, <1>3, <1>4, Zenon

(* The other steps of the daemon.                                          *)
LEMMA DaemonKeepsInv ==
    ASSUME AuthorityInv, AuthorityAssumption,
           \/ ReadReceipt \/ CompleteBootstrap \/ Watch \/ Sigterm
           \/ CheckUnavailable \/ Exit \/ DaemonCrash \/ Denied
    PROVE  AuthorityInv'
  <1> USE DEF lifeVars, bootVars, nativeVars
  <1>0. faults < MaxFaults => faults + 1 \in 0 .. MaxFaults
    BY DEF AuthorityInv, AuthorityAssumption
  <1>1. /\ StoreTypes' /\ LifeTypes' /\ BootTypes'
        /\ KeyIsStored' /\ RowIsCurrent' /\ BootIsPast'
    <2>1. /\ UNCHANGED <<storeVars, life, recorded, boot>>
          /\ pending' \in BOOLEAN /\ moved' \in BOOLEAN
          /\ latch' \in BOOLEAN /\ stopping' \in BOOLEAN
          /\ proc' \in {"down", "exec", "confining", "up"}
          /\ faults' \in 0 .. MaxFaults
          /\ proc = "down" => proc' = "down"
          /\ proc' = "up" /\ moved' => proc = "up" /\ moved
      <3>1. CASE ReadReceipt
        BY <3>1, Zenon DEF ReadReceipt, AuthorityInv
      <3>2. CASE CompleteBootstrap
        BY <3>2, Zenon DEF CompleteBootstrap, AuthorityInv
      <3>3. CASE Watch
        BY <3>3, Zenon DEF Watch, HandleSigterm, AuthorityInv
      <3>4. CASE Sigterm
        BY <1>0, <3>4, Zenon DEF Sigterm, HandleSigterm, AuthorityInv
      <3>5. CASE CheckUnavailable
        BY <1>0, <3>5, Zenon DEF CheckUnavailable, AuthorityInv
      <3>6. CASE Exit
        BY <3>6, Zenon DEF Exit, Gone, AuthorityInv
      <3>7. CASE DaemonCrash
        BY <1>0, <3>7, Zenon DEF DaemonCrash, Gone, AuthorityInv
      <3>8. CASE Denied
        BY <3>8, Zenon DEF Denied, Refusal, AuthorityInv
      <3> QED  BY <3>1, <3>2, <3>3, <3>4, <3>5, <3>6, <3>7, <3>8, Zenon
    <2> QED  BY <2>1, FrameKeepsStores, Zenon
  <1>2. NativeTypes' /\ TurnsUnderBoot' /\ CallsAreKnown'
    <2>1. CASE ReadReceipt
      BY <2>1, Zenon DEF ReadReceipt, AuthorityInv, TurnsUnderBoot, CallsAreKnown,
                  ShutdownReachesCalls
    <2>2. CASE CompleteBootstrap
      BY <2>2, Zenon DEF CompleteBootstrap, AuthorityInv, TurnsUnderBoot, CallsAreKnown,
                  ShutdownReachesCalls
    <2>3. CASE Watch \/ Sigterm
      BY <2>3, Zenon DEF Watch, Sigterm, HandleSigterm, AuthorityInv, TurnsUnderBoot,
                  CallsAreKnown, ShutdownReachesCalls
    <2>4. CASE CheckUnavailable \/ Denied
      BY <2>4 DEF CheckUnavailable, Denied, Refusal, AuthorityInv, TurnsUnderBoot,
                  CallsAreKnown, ShutdownReachesCalls
    <2>5. CASE Exit \/ DaemonCrash
      <3>1. /\ at' = [t \in Threads |-> "idle"] /\ key' = [t \in Threads |-> 0]
            /\ interrupts' = {} /\ interrupted' = {}
            /\ UNCHANGED <<latch, stopping>>
        BY <2>5, Zenon DEF Exit, DaemonCrash, Gone
      <3>2. 0 \in 0 .. MaxVersion
        BY DEF AuthorityAssumption
      <3>3. NativeTypes'
        BY <3>1, <3>2, Zenon DEF Steps
      <3> QED
        BY <3>1, <3>3, Zenon DEF AuthorityInv, TurnsUnderBoot, CallsAreKnown,
                          ShutdownReachesCalls
    <2> QED  BY <2>1, <2>2, <2>3, <2>4, <2>5, Zenon
  <1> QED  BY <1>1, <1>2, Zenon DEF AuthorityInv

(* The key in the provider row, while the check passes, is the one that    *)
(* the authority of the boot assigns.                                      *)
LEMMA AdmittedKey ==
    ASSUME AuthorityInv, AuthorityAssumption, proc = "up", Admits
    PROVE  /\ boot.auth.mode # "blocked"
           /\ Assigned(boot.auth) = IF boot.auth.mode = "managed" THEN credential ELSE 0
           /\ boot.gen = life
  <1>1. boot = Expected /\ boot.auth.mode # "blocked"
    BY Zenon DEF Admits, Stands
  <1>2. boot.gen = life /\ boot.auth = recorded
    BY <1>1, Zenon DEF Expected
  <1>3. recorded = Current
    BY Zenon DEF AuthorityInv, RowIsCurrent
  <1>4. Current.mode = "managed" => Current.policy = policy /\ credential = policy.version
    BY Zenon DEF AuthorityInv, KeyIsStored, Current, Authority, Active, Local
  <1> QED  BY <1>1, <1>2, <1>3, <1>4, Zenon DEF Assigned

(* The steps of one turn.                                                  *)
LEMMA TurnKeepsInv ==
    ASSUME AuthorityInv, AuthorityAssumption, NEW t \in Threads, Turn(t)
    PROVE  AuthorityInv'
  <1> USE DEF lifeVars, bootVars
  <1>1. /\ UNCHANGED <<storeVars, lifeVars, proc, boot, stopping, moved, faults>>
        /\ proc = "up"
        /\ latch' \in BOOLEAN /\ (latch => latch')
    BY Zenon DEF Turn, Resolve, Build, Check, RegisterInterrupt, NativeReturns, Recheck,
           DeliverResult, ProducerRefused, CancelledEarly, Refusal, At, AuthorityInv
  <1>2. /\ StoreTypes' /\ LifeTypes' /\ BootTypes'
        /\ KeyIsStored' /\ RowIsCurrent' /\ BootIsPast'
    BY <1>1, FrameKeepsStores, Zenon DEF AuthorityInv
  <1>3. PICK step \in Steps : at' = [at EXCEPT ![t] = step]
    BY Zenon DEF Turn, Resolve, Build, Check, RegisterInterrupt, NativeReturns, Recheck,
           DeliverResult, ProducerRefused, CancelledEarly, Goto, Steps
  <1>4. at' \in [Threads -> Steps] /\ at'[t] = step
        /\ \A u \in Threads \ {t} : at'[u] = at[u]
    BY <1>3, Zenon DEF AuthorityInv
  <1>5. /\ key' \in [Threads -> 0 .. MaxVersion]
        /\ \A u \in Threads \ {t} : key'[u] = key[u]
        /\ step # "idle" => boot.auth.mode # "blocked" /\ key'[t] = Assigned(boot.auth)
    <2>1. CASE Resolve(t)
      <3>1. Admits /\ key' = [key EXCEPT ![t] = IF boot.auth.mode = "managed"
                                                THEN credential ELSE 0]
        BY <2>1, Zenon DEF Resolve
      <3>2. /\ boot.auth.mode # "blocked"
            /\ Assigned(boot.auth) = IF boot.auth.mode = "managed" THEN credential ELSE 0
        BY <1>1, <3>1, AdmittedKey, Zenon
      <3>3. 0 \in 0 .. MaxVersion /\ credential \in 0 .. MaxVersion
            /\ key \in [Threads -> 0 .. MaxVersion]
        BY DEF AuthorityAssumption, AuthorityInv
      <3> QED  BY <3>1, <3>2, <3>3, Zenon
    <2>2. CASE ~Resolve(t)
      <3>1. key' = key
        BY <2>2, Zenon DEF Turn, Build, Check, RegisterInterrupt, NativeReturns, Recheck,
                    DeliverResult, ProducerRefused, CancelledEarly
      <3>2. step # "idle" => at[t] # "idle"
        BY <1>4, <2>2, Zenon DEF Turn, Build, Check, RegisterInterrupt, NativeReturns,
              Recheck, DeliverResult, ProducerRefused, CancelledEarly, At, Goto,
              AuthorityInv
      <3> QED  BY <3>1, <3>2, Zenon DEF AuthorityInv, TurnsUnderBoot
    <2> QED  BY <2>1, <2>2, Zenon
  <1>6. TurnsUnderBoot'
    BY <1>1, <1>4, <1>5, Zenon DEF AuthorityInv, TurnsUnderBoot
  <1>7. /\ interrupted' = interrupted /\ interrupts' \subseteq Threads
        /\ \A u \in Threads \ {t} : u \in interrupts => u \in interrupts'
        /\ step = "calling" => t \in interrupts' /\ ~latch
    <2>1. CASE RegisterInterrupt(t)
      BY <2>1, Zenon DEF RegisterInterrupt, AuthorityInv
    <2>2. CASE ~RegisterInterrupt(t)
      <3>1. step # "calling"
        BY <1>4, <2>2, Zenon DEF Turn, Resolve, Build, Check, NativeReturns, Recheck,
              DeliverResult, ProducerRefused, CancelledEarly, Goto, AuthorityInv
      <3>2. interrupted' = interrupted /\ interrupts' \in {interrupts, interrupts \ {t}}
        BY <2>2, Zenon DEF Turn, Resolve, Build, Check, NativeReturns, Recheck,
              DeliverResult, ProducerRefused, CancelledEarly
      <3> QED  BY <3>1, <3>2, Zenon DEF AuthorityInv
    <2> QED  BY <2>1, <2>2, Zenon
  <1>8. NativeTypes'
    BY <1>4, <1>5, <1>7, Zenon DEF AuthorityInv
  <1>9. CallsAreKnown'
    BY <1>1, <1>4, <1>7, Zenon DEF AuthorityInv, CallsAreKnown, ShutdownReachesCalls
  <1> QED  BY <1>2, <1>6, <1>8, <1>9, Zenon DEF AuthorityInv

LEMMA AuthorityStarts == AuthorityAssumption /\ AuthorityInit => AuthorityInv
  <1> SUFFICES ASSUME AuthorityAssumption, AuthorityInit PROVE AuthorityInv
    OBVIOUS
  <1>1. Local \in Authorities /\ Current = Local
    BY Zenon DEF AuthorityInit, Local, Authorities, Current, Authority
  <1>0. 0 \in 0 .. MaxVersion /\ 0 \in 0 .. MaxGeneration /\ 0 \in 0 .. MaxFaults
    BY DEF AuthorityAssumption
  <1>2. StoreTypes /\ LifeTypes /\ NativeTypes
    BY <1>0, <1>1, Zenon DEF AuthorityInit, Steps
  <1>3. BootTypes
    <2>1. boot \in [gen : 0 .. MaxGeneration, auth : Authorities]
      BY <1>0, <1>1, Zenon DEF AuthorityInit
    <2> QED  BY <2>1, Zenon DEF AuthorityInit
  <1>4. KeyIsStored /\ RowIsCurrent /\ BootIsPast /\ TurnsUnderBoot /\ CallsAreKnown
    BY <1>1, Zenon DEF AuthorityInit, KeyIsStored, RowIsCurrent, BootIsPast, TurnsUnderBoot,
                CallsAreKnown, ShutdownReachesCalls
  <1> QED  BY <1>2, <1>3, <1>4, Zenon DEF AuthorityInv

LEMMA AuthorityStep ==
    AuthorityAssumption /\ AuthorityInv /\ [AuthorityNext]_authorityVars => AuthorityInv'
  <1> SUFFICES ASSUME AuthorityAssumption, AuthorityInv, [AuthorityNext]_authorityVars
               PROVE  AuthorityInv'
    OBVIOUS
  <1>1. CASE UNCHANGED authorityVars
    BY <1>1, ZenonT(60) DEF authorityVars, storeVars, lifeVars, bootVars, nativeVars, AuthorityInv,
       KeyIsStored, RowIsCurrent, Current, BootIsPast, TurnsUnderBoot, CallsAreKnown,
       ShutdownReachesCalls
  <1>2. CASE Writer
    <2>1. CASE (\E p \in Pairings : SavePairing(p)) \/ MarkRevoked
      <3>1. CASE \E p \in Pairings : SavePairing(p)
        BY <3>1, PairingKeepsInv, Zenon
      <3>2. CASE MarkRevoked
        <4>1. association \in Associations
          BY <3>2, Zenon DEF MarkRevoked, AuthorityInv
        <4>2. association.pairing \in Pairings
          BY <4>1, Zenon DEF Associations
        <4> QED  BY <3>2, <4>2, PairingKeepsInv, Zenon
      <3> QED  BY <2>1, <3>1, <3>2, Zenon
    <2>2. CASE Clear
      BY <2>2, ClearKeepsInv, Zenon
    <2>3. CASE \E v \in 1 .. MaxVersion, assigns \in BOOLEAN,
                  outcome \in {"early", "late", "done"} :
                  ApplySignedGateway(v, assigns, outcome)
      BY <2>3, GatewayKeepsInv, Zenon
    <2>4. CASE \/ \E p \in Pairings : BeginPair(p) \/ AbandonPair(p)
               \/ \E v \in 1 .. MaxVersion : SetLastAppliedVersion(v)
      BY <2>4, HandshakeKeepsInv, Zenon
    <2> QED  BY <1>2, <2>1, <2>2, <2>3, <2>4, Zenon DEF Writer
  <1>3. CASE Daemon
    BY <1>3, InitializeKeepsInv, DaemonKeepsInv, Zenon DEF Daemon
  <1>4. CASE \E t \in Threads : Turn(t)
    BY <1>4, TurnKeepsInv, Zenon
  <1> QED  BY <1>1, <1>2, <1>3, <1>4, Zenon DEF AuthorityNext

(* Every reachable state of the two stores, the lifecycle row, the process *)
(* and its turns satisfies the inductive invariant.                        *)
THEOREM AuthorityInvariant == AuthoritySpec => []AuthorityInv
  BY AuthorityAssumption, AuthorityStarts, AuthorityStep, PTL DEF AuthoritySpec

(* For every number of worker threads, pairings, policy versions and       *)
(* writes: an active policy has its key in the provider row, a turn handed *)
(* to the event loop ran on the key the boot's authority assigns and never *)
(* under a blocked one, and a call running after _handle_sigterm was among *)
(* the ones it interrupted.                                                *)
THEOREM AuthorityIsSafe == AuthoritySpec => []AuthoritySafe
  <1>1. AuthorityInv => AuthoritySafe
    <2> SUFFICES ASSUME AuthorityInv PROVE AuthoritySafe
      OBVIOUS
    <2>1. AuthorityTypeOK
      BY Zenon DEF AuthorityInv, AuthorityTypeOK
    <2>2. ActiveIsComplete
      BY Zenon DEF AuthorityInv, KeyIsStored, ActiveIsComplete, Current, Authority, Active, Local
    <2>3. ProducedUnderBoot
      BY Zenon DEF AuthorityInv, TurnsUnderBoot, ProducedUnderBoot
    <2>4. ShutdownReachesCalls
      BY Zenon DEF AuthorityInv, CallsAreKnown
    <2> QED  BY <2>1, <2>2, <2>3, <2>4, Zenon DEF AuthoritySafe
  <1> QED  BY <1>1, AuthorityInvariant, PTL

(* "A process cannot resume after authority changes, even if it changes    *)
(* back": once the stored authority has differed from the one of the boot, *)
(* no turn passes resolve_managed_config, a readiness check or either      *)
(* check of run_admitted_native again, since the generation never returns  *)
(* to the one of the boot.                                                 *)
THEOREM LossOfAuthorityIsFinal == AuthoritySpec => LossIsFinal
  <1> DEFINE Passed == {"resolved", "built", "checked", "ready"}
             NoPass == (proc = "up" /\ moved) =>
                           \A t \in Threads : at'[t] \in Passed => at[t] = at'[t]
  <1>1. ASSUME AuthorityInv, [AuthorityNext]_authorityVars
        PROVE  NoPass
    <2> SUFFICES ASSUME proc = "up", moved, NEW u \in Threads, at'[u] \in Passed
                 PROVE  at[u] = at'[u]
      OBVIOUS
    <2>1. ~Admits
      <3>1. boot.gen # life
        BY <1>1, Zenon DEF AuthorityInv, BootIsPast
      <3> QED  BY <3>1 DEF Admits, Stands, Expected
    <2>2. CASE UNCHANGED authorityVars \/ Writer
      BY <2>2, Zenon DEF authorityVars, nativeVars, Writer, BeginPair, AbandonPair, SavePairing,
            MarkRevoked, Clear, SetLastAppliedVersion, ApplySignedGateway
    <2>3. CASE Daemon
      <3>1. at' = at \/ at' = [t \in Threads |-> "idle"]
        BY <2>3, Zenon DEF Daemon, InitializeProcess, ReadReceipt, CompleteBootstrap, Watch,
              Sigterm, CheckUnavailable, Exit, DaemonCrash, Gone, Denied, nativeVars
      <3> QED  BY <3>1, Zenon
    <2>4. ASSUME NEW t \in Threads, Turn(t) PROVE at[u] = at'[u]
      <3>1. PICK step \in Steps \ Passed : at' = [at EXCEPT ![t] = step]
        BY <2>1, <2>4, Zenon DEF Turn, Resolve, Build, Check, RegisterInterrupt, NativeReturns,
              Recheck, DeliverResult, ProducerRefused, CancelledEarly, Goto, Steps
      <3> QED  BY <1>1, <3>1, Zenon DEF AuthorityInv
    <2> QED  BY <1>1, <2>2, <2>3, <2>4, Zenon DEF AuthorityNext
  <1>2. AuthoritySpec => [][NoPass]_authorityVars
    BY <1>1, AuthorityInvariant, PTL DEF AuthoritySpec
  <1> QED  BY <1>2, PTL DEF LossIsFinal

-----------------------------------------------------------------------------
(* The MCP servers.                                                        *)

FrameRecords ==
    [kind : {"none", "add", "remove", "rewire", "rewired", "boot"},
     place : FramePlaces, argv : Argvs \cup {NoArgv}, force : BOOLEAN,
     client : 0..MaxClients, scan : Frames \cup {NoFrame}]

ClientRecords == [argv : Argvs \cup {NoArgv}, phase : ClientPhases]

McpTypes ==
    /\ config \in Argvs \cup {NoArgv} /\ seedMark \in BOOLEAN
    /\ review \in Reviews
    /\ current \in 0..MaxClients
    /\ client \in [Clients -> ClientRecords]
    /\ frame \in [Frames -> FrameRecords]
    /\ calls \in 0..MaxCalls /\ mcpFaults \in 0..MaxMcpFaults
    /\ cleared \subseteq Argvs /\ dropped \in BOOLEAN /\ doubled \in BOOLEAN

(* A call before its review names a command, and one behind it a command   *)
(* that was cleared or shipped.                                            *)
Judging == {"scan", "scanning", "override", "rescan", "rescanning"}
Holding == {"handshake", "giveup", "popped"}
Runnable == cleared \cup {Seed, NoArgv}

Reviewed ==
    /\ config \in Runnable
    /\ \A c \in Clients : client[c].argv \in Runnable
    /\ \A f \in Frames :
          /\ frame[f].place \in Judging => frame[f].argv \in Argvs
          /\ frame[f].place \in {"prefetch", "queued"} \cup Holding
                => frame[f].argv \in Runnable

(* Who answers for a client: the call that holds it while it starts or is  *)
(* closed, the manager while it is open.  Two calls never hold the same    *)
(* client, and none holds the one that is registered.                      *)
Holds(f) == frame[f].place \in Holding
Between == {"starting", "closing"}

Held ==
    /\ current # 0 => client[current].phase = "open"
    /\ \A f \in Frames :
          Holds(f) => /\ frame[f].client \in Clients
                      /\ client[frame[f].client].phase \in Between
    /\ \A f, g \in Frames :
          f # g /\ Holds(f) /\ Holds(g) => frame[f].client # frame[g].client
    /\ \A c \in Clients :
          client[c].phase \in Between
             => \E f \in Frames : Holds(f) /\ frame[f].client = c
    /\ ~doubled => \A c \in Clients : client[c].phase = "open" => current = c

(* The marker of an imported seed is never taken back.                     *)
SeedKept == dropped => seedMark /\ config = NoArgv

McpInv == McpTypes /\ Reviewed /\ Held /\ SeedKept

(* What a call does to itself, to the client it deals with, and to the     *)
(* rest.                                                                   *)
FrameChanges(f) ==
    /\ frame' \in [Frames -> FrameRecords]
    /\ \A g \in Frames : g # f => frame'[g] = frame[g]

ClientChanges(c) ==
    /\ client' \in [Clients -> ClientRecords]
    /\ \A d \in Clients : d # c => client'[d] = client[d]

RestChanges ==
    /\ cleared \subseteq cleared' /\ cleared' \subseteq Argvs
    /\ review' \in Reviews
    /\ calls' \in 0..MaxCalls /\ mcpFaults' \in 0..MaxMcpFaults
    /\ config' \in Runnable' /\ seedMark' \in BOOLEAN /\ dropped' \in BOOLEAN
    /\ SeedKept'

LEMMA ClientNumbers ==
    /\ 0 \in 0..MaxClients
    /\ \A c \in 0..MaxClients : c # 0 => c \in Clients
    /\ \A c \in Clients : c # 0 /\ c \in 0..MaxClients
  BY McpAssumption DEF Clients

LEMMA IdleTypes ==
    /\ IdleFrame \in FrameRecords /\ IdleFrame.place = "done"
    /\ Unused \in ClientRecords /\ Unused.phase = "unused" /\ Unused.argv = NoArgv
<1>1. IdleFrame \in FrameRecords
  BY ClientNumbers, Zenon DEF IdleFrame, FrameRecords, FramePlaces
<1>2. Unused \in ClientRecords
  BY Zenon DEF Unused, ClientRecords, ClientPhases
<1> QED BY <1>1, <1>2, Zenon DEF IdleFrame, Unused

LEMMA NoReviewType == NoReview \in Reviews
  BY Zenon DEF NoReview, Reviews

(* Counting a call or a fault stays within its bound.                      *)
LEMMA CallCounted ==
    ASSUME calls \in 0..MaxCalls, calls < MaxCalls, calls' = calls + 1
    PROVE  calls' \in 0..MaxCalls
  BY McpAssumption

LEMMA FaultCounted ==
    ASSUME mcpFaults \in 0..MaxMcpFaults, McpFault
    PROVE  mcpFaults' \in 0..MaxMcpFaults
  BY McpAssumption DEF McpFault

LEMMA GoesTo ==
    ASSUME McpInv, NEW f \in Frames, NEW x \in FramePlaces, Goes(f, x)
    PROVE  /\ FrameChanges(f)
           /\ frame'[f].place = x /\ frame'[f].argv = frame[f].argv
           /\ frame'[f].client = frame[f].client
<1>1. frame \in [Frames -> FrameRecords]
  BY Zenon DEF McpInv, McpTypes
<1> DEFINE r == [frame[f] EXCEPT !.place = x]
<1>2. frame' = [frame EXCEPT ![f] = r]
  BY Zenon DEF Goes
<1>3. /\ r \in FrameRecords
      /\ r.place = x /\ r.argv = frame[f].argv /\ r.client = frame[f].client
  BY <1>1 DEF FrameRecords
<1> HIDE DEF r
<1>4. frame'[f] = r /\ FrameChanges(f)
  BY <1>1, <1>2, <1>3, Zenon DEF FrameChanges
<1> QED BY <1>3, <1>4, Zenon

LEMMA ReturnsTo ==
    ASSUME McpInv, NEW f \in Frames, Returns(f)
    PROVE  FrameChanges(f) /\ frame'[f].place = "done"
<1>1. frame \in [Frames -> FrameRecords]
  BY Zenon DEF McpInv, McpTypes
<1>2. frame'[f] = IdleFrame
  BY <1>1, Zenon DEF Returns
<1> QED BY <1>1, <1>2, IdleTypes, Zenon DEF Returns, FrameChanges

LEMMA BeginsAt ==
    ASSUME McpInv, NEW f \in Frames, NEW x \in FramePlaces,
           NEW kind \in {"add", "rewire"}, NEW argv \in Argvs \cup {NoArgv},
           NEW force \in BOOLEAN, Begins(f, kind, x, argv, force)
    PROVE  /\ FrameChanges(f) /\ ~Holds(f) /\ calls' \in 0..MaxCalls
           /\ frame'[f].place = x /\ frame'[f].argv = argv
<1>1. frame \in [Frames -> FrameRecords] /\ calls \in 0..MaxCalls
  BY Zenon DEF McpInv, McpTypes
<1> DEFINE r == [kind |-> kind, place |-> x, argv |-> argv, force |-> force,
                 client |-> 0, scan |-> NoFrame]
<1>2. r \in FrameRecords /\ r.place = x /\ r.argv = argv
  BY ClientNumbers, Zenon DEF FrameRecords
<1>3. frame' = [frame EXCEPT ![f] = r] /\ frame[f].place = "done"
  BY Zenon DEF Begins
<1> HIDE DEF r
<1>4. frame'[f] = r /\ FrameChanges(f)
  BY <1>1, <1>2, <1>3, Zenon DEF FrameChanges
<1>5. calls' \in 0..MaxCalls
  BY <1>1, CallCounted, Zenon DEF Begins
<1> QED BY <1>2, <1>3, <1>4, <1>5, Zenon DEF Holds, Holding

LEMMA PhaseTo ==
    ASSUME McpInv, NEW c \in Clients, NEW x \in ClientPhases,
           client' = [client EXCEPT ![c].phase = x]
    PROVE  /\ ClientChanges(c)
           /\ client'[c].phase = x /\ client'[c].argv = client[c].argv
<1>1. client \in [Clients -> ClientRecords]
  BY Zenon DEF McpInv, McpTypes
<1> DEFINE k == [client[c] EXCEPT !.phase = x]
<1>2. client' = [client EXCEPT ![c] = k]
  BY Zenon
<1>3. k \in ClientRecords /\ k.phase = x /\ k.argv = client[c].argv
  BY <1>1 DEF ClientRecords
<1> HIDE DEF k
<1>4. client'[c] = k /\ ClientChanges(c)
  BY <1>1, <1>2, <1>3, Zenon DEF ClientChanges
<1> QED BY <1>3, <1>4, Zenon

LEMMA ClientGoes ==
    ASSUME McpInv, NEW c \in Clients, client' = [client EXCEPT ![c] = Unused]
    PROVE  ClientChanges(c) /\ client'[c].phase = "unused" /\ client'[c].argv = NoArgv
<1>1. client \in [Clients -> ClientRecords]
  BY Zenon DEF McpInv, McpTypes
<1>2. client'[c] = Unused
  BY <1>1, Zenon
<1> QED BY <1>1, <1>2, IdleTypes, Zenon DEF ClientChanges

(* What is left of the invariant once the clients are accounted for.       *)
LEMMA McpAssembles ==
    ASSUME McpInv, NEW f \in Frames, FrameChanges(f), RestChanges,
           frame'[f].place \in Judging => frame'[f].argv \in Argvs,
           frame'[f].place \in {"prefetch", "queued"} \cup Holding
              => frame'[f].argv \in Runnable',
           client' \in [Clients -> ClientRecords],
           \A c \in Clients : client'[c].argv \in Runnable',
           current' \in 0..MaxClients, doubled' \in BOOLEAN, Held'
    PROVE  McpInv'
<1>1. \A x \in Runnable : x \in Runnable'
  BY Zenon DEF RestChanges, Runnable
<1>2. config' \in Argvs \cup {NoArgv}
  BY McpAssumption, Zenon DEF RestChanges, Runnable
<1>3. McpTypes'
  BY <1>2, Zenon DEF FrameChanges, RestChanges, McpTypes
<1>4. ASSUME NEW g \in Frames
      PROVE  /\ frame'[g].place \in Judging => frame'[g].argv \in Argvs
             /\ frame'[g].place \in {"prefetch", "queued"} \cup Holding
                   => frame'[g].argv \in Runnable'
  <2>1. CASE g = f
    BY <2>1, Zenon
  <2>2. CASE g # f
    BY <1>1, <2>2, Zenon DEF FrameChanges, McpInv, Reviewed
  <2> QED BY <2>1, <2>2, Zenon
<1>5. Reviewed'
  BY <1>4, Zenon DEF RestChanges, Reviewed
<1> QED BY <1>3, <1>5, Zenon DEF McpInv, RestChanges

(* The conjuncts of Held, one by one.                                      *)
LEMMA HeldClient ==
    ASSUME McpInv, NEW f \in Frames, Holds(f)
    PROVE  frame[f].client \in Clients /\ client[frame[f].client].phase \in Between
  BY Zenon DEF McpInv, Held

LEMMA HeldOnce ==
    ASSUME McpInv, NEW f \in Frames, NEW g \in Frames, f # g, Holds(f), Holds(g)
    PROVE  frame[f].client # frame[g].client
  BY Zenon DEF McpInv, Held

LEMMA OpenIsCurrent ==
    ASSUME McpInv, ~doubled, NEW c \in Clients, client[c].phase = "open"
    PROVE  current = c
  BY Zenon DEF McpInv, Held

(* A call that holds no client and takes none.                             *)
LEMMA QuietCall ==
    ASSUME McpInv, NEW f \in Frames, FrameChanges(f), RestChanges,
           ~Holds(f), frame'[f].place \notin Holding,
           frame'[f].place \in Judging => frame'[f].argv \in Argvs,
           frame'[f].place \in {"prefetch", "queued"} => frame'[f].argv \in Runnable',
           current' = current, client' = client, doubled' = doubled
    PROVE  McpInv'
<1>1. \A g \in Frames : /\ Holds(g)' <=> Holds(g)
                        /\ Holds(g) => frame'[g].client = frame[g].client
  BY Zenon DEF FrameChanges, Holds
<1>2. Held'
  BY <1>1, Zenon DEF McpInv, Held
<1>3. \A c \in Clients : client'[c].argv \in Runnable'
  BY Zenon DEF McpInv, Reviewed, RestChanges, Runnable
<1> QED BY <1>2, <1>3, McpAssembles, Zenon DEF McpInv, McpTypes

(* A call takes hold of a client: one it starts, or the registered one,    *)
(* which leaves the manager.                                               *)
LEMMA TakesClient ==
    ASSUME McpInv, NEW f \in Frames, NEW c \in Clients,
           FrameChanges(f), ClientChanges(c), RestChanges,
           ~Holds(f), frame'[f].place \in Holding, frame'[f].client = c,
           frame'[f].argv \in Runnable',
           client[c].phase \notin Between, client'[c].phase \in Between,
           client'[c].argv \in Runnable',
           \/ current' = current /\ current # c
           \/ current' = 0 /\ current = c,
           doubled' = doubled
    PROVE  McpInv'
<1>1. \A g \in Frames : g # f => /\ Holds(g)' <=> Holds(g)
                                 /\ frame'[g].client = frame[g].client
  BY Zenon DEF FrameChanges, Holds
<1>2. Holds(f)'
  BY Zenon DEF Holds
<1>3. \A g \in Frames : Holds(g) => frame[g].client \in Clients /\ frame[g].client # c
  BY Zenon DEF McpInv, Held
<1>4. Held'
  <2>1. current' # 0 => client'[current'].phase = "open"
    BY ClientNumbers, Zenon DEF McpInv, McpTypes, Held, ClientChanges
  <2>2. ASSUME NEW g \in Frames, Holds(g)'
        PROVE  frame'[g].client \in Clients /\ client'[frame'[g].client].phase \in Between
    <3>1. CASE g = f
      BY <3>1, Zenon
    <3>2. CASE g # f
      <4>1. Holds(g) /\ frame'[g].client = frame[g].client
        BY <1>1, <2>2, <3>2, Zenon
      <4>2. client'[frame[g].client] = client[frame[g].client]
        BY <1>3, <4>1, Zenon DEF ClientChanges
      <4> QED BY <4>1, <4>2, HeldClient, Zenon
    <3> QED BY <3>1, <3>2, Zenon
  <2>3. ASSUME NEW g \in Frames, NEW h \in Frames, g # h, Holds(g)', Holds(h)'
        PROVE  frame'[g].client # frame'[h].client
    <3>1. CASE g = f
      BY <1>1, <1>3, <2>3, <3>1, Zenon
    <3>2. CASE h = f
      BY <1>1, <1>3, <2>3, <3>2, Zenon
    <3>3. CASE g # f /\ h # f
      BY <1>1, <2>3, <3>3, HeldOnce, Zenon
    <3> QED BY <3>1, <3>2, <3>3, Zenon
  <2>4. ASSUME NEW d \in Clients, client'[d].phase \in Between
        PROVE  \E g \in Frames : Holds(g)' /\ frame'[g].client = d
    <3>1. CASE d = c
      BY <1>2, <3>1, Zenon
    <3>2. CASE d # c
      <4>1. PICK g \in Frames : Holds(g) /\ frame[g].client = d
        BY <2>4, <3>2, Zenon DEF McpInv, Held, ClientChanges
      <4> QED BY <1>1, <4>1, Zenon
    <3> QED BY <3>1, <3>2, Zenon
  <2>5. ASSUME ~doubled', NEW d \in Clients, client'[d].phase = "open"
        PROVE  current' = d
    <3>1. d # c
      BY <2>5, Zenon DEF Between
    <3>2. current = d
      BY <2>5, <3>1, OpenIsCurrent, Zenon DEF ClientChanges
    <3> QED BY <3>1, <3>2, Zenon
  <2> QED BY <2>1, <2>2, <2>3, <2>4, <2>5, Zenon DEF Held
<1>5. \A d \in Clients : client'[d].argv \in Runnable'
  BY Zenon DEF McpInv, Reviewed, RestChanges, Runnable, ClientChanges
<1>6. current' \in 0..MaxClients
  BY ClientNumbers, Zenon DEF McpInv, McpTypes
<1>7. frame'[f].place \notin Judging
  BY Zenon DEF Judging, Holding
<1> QED BY <1>4, <1>5, <1>6, <1>7, McpAssembles, Zenon DEF McpInv, McpTypes, ClientChanges

(* A call goes on with the client it holds.                                *)
LEMMA KeepsClient ==
    ASSUME McpInv, NEW f \in Frames, NEW c \in Clients,
           FrameChanges(f), ClientChanges(c), RestChanges,
           Holds(f), frame[f].client = c,
           frame'[f].place \in Holding, frame'[f].client = c,
           frame'[f].argv \in Runnable', client'[c].phase \in Between,
           client'[c].argv \in Runnable', current' = current, doubled' = doubled
    PROVE  McpInv'
<1>1. \A g \in Frames : /\ Holds(g)' <=> Holds(g)
                        /\ frame'[g].client = frame[g].client
  BY Zenon DEF FrameChanges, Holds
<1>2. current # c /\ client[c].phase # "open"
  BY ClientNumbers, Zenon DEF McpInv, Held, Between
<1>3. Held'
  <2>1. current' # 0 => client'[current'].phase = "open"
    BY <1>2, ClientNumbers, Zenon DEF McpInv, McpTypes, Held, ClientChanges
  <2>2. ASSUME NEW g \in Frames, Holds(g)'
        PROVE  frame'[g].client \in Clients /\ client'[frame'[g].client].phase \in Between
    <3>1. /\ frame'[g].client = frame[g].client /\ frame[g].client \in Clients
          /\ client[frame[g].client].phase \in Between
      BY <1>1, <2>2, HeldClient, Zenon
    <3>2. frame[g].client # c => client'[frame[g].client] = client[frame[g].client]
      BY <3>1, Zenon DEF ClientChanges
    <3> QED BY <3>1, <3>2, Zenon
  <2>3. ASSUME NEW g \in Frames, NEW h \in Frames, g # h, Holds(g)', Holds(h)'
        PROVE  frame'[g].client # frame'[h].client
    BY <1>1, <2>3, HeldOnce, Zenon
  <2>4. ASSUME NEW d \in Clients, client'[d].phase \in Between
        PROVE  \E g \in Frames : Holds(g)' /\ frame'[g].client = d
    <3>1. CASE d = c
      BY <1>1, <3>1, Zenon
    <3>2. CASE d # c
      <4>1. PICK g \in Frames : Holds(g) /\ frame[g].client = d
        BY <2>4, <3>2, Zenon DEF McpInv, Held, ClientChanges
      <4> QED BY <1>1, <4>1, Zenon
    <3> QED BY <3>1, <3>2, Zenon
  <2>5. ASSUME ~doubled', NEW d \in Clients, client'[d].phase = "open"
        PROVE  current' = d
    <3>1. d # c
      BY <2>5, Zenon DEF Between
    <3> QED BY <2>5, <3>1, Zenon DEF McpInv, Held, ClientChanges
  <2> QED BY <2>1, <2>2, <2>3, <2>4, <2>5, Zenon DEF Held
<1>4. \A d \in Clients : client'[d].argv \in Runnable'
  BY Zenon DEF McpInv, Reviewed, RestChanges, Runnable, ClientChanges
<1>5. frame'[f].place \notin Judging
  BY Zenon DEF Judging, Holding
<1> QED BY <1>3, <1>4, <1>5, McpAssembles, Zenon DEF McpInv, McpTypes, ClientChanges

(* A call lets its client go: it is gone, or the manager has it.           *)
LEMMA DropsClient ==
    ASSUME McpInv, NEW f \in Frames, NEW c \in Clients,
           FrameChanges(f), ClientChanges(c), RestChanges,
           Holds(f), frame[f].client = c, frame'[f].place \in {"done", "queued"},
           frame'[f].place = "queued" => frame'[f].argv \in Runnable',
           client'[c].argv \in Runnable', doubled' \in BOOLEAN,
           \/ client'[c].phase = "unused" /\ current' = current /\ doubled' = doubled
           \/ /\ client'[c].phase = "open" /\ current' = c
              /\ ~doubled' => ~doubled /\ current = 0
    PROVE  McpInv'
<1>1. /\ ~Holds(f)'
      /\ \A g \in Frames : g # f => /\ Holds(g)' <=> Holds(g)
                                    /\ frame'[g].client = frame[g].client
  BY Zenon DEF FrameChanges, Holds, Holding
<1>2. current # c /\ client[c].phase # "open"
  BY ClientNumbers, Zenon DEF McpInv, Held, Between
<1>3. \A g \in Frames : g # f /\ Holds(g) => frame[g].client \in Clients \ {c}
  BY Zenon DEF McpInv, Held
<1>4. Held'
  <2>1. current' # 0 => client'[current'].phase = "open"
    BY <1>2, ClientNumbers, Zenon DEF McpInv, McpTypes, Held, ClientChanges
  <2>2. ASSUME NEW g \in Frames, Holds(g)'
        PROVE  frame'[g].client \in Clients /\ client'[frame'[g].client].phase \in Between
    <3>1. g # f /\ Holds(g) /\ frame'[g].client = frame[g].client
      BY <1>1, <2>2, Zenon
    <3>2. client'[frame[g].client] = client[frame[g].client]
      BY <1>3, <3>1, Zenon DEF ClientChanges
    <3> QED BY <3>1, <3>2, HeldClient, Zenon
  <2>3. ASSUME NEW g \in Frames, NEW h \in Frames, g # h, Holds(g)', Holds(h)'
        PROVE  frame'[g].client # frame'[h].client
    BY <1>1, <2>3, HeldOnce, Zenon
  <2>4. ASSUME NEW d \in Clients, client'[d].phase \in Between
        PROVE  \E g \in Frames : Holds(g)' /\ frame'[g].client = d
    <3>1. d # c
      BY <2>4, Zenon DEF Between
    <3>2. PICK g \in Frames : Holds(g) /\ frame[g].client = d
      BY <2>4, <3>1, Zenon DEF McpInv, Held, ClientChanges
    <3> QED BY <1>1, <3>1, <3>2, Zenon
  <2>5. ASSUME ~doubled', NEW d \in Clients, client'[d].phase = "open"
        PROVE  current' = d
    <3>1. CASE client'[c].phase = "unused" /\ current' = current /\ doubled' = doubled
      <4>1. d # c
        BY <2>5, <3>1, Zenon
      <4> QED BY <2>5, <3>1, <4>1, Zenon DEF McpInv, Held, ClientChanges
    <3>2. CASE current' = c /\ ~doubled /\ current = 0
      <4>1. d # c => client[d].phase = "open"
        BY <2>5, Zenon DEF ClientChanges
      <4>2. d # c => current = d
        BY <3>2, <4>1, Zenon DEF McpInv, Held
      <4> QED BY <3>2, <4>2, ClientNumbers, Zenon
    <3> QED BY <2>5, <3>1, <3>2, Zenon
  <2> QED BY <2>1, <2>2, <2>3, <2>4, <2>5, Zenon DEF Held
<1>5. \A d \in Clients : client'[d].argv \in Runnable'
  BY Zenon DEF McpInv, Reviewed, RestChanges, Runnable, ClientChanges
<1>6. current' \in 0..MaxClients
  BY ClientNumbers, Zenon DEF McpInv, McpTypes
<1>7. frame'[f].place \notin Judging \cup Holding \cup {"prefetch"}
  BY Zenon DEF Judging, Holding
<1> QED BY <1>4, <1>5, <1>6, <1>7, McpAssembles, Zenon DEF McpInv, McpTypes, ClientChanges

(* The calls, one by one.                                                  *)
LEMMA RestStays ==
    ASSUME McpInv, UNCHANGED <<config, seedMark, dropped>>,
           cleared \subseteq cleared', cleared' \subseteq Argvs, review' \in Reviews,
           calls' \in 0..MaxCalls, mcpFaults' \in 0..MaxMcpFaults
    PROVE  RestChanges
<1>1. config' \in Runnable'
  BY Zenon DEF McpInv, Reviewed, Runnable
<1>2. seedMark' \in BOOLEAN /\ dropped' \in BOOLEAN
  BY Zenon DEF McpInv, McpTypes
<1>3. SeedKept'
  BY Zenon DEF McpInv, SeedKept
<1> QED BY <1>1, <1>2, <1>3, Zenon DEF RestChanges

LEMMA JudgedStep ==
    ASSUME McpInv, NEW f \in Frames, frame[f].place \in Judging,
           NEW q \in Reviews, review' = q, Judged(f, q),
           UNCHANGED <<config, seedMark, current, client, calls, mcpFaults, dropped, doubled>>
    PROVE  McpInv'
<1>1. /\ ~Holds(f) /\ frame[f].argv \in Argvs /\ frame \in [Frames -> FrameRecords]
      /\ frame[f] \in FrameRecords
  BY Zenon DEF McpInv, McpTypes, Reviewed, Holds, Holding, Judging
<1>2. RestChanges
  <2>1. cleared \subseteq cleared' /\ cleared' \subseteq Argvs
    BY <1>1, Zenon DEF Judged, McpInv, McpTypes
  <2> QED BY <2>1, RestStays, Zenon DEF McpInv, McpTypes
<1>3. CASE Goes(f, "prefetch") /\ cleared' = cleared \cup {frame[f].argv}
  <2>1. /\ FrameChanges(f) /\ frame'[f].place = "prefetch"
        /\ frame'[f].argv = frame[f].argv
    BY <1>3, GoesTo, Zenon DEF FramePlaces
  <2>2. frame'[f].argv \in Runnable'
    BY <1>3, <2>1, Zenon DEF Runnable
  <2>3. frame'[f].place \notin Judging \cup Holding
    BY <2>1, Zenon DEF Judging, Holding
  <2> QED BY <1>1, <1>2, <2>1, <2>2, <2>3, QuietCall, Zenon
<1>4. CASE frame' = [frame EXCEPT ![f].place = "override", ![f].scan = q.by]
  <2> DEFINE r == [frame[f] EXCEPT !.place = "override", !.scan = q.by]
  <2>1. r \in FrameRecords /\ r.place = "override" /\ r.argv = frame[f].argv
    BY <1>1, Zenon DEF FrameRecords, FramePlaces, Reviews
  <2>2. frame'[f] = r /\ \A g \in Frames : g # f => frame'[g] = frame[g]
    BY <1>1, <1>4, Zenon
  <2>3. frame' \in [Frames -> FrameRecords]
    <3>1. frame' = [g \in Frames |-> frame'[g]]
      BY <1>1, <1>4, Zenon
    <3>2. \A g \in Frames : frame'[g] \in FrameRecords
      BY <1>1, <2>1, <2>2, Zenon
    <3> HIDE DEF r
    <3> QED BY <3>1, <3>2, Zenon
  <2> HIDE DEF r
  <2>4. FrameChanges(f)
    BY <2>2, <2>3, Zenon DEF FrameChanges
  <2>5. frame'[f].place \notin Holding \cup {"prefetch", "queued"}
    BY <2>1, <2>2, Zenon DEF Holding
  <2>6. frame'[f].argv \in Argvs
    BY <1>1, <2>1, <2>2, Zenon
  <2> QED BY <1>1, <1>2, <2>4, <2>5, <2>6, QuietCall, Zenon
<1>5. CASE Returns(f)
  <2>1. FrameChanges(f) /\ frame'[f].place = "done"
    BY <1>5, ReturnsTo, Zenon
  <2>2. frame'[f].place \notin Judging \cup Holding \cup {"prefetch", "queued"}
    BY <2>1, Zenon DEF Judging, Holding
  <2> QED BY <1>1, <1>2, <2>1, <2>2, QuietCall, Zenon
<1> QED BY <1>3, <1>4, <1>5, Zenon DEF Judged

LEMMA ReviewStep ==
    ASSUME McpInv, NEW f \in Frames,
           ScanCached(f) \/ ScanAnew(f) \/ SaveScan(f) \/ Override(f)
    PROVE  McpInv'
<1>1. review \in Reviews /\ review' \in Reviews
  <2>1. review \in Reviews
    BY Zenon DEF McpInv, McpTypes
  <2>2. CASE SaveScan(f)
    <3>1. frame[f].argv \in Argvs
      BY <2>2, Zenon DEF SaveScan, McpInv, Reviewed, Judging
    <3>2. VerdictOf[frame[f].argv] \in {"PASS", "WARN", "FAIL"}
      BY <3>1, McpAssumption, Zenon
    <3> QED BY <2>1, <2>2, <3>2 DEF SaveScan, Reviews
  <2>3. CASE Override(f)
    BY <2>1, <2>3, Zenon DEF Override, Reviews
  <2>4. CASE UNCHANGED review
    BY <2>1, <2>4, Zenon
  <2> QED BY <2>1, <2>2, <2>3, <2>4, Zenon DEF ScanCached, ScanAnew
<1>2. CASE ScanCached(f)
  BY <1>1, <1>2, JudgedStep, Zenon DEF ScanCached, Judging
<1>3. CASE SaveScan(f)
  BY <1>1, <1>3, JudgedStep, Zenon DEF SaveScan, Judging
<1>4. ASSUME NEW x \in Judging, frame[f].place \in Judging, Goes(f, x),
             UNCHANGED <<config, seedMark, current, client, calls, mcpFaults, cleared,
                         dropped, doubled>>
      PROVE  McpInv'
  <2>1. FrameChanges(f) /\ frame'[f].place = x /\ frame'[f].argv = frame[f].argv
    BY <1>4, GoesTo, Zenon DEF Judging, FramePlaces
  <2>2. ~Holds(f) /\ frame[f].argv \in Argvs
    BY <1>4, Zenon DEF McpInv, Reviewed, Holds, Holding, Judging
  <2>3. frame'[f].place \notin Holding \cup {"prefetch", "queued"}
    BY <2>1, Zenon DEF Judging, Holding
  <2>4. RestChanges
    BY <1>1, <1>4, RestStays, Zenon DEF McpInv, McpTypes
  <2> QED BY <1>4, <2>1, <2>2, <2>3, <2>4, QuietCall, Zenon
<1>5. CASE ScanAnew(f)
  <2>1. CASE frame[f].place = "scan"
    BY <1>4, <1>5, <2>1, Zenon DEF ScanAnew, Judging
  <2>2. CASE frame[f].place = "rescan"
    BY <1>4, <1>5, <2>2, Zenon DEF ScanAnew, Judging
  <2> QED BY <1>5, <2>1, <2>2, Zenon DEF ScanAnew
<1>6. CASE Override(f)
  BY <1>4, <1>6, Zenon DEF Override, Judging
<1> QED BY <1>2, <1>3, <1>5, <1>6, Zenon

LEMMA BeginStep ==
    ASSUME McpInv, NEW f \in Frames,
           \/ \E argv \in Argvs, force \in BOOLEAN : AddServer(f, argv, force)
           \/ BeginRewire(f) \/ PrefetchFails(f)
    PROVE  McpInv'
<1>1. /\ review \in Reviews /\ calls \in 0..MaxCalls
      /\ mcpFaults \in 0..MaxMcpFaults /\ cleared \subseteq Argvs
  BY Zenon DEF McpInv, McpTypes
<1>2. ASSUME NEW argv \in Argvs, NEW force \in BOOLEAN, AddServer(f, argv, force)
      PROVE  McpInv'
  <2>1. /\ FrameChanges(f) /\ ~Holds(f) /\ calls' \in 0..MaxCalls
        /\ frame'[f].place = "scan" /\ frame'[f].argv = argv
    BY <1>2, BeginsAt, Zenon DEF AddServer, FramePlaces
  <2>2. RestChanges
    BY <1>1, <1>2, <2>1, RestStays, Zenon DEF AddServer
  <2>3. frame'[f].place \notin Holding \cup {"prefetch", "queued"}
    BY <2>1, Zenon DEF Holding
  <2> QED BY <1>2, <2>1, <2>2, <2>3, QuietCall, Zenon DEF AddServer
<1>3. CASE BeginRewire(f)
  <2>1. config \in Argvs \cup {NoArgv}
    BY Zenon DEF McpInv, McpTypes
  <2>2. /\ FrameChanges(f) /\ ~Holds(f) /\ calls' \in 0..MaxCalls
        /\ frame'[f].place = "queued" /\ frame'[f].argv = config
    BY <1>3, <2>1, BeginsAt, Zenon DEF BeginRewire, FramePlaces
  <2>3. RestChanges
    BY <1>1, <1>3, <2>2, RestStays, Zenon DEF BeginRewire
  <2>4. frame'[f].place \notin Holding \cup Judging
    BY <2>2, Zenon DEF Holding, Judging
  <2>5. config \in Runnable'
    BY <1>3, Zenon DEF BeginRewire, McpInv, Reviewed, Runnable
  <2> QED BY <1>3, <2>2, <2>3, <2>4, <2>5, QuietCall, Zenon DEF BeginRewire
<1>4. CASE PrefetchFails(f)
  <2>1. FrameChanges(f) /\ frame'[f].place = "done"
    BY <1>4, ReturnsTo, Zenon DEF PrefetchFails
  <2>2. mcpFaults' \in 0..MaxMcpFaults
    BY <1>1, <1>4, FaultCounted, Zenon DEF PrefetchFails
  <2>3. RestChanges
    BY <1>1, <1>4, <2>2, RestStays, Zenon DEF PrefetchFails
  <2>4. /\ ~Holds(f)
        /\ frame'[f].place \notin Holding \cup Judging \cup {"prefetch", "queued"}
    BY <1>4, <2>1, Zenon DEF PrefetchFails, Holds, Holding, Judging
  <2> QED BY <1>4, <2>1, <2>3, <2>4, QuietCall, Zenon DEF PrefetchFails
<1> QED BY <1>2, <1>3, <1>4, Zenon

(* The end of a connection: the entry an add writes was cleared.           *)
LEMMA ConnectedRest ==
    ASSUME McpInv, NEW f \in Frames, Connected(f), frame[f].argv \in Runnable,
           UNCHANGED <<seedMark, review, calls, mcpFaults, cleared>>
    PROVE  RestChanges
<1>1. /\ review' \in Reviews /\ calls' \in 0..MaxCalls
      /\ mcpFaults' \in 0..MaxMcpFaults /\ cleared' \subseteq Argvs
      /\ seedMark' \in BOOLEAN
  BY Zenon DEF McpInv, McpTypes
<1>2. CASE frame[f].kind = "add"
  <2>1. config' = frame[f].argv /\ dropped' = FALSE
    BY <1>2, Zenon DEF Connected
  <2> QED BY <1>1, <2>1, Zenon DEF RestChanges, Runnable, SeedKept
<1>3. CASE frame[f].kind # "add"
  BY <1>1, <1>3, RestStays, Zenon DEF Connected
<1> QED BY <1>2, <1>3, Zenon

LEMMA ConnectStep ==
    ASSUME McpInv, NEW f \in Frames, AlreadyConnected(f) \/ StartClient(f)
    PROVE  McpInv'
<1>1. frame[f].place \in {"prefetch", "queued"}
  BY Zenon DEF AlreadyConnected, StartClient
<1>2. ~Holds(f) /\ frame[f].argv \in Runnable /\ frame[f].argv \in Argvs \cup {NoArgv}
  <2>1. ~Holds(f) /\ frame[f].argv \in Runnable
    BY <1>1, Zenon DEF McpInv, Reviewed, Holds, Holding
  <2> QED BY <2>1, McpAssumption, Zenon DEF McpInv, McpTypes, Runnable
<1>3. CASE AlreadyConnected(f)
  <2>1. FrameChanges(f) /\ frame'[f].place = "done"
    BY <1>3, ReturnsTo, Zenon DEF AlreadyConnected, Connected
  <2>2. RestChanges
    BY <1>2, <1>3, ConnectedRest, Zenon DEF AlreadyConnected
  <2>3. frame'[f].place \notin Holding \cup Judging \cup {"prefetch", "queued"}
    BY <2>1, Zenon DEF Holding, Judging
  <2> QED BY <1>2, <1>3, <2>1, <2>2, <2>3, QuietCall, Zenon DEF AlreadyConnected
<1>4. CASE StartClient(f)
  <2>1. PICK c \in Clients :
          /\ client[c].phase = "unused" /\ current = 0
          /\ client' = [client EXCEPT ![c] = [argv |-> frame[f].argv, phase |-> "starting"]]
          /\ frame' = [frame EXCEPT ![f].place = "handshake", ![f].client = c]
          /\ UNCHANGED <<config, seedMark, review, current, calls, mcpFaults, cleared,
                         dropped, doubled>>
    BY <1>4, Zenon DEF StartClient
  <2>2. frame \in [Frames -> FrameRecords] /\ frame[f] \in FrameRecords
        /\ client \in [Clients -> ClientRecords]
    BY Zenon DEF McpInv, McpTypes
  <2> DEFINE r == [frame[f] EXCEPT !.place = "handshake", !.client = c]
             k == [argv |-> frame[f].argv, phase |-> "starting"]
  <2>3. /\ r \in FrameRecords /\ r.place = "handshake"
        /\ r.argv = frame[f].argv /\ r.client = c
    BY <2>2, ClientNumbers, Zenon DEF FrameRecords, FramePlaces
  <2>4. k \in ClientRecords /\ k.phase = "starting" /\ k.argv = frame[f].argv
    BY <1>2, Zenon DEF ClientRecords, ClientPhases
  <2>5. frame'[f] = r /\ \A g \in Frames : g # f => frame'[g] = frame[g]
    BY <2>1, <2>2, Zenon
  <2>6. frame' = [g \in Frames |-> frame'[g]]
    BY <2>1, <2>2, Zenon
  <2>7. client'[c] = k /\ ClientChanges(c)
    <3> HIDE DEF r
    <3>1. client' = [client EXCEPT ![c] = k]
      BY <2>1, Zenon
    <3> HIDE DEF k
    <3> QED BY <2>2, <2>4, <3>1, Zenon DEF ClientChanges
  <2> HIDE DEF r, k
  <2>8. FrameChanges(f)
    <3>1. \A g \in Frames : frame'[g] \in FrameRecords
      BY <2>2, <2>3, <2>5, Zenon
    <3> QED BY <2>5, <2>6, <3>1, Zenon DEF FrameChanges
  <2>9. RestChanges
    BY <2>1, RestStays, Zenon DEF McpInv, McpTypes
  <2>10. /\ frame'[f].place \in Holding /\ frame'[f].client = c
         /\ frame'[f].argv \in Runnable' /\ client'[c].argv \in Runnable'
    BY <1>2, <2>1, <2>3, <2>4, <2>5, <2>7, Zenon DEF Holding, Runnable
  <2>11. client[c].phase \notin Between /\ client'[c].phase \in Between /\ current # c
    BY <2>1, <2>4, <2>7, ClientNumbers, Zenon DEF Between
  <2> QED BY <1>2, <2>1, <2>7, <2>8, <2>9, <2>10, <2>11, TakesClient, Zenon
<1> QED BY <1>3, <1>4, Zenon

LEMMA HandshakeStep ==
    ASSUME McpInv, NEW f \in Frames,
           Register(f) \/ PersistFails(f) \/ HandshakeFails(f) \/ GiveUp(f)
    PROVE  McpInv'
<1>1. Holds(f)
  BY Zenon DEF Register, PersistFails, HandshakeFails, GiveUp, Holds, Holding
<1>2. PICK c : c = frame[f].client
  BY Zenon
<1>3. /\ c \in Clients /\ client[c].argv \in Runnable /\ frame[f].argv \in Runnable
      /\ doubled \in BOOLEAN
  <2>1. c \in Clients
    BY <1>1, <1>2, HeldClient, Zenon
  <2>2. frame[f].argv \in Runnable
    BY <1>1, Zenon DEF McpInv, Reviewed, Holds
  <2> QED BY <2>1, <2>2, Zenon DEF McpInv, McpTypes, Reviewed
<1>4. /\ review \in Reviews /\ calls \in 0..MaxCalls
      /\ mcpFaults \in 0..MaxMcpFaults /\ cleared \subseteq Argvs
  BY Zenon DEF McpInv, McpTypes
<1>5. ASSUME client' = [client EXCEPT ![c].phase = "open"],
             doubled' = (doubled \/ current # 0), current' = c, Returns(f), RestChanges
      PROVE  McpInv'
  <2>1. FrameChanges(f) /\ frame'[f].place = "done"
    BY <1>5, ReturnsTo, Zenon
  <2>2. /\ ClientChanges(c) /\ client'[c].phase = "open"
        /\ client'[c].argv = client[c].argv
    BY <1>3, <1>5, PhaseTo, Zenon DEF ClientPhases
  <2>3. client'[c].argv \in Runnable'
    BY <1>3, <1>5, <2>2, Zenon DEF RestChanges, Runnable
  <2>4. doubled' \in BOOLEAN /\ (~doubled' => ~doubled /\ current = 0)
    BY <1>3, <1>5, Zenon
  <2> QED BY <1>1, <1>2, <1>3, <1>5, <2>1, <2>2, <2>3, <2>4, DropsClient, Zenon
<1>6. CASE Register(f)
  <2>1. RestChanges
    BY <1>3, <1>6, ConnectedRest, Zenon DEF Register
  <2> QED BY <1>2, <1>5, <1>6, <2>1, Zenon DEF Register, Connected
<1>7. CASE PersistFails(f)
  <2>1. mcpFaults' \in 0..MaxMcpFaults
    BY <1>4, <1>7, FaultCounted, Zenon DEF PersistFails
  <2>2. RestChanges
    BY <1>4, <1>7, <2>1, RestStays, Zenon DEF PersistFails
  <2> QED BY <1>2, <1>5, <1>7, <2>2, Zenon DEF PersistFails
<1>8. CASE HandshakeFails(f)
  <2>1. /\ FrameChanges(f) /\ frame'[f].place = "giveup"
        /\ frame'[f].argv = frame[f].argv /\ frame'[f].client = c
    BY <1>2, <1>8, GoesTo, Zenon DEF HandshakeFails, FramePlaces
  <2>2. /\ ClientChanges(c) /\ client'[c].phase = "closing"
        /\ client'[c].argv = client[c].argv
    BY <1>2, <1>3, <1>8, PhaseTo, Zenon DEF HandshakeFails, ClientPhases
  <2>3. RestChanges
    BY <1>4, <1>8, RestStays, Zenon DEF HandshakeFails
  <2>4. /\ client'[c].argv \in Runnable' /\ frame'[f].argv \in Runnable'
        /\ current' = current /\ doubled' = doubled
    BY <1>3, <1>8, <2>1, <2>2, Zenon DEF HandshakeFails, Runnable
  <2>5. frame'[f].place \in Holding /\ client'[c].phase \in Between
    BY <2>1, <2>2, Zenon DEF Holding, Between
  <2> QED BY <1>1, <1>2, <1>3, <2>1, <2>2, <2>3, <2>4, <2>5, KeepsClient, Zenon
<1>9. CASE GiveUp(f)
  <2>1. FrameChanges(f) /\ frame'[f].place = "done"
    BY <1>9, ReturnsTo, Zenon DEF GiveUp
  <2>2. ClientChanges(c) /\ client'[c].phase = "unused" /\ client'[c].argv = NoArgv
    BY <1>2, <1>3, <1>9, ClientGoes, Zenon DEF GiveUp
  <2>3. RestChanges
    BY <1>4, <1>9, RestStays, Zenon DEF GiveUp
  <2>4. client'[c].argv \in Runnable' /\ current' = current /\ doubled' = doubled
    BY <1>9, <2>2, Zenon DEF GiveUp, Runnable
  <2> QED BY <1>1, <1>2, <1>3, <2>1, <2>2, <2>3, <2>4, DropsClient, Zenon
<1> QED BY <1>6, <1>7, <1>8, <1>9, Zenon

(* disconnect takes the registered client out of the manager.              *)
LEMMA PopStep ==
    ASSUME McpInv, NEW f \in Frames, RemoveServer(f) \/ RewirePops(f)
    PROVE  McpInv'
<1>1. /\ review \in Reviews /\ calls \in 0..MaxCalls /\ current \in 0..MaxClients
      /\ mcpFaults \in 0..MaxMcpFaults /\ cleared \subseteq Argvs
      /\ frame \in [Frames -> FrameRecords]
  BY Zenon DEF McpInv, McpTypes
<1>2. PICK c : c = current
  BY Zenon
<1>3. c \in Clients /\ client[c].phase = "open" /\ client[c].argv \in Runnable
  <2>1. c \in Clients
    BY <1>1, <1>2, ClientNumbers, Zenon DEF RemoveServer, RewirePops
  <2> QED BY <1>2, <2>1, ClientNumbers, Zenon DEF McpInv, Held, Reviewed
<1>4. ASSUME NEW argv \in Argvs \cup {NoArgv}, NEW kind \in {"remove", "rewire"},
             Pops(f, argv, kind), argv \in Runnable, ~Holds(f),
             calls' \in 0..MaxCalls,
             UNCHANGED <<config, seedMark, review, mcpFaults, cleared, dropped, doubled>>
      PROVE  McpInv'
  <2> DEFINE r == [kind |-> kind, place |-> "popped", argv |-> argv,
                   force |-> FALSE, client |-> c, scan |-> NoFrame]
  <2>1. r \in FrameRecords /\ r.place = "popped" /\ r.argv = argv /\ r.client = c
    BY <1>3, ClientNumbers, Zenon DEF FrameRecords, FramePlaces
  <2>2. frame' = [frame EXCEPT ![f] = r] /\ current' = 0
        /\ client' = [client EXCEPT ![c].phase = "closing"]
    BY <1>2, <1>4, Zenon DEF Pops
  <2> HIDE DEF r
  <2>3. frame'[f] = r /\ FrameChanges(f)
    BY <1>1, <2>1, <2>2, Zenon DEF FrameChanges
  <2>4. /\ ClientChanges(c) /\ client'[c].phase = "closing"
        /\ client'[c].argv = client[c].argv
    BY <1>3, <2>2, PhaseTo, Zenon DEF ClientPhases
  <2>5. RestChanges
    BY <1>1, <1>4, RestStays, Zenon
  <2>6. /\ frame'[f].argv \in Runnable' /\ client'[c].argv \in Runnable'
        /\ frame'[f].place \in Holding /\ frame'[f].client = c
    BY <1>3, <1>4, <2>1, <2>3, <2>4, Zenon DEF Runnable, Holding
  <2>7. client[c].phase \notin Between /\ client'[c].phase \in Between
    BY <1>3, <2>4, Zenon DEF Between
  <2> QED BY <1>2, <1>3, <1>4, <2>2, <2>3, <2>4, <2>5, <2>6, <2>7, TakesClient, Zenon
<1>5. CASE RemoveServer(f)
  <2>1. calls' \in 0..MaxCalls
    BY <1>1, <1>5, CallCounted, Zenon DEF RemoveServer
  <2>2. ~Holds(f)
    BY <1>5, Zenon DEF RemoveServer, Holds, Holding
  <2> QED BY <1>4, <1>5, <2>1, <2>2, Zenon DEF RemoveServer, Runnable
<1>6. CASE RewirePops(f)
  <2>1. ~Holds(f) /\ frame[f].argv \in Runnable
    BY <1>6, Zenon DEF RewirePops, Holds, Holding, McpInv, Reviewed
  <2>2. frame[f].argv \in Argvs \cup {NoArgv} /\ calls' \in 0..MaxCalls
    BY <1>1, <1>6, <2>1, McpAssumption, Zenon DEF RewirePops, Runnable
  <2> QED BY <1>4, <1>6, <2>1, <2>2, Zenon DEF RewirePops
<1> QED BY <1>5, <1>6, Zenon

(* close() of a disconnect returns.                                        *)
LEMMA PoppedStep ==
    ASSUME McpInv, NEW f \in Frames, Popped(f)
    PROVE  McpInv'
<1>1. Holds(f)
  BY Zenon DEF Popped, Holds, Holding
<1>2. PICK c : c = frame[f].client
  BY Zenon
<1>3. c \in Clients /\ frame[f].argv \in Runnable
  BY <1>1, <1>2, HeldClient, Zenon DEF McpInv, Reviewed, Holds
<1>4. /\ review \in Reviews /\ calls \in 0..MaxCalls
      /\ mcpFaults \in 0..MaxMcpFaults /\ cleared \subseteq Argvs
      /\ frame \in [Frames -> FrameRecords] /\ frame[f] \in FrameRecords
      /\ seedMark \in BOOLEAN
  BY Zenon DEF McpInv, McpTypes
<1>5. ClientChanges(c) /\ client'[c].phase = "unused" /\ client'[c].argv \in Runnable'
  <2>1. ClientChanges(c) /\ client'[c].phase = "unused" /\ client'[c].argv = NoArgv
    BY <1>2, <1>3, ClientGoes, Zenon DEF Popped
  <2> QED BY <2>1, Zenon DEF Runnable
<1>6. CASE frame[f].kind = "remove"
  <2>1. FrameChanges(f) /\ frame'[f].place = "done"
    BY <1>6, ReturnsTo, Zenon DEF Popped
  <2>2. config' = NoArgv /\ dropped' = seedMark /\ seedMark' = seedMark
    BY <1>6, Zenon DEF Popped
  <2>3. SeedKept' /\ dropped' \in BOOLEAN /\ config' \in Runnable'
    BY <1>4, <2>2, Zenon DEF SeedKept, Runnable
  <2>4. RestChanges
    BY <1>4, <2>2, <2>3, Zenon DEF RestChanges, Popped
  <2> QED BY <1>1, <1>2, <1>3, <1>5, <2>1, <2>4, DropsClient, Zenon
             DEF Popped, McpInv, McpTypes
<1>7. CASE frame[f].kind # "remove"
  <2>1. frame' = [frame EXCEPT ![f].place = "queued", ![f].client = 0,
                               ![f].kind = "rewired"]
        /\ UNCHANGED <<config, dropped>>
    BY <1>7, Zenon DEF Popped
  <2> DEFINE r == [frame[f] EXCEPT !.place = "queued", !.client = 0, !.kind = "rewired"]
  <2>2. r \in FrameRecords /\ r.place = "queued" /\ r.argv = frame[f].argv
    BY <1>4, ClientNumbers, Zenon DEF FrameRecords, FramePlaces
  <2>3. frame'[f] = r /\ \A g \in Frames : g # f => frame'[g] = frame[g]
    BY <1>4, <2>1, Zenon
  <2>4. frame' = [g \in Frames |-> frame'[g]]
    BY <1>4, <2>1, Zenon
  <2> HIDE DEF r
  <2>5. FrameChanges(f)
    <3>1. \A g \in Frames : frame'[g] \in FrameRecords
      BY <1>4, <2>2, <2>3, Zenon
    <3> QED BY <2>3, <2>4, <3>1, Zenon DEF FrameChanges
  <2>6. RestChanges
    BY <1>4, <2>1, RestStays, Zenon DEF Popped
  <2>7. frame'[f].argv \in Runnable'
    BY <1>3, <2>2, <2>3, Zenon DEF Runnable, Popped
  <2>8. frame'[f].place = "queued"
    BY <2>2, <2>3, Zenon
  <2> QED BY <1>1, <1>2, <1>3, <1>5, <2>5, <2>6, <2>7, <2>8, DropsClient, Zenon
             DEF Popped, McpInv, McpTypes
<1> QED BY <1>6, <1>7, Zenon

(* A restart forgets every client and every call.                          *)
LEMMA BootStep ==
    ASSUME McpInv, NEW f \in Frames, McpBoot(f)
    PROVE  McpInv'
<1>1. /\ review' \in Reviews /\ calls' \in 0..MaxCalls /\ current' \in 0..MaxClients
      /\ mcpFaults' \in 0..MaxMcpFaults /\ cleared' \subseteq Argvs
      /\ dropped' \in BOOLEAN /\ doubled' \in BOOLEAN
  <2>1. mcpFaults' \in 0..MaxMcpFaults
    BY FaultCounted, Zenon DEF McpBoot, McpInv, McpTypes
  <2> QED BY <2>1, ClientNumbers, Zenon DEF McpBoot, McpInv, McpTypes
<1>2. config' \in Runnable' /\ SeedKept' /\ seedMark' \in BOOLEAN
  <2>1. /\ config' = IF ~seedMark /\ config = NoArgv THEN Seed ELSE config
        /\ seedMark' = TRUE \/ seedMark' = seedMark
        /\ dropped' = dropped /\ cleared' = cleared
    BY Zenon DEF McpBoot, ImportSeed
  <2>2. config' = config \/ config' = Seed
    BY <2>1, Zenon
  <2>3. config' \in Runnable'
    BY <2>1, <2>2, Zenon DEF McpInv, Reviewed, Runnable
  <2>4. seedMark' \in BOOLEAN
    BY <2>1, Zenon DEF McpInv, McpTypes
  <2>5. SeedKept'
    <3> SUFFICES ASSUME dropped' PROVE seedMark' /\ config' = NoArgv
      BY Zenon DEF SeedKept
    <3>1. seedMark /\ config = NoArgv
      BY <2>1, Zenon DEF McpInv, SeedKept
    <3> QED BY <2>1, <3>1, Zenon
  <2> QED BY <2>3, <2>4, <2>5, Zenon
<1>3. config' \in Argvs \cup {NoArgv}
  BY <1>1, <1>2, McpAssumption, Zenon DEF Runnable
<1>4. \A c \in Clients : client'[c] = Unused
  BY Zenon DEF McpBoot
<1>5. client' \in [Clients -> ClientRecords]
  BY IdleTypes, Zenon DEF McpBoot
<1> DEFINE r == [IdleFrame EXCEPT !.kind = "boot", !.place = "queued", !.argv = config']
<1>6. r \in FrameRecords /\ r.place = "queued" /\ r.argv = config'
  BY <1>3, IdleTypes, Zenon DEF FrameRecords, FramePlaces, IdleFrame
<1>7. frame' = [g \in Frames |-> IF g = f /\ config' # NoArgv THEN r ELSE IdleFrame]
  BY Zenon DEF McpBoot
<1> HIDE DEF r
<1>8. \A g \in Frames : frame'[g] \in {r, IdleFrame}
  BY <1>7, Zenon
<1>9. frame' \in [Frames -> FrameRecords]
  BY <1>6, <1>7, IdleTypes, Zenon
<1>10. \A g \in Frames : /\ frame'[g].place \in {"queued", "done"}
                         /\ frame'[g].place = "queued" => frame'[g].argv = config'
  BY <1>6, <1>8, IdleTypes, Zenon
<1>11. McpTypes'
  BY <1>1, <1>2, <1>3, <1>5, <1>9, Zenon DEF McpTypes
<1>12. Reviewed'
  <2>1. \A c \in Clients : client'[c].argv \in Runnable'
    BY <1>4, IdleTypes, Zenon DEF Runnable
  <2>2. \A g \in Frames : frame'[g].place \notin Judging
    BY <1>10, Zenon DEF Judging
  <2>3. \A g \in Frames : frame'[g].place \in {"prefetch", "queued"} \cup Holding
                             => frame'[g].argv \in Runnable'
    BY <1>2, <1>10, Zenon DEF Holding
  <2> QED BY <1>2, <2>1, <2>2, <2>3, Zenon DEF Reviewed
<1>13. Held'
  <2>1. \A g \in Frames : ~Holds(g)'
    BY <1>10, Zenon DEF Holds, Holding
  <2>2. \A c \in Clients : client'[c].phase = "unused"
    BY <1>4, IdleTypes, Zenon
  <2>3. current' = 0
    BY Zenon DEF McpBoot
  <2> QED BY <2>1, <2>2, <2>3, Zenon DEF Held, Between
<1> QED BY <1>2, <1>11, <1>12, <1>13, Zenon DEF McpInv

(* What no call of the server is part of, and the steps that change        *)
(* nothing.                                                                *)
LEMMA AsideStep ==
    ASSUME McpInv, UNCHANGED <<current, client, frame, cleared, doubled>>,
           RestChanges
    PROVE  McpInv'
<1>1. config' \in Argvs \cup {NoArgv}
  BY McpAssumption, Zenon DEF RestChanges, Runnable
<1>2. McpTypes'
  BY <1>1, Zenon DEF McpInv, McpTypes, RestChanges
<1>3. Reviewed'
  BY Zenon DEF McpInv, Reviewed, RestChanges, Runnable
<1>4. Held'
  BY Zenon DEF McpInv, Held, Holds
<1> QED BY <1>2, <1>3, <1>4, Zenon DEF McpInv, RestChanges

LEMMA McpStep == McpInv /\ [McpNext]_mcpVars => McpInv'
<1> SUFFICES ASSUME McpInv, [McpNext]_mcpVars PROVE McpInv'
  OBVIOUS
<1>1. /\ review \in Reviews /\ calls \in 0..MaxCalls
      /\ mcpFaults \in 0..MaxMcpFaults /\ cleared \subseteq Argvs
      /\ seedMark \in BOOLEAN
  BY Zenon DEF McpInv, McpTypes
<1>2. CASE UNCHANGED mcpVars
  <2>1. RestChanges
    BY <1>1, <1>2, RestStays, Zenon DEF mcpVars
  <2> QED BY <1>2, <2>1, AsideStep, Zenon DEF mcpVars
<1>3. CASE ReviewExpires
  <2>1. mcpFaults' \in 0..MaxMcpFaults /\ review' \in Reviews
    BY <1>1, <1>3, FaultCounted, NoReviewType, Zenon DEF ReviewExpires
  <2>2. RestChanges
    BY <1>1, <1>3, <2>1, RestStays, Zenon DEF ReviewExpires
  <2> QED BY <1>3, <2>2, AsideStep, Zenon DEF ReviewExpires
<1>4. CASE RemoveUnconnected
  <2>1. /\ config' = NoArgv /\ dropped' = seedMark /\ seedMark' = seedMark
        /\ cleared' = cleared /\ review' = review /\ mcpFaults' = mcpFaults
    BY <1>4, Zenon DEF RemoveUnconnected
  <2>2. calls' \in 0..MaxCalls
    BY <1>1, <1>4, CallCounted, Zenon DEF RemoveUnconnected
  <2>3. SeedKept' /\ dropped' \in BOOLEAN /\ config' \in Runnable'
    BY <1>1, <2>1, Zenon DEF SeedKept, Runnable
  <2>4. RestChanges
    BY <1>1, <2>1, <2>2, <2>3, Zenon DEF RestChanges
  <2> QED BY <1>4, <2>4, AsideStep, Zenon DEF RemoveUnconnected
<1>5. ASSUME NEW f \in Frames, FrameStep(f) PROVE McpInv'
  BY <1>5, ReviewStep, ConnectStep, HandshakeStep, PopStep, PoppedStep, Zenon DEF FrameStep
<1>6. ASSUME NEW f \in Frames,
             \/ \E argv \in Argvs, force \in BOOLEAN : AddServer(f, argv, force)
             \/ RemoveServer(f) \/ BeginRewire(f) \/ McpBoot(f)
             \/ PrefetchFails(f) \/ PersistFails(f)
      PROVE  McpInv'
  BY <1>6, BeginStep, PopStep, BootStep, HandshakeStep, Zenon
<1> QED BY <1>2, <1>3, <1>4, <1>5, <1>6, Zenon DEF McpNext

LEMMA McpStarts == McpInit => McpInv
<1> SUFFICES ASSUME McpInit PROVE McpInv
  OBVIOUS
<1>1. /\ calls = 0 /\ mcpFaults = 0 /\ cleared = {} /\ dropped = FALSE
      /\ doubled = FALSE /\ current = 0 /\ review = NoReview
      /\ config \in {NoArgv, Seed} /\ seedMark = (config = Seed)
      /\ client = [c \in Clients |-> Unused] /\ frame = [f \in Frames |-> IdleFrame]
  BY Zenon DEF McpInit
<1>2. calls \in 0..MaxCalls /\ mcpFaults \in 0..MaxMcpFaults /\ current \in 0..MaxClients
  BY <1>1, McpAssumption
<1>3. config \in Argvs \cup {NoArgv} /\ config \in Runnable
  BY <1>1, McpAssumption, Zenon DEF Runnable
<1>4. client \in [Clients -> ClientRecords] /\ frame \in [Frames -> FrameRecords]
  BY <1>1, IdleTypes, Zenon
<1>5. McpTypes
  BY <1>1, <1>2, <1>3, <1>4, NoReviewType, Zenon DEF McpTypes
<1>6. \A f \in Frames : frame[f].place = "done"
  BY <1>1, IdleTypes, Zenon
<1>7. \A c \in Clients : client[c].phase = "unused" /\ client[c].argv = NoArgv
  BY <1>1, IdleTypes, Zenon
<1>8. Reviewed
  BY <1>3, <1>6, <1>7, Zenon DEF Reviewed, Judging, Holding, Runnable
<1>9. Held
  BY <1>1, <1>6, <1>7, Zenon DEF Held, Holds, Holding, Between
<1> QED BY <1>1, <1>5, <1>8, <1>9, Zenon DEF McpInv, SeedKept

LEMMA McpInvIsSafe == McpInv => McpSafe
<1> SUFFICES ASSUME McpInv PROVE McpSafe
  OBVIOUS
<1>1. \A f \in Frames : frame[f].place \in {"handshake", "giveup"}
                           => client[frame[f].client].phase \in {"starting", "closing"}
  BY HeldClient, Zenon DEF Holds, Holding, Between
<1>2. McpTypeOK
  BY <1>1, Zenon DEF McpInv, McpTypes, McpTypeOK, FrameRecords, ClientRecords
<1>3. OnlyClearedRuns
  BY Zenon DEF McpInv, Reviewed, OnlyClearedRuns, Runnable
<1>4. NoClientLeaks
  BY Zenon DEF McpInv, Held, NoClientLeaks, Between
<1>5. SeedStaysRemoved
  BY Zenon DEF McpInv, SeedKept, SeedStaysRemoved
<1> QED BY <1>2, <1>3, <1>4, <1>5, Zenon DEF McpSafe

(* Every step of a call, of a child process and of the daemon's restarts   *)
(* keeps who answers for a client and which commands were cleared.         *)
THEOREM McpInvariant == McpSpec => []McpInv
BY McpStarts, McpStep, PTL DEF McpSpec

(* Whatever adds, removals, rewires and restarts of a server overlap, only *)
(* commands that the install gate cleared or the image ships are run or    *)
(* persisted, no child process is orphaned unless two connections of the   *)
(* id overlapped, and a seed the owner removed stays removed               *)
(* (add_mcp_server, McpServerManager, _import_seed_mcp_servers).           *)
THEOREM McpIsSafe == McpSpec => []McpSafe
BY McpInvariant, McpInvIsSafe, PTL
=============================================================================
