----------------------------- MODULE McpServers -----------------------------
(***************************************************************************)
(* One MCP server of the daemon: its entry in the configuration, its       *)
(* security review, and its connections.                                   *)
(*                                                                         *)
(* Four operations run as coroutines of the daemon's loop and interleave   *)
(* where they await: add_mcp_server (review, prefetch, connect, persist),  *)
(* remove_mcp_server (disconnect, then drop the entry), the boot's         *)
(* reconnect_persisted_mcp_servers and the rewire that follows the         *)
(* activation of a provider.  McpServerManager keeps at most one client    *)
(* per server id; StdioMcpClient owns a child process from the handshake   *)
(* until it is closed.                                                     *)
(***************************************************************************)
EXTENDS Naturals, FiniteSets

CONSTANTS
    Frames,          \* calls in flight
    Argvs,           \* commands the owner may configure
    NoArgv,          \* no command
    NoFrame,         \* no call
    Seed,            \* the command the image ships for this id
    VerdictOf,       \* what the scanners say of each command
    MaxClients,      \* bound: child processes started
    MaxCalls,        \* bound: operations begun
    MaxMcpFaults     \* bound: failed writes, expired reviews and restarts

ASSUME McpAssumption ==
    Seed \in Argvs /\ NoArgv \notin Argvs
    /\ VerdictOf \in [Argvs -> {"PASS", "WARN", "FAIL"}]
    /\ MaxClients \in Nat /\ MaxCalls \in Nat /\ MaxMcpFaults \in Nat

VARIABLES
    config,      \* mcp_servers.<id> in config.yaml
    seedMark,    \* the id is in mcp-seeds-imported.json
    review,      \* the newest scan record of the id: verdict and owner's decision
    current,     \* McpServerManager._clients[id], 0 when absent
    client,      \* the clients: their command and how far they are
    frame,       \* the operations in flight
    calls,       \* operations begun
    mcpFaults,   \* failed writes, expired reviews and restarts so far
    cleared,     \* history: commands the install gate let through
    dropped,     \* history: the owner removed the server and nobody added it since
    doubled      \* history: a client was registered over another one

mcpVars == <<config, seedMark, review, current, client, frame, calls, mcpFaults,
             cleared, dropped, doubled>>

Clients == 1..MaxClients
ClientPhases == {"unused", "starting", "open", "closing"}
Unused == [argv |-> NoArgv, phase |-> "unused"]
NoReview == [by |-> NoFrame, verdict |-> "none", allowed |-> FALSE]
Reviews == [by : Frames \cup {NoFrame}, verdict : {"none", "PASS", "WARN", "FAIL"},
            allowed : BOOLEAN]
FramePlaces == {"done", "scan", "scanning", "override", "rescan", "rescanning",
                "prefetch", "queued", "handshake", "giveup", "popped"}
IdleFrame == [kind |-> "none", place |-> "done", argv |-> NoArgv,
              force |-> FALSE, client |-> 0, scan |-> NoFrame]

\* A fresh disk, or that of a daemon that imported the seed and stopped.
McpInit ==
    /\ config \in {NoArgv, Seed} /\ seedMark = (config = Seed)
    /\ review = NoReview
    /\ current = 0
    /\ client = [c \in Clients |-> Unused]
    /\ frame = [f \in Frames |-> IdleFrame]
    /\ calls = 0 /\ mcpFaults = 0
    /\ cleared = {} /\ dropped = FALSE /\ doubled = FALSE

Goes(f, place) == frame' = [frame EXCEPT ![f].place = place]
Returns(f) == frame' = [frame EXCEPT ![f] = IdleFrame]
McpFault == mcpFaults < MaxMcpFaults /\ mcpFaults' = mcpFaults + 1

\* A call arrives on a free frame.
Begins(f, kind, place, argv, force) ==
    /\ frame[f].place = "done" /\ calls < MaxCalls
    /\ calls' = calls + 1
    /\ frame' = [frame EXCEPT ![f] = [kind |-> kind, place |-> place, argv |-> argv,
                                      force |-> force, client |-> 0,
                                      scan |-> NoFrame]]

-----------------------------------------------------------------------------
(* add_mcp_server up to the connection.                                    *)

\* The draft is valid: runner allowed, command analysable, environment clean.
AddServer(f, argv, force) ==
    /\ Begins(f, "add", "scan", argv, force)
    /\ UNCHANGED <<config, seedMark, review, current, client, mcpFaults, cleared, dropped,
                   doubled>>

\* _scan_install_target: FAIL blocks unless the owner allowed it, WARN unless
\* the call carries the override.
Blocks(r, allowWarn) ==
    \/ r.verdict = "FAIL" /\ ~r.allowed
    \/ r.verdict = "WARN" /\ ~allowWarn

\* The answer of the scan, back on the loop: go on, give up, or override.
Judged(f, r) ==
    LET again == frame[f].place \in {"rescan", "rescanning"} IN
    IF ~Blocks(r, again)
    THEN Goes(f, "prefetch") /\ cleared' = cleared \cup {frame[f].argv}
    ELSE /\ IF frame[f].force /\ ~again
            THEN frame' = [frame EXCEPT ![f].place = "override", ![f].scan = r.by]
            ELSE Returns(f)
         /\ UNCHANGED cleared

\* ScanService.scan: the newest record of the id answers for it while it is
\* fresh, and for ever once the owner allowed it.
ScanCached(f) ==
    /\ frame[f].place \in {"scan", "rescan"} /\ review # NoReview
    /\ Judged(f, review)
    /\ UNCHANGED <<config, seedMark, review, current, client, calls, mcpFaults, dropped, doubled>>

\* Without one the scanners run, off the loop, and their record is the newest.
ScanAnew(f) ==
    /\ frame[f].place \in {"scan", "rescan"} /\ review = NoReview
    /\ Goes(f, IF frame[f].place = "scan" THEN "scanning" ELSE "rescanning")
    /\ UNCHANGED <<config, seedMark, review, current, client, calls, mcpFaults, cleared, dropped,
                   doubled>>

SaveScan(f) ==
    /\ frame[f].place \in {"scanning", "rescanning"}
    /\ review' = [by |-> f, verdict |-> VerdictOf[frame[f].argv], allowed |-> FALSE]
    /\ Judged(f, review')
    /\ UNCHANGED <<config, seedMark, current, client, calls, mcpFaults, dropped, doubled>>

\* The owner's override: allow_target marks the record this call saw, and the
\* id is scanned again with allow_warn.
Override(f) ==
    /\ frame[f].place = "override"
    /\ review' = IF review.by = frame[f].scan THEN [review EXCEPT !.allowed = TRUE]
                 ELSE review
    /\ Goes(f, "rescan")
    /\ UNCHANGED <<config, seedMark, current, client, calls, mcpFaults, cleared, dropped, doubled>>

\* The record's TTL, hours, runs out; a scan takes seconds.
ReviewExpires ==
    /\ review # NoReview /\ ~review.allowed
    /\ \A f \in Frames : frame[f].place \notin {"scanning", "override", "rescan", "rescanning"}
    /\ McpFault
    /\ review' = NoReview
    /\ UNCHANGED <<config, seedMark, current, client, frame, calls, cleared, dropped,
                   doubled>>

\* The package cannot be fetched: the add ends.
PrefetchFails(f) ==
    /\ frame[f].place = "prefetch"
    /\ McpFault
    /\ Returns(f)
    /\ UNCHANGED <<config, seedMark, review, current, client, calls, cleared, dropped,
                   doubled>>

-----------------------------------------------------------------------------
(* McpServerManager.connect and StdioMcpClient.                            *)

\* What follows a connection: add writes the entry, the others only log. The
\* add of a server that is connected persists its draft all the same.
Connected(f) ==
    /\ Returns(f)
    /\ IF frame[f].kind = "add"
       THEN config' = frame[f].argv /\ dropped' = FALSE
       ELSE UNCHANGED <<config, dropped>>

\* connect() for an id that has a client returns it, whatever its command.
AlreadyConnected(f) ==
    /\ frame[f].place \in {"prefetch", "queued"} /\ frame[f].kind # "rewire"
    /\ current # 0
    /\ Connected(f)
    /\ UNCHANGED <<seedMark, review, current, client, calls, mcpFaults, cleared, doubled>>

\* A child process is started and the handshake awaited.
StartClient(f) ==
    /\ frame[f].place \in {"prefetch", "queued"} /\ current = 0
    /\ \E c \in Clients :
         /\ client[c].phase = "unused" /\ \A d \in 1..(c - 1) : client[d].phase # "unused"
         /\ client' = [client EXCEPT ![c] = [argv |-> frame[f].argv, phase |-> "starting"]]
         /\ frame' = [frame EXCEPT ![f].place = "handshake", ![f].client = c]
    /\ UNCHANGED <<config, seedMark, review, current, calls, mcpFaults, cleared, dropped,
                   doubled>>

\* initialize and list_tools answer: the client is registered, over any other.
Register(f) ==
    /\ frame[f].place = "handshake"
    /\ client' = [client EXCEPT ![frame[f].client].phase = "open"]
    /\ doubled' = (doubled \/ current # 0)
    /\ current' = frame[f].client
    /\ Connected(f)
    /\ UNCHANGED <<seedMark, review, calls, mcpFaults, cleared>>

\* ... and the entry cannot be written: the server stays connected.
PersistFails(f) ==
    /\ frame[f].place = "handshake" /\ frame[f].kind = "add"
    /\ McpFault
    /\ client' = [client EXCEPT ![frame[f].client].phase = "open"]
    /\ doubled' = (doubled \/ current # 0)
    /\ current' = frame[f].client
    /\ Returns(f)
    /\ UNCHANGED <<config, seedMark, review, calls, cleared, dropped>>

\* Variant: the client is not closed.
HandshakeFails_Leaks(f) ==
    /\ frame[f].place = "handshake"
    /\ client' = [client EXCEPT ![frame[f].client].phase = "open"]
    /\ Returns(f)
    /\ UNCHANGED <<config, seedMark, review, current, calls, mcpFaults, cleared, dropped,
                   doubled>>

\* A protocol fault or the timeout wins the race with initialize: connect
\* closes the client before it raises.
HandshakeFails(f) ==
    /\ frame[f].place = "handshake"
    /\ client' = [client EXCEPT ![frame[f].client].phase = "closing"]
    /\ Goes(f, "giveup")
    /\ UNCHANGED <<config, seedMark, review, current, calls, mcpFaults, cleared, dropped,
                   doubled>>

\* Variant: the owner task is joined without a limit, and a child that never
\* answered initialize does not end.
GiveUp_Joins(f) ==
    /\ frame[f].place = "giveup" /\ client[frame[f].client].phase = "open"
    /\ client' = [client EXCEPT ![frame[f].client] = Unused]
    /\ Returns(f)
    /\ UNCHANGED <<config, seedMark, review, current, calls, mcpFaults, cleared, dropped,
                   doubled>>

\* close(): the owner task is joined, or cancelled after 15 s; pumps and fds go.
GiveUp(f) ==
    /\ frame[f].place = "giveup"
    /\ client' = [client EXCEPT ![frame[f].client] = Unused]
    /\ Returns(f)
    /\ UNCHANGED <<config, seedMark, review, current, calls, mcpFaults, cleared, dropped,
                   doubled>>

-----------------------------------------------------------------------------
(* disconnect: remove_mcp_server and the rewire.                           *)

\* The id leaves the manager at once; its client is closed afterwards.
Pops(f, argv, kind) ==
    /\ frame' = [frame EXCEPT ![f] = [kind |-> kind, place |-> "popped", argv |-> argv,
                                      force |-> FALSE, client |-> current,
                                      scan |-> NoFrame]]
    /\ current' = 0
    /\ client' = [client EXCEPT ![current].phase = "closing"]

RemoveServer(f) ==
    /\ frame[f].place = "done" /\ calls < MaxCalls /\ current # 0
    /\ calls' = calls + 1
    /\ Pops(f, NoArgv, "remove")
    /\ UNCHANGED <<config, seedMark, review, mcpFaults, cleared, dropped, doubled>>

\* Nothing to close: the entry goes at once.
RemoveUnconnected ==
    /\ calls < MaxCalls /\ current = 0 /\ config # NoArgv
    /\ calls' = calls + 1
    /\ config' = NoArgv /\ dropped' = seedMark
    /\ UNCHANGED <<seedMark, review, current, client, frame, mcpFaults, cleared, doubled>>

\* reconnect_byok_empty_openai_mcp_servers reads the entries when a provider is
\* activated and works through them.
BeginRewire(f) ==
    /\ config # NoArgv
    /\ Begins(f, "rewire", "queued", config, FALSE)
    /\ UNCHANGED <<config, seedMark, review, current, client, mcpFaults, cleared, dropped,
                   doubled>>

RewirePops(f) ==
    /\ frame[f].place = "queued" /\ frame[f].kind = "rewire" /\ current # 0
    /\ Pops(f, frame[f].argv, "rewire")
    /\ UNCHANGED <<config, seedMark, review, calls, mcpFaults, cleared, dropped, doubled>>

\* close() returns: remove drops the entry, the rewire connects again.
Popped(f) ==
    /\ frame[f].place = "popped"
    /\ client' = [client EXCEPT ![frame[f].client] = Unused]
    /\ IF frame[f].kind = "remove"
       THEN Returns(f) /\ config' = NoArgv /\ dropped' = seedMark
       ELSE /\ frame' = [frame EXCEPT ![f].place = "queued", ![f].client = 0,
                                      ![f].kind = "rewired"]
            /\ UNCHANGED <<config, dropped>>
    /\ UNCHANGED <<seedMark, review, current, calls, mcpFaults, cleared, doubled>>

-----------------------------------------------------------------------------
(* Boot.                                                                   *)

\* _import_seed_mcp_servers: an id is imported once. The marker file is written
\* last; a failure to write it is only logged, and a crash may come before it.
ImportSeed ==
    /\ config' = IF ~seedMark /\ config = NoArgv THEN Seed ELSE config
    /\ seedMark' \in {TRUE, seedMark}

\* The daemon starts: the memory of the last process is gone, its children get
\* EOF; the seed is imported and the entries are read, to be connected in turn.
McpBoot(f) ==
    /\ McpFault
    /\ current' = 0
    /\ client' = [c \in Clients |-> Unused]
    /\ ImportSeed
    /\ frame' = [g \in Frames |-> IF g = f /\ config' # NoArgv
                                  THEN [IdleFrame EXCEPT !.kind = "boot",
                                           !.place = "queued", !.argv = config']
                                  ELSE IdleFrame]
    /\ UNCHANGED <<review, calls, cleared, dropped, doubled>>

-----------------------------------------------------------------------------
FrameStep(f) ==
    \/ ScanCached(f) \/ ScanAnew(f) \/ SaveScan(f) \/ Override(f)
    \/ AlreadyConnected(f)
    \/ StartClient(f)
    \/ Register(f) \/ HandshakeFails(f) \/ GiveUp(f)
    \/ RewirePops(f) \/ Popped(f)

McpNext ==
    \/ \E f \in Frames :
         \/ \E argv \in Argvs, force \in BOOLEAN : AddServer(f, argv, force)
         \/ RemoveServer(f) \/ BeginRewire(f) \/ McpBoot(f)
         \/ FrameStep(f)
         \/ PrefetchFails(f) \/ PersistFails(f)
    \/ ReviewExpires \/ RemoveUnconnected

McpSpec == McpInit /\ [][McpNext]_mcpVars

-----------------------------------------------------------------------------
\* Every variable has its type, and a call that waits for a handshake or a
\* close holds the client it waits for.
McpTypeOK ==
    /\ config \in Argvs \cup {NoArgv} /\ seedMark \in BOOLEAN
    /\ review \in Reviews
    /\ current \in 0..MaxClients
    /\ client \in [Clients -> [argv : Argvs \cup {NoArgv}, phase : ClientPhases]]
    /\ frame \in [Frames -> [kind : {"none", "add", "remove", "rewire", "rewired", "boot"},
                             place : FramePlaces, argv : Argvs \cup {NoArgv},
                             force : BOOLEAN, client : 0..MaxClients,
                             scan : Frames \cup {NoFrame}]]
    /\ \A f \in Frames :
         frame[f].place \in {"handshake", "giveup"}
           => client[frame[f].client].phase \in {"starting", "closing"}
    /\ calls \in 0..MaxCalls /\ mcpFaults \in 0..MaxMcpFaults
    /\ cleared \subseteq Argvs /\ dropped \in BOOLEAN /\ doubled \in BOOLEAN

\* No command runs, and none is persisted to run at the next boot, that did not
\* pass the install gate or come with the image: the boot and the rewire only
\* ever connect what an add persisted after its review (_neus_write_mcp_entry,
\* "MUST only be called AFTER the Safent security gate").
OnlyClearedRuns ==
    /\ config \in cleared \cup {Seed, NoArgv}
    /\ \A c \in Clients : client[c].argv \in cleared \cup {Seed, NoArgv}

\* A child process is never orphaned: an open client is the one the manager
\* holds, a starting or closing one is awaited by the call that will end it,
\* unless two connections of the same id overlapped, which connect() leaves to
\* its callers ("must not call connect() concurrently for the same server_id").
NoClientLeaks ==
    ~doubled =>
      \A c \in Clients :
        /\ client[c].phase = "open" => current = c
        /\ client[c].phase \in {"starting", "closing"}
             => \E f \in Frames : frame[f].client = c

\* A seed the owner removed does not come back at the next boot, nor at the one
\* after an upgrade (_import_seed_mcp_servers, "must never resurrect").
SeedStaysRemoved == dropped => config = NoArgv

\* No operation is left waiting: whatever the child process does, and whatever
\* the other operations do to the client it holds, each can take its next step.
NoFrameStuck ==
    \A f \in Frames : frame[f].place # "done" => ENABLED FrameStep(f)

\* Overlapping adds, removals, rewires and boots of a server run only what
\* was cleared and orphan no child process.
McpSafe ==
    McpTypeOK /\ OnlyClearedRuns /\ NoClientLeaks /\ SeedStaysRemoved
=============================================================================
