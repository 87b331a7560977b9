----------------------------- MODULE TaskStream -----------------------------
(***************************************************************************)
(* The live view of one chat turn: what the orchestrator emits while it    *)
(* processes the task (tasks/application/agent_loop_orchestrator.py), the  *)
(* StreamBroker that fans it out and replays it, the relay that turns it   *)
(* into server-sent events (shell_server/cowork/chat_stream.py) and the    *)
(* browser that resumes after every drop.  Beside the stream, which lives  *)
(* in the memory of the daemon, there is the durable mirror: the row of    *)
(* the answer in the conversation.                                         *)
(*                                                                         *)
(* The daemon has one event loop and the code after a cycle never yields,  *)
(* so its steps (`remaining`) interleave with a crash and nothing else.     *)
(* A delivery to a subscriber is scheduled with call_soon_threadsafe and   *)
(* happens later: `pipe` holds the callbacks of a subscriber, in order.    *)
(***************************************************************************)
EXTENDS Integers, Sequences

CONSTANTS
    Browsers,       \* pages that follow the task
    Buffer,         \* _SUBSCRIBER_BUFFER_SIZE
    MaxReplay,      \* _MAX_REPLAY_FRAMES
    MaxTurns,       \* WorkItem.max_attempts: cycles of the task
    MaxDeltas,      \* bound: deltas of one cycle
    MaxDrops,       \* bound: broken connections, and restarts before them
    MaxEras         \* bound: restarts of the daemon

ASSUME StreamAssumption ==
    /\ Buffer \in Nat /\ Buffer > 1
    /\ {MaxReplay, MaxTurns, MaxDeltas, MaxDrops, MaxEras} \subseteq Nat

VARIABLES
    taskState,      \* the task: "queued", "running", "parked", "stray", "over"
    turns,          \* attempts of the task
    deltas,         \* _CountingChunkSink.delta_count of the cycle
    remaining,      \* what the code after the cycle has still to do
    row,            \* the answer in the conversation mirror, and its status
    unsaved,        \* history: a write of the mirror failed
    seqNo,          \* StreamBroker._seq
    log,            \* StreamBroker._replay_log
    terminal,       \* StreamBroker._terminal_done (a sequence of one or none)
    closedBy,       \* history: what closed the stream, in this process
    link,           \* a page: "down", "replay", "live"; "closed" for good
    rest,           \* the part of the catch-up not sent yet
    box,            \* the queue of the subscriber
    pipe,           \* deliveries scheduled and not made yet
    high,           \* lastSeq of the page, which is its Last-Event-ID
    shown,          \* frames the page has shown
    lost,           \* history: frames dropped by back-pressure
    since,          \* history: the process the page began with
    drops, era      \* counters of the bounds

loopVars == <<taskState, turns, deltas, remaining, row, unsaved>>

brokerVars == <<seqNo, log, terminal, closedBy>>

pageVars == <<link, rest, box, pipe, high, shown, lost, since>>

streamVars == <<loopVars, brokerVars, pageVars, drops, era>>

Frame(kind) == [seq |-> seqNo + 1, kind |-> kind]

(* _CLOSE_SENTINEL                                                         *)
Sentinel == [seq |-> 0, kind |-> "close"]

(* Frames for which room is made.                                          *)
LifecycleKinds == {"status", "done", "close"}

Registered(b) == link[b] \in {"replay", "live"}

LoopFree == remaining = << >>

-----------------------------------------------------------------------------
StreamInit ==
    /\ taskState = "queued"
    /\ turns = 0
    /\ deltas = 0
    /\ remaining = << >>
    /\ row = "none"
    /\ unsaved = FALSE
    /\ seqNo = 0
    /\ log = << >>
    /\ terminal = << >>
    /\ closedBy = "none"
    /\ link = [b \in Browsers |-> "down"]
    /\ rest = [b \in Browsers |-> << >>]
    /\ box = [b \in Browsers |-> << >>]
    /\ pipe = [b \in Browsers |-> << >>]
    /\ high = [b \in Browsers |-> 0]
    /\ shown = [b \in Browsers |-> {}]
    /\ lost = [b \in Browsers |-> {}]
    /\ since = [b \in Browsers |-> 0]
    /\ drops = 0
    /\ era = 0

-----------------------------------------------------------------------------
(* StreamBroker                                                            *)

(* Every registered subscriber gets the items, later.                      *)
Schedule(items) ==
    pipe' = [b \in Browsers |-> IF Registered(b) THEN pipe[b] \o items ELSE pipe[b]]

(* publish: status frames and deltas also go to the replay log.            *)
Publish(kind) ==
    LET all == Append(log, Frame(kind))
    IN  /\ seqNo' = seqNo + 1
        /\ log' = IF Len(all) > MaxReplay THEN Tail(all) ELSE all
        /\ Schedule(<<Frame(kind)>>)
        /\ UNCHANGED <<terminal, closedBy, link, rest, box, high, shown, lost, since>>

(* close_task: the terminal frame, then the sentinel.                      *)
CloseTask(why) ==
    /\ seqNo' = seqNo + 1
    /\ terminal' = <<Frame("done")>>
    /\ closedBy' = why
    /\ Schedule(<<Frame("done"), Sentinel>>)
    /\ UNCHANGED <<log, link, rest, box, high, shown, lost, since>>

(* Variant: no room is made for the frames of the life cycle.              *)
Deliver_Drops(b) ==
    /\ LoopFree
    /\ pipe[b] # << >>
    /\ LET item == Head(pipe[b])
       IN  IF Len(box[b]) < Buffer
             THEN box' = [box EXCEPT ![b] = Append(@, item)] /\ UNCHANGED lost
             ELSE lost' = [lost EXCEPT ![b] = @ \cup {item}] /\ UNCHANGED box
    /\ pipe' = [pipe EXCEPT ![b] = Tail(@)]
    /\ UNCHANGED <<loopVars, brokerVars, link, rest, high, shown, since, drops, era>>

(* _deliver and _force_enqueue: when the queue is full a delta is dropped, *)
(* and the oldest item gives way to a frame of the life cycle.             *)
Deliver(b) ==
    /\ LoopFree
    /\ pipe[b] # << >>
    /\ LET item == Head(pipe[b])
       IN  \/ /\ Len(box[b]) < Buffer
              /\ box' = [box EXCEPT ![b] = Append(@, item)]
              /\ UNCHANGED lost
           \/ /\ Len(box[b]) = Buffer /\ item.kind \in LifecycleKinds
              /\ box' = [box EXCEPT ![b] = Append(Tail(@), item)]
              /\ lost' = [lost EXCEPT ![b] = @ \cup {Head(box[b])}]
           \/ /\ Len(box[b]) = Buffer /\ item.kind \notin LifecycleKinds
              /\ lost' = [lost EXCEPT ![b] = @ \cup {item}]
              /\ UNCHANGED box
    /\ pipe' = [pipe EXCEPT ![b] = Tail(@)]
    /\ UNCHANGED <<loopVars, brokerVars, link, rest, high, shown, since, drops, era>>

(* Variant: only a task that has ended is replayed.                        *)
Subscribe_LiveOnly(b) ==
    /\ LoopFree
    /\ link[b] = "down"
    /\ link' = [link EXCEPT ![b] = "replay"]
    /\ rest' = [rest EXCEPT ![b] = IF terminal = << >> THEN << >> ELSE log \o terminal]
    /\ UNCHANGED <<loopVars, brokerVars, box, pipe, high, shown, lost, since, drops, era>>

(* The page connects, again or for the first time; subscribe takes the     *)
(* snapshot and registers the queue without yielding in between.           *)
Subscribe(b) ==
    /\ LoopFree
    /\ link[b] = "down"
    /\ link' = [link EXCEPT ![b] = "replay"]
    /\ rest' = [rest EXCEPT ![b] = log \o terminal]
    /\ UNCHANGED <<loopVars, brokerVars, box, pipe, high, shown, lost, since, drops, era>>

(* _sse_relay skips what the page has seen, and so does the page itself;   *)
(* after the terminal frame the page closes, if it was not skipped.        *)
Receive(b, frame) ==
    LET new == frame.seq > high[b]
    IN  /\ high' = [high EXCEPT ![b] = IF new THEN frame.seq ELSE @]
        /\ shown' = [shown EXCEPT ![b] = IF new THEN @ \cup {frame} ELSE @]
        /\ link' = [link EXCEPT ![b] =
                      IF frame.kind # "done" THEN @ ELSE IF new THEN "closed" ELSE "down"]

(* The generator of the subscriber ends: its entry is removed.             *)
Unregister(b) ==
    /\ rest' = [rest EXCEPT ![b] = << >>]
    /\ box' = [box EXCEPT ![b] = << >>]
    /\ pipe' = [pipe EXCEPT ![b] = << >>]

(* The catch-up: it ends the connection if it holds the terminal frame.    *)
SendReplay(b) ==
    /\ LoopFree
    /\ link[b] = "replay"
    /\ \/ /\ rest[b] = << >>
          /\ link' = [link EXCEPT ![b] = "live"]
          /\ UNCHANGED <<rest, box, pipe, high, shown>>
       \/ /\ rest[b] # << >>
          /\ Receive(b, Head(rest[b]))
          /\ IF Head(rest[b]).kind = "done"
               THEN Unregister(b)
               ELSE rest' = [rest EXCEPT ![b] = Tail(@)] /\ UNCHANGED <<box, pipe>>
    /\ UNCHANGED <<loopVars, brokerVars, lost, since, drops, era>>

SendLive(b) ==
    /\ LoopFree
    /\ link[b] = "live"
    /\ box[b] # << >>
    /\ \/ /\ Head(box[b]) = Sentinel
          /\ link' = [link EXCEPT ![b] = "down"]
          /\ Unregister(b)
          /\ UNCHANGED <<high, shown>>
       \/ /\ Head(box[b]) # Sentinel
          /\ Receive(b, Head(box[b]))
          /\ IF Head(box[b]).kind = "done"
               THEN Unregister(b)
               ELSE box' = [box EXCEPT ![b] = Tail(@)] /\ UNCHANGED <<rest, pipe>>
    /\ UNCHANGED <<loopVars, brokerVars, lost, since, drops, era>>

(* The connection breaks, or the relay gives up a silent one.              *)
Drop(b) ==
    /\ LoopFree
    /\ Registered(b)
    /\ drops + era < MaxDrops
    /\ drops' = drops + 1
    /\ link' = [link EXCEPT ![b] = "down"]
    /\ Unregister(b)
    /\ UNCHANGED <<loopVars, brokerVars, high, shown, lost, since, era>>

(* The page is loaded again: it has seen nothing.                          *)
Reload(b) ==
    /\ LoopFree
    /\ drops + era < MaxDrops
    /\ drops' = drops + 1
    /\ link' = [link EXCEPT ![b] = "down"]
    /\ Unregister(b)
    /\ high' = [high EXCEPT ![b] = 0]
    /\ shown' = [shown EXCEPT ![b] = {}]
    /\ lost' = [lost EXCEPT ![b] = {}]
    /\ since' = [since EXCEPT ![b] = era]
    /\ UNCHANGED <<loopVars, brokerVars, era>>

-----------------------------------------------------------------------------
(* AgentLoopOrchestrator._process for a chat message                       *)

StartTurn ==
    /\ LoopFree
    /\ taskState = "queued"
    /\ turns < MaxTurns
    /\ taskState' = "running"
    /\ turns' = turns + 1
    /\ deltas' = 0
    /\ Publish("status")
    /\ UNCHANGED <<remaining, row, unsaved, drops, era>>

(* A token or a tool step, through _CountingChunkSink, which writes the    *)
(* partial answer to the mirror every few tokens.                          *)
EmitDelta ==
    /\ LoopFree
    /\ taskState = "running"
    /\ deltas < MaxDeltas
    /\ deltas' = deltas + 1
    /\ Publish("delta")
    /\ row' \in {row, "streaming"}
    /\ UNCHANGED <<taskState, turns, remaining, unsaved, drops, era>>

(* What is left to do when the cycle ends, by how it ends.                 *)
Answered == (IF deltas = 0 THEN <<"save", "emit">> ELSE <<"save">>) \o <<"close answer", "finish">>

Acted == <<"close acted", "finish">>

Nothing == <<"close nothing", "fail">>

Broken == <<"fail engine">>

Cancelled == <<"close cancel", "finish">>

(* After the dispatch of the proposals, one of which may wait for a human; *)
(* when none has evidence nothing is marked, and the lease runs out.       *)
Dispatched(result) ==
    CASE result = "executed" -> Acted
      [] result = "parked"   -> <<"park", "close dispatch">>
      [] result = "rejected" -> <<"finish", "close dispatch">>
      [] result = "failed"   -> <<"fail", "close dispatch">>
      [] result = "no evidence" -> <<"close dispatch", "abandon">>

EndCycle ==
    /\ LoopFree
    /\ taskState = "running"
    /\ \/ remaining' \in {Answered, Acted, Nothing, Broken, Cancelled}
       \/ \E r \in {"executed", "parked", "rejected", "failed", "no evidence"},
             narrative \in {<< >>, <<"save">>} :
             remaining' = narrative \o Dispatched(r)
    /\ UNCHANGED <<taskState, turns, deltas, row, unsaved, brokerVars, pageVars, drops, era>>

(* A write of the mirror is best-effort.                                   *)
WriteTurn(value) ==
    \/ row' = value /\ UNCHANGED unsaved
    \/ unsaved' = TRUE /\ UNCHANGED row

(* _do_mark_failed: retried, unless it is the last attempt or the error    *)
(* forbids it.  After a failure of the engine the stream stays open for    *)
(* the retry, and is closed, after the mirror, when there is none.         *)
AfterFailure(engine) ==
    \/ /\ turns < MaxTurns
       /\ taskState' = "queued"
       /\ remaining' = Tail(remaining)
       /\ IF engine THEN Publish("status") ELSE UNCHANGED <<brokerVars, pageVars>>
    \/ /\ taskState' = "over"
       /\ remaining' = (IF engine THEN <<"save error", "close engine">> ELSE << >>) \o Tail(remaining)
       /\ UNCHANGED <<brokerVars, pageVars>>

SaveStep == WriteTurn("complete")

(* One step of the code after the cycle.                                   *)
AfterCycle ==
    /\ ~LoopFree
    /\ \/ /\ Head(remaining) = "save"
          /\ SaveStep
          /\ remaining' = Tail(remaining)
          /\ UNCHANGED <<taskState, brokerVars, pageVars>>
       \/ /\ Head(remaining) = "save error"
          /\ WriteTurn("failed")
          /\ remaining' = Tail(remaining)
          /\ UNCHANGED <<taskState, brokerVars, pageVars>>
       \/ /\ Head(remaining) = "emit"
          /\ Publish("delta")
          /\ remaining' = Tail(remaining)
          /\ UNCHANGED <<taskState, row, unsaved>>
       \/ /\ Head(remaining) \in {"close answer", "close acted", "close nothing", "close cancel",
                             "close dispatch", "close engine"}
          /\ CloseTask(Head(remaining))
          /\ remaining' = Tail(remaining)
          /\ UNCHANGED <<taskState, row, unsaved>>
       \/ /\ Head(remaining) \in {"fail", "fail engine"}
          /\ AfterFailure(Head(remaining) = "fail engine")
          /\ UNCHANGED <<row, unsaved>>
       \/ /\ Head(remaining) \in {"finish", "park", "abandon"}
          /\ taskState' = [finish |-> "over", park |-> "parked", abandon |-> "stray"][Head(remaining)]
          /\ remaining' = Tail(remaining)
          /\ UNCHANGED <<row, unsaved, brokerVars, pageVars>>
    /\ UNCHANGED <<turns, deltas, drops, era>>

(* A human approves, or reconcile_stale finds that the lease of a task no  *)
(* worker is working on has run out.                                       *)
Requeued ==
    /\ LoopFree
    /\ taskState \in {"parked", "stray"}
    /\ taskState' = "queued"
    /\ UNCHANGED <<turns, deltas, remaining, row, unsaved, brokerVars, pageVars, drops, era>>

(* The daemon dies and comes back: the broker is empty, the task requeued. *)
DaemonDies ==
    /\ era < MaxEras
    /\ era' = era + 1
    /\ taskState' = IF taskState \in {"running", "stray"} THEN "queued" ELSE taskState
    /\ remaining' = << >>
    /\ seqNo' = 0
    /\ log' = << >>
    /\ terminal' = << >>
    /\ closedBy' = "none"
    /\ link' = [b \in Browsers |-> IF link[b] = "closed" THEN "closed" ELSE "down"]
    /\ rest' = [b \in Browsers |-> << >>]
    /\ box' = [b \in Browsers |-> << >>]
    /\ pipe' = [b \in Browsers |-> << >>]
    /\ UNCHANGED <<turns, deltas, row, unsaved, high, shown, lost, since, drops>>

StreamNext ==
    \/ StartTurn
    \/ EmitDelta
    \/ EndCycle
    \/ AfterCycle
    \/ Requeued
    \/ DaemonDies
    \/ \E b \in Browsers :
          \/ Deliver(b) \/ Subscribe(b) \/ SendReplay(b) \/ SendLive(b)
          \/ Drop(b) \/ Reload(b)

StreamSpec == StreamInit /\ [][StreamNext]_streamVars

(* The event loop runs what is scheduled, and an EventSource that lost its *)
(* connection connects again by itself.                                    *)
PageStep(b) == Subscribe(b) \/ SendReplay(b) \/ SendLive(b)

StreamFairness ==
    /\ WF_streamVars(AfterCycle)
    /\ \A b \in Browsers :
          WF_streamVars(Deliver(b)) /\ WF_streamVars(PageStep(b))
-----------------------------------------------------------------------------
(* Properties                                                              *)

InFlight(b) == rest[b] \o box[b] \o pipe[b]

(* The state of the turn, of the broker and of the pages has its type.     *)
StreamTypeOK ==
    /\ taskState \in {"queued", "running", "parked", "stray", "over"}
    /\ turns \in 0 .. MaxTurns
    /\ deltas \in 0 .. MaxDeltas
    /\ row \in {"none", "streaming", "complete", "failed"}
    /\ seqNo \in Nat
    /\ Len(log) <= MaxReplay
    /\ Len(terminal) <= 1
    /\ link \in [Browsers -> {"down", "replay", "live", "closed"}]
    /\ \A b \in Browsers : Len(box[b]) <= Buffer
    /\ era \in 0 .. MaxEras

(* "Sin duplicados" (subscribe): the catch-up of a connection, what waits  *)
(* in its queue and what is scheduled for it never overlap and are in the  *)
(* order of publication, through drops, reconnections and retries.  (The   *)
(* terminal frame that ends a catch-up may be that of an earlier attempt.) *)
ReplayMeetsLive ==
    \A b \in Browsers : \A i, j \in DOMAIN InFlight(b) :
       i < j => \/ InFlight(b)[i].seq < InFlight(b)[j].seq
                \/ Sentinel \in {InFlight(b)[i], InFlight(b)[j]}
                \/ j = Len(rest[b]) /\ InFlight(b)[j].kind = "done"

(* "on reconnect we resume from exactly where the client left off"         *)
(* (chat_stream.py:6): whatever the log can replay, up to the last frame a *)
(* page has seen, it has shown, except what back-pressure dropped.  (A     *)
(* page that outlives the daemon is not covered: the numbers start again.) *)
NothingSkipped ==
    \A b \in Browsers : since[b] = era =>
       \A i \in DOMAIN log :
          log[i].seq <= high[b] => log[i] \in shown[b] \cup lost[b]

(* "lifecycle frames never silently dropped" (close_task): a connection to *)
(* a stream that was closed has the terminal frame still before it, even   *)
(* if its queue was full and the task was run again in the meantime.       *)
DoneOnItsWay ==
    \A b \in Browsers :
       Registered(b) /\ terminal # << >> =>
          \E i \in DOMAIN InFlight(b) : InFlight(b)[i].kind = "done"

(* "persiste la respuesta del asistente ANTES de cerrar el stream"         *)
(* (_handle_chat_narrative_reply): when a page is told that the turn is    *)
(* over, the mirror has the answer or the error, if it could be written.   *)
MirrorBeforeDone ==
    /\ closedBy = "close answer" => row = "complete" \/ unsaved
    /\ closedBy = "close engine" => row = "failed" \/ unsaved

(* "A failed attempt is not a failed task" (_handle_engine_failure): a     *)
(* stream that a failure of the engine closed belongs to a task that will  *)
(* not be tried again.                                                     *)
RetryKeepsStream == closedBy = "close engine" => taskState = "over"

(* Every page learns the end: once the task is over, a page finishes, also *)
(* after drops, full queues and reloads, unless the daemon is restarted.   *)
PageFinishes ==
    \A b \in Browsers :
       (taskState = "over" /\ era = 0) ~> (link[b] = "closed" \/ era > 0)

\* A page that follows a task sees its frames in order, without gap or
\* repetition, with the terminal frame last and the answer stored before it.
StreamSafe ==
    /\ StreamTypeOK /\ ReplayMeetsLive /\ NothingSkipped /\ DoneOnItsWay
    /\ MirrorBeforeDone /\ RetryKeepsStream
=============================================================================
