--------------------------- MODULE UsageMetering ---------------------------
(***************************************************************************)
(* Usage metering: the daemon's loop records one usage event per cycle     *)
(* (SQLiteUsageRepository.record_cycle) while config_sync, another         *)
(* process, uploads the events not uploaded yet as aggregates              *)
(* (UsageUploader.upload_once) and marks the ones it read.  The pairing    *)
(* can be dropped or replaced between any two of its reads.                *)
(***************************************************************************)
EXTENDS Naturals

CONSTANTS
    Events,          \* usage events
    Payers,          \* tenants the instance may be paired with
    Unpaired,        \* not paired
    MaxSwaps,        \* bound: changes of the pairing
    MaxUnread        \* bound: requests and answers lost, failed marks

ASSUME UsageAssumption ==
    Unpaired \notin Payers /\ MaxSwaps \in Nat /\ MaxUnread \in Nat

VARIABLES
    metered,     \* rows of usage_events
    uploaded,    \* those with uploaded = 1
    payer,       \* the tenant of the pairing on disk
    uploadAt,    \* where upload_once is
    assoc,       \* the tenant it read at the start
    picked,      \* the event ids of the aggregates it read
    counted,     \* how often a control plane has counted each event
    unanswered,  \* history: uploads of each event whose answer was never read
    swaps,       \* changes of the pairing so far
    unread       \* losses and failed marks so far

usageVars == <<metered, uploaded, payer, uploadAt, assoc, picked, counted,
               unanswered, swaps, unread>>

UsageInit ==
    /\ metered = {} /\ uploaded = {} /\ payer = Unpaired
    /\ uploadAt = "idle" /\ assoc = Unpaired /\ picked = {}
    /\ counted = [e \in Events |-> 0] /\ unanswered = [e \in Events |-> 0]
    /\ swaps = 0 /\ unread = 0

GoesUnread == unread < MaxUnread /\ unread' = unread + 1

\* The end of upload_once, and of the process: nothing of it is kept.
UploadOver == uploadAt' = "idle" /\ assoc' = Unpaired /\ picked' = {}

\* record_cycle: one transaction in the daemon, at any moment.
RecordCycle(e) ==
    /\ e \notin metered
    /\ metered' = metered \cup {e}
    /\ UNCHANGED <<uploaded, payer, uploadAt, assoc, picked, counted, unanswered,
                   swaps, unread>>

\* pair and unpair write the association from other processes.
SwapPairing(t) ==
    /\ t # payer /\ swaps < MaxSwaps
    /\ payer' = t /\ swaps' = swaps + 1
    /\ UNCHANGED <<metered, uploaded, uploadAt, assoc, picked, counted, unanswered,
                   unread>>

\* upload_once: is_associated and get.
BeginUpload ==
    /\ uploadAt = "idle" /\ payer # Unpaired
    /\ assoc' = payer /\ uploadAt' = "begun"
    /\ UNCHANGED <<metered, uploaded, payer, picked, counted, unanswered, swaps,
                   unread>>

\* Variant: nothing is read after a first upload.
ReadUnsent_Once ==
    /\ uploadAt = "begun"
    /\ IF uploaded # {} \/ metered = {}
       THEN UploadOver
       ELSE picked' = metered /\ uploadAt' = "read" /\ UNCHANGED assoc
    /\ UNCHANGED <<metered, uploaded, payer, counted, unanswered, swaps, unread>>

\* unsent_aggregates: the rows to report, with their ids.
ReadUnsent ==
    /\ uploadAt = "begun"
    /\ IF metered \ uploaded = {}
       THEN UploadOver
       ELSE picked' = metered \ uploaded /\ uploadAt' = "read" /\ UNCHANGED assoc
    /\ UNCHANGED <<metered, uploaded, payer, counted, unanswered, swaps, unread>>

\* The pairing is gone when the secret is read: nothing is sent.
NoSecret ==
    /\ uploadAt = "read" /\ payer = Unpaired
    /\ UploadOver
    /\ UNCHANGED <<metered, uploaded, payer, counted, unanswered, swaps, unread>>

\* The batch in a tally of events.
PlusPicked(tally) == [e \in Events |-> tally[e] + IF e \in picked THEN 1 ELSE 0]

\* POST /v1/metering, answered 200.  The control plane of the tenant read first
\* knows the instance by the secret, which is the present pairing's.
PostUsage ==
    /\ uploadAt = "read" /\ payer # Unpaired /\ payer = assoc
    /\ counted' = PlusPicked(counted)
    /\ uploadAt' = "accepted"
    /\ UNCHANGED <<metered, uploaded, payer, assoc, picked, unanswered, swaps, unread>>

\* The secret is not the one of the pairing it posts for: the answer is 401.
PostRefused ==
    /\ uploadAt = "read" /\ payer # Unpaired /\ payer # assoc
    /\ UploadOver
    /\ UNCHANGED <<metered, uploaded, payer, counted, unanswered, swaps, unread>>

\* The request does not arrive, or arrives and its answer does not.
PostLost ==
    /\ uploadAt = "read" /\ payer # Unpaired
    /\ GoesUnread
    /\ \/ UNCHANGED <<counted, unanswered>>
       \/ /\ payer = assoc
          /\ counted' = PlusPicked(counted)
          /\ unanswered' = PlusPicked(unanswered)
    /\ UploadOver
    /\ UNCHANGED <<metered, uploaded, payer, swaps>>

\* Variant: every row there is now is marked.
MarkUploaded_All ==
    /\ uploadAt = "accepted"
    /\ uploaded' = metered
    /\ UploadOver
    /\ UNCHANGED <<metered, payer, counted, unanswered, swaps, unread>>

\* mark_uploaded: the ids that were read, not the rows there are now.
MarkUploaded ==
    /\ uploadAt = "accepted"
    /\ uploaded' = uploaded \cup picked
    /\ UploadOver
    /\ UNCHANGED <<metered, payer, counted, unanswered, swaps, unread>>

\* The update fails or config_sync dies before it.
MarkFails ==
    /\ uploadAt = "accepted"
    /\ GoesUnread
    /\ unanswered' = PlusPicked(unanswered)
    /\ UploadOver
    /\ UNCHANGED <<metered, uploaded, payer, counted, swaps>>

UploadTick ==
    \/ BeginUpload \/ ReadUnsent \/ NoSecret \/ PostUsage \/ PostRefused
    \/ MarkUploaded

UsageNext ==
    \/ \E e \in Events : RecordCycle(e)
    \/ \E t \in Payers \cup {Unpaired} : SwapPairing(t)
    \/ UploadTick \/ PostLost \/ MarkFails

UsageSpec == UsageInit /\ [][UsageNext]_usageVars

\* _run_loop ticks for ever.
UsageFairness == WF_usageVars(UploadTick)

-----------------------------------------------------------------------------
\* Every variable has its type, and a batch is held only during an upload.
UsageTypeOK ==
    /\ metered \subseteq Events /\ uploaded \subseteq Events
    /\ payer \in Payers \cup {Unpaired} /\ assoc \in Payers \cup {Unpaired}
    /\ uploadAt \in {"idle", "begun", "read", "accepted"}
    /\ picked \subseteq metered
    /\ picked # {} => uploadAt \in {"read", "accepted"}
    /\ counted \in [Events -> Nat] /\ unanswered \in [Events -> Nat]
    /\ swaps \in 0..MaxSwaps /\ unread \in 0..MaxUnread

\* An event marked uploaded has been counted: a cycle recorded while the POST
\* is in flight is not marked with the batch (mark_uploaded).
UploadedWasCounted ==
    \A e \in uploaded : counted[e] > 0

\* An event is counted again only after an upload of it whose answer was lost
\* or whose mark failed, whatever is paired in between (upload_once).
CountedAgainOnlyInDoubt ==
    \A e \in Events : counted[e] <= 1 + unanswered[e]

\* Once the instance stays paired, every recorded cycle is uploaded in the end
\* (_run_loop, upload_once).
UsageArrives == <>[](payer # Unpaired) => <>[](metered \subseteq uploaded)

\* An event is marked after it was counted and counted again only when an
\* answer was lost (upload_once).
UsageSafe ==
    /\ UsageTypeOK /\ UploadedWasCounted /\ CountedAgainOnlyInDoubt
=============================================================================
