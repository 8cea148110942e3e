------------------------------ MODULE Capture ------------------------------
(***************************************************************************)
(* The life of a captured trace: the capture engine                        *)
(* (packages/capture-core), the operational SQLite state                   *)
(* (packages/state-sqlite), the seller's bucket (packages/storage-s3), the *)
(* marketplace at the far end of packages/marketplace-client, and the      *)
(* daemon process that owns all of it (apps/daemon).                       *)
(*                                                                         *)
(* A trace, its encrypted object and its manifest are one-to-one: each     *)
(* exchange gets a fresh trace id, each encryption a fresh ciphertext      *)
(* hash, each manifest a fresh client manifest id.  All three are          *)
(* therefore named by the member of Traces they belong to.                 *)
(*                                                                         *)
(* The daemon is single-threaded JavaScript: the code between two awaits   *)
(* is one action, and captures, deletions and the marketplace interleave   *)
(* at the awaits.  A crash may fall anywhere, also between two SQLite      *)
(* statements of one such piece of code.                                   *)
(***************************************************************************)
EXTENDS Naturals

CONSTANTS
  Traces,     \* provider exchanges the gateway hands to the capture engine
  Deleters,   \* HTTP requests for a local deletion that may be in progress
  Refused,    \* traces whose manifest no submission can ever get accepted
  NoTrace     \* the trace of an idle deletion request

ASSUME RefusedAssumption == Refused \subseteq Traces
ASSUME NoTraceAssumption == NoTrace \notin Traces

VARIABLES
  (* the daemon process *)
  phase,       \* "down", "reconciling" (startup) or "serving"
  credential,  \* does this start of the daemon hold a marketplace credential
  todo,        \* the pending rows startup reconciliation has still to submit
  job,         \* how far the capture of each trace has come (in memory)
  delStep,     \* how far each deletion request has come (in memory)
  delTrace,    \* the trace it deletes
  (* the operational state in SQLite *)
  lifecycle,   \* trace_lifecycle.state, "none" when there is no row
  outbox,      \* manifest_outbox: "none", "pending" (committedAt is null), "committed"
  createdAt,   \* manifest_outbox.createdAt
  clock,       \* the last createdAt handed out
  tombstones,  \* manifest_tombstones
  (* the seller's bucket *)
  bucket,      \* what is stored under the trace's object key
  (* the marketplace and the network before it *)
  sent,        \* manifests a submission was ever sent for
  retracted,   \* manifests a signed tombstone was ever sent for
  market       \* what the marketplace holds: "none", "held", "tombstoned"

procVars == <<phase, credential, todo>>
delVars == <<delStep, delTrace>>
queueVars == <<outbox, createdAt, clock>>
dbVars == <<lifecycle, queueVars, tombstones>>
netVars == <<sent, retracted, market>>
vars == <<procVars, job, delVars, dbVars, bucket, netVars>>

----------------------------------------------------------------------------

Phases == {"down", "reconciling", "serving"}

\* "preparing": redacted, encrypting, the PUT not yet in effect;
\* "uploaded": the PUT is acknowledged, the HEAD is not;
\* "headed": the HEAD matched, the full readback is outstanding;
\* "sealed": the readback matched, the manifest is being signed;
\* "submitting": the manifest is queued and its first submission is awaited.
JobSteps == {"none", "preparing", "uploaded", "headed", "sealed", "submitting", "done"}

LifecycleStates == {"observed", "encrypted", "manifest_pending", "committed", "failed"}

\* "whole": the exact bytes and metadata; "badHead": length or metadata that
\* the HEAD shows to be wrong; "badBody": bytes only a full readback shows to
\* be wrong; "deleted": stored once and deleted since.
ObjectStates == {"absent", "whole", "badHead", "badBody", "deleted"}

Init ==
  /\ phase = "down"
  /\ credential = FALSE
  /\ todo = {}
  /\ job = [t \in Traces |-> "none"]
  /\ delStep = [d \in Deleters |-> "idle"]
  /\ delTrace = [d \in Deleters |-> NoTrace]
  /\ lifecycle = [t \in Traces |-> "none"]
  /\ outbox = [t \in Traces |-> "none"]
  /\ createdAt = [t \in Traces |-> 0]
  /\ clock = 0
  /\ tombstones = {}
  /\ bucket = [t \in Traces |-> "absent"]
  /\ sent = {}
  /\ retracted = {}
  /\ market = [t \in Traces |-> "none"]

----------------------------------------------------------------------------
(* Helpers on the operational state.                                       *)

\* pendingRows: the rows without a committedAt.
PendingRows == {t \in Traces : outbox[t] = "pending"}

\* Mutant of IsOldest: DESC for ASC.
IsNewest(t, rows) == t \in rows /\ \A u \in rows : createdAt[u] <= createdAt[t]

\* ORDER BY createdAt ASC: no other row of rows was queued before t.
IsOldest(t, rows) == t \in rows /\ \A u \in rows : createdAt[t] <= createdAt[u]

\* A submission leaves the process only when the payload passes the client's
\* own inspection, and reaches the ledger of the marketplace only with a
\* credential (it answers 401 otherwise).
Submit(t) == sent' = IF credential /\ t \notin Refused THEN sent \cup {t} ELSE sent

\* Mutant of MarkCommitted: the second UPDATE of the transaction is missing.
MarkOutboxOnly(t) ==
  /\ outbox' = [outbox EXCEPT ![t] = "committed"]
  /\ UNCHANGED lifecycle

\* markCommitted, one transaction over both tables; hooks.committed then sets
\* the same state again.
MarkCommitted(t) ==
  /\ outbox' = [outbox EXCEPT ![t] = "committed"]
  /\ lifecycle' = [lifecycle EXCEPT ![t] = "committed"]

\* hooks.failed for every stage before "manifest": recordFailure.
FailCapture(t) ==
  /\ job' = [job EXCEPT ![t] = "done"]
  /\ lifecycle' = [lifecycle EXCEPT ![t] = "failed"]

----------------------------------------------------------------------------
(* The capture engine.                                                     *)

\* redactExchange accepts the exchange and recordObserved inserts its row.
Observe(t) ==
  /\ phase = "serving" /\ job[t] = "none"
  /\ job' = [job EXCEPT ![t] = "preparing"]
  /\ lifecycle' = [lifecycle EXCEPT ![t] = "observed"]
  /\ UNCHANGED <<procVars, delVars, queueVars, tombstones, bucket, netVars>>

\* redactExchange throws before hooks.observed: there is no row yet, so the
\* UPDATE of recordFailure changes nothing.
RejectExchange(t) ==
  /\ phase = "serving" /\ job[t] = "none"
  /\ job' = [job EXCEPT ![t] = "done"]
  /\ UNCHANGED <<procVars, delVars, dbVars, bucket, netVars>>

\* Encryption throws, or the PUT fails and stored nothing.
PutFails(t) ==
  /\ job[t] = "preparing"
  /\ FailCapture(t)
  /\ UNCHANGED <<procVars, delVars, queueVars, tombstones, bucket, netVars>>

\* The store keeps something under the key and acknowledges the PUT.
PutStored(t, content) ==
  /\ job[t] = "preparing"
  /\ bucket' = [bucket EXCEPT ![t] = content]
  /\ job' = [job EXCEPT ![t] = "uploaded"]
  /\ UNCHANGED <<procVars, delVars, dbVars, netVars>>

\* The store keeps something but the client sees an error.
PutUnacknowledged(t, content) ==
  /\ job[t] = "preparing"
  /\ bucket' = [bucket EXCEPT ![t] = content]
  /\ FailCapture(t)
  /\ UNCHANGED <<procVars, delVars, queueVars, tombstones, netVars>>

HeadMatches(t) ==
  /\ job[t] = "uploaded"
  /\ bucket[t] # "badHead"
  /\ job' = [job EXCEPT ![t] = "headed"]
  /\ UNCHANGED <<procVars, delVars, dbVars, bucket, netVars>>

\* Mutant of ReadbackMatches: the HEAD is taken for proof of the body.
ReadbackSkipped(t) ==
  /\ job[t] = "headed"
  /\ job' = [job EXCEPT ![t] = "sealed"]
  /\ lifecycle' = [lifecycle EXCEPT ![t] = "encrypted"]
  /\ UNCHANGED <<procVars, delVars, queueVars, tombstones, bucket, netVars>>

\* The downloaded bytes hash to the ciphertext hash; putEnvelope returns and
\* hooks.encrypted records the hashes.
ReadbackMatches(t) ==
  /\ job[t] = "headed"
  /\ bucket[t] = "whole"
  /\ job' = [job EXCEPT ![t] = "sealed"]
  /\ lifecycle' = [lifecycle EXCEPT ![t] = "encrypted"]
  /\ UNCHANGED <<procVars, delVars, queueVars, tombstones, bucket, netVars>>

\* The HEAD or the readback fails or does not match, or signBytes throws
\* (the stage is still "storage" then).  The object stays in the bucket.
FailAfterPut(t) ==
  /\ job[t] \in {"uploaded", "headed", "sealed"}
  /\ FailCapture(t)
  /\ UNCHANGED <<procVars, delVars, queueVars, tombstones, bucket, netVars>>

\* hooks.manifestPending, then enqueue, then the first submission: no await
\* lies between them.
Enqueue(t) ==
  /\ job[t] = "sealed"
  /\ job' = [job EXCEPT ![t] = "submitting"]
  /\ lifecycle' = [lifecycle EXCEPT ![t] = "manifest_pending"]
  /\ outbox' = [outbox EXCEPT ![t] = "pending"]
  /\ clock' = clock + 1
  /\ createdAt' = [createdAt EXCEPT ![t] = clock + 1]
  /\ Submit(t)
  /\ UNCHANGED <<procVars, delVars, tombstones, bucket, retracted, market>>

\* The answer to the submission arrives: markCommitted, hooks.committed.
SubmitAcknowledged(t) ==
  /\ job[t] = "submitting"
  /\ t \in sent /\ market[t] = "held"
  /\ job' = [job EXCEPT ![t] = "done"]
  /\ MarkCommitted(t)
  /\ UNCHANGED <<procVars, delVars, createdAt, clock, tombstones, bucket, netVars>>

\* The submission fails, or its answer is lost: markAttemptFailed counts the
\* attempt, hooks.failed only records an event.
SubmitFails(t) ==
  /\ job[t] = "submitting"
  /\ job' = [job EXCEPT ![t] = "done"]
  /\ UNCHANGED <<procVars, delVars, dbVars, bucket, netVars>>

CaptureStep(t) ==
  \/ Observe(t) \/ RejectExchange(t)
  \/ PutFails(t) \/ HeadMatches(t) \/ ReadbackMatches(t) \/ FailAfterPut(t)
  \/ \E content \in {"whole", "badHead", "badBody"} :
        PutStored(t, content) \/ PutUnacknowledged(t, content)
  \/ Enqueue(t) \/ SubmitAcknowledged(t) \/ SubmitFails(t)

----------------------------------------------------------------------------
(* Local deletion: deleteTrace.                                            *)

\* Mutant of DeleteRequested: traceObject without its condition on the state.
DeleteRequestedEarly(d, t) ==
  /\ phase = "serving" /\ delStep[d] = "idle"
  /\ outbox[t] # "none"
  /\ delStep' = [delStep EXCEPT ![d] = "erasing"]
  /\ delTrace' = [delTrace EXCEPT ![d] = t]
  /\ UNCHANGED <<procVars, job, dbVars, bucket, netVars>>

\* traceObject finds only committed traces with an outbox row.
DeleteRequested(d, t) ==
  /\ phase = "serving" /\ delStep[d] = "idle"
  /\ lifecycle[t] = "committed" /\ outbox[t] # "none"
  /\ delStep' = [delStep EXCEPT ![d] = "erasing"]
  /\ delTrace' = [delTrace EXCEPT ![d] = t]
  /\ UNCHANGED <<procVars, job, dbVars, bucket, netVars>>

\* deleteEnvelope returns; the tombstone is signed and sent.
ObjectErased(d) ==
  /\ delStep[d] = "erasing"
  /\ bucket' = [bucket EXCEPT ![delTrace[d]] = "deleted"]
  /\ delStep' = [delStep EXCEPT ![d] = "notifying"]
  /\ retracted' = IF credential THEN retracted \cup {delTrace[d]} ELSE retracted
  /\ UNCHANGED <<procVars, job, delTrace, dbVars, sent, market>>

\* Mutant of TombstoneAcknowledged: the outbox row is not deleted.
TombstoneKeepsOutbox(d) ==
  /\ delStep[d] = "notifying"
  /\ credential /\ market[delTrace[d]] = "tombstoned"
  /\ tombstones' = tombstones \cup {delTrace[d]}
  /\ lifecycle' = [lifecycle EXCEPT ![delTrace[d]] = "none"]
  /\ delStep' = [delStep EXCEPT ![d] = "idle"]
  /\ delTrace' = [delTrace EXCEPT ![d] = NoTrace]
  /\ UNCHANGED <<procVars, job, queueVars, bucket, netVars>>

\* tombstoneManifest returns; tombstoneTrace is one transaction.
TombstoneAcknowledged(d) ==
  /\ delStep[d] = "notifying"
  /\ credential /\ market[delTrace[d]] = "tombstoned"
  /\ tombstones' = tombstones \cup {delTrace[d]}
  /\ outbox' = [outbox EXCEPT ![delTrace[d]] = "none"]
  /\ lifecycle' = [lifecycle EXCEPT ![delTrace[d]] = "none"]
  /\ delStep' = [delStep EXCEPT ![d] = "idle"]
  /\ delTrace' = [delTrace EXCEPT ![d] = NoTrace]
  /\ UNCHANGED <<procVars, job, createdAt, clock, bucket, netVars>>

\* One of the two requests throws, the deletion having taken effect in the
\* bucket or not, and the handler answers with an error.
DeleteFails(d) ==
  /\ delStep[d] # "idle"
  /\ delStep' = [delStep EXCEPT ![d] = "idle"]
  /\ delTrace' = [delTrace EXCEPT ![d] = NoTrace]
  /\ \/ UNCHANGED bucket
     \/ /\ delStep[d] = "erasing"
        /\ bucket' = [bucket EXCEPT ![delTrace[d]] = "deleted"]
  /\ UNCHANGED <<procVars, job, dbVars, netVars>>

DeletionStep(d) ==
  \/ \E t \in Traces : DeleteRequested(d, t)
  \/ ObjectErased(d) \/ TombstoneAcknowledged(d) \/ DeleteFails(d)

----------------------------------------------------------------------------
(* The daemon process: start, reconciliation, crash.                       *)

\* initialize succeeds and reconcile begins.  Without a credential it returns
\* at once; with one it binds the pending manifests to the present device and
\* policy (they keep their client manifest ids, by which they are named here)
\* and takes its snapshot of the pending rows.
Start(hasCredential) ==
  /\ phase = "down"
  /\ credential' = hasCredential
  /\ IF hasCredential
     THEN phase' = "reconciling" /\ todo' = PendingRows
     ELSE phase' = "serving" /\ todo' = {}
  /\ UNCHANGED <<job, delVars, dbVars, bucket, netVars>>

\* submitRow for the oldest row that is left.
ReconcileSubmits(t) ==
  /\ phase = "reconciling" /\ IsOldest(t, todo)
  /\ Submit(t)
  /\ UNCHANGED <<procVars, job, delVars, dbVars, bucket, retracted, market>>

ReconcileAcknowledged(t) ==
  /\ phase = "reconciling" /\ IsOldest(t, todo)
  /\ t \in sent /\ market[t] = "held"
  /\ MarkCommitted(t)
  /\ todo' = todo \ {t}
  /\ UNCHANGED <<phase, credential, job, delVars, createdAt, clock, tombstones, bucket, netVars>>

\* A failed row ends the loop; so does the last row.  The daemon serves either way.
ReconcileEnds ==
  /\ phase = "reconciling"
  /\ phase' = "serving"
  /\ todo' = {}
  /\ UNCHANGED <<credential, job, delVars, dbVars, bucket, netVars>>

\* Everything in memory is lost; the rows, the bucket and requests already
\* on the network are not.
LoseProcess ==
  /\ phase' = "down"
  /\ credential' = FALSE
  /\ todo' = {}
  /\ job' = [t \in Traces |-> IF job[t] = "none" THEN "none" ELSE "done"]
  /\ delStep' = [d \in Deleters |-> "idle"]
  /\ delTrace' = [d \in Deleters |-> NoTrace]

\* The process ends: killed, crashed, or shut down.
Stop ==
  /\ phase # "down"
  /\ LoseProcess
  /\ UNCHANGED <<dbVars, bucket, netVars>>

\* The process dies after hooks.manifestPending and before enqueue.
StopBeforeEnqueue(t) ==
  /\ job[t] = "sealed"
  /\ lifecycle' = [lifecycle EXCEPT ![t] = "manifest_pending"]
  /\ LoseProcess
  /\ UNCHANGED <<queueVars, tombstones, bucket, netVars>>

DaemonStep ==
  \/ \E hasCredential \in BOOLEAN : Start(hasCredential)
  \/ \E t \in Traces : ReconcileSubmits(t) \/ ReconcileAcknowledged(t)
  \/ ReconcileEnds \/ Stop
  \/ \E t \in Traces : StopBeforeEnqueue(t)

----------------------------------------------------------------------------
(* The marketplace (external).  It acts on any request that was ever sent, *)
(* however late and whether or not the sender still exists, and a repeated *)
(* submission or tombstone changes nothing.                                *)

MarketAccepts(t) ==
  /\ t \in sent /\ market[t] = "none"
  /\ market' = [market EXCEPT ![t] = "held"]
  /\ UNCHANGED <<procVars, job, delVars, dbVars, bucket, sent, retracted>>

MarketWithdraws(t) ==
  /\ t \in retracted /\ market[t] = "held"
  /\ market' = [market EXCEPT ![t] = "tombstoned"]
  /\ UNCHANGED <<procVars, job, delVars, dbVars, bucket, sent, retracted>>

MarketStep(t) == MarketAccepts(t) \/ MarketWithdraws(t)

----------------------------------------------------------------------------

Next ==
  \/ \E t \in Traces : CaptureStep(t) \/ MarketStep(t)
  \/ \E d \in Deleters : DeletionStep(d)
  \/ DaemonStep

Spec == Init /\ [][Next]_vars

(***************************************************************************)
(* Fairness, for the liveness properties only.  Nothing makes the daemon   *)
(* restart or a capture proceed.  What is assumed is of the environment:   *)
(* whoever restarts the daemon does so with a credential again and again,  *)
(* the marketplace acts on what it received, and a submission that is      *)
(* attempted over and over is answered at last.                            *)
(***************************************************************************)
Fairness ==
  /\ SF_vars(Start(TRUE))
  /\ \A t \in Traces : /\ WF_vars(MarketAccepts(t))
                        /\ SF_vars(ReconcileSubmits(t))
                        /\ SF_vars(ReconcileAcknowledged(t))

FairSpec == Spec /\ Fairness

----------------------------------------------------------------------------
(* Properties.                                                             *)

\* Every variable has its type.
TypeOK ==
  /\ phase \in Phases
  /\ credential \in BOOLEAN
  /\ todo \subseteq Traces
  /\ job \in [Traces -> JobSteps]
  /\ delStep \in [Deleters -> {"idle", "erasing", "notifying"}]
  /\ delTrace \in [Deleters -> Traces \cup {NoTrace}]
  /\ lifecycle \in [Traces -> LifecycleStates \cup {"none"}]
  /\ outbox \in [Traces -> {"none", "pending", "committed"}]
  /\ createdAt \in [Traces -> Nat]
  /\ clock \in Nat
  /\ tombstones \subseteq Traces
  /\ bucket \in [Traces -> ObjectStates]
  /\ sent \subseteq Traces
  /\ retracted \subseteq Traces
  /\ market \in [Traces -> {"none", "held", "tombstoned"}]

\* The marketplace holds a manifest only for an object that was stored and
\* read back whole: success is reported "only after seller storage returns
\* matching metadata and bytes".  After that only a local deletion removes it,
\* and only of a trace the daemon had itself seen committed.
HeldIsBacked ==
  \A t \in Traces :
    /\ market[t] = "held" => bucket[t] \in {"whole", "deleted"}
    /\ bucket[t] = "deleted" => lifecycle[t] = "committed" \/ t \in tombstones

\* The two tables agree across every interleaving, failure and crash: the
\* trace is committed exactly when its outbox row is, a queued row belongs to
\* a trace shown as pending, and a committed trace is known to the
\* marketplace.
LedgersAgree ==
  \A t \in Traces :
    /\ outbox[t] = "committed" <=> lifecycle[t] = "committed"
    /\ outbox[t] = "pending" => lifecycle[t] = "manifest_pending"
    /\ lifecycle[t] = "committed" => market[t] # "none"

\* The steps of a deletion complete in their order: the marketplace retracts
\* only what is gone from the bucket, and the local reference is erased only
\* after both (docs/STORAGE.md), whatever the other requests for the same
\* trace do.
ErasedInOrder ==
  \A t \in Traces :
    /\ market[t] = "tombstoned" => bucket[t] = "deleted"
    /\ t \in tombstones => market[t] = "tombstoned" /\ bucket[t] = "deleted"

\* A trace once tombstoned never has a row again: no late answer, second
\* deletion, or reconciliation after a restart brings it back.
ForgottenForGood ==
  [][\A t \in tombstones : lifecycle'[t] = "none" /\ outbox'[t] = "none"
                           /\ t \in tombstones']_vars

\* If the daemon is restarted again and again, every queued manifest is
\* committed in the end, unless a row that can never be accepted was queued
\* before it: reconciliation is the only retry there is.
PendingIsCommitted ==
  []<>(phase = "down") =>
    \A t \in Traces :
      (/\ outbox[t] = "pending"
       /\ \A u \in Refused : ~(outbox[u] = "pending" /\ createdAt[u] <= createdAt[t]))
        ~> (outbox[t] = "committed")

----------------------------------------------------------------------------
(* The life of a trace as the seller sees it, which the daemon implements. *)

stageOf ==
  [t \in Traces |->
     IF t \in tombstones THEN "forgotten"
     ELSE IF market[t] = "tombstoned" THEN "withdrawn"
     ELSE IF bucket[t] = "deleted" THEN "erased"
     ELSE IF lifecycle[t] = "committed" THEN "owned"
     ELSE IF market[t] = "held" THEN "listed"
     ELSE IF bucket[t] = "whole" THEN "stored"
     ELSE "local"]

Inventory == INSTANCE SellerInventory WITH stage <- stageOf

\* Capture, storage, submission, reconciliation and deletion together take
\* every trace through the stages of SellerInventory one at a time, never
\* skipping one and never going back.
ImplementsInventory == Inventory!Spec

----------------------------------------------------------------------------
(* The inductive invariant the safety properties follow from.              *)

\* What the capture job in memory implies for the bucket and the rows.
JobInv(t) ==
  /\ job[t] = "none" => lifecycle[t] = "none"
  /\ job[t] \in {"none", "preparing"} => bucket[t] = "absent"
  /\ job[t] \in {"preparing", "uploaded", "headed"} => lifecycle[t] = "observed"
  /\ job[t] \in {"uploaded", "headed", "sealed"} => bucket[t] \in {"whole", "badHead", "badBody"}
  /\ job[t] = "headed" => bucket[t] # "badHead"
  /\ job[t] = "sealed" => bucket[t] = "whole" /\ lifecycle[t] = "encrypted"
  /\ job[t] = "submitting" => outbox[t] = "pending"

\* What the rows imply for each other, the bucket and the marketplace.
RowInv(t) ==
  /\ outbox[t] = "pending" => lifecycle[t] = "manifest_pending" /\ bucket[t] = "whole"
  /\ outbox[t] = "committed" <=> lifecycle[t] = "committed"
  /\ lifecycle[t] = "committed" => market[t] # "none" /\ bucket[t] \in {"whole", "deleted"}
  /\ t \in tombstones => /\ lifecycle[t] = "none" /\ outbox[t] = "none" /\ job[t] = "done"
                         /\ market[t] = "tombstoned"
  /\ bucket[t] = "deleted" => lifecycle[t] = "committed" \/ t \in tombstones

\* What requests on the network and the marketplace imply for the rest.
NetInv(t) ==
  /\ t \in sent => outbox[t] # "none" \/ t \in tombstones
  /\ market[t] # "none" => t \in sent
  /\ market[t] = "tombstoned" => t \in retracted
  /\ t \in retracted => bucket[t] = "deleted"

\* A deletion under way works on a trace that is committed, or that another
\* deletion has finished with.
DeletionInv(d) ==
  delStep[d] # "idle" =>
    /\ delTrace[d] \in Traces
    /\ lifecycle[delTrace[d]] = "committed" \/ delTrace[d] \in tombstones
    /\ delStep[d] = "notifying" => bucket[delTrace[d]] = "deleted"

\* Captures and deletions run only while the daemon serves, and startup
\* reconciliation only has pending rows in hand.
ProcessInv ==
  /\ phase # "serving" => /\ \A t \in Traces : job[t] \in {"none", "done"}
                          /\ \A d \in Deleters : delStep[d] = "idle"
  /\ todo \subseteq PendingRows
  /\ phase # "reconciling" => todo = {}

\* The conjunction of the above: it holds initially, every step preserves it
\* (CaptureProofs), and the safety properties follow from it.
IInv ==
  /\ TypeOK
  /\ \A t \in Traces : JobInv(t) /\ RowInv(t) /\ NetInv(t)
  /\ \A d \in Deleters : DeletionInv(d)
  /\ ProcessInv
=============================================================================
