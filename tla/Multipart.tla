----------------------------- MODULE Multipart -----------------------------
(***************************************************************************)
(* The multipart upload of one large ciphertext: uploadMultipart and       *)
(* abortMultipart (packages/storage-s3), the journal row that survives the *)
(* process (packages/state-sqlite), and the store's side of an upload.     *)
(*                                                                         *)
(* Uploads of different ciphertexts share nothing, so one is modelled.     *)
(* The caller makes at most Calls calls of putEnvelope with these bytes,   *)
(* one after the other.  The daemon makes one: every capture and every     *)
(* delivery encrypts under fresh randomness (capture-core, runtime.ts), so *)
(* the bytes of a failed upload are never presented again.                 *)
(***************************************************************************)
EXTENDS Naturals

CONSTANTS
  LastPart,  \* the number of 8 MiB parts of the ciphertext
  Calls,     \* calls of putEnvelope with these bytes
  Aborters   \* abort requests to the control API that may overlap

ASSUME LastPartAssumption == LastPart \in Nat \ {0}
ASSUME CallsAssumption == Calls \in Nat \ {0}

Parts == 1..LastPart
Ids == 1..Calls   \* upload ids: a call creates at most one

VARIABLES
  step,       \* where the present call is
  calls,      \* calls made so far
  id,         \* persisted.uploadId of the present call, 0 before it has one
  completed,  \* its map of completed parts
  row,        \* the journal row: upload id (0: no row) and recorded parts
  upload,     \* the store's uploads: "none", "open", "completed", "aborted"
  held,       \* the parts the store holds for each, none once it is not open
  lost,       \* uploads whose creation was never answered
  object,     \* the object is in the bucket
  late,       \* uploads whose completion may take effect although the call was given up
  abortStep,  \* how far each abort request has come
  abortId     \* the upload id it loaded

callVars == <<step, calls, id, completed>>
storeVars == <<upload, held, lost, object, late>>
abortVars == <<abortStep, abortId>>
vars == <<callVars, row, storeVars, abortVars>>

NoRow == [id |-> 0, parts |-> {}]

Init ==
  /\ step = "idle" /\ calls = 0 /\ id = 0 /\ completed = {}
  /\ row = NoRow
  /\ upload = [i \in Ids |-> "none"]
  /\ held = [i \in Ids |-> {}]
  /\ lost = {}
  /\ object = FALSE /\ late = {}
  /\ abortStep = [a \in Aborters |-> "idle"]
  /\ abortId = [a \in Aborters |-> 0]

----------------------------------------------------------------------------
(* uploadMultipart.                                                        *)

\* A call begins with the journal: an upload it knows is continued.
Load ==
  /\ step \in {"idle", "returned", "failed"} /\ calls < Calls
  /\ calls' = calls + 1
  /\ id' = row.id
  /\ completed' = row.parts
  /\ step' = IF row = NoRow THEN "creating" ELSE "uploading"
  /\ UNCHANGED <<row, storeVars, abortVars>>

\* CreateMultipartUpload is answered; the journal row is written at once.
Created ==
  /\ step = "creating"
  /\ upload' = [upload EXCEPT ![calls] = "open"]
  /\ id' = calls
  /\ row' = [id |-> calls, parts |-> {}]
  /\ step' = "uploading"
  /\ UNCHANGED <<calls, completed, held, lost, object, late, abortVars>>

\* It fails, the store having opened an upload or not.
CreateFails ==
  /\ step = "creating"
  /\ step' = "failed"
  /\ \/ UNCHANGED <<upload, lost>>
     \/ /\ upload' = [upload EXCEPT ![calls] = "open"]
        /\ lost' = lost \cup {calls}
  /\ UNCHANGED <<calls, id, completed, row, held, object, late, abortVars>>

\* The part the loop has come to: the first it does not find completed.
IsNext(p) == p \in Parts \ completed /\ \A q \in Parts \ completed : p <= q

\* UploadPart takes effect in the store.
PartStored(p) ==
  /\ step = "uploading" /\ IsNext(p)
  /\ upload[id] = "open"
  /\ held' = [held EXCEPT ![id] = @ \cup {p}]
  /\ step' = "answering"
  /\ UNCHANGED <<calls, id, completed, row, upload, lost, object, late, abortVars>>

\* It is answered with an ETag; recordPart throws if the row is gone.
PartRecorded(p) ==
  /\ step = "answering" /\ IsNext(p)
  /\ completed' = completed \cup {p}
  /\ IF row = NoRow
     THEN step' = "checking" /\ UNCHANGED row
     ELSE step' = "uploading" /\ row' = [row EXCEPT !.parts = @ \cup {p}]
  /\ UNCHANGED <<calls, id, storeVars, abortVars>>

\* Mutant of PartFails: the part is recorded all the same.
PartFailsRecorded ==
  /\ step \in {"uploading", "answering"} /\ completed # Parts
  /\ step' = "checking"
  /\ row' = IF row = NoRow THEN row
            ELSE [row EXCEPT !.parts = @ \cup {p \in Parts : IsNext(p)}]
  /\ UNCHANGED <<calls, id, completed, storeVars, abortVars>>

\* The upload of a part fails, or its answer is lost.  A part that is stored
\* later changes nothing: it is not listed, or it is sent again.
PartFails ==
  /\ step \in {"uploading", "answering"} /\ completed # Parts
  /\ step' = "checking"
  /\ UNCHANGED <<calls, id, completed, row, storeVars, abortVars>>

\* CompleteMultipartUpload takes effect: the store has every listed part, and
\* makes the object of them.
CompletionStored ==
  /\ step = "uploading" /\ completed = Parts
  /\ upload[id] = "open" /\ completed \subseteq held[id]
  /\ upload' = [upload EXCEPT ![id] = "completed"]
  /\ held' = [held EXCEPT ![id] = {}]
  /\ object' = TRUE
  /\ step' = "completing"
  /\ UNCHANGED <<calls, id, completed, row, lost, late, abortVars>>

\* It is answered; the journal row is cleared.
CompletionAnswered ==
  /\ step = "completing"
  /\ row' = NoRow
  /\ step' = "returned"
  /\ UNCHANGED <<calls, id, completed, storeVars, abortVars>>

\* The completion was asked for and neither had its effect nor its answer.
Asked == step = "uploading" /\ completed = Parts

\* It fails, or its answer is lost, or the client gives up waiting.
CompletionFails ==
  /\ \/ Asked /\ late' \in {late, late \cup {id}}
     \/ step = "completing" /\ UNCHANGED late
  /\ step' = "checking"
  /\ UNCHANGED <<calls, id, completed, row, upload, held, lost, object, abortVars>>

\* A completion that was given up takes effect after all.
CompletionLate(i) ==
  /\ i \in late /\ upload[i] = "open" /\ held[i] = Parts
  /\ late' = late \ {i}
  /\ upload' = [upload EXCEPT ![i] = "completed"]
  /\ held' = [held EXCEPT ![i] = {}]
  /\ object' = TRUE
  /\ UNCHANGED <<callVars, row, lost, abortVars>>

\* Mutant of HeadAfterError: the error is dropped without the HEAD.
HeadIgnored ==
  /\ step = "checking"
  /\ row' = NoRow
  /\ step' = "returned"
  /\ UNCHANGED <<calls, id, completed, storeVars, abortVars>>

\* After an error the HEAD shows the object: the upload had succeeded.
HeadAfterError ==
  /\ step = "checking" /\ object
  /\ row' = NoRow
  /\ step' = "returned"
  /\ UNCHANGED <<calls, id, completed, storeVars, abortVars>>

\* The HEAD does not show it, or fails itself: the first error is thrown.
Throws ==
  /\ step = "checking"
  /\ step' = "failed"
  /\ UNCHANGED <<calls, id, completed, row, storeVars, abortVars>>

UploadStep ==
  \/ Load \/ Created \/ CreateFails
  \/ \E p \in Parts : PartStored(p) \/ PartRecorded(p)
  \/ PartFails \/ CompletionStored \/ CompletionAnswered \/ CompletionFails
  \/ HeadAfterError \/ Throws

----------------------------------------------------------------------------
(* abortMultipart, and the end of the process.                             *)

AbortLoads(a) ==
  /\ abortStep[a] = "idle" /\ row # NoRow
  /\ abortStep' = [abortStep EXCEPT ![a] = "sent"]
  /\ abortId' = [abortId EXCEPT ![a] = row.id]
  /\ UNCHANGED <<callVars, row, storeVars>>

\* The store takes the abort and discards the parts.  For an upload that is no
\* longer open some stores answer with an error (AbortFails), others with success.
AbortTaken(a) ==
  /\ abortStep[a] = "sent"
  /\ upload' = [upload EXCEPT ![abortId[a]] = IF @ = "open" THEN "aborted" ELSE @]
  /\ held' = [held EXCEPT ![abortId[a]] = {}]
  /\ abortStep' = [abortStep EXCEPT ![a] = "taken"]
  /\ UNCHANGED <<callVars, row, lost, object, late, abortId>>

AbortAnswered(a) ==
  /\ abortStep[a] = "taken"
  /\ row' = NoRow
  /\ abortStep' = [abortStep EXCEPT ![a] = "idle"]
  /\ abortId' = [abortId EXCEPT ![a] = 0]
  /\ UNCHANGED <<callVars, storeVars>>

\* Mutant of AbortFails: the row is cleared in a finally block.
AbortFailsCleared(a) ==
  /\ abortStep[a] \in {"sent", "taken"}
  /\ row' = NoRow
  /\ abortStep' = [abortStep EXCEPT ![a] = "idle"]
  /\ abortId' = [abortId EXCEPT ![a] = 0]
  /\ UNCHANGED <<callVars, storeVars>>

\* The request fails, or its answer is lost.
AbortFails(a) ==
  /\ abortStep[a] \in {"sent", "taken"}
  /\ abortStep' = [abortStep EXCEPT ![a] = "idle"]
  /\ abortId' = [abortId EXCEPT ![a] = 0]
  /\ UNCHANGED <<callVars, row, storeVars>>

AbortStep(a) == AbortLoads(a) \/ AbortTaken(a) \/ AbortAnswered(a) \/ AbortFails(a)

\* The process dies and is started again.  Only the journal survives; an
\* upload being created may have been opened, and one being completed may be
\* completed later.
Crash ==
  /\ step' = IF step \in {"idle", "returned"} THEN step ELSE "failed"
  /\ abortStep' = [a \in Aborters |-> "idle"]
  /\ abortId' = [a \in Aborters |-> 0]
  /\ \/ UNCHANGED <<upload, lost, late>>
     \/ /\ step = "creating" /\ UNCHANGED late
        /\ upload' = [upload EXCEPT ![calls] = "open"]
        /\ lost' = lost \cup {calls}
     \/ Asked /\ late' = late \cup {id} /\ UNCHANGED <<upload, lost>>
  /\ UNCHANGED <<calls, id, completed, row, held, object>>

Next ==
  \/ UploadStep \/ \E i \in Ids : CompletionLate(i)
  \/ \E a \in Aborters : AbortStep(a)
  \/ Crash

Spec == Init /\ [][Next]_vars

\* A running call goes on, and is made again after it ended, as far as Calls
\* allows.  Aborting is up to the user, and nothing keeps calls from failing.
FairSpec == Spec /\ WF_vars(UploadStep)

----------------------------------------------------------------------------
(* Properties.                                                             *)

\* Every variable has its type.
TypeOK ==
  /\ step \in {"idle", "creating", "uploading", "answering", "completing", "checking",
               "returned", "failed"}
  /\ calls \in 0..Calls
  /\ id \in 0..Calls
  /\ completed \subseteq Parts
  /\ row \in {NoRow} \cup [id : Ids, parts : SUBSET Parts]
  /\ upload \in [Ids -> {"none", "open", "completed", "aborted"}]
  /\ held \in [Ids -> SUBSET Parts]
  /\ lost \subseteq Ids
  /\ object \in BOOLEAN
  /\ late \subseteq Ids
  /\ abortStep \in [Aborters -> {"idle", "sent", "taken"}]
  /\ abortId \in [Aborters -> 0..Calls]

\* The journal promises only what the store has: every recorded part is held for
\* the recorded upload, for as long as that is open.  An abort that is taken, and
\* not answered, leaves the row of an upload whose parts are gone.
JournalHeld ==
  TypeOK /\ (row # NoRow /\ upload[row.id] = "open" => row.parts \subseteq held[row.id])

\* An upload left open in the bucket can be found and aborted: its id is in
\* the journal, or its creation was never answered.  That takes a ciphertext
\* that is uploaded once, as the daemon's always are.
OpenIsJournalled ==
  calls <= 1 => \A i \in Ids : upload[i] = "open" => row.id = i \/ i \in lost

\* What putEnvelope sees of its upload.
callState == IF step \in {"idle", "returned", "failed"} THEN step ELSE "running"

Put == INSTANCE EnvelopePut WITH call <- callState, stored <- object

\* For putEnvelope, and so for the capture engine, uploadMultipart is one PUT:
\* whatever is resumed, aborted, answered late or interrupted, and also when it
\* swallows an error or goes on where another process had stopped, a call returns
\* only with the object stored, and no call or abort takes the object away.
ImplementsPut == Put!Spec

----------------------------------------------------------------------------
(* What the documentation says and the daemon does not do.                 *)

\* docs/ARCHITECTURE.md: "Startup reconciles pending manifests and multipart
\* completion".  An upload that was interrupted is completed or aborted.
InterruptedIsSettled == (row # NoRow) ~> (row = NoRow)
=============================================================================
