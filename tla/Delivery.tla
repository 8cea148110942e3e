------------------------------ MODULE Delivery ------------------------------
(***************************************************************************)
(* Seller-approved delivery (apps/daemon/src/runtime.ts): committing a     *)
(* dataset for a marketplace request, preparing a delivery of it with      *)
(* temporary re-encrypted objects, and the cleanup loop that deletes those *)
(* after their expiry, while traces are deleted locally, requests are      *)
(* repeated, and the daemon crashes and restarts.                          *)
(*                                                                         *)
(* There is one marketplace request.  Every run of prepareDelivery draws a *)
(* fresh wrapping key, so a temporary object is named by its run and its   *)
(* trace.  Time is a counter the clock advances at will, bounded by        *)
(* MaxTime; Lifetime is the 15 minutes of runtime.ts:381.                  *)
(***************************************************************************)
EXTENDS Naturals, FiniteSets

CONSTANTS
  Traces,     \* traces committed locally when the request is made
  Requested,  \* requestedTraceCount of the marketplace request
  Commits,    \* calls of commitDataset
  Runs,       \* calls of prepareDelivery
  Passes,     \* passes of the cleanup loop that may overlap
  Lifetime,   \* ticks from the start of a run to the expiry of its objects
  MaxTime     \* bound on the clock

ASSUME RequestedAssumption == Requested \in Nat \ {0}
ASSUME LifetimeAssumption == Lifetime \in Nat \ {0}
ASSUME MaxTimeAssumption == MaxTime \in Nat

VARIABLES
  up,         \* the daemon process is running
  now,        \* the wall clock
  owned,      \* committedManifests: traces with a committed outbox row
  originals,  \* traces whose object is in the seller's bucket
  dataset,    \* the marketplace's dataset for the request, {} when none
  choosing,   \* commitDataset calls under way, with the traces they chose
  step,       \* how far each prepareDelivery call has come
  left,       \* the manifests of its dataset it has still to re-encrypt
  expires,    \* its expiresAt
  listed,     \* the objects it has put into the capability
  temp,       \* temporary objects in the bucket
  row,        \* delivery_objects: "none", "live", "deleted" (deletedAt is set)
  envelopes,  \* runs whose envelope the marketplace accepted
  pass        \* what each pass of the cleanup loop has still to delete

Objects == Runs \X Traces

runVars == <<step, left, expires, listed>>
vars == <<up, now, owned, originals, dataset, choosing, runVars, temp, row, envelopes, pass>>

Init ==
  /\ up = TRUE /\ now = 0
  /\ owned = Traces /\ originals = Traces
  /\ dataset = {}
  /\ choosing = [c \in Commits |-> {}]
  /\ step = [r \in Runs |-> "idle"]
  /\ left = [r \in Runs |-> {}]
  /\ expires = [r \in Runs |-> 0]
  /\ listed = [r \in Runs |-> {}]
  /\ temp = {}
  /\ row = [o \in Objects |-> "none"]
  /\ envelopes = {}
  /\ pass = [p \in Passes |-> {}]

----------------------------------------------------------------------------
(* commitDataset.                                                          *)

\* The work queue shows no dataset yet: take the first Requested committed
\* manifests.  None at all is an error.
ChooseDataset(c) ==
  /\ up /\ choosing[c] = {} /\ dataset = {}
  /\ \E chosen \in SUBSET owned \ {{}} :
       /\ Cardinality(chosen) <= Requested
       /\ Cardinality(chosen) < Requested => chosen = owned
       /\ choosing' = [choosing EXCEPT ![c] = chosen]
  /\ UNCHANGED <<up, now, owned, originals, dataset, runVars, temp, row, envelopes, pass>>

\* The signed commitment arrives.  The marketplace keeps the first dataset
\* of a request (external).
CommitDataset(c) ==
  /\ choosing[c] # {}
  /\ dataset' = IF dataset = {} THEN choosing[c] ELSE dataset
  /\ choosing' = [choosing EXCEPT ![c] = {}]
  /\ UNCHANGED <<up, now, owned, originals, runVars, temp, row, envelopes, pass>>

----------------------------------------------------------------------------
(* prepareDelivery.                                                        *)

\* An exception leaves the loop and the function; nothing is undone.
Fail(r) ==
  /\ step' = [step EXCEPT ![r] = "failed"]
  /\ UNCHANGED <<left, expires, listed>>

\* The dataset is read from the work queue and matched with the committed
\* manifests; expiresAt is fixed before anything is uploaded.
Prepare(r) ==
  /\ up /\ step[r] = "idle" /\ dataset # {}
  /\ now + Lifetime <= MaxTime
  /\ IF dataset \subseteq owned
     THEN /\ step' = [step EXCEPT ![r] = "reading"]
          /\ left' = [left EXCEPT ![r] = dataset]
          /\ expires' = [expires EXCEPT ![r] = now + Lifetime]
          /\ UNCHANGED listed
     ELSE Fail(r)
  /\ UNCHANGED <<up, now, owned, originals, dataset, choosing, temp, row, envelopes, pass>>

\* getEnvelope finds the original; it is decrypted, and encrypted under the
\* key of this run.
ReadOriginal(r, t) ==
  /\ step[r] = "reading" /\ t \in left[r] \cap originals
  /\ step' = [step EXCEPT ![r] = "writing"]
  /\ listed' = [listed EXCEPT ![r] = @ \cup {t}]
  /\ UNCHANGED <<up, now, owned, originals, dataset, choosing, left, expires, temp, row,
                 envelopes, pass>>

\* The temporary object of the trace in hand: already listed, not yet done.
Current(r) == {r} \X (left[r] \cap listed[r])

\* The PUT takes effect; the HEAD and the readback of putEnvelope follow.
PutTemporary(r) ==
  /\ step[r] = "writing"
  /\ temp' = temp \cup Current(r)
  /\ step' = [step EXCEPT ![r] = "verifying"]
  /\ UNCHANGED <<up, now, owned, originals, dataset, choosing, left, expires, listed, row,
                 envelopes, pass>>

\* putEnvelope returns; recordDeliveryObject follows at once.
RecordTemporary(r) ==
  /\ step[r] = "verifying"
  /\ row' = [o \in Objects |-> IF o \in Current(r) THEN "live" ELSE row[o]]
  /\ step' = [step EXCEPT ![r] = "reading"]
  /\ left' = [left EXCEPT ![r] = @ \ listed[r]]
  /\ UNCHANGED <<up, now, owned, originals, dataset, choosing, expires, listed, temp, envelopes, pass>>

\* Mutant of PrepareFails: a manifest without its object is passed over.
PrepareSkips(r) ==
  /\ step[r] = "reading" /\ ~(left[r] \subseteq originals)
  /\ left' = [left EXCEPT ![r] = @ \cap originals]
  /\ UNCHANGED <<up, now, owned, originals, dataset, choosing, step, expires, listed, temp, row,
                 envelopes, pass>>

\* getEnvelope, decryption or putEnvelope throws.
PrepareFails(r) ==
  /\ step[r] \in {"reading", "writing", "verifying"}
  /\ Fail(r)
  /\ UNCHANGED <<up, now, owned, originals, dataset, choosing, temp, row, envelopes, pass>>

\* Every manifest is done: the capability is sealed to the buyer and sent.
Submit(r) ==
  /\ step[r] = "reading" /\ left[r] = {}
  /\ step' = [step EXCEPT ![r] = "submitting"]
  /\ UNCHANGED <<up, now, owned, originals, dataset, choosing, left, expires, listed, temp, row,
                 envelopes, pass>>

\* The marketplace takes the envelope (external).
EnvelopeAccepted(r) ==
  /\ step[r] = "submitting"
  /\ envelopes' = envelopes \cup {r}
  /\ UNCHANGED <<up, now, owned, originals, dataset, choosing, runVars, temp, row, pass>>

SubmitReturns(r) ==
  /\ step[r] = "submitting" /\ r \in envelopes
  /\ step' = [step EXCEPT ![r] = "done"]
  /\ UNCHANGED <<up, now, owned, originals, dataset, choosing, left, expires, listed, temp, row,
                 envelopes, pass>>

\* The submission is refused, or its answer is lost.
SubmitFails(r) ==
  /\ step[r] = "submitting"
  /\ Fail(r)
  /\ UNCHANGED <<up, now, owned, originals, dataset, choosing, temp, row, envelopes, pass>>

DeliveryStep(r) ==
  \/ Prepare(r) \/ PutTemporary(r) \/ RecordTemporary(r) \/ PrepareFails(r)
  \/ \E t \in Traces : ReadOriginal(r, t)
  \/ Submit(r) \/ EnvelopeAccepted(r) \/ SubmitReturns(r) \/ SubmitFails(r)

----------------------------------------------------------------------------
(* cleanupExpiredDeliveries, at startup and from a timer that does not wait *)
(* for the previous pass.                                                   *)

\* Mutant of ExpiredRows: the condition on expiresAt is missing.
LiveRows == {o \in Objects : row[o] = "live"}

ExpiredRows == {o \in Objects : row[o] = "live" /\ expires[o[1]] <= now}

StartPass(p) ==
  /\ up /\ pass[p] = {} /\ ExpiredRows # {}
  /\ pass' = [pass EXCEPT ![p] = ExpiredRows]
  /\ UNCHANGED <<up, now, owned, originals, dataset, choosing, runVars, temp, row, envelopes>>

\* Mutant of CleanObject: markDeliveryObjectDeleted is not called.
CleanObjectUnmarked(p) ==
  \E o \in pass[p] :
    /\ temp' = temp \ {o}
    /\ pass' = [pass EXCEPT ![p] = @ \ {o}]
    /\ UNCHANGED <<up, now, owned, originals, dataset, choosing, runVars, row, envelopes>>

CleanObject(p) ==
  \E o \in pass[p] :
    /\ temp' = temp \ {o}
    /\ row' = [row EXCEPT ![o] = "deleted"]
    /\ pass' = [pass EXCEPT ![p] = @ \ {o}]
    /\ UNCHANGED <<up, now, owned, originals, dataset, choosing, runVars, envelopes>>

\* Mutant of CleanFails: the row is marked in spite of the failure.
CleanFailsMarked(p) ==
  \E o \in pass[p] :
    /\ temp' \in {temp, temp \ {o}}
    /\ row' = [row EXCEPT ![o] = "deleted"]
    /\ pass' = [pass EXCEPT ![p] = @ \ {o}]
    /\ UNCHANGED <<up, now, owned, originals, dataset, choosing, runVars, envelopes>>

\* deleteEnvelope throws, having deleted or not; the loop goes on.
CleanFails(p) ==
  \E o \in pass[p] :
    /\ temp' \in {temp, temp \ {o}}
    /\ pass' = [pass EXCEPT ![p] = @ \ {o}]
    /\ UNCHANGED <<up, now, owned, originals, dataset, choosing, runVars, row, envelopes>>

CleanupStep(p) == StartPass(p) \/ CleanObject(p) \/ CleanFails(p)

----------------------------------------------------------------------------
(* The rest of the system: local deletion, time, the process.              *)

\* deleteTrace (module Capture): first the object, later the reference.
EraseOriginal(t) ==
  /\ up /\ t \in owned /\ t \in originals
  /\ originals' = originals \ {t}
  /\ UNCHANGED <<up, now, owned, dataset, choosing, runVars, temp, row, envelopes, pass>>

ForgetTrace(t) ==
  /\ up /\ t \in owned \ originals
  /\ owned' = owned \ {t}
  /\ UNCHANGED <<up, now, originals, dataset, choosing, runVars, temp, row, envelopes, pass>>

Tick ==
  /\ now < MaxTime
  /\ now' = now + 1
  /\ UNCHANGED <<up, owned, originals, dataset, choosing, runVars, temp, row, envelopes, pass>>

\* Everything in memory is lost.  A PUT or an envelope that still takes effect
\* afterwards is one that took effect just before.
Crash ==
  /\ up /\ up' = FALSE
  /\ choosing' = [c \in Commits |-> {}]
  /\ step' = [r \in Runs |-> IF step[r] \in {"idle", "done"} THEN step[r] ELSE "failed"]
  /\ pass' = [p \in Passes |-> {}]
  /\ UNCHANGED <<now, owned, originals, dataset, left, expires, listed, temp, row, envelopes>>

Restart ==
  /\ ~up /\ up' = TRUE
  /\ UNCHANGED <<now, owned, originals, dataset, choosing, runVars, temp, row, envelopes, pass>>

----------------------------------------------------------------------------

Next ==
  \/ \E c \in Commits : ChooseDataset(c) \/ CommitDataset(c)
  \/ \E r \in Runs : DeliveryStep(r)
  \/ \E p \in Passes : CleanupStep(p)
  \/ \E t \in Traces : EraseOriginal(t) \/ ForgetTrace(t)
  \/ Tick \/ Crash \/ Restart

Spec == Init /\ [][Next]_vars

(***************************************************************************)
(* Time passes, a crashed daemon is started again, the timer fires, and a  *)
(* deletion that is retried without end succeeds at last.                  *)
(***************************************************************************)
Fairness ==
  /\ WF_vars(Tick) /\ WF_vars(Restart)
  /\ \A p \in Passes : SF_vars(StartPass(p))
  /\ SF_vars(\E p \in Passes : CleanObject(p))

FairSpec == Spec /\ Fairness

----------------------------------------------------------------------------
(* Properties.                                                             *)

\* Every variable has its type.
TypeOK ==
  /\ up \in BOOLEAN
  /\ now \in 0..MaxTime
  /\ owned \subseteq Traces
  /\ originals \subseteq owned
  /\ dataset \subseteq Traces
  /\ choosing \in [Commits -> SUBSET Traces]
  /\ step \in [Runs -> {"idle", "reading", "writing", "verifying", "submitting", "done", "failed"}]
  /\ left \in [Runs -> SUBSET Traces]
  /\ expires \in [Runs -> 0..MaxTime]
  /\ listed \in [Runs -> SUBSET Traces]
  /\ temp \subseteq Objects
  /\ row \in [Objects -> {"none", "live", "deleted"}]
  /\ envelopes \subseteq Runs
  /\ pass \in [Passes -> SUBSET Objects]

\* The cleanup loop, however many passes of it overlap, leaves every object
\* of an accepted envelope in the bucket until the envelope expires.
KeptUntilExpiry ==
  /\ TypeOK
  /\ \A r \in envelopes : now < expires[r] => {r} \X listed[r] \subseteq temp

\* The cleanup loop knows every object a buyer was given access to, and a row
\* says deleted only of an object that is gone, across failed and overlapping
\* passes and crashes between the two writes.
TrackedUntilGone ==
  /\ \A r \in envelopes : \A t \in listed[r] : row[<<r, t>>] # "none"
  /\ \A o \in Objects : row[o] = "deleted" => o \notin temp

\* An accepted envelope gives access to the whole dataset the seller committed
\* to, never to a part of it, whatever is deleted while it is prepared.
CompleteDelivery ==
  \A r \in envelopes : dataset # {} /\ listed[r] = dataset

\* Every recorded temporary object is deleted in the end, whatever passes
\* fail and whenever the daemon crashes.
RecordedIsDeleted ==
  \A o \in Objects : (row[o] = "live") ~> (row[o] = "deleted" /\ o \notin temp)
=============================================================================
