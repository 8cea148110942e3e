---------------------------- MODULE DeliveryProofs ----------------------------
(***************************************************************************)
(* Proofs about Delivery, for any traces, calls, overlapping cleanup       *)
(* passes and lifetime: an accepted envelope gives access to the whole     *)
(* dataset, its objects stay in the bucket until it expires, and the rows  *)
(* by which they are cleaned up never lie.                                 *)
(***************************************************************************)
EXTENDS Delivery, TLAPS

USE RequestedAssumption, LifetimeAssumption, MaxTimeAssumption

\* The objects a run has put into its capability and recorded.
Recorded(r) == listed[r] \ left[r]

\* Where a run of prepareDelivery is, and what it has of its dataset by then.
Preparing == {"reading", "writing", "verifying"}
Sending == {"submitting", "done"}

\* A run divides its dataset into what is listed and what is left; nothing is
\* left when the envelope is sent, and what was sent is never changed again.
RunInv ==
  \A r \in Runs :
    /\ step[r] = "idle" => listed[r] = {} /\ left[r] = {}
    /\ step[r] \in Preparing \cup Sending => dataset # {} /\ listed[r] \cup left[r] = dataset
    /\ step[r] = "reading" => listed[r] \cap left[r] = {}
    /\ step[r] \in Sending => left[r] = {}
    /\ r \in envelopes =>
         /\ step[r] \in Sending \cup {"failed"}
         /\ dataset # {} /\ left[r] = {} /\ listed[r] = dataset

\* There is a row for exactly the recorded objects, and none is marked deleted
\* that is in the bucket.
RowInv ==
  /\ \A r \in Runs, t \in Traces : row[<<r, t>>] # "none" <=> t \in Recorded(r)
  /\ \A o \in Objects : row[o] = "deleted" => o \notin temp

\* The passes of the cleanup loop hold recorded objects that have expired.
PassInv ==
  \A p \in Passes : \A o \in pass[p] : row[o] # "none" /\ expires[o[1]] <= now

\* Until it expires, what was recorded or only put is in the bucket.
BucketInv ==
  \A r \in Runs : now < expires[r] =>
    /\ {r} \X Recorded(r) \subseteq temp
    /\ step[r] = "verifying" => Current(r) \subseteq temp

\* What every step keeps.
DeliveryInv == TypeOK /\ RunInv /\ RowInv /\ PassInv /\ BucketInv

USE DEF Objects

\* No run has begun and no dataset is known.
LEMMA InitInv == Init => DeliveryInv
<1> SUFFICES ASSUME Init PROVE DeliveryInv
  OBVIOUS
<1>1. TypeOK
  BY DEF Init, TypeOK
<1>2. RunInv /\ PassInv
  BY DEF Init, RunInv, PassInv, Preparing, Sending
<1>3. RowInv /\ BucketInv
  BY DEF Init, RowInv, BucketInv, Recorded
<1> QED
  BY <1>1, <1>2, <1>3 DEF DeliveryInv

\* The marketplace keeps the first dataset: what runs rely on stays.
LEMMA DatasetStep ==
  ASSUME DeliveryInv, NEW c \in Commits, ChooseDataset(c) \/ CommitDataset(c)
  PROVE  DeliveryInv'
<1> USE DEF DeliveryInv, runVars
<1>1. /\ UNCHANGED <<step, left, expires, listed, temp, row, envelopes, pass, now>>
      /\ dataset' # dataset => dataset = {}
  BY DEF ChooseDataset, CommitDataset
<1>2. TypeOK'
  BY DEF ChooseDataset, CommitDataset, TypeOK
<1>3. RunInv'
  BY <1>1 DEF RunInv, Preparing, Sending
<1>4. RowInv' /\ PassInv' /\ BucketInv'
  BY <1>1 DEF RowInv, PassInv, BucketInv, Recorded, Current
<1> QED
  BY <1>2, <1>3, <1>4

\* Every step of a run of prepareDelivery preserves the invariant.
LEMMA RunStep ==
  ASSUME DeliveryInv, NEW r \in Runs, DeliveryStep(r)
  PROVE  DeliveryInv'
<1> USE DEF DeliveryInv, TypeOK, RunInv, RowInv, PassInv, BucketInv, Recorded, Preparing, Sending,
            Current, Fail, runVars
<1>1. CASE Prepare(r)
  <2>1. /\ step[r] = "idle" /\ dataset # {} /\ now + Lifetime <= MaxTime
        /\ UNCHANGED <<up, now, owned, originals, dataset, choosing, temp, row, envelopes, pass, listed>>
    BY <1>1 DEF Prepare
  <2>2. CASE step' = [step EXCEPT ![r] = "failed"] /\ UNCHANGED <<left, expires>>
    BY <2>1, <2>2
  <2>3. CASE /\ step' = [step EXCEPT ![r] = "reading"]
             /\ left' = [left EXCEPT ![r] = dataset]
             /\ expires' = [expires EXCEPT ![r] = now + Lifetime]
    <3>1. TypeOK'
      BY <2>1, <2>3
    <3>2. RunInv' /\ RowInv'
      BY <2>1, <2>3
    <3>3. \A p \in Passes : \A o \in pass[p] : o[1] # r
      BY <2>1
    <3>4. PassInv' /\ BucketInv'
      BY <2>1, <2>3, <3>3
    <3> QED
      BY <3>1, <3>2, <3>4
  <2> QED
    BY <1>1, <2>2, <2>3 DEF Prepare
<1>2. ASSUME NEW t \in Traces, ReadOriginal(r, t) PROVE DeliveryInv'
  BY <1>2 DEF ReadOriginal
<1>3. CASE PutTemporary(r)
  BY <1>3 DEF PutTemporary
<1>4. CASE RecordTemporary(r)
  BY <1>4 DEF RecordTemporary
<1>5. CASE PrepareFails(r) \/ SubmitFails(r)
  BY <1>5 DEF PrepareFails, SubmitFails
<1>6. CASE Submit(r)
  BY <1>6 DEF Submit
<1>7. CASE EnvelopeAccepted(r)
  <2>1. step[r] = "submitting" /\ envelopes' = envelopes \cup {r}
        /\ UNCHANGED <<up, now, owned, originals, dataset, choosing, step, left, expires, listed,
                       temp, row, pass>>
    BY <1>7 DEF EnvelopeAccepted
  <2>2. TypeOK'
    BY <2>1
  <2>3. RunInv'
    <3>1. dataset # {} /\ left[r] = {} /\ listed[r] = dataset
      <4>1. dataset # {} /\ listed[r] \cup left[r] = dataset /\ left[r] = {}
        BY <2>1
      <4> QED
        BY <4>1
    <3>2. \A q \in Runs : q \in envelopes' <=> q \in envelopes \/ q = r
      BY <2>1
    <3> QED
      BY <2>1, <3>1, <3>2
  <2>4. RowInv' /\ PassInv' /\ BucketInv'
    BY <2>1
  <2> QED
    BY <2>2, <2>3, <2>4
<1>8. CASE SubmitReturns(r)
  <2>1. step' = [step EXCEPT ![r] = "done"] /\ step[r] = "submitting"
        /\ UNCHANGED <<up, now, owned, originals, dataset, choosing, left, expires, listed, temp,
                       row, envelopes, pass>>
    BY <1>8 DEF SubmitReturns
  <2>2. TypeOK'
    BY <2>1
  <2>3. RunInv' /\ RowInv'
    BY <2>1
  <2>4. PassInv' /\ BucketInv'
    BY <2>1
  <2> QED
    BY <2>2, <2>3, <2>4
<1> QED
  BY <1>1, <1>2, <1>3, <1>4, <1>5, <1>6, <1>7, <1>8 DEF DeliveryStep

\* So does every step of a pass of the cleanup loop.
LEMMA CleanupPreserves ==
  ASSUME DeliveryInv, NEW p \in Passes, CleanupStep(p)
  PROVE  DeliveryInv'
<1> USE DEF DeliveryInv, TypeOK, RunInv, RowInv, PassInv, BucketInv, Recorded, Preparing, Sending,
            Current, runVars
<1>1. CASE StartPass(p)
  BY <1>1 DEF StartPass, ExpiredRows
<1>2. CASE CleanObject(p)
  BY <1>2 DEF CleanObject
<1>3. CASE CleanFails(p)
  BY <1>3 DEF CleanFails
<1> QED
  BY <1>1, <1>2, <1>3 DEF CleanupStep

\* So do local deletions, the clock, and the end and start of the process.
LEMMA RestStep ==
  ASSUME DeliveryInv,
         (\E t \in Traces : EraseOriginal(t) \/ ForgetTrace(t)) \/ Tick \/ Crash \/ Restart
  PROVE  DeliveryInv'
<1> USE DEF DeliveryInv, TypeOK, RunInv, RowInv, PassInv, BucketInv, Recorded, Preparing, Sending,
            Current, runVars
<1>1. ASSUME NEW t \in Traces, EraseOriginal(t) \/ ForgetTrace(t) PROVE DeliveryInv'
  BY <1>1 DEF EraseOriginal, ForgetTrace
<1>2. CASE Tick
  BY <1>2 DEF Tick
<1>3. CASE Crash
  BY <1>3 DEF Crash
<1>4. CASE Restart
  BY <1>4 DEF Restart
<1> QED
  BY <1>1, <1>2, <1>3, <1>4

\* DeliveryInv is an inductive invariant.
THEOREM DeliveryInvariance == Spec => []DeliveryInv
<1>1. DeliveryInv /\ [Next]_vars => DeliveryInv'
  <2> SUFFICES ASSUME DeliveryInv, [Next]_vars PROVE DeliveryInv'
    OBVIOUS
  <2>1. CASE Next
    BY <2>1, DatasetStep, RunStep, CleanupPreserves, RestStep DEF Next
  <2>2. CASE UNCHANGED vars
    <3>1. TypeOK'
      BY <2>2, SMTT(30) DEF DeliveryInv, TypeOK, vars, runVars
    <3>2. RunInv' /\ RowInv' /\ PassInv' /\ BucketInv'
      BY <2>2 DEF DeliveryInv, RunInv, RowInv, PassInv, BucketInv, Recorded, Current, vars, runVars
    <3> QED
      BY <3>1, <3>2 DEF DeliveryInv
  <2> QED
    BY <2>1, <2>2
<1> QED
  BY InitInv, <1>1, PTL DEF Spec

\* No overlap of cleanup passes takes an object of an accepted envelope from
\* the bucket before the envelope expires.
THEOREM ObjectsAreKept == Spec => []KeptUntilExpiry
<1>1. DeliveryInv => KeptUntilExpiry
  <2> SUFFICES ASSUME DeliveryInv, NEW r \in envelopes, now < expires[r]
               PROVE  {r} \X listed[r] \subseteq temp
    BY DEF DeliveryInv, KeptUntilExpiry
  <2>1. r \in Runs
    BY DEF DeliveryInv, TypeOK
  <2>2. Recorded(r) = listed[r]
    BY <2>1 DEF DeliveryInv, RunInv, Recorded
  <2> QED
    BY <2>1, <2>2 DEF DeliveryInv, BucketInv
<1> QED
  BY DeliveryInvariance, <1>1, PTL

\* The rows of the cleanup loop know every object a buyer was given, and never
\* call one deleted that is still there.
THEOREM ObjectsAreTracked == Spec => []TrackedUntilGone
<1>1. DeliveryInv => TrackedUntilGone
  BY DEF DeliveryInv, TypeOK, RunInv, RowInv, TrackedUntilGone, Recorded
<1> QED
  BY DeliveryInvariance, <1>1, PTL

\* An accepted envelope covers the dataset the seller committed to.
THEOREM DeliveriesAreComplete == Spec => []CompleteDelivery
<1>1. DeliveryInv => CompleteDelivery
  BY DEF DeliveryInv, TypeOK, RunInv, CompleteDelivery
<1> QED
  BY DeliveryInvariance, <1>1, PTL
=============================================================================
