--------------------------- MODULE CaptureProofs ---------------------------
(***************************************************************************)
(* Proofs about Capture, for every set of traces, deletion requests and    *)
(* refused manifests: IInv is inductive, the safety properties follow from *)
(* it, a tombstoned trace is forgotten for good, and the specification     *)
(* implements SellerInventory.                                             *)
(***************************************************************************)
EXTENDS Capture, TLAPS

USE NoTraceAssumption, RefusedAssumption

\* The state before the daemon first starts satisfies the inductive invariant.
LEMMA InitIInv == Init => IInv
<1> SUFFICES ASSUME Init PROVE IInv
  OBVIOUS
<1>1. TypeOK
  <2>1. phase \in Phases /\ credential \in BOOLEAN /\ todo \subseteq Traces
    BY DEF Init, Phases
  <2>2. job \in [Traces -> JobSteps]
    BY DEF Init, JobSteps
  <2>3. /\ delStep \in [Deleters -> {"idle", "erasing", "notifying"}]
        /\ delTrace \in [Deleters -> Traces \cup {NoTrace}]
    BY DEF Init
  <2>4. /\ lifecycle \in [Traces -> LifecycleStates \cup {"none"}]
        /\ outbox \in [Traces -> {"none", "pending", "committed"}]
        /\ createdAt \in [Traces -> Nat] /\ clock \in Nat
        /\ tombstones \subseteq Traces
    BY DEF Init
  <2>5. /\ bucket \in [Traces -> ObjectStates]
        /\ sent \subseteq Traces /\ retracted \subseteq Traces
        /\ market \in [Traces -> {"none", "held", "tombstoned"}]
    BY DEF Init, ObjectStates
  <2> QED
    BY <2>1, <2>2, <2>3, <2>4, <2>5 DEF TypeOK
<1>2. ASSUME NEW t \in Traces PROVE JobInv(t) /\ RowInv(t) /\ NetInv(t)
  BY DEF Init, JobInv, RowInv, NetInv
<1>3. ASSUME NEW d \in Deleters PROVE DeletionInv(d)
  BY DEF Init, DeletionInv
<1>4. ProcessInv
  BY DEF Init, ProcessInv, PendingRows
<1> QED
  BY <1>1, <1>2, <1>3, <1>4 DEF IInv

\* A step of the capture engine preserves the invariant.
LEMMA CaptureStepIInv ==
  ASSUME NEW t \in Traces, IInv, CaptureStep(t)
  PROVE  IInv'
<1> USE DEF IInv, TypeOK, JobInv, RowInv, NetInv, DeletionInv, ProcessInv,
            Phases, JobSteps, LifecycleStates, ObjectStates, PendingRows,
            procVars, delVars, queueVars, dbVars, netVars,
            FailCapture, MarkCommitted, Submit
<1>1. CASE Observe(t)
  BY <1>1 DEF Observe
<1>2. CASE RejectExchange(t)
  BY <1>2 DEF RejectExchange
<1>3. CASE PutFails(t)
  BY <1>3 DEF PutFails
<1>4. CASE HeadMatches(t)
  BY <1>4 DEF HeadMatches
<1>5. CASE ReadbackMatches(t)
  BY <1>5 DEF ReadbackMatches
<1>6. CASE FailAfterPut(t)
  BY <1>6 DEF FailAfterPut
<1>7. ASSUME NEW content \in {"whole", "badHead", "badBody"}, PutStored(t, content)
      PROVE  IInv'
  BY <1>7 DEF PutStored
<1>8. ASSUME NEW content \in {"whole", "badHead", "badBody"}, PutUnacknowledged(t, content)
      PROVE  IInv'
  BY <1>8 DEF PutUnacknowledged
<1>9. CASE Enqueue(t)
  BY <1>9 DEF Enqueue
<1>10. CASE SubmitAcknowledged(t)
  BY <1>10 DEF SubmitAcknowledged
<1>11. CASE SubmitFails(t)
  BY <1>11 DEF SubmitFails
<1> HIDE DEF IInv, TypeOK, JobInv, RowInv, NetInv, DeletionInv, ProcessInv,
             Phases, JobSteps, LifecycleStates, ObjectStates, PendingRows,
             procVars, delVars, queueVars, dbVars, netVars,
             FailCapture, MarkCommitted, Submit
<1> QED
  BY <1>1, <1>2, <1>3, <1>4, <1>5, <1>6, <1>7, <1>8, <1>9, <1>10, <1>11 DEF CaptureStep

\* A step of a deletion preserves the invariant.
LEMMA DeletionStepIInv ==
  ASSUME NEW d \in Deleters, IInv, DeletionStep(d)
  PROVE  IInv'
<1> USE DEF IInv, TypeOK, JobInv, RowInv, NetInv, DeletionInv, ProcessInv,
            Phases, JobSteps, LifecycleStates, ObjectStates, PendingRows,
            procVars, delVars, queueVars, dbVars, netVars
<1>1. ASSUME NEW t \in Traces, DeleteRequested(d, t)
      PROVE  IInv'
  BY <1>1 DEF DeleteRequested
<1>2. CASE ObjectErased(d)
  BY <1>2 DEF ObjectErased
<1>3. CASE TombstoneAcknowledged(d)
  BY <1>3 DEF TombstoneAcknowledged
<1>4. CASE DeleteFails(d)
  BY <1>4 DEF DeleteFails
<1> QED
  BY <1>1, <1>2, <1>3, <1>4 DEF DeletionStep

\* Start, reconciliation and the end of the process preserve the invariant.
LEMMA DaemonStepIInv ==
  ASSUME IInv, DaemonStep
  PROVE  IInv'
<1> USE DEF IInv, TypeOK, JobInv, RowInv, NetInv, DeletionInv, ProcessInv,
            Phases, JobSteps, LifecycleStates, ObjectStates, PendingRows,
            procVars, delVars, queueVars, dbVars, netVars,
            MarkCommitted, Submit, LoseProcess
<1>1. ASSUME NEW hasCredential \in BOOLEAN, Start(hasCredential)
      PROVE  IInv'
  BY <1>1 DEF Start
<1>2. ASSUME NEW t \in Traces, ReconcileSubmits(t)
      PROVE  IInv'
  BY <1>2 DEF ReconcileSubmits, IsOldest
<1>3. ASSUME NEW t \in Traces, ReconcileAcknowledged(t)
      PROVE  IInv'
  BY <1>3 DEF ReconcileAcknowledged, IsOldest
<1>4. CASE ReconcileEnds
  BY <1>4 DEF ReconcileEnds
<1>5. CASE Stop
  BY <1>5, ZenonT(60) DEF Stop
<1>6. ASSUME NEW t \in Traces, StopBeforeEnqueue(t)
      PROVE  IInv'
  <2>1. TypeOK'
    BY <1>6 DEF StopBeforeEnqueue
  <2>2. ASSUME NEW u \in Traces PROVE (JobInv(u) /\ RowInv(u) /\ NetInv(u))'
    BY <1>6 DEF StopBeforeEnqueue
  <2>3. (\A d \in Deleters : DeletionInv(d))' /\ ProcessInv'
    BY <1>6 DEF StopBeforeEnqueue
  <2> QED
    BY <2>1, <2>2, <2>3
<1> QED
  BY <1>1, <1>2, <1>3, <1>4, <1>5, <1>6 DEF DaemonStep

\* Whatever the marketplace does with old requests preserves the invariant.
LEMMA MarketStepIInv ==
  ASSUME NEW t \in Traces, IInv, MarketStep(t)
  PROVE  IInv'
<1> USE DEF IInv, TypeOK, JobInv, RowInv, NetInv, DeletionInv, ProcessInv,
            Phases, JobSteps, LifecycleStates, ObjectStates, PendingRows,
            procVars, delVars, queueVars, dbVars, netVars
<1>1. CASE MarketAccepts(t)
  BY <1>1 DEF MarketAccepts
<1>2. CASE MarketWithdraws(t)
  BY <1>2 DEF MarketWithdraws
<1> QED
  BY <1>1, <1>2 DEF MarketStep

\* IInv is inductive.
LEMMA NextIInv == IInv /\ [Next]_vars => IInv'
<1> SUFFICES ASSUME IInv, [Next]_vars PROVE IInv'
  OBVIOUS
<1>1. CASE UNCHANGED vars
  BY <1>1 DEF vars, procVars, delVars, queueVars, dbVars, netVars, IInv, TypeOK, JobInv,
              RowInv, NetInv, DeletionInv, ProcessInv, PendingRows
<1>2. CASE Next
  BY <1>2, CaptureStepIInv, DeletionStepIInv, DaemonStepIInv, MarketStepIInv DEF Next
<1> QED
  BY <1>1, <1>2

\* Every reachable state satisfies the inductive invariant.
THEOREM Invariance == Spec => []IInv
  BY InitIInv, NextIInv, PTL DEF Spec

\* Every variable keeps its type.
THEOREM TypeCorrect == Spec => []TypeOK
<1>1. IInv => TypeOK
  BY DEF IInv
<1> QED
  BY <1>1, Invariance, PTL

\* The marketplace holds only manifests of objects that were stored and read
\* back whole, however late or often a submission reaches it.
THEOREM HeldAreBacked == Spec => []HeldIsBacked
<1>1. IInv => HeldIsBacked
  BY DEF IInv, RowInv, NetInv, HeldIsBacked, TypeOK
<1> QED
  BY <1>1, Invariance, PTL

\* trace_lifecycle and manifest_outbox agree in every reachable state.
THEOREM LedgersAlwaysAgree == Spec => []LedgersAgree
<1>1. IInv => LedgersAgree
  BY DEF IInv, RowInv, LedgersAgree
<1> QED
  BY <1>1, Invariance, PTL

\* Object first, marketplace second, local reference last, in every reachable
\* state and for any number of concurrent deletions of one trace.
THEOREM DeletionsErasedInOrder == Spec => []ErasedInOrder
<1>1. IInv => ErasedInOrder
  BY DEF IInv, RowInv, NetInv, ErasedInOrder
<1> QED
  BY <1>1, Invariance, PTL

\* No step gives a tombstoned trace a row again.
THEOREM TombstonesAreFinal == Spec => ForgottenForGood
<1>1. ASSUME IInv, [Next]_vars, NEW t \in tombstones
      PROVE  lifecycle'[t] = "none" /\ outbox'[t] = "none" /\ t \in tombstones'
  <2>1. IInv'
    BY <1>1, NextIInv
  <2>2. t \in Traces
    BY <1>1 DEF IInv, TypeOK
  <2>3. tombstones \subseteq tombstones'
    BY <1>1 DEF Next, vars, procVars, delVars, queueVars, dbVars, netVars,
      CaptureStep, Observe, RejectExchange, PutFails, PutStored, PutUnacknowledged,
      HeadMatches, ReadbackMatches, FailAfterPut, Enqueue, SubmitAcknowledged, SubmitFails,
      DeletionStep, DeleteRequested, ObjectErased, TombstoneAcknowledged, DeleteFails,
      DaemonStep, Start, ReconcileSubmits, ReconcileAcknowledged, ReconcileEnds, Stop,
      StopBeforeEnqueue, MarketStep, MarketAccepts, MarketWithdraws
  <2> QED
    BY <1>1, <2>1, <2>2, <2>3 DEF IInv, RowInv
<1>2. IInv /\ [Next]_vars =>
        [\A t \in tombstones : lifecycle'[t] = "none" /\ outbox'[t] = "none"
                              /\ t \in tombstones']_vars
  BY <1>1
<1> QED
  BY <1>2, Invariance, PTL DEF Spec, ForgottenForGood

----------------------------------------------------------------------------
(* The refinement of SellerInventory.                                      *)

\* A step that leaves the stage of every trace alone is a stutter.
LEMMA KeptStutters ==
  ASSUME \A u \in Traces : stageOf'[u] = stageOf[u]
  PROVE  UNCHANGED stageOf
<1>1. stageOf = [u \in Traces |-> stageOf[u]] /\ stageOf' = [u \in Traces |-> stageOf'[u]]
  BY DEF stageOf
<1> QED
  BY <1>1

\* A step that takes one trace from a stage to the next one and leaves the
\* others alone is a step of SellerInventory.
LEMMA MoveIsStep ==
  ASSUME NEW t \in Traces,
         \A u \in Traces \ {t} : stageOf'[u] = stageOf[u],
         <<stageOf[t], stageOf'[t]>> \in
           {<<"local", "stored">>, <<"stored", "listed">>, <<"listed", "owned">>,
            <<"owned", "erased">>, <<"erased", "withdrawn">>, <<"withdrawn", "forgotten">>}
  PROVE  Inventory!Next
<1>1. stageOf = [u \in Traces |-> stageOf[u]] /\ stageOf' = [u \in Traces |-> stageOf'[u]]
  BY DEF stageOf
<1>2. stageOf' = [stageOf EXCEPT ![t] = stageOf'[t]]
  BY <1>1
<1> QED
  BY <1>2 DEF Inventory!Next, Inventory!Store, Inventory!List, Inventory!Own,
     Inventory!Erase, Inventory!Withdraw, Inventory!Forget, Inventory!Move

\* A step that changes none of the variables a stage depends on is a stutter.
LEMMA FrameStutters ==
  ASSUME UNCHANGED <<tombstones, market, bucket, lifecycle>>
  PROVE  UNCHANGED stageOf
  BY DEF stageOf

\* Neither is a stage affected by lifecycle states other than "committed".
LEMMA UncommittedStutters ==
  ASSUME UNCHANGED <<tombstones, market, bucket>>, NEW t \in Traces,
         \A u \in Traces \ {t} : lifecycle'[u] = lifecycle[u],
         lifecycle[t] # "committed", lifecycle'[t] # "committed"
  PROVE  UNCHANGED stageOf
<1>1. \A u \in Traces : stageOf'[u] = stageOf[u]
  BY DEF stageOf
<1> QED
  BY <1>1, KeptStutters

\* Recording the acknowledgement of a pending row makes a listed trace owned.
LEMMA CommitRefines ==
  ASSUME NEW t \in Traces, IInv,
         outbox[t] = "pending", market[t] = "held",
         lifecycle' = [lifecycle EXCEPT ![t] = "committed"],
         UNCHANGED <<market, tombstones, bucket>>
  PROVE  Inventory!Next
<1>1. bucket[t] = "whole" /\ lifecycle[t] = "manifest_pending" /\ t \notin tombstones
  BY DEF IInv, RowInv
<1>2. \A u \in Traces \ {t} : stageOf'[u] = stageOf[u]
  BY DEF stageOf, IInv, TypeOK
<1>3. stageOf[t] = "listed" /\ stageOf'[t] = "owned"
  BY <1>1 DEF stageOf, IInv, TypeOK
<1> QED
  BY <1>2, <1>3, MoveIsStep

\* A step of the capture engine moves its trace to the next stage or stutters.
LEMMA CaptureStepRefines ==
  ASSUME NEW t \in Traces, IInv, CaptureStep(t)
  PROVE  Inventory!Next \/ UNCHANGED stageOf
<1> USE DEF IInv, JobInv, RowInv, NetInv,
            procVars, delVars, queueVars, dbVars, netVars, FailCapture, MarkCommitted
<1>1. CASE Observe(t)
  BY <1>1, UncommittedStutters DEF Observe, TypeOK
<1>2. CASE RejectExchange(t)
  BY <1>2, FrameStutters DEF RejectExchange
<1>3. CASE PutFails(t)
  BY <1>3, UncommittedStutters DEF PutFails, TypeOK
<1>4. CASE HeadMatches(t)
  BY <1>4, FrameStutters DEF HeadMatches
<1>5. CASE ReadbackMatches(t)
  BY <1>5, UncommittedStutters DEF ReadbackMatches, TypeOK
<1>6. CASE FailAfterPut(t)
  BY <1>6, UncommittedStutters DEF FailAfterPut, TypeOK
<1>7. ASSUME NEW content \in {"whole", "badHead", "badBody"},
             PutStored(t, content) \/ PutUnacknowledged(t, content)
      PROVE  Inventory!Next \/ UNCHANGED stageOf
  <2>1. /\ job[t] = "preparing"
        /\ bucket' = [bucket EXCEPT ![t] = content]
        /\ lifecycle' = lifecycle \/ lifecycle' = [lifecycle EXCEPT ![t] = "failed"]
        /\ UNCHANGED <<market, tombstones>>
    BY <1>7 DEF PutStored, PutUnacknowledged
  <2>2. bucket[t] = "absent" /\ lifecycle[t] = "observed" /\ t \notin tombstones
    BY <2>1
  <2>3. outbox[t] = "none"
    BY <2>2 DEF TypeOK
  <2>4. market[t] = "none"
    BY <2>2, <2>3
  <2>5. stageOf[t] = "local"
    BY <2>2, <2>4 DEF stageOf
  <2>6. \A u \in Traces \ {t} : stageOf'[u] = stageOf[u]
    BY <2>1 DEF stageOf, TypeOK
  <2>7. stageOf'[t] = IF content = "whole" THEN "stored" ELSE "local"
    BY <2>1, <2>2, <2>4 DEF stageOf, TypeOK
  <2>8. CASE content = "whole"
    BY <2>5, <2>6, <2>7, <2>8, MoveIsStep
  <2>9. CASE content # "whole"
    BY <2>5, <2>6, <2>7, <2>9, KeptStutters
  <2> QED
    BY <2>8, <2>9
<1>8. CASE Enqueue(t)
  BY <1>8, UncommittedStutters DEF Enqueue, TypeOK
<1>9. CASE SubmitAcknowledged(t)
  <2>1. /\ outbox[t] = "pending" /\ market[t] = "held"
        /\ lifecycle' = [lifecycle EXCEPT ![t] = "committed"]
        /\ UNCHANGED <<market, tombstones, bucket>>
    BY <1>9 DEF SubmitAcknowledged
  <2> QED
    BY <2>1, CommitRefines
<1>10. CASE SubmitFails(t)
  BY <1>10, FrameStutters DEF SubmitFails
<1> QED
  BY <1>1, <1>2, <1>3, <1>4, <1>5, <1>6, <1>7, <1>8, <1>9, <1>10 DEF CaptureStep

\* A step of a deletion moves its trace to the next stage or stutters.
LEMMA DeletionStepRefines ==
  ASSUME NEW d \in Deleters, IInv, DeletionStep(d)
  PROVE  Inventory!Next \/ UNCHANGED stageOf
<1> USE DEF IInv, RowInv, NetInv, DeletionInv,
            procVars, delVars, queueVars, dbVars, netVars
<1>1. ASSUME NEW t \in Traces, DeleteRequested(d, t)
      PROVE  UNCHANGED stageOf
  BY <1>1, FrameStutters DEF DeleteRequested
<1>2. ASSUME delStep[d] = "erasing",
             bucket' = [bucket EXCEPT ![delTrace[d]] = "deleted"],
             UNCHANGED <<market, tombstones, lifecycle>>
      PROVE  Inventory!Next \/ UNCHANGED stageOf
  <2> DEFINE t == delTrace[d]
  <2>1. t \in Traces /\ (lifecycle[t] = "committed" \/ t \in tombstones)
    BY <1>2
  <2>2. \A u \in Traces \ {t} : stageOf'[u] = stageOf[u]
    BY <1>2 DEF stageOf, TypeOK
  <2>3. CASE t \in tombstones
    BY <1>2, <2>1, <2>2, <2>3, KeptStutters DEF stageOf
  <2>4. CASE t \notin tombstones /\ (market[t] = "tombstoned" \/ bucket[t] = "deleted")
    <3>1. stageOf'[t] = stageOf[t]
      BY <1>2, <2>1, <2>4 DEF stageOf, TypeOK
    <3> QED
      BY <2>2, <3>1, KeptStutters
  <2>5. CASE t \notin tombstones /\ market[t] # "tombstoned" /\ bucket[t] # "deleted"
    <3>1. stageOf[t] = "owned" /\ stageOf'[t] = "erased"
      BY <1>2, <2>1, <2>5 DEF stageOf, TypeOK
    <3> QED
      BY <2>1, <2>2, <3>1, MoveIsStep
  <2> QED
    BY <2>3, <2>4, <2>5
<1>3. CASE ObjectErased(d)
  BY <1>2, <1>3 DEF ObjectErased
<1>4. CASE TombstoneAcknowledged(d)
  <2> DEFINE t == delTrace[d]
  <2>1. /\ t \in Traces /\ market[t] = "tombstoned"
        /\ tombstones' = tombstones \cup {t}
        /\ lifecycle' = [lifecycle EXCEPT ![t] = "none"]
        /\ UNCHANGED <<market, bucket>>
    BY <1>4 DEF TombstoneAcknowledged
  <2>2. \A u \in Traces \ {t} : stageOf'[u] = stageOf[u]
    BY <2>1 DEF stageOf, TypeOK
  <2>3. stageOf'[t] = "forgotten" /\ stageOf[t] \in {"withdrawn", "forgotten"}
    BY <2>1 DEF stageOf
  <2> QED
    BY <2>1, <2>2, <2>3, MoveIsStep, KeptStutters
<1>5. CASE DeleteFails(d)
  BY <1>2, <1>5, FrameStutters DEF DeleteFails
<1> QED
  BY <1>1, <1>3, <1>4, <1>5 DEF DeletionStep

\* Startup reconciliation commits what the marketplace holds; starting and
\* stopping change no stage.
LEMMA DaemonStepRefines ==
  ASSUME IInv, DaemonStep
  PROVE  Inventory!Next \/ UNCHANGED stageOf
<1> USE DEF IInv, JobInv, RowInv, ProcessInv, PendingRows,
            procVars, delVars, queueVars, dbVars, netVars
<1>1. ASSUME NEW hasCredential \in BOOLEAN, Start(hasCredential)
      PROVE  UNCHANGED stageOf
  BY <1>1, FrameStutters DEF Start
<1>2. ASSUME NEW t \in Traces, ReconcileSubmits(t)
      PROVE  UNCHANGED stageOf
  BY <1>2, FrameStutters DEF ReconcileSubmits
<1>3. ASSUME NEW t \in Traces, ReconcileAcknowledged(t)
      PROVE  Inventory!Next
  <2>1. /\ outbox[t] = "pending" /\ market[t] = "held"
        /\ lifecycle' = [lifecycle EXCEPT ![t] = "committed"]
        /\ UNCHANGED <<market, tombstones, bucket>>
    BY <1>3 DEF ReconcileAcknowledged, IsOldest, MarkCommitted
  <2> QED
    BY <2>1, CommitRefines
<1>4. CASE ReconcileEnds
  BY <1>4, FrameStutters DEF ReconcileEnds
<1>5. CASE Stop
  BY <1>5, FrameStutters DEF Stop
<1>6. ASSUME NEW t \in Traces, StopBeforeEnqueue(t)
      PROVE  UNCHANGED stageOf
  BY <1>6, UncommittedStutters DEF StopBeforeEnqueue, TypeOK
<1> QED
  BY <1>1, <1>2, <1>3, <1>4, <1>5, <1>6 DEF DaemonStep

\* The marketplace lists what is stored and withdraws what is erased.
LEMMA MarketStepRefines ==
  ASSUME NEW t \in Traces, IInv, MarketStep(t)
  PROVE  Inventory!Next
<1> USE DEF IInv, RowInv, NetInv, procVars, delVars, queueVars, dbVars
<1>1. CASE MarketAccepts(t)
  <2>1. /\ t \in sent /\ market[t] = "none"
        /\ market' = [market EXCEPT ![t] = "held"]
        /\ UNCHANGED <<tombstones, bucket, lifecycle>>
    BY <1>1 DEF MarketAccepts
  <2>2. t \notin tombstones /\ lifecycle[t] # "committed" /\ outbox[t] = "pending"
    BY <2>1 DEF TypeOK
  <2>3. \A u \in Traces \ {t} : stageOf'[u] = stageOf[u]
    BY <2>1 DEF stageOf, TypeOK
  <2>4. stageOf[t] = "stored" /\ stageOf'[t] = "listed"
    BY <2>1, <2>2 DEF stageOf, TypeOK
  <2> QED
    BY <2>3, <2>4, MoveIsStep
<1>2. CASE MarketWithdraws(t)
  <2>1. /\ t \in retracted /\ market[t] = "held"
        /\ market' = [market EXCEPT ![t] = "tombstoned"]
        /\ UNCHANGED <<tombstones, bucket, lifecycle>>
    BY <1>2 DEF MarketWithdraws
  <2>2. t \notin tombstones /\ bucket[t] = "deleted"
    BY <2>1
  <2>3. \A u \in Traces \ {t} : stageOf'[u] = stageOf[u]
    BY <2>1 DEF stageOf, TypeOK
  <2>4. stageOf[t] = "erased" /\ stageOf'[t] = "withdrawn"
    BY <2>1, <2>2 DEF stageOf, TypeOK
  <2> QED
    BY <2>3, <2>4, MoveIsStep
<1> QED
  BY <1>1, <1>2 DEF MarketStep

\* The daemon, its database, the bucket and the marketplace together take
\* every trace through the stages of SellerInventory, one at a time.
THEOREM Refinement == Spec => ImplementsInventory
<1>1. Init => Inventory!Init
  BY DEF Init, Inventory!Init, stageOf
<1>2. IInv /\ [Next]_vars => [Inventory!Next]_stageOf
  <2>1. CASE UNCHANGED vars
    BY <2>1, FrameStutters DEF vars, dbVars, netVars
  <2>2. ASSUME IInv, Next PROVE [Inventory!Next]_stageOf
    BY <2>2, CaptureStepRefines, DeletionStepRefines, DaemonStepRefines, MarketStepRefines
       DEF Next
  <2> QED
    BY <2>1, <2>2
<1> QED
  BY <1>1, <1>2, Invariance, PTL DEF Spec, ImplementsInventory, Inventory!Spec
=============================================================================
