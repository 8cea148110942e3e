--------------------------- MODULE MultipartProofs ---------------------------
(***************************************************************************)
(* Proofs about Multipart, for any number of parts, calls and aborting     *)
(* requests: a call returns only when the object is stored, the journal    *)
(* promises only what the store holds, the upload of bytes that are        *)
(* uploaded once never stays open unseen, and the whole implements         *)
(* EnvelopePut.                                                            *)
(***************************************************************************)
EXTENDS Multipart, TLAPS

USE LastPartAssumption, CallsAssumption

\* Where a call is while it has an upload id.
HasId == step \in {"uploading", "answering", "completing"}

\* An upload id names an upload the store has seen, of a call made so far.
Known(i) == i \in Ids /\ i <= calls /\ upload[i] # "none"

\* The ids in use are known, and calls that are still to come have no upload.
IdsInv ==
  /\ HasId => Known(id)
  /\ row # NoRow => Known(row.id)
  /\ \A a \in Aborters : abortStep[a] # "idle" => Known(abortId[a])
  /\ \A i \in late : Known(i)
  /\ step = "idle" => calls = 0
  /\ \A i \in Ids : i > calls => upload[i] = "none"
  /\ step = "creating" => row = NoRow /\ calls \in Ids /\ upload[calls] = "none"

\* The present call writes to the journal row of its own upload only.  While the
\* upload is open, the store holds the part whose answer the call waits for, and
\* every part of the row.
JournalInv ==
  /\ HasId /\ row # NoRow => row.id = id
  /\ step = "answering" /\ upload[id] = "open" =>
       \A p \in Parts : IsNext(p) => p \in held[id]
  /\ row # NoRow /\ upload[row.id] = "open" => row.parts \subseteq held[row.id]

\* What ends an upload: the object stands for a completed one, and the store
\* has taken an abort when it is about to be answered.
EndInv ==
  /\ step \in {"completing", "returned"} => object
  /\ step = "completing" => upload[id] = "completed"
  /\ object => \E i \in Ids : i <= calls /\ upload[i] = "completed"
  /\ \A a \in Aborters : abortStep[a] = "taken" => upload[abortId[a]] # "open"
  /\ OpenIsJournalled

\* What every step keeps.
MultipartInv == TypeOK /\ IdsInv /\ JournalInv /\ EndInv

USE DEF Parts, Ids, NoRow

\* An upload begins with it.
LEMMA InitInv == Init => MultipartInv
<1> SUFFICES ASSUME Init PROVE MultipartInv
  OBVIOUS
<1>1. TypeOK
  <2>1. object \in BOOLEAN
    BY Zenon DEF Init
  <2> QED
    BY <2>1, SMTT(20) DEF Init, TypeOK
<1>2. IdsInv /\ JournalInv /\ EndInv
  BY DEF Init, IdsInv, JournalInv, EndInv, HasId, OpenIsJournalled
<1> QED
  BY <1>1, <1>2 DEF MultipartInv

\* Whatever a step of uploadMultipart does, the invariant holds after it.
LEMMA UploadPreserves ==
  ASSUME MultipartInv, UploadStep
  PROVE  MultipartInv'
<1> USE DEF MultipartInv, TypeOK, IdsInv, JournalInv, EndInv, HasId, Known, OpenIsJournalled,
            callVars, storeVars, abortVars
<1>1. CASE Load
  <2>1. /\ step \in {"idle", "returned", "failed"} /\ step' \in {"creating", "uploading"}
        /\ calls < Calls /\ calls' = calls + 1
        /\ id' = row.id /\ completed' = row.parts
        /\ step' = "creating" <=> row = NoRow
        /\ UNCHANGED <<row, upload, held, lost, object, late, abortStep, abortId>>
    BY <1>1 DEF Load
  <2>2. TypeOK'
    BY <2>1
  <2>3. IdsInv'
    BY <2>1
  <2>4. JournalInv' /\ EndInv'
    BY <2>1
  <2> QED
    BY <2>2, <2>3, <2>4
<1>2. CASE Created
  BY <1>2 DEF Created
<1>3. CASE CreateFails
  <2>1. step = "creating" /\ step' = "failed" /\ calls \in Ids
        /\ UNCHANGED <<calls, id, completed, row, held, object, late, abortStep, abortId>>
    BY <1>3 DEF CreateFails
  <2>2. CASE UNCHANGED <<upload, lost>>
    BY <2>1, <2>2
  <2>3. CASE upload' = [upload EXCEPT ![calls] = "open"] /\ lost' = lost \cup {calls}
    BY <2>1, <2>3
  <2> QED
    BY <1>3, <2>2, <2>3 DEF CreateFails
<1>4. ASSUME NEW p \in Parts, PartStored(p) PROVE MultipartInv'
  BY <1>4 DEF PartStored, IsNext
<1>5. ASSUME NEW p \in Parts, PartRecorded(p) PROVE MultipartInv'
  <2>1. /\ step = "answering" /\ IsNext(p) /\ completed' = completed \cup {p}
        /\ step' \in {"checking", "uploading"} /\ UNCHANGED <<calls, id, storeVars, abortVars>>
        /\ \/ row = NoRow /\ row' = row
           \/ row # NoRow /\ row' = [row EXCEPT !.parts = @ \cup {p}]
    BY <1>5 DEF PartRecorded
  <2>2. row # NoRow => row' # NoRow /\ row'.id = row.id /\ row'.parts = row.parts \cup {p}
    BY <2>1
  <2>3. TypeOK'
    <3>1. row' \in {NoRow} \cup [id : Ids, parts : SUBSET Parts]
      BY <2>1
    <3>2. completed' \subseteq Parts
      BY <2>1
    <3> QED
      BY <2>1, <3>1, <3>2
  <2>4. IdsInv' /\ EndInv'
    BY <2>1, <2>2
  <2>5. JournalInv'
    BY <2>1, <2>2
  <2> QED
    BY <2>3, <2>4, <2>5
<1>6. CASE PartFails
  BY <1>6 DEF PartFails
<1>7. CASE CompletionStored
  BY <1>7 DEF CompletionStored
<1>8. CASE CompletionAnswered
  BY <1>8 DEF CompletionAnswered
<1>9. CASE CompletionFails
  BY <1>9 DEF CompletionFails, Asked
<1>10. CASE HeadAfterError
  BY <1>10 DEF HeadAfterError
<1>11. CASE Throws
  BY <1>11 DEF Throws
<1> QED
  BY <1>1, <1>2, <1>3, <1>4, <1>5, <1>6, <1>7, <1>8, <1>9, <1>10, <1>11 DEF UploadStep

\* So it does after every step of an abort request, after a late completion, and
\* when the process dies.
LEMMA OthersPreserve ==
  ASSUME MultipartInv,
         (\E i \in Ids : CompletionLate(i)) \/ (\E a \in Aborters : AbortStep(a)) \/ Crash
  PROVE  MultipartInv'
<1> USE DEF MultipartInv, TypeOK, IdsInv, JournalInv, EndInv, HasId, Known, OpenIsJournalled,
            callVars, storeVars, abortVars
<1>1. ASSUME NEW a \in Aborters, AbortLoads(a) PROVE MultipartInv'
  BY <1>1 DEF AbortLoads, IsNext
<1>2. ASSUME NEW a \in Aborters, AbortTaken(a) PROVE MultipartInv'
  BY <1>2 DEF AbortTaken, IsNext
<1>3. ASSUME NEW a \in Aborters, AbortAnswered(a) PROVE MultipartInv'
  <2>1. row' = NoRow /\ UNCHANGED <<callVars, storeVars>>
        /\ abortStep' = [abortStep EXCEPT ![a] = "idle"]
        /\ abortId' = [abortId EXCEPT ![a] = 0]
        /\ abortStep[a] = "taken"
    BY <1>3 DEF AbortAnswered
  <2>2. TypeOK' /\ IdsInv'
    BY <2>1
  <2>3. JournalInv' /\ EndInv'
    BY <2>1 DEF IsNext
  <2> QED
    BY <2>2, <2>3
<1>4. ASSUME NEW a \in Aborters, AbortFails(a) PROVE MultipartInv'
  BY <1>4 DEF AbortFails, IsNext
<1>5. CASE Crash
  <2>1. /\ step' = IF step \in {"idle", "returned"} THEN step ELSE "failed"
        /\ abortStep' = [a \in Aborters |-> "idle"] /\ abortId' = [a \in Aborters |-> 0]
        /\ UNCHANGED <<calls, id, completed, row, held, object>>
    BY <1>5 DEF Crash
  <2>2. CASE UNCHANGED <<upload, lost, late>>
    BY <2>1, <2>2
  <2>3. CASE /\ step = "creating" /\ upload' = [upload EXCEPT ![calls] = "open"]
             /\ lost' = lost \cup {calls} /\ UNCHANGED late
    BY <2>1, <2>3
  <2>4. CASE Asked /\ late' = late \cup {id} /\ UNCHANGED <<upload, lost>>
    BY <2>1, <2>4 DEF Asked
  <2> QED
    BY <1>5, <2>2, <2>3, <2>4 DEF Crash
<1>6. ASSUME NEW i \in Ids, CompletionLate(i) PROVE MultipartInv'
  BY <1>6 DEF CompletionLate, IsNext
<1> QED
  BY <1>1, <1>2, <1>3, <1>4, <1>5, <1>6 DEF AbortStep

\* MultipartInv is an inductive invariant.
THEOREM MultipartInvariance == Spec => []MultipartInv
<1>1. MultipartInv /\ [Next]_vars => MultipartInv'
  <2> SUFFICES ASSUME MultipartInv, [Next]_vars PROVE MultipartInv'
    OBVIOUS
  <2>1. CASE Next
    BY <2>1, UploadPreserves, OthersPreserve DEF Next
  <2>2. CASE UNCHANGED vars
    BY <2>2 DEF vars, callVars, storeVars, abortVars, MultipartInv, TypeOK, IdsInv, JournalInv,
                EndInv, HasId, Known, OpenIsJournalled, IsNext
  <2> QED
    BY <2>1, <2>2
<1> QED
  BY InitInv, <1>1, PTL DEF Spec

\* Every part the journal has recorded is held by the store while the upload is open.
THEOREM JournalIsTrue == Spec => []JournalHeld
<1>1. MultipartInv => JournalHeld
  BY DEF MultipartInv, JournalInv, JournalHeld
<1> QED
  BY MultipartInvariance, <1>1, PTL

\* An open upload of bytes uploaded once can be found, or was never answered.
THEOREM OpenUploadsAreFound == Spec => []OpenIsJournalled
<1>1. MultipartInv => OpenIsJournalled
  BY DEF MultipartInv, EndInv
<1> QED
  BY MultipartInvariance, <1>1, PTL

\* A step of the upload is a step of a single PUT for its caller, or none.
LEMMA UploadStepRefines ==
  ASSUME MultipartInv, UploadStep
  PROVE  [Put!Next]_<<callState, object>>
<1>1. CASE Load
  BY <1>1 DEF Load, storeVars, Put!Begin, Put!Next, callState
<1>2. CASE Created
  BY <1>2 DEF Created, callState
<1>3. ASSUME NEW p \in Parts, PartStored(p) \/ PartRecorded(p)
      PROVE  [Put!Next]_<<callState, object>>
  BY <1>3 DEF PartStored, PartRecorded, storeVars, callState
<1>4. CASE CreateFails \/ Throws
  BY <1>4 DEF CreateFails, Throws, storeVars, Put!Fail, Put!Next, callState
<1>5. CASE PartFails \/ CompletionFails
  BY <1>5 DEF PartFails, CompletionFails, Asked, storeVars, callState
<1>6. CASE CompletionStored
  BY <1>6, Zenon DEF CompletionStored, Put!Store, Put!Next, callState
<1>7. CASE CompletionAnswered \/ HeadAfterError
  BY <1>7 DEF CompletionAnswered, HeadAfterError, storeVars, MultipartInv, EndInv, Put!Return,
              Put!Next, callState
<1> QED
  BY <1>1, <1>2, <1>3, <1>4, <1>5, <1>6, <1>7 DEF UploadStep

\* So is a late completion, a step of an abort request and the end of the process.
LEMMA OtherStepRefines ==
  ASSUME MultipartInv,
         (\E i \in Ids : CompletionLate(i)) \/ (\E a \in Aborters : AbortStep(a)) \/ Crash
  PROVE  [Put!Next]_<<callState, object>>
<1>1. CASE \E i \in Ids : CompletionLate(i)
  <2>1. object' = TRUE /\ step' = step /\ step # "idle"
    <3>1. PICK i \in Ids : CompletionLate(i)
      BY <1>1
    <3>2. i \in late /\ object' = TRUE /\ step' = step
      BY <3>1 DEF CompletionLate, callVars
    <3>3. calls # 0
      BY <3>2 DEF MultipartInv, IdsInv, Known
    <3> QED
      BY <3>2, <3>3 DEF MultipartInv, IdsInv
  <2>2. object \in BOOLEAN
    BY Zenon DEF MultipartInv, TypeOK
  <2> QED
    BY <2>1, <2>2, Zenon DEF Put!Store, Put!Next, callState
<1>2. CASE \E a \in Aborters : AbortStep(a)
  BY <1>2 DEF AbortStep, AbortLoads, AbortTaken, AbortAnswered, AbortFails, callVars, storeVars,
              callState
<1>3. CASE Crash
  BY <1>3 DEF Crash, Put!Fail, Put!Next, callState
<1> QED
  BY <1>1, <1>2, <1>3

\* An upload in parts is one PUT to its caller: whatever is resumed, aborted,
\* answered late or interrupted, a call returns only with the object stored, and
\* no call or abort takes the object away.
THEOREM PutRefinement == Spec => ImplementsPut
<1>1. Init => Put!Init
  BY DEF Init, Put!Init, callState
<1>2. MultipartInv /\ [Next]_vars => [Put!Next]_<<callState, object>>
  <2>1. ASSUME UNCHANGED vars PROVE UNCHANGED <<callState, object>>
    BY <2>1 DEF vars, callVars, storeVars, callState
  <2> QED
    BY <2>1, UploadStepRefines, OtherStepRefines DEF Next
<1> QED
  BY <1>1, <1>2, MultipartInvariance, PTL DEF Spec, ImplementsPut, Put!Spec
=============================================================================
