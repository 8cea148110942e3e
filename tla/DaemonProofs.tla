---------------------------- MODULE DaemonProofs ----------------------------
(***************************************************************************)
(* Proofs about two parts of the daemon that have no state in common.      *)
(*                                                                         *)
(* Gateway, for any requests, tunnels and number of control calls: the     *)
(* status the control API reports and the gate the gateway reads never end *)
(* up apart, and the exit of the process cuts off no capture that was      *)
(* scheduled before the servers were closed.                               *)
(*                                                                         *)
(* SessionLabels, for any keys, views and bounds: verdicts are about the   *)
(* user's next words in the same session, counts carry on, and sessions    *)
(* that have ended have a rollup that is marked closed.                    *)
(***************************************************************************)
EXTENDS Gateway, SessionLabels, SequenceTheorems, FiniteSetTheorems, TLAPS

----------------------------------------------------------------------------
(* The gateway and the control API.                                        *)

USE ViaAssumption, MaxControlAssumption

\* A capture scheduled by a handler whose provider answered after drain began.
Late(q) == since[q] \in {"draining", "removing"}

\* What shutdown knows of the captures that still run: drain waits for those
\* that are not late, and when it has ended there are none of these.
DrainInv ==
  /\ phase = "draining" => \A q \in Pending : q \in waiting \/ Late(q)
  /\ phase \in {"removing", "closed"} => \A q \in Pending : Late(q)

\* What every step keeps.
GatewayInv == ControlAgrees /\ DrainInv

\* The daemon starts with it.
LEMMA InitInv == Init => GatewayInv
<1> SUFFICES ASSUME Init PROVE GatewayInv
  OBVIOUS
<1>1. TypeOK
  BY DEF Init, TypeOK
<1>2. status = "healthy" /\ gate /\ applying = <<>>
  BY DEF Init
<1>3. DrainInv
  BY DEF Init, DrainInv
<1> QED
  BY <1>1, <1>2, <1>3 DEF GatewayInv, ControlAgrees

\* The calls on their way, as pause and resume add to them and Apply takes from
\* them: the last one is the one that was made last.
LEMMA LastCall ==
  ASSUME NEW S, NEW calls \in Seq(S), NEW call \in S
  PROVE  /\ Append(calls, call) \in Seq(S) /\ Append(calls, call) # <<>>
         /\ Append(calls, call)[Len(Append(calls, call))] = call
         /\ calls # <<>> =>
              /\ Head(calls) \in S /\ Tail(calls) \in Seq(S)
              /\ Tail(calls) = <<>> => calls[Len(calls)] = Head(calls)
              /\ Tail(calls) # <<>> => Tail(calls)[Len(Tail(calls))] = calls[Len(calls)]
<1>1. calls # <<>> => Len(calls) \in Nat \ {0}
  BY EmptySeq
<1>2. calls # <<>> /\ Tail(calls) = <<>> => calls[Len(calls)] = Head(calls)
  <2> SUFFICES ASSUME calls # <<>>, Tail(calls) = <<>> PROVE calls[Len(calls)] = Head(calls)
    OBVIOUS
  <2>1. Len(Tail(calls)) = Len(calls) - 1
    BY HeadTailProperties
  <2>2. Len(calls) = 1
    BY <1>1, <2>1
  <2> QED
    BY <2>2
<1>3. calls # <<>> /\ Tail(calls) # <<>> => Tail(calls)[Len(Tail(calls))] = calls[Len(calls)]
  BY <1>1, HeadTailProperties, EmptySeq
<1> QED
  BY <1>2, <1>3, AppendProperties, HeadTailProperties

\* Every step of a request or of a tunnel preserves the invariant.
LEMMA RequestStep ==
  ASSUME GatewayInv,
         \/ \E t \in Tunnels : OpenTunnel(t) \/ CloseTunnel(t)
         \/ \E q \in Requests :
              \/ Arrive(q) \/ Refuse(q) \/ Forward(q) \/ UpstreamFails(q)
              \/ \E eligible \in BOOLEAN : Answer(q, eligible)
  PROVE  GatewayInv'
<1> USE DEF GatewayInv, ControlAgrees, TypeOK, DrainInv, Pending, Late, controlVars, shutdownVars,
            requestVars, Alive
<1>1. ASSUME NEW t \in Tunnels, OpenTunnel(t) \/ CloseTunnel(t) PROVE GatewayInv'
  BY <1>1 DEF OpenTunnel, CloseTunnel
<1>2. ASSUME NEW q \in Requests, Arrive(q) \/ Refuse(q) \/ Forward(q) \/ UpstreamFails(q)
      PROVE  GatewayInv'
  BY <1>2 DEF Arrive, Refuse, Forward, UpstreamFails
<1>3. ASSUME NEW q \in Requests, NEW eligible \in BOOLEAN, Answer(q, eligible)
      PROVE  GatewayInv'
  BY <1>3 DEF Answer
<1> QED
  BY <1>1, <1>2, <1>3

\* So does every step of a background capture: no job starts over.
LEMMA CaptureStep ==
  ASSUME GatewayInv, NEW q \in Requests, JobStep(q)
  PROVE  GatewayInv'
BY DEF JobStep, Read, Persist, JobFails, GatewayInv, ControlAgrees, TypeOK, DrainInv, Pending, Late,
       controlVars, shutdownVars, Alive

\* So do pause and resume: the newest call decides where the gate ends up.
LEMMA ControlStep ==
  ASSUME GatewayInv, (\E enabled \in BOOLEAN : Control(enabled)) \/ Apply
  PROVE  GatewayInv'
<1>1. UNCHANGED <<requestVars, shutdownVars>>
  BY DEF Control, Apply
<1>2. DrainInv'
  BY <1>1 DEF GatewayInv, DrainInv, Pending, Late, requestVars, shutdownVars
<1>3. ControlAgrees'
  <2> USE DEF GatewayInv, ControlAgrees
  <2>1. ASSUME NEW enabled \in BOOLEAN, Control(enabled) PROVE ControlAgrees'
    <3>1. TypeOK'
      BY <1>1, <2>1, LastCall DEF TypeOK, Control, requestVars, shutdownVars
    <3>2. applying' # <<>> /\ applying'[Len(applying')] = enabled
      BY <2>1, LastCall DEF TypeOK, Control
    <3>3. (status' = "healthy") = enabled
      BY <2>1 DEF Control
    <3> QED
      BY <3>1, <3>2, <3>3
  <2>2. CASE Apply
    <3>1. applying \in Seq(BOOLEAN) /\ applying # <<>>
      BY <2>2 DEF TypeOK, Apply
    <3>2. TypeOK'
      BY <1>1, <2>2, <3>1, LastCall DEF TypeOK, Apply, requestVars, shutdownVars
    <3>3. applying[Len(applying)] = IF applying' = <<>> THEN gate' ELSE applying'[Len(applying')]
      BY <2>2, <3>1, LastCall DEF Apply
    <3>4. UNCHANGED status
      BY <2>2 DEF Apply
    <3> QED
      BY <3>1, <3>2, <3>3, <3>4
  <2> QED
    BY <2>1, <2>2
<1> QED
  BY <1>2, <1>3 DEF GatewayInv

\* And so does shutdown, which drains between closing the servers and the exit.
LEMMA ShutdownStep ==
  ASSUME GatewayInv, Shutdown \/ BeginDrain \/ EndDrain \/ Close
  PROVE  GatewayInv'
BY DEF Shutdown, BeginDrain, EndDrain, Close, GatewayInv, ControlAgrees, TypeOK, DrainInv, Pending,
       Late, controlVars, requestVars

\* GatewayInv is an inductive invariant.
THEOREM GatewayInvariance == Spec => []GatewayInv
<1>1. GatewayInv /\ [Next]_vars => GatewayInv'
  <2> SUFFICES ASSUME GatewayInv, [Next]_vars PROVE GatewayInv'
    OBVIOUS
  <2>1. CASE Next
    BY <2>1, RequestStep, CaptureStep, ControlStep, ShutdownStep DEF Next
  <2>2. CASE UNCHANGED vars
    BY <2>2 DEF vars, requestVars, controlVars, shutdownVars, GatewayInv, ControlAgrees, TypeOK,
                DrainInv, Pending, Late
  <2> QED
    BY <2>1, <2>2
<1> QED
  BY InitInv, <1>1, PTL DEF Spec

\* What the control API reports is what the gateway does or will do, however
\* many pause and resume calls overlap.
THEOREM StatusAndGateAgree == Spec => []ControlAgrees
<1>1. GatewayInv => ControlAgrees
  BY DEF GatewayInv
<1> QED
  BY GatewayInvariance, <1>1, PTL

\* The exit of the process cuts off late captures only.
THEOREM NoEarlyCaptureIsCutOff == Spec => []DrainedBeforeClose
<1>1. GatewayInv => DrainedBeforeClose
  BY DEF GatewayInv, DrainInv, DrainedBeforeClose, Late
<1> QED
  BY GatewayInvariance, <1>1, PTL

HIDE ViaAssumption
HIDE MaxControlAssumption

----------------------------------------------------------------------------
(* The session labeler.                                                    *)

USE ViewsAssumption, MaxSessionsAssumption, BoundsAssumption

\* Where a session is that still has work to do or may get some.
Live == {"open", "waiting", "asking"}

\* The types of the sessions and of what was captured.
SessionTypeOK ==
  /\ classifier \in BOOLEAN
  /\ ingested \in Seq([key : Keys, view : Views, home : Ids])
  /\ open \in [Keys -> {0} \cup Ids]
  /\ session \in [Ids -> Live \cup {"none", "done"}]
  /\ chain \in [Ids -> Seq(Ids)]
  /\ at \in [Ids -> {"idle", "settling", "asking"}]
  /\ lastSeen \in [Ids -> 0..MaxExchanges]
  /\ restarts \in Nat /\ failures \in Nat /\ restarts + failures <= MaxTroubles

\* The types of what is counted and written.
RowTypeOK ==
  /\ judged \in [Ids -> {0} \cup Ids] /\ pending \in [Ids -> {0} \cup Ids]
  /\ labels \in [Ids -> {NoLabels, Plain, Unit, NoReply} \cup {VerdictOf(r) : r \in Ids}]
  /\ exchanges \in [Ids -> Nat]
  /\ saved \in [Keys -> [closed : BOOLEAN, exchanges : Nat]]

\* A key's open session is its own, and there are no more than may be.
OpenInv ==
  /\ IsFiniteSet(OpenKeys) /\ Cardinality(OpenKeys) <= MaxSessions
  /\ \A k \in OpenKeys : open[k] \in Captured /\ KeyOf(open[k]) = k /\ session[open[k]] = "open"
  /\ \A s \in Captured : session[s] = "open" => open[KeyOf(s)] = s

\* An exchange belongs to a session of its key that was opened no later.
HomesInv ==
  /\ Len(ingested) <= MaxExchanges
  /\ \A x \in Captured :
       /\ ingested[x].home \in 1..x /\ KeyOf(ingested[x].home) = ingested[x].key
  /\ \A s \in Ids \ Captured : session[s] = "none" /\ chain[s] = <<>> /\ at[s] = "idle"

\* Whether x is still to be labelled on s.
Queued(s, x) == \E i \in 1..Len(chain[s]) : chain[s][i] = x

\* A queue holds exchanges of its session in the order of capture, and all of
\* the session's exchanges that are not in it came before.
QueueInv(s) ==
  /\ \A i \in 1..Len(chain[s]) : chain[s][i] \in Captured /\ ingested[chain[s][i]].home = s
  /\ \A i, j \in 1..Len(chain[s]) : i < j => chain[s][i] < chain[s][j]
  /\ \A x \in Captured : ingested[x].home = s /\ ~Queued(s, x) =>
        \A i \in 1..Len(chain[s]) : x < chain[s][i]
  /\ at[s] # "idle" => chain[s] # <<>>
  /\ chain[s] # <<>> => session[s] \in {"open", "waiting"}

\* The first layer: sessions and their queues.
ChainsInv == SessionTypeOK /\ OpenInv /\ HomesInv /\ \A s \in Ids : QueueInv(s)

\* t is a claim of session s that none of those processed since has superseded.
Waits(s, t) ==
  /\ t \in Captured /\ ingested[t].home = s /\ ingested[t].view.claim /\ labels[t] = Unit
  /\ \A x \in Captured : ingested[x].home = s /\ t < x /\ ~Queued(s, x) => ~Supersedes(x)

\* What a session knows of the claim that waits, before and while it is judged.
ClaimInv(s) ==
  /\ \A i \in 1..Len(chain[s]) : labels[chain[s][i]] = NoLabels
  /\ \A t \in Ids : pending[s] = t => Waits(s, t)
  /\ at[s] = "settling" => /\ judged[s] # 0 /\ pending[s] = 0
                           /\ ingested[Head(chain[s])].view.request
                           /\ \A t \in Ids : judged[s] = t => Waits(s, t)
  /\ at[s] = "asking" /\ ingested[Head(chain[s])].view.request => pending[s] = 0

\* The verdict on t is about the reply r, and whatever is processed from now on
\* came later.
Replied(t, r) ==
  /\ ingested[t].view.claim
  /\ r \in Captured /\ t < r /\ ingested[r].home = ingested[t].home /\ ingested[r].view.request
  /\ \A x \in Captured : t < x /\ x < r /\ ingested[x].home = ingested[t].home => ~Supersedes(x)
  /\ \A i \in 1..Len(chain[ingested[t].home]) : r <= chain[ingested[t].home][i]

\* There was no reply to t, and there cannot be one any more.
Unreplied(t) ==
  /\ ingested[t].view.claim
  /\ session[ingested[t].home] \in {"asking", "done"}
  /\ \A x \in Captured : t < x /\ ingested[x].home = ingested[t].home => ~Supersedes(x)

\* What the labels of t say of the words that followed.
VerdictInv(t) ==
  /\ \A r \in Ids : labels[t] = VerdictOf(r) => Replied(t, r)
  /\ labels[t] = NoReply => Unreplied(t)

\* The second layer: what is written, and what will be, of the claims.
WordsInv ==
  /\ RowTypeOK
  /\ \A s \in Ids : ClaimInv(s)
  /\ \A e \in Ids \ Captured : labels[e] = NoLabels /\ pending[e] = 0
  /\ \A t \in Captured : VerdictInv(t)

\* Whether the first exchange of the queue is counted already.
Begun(s) == IF at[s] = "idle" THEN 0 ELSE 1

\* The third layer: what was counted and what is queued are exchanges of the key.
CountInv ==
  /\ \A k \in Keys : saved[k].exchanges <= Cardinality(ExchangesOf(k))
  /\ \A s \in Captured : \A k \in Keys : KeyOf(s) = k =>
       exchanges[s] + Len(chain[s]) <= Cardinality(ExchangesOf(k)) + Begun(s)
  /\ \A s \in Ids \ Captured : exchanges[s] = 0

\* The exchanges of a key that have labels.
Labelled(k) == {e \in ExchangesOf(k) : labels[e] # NoLabels}

\* A key has one session at most with work to do.
OnePerKey ==
  \A s, u \in Captured : session[s] \in Live /\ session[u] \in Live /\ KeyOf(s) = KeyOf(u) => s = u

\* Each restart lost one exchange at most: by what its rollup says, and by what
\* its session counted.
RowsInv ==
  /\ \A k \in Keys : Cardinality(Labelled(k)) <= saved[k].exchanges + restarts
  /\ \A s \in Captured : \A k \in Keys : session[s] \in Live /\ KeyOf(s) = k =>
       Cardinality(Labelled(k)) + Begun(s) <= exchanges[s] + restarts

\* Each restart loses one exchange at most, as long as sessions do not overlap.
LossInv == ~classifier => OnePerKey /\ (failures = 0 => RowsInv)

----------------------------------------------------------------------------
\* What is left of a queue without its head.
LEMMA TailOfQueue ==
  ASSUME NEW S, NEW q \in Seq(S), q # <<>>
  PROVE  /\ Len(q) \in Nat \ {0} /\ Head(q) = q[1] /\ Head(q) \in S
         /\ Tail(q) \in Seq(S) /\ Len(Tail(q)) = Len(q) - 1
         /\ \A i \in 1..Len(Tail(q)) : Tail(q)[i] = q[i + 1] /\ i + 1 \in 1..Len(q)
<1>1. Len(q) \in Nat \ {0}
  BY EmptySeq
<1> QED
  BY <1>1, HeadTailProperties

\* A queue with another exchange at its end.
LEMMA EndOfQueue ==
  ASSUME NEW S, NEW q \in Seq(S), NEW x \in S
  PROVE  /\ Append(q, x) \in Seq(S) /\ Append(q, x) # <<>>
         /\ Len(Append(q, x)) = Len(q) + 1 /\ Len(q) \in Nat
         /\ \A i \in 1..Len(q) : Append(q, x)[i] = q[i]
         /\ Append(q, x)[Len(q) + 1] = x
<1>1. Append(q, x) # <<>>
  BY AppendProperties
<1> QED
  BY <1>1, AppendProperties, LenProperties

\* A captured exchange is one of those that can be.
LEMMA CapturedIds ==
  ASSUME SessionTypeOK, HomesInv
  PROVE  /\ Len(ingested) \in Nat /\ Captured \subseteq Ids
         /\ \A x \in Captured : ingested[x] \in [key : Keys, view : Views, home : Ids]
<1>1. Len(ingested) \in Nat
  BY LenProperties DEF SessionTypeOK
<1>2. \A x \in Captured : ingested[x] \in [key : Keys, view : Views, home : Ids]
  BY <1>1, ElementOfSeq DEF SessionTypeOK, Captured
<1> QED
  BY <1>1, <1>2 DEF HomesInv, Captured, Ids

\* What an exchange that is captured changes: it comes last, and it is queued on
\* the session that is open for its key, or opens one.
Capturing(e, k, view, h) ==
  /\ e \in Ids /\ e \in Nat /\ e = Len(ingested) + 1 /\ e \notin Captured /\ h \in Ids
  /\ Captured' = Captured \cup {e}
  /\ ingested' \in Seq([key : Keys, view : Views, home : Ids]) /\ Len(ingested') = e
  /\ ingested'[e] = [key |-> k, view |-> view, home |-> h]
  /\ \A x \in Captured : ingested'[x] = ingested[x] /\ x \in Nat /\ x < e
  /\ chain' = [chain EXCEPT ![h] = Append(@, e)] /\ chain' \in [Ids -> Seq(Ids)]
  /\ lastSeen' = [lastSeen EXCEPT ![h] = e]
  /\ UNCHANGED <<classifier, at, judged, pending, rowVars, boundVars>>

LEMMA QueueShape ==
  ASSUME ChainsInv, NEW k \in Keys, NEW view \in Views, NEW h \in Ids, NEW e,
         e = Len(ingested) + 1, e \in Ids, Queue(e, k, view, h)
  PROVE  Capturing(e, k, view, h)
<1> DEFINE new == [key |-> k, view |-> view, home |-> h]
<1>1. /\ Len(ingested) \in Nat /\ Captured \subseteq Ids
      /\ ingested \in Seq([key : Keys, view : Views, home : Ids])
      /\ new \in [key : Keys, view : Views, home : Ids]
  BY CapturedIds DEF ChainsInv, SessionTypeOK
<1>2. ingested' = Append(ingested, new)
  BY DEF Queue
<1> HIDE DEF new
<1>3. /\ ingested' \in Seq([key : Keys, view : Views, home : Ids]) /\ Len(ingested') = e
      /\ ingested'[e] = new /\ \A x \in 1..Len(ingested) : ingested'[x] = ingested[x]
  BY <1>1, <1>2, EndOfQueue
<1>4. /\ Captured' = Captured \cup {e} /\ e \notin Captured /\ e \in Nat
      /\ \A x \in Captured : x \in Nat /\ x < e
  BY <1>1, <1>3 DEF Captured
<1>5. chain' = [chain EXCEPT ![h] = Append(@, e)] /\ chain' \in [Ids -> Seq(Ids)]
  <2>1. chain \in [Ids -> Seq(Ids)] /\ chain' = [chain EXCEPT ![h] = Append(@, e)]
    BY DEF ChainsInv, SessionTypeOK, Queue
  <2>2. Append(chain[h], e) \in Seq(Ids)
    BY <2>1, EndOfQueue
  <2> QED
    BY <2>1, <2>2
<1> QED
  BY <1>3, <1>4, <1>5 DEF Captured, Capturing, Queue, new

\* It is the last one in the queue of its session.
LEMMA CapturedQueues ==
  ASSUME ChainsInv, NEW k \in Keys, NEW view \in Views, NEW h \in Ids, NEW e,
         Capturing(e, k, view, h), NEW s \in Ids,
         s = h => session'[s] = "open" /\ (chain[s] # <<>> \/ at[s] = "idle"),
         s # h => session'[s] = session[s] \/ (session[s] = "open" /\ session'[s] = "waiting")
  PROVE  QueueInv(s)'
<1>1. CASE s # h
  <2>1. chain'[s] = chain[s] /\ at'[s] = at[s]
    BY <1>1 DEF Capturing, ChainsInv, SessionTypeOK
  <2>2. \A x \in Captured' : x = e \/ (x \in Captured /\ ingested'[x] = ingested[x])
    BY DEF Capturing
  <2>3. ingested'[e].home # s
    BY <1>1 DEF Capturing
  <2>4. chain'[s] # <<>> => session'[s] \in {"open", "waiting"}
    BY <1>1, <2>1 DEF ChainsInv, QueueInv
  <2>5. \A i \in 1..Len(chain'[s]) : chain'[s][i] \in Captured' /\ ingested'[chain'[s][i]].home = s
    <3>1. \A i \in 1..Len(chain[s]) : chain[s][i] \in Captured /\ ingested[chain[s][i]].home = s
      BY DEF ChainsInv, QueueInv
    <3>2. \A x \in Captured : x \in Captured' /\ ingested'[x] = ingested[x]
      BY DEF Capturing
    <3> QED
      BY <2>1, <3>1, <3>2
  <2>6. \A x \in Captured' : ingested'[x].home = s /\ ~Queued(s, x)' =>
          \A i \in 1..Len(chain'[s]) : x < chain'[s][i]
    BY <2>1, <2>2, <2>3 DEF ChainsInv, QueueInv, Queued
  <2> QED
    BY <2>1, <2>4, <2>5, <2>6 DEF ChainsInv, QueueInv
<1>2. CASE s = h
  <2> DEFINE q == chain[s]
             p == chain'[s]
  <2>1. p = Append(q, e) /\ q \in Seq(Ids) /\ e \in Ids /\ at'[s] = at[s]
    BY <1>2 DEF Capturing, ChainsInv, SessionTypeOK
  <2>2. /\ p # <<>> /\ Len(p) = Len(q) + 1 /\ Len(q) \in Nat
        /\ \A i \in 1..Len(q) : p[i] = q[i]
        /\ p[Len(q) + 1] = e
    BY <2>1, EndOfQueue
  <2>3. \A i \in 1..Len(p) : i \in 1..Len(q) \/ i = Len(q) + 1
    BY <2>2
  <2>4. \A i \in 1..Len(q) : q[i] \in Captured /\ ingested[q[i]].home = s
    BY DEF ChainsInv, QueueInv
  <2>5. \A i \in 1..Len(p) : p[i] \in Captured' /\ ingested'[p[i]].home = s
    <3>1. \A i \in 1..Len(q) : p[i] \in Captured' /\ ingested'[p[i]].home = s
      BY <2>2, <2>4 DEF Capturing
    <3>2. p[Len(q) + 1] \in Captured' /\ ingested'[p[Len(q) + 1]].home = s
      BY <1>2, <2>2 DEF Capturing
    <3> QED
      BY <2>3, <3>1, <3>2
  <2>6. \A i, j \in 1..Len(p) : i < j => p[i] < p[j]
    <3> SUFFICES ASSUME NEW i \in 1..Len(p), NEW j \in 1..Len(p), i < j PROVE p[i] < p[j]
      OBVIOUS
    <3>1. i \in 1..Len(q)
      BY <2>2
    <3>2. CASE j \in 1..Len(q)
      BY <2>2, <3>1, <3>2 DEF ChainsInv, QueueInv
    <3>3. CASE j = Len(q) + 1
      BY <2>2, <2>4, <3>1, <3>3 DEF Capturing
    <3> QED
      BY <2>3, <3>2, <3>3
  <2>7. \A x \in Captured' : ingested'[x].home = s /\ ~Queued(s, x)' =>
          \A i \in 1..Len(p) : x < p[i]
    <3> SUFFICES ASSUME NEW x \in Captured', ingested'[x].home = s, ~Queued(s, x)',
                        NEW i \in 1..Len(p)
                 PROVE  x < p[i]
      OBVIOUS
    <3>1. \A j \in 1..Len(p) : p[j] # x
      BY DEF Queued
    <3>2. Len(q) + 1 \in 1..Len(p) /\ \A j \in 1..Len(q) : j \in 1..Len(p)
      BY <2>2
    <3>3. x # e /\ x \in Captured
      BY <2>2, <3>1, <3>2 DEF Capturing
    <3>4. ~Queued(s, x) /\ ingested[x].home = s
      BY <2>2, <3>1, <3>2, <3>3 DEF Queued, Capturing
    <3>5. CASE i \in 1..Len(q)
      BY <2>2, <3>3, <3>4, <3>5 DEF ChainsInv, QueueInv
    <3>6. CASE i = Len(q) + 1
      BY <2>2, <3>3, <3>6 DEF Capturing
    <3> QED
      BY <2>3, <3>5, <3>6
  <2>8. session'[s] = "open"
    BY <1>2
  <2> QED
    BY <2>2, <2>5, <2>6, <2>7, <2>8 DEF QueueInv
<1> QED
  BY <1>1, <1>2

\* What is open, by its session or by its key.
LEMMA OpenOnes ==
  ASSUME ChainsInv
  PROVE  /\ \A k \in Keys : open[k] \in Ids \cup {0}
         /\ \A k \in OpenKeys : /\ k \in Keys /\ open[k] \in Captured /\ open[k] \in Ids
                                /\ open[k] # 0 /\ KeyOf(open[k]) = k /\ session[open[k]] = "open"
<1>1. Captured \subseteq Ids
  BY CapturedIds DEF ChainsInv
<1> QED
  BY <1>1 DEF ChainsInv, SessionTypeOK, OpenInv, OpenKeys, Ids

\* The key whose session makes room, if one has to.
LEMMA RoomIsMade ==
  ASSUME ChainsInv, NEW k \in Keys \ OpenKeys, NEW gone \in Evicted
  PROVE  /\ gone = {} \/ \E j \in OpenKeys : gone = {j}
         /\ LET T == (OpenKeys \ gone) \cup {k}
            IN IsFiniteSet(T) /\ Cardinality(T) <= MaxSessions
<1>1. IsFiniteSet(OpenKeys) /\ Cardinality(OpenKeys) <= MaxSessions /\ Cardinality(OpenKeys) \in Nat
  BY FS_CardinalityType DEF ChainsInv, OpenInv
<1>2. CASE gone = {} /\ Cardinality(OpenKeys) < MaxSessions
  <2>1. (OpenKeys \ gone) \cup {k} = OpenKeys \cup {k}
    BY <1>2
  <2>2. /\ IsFiniteSet(OpenKeys \cup {k})
        /\ Cardinality(OpenKeys \cup {k}) = Cardinality(OpenKeys) + 1
    BY <1>1, FS_AddElement
  <2> QED
    BY <1>1, <1>2, <2>1, <2>2, MaxSessionsAssumption
<1>3. ASSUME NEW j \in OpenKeys, gone = {j}
      PROVE  LET T == (OpenKeys \ gone) \cup {k} IN IsFiniteSet(T) /\ Cardinality(T) <= MaxSessions
  <2> DEFINE R == OpenKeys \ {j}
  <2>1. IsFiniteSet(R) /\ Cardinality(R) = Cardinality(OpenKeys) - 1
    BY <1>1, FS_RemoveElement
  <2>2. k \notin R
    OBVIOUS
  <2> HIDE DEF R
  <2>3. IsFiniteSet(R \cup {k}) /\ Cardinality(R \cup {k}) = Cardinality(R) + 1
    BY <2>1, <2>2, FS_AddElement
  <2> QED
    BY <1>1, <1>3, <2>1, <2>3, MaxSessionsAssumption DEF R
<1>4. \/ gone = {} /\ Cardinality(OpenKeys) < MaxSessions
      \/ \E j \in OpenKeys : gone = {j}
  BY <1>1 DEF Evicted
<1> QED
  BY <1>2, <1>3, <1>4

\* An exchange belongs to a session that was opened no later, for the same key.
LEMMA HomesKept ==
  ASSUME ChainsInv, NEW k \in Keys, NEW view \in Views, NEW h \in Ids, NEW e,
         Capturing(e, k, view, h), h \in 1..e, ingested'[h].key = k
  PROVE  \A x \in Captured' :
           ingested'[x].home \in 1..x /\ ingested'[ingested'[x].home].key = ingested'[x].key
<1>1. ASSUME NEW x \in Captured
      PROVE  ingested'[x].home \in 1..x /\ ingested'[ingested'[x].home].key = ingested'[x].key
  <2>1. ingested'[x] = ingested[x]
    BY DEF Capturing
  <2>2. ingested[x].home \in 1..x /\ ingested[ingested[x].home].key = ingested[x].key
    BY DEF ChainsInv, HomesInv, KeyOf
  <2>3. ingested[x].home \in Captured
    BY <2>2, CapturedIds DEF Captured, ChainsInv
  <2>4. ingested'[ingested[x].home] = ingested[ingested[x].home]
    BY <2>3 DEF Capturing
  <2> QED
    BY <2>1, <2>2, <2>4
<1>2. ingested'[e].home \in 1..e /\ ingested'[ingested'[e].home].key = ingested'[e].key
  BY DEF Capturing
<1> QED
  BY <1>1, <1>2 DEF Capturing

\* What an exchange is captured for: a session that is open, or one that it opens.
LEMMA IngestShape ==
  ASSUME ChainsInv, NEW k \in Keys, NEW view \in Views,
         IngestKnown(k, view) \/ IngestNew(k, view)
  PROVE  \E h, e \in Ids :
           /\ Capturing(e, k, view, h)
           /\ \/ /\ h \in Captured /\ KeyOf(h) = k /\ session[h] = "open"
                 /\ exchanges' = exchanges /\ session' = session
              \/ /\ h = e /\ session[e] = "none" /\ open[k] = 0 /\ Undisturbed
                 /\ exchanges' = [exchanges EXCEPT ![e] = saved[k].exchanges]
                 /\ \A s \in Captured : session'[s] \in {session[s], "waiting"}
                                        /\ (session'[s] # session[s] => session[s] = "open")
<1>e. PICK e : e = Len(ingested) + 1
  OBVIOUS
<1>1. CASE IngestKnown(k, view)
  <2>h. PICK h : h = open[k]
    OBVIOUS
  <2>1. /\ k \in OpenKeys /\ e \in Ids /\ Queue(e, k, view, h)
        /\ UNCHANGED <<open, session, exchanges>>
    BY <1>1, <1>e, <2>h DEF IngestKnown, OpenKeys
  <2>2. h \in Ids /\ h \in Captured /\ KeyOf(h) = k /\ session[h] = "open"
    BY <2>1, <2>h, OpenOnes
  <2>3. Capturing(e, k, view, h)
    BY <2>1, <2>2, <1>e, QueueShape
  <2> QED
    BY <2>1, <2>2, <2>3
<1>2. CASE IngestNew(k, view)
  <2>1. /\ k \in Keys \ OpenKeys /\ e \in Ids /\ Queue(e, k, view, e) /\ open[k] = 0 /\ Undisturbed
        /\ exchanges' = [exchanges EXCEPT ![e] = saved[k].exchanges]
    BY <1>2, <1>e DEF IngestNew, OpenKeys
  <2>2. PICK gone \in Evicted :
          session' = [s \in Ids |-> IF s = e THEN "open"
                                    ELSE IF \E j \in gone : s = open[j] THEN "waiting"
                                    ELSE session[s]]
    BY <1>2, <1>e DEF IngestNew
  <2>3. Capturing(e, k, view, e)
    BY <2>1, <1>e, QueueShape
  <2>4. session[e] = "none" /\ e \notin Captured /\ Captured \subseteq Ids
    BY <2>3, CapturedIds DEF Capturing, ChainsInv, HomesInv
  <2>5. gone \subseteq OpenKeys
    <3>1. gone = {} \/ \E j \in OpenKeys : gone = {j}
      BY <2>1, RoomIsMade
    <3> QED
      BY <3>1
  <2>6. \A s \in Captured : session'[s] \in {session[s], "waiting"}
                            /\ (session'[s] # session[s] => session[s] = "open")
    BY <2>2, <2>4, <2>5, OpenOnes
  <2> QED
    BY <2>1, <2>3, <2>4, <2>6
<1> QED
  BY <1>1, <1>2

\* A captured exchange of a session that is open.
LEMMA KnownChains ==
  ASSUME ChainsInv, NEW k \in Keys, NEW view \in Views, IngestKnown(k, view)
  PROVE  ChainsInv'
<1>e. PICK e : e = Len(ingested) + 1
  OBVIOUS
<1>h. PICK h : h = open[k]
  OBVIOUS
<1>1. k \in OpenKeys /\ e \in Ids /\ Queue(e, k, view, h) /\ UNCHANGED <<open, session, exchanges>>
  BY <1>e, <1>h DEF IngestKnown, OpenKeys
<1>2. h \in Ids /\ h \in Captured /\ KeyOf(h) = k /\ session[h] = "open"
  BY <1>1, <1>h, OpenOnes
<1>3. Capturing(e, k, view, h)
  BY <1>1, <1>2, <1>e, QueueShape
<1>4. \A s \in Ids : QueueInv(s)'
  BY <1>1, <1>2, <1>3, CapturedQueues DEF ChainsInv, QueueInv
<1>5. SessionTypeOK'
  <2>1. e \in 0..MaxExchanges
    BY <1>1 DEF Ids
  <2> QED
    BY <1>1, <1>3, <2>1 DEF Capturing, ChainsInv, SessionTypeOK, boundVars
<1>6. OpenKeys' = OpenKeys
  BY <1>1 DEF OpenKeys
<1>7. OpenInv'
  <2>1. \A s \in Captured' : s = e \/ (s \in Captured /\ ingested'[s].key = KeyOf(s))
    BY <1>3 DEF Capturing, KeyOf
  <2>2. session[e] = "none"
    BY <1>1, <1>3 DEF Capturing, ChainsInv, HomesInv
  <2>3. \A j \in OpenKeys : open[j] \in Captured' /\ ingested'[open[j]].key = j
    BY <1>3, OpenOnes DEF Capturing, KeyOf
  <2>4. \A s \in Captured' : session'[s] = "open" => open'[ingested'[s].key] = s
    BY <1>1, <2>1, <2>2 DEF ChainsInv, OpenInv
  <2> QED
    BY <1>1, <1>6, <2>3, <2>4 DEF ChainsInv, OpenInv, KeyOf
<1>8. HomesInv'
  <2>1. \A x \in Captured' :
          ingested'[x].home \in 1..x /\ ingested'[ingested'[x].home].key = ingested'[x].key
    <3>1. h \in 1..e /\ ingested'[h].key = k
      <4>1. ingested'[h].key = k
        BY <1>2, <1>3 DEF Capturing, KeyOf
      <4>2. h \in 1..e
        <5>1. Len(ingested) \in Nat
          BY CapturedIds DEF ChainsInv
        <5> QED
          BY <1>2, <1>e, <5>1 DEF Captured
      <4> QED
        BY <4>1, <4>2
    <3> QED
      BY <1>2, <1>3, <3>1, HomesKept
  <2>4. \A s \in Ids \ Captured' : session'[s] = "none" /\ chain'[s] = <<>> /\ at'[s] = "idle"
    BY <1>1, <1>2, <1>3 DEF Capturing, ChainsInv, SessionTypeOK, HomesInv
  <2>5. Len(ingested') <= MaxExchanges
    BY <1>1, <1>3 DEF Capturing, Ids
  <2> QED
    BY <2>1, <2>4, <2>5 DEF HomesInv, KeyOf
<1> QED
  BY <1>4, <1>5, <1>7, <1>8 DEF ChainsInv

\* A captured exchange that opens a session, which may close another one.
LEMMA NewChains ==
  ASSUME ChainsInv, NEW k \in Keys, NEW view \in Views, IngestNew(k, view)
  PROVE  ChainsInv'
<1>e. PICK e : e = Len(ingested) + 1
  OBVIOUS
<1>1. k \in Keys \ OpenKeys /\ e \in Ids /\ Queue(e, k, view, e)
  BY <1>e DEF IngestNew, OpenKeys
<1>2. PICK gone \in Evicted :
        /\ open' = [j \in Keys |-> IF j = k THEN e ELSE IF j \in gone THEN 0 ELSE open[j]]
        /\ session' = [s \in Ids |-> IF s = e THEN "open"
                                     ELSE IF \E j \in gone : s = open[j] THEN "waiting"
                                     ELSE session[s]]
  BY <1>e DEF IngestNew
<1>3. Capturing(e, k, view, e)
  BY <1>1, <1>e, QueueShape
<1>4. gone \subseteq OpenKeys /\ e \notin Captured /\ e # 0
  <2>1. gone = {} \/ \E j \in OpenKeys : gone = {j}
    BY <1>1, <1>2, RoomIsMade
  <2> QED
    BY <1>1, <1>3, <2>1 DEF Capturing, Ids
<1>5. \A s \in Ids : /\ s = e => session'[s] = "open"
                     /\ s # e => session'[s] = session[s]
                                 \/ (session[s] = "open" /\ session'[s] = "waiting")
  BY <1>2, <1>4, OpenOnes
<1>6. \A s \in Ids : QueueInv(s)'
  BY <1>1, <1>3, <1>4, <1>5, CapturedQueues DEF ChainsInv, HomesInv
<1>7. SessionTypeOK'
  <2>1. e \in 0..MaxExchanges
    BY <1>1 DEF Ids
  <2>2. open' \in [Keys -> {0} \cup Ids]
    BY <1>1, <1>2 DEF ChainsInv, SessionTypeOK
  <2>3. session' \in [Ids -> Live \cup {"none", "done"}]
    BY <1>2 DEF ChainsInv, SessionTypeOK, Live
  <2> QED
    BY <1>1, <1>3, <2>1, <2>2, <2>3 DEF Capturing, ChainsInv, SessionTypeOK, boundVars
<1>8. OpenInv'
  <2>1. OpenKeys' = (OpenKeys \ gone) \cup {k}
    BY <1>2, <1>4 DEF OpenKeys
  <2>2. IsFiniteSet(OpenKeys') /\ Cardinality(OpenKeys') <= MaxSessions
    BY <1>1, <1>2, <2>1, RoomIsMade
  <2>3. \A s \in Captured : s \in Ids /\ s # e /\ ingested'[s].key = KeyOf(s) /\ KeyOf(s) \in Keys
    BY <1>3, CapturedIds DEF Capturing, KeyOf, ChainsInv
  <2>4. ingested'[e].key = k
    BY <1>3 DEF Capturing, KeyOf
  <2>5. \A j \in OpenKeys \ gone : j # k => open'[j] = open[j] /\ session'[open[j]] = "open"
    <3>1. \A j \in OpenKeys, i \in gone : open[j] = open[i] => j = i
      BY <1>4, OpenOnes
    <3> QED
      BY <1>2, <2>3, <3>1, OpenOnes
  <2>6. open'[k] = e /\ session'[e] = "open" /\ e \in Captured' /\ Captured' = Captured \cup {e}
    BY <1>1, <1>2, <1>3 DEF Capturing
  <2>7. \A j \in OpenKeys' :
          open'[j] \in Captured' /\ ingested'[open'[j]].key = j /\ session'[open'[j]] = "open"
    BY <1>1, <2>1, <2>3, <2>4, <2>5, <2>6, OpenOnes
  <2>8. \A s \in Captured' : session'[s] = "open" => open'[ingested'[s].key] = s
    <3> SUFFICES ASSUME NEW s \in Captured, session'[s] = "open" PROVE open'[KeyOf(s)] = s
      BY <2>3, <2>4, <2>6
    <3>1. session[s] = "open" /\ ~\E j \in gone : s = open[j]
      BY <1>2, <2>3
    <3>2. open[KeyOf(s)] = s /\ KeyOf(s) \in OpenKeys
      BY <2>3, <3>1 DEF ChainsInv, OpenInv, OpenKeys, Ids
    <3> QED
      BY <1>1, <1>2, <2>3, <3>1, <3>2
  <2> QED
    BY <2>2, <2>7, <2>8 DEF OpenInv, KeyOf
<1>9. HomesInv'
  <2>1. \A x \in Captured' :
          ingested'[x].home \in 1..x /\ ingested'[ingested'[x].home].key = ingested'[x].key
    <3>1. e \in 1..e /\ ingested'[e].key = k
      BY <1>3 DEF Capturing, Ids
    <3> QED
      BY <1>1, <1>3, <3>1, HomesKept
  <2>4. \A s \in Ids \ Captured' : session'[s] = "none" /\ chain'[s] = <<>> /\ at'[s] = "idle"
    BY <1>3, <1>5 DEF Capturing, ChainsInv, SessionTypeOK, HomesInv
  <2>5. Len(ingested') <= MaxExchanges
    BY <1>1, <1>3 DEF Capturing, Ids
  <2> QED
    BY <2>1, <2>4, <2>5 DEF HomesInv, KeyOf
<1> QED
  BY <1>6, <1>7, <1>8, <1>9 DEF ChainsInv

\* The queue of a session that is left alone, or closes.
LEMMA QueueSame ==
  ASSUME ChainsInv, NEW s \in Ids, ingested' = ingested, chain'[s] = chain[s],
         at'[s] = at[s] \/ chain[s] # <<>>,
         session'[s] \in {session[s], "waiting"} \/ chain[s] = <<>>
  PROVE  QueueInv(s)'
<1>1. Captured' = Captured
  BY DEF Captured
<1>2. /\ at'[s] # "idle" => chain'[s] # <<>>
      /\ chain'[s] # <<>> => session'[s] \in {"open", "waiting"}
  BY DEF ChainsInv, QueueInv
<1> QED
  BY <1>1, <1>2 DEF ChainsInv, QueueInv, Queued

\* The queue of a session whose first exchange is through.
LEMMA QueueShortens ==
  ASSUME ChainsInv, NEW s \in Ids, ingested' = ingested, session' = session,
         chain[s] # <<>>, chain'[s] = Tail(chain[s]), at'[s] = "idle"
  PROVE  QueueInv(s)'
<1>q. PICK q : q = chain[s]
  OBVIOUS
<1>p. PICK p : p = Tail(q)
  OBVIOUS
<1>1. q \in Seq(Ids) /\ q # <<>> /\ chain'[s] = p
  BY <1>q, <1>p DEF ChainsInv, SessionTypeOK
<1>2. /\ Len(q) \in Nat \ {0} /\ Head(q) = q[1] /\ Len(p) = Len(q) - 1
      /\ \A i \in 1..Len(p) : p[i] = q[i + 1] /\ i + 1 \in 1..Len(q)
  BY <1>1, <1>p, TailOfQueue
<1>3. /\ \A i \in 1..Len(q) : q[i] \in Captured /\ ingested[q[i]].home = s
      /\ \A i, j \in 1..Len(q) : i < j => q[i] < q[j]
      /\ \A x \in Captured : ingested[x].home = s /\ ~Queued(s, x) =>
            \A i \in 1..Len(q) : x < q[i]
      /\ session[s] \in {"open", "waiting"}
  BY <1>1, <1>q DEF ChainsInv, QueueInv
<1>4. Captured' = Captured
  BY DEF Captured
<1>5. \A i \in 1..Len(p) : p[i] \in Captured /\ ingested[p[i]].home = s
  BY <1>2, <1>3
<1>6. \A i, j \in 1..Len(p) : i < j => p[i] < p[j]
  <2> SUFFICES ASSUME NEW i \in 1..Len(p), NEW j \in 1..Len(p), i < j PROVE p[i] < p[j]
    OBVIOUS
  <2>1. i + 1 \in 1..Len(q) /\ j + 1 \in 1..Len(q) /\ i + 1 < j + 1
    BY <1>2
  <2> QED
    BY <1>2, <1>3, <2>1
<1>7. \A x \in Captured : ingested[x].home = s /\ ~Queued(s, x)' => \A i \in 1..Len(p) : x < p[i]
  <2> SUFFICES ASSUME NEW x \in Captured, ingested[x].home = s, ~Queued(s, x)',
                      NEW i \in 1..Len(p)
               PROVE  x < p[i]
    OBVIOUS
  <2>1. i + 1 \in 1..Len(q) /\ p[i] = q[i + 1] /\ 1 \in 1..Len(q) /\ 1 < i + 1
    BY <1>2
  <2>2. CASE ~Queued(s, x)
    BY <1>3, <2>1, <2>2
  <2>3. CASE Queued(s, x)
    <3>1. PICK j \in 1..Len(q) : q[j] = x
      BY <1>q, <2>3 DEF Queued
    <3>2. ~\E n \in 1..Len(p) : p[n] = x
      BY <1>1 DEF Queued
    <3>3. j = 1
      <4>1. j - 1 \in 1..Len(p) => p[j - 1] = q[(j - 1) + 1]
        BY <1>2
      <4>2. (j - 1) + 1 = j
        OBVIOUS
      <4>3. j # 1 => j - 1 \in 1..Len(p)
        BY <1>2
      <4> QED
        BY <3>1, <3>2, <4>1, <4>2, <4>3
    <3> QED
      BY <1>3, <2>1, <3>1, <3>3
  <2> QED
    BY <2>2, <2>3
<1> QED
  BY <1>1, <1>3, <1>4, <1>5, <1>6, <1>7 DEF QueueInv

\* Another trouble stays within their bound.
LEMMA TroubleTypes ==
  ASSUME SessionTypeOK, restarts' = restarts,
         failures' = failures \/ (failures' = failures + 1 /\ restarts + failures < MaxTroubles)
  PROVE  restarts' \in Nat /\ failures' \in Nat /\ restarts' + failures' <= MaxTroubles
<1>1. restarts \in Nat /\ failures \in Nat /\ restarts + failures <= MaxTroubles
  BY DEF SessionTypeOK
<1> QED
  BY <1>1, BoundsAssumption

\* Labelling leaves the sessions as they are.
LEMMA StepChains ==
  ASSUME ChainsInv, NEW s \in Ids, ProcessStep(s)
  PROVE  ChainsInv'
<1>1. UNCHANGED <<classifier, ingested, open, session>>
  BY DEF ProcessStep, Begin, Settle, Record, LabelsRejected, RollupRejected, Rejected
<1>2. /\ chain[s] # <<>>
      /\ \/ chain' = chain /\ \E a \in {"settling", "asking"} : at' = [at EXCEPT ![s] = a]
         \/ chain' = [chain EXCEPT ![s] = Tail(@)] /\ at' = [at EXCEPT ![s] = "idle"]
  <2>1. at[s] # "idle" => chain[s] # <<>>
    BY DEF ChainsInv, QueueInv
  <2> QED
    BY <2>1 DEF ProcessStep, Begin, Settle, Record, LabelsRejected, RollupRejected, Rejected
<1>3. \A u \in Ids : /\ u # s => chain'[u] = chain[u] /\ at'[u] = at[u]
                     /\ \/ chain'[s] = chain[s]
                        \/ chain'[s] = Tail(chain[s]) /\ at'[s] = "idle"
  BY <1>2 DEF ChainsInv, SessionTypeOK
<1>4. \A u \in Ids : QueueInv(u)'
  BY <1>1, <1>2, <1>3, QueueSame, QueueShortens
<1>5. SessionTypeOK'
  <2>1. chain' \in [Ids -> Seq(Ids)]
    <3>1. chain[s] \in Seq(Ids) /\ Tail(chain[s]) \in Seq(Ids)
      BY <1>2, TailOfQueue DEF ChainsInv, SessionTypeOK
    <3> QED
      BY <1>2, <3>1 DEF ChainsInv, SessionTypeOK
  <2>2. at' \in [Ids -> {"idle", "settling", "asking"}]
    BY <1>2 DEF ChainsInv, SessionTypeOK
  <2>3. lastSeen' = lastSeen \/ lastSeen' = [lastSeen EXCEPT ![s] = Len(ingested)]
    BY DEF ProcessStep, Begin, Settle, Record, LabelsRejected, RollupRejected
  <2>4. Len(ingested) \in 0..MaxExchanges
    BY LenProperties DEF ChainsInv, SessionTypeOK, HomesInv
  <2>5. lastSeen' \in [Ids -> 0..MaxExchanges]
    BY <2>3, <2>4 DEF ChainsInv, SessionTypeOK
  <2>6. /\ restarts' = restarts
        /\ \/ failures' = failures
           \/ failures' = failures + 1 /\ restarts + failures < MaxTroubles
    BY DEF ProcessStep, Begin, Settle, Record, LabelsRejected, RollupRejected, Rejected, boundVars
  <2>7. restarts' \in Nat /\ failures' \in Nat /\ restarts' + failures' <= MaxTroubles
    BY <2>6, TroubleTypes DEF ChainsInv
  <2> QED
    BY <1>1, <2>1, <2>2, <2>5, <2>7 DEF ChainsInv, SessionTypeOK
<1>6. OpenInv'
  BY <1>1 DEF ChainsInv, OpenInv, OpenKeys, KeyOf, Captured
<1>7. HomesInv'
  <2>1. s \in Captured
    BY <1>2 DEF ChainsInv, HomesInv
  <2> QED
    BY <1>1, <1>3, <2>1 DEF ChainsInv, HomesInv, KeyOf, Captured
<1> QED
  BY <1>4, <1>5, <1>6, <1>7 DEF ChainsInv

\* A session begins or goes on to close, or the process starts again.
LEMMA CloseChains ==
  ASSUME ChainsInv, \/ \E s \in Ids : CloseStep(s)
                    \/ \E k \in Keys : CloseIdle(k)
  PROVE  ChainsInv'
<1>1. UNCHANGED <<classifier, ingested, chain, at>>
  BY DEF CloseStep, CloseSettles, CloseEnds, CloseRejected, CloseIdle
<1>2. PICK s \in Ids, place \in {"waiting", "asking", "done"} :
        /\ session' = [session EXCEPT ![s] = place] /\ session[s] \in Live
        /\ lastSeen' \in {lastSeen, [lastSeen EXCEPT ![s] = 0]}
        /\ \/ open' = open /\ session[s] # "open" /\ chain[s] = <<>>
           \/ \E k \in OpenKeys : open[k] = s /\ open' = [open EXCEPT ![k] = 0] /\ place = "waiting"
  <2>1. CASE \E k \in Keys : CloseIdle(k)
    BY <2>1, OpenOnes DEF CloseIdle, Live, OpenKeys
  <2>2. ASSUME NEW s \in Ids, CloseStep(s)
        PROVE  \E place \in {"waiting", "asking", "done"} :
                 /\ session' = [session EXCEPT ![s] = place] /\ session[s] \in Live
                 /\ lastSeen' \in {lastSeen, [lastSeen EXCEPT ![s] = 0]}
                 /\ open' = open /\ session[s] # "open" /\ chain[s] = <<>>
    <3>1. session[s] = "asking" => chain[s] = <<>>
      BY DEF ChainsInv, QueueInv
    <3> QED
      BY <2>2, <3>1 DEF CloseStep, CloseSettles, CloseEnds, CloseRejected, Dropped, Live
  <2> QED
    BY <2>1, <2>2
<1>3. \A u \in Ids : QueueInv(u)'
  BY <1>1, <1>2, QueueSame DEF ChainsInv, SessionTypeOK
<1>4. SessionTypeOK'
  <2>1. /\ open' \in [Keys -> {0} \cup Ids] /\ session' \in [Ids -> Live \cup {"none", "done"}]
    BY <1>2 DEF ChainsInv, SessionTypeOK, Live
  <2>2. lastSeen' \in [Ids -> 0..MaxExchanges]
    <3>1. 0 \in 0..MaxExchanges
      BY BoundsAssumption
    <3> QED
      BY <1>2, <3>1 DEF ChainsInv, SessionTypeOK
  <2>3. /\ restarts' = restarts
        /\ \/ failures' = failures
           \/ failures' = failures + 1 /\ restarts + failures < MaxTroubles
    BY DEF CloseStep, CloseSettles, CloseEnds, CloseRejected, CloseIdle, boundVars
  <2>4. restarts' \in Nat /\ failures' \in Nat /\ restarts' + failures' <= MaxTroubles
    BY <2>3, TroubleTypes DEF ChainsInv
  <2> QED
    BY <1>1, <2>1, <2>2, <2>4 DEF ChainsInv, SessionTypeOK
<1>5. s \in Captured
  BY <1>2 DEF ChainsInv, HomesInv, Live
<1>6. Captured' = Captured
  BY <1>1 DEF Captured
<1>7. HomesInv'
  BY <1>1, <1>2, <1>5, <1>6 DEF ChainsInv, SessionTypeOK, HomesInv, KeyOf
<1>8. OpenInv'
  <2>1. CASE open' = open /\ session[s] # "open" /\ chain[s] = <<>>
    <3>1. OpenKeys' = OpenKeys
      BY <2>1 DEF OpenKeys
    <3>2. \A k \in OpenKeys : session'[open[k]] = "open"
      BY <1>2, <2>1, OpenOnes DEF ChainsInv, SessionTypeOK
    <3>3. \A u \in Captured : session'[u] = "open" => session[u] = "open"
      BY <1>2, <2>1, CapturedIds DEF ChainsInv, SessionTypeOK
    <3> QED
      BY <1>1, <1>6, <2>1, <3>1, <3>2, <3>3 DEF ChainsInv, OpenInv, KeyOf
  <2>2. ASSUME NEW k \in OpenKeys, open[k] = s, open' = [open EXCEPT ![k] = 0],
               session' = [session EXCEPT ![s] = "waiting"]
        PROVE  OpenInv'
    <3>1. OpenKeys' = OpenKeys \ {k}
      BY <2>2 DEF OpenKeys, ChainsInv, SessionTypeOK
    <3>2. IsFiniteSet(OpenKeys') /\ Cardinality(OpenKeys') <= MaxSessions
      <4>1. /\ IsFiniteSet(OpenKeys) /\ Cardinality(OpenKeys) <= MaxSessions
            /\ Cardinality(OpenKeys) \in Nat
        BY FS_CardinalityType DEF ChainsInv, OpenInv
      <4>2. IsFiniteSet(OpenKeys \ {k}) /\ Cardinality(OpenKeys \ {k}) = Cardinality(OpenKeys) - 1
        BY <4>1, FS_RemoveElement
      <4> QED
        BY <3>1, <4>1, <4>2, MaxSessionsAssumption
    <3>3. \A j \in OpenKeys \ {k} : open'[j] = open[j] /\ open[j] # s
      BY <2>2, OpenOnes DEF ChainsInv, SessionTypeOK
    <3>4. \A j \in OpenKeys' : /\ open'[j] \in Captured /\ ingested[open'[j]].key = j
                               /\ session'[open'[j]] = "open"
      BY <2>2, <3>1, <3>3, OpenOnes DEF ChainsInv, SessionTypeOK, KeyOf
    <3>5. \A u \in Captured : session'[u] = "open" => session[u] = "open" /\ u # s
      BY <2>2, CapturedIds DEF ChainsInv, SessionTypeOK
    <3>6. \A u \in Captured : session'[u] = "open" => open'[ingested[u].key] = u
      <4> SUFFICES ASSUME NEW u \in Captured, session'[u] = "open"
                   PROVE  open'[ingested[u].key] = u
        OBVIOUS
      <4>1. u # s /\ open[ingested[u].key] = u /\ ingested[u].key \in Keys
        BY <3>5, CapturedIds DEF ChainsInv, OpenInv, KeyOf
      <4> QED
        BY <2>2, <4>1 DEF ChainsInv, SessionTypeOK
    <3> QED
      BY <1>1, <1>6, <3>2, <3>4, <3>6 DEF OpenInv, KeyOf
  <2> QED
    BY <1>2, <2>1, <2>2
<1> QED
  BY <1>3, <1>4, <1>7, <1>8 DEF ChainsInv

\* The process starts again.
LEMMA RestartChains ==
  ASSUME ChainsInv, Restart
  PROVE  ChainsInv'
<1>1. /\ UNCHANGED <<classifier, ingested, failures>> /\ restarts' = restarts + 1
      /\ restarts + failures < MaxTroubles
      /\ open' = [k \in Keys |-> 0]
      /\ session' = [s \in Ids |-> IF session[s] = "none" THEN "none" ELSE "done"]
      /\ chain' = [s \in Ids |-> <<>>] /\ at' = [s \in Ids |-> "idle"]
      /\ lastSeen' = [s \in Ids |-> 0]
  BY DEF Restart
<1>2. Captured' = Captured /\ Captured \subseteq Ids
  BY <1>1, CapturedIds DEF Captured, ChainsInv
<1>3. SessionTypeOK'
  BY <1>1, BoundsAssumption DEF ChainsInv, SessionTypeOK, Live
<1>4. OpenInv'
  <2>1. OpenKeys' = {}
    BY <1>1 DEF OpenKeys
  <2> QED
    BY <1>1, <1>2, <2>1, FS_EmptySet, MaxSessionsAssumption DEF OpenInv
<1>5. HomesInv'
  BY <1>1, <1>2 DEF ChainsInv, HomesInv, KeyOf
<1>6. \A s \in Ids : QueueInv(s)'
  BY <1>1 DEF QueueInv
<1> QED
  BY <1>3, <1>4, <1>5, <1>6 DEF ChainsInv

\* Queues are in the order of capture and belong to their sessions, and no more
\* sessions are open than may be, whatever is captured, fails or starts again.
THEOREM ChainsAreInOrder == LabelerSpec => []ChainsInv
<1>1. LabelerInit => ChainsInv
  <2> SUFFICES ASSUME LabelerInit PROVE ChainsInv
    OBVIOUS
  <2>1. SessionTypeOK
    BY BoundsAssumption DEF LabelerInit, SessionTypeOK, Live
  <2>2. Captured = {}
    BY DEF LabelerInit, Captured
  <2>3. OpenKeys = {}
    BY DEF LabelerInit, OpenKeys
  <2>4. OpenInv
    BY <2>2, <2>3, FS_EmptySet, MaxSessionsAssumption DEF OpenInv
  <2>5. HomesInv
    BY <2>2, BoundsAssumption DEF LabelerInit, HomesInv
  <2>6. \A s \in Ids : QueueInv(s)
    BY DEF LabelerInit, QueueInv
  <2> QED
    BY <2>1, <2>4, <2>5, <2>6 DEF ChainsInv
<1>2. ChainsInv /\ [LabelerNext]_labelerVars => ChainsInv'
  <2> SUFFICES ASSUME ChainsInv, [LabelerNext]_labelerVars PROVE ChainsInv'
    OBVIOUS
  <2>1. CASE UNCHANGED labelerVars
    <3>1. UNCHANGED <<classifier, ingested, open, session, chain, at, lastSeen, restarts, failures>>
      BY <2>1 DEF labelerVars, sessionVars, boundVars
    <3>2. SessionTypeOK'
      BY <3>1 DEF ChainsInv, SessionTypeOK
    <3>3. OpenInv'
      BY <3>1 DEF ChainsInv, OpenInv, OpenKeys, KeyOf, Captured
    <3>4. HomesInv'
      BY <3>1 DEF ChainsInv, HomesInv, KeyOf, Captured
    <3>5. \A s \in Ids : QueueInv(s)'
      BY <3>1, QueueSame DEF ChainsInv
    <3> QED
      BY <3>2, <3>3, <3>4, <3>5 DEF ChainsInv
  <2>2. CASE LabelerNext
    BY <2>2, KnownChains, NewChains, StepChains, CloseChains, RestartChains DEF LabelerNext
  <2> QED
    BY <2>1, <2>2
<1> QED
  BY <1>1, <1>2, PTL DEF LabelerSpec

----------------------------------------------------------------------------
(* What the labels say.                                                    *)

\* The kinds of labels are told apart by their states.
LEMMA LabelKinds ==
  /\ \A r \in Ids : VerdictOf(r) \notin {NoLabels, Plain, Unit, NoReply}
  /\ \A r, u \in Ids : VerdictOf(r) = VerdictOf(u) => r = u
  /\ NoReply \notin {NoLabels, Plain, Unit} /\ Unit \notin {NoLabels, Plain} /\ Plain # NoLabels
BY DEF VerdictOf, NoLabels, Plain, Unit, NoReply

\* Exchanges captured earlier stay what they are.
Grows == Captured \subseteq Captured' /\ \A x \in Captured : ingested'[x] = ingested[x]

\* A label that is not written stays right: only exchanges that are queued get
\* their first label, and none is queued before the reply.
LEMMA VerdictStays ==
  ASSUME ChainsInv, NEW t \in Captured, VerdictInv(t), labels'[t] = labels[t], Grows,
         \A x \in Captured' \ Captured : session[ingested'[x].home] \in {"open", "none"},
         \A x \in Captured' \ Captured : x \in Nat /\ x > Len(ingested),
         \A x \in Captured :
           labels[x] = NoLabels => labels'[x] = NoLabels \/ Queued(ingested[x].home, x),
         \A s \in Ids : \A i \in 1..Len(chain'[s]) :
           \/ Queued(s, chain'[s][i])
           \/ chain'[s][i] \in Nat /\ chain'[s][i] > Len(ingested),
         \A s \in Ids : session[s] \in {"asking", "done"} => session'[s] \in {"asking", "done"}
  PROVE  VerdictInv(t)'
<1>p. PICK h \in Ids : h = ingested[t].home
  BY CapturedIds DEF ChainsInv
<1>0. /\ Len(ingested) \in Nat /\ Captured \subseteq Nat
      /\ t \in Captured' /\ ingested'[t] = ingested[t]
  BY CapturedIds DEF ChainsInv, Captured, Grows
<1>1. \A x \in Captured : ~Supersedes(x) /\ ~Queued(ingested[x].home, x) => ~Supersedes(x)'
  BY DEF Supersedes, Grows
<1>2. ASSUME NEW r \in Ids, labels'[t] = VerdictOf(r)
      PROVE  Replied(t, r)'
  <2>1. Replied(t, r)
    BY <1>2 DEF VerdictInv
  <2>2. r \in Captured /\ r \in Nat /\ r <= Len(ingested)
    BY <1>0, <2>1 DEF Replied, Captured
  <2>3. \A x \in Captured : Queued(h, x) => r <= x
    BY <1>p, <2>1 DEF Replied, Queued
  <2>4. \A i \in 1..Len(chain'[h]) : r <= chain'[h][i]
    <3> TAKE i \in 1..Len(chain'[h])
    <3>1. CASE Queued(h, chain'[h][i])
      <4>1. PICK y : y = chain'[h][i]
        OBVIOUS
      <4>2. Queued(h, y)
        BY <3>1, <4>1
      <4>3. y \in Captured
        BY <4>2 DEF Queued, ChainsInv, QueueInv
      <4> QED
        BY <2>3, <4>1, <4>2, <4>3
    <3>2. CASE chain'[h][i] \in Nat /\ chain'[h][i] > Len(ingested)
      BY <1>0, <2>2, <3>2
    <3> QED
      BY <3>1, <3>2
  <2>5. ASSUME NEW x \in Captured', t < x, x < r, ingested'[x].home = h
        PROVE  ~Supersedes(x)'
    <3>1. x \in Captured /\ ingested'[x] = ingested[x]
      BY <1>0, <2>2, <2>5 DEF Grows
    <3>2. ~Queued(h, x)
      BY <1>0, <2>2, <2>3, <2>5, <3>1
    <3>3. ~Supersedes(x)
      BY <1>p, <2>1, <2>5, <3>1 DEF Replied
    <3> QED
      BY <1>1, <2>5, <3>1, <3>2, <3>3
  <2> QED
    BY <1>p, <1>0, <2>1, <2>2, <2>4, <2>5 DEF Replied, Grows
<1>3. ASSUME labels'[t] = NoReply
      PROVE  Unreplied(t)'
  <2>1. Unreplied(t)
    BY <1>3 DEF VerdictInv
  <2>2. session[h] \in {"asking", "done"} /\ session'[h] \in {"asking", "done"}
    BY <1>p, <2>1 DEF Unreplied
  <2>3. \A x \in Captured : ~Queued(h, x)
    BY <2>2 DEF Queued, ChainsInv, QueueInv
  <2>4. ASSUME NEW x \in Captured', t < x, ingested'[x].home = h
        PROVE  ~Supersedes(x)'
    <3>1. x \in Captured /\ ingested'[x] = ingested[x]
      BY <2>2, <2>4 DEF Grows
    <3>2. ~Supersedes(x)
      BY <1>p, <2>1, <2>4, <3>1 DEF Unreplied
    <3> QED
      BY <1>1, <2>3, <2>4, <3>1, <3>2
  <2> QED
    BY <1>p, <1>0, <2>1, <2>2, <2>4 DEF Unreplied
<1> QED
  BY <1>2, <1>3 DEF VerdictInv

\* A claim goes on waiting while nothing that supersedes it is processed.
LEMMA WaitsOn ==
  ASSUME NEW s, NEW t, Waits(s, t), labels'[t] = Unit, Grows,
         \A x \in Captured' \ Captured : ingested'[x].home = s => Queued(s, x)',
         \A x \in Captured : ingested[x].home = s =>
           IF Queued(s, x) THEN Queued(s, x)' \/ ~Supersedes(x)'
           ELSE labels[x] = NoLabels => labels'[x] = NoLabels
  PROVE  Waits(s, t)'
<1>1. ASSUME NEW x \in Captured', ingested'[x].home = s, t < x, ~Queued(s, x)'
      PROVE  ~Supersedes(x)'
  <2>1. x \in Captured /\ ingested[x].home = s /\ ingested'[x] = ingested[x]
    BY <1>1 DEF Grows
  <2>2. CASE Queued(s, x)
    BY <1>1, <2>1, <2>2
  <2>3. CASE ~Queued(s, x)
    BY <1>1, <2>1, <2>3 DEF Waits, Supersedes
  <2> QED
    BY <2>2, <2>3
<1> QED
  BY <1>1 DEF Waits, Grows

\* A verdict that is not written stays right while nothing is captured.
LEMMA VerdictKept ==
  ASSUME ChainsInv, NEW t \in Captured, VerdictInv(t), labels'[t] = labels[t],
         ingested' = ingested,
         \A x \in Captured :
           labels[x] = NoLabels => labels'[x] = NoLabels \/ Queued(ingested[x].home, x),
         \A s \in Ids : \A i \in 1..Len(chain'[s]) : Queued(s, chain'[s][i]),
         \A s \in Ids : session[s] \in {"asking", "done"} => session'[s] \in {"asking", "done"}
  PROVE  VerdictInv(t)'
<1>1. Captured' = Captured /\ Grows
  BY DEF Captured, Grows
<1> QED
  BY <1>1, VerdictStays

\* What a session knows of its claim when another session is at work.
LEMMA OtherClaim ==
  ASSUME NEW s \in Ids, ClaimInv(s), ingested' = ingested,
         chain'[s] = chain[s], at'[s] = at[s], judged'[s] = judged[s], pending'[s] = pending[s],
         \A x \in Captured : ingested[x].home = s => labels'[x] = labels[x],
         \A i \in 1..Len(chain[s]) : chain[s][i] \in Captured /\ ingested[chain[s][i]].home = s
  PROVE  ClaimInv(s)'
<1>1. Captured' = Captured
  BY DEF Captured
<1>2. \A t \in Ids : Waits(s, t) => Waits(s, t)'
  BY <1>1 DEF Waits, Supersedes, Queued
<1>3. \A i \in 1..Len(chain'[s]) : labels'[chain'[s][i]] = NoLabels
  BY DEF ClaimInv
<1>4. \A t \in Ids : pending'[s] = t => Waits(s, t)'
  BY <1>2 DEF ClaimInv
<1>5. at'[s] = "settling" => /\ judged'[s] # 0 /\ pending'[s] = 0
                             /\ ingested'[Head(chain'[s])].view.request
                             /\ \A t \in Ids : judged'[s] = t => Waits(s, t)'
  BY <1>2 DEF ClaimInv
<1>6. at'[s] = "asking" /\ ingested'[Head(chain'[s])].view.request => pending'[s] = 0
  BY DEF ClaimInv
<1> QED
  BY <1>3, <1>4, <1>5, <1>6 DEF ClaimInv

\* The first of a queue: its labels are not written yet, those before it in its
\* session are through, and those behind it came later.
LEMMA HeadOfQueue ==
  ASSUME ChainsInv, NEW s \in Ids, ClaimInv(s), chain[s] # <<>>, NEW e, e = Head(chain[s])
  PROVE  /\ e \in Captured /\ e \in Ids /\ e \in Nat /\ s \in Captured
         /\ ingested[e].home = s /\ Queued(s, e) /\ labels[e] = NoLabels
         /\ \A x \in Captured : ingested[x].home = s /\ ~Queued(s, x) => x < e
         /\ \A i \in 1..Len(chain[s]) : e <= chain[s][i]
         /\ \A i \in 1..Len(Tail(chain[s])) : Queued(s, Tail(chain[s])[i])
         /\ \A x : (\E i \in 1..Len(Tail(chain[s])) : Tail(chain[s])[i] = x)
                     <=> Queued(s, x) /\ x # e
<1>q. PICK q : q = chain[s]
  OBVIOUS
<1>p. PICK p : p = Tail(q)
  OBVIOUS
<1>1. q \in Seq(Ids) /\ q # <<>>
  BY <1>q DEF ChainsInv, SessionTypeOK
<1>2. /\ Len(q) \in Nat \ {0} /\ e = q[1] /\ Len(p) = Len(q) - 1
      /\ \A i \in 1..Len(p) : p[i] = q[i + 1] /\ i + 1 \in 1..Len(q)
  BY <1>1, <1>p, <1>q, TailOfQueue
<1>3. 1 \in 1..Len(q)
  BY <1>2
<1>4. /\ \A i \in 1..Len(q) : q[i] \in Captured /\ ingested[q[i]].home = s
      /\ \A i, j \in 1..Len(q) : i < j => q[i] < q[j]
      /\ \A x \in Captured : ingested[x].home = s /\ ~Queued(s, x) =>
            \A i \in 1..Len(q) : x < q[i]
      /\ session[s] \in {"open", "waiting"}
  BY <1>1, <1>q DEF ChainsInv, QueueInv
<1>5. Captured \subseteq Ids /\ Captured \subseteq Nat
  BY CapturedIds DEF ChainsInv, Captured
<1>6. e \in Captured /\ e \in Ids /\ e \in Nat /\ ingested[e].home = s
  BY <1>2, <1>3, <1>4, <1>5
<1>7. s \in Captured
  BY <1>4 DEF ChainsInv, HomesInv
<1>8. Queued(s, e) /\ labels[e] = NoLabels
  BY <1>2, <1>3, <1>q DEF Queued, ClaimInv
<1>9. \A i \in 1..Len(q) : e <= q[i]
  <2> SUFFICES ASSUME NEW i \in 1..Len(q) PROVE q[1] <= q[i]
    BY <1>2
  <2>1. CASE i = 1
    BY <1>2, <1>6, <2>1
  <2>2. CASE i # 1
    <3>1. 1 < i
      BY <1>2, <2>2
    <3>2. q[1] < q[i] /\ q[i] \in Nat /\ q[1] \in Nat
      BY <1>2, <1>3, <1>4, <1>5, <3>1
    <3> QED
      BY <3>2
  <2> QED
    BY <2>1, <2>2
<1>10. \A i \in 1..Len(p) : Queued(s, p[i]) /\ p[i] # e
  <2> SUFFICES ASSUME NEW i \in 1..Len(p) PROVE Queued(s, p[i]) /\ p[i] # e
    OBVIOUS
  <2>1. p[i] = q[i + 1] /\ i + 1 \in 1..Len(q) /\ 1 < i + 1
    BY <1>2
  <2>2. q[1] < q[i + 1] /\ q[i + 1] \in Nat /\ q[1] \in Nat
    BY <1>3, <1>4, <1>5, <2>1
  <2> QED
    BY <1>2, <1>q, <2>1, <2>2 DEF Queued
<1>11. ASSUME NEW x, Queued(s, x), x # e
       PROVE  \E i \in 1..Len(p) : p[i] = x
  <2>1. PICK j \in 1..Len(q) : q[j] = x
    BY <1>11, <1>q DEF Queued
  <2>2. j # 1
    BY <1>2, <1>11, <2>1
  <2>3. j - 1 \in 1..Len(p) /\ (j - 1) + 1 = j
    BY <1>2, <2>2
  <2> QED
    BY <1>2, <2>1, <2>3
<1> QED
  BY <1>3, <1>4, <1>6, <1>7, <1>8, <1>9, <1>10, <1>11, <1>p, <1>q

\* What labelling leaves alone: other sessions, and every label but those of
\* the session's own exchanges.
Touches(s) ==
  /\ UNCHANGED <<ingested, session>>
  /\ \A u \in Ids : u # s => /\ chain'[u] = chain[u] /\ at'[u] = at[u]
                             /\ judged'[u] = judged[u] /\ pending'[u] = pending[u]
  /\ \A x \in Ids : x \notin Captured \/ ingested[x].home # s => labels'[x] = labels[x]

\* It is enough to look at the session that is at work.
LEMMA WordsOf ==
  ASSUME ChainsInv, WordsInv, NEW s \in Ids, s \in Captured, Touches(s), RowTypeOK', ClaimInv(s)',
         \A t \in Captured : VerdictInv(t)'
  PROVE  WordsInv'
<1>1. Captured' = Captured /\ Captured \subseteq Ids
  BY CapturedIds DEF Touches, Captured, ChainsInv
<1>2. ASSUME NEW u \in Ids, u # s
      PROVE  ClaimInv(u)'
  <2>1. \A x \in Captured : ingested[x].home = u => labels'[x] = labels[x]
    BY <1>1, <1>2 DEF Touches
  <2>2. \A i \in 1..Len(chain[u]) : chain[u][i] \in Captured /\ ingested[chain[u][i]].home = u
    BY DEF ChainsInv, QueueInv
  <2>3. /\ chain'[u] = chain[u] /\ at'[u] = at[u] /\ ingested' = ingested
        /\ judged'[u] = judged[u] /\ pending'[u] = pending[u] /\ ClaimInv(u)
    BY <1>2 DEF Touches, WordsInv
  <2> QED
    BY <2>1, <2>2, <2>3, OtherClaim
<1>3. \A x \in Ids \ Captured' : labels'[x] = NoLabels /\ pending'[x] = 0
  BY <1>1 DEF Touches, WordsInv
<1> QED
  BY <1>1, <1>2, <1>3 DEF WordsInv

\* The first exchange of a session is taken up.
LEMMA BeginWords ==
  ASSUME ChainsInv, WordsInv, NEW s \in Ids, Begin(s)
  PROVE  WordsInv'
<1>1. /\ chain[s] # <<>> /\ UNCHANGED <<ingested, session, chain, labels, saved>>
      /\ exchanges' = [exchanges EXCEPT ![s] = @ + 1]
  BY DEF Begin, rowVars
<1>2. \/ /\ ingested[Head(chain[s])].view.request /\ pending[s] # 0
         /\ at' = [at EXCEPT ![s] = "settling"]
         /\ judged' = [judged EXCEPT ![s] = pending[s]] /\ pending' = [pending EXCEPT ![s] = 0]
      \/ /\ ~(ingested[Head(chain[s])].view.request /\ pending[s] # 0)
         /\ at' = [at EXCEPT ![s] = "asking"] /\ judged' = judged /\ pending' = pending
  BY DEF Begin
<1>3. /\ at \in [Ids -> {"idle", "settling", "asking"}]
      /\ judged \in [Ids -> {0} \cup Ids] /\ pending \in [Ids -> {0} \cup Ids]
      /\ exchanges \in [Ids -> Nat]
  BY DEF ChainsInv, SessionTypeOK, WordsInv, RowTypeOK
<1>4. s \in Captured /\ ClaimInv(s)
  BY <1>1 DEF ChainsInv, HomesInv, WordsInv
<1>5. Captured' = Captured
  BY <1>1 DEF Captured
<1>6. Touches(s)
  BY <1>1, <1>2, <1>3 DEF Touches
<1>7. RowTypeOK'
  <2>1. exchanges' \in [Ids -> Nat]
    BY <1>1, <1>3
  <2>2. judged' \in [Ids -> {0} \cup Ids] /\ pending' \in [Ids -> {0} \cup Ids]
    BY <1>2, <1>3
  <2> QED
    BY <1>1, <2>1, <2>2 DEF WordsInv, RowTypeOK
<1>8. ClaimInv(s)'
  <2>1. \A t \in Ids : Waits(s, t)' <=> Waits(s, t)
    BY <1>1, <1>5 DEF Waits, Supersedes, Queued
  <2>2. \A i \in 1..Len(chain'[s]) : labels'[chain'[s][i]] = NoLabels
    BY <1>1, <1>4 DEF ClaimInv
  <2>3. \A t \in Ids : pending[s] = t => Waits(s, t)
    BY <1>4 DEF ClaimInv
  <2>4. 0 \notin Ids
    BY DEF Ids
  <2>5. CASE /\ ingested[Head(chain[s])].view.request /\ pending[s] # 0
             /\ at' = [at EXCEPT ![s] = "settling"]
             /\ judged' = [judged EXCEPT ![s] = pending[s]]
             /\ pending' = [pending EXCEPT ![s] = 0]
    <3>1. at'[s] = "settling" /\ judged'[s] = pending[s] /\ pending'[s] = 0
      BY <1>3, <2>5
    <3> QED
      BY <1>1, <2>1, <2>2, <2>3, <2>4, <2>5, <3>1 DEF ClaimInv
  <2>6. CASE /\ ~(ingested[Head(chain[s])].view.request /\ pending[s] # 0)
             /\ at' = [at EXCEPT ![s] = "asking"] /\ judged' = judged /\ pending' = pending
    <3>1. at'[s] = "asking"
      BY <1>3, <2>6
    <3> QED
      BY <1>1, <2>1, <2>2, <2>3, <2>6, <3>1 DEF ClaimInv
  <2> QED
    BY <1>2, <2>5, <2>6
<1>9. ASSUME NEW t \in Captured
      PROVE  VerdictInv(t)'
  <2>1. VerdictInv(t)
    BY DEF WordsInv
  <2>2. \A u \in Ids : \A i \in 1..Len(chain'[u]) : Queued(u, chain'[u][i])
    BY <1>1 DEF Queued
  <2> QED
    BY <1>1, <2>1, <2>2, VerdictKept
<1> QED
  BY <1>4, <1>6, <1>7, <1>8, <1>9, WordsOf

\* The verdict on the claim that waited is about the exchange that is taken up.
LEMMA SettleWords ==
  ASSUME ChainsInv, WordsInv, NEW s \in Ids, NEW answered \in BOOLEAN, Settle(s, answered)
  PROVE  WordsInv'
<1>e. PICK e : e = Head(chain[s])
  OBVIOUS
<1>t. PICK t : t = judged[s]
  OBVIOUS
<1>1. /\ at[s] = "settling" /\ UNCHANGED <<ingested, session, chain, pending, exchanges, saved>>
      /\ at' = [at EXCEPT ![s] = "asking"]
      /\ judged' = [judged EXCEPT ![s] = 0]
      /\ labels' = [labels EXCEPT ![t] = IF answered THEN VerdictOf(e) ELSE Unit]
  BY <1>e, <1>t DEF Settle
<1>2. ClaimInv(s) /\ chain[s] # <<>>
  BY <1>1 DEF ChainsInv, QueueInv, WordsInv
<1>3. /\ at \in [Ids -> {"idle", "settling", "asking"}]
      /\ judged \in [Ids -> {0} \cup Ids] /\ pending \in [Ids -> {0} \cup Ids]
      /\ labels \in [Ids -> {NoLabels, Plain, Unit, NoReply} \cup {VerdictOf(r) : r \in Ids}]
  BY DEF ChainsInv, SessionTypeOK, WordsInv, RowTypeOK
<1>4. t \in Ids /\ Waits(s, t) /\ pending[s] = 0 /\ ingested[e].view.request
  BY <1>1, <1>2, <1>3, <1>e, <1>t DEF ClaimInv
<1>5. Captured' = Captured /\ Captured \subseteq Ids /\ Captured \subseteq Nat
  BY <1>1, CapturedIds DEF Captured, ChainsInv
<1>6. /\ e \in Captured /\ e \in Ids /\ e \in Nat /\ s \in Captured
      /\ ingested[e].home = s /\ Queued(s, e) /\ labels[e] = NoLabels
      /\ \A x \in Captured : ingested[x].home = s /\ ~Queued(s, x) => x < e
      /\ \A i \in 1..Len(chain[s]) : e <= chain[s][i]
  BY <1>2, <1>e, HeadOfQueue
<1>7. \A x : Queued(s, x) => labels[x] = NoLabels /\ e <= x
  BY <1>2, <1>6 DEF Queued, ClaimInv
<1>8. t \in Captured /\ ingested[t].home = s /\ ingested[t].view.claim /\ labels[t] = Unit
  BY <1>4 DEF Waits
<1>9. /\ \A x \in Ids : x # t => labels'[x] = labels[x]
      /\ labels'[t] = IF answered THEN VerdictOf(e) ELSE Unit
  BY <1>1, <1>3, <1>4
<1>10. ~Queued(s, t) /\ t < e
  BY <1>6, <1>7, <1>8, LabelKinds
<1>11. Touches(s)
  BY <1>1, <1>3, <1>8, <1>9 DEF Touches
<1>12. RowTypeOK'
  <2>1. labels' \in [Ids -> {NoLabels, Plain, Unit, NoReply} \cup {VerdictOf(r) : r \in Ids}]
    BY <1>1, <1>3, <1>6
  <2>2. judged' \in [Ids -> {0} \cup Ids]
    BY <1>1, <1>3
  <2> QED
    BY <1>1, <2>1, <2>2 DEF WordsInv, RowTypeOK
<1>13. ClaimInv(s)'
  <2>1. at'[s] = "asking" /\ pending'[s] = 0 /\ 0 \notin Ids
    BY <1>1, <1>3, <1>4 DEF Ids
  <2>2. \A i \in 1..Len(chain'[s]) : labels'[chain'[s][i]] = NoLabels
    <3> SUFFICES ASSUME NEW i \in 1..Len(chain[s]) PROVE labels'[chain[s][i]] = NoLabels
      BY <1>1
    <3>1. Queued(s, chain[s][i]) /\ chain[s][i] \in Ids
      BY <1>5 DEF Queued, ChainsInv, QueueInv
    <3>2. chain[s][i] # t
      BY <1>10, <3>1
    <3> QED
      BY <1>2, <1>9, <3>1, <3>2 DEF ClaimInv
  <2> QED
    BY <2>1, <2>2 DEF ClaimInv
<1>14. ASSUME NEW u \in Captured
       PROVE  VerdictInv(u)'
  <2>1. CASE u # t
    <3>1. VerdictInv(u) /\ labels'[u] = labels[u]
      BY <1>5, <1>9, <2>1 DEF WordsInv
    <3>2. \A v \in Ids : \A i \in 1..Len(chain'[v]) : Queued(v, chain'[v][i])
      BY <1>1 DEF Queued
    <3>3. \A x \in Captured : labels[x] = NoLabels => labels'[x] = NoLabels
      BY <1>5, <1>8, <1>9, LabelKinds
    <3> QED
      BY <1>1, <3>1, <3>2, <3>3, VerdictKept
  <2>2. ASSUME NEW r \in Ids, labels'[t] = VerdictOf(r)
        PROVE  Replied(t, r)'
    <3>1. r = e
      BY <1>6, <1>9, <2>2, LabelKinds
    <3>2. ASSUME NEW x \in Captured, t < x, x < e, ingested[x].home = s
          PROVE  ~Supersedes(x)'
      <4>1. ~Queued(s, x)
        <5>1. x \in Nat /\ e \in Nat
          BY <1>5, <1>6
        <5>2. ~(e <= x)
          BY <3>2, <5>1
        <5> QED
          BY <1>7, <5>2
      <4>2. ~Supersedes(x)
        BY <1>4, <3>2, <4>1 DEF Waits
      <4>3. x \in Nat /\ t \in Nat
        BY <1>5, <1>8
      <4>4. x # t
        BY <3>2, <4>3
      <4> QED
        BY <1>1, <1>5, <1>9, <4>2, <4>4 DEF Supersedes
    <3> QED
      BY <1>1, <1>4, <1>5, <1>6, <1>8, <1>10, <3>1, <3>2 DEF Replied
  <2>3. labels'[t] # NoReply
    BY <1>6, <1>9, LabelKinds
  <2> QED
    BY <2>1, <2>2, <2>3 DEF VerdictInv
<1> QED
  BY <1>6, <1>11, <1>12, <1>13, <1>14, WordsOf

\* The labels of an exchange are written, if its rollup is or not.
LEMMA RecordWords ==
  ASSUME ChainsInv, WordsInv, NEW s \in Ids, Record(s) \/ RollupRejected(s)
  PROVE  WordsInv'
<1>e. PICK e : e = Head(chain[s])
  OBVIOUS
<1>1. /\ at[s] = "asking" /\ UNCHANGED <<ingested, session, exchanges>>
      /\ at' = [at EXCEPT ![s] = "idle"] /\ chain' = [chain EXCEPT ![s] = Tail(@)]
      /\ judged' = judged \/ judged' = [judged EXCEPT ![s] = 0]
      /\ labels' = [labels EXCEPT ![e] = IF ingested[e].view.claim THEN Unit ELSE Plain]
      /\ pending' = [pending EXCEPT ![s] = IF ingested[e].view.claim THEN e ELSE @]
  BY <1>e DEF Record, RollupRejected, Rejected
<1>2. ClaimInv(s) /\ chain[s] # <<>>
  BY <1>1 DEF ChainsInv, QueueInv, WordsInv
<1>3. /\ at \in [Ids -> {"idle", "settling", "asking"}] /\ chain \in [Ids -> Seq(Ids)]
      /\ judged \in [Ids -> {0} \cup Ids] /\ pending \in [Ids -> {0} \cup Ids]
      /\ labels \in [Ids -> {NoLabels, Plain, Unit, NoReply} \cup {VerdictOf(r) : r \in Ids}]
  BY DEF ChainsInv, SessionTypeOK, WordsInv, RowTypeOK
<1>5. Captured' = Captured /\ Captured \subseteq Ids /\ Captured \subseteq Nat
  BY <1>1, CapturedIds DEF Captured, ChainsInv
<1>6. /\ e \in Captured /\ e \in Ids /\ e \in Nat /\ s \in Captured
      /\ ingested[e].home = s /\ Queued(s, e) /\ labels[e] = NoLabels
      /\ \A x \in Captured : ingested[x].home = s /\ ~Queued(s, x) => x < e
      /\ \A i \in 1..Len(Tail(chain[s])) : Queued(s, Tail(chain[s])[i])
  BY <1>2, <1>e, HeadOfQueue
<1>7. /\ chain'[s] = Tail(chain[s]) /\ at'[s] = "idle"
      /\ \A u \in Ids : u # s => chain'[u] = chain[u]
  BY <1>1, <1>3
<1>8. \A x : Queued(s, x)' <=> Queued(s, x) /\ x # e
  <2>1. \A x : (\E i \in 1..Len(Tail(chain[s])) : Tail(chain[s])[i] = x)
                 <=> Queued(s, x) /\ x # e
    BY <1>2, <1>e, HeadOfQueue
  <2> QED
    BY <1>7, <2>1 DEF Queued
<1>9. /\ \A x \in Ids : x # e => labels'[x] = labels[x]
      /\ labels'[e] = IF ingested[e].view.claim THEN Unit ELSE Plain
  BY <1>1, <1>3, <1>6
<1>11. Touches(s)
  BY <1>1, <1>3, <1>6, <1>9 DEF Touches
<1>12. RowTypeOK'
  <2>1. labels' \in [Ids -> {NoLabels, Plain, Unit, NoReply} \cup {VerdictOf(r) : r \in Ids}]
    BY <1>1, <1>3
  <2>2. judged' \in [Ids -> {0} \cup Ids] /\ pending' \in [Ids -> {0} \cup Ids]
    BY <1>1, <1>3, <1>6
  <2>3. saved' = saved \/ saved' = [saved EXCEPT ![KeyOf(s)] =
                                      [closed |-> FALSE, exchanges |-> exchanges[s]]]
    BY DEF Record, RollupRejected, PublishSession
  <2>4. KeyOf(s) \in Keys
    BY <1>6, CapturedIds DEF KeyOf, ChainsInv
  <2>5. saved' \in [Keys -> [closed : BOOLEAN, exchanges : Nat]]
    <3>1. /\ saved \in [Keys -> [closed : BOOLEAN, exchanges : Nat]]
          /\ exchanges[s] \in Nat
      BY DEF WordsInv, RowTypeOK
    <3>2. [closed |-> FALSE, exchanges |-> exchanges[s]] \in [closed : BOOLEAN, exchanges : Nat]
      BY <3>1
    <3> QED
      BY <2>3, <2>4, <3>1, <3>2
  <2> QED
    BY <1>1, <2>1, <2>2, <2>5 DEF WordsInv, RowTypeOK
<1>13. ClaimInv(s)'
  <2>1. at'[s] # "settling" /\ at'[s] # "asking"
    BY <1>7
  <2>2. \A i \in 1..Len(chain'[s]) : labels'[chain'[s][i]] = NoLabels
    <3> SUFFICES ASSUME NEW i \in 1..Len(chain'[s]) PROVE labels'[chain'[s][i]] = NoLabels
      OBVIOUS
    <3>1. PICK x : x = chain'[s][i]
      OBVIOUS
    <3>2. Queued(s, x)'
      BY <3>1 DEF Queued
    <3>3. Queued(s, x) /\ x # e
      BY <1>8, <3>2
    <3>4. x \in Ids /\ labels[x] = NoLabels
      <4>1. x \in Captured
        BY <3>3 DEF Queued, ChainsInv, QueueInv
      <4>2. labels[x] = NoLabels
        BY <1>2, <3>3 DEF Queued, ClaimInv
      <4> QED
        BY <1>5, <4>1, <4>2
    <3> QED
      BY <1>9, <3>1, <3>3, <3>4
  <2>3. ASSUME NEW t \in Ids, pending'[s] = t
        PROVE  Waits(s, t)'
    <3>1. CASE ingested[e].view.claim
      <4>1. t = e
        BY <1>1, <1>3, <2>3, <3>1
      <4>2. labels'[e] = Unit
        BY <1>9, <3>1
      <4>3. ASSUME NEW x \in Captured, ingested[x].home = s, e < x
            PROVE  Queued(s, x)'
        <5>1. x \in Nat /\ e \in Nat
          BY <1>5, <1>6
        <5>2. x # e /\ ~(x < e)
          BY <4>3, <5>1
        <5> QED
          BY <1>6, <1>8, <4>3, <5>2
      <4> QED
        BY <1>1, <1>5, <1>6, <3>1, <4>1, <4>2, <4>3 DEF Waits
    <3>2. CASE ~ingested[e].view.claim
      <4>1. pending[s] = t /\ t # 0
        BY <1>1, <1>3, <2>3, <3>2 DEF Ids
      <4>2. Waits(s, t) /\ ~ingested[e].view.request
        BY <1>1, <1>2, <1>e, <4>1 DEF ClaimInv
      <4>3. labels'[t] = Unit
        BY <1>6, <1>9, <4>2, LabelKinds DEF Waits
      <4>4. ~Supersedes(e)'
        BY <1>1, <3>2, <4>2 DEF Supersedes
      <4>5. \A x \in Captured : ingested[x].home = s =>
              IF Queued(s, x) THEN Queued(s, x)' \/ ~Supersedes(x)'
              ELSE labels[x] = NoLabels => labels'[x] = NoLabels
        BY <1>5, <1>6, <1>8, <1>9, <4>4
      <4> QED
        BY <1>1, <1>5, <4>2, <4>3, <4>5, WaitsOn DEF Grows
    <3> QED
      BY <3>1, <3>2
  <2> QED
    BY <2>1, <2>2, <2>3 DEF ClaimInv
<1>14. ASSUME NEW u \in Captured
       PROVE  VerdictInv(u)'
  <2>1. CASE u # e
    <3>1. VerdictInv(u) /\ labels'[u] = labels[u]
      BY <1>5, <1>9, <2>1 DEF WordsInv
    <3>2. \A v \in Ids : \A i \in 1..Len(chain'[v]) : Queued(v, chain'[v][i])
      <4> SUFFICES ASSUME NEW v \in Ids, NEW i \in 1..Len(chain'[v])
                   PROVE  Queued(v, chain'[v][i])
        OBVIOUS
      <4>1. CASE v = s
        BY <1>6, <1>7, <4>1
      <4>2. CASE v # s
        BY <1>7, <4>2 DEF Queued
      <4> QED
        BY <4>1, <4>2
    <3>3. \A x \in Captured :
            labels[x] = NoLabels => labels'[x] = NoLabels \/ Queued(ingested[x].home, x)
      BY <1>5, <1>6, <1>9
    <3> QED
      BY <1>1, <3>1, <3>2, <3>3, VerdictKept
  <2>2. CASE u = e
    BY <1>9, <2>2, LabelKinds DEF VerdictInv
  <2> QED
    BY <2>1, <2>2
<1> QED
  BY <1>6, <1>11, <1>12, <1>13, <1>14, WordsOf

\* An exchange gets no labels, as a write fails.
LEMMA RejectedWords ==
  ASSUME ChainsInv, WordsInv, NEW s \in Ids, LabelsRejected(s)
  PROVE  WordsInv'
<1>e. PICK e : e = Head(chain[s])
  OBVIOUS
<1>1. /\ at[s] \in {"settling", "asking"}
      /\ UNCHANGED <<ingested, session, exchanges, pending, labels, saved>>
      /\ at' = [at EXCEPT ![s] = "idle"] /\ chain' = [chain EXCEPT ![s] = Tail(@)]
      /\ judged' = [judged EXCEPT ![s] = 0]
  BY DEF LabelsRejected, Rejected, rowVars
<1>2. ClaimInv(s) /\ chain[s] # <<>>
  BY <1>1 DEF ChainsInv, QueueInv, WordsInv
<1>3. /\ at \in [Ids -> {"idle", "settling", "asking"}] /\ chain \in [Ids -> Seq(Ids)]
      /\ judged \in [Ids -> {0} \cup Ids]
  BY DEF ChainsInv, SessionTypeOK, WordsInv, RowTypeOK
<1>5. Captured' = Captured
  BY <1>1 DEF Captured
<1>6. /\ e \in Captured /\ s \in Captured /\ labels[e] = NoLabels
      /\ \A i \in 1..Len(Tail(chain[s])) : Queued(s, Tail(chain[s])[i])
      /\ \A x : (\E i \in 1..Len(Tail(chain[s])) : Tail(chain[s])[i] = x)
                  <=> Queued(s, x) /\ x # e
  BY <1>2, <1>e, HeadOfQueue
<1>7. /\ chain'[s] = Tail(chain[s]) /\ at'[s] = "idle"
      /\ \A u \in Ids : u # s => chain'[u] = chain[u]
  BY <1>1, <1>3
<1>8. \A x : Queued(s, x)' <=> Queued(s, x) /\ x # e
  BY <1>6, <1>7 DEF Queued
<1>11. Touches(s)
  BY <1>1, <1>3 DEF Touches
<1>12. RowTypeOK'
  BY <1>1, <1>3 DEF WordsInv, RowTypeOK
<1>13. ClaimInv(s)'
  <2>1. at'[s] # "settling" /\ at'[s] # "asking"
    BY <1>7
  <2>2. \A i \in 1..Len(chain'[s]) : labels'[chain'[s][i]] = NoLabels
    <3>1. \A i \in 1..Len(chain'[s]) : Queued(s, chain'[s][i])
      BY <1>6, <1>7
    <3>2. \A x : Queued(s, x) => labels[x] = NoLabels
      BY <1>2 DEF Queued, ClaimInv
    <3> QED
      BY <1>1, <3>1, <3>2
  <2>3. ASSUME NEW t \in Ids, pending'[s] = t
        PROVE  Waits(s, t)'
    <3>1. pending[s] = t /\ t # 0
      BY <1>1, <2>3 DEF Ids
    <3>2. Waits(s, t) /\ ~ingested[e].view.request
      BY <1>1, <1>2, <1>e, <3>1 DEF ClaimInv
    <3>3. ~Supersedes(e)'
      BY <1>1, <1>6, <3>2 DEF Supersedes
    <3>4. \A x \in Captured : ingested[x].home = s =>
            IF Queued(s, x) THEN Queued(s, x)' \/ ~Supersedes(x)'
            ELSE labels[x] = NoLabels => labels'[x] = NoLabels
      BY <1>1, <1>8, <3>3
    <3>5. labels'[t] = Unit
      BY <1>1, <3>2 DEF Waits
    <3> QED
      BY <1>1, <1>5, <3>2, <3>4, <3>5, WaitsOn DEF Grows
  <2> QED
    BY <2>1, <2>2, <2>3 DEF ClaimInv
<1>14. ASSUME NEW u \in Captured
       PROVE  VerdictInv(u)'
  <2>1. VerdictInv(u) /\ labels'[u] = labels[u]
    BY <1>1 DEF WordsInv
  <2>2. \A v \in Ids : \A i \in 1..Len(chain'[v]) : Queued(v, chain'[v][i])
    <3> SUFFICES ASSUME NEW v \in Ids, NEW i \in 1..Len(chain'[v])
                 PROVE  Queued(v, chain'[v][i])
      OBVIOUS
    <3>1. CASE v = s
      BY <1>6, <1>7, <3>1
    <3>2. CASE v # s
      BY <1>7, <3>2 DEF Queued
    <3> QED
      BY <3>1, <3>2
  <2> QED
    BY <1>1, <2>1, <2>2, VerdictKept
<1> QED
  BY <1>6, <1>11, <1>12, <1>13, <1>14, WordsOf

\* A session that has run dry is about to close: the claim that waited gets no
\* reply.
LEMMA SettledWords ==
  ASSUME ChainsInv, WordsInv, NEW s \in Ids, CloseSettles(s)
  PROVE  WordsInv'
<1>t. PICK t : t = pending[s]
  OBVIOUS
<1>1. /\ session[s] = "waiting" /\ chain[s] = <<>>
      /\ session' = [session EXCEPT ![s] = "asking"]
      /\ labels' = [x \in Ids |-> IF x = t THEN NoReply ELSE labels[x]]
      /\ pending' = [pending EXCEPT ![s] = 0]
      /\ UNCHANGED <<ingested, chain, at, judged, exchanges, saved>>
  BY <1>t DEF CloseSettles
<1>2. /\ session \in [Ids -> Live \cup {"none", "done"}]
      /\ pending \in [Ids -> {0} \cup Ids]
      /\ labels \in [Ids -> {NoLabels, Plain, Unit, NoReply} \cup {VerdictOf(r) : r \in Ids}]
  BY DEF ChainsInv, SessionTypeOK, WordsInv, RowTypeOK
<1>3. Captured' = Captured /\ Captured \subseteq Ids
  BY <1>1, CapturedIds DEF Captured, ChainsInv
<1>4. s \in Captured /\ ClaimInv(s) /\ at[s] = "idle"
  BY <1>1 DEF ChainsInv, HomesInv, WordsInv, QueueInv
<1>5. t \in Ids => Waits(s, t)
  BY <1>4, <1>t DEF ClaimInv
<1>6. \A x : ~Queued(s, x)
  BY <1>1 DEF Queued
<1>7. RowTypeOK'
  <2>1. labels' \in [Ids -> {NoLabels, Plain, Unit, NoReply} \cup {VerdictOf(r) : r \in Ids}]
    BY <1>1, <1>2
  <2>2. pending' \in [Ids -> {0} \cup Ids]
    BY <1>1, <1>2
  <2> QED
    BY <1>1, <2>1, <2>2 DEF WordsInv, RowTypeOK
<1>8. \A x \in Ids : x # t => labels'[x] = labels[x]
  BY <1>1
<1>9. ASSUME NEW u \in Ids
      PROVE  ClaimInv(u)'
  <2>1. CASE u = s
    <3>1. pending'[s] = 0 /\ 0 \notin Ids /\ at'[s] = "idle" /\ chain'[s] = <<>>
      BY <1>1, <1>2, <1>4 DEF Ids
    <3> QED
      BY <2>1, <3>1 DEF ClaimInv
  <2>2. CASE u # s
    <3>1. \A x \in Captured : ingested[x].home = u => labels'[x] = labels[x]
      BY <1>3, <1>5, <1>8, <2>2 DEF Waits
    <3>2. \A i \in 1..Len(chain[u]) : chain[u][i] \in Captured /\ ingested[chain[u][i]].home = u
      BY DEF ChainsInv, QueueInv
    <3>3. pending'[u] = pending[u] /\ ClaimInv(u)
      BY <1>1, <1>2, <2>2 DEF WordsInv
    <3> QED
      BY <1>1, <3>1, <3>2, <3>3, OtherClaim
  <2> QED
    BY <2>1, <2>2
<1>10. ASSUME NEW u \in Captured
       PROVE  VerdictInv(u)'
  <2>1. CASE u # t
    <3>1. VerdictInv(u) /\ labels'[u] = labels[u]
      BY <1>3, <1>8, <2>1 DEF WordsInv
    <3>2. \A v \in Ids : \A i \in 1..Len(chain'[v]) : Queued(v, chain'[v][i])
      BY <1>1 DEF Queued
    <3>3. \A x \in Captured : labels[x] = NoLabels => labels'[x] = NoLabels
      BY <1>3, <1>5, <1>8, LabelKinds DEF Waits
    <3>4. \A v \in Ids : session[v] \in {"asking", "done"} => session'[v] \in {"asking", "done"}
      BY <1>1, <1>2
    <3> QED
      BY <1>1, <3>1, <3>2, <3>3, <3>4, VerdictKept
  <2>2. CASE u = t
    <3>1. Waits(s, t) /\ labels'[t] = NoReply /\ session'[s] = "asking"
      BY <1>1, <1>2, <1>3, <1>5, <2>2
    <3>2. \A x \in Captured : t < x /\ ingested[x].home = s => ~Supersedes(x) /\ x # t
      <4>1. t \in Nat /\ Captured \subseteq Nat
        BY <2>2, CapturedIds DEF Captured, ChainsInv
      <4>2. \A x \in Captured : t < x => x # t
        BY <4>1
      <4>3. \A x \in Captured : t < x /\ ingested[x].home = s => ~Supersedes(x)
        BY <1>6, <3>1 DEF Waits
      <4> QED
        BY <4>2, <4>3
    <3>3. \A x \in Captured : t < x /\ ingested[x].home = s => ~Supersedes(x)'
      BY <1>1, <1>3, <1>8, <3>2 DEF Supersedes
    <3>4. Unreplied(t)'
      BY <1>1, <1>3, <3>1, <3>3 DEF Unreplied, Waits
    <3>5. \A r \in Ids : labels'[t] # VerdictOf(r)
      BY <3>1, LabelKinds
    <3> QED
      BY <2>2, <3>4, <3>5 DEF VerdictInv
  <2> QED
    BY <2>1, <2>2
<1>11. \A x \in Ids \ Captured' : labels'[x] = NoLabels /\ pending'[x] = 0
  BY <1>1, <1>2, <1>3, <1>4, <1>5, <1>8 DEF WordsInv, Waits
<1> QED
  BY <1>3, <1>7, <1>9, <1>10, <1>11 DEF WordsInv

\* A session begins to close, or has closed: no label is written.
LEMMA ClosedWords ==
  ASSUME ChainsInv, WordsInv, \/ \E k \in Keys : CloseIdle(k)
                              \/ \E s \in Ids : CloseEnds(s) \/ CloseRejected(s)
  PROVE  WordsInv'
<1>1. UNCHANGED <<ingested, chain, at, judged, labels>>
  BY DEF CloseIdle, CloseEnds, CloseRejected, rowVars
<1>2. Captured' = Captured
  BY <1>1 DEF Captured
<1>3. PICK s \in Ids : /\ pending' \in {pending, [pending EXCEPT ![s] = 0]}
                       /\ exchanges' \in {exchanges, [exchanges EXCEPT ![s] = 0]}
                       /\ \/ session[s] = "open" /\ session' = [session EXCEPT ![s] = "waiting"]
                          \/ session' = [session EXCEPT ![s] = "done"]
                       /\ session[s] \in Live
                       /\ \/ saved' = saved
                          \/ saved' = [saved EXCEPT ![KeyOf(s)] =
                                         [closed |-> TRUE, exchanges |-> exchanges[s]]]
  <2>1. ASSUME NEW k \in Keys, CloseIdle(k)
        PROVE  \E s \in Ids : /\ pending' = pending /\ exchanges' = exchanges /\ saved' = saved
                              /\ session[s] = "open"
                              /\ session' = [session EXCEPT ![s] = "waiting"]
    BY <2>1, OpenOnes DEF CloseIdle, OpenKeys, rowVars
  <2>2. ASSUME NEW s \in Ids, CloseEnds(s) \/ CloseRejected(s)
        PROVE  /\ pending' \in {pending, [pending EXCEPT ![s] = 0]}
               /\ exchanges' \in {exchanges, [exchanges EXCEPT ![s] = 0]}
               /\ session' = [session EXCEPT ![s] = "done"] /\ session[s] \in Live
               /\ \/ saved' = saved
                  \/ saved' = [saved EXCEPT ![KeyOf(s)] =
                                 [closed |-> TRUE, exchanges |-> exchanges[s]]]
    BY <2>2 DEF CloseEnds, CloseRejected, PublishSession, Dropped, rowVars, Live
  <2> QED
    BY <2>1, <2>2 DEF Live
<1>4. s \in Captured /\ KeyOf(s) \in Keys
  BY <1>3, CapturedIds DEF ChainsInv, HomesInv, Live, KeyOf
<1>5. /\ session \in [Ids -> Live \cup {"none", "done"}]
      /\ pending \in [Ids -> {0} \cup Ids] /\ exchanges \in [Ids -> Nat]
      /\ saved \in [Keys -> [closed : BOOLEAN, exchanges : Nat]]
  BY DEF ChainsInv, SessionTypeOK, WordsInv, RowTypeOK
<1>6. RowTypeOK'
  <2>1. [closed |-> TRUE, exchanges |-> exchanges[s]] \in [closed : BOOLEAN, exchanges : Nat]
    BY <1>5
  <2>2. saved' \in [Keys -> [closed : BOOLEAN, exchanges : Nat]]
    <3>1. PICK row : row = [closed |-> TRUE, exchanges |-> exchanges[s]]
      OBVIOUS
    <3>2. saved' = saved \/ saved' = [saved EXCEPT ![KeyOf(s)] = row]
      BY <1>3, <3>1
    <3>3. row \in [closed : BOOLEAN, exchanges : Nat]
      BY <2>1, <3>1
    <3> QED
      BY <1>4, <1>5, <3>2, <3>3
  <2>3. pending' \in [Ids -> {0} \cup Ids] /\ exchanges' \in [Ids -> Nat]
    BY <1>3, <1>5
  <2> QED
    BY <1>1, <2>2, <2>3 DEF WordsInv, RowTypeOK
<1>7. \A u \in Ids : pending'[u] = pending[u] \/ pending'[u] = 0
  BY <1>3, <1>5
<1>8. ASSUME NEW u \in Ids
      PROVE  ClaimInv(u)'
  <2>1. ClaimInv(u) /\ 0 \notin Ids
    BY DEF WordsInv, Ids
  <2>2. \A t \in Ids : Waits(u, t)' <=> Waits(u, t)
    BY <1>1, <1>2 DEF Waits, Supersedes, Queued
  <2>3. \A i \in 1..Len(chain'[u]) : labels'[chain'[u][i]] = NoLabels
    BY <1>1, <2>1 DEF ClaimInv
  <2>4. \A t \in Ids : pending'[u] = t => Waits(u, t)'
    BY <1>7, <2>1, <2>2 DEF ClaimInv
  <2> QED
    BY <1>1, <1>7, <2>1, <2>2, <2>3, <2>4 DEF ClaimInv
<1>9. ASSUME NEW u \in Captured
      PROVE  VerdictInv(u)'
  <2>1. VerdictInv(u) /\ labels'[u] = labels[u]
    BY <1>1 DEF WordsInv
  <2>2. \A v \in Ids : \A i \in 1..Len(chain'[v]) : Queued(v, chain'[v][i])
    BY <1>1 DEF Queued
  <2>3. \A v \in Ids : session[v] \in {"asking", "done"} => session'[v] \in {"asking", "done"}
    BY <1>3, <1>5
  <2> QED
    BY <1>1, <2>1, <2>2, <2>3, VerdictKept
<1>10. \A x \in Ids \ Captured' : labels'[x] = NoLabels /\ pending'[x] = 0
  BY <1>1, <1>2, <1>7 DEF WordsInv
<1> QED
  BY <1>2, <1>6, <1>8, <1>9, <1>10 DEF WordsInv

\* The process starts again, between the two writes of some session or not.
LEMMA RestartWords ==
  ASSUME ChainsInv, WordsInv, Restart
  PROVE  WordsInv'
<1>1. /\ UNCHANGED <<ingested, saved>>
      /\ session' = [s \in Ids |-> IF session[s] = "none" THEN "none" ELSE "done"]
      /\ chain' = [s \in Ids |-> <<>>] /\ at' = [s \in Ids |-> "idle"]
      /\ judged' = [s \in Ids |-> 0] /\ pending' = [s \in Ids |-> 0]
      /\ exchanges' = [s \in Ids |-> 0]
  BY DEF Restart
<1>2. PICK half \in SUBSET Ids :
        /\ \A s \in half : at[s] = "asking"
        /\ labels' = [e \in Ids |-> IF \E s \in half : e = Head(chain[s])
                                    THEN IF ingested[e].view.claim THEN Unit ELSE Plain
                                    ELSE labels[e]]
  BY DEF Restart
<1>3. Captured' = Captured /\ Captured \subseteq Ids
  BY <1>1, CapturedIds DEF Captured, ChainsInv
<1>4. ASSUME NEW e \in Ids, \E s \in half : e = Head(chain[s])
      PROVE  e \in Captured /\ Queued(ingested[e].home, e) /\ labels[e] = NoLabels
  <2>1. PICK s \in half : e = Head(chain[s])
    BY <1>4
  <2>2. chain[s] # <<>> /\ ClaimInv(s) /\ s \in Ids
    BY <1>2 DEF ChainsInv, QueueInv, WordsInv
  <2> QED
    BY <2>1, <2>2, HeadOfQueue
<1>5. RowTypeOK'
  <2>1. labels' \in [Ids -> {NoLabels, Plain, Unit, NoReply} \cup {VerdictOf(r) : r \in Ids}]
    BY <1>2 DEF WordsInv, RowTypeOK
  <2> QED
    BY <1>1, <2>1 DEF WordsInv, RowTypeOK
<1>6. \A s \in Ids : ClaimInv(s)'
  BY <1>1 DEF ClaimInv, Ids
<1>7. ASSUME NEW u \in Captured
      PROVE  VerdictInv(u)'
  <2>1. CASE labels'[u] = labels[u]
    <3>1. \A x \in Captured :
            labels[x] = NoLabels => labels'[x] = NoLabels \/ Queued(ingested[x].home, x)
      BY <1>2, <1>3, <1>4
    <3>2. \A s \in Ids : \A i \in 1..Len(chain'[s]) : Queued(s, chain'[s][i])
      BY <1>1
    <3>3. \A s \in Ids : session[s] \in {"asking", "done"} => session'[s] \in {"asking", "done"}
      BY <1>1
    <3> QED
      BY <1>1, <2>1, <3>1, <3>2, <3>3, VerdictKept DEF WordsInv
  <2>2. CASE labels'[u] # labels[u]
    <3>1. labels'[u] \in {Unit, Plain}
      BY <1>2, <1>3, <2>2
    <3> QED
      BY <3>1, LabelKinds DEF VerdictInv
  <2> QED
    BY <2>1, <2>2
<1>8. \A x \in Ids \ Captured' : labels'[x] = NoLabels /\ pending'[x] = 0
  BY <1>1, <1>2, <1>3, <1>4 DEF WordsInv
<1> QED
  BY <1>3, <1>5, <1>6, <1>7, <1>8 DEF WordsInv

\* An exchange is captured: it is queued behind whatever its session does.
LEMMA CapturedWords ==
  ASSUME ChainsInv, WordsInv, NEW k \in Keys, NEW view \in Views, NEW h \in Ids, NEW e,
         Capturing(e, k, view, h), session[h] \in {"open", "none"}, exchanges' \in [Ids -> Nat],
         \A s \in Ids : session[s] \in {"asking", "done"} => session'[s] \in {"asking", "done"}
  PROVE  WordsInv'
<1>1. /\ Captured' = Captured \cup {e} /\ e \in Ids /\ e \notin Captured /\ e = Len(ingested) + 1
      /\ \A x \in Captured : ingested'[x] = ingested[x]
      /\ ingested'[e].home = h /\ e \in Nat
      /\ UNCHANGED <<at, judged, pending, labels, saved>>
      /\ chain' = [chain EXCEPT ![h] = Append(@, e)]
  BY DEF Capturing, rowVars
<1>2. /\ chain \in [Ids -> Seq(Ids)] /\ Len(ingested) \in Nat /\ Captured \subseteq Ids
      /\ Captured \subseteq Nat
  <2>1. chain \in [Ids -> Seq(Ids)]
    BY DEF ChainsInv, SessionTypeOK
  <2>2. Len(ingested) \in Nat /\ Captured \subseteq Ids
    BY CapturedIds DEF ChainsInv
  <2>3. Captured \subseteq Nat
    BY <2>2 DEF Captured
  <2> QED
    BY <2>1, <2>2, <2>3
<1>3. labels[e] = NoLabels
  BY <1>1 DEF WordsInv
<1>g. Grows
  BY <1>1 DEF Grows
<1>4. ASSUME NEW s \in Ids
      PROVE  /\ \A i \in 1..Len(chain'[s]) : Queued(s, chain'[s][i]) \/ chain'[s][i] = e
             /\ chain[s] # <<>> => Head(chain'[s]) = Head(chain[s])
             /\ \A x : Queued(s, x) => Queued(s, x)'
             /\ s = h => Queued(s, e)'
  <2>1. CASE s # h
    <3>1. chain'[s] = chain[s]
      BY <1>1, <1>2, <2>1
    <3> QED
      BY <2>1, <3>1 DEF Queued
  <2>2. CASE s = h
    <3>q. PICK q : q = chain[s]
      OBVIOUS
    <3>p. PICK p : p = chain'[s]
      OBVIOUS
    <3>1. q \in Seq(Ids) /\ p = Append(q, e)
      BY <1>1, <1>2, <2>2, <3>q, <3>p
    <3>2. /\ p \in Seq(Ids) /\ p # <<>>
          /\ Len(p) = Len(q) + 1 /\ Len(q) \in Nat
          /\ \A i \in 1..Len(q) : p[i] = q[i]
          /\ p[Len(q) + 1] = e
      BY <1>1, <3>1, EndOfQueue
    <3>3. \A i \in 1..Len(p) : i \in 1..Len(q) \/ i = Len(q) + 1
      BY <3>2
    <3>4. (\A i \in 1..Len(q) : i \in 1..Len(p)) /\ Len(q) + 1 \in 1..Len(p)
      BY <3>2
    <3>5. q # <<>> => Head(p) = Head(q)
      <4> SUFFICES ASSUME q # <<>> PROVE Head(p) = Head(q)
        OBVIOUS
      <4>1. Head(q) = q[1] /\ Len(q) \in Nat \ {0}
        BY <3>1, TailOfQueue
      <4>2. Head(p) = p[1]
        BY <3>2, TailOfQueue
      <4> QED
        BY <3>2, <4>1, <4>2
    <3>6. \A i \in 1..Len(p) : Queued(s, p[i]) \/ p[i] = e
      BY <3>2, <3>3, <3>q DEF Queued
    <3>7. \A x : Queued(s, x) => Queued(s, x)'
      BY <3>2, <3>4, <3>q, <3>p DEF Queued
    <3>8. Queued(s, e)'
      BY <3>2, <3>4, <3>p DEF Queued
    <3> QED
      BY <3>5, <3>6, <3>7, <3>8, <3>q, <3>p
  <2> QED
    BY <2>1, <2>2
<1>5. RowTypeOK'
  BY <1>1 DEF WordsInv, RowTypeOK
<1>6. ASSUME NEW s \in Ids
      PROVE  ClaimInv(s)'
  <2>1. ClaimInv(s)
    BY DEF WordsInv
  <2>2. \A t \in Ids : Waits(s, t) => Waits(s, t)'
    <3> SUFFICES ASSUME NEW t \in Ids, Waits(s, t) PROVE Waits(s, t)'
      OBVIOUS
    <3>1. \A x \in Captured' \ Captured : ingested'[x].home = s => Queued(s, x)'
      BY <1>1, <1>4
    <3>2. \A x \in Captured : ingested[x].home = s =>
            IF Queued(s, x) THEN Queued(s, x)' \/ ~Supersedes(x)'
            ELSE labels[x] = NoLabels => labels'[x] = NoLabels
      BY <1>1, <1>4
    <3>3. labels'[t] = Unit
      BY <1>1 DEF Waits
    <3> QED
      BY <1>g, <3>1, <3>2, <3>3, WaitsOn
  <2>3. \A i \in 1..Len(chain'[s]) : labels'[chain'[s][i]] = NoLabels
    <3>1. \A x : Queued(s, x) => labels[x] = NoLabels
      BY <2>1 DEF Queued, ClaimInv
    <3> QED
      BY <1>1, <1>3, <1>4, <3>1
  <2>4. at[s] # "idle" => /\ chain[s] # <<>>
                          /\ ingested'[Head(chain'[s])] = ingested[Head(chain[s])]
    <3>1. at[s] # "idle" => chain[s] # <<>>
      BY DEF ChainsInv, QueueInv
    <3>2. chain[s] # <<>> => Head(chain[s]) \in Captured
      BY <2>1, HeadOfQueue
    <3> QED
      BY <1>1, <1>4, <3>1, <3>2
  <2>5. \A t \in Ids : pending'[s] = t => Waits(s, t)'
    BY <1>1, <2>1, <2>2 DEF ClaimInv
  <2>6. at'[s] = "settling" => /\ judged'[s] # 0 /\ pending'[s] = 0
                               /\ ingested'[Head(chain'[s])].view.request
                               /\ \A t \in Ids : judged'[s] = t => Waits(s, t)'
    BY <1>1, <2>1, <2>2, <2>4 DEF ClaimInv
  <2>7. at'[s] = "asking" /\ ingested'[Head(chain'[s])].view.request => pending'[s] = 0
    BY <1>1, <2>1, <2>4 DEF ClaimInv
  <2> QED
    BY <2>3, <2>5, <2>6, <2>7 DEF ClaimInv
<1>7. ASSUME NEW u \in Captured'
      PROVE  VerdictInv(u)'
  <2>1. CASE u \in Captured
    <3>1. VerdictInv(u) /\ labels'[u] = labels[u]
      BY <1>1, <2>1 DEF WordsInv
    <3>2. \A x \in Captured' \ Captured : session[ingested'[x].home] \in {"open", "none"}
      BY <1>1
    <3>3. \A x \in Captured' \ Captured : x \in Nat /\ x > Len(ingested)
      BY <1>1, <1>2
    <3>4. \A x \in Captured :
            labels[x] = NoLabels => labels'[x] = NoLabels \/ Queued(ingested[x].home, x)
      BY <1>1
    <3>5. \A s \in Ids : \A i \in 1..Len(chain'[s]) :
            \/ Queued(s, chain'[s][i])
            \/ chain'[s][i] \in Nat /\ chain'[s][i] > Len(ingested)
      <4>1. e \in Nat /\ e > Len(ingested)
        BY <1>1, <1>2
      <4>2. \A s \in Ids : \A i \in 1..Len(chain'[s]) :
              Queued(s, chain'[s][i]) \/ chain'[s][i] = e
        BY <1>4
      <4> QED
        BY <4>1, <4>2
    <3> QED
      BY <1>g, <2>1, <3>1, <3>2, <3>3, <3>4, <3>5, VerdictStays
  <2>2. CASE u = e
    BY <1>1, <1>3, <2>2, LabelKinds DEF VerdictInv
  <2> QED
    BY <1>1, <2>1, <2>2
<1>8. \A x \in Ids \ Captured' : labels'[x] = NoLabels /\ pending'[x] = 0
  BY <1>1 DEF WordsInv
<1> QED
  BY <1>5, <1>6, <1>7, <1>8 DEF WordsInv

\* An exchange is captured for a session that is open, or opens one.
LEMMA IngestWords ==
  ASSUME ChainsInv, WordsInv, NEW k \in Keys, NEW view \in Views,
         IngestKnown(k, view) \/ IngestNew(k, view)
  PROVE  WordsInv'
<1>1. PICK h, e \in Ids :
        /\ Capturing(e, k, view, h)
        /\ \/ session[h] = "open" /\ exchanges' = exchanges /\ session' = session
           \/ /\ h = e /\ session[e] = "none"
              /\ exchanges' = [exchanges EXCEPT ![e] = saved[k].exchanges]
              /\ \A s \in Captured : session'[s] \in {session[s], "waiting"}
                                     /\ (session'[s] # session[s] => session[s] = "open")
  BY IngestShape
<1>2. /\ exchanges \in [Ids -> Nat]
      /\ saved \in [Keys -> [closed : BOOLEAN, exchanges : Nat]]
  BY DEF WordsInv, RowTypeOK
<1>3. exchanges' \in [Ids -> Nat] /\ session[h] \in {"open", "none"}
  BY <1>1, <1>2
<1>4. \A s \in Ids : session[s] \in {"asking", "done"} => s \in Captured
  BY DEF ChainsInv, HomesInv
<1>5. \A s \in Ids : session[s] \in {"asking", "done"} => session'[s] \in {"asking", "done"}
  BY <1>1, <1>4
<1> QED
  BY <1>1, <1>3, <1>5, CapturedWords

\* What is written of a claim is about the words that came after it.
THEOREM WordsAreKept == LabelerSpec => []WordsInv
<1>1. LabelerInit => WordsInv
  <2> SUFFICES ASSUME LabelerInit PROVE WordsInv
    OBVIOUS
  <2>1. Captured = {}
    BY DEF LabelerInit, Captured
  <2>2. RowTypeOK
    BY DEF LabelerInit, RowTypeOK
  <2>3. \A s \in Ids : ClaimInv(s)
    BY DEF LabelerInit, ClaimInv, Ids
  <2> QED
    BY <2>1, <2>2, <2>3 DEF WordsInv, LabelerInit
<1>2. ChainsInv /\ WordsInv /\ [LabelerNext]_labelerVars => WordsInv'
  <2> SUFFICES ASSUME ChainsInv, WordsInv, [LabelerNext]_labelerVars PROVE WordsInv'
    OBVIOUS
  <2>1. CASE UNCHANGED labelerVars
    BY <2>1 DEF labelerVars, sessionVars, rowVars, WordsInv, RowTypeOK, ClaimInv, VerdictInv,
                Replied, Unreplied, Waits, Supersedes, Queued, Captured
  <2>2. ASSUME NEW s \in Ids, ProcessStep(s)
        PROVE  WordsInv'
    BY <2>2, BeginWords, SettleWords, RecordWords, RejectedWords DEF ProcessStep
  <2>3. ASSUME NEW s \in Ids, CloseStep(s)
        PROVE  WordsInv'
    BY <2>3, SettledWords, ClosedWords DEF CloseStep
  <2>4. CASE LabelerNext
    BY <2>2, <2>3, <2>4, IngestWords, ClosedWords, RestartWords DEF LabelerNext
  <2> QED
    BY <2>1, <2>4
<1> QED
  BY <1>1, <1>2, ChainsAreInOrder, PTL DEF LabelerSpec

----------------------------------------------------------------------------
(* Rollups are closed.                                                     *)

\* A session of k has work to do or may get some.
Witness(k, s) == s \in Captured /\ KeyOf(s) = k /\ session[s] \in Live

\* It is enough that a session goes on, or its rollup is marked closed.
LEMMA QuietStays ==
  ASSUME QuietIsClosed, restarts' = restarts, failures' = failures,
         \A k \in Keys : saved[k].closed =>
           saved'[k].closed \/ \E s \in Captured' : ingested'[s].key = k /\ session'[s] \in Live,
         \A k \in Keys : \A s \in Captured : Witness(k, s) =>
           saved'[k].closed \/ \E u \in Captured' : ingested'[u].key = k /\ session'[u] \in Live
  PROVE  QuietIsClosed'
<1> SUFFICES ASSUME restarts = 0, failures = 0, NEW k \in Keys
             PROVE  \/ saved'[k].closed
                    \/ \E s \in Captured' : ingested'[s].key = k /\ session'[s] \in Live
  BY DEF QuietIsClosed, KeyOf, Live
<1>1. saved[k].closed \/ \E s \in Captured : Witness(k, s)
  BY DEF QuietIsClosed, Witness, Live
<1> QED
  BY <1>1

\* Every step leaves a rollup that is marked closed, or a session at work.
LEMMA QuietStep ==
  ASSUME ChainsInv, RowTypeOK, QuietIsClosed, LabelerNext
  PROVE  QuietIsClosed'
<1>0. /\ restarts \in Nat /\ failures \in Nat /\ Captured \subseteq Ids
      /\ session \in [Ids -> Live \cup {"none", "done"}]
      /\ saved \in [Keys -> [closed : BOOLEAN, exchanges : Nat]]
  BY CapturedIds DEF ChainsInv, SessionTypeOK, RowTypeOK
<1>1. ASSUME NEW k \in Keys, NEW view \in Views, IngestKnown(k, view) \/ IngestNew(k, view)
      PROVE  QuietIsClosed'
  <2>1. PICK h, e \in Ids :
          /\ Capturing(e, k, view, h)
          /\ \A s \in Captured : session'[s] \in {session[s], "waiting"}
    BY <1>1, IngestShape
  <2>2. \A s \in Captured : session[s] \in Live => session'[s] \in Live
    BY <2>1 DEF Live
  <2>3. \A s \in Captured : s \in Captured' /\ ingested'[s] = ingested[s]
    BY <2>1 DEF Capturing
  <2>4. \A j \in Keys : \A s \in Captured : Witness(j, s) =>
          ingested'[s].key = j /\ session'[s] \in Live
    BY <2>2, <2>3 DEF Witness, KeyOf
  <2>5. saved' = saved /\ restarts' = restarts /\ failures' = failures
    BY <2>1 DEF Capturing, rowVars, boundVars
  <2> QED
    BY <2>3, <2>4, <2>5, QuietStays
<1>4. ASSUME NEW s \in Ids, Record(s)
      PROVE  QuietIsClosed'
  <2>1. /\ UNCHANGED <<ingested, session, restarts, failures>> /\ at[s] = "asking"
        /\ saved' = [saved EXCEPT ![KeyOf(s)] = [closed |-> FALSE, exchanges |-> exchanges[s]]]
    BY <1>4 DEF Record, PublishSession, boundVars
  <2>2. s \in Captured /\ session[s] \in Live
    BY <2>1 DEF ChainsInv, HomesInv, QueueInv, Live
  <2>3. Captured' = Captured
    BY <2>1 DEF Captured
  <2>4. \A k \in Keys : k # KeyOf(s) => saved'[k] = saved[k]
    BY <1>0, <2>1
  <2>5. \A k \in Keys : saved[k].closed =>
          saved'[k].closed \/ \E u \in Captured' : ingested'[u].key = k /\ session'[u] \in Live
    BY <2>1, <2>2, <2>3, <2>4 DEF KeyOf
  <2>6. \A k \in Keys : \A u \in Captured : Witness(k, u) =>
          \E v \in Captured' : ingested'[v].key = k /\ session'[v] \in Live
    BY <2>1, <2>3 DEF Witness, KeyOf
  <2> QED
    BY <2>1, <2>5, <2>6, QuietStays
<1>5. ASSUME NEW s \in Ids, CloseEnds(s)
      PROVE  QuietIsClosed'
  <2>1. /\ UNCHANGED <<ingested, restarts, failures>>
        /\ session' = [session EXCEPT ![s] = "done"] /\ session[s] = "asking"
        /\ saved' = [saved EXCEPT ![KeyOf(s)] = [closed |-> TRUE, exchanges |-> exchanges[s]]]
    BY <1>5 DEF CloseEnds, PublishSession, boundVars
  <2>2. s \in Captured /\ KeyOf(s) \in Keys
    BY <2>1, CapturedIds DEF ChainsInv, HomesInv, KeyOf
  <2>3. Captured' = Captured
    BY <2>1 DEF Captured
  <2>4. /\ saved'[KeyOf(s)].closed
        /\ \A k \in Keys : k # KeyOf(s) => saved'[k] = saved[k]
    BY <1>0, <2>1, <2>2
  <2>5. \A k \in Keys : saved[k].closed => saved'[k].closed
    BY <2>4
  <2>6. \A u \in Captured : u # s => session'[u] = session[u]
    BY <1>0, <2>1
  <2>7. \A k \in Keys : \A u \in Captured : Witness(k, u) =>
          saved'[k].closed \/ \E v \in Captured' : ingested'[v].key = k /\ session'[v] \in Live
    BY <2>1, <2>3, <2>4, <2>6 DEF Witness, KeyOf
  <2> QED
    BY <2>1, <2>5, <2>7, QuietStays
<1>6. ASSUME UNCHANGED <<ingested, saved, restarts, failures>>,
             \A s \in Ids : session[s] \in Live => session'[s] \in Live
      PROVE  QuietIsClosed'
  <2>1. Captured' = Captured
    BY <1>6 DEF Captured
  <2>2. \A k \in Keys : \A s \in Captured : Witness(k, s) =>
          ingested'[s].key = k /\ session'[s] \in Live
    BY <1>0, <1>6 DEF Witness, KeyOf
  <2> QED
    BY <1>6, <2>1, <2>2, QuietStays
<1>7. ASSUME NEW s \in Ids, Begin(s) \/ \E answered \in BOOLEAN : Settle(s, answered)
      PROVE  QuietIsClosed'
  BY <1>6, <1>7 DEF Begin, Settle, rowVars, boundVars
<1>8. ASSUME NEW k \in Keys, CloseIdle(k)
      PROVE  QuietIsClosed'
  <2>1. /\ UNCHANGED <<ingested, saved, restarts, failures>>
        /\ session' = [session EXCEPT ![open[k]] = "waiting"]
    BY <1>8 DEF CloseIdle, rowVars, boundVars
  <2> QED
    BY <1>0, <1>6, <2>1 DEF Live
<1>9. ASSUME NEW s \in Ids, CloseSettles(s)
      PROVE  QuietIsClosed'
  <2>1. /\ UNCHANGED <<ingested, saved, restarts, failures>>
        /\ session' = [session EXCEPT ![s] = "asking"]
    BY <1>9 DEF CloseSettles, boundVars
  <2> QED
    BY <1>0, <1>6, <2>1 DEF Live
<1>10. ASSUME restarts' = restarts + 1 \/ failures' = failures + 1
       PROVE  QuietIsClosed'
  BY <1>0, <1>10 DEF QuietIsClosed
<1>11. ASSUME NEW s \in Ids, LabelsRejected(s) \/ RollupRejected(s) \/ CloseRejected(s)
       PROVE  QuietIsClosed'
  BY <1>10, <1>11 DEF LabelsRejected, RollupRejected, Rejected, CloseRejected
<1>12. ASSUME Restart
       PROVE  QuietIsClosed'
  BY <1>10, <1>12 DEF Restart
<1>13. ASSUME NEW s \in Ids, ProcessStep(s) \/ CloseStep(s)
       PROVE  QuietIsClosed'
  BY <1>4, <1>5, <1>7, <1>9, <1>11, <1>13 DEF ProcessStep, CloseStep
<1> QED
  BY <1>1, <1>8, <1>12, <1>13 DEF LabelerNext

\* A key whose sessions have all ended has a rollup that is marked closed, unless
\* the daemon restarted or a write failed.
THEOREM QuietSessionsAreClosed == LabelerSpec => []QuietIsClosed
<1>1. LabelerInit => QuietIsClosed
  BY DEF LabelerInit, QuietIsClosed
<1>2. ChainsInv /\ WordsInv /\ QuietIsClosed /\ [LabelerNext]_labelerVars => QuietIsClosed'
  <2> SUFFICES ASSUME ChainsInv, WordsInv, QuietIsClosed, [LabelerNext]_labelerVars
               PROVE  QuietIsClosed'
    OBVIOUS
  <2>1. CASE UNCHANGED labelerVars
    BY <2>1 DEF labelerVars, sessionVars, rowVars, boundVars, QuietIsClosed, KeyOf, Captured
  <2>2. CASE LabelerNext
    BY <2>2, QuietStep DEF WordsInv
  <2> QED
    BY <2>1, <2>2
<1> QED
  BY <1>1, <1>2, ChainsAreInOrder, WordsAreKept, PTL DEF LabelerSpec

----------------------------------------------------------------------------
(* Counts carry on.                                                        *)

\* The exchanges of a key, and those with labels, can be counted.
LEMMA ExchangesCount ==
  ASSUME ChainsInv, NEW k
  PROVE  /\ IsFiniteSet(ExchangesOf(k)) /\ Cardinality(ExchangesOf(k)) \in Nat
         /\ IsFiniteSet(Labelled(k)) /\ Cardinality(Labelled(k)) \in Nat
<1>1. IsFiniteSet(1..Len(ingested))
  BY CapturedIds, FS_Interval DEF ChainsInv
<1>2. ExchangesOf(k) \subseteq 1..Len(ingested) /\ Labelled(k) \subseteq 1..Len(ingested)
  BY DEF ExchangesOf, Labelled, Captured
<1> QED
  BY <1>1, <1>2, FS_Subset, FS_CardinalityType

\* An exchange adds to those of its key.
LEMMA ExchangesGrow ==
  ASSUME ChainsInv, NEW k \in Keys, NEW view \in Views, NEW h \in Ids, NEW e,
         Capturing(e, k, view, h), NEW j
  PROVE  /\ j # k => ExchangesOf(j)' = ExchangesOf(j)
         /\ j = k => Cardinality(ExchangesOf(j)') = Cardinality(ExchangesOf(j)) + 1
         /\ Cardinality(ExchangesOf(j)') \in Nat
         /\ Cardinality(ExchangesOf(j)) <= Cardinality(ExchangesOf(j)')
<1>1. /\ Captured' = Captured \cup {e} /\ ingested'[e].key = k /\ e \notin Captured
      /\ \A x \in Captured : ingested'[x] = ingested[x]
  BY DEF Capturing
<1>2. IsFiniteSet(ExchangesOf(j)) /\ Cardinality(ExchangesOf(j)) \in Nat
  BY ExchangesCount
<1>3. CASE j # k
  <2>1. ExchangesOf(j)' = ExchangesOf(j)
    BY <1>1, <1>3 DEF ExchangesOf
  <2> QED
    BY <1>2, <1>3, <2>1
<1>4. CASE j = k
  <2>1. ExchangesOf(j)' = ExchangesOf(j) \cup {e} /\ e \notin ExchangesOf(j)
    BY <1>1, <1>4 DEF ExchangesOf
  <2>2. Cardinality(ExchangesOf(j) \cup {e}) = Cardinality(ExchangesOf(j)) + 1
    BY <1>2, <2>1, FS_AddElement
  <2> QED
    BY <1>2, <1>4, <2>1, <2>2
<1> QED
  BY <1>3, <1>4

\* An exchange that is captured will be counted once.
LEMMA CapturedCounts ==
  ASSUME ChainsInv, RowTypeOK, CountInv, NEW k \in Keys, NEW view \in Views, NEW h \in Ids, NEW e,
         Capturing(e, k, view, h),
         \/ h \in Captured /\ KeyOf(h) = k /\ exchanges' = exchanges
         \/ h = e /\ exchanges' = [exchanges EXCEPT ![e] = saved[k].exchanges]
  PROVE  CountInv'
<1>1. /\ Captured' = Captured \cup {e} /\ e \notin Captured /\ e \in Ids
      /\ \A x \in Captured : ingested'[x] = ingested[x]
      /\ ingested'[e].key = k
      /\ at' = at /\ saved' = saved
      /\ chain' = [chain EXCEPT ![h] = Append(@, e)]
  BY DEF Capturing, rowVars
<1>2. /\ chain \in [Ids -> Seq(Ids)] /\ Captured \subseteq Ids
      /\ exchanges \in [Ids -> Nat]
      /\ saved \in [Keys -> [closed : BOOLEAN, exchanges : Nat]]
  BY CapturedIds DEF ChainsInv, SessionTypeOK, RowTypeOK
<1>3. /\ Len(chain'[h]) = Len(chain[h]) + 1
      /\ \A s \in Ids : s # h => chain'[s] = chain[s]
      /\ \A s \in Ids : Len(chain[s]) \in Nat
  <2>1. chain'[h] = Append(chain[h], e) /\ chain[h] \in Seq(Ids)
    BY <1>1, <1>2
  <2>2. Len(Append(chain[h], e)) = Len(chain[h]) + 1
    BY <1>1, <2>1, EndOfQueue
  <2>3. \A s \in Ids : s # h => chain'[s] = chain[s]
    BY <1>1, <1>2
  <2>4. \A s \in Ids : Len(chain[s]) \in Nat
    BY <1>2, LenProperties
  <2> QED
    BY <2>1, <2>2, <2>3, <2>4
<1>4. chain[e] = <<>> /\ at[e] = "idle" /\ exchanges[e] = 0 /\ Len(chain[e]) = 0
  <2>1. chain[e] = <<>> /\ at[e] = "idle" /\ exchanges[e] = 0
    BY <1>1 DEF ChainsInv, HomesInv, CountInv
  <2> QED
    BY <2>1
<1>5. ASSUME NEW s \in Captured', NEW j \in Keys, ingested'[s].key = j
      PROVE  exchanges'[s] + Len(chain'[s]) <= Cardinality(ExchangesOf(j)') + Begun(s)'
  <2>n. PICK n : n = Cardinality(ExchangesOf(j))
    OBVIOUS
  <2>m. PICK m : m = Cardinality(ExchangesOf(j)')
    OBVIOUS
  <2>1. n \in Nat /\ m \in Nat /\ n <= m /\ (j = k => m = n + 1)
    BY <2>n, <2>m, ExchangesCount, ExchangesGrow
  <2>2. Begun(s)' = Begun(s) /\ Begun(s) \in Nat
    BY <1>1 DEF Begun
  <2>3. s \in Ids /\ exchanges[s] \in Nat /\ Len(chain[s]) \in Nat
    BY <1>1, <1>2, <1>3
  <2>4. CASE s \in Captured
    <3>1. j = KeyOf(s)
      BY <1>1, <1>5, <2>4 DEF KeyOf
    <3>2. exchanges[s] + Len(chain[s]) <= n + Begun(s)
      BY <2>4, <2>n, <3>1 DEF CountInv
    <3>3. exchanges'[s] = exchanges[s]
      BY <1>1, <1>2, <2>4
    <3>4. CASE s = h
      <4>1. j = k
        BY <1>1, <2>4, <3>1, <3>4
      <4> QED
        BY <1>3, <2>1, <2>2, <2>3, <2>m, <3>2, <3>3, <3>4, <4>1
    <3>5. CASE s # h
      <4>1. chain'[s] = chain[s]
        BY <1>3, <2>3, <3>5
      <4> QED
        BY <2>1, <2>2, <2>3, <2>m, <3>2, <3>3, <4>1
    <3> QED
      BY <3>4, <3>5
  <2>5. CASE s = e
    <3>1. j = k /\ m = n + 1
      BY <1>1, <1>5, <2>1, <2>5
    <3>2. CASE h = e
      <4>1. exchanges'[e] = saved[k].exchanges /\ saved[k].exchanges <= n
        BY <1>1, <1>2, <2>n, <3>1, <3>2 DEF CountInv
      <4>2. Len(chain'[e]) = 1 /\ saved[k].exchanges \in Nat
        BY <1>2, <1>3, <1>4, <3>2
      <4> QED
        BY <2>1, <2>2, <2>5, <2>m, <3>1, <4>1, <4>2
    <3>3. CASE h # e
      <4>1. exchanges'[e] = 0 /\ chain'[e] = chain[e]
        BY <1>1, <1>3, <1>4, <3>3
      <4> QED
        BY <1>4, <2>1, <2>2, <2>5, <2>m, <4>1
    <3> QED
      BY <3>2, <3>3
  <2> QED
    BY <1>1, <2>4, <2>5
<1>6. ASSUME NEW j \in Keys
      PROVE  saved'[j].exchanges <= Cardinality(ExchangesOf(j)')
  <2>1. saved[j].exchanges \in Nat /\ saved[j].exchanges <= Cardinality(ExchangesOf(j))
    BY <1>2 DEF CountInv
  <2>2. /\ Cardinality(ExchangesOf(j)) \in Nat /\ Cardinality(ExchangesOf(j)') \in Nat
        /\ Cardinality(ExchangesOf(j)) <= Cardinality(ExchangesOf(j)')
    BY ExchangesCount, ExchangesGrow
  <2> QED
    BY <1>1, <2>1, <2>2
<1>7. \A s \in Ids \ Captured' : exchanges'[s] = 0
  BY <1>1, <1>2 DEF CountInv
<1> QED
  BY <1>5, <1>6, <1>7 DEF CountInv, KeyOf

\* What is counted and queued stays within n, and one more that is begun.
LEMMA CountsMove ==
  ASSUME NEW n \in Nat, NEW counted \in Nat, NEW queued \in Nat, NEW begun \in Nat,
         NEW counts \in Nat, NEW queues \in Nat, NEW begins \in Nat,
         counted + queued <= n + begun, counts + queues + begun <= counted + queued + begins
  PROVE  counts + queues <= n + begins
OBVIOUS

\* A step of one session, which counts nothing twice, keeps the counts.
LEMMA SessionCounts ==
  ASSUME ChainsInv, RowTypeOK, CountInv, NEW s \in Captured, ingested' = ingested,
         \A u \in Ids : u # s => /\ exchanges'[u] = exchanges[u] /\ at'[u] = at[u]
                                 /\ Len(chain'[u]) = Len(chain[u]),
         exchanges'[s] + Len(chain'[s]) + Begun(s) <= exchanges[s] + Len(chain[s]) + Begun(s)',
         exchanges'[s] \in Nat, Len(chain'[s]) \in Nat,
         \A k \in Keys : \/ saved'[k].exchanges = saved[k].exchanges
                         \/ k = KeyOf(s) /\ saved'[k].exchanges = exchanges[s],
         (\A k \in Keys : saved'[k].exchanges = saved[k].exchanges)
           \/ \A k \in Keys : k = KeyOf(s) => exchanges[s] <= Cardinality(ExchangesOf(k))
  PROVE  CountInv'
<1>1. Captured' = Captured /\ Captured \subseteq Ids
  BY CapturedIds DEF Captured, ChainsInv
<1>2. \A k : ExchangesOf(k)' = ExchangesOf(k)
  BY <1>1 DEF ExchangesOf
<1>3. /\ exchanges \in [Ids -> Nat] /\ \A u \in Ids : Len(chain[u]) \in Nat
      /\ saved \in [Keys -> [closed : BOOLEAN, exchanges : Nat]]
  BY LenProperties DEF ChainsInv, SessionTypeOK, RowTypeOK
<1>4. ASSUME NEW u \in Captured, NEW j \in Keys, ingested'[u].key = j
      PROVE  exchanges'[u] + Len(chain'[u]) <= Cardinality(ExchangesOf(j)') + Begun(u)'
  <2>n. PICK n : n = Cardinality(ExchangesOf(j))
    OBVIOUS
  <2>1. n \in Nat /\ exchanges[u] + Len(chain[u]) <= n + Begun(u)
    BY <1>4, <2>n, ExchangesCount DEF CountInv, KeyOf
  <2>2. Cardinality(ExchangesOf(j)') = n
    BY <1>2, <2>n
  <2>3. CASE u # s
    <3>1. exchanges'[u] = exchanges[u] /\ Len(chain'[u]) = Len(chain[u]) /\ Begun(u)' = Begun(u)
      BY <1>1, <2>3 DEF Begun
    <3> QED
      BY <2>1, <2>2, <3>1
  <2>4. CASE u = s
    <3>1. Begun(s) \in Nat /\ Begun(s)' \in Nat
      BY DEF Begun
    <3>2. exchanges[s] \in Nat /\ Len(chain[s]) \in Nat
      BY <1>1, <1>3
    <3>3. exchanges'[s] + Len(chain'[s]) <= n + Begun(s)'
      <4>1. PICK a, l, b : a = exchanges[s] /\ l = Len(chain[s]) /\ b = Begun(s)
        OBVIOUS
      <4>2. PICK aa, ll, bb : aa = exchanges'[s] /\ ll = Len(chain'[s]) /\ bb = Begun(s)'
        OBVIOUS
      <4>3. /\ n \in Nat /\ a \in Nat /\ l \in Nat /\ b \in Nat
            /\ aa \in Nat /\ ll \in Nat /\ bb \in Nat
        BY <2>1, <3>1, <3>2, <4>1, <4>2
      <4>4. a + l <= n + b
        BY <2>1, <2>4, <4>1
      <4>5. aa + ll + b <= a + l + bb
        BY <4>1, <4>2
      <4>6. aa + ll <= n + bb
        BY <4>3, <4>4, <4>5, CountsMove
      <4> QED
        BY <4>2, <4>6
    <3> QED
      BY <2>2, <2>4, <3>3
  <2> QED
    BY <2>3, <2>4
<1>5. ASSUME NEW k \in Keys
      PROVE  saved'[k].exchanges <= Cardinality(ExchangesOf(k)')
  <2>1. saved[k].exchanges <= Cardinality(ExchangesOf(k))
    BY DEF CountInv
  <2>2. Cardinality(ExchangesOf(k)') = Cardinality(ExchangesOf(k))
    BY <1>2
  <2> QED
    BY <2>1, <2>2
<1>6. \A u \in Ids \ Captured' : exchanges'[u] = 0
  BY <1>1 DEF CountInv
<1> QED
  BY <1>1, <1>4, <1>5, <1>6 DEF CountInv, KeyOf

\* Labelling counts an exchange when it begins, and no more.
LEMMA StepCounts ==
  ASSUME ChainsInv, RowTypeOK, CountInv, NEW s \in Ids, ProcessStep(s)
  PROVE  CountInv'
<1>1. /\ chain \in [Ids -> Seq(Ids)] /\ at \in [Ids -> {"idle", "settling", "asking"}]
      /\ exchanges \in [Ids -> Nat]
      /\ saved \in [Keys -> [closed : BOOLEAN, exchanges : Nat]]
  BY DEF ChainsInv, SessionTypeOK, RowTypeOK
<1>2. /\ chain[s] # <<>>
      /\ \/ at[s] = "idle" /\ Begin(s)
         \/ at[s] # "idle" /\ ~Begin(s)
  <2>1. at[s] # "idle" => chain[s] # <<>>
    BY DEF ChainsInv, QueueInv
  <2> QED
    BY <2>1 DEF ProcessStep, Begin, Settle, Record, LabelsRejected, RollupRejected, Rejected
<1>3. s \in Captured /\ KeyOf(s) \in Keys
  BY <1>2, CapturedIds DEF ChainsInv, HomesInv, KeyOf
<1>4. Len(chain[s]) \in Nat \ {0} /\ Len(Tail(chain[s])) = Len(chain[s]) - 1 /\ exchanges[s] \in Nat
  BY <1>1, <1>2, TailOfQueue
<1>5. CASE Begin(s)
  <2>1. /\ ingested' = ingested /\ chain' = chain /\ saved' = saved
        /\ exchanges' = [exchanges EXCEPT ![s] = @ + 1]
        /\ \E a \in {"settling", "asking"} : at' = [at EXCEPT ![s] = a]
    BY <1>5 DEF Begin, rowVars
  <2>2. /\ exchanges'[s] = exchanges[s] + 1 /\ at'[s] # "idle" /\ at[s] = "idle"
        /\ \A u \in Ids : u # s => exchanges'[u] = exchanges[u] /\ at'[u] = at[u]
    BY <1>1, <1>2, <1>5, <2>1
  <2>3. Begun(s) = 0 /\ Begun(s)' = 1
    BY <2>2 DEF Begun
  <2>4. exchanges'[s] + Len(chain'[s]) + Begun(s) <= exchanges[s] + Len(chain[s]) + Begun(s)'
    BY <1>4, <2>1, <2>2, <2>3
  <2>5. exchanges'[s] \in Nat /\ Len(chain'[s]) \in Nat
    BY <1>4, <2>1, <2>2
  <2> QED
    BY <1>3, <2>1, <2>2, <2>4, <2>5, SessionCounts
<1>6. CASE \E answered \in BOOLEAN : Settle(s, answered)
  <2>1. /\ ingested' = ingested /\ chain' = chain /\ saved' = saved /\ exchanges' = exchanges
        /\ at' = [at EXCEPT ![s] = "asking"] /\ at[s] = "settling"
    BY <1>6 DEF Settle
  <2>2. at'[s] = "asking" /\ \A u \in Ids : u # s => at'[u] = at[u]
    BY <1>1, <2>1
  <2>3. Begun(s) = 1 /\ Begun(s)' = 1
    BY <2>1, <2>2 DEF Begun
  <2>4. exchanges'[s] + Len(chain'[s]) + Begun(s) <= exchanges[s] + Len(chain[s]) + Begun(s)'
    BY <1>4, <2>1, <2>3
  <2> QED
    BY <1>3, <1>4, <2>1, <2>2, <2>4, SessionCounts
<1>7. CASE Record(s) \/ RollupRejected(s) \/ LabelsRejected(s)
  <2>1. /\ ingested' = ingested /\ chain' = [chain EXCEPT ![s] = Tail(@)]
        /\ exchanges' = exchanges /\ at' = [at EXCEPT ![s] = "idle"] /\ at[s] # "idle"
        /\ \/ saved' = saved
           \/ saved' = [saved EXCEPT ![KeyOf(s)] = [closed |-> FALSE, exchanges |-> exchanges[s]]]
    BY <1>7 DEF Record, RollupRejected, LabelsRejected, Rejected, PublishSession, rowVars
  <2>2. /\ \A u \in Ids : u # s => at'[u] = at[u] /\ chain'[u] = chain[u]
        /\ at'[s] = "idle" /\ chain'[s] = Tail(chain[s])
    BY <1>1, <2>1
  <2>3. Begun(s) = 1 /\ Begun(s)' = 0
    BY <2>1, <2>2 DEF Begun
  <2>4. exchanges'[s] + Len(chain'[s]) + Begun(s) <= exchanges[s] + Len(chain[s]) + Begun(s)'
    <3>1. exchanges'[s] = exchanges[s] /\ Len(chain'[s]) = Len(chain[s]) - 1
      BY <1>4, <2>1, <2>2
    <3> QED
      BY <1>4, <2>3, <3>1
  <2>5. \A k \in Keys : \/ saved'[k].exchanges = saved[k].exchanges
                        \/ k = KeyOf(s) /\ saved'[k].exchanges = exchanges[s]
    BY <1>1, <2>1
  <2>6. ASSUME NEW k \in Keys, k = KeyOf(s)
        PROVE  exchanges[s] <= Cardinality(ExchangesOf(k))
    <3>1. exchanges[s] + Len(chain[s]) <= Cardinality(ExchangesOf(k)) + 1
      BY <1>3, <2>3, <2>6 DEF CountInv
    <3>2. Cardinality(ExchangesOf(k)) \in Nat
      BY ExchangesCount
    <3> QED
      BY <1>4, <3>1, <3>2
  <2>7. exchanges'[s] \in Nat /\ Len(chain'[s]) \in Nat
    BY <1>4, <2>1, <2>2
  <2> QED
    BY <1>3, <2>1, <2>2, <2>4, <2>5, <2>6, <2>7, SessionCounts
<1> QED
  BY <1>5, <1>6, <1>7 DEF ProcessStep

\* Nothing is counted by a session that closes; its rollup says what it counted.
LEMMA CloseCounts ==
  ASSUME ChainsInv, RowTypeOK, CountInv, NEW s \in Ids, CloseStep(s)
  PROVE  CountInv'
<1>1. /\ exchanges \in [Ids -> Nat] /\ chain \in [Ids -> Seq(Ids)]
      /\ saved \in [Keys -> [closed : BOOLEAN, exchanges : Nat]]
  BY DEF ChainsInv, SessionTypeOK, RowTypeOK
<1>2. /\ UNCHANGED <<ingested, chain, at>> /\ session[s] \in Live
      /\ \/ exchanges' = exchanges
         \/ exchanges' = [exchanges EXCEPT ![s] = 0]
      /\ \/ saved' = saved
         \/ saved' = [saved EXCEPT ![KeyOf(s)] = [closed |-> TRUE, exchanges |-> exchanges[s]]]
      /\ session[s] = "asking" \/ chain[s] = <<>>
  BY DEF CloseStep, CloseSettles, CloseEnds, CloseRejected, Dropped, PublishSession, rowVars, Live
<1>3. s \in Captured /\ chain[s] = <<>> /\ at[s] = "idle"
  BY <1>2 DEF ChainsInv, HomesInv, QueueInv, Live
<1>4. /\ Begun(s) = 0 /\ Begun(s)' = 0 /\ Len(chain[s]) = 0 /\ exchanges[s] \in Nat
      /\ exchanges'[s] \in {0, exchanges[s]}
      /\ \A u \in Ids : u # s => exchanges'[u] = exchanges[u]
  BY <1>1, <1>2, <1>3 DEF Begun
<1>5. exchanges'[s] + Len(chain'[s]) + Begun(s) <= exchanges[s] + Len(chain[s]) + Begun(s)'
  BY <1>2, <1>4
<1>6. \A k \in Keys : \/ saved'[k].exchanges = saved[k].exchanges
                      \/ k = KeyOf(s) /\ saved'[k].exchanges = exchanges[s]
  BY <1>1, <1>2
<1>7. ASSUME NEW k \in Keys, k = KeyOf(s)
      PROVE  exchanges[s] <= Cardinality(ExchangesOf(k))
  <2>1. exchanges[s] + Len(chain[s]) <= Cardinality(ExchangesOf(k)) + Begun(s)
    BY <1>3, <1>7 DEF CountInv
  <2>2. Cardinality(ExchangesOf(k)) \in Nat
    BY ExchangesCount
  <2> QED
    BY <1>4, <2>1, <2>2
<1>8. exchanges'[s] \in Nat /\ Len(chain'[s]) \in Nat
  BY <1>2, <1>4
<1> QED
  BY <1>2, <1>3, <1>4, <1>5, <1>6, <1>7, <1>8, SessionCounts

\* A new process counts on from the rollups.
LEMMA RestartCounts ==
  ASSUME ChainsInv, RowTypeOK, CountInv, Restart
  PROVE  CountInv'
<1>1. /\ UNCHANGED <<ingested, saved>> /\ chain' = [s \in Ids |-> <<>>]
      /\ exchanges' = [s \in Ids |-> 0] /\ at' = [s \in Ids |-> "idle"]
  BY DEF Restart
<1>2. Captured' = Captured /\ Captured \subseteq Ids
  BY <1>1, CapturedIds DEF Captured, ChainsInv
<1>3. \A k : ExchangesOf(k)' = ExchangesOf(k)
  BY <1>1, <1>2 DEF ExchangesOf
<1>4. ASSUME NEW s \in Captured, NEW k \in Keys
      PROVE  exchanges'[s] + Len(chain'[s]) <= Cardinality(ExchangesOf(k)') + Begun(s)'
  <2>1. exchanges'[s] = 0 /\ Len(chain'[s]) = 0 /\ Begun(s)' = 0
    BY <1>1, <1>2 DEF Begun
  <2>2. Cardinality(ExchangesOf(k)') \in Nat
    BY <1>3, ExchangesCount
  <2> QED
    BY <2>1, <2>2
<1>5. ASSUME NEW k \in Keys
      PROVE  saved'[k].exchanges <= Cardinality(ExchangesOf(k)')
  <2>1. saved[k].exchanges <= Cardinality(ExchangesOf(k))
    BY DEF CountInv
  <2>2. Cardinality(ExchangesOf(k)') = Cardinality(ExchangesOf(k))
    BY <1>3
  <2> QED
    BY <1>1, <2>1, <2>2
<1>6. \A s \in Ids \ Captured' : exchanges'[s] = 0
  BY <1>1
<1> QED
  BY <1>2, <1>4, <1>5, <1>6 DEF CountInv, KeyOf

\* No exchange of a key is counted twice.
LEMMA CountStep ==
  ASSUME ChainsInv, RowTypeOK, CountInv, LabelerNext
  PROVE  CountInv'
<1>1. ASSUME NEW k \in Keys, NEW view \in Views, IngestKnown(k, view) \/ IngestNew(k, view)
      PROVE  CountInv'
  BY <1>1, IngestShape, CapturedCounts
<1>2. ASSUME NEW k \in Keys, CloseIdle(k)
      PROVE  CountInv'
  <2>1. UNCHANGED <<ingested, exchanges, chain, at, saved>>
    BY <1>2 DEF CloseIdle, rowVars
  <2> QED
    BY <2>1 DEF CountInv, ExchangesOf, Captured, KeyOf, Begun
<1> QED
  BY <1>1, <1>2, StepCounts, CloseCounts, RestartCounts DEF LabelerNext

\* Without a classifier a key gets a session when it has none.
LEMMA OneStays ==
  ASSUME ChainsInv, ~classifier, OnePerKey, LabelerNext
  PROVE  OnePerKey'
<1>0. session \in [Ids -> Live \cup {"none", "done"}] /\ Captured \subseteq Ids
  BY CapturedIds DEF ChainsInv, SessionTypeOK
<1>1. ASSUME ingested' = ingested, \A s \in Ids : session'[s] \in Live => session[s] \in Live
      PROVE  OnePerKey'
  <2>1. Captured' = Captured
    BY <1>1 DEF Captured
  <2> QED
    BY <1>0, <1>1, <2>1 DEF OnePerKey, KeyOf
<1>2. ASSUME NEW k \in Keys, NEW view \in Views, IngestKnown(k, view) \/ IngestNew(k, view)
      PROVE  OnePerKey'
  <2>1. PICK h, e \in Ids :
          /\ Capturing(e, k, view, h)
          /\ \/ h \in Captured /\ session' = session
             \/ /\ h = e /\ session[e] = "none" /\ open[k] = 0 /\ Undisturbed
                /\ \A s \in Captured : session'[s] \in {session[s], "waiting"}
                                       /\ (session'[s] # session[s] => session[s] = "open")
    BY <1>2, IngestShape
  <2>2. /\ Captured' = Captured \cup {e} /\ e \notin Captured /\ ingested'[e].key = k
        /\ \A x \in Captured : ingested'[x] = ingested[x]
    BY <2>1 DEF Capturing
  <2>3. \A s \in Captured : session'[s] \in Live => session[s] \in Live
    BY <2>1 DEF Live
  <2>4. \A s \in Captured : ingested'[s].key = KeyOf(s)
    BY <2>2 DEF KeyOf
  <2>5. session'[e] \in Live => \A s \in Captured : session[s] \in Live => KeyOf(s) # k
    <3>1. CASE session' = session
      BY <2>2, <3>1 DEF ChainsInv, HomesInv, Live
    <3>2. CASE open[k] = 0 /\ Undisturbed
      <4>1. \A s \in Captured : session[s] \in Live => session[s] = "open"
        BY <1>0, <3>2 DEF Undisturbed, Working, Live
      <4>2. \A s \in Captured : session[s] = "open" => open[KeyOf(s)] # 0
        BY <1>0 DEF ChainsInv, OpenInv, Ids
      <4> QED
        BY <3>2, <4>1, <4>2
    <3> QED
      BY <2>1, <3>1, <3>2
  <2>6. ASSUME NEW s \in Captured', NEW u \in Captured', session'[s] \in Live, session'[u] \in Live,
               ingested'[s].key = ingested'[u].key
        PROVE  s = u
    <3>1. CASE s \in Captured /\ u \in Captured
      BY <2>3, <2>4, <2>6, <3>1 DEF OnePerKey
    <3>2. CASE s = e \/ u = e
      BY <2>2, <2>3, <2>4, <2>5, <2>6, <3>2
    <3> QED
      BY <2>2, <3>1, <3>2
  <2> QED
    BY <2>6 DEF OnePerKey, KeyOf
<1>3. ASSUME NEW s \in Ids, ProcessStep(s)
      PROVE  OnePerKey'
  <2>1. UNCHANGED <<ingested, session>>
    BY <1>3 DEF ProcessStep, Begin, Settle, Record, LabelsRejected, RollupRejected, Rejected
  <2> QED
    BY <1>1, <2>1
<1>4. ASSUME NEW s \in Ids, CloseStep(s)
      PROVE  OnePerKey'
  <2>1. /\ ingested' = ingested /\ session[s] \in Live
        /\ \E place \in {"asking", "done"} : session' = [session EXCEPT ![s] = place]
    BY <1>4 DEF CloseStep, CloseSettles, CloseEnds, CloseRejected, Live
  <2> QED
    BY <1>0, <1>1, <2>1
<1>5. ASSUME NEW k \in Keys, CloseIdle(k)
      PROVE  OnePerKey'
  <2>1. /\ ingested' = ingested /\ session[open[k]] = "open"
        /\ session' = [session EXCEPT ![open[k]] = "waiting"]
    BY <1>5, OpenOnes DEF CloseIdle, OpenKeys
  <2> QED
    BY <1>0, <1>1, <2>1 DEF Live
<1>6. CASE Restart
  <2>1. /\ ingested' = ingested
        /\ session' = [s \in Ids |-> IF session[s] = "none" THEN "none" ELSE "done"]
    BY <1>6 DEF Restart
  <2> QED
    BY <1>1, <2>1 DEF Live
<1> QED
  BY <1>2, <1>3, <1>4, <1>5, <1>6 DEF LabelerNext

\* The exchanges with labels stay the same when no exchange gets its first ones.
LEMMA LabelledSame ==
  ASSUME ChainsInv, Captured \subseteq Captured', NEW k,
         \A x \in Captured : ingested'[x] = ingested[x]
                             /\ (labels'[x] = NoLabels <=> labels[x] = NoLabels),
         \A x \in Captured' \ Captured : labels'[x] = NoLabels
  PROVE  Labelled(k)' = Labelled(k)
BY DEF Labelled, ExchangesOf

\* Nothing is lost by a step that labels nothing and counts as many as before.
LEMMA RowsSame ==
  ASSUME ChainsInv, RowsInv, ingested' = ingested, restarts' = restarts,
         \A x \in Captured : labels'[x] = NoLabels <=> labels[x] = NoLabels,
         \A k \in Keys : saved'[k].exchanges = saved[k].exchanges,
         \A s \in Captured : session'[s] \in Live => session[s] \in Live,
         \A s \in Captured : session'[s] \in Live =>
           \/ exchanges'[s] = exchanges[s] /\ Begun(s)' = Begun(s)
           \/ exchanges'[s] = exchanges[s] + 1 /\ Begun(s)' = 1 /\ Begun(s) = 0
              /\ exchanges[s] \in Nat
  PROVE  RowsInv'
<1>1. Captured' = Captured
  BY DEF Captured
<1>2. \A k : Labelled(k)' = Labelled(k)
  BY <1>1, LabelledSame
<1>3. restarts \in Nat
  BY DEF ChainsInv, SessionTypeOK
<1>4. ASSUME NEW k \in Keys
      PROVE  Cardinality(Labelled(k)') <= saved'[k].exchanges + restarts'
  <2>1. Cardinality(Labelled(k)) <= saved[k].exchanges + restarts
    BY DEF RowsInv
  <2>2. Cardinality(Labelled(k)') = Cardinality(Labelled(k))
    BY <1>2
  <2> QED
    BY <2>1, <2>2
<1>5. ASSUME NEW s \in Captured, NEW k \in Keys, session'[s] \in Live, KeyOf(s) = k
      PROVE  Cardinality(Labelled(k)') + Begun(s)' <= exchanges'[s] + restarts'
  <2>n. PICK n : n = Cardinality(Labelled(k))
    OBVIOUS
  <2>1. n \in Nat /\ n + Begun(s) <= exchanges[s] + restarts
    BY <1>5, <2>n, ExchangesCount DEF RowsInv
  <2>2. Cardinality(Labelled(k)') = n
    BY <1>2, <2>n
  <2>3. CASE exchanges'[s] = exchanges[s] /\ Begun(s)' = Begun(s)
    BY <2>1, <2>2, <2>3
  <2>4. CASE exchanges'[s] = exchanges[s] + 1 /\ Begun(s)' = 1 /\ Begun(s) = 0
             /\ exchanges[s] \in Nat
    BY <1>3, <2>1, <2>2, <2>4
  <2> QED
    BY <1>5, <2>3, <2>4
<1> QED
  BY <1>1, <1>4, <1>5 DEF RowsInv, KeyOf

\* A set with one element more is one larger at most.
LEMMA OneMore ==
  ASSUME NEW S, IsFiniteSet(S), NEW x, NEW T, T \subseteq S \cup {x}
  PROVE  /\ Cardinality(T) \in Nat /\ Cardinality(S) \in Nat
         /\ Cardinality(T) <= Cardinality(S) + 1
<1>u. PICK U : U = S \cup {x}
  OBVIOUS
<1>1. IsFiniteSet(U) /\ Cardinality(U) = IF x \in S THEN Cardinality(S) ELSE Cardinality(S) + 1
  BY <1>u, FS_AddElement
<1>2. Cardinality(S) \in Nat /\ Cardinality(U) \in Nat
  BY <1>1, FS_CardinalityType
<1>3. IsFiniteSet(T) /\ Cardinality(T) <= Cardinality(U)
  BY <1>1, <1>u, FS_Subset
<1>4. Cardinality(T) \in Nat
  BY <1>3, FS_CardinalityType
<1>5. Cardinality(U) <= Cardinality(S) + 1
  BY <1>1, <1>2
<1> QED
  BY <1>2, <1>3, <1>4, <1>5

\* A session that opens starts from what the rollup says.
LEMMA CapturedRows ==
  ASSUME ChainsInv, WordsInv, RowsInv, NEW k \in Keys, NEW view \in Views,
         IngestKnown(k, view) \/ IngestNew(k, view)
  PROVE  RowsInv'
<1>1. PICK h, e \in Ids :
        /\ Capturing(e, k, view, h)
        /\ \/ h \in Captured /\ exchanges' = exchanges /\ session' = session
           \/ /\ h = e /\ exchanges' = [exchanges EXCEPT ![e] = saved[k].exchanges]
              /\ \A s \in Captured : session'[s] \in {session[s], "waiting"}
                                     /\ (session'[s] # session[s] => session[s] = "open")
  BY IngestShape
<1>2. /\ Captured' = Captured \cup {e} /\ e \notin Captured /\ ingested'[e].key = k
      /\ \A x \in Captured : ingested'[x] = ingested[x]
      /\ UNCHANGED <<at, labels, saved, restarts>>
  BY <1>1 DEF Capturing, rowVars, boundVars
<1>3. labels[e] = NoLabels /\ at[e] = "idle" /\ session[e] = "none"
  BY <1>2 DEF WordsInv, ChainsInv, HomesInv
<1>4. \A j : Labelled(j)' = Labelled(j)
  BY <1>2, <1>3, LabelledSame
<1>5. exchanges \in [Ids -> Nat] /\ Captured \subseteq Ids
  BY CapturedIds DEF WordsInv, RowTypeOK, ChainsInv
<1>6. ASSUME NEW j \in Keys
      PROVE  Cardinality(Labelled(j)') <= saved'[j].exchanges + restarts'
  <2>1. Cardinality(Labelled(j)) <= saved[j].exchanges + restarts
    BY DEF RowsInv
  <2>2. Cardinality(Labelled(j)') = Cardinality(Labelled(j))
    BY <1>4
  <2> QED
    BY <1>2, <2>1, <2>2
<1>7. ASSUME NEW s \in Captured', NEW j \in Keys, session'[s] \in Live, ingested'[s].key = j
      PROVE  Cardinality(Labelled(j)') + Begun(s)' <= exchanges'[s] + restarts'
  <2>1. Cardinality(Labelled(j)') = Cardinality(Labelled(j)) /\ Begun(s)' = Begun(s)
        /\ restarts' = restarts
    BY <1>2, <1>4 DEF Begun
  <2>2. CASE s \in Captured
    <3>1. session[s] \in Live
      BY <1>1, <1>7, <2>2 DEF Live
    <3>2. exchanges'[s] = exchanges[s]
      BY <1>1, <1>2, <1>5, <2>2
    <3>3. KeyOf(s) = j
      BY <1>2, <1>7, <2>2 DEF KeyOf
    <3>4. Cardinality(Labelled(j)) + Begun(s) <= exchanges[s] + restarts
      BY <2>2, <3>1, <3>3 DEF RowsInv
    <3> QED
      BY <2>1, <3>2, <3>4
  <2>3. CASE s = e
    <3>1. j = k /\ Begun(e) = 0
      BY <1>2, <1>3, <1>7, <2>3 DEF Begun
    <3>2. exchanges'[e] = saved[k].exchanges
      BY <1>1, <1>3, <1>5, <1>7, <2>3 DEF Live
    <3>3. /\ Cardinality(Labelled(k)) <= saved[k].exchanges + restarts
          /\ Cardinality(Labelled(k)) \in Nat
      BY ExchangesCount DEF RowsInv
    <3> QED
      BY <2>1, <2>3, <3>1, <3>2, <3>3
  <2> QED
    BY <1>2, <2>2, <2>3
<1> QED
  BY <1>6, <1>7 DEF RowsInv, KeyOf

\* An exchange gets its labels and its session the rollup that counts it.
LEMMA RecordRows ==
  ASSUME ChainsInv, WordsInv, OnePerKey, RowsInv, NEW s \in Ids, Record(s)
  PROVE  RowsInv'
<1>e. PICK e : e = Head(chain[s])
  OBVIOUS
<1>1. /\ at[s] = "asking" /\ UNCHANGED <<ingested, session, exchanges, restarts>>
      /\ at' = [at EXCEPT ![s] = "idle"]
      /\ labels' = [labels EXCEPT ![e] = IF ingested[e].view.claim THEN Unit ELSE Plain]
      /\ saved' = [saved EXCEPT ![KeyOf(s)] = [closed |-> FALSE, exchanges |-> exchanges[s]]]
  BY <1>e DEF Record, PublishSession, boundVars
<1>2. ClaimInv(s) /\ chain[s] # <<>> /\ session[s] \in Live
  BY <1>1 DEF ChainsInv, QueueInv, WordsInv, Live
<1>3. e \in Captured /\ s \in Captured /\ e \in Ids
  BY <1>2, <1>e, HeadOfQueue
<1>4. /\ Captured' = Captured /\ Captured \subseteq Ids
      /\ exchanges \in [Ids -> Nat] /\ restarts \in Nat
      /\ at \in [Ids -> {"idle", "settling", "asking"}]
      /\ saved \in [Keys -> [closed : BOOLEAN, exchanges : Nat]]
  BY <1>1, CapturedIds DEF Captured, WordsInv, RowTypeOK, ChainsInv, SessionTypeOK
<1>5. \A x \in Ids : x # e => labels'[x] = labels[x]
  BY <1>1, <1>3 DEF WordsInv, RowTypeOK
<1>6. PICK k \in Keys : k = KeyOf(s)
  BY <1>3, CapturedIds DEF KeyOf, ChainsInv
<1>7. ASSUME NEW j
      PROVE  /\ Cardinality(Labelled(j)') \in Nat /\ Cardinality(Labelled(j)) \in Nat
             /\ Cardinality(Labelled(j)') <= Cardinality(Labelled(j)) + 1
             /\ j # k => Cardinality(Labelled(j)') = Cardinality(Labelled(j))
  <2>1. IsFiniteSet(Labelled(j)) /\ Cardinality(Labelled(j)) \in Nat
    BY ExchangesCount
  <2>2. Labelled(j)' \subseteq Labelled(j) \cup {e}
    BY <1>1, <1>4, <1>5 DEF Labelled, ExchangesOf
  <2>3. PICK S : S = Labelled(j)
    OBVIOUS
  <2>4. PICK T : T = Labelled(j)'
    OBVIOUS
  <2>5. j # k => Labelled(j)' = Labelled(j)
    <3>1. ingested[e].key = k
      <4>1. ingested[e].home = s
        BY <1>2, <1>e, HeadOfQueue
      <4> QED
        BY <1>3, <1>6, <4>1 DEF ChainsInv, HomesInv
    <3> QED
      BY <1>1, <1>4, <1>5, <3>1 DEF Labelled, ExchangesOf
  <2>6. /\ Cardinality(T) \in Nat /\ Cardinality(S) \in Nat
        /\ Cardinality(T) <= Cardinality(S) + 1
    BY <2>1, <2>2, <2>3, <2>4, OneMore
  <2> QED
    BY <2>3, <2>4, <2>5, <2>6
<1>8. Begun(s) = 1 /\ Begun(s)' = 0
  BY <1>1, <1>4 DEF Begun
<1>9. Cardinality(Labelled(k)) + 1 <= exchanges[s] + restarts
  BY <1>2, <1>3, <1>6, <1>8 DEF RowsInv
<1>10. Cardinality(Labelled(k)') <= exchanges[s] + restarts
  <2>1. exchanges[s] \in Nat
    BY <1>4
  <2> QED
    BY <1>4, <1>7, <1>9, <2>1
<1>11. ASSUME NEW j \in Keys
       PROVE  Cardinality(Labelled(j)') <= saved'[j].exchanges + restarts'
  <2>1. CASE j = k
    <3>1. saved'[k].exchanges = exchanges[s]
      BY <1>1, <1>4, <1>6
    <3> QED
      BY <1>1, <1>10, <2>1, <3>1
  <2>2. CASE j # k
    <3>1. saved'[j] = saved[j]
      BY <1>1, <1>4, <1>6, <2>2
    <3>2. Cardinality(Labelled(j)') = Cardinality(Labelled(j))
      BY <1>7, <2>2
    <3> QED
      BY <1>1, <3>1, <3>2 DEF RowsInv
  <2> QED
    BY <2>1, <2>2
<1>12. ASSUME NEW u \in Captured, NEW j \in Keys, session[u] \in Live, KeyOf(u) = j
       PROVE  Cardinality(Labelled(j)') + Begun(u)' <= exchanges[u] + restarts
  <2>1. CASE u = s
    BY <1>6, <1>7, <1>8, <1>10, <1>12, <2>1
  <2>2. CASE u # s
    <3>1. j # k
      BY <1>2, <1>3, <1>6, <1>12, <2>2 DEF OnePerKey
    <3>2. Begun(u)' = Begun(u)
      BY <1>1, <1>4, <2>2 DEF Begun
    <3>3. Cardinality(Labelled(j)') = Cardinality(Labelled(j))
      BY <1>7, <3>1
    <3> QED
      BY <1>12, <3>2, <3>3 DEF RowsInv
  <2> QED
    BY <2>1, <2>2
<1> QED
  BY <1>1, <1>4, <1>11, <1>12 DEF RowsInv, KeyOf

\* What a restart loses is the exchange whose rollup was not written any more.
LEMMA RestartRows ==
  ASSUME ChainsInv, WordsInv, RowsInv, Restart
  PROVE  RowsInv'
<1>1. /\ UNCHANGED <<ingested, saved>> /\ restarts' = restarts + 1
      /\ session' = [s \in Ids |-> IF session[s] = "none" THEN "none" ELSE "done"]
  BY DEF Restart
<1>2. PICK half \in SUBSET Ids :
        /\ Cardinality(half) <= 1
        /\ labels' = [e \in Ids |-> IF \E s \in half : e = Head(chain[s])
                                    THEN IF ingested[e].view.claim THEN Unit ELSE Plain
                                    ELSE labels[e]]
  BY DEF Restart
<1>3. /\ Captured' = Captured /\ Captured \subseteq Ids /\ restarts \in Nat
      /\ saved \in [Keys -> [closed : BOOLEAN, exchanges : Nat]]
  BY <1>1, CapturedIds DEF Captured, ChainsInv, SessionTypeOK, WordsInv, RowTypeOK
<1>4. \E x : half \subseteq {x}
  <2>1. IsFiniteSet(half) /\ Cardinality(half) \in Nat
    <3>1. IsFiniteSet(Ids)
      BY FS_Interval, BoundsAssumption DEF Ids
    <3> QED
      BY <3>1, FS_Subset, FS_CardinalityType
  <2>2. Cardinality(half) = 0 \/ Cardinality(half) = 1
    BY <1>2, <2>1
  <2>3. Cardinality(half) = 0 => half = {}
    BY <2>1, FS_EmptySet
  <2>4. Cardinality(half) = 1 => \E x : half = {x}
    BY <2>1, FS_Singleton
  <2> QED
    BY <2>2, <2>3, <2>4
<1>5. PICK e : \A x \in Ids : x # e => labels'[x] = labels[x]
  BY <1>2, <1>4
<1>6. ASSUME NEW k \in Keys
      PROVE  Cardinality(Labelled(k)') <= saved'[k].exchanges + restarts'
  <2>1. IsFiniteSet(Labelled(k)) /\ Cardinality(Labelled(k)) \in Nat
    BY ExchangesCount
  <2>2. Labelled(k)' \subseteq Labelled(k) \cup {e}
    BY <1>1, <1>3, <1>5 DEF Labelled, ExchangesOf
  <2>3. PICK S : S = Labelled(k)
    OBVIOUS
  <2>4. PICK T : T = Labelled(k)'
    OBVIOUS
  <2>5. /\ Cardinality(T) \in Nat /\ Cardinality(S) \in Nat
        /\ Cardinality(T) <= Cardinality(S) + 1
    BY <2>1, <2>2, <2>3, <2>4, OneMore
  <2>6. Cardinality(S) <= saved[k].exchanges + restarts /\ saved[k].exchanges \in Nat
    BY <1>3, <2>3 DEF RowsInv
  <2>7. Cardinality(T) <= saved[k].exchanges + (restarts + 1)
    BY <1>3, <2>5, <2>6
  <2> QED
    BY <1>1, <2>4, <2>7
<1>7. \A s \in Captured : session'[s] \notin Live
  BY <1>1, <1>3 DEF Live
<1> QED
  BY <1>1, <1>3, <1>6, <1>7 DEF RowsInv

\* Without a classifier and failures, each restart loses one exchange at most.
LEMMA LossStep ==
  ASSUME ChainsInv, WordsInv, LossInv, LabelerNext
  PROVE  LossInv'
<1> SUFFICES ASSUME ~classifier PROVE OnePerKey' /\ (failures' = 0 => RowsInv')
  <2>1. classifier' = classifier
    BY DEF LabelerNext, IngestKnown, IngestNew, Queue, ProcessStep, Begin, Settle, Record,
           LabelsRejected, RollupRejected, Rejected, CloseStep, CloseSettles, CloseEnds,
           CloseRejected, CloseIdle, Restart
  <2> QED
    BY <2>1 DEF LossInv
<1>1. OnePerKey'
  BY OneStays DEF LossInv
<1>2. failures \in Nat /\ (failures' = failures \/ failures' = failures + 1)
  <2>1. failures \in Nat
    BY DEF ChainsInv, SessionTypeOK
  <2> QED
    BY <2>1 DEF LabelerNext, IngestKnown, IngestNew, Queue, ProcessStep, Begin, Settle, Record,
           LabelsRejected, RollupRejected, Rejected, CloseStep, CloseSettles, CloseEnds,
           CloseRejected, CloseIdle, Restart, boundVars
<1> SUFFICES ASSUME failures' = 0 PROVE RowsInv'
  BY <1>1
<1>3. failures = 0 /\ OnePerKey /\ RowsInv
  BY <1>2 DEF LossInv
<1>4. /\ exchanges \in [Ids -> Nat] /\ at \in [Ids -> {"idle", "settling", "asking"}]
      /\ session \in [Ids -> Live \cup {"none", "done"}] /\ Captured \subseteq Ids
      /\ saved \in [Keys -> [closed : BOOLEAN, exchanges : Nat]]
      /\ labels \in [Ids -> {NoLabels, Plain, Unit, NoReply} \cup {VerdictOf(r) : r \in Ids}]
  BY CapturedIds DEF ChainsInv, SessionTypeOK, WordsInv, RowTypeOK
<1>5. ASSUME NEW k \in Keys, NEW view \in Views, IngestKnown(k, view) \/ IngestNew(k, view)
      PROVE  RowsInv'
  BY <1>3, <1>5, CapturedRows
<1>6. ASSUME NEW s \in Ids, Begin(s)
      PROVE  RowsInv'
  <2>1. /\ UNCHANGED <<ingested, restarts, labels, saved, session>> /\ at[s] = "idle"
        /\ exchanges' = [exchanges EXCEPT ![s] = @ + 1]
        /\ \E a \in {"settling", "asking"} : at' = [at EXCEPT ![s] = a]
    BY <1>6 DEF Begin, rowVars, boundVars
  <2>2. ASSUME NEW u \in Captured
        PROVE  \/ exchanges'[u] = exchanges[u] /\ Begun(u)' = Begun(u)
               \/ exchanges'[u] = exchanges[u] + 1 /\ Begun(u)' = 1 /\ Begun(u) = 0
                  /\ exchanges[u] \in Nat
    <3>1. CASE u = s
      BY <1>4, <2>1, <3>1 DEF Begun
    <3>2. CASE u # s
      BY <1>4, <2>1, <3>2 DEF Begun
    <3> QED
      BY <3>1, <3>2
  <2> QED
    BY <1>3, <2>1, <2>2, RowsSame
<1>7. ASSUME NEW s \in Ids, NEW answered \in BOOLEAN, Settle(s, answered)
      PROVE  RowsInv'
  <2>t. PICK t : t = judged[s]
    OBVIOUS
  <2>e. PICK e : e = Head(chain[s])
    OBVIOUS
  <2>1. /\ UNCHANGED <<ingested, restarts, saved, session, exchanges>> /\ at[s] = "settling"
        /\ at' = [at EXCEPT ![s] = "asking"]
        /\ labels' = [labels EXCEPT ![t] = IF answered THEN VerdictOf(e) ELSE Unit]
    BY <1>7, <2>t, <2>e DEF Settle, boundVars
  <2>2. \A u \in Captured : Begun(u)' = Begun(u)
    BY <1>4, <2>1 DEF Begun
  <2>3. ClaimInv(s) /\ chain[s] # <<>>
    BY <2>1 DEF WordsInv, ChainsInv, QueueInv
  <2>4. e \in Ids
    BY <2>3, <2>e, HeadOfQueue
  <2>5. t \in Ids => labels[t] # NoLabels
    BY <2>1, <2>3, <2>t, LabelKinds DEF ClaimInv, Waits
  <2>6. \A x \in Captured : labels'[x] = NoLabels <=> labels[x] = NoLabels
    BY <1>4, <2>1, <2>4, <2>5, LabelKinds
  <2> QED
    BY <1>3, <2>1, <2>2, <2>6, RowsSame
<1>8. ASSUME NEW s \in Ids, CloseSettles(s)
      PROVE  RowsInv'
  <2>t. PICK t : t = pending[s]
    OBVIOUS
  <2>1. /\ UNCHANGED <<ingested, restarts, saved, exchanges, at>>
        /\ session[s] = "waiting" /\ session' = [session EXCEPT ![s] = "asking"]
        /\ labels' = [x \in Ids |-> IF x = t THEN NoReply ELSE labels[x]]
    BY <1>8, <2>t DEF CloseSettles, boundVars
  <2>2. t \in Ids => labels[t] # NoLabels
    BY <2>t, LabelKinds DEF WordsInv, ClaimInv, Waits
  <2>3. \A x \in Captured : labels'[x] = NoLabels <=> labels[x] = NoLabels
    BY <1>4, <2>1, <2>2, LabelKinds
  <2>4. \A u \in Captured : session'[u] \in Live => session[u] \in Live
    BY <1>4, <2>1 DEF Live
  <2>5. \A u \in Captured : Begun(u)' = Begun(u)
    BY <2>1 DEF Begun
  <2> QED
    BY <1>3, <2>1, <2>3, <2>4, <2>5, RowsSame
<1>9. ASSUME NEW k \in Keys, CloseIdle(k)
      PROVE  RowsInv'
  <2>1. /\ UNCHANGED <<ingested, restarts, saved, labels, exchanges, at>>
        /\ session[open[k]] = "open" /\ session' = [session EXCEPT ![open[k]] = "waiting"]
    BY <1>9, OpenOnes DEF CloseIdle, OpenKeys, rowVars, boundVars
  <2>2. \A u \in Captured : session'[u] \in Live => session[u] \in Live
    BY <1>4, <2>1 DEF Live
  <2>3. \A u \in Captured : Begun(u)' = Begun(u)
    BY <2>1 DEF Begun
  <2> QED
    BY <1>3, <2>1, <2>2, <2>3, RowsSame
<1>10. ASSUME NEW s \in Ids, CloseEnds(s)
       PROVE  RowsInv'
  <2>1. /\ UNCHANGED <<ingested, restarts, labels, at>>
        /\ session[s] = "asking" /\ session' = [session EXCEPT ![s] = "done"]
        /\ exchanges' = [exchanges EXCEPT ![s] = 0]
        /\ saved' = [saved EXCEPT ![KeyOf(s)] = [closed |-> TRUE, exchanges |-> exchanges[s]]]
    BY <1>10 DEF CloseEnds, Dropped, PublishSession, boundVars
  <2>2. s \in Captured /\ at[s] = "idle" /\ session[s] \in Live
    BY <2>1 DEF ChainsInv, HomesInv, QueueInv, Live
  <2>3. Captured' = Captured /\ \A k : Labelled(k)' = Labelled(k)
    BY <2>1 DEF Captured, Labelled, ExchangesOf
  <2>4. ASSUME NEW k \in Keys
        PROVE  Cardinality(Labelled(k)') <= saved'[k].exchanges + restarts'
    <3>1. Cardinality(Labelled(k)') = Cardinality(Labelled(k)) /\ restarts' = restarts
      BY <2>1, <2>3
    <3>2. CASE k = KeyOf(s)
      <4>1. saved'[k].exchanges = exchanges[s]
        BY <1>4, <2>1, <3>2
      <4>2. Cardinality(Labelled(k)) + 0 <= exchanges[s] + restarts
        BY <1>3, <2>2, <3>2 DEF RowsInv, Begun
      <4>3. Cardinality(Labelled(k)) \in Nat
        BY ExchangesCount
      <4> QED
        BY <3>1, <4>1, <4>2, <4>3
    <3>3. CASE k # KeyOf(s)
      <4>1. saved'[k] = saved[k]
        BY <1>4, <2>1, <3>3
      <4> QED
        BY <1>3, <3>1, <4>1 DEF RowsInv
    <3> QED
      BY <3>2, <3>3
  <2>5. ASSUME NEW u \in Captured, NEW k \in Keys, session'[u] \in Live, KeyOf(u) = k
        PROVE  Cardinality(Labelled(k)') + Begun(u)' <= exchanges'[u] + restarts'
    <3>1. u # s /\ session[u] \in Live
      BY <1>4, <2>1, <2>2, <2>5 DEF Live
    <3>2. exchanges'[u] = exchanges[u] /\ Begun(u)' = Begun(u) /\ restarts' = restarts
      BY <1>4, <2>1, <3>1 DEF Begun
    <3>3. Cardinality(Labelled(k)') = Cardinality(Labelled(k))
      BY <2>3
    <3> QED
      BY <1>3, <2>5, <3>1, <3>2, <3>3 DEF RowsInv
  <2> QED
    BY <2>1, <2>3, <2>4, <2>5 DEF RowsInv, KeyOf
<1>11. \A s \in Ids : ~LabelsRejected(s) /\ ~RollupRejected(s) /\ ~CloseRejected(s)
  BY <1>2, <1>3 DEF LabelsRejected, RollupRejected, Rejected, CloseRejected
<1>12. ASSUME NEW s \in Ids, ProcessStep(s)
       PROVE  RowsInv'
  BY <1>3, <1>6, <1>7, <1>11, <1>12, RecordRows DEF ProcessStep
<1>13. ASSUME NEW s \in Ids, CloseStep(s)
       PROVE  RowsInv'
  BY <1>8, <1>10, <1>11, <1>13 DEF CloseStep
<1> QED
  BY <1>3, <1>5, <1>9, <1>12, <1>13, RestartRows DEF LabelerNext

\* No exchange is counted twice, and little is lost.
THEOREM CountsAreKept == LabelerSpec => [](CountInv /\ LossInv)
<1>1. LabelerInit => CountInv /\ LossInv
  <2> SUFFICES ASSUME LabelerInit PROVE CountInv /\ LossInv
    OBVIOUS
  <2>1. Captured = {}
    BY DEF LabelerInit, Captured
  <2>2. \A k : ExchangesOf(k) = {} /\ Labelled(k) = {}
    BY <2>1 DEF ExchangesOf, Labelled
  <2>3. \A k : Cardinality(ExchangesOf(k)) = 0 /\ Cardinality(Labelled(k)) = 0
    BY <2>2, FS_EmptySet
  <2>i. /\ \A s \in Ids : exchanges[s] = 0
        /\ \A k \in Keys : saved[k].exchanges = 0
        /\ restarts = 0
    BY DEF LabelerInit
  <2>4. CountInv
    BY <2>1, <2>3, <2>i DEF CountInv
  <2>5. LossInv
    BY <2>1, <2>3, <2>i DEF LossInv, OnePerKey, RowsInv
  <2> QED
    BY <2>4, <2>5
<1>2. ChainsInv /\ WordsInv /\ CountInv /\ LossInv /\ [LabelerNext]_labelerVars
        => (CountInv /\ LossInv)'
  <2> SUFFICES ASSUME ChainsInv, WordsInv, CountInv, LossInv, [LabelerNext]_labelerVars
               PROVE  CountInv' /\ LossInv'
    OBVIOUS
  <2>1. CASE UNCHANGED labelerVars
    BY <2>1 DEF labelerVars, sessionVars, rowVars, boundVars, CountInv, LossInv, OnePerKey, RowsInv,
                Labelled, ExchangesOf, Begun, KeyOf, Captured
  <2>2. CASE LabelerNext
    BY <2>2, CountStep, LossStep DEF WordsInv
  <2> QED
    BY <2>1, <2>2
<1> QED
  BY <1>1, <1>2, ChainsAreInOrder, WordsAreKept, PTL DEF LabelerSpec

\* No count exceeds what was captured.
LEMMA CountsInRange ==
  ASSUME ChainsInv, WordsInv, CountInv
  PROVE  /\ exchanges \in [Ids -> 0..MaxExchanges]
         /\ saved \in [Keys -> [closed : BOOLEAN, exchanges : 0..MaxExchanges]]
<1>1. /\ exchanges \in [Ids -> Nat] /\ Len(ingested) \in Nat /\ Len(ingested) <= MaxExchanges
      /\ chain \in [Ids -> Seq(Ids)]
      /\ saved \in [Keys -> [closed : BOOLEAN, exchanges : Nat]]
  BY CapturedIds DEF ChainsInv, SessionTypeOK, HomesInv, WordsInv, RowTypeOK
<1>2. ASSUME NEW k
      PROVE  Cardinality(ExchangesOf(k)) \in Nat /\ Cardinality(ExchangesOf(k)) <= MaxExchanges
  <2>1. IsFiniteSet(1..Len(ingested)) /\ Cardinality(1..Len(ingested)) = Len(ingested)
    <3>1. PICK n : n = Len(ingested)
      OBVIOUS
    <3>2. n \in Nat /\ 1 \in Int /\ n \in Int
      BY <1>1, <3>1
    <3>3. IsFiniteSet(1..n) /\ Cardinality(1..n) = IF 1 > n THEN 0 ELSE n - 1 + 1
      BY <3>2, FS_Interval
    <3>4. Cardinality(1..n) = n
      BY <3>2, <3>3
    <3> QED
      BY <3>1, <3>3, <3>4
  <2>2. ExchangesOf(k) \subseteq 1..Len(ingested)
    BY DEF ExchangesOf, Captured
  <2>3. Cardinality(ExchangesOf(k)) <= Len(ingested)
    BY <2>1, <2>2, FS_Subset
  <2>4. Cardinality(ExchangesOf(k)) \in Nat
    BY ExchangesCount
  <2> QED
    BY <1>1, <2>3, <2>4, BoundsAssumption
<1>3. ASSUME NEW s \in Ids
      PROVE  exchanges[s] \in 0..MaxExchanges
  <2>1. CASE s \in Captured
    <3>1. PICK k \in Keys : KeyOf(s) = k
      BY <2>1, CapturedIds DEF KeyOf, ChainsInv
    <3>2. exchanges[s] + Len(chain[s]) <= Cardinality(ExchangesOf(k)) + Begun(s)
      BY <2>1, <3>1 DEF CountInv
    <3>3. chain[s] # <<>> => Len(chain[s]) \in Nat \ {0}
      BY <1>1, TailOfQueue
    <3>4. at[s] # "idle" => chain[s] # <<>>
      BY DEF ChainsInv, QueueInv
    <3>5. Len(chain[s]) \in Nat /\ Begun(s) \in {0, 1} /\ Begun(s) <= Len(chain[s])
      <4>1. Len(chain[s]) \in Nat
        BY <1>1, LenProperties
      <4>2. CASE at[s] = "idle"
        BY <4>1, <4>2 DEF Begun
      <4>3. CASE at[s] # "idle"
        BY <3>3, <3>4, <4>3 DEF Begun
      <4> QED
        BY <4>2, <4>3
    <3>6. exchanges[s] <= Cardinality(ExchangesOf(k)) /\ exchanges[s] \in Nat
      <4>1. exchanges[s] \in Nat /\ Cardinality(ExchangesOf(k)) \in Nat
        BY <1>1, <1>2
      <4> QED
        BY <3>2, <3>5, <4>1
    <3> QED
      BY <1>2, <3>6, BoundsAssumption
  <2>2. CASE s \notin Captured
    BY <2>2, BoundsAssumption DEF CountInv
  <2> QED
    BY <2>1, <2>2
<1>4. ASSUME NEW k \in Keys
      PROVE  saved[k] \in [closed : BOOLEAN, exchanges : 0..MaxExchanges]
  <2>1. saved[k] \in [closed : BOOLEAN, exchanges : Nat]
    BY <1>1
  <2>2. saved[k].exchanges <= Cardinality(ExchangesOf(k))
    BY DEF CountInv
  <2>3. saved[k].exchanges \in 0..MaxExchanges
    BY <1>2, <2>1, <2>2, BoundsAssumption
  <2> QED
    BY <2>1, <2>3
<1> QED
  BY <1>1, <1>3, <1>4

\* Every variable has its type, and a verdict is about the user's next words in
\* that very session: for any keys, views and bounds.
THEOREM SessionVerdicts == LabelerSpec => []VerdictsAreRight
<1>1. ASSUME ChainsInv, WordsInv, CountInv
      PROVE  VerdictsAreRight
  <2>1. LabelerTypeOK
    <3>1. Live \cup {"none", "done"} = {"none", "open", "waiting", "asking", "done"}
      BY DEF Live
    <3> QED
      BY <1>1, <3>1, CountsInRange DEF ChainsInv, SessionTypeOK, OpenInv, HomesInv, WordsInv,
         RowTypeOK, LabelerTypeOK
  <2>2. ASSUME NEW t \in Captured, labels[t].state = "judged"
        PROVE  /\ labels[t].by > t
               /\ ingested[labels[t].by].home = ingested[t].home
               /\ ingested[labels[t].by].view.request
               /\ \A x \in Between(t, labels[t].by) : ~Supersedes(x)
               /\ ingested[t].view.claim
    <3>1. PICK r \in Ids : labels[t] = VerdictOf(r)
      <4>1. labels[t] \in {NoLabels, Plain, Unit, NoReply} \cup {VerdictOf(r) : r \in Ids}
        BY <1>1, CapturedIds DEF WordsInv, RowTypeOK, ChainsInv
      <4> QED
        BY <2>2, <4>1 DEF NoLabels, Plain, Unit, NoReply
    <3>2. labels[t].by = r
      BY <3>1 DEF VerdictOf
    <3>3. Replied(t, r)
      BY <1>1, <3>1 DEF WordsInv, VerdictInv
    <3> QED
      BY <3>2, <3>3 DEF Replied, Between, Ids, Captured
  <2>3. ASSUME NEW t \in Captured, labels[t].state = "noReply"
        PROVE  /\ \A x \in Between(t, Len(ingested) + 1) : ~Supersedes(x)
               /\ ingested[t].view.claim
    <3>1. labels[t] = NoReply
      <4>1. labels[t] \in {NoLabels, Plain, Unit, NoReply} \cup {VerdictOf(r) : r \in Ids}
        BY <1>1, CapturedIds DEF WordsInv, RowTypeOK, ChainsInv
      <4> QED
        BY <2>3, <4>1 DEF NoLabels, Plain, Unit, NoReply, VerdictOf
    <3>2. Unreplied(t)
      BY <1>1, <3>1 DEF WordsInv, VerdictInv
    <3> QED
      BY <3>2 DEF Unreplied, Between
  <2> QED
    BY <2>1, <2>2, <2>3 DEF VerdictsAreRight
<1> QED
  BY <1>1, ChainsAreInOrder, WordsAreKept, CountsAreKept, PTL

\* Counts carry on when sessions are evicted and reopened, or the daemon restarts.
THEOREM SessionCountsCarryOn == LabelerSpec => []CountsCarryOn
<1>1. CountInv /\ LossInv => CountsCarryOn
  BY DEF CountInv, LossInv, RowsInv, CountsCarryOn, Labelled
<1> QED
  BY <1>1, CountsAreKept, PTL
=============================================================================
