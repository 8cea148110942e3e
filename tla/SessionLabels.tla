---------------------------- MODULE SessionLabels ----------------------------
(***************************************************************************)
(* The session labeler of the daemon (packages/session-labels: labeler;    *)
(* apps/daemon: runtime): exchanges are queued on the session they belong  *)
(* to and labelled one after the other, a session closes when it idles or  *)
(* when there are too many.                                                *)
(*                                                                         *)
(* An exchange is named by its place in the order of capture, a session by *)
(* the exchange that opened it.  Rules and answers are abstract: an        *)
(* exchange may hold a human request, and may claim that work is done.  A  *)
(* classifier takes its time to answer; without one nothing else happens   *)
(* between the steps of labelling, which are microtasks.                   *)
(***************************************************************************)
EXTENDS Naturals, Sequences, FiniteSets

CONSTANTS
  Keys,          \* session keys
  Views,         \* what an exchange may hold: a request, a claim, both or neither
  MaxSessions,   \* the labeler's limit of open sessions
  MaxExchanges,  \* bound on captured exchanges
  MaxTroubles    \* bound on restarts and failed writes

ASSUME ViewsAssumption == Views \subseteq [request : BOOLEAN, claim : BOOLEAN]
ASSUME MaxSessionsAssumption == MaxSessions \in Nat \ {0}
ASSUME BoundsAssumption == MaxExchanges \in Nat /\ MaxTroubles \in Nat

VARIABLES
  classifier,  \* whether a classifier is configured
  ingested,    \* the captured exchanges, each with the session it was queued on
  open,        \* the session that is open for a key, 0 if none
  session,     \* where a session is in its life
  chain,       \* the exchanges queued on a session, the first being labelled
  at,          \* the ask the first one waits for
  judged,      \* the claim whose verdict is asked for
  pending,     \* the claim that waits for the user's reply, 0 if none
  exchanges,   \* a session's count of exchanges
  lastSeen,    \* when a session was last used, counted in exchanges
  labels,      \* trace_labels rows
  saved,       \* session_labels rows
  restarts, failures

sessionVars == <<open, session, chain, at, judged, pending, exchanges, lastSeen>>
rowVars == <<labels, saved>>
boundVars == <<restarts, failures>>
labelerVars == <<classifier, ingested, sessionVars, rowVars, boundVars>>

Ids == 1..MaxExchanges

NoLabels == [state |-> "none", by |-> 0]
Plain == [state |-> "plain", by |-> 0]
Unit == [state |-> "unit", by |-> 0]        \* a work unit without a verdict
NoReply == [state |-> "noReply", by |-> 0]
VerdictOf(r) == [state |-> "judged", by |-> r]

LabelerInit ==
  /\ classifier \in BOOLEAN
  /\ ingested = <<>>
  /\ open = [k \in Keys |-> 0]
  /\ session = [s \in Ids |-> "none"]
  /\ chain = [s \in Ids |-> <<>>]
  /\ at = [s \in Ids |-> "idle"]
  /\ judged = [s \in Ids |-> 0]
  /\ pending = [s \in Ids |-> 0]
  /\ exchanges = [s \in Ids |-> 0]
  /\ lastSeen = [s \in Ids |-> 0]
  /\ labels = [e \in Ids |-> NoLabels]
  /\ saved = [k \in Keys |-> [closed |-> TRUE, exchanges |-> 0]]
  /\ restarts = 0 /\ failures = 0

KeyOf(s) == ingested[s].key

\* The rollup of a session is written over that of its key.
PublishSession(s, isClosed) ==
  saved' = [saved EXCEPT ![KeyOf(s)] = [closed |-> isClosed, exchanges |-> exchanges[s]]]

Working(s) == chain[s] # <<>> \/ session[s] \in {"waiting", "asking"}

\* Without a classifier, other callbacks run only when no labelling is under way.
Undisturbed == classifier \/ \A s \in Ids : ~Working(s)

----------------------------------------------------------------------------
(* ingest, called when a trace has been encrypted.                         *)

Queue(e, k, view, home) ==
  /\ ingested' = Append(ingested, [key |-> k, view |-> view, home |-> home])
  /\ chain' = [chain EXCEPT ![home] = Append(@, e)]
  /\ lastSeen' = [lastSeen EXCEPT ![home] = e]
  /\ UNCHANGED <<classifier, at, judged, pending, rowVars, boundVars>>

IngestKnown(k, view) ==
  LET e == Len(ingested) + 1 IN
  /\ e \in Ids /\ Undisturbed
  /\ open[k] # 0
  /\ Queue(e, k, view, open[k])
  /\ UNCHANGED <<open, session, exchanges>>

OpenKeys == {k \in Keys : open[k] # 0}

\* The key whose session has to go to make room: the one used least recently.
Evicted ==
  IF Cardinality(OpenKeys) < MaxSessions THEN {{}}
  ELSE {{k} : k \in {j \in OpenKeys : \A i \in OpenKeys : lastSeen[open[j]] <= lastSeen[open[i]]}}

\* Mutant of IngestNew: the saved rollup is not restored.
IngestAnew(k, view) ==
  LET e == Len(ingested) + 1 IN
  /\ e \in Ids /\ Undisturbed
  /\ open[k] = 0
  /\ \E gone \in Evicted :
       /\ open' = [j \in Keys |-> IF j = k THEN e ELSE IF j \in gone THEN 0 ELSE open[j]]
       /\ session' = [s \in Ids |-> IF s = e THEN "open"
                                    ELSE IF \E j \in gone : s = open[j] THEN "waiting"
                                    ELSE session[s]]
  /\ exchanges' = [exchanges EXCEPT ![e] = 0]
  /\ Queue(e, k, view, e)

\* sessionFor opens a session that counts on from the saved rollup.
IngestNew(k, view) ==
  LET e == Len(ingested) + 1 IN
  /\ e \in Ids /\ Undisturbed
  /\ open[k] = 0
  /\ \E gone \in Evicted :
       /\ open' = [j \in Keys |-> IF j = k THEN e ELSE IF j \in gone THEN 0 ELSE open[j]]
       /\ session' = [s \in Ids |-> IF s = e THEN "open"
                                    ELSE IF \E j \in gone : s = open[j] THEN "waiting"
                                    ELSE session[s]]
  /\ exchanges' = [exchanges EXCEPT ![e] = saved[k].exchanges]
  /\ Queue(e, k, view, e)

----------------------------------------------------------------------------
(* process, for the first exchange of a session's chain.                   *)

\* The exchange is counted; a human request settles the claim that is pending.
Begin(s) ==
  /\ chain[s] # <<>> /\ at[s] = "idle"
  /\ exchanges' = [exchanges EXCEPT ![s] = @ + 1]
  /\ IF ingested[Head(chain[s])].view.request /\ pending[s] # 0
     THEN /\ at' = [at EXCEPT ![s] = "settling"]
          /\ judged' = [judged EXCEPT ![s] = pending[s]]
          /\ pending' = [pending EXCEPT ![s] = 0]
     ELSE /\ at' = [at EXCEPT ![s] = "asking"]
          /\ UNCHANGED <<judged, pending>>
  /\ UNCHANGED <<classifier, ingested, open, session, chain, lastSeen, rowVars, boundVars>>

\* The claim's labels are written again, with a verdict if the classifier had one.
Settle(s, answered) ==
  /\ at[s] = "settling" /\ (answered => classifier)
  /\ at' = [at EXCEPT ![s] = "asking"]
  /\ labels' = [labels EXCEPT ![judged[s]] = IF answered THEN VerdictOf(Head(chain[s])) ELSE Unit]
  /\ judged' = [judged EXCEPT ![s] = 0]
  /\ UNCHANGED <<classifier, ingested, open, session, chain, pending, exchanges, lastSeen, saved,
                 boundVars>>

\* The questions have been answered, or not: the labels of the exchange and
\* then the rollup of its session are written.
Record(s) ==
  LET e == Head(chain[s]) IN
  /\ at[s] = "asking"
  /\ labels' = [labels EXCEPT ![e] = IF ingested[e].view.claim THEN Unit ELSE Plain]
  /\ pending' = [pending EXCEPT ![s] = IF ingested[e].view.claim THEN e ELSE @]
  /\ PublishSession(s, FALSE)
  /\ at' = [at EXCEPT ![s] = "idle"]
  /\ chain' = [chain EXCEPT ![s] = Tail(@)]
  /\ lastSeen' = [lastSeen EXCEPT ![s] = Len(ingested)]
  /\ UNCHANGED <<classifier, ingested, open, session, judged, exchanges, boundVars>>

\* Mutant of Rejected: nothing catches what process throws, and the chain stays
\* rejected.
RejectedForGood(s) ==
  /\ restarts + failures < MaxTroubles /\ failures' = failures + 1
  /\ at' = [at EXCEPT ![s] = "stuck"]
  /\ UNCHANGED <<classifier, ingested, chain, open, session, judged, exchanges, restarts>>

\* A write throws; the chain goes on with the next exchange.
Rejected(s) ==
  /\ restarts + failures < MaxTroubles /\ failures' = failures + 1
  /\ at' = [at EXCEPT ![s] = "idle"]
  /\ chain' = [chain EXCEPT ![s] = Tail(@)]
  /\ judged' = [judged EXCEPT ![s] = 0]
  /\ UNCHANGED <<classifier, ingested, open, session, exchanges, restarts>>

\* The verdict, or the labels of the exchange, could not be written.
LabelsRejected(s) ==
  /\ at[s] \in {"settling", "asking"}
  /\ Rejected(s)
  /\ UNCHANGED <<pending, lastSeen, rowVars>>

\* The labels were written, the rollup was not.
RollupRejected(s) ==
  LET e == Head(chain[s]) IN
  /\ at[s] = "asking"
  /\ Rejected(s)
  /\ labels' = [labels EXCEPT ![e] = IF ingested[e].view.claim THEN Unit ELSE Plain]
  /\ pending' = [pending EXCEPT ![s] = IF ingested[e].view.claim THEN e ELSE @]
  /\ lastSeen' = [lastSeen EXCEPT ![s] = Len(ingested)]
  /\ UNCHANGED saved

ProcessStep(s) ==
  \/ Begin(s) \/ Record(s) \/ LabelsRejected(s) \/ RollupRejected(s)
  \/ \E answered \in BOOLEAN : Settle(s, answered)

----------------------------------------------------------------------------
(* close.                                                                  *)

\* closeIdle takes a session that was not used for idleMs.
CloseIdle(k) ==
  /\ open[k] # 0 /\ Undisturbed
  /\ session' = [session EXCEPT ![open[k]] = "waiting"]
  /\ open' = [open EXCEPT ![k] = 0]
  /\ UNCHANGED <<classifier, ingested, chain, at, judged, pending, exchanges, lastSeen, rowVars,
                 boundVars>>

\* Mutant of CloseSettles: the chain is not awaited.
CloseSettlesEarly(s) ==
  /\ session[s] = "waiting"
  /\ session' = [session EXCEPT ![s] = "asking"]
  /\ labels' = [e \in Ids |-> IF e = pending[s] THEN NoReply ELSE labels[e]]
  /\ pending' = [pending EXCEPT ![s] = 0]
  /\ UNCHANGED <<classifier, ingested, open, chain, at, judged, exchanges, lastSeen, saved,
                 boundVars>>

\* The chain has run dry: a claim that still waits gets no reply.
CloseSettles(s) ==
  /\ session[s] = "waiting" /\ chain[s] = <<>>
  /\ session' = [session EXCEPT ![s] = "asking"]
  /\ labels' = [e \in Ids |-> IF e = pending[s] THEN NoReply ELSE labels[e]]
  /\ pending' = [pending EXCEPT ![s] = 0]
  /\ UNCHANGED <<classifier, ingested, open, chain, at, judged, exchanges, lastSeen, saved,
                 boundVars>>

\* Nothing refers to the session's state any more.
Dropped(s) ==
  /\ exchanges' = [exchanges EXCEPT ![s] = 0]
  /\ lastSeen' = [lastSeen EXCEPT ![s] = 0]

\* Mutant of CloseEnds: the last rollup is not marked closed.
CloseEndsOpen(s) ==
  /\ session[s] = "asking"
  /\ session' = [session EXCEPT ![s] = "done"]
  /\ PublishSession(s, FALSE)
  /\ Dropped(s)
  /\ UNCHANGED <<classifier, ingested, open, chain, at, judged, pending, labels, boundVars>>

\* The last questions have been asked: the closed rollup is written.
CloseEnds(s) ==
  /\ session[s] = "asking"
  /\ session' = [session EXCEPT ![s] = "done"]
  /\ PublishSession(s, TRUE)
  /\ Dropped(s)
  /\ UNCHANGED <<classifier, ingested, open, chain, at, judged, pending, labels, boundVars>>

\* A write of close throws.
CloseRejected(s) ==
  /\ restarts + failures < MaxTroubles /\ failures' = failures + 1
  /\ \/ session[s] = "waiting" /\ chain[s] = <<>> /\ pending[s] # 0
     \/ session[s] = "asking"
  /\ session' = [session EXCEPT ![s] = "done"]
  /\ pending' = [pending EXCEPT ![s] = 0]
  /\ Dropped(s)
  /\ UNCHANGED <<classifier, ingested, open, chain, at, judged, rowVars, restarts>>

CloseStep(s) == CloseSettles(s) \/ CloseEnds(s) \/ CloseRejected(s)

----------------------------------------------------------------------------
\* The process ends, at once or by a shutdown, which does not close sessions
\* either, and starts again.  It may die between the two writes of Record.
Restart ==
  /\ restarts + failures < MaxTroubles /\ restarts' = restarts + 1
  /\ \E half \in {h \in SUBSET Ids : \A s \in h : at[s] = "asking"} :
       /\ Cardinality(half) <= 1
       /\ labels' = [e \in Ids |-> IF \E s \in half : e = Head(chain[s])
                                   THEN IF ingested[e].view.claim THEN Unit ELSE Plain
                                   ELSE labels[e]]
  /\ open' = [k \in Keys |-> 0]
  /\ session' = [s \in Ids |-> IF session[s] = "none" THEN "none" ELSE "done"]
  /\ chain' = [s \in Ids |-> <<>>]
  /\ at' = [s \in Ids |-> "idle"]
  /\ judged' = [s \in Ids |-> 0] /\ pending' = [s \in Ids |-> 0]
  /\ exchanges' = [s \in Ids |-> 0] /\ lastSeen' = [s \in Ids |-> 0]
  /\ UNCHANGED <<classifier, ingested, saved, failures>>

LabelerNext ==
  \/ \E k \in Keys, view \in Views :
       IngestKnown(k, view) \/ IngestNew(k, view)
  \/ \E s \in Ids : ProcessStep(s) \/ CloseStep(s)
  \/ \E k \in Keys : CloseIdle(k)
  \/ Restart

LabelerSpec == LabelerInit /\ [][LabelerNext]_labelerVars

\* A question is answered or times out, idle sessions are looked for every
\* minute, and a session that gets no exchange becomes idle.
FairLabelerSpec ==
  /\ LabelerSpec
  /\ \A s \in Ids : WF_labelerVars(ProcessStep(s)) /\ WF_labelerVars(CloseStep(s))
  /\ \A k \in Keys : WF_labelerVars(CloseIdle(k))

----------------------------------------------------------------------------
(* Properties.                                                             *)

Captured == 1..Len(ingested)

\* Every variable has its type, a key's session is its own and open, and there
\* are never more of them than the labeler allows, although the one that makes
\* room takes its time to close.
LabelerTypeOK ==
  /\ classifier \in BOOLEAN
  /\ ingested \in Seq([key : Keys, view : Views, home : Ids])
  /\ Len(ingested) <= MaxExchanges
  /\ open \in [Keys -> {0} \cup Ids]
  /\ \A k \in OpenKeys : open[k] \in Captured /\ KeyOf(open[k]) = k /\ session[open[k]] = "open"
  /\ Cardinality(OpenKeys) <= MaxSessions
  /\ session \in [Ids -> {"none", "open", "waiting", "asking", "done"}]
  /\ chain \in [Ids -> Seq(Ids)]
  /\ at \in [Ids -> {"idle", "settling", "asking"}]
  /\ judged \in [Ids -> {0} \cup Ids] /\ pending \in [Ids -> {0} \cup Ids]
  /\ exchanges \in [Ids -> 0..MaxExchanges] /\ lastSeen \in [Ids -> 0..MaxExchanges]
  /\ labels \in [Ids -> {NoLabels, Plain, Unit, NoReply} \cup {VerdictOf(r) : r \in Ids}]
  /\ saved \in [Keys -> [closed : BOOLEAN, exchanges : 0..MaxExchanges]]
  /\ restarts \in Nat /\ failures \in Nat /\ restarts + failures <= MaxTroubles

\* The exchanges of t's session that came after t, up to and without u.
Between(t, u) == {x \in Captured : t < x /\ x < u /\ ingested[x].home = ingested[t].home}

\* Whether x took the place of an earlier claim as the one that waits for a reply.
Supersedes(x) == ingested[x].view.request \/ (ingested[x].view.claim /\ labels[x] # NoLabels)

\* A verdict on a claim is about the user's next words in that very session,
\* and "no reply" means that there were none: however the classifier, further
\* exchanges, closing and failed writes interleave.
VerdictsAreRight ==
  LabelerTypeOK /\ \A t \in Captured :
    /\ labels[t].state = "judged" =>
         /\ labels[t].by > t
         /\ ingested[labels[t].by].home = ingested[t].home /\ ingested[labels[t].by].view.request
         /\ \A x \in Between(t, labels[t].by) : ~Supersedes(x)
    /\ labels[t].state = "noReply" => \A x \in Between(t, Len(ingested) + 1) : ~Supersedes(x)
    /\ labels[t].state \in {"judged", "noReply"} => ingested[t].view.claim

ExchangesOf(k) == {e \in Captured : ingested[e].key = k}

\* Counts carry on: no exchange of a session is counted twice, when sessions are
\* evicted and reopened, or the daemon restarts; and without a classifier each
\* restart may lose one at most.
CountsCarryOn ==
  \A k \in Keys :
    /\ saved[k].exchanges <= Cardinality(ExchangesOf(k))
    /\ ~classifier /\ failures = 0 =>
         Cardinality({e \in ExchangesOf(k) : labels[e] # NoLabels}) <= saved[k].exchanges + restarts

\* While the daemon has not restarted and no write failed, a key without a
\* session that is open or closing has a rollup that is marked closed.
QuietIsClosed ==
  restarts = 0 /\ failures = 0 =>
    \A k \in Keys :
      \/ saved[k].closed
      \/ \E s \in Captured : KeyOf(s) = k /\ session[s] \in {"open", "waiting", "asking"}

\* All labelling comes to an end: every exchange gets through its session's
\* chain and every session closes, although writes fail on the way.
LabellingEnds == <>[](\A s \in Ids : chain[s] = <<>> /\ session[s] \in {"none", "done"})
=============================================================================
