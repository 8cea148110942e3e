-------------------------- MODULE LifecycleProofs --------------------------
(***************************************************************************)
(* Proofs about Lifecycle, for any commands and any number of crashes: its *)
(* types, and, of commands that do not overlap, that one daemon runs at    *)
(* most, that it is found, and that stop tells the truth.                  *)
(***************************************************************************)
EXTENDS Lifecycle, TLAPS

USE NoneAssumption, MaxCrashesAssumption

\* Before anything was started, the types are right.
LEMMA InitTypeOK == Init => TypeOK
BY DEF Init, TypeOK, Commands

\* Every step of a start, a stop or a daemon preserves the types, and a daemon
\* comes into being only when its command spawns it.
LEMMA NextTypeOK == TypeOK /\ [Next]_vars => TypeOK'
<1> SUFFICES ASSUME TypeOK, [Next]_vars PROVE TypeOK'
  OBVIOUS
<1> USE DEF TypeOK, Commands, commandVars, daemonVars
<1>0. UNCHANGED overlap
  BY DEF Next, vars, processVars
<1> USE <1>0
<1>1. ASSUME NEW s \in Starts, StartLooks(s) \/ StartStep(s) PROVE TypeOK'
  <2>1. CASE StartLooks(s)
    BY <2>1 DEF StartLooks
  <2>2. CASE Spawn(s)
    BY <2>2 DEF Spawn
  <2>3. CASE StartFinds(s)
    BY <2>3 DEF StartFinds
  <2>4. CASE StartEnds(s)
    BY <2>4 DEF StartEnds
  <2>5. CASE StartTimesOut(s)
    BY <2>5 DEF StartTimesOut
  <2>6. CASE StartKilled(s)
    BY <2>6 DEF StartKilled
  <2> QED
    BY <1>1, <2>1, <2>2, <2>3, <2>4, <2>5, <2>6 DEF StartStep
<1>2. ASSUME NEW d \in Starts, DaemonStep(d) \/ Terminate(d) \/ Crash(d) PROVE TypeOK'
  <2>1. CASE Publish(d)
    BY <2>1 DEF Publish
  <2>2. CASE StartupFails(d)
    BY <2>2 DEF StartupFails
  <2>3. CASE Terminate(d)
    BY <2>3 DEF Terminate
  <2>4. CASE ReadOwn(d)
    BY <2>4 DEF ReadOwn
  <2>5. CASE Exit(d)
    BY <2>5 DEF Exit
  <2>6. CASE Crash(d)
    BY <2>6 DEF Crash, Up
  <2> QED
    BY <1>2, <2>1, <2>2, <2>3, <2>4, <2>5, <2>6 DEF DaemonStep
<1>3. ASSUME NEW c \in Stops, StopLooks(c) \/ StopStep(c) PROVE TypeOK'
  <2>1. CASE StopLooks(c)
    BY <2>1 DEF StopLooks
  <2>2. CASE StopLocates(c)
    BY <2>2 DEF StopLocates
  <2>3. CASE StopAsks(c)
    BY <2>3 DEF StopAsks, Reachable
  <2>4. CASE StopRefused(c) \/ StopDone(c) \/ StopTimesOut(c)
    BY <2>4 DEF StopRefused, StopDone, StopTimesOut
  <2>5. CASE StopReads(c)
    BY <2>5 DEF StopReads
  <2>6. CASE StopProbes(c)
    BY <2>6 DEF StopProbes
  <2>7. CASE StopErases(c)
    BY <2>7 DEF StopErases
  <2> QED
    BY <1>3, <2>1, <2>2, <2>3, <2>4, <2>5, <2>6, <2>7 DEF StopStep
<1>4. CASE UNCHANGED vars
  BY <1>4 DEF vars, processVars
<1> QED
  BY <1>1, <1>2, <1>3, <1>4 DEF Next

\* Whether commands overlap or not, the state keeps its types and no descriptor
\* names a daemon that never listened.
THEOREM TypeCorrect == Spec => []TypeOK
<1> QED
  BY InitTypeOK, NextTypeOK, PTL DEF Spec

----------------------------------------------------------------------------
(* Commands that do not overlap.                                           *)

\* Before anything was started, nothing is up and nothing runs.
LEMMA InitSerialInv == Init => SerialInv
<1> SUFFICES ASSUME Init PROVE SerialInv
  OBVIOUS
<1>1. TypeOK
  BY InitTypeOK
<1>2. Published /\ OneCommand
  BY DEF Init, Published, OneCommand, StartRuns, StopRuns
<1>3. (\A s \in Starts : StartInv(s)) /\ (\A c \in Stops : StopInv(c))
  BY DEF Init, StartInv, StopInv, Up
<1> QED
  BY <1>1, <1>2, <1>3 DEF SerialInv

\* A start preserves the invariant.
LEMMA StartSerialInv ==
  ASSUME ~overlap, UNCHANGED overlap, SerialInv, TypeOK', NEW s \in Starts,
         StartLooks(s) \/ StartStep(s)
  PROVE  SerialInv'
<1> USE DEF SerialInv, TypeOK, Commands, Published, OneCommand, StartInv, StopInv,
            StartRuns, StopRuns, Up, commandVars, daemonVars
<1>1. CASE StartLooks(s)
  BY <1>1 DEF StartLooks, MayBegin
<1>2. CASE Spawn(s)
  BY <1>2 DEF Spawn, Reachable
<1>3. CASE StartFinds(s)
  BY <1>3 DEF StartFinds
<1>4. CASE StartEnds(s)
  BY <1>4 DEF StartEnds
<1>5. CASE StartTimesOut(s)
  BY <1>5 DEF StartTimesOut
<1>6. CASE StartKilled(s)
  BY <1>6 DEF StartKilled
<1> QED
  BY <1>1, <1>2, <1>3, <1>4, <1>5, <1>6 DEF StartStep

\* A daemon, a signal or a crash preserves the invariant.
LEMMA DaemonSerialInv ==
  ASSUME ~overlap, UNCHANGED overlap, SerialInv, TypeOK',
         NEW d \in Starts, DaemonStep(d) \/ Terminate(d) \/ Crash(d)
  PROVE  SerialInv'
<1> USE DEF SerialInv, TypeOK, Commands, Published, OneCommand, StartInv, StopInv,
            StartRuns, StopRuns, Up, commandVars, daemonVars
<1>1. CASE Publish(d)
  BY <1>1 DEF Publish
<1>2. CASE StartupFails(d)
  BY <1>2 DEF StartupFails
<1>3. CASE Terminate(d)
  BY <1>3 DEF Terminate, MayBegin
<1>4. CASE ReadOwn(d)
  BY <1>4 DEF ReadOwn
<1>5. CASE Exit(d)
  BY <1>5 DEF Exit
<1>6. CASE Crash(d)
  BY <1>6 DEF Crash
<1> QED
  BY <1>1, <1>2, <1>3, <1>4, <1>5, <1>6 DEF DaemonStep

\* A stop preserves the invariant.
LEMMA StopSerialInv ==
  ASSUME ~overlap, UNCHANGED overlap, SerialInv, TypeOK', NEW c \in Stops,
         StopLooks(c) \/ StopStep(c)
  PROVE  SerialInv'
<1> USE DEF SerialInv, TypeOK, Commands, Published, OneCommand, StartInv, StopInv,
            StartRuns, StopRuns, Up, commandVars, daemonVars
<1>1. CASE StopLooks(c)
  BY <1>1 DEF StopLooks, MayBegin
<1>2. CASE StopLocates(c)
  BY <1>2 DEF StopLocates, Reachable
<1>3. CASE StopAsks(c)
  BY <1>3 DEF StopAsks, Reachable
<1>4. CASE StopRefused(c) \/ StopDone(c) \/ StopTimesOut(c)
  BY <1>4 DEF StopRefused, StopDone, StopTimesOut
<1>5. CASE StopReads(c)
  BY <1>5 DEF StopReads
<1>6. CASE StopProbes(c)
  BY <1>6 DEF StopProbes
<1>7. CASE StopErases(c)
  BY <1>7 DEF StopErases
<1> QED
  BY <1>1, <1>2, <1>3, <1>4, <1>5, <1>6, <1>7 DEF StopStep

\* What the command that runs has seen or spawned accounts for every daemon
\* that is up.
THEOREM SerialInvariant == Spec => []SerialInv
<1>1. SerialInv /\ [Next]_vars => SerialInv'
  <2> SUFFICES ASSUME SerialInv, [Next]_vars PROVE SerialInv'
    OBVIOUS
  <2>1. TypeOK'
    BY NextTypeOK DEF SerialInv
  <2>2. CASE UNCHANGED vars
    BY <2>2 DEF vars, processVars, commandVars, daemonVars, SerialInv, TypeOK, Commands, Published,
                OneCommand, StartInv, StopInv, StartRuns, StopRuns, Up
  <2>3. CASE overlap /\ Next
    BY <2>1, <2>3 DEF Next, SerialInv
  <2> QED
    BY <2>1, <2>2, <2>3, StartSerialInv, DaemonSerialInv, StopSerialInv DEF Next
<1> QED
  BY InitSerialInv, <1>1, PTL DEF Spec

\* The invariant leaves room for one daemon: one that listened is named by the
\* one descriptor, and none is started while another is up.
LEMMA SerialOneDaemon == SerialInv => AtMostOneDaemon
BY DEF SerialInv, AtMostOneDaemon, Published, StartInv, Up

\* However commands time out and daemons die, no two daemons run on a
\* directory when no command begins before the previous one is over.
THEOREM OneDaemon == Spec => []AtMostOneDaemon
BY SerialInvariant, SerialOneDaemon, PTL

\* Then a daemon that serves is the one status, run and stop find.
THEOREM Locatable == Spec => []ServingIsLocatable
<1>1. SerialInv => ServingIsLocatable
  BY DEF SerialInv, Published, ServingIsLocatable
<1> QED
  BY SerialInvariant, <1>1, PTL

\* And a stop that says the daemon has stopped, or that none is running, is
\* right about it.
THEOREM StopIsTruthful == Spec => StopReports
<1> DEFINE Reported == \A c \in Stops : stop'[c] \in {"stopped", "notRunning"} /\ stop[c] # stop'[c]
                         => \A d \in Starts : ~Up(d)
<1>1. SerialInv /\ [Next]_vars => [~overlap => Reported]_vars
  <2> SUFFICES ASSUME SerialInv, Next, ~overlap PROVE Reported
    OBVIOUS
  <2>1. ASSUME NEW s \in Starts, StartLooks(s) \/ StartStep(s)
               \/ DaemonStep(s) \/ Terminate(s) \/ Crash(s)
        PROVE  UNCHANGED stop
    BY <2>1 DEF StartLooks, StartStep, Spawn, StartFinds, StartEnds, StartTimesOut, StartKilled,
                DaemonStep, Publish, StartupFails, ReadOwn, Exit, Terminate, Crash, commandVars
  <2>2. ASSUME NEW c \in Stops, StopLooks(c) \/ StopLocates(c) \/ StopAsks(c)
               \/ StopRefused(c) \/ StopTimesOut(c)
        PROVE  Reported
    BY <2>2 DEF StopLooks, StopLocates, StopAsks, StopRefused, StopTimesOut, SerialInv, TypeOK
  <2>3. ASSUME NEW c \in Stops, StopDone(c) PROVE Reported
    <3>1. StopRuns(c) /\ descriptor = None
      BY <2>3 DEF StopDone, StopRuns
    <3>2. \A d \in Starts : ~Up(d)
      BY <3>1 DEF SerialInv, Published, OneCommand, StartInv, StartRuns, Up
    <3> QED
      BY <3>2
  <2>4. ASSUME NEW c \in Stops, StopReads(c) \/ StopProbes(c) \/ StopErases(c) PROVE Reported
    BY <2>4 DEF StopReads, StopProbes, StopErases, SerialInv, StopInv
  <2> QED
    BY <2>1, <2>2, <2>3, <2>4 DEF Next, StopStep
<1> QED
  BY SerialInvariant, <1>1, PTL DEF Spec, StopReports

----------------------------------------------------------------------------
(* Commands that may overlap.                                              *)

\* A start that reports its failure has not left its daemon behind, whatever
\* other commands do meanwhile.
THEOREM FailedStartsAreGone == Spec => []FailedIsGone
<1> USE DEF FailedIsGone, TypeOK, Commands, Up, commandVars, daemonVars
<1>1. Init => FailedIsGone
  BY DEF Init
<1>2. TypeOK /\ FailedIsGone /\ [Next]_vars => FailedIsGone'
  <2> SUFFICES ASSUME TypeOK, FailedIsGone, [Next]_vars PROVE FailedIsGone'
    OBVIOUS
  <2>1. ASSUME NEW s \in Starts, StartLooks(s) \/ StartStep(s) PROVE FailedIsGone'
    BY <2>1 DEF StartLooks, StartStep, Spawn, StartFinds, StartEnds, StartTimesOut, StartKilled
  <2>2. ASSUME NEW d \in Starts, DaemonStep(d) \/ Terminate(d) \/ Crash(d)
        PROVE  FailedIsGone'
    BY <2>2 DEF DaemonStep, Publish, StartupFails, ReadOwn, Exit, Terminate, Crash
  <2>3. ASSUME NEW c \in Stops, StopAsks(c) PROVE FailedIsGone'
    BY <2>3 DEF StopAsks, Reachable
  <2>4. ASSUME NEW c \in Stops, StopLooks(c) \/ StopStep(c), ~StopAsks(c)
        PROVE  UNCHANGED <<start, daemon>>
    BY <2>4 DEF StopLooks, StopStep, StopLocates, StopRefused, StopDone, StopTimesOut,
                StopReads, StopProbes, StopErases
  <2>5. CASE UNCHANGED vars
    BY <2>5 DEF vars, processVars
  <2> QED
    BY <2>1, <2>2, <2>3, <2>4, <2>5 DEF Next
<1> QED
  BY <1>1, <1>2, TypeCorrect, PTL DEF Spec
=============================================================================
