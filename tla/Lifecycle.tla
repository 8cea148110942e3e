----------------------------- MODULE Lifecycle -----------------------------
(***************************************************************************)
(* traicer start --detach, traicer stop and the daemons they start and     *)
(* stop, which find each other through one file, .runtime.json (apps/cli:  *)
(* index, lifecycle, daemon-locator; apps/daemon: index,                   *)
(* runtime-descriptor).                                                    *)
(*                                                                         *)
(* No lock is taken anywhere: a command reads the descriptor, asks the     *)
(* daemon it names for its health, and acts on the answer later.           *)
(***************************************************************************)
EXTENDS Naturals

CONSTANTS
  Starts,     \* detached start commands, and the daemon each of them spawns
  Stops,      \* stop commands
  None,       \* no descriptor
  MaxCrashes  \* bound on daemons that die

ASSUME NoneAssumption == None \notin Starts
ASSUME MaxCrashesAssumption == MaxCrashes \in Nat

VARIABLES
  overlap,    \* whether commands may overlap each other and a daemon's shutdown
  daemon,     \* a daemon's process
  own,        \* whether it found its own descriptor when it went to remove it
  descriptor, \* the daemon .runtime.json names
  start,      \* a start command
  stop,       \* a stop command
  seen,       \* the descriptor a command has read
  crashes

commandVars == <<start, stop, seen>>
daemonVars == <<daemon, own, descriptor, crashes>>
processVars == <<commandVars, daemonVars>>
vars == <<overlap, processVars>>

Commands == Starts \cup Stops

Init ==
  /\ overlap \in BOOLEAN
  /\ daemon = [d \in Starts |-> "absent"]
  /\ own = [d \in Starts |-> FALSE]
  /\ descriptor = None
  /\ start = [s \in Starts |-> "idle"]
  /\ stop = [c \in Stops |-> "idle"]
  /\ seen = [c \in Commands |-> None]
  /\ crashes = 0

Up(d) == daemon[d] \in {"starting", "serving", "draining", "removing"}

\* Authenticated health answers, with the instance the descriptor names.  The
\* control server is the first to stop, so a daemon that drains is unreachable.
Reachable(d) == d # None /\ daemon[d] = "serving"

StartRuns(s) == start[s] \in {"looking", "waiting", "killing"}
StopRuns(c) == stop[c] \in {"looking", "asking", "waiting", "clearing", "probing", "erasing"}

MayBegin ==
  \/ overlap
  \/ /\ \A s \in Starts : ~StartRuns(s)
     /\ \A c \in Stops : ~StopRuns(c)
     /\ \A d \in Starts : Up(d) => daemon[d] = "serving"

----------------------------------------------------------------------------
(* traicer start --detach.                                                 *)

StartLooks(s) ==
  /\ start[s] = "idle" /\ MayBegin
  /\ start' = [start EXCEPT ![s] = "looking"]
  /\ seen' = [seen EXCEPT ![s] = descriptor]
  /\ UNCHANGED <<stop, daemonVars>>

\* "Traicer is already running".
StartFinds(s) ==
  /\ start[s] = "looking" /\ Reachable(seen[s])
  /\ start' = [start EXCEPT ![s] = "running"]
  /\ UNCHANGED <<stop, seen, daemonVars>>

\* Mutant of Spawn: a descriptor, reachable or not, is not looked at.
SpawnAlways(s) ==
  /\ start[s] = "looking"
  /\ start' = [start EXCEPT ![s] = "waiting"]
  /\ daemon' = [daemon EXCEPT ![s] = "starting"]
  /\ UNCHANGED <<stop, seen, own, descriptor, crashes>>

Spawn(s) ==
  /\ start[s] = "looking" /\ ~Reachable(seen[s])
  /\ start' = [start EXCEPT ![s] = "waiting"]
  /\ daemon' = [daemon EXCEPT ![s] = "starting"]
  /\ UNCHANGED <<stop, seen, own, descriptor, crashes>>

\* The daemon has printed its readiness, or exited before it did.
StartEnds(s) ==
  /\ start[s] = "waiting" /\ daemon[s] # "starting"
  /\ start' = [start EXCEPT ![s] = IF daemon[s] = "failed" THEN "failed" ELSE "started"]
  /\ UNCHANGED <<stop, seen, daemonVars>>

\* The readiness line did not come in time: the child is killed.  Until it is
\* ready it dies of SIGTERM at once, afterwards it shuts down.
StartTimesOut(s) ==
  /\ start[s] = "waiting" /\ daemon[s] \in {"starting", "serving"}
  /\ start' = [start EXCEPT ![s] = "killing"]
  /\ daemon' = [daemon EXCEPT ![s] = IF daemon[s] = "starting" THEN "failed" ELSE "draining"]
  /\ UNCHANGED <<stop, seen, own, descriptor, crashes>>

\* Mutant of StartKilled: the child is killed, not awaited.
StartAbandoned(s) ==
  /\ start[s] = "killing"
  /\ start' = [start EXCEPT ![s] = "failed"]
  /\ UNCHANGED <<stop, seen, daemonVars>>

\* The child is awaited before the command reports its failure.
StartKilled(s) ==
  /\ start[s] = "killing" /\ ~Up(s)
  /\ start' = [start EXCEPT ![s] = "failed"]
  /\ UNCHANGED <<stop, seen, daemonVars>>

StartStep(s) == Spawn(s) \/ StartFinds(s) \/ StartEnds(s) \/ StartTimesOut(s) \/ StartKilled(s)

----------------------------------------------------------------------------
(* traicer stop.                                                           *)

StopLooks(c) ==
  /\ stop[c] = "idle" /\ MayBegin
  /\ stop' = [stop EXCEPT ![c] = "looking"]
  /\ seen' = [seen EXCEPT ![c] = descriptor]
  /\ UNCHANGED <<start, daemonVars>>

StopLocates(c) ==
  /\ stop[c] = "looking"
  /\ stop' = [stop EXCEPT ![c] = IF Reachable(seen[c]) THEN "asking" ELSE "clearing"]
  /\ UNCHANGED <<start, seen, daemonVars>>

\* POST /v1/control/shutdown.
StopAsks(c) ==
  /\ stop[c] = "asking" /\ Reachable(seen[c])
  /\ stop' = [stop EXCEPT ![c] = "waiting"]
  /\ daemon' = [daemon EXCEPT ![seen[c]] = "draining"]
  /\ UNCHANGED <<start, seen, own, descriptor, crashes>>

StopRefused(c) ==
  /\ stop[c] = "asking" /\ ~Reachable(seen[c])
  /\ stop' = [stop EXCEPT ![c] = "failed"]
  /\ UNCHANGED <<start, seen, daemonVars>>

\* Mutant of StopDone: an unreachable daemon counts as stopped.
StopDoneEarly(c) ==
  /\ stop[c] = "waiting" /\ ~Reachable(seen[c])
  /\ stop' = [stop EXCEPT ![c] = "stopped"]
  /\ UNCHANGED <<start, seen, daemonVars>>

\* "Traicer stopped": the daemon is unreachable and no descriptor is left.
StopDone(c) ==
  /\ stop[c] = "waiting" /\ ~Reachable(seen[c]) /\ descriptor = None
  /\ stop' = [stop EXCEPT ![c] = "stopped"]
  /\ UNCHANGED <<start, seen, daemonVars>>

\* Mutant of StopTimesOut: the deadline counts only while there is something
\* left to be found.
StopWaitsOn(c) ==
  /\ stop[c] = "waiting" /\ (Reachable(seen[c]) \/ descriptor = None)
  /\ stop' = [stop EXCEPT ![c] = "failed"]
  /\ UNCHANGED <<start, seen, daemonVars>>

\* "Traicer daemon did not stop in time".
StopTimesOut(c) ==
  /\ stop[c] = "waiting"
  /\ stop' = [stop EXCEPT ![c] = "failed"]
  /\ UNCHANGED <<start, seen, daemonVars>>

\* removeUnreachableRuntimeDescriptor reads the descriptor again.
StopReads(c) ==
  /\ stop[c] = "clearing"
  /\ stop' = [stop EXCEPT ![c] = IF descriptor = None THEN "notRunning" ELSE "probing"]
  /\ seen' = [seen EXCEPT ![c] = descriptor]
  /\ UNCHANGED <<start, daemonVars>>

StopProbes(c) ==
  /\ stop[c] = "probing"
  /\ stop' = [stop EXCEPT ![c] = IF Reachable(seen[c]) THEN "notRunning" ELSE "erasing"]
  /\ UNCHANGED <<start, seen, daemonVars>>

\* rm removes whatever the file names by now.
StopErases(c) ==
  /\ stop[c] = "erasing"
  /\ stop' = [stop EXCEPT ![c] = "notRunning"]
  /\ descriptor' = None
  /\ UNCHANGED <<start, seen, daemon, own, crashes>>

StopStep(c) ==
  \/ StopLocates(c) \/ StopAsks(c) \/ StopRefused(c) \/ StopDone(c) \/ StopTimesOut(c)
  \/ StopReads(c) \/ StopProbes(c) \/ StopErases(c)

----------------------------------------------------------------------------
(* The daemons.                                                            *)

\* Mutant of Publish: the readiness line comes before the descriptor, which
\* is never written when the process is asked to stop in between.
PublishLate(d) ==
  /\ daemon[d] = "starting"
  /\ daemon' = [daemon EXCEPT ![d] = "serving"]
  /\ UNCHANGED <<commandVars, own, descriptor, crashes>>

\* The servers listen, the descriptor is renamed into place and the readiness
\* line is printed.
Publish(d) ==
  /\ daemon[d] = "starting"
  /\ daemon' = [daemon EXCEPT ![d] = "serving"]
  /\ descriptor' = d
  /\ UNCHANGED <<commandVars, own, crashes>>

\* The bootstrap is invalid, or initialize throws.
StartupFails(d) ==
  /\ daemon[d] = "starting"
  /\ daemon' = [daemon EXCEPT ![d] = "failed"]
  /\ UNCHANGED <<commandVars, own, descriptor, crashes>>

\* SIGINT or SIGTERM from outside.
Terminate(d) ==
  /\ daemon[d] = "serving" /\ MayBegin
  /\ daemon' = [daemon EXCEPT ![d] = "draining"]
  /\ UNCHANGED <<commandVars, own, descriptor, crashes>>

\* Captures have been drained: the daemon reads the descriptor.
ReadOwn(d) ==
  /\ daemon[d] = "draining"
  /\ daemon' = [daemon EXCEPT ![d] = "removing"]
  /\ own' = [own EXCEPT ![d] = (descriptor = d)]
  /\ UNCHANGED <<commandVars, descriptor, crashes>>

\* It is unlinked if it named this daemon when it was read; the process exits.
Exit(d) ==
  /\ daemon[d] = "removing"
  /\ daemon' = [daemon EXCEPT ![d] = "gone"]
  /\ descriptor' = IF own[d] THEN None ELSE descriptor
  /\ UNCHANGED <<commandVars, own, crashes>>

Crash(d) ==
  /\ Up(d) /\ crashes < MaxCrashes
  /\ daemon' = [daemon EXCEPT ![d] = IF daemon[d] = "starting" THEN "failed" ELSE "gone"]
  /\ crashes' = crashes + 1
  /\ UNCHANGED <<commandVars, own, descriptor>>

DaemonStep(d) == Publish(d) \/ StartupFails(d) \/ ReadOwn(d) \/ Exit(d)

----------------------------------------------------------------------------
Next ==
  /\ UNCHANGED overlap
  /\ \/ \E s \in Starts :
          \/ StartLooks(s) \/ StartStep(s)
          \/ DaemonStep(s) \/ Terminate(s) \/ Crash(s)
     \/ \E c \in Stops : StopLooks(c) \/ StopStep(c)

Spec == Init /\ [][Next]_vars

\* A command or a daemon that runs goes on.
FairSpec ==
  /\ Spec
  /\ \A s \in Starts : WF_processVars(StartStep(s)) /\ WF_processVars(DaemonStep(s))
  /\ \A c \in Stops : WF_processVars(StopStep(c))

----------------------------------------------------------------------------
(* Properties.                                                             *)

\* Every variable has its type, and a daemon exists once its command spawned it.
TypeOK ==
  /\ overlap \in BOOLEAN
  /\ daemon \in [Starts -> {"absent", "starting", "failed", "serving", "draining", "removing", "gone"}]
  /\ own \in [Starts -> BOOLEAN]
  /\ descriptor \in {d \in Starts : daemon[d] \notin {"absent", "starting", "failed"}} \cup {None}
  /\ start \in [Starts -> {"idle", "looking", "running", "waiting", "killing", "started", "failed"}]
  /\ stop \in [Stops -> {"idle", "looking", "asking", "waiting", "clearing", "probing", "erasing",
                         "stopped", "notRunning", "failed"}]
  /\ seen \in [Commands -> Starts \cup {None}]
  /\ crashes \in 0..MaxCrashes
  /\ \A s \in Starts : start[s] \in {"idle", "looking", "running"} <=> daemon[s] = "absent"

\* No two daemons run on one directory, and so on one database, if commands do
\* not overlap: not even after crashes, kills and commands that gave up waiting.
AtMostOneDaemon == ~overlap => \A d, e \in Starts : Up(d) /\ Up(e) => d = e

\* If commands do not overlap, a daemon that serves is the one the descriptor
\* names, so that status, run and stop find it.
ServingIsLocatable == ~overlap => \A d \in Starts : daemon[d] = "serving" => descriptor = d

\* A daemon that listened is named by the descriptor until its process ends.
Published ==
  \A d \in Starts : daemon[d] \in {"serving", "draining", "removing"} => descriptor = d

\* What is up while a start runs: when it looks, only daemons that serve, and
\* it has seen the descriptor as it is; later, only the daemon it spawned.
StartInv(s) ==
  /\ daemon[s] = "starting" => start[s] = "waiting"
  /\ start[s] = "looking" =>
       seen[s] = descriptor /\ \A d \in Starts : Up(d) => daemon[d] = "serving"
  /\ start[s] = "waiting" =>
       \A d \in Starts : Up(d) => d = s /\ daemon[d] \in {"starting", "serving"}
  /\ start[s] = "killing" =>
       \A d \in Starts : Up(d) => d = s /\ daemon[d] \in {"draining", "removing"}

\* What is up while a stop runs: once it found nothing to ask, nothing.
StopInv(c) ==
  /\ stop[c] \in {"looking", "asking"} =>
       seen[c] = descriptor /\ \A d \in Starts : Up(d) => daemon[d] = "serving"
  /\ stop[c] \in {"clearing", "probing", "erasing"} => \A d \in Starts : ~Up(d)

OneCommand ==
  /\ \A s, r \in Starts : StartRuns(s) /\ StartRuns(r) => s = r
  /\ \A c, e \in Stops : StopRuns(c) /\ StopRuns(e) => c = e
  /\ \A s \in Starts, c \in Stops : ~(StartRuns(s) /\ StopRuns(c))

\* The inductive invariant of commands that do not overlap.
SerialInv ==
  /\ TypeOK
  /\ ~overlap => /\ Published
                 /\ OneCommand
                 /\ \A s \in Starts : StartInv(s)
                 /\ \A c \in Stops : StopInv(c)

\* If commands do not overlap, stop tells its caller that no daemon runs only
\* when none does.
StopReports ==
  [][~overlap => \A c \in Stops :
       stop'[c] \in {"stopped", "notRunning"} /\ stop[c] # stop'[c] => \A d \in Starts : ~Up(d)]_vars

\* A start that fails leaves no daemon behind, not even one that became ready
\* as the command gave up.
FailedIsGone == \A s \in Starts : start[s] = "failed" => ~Up(s)

\* Every command comes to an end, whatever daemons do to it.
CommandsEnd ==
  /\ \A s \in Starts : StartRuns(s) ~> ~StartRuns(s)
  /\ \A c \in Stops : StopRuns(c) ~> ~StopRuns(c)
=============================================================================
