------------------------------ MODULE Launcher ------------------------------
(***************************************************************************)
(* traicer run and traicer urls --reveal (apps/cli/src/index.ts and        *)
(* service-commands.ts) composed with the daemon and its route registry.   *)
(*                                                                         *)
(* A run asks the daemon for a route, starts the coding client with it and *)
(* revokes it in a finally block; "urls" prints a route and leaves it.     *)
(* Either process may be killed, an answer may be lost, the daemon may     *)
(* stop and be started again with an empty registry.  Every call of the    *)
(* CLI draws a route id of its own, so Issuers are the CLI's commands.     *)
(***************************************************************************)
EXTENDS CaptureRoutes

CONSTANTS
  Reveals,  \* the commands that are "urls --reveal"; the others are runs
  Ttl,      \* 43200 seconds in ticks of the clock
  MaxStops  \* bound on the stops of the daemon

ASSUME RevealsAssumption == Reveals \subseteq Issuers
ASSUME TtlAssumption == Ttl \in 1..MaxTime
ASSUME StopsAssumption == MaxStops \in Nat
ASSUME OwnIdAssumption == \A i, j \in Issuers : RouteOf[i] = RouteOf[j] => i = j

VARIABLES
  up,      \* the daemon serves its control port
  stops,   \* how often it stopped
  run,     \* where each command is
  child,   \* the coding clients that are alive
  voided,  \* commands whose route went with a daemon
  dropped  \* commands that lost the answer before the route was registered

registry == <<now, issue, ttl, registered, expiresAt, tokenOf>>
commands == <<run, child, dropped>>
launchVars == <<registry, up, stops, commands, voided>>

LaunchInit ==
  /\ Init
  /\ up = TRUE /\ stops = 0
  /\ run = [i \in Issuers |-> "new"]
  /\ child = {} /\ voided = {} /\ dropped = {}

To(i, place) == run' = [run EXCEPT ![i] = place]

\* What follows an error of command i after its request: a run goes to its
\* finally block, urls reports the error.
Fails(i) == To(i, IF i \in Reveals THEN "failed" ELSE "revoking")

----------------------------------------------------------------------------
(* The command.                                                            *)

\* The repository is linked and the daemon is found, or the command ends.
Locate(i) ==
  /\ run[i] = "new"
  /\ \/ up /\ To(i, "located")
     \/ To(i, "failed")
  /\ UNCHANGED <<registry, up, stops, child, voided, dropped>>

\* POST /v1/capture-routes.
Post(i) ==
  /\ run[i] = "located"
  /\ \/ up /\ Check(i, Ttl) /\ To(i, "posting")
     \/ ~up /\ Fails(i) /\ UNCHANGED registry
  /\ UNCHANGED <<up, stops, child, voided, dropped>>

\* urls prints the URLs of the route and never revokes it.
Revealed(i) == i \in Reveals /\ To(i, "done") /\ UNCHANGED child

\* The client starts with the URLs of this route in its environment or in its
\* arguments, without any secret of Traicer's.
Spawned(i) == i \notin Reveals /\ To(i, "running") /\ child' = child \cup {i}

\* Mutant of Launch: the route is revoked only if the client was started.
LaunchBare(i) ==
  /\ run[i] = "posting" /\ issue[i] = "issued"
  /\ \/ Revealed(i)
     \/ Spawned(i)
     \/ i \notin Reveals /\ To(i, "failed") /\ UNCHANGED child
  /\ UNCHANGED <<registry, up, stops, voided, dropped>>

\* The answer is there: urls prints it, a run spawns the client or fails to.
Launch(i) ==
  /\ run[i] = "posting" /\ issue[i] = "issued"
  /\ \/ Revealed(i)
     \/ Spawned(i)
     \/ i \notin Reveals /\ To(i, "revoking") /\ UNCHANGED child
  /\ UNCHANGED <<registry, up, stops, voided, dropped>>

\* The request or its answer is lost: the daemon stopped, or the connection
\* broke, perhaps before the token was hashed.
LoseAnswer(i) ==
  /\ run[i] = "posting" /\ Fails(i)
  /\ dropped' = IF issue[i] = "hashing" THEN dropped \cup {i} ELSE dropped
  /\ UNCHANGED <<registry, up, stops, child, voided>>

\* The client exits, of its own accord or of a forwarded signal.
ChildExits(i) ==
  /\ i \in child /\ child' = child \ {i}
  /\ UNCHANGED <<registry, up, stops, run, voided, dropped>>

Reap(i) ==
  /\ run[i] = "running" /\ i \notin child
  /\ To(i, "revoking")
  /\ UNCHANGED <<registry, up, stops, child, voided, dropped>>

\* DELETE /v1/capture-routes/:id.  The daemon answers with success for an id it
\* does not know; without that answer the run warns.
Delete(i) ==
  /\ run[i] = "revoking"
  /\ \/ /\ up
        /\ Revoke(RouteOf[i]) \/ (tokenOf[RouteOf[i]] = NoToken /\ UNCHANGED registry)
        /\ To(i, "done") \/ To(i, "warned")
     \/ ~up /\ To(i, "warned") /\ UNCHANGED registry
  /\ UNCHANGED <<up, stops, child, voided, dropped>>

\* The command dies without its finally block: killed, or interrupted while it
\* does not forward signals.  A client that runs goes on.
Kill(i) ==
  /\ run[i] \in {"located", "posting", "running", "revoking"}
  /\ To(i, "killed")
  /\ UNCHANGED <<registry, up, stops, child, voided, dropped>>

----------------------------------------------------------------------------
(* The daemon.                                                             *)

Registered(i) ==
  /\ up /\ Register(i)
  /\ UNCHANGED <<up, stops, commands, voided>>

\* A provider request arrives with an expired token.
Expired(i) ==
  /\ up /\ ResolveExpired(i)
  /\ UNCHANGED <<up, stops, commands, voided>>

\* The daemon stops or crashes: the registry is memory.
Stop ==
  /\ up /\ up' = FALSE
  /\ stops < MaxStops /\ stops' = stops + 1
  /\ issue' = [i \in Issuers |-> IF issue[i] = "hashing" THEN "refused" ELSE issue[i]]
  /\ voided' = voided \cup registered
  /\ registered' = {} /\ tokenOf' = [r \in RouteIds |-> NoToken]
  /\ UNCHANGED <<now, ttl, expiresAt, commands>>

Restart ==
  /\ ~up /\ up' = TRUE
  /\ UNCHANGED <<registry, stops, commands, voided>>

Pass == Tick /\ UNCHANGED <<up, stops, commands, voided>>

LaunchNext ==
  \/ \E i \in Issuers :
       \/ Locate(i) \/ Post(i) \/ Launch(i) \/ LoseAnswer(i) \/ ChildExits(i)
       \/ Reap(i) \/ Delete(i) \/ Kill(i) \/ Registered(i) \/ Expired(i)
  \/ Stop \/ Restart \/ Pass

LaunchSpec == LaunchInit /\ [][LaunchNext]_launchVars

----------------------------------------------------------------------------
(* Properties.                                                             *)

\* A run that ended by itself and did not warn left no route behind, whatever
\* failed on the way.  Two gaps are real and excepted: the command was killed
\* before its finally block, and the connection broke before the daemon had
\* registered the route, so that the DELETE was answered before it.
RouteEndsWithRun ==
  \A i \in registered \ (Reveals \cup dropped) :
    run[i] \in {"posting", "running", "revoking", "warned", "killed"}

\* The route of a client that runs resolves until it expires or the daemon
\* that issued it stops: no other command's revocation or expiry reaches it.
ChildIsRouted ==
  \A i \in child :
    run[i] = "running" /\ i \notin voided /\ now < expiresAt[i] => up /\ Resolves(i)

----------------------------------------------------------------------------
(* The inductive invariant they follow from.                               *)

Places == {"new", "located", "posting", "running", "revoking", "done", "warned", "failed", "killed"}

\* Where a command stands says what its call can have become: a route that is
\* still being hashed belongs to a command that waits or was cut off, and a
\* client's route left the registry only by its expiry or with its daemon.
CommandInv(i) ==
  /\ i \in registered => issue[i] = "issued"
  /\ issue[i] = "hashing" => run[i] \in {"posting", "killed"} \/ i \in dropped
  /\ run[i] \in {"new", "located"} => issue[i] = "idle"
  /\ run[i] = "failed" /\ i \notin Reveals => issue[i] = "idle"
  /\ run[i] = "running" => issue[i] = "issued"
  /\ issue[i] = "issued" /\ run[i] \in {"posting", "running"} /\ i \notin voided =>
       i \in registered \/ expiresAt[i] <= now

\* The registry agrees with itself and with every command, and it is empty
\* while the daemon is down.
LaunchInv ==
  /\ MapsAgree
  /\ run \in [Issuers -> Places] /\ child \subseteq Issuers
  /\ ~up => registered = {}
  /\ \A i \in Issuers : CommandInv(i)
  /\ RouteEndsWithRun
=============================================================================
