------------------------------ MODULE Gateway ------------------------------
(***************************************************************************)
(* Provider requests, background captures, pause and resume, and the       *)
(* shutdown of the daemon (apps/daemon: gateway, app, runtime, index,      *)
(* forward-proxy).                                                         *)
(*                                                                         *)
(* A request is answered to its client while the scheduler captures the    *)
(* exchange in the background.  What one capture does to the seller's      *)
(* storage and database is module Capture's; here it ends well or fails.   *)
(*                                                                         *)
(* Pausing writes two places: the status the control API reports, at once, *)
(* and the gate the gateway reads, in a microtask that follows.            *)
(***************************************************************************)
EXTENDS Naturals, Sequences

CONSTANTS
  Requests,   \* exchanges with a provider
  Tunnels,    \* CONNECT tunnels of the forward proxy
  Via,        \* the tunnel a request comes through, or Direct
  Direct,     \* the loopback gateway server
  MaxControl  \* bound on the pause and resume calls

ASSUME ViaAssumption == Direct \notin Tunnels /\ Via \in [Requests -> Tunnels \cup {Direct}]
ASSUME MaxControlAssumption == MaxControl \in Nat

VARIABLES
  req,      \* a request's handler
  job,      \* its background capture
  since,    \* the phase in which the capture was scheduled
  status,   \* the capture status the control API reports
  gate,     \* captureEnabled, as the gateway reads it
  applying, \* pause and resume calls between their two writes, oldest first
  control,  \* calls made so far
  tunnels,  \* open tunnels
  phase,    \* shutdown: "serving", "closing", "draining", "removing", "closed"
  waiting   \* the jobs drain waits for

requestVars == <<req, job, since>>
controlVars == <<status, gate, applying, control>>
shutdownVars == <<tunnels, phase, waiting>>
vars == <<requestVars, controlVars, shutdownVars>>

\* The servers listen: initialize has opened the gate.
Init ==
  /\ req = [q \in Requests |-> "new"]
  /\ job = [q \in Requests |-> "none"]
  /\ since = [q \in Requests |-> "none"]
  /\ status = "healthy" /\ gate = TRUE /\ applying = <<>> /\ control = 0
  /\ tunnels = {} /\ phase = "serving" /\ waiting = {}

Alive == phase # "closed"

----------------------------------------------------------------------------
(* Requests.                                                               *)

OpenTunnel(t) ==
  /\ phase = "serving" /\ t \notin tunnels
  /\ tunnels' = tunnels \cup {t}
  /\ UNCHANGED <<requestVars, controlVars, phase, waiting>>

\* The client closes its tunnel.
CloseTunnel(t) ==
  /\ Alive /\ t \in tunnels
  /\ tunnels' = tunnels \ {t}
  /\ UNCHANGED <<requestVars, controlVars, phase, waiting>>

\* The gateway server is stopped first; an open HTTP/2 session of the proxy
\* keeps bringing requests until its tunnel closes.
Arrive(q) ==
  /\ req[q] = "new"
  /\ IF Via[q] = Direct THEN phase = "serving" ELSE Alive /\ Via[q] \in tunnels
  /\ req' = [req EXCEPT ![q] = "resolving"]
  /\ UNCHANGED <<job, since, controlVars, shutdownVars>>

\* No route or capability, a foreign provider, or an unsupported path.
Refuse(q) ==
  /\ Alive /\ req[q] = "resolving"
  /\ req' = [req EXCEPT ![q] = "refused"]
  /\ UNCHANGED <<job, since, controlVars, shutdownVars>>

Forward(q) ==
  /\ Alive /\ req[q] = "resolving"
  /\ req' = [req EXCEPT ![q] = "forwarding"]
  /\ UNCHANGED <<job, since, controlVars, shutdownVars>>

\* The handler throws: the provider gives no response.
UpstreamFails(q) ==
  /\ Alive /\ req[q] = "forwarding"
  /\ req' = [req EXCEPT ![q] = "failed"]
  /\ UNCHANGED <<job, since, controlVars, shutdownVars>>

\* The provider's response begins: the gate is read, a capture is scheduled
\* on a copy of the body, and the response goes to the client.
Answer(q, eligible) ==
  /\ Alive /\ req[q] = "forwarding"
  /\ req' = [req EXCEPT ![q] = "answered"]
  /\ IF eligible /\ gate
     THEN /\ job' = [job EXCEPT ![q] = "reading"]
          /\ since' = [since EXCEPT ![q] = phase]
     ELSE UNCHANGED <<job, since>>
  /\ UNCHANGED <<controlVars, shutdownVars>>

----------------------------------------------------------------------------
(* Background captures.                                                    *)

\* The copy of the body has been read to its end.
Read(q) ==
  /\ Alive /\ job[q] = "reading"
  /\ job' = [job EXCEPT ![q] = "capturing"]
  /\ UNCHANGED <<req, since, controlVars, shutdownVars>>

Persist(q) ==
  /\ Alive /\ job[q] = "capturing"
  /\ job' = [job EXCEPT ![q] = "persisted"]
  /\ UNCHANGED <<req, since, controlVars, shutdownVars>>

\* Mutant of JobFails: a failed capture starts over.
JobRetries(q) ==
  /\ Alive /\ job[q] \in {"reading", "capturing"}
  /\ job' = [job EXCEPT ![q] = "reading"]
  /\ UNCHANGED <<req, since, controlVars, shutdownVars>>

\* The body breaks off, or a stage of the capture throws; the error is dropped.
JobFails(q) ==
  /\ Alive /\ job[q] \in {"reading", "capturing"}
  /\ job' = [job EXCEPT ![q] = "failed"]
  /\ UNCHANGED <<req, since, controlVars, shutdownVars>>

JobStep(q) == Read(q) \/ Persist(q) \/ JobFails(q)

Pending == {q \in Requests : job[q] \in {"reading", "capturing"}}

----------------------------------------------------------------------------
(* Pause and resume.                                                       *)

\* CaptureControl is written, and the handler awaits the result.
Control(enabled) ==
  /\ phase = "serving" /\ control < MaxControl
  /\ status' = IF enabled THEN "healthy" ELSE "paused"
  /\ applying' = Append(applying, enabled)
  /\ control' = control + 1
  /\ UNCHANGED <<requestVars, gate, shutdownVars>>

\* Mutant of Apply: the newest call goes on first.
ApplyNewest ==
  /\ Alive /\ applying # <<>>
  /\ gate' = applying[Len(applying)]
  /\ applying' = SubSeq(applying, 1, Len(applying) - 1)
  /\ UNCHANGED <<requestVars, status, control, shutdownVars>>

\* onPause or onResume; handlers go on in the order in which they awaited.
Apply ==
  /\ Alive /\ applying # <<>>
  /\ gate' = Head(applying)
  /\ applying' = Tail(applying)
  /\ UNCHANGED <<requestVars, status, control, shutdownVars>>

----------------------------------------------------------------------------
(* Shutdown.                                                               *)

\* The control and gateway servers stop, and the forward proxy begins to close.
Shutdown ==
  /\ phase = "serving"
  /\ phase' = "closing"
  /\ UNCHANGED <<requestVars, controlVars, tunnels, waiting>>

\* The last tunnel is closed: drain takes the jobs pending now.
BeginDrain ==
  /\ phase = "closing" /\ tunnels = {}
  /\ phase' = "draining" /\ waiting' = Pending
  /\ UNCHANGED <<requestVars, controlVars, tunnels>>

\* Mutant of EndDrain: drain is not awaited.
EndDrainUnawaited ==
  /\ phase = "draining"
  /\ phase' = "removing"
  /\ UNCHANGED <<requestVars, controlVars, tunnels, waiting>>

\* Those jobs have settled: the runtime descriptor is removed.
EndDrain ==
  /\ phase = "draining" /\ waiting \cap Pending = {}
  /\ phase' = "removing"
  /\ UNCHANGED <<requestVars, controlVars, tunnels, waiting>>

\* The database is closed and the process exits.
Close ==
  /\ phase = "removing"
  /\ phase' = "closed"
  /\ UNCHANGED <<requestVars, controlVars, tunnels, waiting>>

----------------------------------------------------------------------------
Next ==
  \/ \E t \in Tunnels : OpenTunnel(t) \/ CloseTunnel(t)
  \/ \E q \in Requests :
       \/ Arrive(q) \/ Refuse(q) \/ Forward(q) \/ UpstreamFails(q)
       \/ \E eligible \in BOOLEAN : Answer(q, eligible)
       \/ JobStep(q)
  \/ \E enabled \in BOOLEAN : Control(enabled)
  \/ Apply
  \/ Shutdown \/ BeginDrain \/ EndDrain \/ Close

Spec == Init /\ [][Next]_vars

\* Shutdown's own steps and the captures go on by themselves, a response ends
\* or breaks off, and clients close their tunnels in the end.
FairSpec ==
  /\ Spec
  /\ \A t \in Tunnels : WF_vars(CloseTunnel(t))
  /\ \A q \in Requests : WF_vars(JobStep(q))
  /\ WF_vars(Apply) /\ WF_vars(BeginDrain \/ EndDrain \/ Close)

----------------------------------------------------------------------------
(* Properties.                                                             *)

\* Every variable has its type, and drain waits for scheduled captures only.
TypeOK ==
  /\ req \in [Requests -> {"new", "resolving", "forwarding", "answered", "refused", "failed"}]
  /\ job \in [Requests -> {"none", "reading", "capturing", "persisted", "failed"}]
  /\ since \in [Requests -> {"none", "serving", "closing", "draining", "removing"}]
  /\ status \in {"healthy", "paused"} /\ gate \in BOOLEAN
  /\ applying \in Seq(BOOLEAN) /\ control \in 0..MaxControl
  /\ tunnels \subseteq Tunnels
  /\ phase \in {"serving", "closing", "draining", "removing", "closed"}
  /\ waiting \subseteq {q \in Requests : job[q] # "none"}

\* What the control API reports is what the gateway does, or will do once the
\* calls under way have gone through: status and gate never end up apart,
\* however pause and resume calls overlap.
ControlAgrees ==
  /\ TypeOK
  /\ (status = "healthy") = (IF applying = <<>> THEN gate ELSE applying[Len(applying)])

\* No capture scheduled before the servers were closed is cut off by the exit
\* of the process: one that is still running then was scheduled by a handler
\* whose provider answered only after drain had begun.
DrainedBeforeClose ==
  phase = "closed" => \A q \in Pending : since[q] \in {"draining", "removing"}

\* A shutdown that was asked for ends.
ShutdownCompletes == phase = "closing" ~> phase = "closed"
=============================================================================
