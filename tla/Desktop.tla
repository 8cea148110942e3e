------------------------------ MODULE Desktop ------------------------------
(***************************************************************************)
(* The window of the desktop app (apps/desktop/src/main.tsx) composed with *)
(* the native half: what it believes of the daemon, the one operation it   *)
(* runs at a time, and the decrypted trace it shows.                       *)
(*                                                                         *)
(* Every button is disabled while busy, except the one that closes the     *)
(* plaintext.  Health is asked for every five seconds whatever happens, and *)
(* an answer may arrive after a later one.                                 *)
(***************************************************************************)
EXTENDS DesktopShell

Operations == {"read", "other", "start", "configure", "apply"}

ASSUME OperationsAssumption == Nothing \notin Operations

VARIABLES
  status,     \* status.running
  visible,    \* visibleRef.current
  busy,       \* the operation under way, or Nothing
  current,    \* traceOperationRef still holds the number of the read
  revealed,   \* traceDetail is set
  answers,    \* answers of daemon_health on their way
  wasRunning, \* status.running when the form was submitted
  withdrawn,  \* the owner hid or closed the trace, or the daemon was stopped
  unseen      \* the form was submitted beside a daemon the window did not see

trace == <<current, revealed, withdrawn>>
window == <<status, visible, busy, trace, answers, wasRunning, unseen>>
vars == <<shellVars, window>>

WindowInit ==
  /\ status = FALSE /\ visible = FALSE /\ busy = Nothing
  /\ current = FALSE /\ revealed = FALSE /\ withdrawn = TRUE
  /\ answers = {} /\ wasRunning = FALSE /\ unseen = FALSE

Init == ShellInit /\ WindowInit

Idle == visible /\ busy = Nothing

\* clearRevealedTrace.
ClearRevealedTrace == current' = FALSE /\ revealed' = FALSE
Withdraw == ClearRevealedTrace /\ withdrawn' = TRUE

----------------------------------------------------------------------------
(* refresh.                                                                *)

\* The timer asks, and daemon_health has found the daemon alive or not.
Ask ==
  /\ Unlocked
  /\ answers' = answers \cup {Health}
  /\ UNCHANGED <<shellVars, status, visible, busy, trace, wasRunning, unseen>>

\* An error makes the window believe that the daemon is stopped, and keeps the
\* plaintext for the next good answer.
Believe(a) ==
  /\ status' = (a = "running")
  /\ IF a = "stopped" THEN Withdraw ELSE UNCHANGED trace

\* A daemon that was alive may still leave its control request unanswered.
Answered(a) == Believe(a) \/ (a = "running" /\ Believe("failed"))

Refresh(a) ==
  /\ a \in answers /\ answers' = answers \ {a}
  /\ Answered(a)
  /\ UNCHANGED <<shellVars, visible, busy, wasRunning, unseen>>

----------------------------------------------------------------------------
(* The trace.                                                              *)

\* inspectTrace.
InspectTrace ==
  /\ Idle /\ status
  /\ busy' = "read" /\ current' = TRUE /\ revealed' = FALSE /\ withdrawn' = FALSE
  /\ UNCHANGED <<shellVars, status, visible, answers, wasRunning, unseen>>

\* Mutant of Wanted: the number of the operation is not compared.
WantedVisible == visible

\* The answer belongs to the current operation of a visible window.
Wanted == current /\ visible

\* daemon_read_trace answers, with the trace or an error; the daemon may have
\* ended since it sent the trace.
TraceRead ==
  /\ busy = "read" /\ busy' = Nothing
  /\ revealed' \in {revealed, revealed \/ Wanted}
  /\ UNCHANGED <<shellVars, status, visible, current, withdrawn, answers, wasRunning, unseen>>

HandleVisibilityChange ==
  /\ visible' = ~visible
  /\ IF visible THEN Withdraw ELSE UNCHANGED trace
  /\ UNCHANGED <<shellVars, status, busy, answers, wasRunning, unseen>>

ClosePlaintext ==
  /\ visible /\ status /\ revealed /\ Withdraw
  /\ UNCHANGED <<shellVars, status, visible, busy, answers, wasRunning, unseen>>

----------------------------------------------------------------------------
(* The operations.                                                         *)

\* The operations that touch neither the daemon's process nor the trace shown;
\* clearing the cache also clears the trace.
Operate ==
  /\ Idle /\ busy' = "other"
  /\ (status /\ Withdraw) \/ UNCHANGED trace
  /\ UNCHANGED <<shellVars, status, visible, answers, wasRunning, unseen>>

\* They answer; pausing and resuming refresh the status.
Operated ==
  /\ busy = "other" /\ busy' = Nothing
  /\ (Unlocked /\ Answered(Health)) \/ UNCHANGED <<status, trace>>
  /\ UNCHANGED <<shellVars, visible, answers, wasRunning, unseen>>

\* control("daemon_stop"): the daemon is stopped, the trace cleared.
Stop ==
  /\ Idle /\ status
  /\ DaemonStop /\ Withdraw /\ busy' = "other"
  /\ UNCHANGED <<now, autolaunch, configuring, status, visible, answers, wasRunning, unseen>>

\* Mutant of Clears: startSaved leaves the trace.
ClearsNothing == withdrawn' = TRUE /\ UNCHANGED <<current, revealed>>

\* startSaved and configure begin with clearRevealedTrace.
Clears == Withdraw

\* startSaved.
StartSaved ==
  /\ Idle /\ ~status /\ vault.config # Nothing
  /\ busy' = "start" /\ Clears
  /\ UNCHANGED <<shellVars, status, visible, answers, wasRunning, unseen>>

Configure ==
  /\ Idle /\ Clears
  /\ \E entered \in SUBSET Fields, readable \in BOOLEAN : Prepare(entered, readable)
  /\ \/ left' = <<>> /\ UNCHANGED <<busy, wasRunning, unseen>>
     \/ /\ left' # <<>> /\ busy' = "configure" /\ wasRunning' = status
        /\ unseen' = (~status /\ (process = "alive" \/ holder # Nothing \/ autolaunch))
  /\ UNCHANGED <<now, supervisor, autolaunch, status, visible, answers>>

\* Mutant of Restarts: the daemon that runs is left to daemon_start.
RestartsNot == UNCHANGED supervisor

\* The daemon the window saw when the form was submitted is stopped.
Restarts == IF wasRunning THEN DaemonStop ELSE UNCHANGED supervisor

\* configure_device answers: an error, or the next daemon is to be started.
Configured ==
  /\ busy = "configure" /\ left = <<>> /\ pending' = Nothing
  /\ \/ /\ pending = Nothing /\ busy' = Nothing
        /\ wasRunning' = FALSE /\ unseen' = FALSE /\ UNCHANGED <<supervisor, trace>>
     \/ /\ pending # Nothing /\ busy' = "apply" /\ Clears
        /\ Restarts
        /\ UNCHANGED <<wasRunning, unseen>>
  /\ UNCHANGED <<now, autolaunch, vault, left, configures, faults, torn, saved,
                 status, visible, answers>>

\* invoke("daemon_start").
Start ==
  /\ busy \in {"start", "apply"} /\ reply = Nothing /\ holder # "window"
  /\ DaemonStart("window")
  /\ UNCHANGED <<now, autolaunch, configuring, window>>

Started ==
  /\ busy \in {"start", "apply"} /\ reply # Nothing
  /\ status' = IF reply = "running" THEN TRUE ELSE status
  /\ reply' = Nothing /\ busy' = Nothing /\ wasRunning' = FALSE /\ unseen' = FALSE
  /\ UNCHANGED <<now, recentStarts, spawned, daemons, process, holder, boot, autolaunch,
                 configuring, visible, trace, answers>>

----------------------------------------------------------------------------

\* The window goes with the app.
Launch ==
  /\ Relaunch
  /\ status' = FALSE /\ visible' = FALSE /\ busy' = Nothing
  /\ current' = FALSE /\ revealed' = FALSE /\ withdrawn' = TRUE
  /\ answers' = {} /\ wasRunning' = FALSE /\ unseen' = FALSE

Shell == (Ready \/ Crash \/ Autolaunch \/ Tick \/ WriteEntry) /\ UNCHANGED window

Next ==
  \/ Shell \/ Launch
  \/ Ask \/ \E a \in answers : Refresh(a)
  \/ InspectTrace \/ TraceRead \/ HandleVisibilityChange \/ ClosePlaintext
  \/ Operate \/ Operated \/ Stop \/ StartSaved \/ Configure \/ Configured \/ Start \/ Started

Spec == Init /\ [][Next]_vars

----------------------------------------------------------------------------
(* Properties.                                                             *)

\* A decrypted trace is on the screen only since a View after which the owner
\* never hid the window, closed the trace, or stopped, started or configured the
\* daemon, and the window never saw it stopped: however late the read answers,
\* and whatever the window believed of the daemon in between.
ShownIsWanted == revealed /\ status => visible /\ ~withdrawn

\* "Apply and start": when daemon_start has answered, the daemon runs on what was
\* saved.  Not so when the form was submitted beside a daemon the window did not
\* see: its status is that of the last answer, and the daemon is not stopped.
ConfigurationApplies ==
  /\ BootIsWhole
  /\ busy = "apply" /\ reply = "running" /\ boot # Nothing /\ ~unseen => boot.given = vault
=============================================================================
