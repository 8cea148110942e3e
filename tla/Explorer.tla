------------------------------ MODULE Explorer ------------------------------
(***************************************************************************)
(* The terminal trace explorer (apps/cli/src/explorer.tsx): a list of      *)
(* traces, a warning to confirm, one revealed trace, a filter, exports.    *)
(*                                                                         *)
(* A key handler reads what the last frame rendered (the closure React     *)
(* committed) and the refs as they are now; what it sets is rendered by    *)
(* the next frame.  "state" is the state as set, "seen" that of the        *)
(* last frame.  Reads, listings and exports end whenever they like.        *)
(*                                                                         *)
(* Keys arrive one per frame, except that a terminal may send two events   *)
(* for one Enter, as the comment in confirm says.                          *)
(***************************************************************************)
EXTENDS Integers, Sequences, FiniteSets

CONSTANTS
  Traces,       \* trace ids
  Inventories,  \* listings the daemon's database gives in turn, newest first
  Filters,      \* sets of traces a text in the filter line matches
  NoTrace,
  MaxStarted    \* bound on the operations started

ASSUME InventoryAssumption ==
  /\ Inventories \in Seq(Seq(Traces)) /\ Inventories # << >>
  /\ NoTrace \notin Traces
ASSUME FilterAssumption == Filters \subseteq SUBSET Traces /\ Traces \in Filters
ASSUME StartedAssumption == MaxStarted \in Nat \ {0}

VARIABLES
  listing,    \* which of Inventories the database holds
  state,        \* React state: rows, index, filter, loading, result, asking, detail
  seen,       \* the same, as the last frame rendered it
  confirming, \* confirmationRef
  settling,   \* confirmationInFlightRef: 250 ms after a confirmation
  filtering,  \* filteringRef
  frame,      \* keys handled since the last frame: "fresh", "key", "enter", "twice"
  running,    \* the asynchronous operations in flight
  started,    \* how many were started
  alive,      \* the renderer is not destroyed
  strayed     \* the filter was opened over a revealed trace

refs == <<confirming, settling, filtering>>
explorerVars == <<listing, state, seen, confirming, settling, filtering, frame, running,
          started, alive, strayed>>

\* visibleTraces, for a state or for a frame: the rows the filter matches.
Visible(ui) == {i \in 1..Len(ui.rows) : ui.rows[i] \in ui.filter}

\* selected: the trace in the one of them that index counts to.
Selected(ui) ==
  LET at == {i \in Visible(ui) : Cardinality({j \in Visible(ui) : j <= i}) = ui.index}
  IN IF at = {} THEN NoTrace ELSE ui.rows[CHOOSE i \in at : TRUE]

\* An operation that was started from the last frame.
Operation(op) ==
  [op |-> op, number |-> started + 1, name |-> Selected(seen), trace |-> seen.result,
   rows |-> Inventories[listing], warned |-> seen.asking = op,
   astray |-> strayed, doubled |-> frame = "enter"]

\* The state part of clearPlaintext.
Hidden(ui) == [ui EXCEPT !.result = NoTrace, !.asking = "none", !.detail = FALSE]

\* The component is mounted and its effect has called reload.
ExplorerInit ==
  /\ listing = 1
  /\ state = [rows |-> << >>, index |-> 1, filter |-> Traces, loading |-> TRUE,
              result |-> NoTrace, asking |-> "none", detail |-> FALSE]
  /\ seen = state
  /\ confirming = "none" /\ settling = FALSE /\ filtering = FALSE
  /\ frame = "fresh"
  /\ running = {[op |-> "list", number |-> 1, name |-> NoTrace, trace |-> NoTrace,
                 rows |-> Inventories[1], warned |-> FALSE, astray |-> FALSE, doubled |-> FALSE]}
  /\ started = 1
  /\ alive = TRUE /\ strayed = FALSE

----------------------------------------------------------------------------
(* Keys.                                                                   *)

\* The handler gets an event other than Enter, or an Enter.
Key == alive /\ frame = "fresh" /\ frame' = "key"
Enter == alive /\ \/ frame = "fresh" /\ frame' = "enter"
                  \/ frame = "enter" /\ frame' = "twice"

Start(op) ==
  /\ started < MaxStarted
  /\ running' = running \cup {Operation(op)}
  /\ started' = started + 1

\* A character or a backspace in the filter line.
TypeFilter ==
  /\ Key /\ filtering
  /\ \E f \in Filters : state' = [state EXCEPT !.filter = f]
  /\ UNCHANGED <<listing, seen, refs, running, started, alive, strayed>>

LeaveFilter ==
  /\ Key \/ Enter
  /\ filtering /\ filtering' = FALSE
  /\ state' = [state EXCEPT !.index = 1]
  /\ UNCHANGED <<listing, seen, confirming, settling, running, started, alive, strayed>>

Confirmable == ~filtering /\ confirming # "none"

\* inspect, up to its await.
Inspect ==
  IF Selected(seen) = NoTrace \/ seen.loading
  THEN /\ state' = [state EXCEPT !.asking = "none"]
       /\ UNCHANGED <<running, started, strayed>>
  ELSE /\ Start("reveal")
       /\ state' = [state EXCEPT !.asking = "none", !.loading = TRUE, !.detail = TRUE,
                             !.result = NoTrace]
       /\ strayed' = FALSE

\* exportSelected, up to its await.
ExportSelected ==
  IF Selected(seen) = NoTrace \/ seen.result = NoTrace
  THEN /\ state' = [state EXCEPT !.asking = "none"]
       /\ UNCHANGED <<running, started, strayed>>
  ELSE /\ Start("export")
       /\ state' = [state EXCEPT !.asking = "none", !.loading = TRUE]
       /\ UNCHANGED strayed

\* confirm: Enter or y on the warning.
Confirm ==
  /\ Key \/ Enter
  /\ Confirmable
  /\ confirming' = "none" /\ settling' = TRUE
  /\ \/ confirming = "reveal" /\ Inspect
     \/ confirming = "export" /\ ExportSelected
     \/ /\ confirming = "clipboard"
        /\ state' = [state EXCEPT !.asking = "none"]
        /\ UNCHANGED <<running, started, strayed>>
  /\ UNCHANGED <<listing, seen, filtering, alive>>

\* Mutant of Cancel: the warning goes, the ref stays.
CancelShown ==
  /\ Key /\ Confirmable
  /\ state' = [state EXCEPT !.asking = "none"]
  /\ UNCHANGED <<listing, seen, refs, running, started, alive, strayed>>

\* Escape or n on the warning.
Cancel ==
  /\ Key /\ Confirmable
  /\ confirming' = "none"
  /\ state' = [state EXCEPT !.asking = "none"]
  /\ UNCHANGED <<listing, seen, settling, filtering, running, started, alive, strayed>>

Browsing == Key /\ ~filtering /\ confirming = "none"

\* clearPlaintext.
ClearPlaintext == state' = Hidden(state) /\ confirming' = "none" /\ strayed' = FALSE

\* q or Ctrl-c, or Escape with nothing to hide.
Quit ==
  /\ Browsing
  /\ alive' = FALSE
  /\ \/ ClearPlaintext
     \/ ~seen.detail /\ seen.result = NoTrace /\ UNCHANGED <<state, confirming, strayed>>
  /\ UNCHANGED <<listing, seen, settling, filtering, running, started>>

\* Escape hides the detail; what is in flight goes on.
Escape ==
  /\ Browsing /\ (seen.detail \/ seen.result # NoTrace)
  /\ ClearPlaintext
  /\ UNCHANGED <<listing, seen, settling, filtering, running, started, alive>>

\* Past "if (loading) return".
Idle == Browsing /\ ~seen.loading

OpenFilter ==
  /\ Idle
  /\ filtering' = TRUE
  /\ strayed' = (strayed \/ seen.result # NoTrace)
  /\ UNCHANGED <<listing, state, seen, confirming, settling, running, started, alive>>

\* Mutant of Move: the list moves under the revealed trace.
MoveKeeping ==
  /\ Idle
  /\ LET last == Cardinality(Visible(seen))
     IN \E i \in {IF state.index > 1 THEN state.index - 1 ELSE 1,
                  IF state.index < last THEN state.index + 1 ELSE IF last > 1 THEN last ELSE 1} :
          state' = [state EXCEPT !.index = i]
  /\ UNCHANGED <<listing, seen, refs, running, started, alive, strayed>>

\* Up, k, down and j: the selection moves and the plaintext goes.
Move ==
  /\ Idle
  /\ LET last == Cardinality(Visible(seen))
     IN \E i \in {IF state.index > 1 THEN state.index - 1 ELSE 1,
                  IF state.index < last THEN state.index + 1 ELSE IF last > 1 THEN last ELSE 1} :
          state' = [Hidden(state) EXCEPT !.index = i]
  /\ confirming' = "none" /\ strayed' = FALSE
  /\ UNCHANGED <<listing, seen, settling, filtering, running, started, alive>>

\* Enter on the list puts up the warning, unless a confirmation is settling.
AskReveal ==
  /\ Enter /\ ~filtering /\ confirming = "none" /\ ~seen.loading
  /\ ~settling
  /\ confirming' = "reveal"
  /\ state' = [state EXCEPT !.asking = "reveal", !.detail = TRUE]
  /\ UNCHANGED <<listing, seen, settling, filtering, running, started, alive, strayed>>

\* e and c on a revealed trace.
AskExport ==
  /\ Idle /\ seen.result # NoTrace
  /\ \E c \in {"export", "clipboard"} :
       /\ confirming' = c
       /\ state' = [state EXCEPT !.asking = c]
  /\ UNCHANGED <<listing, seen, settling, filtering, running, started, alive, strayed>>

\* r: reload, up to its await.
Reload ==
  /\ Idle
  /\ Start("list")
  /\ state' = [Hidden(state) EXCEPT !.loading = TRUE]
  /\ confirming' = "none" /\ strayed' = FALSE
  /\ UNCHANGED <<listing, seen, settling, filtering, alive>>

----------------------------------------------------------------------------
(* What happens between keys.                                              *)

Ends(o) == o \in running /\ alive /\ running' = running \ {o}

ListEnds(o) ==
  /\ Ends(o) /\ o.op = "list"
  /\ \/ state' = [state EXCEPT !.rows = o.rows, !.index = 1, !.loading = FALSE]
     \/ state' = [state EXCEPT !.loading = FALSE]
  /\ UNCHANGED <<listing, seen, refs, frame, started, alive, strayed>>

\* Mutant of ReadEnds: loading is reset where the read succeeds only.
ReadEndsShort(o) ==
  /\ Ends(o) /\ o.op = "reveal"
  /\ \/ state' = [state EXCEPT !.result = o.name, !.asking = "none", !.loading = FALSE]
     \/ state' = [state EXCEPT !.asking = "none"]
  /\ confirming' = "none"
  /\ UNCHANGED <<listing, seen, settling, filtering, frame, started, alive, strayed>>

\* The read succeeds or fails, whatever was hidden meanwhile.
ReadEnds(o) ==
  /\ Ends(o) /\ o.op = "reveal"
  /\ \/ state' = [state EXCEPT !.result = o.name, !.asking = "none", !.loading = FALSE]
     \/ state' = [state EXCEPT !.asking = "none", !.loading = FALSE]
  /\ confirming' = "none"
  /\ UNCHANGED <<listing, seen, settling, filtering, frame, started, alive, strayed>>

\* The file is written, or the export fails.
ExportEnds(o) ==
  /\ Ends(o) /\ o.op = "export"
  /\ state' = [state EXCEPT !.loading = FALSE]
  /\ UNCHANGED <<listing, seen, refs, frame, started, alive, strayed>>

\* React commits a frame: the heading Selected(seen), the plaintext seen.result,
\* the warning seen.asking.
Render ==
  /\ alive /\ (state # seen \/ frame # "fresh")
  /\ seen' = state /\ frame' = "fresh"
  /\ UNCHANGED <<listing, state, refs, running, started, alive, strayed>>

\* The 250 ms are over.  A frame takes a thirtieth of a second.
Settle ==
  /\ alive /\ settling /\ frame = "fresh"
  /\ settling' = FALSE
  /\ UNCHANGED <<listing, state, seen, confirming, filtering, frame, running, started, alive,
                 strayed>>

\* The terminal loses its focus: the renderer is destroyed.
Blur ==
  /\ alive /\ alive' = FALSE
  /\ UNCHANGED <<listing, state, seen, refs, frame, running, started, strayed>>

\* The daemon captures another trace.
Capture ==
  /\ alive /\ listing < Len(Inventories)
  /\ listing' = listing + 1
  /\ UNCHANGED <<state, seen, refs, frame, running, started, alive, strayed>>

End == \E o \in running : ListEnds(o) \/ ReadEnds(o) \/ ExportEnds(o)

ExplorerNext ==
  \/ TypeFilter \/ LeaveFilter \/ Confirm \/ Cancel \/ Quit \/ Escape
  \/ OpenFilter \/ Move \/ AskReveal \/ AskExport \/ Reload
  \/ End \/ Render \/ Settle \/ Blur \/ Capture

\* Operations end, frames are rendered.
ExplorerSpec ==
  /\ ExplorerInit /\ [][ExplorerNext]_explorerVars
  /\ WF_explorerVars(End) /\ WF_explorerVars(Render)

----------------------------------------------------------------------------
(* Properties.                                                             *)

ExplorerTypeOK ==
  /\ listing \in 1..Len(Inventories)
  /\ \A ui \in {state, seen} :
       /\ ui.rows \in {<< >>} \cup {Inventories[i] : i \in 1..Len(Inventories)}
       /\ ui.index \in Nat \ {0} /\ ui.filter \in Filters
       /\ {ui.loading, ui.detail} \subseteq BOOLEAN
       /\ ui.result \in Traces \cup {NoTrace}
       /\ ui.asking \in {"none", "reveal", "export", "clipboard"}
  /\ confirming \in {"none", "reveal", "export", "clipboard"}
  /\ {settling, filtering, alive, strayed} \subseteq BOOLEAN
  /\ frame \in {"fresh", "key", "enter", "twice"}
  /\ started \in 1..MaxStarted /\ Cardinality(running) <= started

\* One operation runs at a time, the keyboard is locked exactly while it runs,
\* and the selection stands on the trace a read is for: no second read, reload
\* or move can slip in between the keys, the frames and the answers.
OneOperation ==
  /\ ExplorerTypeOK
  /\ alive => (state.loading <=> running # {}) /\ Cardinality(running) <= 1
  /\ \A o \in running : o.op = "reveal" => o.name = Selected(state)

\* A revealed trace stands under its own heading, and an exported file holds
\* the trace it is named after.  It takes a filter that is not opened over a
\* revealed trace: then the selection moves and the plaintext stays.
ShownUnderItsHeading ==
  /\ OneOperation
  /\ ~strayed /\ state.result # NoTrace => state.result = Selected(state)
  /\ \A o \in running : o.op = "export" /\ ~o.astray => o.trace = o.name

\* "Press Enter, review the warning, then confirm": a trace is read, and written
\* to a file, only from a frame that showed the warning for it.  It takes an Enter
\* that the terminal does not double.  No exception is made for exports.
ReviewedOrDoubled ==
  \A o \in running : o.op # "list" => o.warned \/ (o.op = "reveal" /\ o.doubled)

\* The keyboard comes back after every operation, also one that failed.
KeyboardReturns == state.loading ~> (~state.loading \/ ~alive)
=============================================================================
