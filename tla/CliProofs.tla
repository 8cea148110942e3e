------------------------------ MODULE CliProofs ------------------------------
(***************************************************************************)
(* Proofs about two parts of the command line: Launcher with the route     *)
(* registry, for any commands, routes, lifetimes and stops of the daemon;  *)
(* and the terminal explorer (Explorer), for any listings, filters and     *)
(* number of operations.                                                   *)
(***************************************************************************)
EXTENDS Launcher, Explorer, SequenceTheorems, FiniteSetTheorems, TLAPS

----------------------------------------------------------------------------
(* Coding clients and their routes.                                        *)

USE NoTokenAssumption, RouteOfAssumption, MaxTimeAssumption, RevealsAssumption,
    TtlAssumption, OwnIdAssumption

\* Before any command ran, the invariant holds.
LEMMA InitInv == LaunchInit => LaunchInv
BY DEF LaunchInit, Init, LaunchInv, MapsAgree, TypeOK, CommandInv, RouteEndsWithRun, Places

\* What the removal of a route by its id does: both maps lose it, and no other
\* token, since no two commands share an id.
LEMMA RemoveRoute ==
  ASSUME MapsAgree, NEW i \in Issuers, Remove(RouteOf[i]),
         UNCHANGED <<now, issue, ttl, expiresAt>>
  PROVE  MapsAgree' /\ registered' = registered \ {i}
<1>1. tokenOf[RouteOf[i]] \in {i, NoToken}
  BY DEF MapsAgree, TypeOK
<1>2. registered' = registered \ {i}
  BY <1>1 DEF MapsAgree, TypeOK, Remove
<1>3. tokenOf' = [tokenOf EXCEPT ![RouteOf[i]] = NoToken]
  BY DEF Remove
<1>4. TypeOK'
  BY <1>2, <1>3 DEF MapsAgree, TypeOK
<1>5. \A j \in registered' : (tokenOf[RouteOf[j]] = j)'
  BY <1>2, <1>3 DEF MapsAgree, TypeOK
<1>6. \A r \in RouteIds :
        (tokenOf[r] # NoToken => tokenOf[r] \in registered /\ RouteOf[tokenOf[r]] = r)'
  BY <1>2, <1>3 DEF MapsAgree, TypeOK
<1> QED
  BY <1>2, <1>4, <1>5, <1>6 DEF MapsAgree

\* The registration of a token whose hash was awaited: the id was free when it
\* was checked, and it is nobody else's.
LEMMA RegisterRoute ==
  ASSUME MapsAgree, NEW i \in Issuers, i \notin registered, Register(i)
  PROVE  MapsAgree' /\ registered' = registered \cup {i}
<1> USE DEF Register
<1>1. TypeOK'
  BY DEF MapsAgree, TypeOK
<1>2. \A j \in registered' : (tokenOf[RouteOf[j]] = j)'
  BY DEF MapsAgree, TypeOK
<1>3. \A r \in RouteIds :
        (tokenOf[r] # NoToken => tokenOf[r] \in registered /\ RouteOf[tokenOf[r]] = r)'
  BY DEF MapsAgree, TypeOK
<1> QED
  BY <1>1, <1>2, <1>3 DEF MapsAgree

\* Every step of a command preserves the invariant.
LEMMA CommandStep ==
  ASSUME LaunchInv, NEW i \in Issuers,
         Locate(i) \/ Post(i) \/ Launch(i) \/ LoseAnswer(i) \/ ChildExits(i)
           \/ Reap(i) \/ Delete(i) \/ Kill(i)
  PROVE  LaunchInv'
<1> USE DEF LaunchInv, CommandInv, RouteEndsWithRun, Places, To, Fails
<1>1. CASE Locate(i)
  BY <1>1 DEF Locate, registry, MapsAgree, TypeOK
<1>2. CASE Post(i)
  <2>1. MapsAgree' /\ registered' = registered
    BY <1>2 DEF Post, registry, Check, MapsAgree, TypeOK
  <2> QED
    BY <1>2, <2>1 DEF Post, registry, Check, MapsAgree, TypeOK
<1>3. CASE Launch(i)
  BY <1>3 DEF Launch, Revealed, Spawned, registry, MapsAgree, TypeOK
<1>4. CASE LoseAnswer(i)
  BY <1>4 DEF LoseAnswer, registry, MapsAgree, TypeOK
<1>5. CASE ChildExits(i)
  BY <1>5 DEF ChildExits, registry, MapsAgree, TypeOK
<1>6. CASE Reap(i)
  BY <1>6 DEF Reap, registry, MapsAgree, TypeOK
<1>7. CASE Delete(i)
  <2>1. /\ run[i] = "revoking" /\ run' \in {[run EXCEPT ![i] = p] : p \in {"done", "warned"}}
        /\ UNCHANGED <<up, stops, child, voided, dropped>>
    BY <1>7 DEF Delete
  <2>2. CASE Revoke(RouteOf[i])
    <3>1. MapsAgree' /\ registered' = registered \ {i} /\ UNCHANGED <<issue, now, expiresAt>>
      BY <2>2, RemoveRoute DEF Revoke
    <3>2. \A j \in Issuers : CommandInv(j)'
      BY <2>1, <3>1
    <3>3. RouteEndsWithRun'
      BY <2>1, <3>1 DEF MapsAgree, TypeOK
    <3> QED
      BY <2>1, <3>1, <3>2, <3>3
  <2>3. CASE UNCHANGED registry
    <3>1. MapsAgree' /\ UNCHANGED <<issue, now, expiresAt, registered>>
      BY <2>3 DEF registry, MapsAgree, TypeOK
    <3>2. run'[i] = "done" /\ i \in registered => FALSE
      <4> SUFFICES ASSUME run'[i] = "done", i \in registered PROVE FALSE
        OBVIOUS
      <4>1. tokenOf[RouteOf[i]] = i
        BY DEF MapsAgree
      <4>2. tokenOf'[RouteOf[i]] = i
        BY <2>3, <4>1 DEF registry
      <4>3. Revoke(RouteOf[i])
        BY <1>7, <4>1 DEF Delete
      <4> QED
        BY <4>2, <4>3 DEF Revoke, Remove, MapsAgree, TypeOK
    <3>3. \A j \in Issuers : CommandInv(j)'
      BY <2>1, <3>1
    <3>4. RouteEndsWithRun'
      BY <2>1, <3>1, <3>2 DEF MapsAgree, TypeOK
    <3> QED
      BY <2>1, <3>1, <3>3, <3>4
  <2> QED
    BY <1>7, <2>2, <2>3 DEF Delete
<1>8. CASE Kill(i)
  BY <1>8 DEF Kill, registry, MapsAgree, TypeOK
<1> QED
  BY <1>1, <1>2, <1>3, <1>4, <1>5, <1>6, <1>7, <1>8

\* And so does every step of the daemon and of the clock.
LEMMA DaemonStep ==
  ASSUME LaunchInv,
         (\E i \in Issuers : Registered(i) \/ Expired(i)) \/ Stop \/ Restart \/ Pass
  PROVE  LaunchInv'
<1> USE DEF LaunchInv, CommandInv, RouteEndsWithRun, Places, commands
<1>1. ASSUME NEW i \in Issuers, Registered(i) PROVE LaunchInv'
  <2>1. i \notin registered /\ issue[i] = "hashing"
    BY <1>1 DEF Registered, Register
  <2>2. MapsAgree' /\ registered' = registered \cup {i}
    BY <1>1, <2>1, RegisterRoute DEF Registered
  <2> QED
    BY <1>1, <2>1, <2>2 DEF Registered, Register, MapsAgree, TypeOK
<1>2. ASSUME NEW i \in Issuers, Expired(i) PROVE LaunchInv'
  <2>1. MapsAgree' /\ registered' = registered \ {i}
    BY <1>2, RemoveRoute DEF Expired, ResolveExpired
  <2>2. expiresAt[i] <= now
    BY <1>2 DEF Expired, ResolveExpired, Resolves, MapsAgree, TypeOK
  <2> QED
    BY <1>2, <2>1, <2>2 DEF Expired, ResolveExpired
<1>3. CASE Stop
  <2>1. MapsAgree' /\ registered' = {}
    BY <1>3 DEF Stop, MapsAgree, TypeOK
  <2> QED
    BY <1>3, <2>1 DEF Stop, MapsAgree, TypeOK
<1>4. CASE Restart
  BY <1>4 DEF Restart, registry, MapsAgree, TypeOK
<1>5. CASE Pass
  BY <1>5 DEF Pass, Tick, MapsAgree, TypeOK
<1> QED
  BY <1>1, <1>2, <1>3, <1>4, <1>5

\* LaunchInv is an inductive invariant.
THEOREM LaunchInvariance == LaunchSpec => []LaunchInv
<1>1. LaunchInv /\ [LaunchNext]_launchVars => LaunchInv'
  <2> SUFFICES ASSUME LaunchInv, [LaunchNext]_launchVars PROVE LaunchInv'
    OBVIOUS
  <2>1. CASE LaunchNext
    BY <2>1, CommandStep, DaemonStep DEF LaunchNext
  <2>2. CASE UNCHANGED launchVars
    BY <2>2
       DEF launchVars, registry, commands, LaunchInv, CommandInv, RouteEndsWithRun, MapsAgree, TypeOK
  <2> QED
    BY <2>1, <2>2
<1> QED
  BY InitInv, <1>1, PTL DEF LaunchSpec

\* The maps of the registry agree: every route that resolves can be revoked by
\* its id, however calls, expiries, revocations and restarts interleave.
THEOREM RegistryIsConsistent == LaunchSpec => []MapsAgree
<1>1. LaunchInv => MapsAgree
  BY DEF LaunchInv
<1> QED
  BY LaunchInvariance, <1>1, PTL

\* A run that was not killed, did not warn and lost no answer leaves no route.
THEOREM RunsLeaveNoRoute == LaunchSpec => []RouteEndsWithRun
<1>1. LaunchInv => RouteEndsWithRun
  BY DEF LaunchInv
<1> QED
  BY LaunchInvariance, <1>1, PTL

\* A client that runs keeps its route until it expires or its daemon stops.
THEOREM ClientsAreRouted == LaunchSpec => []ChildIsRouted
<1>1. LaunchInv => ChildIsRouted
  BY DEF LaunchInv, CommandInv, ChildIsRouted, Resolves, MapsAgree, TypeOK
<1> QED
  BY LaunchInvariance, <1>1, PTL

----------------------------------------------------------------------------
(* The terminal explorer.                                                  *)

HIDE NoTokenAssumption
HIDE RouteOfAssumption
HIDE MaxTimeAssumption
HIDE RevealsAssumption
HIDE TtlAssumption
HIDE OwnIdAssumption

Warnings == {"none", "reveal", "export", "clipboard"}
Lists == {<< >>} \cup {Inventories[i] : i \in 1..Len(Inventories)}
Shown == Traces \cup {NoTrace}

\* The states of the component.
Uis == [rows : Lists, index : Nat \ {0}, filter : Filters, loading : BOOLEAN,
        result : Shown, asking : Warnings, detail : BOOLEAN]

\* The types of everything else.
RefsTypeOK ==
  /\ listing \in 1..Len(Inventories) /\ started \in 1..MaxStarted
  /\ confirming \in Warnings /\ frame \in {"fresh", "key", "enter", "twice"}
  /\ settling \in BOOLEAN /\ filtering \in BOOLEAN /\ alive \in BOOLEAN /\ strayed \in BOOLEAN

\* One operation runs at most, and the keyboard is locked while it does.
LockInv ==
  /\ running = {} \/ \E o \in running : running = {o}
  /\ state.loading <=> running # {}
  /\ frame = "fresh" /\ ~seen.loading => state = seen
  /\ frame = "enter" /\ ~settling => running = {}

\* Two states with the same selection and the same trace.
Alike(a, b) == a.rows = b.rows /\ a.index = b.index /\ a.filter = b.filter /\ a.result = b.result

\* No operation runs while a warning is up or the filter is open; a warning that
\* a frame has shown is the one that would be confirmed.
WarningInv ==
  /\ filtering => confirming = "none" /\ running = {}
  /\ confirming # "none" =>
       /\ running = {} /\ state.asking = confirming
       /\ frame \in {"fresh", "enter"} => Alike(state, seen)
       /\ frame = "fresh" => state = seen
  /\ frame = "enter" => confirming \in {"none", "reveal"}

\* The trace that is shown is the selected one.
HeadingInv ==
  /\ filtering /\ state.result # NoTrace => strayed
  /\ ~strayed /\ state.result # NoTrace => state.result = Selected(state)

\* What an operation that runs will bring stands where it belongs.
OperationInv(o) ==
  /\ o.op \in {"list", "reveal", "export"} /\ o.rows \in Lists /\ o.name \in Shown
  /\ o.op = "list" => state.result = NoTrace
  /\ o.op = "reveal" => o.name = Selected(state) /\ (o.warned \/ o.doubled)
  /\ o.op = "export" => o.warned /\ (~o.astray => o.trace = o.name)

\* What every key, answer and frame keeps.
ExplorerInv ==
  /\ state \in Uis /\ seen \in Uis /\ RefsTypeOK
  /\ LockInv /\ WarningInv /\ HeadingInv
  /\ \A o \in running : OperationInv(o)

\* A list is a sequence of traces.
LEMMA RowsType ==
  ASSUME NEW ui \in Uis
  PROVE  ui.rows \in Seq(Traces)
<1>1. \A i \in 1..Len(Inventories) : Inventories[i] \in Seq(Traces)
  BY ElementOfSeq, InventoryAssumption, FilterAssumption, StartedAssumption
<1>2. ui.rows \in Lists
  BY DEF Uis
<1>3. << >> \in Seq(Traces)
  OBVIOUS
<1> QED
  BY <1>1, <1>2, <1>3 DEF Lists

\* The selection is a trace, or there is none.
LEMMA SelectionType ==
  ASSUME NEW ui \in Uis
  PROVE  Selected(ui) \in Shown
<1> DEFINE At == {i \in Visible(ui) : Cardinality({j \in Visible(ui) : j <= i}) = ui.index}
<1>1. \A i \in At : ui.rows[i] \in Traces
  BY RowsType DEF Visible
<1>2. At # {} => (CHOOSE i \in At : TRUE) \in At
  OBVIOUS
<1> QED
  BY <1>1, <1>2 DEF Selected, Shown

\* So the visible rows can be counted.
LEMMA CountedRows ==
  ASSUME NEW ui \in Uis
  PROVE  Cardinality(Visible(ui)) \in Nat
<1>1. IsFiniteSet(1..Len(ui.rows))
  BY RowsType, FS_Interval, LenProperties
<1>2. IsFiniteSet(Visible(ui))
  BY <1>1, FS_Subset DEF Visible
<1> QED
  BY <1>2, FS_CardinalityType

\* The selection depends on the list, the index and the filter only.
LEMMA SameSelection ==
  ASSUME NEW a, NEW b, a.rows = b.rows, a.index = b.index, a.filter = b.filter
  PROVE  Selected(a) = Selected(b)
<1>1. Visible(a) = Visible(b)
  BY DEF Visible
<1> QED
  BY <1>1 DEF Selected


\* A handler that starts nothing.
LEMMA QuietKeeps ==
  ASSUME ExplorerInv,
         \/ TypeFilter \/ LeaveFilter \/ OpenFilter
         \/ Cancel \/ AskReveal \/ AskExport
  PROVE  ExplorerInv'
<1> USE DEF ExplorerInv, RefsTypeOK, LockInv, WarningInv, HeadingInv, Warnings, Alike, Uis,
            Key, Enter, Browsing, Idle, refs, Confirmable
<1>1. CASE TypeFilter
  BY <1>1 DEF TypeFilter
<1>2. CASE LeaveFilter
  <2>1. state' = [state EXCEPT !.index = 1] /\ running = {} /\ running' = {}
    BY <1>2 DEF LeaveFilter
  <2>2. state' \in Uis
    BY <2>1
  <2> QED
    BY <1>2, <2>1, <2>2 DEF LeaveFilter
<1>3. CASE OpenFilter
  BY <1>3 DEF OpenFilter
<1>4. CASE Cancel
  BY <1>4, SameSelection DEF Cancel
<1>5. CASE AskReveal
  BY <1>5, SameSelection DEF AskReveal
<1>6. CASE AskExport
  BY <1>6, SameSelection DEF AskExport
<1> QED
  BY <1>1, <1>2, <1>3, <1>4, <1>5, <1>6

\* What hides the plaintext.
LEMMA HidingKeeps ==
  ASSUME ExplorerInv, Quit \/ Escape \/ Move
  PROVE  ExplorerInv'
<1>1. /\ frame = "fresh" /\ frame' = "key" /\ ~filtering /\ confirming = "none"
      /\ UNCHANGED <<listing, seen, settling, filtering, running, started>>
      /\ alive' \in BOOLEAN /\ confirming' = "none"
  BY DEF Quit, Escape, Move, Browsing, Idle, Key, ClearPlaintext,
         ExplorerInv, RefsTypeOK
<1>2. CASE UNCHANGED <<state, strayed>>
  BY <1>1, <1>2 DEF ExplorerInv, RefsTypeOK, LockInv, WarningInv, HeadingInv, OperationInv
<1>3. ASSUME NEW n \in Nat \ {0}, strayed' = FALSE, state' = [Hidden(state) EXCEPT !.index = n],
             n # state.index => running = {}
      PROVE  ExplorerInv'
  <2>1. state' \in Uis /\ state'.result = NoTrace /\ state'.loading = state.loading
    BY <1>3 DEF Hidden, Uis, Warnings, Shown, ExplorerInv
  <2>2. running # {} => Selected(state') = Selected(state)
    <3>1. running # {} => /\ state'.rows = state.rows /\ state'.index = state.index
                          /\ state'.filter = state.filter
      BY <1>3 DEF Hidden, Uis, ExplorerInv
    <3> QED
      BY <3>1, SameSelection
  <2>3. RefsTypeOK' /\ LockInv' /\ WarningInv' /\ HeadingInv'
    BY <1>1, <1>3, <2>1 DEF ExplorerInv, RefsTypeOK, LockInv, WarningInv, HeadingInv
  <2>4. \A o \in running' : OperationInv(o)'
    BY <1>1, <2>1, <2>2 DEF ExplorerInv, OperationInv
  <2> QED
    BY <1>1, <2>1, <2>3, <2>4 DEF ExplorerInv
<1>4. CASE state' = Hidden(state) /\ strayed' = FALSE
  <2>1. state' = [Hidden(state) EXCEPT !.index = state.index] /\ state.index \in Nat \ {0}
    BY <1>4 DEF Hidden, Uis, ExplorerInv
  <2> QED
    BY <1>3, <1>4, <2>1
<1>5. CASE Move
  <2>1. Cardinality(Visible(seen)) \in Nat
    BY CountedRows DEF ExplorerInv
  <2>2. PICK n \in Nat \ {0} : state' = [Hidden(state) EXCEPT !.index = n]
    <3>1. state.index \in Nat \ {0}
      BY DEF Uis, ExplorerInv
    <3> DEFINE last == Cardinality(Visible(seen))
               Up == IF state.index > 1 THEN state.index - 1 ELSE 1
               Down == IF state.index < last THEN state.index + 1
                       ELSE IF last > 1 THEN last ELSE 1
    <3>2. PICK i \in {Up, Down} : state' = [Hidden(state) EXCEPT !.index = i]
      BY <1>5 DEF Move
    <3>3. last \in Nat
      BY <2>1
    <3> HIDE DEF last
    <3>4. Up \in Nat \ {0} /\ Down \in Nat \ {0}
      BY <3>1, <3>3
    <3> QED
      BY <3>2, <3>4
  <2>3. running = {} /\ strayed' = FALSE
    BY <1>5 DEF Move, Idle, Browsing, Key, ExplorerInv, LockInv
  <2> QED
    BY <1>3, <2>2, <2>3
<1>6. CASE Quit \/ Escape
  BY <1>2, <1>4, <1>6 DEF Quit, Escape, ClearPlaintext
<1> QED
  BY <1>5, <1>6

\* An operation that is started from a frame that shows what is state.
LEMMA StartKeeps ==
  ASSUME ExplorerInv, NEW op \in {"list", "reveal", "export"}, Start(op),
         state' \in Uis, state'.loading, RefsTypeOK', seen' = seen, frame' # "fresh",
         running = {}, ~filtering', confirming' = "none", frame' = "enter" => settling',
         ~strayed' /\ state'.result # NoTrace => state'.result = Selected(state'),
         op = "list" => state'.result = NoTrace,
         op = "reveal" =>
           Selected(state') = Selected(seen) /\ (seen.asking = op \/ frame = "enter"),
         op = "export" => seen.asking = op /\ (~strayed => seen.result = Selected(seen))
  PROVE  ExplorerInv'
<1>1. running' = {Operation(op)}
  BY DEF Start
<1>2. Inventories[listing] \in Lists
  BY DEF Lists, ExplorerInv, RefsTypeOK
<1>3. PICK o : o = Operation(op)
  OBVIOUS
<1>4. OperationInv(o)'
  <2>1. /\ o.op = op /\ o.name = Selected(seen) /\ o.trace = seen.result
        /\ o.rows = Inventories[listing]
    BY <1>3 DEF Operation
  <2>2. (o.warned <=> seen.asking = op) /\ (o.astray <=> strayed) /\ (o.doubled <=> frame = "enter")
    BY <1>3 DEF Operation
  <2>3. Selected(seen) \in Shown
    BY SelectionType DEF ExplorerInv
  <2> QED
    BY <1>2, <2>1, <2>2, <2>3 DEF OperationInv
<1>5. LockInv' /\ WarningInv' /\ HeadingInv'
  BY <1>1 DEF LockInv, WarningInv, HeadingInv
<1> QED
  BY <1>1, <1>3, <1>4, <1>5 DEF ExplorerInv

\* A confirmation, or a reload.
LEMMA ConfirmKeeps ==
  ASSUME ExplorerInv, Confirm \/ Reload
  PROVE  ExplorerInv'
<1>1. CASE Reload
  <2>1. /\ frame = "fresh" /\ frame' = "key" /\ ~filtering /\ ~seen.loading
        /\ state' = [Hidden(state) EXCEPT !.loading = TRUE]
        /\ confirming' = "none" /\ strayed' = FALSE
        /\ UNCHANGED <<listing, seen, settling, filtering, alive>> /\ Start("list")
    BY <1>1 DEF Reload, Idle, Browsing, Key
  <2>2. state' \in Uis /\ state'.loading /\ state'.result = NoTrace /\ running = {}
    BY <2>1 DEF Hidden, Uis, Warnings, Shown, ExplorerInv, LockInv
  <2>3. RefsTypeOK'
    <3>1. started' \in 1..MaxStarted
      BY <2>1, InventoryAssumption, FilterAssumption, StartedAssumption
         DEF Start, ExplorerInv, RefsTypeOK
    <3>2. strayed' \in BOOLEAN
      BY <2>1, Zenon
    <3> QED
      BY <2>1, <3>1, <3>2 DEF ExplorerInv, RefsTypeOK, Warnings
  <2> QED
    BY <2>1, <2>2, <2>3, StartKeeps
<1>2. CASE Confirm
  <2>1. /\ ~filtering /\ confirming # "none" /\ confirming' = "none" /\ settling' = TRUE
        /\ \/ frame = "fresh" /\ frame' \in {"key", "enter"}
           \/ frame = "enter" /\ frame' = "twice"
        /\ UNCHANGED <<listing, seen, filtering, alive>>
    BY <1>2 DEF Confirm, Confirmable, Key, Enter
  <2>2. /\ running = {} /\ ~state.loading /\ Alike(state, seen)
        /\ frame = "fresh" => seen.asking = confirming
        /\ frame = "enter" => confirming = "reveal"
    BY <2>1 DEF ExplorerInv, LockInv, WarningInv
  <2>3. Selected(state) = Selected(seen)
    BY <2>2, SameSelection DEF Alike
  <2>4. ASSUME state' = [state EXCEPT !.asking = "none"], UNCHANGED <<running, started, strayed>>
        PROVE  ExplorerInv'
    <3>1. state' \in Uis /\ Alike(state', state) /\ ~state'.loading
      BY <2>2, <2>4 DEF Alike, Uis, Warnings, ExplorerInv
    <3>2. Selected(state') = Selected(state)
      BY <3>1, SameSelection DEF Alike
    <3> QED
      BY <2>1, <2>2, <2>4, <3>1, <3>2 DEF ExplorerInv, RefsTypeOK, LockInv, WarningInv, HeadingInv,
                Warnings, Alike
  <2>5. ASSUME Start("reveal"), confirming = "reveal", strayed' = FALSE,
               state' = [state EXCEPT !.asking = "none", !.loading = TRUE, !.detail = TRUE,
                                  !.result = NoTrace]
        PROVE  ExplorerInv'
    <3>1. /\ state' \in Uis /\ state'.loading /\ state'.result = NoTrace
          /\ state'.rows = state.rows /\ state'.index = state.index /\ state'.filter = state.filter
      BY <2>5 DEF Uis, Warnings, Shown, ExplorerInv
    <3>2. Selected(state') = Selected(seen)
      BY <2>3, <3>1, SameSelection
    <3>3. RefsTypeOK'
      <4>1. started' \in 1..MaxStarted
        BY <2>5, InventoryAssumption, FilterAssumption, StartedAssumption
           DEF Start, ExplorerInv, RefsTypeOK
      <4>2. strayed' \in BOOLEAN /\ settling' \in BOOLEAN
        BY <2>1, <2>5, Zenon
      <4> QED
        BY <2>1, <4>1, <4>2 DEF ExplorerInv, RefsTypeOK, Warnings
    <3> QED
      BY <2>1, <2>2, <2>5, <3>1, <3>2, <3>3, StartKeeps
  <2>6. ASSUME Start("export"), confirming = "export", UNCHANGED strayed,
               seen.result # NoTrace,
               state' = [state EXCEPT !.asking = "none", !.loading = TRUE]
        PROVE  ExplorerInv'
    <3>1. state' \in Uis /\ state'.loading /\ Alike(state', state)
      BY <2>6 DEF Alike, Uis, Warnings, Shown, ExplorerInv
    <3>2. Selected(state') = Selected(state)
      BY <3>1, SameSelection DEF Alike
    <3>3. RefsTypeOK'
      BY <2>1, <2>6, InventoryAssumption, FilterAssumption, StartedAssumption
         DEF Start, ExplorerInv, RefsTypeOK, Warnings
    <3>4. ~strayed => seen.result = Selected(seen)
      BY <2>2, <2>3, <2>6 DEF Alike, ExplorerInv, HeadingInv
    <3>5. ~strayed' /\ state'.result # NoTrace => state'.result = Selected(state')
      BY <2>6, <3>1, <3>2 DEF Alike, ExplorerInv, HeadingInv
    <3> QED
      BY <2>1, <2>2, <2>6, <3>1, <3>3, <3>4, <3>5, StartKeeps
  <2> QED
    BY <1>2, <2>4, <2>5, <2>6 DEF Confirm, Inspect, ExportSelected
<1> QED
  BY <1>1, <1>2

\* The operation that runs ends, well or badly.
LEMMA EndKeeps ==
  ASSUME ExplorerInv, End
  PROVE  ExplorerInv'
<1>1. PICK o \in running : ListEnds(o) \/ ReadEnds(o) \/ ExportEnds(o)
  BY DEF End, ListEnds, ReadEnds, ExportEnds, Ends
<1>2. /\ running' = {} /\ state.loading /\ OperationInv(o) /\ ~filtering /\ confirming = "none"
      /\ frame = "fresh" => seen.loading
      /\ confirming' = "none"
      /\ UNCHANGED <<listing, seen, settling, filtering, frame, started, alive, strayed>>
  BY <1>1 DEF ListEnds, ReadEnds, ExportEnds, Ends, refs, ExplorerInv, LockInv, WarningInv
<1>3. /\ state' \in Uis /\ ~state'.loading
      /\ ~strayed /\ state'.result # NoTrace => state'.result = Selected(state')
  <2>1. CASE ListEnds(o)
    <3>1. state.result = NoTrace /\ o.rows \in Lists
      BY <1>2, <2>1 DEF ListEnds, OperationInv
    <3>2. \/ state' = [state EXCEPT !.rows = o.rows, !.index = 1, !.loading = FALSE]
          \/ state' = [state EXCEPT !.loading = FALSE]
      BY <2>1 DEF ListEnds
    <3>3. state' \in Uis
      <4>1. state \in Uis /\ 1 \in Nat \ {0}
        BY DEF ExplorerInv
      <4>2. CASE state' = [state EXCEPT !.rows = o.rows, !.index = 1, !.loading = FALSE]
        BY <3>1, <4>1, <4>2 DEF Uis
      <4>3. CASE state' = [state EXCEPT !.loading = FALSE]
        BY <4>1, <4>3 DEF Uis
      <4> QED
        BY <3>2, <4>2, <4>3
    <3>4. ~state'.loading /\ state'.result = NoTrace
      BY <3>1, <3>2 DEF Uis, ExplorerInv
    <3> QED
      BY <3>3, <3>4
  <2>2. CASE ReadEnds(o)
    <3>1. /\ state' \in Uis /\ ~state'.loading /\ state'.result \in {state.result, o.name}
          /\ state'.rows = state.rows /\ state'.index = state.index /\ state'.filter = state.filter
      <4>1. PICK result \in {state.result, o.name} :
              state' = [state EXCEPT !.result = result, !.asking = "none", !.loading = FALSE]
        <5>1. state = [state EXCEPT !.result = state.result]
          BY DEF ExplorerInv, Uis
        <5> QED
          BY <2>2, <5>1 DEF ReadEnds, ExplorerInv, Uis
      <4>2. result \in Shown
        BY <1>2, <4>1 DEF OperationInv, ExplorerInv, Uis
      <4> QED
        BY <4>1, <4>2 DEF Uis, Warnings, ExplorerInv
    <3>2. Selected(state') = Selected(state) /\ o.name = Selected(state)
      BY <1>2, <2>2, <3>1, SameSelection DEF ReadEnds, OperationInv
    <3> QED
      BY <3>1, <3>2 DEF ExplorerInv, HeadingInv
  <2>3. CASE ExportEnds(o)
    <3>1. state' \in Uis /\ ~state'.loading /\ Alike(state', state)
      BY <1>2, <2>3 DEF ExportEnds, Alike, Uis, ExplorerInv
    <3>2. Selected(state') = Selected(state)
      BY <3>1, SameSelection DEF Alike
    <3> QED
      BY <3>1, <3>2 DEF Alike, ExplorerInv, HeadingInv
  <2> QED
    BY <1>1, <2>1, <2>2, <2>3
<1>4. RefsTypeOK' /\ LockInv' /\ WarningInv' /\ HeadingInv'
  BY <1>2, <1>3 DEF ExplorerInv, RefsTypeOK, LockInv, WarningInv, HeadingInv
<1> QED
  BY <1>2, <1>3, <1>4 DEF ExplorerInv

\* A frame, the end of the 250 ms, the loss of focus, another trace.
LEMMA RestKeeps ==
  ASSUME ExplorerInv, Render \/ Settle \/ Blur \/ Capture \/ UNCHANGED explorerVars
  PROVE  ExplorerInv'
<1>1. /\ state' = state /\ UNCHANGED <<confirming, filtering, running, started, strayed>>
      /\ seen' \in {seen, state} /\ settling' \in {settling, FALSE} /\ alive' \in {alive, FALSE}
      /\ listing' \in 1..Len(Inventories)
      /\ \/ frame' = "fresh" /\ seen' = state
         \/ UNCHANGED <<frame, seen>> /\ (frame # "fresh" => settling' = settling)
  <2> USE DEF refs
  <2>1. CASE Capture
    BY <2>1, InventoryAssumption, FilterAssumption, StartedAssumption
       DEF Capture, ExplorerInv, RefsTypeOK
  <2>2. CASE Render \/ Settle \/ Blur \/ UNCHANGED explorerVars
    BY <2>2 DEF Render, Settle, Blur, explorerVars, ExplorerInv, RefsTypeOK
  <2> QED
    BY <2>1, <2>2
<1>2. state' \in Uis /\ seen' \in Uis
  BY <1>1 DEF ExplorerInv
<1>3. RefsTypeOK'
  BY <1>1 DEF ExplorerInv, RefsTypeOK
<1>4. LockInv' /\ WarningInv' /\ HeadingInv'
  BY <1>1 DEF ExplorerInv, LockInv, WarningInv, HeadingInv, Alike
<1>5. \A o \in running' : OperationInv(o)'
  BY <1>1 DEF ExplorerInv, OperationInv
<1> QED
  BY <1>2, <1>3, <1>4, <1>5 DEF ExplorerInv

\* ExplorerInv is an inductive invariant of Explorer.
THEOREM ExplorerInvariance == ExplorerSpec => []ExplorerInv
<1>1. ExplorerInit => ExplorerInv
  <2> SUFFICES ASSUME ExplorerInit PROVE ExplorerInv
    OBVIOUS
  <2>1. 1 \in 1..Len(Inventories)
    BY EmptySeq, LenProperties, InventoryAssumption, FilterAssumption, StartedAssumption
  <2>2. state \in Uis /\ seen \in Uis
    BY InventoryAssumption, FilterAssumption, StartedAssumption
       DEF ExplorerInit, Uis, Lists, Shown, Warnings
  <2>3. RefsTypeOK
    <3>1. /\ settling \in BOOLEAN /\ filtering \in BOOLEAN
          /\ alive \in BOOLEAN /\ strayed \in BOOLEAN
      BY Zenon DEF ExplorerInit
    <3> QED
      BY <2>1, <3>1, InventoryAssumption, FilterAssumption, StartedAssumption
         DEF ExplorerInit, RefsTypeOK, Warnings
  <2>4. LockInv /\ WarningInv /\ HeadingInv
    BY DEF ExplorerInit, LockInv, WarningInv, HeadingInv
  <2>5. \A o \in running : OperationInv(o)
    BY <2>1 DEF ExplorerInit, OperationInv, Lists, Shown
  <2> QED
    BY <2>2, <2>3, <2>4, <2>5 DEF ExplorerInv
<1>2. ExplorerInv /\ [ExplorerNext]_explorerVars => ExplorerInv'
  BY QuietKeeps, HidingKeeps, ConfirmKeeps, EndKeeps, RestKeeps DEF ExplorerNext
<1> QED
  BY <1>1, <1>2, PTL DEF ExplorerSpec

\* However keys, frames and late answers interleave, a revealed trace stands
\* under its own heading, and an exported file holds the trace it is named after,
\* unless the filter was opened over a revealed trace.
THEOREM TracesAreUnderTheirHeading == ExplorerSpec => []ShownUnderItsHeading
<1>1. ExplorerInv => ShownUnderItsHeading
  <2> SUFFICES ASSUME ExplorerInv PROVE ShownUnderItsHeading
    OBVIOUS
  <2>1. Cardinality(running) \in {0, 1}
    BY FS_EmptySet, FS_Singleton DEF ExplorerInv, LockInv
  <2>2. {settling, filtering, alive, strayed} \subseteq BOOLEAN
    BY Zenon DEF ExplorerInv, RefsTypeOK
  <2>3. \A ui \in {state, seen} : {ui.loading, ui.detail} \subseteq BOOLEAN
    BY DEF ExplorerInv, Uis
  <2>4. started \in 1..MaxStarted /\ Cardinality(running) <= started
    BY <2>1, InventoryAssumption, FilterAssumption, StartedAssumption DEF ExplorerInv, RefsTypeOK
  <2>5. ExplorerTypeOK
    BY <2>2, <2>3, <2>4 DEF ExplorerTypeOK, ExplorerInv, RefsTypeOK, Uis, Lists, Shown, Warnings
  <2>6. OneOperation
    BY <2>1, <2>5 DEF OneOperation, ExplorerInv, LockInv, OperationInv
  <2> QED
    BY <2>6 DEF ShownUnderItsHeading, ExplorerInv, HeadingInv, OperationInv
<1> QED
  BY <1>1, ExplorerInvariance, PTL

\* No trace is read or exported but from a frame that showed its warning, or by
\* a doubled Enter that puts the warning up and confirms it.
THEOREM WarningsAreReviewed == ExplorerSpec => []ReviewedOrDoubled
<1>1. ExplorerInv => ReviewedOrDoubled
  BY DEF ExplorerInv, OperationInv, ReviewedOrDoubled
<1> QED
  BY <1>1, ExplorerInvariance, PTL
=============================================================================
