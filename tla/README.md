# Traicer: specifications, model checking and proofs

Traicer is a local daemon through which coding clients reach their model
provider. It forwards each request, redacts and encrypts the exchange, stores
the ciphertext in the seller's own bucket, and lists a signed manifest of it on
the Traice Market; later it prepares datasets for buyers, and deletes traces.
These modules model the parts of it that keep state and that can go wrong in
orders no test tries. They are written against the sources under `src/`; the
line ranges every definition stands for are in `PROJECT.json` ("map").

## The system and what is hard about it

| Part | State it keeps | Operations | Talks to |
| --- | --- | --- | --- |
| Provider gateway (`apps/daemon/src/gateway.ts`) | requests under way, scheduled captures | forward, answer, schedule, drain | provider, route registry, capture engine |
| Capture engine (`packages/capture-core`) | the job of each capture | redact, encrypt, store, sign, enqueue | state database, bucket, marketplace client |
| Operational state (`packages/state-sqlite`) | trace lifecycle, outbox, tombstones, delivery objects, multipart journal, events | one SQLite transaction each | everything in the daemon |
| Storage adapter (`packages/storage-s3`) | none but the multipart journal | put with HEAD and readback, multipart, delete | the seller's bucket |
| Marketplace client (`packages/marketplace-client`) | none | submit, tombstone, commit, deliver | the Traice Market |
| Runtime (`apps/daemon/src/runtime.ts`) | the capture gate, deliveries in progress | reconcile, deleteTrace, commitDataset, prepareDelivery, cleanup | all of the above |
| Control API (`apps/daemon/src/app.ts`) | reported capture status | pause, resume, shutdown, routes, deletion, delivery | CLI, desktop app |
| Route registry (`capture-routes.ts`) | two maps in memory | issue, resolve, revoke | gateway, control API |
| Forward proxy (`forward-proxy.ts`) | open tunnels | CONNECT, intercept, close | gateway |
| CLI lifecycle (`apps/cli`) | `.runtime.json` | start, stop, locate | daemon |
| Session labeler (`packages/session-labels`) | open sessions and their chains of exchanges, the claim that waits for a reply, labels and rollups in the database | ingest, closeIdle, and the steps of process and close | classifier, operational state |
| Trace reader and plaintext cache (`packages/trace-reader`) | a directory of decrypted traces, shared by processes | read, put, purge, clear | bucket, file system |
| Launcher: `traicer run`, `urls --reveal` (`apps/cli`) | the route of a command, the client it started | ask for a route, start the client, revoke the route | control API, coding client |
| Trace explorer (`apps/cli/src/explorer.tsx`) | React state and refs, the frame last rendered | keys, listings, reads, exports | trace reader |
| Scaffold (`apps/cli`: init, reset, project) | the configuration directory, the deployed stack, the links | write, deploy, destroy, remove, link, unlink | Alchemy, daemon |
| Desktop shell (`apps/desktop/src-tauri`) | the supervised daemon behind a mutex, recent starts, the credential vault | start, stop, health, configure, relaunch | daemon, vault, window |
| Desktop window (`apps/desktop/src/main.tsx`) | what it believes of the daemon, one operation, the trace shown | refresh, view, close, start, stop, configure | desktop shell |
| Events, redaction, crypto, labelling rules | see "Plan" and "Not modelled" | | |

The daemon is one JavaScript thread: the code between two awaits runs alone,
and everything else interleaves at the awaits. The hard parts follow from that
and from the network:

- a crash between two SQLite statements, or between a call to the outside and
  the record of it (captures, temporary objects, multipart uploads);
- calls whose effect happened and whose answer was lost (PUT, DELETE, submit,
  CompleteMultipartUpload), and retries of them after a restart;
- work that goes on while its ground is taken away: deletion during a delivery,
  abort during an upload, pause during a response, cleanup during a preparation;
- a check before an await that is relied on after it (route ids, the runtime
  descriptor, the capture gate);
- the only retry being the next start of the daemon;
- decisions taken on what was seen a while ago: a rendered frame, a status asked
  for five seconds earlier, a file looked for before it is written;
- files and vault entries that belong together and are written one by one.

`PROJECT.json` ("hazards") names each of them at its line, with the properties
that would show it going wrong.

## The modules

| Module | Models | Actions |
| --- | --- | --- |
| `SellerInventory` | what the seller is promised about a trace: seven stages, taken one at a time | one per stage |
| `Capture` | the life of a trace from the exchange to its deletion, in the engine, the database, the bucket and the marketplace, across restarts | one per piece of code between two awaits, per outcome of an external call, and `Stop` anywhere |
| `CaptureProofs` | proofs about `Capture` | |
| `Delivery` | commitDataset, prepareDelivery with its temporary objects, the cleanup timer, concurrent deletions | the same way, with a clock |
| `DeliveryProofs` | proofs about `Delivery` | |
| `EnvelopePut` | what an upload of one ciphertext promises, in one PUT or in parts | begin, store, return, fail |
| `Multipart` | one large upload, its durable journal, abort requests, the store's side, completions that take effect late | the same way |
| `MultipartProofs` | proofs about `Multipart` | |
| `Gateway` | requests, background captures, pause and resume, shutdown | one per handler step |
| `CaptureRoutes` | the registry of scoped routes; it has no behaviour of its own | check, register, resolve, revoke |
| `Launcher` | commands that ask for a route, the clients they start, and the daemon with its registry (extends `CaptureRoutes`) | one per call, answer, exit, kill, stop and restart |
| `Lifecycle` | detached start, stop and the daemons they start, through the descriptor file | one per read, probe, write or exit |
| `LifecycleProofs` | proofs about `Lifecycle` | |
| `SessionLabels` | labelling of exchanges, sessions that are evicted, idle out and are reopened, failed writes, restarts | one per await of process and close |
| `DaemonProofs` | proofs about `Gateway` and `SessionLabels` | |
| `PlaintextCache` | owner reads beside purges and clears of the shared directory | one per file operation |
| `Explorer` | every key of the terminal explorer, between frames, late answers and the loss of focus | one per key, answer and frame |
| `CliProofs` | proofs about `Launcher` and `Explorer` | |
| `Setup` | init, its resumption, reset, link and unlink as processes that overlap, fail and die | one per file, deployment, destruction and death |
| `LocalProofs` | proofs about `Setup` and `PlaintextCache` | |
| `DesktopShell` | daemon_start from window and autostart, the restart budget, configure_device and the vault | one per command up to the mutex or the next vault entry |
| `Desktop` | the window, composed with `DesktopShell` | one per button, answer and timer |
| `DesktopProofs` | proofs about `Desktop` and `DesktopShell` | |

`MC<module>` extends its module and only defines constants, symmetry sets and
the like; the `.cfg` files of a module begin with the name of its MC module.

How states correspond to the code. `Capture` names a trace, its object and its manifest
by one value, because the code draws a fresh id, a fresh encryption and a fresh manifest
id for each. `job` is the position of `capture` between its awaits; `lifecycle`,
`outbox`, `createdAt`, `tombstones` are the tables; `bucket` says what is stored under
the key, including contents that differ from what was sent; `sent` and `retracted` are
requests that have left the process and may take effect at any later time, once, never,
or after a restart. `Delivery.step` is the position of `prepareDelivery` in its loop,
`left` the objects it has still to make, `row` a row of `delivery_objects`, `temp` what
is in the bucket. `Multipart.row` is the journal row, `upload` and `held` the store's
view, `late` the completions that nobody waits for any more. `Gateway.applying` holds
the pause and resume calls that have written the reported status and not yet the gate
the gateway reads. `Lifecycle.seen` is what a command read from the descriptor before it
awaited. `SessionLabels` names a session by the exchange that opened it; `chain` is its
promise chain, `at` the ask its first exchange waits for, `labels` and `saved` are the
two tables. In `PlaintextCache` `names`, `seen` and `kept` are the progress of a pass
through its listing, `spared` is a history variable: the entries put in place since the
pass began, and those whose `stat` it was refused. `Launcher.run` is where a command
stands; `dropped` are the commands whose connection broke before the daemon had
registered their route, `voided` those whose route went with a daemon: both are history.
`Explorer.seen` is what the last frame rendered, and so what a key handler reads;
`state` is what has been set since. `Setup.files` names each file by the init that wrote
it, which is the device, the secrets and the bucket it belongs to; `left` are the writes
or removals a `Promise.all` still has to do, in any order. `DesktopShell.holder` is who
waits in `daemon_start`, with the mutex, for the ready line; `boot` what that daemon was
given; a configuration is a number, its entries carry it; `entered` are the credentials
the owner typed into its form, `saved` is history: the configuration in which each was
last entered and saved. In `Desktop` `withdrawn` is the owner's last word about the
trace shown.

Interfaces between the modules. `Gateway.Persist` is one whole run of
`Capture`'s job for that exchange. `Delivery.owned` is `Capture`'s "committed
and not tombstoned"; its deletions are those of `Capture`, reduced to the two
steps a delivery can see. `SessionLabels` ingests what `Capture` has encrypted, and
`PlaintextCache` reads what it has stored. `Capture.PutStored` and its companions stand for
either a single PUT or a whole run of `Multipart`: that it may be taken for one is what
the refinement of `EnvelopePut` shows. `Lifecycle`'s crash is
`Capture.Stop`; its "draining" is `Gateway`'s shutdown from "closing" on, and
`Launcher.Stop` is either. `Explorer` and `Desktop` read traces as
`PlaintextCache` does; what they read is the trace that was asked for.
`Setup.Serve` is `Lifecycle.Publish`, and `Exit` of the same daemon.

## What the runs show

| Run | Question | Result |
| --- | --- | --- |
| `capture` | do tables, bucket and marketplace stay in step, is a tombstoned trace gone for good, does the whole implement `SellerInventory`, and is a queued manifest committed in the end? | holds; the last if the daemon is restarted with a credential again and again, and no refused manifest was queued earlier |
| `delivery` | are accepted envelopes complete and readable until they expire, is no object lost track of, and is each recorded one deleted? | holds |
| `multipart` | is an upload in parts one PUT to its caller (`EnvelopePut`), does the journal name only parts that are held while their upload is open, and can an open upload be found? | holds |
| `multipart_settled` | is an interrupted upload settled? | violated: nothing ever does |
| `gateway` | do status and gate agree, is nothing scheduled in time cut off at shutdown, and does a shutdown end? | holds, if clients close their tunnels |
| `launcher` | do the registry's maps agree, does a run leave no route behind, and does a running client keep its own? | holds, but for commands that were killed or cut off |
| `lifecycle` | is there one daemon at most, found by its descriptor, is stop truthful, does a failed start leave nothing, and does every command end? | holds; the first three if commands do not overlap |
| `labels` | do verdicts fit their claims, do counts carry on, are quiet sessions closed, and does all labelling end? | holds; the second and third under the conditions below |
| `cache` | is what is read genuine, does each pass leave no more than it may, and does no plaintext linger? | holds |
| `explorer` | do plaintext and exports stand under the right trace, was each warning seen before it was confirmed, and does the keyboard come back? | holds, but for a filter opened over a trace and a doubled Enter |
| `setup` | are a configuration's files of one identity, can a deployed stack still be destroyed, and are links kept? | holds, if commands do not overlap |
| `desktop` | is there one daemon of a launch and no more starts than the budget, is a trace shown only while it is wanted, does the daemon run on what was saved, and is the wrapping key kept? | holds, under the conditions below |

The violation is a finding: it quotes the documents that say otherwise in
`PROJECT.json`. Every property of a passing run has a mutant there, an
alternative body for one definition, written just before it in its module, under
which the same run must fail. The type invariant of a module is a conjunct of
one of the properties of its run.

### What holds only under a condition

The models contain behaviours in which a stronger statement than the one
checked fails; they were seen while the conditions were being looked for.

- `StopBeforeEnqueue` (a crash between two statements of one capture) leaves a
  trace shown as `manifest_pending` that is in no outbox, and no later step
  takes it up. `LedgersAgree` therefore has only the other direction.
- A delivery fixes the expiry of its objects before it makes the first of them.
  If making them takes longer, it submits a capability to objects the cleanup
  has deleted. `KeptUntilExpiry` speaks of envelopes that have not expired.
- A response that has begun when capture is paused is read to its end and
  persisted. `ControlAgrees` says only that nothing new is scheduled.
- A capture whose upload was stored but not acknowledged, or whose verification
  or signature fails, leaves its object in the bucket: README.md:176 of the
  repository says that such a state "creates no seller object".
- Startup reconciliation stops at the first row that throws. A manifest that the
  client's own inspection refuses keeps all later ones unsent, at every restart;
  `PendingIsCommitted` excepts what waits behind one.
- A temporary delivery object that was stored and not recorded is never deleted.
  `TrackedUntilGone` and `RecordedIsDeleted` speak of recorded ones.
- Two overlapping calls of `issue` for one id both succeed, and revoke finds
  only the later token. `Launcher` assumes that every command has a route id of
  its own (`OwnIdAssumption`), as the CLI draws them.
- A command that is killed leaves its route until it expires, after twelve hours.
  So does a run whose connection breaks while its token is being hashed: the
  DELETE is answered with success before the route exists, and the run does not
  even warn. `RouteEndsWithRun` excepts both (`killed`, `dropped`).
- The explorer's filter can be opened over a revealed trace. The selection then
  moves and the plaintext stays, so the heading, and the name of an exported
  file, are another trace's (`strayed`). And one Enter that the terminal sends as
  two events confirms the warning before it was drawn (`doubled`); for exports
  there is no such exception.
- Two inits that overlap can leave the configuration of one and the secrets of
  the other; overlapping link and unlink lose an update; and a daemon that is
  started while reset runs loses its files. `OneIdentity`, `StackIsReachable` and
  `LinksKept` speak of commands one after the other (`~overlapped`), which nothing
  in the code enforces. A reset that was interrupted (`torn`) may leave the old
  stack's files beside the next init's configuration.
- A daemon the window has not noticed, since its status is up to five seconds
  old, is not stopped when the form is submitted, and "Apply and start" reports
  success while the old configuration goes on: `ConfigurationApplies` excepts it
  (`unseen`). A vault that was written in part, or that the autostart thread reads
  between two writes, gives a daemon the access key of one configuration and the
  secret of another (`torn`, `boot.amid`); a vault counts as torn until both
  credentials are entered again.
- The form keeps what was saved for each credential that is left blank, and
  nothing compares the two: who enters only the access key pairs it with the
  secret of an earlier configuration, and the other way round.
  `ConfigurationApplies` says that each is the one last entered and saved, not
  that they belong together.
- An entry of the vault that cannot be read or understood counts as no
  configuration, and the next one replaces the wrapping key, although the form
  says that device keys are preserved: `WrappingKeyKept` excepts exactly this
  (`unread`).
- The restart budget is memory. `StartsAreBudgeted` speaks of one launch of the
  app; an update, or closing the window, leaves its daemon alone, and the next
  launch starts another one.
- Overlapping starts give two daemons. A stop repeated while a daemon drains
  removes its descriptor and reports that nothing runs, and a stop that read a
  stale descriptor may remove the one a new daemon has written since. `overlap`
  is chosen in the initial state; `AtMostOneDaemon`, `ServingIsLocatable` and
  `StopReports` speak of the behaviours in which it is FALSE: a command begins
  when no other runs and no daemon is on its way up or down.
- A session that is reopened while it closes starts from a rollup that is not
  up to date. With a classifier, whose answers take time, exchanges are then
  missing from the count, and the closed rollup of the old session may overwrite
  that of the new one. `CountsCarryOn` says that none is counted twice, and that
  none is missing only without a classifier. A restart leaves sessions marked
  open, because nothing closes them at shutdown: `QuietIsClosed` speaks of
  executions without restart and without failed write.
- Reads disturb each other: a listing removes the temporary file another process
  is about to rename, whose `put`, and with it the read, then fails although the
  trace is intact; two purges at once evict more than the limit asks for, since
  neither takes off its total what the other has removed; and an entry put while
  a clear runs survives it. No document says otherwise, and the properties of
  `cache` allow all three.
- A `stat` that is refused while a pass lists the cache is swallowed: the pass
  goes on, neither counts nor removes the entry, and reports success, so that a
  `clear` may leave plaintext behind and say nothing. `PassesEnforce` excepts
  these entries (`spared`); `NothingLingers` holds because troubles are bounded,
  and a later sweep sees the entry.
- An abort that the store has taken, and whose answer is lost or whose process
  dies, leaves a journal row that names discarded parts. A later call for the
  same bytes would skip these parts and fail at the completion, again and again,
  until the row is cleared by another abort. `JournalHeld` speaks of uploads that
  are open.
- A ciphertext that were uploaded by two calls could lose the journal row of
  the second to an abort of the first: `OpenIsJournalled` is about the first.

### Bounds

- `Capture`: two traces and two deletion requests let captures, deletions and
  the marketplace interleave in pairs, and every property speaks of one trace
  or of two requests for it; restarts are not bounded. One of the traces is
  refused, so that the other is queued before or behind a row that stops
  reconciliation. The theorems remove the bounds for safety.
- `Delivery`: two traces (a delivery that is half made), two overlapping passes
  of cleanup, one commit, one delivery; a clock of three with a lifetime of one
  lets an object expire before, during and after each step. `MaxTime` is a guard
  of `Tick`. The theorems remove these bounds for safety.
- `Multipart`: three parts (first, middle, last), three calls, so that an
  upload is resumed, replaced, and resumed again, and two abort requests. The
  number of restarts is not bounded. `multipart_settled` has one call, which is
  what the daemon makes. The theorems remove the bounds for safety.
- `Gateway`: a request at the gateway server and one in a tunnel, three pause
  or resume calls: two are needed to disagree, the third to disturb them. The
  theorems remove these bounds for safety.
- `Launcher`: two runs and one `urls --reveal`, two clock steps with a lifetime
  of one, which is an expiry before, at and after another call, and one stop of
  the daemon. The theorems remove these bounds.
- `Lifecycle`: two starts, a stop and a crash: a daemon that died, one that
  lives, and a command that finds the one or the other. The theorems remove
  these bounds for safety.
- `SessionLabels`: two keys of which one may be open, so that each new one
  evicts the other; three exchanges, which is a claim, what comes between and
  the reply, or a session that is opened, evicted and reopened; one trouble, a
  restart or a failed write. An exchange holds a request or a claim. The theorems
  remove the bounds for safety.
- `PlaintextCache`: two traces of one byte each in a cache of one byte, a reader that
  reads again and again, and one process that sweeps and clears: each pass runs beside
  another that removes and adds entries. `MaxAge` is 0 and the clock ends at 1, so an
  entry is fresh or too old. Two troubles are a kill, a refused operation, be it thrown
  or swallowed, or a damaged entry, in any combination. The theorems remove these bounds
  for safety, and that on the sizes of entries.
- `Explorer`: two traces, a third that is captured meanwhile, one filter text
  that hides one of them, and four operations: the first listing, a read, an
  export of it, and one that comes between. Keys are not bounded. The theorems
  remove the bounds for safety.
- `Setup`: three commands, of which any may be an init, its resumption, a reset,
  a link or an unlink: an init, what interrupts or removes it, and the next init.
  Two repositories. Two files of the infrastructure stand for three. The theorems
  remove the bounds on commands and repositories.
- `Desktop`: a budget of two starts in a window of no ticks (`RestartWindow` 0), with
  one tick: starts of one tick are on the edge of the window, those of two outside;
  longer windows are left to the theorem. A configuration of an earlier launch and two
  more (`MaxConfigures` 3), so that one may enter the access key and the next the secret,
  or be torn and repaired by half; one fault, which is a vault entry that fails or cannot
  be read, or an end of the app. The theorems remove these bounds.

### Fairness

Safety properties need none. `Capture`'s liveness assumes of the environment that
the daemon is restarted with a credential again and again (strong fairness of
`Start`: the code itself has no other retry), that the marketplace acts on what
it received, and that a submission attempted over and over is answered at last.
`Delivery`'s assumes that cleanup passes run (the interval timer, and startup
after a crash), and that a deletion tried again and again succeeds at last.
`Gateway`'s assumes that promises settle, that a provider's body ends or breaks
off, and that clients close their tunnels: the code waits for the last
without limit. `Lifecycle`'s assumes only that running commands and daemons
go on. `SessionLabels`' assumes that a question is answered or given up (the
client has a time-out), that writes end, and that idle sessions are looked for
(once a minute). `PlaintextCache`'s assumes only that the daemon's sweep comes
once a minute and goes on, and nothing of readers, which may die at any point.
`Explorer`'s assumes that listings, reads and exports end, well or badly, and
that frames are rendered. `Launcher`, `Setup` and `Desktop` have no liveness
property: a client may run forever, a question stay unanswered, and the ready
line of a daemon never come.
`Multipart`'s assumes that a running call goes on; the violation shows that this
is not enough.

## What is proved

`CaptureProofs` proves for any sets of traces, deletion requests and refused
manifests, with only `Refused \subseteq Traces` and `NoTrace \notin Traces`
assumed:

- `Invariance`: `Spec => []IInv`. The safety properties are not inductive by
  themselves. That the marketplace holds only backed manifests needs that a
  manifest is sent only when it is queued (`NetInv`), queued only when the
  object was read back (`RowInv`), which needs the position of the job in
  memory to say what the bucket holds (`JobInv`); that deletions keep their
  order needs that a deletion works on a committed or already tombstoned trace
  (`DeletionInv`); and that no late acknowledgement revives a row needs that
  startup reconciliation holds only pending rows and runs alone (`ProcessInv`).
- `TypeCorrect`, `HeldAreBacked`, `LedgersAlwaysAgree`,
  `DeletionsErasedInOrder`: consequences of `IInv`.
- `TombstonesAreFinal`: the action property `ForgottenForGood`.
- `Refinement`: `Spec => Inventory!Spec`, the refinement mapping being
  `stageOf`. The steps that leave `stageOf` alone are dealt with by three frame
  lemmas; the six that move a trace are shown to be the abstract step one by one.

`LifecycleProofs` proves for any numbers of commands and crashes that, when
commands do not overlap (`~overlap`), at most one daemon runs, a daemon
that serves is the one the descriptor names, and `stop` says that none runs
only when none does; and without that condition that a failed start leaves no
daemon behind (`FailedStartsAreGone`) and that every variable keeps its type.
`SerialInv` ties the daemon that is up to the command that runs: what a command
has seen is what the descriptor still says, unless the daemon has gone since.

`CliProofs` proves for any commands, routes, lifetimes and stops of the
daemon, with only `OwnIdAssumption` of the callers, that the registry's two maps
agree (`RegistryIsConsistent`), that a run which was not killed or cut off and
did not warn leaves no route (`RunsLeaveNoRoute`), and that a client that runs
keeps its route until it expires or its daemon stops (`ClientsAreRouted`). The
inductive invariant `LaunchInv` adds to these where a command can stand while its
token is being hashed, issued or gone (`CommandInv`), and that a daemon that is
down has no routes. It proves further, for any listings, filters and number of
operations of the explorer, that plaintext and exports stand under the right trace
(`TracesAreUnderTheirHeading`) and that warnings were seen before they were confirmed
(`WarningsAreReviewed`). `ExplorerInv` is about the difference between the state and
the last frame: a frame that is fresh and not loading shows what is; while a warning
is up or the filter is open nothing runs; and what is in flight is for the trace that
is still selected.

`DaemonProofs` proves for any requests, tunnels and control calls that reported
status and gate never end up apart (`StatusAndGateAgree`) and that the exit cuts
off no capture scheduled before the drain began (`NoEarlyCaptureIsCutOff`).
`GatewayInv` adds to the properties what shutdown knows in each phase: while it
drains, every pending capture is waited for or came too late, and from then on
those that pend came too late. A lemma about queues says that the call made last
is the one applied last.

`DaemonProofs` proves also, for any keys, exchanges, limit of open sessions, restarts
and failed writes of the labeler, that a verdict is about the right reply
(`SessionVerdicts`), that no exchange is counted twice and, without a classifier, each
restart loses one at most (`SessionCountsCarryOn`), and that quiet sessions are closed
(`QuietSessionsAreClosed`). The invariant has three layers, each inductive with those
before it:

- `ChainsInv` (`ChainsAreInOrder`): the queue of a session holds exchanges of its
  own, in the order of their capture and once each; every exchange has one home;
  there are no more open sessions than the limit. `QuietIsClosed` is inductive with
  this layer alone.
- `WordsInv` (`WordsAreKept`): a claim that waits for its reply has not been
  superseded by anything processed since (`Waits`); what the row says of a claim
  that is judged is about the first reply processed after it (`Replied`), or none
  came (`Unreplied`).
- `CountInv` and `LossInv` (`CountsAreKept`): what a session has counted and what it
  has still to count are exchanges of its key, but for one it may be at; without a
  classifier a key has one session with work at most (`OnePerKey`), and each restart
  then costs a rollup one exchange at most (`RowsInv`). With a classifier sessions of
  a key overlap, which is why `CountsCarryOn` says less there.

`MultipartProofs` proves for any number of parts, calls and aborting requests that to
its caller an upload in parts is one PUT (`PutRefinement`: `Spec => Put!Spec`), that the
journal names no part the store does not hold while its upload is open
(`JournalIsTrue`), and that an open
upload is in the journal unless the answer to its creation was lost
(`OpenUploadsAreFound`). `MultipartInv` needs besides that ids are not reused
(`IdsInv`), that a call writes to the row of its own upload only (`JournalInv`), and
that a stored object stands for a completed upload (`EndInv`). The refinement goes step
by step: a completion stores the object, in time or late, its answer or a HEAD after an
error returns with it, and all else is a failure or a stutter.

`DeliveryProofs` proves for any traces, commits, runs, overlapping cleanup passes
and lifetime that an accepted envelope covers the whole dataset
(`DeliveriesAreComplete`), that its objects stay until it expires (`ObjectsAreKept`),
and that a row marked deleted tells the truth (`ObjectsAreTracked`). `DeliveryInv`
needs that a run divides the dataset into what is listed and what is left
(`RunInv`), and that a cleanup pass, which read its list earlier, holds only objects
that have expired (`PassInv`): an expiry is fixed before the first object is made.

`DesktopProofs` proves for any budget, window, configurations and faults that one
launch has one daemon at most and keeps to its budget (`OneDaemonOnBudget`), that a
trace is shown only while it is wanted (`TraceIsWanted`), that a daemon runs on the
key of its device and on the credentials last entered and saved, and after Apply on
those just saved (`SavedIsApplied`), and that the wrapping key stays (`WrappingKeyStays`).
The budget is the hard part, because `record_daemon_start` keeps only a window of
the starts. `BudgetInv` says that this record dominates the true history: counted
from the end, each spawn within the window has an entry that is not earlier. It
rests on three lemmas: dropping the old entries is popping a prefix
(`RecentIsPopped`, from the least position that is kept), popping keeps the
domination (`PoppedDominates`), and so does a start that is recorded under the limit
(`AppendedDominates`). `ConfiguringInv` says what is in the vault after each of the
five writes, and `ApplyInv` what the window may rely on while it waits for them.

`LocalProofs` proves, for any commands and repositories, of commands that do not
overlap, that files are of one init (`IdentityIsOne`), that a deployed stack and a
running daemon keep the files they need (`StackStaysReachable`), and that no link is
lost (`LinksAreKept`). `ScaffoldInv` says, for the one command that runs, which files
it has written or removed so far, and for the directory between two commands that
it is whole, or without a stack's files, unless a reset was torn. Further, for any
traces, readers and passes, that a read returns the trace itself
(`ReadsReturnTheTrace`; `CacheInv`: what a reader has in hand from the check or the
download on is whole).

`LocalProofs` proves also that a pass over the cache enforces the limits, for entries of
any size (`LimitsAreEnforced`). `PassInv` says that what a pass answers for, the entries
that are there since it began and did not refuse it their `stat`, has still to be looked
at, judged or is retained (`Covers`), that an entry is noted once (`NotedOnce`), that
the total a purge keeps step by step is never less than the size of what it retains
(`Counts`: entries that others remove meanwhile make it more), and that after the pass
what is left is among a few whose size is within the limit (`Within`). The size is a sum
over a set, which the library defines by recursion over subsets. That it is the sum of
one element and of the others, whichever is taken first, and that it grows with the set,
is proved from the well-foundedness of the subsets of a finite set (`SumOfOneAndOthers`,
`SumOfOneMore`, `SumOfSubset`): of the sets that fail a lemma there would be a least
one.

The assumptions of the theorems are those the modules state of their constants.

The inductive invariants and `ErasedInOrder` are theorems and are not checked by a
run, since they would repeat what is proved.

Every invariant and every safety property of a step that a run checks is a theorem.
Only model-checked is what needs fairness, which is out of the prover's reach:
`PendingIsCommitted`, `RecordedIsDeleted`, `ShutdownCompletes`, `KeyboardReturns`,
`CommandsEnd`, `LabellingEnds` and `NothingLingers`; and the violation.

## Plan

In this order, the most important behaviour first:

1. done: `SellerInventory`, `Capture`, `CaptureProofs`; `Delivery`;
   `Multipart`; `Gateway`; `CaptureRoutes`, `Launcher`;
   `Lifecycle`, `LifecycleProofs`; `SessionLabels`; `PlaintextCache`; `Explorer`;
   `Setup`; `DesktopShell`, `Desktop`; `DeliveryProofs`, `MultipartProofs`,
   `CliProofs`, `DaemonProofs`, `DesktopProofs`, `LocalProofs`.
2. Proofs: done for all that is checked without fairness; left is the refinement
   of further abstract specifications than `SellerInventory` and `EnvelopePut`.
3. Inventory publication (`runtime.ts`): the flag that says labels have changed,
   which is cleared before the publication succeeds and lost at a restart; and
   the deletion of labels with their trace, in `SessionLabels`.
4. `Events`: the bounded event table and a stream reader that may fall behind.
5. Algorithms, each against a reference definition over bounded inputs: work
   units and their evidence, the public-address filter, the ClientHello parser,
   the canonical JSON form, usage counts of streamed responses.

## Not modelled

Redaction rules, canonical JSON and labelling rules are pure functions whose
results the models take as inputs. Cryptography is assumed to do what it says;
that each encryption is fresh is used where it matters. Schemas have no state;
migrations are generated SQL. The syntax of identifiers, tokens and paths is left
out of all modules.

Of the parts modelled in part: of the explorer, tabs, pages, labels and the text
of a trace; of the scaffold, what the in-place upgrades change in a file, an
`existing-s3` scaffold, which has no stack, and the secrets command, and an upgrade
that dies in the middle of such a change; of an export,
the writes of its file (`writeTraceExport`); of the desktop app, the tray, the
proxy certificates, updates but for the restart they cause, the lists of work and
traces, and what a registration with the marketplace contains; of the launcher,
how each client is told its URL, and a DELETE that fails while the daemon stays up,
after which the run warns. `Desktop` does not say which trace is shown, so
that a deletion or an export of another one changes nothing in it.

`PROJECT.json` ("components") lists every part with its status.
