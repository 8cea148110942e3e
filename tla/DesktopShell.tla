---------------------------- MODULE DesktopShell ----------------------------
(***************************************************************************)
(* The native half of the desktop app (apps/desktop/src-tauri/src/lib.rs): *)
(* the daemon it supervises, the budget of starts and the credential vault.*)
(*                                                                         *)
(* daemon_start holds the lock of DaemonState until the daemon has printed *)
(* its ready line; the window and the thread that autostart spawns call it *)
(* concurrently.  Configurations are numbered, and so is what each brings: *)
(* the storage credentials it is entered with and, if there is no device,  *)
(* the device keys.                                                        *)
(***************************************************************************)
EXTENDS Integers, Sequences, FiniteSetsExt

CONSTANTS
  MaxStarts,      \* 3
  RestartWindow,  \* five minutes, in ticks
  MaxTime,        \* bound on the clock
  MaxConfigures,  \* bound on the configurations
  MaxFaults,      \* bound on the failures of the vault and the ends of the app
  Nothing

Numbers == 1..MaxConfigures
Maybe(S) == S \cup {Nothing}

\* The entry "config": the number of its device and that of its access key.
Configs == [id : Numbers, key : Numbers]

\* The storage credentials of the form: the access key and its secret.
Fields == {"key", "storage"}

\* A configuration while it is written, with the fields the owner entered.
Configurations == [id : Numbers, key : Numbers, signing : Numbers, storage : Numbers,
                   wrapping : Numbers, entered : SUBSET Fields, unread : BOOLEAN]

ASSUME BoundsAssumption ==
  /\ MaxStarts \in Nat /\ RestartWindow \in Nat /\ MaxTime \in Nat
  /\ MaxConfigures \in Nat \ {0} /\ MaxFaults \in Nat
ASSUME NothingAssumption ==
  /\ Nothing \notin Nat
  /\ Nothing \notin {"alive", "exited", "window", "autolaunch", "running", "failed"}
  /\ Nothing \notin Configs /\ Nothing \notin Configurations

VARIABLES
  now,
  recentStarts,  \* recent_starts
  spawned,       \* when this launch spawned a daemon
  daemons,       \* how many daemons of this launch are alive
  process,       \* DaemonState.process: Nothing, "alive" or "exited"
  holder,        \* who waits in daemon_start for the ready line
  boot,          \* what the daemon was given, whether amid a configuration, and saved
  reply,         \* the answer of daemon_start to the window
  autolaunch,    \* the thread of setup has still to start the daemon
  vault,         \* the entries of the credential vault
  pending,       \* the configuration being written, or Nothing
  left,          \* the entries it has still to write
  configures,
  faults,
  torn,          \* a configuration was written in part
  saved          \* the configuration in which each credential was last entered and saved

supervisor == <<recentStarts, spawned, daemons, process, holder, boot, reply>>
configuring == <<vault, pending, left, configures, faults, torn, saved>>
shellVars == <<now, supervisor, autolaunch, configuring>>

\* The order in which configure_device writes them.
Entries == <<"config", "marketplace", "signing", "storage", "wrapping">>

Secrets == {"config", "signing", "storage", "wrapping"}

\* An earlier launch may have configured the device: number 1.
ShellInit ==
  /\ now = 0
  /\ recentStarts = <<>> /\ spawned = <<>> /\ daemons = 0
  /\ process = Nothing /\ holder = Nothing /\ boot = Nothing /\ reply = Nothing
  /\ vault \in {[e \in Secrets |-> Nothing],
               [e \in Secrets |-> IF e = "config" THEN [id |-> 1, key |-> 1] ELSE 1]}
  /\ autolaunch \in {FALSE, vault.config # Nothing}
  /\ pending = Nothing /\ left = <<>>
  /\ configures = 1 /\ faults = 0 /\ torn = FALSE
  /\ saved = [f \in Fields |-> 1]

----------------------------------------------------------------------------
(* The daemon.                                                             *)

\* Mutant of Fronts: a start exactly five minutes ago is forgotten.
FrontsShort ==
  {k \in 0..Len(recentStarts) :
     k < Len(recentStarts) => now - recentStarts[k + 1] < RestartWindow}

\* How many starts may be popped until the front is none that is too old.
Fronts ==
  {k \in 0..Len(recentStarts) :
     k < Len(recentStarts) => now - recentStarts[k + 1] <= RestartWindow}

\* The starts record_daemon_start keeps: it pops while the front is too old.
Recent == SubSeq(recentStarts, Min(Fronts) + 1, Len(recentStarts))

Unlocked == holder = Nothing

\* To whom daemon_start answers: the thread of setup ignores the answer.
Answer(who, what) == reply' = IF who = "window" THEN what ELSE reply

\* build_bootstrap finds every entry it needs.
Bootable == \A e \in DOMAIN vault : vault[e] # Nothing

\* Mutant of Fresh: a daemon that runs is not looked for.
FreshAlways == TRUE

\* No daemon of this launch is known to run.
Fresh == process # "alive"

\* A daemon is spawned on the vault's entries, or the bootstrap, the binary or
\* the spawn fails.
Spawn(who) ==
  \/ /\ Bootable
     /\ holder' = who /\ daemons' = daemons + 1 /\ spawned' = Append(spawned, now)
     /\ boot' = [given |-> vault, amid |-> torn \/ left # <<>>, saved |-> saved]
     /\ UNCHANGED reply
  \/ Answer(who, "failed") /\ UNCHANGED <<holder, daemons, spawned, boot>>

\* daemon_start, up to the wait for the ready line.
DaemonStart(who) ==
  /\ Unlocked
  /\ \/ /\ ~Fresh /\ Answer(who, "running")
        /\ UNCHANGED <<recentStarts, spawned, daemons, process, holder, boot>>
     \/ /\ Fresh /\ process' = Nothing
        /\ IF Len(Recent) >= MaxStarts
           THEN /\ recentStarts' = Recent /\ Answer(who, "failed")
                /\ UNCHANGED <<spawned, daemons, holder, boot>>
           ELSE recentStarts' = Append(Recent, now) /\ Spawn(who)

\* The ready line arrives, or the daemon ends or says something else and is
\* killed.
Ready ==
  /\ ~Unlocked /\ holder' = Nothing
  /\ \/ process' = "alive" /\ Answer(holder, "running") /\ UNCHANGED daemons
        /\ UNCHANGED boot
     \/ daemons' = daemons - 1 /\ Answer(holder, "failed") /\ boot' = Nothing
        /\ UNCHANGED process
  /\ UNCHANGED <<recentStarts, spawned, now, autolaunch, configuring>>

Crash ==
  /\ process = "alive" /\ process' = "exited" /\ daemons' = daemons - 1
  /\ boot' = Nothing
  /\ UNCHANGED <<recentStarts, spawned, holder, reply, now, autolaunch, configuring>>

\* daemon_stop.
DaemonStop ==
  /\ Unlocked
  /\ process' = Nothing /\ boot' = Nothing
  /\ daemons' = IF process = "alive" THEN daemons - 1 ELSE daemons
  /\ UNCHANGED <<recentStarts, spawned, holder, reply>>

\* What daemon_health finds of the process, before it asks the daemon itself.
Health == IF process = "alive" THEN "running" ELSE "stopped"

\* The thread of setup.
Autolaunch ==
  /\ autolaunch /\ autolaunch' = FALSE
  /\ DaemonStart("autolaunch")
  /\ UNCHANGED <<now, configuring>>

Tick ==
  /\ now < MaxTime /\ now' = now + 1
  /\ UNCHANGED <<supervisor, autolaunch, configuring>>

----------------------------------------------------------------------------
(* configure_device.                                                       *)

\* The identity of an existing device is restored, after a comparison of its
\* signing key with the configuration.
Restorable(existing, entered) ==
  /\ vault.signing = existing.id /\ vault.wrapping # Nothing
  /\ "storage" \in entered \/ vault.storage # Nothing

\* Mutant of Existing: a device without an account is created anew.
ExistingNever(readable) == Nothing

\* existing_config: a failure to read or to understand the entry counts as none.
Existing(readable) == IF readable THEN vault.config ELSE Nothing

\* Mutant of Secret: the stored secret wins over the one that was entered.
SecretStored(existing, entered, n) == IF existing = Nothing THEN n ELSE vault.storage

\* restore_existing_storage_defaults, for the secret: a blank field keeps it.
Secret(existing, entered, n) == IF "storage" \in entered THEN n ELSE vault.storage

\* What will be written: the identity of an existing device and, for each field
\* that is blank, its storage credential; or new ones.
Prepared(existing, entered, readable, n) ==
  [id       |-> IF existing = Nothing THEN n ELSE existing.id,
   key      |-> IF "key" \in entered THEN n ELSE existing.key,
   signing  |-> IF existing = Nothing THEN n ELSE vault.signing,
   storage  |-> Secret(existing, entered, n),
   wrapping |-> IF existing = Nothing THEN n ELSE vault.wrapping,
   entered  |-> entered,
   unread   |-> ~readable]

\* Everything before the first write; a new device takes both fields, and the
\* marketplace may refuse it.
Prepare(entered, readable) ==
  LET existing == Existing(readable) n == configures + 1
      valid == IF existing = Nothing THEN entered = Fields
               ELSE Restorable(existing, entered) IN
  /\ configures < MaxConfigures /\ configures' = n
  /\ readable \/ (vault.config # Nothing /\ faults < MaxFaults)
  /\ faults' = IF readable THEN faults ELSE faults + 1
  /\ \/ valid /\ pending' = Prepared(existing, entered, readable, n) /\ left' = Entries
     \/ UNCHANGED <<pending, left>>
  /\ UNCHANGED <<vault, torn, saved>>

Written(e) ==
  CASE e = "config"      -> [vault EXCEPT !.config = [id |-> pending.id, key |-> pending.key]]
    [] e = "marketplace" -> vault
    [] OTHER             -> [vault EXCEPT ![e] = pending[e]]

\* The credentials saved once the configuration at hand is.
Saving == [f \in Fields |-> IF f \in pending.entered THEN configures ELSE saved[f]]

\* One vault_write.  The credentials of a configuration written in part stay
\* apart until both are entered again.
WriteEntry ==
  /\ pending # Nothing /\ left # <<>>
  /\ \/ /\ vault' = Written(Head(left)) /\ left' = Tail(left)
        /\ torn' = (torn /\ (left' # <<>> \/ pending.entered # Fields))
        /\ saved' = IF left' = <<>> THEN Saving ELSE saved
        /\ UNCHANGED <<pending, faults>>
     \/ /\ faults < MaxFaults /\ faults' = faults + 1
        /\ torn' = TRUE /\ pending' = Nothing /\ left' = <<>>
        /\ UNCHANGED <<vault, saved>>
  /\ UNCHANGED <<configures, now, supervisor, autolaunch>>

----------------------------------------------------------------------------
(* The app ends and is launched again: by "quit", which kills the daemon,  *)
(* or by closing the window, an update or a crash, which leave it alone.   *)

Relaunch ==
  /\ faults < MaxFaults /\ faults' = faults + 1
  /\ recentStarts' = <<>> /\ spawned' = <<>> /\ daemons' = 0
  /\ process' = Nothing /\ holder' = Nothing /\ boot' = Nothing /\ reply' = Nothing
  /\ autolaunch' \in {FALSE, vault.config # Nothing}
  /\ pending' = Nothing /\ left' = <<>>
  /\ torn' = (torn \/ left # <<>>)
  /\ UNCHANGED <<now, vault, configures, saved>>

----------------------------------------------------------------------------
(* Properties.                                                             *)

ShellTypeOK ==
  /\ now \in 0..MaxTime /\ daemons \in 0..1
  /\ recentStarts \in Seq(0..MaxTime) /\ Len(recentStarts) <= MaxStarts
  /\ spawned \in Seq(0..MaxTime)
  /\ process \in {Nothing, "alive", "exited"}
  /\ holder \in {Nothing, "window", "autolaunch"}
  /\ reply \in {Nothing, "running", "failed"}
  /\ {autolaunch, torn} \subseteq BOOLEAN
  /\ vault = [e \in Secrets |-> vault[e]]
  /\ vault.config \in Maybe(Configs)
  /\ {vault.signing, vault.storage, vault.wrapping} \subseteq Maybe(Numbers)
  /\ pending \in Maybe(Configurations)
  /\ configures \in Numbers /\ faults \in 0..MaxFaults
  /\ saved \in [Fields -> Numbers]

\* One launch of the app never has two daemons on the local database, however
\* the window, the thread of setup, crashes and failed starts interleave.
OneDaemon ==
  /\ ShellTypeOK
  /\ daemons = IF process = "alive" \/ holder # Nothing THEN 1 ELSE 0

\* "The desktop shell allows at most three starts within five minutes": in every
\* window of that length, its end points included, of one launch.
StartsAreBudgeted ==
  \A i \in DOMAIN spawned :
    i + MaxStarts \in DOMAIN spawned => spawned[i + MaxStarts] - spawned[i] > RestartWindow

\* A daemon is given the signing key of its device, and the access key and the
\* secret that were last entered and saved.  Those two belong to each other if they
\* were entered together: a field left blank keeps what was saved before, whatever
\* is entered in the other.  Not so if the autostart thread reads between the
\* writes of a configuration, nor after one that was written in part, until both
\* credentials are entered again.
BootIsWhole ==
  boot # Nothing /\ ~boot.amid =>
    /\ boot.given.signing = boot.given.config.id
    /\ boot.given.config.key = boot.saved["key"]
    /\ boot.given.storage = boot.saved["storage"]

\* The supervision of one launch.
DaemonSupervised == OneDaemon /\ StartsAreBudgeted

\* The wrapping key that opens the traces stored so far is replaced only by a
\* configuration that could not read the old one.
WrappingKeyKept ==
  [][vault.wrapping # Nothing => vault'.wrapping = vault.wrapping \/ pending.unread]_shellVars
=============================================================================
