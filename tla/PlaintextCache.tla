--------------------------- MODULE PlaintextCache ---------------------------
(***************************************************************************)
(* The directory of decrypted traces and the processes that share it:      *)
(* owner reads (a command, the explorer, the daemon), the daemon's sweep   *)
(* and the command that clears it (packages/trace-reader).                 *)
(*                                                                         *)
(* An entry is named by its trace: the file's name is the hash of the      *)
(* trace's one ciphertext.  Each call of the file system is a step of its  *)
(* own; a listing lists the names at once and looks at them one by one.    *)
(* Every file may be removed or replaced between any two steps.            *)
(***************************************************************************)
EXTENDS Integers, FiniteSets, FiniteSetsExt

CONSTANTS
  Traces,
  Readers,      \* processes that read traces, one at a time each
  Sweeps,       \* the daemon's passes
  Clears,       \* runs of the command that clears the cache
  None,
  Bytes,        \* the size of each trace's entry
  MaxBytes,     \* maxBytes
  MaxAge,       \* maxAgeMs
  MaxTime,      \* bound on the clock
  MaxTroubles   \* bound on killed processes, failed file operations and damaged files

ASSUME BytesAssumption == Bytes \in [Traces -> Nat]
ASSUME LimitsAssumption == MaxBytes \in Nat /\ MaxAge \in Nat
ASSUME BoundsAssumption == MaxTime \in Nat /\ MaxTroubles \in Nat
ASSUME NamesAssumption == Traces \cap Readers = {} /\ None \notin Nat

Procs == Readers \cup Sweeps \cup Clears

VARIABLES
  now,
  file,      \* the entry of a trace: when it was stamped and what it holds
  temps,     \* when a reader wrote its temporary file, if that is there
  pc,
  want,      \* the trace that is read
  got,       \* the plaintext a reader has in hand
  names,     \* the names of a listing still to look at
  seen,      \* the entries of a listing that are still to be judged
  kept,      \* those a purge retained and may still evict
  total,     \* the bytes a purge believes to be there
  spared,    \* the entries put in place while a pass runs, or whose stat it was refused
  troubles

passVars == <<names, seen, kept, total>>
readVars == <<want, got>>
cacheVars == <<now, file, temps, pc, readVars, passVars, spared, troubles>>

Entry == [at : Nat, holds : {"whole", "altered", "broken"}]
Listed == [trace : Traces, at : Nat]

InPass(p) == pc[p] \in {"getting", "storing", "purging", "clearing"}

\* A pass of p has come to its end, and nothing was done by p since.
Passed(p) == pc[p] \in {"lookup", "stored", "purged", "cleared"}

AtRest(p) == pc[p] \in {"off", "served", "stored", "purged", "cleared"}

CacheInit ==
  /\ now = 0
  /\ file = [t \in Traces |-> None]
  /\ temps = [r \in Readers |-> None]
  /\ pc = [p \in Procs |-> "off"]
  /\ want = [r \in Readers |-> None]
  /\ got = [r \in Readers |-> None]
  /\ names = [p \in Procs |-> {}]
  /\ seen = [p \in Procs |-> {}]
  /\ kept = [p \in Procs |-> {}]
  /\ total = [p \in Procs |-> 0]
  /\ spared = [p \in Procs |-> {}]
  /\ troubles = 0

Goto(p, label) == pc' = [pc EXCEPT ![p] = label]

\* read throws.
Fails(r) ==
  /\ Goto(r, "off")
  /\ want' = [want EXCEPT ![r] = None] /\ got' = [got EXCEPT ![r] = None]

\* The file at the path goes, whoever put it there.
UnlinkIfPresent(t) == file' = [file EXCEPT ![t] = None]

----------------------------------------------------------------------------
(* entries, purge and clear: passes over the directory.                    *)

\* What a pass of p starts with: it reads the names in the directory.
Listing(p) ==
  /\ names' = [names EXCEPT ![p] = {t \in Traces : file[t] # None}
                                     \cup {r \in Readers : temps[r] # None}]
  /\ seen' = [seen EXCEPT ![p] = {}]
  /\ kept' = [kept EXCEPT ![p] = {}]
  /\ total' = [total EXCEPT ![p] = 0]
  /\ spared' = [spared EXCEPT ![p] = {}]

SweepBegins(p) ==
  /\ p \in Sweeps /\ AtRest(p)
  /\ Goto(p, "purging") /\ Listing(p)
  /\ UNCHANGED <<now, file, temps, readVars, troubles>>

ClearBegins(p) ==
  /\ p \in Clears /\ AtRest(p)
  /\ Goto(p, "clearing") /\ Listing(p)
  /\ UNCHANGED <<now, file, temps, readVars, troubles>>

\* Mutant of Look: a listing passes temporary files over.
LookPast(p) ==
  /\ InPass(p)
  /\ \E n \in names[p] :
       /\ names' = [names EXCEPT ![p] = @ \ {n}]
       /\ seen' = [seen EXCEPT ![p] = @ \cup {[trace |-> t, at |-> file[t].at] :
                                               t \in {u \in Traces : u = n /\ file[u] # None}}]
  /\ UNCHANGED <<now, file, temps, pc, readVars, kept, total, spared, troubles>>

\* Whatever is a temporary file is removed; an entry that is still there is noted.
Look(p) ==
  /\ InPass(p)
  /\ \E n \in names[p] :
       /\ names' = [names EXCEPT ![p] = @ \ {n}]
       /\ temps' = [r \in Readers |-> IF r = n THEN None ELSE temps[r]]
       /\ seen' = [seen EXCEPT ![p] = @ \cup {[trace |-> t, at |-> file[t].at] :
                                               t \in {u \in Traces : u = n /\ file[u] # None}}]
  /\ UNCHANGED <<now, file, pc, readVars, kept, total, spared, troubles>>

\* The stat of an entry is refused: the pass goes on without it.
LookRefused(p) ==
  /\ InPass(p) /\ troubles < MaxTroubles /\ troubles' = troubles + 1
  /\ \E t \in names[p] \cap Traces :
       /\ names' = [names EXCEPT ![p] = @ \ {t}]
       /\ spared' = [spared EXCEPT ![p] = @ \cup {t}]
  /\ UNCHANGED <<now, file, temps, pc, readVars, seen, kept, total>>

\* clear removes every entry it noted, a purge those that are too old.
Judge(p) ==
  /\ InPass(p) /\ names[p] = {}
  /\ \E e \in seen[p] :
       /\ seen' = [seen EXCEPT ![p] = @ \ {e}]
       /\ IF pc[p] = "clearing" \/ now - e.at > MaxAge
          THEN UnlinkIfPresent(e.trace) /\ UNCHANGED <<kept, total>>
          ELSE /\ kept' = [kept EXCEPT ![p] = @ \cup {e}]
               /\ total' = [total EXCEPT ![p] = @ + Bytes[e.trace]]
               /\ UNCHANGED file
  /\ UNCHANGED <<now, temps, pc, readVars, names, spared, troubles>>

\* Mutant of MustGo: the entry at hand is taken off before the limit is tested.
MustGoLess(p, e) == total[p] - Bytes[e.trace] > MaxBytes /\ \A f \in kept[p] : e.at <= f.at

\* The cache is too large and e is the oldest entry that is left to evict.
MustGo(p, e) == total[p] > MaxBytes /\ \A f \in kept[p] : e.at <= f.at

Judged(p) == InPass(p) /\ names[p] = {} /\ seen[p] = {}

\* An entry somebody else removed meanwhile is not taken off the total.
Evict(p) ==
  /\ Judged(p)
  /\ \E e \in kept[p] :
       /\ MustGo(p, e)
       /\ kept' = [kept EXCEPT ![p] = @ \ {e}]
       /\ total' = [total EXCEPT ![p] = IF file[e.trace] = None THEN @ ELSE @ - Bytes[e.trace]]
       /\ UnlinkIfPresent(e.trace)
  /\ UNCHANGED <<now, temps, pc, readVars, names, seen, spared, troubles>>

\* Where the caller goes on.
After(p) ==
  CASE pc[p] = "getting" -> "lookup" [] pc[p] = "storing" -> "stored"
    [] pc[p] = "purging" -> "purged" [] pc[p] = "clearing" -> "cleared"

PassEnds(p) ==
  /\ Judged(p) /\ ~\E e \in kept[p] : MustGo(p, e)
  /\ Goto(p, After(p))
  /\ kept' = [kept EXCEPT ![p] = {}] /\ total' = [total EXCEPT ![p] = 0]
  /\ UNCHANGED <<now, file, temps, readVars, names, seen, spared, troubles>>

PassStep(p) == Look(p) \/ Judge(p) \/ Evict(p) \/ PassEnds(p)

----------------------------------------------------------------------------
(* read, with get and put of the cache.                                    *)

\* read looks the trace up; get begins with a purge.
ReadBegins(r, t) ==
  /\ AtRest(r)
  /\ want' = [want EXCEPT ![r] = t] /\ got' = [got EXCEPT ![r] = None]
  /\ Goto(r, "getting") /\ Listing(r)
  /\ UNCHANGED <<now, file, temps, troubles>>

\* get: an entry that is not there, or too old, is a miss.
Lookup(r) ==
  LET t == want[r] IN
  /\ pc[r] = "lookup"
  /\ Goto(r, IF file[t] # None /\ now - file[t].at <= MaxAge THEN "open" ELSE "download")
  /\ IF file[t] # None /\ now - file[t].at > MaxAge THEN UnlinkIfPresent(t) ELSE UNCHANGED file
  /\ UNCHANGED <<now, temps, readVars, passVars, spared, troubles>>

\* get: so is one that went meanwhile; one that cannot be unpacked is removed.
Open(r) ==
  LET t == want[r] IN
  /\ pc[r] = "open"
  /\ IF file[t] # None /\ file[t].holds # "broken"
     THEN got' = [got EXCEPT ![r] = file[t].holds] /\ Goto(r, "check") /\ UNCHANGED file
     ELSE Goto(r, "download") /\ UnlinkIfPresent(t) /\ UNCHANGED got
  /\ UNCHANGED <<now, temps, want, passVars, spared, troubles>>

\* get: a stat that is refused is a miss too; after a read that is refused the
\* entry is removed besides.
MissRefused(r) ==
  /\ pc[r] \in {"lookup", "open"} /\ troubles < MaxTroubles /\ troubles' = troubles + 1
  /\ Goto(r, "download")
  /\ IF pc[r] = "open" THEN UnlinkIfPresent(want[r]) ELSE UNCHANGED file
  /\ UNCHANGED <<now, temps, readVars, passVars, spared>>

\* Mutant of Check: what comes from the cache is trusted.
CheckNothing(r) ==
  /\ pc[r] = "check"
  /\ Goto(r, "served")
  /\ UNCHANGED <<now, file, temps, readVars, passVars, spared, troubles>>

\* The canonical hash decides; an entry without it is removed, and not used.
Check(r) ==
  /\ pc[r] = "check"
  /\ IF got[r] = "whole"
     THEN Goto(r, "served") /\ UNCHANGED <<file, got>>
     ELSE Goto(r, "download") /\ UnlinkIfPresent(want[r]) /\ got' = [got EXCEPT ![r] = None]
  /\ UNCHANGED <<now, temps, want, passVars, spared, troubles>>

\* The envelope is fetched, and only used if both hashes, its decryption and
\* its schema are right.
Download(r) ==
  /\ pc[r] = "download"
  /\ \E envelope \in {"whole", "altered", "missing"} :
       IF envelope = "whole"
       THEN Goto(r, "write") /\ got' = [got EXCEPT ![r] = envelope] /\ UNCHANGED want
       ELSE Fails(r)
  /\ UNCHANGED <<now, file, temps, passVars, spared, troubles>>

\* put: the plaintext goes to a temporary file of the reader's own.
Write(r) ==
  /\ pc[r] = "write"
  /\ temps' = [temps EXCEPT ![r] = now]
  /\ Goto(r, "place")
  /\ UNCHANGED <<now, file, readVars, passVars, spared, troubles>>

\* put: it is renamed into place.  If another process has removed it, put
\* throws, and read with it.
Place(r) ==
  LET t == want[r] IN
  /\ pc[r] = "place"
  /\ IF temps[r] = None
     THEN Fails(r) /\ UNCHANGED <<file, spared>>
     ELSE /\ Goto(r, "stamp") /\ UNCHANGED readVars
          /\ file' = [file EXCEPT ![t] = [at |-> temps[r], holds |-> got[r]]]
          /\ spared' = [p \in Procs |-> IF InPass(p) \/ Passed(p) THEN spared[p] \cup {t} ELSE {}]
  /\ temps' = [temps EXCEPT ![r] = None]
  /\ UNCHANGED <<now, passVars, troubles>>

\* put: the entry gets its time, if it is still there, and a purge follows.
Stamp(r) ==
  LET t == want[r] IN
  /\ pc[r] = "stamp"
  /\ IF file[t] = None
     THEN Fails(r) /\ UNCHANGED <<file, passVars, spared>>
     ELSE /\ file' = [file EXCEPT ![t].at = now]
          /\ Goto(r, "storing") /\ Listing(r) /\ UNCHANGED readVars
  /\ UNCHANGED <<now, temps, troubles>>

ReadStep(r) ==
  Lookup(r) \/ Open(r) \/ Check(r) \/ Download(r) \/ Write(r) \/ Place(r) \/ Stamp(r)

----------------------------------------------------------------------------
(* What goes wrong.                                                        *)

Stopped(p) ==
  /\ ~AtRest(p) /\ troubles < MaxTroubles /\ troubles' = troubles + 1
  /\ Goto(p, "off")
  /\ want' = [r \in Readers |-> IF r = p THEN None ELSE want[r]]
  /\ got' = [r \in Readers |-> IF r = p THEN None ELSE got[r]]
  /\ names' = [names EXCEPT ![p] = {}] /\ seen' = [seen EXCEPT ![p] = {}]
  /\ kept' = [kept EXCEPT ![p] = {}] /\ total' = [total EXCEPT ![p] = 0]
  /\ spared' = [spared EXCEPT ![p] = {}]
  /\ UNCHANGED <<now, file>>

\* The process dies where it is.
Killed(p) == Stopped(p) /\ UNCHANGED temps

\* A file operation is refused, and neither of those whose error is dropped (see
\* LookRefused and MissRefused): what is under way throws, after put's finally has
\* removed the temporary file.
Refused(p) ==
  /\ Stopped(p)
  /\ temps' = [r \in Readers |-> IF r = p THEN None ELSE temps[r]]

\* A file is damaged, so that it cannot be unpacked or is something else.
Damaged(t, holds) ==
  /\ file[t] # None /\ file[t].holds = "whole"
  /\ troubles < MaxTroubles /\ troubles' = troubles + 1
  /\ file' = [file EXCEPT ![t].holds = holds]
  /\ UNCHANGED <<now, temps, pc, readVars, passVars, spared>>

Tick ==
  /\ now < MaxTime /\ now' = now + 1
  /\ UNCHANGED <<file, temps, pc, readVars, passVars, spared, troubles>>

CacheNext ==
  \/ \E p \in Procs : SweepBegins(p) \/ ClearBegins(p) \/ PassStep(p)
  \/ \E p \in Procs : LookRefused(p) \/ Killed(p) \/ Refused(p)
  \/ \E r \in Readers : ReadStep(r) \/ MissRefused(r) \/ \E t \in Traces : ReadBegins(r, t)
  \/ \E t \in Traces, holds \in {"altered", "broken"} : Damaged(t, holds)
  \/ Tick

CacheSpec == CacheInit /\ [][CacheNext]_cacheVars

\* The daemon sweeps once a minute and its passes go on.
FairCacheSpec ==
  CacheSpec /\ \A p \in Sweeps : WF_cacheVars(SweepBegins(p)) /\ WF_cacheVars(PassStep(p))

----------------------------------------------------------------------------
(* Properties.                                                             *)

\* Every variable has its type; a reader that stores something has it whole.
CacheTypeOK ==
  /\ now \in 0..MaxTime /\ troubles \in 0..MaxTroubles
  /\ file \in [Traces -> Entry \cup {None}]
  /\ temps \in [Readers -> 0..MaxTime \cup {None}]
  /\ pc \in [Procs -> {"off", "served", "stored", "purged", "cleared", "getting", "storing",
                       "purging", "clearing", "lookup", "open", "check", "download", "write",
                       "place", "stamp"}]
  /\ want \in [Readers -> Traces \cup {None}]
  /\ got \in [Readers -> {"whole", "altered", None}]
  /\ names \in [Procs -> SUBSET (Traces \cup Readers)]
  /\ seen \in [Procs -> SUBSET Listed] /\ kept \in [Procs -> SUBSET Listed]
  /\ total \in [Procs -> Nat]
  /\ spared \in [Procs -> SUBSET Traces]

\* What a read returns is the trace it was asked for, whatever became of the
\* cached entry or of the envelope, and however reads, purges and clears
\* interleave; and an entry nobody damaged is whole.
ReadsAreGenuine ==
  /\ \A r \in Readers : pc[r] \in {"served", "stored"} => got[r] = "whole"
  /\ troubles = 0 => \A t \in Traces : file[t] # None => file[t].holds = "whole"

\* The entries p's pass answers for.
Old(p) == {t \in Traces : file[t] # None /\ t \notin spared[p]}

\* When a pass has ended, what is there is within the size limit, and after clear
\* it is nothing: also when others remove, replace and add entries meanwhile.  Not
\* counted are the entries put in place since it began, and those it could not
\* stat: it goes on without them and reports success.
PassesEnforce ==
  CacheTypeOK /\ \A p \in Procs :
    /\ Passed(p) => MapThenSumSet(LAMBDA t : Bytes[t], Old(p)) <= MaxBytes
    /\ pc[p] = "cleared" => Old(p) = {}

\* No plaintext lingers: a temporary file, whose reader may have died, is
\* removed or put in place, and an entry that is too old is removed or renewed.
TooOld(t) == file[t] # None /\ now - file[t].at > MaxAge
NothingLingers ==
  /\ \A r \in Readers : temps[r] # None ~> temps[r] = None
  /\ \A t \in Traces : TooOld(t) ~> ~TooOld(t)
=============================================================================
