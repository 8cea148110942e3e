---------------------------- MODULE DesktopProofs ----------------------------
(***************************************************************************)
(* Proofs about Desktop and the shell below it, for any budget of starts,  *)
(* any number of configurations, faults and ends of the app: a launch has  *)
(* one daemon at most and keeps to its budget, the daemon runs on what was *)
(* saved, the wrapping key stays, and a trace that was withdrawn is not    *)
(* shown.                                                                  *)
(***************************************************************************)
EXTENDS Desktop, SequenceTheorems, WellFoundedInduction, TLAPS

----------------------------------------------------------------------------
(* The inductive invariant.                                                *)

\* The types of what the supervisor keeps.
SupervisorTypeOK ==
  /\ now \in 0..MaxTime /\ daemons \in 0..1
  /\ process \in {Nothing, "alive", "exited"}
  /\ holder \in {Nothing, "window", "autolaunch"}
  /\ reply \in {Nothing, "running", "failed"}
  /\ autolaunch \in BOOLEAN

\* The types of the vault and of a configuration.
ConfiguringTypeOK ==
  /\ vault = [e \in Secrets |-> vault[e]]
  /\ vault.config \in Maybe(Configs)
  /\ vault.signing \in Maybe(Numbers) /\ vault.storage \in Maybe(Numbers)
  /\ vault.wrapping \in Maybe(Numbers)
  /\ pending \in Maybe(Configurations)
  /\ configures \in Numbers /\ faults \in 0..MaxFaults
  /\ torn \in BOOLEAN
  /\ saved \in [Fields -> Numbers]

\* The lock of daemon_start keeps two starts apart, and what a daemon was given
\* is forgotten with it.
DaemonInv ==
  /\ daemons = IF process = "alive" \/ holder # Nothing THEN 1 ELSE 0
  /\ holder # Nothing => process # "alive"
  /\ process # "alive" /\ holder = Nothing => boot = Nothing

\* Starts are recorded one after the other.
Sorted(times) == \A i, j \in 1..Len(times) : i <= j => times[i] <= times[j]

\* No time of a record is later than t.
Past(times, t) == \A i \in 1..Len(times) : times[i] <= t

\* A record of starts dominates spawns at time t: counted from the end, the j-th
\* spawn within the window is there, under a time that is not earlier.
Dominated(starts, times, j) ==
  /\ Len(times) - j < Len(starts)
  /\ times[j] <= starts[Len(starts) - (Len(times) - j)]

\* Whatever is within the window is dominated.
Dominates(starts, times, t) ==
  \A j \in 1..Len(times) : t - times[j] <= RestartWindow => Dominated(starts, times, j)

\* No more than MaxStarts spawns within the window.
Budgeted(times) ==
  \A i \in 1..Len(times) :
    i + MaxStarts \in 1..Len(times) => times[i + MaxStarts] - times[i] > RestartWindow

\* The budget, with what it takes to keep it.
Budget(starts, times, t) ==
  /\ starts \in Seq(0..MaxTime) /\ Len(starts) <= MaxStarts
  /\ times \in Seq(0..MaxTime)
  /\ Sorted(starts) /\ Past(starts, t) /\ Past(times, t)
  /\ Dominates(starts, times, t) /\ Budgeted(times)

BudgetInv == Budget(recentStarts, spawned, now)

\* What is left of a configuration is a suffix of its entries; what was written
\* before is in the vault.
WritingInv ==
  /\ left \in Seq(Secrets \cup {"marketplace"}) /\ Len(left) <= 5
  /\ \A i \in 1..Len(left) : left[i] = Entries[5 - Len(left) + i]
  /\ left # <<>> => pending # Nothing
  /\ pending # Nothing =>
       /\ Len(left) <= 4 => vault.config = [id |-> pending.id, key |-> pending.key]
       /\ Len(left) <= 2 => vault.signing = pending.signing
       /\ Len(left) <= 1 => vault.storage = pending.storage
       /\ Len(left) = 0 => vault.wrapping = pending.wrapping

\* A configuration has the storage credentials that are then saved, unless it was
\* entered in part over a vault that is torn.
SavesPending ==
  pending.entered = Fields \/ ~torn =>
    pending.key = Saving["key"] /\ pending.storage = Saving["storage"]

\* A configuration is of one device; a vault that is not torn is of one, too, and
\* has the storage credentials that were saved.
VaultInv ==
  /\ pending # Nothing =>
       /\ pending.signing = pending.id
       /\ SavesPending
       /\ ~pending.unread /\ vault.wrapping # Nothing => pending.wrapping = vault.wrapping
  /\ ~torn /\ left = <<>> /\ vault.config # Nothing =>
       /\ vault.signing = vault.config.id
       /\ vault.config.key = saved["key"] /\ vault.storage = saved["storage"]
  /\ vault.wrapping # Nothing => vault.config # Nothing

\* The types of the window.
WindowTypeOK ==
  /\ status \in BOOLEAN /\ visible \in BOOLEAN
  /\ current \in BOOLEAN /\ revealed \in BOOLEAN /\ withdrawn \in BOOLEAN
  /\ wasRunning \in BOOLEAN /\ unseen \in BOOLEAN
  /\ busy \in Maybe(Operations)

\* A trace is shown, or awaited, by a window that was not hidden since.
TraceInv == revealed \/ current => visible /\ ~withdrawn

\* A configuration that is written beside no daemon finds none when it ends, and
\* the daemon that is started for it reads the vault as it left it.
ApplyInv ==
  /\ busy # "configure" => pending = Nothing /\ left = <<>>
  /\ busy = "configure" /\ ~wasRunning /\ ~unseen =>
       process # "alive" /\ holder = Nothing /\ ~autolaunch
  /\ busy = "apply" /\ ~unseen /\ boot # Nothing => boot.given = vault

SupervisorInv == SupervisorTypeOK /\ DaemonInv /\ BudgetInv
ConfiguringInv == ConfiguringTypeOK /\ WritingInv /\ VaultInv

DesktopInv ==
  /\ SupervisorInv /\ ConfiguringInv
  /\ BootIsWhole /\ WindowTypeOK /\ TraceInv /\ ApplyInv

----------------------------------------------------------------------------
(* The record of starts.                                                   *)

\* A set of naturals has a least element, and Min finds it.
LEMMA LeastNatural ==
  ASSUME NEW T \in SUBSET Nat, T # {}
  PROVE  Min(T) \in T /\ \A n \in T : Min(T) <= n
<1>1. \E x \in T : \A y \in T : ~ (<<y, x>> \in OpToRel(<, Nat))
  BY NatLessThanWellFounded, WFMin
<1>2. PICK m \in T : \A n \in T : ~ (<<n, m>> \in OpToRel(<, Nat))
  BY <1>1
<1>3. \A n \in T : ~(n < m)
  BY <1>2 DEF OpToRel
<1>4. \A n \in T : m <= n
  BY <1>3
<1> QED
  BY <1>4 DEF Min

\* The record without its first k starts, which are too old.
IsPopped(kept, starts, k, t) ==
  /\ Len(kept) = Len(starts) - k
  /\ \A i \in 1..Len(kept) : kept[i] = starts[k + i]
  /\ \A i \in 1..k : t - starts[i] > RestartWindow

\* What record_daemon_start keeps is the record without starts that are too old.
LEMMA RecentIsPopped ==
  ASSUME NEW S \in SUBSET Nat, recentStarts \in Seq(S), now \in Nat, RestartWindow \in Nat
  PROVE  /\ Recent \in Seq(S)
         /\ \E k \in 0..Len(recentStarts) : IsPopped(Recent, recentStarts, k, now)
<1> DEFINE k == Min(Fronts)
<1>1. Len(recentStarts) \in Fronts /\ Fronts \in SUBSET Nat
  BY DEF Fronts
<1>2. k \in Fronts /\ \A n \in Fronts : k <= n
  BY <1>1, LeastNatural
<1>3. k \in 0..Len(recentStarts)
  BY <1>2 DEF Fronts
<1>4. Recent = SubSeq(recentStarts, k + 1, Len(recentStarts))
  BY DEF Recent
<1> HIDE DEF k
<1>5. ASSUME NEW i \in 1..k PROVE now - recentStarts[i] > RestartWindow
  <2>1. i - 1 \notin Fronts /\ i - 1 \in 0..Len(recentStarts) /\ i - 1 < Len(recentStarts)
    BY <1>2, <1>3
  <2>2. ~(now - recentStarts[(i - 1) + 1] <= RestartWindow)
    BY <2>1 DEF Fronts
  <2>3. i \in 1..Len(recentStarts) /\ i \in Nat
    BY <1>3
  <2>4. recentStarts[i] \in S
    BY <2>3, ElementOfSeq
  <2>5. recentStarts[i] \in Nat
    BY <2>4, Zenon
  <2>6. (i - 1) + 1 = i
    BY <2>3
  <2> QED
    BY <2>2, <2>5, <2>6
<1>6. /\ Recent \in Seq(S) /\ Len(Recent) = Len(recentStarts) - k
      /\ \A i \in 1..Len(Recent) : Recent[i] = recentStarts[k + i]
  BY <1>3, <1>4
<1> QED
  BY <1>3, <1>5, <1>6 DEF IsPopped

\* A sequence with one time more.
LEMMA OneMore ==
  ASSUME NEW t \in Nat, NEW times \in Seq(Nat)
  PROVE  /\ Append(times, t) \in Seq(Nat) /\ Len(Append(times, t)) = Len(times) + 1
         /\ \A i \in 1..Len(times) : Append(times, t)[i] = times[i]
         /\ Append(times, t)[Len(times) + 1] = t
         /\ Past(times, t) => Past(Append(times, t), t)
         /\ Past(times, t) /\ Sorted(times) => Sorted(Append(times, t))
<1>1. /\ Append(times, t) \in Seq(Nat) /\ Len(Append(times, t)) = Len(times) + 1
      /\ \A i \in 1..Len(times) : Append(times, t)[i] = times[i]
      /\ Append(times, t)[Len(times) + 1] = t
  OBVIOUS
<1>2. Past(times, t) => Past(Append(times, t), t)
  BY <1>1 DEF Past
<1>3. Past(times, t) /\ Sorted(times) => Sorted(Append(times, t))
  BY <1>1 DEF Past, Sorted
<1> QED
  BY <1>1, <1>2, <1>3

\* What is no earlier than a time within the window is within the window.
LEMMA LaterIsWithin ==
  \A a, b, t, w \in Nat : a <= b /\ t - a <= w => ~(t - b > w)
  OBVIOUS

\* A record still dominates the spawns when starts that are too old are popped.
LEMMA PoppedDominates ==
  ASSUME NEW t \in Nat, NEW starts \in Seq(Nat), NEW kept \in Seq(Nat), NEW times \in Seq(Nat),
         RestartWindow \in Nat, Dominates(starts, times, t),
         NEW k \in 0..Len(starts), IsPopped(kept, starts, k, t)
  PROVE  Dominates(kept, times, t)
<1> SUFFICES ASSUME NEW j \in 1..Len(times), t - times[j] <= RestartWindow
             PROVE  Dominated(kept, times, j)
  BY DEF Dominates
<1> DEFINE at == Len(starts) - (Len(times) - j)
<1>1. Dominated(starts, times, j)
  BY DEF Dominates
<1>2. Len(times) - j < Len(starts) /\ times[j] <= starts[at]
  BY <1>1 DEF Dominated
<1>3. at \in 1..Len(starts) /\ times[j] \in Nat
  <2>1. /\ Len(times) \in Nat /\ Len(starts) \in Nat
        /\ j \in Nat /\ 1 <= j /\ j <= Len(times)
    OBVIOUS
  <2>2. times[j] \in Nat
    BY ElementOfSeq
  <2>3. at \in 1..Len(starts)
    BY <1>2, <2>1
  <2> QED
    BY <2>2, <2>3
<1> HIDE DEF at
<1>4. starts[at] \in Nat
  BY <1>3, ElementOfSeq
<1>5. ~(t - starts[at] > RestartWindow)
  BY <1>2, <1>3, <1>4, LaterIsWithin, Zenon
<1>6. ~(at <= k)
  BY <1>3, <1>5 DEF IsPopped
<1>7. Len(kept) = Len(starts) - k
  BY DEF IsPopped
<1>8. at - k \in 1..Len(kept) /\ k + (at - k) = at
  BY <1>3, <1>6, <1>7
<1>9. kept[at - k] = starts[at]
  BY <1>8 DEF IsPopped
<1>10. at - k = Len(kept) - (Len(times) - j)
  BY <1>7 DEF at
<1>11. Len(times) - j < Len(kept)
  BY <1>8, <1>10
<1> QED
  BY <1>2, <1>9, <1>10, <1>11 DEF Dominated

\* And the starts that are kept are in order, none of them later than t.
LEMMA PoppedIsSorted ==
  ASSUME NEW t \in Nat, NEW starts \in Seq(Nat), NEW kept \in Seq(Nat),
         NEW k \in 0..Len(starts), IsPopped(kept, starts, k, t)
  PROVE  /\ Sorted(starts) => Sorted(kept)
         /\ Past(starts, t) => Past(kept, t)
<1>1. \A i \in 1..Len(kept) : k + i \in 1..Len(starts) /\ kept[i] = starts[k + i]
  BY DEF IsPopped
<1>2. Past(starts, t) => Past(kept, t)
  BY <1>1 DEF Past
<1>3. ASSUME Sorted(starts), NEW i \in 1..Len(kept), NEW j \in 1..Len(kept), i <= j
      PROVE  kept[i] <= kept[j]
  <2>1. starts[k + i] <= starts[k + j]
    BY <1>1, <1>3 DEF Sorted
  <2> QED
    BY <1>1, <2>1
<1> QED
  BY <1>2, <1>3 DEF Sorted

\* A record still dominates the spawns when a start is recorded, with a spawn or
\* without.
LEMMA AppendedDominates ==
  ASSUME NEW t \in Nat, NEW kept \in Seq(Nat), NEW times \in Seq(Nat),
         RestartWindow \in Nat, Dominates(kept, times, t), Sorted(kept),
         Past(kept, t), Past(times, t)
  PROVE  /\ Dominates(Append(kept, t), times, t)
         /\ Dominates(Append(kept, t), Append(times, t), t)
<1> DEFINE K == Append(kept, t)  T == Append(times, t)
<1>1. /\ K \in Seq(Nat) /\ Len(K) = Len(kept) + 1 /\ K[Len(kept) + 1] = t
      /\ \A i \in 1..Len(kept) : K[i] = kept[i]
      /\ Sorted(K)
  BY OneMore
<1>2. /\ T \in Seq(Nat) /\ Len(T) = Len(times) + 1 /\ T[Len(times) + 1] = t
      /\ \A i \in 1..Len(times) : T[i] = times[i]
  BY OneMore
<1> HIDE DEF K, T
<1>3. ASSUME NEW j \in 1..Len(times), t - times[j] <= RestartWindow
      PROVE  Dominated(kept, times, j)
  BY <1>3 DEF Dominates
<1>4. ASSUME NEW j \in 1..Len(times), Dominated(kept, times, j)
      PROVE  Dominated(K, times, j) /\ Dominated(K, T, j)
  <2> DEFINE at == Len(kept) - (Len(times) - j)
  <2>1. Len(times) - j < Len(kept) /\ times[j] <= kept[at]
    BY <1>4 DEF Dominated
  <2>2. /\ Len(times) \in Nat /\ Len(kept) \in Nat /\ Len(K) = Len(kept) + 1
        /\ j \in Nat /\ 1 <= j /\ j <= Len(times) /\ Len(T) = Len(times) + 1
    <3>1. Len(K) = Len(kept) + 1 /\ Len(T) = Len(times) + 1
      BY <1>1, <1>2
    <3> QED
      BY <3>1
  <2>3. /\ at \in 1..Len(kept) /\ at \in 1..Len(K) /\ at + 1 \in 1..Len(K) /\ at <= at + 1
        /\ at + 1 = Len(K) - (Len(times) - j) /\ at = Len(K) - (Len(T) - j)
        /\ Len(times) - j < Len(K) /\ Len(T) - j < Len(K)
    <3>1. Len(times) - j < Len(kept)
      BY <2>1
    <3> QED
      BY <2>2, <3>1
  <2>4. times[j] \in Nat
    BY ElementOfSeq
  <2> HIDE DEF at
  <2>5. K[at] = kept[at]
    BY <1>1, <2>3, Zenon
  <2>6. K[at] \in Nat /\ K[at + 1] \in Nat
    BY <1>1, <2>3, ElementOfSeq, Zenon
  <2>7. K[at] <= K[at + 1]
    BY <1>1, <2>3, Zenon DEF Sorted
  <2>8. times[j] <= K[at]
    BY <2>1, <2>5
  <2>9. times[j] <= K[at] /\ times[j] <= K[at + 1]
    BY <2>4, <2>6, <2>7, <2>8
  <2>10. T[j] = times[j]
    BY <1>2
  <2> QED
    BY <2>3, <2>9, <2>10 DEF Dominated
<1>5. Dominates(K, times, t)
  BY <1>3, <1>4 DEF Dominates
<1>6. Dominated(K, T, Len(times) + 1)
  BY <1>1, <1>2 DEF Dominated
<1>7. ASSUME NEW j \in 1..Len(T), t - T[j] <= RestartWindow
      PROVE  Dominated(K, T, j)
  <2>1. CASE j = Len(times) + 1
    BY <1>6, <2>1
  <2>2. CASE j \in 1..Len(times)
    BY <1>2, <1>3, <1>4, <1>7, <2>2
  <2> QED
    BY <1>2, <2>1, <2>2
<1>8. Dominates(K, T, t)
  BY <1>7 DEF Dominates
<1> QED
  BY <1>5, <1>8 DEF K, T

\* A spawn under a record that is not full keeps to the budget.
LEMMA AppendedBudget ==
  ASSUME NEW t \in Nat, NEW kept \in Seq(Nat), NEW times \in Seq(Nat),
         RestartWindow \in Nat, MaxStarts \in Nat,
         Dominates(kept, times, t), Len(kept) < MaxStarts, Budgeted(times)
  PROVE  Budgeted(Append(times, t))
<1> DEFINE T == Append(times, t)
<1>1. /\ T \in Seq(Nat) /\ Len(T) = Len(times) + 1 /\ T[Len(times) + 1] = t
      /\ \A i \in 1..Len(times) : T[i] = times[i]
  BY OneMore
<1> HIDE DEF T
<1>2. SUFFICES ASSUME NEW i \in 1..Len(T), i + MaxStarts \in 1..Len(T)
               PROVE  T[i + MaxStarts] - T[i] > RestartWindow
  BY DEF Budgeted, T
<1>3. CASE i + MaxStarts = Len(times) + 1
  <2>1. /\ Len(times) \in Nat /\ Len(kept) \in Nat
        /\ i \in 1..Len(times) /\ Len(times) - i = MaxStarts - 1
    <3>1. Len(times) \in Nat /\ Len(kept) \in Nat /\ Len(T) = Len(times) + 1
      BY <1>1
    <3> QED
      BY <1>3, <3>1
  <2>2. ~(Len(times) - i < Len(kept))
    BY <2>1
  <2>3. ~Dominated(kept, times, i)
    BY <2>2, Zenon DEF Dominated
  <2>4. ~(t - times[i] <= RestartWindow)
    BY <2>1, <2>3, Zenon DEF Dominates
  <2>5. times[i] \in Nat
    BY <2>1, ElementOfSeq
  <2>6. T[i + MaxStarts] = t /\ T[i] = times[i]
    BY <1>1, <1>3, <2>1
  <2> QED
    BY <2>4, <2>5, <2>6
<1>4. CASE i + MaxStarts \in 1..Len(times)
  <2>1. i \in 1..Len(times)
    BY <1>1, <1>4
  <2>2. times[i + MaxStarts] - times[i] > RestartWindow
    BY <1>4, <2>1 DEF Budgeted
  <2> QED
    BY <1>1, <1>4, <2>1, <2>2
<1>5. Len(times) \in Nat /\ Len(T) = Len(times) + 1
  BY <1>1
<1>6. i \in Nat /\ i + MaxStarts <= Len(times) + 1 /\ i >= 1
  BY <1>2, <1>5
<1>7. i + MaxStarts = Len(times) + 1 \/ i + MaxStarts \in 1..Len(times)
  <2>1. ASSUME NEW l \in Nat, i + MaxStarts <= l + 1, i + MaxStarts # l + 1
        PROVE  i + MaxStarts \in 1..l
    BY <1>6, <2>1
  <2> QED
    BY <1>5, <1>6, <2>1
<1> QED
  BY <1>3, <1>4, <1>7

\* The record and the spawns after daemon_start has popped what is too old.
LEMMA BudgetKept ==
  ASSUME NEW t \in 0..MaxTime, NEW starts, NEW times, NEW kept, Budget(starts, times, t),
         kept \in Seq(0..MaxTime), NEW k \in 0..Len(starts), IsPopped(kept, starts, k, t)
  PROVE  Budget(kept, times, t)
<1>1. t \in Nat /\ starts \in Seq(Nat) /\ times \in Seq(Nat) /\ kept \in Seq(Nat)
  BY BoundsAssumption DEF Budget
<1>2. Dominates(kept, times, t)
  BY <1>1, PoppedDominates, BoundsAssumption DEF Budget
<1>3. Sorted(kept) /\ Past(kept, t)
  BY <1>1, PoppedIsSorted DEF Budget
<1>4. Len(kept) <= MaxStarts
  BY BoundsAssumption DEF Budget, IsPopped
<1> QED
  BY <1>2, <1>3, <1>4 DEF Budget

\* And after it has recorded a start, with a spawn or without.
LEMMA BudgetSpent ==
  ASSUME NEW t \in 0..MaxTime, NEW kept, NEW times, Budget(kept, times, t),
         Len(kept) < MaxStarts
  PROVE  Budget(Append(kept, t), times, t) /\ Budget(Append(kept, t), Append(times, t), t)
<1>1. /\ t \in Nat /\ times \in Seq(Nat) /\ kept \in Seq(Nat)
      /\ RestartWindow \in Nat /\ MaxStarts \in Nat
  BY BoundsAssumption DEF Budget
<1>2. /\ Dominates(kept, times, t) /\ Sorted(kept) /\ Past(kept, t) /\ Past(times, t)
      /\ Budgeted(times)
  BY DEF Budget
<1>3. Dominates(Append(kept, t), times, t) /\ Dominates(Append(kept, t), Append(times, t), t)
  BY <1>1, <1>2, AppendedDominates
<1>4. /\ Sorted(Append(kept, t)) /\ Past(Append(kept, t), t) /\ Past(Append(times, t), t)
      /\ Len(Append(kept, t)) <= MaxStarts
  BY <1>1, <1>2, OneMore
<1>5. Budgeted(Append(times, t))
  BY <1>1, <1>2, AppendedBudget
<1>6. Append(kept, t) \in Seq(0..MaxTime) /\ Append(times, t) \in Seq(0..MaxTime)
  BY DEF Budget
<1> QED
  BY <1>2, <1>3, <1>4, <1>5, <1>6 DEF Budget

\* And after a tick of the clock.
LEMMA BudgetAges ==
  ASSUME NEW t \in 0..MaxTime, NEW starts, NEW times, Budget(starts, times, t)
  PROVE  Budget(starts, times, t + 1)
<1>1. /\ t \in Nat /\ starts \in Seq(Nat) /\ times \in Seq(Nat) /\ RestartWindow \in Nat
  BY BoundsAssumption DEF Budget
<1>2. Past(starts, t + 1) /\ Past(times, t + 1)
  BY <1>1 DEF Budget, Past
<1>3. ASSUME NEW j \in 1..Len(times), (t + 1) - times[j] <= RestartWindow
      PROVE  Dominated(starts, times, j)
  <2>1. times[j] \in Nat
    BY <1>1
  <2>2. t - times[j] <= RestartWindow
    BY <1>1, <1>3, <2>1
  <2> QED
    BY <2>2 DEF Budget, Dominates
<1> QED
  BY <1>2, <1>3 DEF Budget, Dominates

\* A launch begins with a full budget.
LEMMA BudgetBegins ==
  ASSUME NEW t \in 0..MaxTime
  PROVE  Budget(<<>>, <<>>, t)
<1>1. <<>> \in Seq(0..MaxTime) /\ Len(<<>>) = 0
  OBVIOUS
<1> QED
  BY <1>1, BoundsAssumption DEF Budget, Sorted, Past, Dominates, Budgeted

----------------------------------------------------------------------------
(* The supervisor.                                                         *)

\* Only the supervisor's own steps matter to it, and only those of a
\* configuration, a failure or the end of the app to a configuration.
LEMMA SupervisorStutters ==
  ASSUME SupervisorInv, UNCHANGED <<now, supervisor, autolaunch>>
  PROVE  SupervisorInv'
  BY DEF SupervisorInv, SupervisorTypeOK, DaemonInv, BudgetInv, supervisor

\* What leaves the vault and the configuration alone keeps their invariant.
LEMMA ConfiguringStutters ==
  ASSUME ConfiguringInv, UNCHANGED configuring
  PROVE  ConfiguringInv'
  BY DEF ConfiguringInv, ConfiguringTypeOK, WritingInv, VaultInv, SavesPending, Saving, configuring

\* daemon_start, whoever calls it, keeps what is known of the daemon; a daemon it
\* spawns is given what the vault says.
LEMMA DaemonStartKeeps ==
  ASSUME SupervisorInv, NEW who \in {"window", "autolaunch"}, DaemonStart(who),
         UNCHANGED now, autolaunch' \in BOOLEAN
  PROVE  /\ SupervisorInv'
         /\ \/ boot' = boot
            \/ Bootable /\ boot' = [given |-> vault, amid |-> torn \/ left # <<>>, saved |-> saved]
<1>1. now \in 0..MaxTime /\ now \in Nat /\ RestartWindow \in Nat
  BY BoundsAssumption DEF SupervisorInv, SupervisorTypeOK
<1>2. /\ Recent \in Seq(0..MaxTime)
      /\ \E k \in 0..Len(recentStarts) : IsPopped(Recent, recentStarts, k, now)
  <2>1. 0..MaxTime \in SUBSET Nat /\ recentStarts \in Seq(0..MaxTime)
    BY BoundsAssumption DEF SupervisorInv, BudgetInv, Budget
  <2> QED
    BY <1>1, <2>1, RecentIsPopped
<1>3. Budget(Recent, spawned, now)
  BY <1>1, <1>2, BudgetKept DEF SupervisorInv, BudgetInv
<1>4. Len(Recent) < MaxStarts =>
        /\ Budget(Append(Recent, now), spawned, now)
        /\ Budget(Append(Recent, now), Append(spawned, now), now)
  BY <1>1, <1>3, BudgetSpent
<1>5. Len(Recent) \in Nat /\ MaxStarts \in Nat
  BY <1>2, BoundsAssumption
<1>6. who # Nothing
  BY NothingAssumption
<1>7. reply' \in {Nothing, "running", "failed"} /\ SupervisorTypeOK
  BY DEF DaemonStart, Answer, Spawn, SupervisorInv, SupervisorTypeOK
<1>8. DaemonInv /\ BudgetInv /\ Unlocked
  BY DEF SupervisorInv, DaemonStart
<1>9. CASE UNCHANGED <<recentStarts, spawned, daemons, process, holder, boot>>
  <2>1. SupervisorTypeOK'
    BY <1>7, <1>9 DEF SupervisorTypeOK
  <2>2. DaemonInv' /\ BudgetInv'
    BY <1>8, <1>9 DEF DaemonInv, BudgetInv
  <2> QED
    BY <1>9, <2>1, <2>2 DEF SupervisorInv
<1>10. CASE /\ Fresh /\ process' = Nothing
            /\ \/ recentStarts' = Recent
               \/ Len(Recent) < MaxStarts /\ recentStarts' = Append(Recent, now)
            /\ UNCHANGED <<spawned, daemons, holder, boot>>
  <2>1. SupervisorTypeOK'
    BY <1>7, <1>10 DEF SupervisorTypeOK
  <2>2. BudgetInv'
    BY <1>3, <1>4, <1>10 DEF BudgetInv
  <2>3. DaemonInv'
    BY <1>8, <1>10, NothingAssumption DEF DaemonInv, Fresh, Unlocked
  <2> QED
    BY <1>10, <2>1, <2>2, <2>3 DEF SupervisorInv
<1>11. CASE /\ Fresh /\ process' = Nothing /\ recentStarts' = Append(Recent, now)
            /\ Len(Recent) < MaxStarts /\ Bootable
            /\ holder' = who /\ daemons' = daemons + 1 /\ spawned' = Append(spawned, now)
            /\ boot' = [given |-> vault, amid |-> torn \/ left # <<>>, saved |-> saved]
  <2>1. daemons = 0
    BY <1>8, <1>11 DEF Unlocked, DaemonInv, Fresh
  <2>2. SupervisorTypeOK'
    BY <1>7, <1>11, <2>1 DEF SupervisorTypeOK
  <2>3. BudgetInv'
    BY <1>4, <1>11 DEF BudgetInv
  <2>4. DaemonInv'
    BY <1>6, <1>11, <2>1, NothingAssumption DEF DaemonInv
  <2> QED
    BY <1>11, <2>2, <2>3, <2>4 DEF SupervisorInv
<1>12. \/ UNCHANGED <<recentStarts, spawned, daemons, process, holder, boot>>
       \/ Fresh /\ process' = Nothing /\ recentStarts' = Recent
          /\ UNCHANGED <<spawned, daemons, holder, boot>>
       \/ /\ Fresh /\ process' = Nothing /\ Len(Recent) < MaxStarts
          /\ recentStarts' = Append(Recent, now) /\ Spawn(who)
  BY <1>5 DEF DaemonStart
<1>13. Spawn(who) =>
         \/ UNCHANGED <<holder, daemons, spawned, boot>>
         \/ /\ Bootable /\ holder' = who /\ daemons' = daemons + 1
            /\ spawned' = Append(spawned, now)
            /\ boot' = [given |-> vault, amid |-> torn \/ left # <<>>, saved |-> saved]
  BY DEF Spawn
<1> QED
  BY <1>9, <1>10, <1>11, <1>12, <1>13

\* daemon_stop, whoever calls it, keeps what is known of the daemon.
LEMMA DaemonStopKeeps ==
  ASSUME SupervisorInv, DaemonStop, UNCHANGED <<now, autolaunch>>
  PROVE  SupervisorInv' /\ boot' = Nothing /\ process' = Nothing /\ holder' = Nothing
<1>1. SupervisorTypeOK' /\ boot' = Nothing /\ process' = Nothing /\ holder' = Nothing
  BY DEF SupervisorInv, SupervisorTypeOK, DaemonInv, DaemonStop, Unlocked
<1>2. DaemonInv'
  BY <1>1, NothingAssumption DEF SupervisorInv, SupervisorTypeOK, DaemonInv, DaemonStop, Unlocked
<1>3. BudgetInv'
  BY DEF SupervisorInv, BudgetInv, DaemonStop
<1> QED
  BY <1>1, <1>2, <1>3 DEF SupervisorInv

\* So does every step of the supervisor.
LEMMA SupervisorSteps ==
  ASSUME SupervisorInv, Ready \/ Crash \/ Tick
  PROVE  /\ SupervisorInv' /\ UNCHANGED <<autolaunch, configuring>>
         /\ boot' = boot \/ boot' = Nothing
         /\ process = "alive" \/ holder # Nothing \/ UNCHANGED supervisor
<1>1. CASE Ready
  <2>1. SupervisorTypeOK'
    BY <1>1 DEF SupervisorInv, SupervisorTypeOK, DaemonInv, Ready, Unlocked, Answer
  <2>2. DaemonInv'
    BY <1>1, NothingAssumption DEF SupervisorInv, SupervisorTypeOK, DaemonInv, Ready, Unlocked
  <2>3. BudgetInv'
    BY <1>1 DEF SupervisorInv, BudgetInv, Ready
  <2>4. /\ UNCHANGED <<autolaunch, configuring>>
        /\ holder # Nothing /\ (boot' = boot \/ boot' = Nothing)
    BY <1>1 DEF Ready, Unlocked
  <2> QED
    BY <2>1, <2>2, <2>3, <2>4 DEF SupervisorInv
<1>2. CASE Crash
  <2>1. SupervisorTypeOK'
    BY <1>2 DEF SupervisorInv, SupervisorTypeOK, DaemonInv, Crash
  <2>2. DaemonInv'
    BY <1>2, NothingAssumption DEF SupervisorInv, SupervisorTypeOK, DaemonInv, Crash
  <2>3. BudgetInv'
    BY <1>2 DEF SupervisorInv, BudgetInv, Crash
  <2> QED
    BY <1>2, <2>1, <2>2, <2>3 DEF SupervisorInv, Crash
<1>3. CASE Tick
  <2>1. BudgetInv'
    BY <1>3, BudgetAges DEF SupervisorInv, SupervisorTypeOK, BudgetInv, Tick, supervisor
  <2>2. SupervisorTypeOK'
    BY <1>3, BoundsAssumption DEF SupervisorInv, SupervisorTypeOK, Tick, supervisor
  <2> QED
    BY <1>3, <2>1, <2>2 DEF SupervisorInv, DaemonInv, Tick, supervisor
<1> QED
  BY <1>1, <1>2, <1>3

\* The app is launched with no daemon of its own.
LEMMA RelaunchKeeps ==
  ASSUME SupervisorInv, ConfiguringInv, Relaunch
  PROVE  SupervisorInv' /\ ConfiguringInv' /\ boot' = Nothing
<1>1. SupervisorTypeOK'
  <2>1. autolaunch' \in BOOLEAN
    BY Zenon DEF Relaunch
  <2> QED
    BY <2>1 DEF SupervisorInv, SupervisorTypeOK, Relaunch
<1>2. DaemonInv' /\ boot' = Nothing
  <2>1. daemons' = 0 /\ process' = Nothing /\ holder' = Nothing /\ boot' = Nothing
    BY DEF Relaunch
  <2>2. process' # "alive"
    BY <2>1, NothingAssumption
  <2> QED
    BY <2>1, <2>2 DEF DaemonInv
<1>3. BudgetInv'
  BY BudgetBegins DEF SupervisorInv, SupervisorTypeOK, BudgetInv, Relaunch
<1>4. ConfiguringTypeOK'
  <2>1. UNCHANGED <<vault, configures, saved>> /\ pending' \in Maybe(Configurations)
    BY DEF Relaunch, Maybe
  <2>2. faults' \in 0..MaxFaults
    BY BoundsAssumption DEF ConfiguringInv, ConfiguringTypeOK, Relaunch
  <2>3. torn' \in BOOLEAN
    BY DEF Relaunch
  <2> QED
    BY <2>1, <2>2, <2>3 DEF ConfiguringInv, ConfiguringTypeOK
<1>5. WritingInv'
  <2>1. left' = <<>> /\ pending' = Nothing
    BY DEF Relaunch
  <2> QED
    BY <2>1 DEF WritingInv
<1>6. VaultInv'
  BY DEF ConfiguringInv, VaultInv, Relaunch
<1> QED
  BY <1>1, <1>2, <1>3, <1>4, <1>5, <1>6 DEF SupervisorInv, ConfiguringInv

----------------------------------------------------------------------------
(* The configuration.                                                      *)

\* What is prepared is of one device, and keeps a wrapping key that could be read.
LEMMA PrepareKeeps ==
  ASSUME ConfiguringInv, pending = Nothing, left = <<>>,
         NEW entered \in SUBSET Fields, NEW readable \in BOOLEAN, Prepare(entered, readable)
  PROVE  /\ ConfiguringInv' /\ UNCHANGED vault
         /\ left' = <<>> => pending' = Nothing
<1> DEFINE existing == Existing(readable)  n == configures + 1
           config == Prepared(existing, entered, readable, n)
           valid == IF existing = Nothing THEN entered = Fields ELSE Restorable(existing, entered)
<1>1. /\ n \in Numbers /\ configures' = n /\ UNCHANGED <<vault, torn, saved>>
      /\ faults' \in 0..MaxFaults
  BY BoundsAssumption DEF ConfiguringInv, ConfiguringTypeOK, Prepare, Numbers
<1>2. \/ valid /\ pending' = config /\ left' = Entries
      \/ UNCHANGED <<pending, left>>
  BY DEF Prepare
<1>3. existing \in Maybe(Configs) /\ (readable /\ vault.wrapping # Nothing => existing # Nothing)
  BY DEF Existing, ConfiguringInv, ConfiguringTypeOK, VaultInv, Maybe
<1>4. CASE UNCHANGED <<pending, left>>
  <2>1. ConfiguringTypeOK'
    BY <1>1, <1>4 DEF ConfiguringInv, ConfiguringTypeOK
  <2>2. WritingInv'
    BY <1>1, <1>4 DEF ConfiguringInv, WritingInv
  <2>3. VaultInv'
    BY <1>1, <1>4 DEF ConfiguringInv, VaultInv
  <2> QED
    BY <1>1, <1>4, <2>1, <2>2, <2>3 DEF ConfiguringInv
<1>5. CASE valid /\ pending' = config /\ left' = Entries
  <2>1. /\ existing = Nothing \/ existing \in Configs
        /\ existing # Nothing => existing.id \in Numbers /\ existing.key \in Numbers
    BY <1>3 DEF Maybe, Configs
  <2>2. /\ vault.signing \in Maybe(Numbers) /\ vault.storage \in Maybe(Numbers)
        /\ vault.wrapping \in Maybe(Numbers)
    BY DEF ConfiguringInv, ConfiguringTypeOK
  <2>3. existing # Nothing =>
          /\ vault.signing = existing.id /\ vault.wrapping # Nothing
          /\ "storage" \in entered \/ vault.storage # Nothing
    BY <1>5 DEF Restorable
  <2>4. existing = Nothing => entered = Fields /\ "key" \in entered /\ "storage" \in entered
    BY <1>5 DEF Fields
  <2>5. /\ config.id = IF existing = Nothing THEN n ELSE existing.id
        /\ config.key = IF "key" \in entered THEN n ELSE existing.key
        /\ config.signing = IF existing = Nothing THEN n ELSE vault.signing
        /\ config.storage = IF "storage" \in entered THEN n ELSE vault.storage
        /\ config.wrapping = IF existing = Nothing THEN n ELSE vault.wrapping
        /\ config.entered = entered /\ config.unread = ~readable
    BY DEF Prepared, Secret
  <2>6. config \in Configurations
    BY <1>1, <2>1, <2>2, <2>3, <2>4 DEF Prepared, Secret, Configurations, Maybe
  <2> HIDE DEF config, valid, n
  <2>7. config # Nothing
    BY <2>6, NothingAssumption
  <2>8. ConfiguringTypeOK'
    BY <1>1, <1>5, <2>6 DEF ConfiguringInv, ConfiguringTypeOK, Maybe
  <2>9. WritingInv'
    <3>1. left' \in Seq(Secrets \cup {"marketplace"}) /\ Len(left') = 5 /\ left' # <<>>
      BY <1>5 DEF Entries, Secrets
    <3> QED
      BY <1>5, <2>7, <3>1 DEF WritingInv
  <2>10. config.signing = config.id
    BY <2>3, <2>5
  <2>11. existing # Nothing => vault.config = existing
    BY DEF Existing
  <2>12. SavesPending'
    <3>1. /\ Saving'["key"] = IF "key" \in entered THEN n ELSE saved["key"]
          /\ Saving'["storage"] = IF "storage" \in entered THEN n ELSE saved["storage"]
      BY <1>1, <1>5, <2>5 DEF Saving, Fields
    <3>2. CASE entered = Fields
      <4>1. "key" \in entered /\ "storage" \in entered
        BY <3>2 DEF Fields
      <4> QED
        BY <1>5, <2>5, <3>1, <4>1 DEF SavesPending
    <3>3. CASE ~torn /\ entered # Fields
      <4>1. vault.config = existing /\ vault.config # Nothing
        BY <2>4, <2>11, <3>3
      <4>2. existing.key = saved["key"] /\ vault.storage = saved["storage"]
        BY <3>3, <4>1 DEF ConfiguringInv, VaultInv
      <4> QED
        BY <1>5, <2>5, <3>1, <4>2 DEF SavesPending
    <3>4. CASE torn /\ entered # Fields
      BY <1>1, <1>5, <2>5, <3>4 DEF SavesPending
    <3> QED
      BY <3>2, <3>3, <3>4
  <2>13. ~config.unread /\ vault.wrapping # Nothing => config.wrapping = vault.wrapping
    BY <1>3, <2>5
  <2>14. VaultInv'
    BY <1>1, <1>5, <2>10, <2>12, <2>13 DEF ConfiguringInv, VaultInv, Entries
  <2>15. left' # <<>>
    BY <1>5 DEF Entries
  <2> QED
    BY <1>1, <2>8, <2>9, <2>14, <2>15 DEF ConfiguringInv
<1> QED
  BY <1>2, <1>4, <1>5

\* What a configuration has written stays written, until it is complete.
LEMMA WriteEntryKeeps ==
  ASSUME ConfiguringInv, WriteEntry
  PROVE  ConfiguringInv'
<1>1. /\ pending # Nothing /\ pending \in Configurations /\ left # <<>>
      /\ left \in Seq(Secrets \cup {"marketplace"}) /\ torn \in BOOLEAN
  BY DEF ConfiguringInv, ConfiguringTypeOK, WritingInv, WriteEntry, Maybe
<1>2. CASE /\ vault' = Written(Head(left)) /\ left' = Tail(left)
           /\ torn' = (torn /\ (left' # <<>> \/ pending.entered # Fields))
           /\ saved' = IF left' = <<>> THEN Saving ELSE saved
           /\ UNCHANGED <<pending, faults, configures>>
  <2>1. /\ Len(left) \in 1..5 /\ Len(left') = Len(left) - 1
        /\ left' \in Seq(Secrets \cup {"marketplace"})
        /\ \A i \in 1..Len(left') : left'[i] = left[i + 1]
        /\ Head(left) = Entries[6 - Len(left)]
    <3>1. /\ Len(left) \in Nat /\ Len(left) # 0 /\ Head(left) = left[1]
          /\ left' \in Seq(Secrets \cup {"marketplace"}) /\ Len(left') = Len(left) - 1
          /\ \A i \in 1..Len(left') : left'[i] = left[i + 1]
      BY <1>1, <1>2, HeadTailProperties
    <3>2. Len(left) <= 5 /\ \A i \in 1..Len(left) : left[i] = Entries[5 - Len(left) + i]
      BY DEF ConfiguringInv, WritingInv
    <3>3. left[1] = Entries[5 - Len(left) + 1] /\ 5 - Len(left) + 1 = 6 - Len(left)
      BY <3>1, <3>2
    <3>4. Head(left) = Entries[6 - Len(left)]
      <4>1. Head(left) = left[1]
        BY <3>1
      <4> QED
        BY <3>3, <4>1, Zenon
    <3>5. Len(left) \in 1..5
      <4>1. /\ Len(left) \in Nat
            /\ Len(left) # 0
        BY <3>1, Zenon
      <4>2. Len(left) <= 5
        BY <3>2, Zenon
      <4>3. \A l \in Nat : l # 0 /\ l <= 5 => l \in 1..5
        OBVIOUS
      <4> QED
        BY <4>1, <4>2, <4>3, Zenon
    <3> QED
      BY <3>1, <3>4, <3>5
  <2>2. /\ vault' = [e \in Secrets |-> vault'[e]]
        /\ vault'.config = IF Len(left) = 5 THEN [id |-> pending.id, key |-> pending.key]
                                            ELSE vault.config
        /\ vault'.signing = IF Len(left) = 3 THEN pending.signing ELSE vault.signing
        /\ vault'.storage = IF Len(left) = 2 THEN pending.storage ELSE vault.storage
        /\ vault'.wrapping = IF Len(left) = 1 THEN pending.wrapping ELSE vault.wrapping
    <3>1. vault = [e \in Secrets |-> vault[e]]
      BY DEF ConfiguringInv, ConfiguringTypeOK
    <3>2. CASE Len(left) = 5
      <4>1. Head(left) = "config"
        BY <2>1, <3>2 DEF Entries
      <4> QED
        BY <1>2, <3>1, <3>2, <4>1, SMTT(30) DEF Written, Secrets
    <3>3. CASE Len(left) = 4
      <4>1. Head(left) = "marketplace"
        BY <2>1, <3>3 DEF Entries
      <4> QED
        BY <1>2, <3>1, <3>3, <4>1, SMTT(30) DEF Written, Secrets
    <3>4. CASE Len(left) = 3
      <4>1. Head(left) = "signing"
        BY <2>1, <3>4 DEF Entries
      <4> QED
        BY <1>2, <3>1, <3>4, <4>1, SMTT(60) DEF Written, Secrets
    <3>5. CASE Len(left) = 2
      <4>1. Head(left) = "storage"
        BY <2>1, <3>5 DEF Entries
      <4> QED
        BY <1>2, <3>1, <3>5, <4>1, SMTT(30) DEF Written, Secrets
    <3>6. CASE Len(left) = 1
      <4>1. Head(left) = "wrapping"
        BY <2>1, <3>6 DEF Entries
      <4> QED
        BY <1>2, <3>1, <3>6, <4>1, SMTT(30) DEF Written, Secrets
    <3>7. Len(left) = 5 \/ Len(left) = 4 \/ Len(left) = 3 \/ Len(left) = 2 \/ Len(left) = 1
      BY <2>1
    <3> QED
      BY <3>2, <3>3, <3>4, <3>5, <3>6, <3>7
  <2>3. /\ pending.id \in Numbers /\ pending.key \in Numbers /\ pending.signing \in Numbers
        /\ pending.storage \in Numbers /\ pending.wrapping \in Numbers
        /\ [id |-> pending.id, key |-> pending.key] \in Configs
    BY <1>1 DEF Configurations, Configs
  <2>4. [id |-> pending.id, key |-> pending.key] # Nothing
    BY <2>3, NothingAssumption
  <2>15. Saving \in [Fields -> Numbers]
    BY DEF ConfiguringInv, ConfiguringTypeOK, Saving
  <2>5. ConfiguringTypeOK'
    <3>1. saved' \in [Fields -> Numbers]
      BY <1>2, <2>15 DEF ConfiguringInv, ConfiguringTypeOK
    <3> QED
      BY <1>1, <1>2, <2>2, <2>3, <3>1 DEF ConfiguringInv, ConfiguringTypeOK, Maybe
  <2>8. /\ Len(left) <= 4 => vault.config = [id |-> pending.id, key |-> pending.key]
        /\ Len(left) <= 2 => vault.signing = pending.signing
        /\ Len(left) <= 1 => vault.storage = pending.storage
    BY <1>1 DEF ConfiguringInv, WritingInv
  <2>6. WritingInv'
    <3>1. ASSUME NEW i \in 1..Len(left')
          PROVE  left'[i] = Entries[5 - Len(left') + i]
      <4>1. i + 1 \in 1..Len(left) /\ 5 - Len(left') + i = 5 - Len(left) + (i + 1)
        BY <2>1
      <4>2. left'[i] = left[i + 1] /\ left[i + 1] = Entries[5 - Len(left) + (i + 1)]
        BY <2>1, <4>1 DEF ConfiguringInv, WritingInv
      <4> QED
        BY <4>1, <4>2
    <3>2. /\ Len(left') <= 4 => vault'.config = [id |-> pending.id, key |-> pending.key]
          /\ Len(left') <= 2 => vault'.signing = pending.signing
          /\ Len(left') <= 1 => vault'.storage = pending.storage
          /\ Len(left') = 0 => vault'.wrapping = pending.wrapping
      BY <2>1, <2>2, <2>8, SMTT(30)
    <3>3. Len(left') <= 5
      BY <2>1
    <3> QED
      BY <1>1, <1>2, <2>1, <3>1, <3>2, <3>3 DEF WritingInv
  <2>7. left' = <<>> => Len(left) = 1
    BY <2>1
  <2>9. /\ pending.signing = pending.id
        /\ SavesPending
        /\ ~pending.unread /\ vault.wrapping # Nothing => pending.wrapping = vault.wrapping
        /\ vault.wrapping # Nothing => vault.config # Nothing
    BY <1>1 DEF ConfiguringInv, VaultInv
  <2>10. ~torn' => ~torn \/ (left' = <<>> /\ pending.entered = Fields)
    BY <1>2
  <2>11. vault'.wrapping # Nothing => vault'.config # Nothing
    BY <2>1, <2>2, <2>4, <2>8, <2>9
  <2>12. ASSUME ~torn', left' = <<>>
         PROVE  /\ vault'.signing = vault'.config.id
                /\ vault'.config.key = saved'["key"] /\ vault'.storage = saved'["storage"]
    <3>1. /\ vault'.config = [id |-> pending.id, key |-> pending.key]
          /\ vault'.signing = pending.signing /\ vault'.storage = pending.storage
      <4>1. Len(left) = 1
        BY <2>7, <2>12
      <4> QED
        BY <2>2, <2>8, <4>1
    <3>2. /\ pending.signing = pending.id
          /\ pending.key = Saving["key"] /\ pending.storage = Saving["storage"]
      BY <2>9, <2>10, <2>12 DEF SavesPending
    <3>3. saved' = Saving
      BY <1>2, <2>12
    <3> QED
      BY <3>1, <3>2, <3>3
  <2>13. ~pending.unread /\ vault'.wrapping # Nothing => pending.wrapping = vault'.wrapping
    BY <2>2, <2>9
  <2>16. SavesPending'
    <3>1. \A f \in Fields : Saving'[f] = Saving[f]
      BY <1>2 DEF Saving
    <3>2. "key" \in Fields /\ "storage" \in Fields
      BY DEF Fields
    <3>3. pending'.entered = Fields \/ ~torn' => pending.entered = Fields \/ ~torn
      BY <1>2, <2>10
    <3> QED
      BY <1>2, <2>9, <3>1, <3>2, <3>3 DEF SavesPending
  <2>14. VaultInv'
    BY <1>2, <2>9, <2>11, <2>12, <2>13, <2>16 DEF VaultInv
  <2> QED
    BY <2>5, <2>6, <2>14 DEF ConfiguringInv
<1>3. CASE /\ faults < MaxFaults /\ faults' = faults + 1
           /\ torn' = TRUE /\ pending' = Nothing /\ left' = <<>>
           /\ UNCHANGED <<vault, configures, saved>>
  <2>1. ConfiguringTypeOK'
    BY <1>3, BoundsAssumption DEF ConfiguringInv, ConfiguringTypeOK, Maybe
  <2>2. WritingInv'
    BY <1>3 DEF WritingInv
  <2>3. VaultInv'
    BY <1>3 DEF ConfiguringInv, VaultInv
  <2> QED
    BY <2>1, <2>2, <2>3 DEF ConfiguringInv
<1> QED
  BY <1>2, <1>3 DEF WriteEntry

----------------------------------------------------------------------------
(* The window with the shell.                                              *)

\* A daemon that is spawned now is given the vault as it is.
LEMMA FreshBootIsWhole ==
  ASSUME ConfiguringInv, BootIsWhole, UNCHANGED vault,
         \/ boot' = boot \/ boot' = Nothing
         \/ Bootable /\ boot' = [given |-> vault, amid |-> torn \/ left # <<>>, saved |-> saved]
  PROVE  BootIsWhole'
<1>1. CASE Bootable /\ boot' = [given |-> vault, amid |-> torn \/ left # <<>>, saved |-> saved]
  <2>1. boot'.given = vault /\ boot'.amid = (torn \/ left # <<>>) /\ boot'.saved = saved
    BY <1>1
  <2>2. vault.config # Nothing
    BY <1>1 DEF Bootable, Secrets, ConfiguringInv, ConfiguringTypeOK
  <2>3. ~torn /\ left = <<>> =>
          /\ vault.signing = vault.config.id
          /\ vault.config.key = saved["key"] /\ vault.storage = saved["storage"]
    BY <2>2 DEF ConfiguringInv, VaultInv
  <2> QED
    BY <2>1, <2>3 DEF BootIsWhole
<1> QED
  BY <1>1 DEF BootIsWhole

\* The launch of the app on any vault an earlier one may have left.
LEMMA InitHolds == Init => DesktopInv
<1> SUFFICES ASSUME Init PROVE DesktopInv
  OBVIOUS
<1>1. SupervisorTypeOK
  <2>1. autolaunch \in BOOLEAN
    BY Zenon DEF Init, ShellInit
  <2> QED
    BY <2>1, BoundsAssumption DEF Init, ShellInit, SupervisorTypeOK
<1>2. DaemonInv
  BY NothingAssumption DEF Init, ShellInit, DaemonInv
<1>3. BudgetInv
  BY BudgetBegins, BoundsAssumption DEF Init, ShellInit, BudgetInv
<1>4. ConfiguringTypeOK /\ VaultInv
  <2>1. /\ configures \in Numbers /\ faults \in 0..MaxFaults /\ torn \in BOOLEAN
        /\ pending = Nothing /\ left = <<>> /\ 1 \in Numbers
        /\ saved \in [Fields -> Numbers] /\ saved["key"] = 1 /\ saved["storage"] = 1
    <3>1. 0 \in 0..MaxFaults /\ 1 \in Numbers
      BY BoundsAssumption DEF Numbers
    <3>2. configures = 1 /\ faults = 0 /\ torn = FALSE /\ pending = Nothing /\ left = <<>>
          /\ saved = [f \in Fields |-> 1]
      BY DEF Init, ShellInit
    <3> QED
      BY <3>1, <3>2 DEF Fields
  <2>2. CASE vault = [e \in Secrets |-> Nothing]
    BY <2>1, <2>2 DEF ConfiguringTypeOK, VaultInv, Secrets, Maybe
  <2>3. CASE vault = [e \in Secrets |-> IF e = "config" THEN [id |-> 1, key |-> 1] ELSE 1]
    <3>1. [id |-> 1, key |-> 1] \in Configs /\ [id |-> 1, key |-> 1] # Nothing
      BY <2>1, NothingAssumption DEF Configs
    <3>2. /\ vault.config = [id |-> 1, key |-> 1] /\ vault.signing = 1 /\ vault.storage = 1
          /\ vault.wrapping = 1 /\ vault = [e \in Secrets |-> vault[e]]
      BY <2>3 DEF Secrets
    <3> QED
      BY <2>1, <3>1, <3>2 DEF ConfiguringTypeOK, VaultInv, Maybe
  <2> QED
    BY <2>2, <2>3 DEF Init, ShellInit
<1>5. WritingInv
  BY DEF Init, ShellInit, WritingInv
<1>6. BootIsWhole /\ WindowTypeOK /\ TraceInv
  BY DEF Init, ShellInit, WindowInit, BootIsWhole, WindowTypeOK, TraceInv, Maybe
<1>7. ApplyInv
  BY OperationsAssumption DEF Init, ShellInit, WindowInit, ApplyInv, Operations
<1> QED
  BY <1>1, <1>2, <1>3, <1>4, <1>5, <1>6, <1>7 DEF DesktopInv, SupervisorInv, ConfiguringInv

\* The steps of the native half beside the window.
LEMMA ShellKeeps ==
  ASSUME DesktopInv, Shell
  PROVE  DesktopInv'
<1>1. /\ SupervisorInv /\ ConfiguringInv /\ BootIsWhole /\ WindowTypeOK /\ TraceInv /\ ApplyInv
      /\ UNCHANGED window
  BY DEF DesktopInv, Shell
<1>2. WindowTypeOK' /\ TraceInv'
  BY <1>1 DEF WindowTypeOK, TraceInv, window, trace
<1>3. CASE Ready \/ Crash \/ Tick
  <2>1. /\ SupervisorInv' /\ UNCHANGED <<autolaunch, configuring>>
        /\ boot' = boot \/ boot' = Nothing
        /\ process = "alive" \/ holder # Nothing \/ UNCHANGED supervisor
    BY <1>1, <1>3, SupervisorSteps
  <2>2. ConfiguringInv' /\ UNCHANGED <<vault, pending, left>>
    BY <1>1, <2>1, ConfiguringStutters DEF configuring
  <2>3. BootIsWhole'
    BY <1>1, <2>1, <2>2, FreshBootIsWhole
  <2>4. ApplyInv'
    BY <1>1, <2>1, <2>2, NothingAssumption DEF ApplyInv, window, supervisor
  <2> QED
    BY <1>2, <2>1, <2>2, <2>3, <2>4 DEF DesktopInv
<1>4. CASE Autolaunch
  <2>1. /\ autolaunch /\ autolaunch' = FALSE /\ DaemonStart("autolaunch") /\ UNCHANGED now
        /\ UNCHANGED configuring
    BY <1>4 DEF Autolaunch
  <2>2. /\ SupervisorInv'
        /\ \/ boot' = boot
           \/ Bootable /\ boot' = [given |-> vault, amid |-> torn \/ left # <<>>, saved |-> saved]
    BY <1>1, <2>1, DaemonStartKeeps
  <2>3. ConfiguringInv' /\ UNCHANGED <<vault, pending, left>>
    BY <1>1, <2>1, ConfiguringStutters DEF configuring
  <2>4. BootIsWhole'
    BY <1>1, <2>2, <2>3, FreshBootIsWhole
  <2>5. ApplyInv'
    BY <1>1, <2>1, <2>2, <2>3 DEF ApplyInv, window
  <2> QED
    BY <1>2, <2>2, <2>3, <2>4, <2>5 DEF DesktopInv
<1>5. CASE WriteEntry
  <2>1. SupervisorInv' /\ UNCHANGED <<supervisor, autolaunch>>
    BY <1>1, <1>5, SupervisorStutters DEF WriteEntry
  <2>2. ConfiguringInv'
    BY <1>1, <1>5, WriteEntryKeeps
  <2>3. BootIsWhole'
    BY <1>1, <2>1 DEF BootIsWhole, supervisor
  <2>4. busy = "configure" /\ busy' = busy
    BY <1>1, <1>5 DEF ApplyInv, WriteEntry, window
  <2>5. ApplyInv'
    BY <1>1, <2>1, <2>4 DEF ApplyInv, window, supervisor
  <2> QED
    BY <1>2, <2>1, <2>2, <2>3, <2>5 DEF DesktopInv
<1> QED
  BY <1>3, <1>4, <1>5 DEF Shell

\* What the window believes after an answer is a Boolean, and the trace it keeps
\* was kept before.
LEMMA AnsweredKeeps ==
  ASSUME NEW a, Answered(a), WindowTypeOK, TraceInv, UNCHANGED visible
  PROVE  /\ {status', current', revealed', withdrawn'} \subseteq BOOLEAN
         /\ TraceInv'
<1>1. PICK b : Believe(b)
  BY DEF Answered
<1>2. status' \in BOOLEAN
  BY <1>1, Zenon DEF Believe
<1>3. \/ current' = FALSE /\ revealed' = FALSE /\ withdrawn' = TRUE
      \/ UNCHANGED <<current, revealed, withdrawn>>
  BY <1>1 DEF Believe, Withdraw, ClearRevealedTrace, trace
<1>4. {current', revealed', withdrawn'} \subseteq BOOLEAN
  BY <1>3 DEF WindowTypeOK
<1> QED
  BY <1>2, <1>3, <1>4 DEF TraceInv

\* A step of the window alone: an operation it begins or ends is none that writes
\* or starts anything.
LEMMA WindowAlone ==
  ASSUME DesktopInv, UNCHANGED <<shellVars, wasRunning, unseen>>, WindowTypeOK', TraceInv',
         busy' = busy \/ (busy # "configure" /\ busy' \notin {"configure", "apply"})
  PROVE  DesktopInv'
<1>1. /\ SupervisorInv /\ ConfiguringInv /\ BootIsWhole /\ ApplyInv
      /\ UNCHANGED <<now, supervisor, autolaunch>> /\ UNCHANGED configuring
  BY DEF DesktopInv, shellVars
<1>2. SupervisorInv' /\ ConfiguringInv'
  BY <1>1, SupervisorStutters, ConfiguringStutters
<1>3. UNCHANGED <<process, holder, boot, autolaunch, vault, pending, left>>
  BY <1>1 DEF supervisor, configuring
<1>4. BootIsWhole' /\ ApplyInv'
  BY <1>1, <1>3 DEF BootIsWhole, ApplyInv
<1> QED
  BY <1>2, <1>4 DEF DesktopInv

\* The steps of the window that call no command but a read of a trace.
LEMMA WindowKeeps ==
  ASSUME DesktopInv,
         \/ Ask \/ \E a \in answers : Refresh(a)
         \/ InspectTrace \/ TraceRead \/ HandleVisibilityChange \/ ClosePlaintext
         \/ Operate \/ Operated \/ StartSaved
  PROVE  DesktopInv'
<1>1. WindowTypeOK /\ TraceInv
  BY DEF DesktopInv
<1>2. Nothing \notin Operations
  BY OperationsAssumption
<1>3. CASE Ask
  BY <1>1, <1>3, WindowAlone DEF Ask, WindowTypeOK, TraceInv, trace
<1>4. CASE \E a \in answers : Refresh(a)
  <2>1. PICK a \in answers : Refresh(a)
    BY <1>4
  <2>2. Answered(a) /\ UNCHANGED <<shellVars, visible, busy, wasRunning, unseen>>
    BY <2>1 DEF Refresh
  <2>3. TraceInv' /\ WindowTypeOK'
    BY <1>1, <2>2, AnsweredKeeps DEF WindowTypeOK
  <2> QED
    BY <2>2, <2>3, WindowAlone
<1>5. CASE InspectTrace
  <2>1. /\ Idle /\ busy' = "read" /\ current' = TRUE /\ revealed' = FALSE /\ withdrawn' = FALSE
        /\ UNCHANGED <<shellVars, status, visible, wasRunning, unseen>>
    BY <1>5 DEF InspectTrace
  <2>2. TraceInv' /\ WindowTypeOK'
    BY <1>1, <2>1 DEF TraceInv, WindowTypeOK, Idle, Maybe, Operations
  <2>3. busy # "configure" /\ busy' \notin {"configure", "apply"}
    BY <1>2, <2>1 DEF Idle, Operations
  <2> QED
    BY <2>1, <2>2, <2>3, WindowAlone
<1>6. CASE TraceRead
  <2>1. /\ busy = "read" /\ busy' = Nothing
        /\ revealed' = (revealed \/ Wanted) \/ UNCHANGED revealed
        /\ UNCHANGED <<shellVars, status, visible, current, withdrawn, wasRunning, unseen>>
    BY <1>6 DEF TraceRead
  <2>2. revealed' \in BOOLEAN
    BY <1>1, <2>1, Zenon DEF WindowTypeOK
  <2>3. revealed' => revealed \/ current
    BY <2>1 DEF Wanted
  <2>4. TraceInv' /\ WindowTypeOK'
    BY <1>1, <2>1, <2>2, <2>3 DEF TraceInv, WindowTypeOK, Maybe
  <2>5. busy # "configure" /\ busy' \notin {"configure", "apply"}
    BY <1>2, <2>1 DEF Operations
  <2> QED
    BY <2>1, <2>4, <2>5, WindowAlone
<1>7. CASE HandleVisibilityChange
  <2>1. /\ visible' = ~visible
        /\ IF visible THEN current' = FALSE /\ revealed' = FALSE /\ withdrawn' = TRUE
           ELSE UNCHANGED <<current, revealed, withdrawn>>
        /\ UNCHANGED <<shellVars, status, busy, wasRunning, unseen>>
    BY <1>7 DEF HandleVisibilityChange, Withdraw, ClearRevealedTrace, trace
  <2>2. visible' \in BOOLEAN
    BY <2>1, Zenon
  <2>3. TraceInv' /\ WindowTypeOK'
    BY <1>1, <2>1, <2>2 DEF TraceInv, WindowTypeOK
  <2> QED
    BY <2>1, <2>3, WindowAlone
<1>8. CASE ClosePlaintext
  <2>1. /\ current' = FALSE /\ revealed' = FALSE /\ withdrawn' = TRUE
        /\ UNCHANGED <<shellVars, status, visible, busy, wasRunning, unseen>>
    BY <1>8 DEF ClosePlaintext, Withdraw, ClearRevealedTrace
  <2>2. TraceInv' /\ WindowTypeOK'
    BY <1>1, <2>1 DEF TraceInv, WindowTypeOK
  <2> QED
    BY <2>1, <2>2, WindowAlone
<1>9. CASE Operate
  <2>1. /\ Idle /\ busy' = "other"
        /\ \/ current' = FALSE /\ revealed' = FALSE /\ withdrawn' = TRUE
           \/ UNCHANGED <<current, revealed, withdrawn>>
        /\ UNCHANGED <<shellVars, status, visible, wasRunning, unseen>>
    BY <1>9 DEF Operate, Withdraw, ClearRevealedTrace, trace
  <2>2. TraceInv'
    BY <1>1, <2>1 DEF TraceInv
  <2>3. WindowTypeOK'
    BY <1>1, <2>1 DEF WindowTypeOK, Maybe, Operations
  <2>4. busy # "configure" /\ busy' \notin {"configure", "apply"}
    BY <1>2, <2>1 DEF Idle, Operations
  <2> QED
    BY <2>1, <2>2, <2>3, <2>4, WindowAlone
<1>10. CASE Operated
  <2>1. /\ busy = "other" /\ busy' = Nothing
        /\ Answered(Health) \/ UNCHANGED <<status, current, revealed, withdrawn>>
        /\ UNCHANGED <<shellVars, visible, wasRunning, unseen>>
    BY <1>10 DEF Operated, trace
  <2>2. {status', current', revealed', withdrawn'} \subseteq BOOLEAN /\ TraceInv'
    <3>1. CASE Answered(Health)
      BY <1>1, <2>1, <3>1, AnsweredKeeps
    <3>2. CASE UNCHANGED <<status, current, revealed, withdrawn>>
      BY <1>1, <2>1, <3>2 DEF WindowTypeOK, TraceInv
    <3> QED
      BY <2>1, <3>1, <3>2
  <2>3. WindowTypeOK'
    BY <1>1, <2>1, <2>2 DEF WindowTypeOK, Maybe
  <2>4. busy # "configure" /\ busy' \notin {"configure", "apply"}
    BY <1>2, <2>1 DEF Operations
  <2> QED
    BY <2>1, <2>2, <2>3, <2>4, WindowAlone
<1>11. CASE StartSaved
  <2>1. /\ Idle /\ busy' = "start"
        /\ current' = FALSE /\ revealed' = FALSE /\ withdrawn' = TRUE
        /\ UNCHANGED <<shellVars, status, visible, wasRunning, unseen>>
    BY <1>11 DEF StartSaved, Clears, Withdraw, ClearRevealedTrace
  <2>2. TraceInv' /\ WindowTypeOK'
    BY <1>1, <2>1 DEF TraceInv, WindowTypeOK, Maybe, Operations
  <2>3. busy # "configure" /\ busy' \notin {"configure", "apply"}
    BY <1>2, <2>1 DEF Idle, Operations
  <2> QED
    BY <2>1, <2>2, <2>3, WindowAlone
<1> QED
  BY <1>3, <1>4, <1>5, <1>6, <1>7, <1>8, <1>9, <1>10, <1>11

\* The button that stops the daemon.
LEMMA StopKeeps ==
  ASSUME DesktopInv, Stop
  PROVE  DesktopInv'
<1>1. /\ SupervisorInv /\ ConfiguringInv /\ WindowTypeOK /\ ApplyInv
  BY DEF DesktopInv
<1>2. /\ Idle /\ DaemonStop /\ busy' = "other"
      /\ current' = FALSE /\ revealed' = FALSE /\ withdrawn' = TRUE
      /\ UNCHANGED <<now, autolaunch, configuring, status, visible, wasRunning, unseen>>
  BY DEF Stop, Withdraw, ClearRevealedTrace
<1>3. SupervisorInv' /\ boot' = Nothing
  BY <1>1, <1>2, DaemonStopKeeps
<1>4. ConfiguringInv' /\ UNCHANGED <<pending, left>>
  BY <1>1, <1>2, ConfiguringStutters DEF configuring
<1>5. BootIsWhole' /\ TraceInv' /\ WindowTypeOK'
  BY <1>1, <1>2, <1>3 DEF BootIsWhole, TraceInv, WindowTypeOK, Maybe, Operations
<1>6. ApplyInv'
  BY <1>1, <1>2, <1>4, OperationsAssumption DEF ApplyInv, Idle, Operations
<1> QED
  BY <1>3, <1>4, <1>5, <1>6 DEF DesktopInv

\* The form is submitted: configure_device, up to its first entry.
LEMMA ConfigureKeeps ==
  ASSUME DesktopInv, Configure
  PROVE  DesktopInv'
<1>1. /\ SupervisorInv /\ ConfiguringInv /\ BootIsWhole /\ WindowTypeOK /\ ApplyInv
  BY DEF DesktopInv
<1>2. /\ Idle
      /\ current' = FALSE /\ revealed' = FALSE /\ withdrawn' = TRUE
      /\ UNCHANGED <<now, supervisor, autolaunch, status, visible>>
  BY DEF Configure, Clears, Withdraw, ClearRevealedTrace
<1>3. pending = Nothing /\ left = <<>> /\ busy = Nothing
  BY <1>1, <1>2, OperationsAssumption DEF ApplyInv, Idle, Operations
<1>4. PICK entered \in SUBSET Fields, readable \in BOOLEAN : Prepare(entered, readable)
  BY DEF Configure
<1>5. ConfiguringInv' /\ UNCHANGED vault /\ (left' = <<>> => pending' = Nothing)
  BY <1>1, <1>3, <1>4, PrepareKeeps
<1>6. SupervisorInv' /\ UNCHANGED <<process, holder, boot>>
  BY <1>1, <1>2, SupervisorStutters DEF supervisor
<1>7. BootIsWhole' /\ TraceInv'
  BY <1>1, <1>2, <1>6 DEF BootIsWhole, TraceInv
<1>8. CASE left' = <<>> /\ UNCHANGED <<busy, wasRunning, unseen>>
  <2>1. WindowTypeOK' /\ ApplyInv'
    BY <1>1, <1>2, <1>3, <1>5, <1>8, OperationsAssumption
    DEF WindowTypeOK, ApplyInv, Operations
  <2> QED
    BY <1>5, <1>6, <1>7, <2>1 DEF DesktopInv
<1>9. CASE /\ left' # <<>> /\ busy' = "configure" /\ wasRunning' = status
           /\ unseen' = (~status /\ (process = "alive" \/ holder # Nothing \/ autolaunch))
  <2>1. unseen' \in BOOLEAN
    BY <1>9, Zenon
  <2>2. WindowTypeOK'
    BY <1>1, <1>2, <1>9, <2>1 DEF WindowTypeOK, Maybe, Operations
  <2>3. ~wasRunning' /\ ~unseen' => process # "alive" /\ holder = Nothing /\ ~autolaunch
    BY <1>9
  <2>4. ApplyInv'
    BY <1>2, <1>6, <1>9, <2>3 DEF ApplyInv
  <2> QED
    BY <1>5, <1>6, <1>7, <2>2, <2>4 DEF DesktopInv
<1> QED
  BY <1>8, <1>9 DEF Configure

\* configure_device has answered, and the window stops and starts the daemon.
LEMMA ConfiguredKeeps ==
  ASSUME DesktopInv, Configured
  PROVE  DesktopInv'
<1>1. /\ SupervisorInv /\ ConfiguringInv /\ BootIsWhole /\ WindowTypeOK /\ TraceInv /\ ApplyInv
  BY DEF DesktopInv
<1>2. /\ busy = "configure" /\ left = <<>> /\ pending' = Nothing
      /\ UNCHANGED <<now, autolaunch, vault, left, configures, faults, torn, saved,
                     status, visible>>
  BY DEF Configured
<1>3. ConfiguringInv'
  BY <1>1, <1>2 DEF ConfiguringInv, ConfiguringTypeOK, WritingInv, VaultInv, Maybe
<1>4. CASE /\ busy' = Nothing /\ wasRunning' = FALSE /\ unseen' = FALSE
           /\ UNCHANGED <<supervisor, trace>>
  <2>1. SupervisorInv' /\ UNCHANGED boot
    BY <1>1, <1>2, <1>4, SupervisorStutters DEF supervisor
  <2>2. BootIsWhole' /\ TraceInv' /\ WindowTypeOK'
    BY <1>1, <1>2, <1>4, <2>1 DEF BootIsWhole, TraceInv, WindowTypeOK, Maybe, trace
  <2>3. ApplyInv'
    BY <1>2, <1>4, OperationsAssumption DEF ApplyInv, Operations
  <2> QED
    BY <1>3, <2>1, <2>2, <2>3 DEF DesktopInv
<1>5. CASE busy' = "apply" /\ Clears /\ Restarts /\ UNCHANGED <<wasRunning, unseen>>
  <2>1. busy' = "apply" /\ pending' = Nothing /\ left' = <<>> /\ UNCHANGED <<unseen, vault>>
    BY <1>2, <1>5
  <2>2. ASSUME wasRunning
        PROVE  SupervisorInv' /\ BootIsWhole' /\ ApplyInv'
    <3>1. SupervisorInv' /\ boot' = Nothing
      BY <1>1, <1>2, <1>5, <2>2, DaemonStopKeeps DEF Restarts
    <3>2. BootIsWhole'
      BY <3>1 DEF BootIsWhole
    <3>3. ApplyInv'
      BY <2>1, <3>1 DEF ApplyInv
    <3> QED
      BY <3>1, <3>2, <3>3
  <2>3. ASSUME ~wasRunning
        PROVE  SupervisorInv' /\ BootIsWhole' /\ ApplyInv'
    <3>1. SupervisorInv' /\ UNCHANGED boot
      BY <1>1, <1>2, <1>5, <2>3, SupervisorStutters DEF Restarts, supervisor
    <3>2. ~unseen => boot = Nothing
      BY <1>1, <1>2, <2>3 DEF ApplyInv, SupervisorInv, DaemonInv
    <3>3. BootIsWhole'
      BY <1>1, <3>1 DEF BootIsWhole
    <3>4. ApplyInv'
      BY <2>1, <3>1, <3>2 DEF ApplyInv
    <3> QED
      BY <3>1, <3>3, <3>4
  <2>4. SupervisorInv' /\ BootIsWhole' /\ ApplyInv'
    BY <2>2, <2>3
  <2>5. TraceInv' /\ WindowTypeOK'
    BY <1>1, <1>2, <1>5
    DEF TraceInv, WindowTypeOK, Maybe, Operations, Clears, Withdraw, ClearRevealedTrace
  <2> QED
    BY <1>3, <2>4, <2>5 DEF DesktopInv
<1> QED
  BY <1>4, <1>5 DEF Configured

\* The button that starts the daemon.
LEMMA StartKeeps ==
  ASSUME DesktopInv, Start \/ Started
  PROVE  DesktopInv'
<1>1. /\ SupervisorInv /\ ConfiguringInv /\ BootIsWhole /\ WindowTypeOK /\ TraceInv /\ ApplyInv
  BY DEF DesktopInv
<1>2. CASE Start
  <2>1. /\ busy \in {"start", "apply"} /\ DaemonStart("window")
        /\ UNCHANGED <<now, autolaunch, configuring, window>>
    BY <1>2 DEF Start
  <2>2. /\ SupervisorInv'
        /\ \/ boot' = boot
           \/ Bootable /\ boot' = [given |-> vault, amid |-> torn \/ left # <<>>, saved |-> saved]
    BY <1>1, <2>1, DaemonStartKeeps DEF SupervisorInv, SupervisorTypeOK
  <2>3. ConfiguringInv' /\ UNCHANGED <<vault, pending, left>>
    BY <1>1, <2>1, ConfiguringStutters DEF configuring
  <2>4. BootIsWhole'
    BY <1>1, <2>2, <2>3, FreshBootIsWhole
  <2>5. ApplyInv'
    BY <1>1, <2>1, <2>2, <2>3 DEF ApplyInv, window
  <2>6. WindowTypeOK' /\ TraceInv'
    BY <1>1, <2>1 DEF WindowTypeOK, TraceInv, window, trace
  <2> QED
    BY <2>2, <2>3, <2>4, <2>5, <2>6 DEF DesktopInv
<1>3. CASE Started
  <2>1. /\ busy \in {"start", "apply"} /\ busy' = Nothing
        /\ status' = IF reply = "running" THEN TRUE ELSE status
        /\ reply' = Nothing /\ wasRunning' = FALSE /\ unseen' = FALSE
        /\ UNCHANGED <<now, recentStarts, spawned, daemons, process, holder, boot, autolaunch,
                       configuring, visible, trace>>
    BY <1>3 DEF Started
  <2>2. SupervisorInv'
    BY <1>1, <2>1 DEF SupervisorInv, SupervisorTypeOK, DaemonInv, BudgetInv
  <2>3. ConfiguringInv' /\ UNCHANGED <<vault, pending, left>>
    BY <1>1, <2>1, ConfiguringStutters DEF configuring
  <2>4. BootIsWhole' /\ TraceInv' /\ WindowTypeOK'
    BY <1>1, <2>1 DEF BootIsWhole, TraceInv, WindowTypeOK, Maybe, trace
  <2>5. ApplyInv'
    BY <1>1, <2>1, <2>3, OperationsAssumption DEF ApplyInv, Operations
  <2> QED
    BY <2>2, <2>3, <2>4, <2>5 DEF DesktopInv
<1> QED
  BY <1>2, <1>3

\* The end of the app and its next launch.
LEMMA LaunchKeeps ==
  ASSUME DesktopInv, Launch
  PROVE  DesktopInv'
<1>1. SupervisorInv' /\ ConfiguringInv' /\ boot' = Nothing /\ pending' = Nothing /\ left' = <<>>
  BY RelaunchKeeps DEF DesktopInv, Launch, Relaunch
<1>2. BootIsWhole' /\ TraceInv' /\ WindowTypeOK'
  BY <1>1 DEF Launch, BootIsWhole, TraceInv, WindowTypeOK, Maybe
<1>3. ApplyInv'
  BY <1>1, OperationsAssumption DEF Launch, ApplyInv, Operations
<1> QED
  BY <1>1, <1>2, <1>3 DEF DesktopInv

----------------------------------------------------------------------------
(* The theorems.                                                           *)

\* Every step of the window, of the native half and of the app keeps the
\* invariant.
THEOREM DesktopInvariance == Spec => []DesktopInv
<1>1. Init => DesktopInv
  BY InitHolds
<1>2. DesktopInv /\ [Next]_vars => DesktopInv'
  <2> SUFFICES ASSUME DesktopInv, [Next]_vars PROVE DesktopInv'
    OBVIOUS
  <2>1. CASE UNCHANGED vars
    <3>1. UNCHANGED <<shellVars, wasRunning, unseen, busy>> /\ UNCHANGED window
      BY <2>1 DEF vars, window
    <3>2. WindowTypeOK' /\ TraceInv'
      BY <3>1 DEF DesktopInv, WindowTypeOK, TraceInv, window, trace
    <3> QED
      BY <3>1, <3>2, WindowAlone
  <2>2. CASE Next
    BY <2>2, ShellKeeps, LaunchKeeps, WindowKeeps, StopKeeps, ConfigureKeeps, ConfiguredKeeps,
       StartKeeps DEF Next
  <2> QED
    BY <2>1, <2>2
<1> QED
  BY <1>1, <1>2, PTL DEF Spec

\* daemon_start, daemon_stop and the thread of setup, whatever their order: one
\* launch never has two daemons, and never starts more than MaxStarts of them
\* within RestartWindow.
THEOREM OneDaemonOnBudget == Spec => []DaemonSupervised
<1>1. DesktopInv => DaemonSupervised
  <2> SUFFICES ASSUME DesktopInv PROVE DaemonSupervised
    OBVIOUS
  <2>1. SupervisorTypeOK /\ ConfiguringTypeOK /\ DaemonInv /\ BudgetInv
    BY DEF DesktopInv, SupervisorInv, ConfiguringInv
  <2>2. ShellTypeOK
    BY <2>1 DEF ShellTypeOK, SupervisorTypeOK, ConfiguringTypeOK, BudgetInv, Budget
  <2>3. OneDaemon
    BY <2>1, <2>2 DEF OneDaemon, DaemonInv
  <2>4. spawned \in Seq(0..MaxTime) /\ Budgeted(spawned)
    BY <2>1 DEF BudgetInv, Budget
  <2>5. StartsAreBudgeted
    BY <2>4 DEF StartsAreBudgeted, Budgeted
  <2> QED
    BY <2>3, <2>5 DEF DaemonSupervised
<1> QED
  BY <1>1, DesktopInvariance, PTL

\* clearRevealedTrace and the number of the read: a trace is on the screen only
\* while the owner still wants it there.
THEOREM TraceIsWanted == Spec => []ShownIsWanted
<1>1. DesktopInv => ShownIsWanted
  BY DEF DesktopInv, TraceInv, ShownIsWanted
<1> QED
  BY <1>1, DesktopInvariance, PTL

\* configure_device and daemon_start: a daemon runs on a whole configuration, and
\* after "Apply and start" on the one that was saved.
THEOREM SavedIsApplied == Spec => []ConfigurationApplies
<1>1. DesktopInv => ConfigurationApplies
  BY DEF DesktopInv, ApplyInv, ConfigurationApplies
<1> QED
  BY <1>1, DesktopInvariance, PTL

\* configure_device never replaces a wrapping key that it could read.
THEOREM WrappingKeyStays == Spec => WrappingKeyKept
<1> DEFINE Kept == vault.wrapping # Nothing => vault'.wrapping = vault.wrapping \/ pending.unread
<1>1. DesktopInv /\ [Next]_vars => [Kept]_shellVars
  <2> SUFFICES ASSUME DesktopInv, Next, vault.wrapping # Nothing
               PROVE  vault'.wrapping = vault.wrapping \/ pending.unread
    BY DEF vars
  <2>1. UNCHANGED vault \/ WriteEntry
    BY DEF Next, Shell, Launch, Relaunch, Ask, Refresh, InspectTrace, TraceRead,
       HandleVisibilityChange, ClosePlaintext, Operate, Operated, Stop, StartSaved, Configure,
       Prepare, Configured, Start, Started, Ready, Crash, Autolaunch, Tick, shellVars, configuring
  <2>2. CASE WriteEntry
    <3>1. /\ vault = [e \in Secrets |-> vault[e]] /\ pending # Nothing
          /\ ~pending.unread => pending.wrapping = vault.wrapping
      BY <2>2 DEF DesktopInv, ConfiguringInv, ConfiguringTypeOK, VaultInv, WriteEntry
    <3>2. vault' = vault \/ vault' = Written(Head(left))
      BY <2>2 DEF WriteEntry
    <3>3. \/ Written(Head(left)) =
               [vault EXCEPT !.config = [id |-> pending.id, key |-> pending.key]]
          \/ Written(Head(left)) = vault
          \/ Written(Head(left)) = [vault EXCEPT ![Head(left)] = pending[Head(left)]]
      BY DEF Written
    <3>4. Written(Head(left)).wrapping \in {vault.wrapping, pending.wrapping}
      BY <3>1, <3>3 DEF Secrets
    <3> QED
      BY <3>1, <3>2, <3>4
  <2> QED
    BY <2>1, <2>2
<1> QED
  BY <1>1, DesktopInvariance, PTL DEF Spec, WrappingKeyKept
=============================================================================
