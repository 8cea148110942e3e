---------------------------- MODULE LocalProofs ----------------------------
(***************************************************************************)
(* Proofs about what is kept on the seller's machine: the configuration    *)
(* directory (Setup) and the directory of decrypted traces                 *)
(* (PlaintextCache).                                                       *)
(***************************************************************************)
EXTENDS Setup, PlaintextCache, Sequences, SequenceTheorems, NaturalsInduction,
        WellFoundedInduction, FiniteSetTheorems, TLAPS

----------------------------------------------------------------------------
(* The configuration directory.                                            *)

USE NothingAssumption

Places == {"new", "asking", "writing", "building", "resuming", "confirmed", "deploying",
           "destroying", "removing", "linking", "done", "failed", "dead"}

\* The types of the directory and of the commands.
DirectoryTypeOK ==
  /\ files \in [Files -> Commands \cup {Nothing}]
  /\ cloud \subseteq Commands /\ hurt \subseteq Commands
  /\ at \in [Commands -> Places]
  /\ left \in [Commands -> SUBSET (Files \cup {"links"})]
  /\ serving \in BOOLEAN /\ overlapped \in BOOLEAN /\ torn \in BOOLEAN

\* The types of the file of links.
LinksTypeOK ==
  /\ links \in [Repos -> Commands \cup {Nothing}] /\ book \in [Repos -> Commands \cup {Nothing}]
  /\ snap \in [Commands -> [Repos -> Commands \cup {Nothing}]]

Is(f) == files[f] # Nothing
Whole == Is("config") /\ Is("schema") /\ Is("local")
Deployable == Is("package") /\ Is("stack")

\* What an init that runs alone has written: its files are its own, and but for
\* what a reset has left they are the only ones.
Writing(p) ==
  /\ at[p] \in {"asking", "writing", "building"} => cloud = {}
  /\ at[p] = "asking" => ~Is("config")
  /\ at[p] = "writing" =>
       /\ left[p] \subseteq Config
       /\ \A f \in Config : files[f] = IF f \in left[p] THEN Nothing ELSE p
       /\ ~torn => ~Is("package") /\ ~Is("stack")
  /\ at[p] = "building" =>
       /\ left[p] \subseteq Infra
       /\ \A f \in Config : files[f] = p
       /\ \A f \in Infra \ left[p] : files[f] = p \/ p \in hurt
       /\ ~torn => \A f \in Infra : files[f] = IF f \in left[p] THEN Nothing ELSE p

\* What a reset has removed, after it destroyed the stack.
Removing(p) ==
  at[p] = "removing" =>
    /\ cloud = {}
    /\ p \in hurt => torn
    /\ ~torn => \A f \in Files \ left[p] : ~Is(f)

\* Where the only command that runs is.
Shape(p) ==
  /\ Writing(p) /\ Removing(p)
  /\ at[p] \in {"resuming", "confirmed", "deploying", "destroying"} => Is("config") /\ Deployable
  /\ at[p] \in {"confirmed", "destroying", "removing"} => ~serving
  /\ at[p] = "linking" => snap[p] = links
  /\ at[p] \in {"new", "asking", "writing", "resuming", "confirmed", "destroying", "linking"} =>
       p \notin hurt

OneActive == \A p, q \in Commands : Active(p) /\ Active(q) => p = q

\* The directory between two steps: one device, and a stack that reset can find.
DirectoryInv ==
  /\ \A s \in cloud : Is("config") /\ Deployable /\ files["stack"] = s
  /\ serving => Whole
  /\ \A f, g \in Config : Is(f) /\ Is(g) => files[f] = files[g]
  /\ ~torn => \A f, g \in Files : Is(f) /\ Is(g) => files[f] = files[g]
  /\ ~torn => \/ \E p \in Commands : at[p] = "removing"
              \/ Whole
              \/ ~Is("package") /\ ~Is("stack")

ScaffoldInv ==
  /\ DirectoryTypeOK /\ LinksTypeOK
  /\ ~overlapped => OneActive /\ (\A p \in Commands : Shape(p)) /\ DirectoryInv /\ links = book

\* The command that steps is the only one that runs.
Alone(p) == \A q \in Commands \ {p} : ~Active(q)

\* The others stay where they are.
LEMMA OthersStay ==
  ASSUME DirectoryTypeOK, NEW p \in Commands, Alone(p), \A q \in Commands : Shape(q),
         \E x : at' = [at EXCEPT ![p] = x], hurt' \subseteq hurt \cup {p},
         \A q \in Commands \ {p} : left'[q] = left[q]
  PROVE  OneActive' /\ \A q \in Commands \ {p} : Shape(q)'
<1>1. \A q \in Commands \ {p} : at'[q] = at[q]
  BY DEF DirectoryTypeOK
<1>2. OneActive'
  BY <1>1 DEF OneActive, Alone, Active
<1>3. ASSUME NEW q \in Commands \ {p}
      PROVE  Shape(q)'
  <2>1. at'[q] \in {"new", "done", "failed", "dead"}
    BY <1>1, <1>3 DEF Alone, Active
  <2>2. at'[q] = "new" => q \notin hurt'
    BY <1>1, <1>3, <2>1 DEF Shape
  <2> QED
    BY <2>1, <2>2 DEF Shape, Writing, Removing
<1> QED
  BY <1>2, <1>3

\* No two commands run at once, and so far none has.
LEMMA StepsAlone ==
  ASSUME ScaffoldInv, ~overlapped', NEW p \in Commands,
         \/ Begins(p)
         \/ Active(p) /\ overlapped' = overlapped
  PROVE  /\ ~overlapped /\ Alone(p) /\ OneActive /\ DirectoryInv /\ links = book
         /\ \A q \in Commands : Shape(q)
<1>1. ~overlapped
  BY Zenon DEF Begins, ScaffoldInv, DirectoryTypeOK
<1>2. OneActive /\ DirectoryInv /\ links = book /\ \A q \in Commands : Shape(q)
  BY <1>1 DEF ScaffoldInv
<1>3. Begins(p) => Alone(p)
  BY <1>1 DEF Begins, Alone
<1>4. Active(p) => Alone(p)
  BY <1>2 DEF OneActive, Alone
<1> QED
  BY <1>1, <1>2, <1>3, <1>4

\* No file changes hands, and no command was or is removing.
LEMMA DirectoryStays ==
  ASSUME DirectoryTypeOK, DirectoryInv, NEW p \in Commands,
         \E x : x # "removing" /\ at' = [at EXCEPT ![p] = x],
         at[p] # "removing", UNCHANGED <<files, cloud, serving, torn>>
  PROVE  DirectoryInv'
<1>1. \A q \in Commands : at[q] = "removing" => at'[q] = "removing"
  BY DEF DirectoryTypeOK
<1> QED
  BY <1>1 DEF DirectoryInv, Is, Whole, Deployable

USE DEF Files, Config, Infra

\* What remains to be shown of a step of p.
Kept(p) == Shape(p)' /\ DirectoryInv' /\ (links = book)'

LEMMA StepKeeps ==
  ASSUME ScaffoldInv, NEW p \in Commands, DirectoryTypeOK', LinksTypeOK',
         \E x : at' = [at EXCEPT ![p] = x], hurt' \subseteq hurt \cup {p},
         \A q \in Commands \ {p} : left'[q] = left[q],
         Begins(p) \/ (Active(p) /\ overlapped' = overlapped),
         ~overlapped /\ Alone(p) /\ Shape(p) /\ DirectoryInv /\ links = book => Kept(p)
  PROVE  ScaffoldInv'
<1> SUFFICES ASSUME ~overlapped'
             PROVE  /\ OneActive' /\ \A q \in Commands : Shape(q)'
                    /\ DirectoryInv' /\ (links = book)'
  BY DEF ScaffoldInv
<1>1. /\ ~overlapped /\ Alone(p) /\ OneActive /\ DirectoryInv /\ links = book
      /\ \A q \in Commands : Shape(q)
  BY StepsAlone
<1>2. OneActive' /\ \A q \in Commands \ {p} : Shape(q)'
  BY <1>1, OthersStay DEF ScaffoldInv
<1>3. Shape(p)' /\ DirectoryInv' /\ (links = book)'
  BY <1>1 DEF Kept
<1> QED
  BY <1>2, <1>3

\* A command reads, asks or decides.
LEMMA QuietStep ==
  ASSUME ScaffoldInv, NEW p \in Commands,
         \/ InitReads(p) \/ Scaffold(p) \/ Written(p) \/ Upgrade(p)
         \/ ResetReads(p) \/ ReadLinks(p)
  PROVE  ScaffoldInv'
<1> USE DEF InitReads, Scaffold, Written, Upgrade, ResetReads, ReadLinks, To
<1>1. DirectoryTypeOK'
  <2>1. at' \in [Commands -> Places]
    BY DEF ScaffoldInv, DirectoryTypeOK, Begins, Places
  <2>2. left' \in [Commands -> SUBSET (Files \cup {"links"})]
    BY DEF ScaffoldInv, DirectoryTypeOK
  <2>3. overlapped' \in BOOLEAN
    BY Zenon DEF ScaffoldInv, DirectoryTypeOK, Begins
  <2> QED
    BY <2>1, <2>2, <2>3 DEF ScaffoldInv, DirectoryTypeOK
<1>2. LinksTypeOK'
  BY DEF ScaffoldInv, LinksTypeOK
<1>3. /\ Begins(p) \/ (Active(p) /\ overlapped' = overlapped)
      /\ at[p] # "removing" /\ \E x : x # "removing" /\ at' = [at EXCEPT ![p] = x]
      /\ UNCHANGED <<files, cloud, serving, torn, links, book, hurt>>
      /\ \A q \in Commands \ {p} : left'[q] = left[q]
  BY DEF Begins, Active, ScaffoldInv, DirectoryTypeOK
<1>4. ASSUME Alone(p), Shape(p), DirectoryInv, links = book
      PROVE  Kept(p)
  <2>1. DirectoryInv' /\ (links = book)'
    BY <1>3, <1>4, DirectoryStays DEF ScaffoldInv
  <2>2. CASE InitReads(p)
    BY <1>4, <2>1, <2>2 DEF Kept, Begins, Present, Shape, Writing, Removing, DirectoryInv, Is,
                Deployable, ScaffoldInv, DirectoryTypeOK
  <2>3. CASE Scaffold(p)
    <3>1. at[p] = "asking" /\ cloud = {} /\ p \notin hurt
      BY <1>4, <2>3 DEF Shape, Writing
    <3>2. CASE at' = [at EXCEPT ![p] = "failed"]
      BY <2>1, <3>1, <3>2 DEF Kept, Shape, Writing, Removing, ScaffoldInv, DirectoryTypeOK
    <3>3. CASE Present(Protected) = {} /\ at' = [at EXCEPT ![p] = "writing"]
               /\ left' = [left EXCEPT ![p] = Config]
      <4>1. \A f \in Config : files[f] = Nothing
        BY <3>3 DEF Present, Protected
      <4>2. ~torn => ~Is("package") /\ ~Is("stack")
        <5>1. \A q \in Commands : at[q] # "removing"
          BY <1>4, <3>1 DEF Alone, Active
        <5>2. ~Is("config")
          BY <4>1 DEF Is
        <5> QED
          BY <1>4, <5>1, <5>2, Zenon DEF DirectoryInv, Whole
      <4> QED
        BY <2>1, <2>3, <3>1, <3>3, <4>1, <4>2 DEF Kept, Shape, Writing, Removing, Is,
                ScaffoldInv, DirectoryTypeOK
    <3> QED
      BY <2>3, <3>2, <3>3
  <2>4. CASE Written(p)
    <3>1. at[p] \in {"writing", "building"} /\ left[p] = {} /\ Writing(p) /\ cloud = {}
      BY <1>4, <2>4 DEF Shape, Writing
    <3>2. CASE at' = [at EXCEPT ![p] = "failed"] \/ at' = [at EXCEPT ![p] = "done"]
      BY <2>1, <3>1, <3>2 DEF Kept, Shape, Writing, Removing, ScaffoldInv, DirectoryTypeOK
    <3>3. CASE /\ at[p] = "writing" /\ at' = [at EXCEPT ![p] = "building"]
               /\ left' = [left EXCEPT ![p] = Infra]
      BY <2>1, <2>4, <3>1, <3>3 DEF Kept, Shape, Writing, Removing, Is, ScaffoldInv, DirectoryTypeOK
    <3>4. CASE at[p] = "building" /\ p \notin hurt /\ at' = [at EXCEPT ![p] = "deploying"]
      BY <2>1, <2>4, <3>1, <3>4 DEF Kept, Shape, Writing, Removing, Is, Deployable,
                ScaffoldInv, DirectoryTypeOK
    <3> QED
      BY <2>4, <3>1, <3>2, <3>3, <3>4
  <2>5. CASE Upgrade(p)
    BY <1>4, <2>1, <2>5 DEF Kept, Shape, Writing, Removing, DirectoryInv, Is,
                Deployable, ScaffoldInv, DirectoryTypeOK
  <2>6. CASE ResetReads(p)
    BY <1>4, <2>1, <2>6 DEF Kept, Begins, Present, Shape, Writing, Removing, Is,
                Deployable, ScaffoldInv, DirectoryTypeOK
  <2>7. CASE ReadLinks(p)
    BY <1>4, <2>1, <2>7 DEF Kept, Begins, Shape, Writing, Removing,
                ScaffoldInv, DirectoryTypeOK, LinksTypeOK
  <2> QED
    BY <2>2, <2>3, <2>4, <2>5, <2>6, <2>7
<1> QED
  BY <1>1, <1>2, <1>3, <1>4, StepKeeps

\* A file is written, or is found there by a resumption of a torn reset.
LEMMA WriteFileStep ==
  ASSUME ScaffoldInv, NEW p \in Commands, NEW f \in Files,
         WriteFile(p, f)
  PROVE  ScaffoldInv'
<1> USE DEF WriteFile
<1>1. DirectoryTypeOK'
  BY DEF ScaffoldInv, DirectoryTypeOK
<1>2. LinksTypeOK'
  BY DEF ScaffoldInv, LinksTypeOK
<1>3. /\ Active(p) /\ at' = [at EXCEPT ![p] = at[p]]
      /\ \A q \in Commands \ {p} : left'[q] = left[q]
  BY DEF Active, ScaffoldInv, DirectoryTypeOK
<1>4. ASSUME Shape(p), DirectoryInv, links = book
      PROVE  Kept(p)
  <2>1. CASE at[p] = "writing"
    <3>1. /\ f \in Config /\ files[f] = Nothing /\ cloud = {} /\ p \notin hurt
          /\ ~torn => ~Is("package") /\ ~Is("stack")
      BY <1>4, <2>1 DEF Shape, Writing
    <3>2. files' = [files EXCEPT ![f] = p]
      BY <3>1
    <3>3. Shape(p)'
      BY <1>4, <2>1, <3>1, <3>2 DEF Shape, Writing, Removing, Is, ScaffoldInv, DirectoryTypeOK
    <3>4. ~serving
      BY <1>4, <3>1 DEF DirectoryInv, Whole, Is
    <3>5. DirectoryInv'
      BY <1>4, <2>1, <3>1, <3>2, <3>4 DEF DirectoryInv, Whole, Is, Shape, Writing,
                ScaffoldInv, DirectoryTypeOK
    <3> QED
      BY <1>4, <3>3, <3>5 DEF Kept
  <2>2. CASE at[p] = "building"
    <3>1. /\ f \in Infra /\ cloud = {} /\ \A g \in Config : files[g] = p
          /\ ~torn => \A g \in Infra : files[g] = IF g \in left[p] THEN Nothing ELSE p
      BY <1>4, <2>2 DEF Shape, Writing
    <3>2. Shape(p)'
      BY <1>4, <2>2, <3>1 DEF Shape, Writing, Removing, Is, ScaffoldInv, DirectoryTypeOK
    <3>3. \A g \in Config : files'[g] = p
      BY <3>1 DEF ScaffoldInv, DirectoryTypeOK
    <3>4. ~torn => \A g \in Infra : files'[g] = Nothing \/ files'[g] = p
      BY <3>1 DEF ScaffoldInv, DirectoryTypeOK
    <3>5. DirectoryInv'
      BY <3>1, <3>3, <3>4 DEF DirectoryInv, Whole, Is
    <3> QED
      BY <1>4, <3>2, <3>5 DEF Kept
  <2> QED
    BY <2>1, <2>2
<1> QED
  BY <1>1, <1>2, <1>3, <1>4, StepKeeps

\* The stack is deployed or destroyed, perhaps by an attempt that fails.
LEMMA StackStep ==
  ASSUME ScaffoldInv, NEW p \in Commands, Deploy(p) \/ Destroy(p)
  PROVE  ScaffoldInv'
<1> USE DEF Deploy, Destroy, To
<1>1. DirectoryTypeOK'
  <2>1. at' \in [Commands -> Places] /\ left' \in [Commands -> SUBSET (Files \cup {"links"})]
    BY DEF ScaffoldInv, DirectoryTypeOK, Places
  <2>2. cloud' \subseteq Commands
    BY DEF ScaffoldInv, DirectoryTypeOK, Present
  <2> QED
    BY <2>1, <2>2 DEF ScaffoldInv, DirectoryTypeOK
<1>2. LinksTypeOK'
  BY DEF ScaffoldInv, LinksTypeOK
<1>3. /\ Active(p) /\ overlapped' = overlapped /\ UNCHANGED hurt
      /\ \E x : at' = [at EXCEPT ![p] = x]
      /\ \A q \in Commands \ {p} : left'[q] = left[q]
  <2>1. \E x : at' = [at EXCEPT ![p] = x]
    BY DEF ScaffoldInv, DirectoryTypeOK
  <2> QED
    BY <2>1 DEF Active, ScaffoldInv, DirectoryTypeOK
<1>4. ASSUME Shape(p), DirectoryInv, links = book
      PROVE  Kept(p)
  <2>1. /\ Is("config") /\ Deployable /\ at[p] \in {"deploying", "destroying"}
        /\ at[p] = "destroying" => p \notin hurt /\ ~serving
    BY <1>4 DEF Shape
  <2>2. ASSUME NEW place \in {"deploying", "done", "failed"}, at' = [at EXCEPT ![p] = place],
               cloud' \subseteq cloud \cup {files["stack"]},
               UNCHANGED <<files, links, serving, snap, torn, book>>
        PROVE  Kept(p)
    <3>1. Shape(p)'
      BY <2>1, <2>2 DEF Shape, Writing, Removing, Is, Deployable, ScaffoldInv, DirectoryTypeOK
    <3>2. \A q \in Commands : at[q] = "removing" => at'[q] = "removing"
      BY <2>1, <2>2 DEF ScaffoldInv, DirectoryTypeOK
    <3>3. DirectoryInv'
      BY <1>4, <2>1, <2>2, <3>2 DEF DirectoryInv, Is, Whole, Deployable
    <3> QED
      BY <1>4, <2>2, <3>1, <3>3 DEF Kept
  <2>3. ASSUME Destroy(p), at' = [at EXCEPT ![p] = "removing"],
               cloud' = cloud \ {files["stack"]},
               left' = [left EXCEPT ![p] = Files \cup {"links"}]
        PROVE  Kept(p)
    <3>1. cloud' = {}
      BY <1>4, <2>3 DEF DirectoryInv
    <3>2. Shape(p)' /\ at'[p] = "removing"
      BY <2>1, <2>3, <3>1 DEF Shape, Writing, Removing, ScaffoldInv, DirectoryTypeOK
    <3>3. DirectoryInv'
      BY <1>4, <2>3, <3>1, <3>2 DEF DirectoryInv, Is, Whole, Deployable
    <3> QED
      BY <1>4, <2>3, <3>2, <3>3 DEF Kept
  <2>4. CASE Deploy(p)
    BY <1>3, <2>2, <2>4 DEF ScaffoldInv, DirectoryTypeOK
  <2>5. CASE Destroy(p)
    BY <2>2, <2>3, <2>5
  <2> QED
    BY <2>4, <2>5
<1> QED
  BY <1>1, <1>2, <1>3, <1>4, StepKeeps

\* A file is removed, or its removal fails; and the removal ends.
LEMMA RemovalStep ==
  ASSUME ScaffoldInv, NEW p \in Commands,
         Removed(p) \/ \E f \in Files \cup {"links"} : RemoveFile(p, f)
  PROVE  ScaffoldInv'
<1>1. /\ at[p] = "removing" /\ Active(p) /\ overlapped' = overlapped
      /\ hurt' \subseteq hurt \cup {p}
      /\ \E x : at' = [at EXCEPT ![p] = x]
      /\ \A q \in Commands \ {p} : left'[q] = left[q]
      /\ UNCHANGED <<cloud, serving, snap>>
  <2>1. at = [at EXCEPT ![p] = at[p]]
    BY DEF ScaffoldInv, DirectoryTypeOK
  <2> QED
    BY <2>1 DEF Active, Removed, RemoveFile, To, ScaffoldInv, DirectoryTypeOK
<1>2. DirectoryTypeOK'
  <2>1. CASE Removed(p)
    BY <2>1 DEF Removed, To, ScaffoldInv, DirectoryTypeOK, Places
  <2>2. ASSUME NEW f \in Files \cup {"links"}, RemoveFile(p, f)
        PROVE  DirectoryTypeOK'
    <3>1. files' \in [Files -> Commands \cup {Nothing}] /\ hurt' \subseteq Commands
      BY <2>2 DEF RemoveFile, ScaffoldInv, DirectoryTypeOK
    <3>2. torn' \in BOOLEAN
      BY Zenon, <2>2 DEF RemoveFile, ScaffoldInv, DirectoryTypeOK
    <3> QED
      BY <2>2, <3>1, <3>2 DEF RemoveFile, ScaffoldInv, DirectoryTypeOK
  <2> QED
    BY <2>1, <2>2
<1>3. LinksTypeOK'
  BY DEF ScaffoldInv, LinksTypeOK, Removed, RemoveFile, NoLinks
<1>4. ASSUME Shape(p), DirectoryInv, links = book
      PROVE  Kept(p)
  <2>1. /\ cloud' = {} /\ ~serving'
        /\ p \in hurt => torn
        /\ \A f, g \in Config : Is(f) /\ Is(g) => files[f] = files[g]
        /\ ~torn => \A f, g \in Files : Is(f) /\ Is(g) => files[f] = files[g]
    BY <1>1, <1>4 DEF Shape, Removing, DirectoryInv
  <2>2. ~torn => \A f \in Files \ left[p] : ~Is(f)
    BY <1>1, <1>4 DEF Shape, Removing
  <2>3. CASE Removed(p)
    <3>1. Shape(p)'
      BY <2>3 DEF Removed, To, Shape, Writing, Removing, ScaffoldInv, DirectoryTypeOK
    <3>2. ~torn => \A f \in Files : ~Is(f)
      BY <2>2, <2>3 DEF Removed
    <3>3. DirectoryInv'
      BY <2>1, <2>3, <3>2 DEF Removed, DirectoryInv, Is, Whole, Deployable
    <3> QED
      BY <1>4, <2>3, <3>1, <3>3 DEF Removed, Kept
  <2>4. ASSUME NEW f \in Files \cup {"links"}, RemoveFile(p, f)
        PROVE  Kept(p)
    <3>1. at' = at /\ left' = [left EXCEPT ![p] = left[p] \ {f}]
      BY <2>4 DEF RemoveFile
    <3>2. \/ hurt' = hurt \cup {p} /\ torn' /\ UNCHANGED files
          \/ /\ UNCHANGED <<hurt, torn>>
             /\ \/ f = "links" /\ UNCHANGED files
                \/ f # "links" /\ files' = [files EXCEPT ![f] = Nothing]
      BY <2>4 DEF RemoveFile
    <3>3. (links = book)'
      BY <1>4, <2>4 DEF RemoveFile
    <3>4. \A g \in Files : Is(g)' => Is(g) /\ files'[g] = files[g]
      BY <3>2 DEF Is, ScaffoldInv, DirectoryTypeOK
    <3>5. ~torn' => ~torn
      BY <3>2
    <3>6. Shape(p)'
      <4>1. ~torn' => \A g \in Files \ left'[p] : ~Is(g)'
        BY <2>2, <3>1, <3>2, <3>4 DEF Is, ScaffoldInv, DirectoryTypeOK
      <4> QED
        BY <1>1, <2>1, <3>1, <3>2, <4>1 DEF Shape, Writing, Removing
    <3>7. DirectoryInv'
      BY <1>1, <2>1, <3>1, <3>4, <3>5 DEF DirectoryInv
    <3> QED
      BY <3>3, <3>6, <3>7 DEF Kept
  <2> QED
    BY <2>3, <2>4
<1> QED
  BY <1>1, <1>2, <1>3, <1>4, StepKeeps

\* A repository is linked or unlinked.
LEMMA LinkStep ==
  ASSUME ScaffoldInv, NEW p \in Commands, NEW r \in Repos,
         Link(p, r) \/ Unlink(p, r)
  PROVE  ScaffoldInv'
<1> USE DEF Link, Unlink, To
<1>1. DirectoryTypeOK'
  BY DEF ScaffoldInv, DirectoryTypeOK, Places
<1>2. LinksTypeOK'
  BY DEF ScaffoldInv, LinksTypeOK
<1>3. Active(p) /\ at[p] = "linking" /\ at' = [at EXCEPT ![p] = "done"]
  BY DEF Active
<1>4. ASSUME Shape(p), DirectoryInv, links = book
      PROVE  Kept(p)
  <2>1. snap[p] = links
    BY <1>3, <1>4 DEF Shape
  <2>2. (links = book)'
    BY <1>4, <2>1 DEF ScaffoldInv, LinksTypeOK
  <2>3. DirectoryInv'
    BY <1>3, <1>4, DirectoryStays DEF ScaffoldInv
  <2>4. Shape(p)'
    BY <1>3 DEF Shape, Writing, Removing, ScaffoldInv, DirectoryTypeOK
  <2> QED
    BY <2>2, <2>3, <2>4 DEF Kept
<1> QED
  BY <1>1, <1>2, <1>3, <1>4, StepKeeps

\* A command dies.
LEMMA DieStep ==
  ASSUME ScaffoldInv, NEW p \in Commands, Die(p)
  PROVE  ScaffoldInv'
<1> USE DEF Die, To
<1>1. DirectoryTypeOK'
  <2>1. torn' \in BOOLEAN
    BY Zenon DEF ScaffoldInv, DirectoryTypeOK
  <2> QED
    BY <2>1 DEF ScaffoldInv, DirectoryTypeOK, Places
<1>2. LinksTypeOK'
  BY DEF ScaffoldInv, LinksTypeOK
<1>3. ASSUME DirectoryInv, links = book
      PROVE  Kept(p)
  <2>1. Shape(p)' /\ (links = book)'
    BY <1>3 DEF Shape, Writing, Removing, ScaffoldInv, DirectoryTypeOK
  <2>2. CASE at[p] = "removing"
    BY <1>3, <2>1, <2>2 DEF Kept, DirectoryInv, Is, Whole, Deployable
  <2>3. CASE at[p] # "removing"
    <3>1. torn' = torn
      BY <2>3 DEF ScaffoldInv, DirectoryTypeOK
    <3> QED
      BY <1>3, <2>1, <2>3, <3>1, DirectoryStays DEF Kept, ScaffoldInv
  <2> QED
    BY <2>2, <2>3
<1>4. /\ Active(p) /\ overlapped' = overlapped /\ UNCHANGED hurt
      /\ at' = [at EXCEPT ![p] = "dead"]
      /\ \A q \in Commands \ {p} : left'[q] = left[q]
  BY DEF ScaffoldInv, DirectoryTypeOK
<1> QED
  BY <1>1, <1>2, <1>3, <1>4, StepKeeps

\* A daemon starts or stops.
LEMMA ServeStep ==
  ASSUME ScaffoldInv, Serve
  PROVE  ScaffoldInv'
<1> USE DEF Serve
<1>1. DirectoryTypeOK'
  <2>1. serving' \in BOOLEAN /\ overlapped' \in BOOLEAN
    BY Zenon DEF ScaffoldInv, DirectoryTypeOK
  <2> QED
    BY <2>1 DEF ScaffoldInv, DirectoryTypeOK
<1>2. LinksTypeOK'
  BY DEF ScaffoldInv, LinksTypeOK
<1>3. ASSUME ~overlapped'
      PROVE  OneActive' /\ (\A q \in Commands : Shape(q)') /\ DirectoryInv' /\ (links = book)'
  <2>1. ~overlapped /\ (serving \/ \A q \in Commands : ~Active(q))
    BY <1>3, Zenon
  <2>2. OneActive /\ (\A q \in Commands : Shape(q)) /\ DirectoryInv /\ links = book
    BY <2>1 DEF ScaffoldInv
  <2>3. serving' => Whole
    BY DEF Present, Whole, Is, ScaffoldInv, DirectoryTypeOK
  <2>4. DirectoryInv'
    BY <2>2, <2>3 DEF DirectoryInv, Is, Whole, Deployable
  <2>5. ASSUME NEW q \in Commands
        PROVE  Shape(q)'
    BY <2>1, <2>2, <2>5 DEF Shape, Writing, Removing, Is, Deployable, Active, ScaffoldInv,
              DirectoryTypeOK
  <2> QED
    BY <2>2, <2>4, <2>5 DEF OneActive, Active
<1> QED
  BY <1>1, <1>2, <1>3 DEF ScaffoldInv

\* ScaffoldInv is an inductive invariant of Setup.
THEOREM ScaffoldInvariance == Spec => []ScaffoldInv
<1>1. Init => ScaffoldInv
  <2> SUFFICES ASSUME Init PROVE ScaffoldInv
    OBVIOUS
  <2>1. DirectoryTypeOK /\ LinksTypeOK
    <3>1. serving \in BOOLEAN /\ overlapped \in BOOLEAN /\ torn \in BOOLEAN
      BY Zenon DEF Init
    <3> QED
      BY <3>1 DEF Init, NoLinks, DirectoryTypeOK, LinksTypeOK, Places
  <2>2. OneActive /\ DirectoryInv
    BY DEF Init, Active, OneActive, DirectoryInv, Is, Whole
  <2>3. \A p \in Commands : Shape(p)
    BY DEF Init, Shape, Writing, Removing
  <2> QED
    BY <2>1, <2>2, <2>3 DEF Init, ScaffoldInv
<1>2. ScaffoldInv /\ [Next]_vars => ScaffoldInv'
  <2> SUFFICES ASSUME ScaffoldInv, [Next]_vars PROVE ScaffoldInv'
    OBVIOUS
  <2>1. CASE UNCHANGED vars
    BY <2>1 DEF vars, ScaffoldInv, DirectoryTypeOK, LinksTypeOK, OneActive, Active, Shape,
                Writing, Removing, DirectoryInv, Is, Whole, Deployable
  <2>2. CASE Next
    BY <2>2, QuietStep, WriteFileStep, StackStep, RemovalStep, LinkStep, DieStep, ServeStep
       DEF Next
  <2> QED
    BY <2>1, <2>2
<1> QED
  BY <1>1, <1>2, PTL DEF Spec

\* A set whose members are all the same has one at most.
LEMMA AtMostOne ==
  ASSUME NEW M, \A x, y \in M : x = y
  PROVE  Cardinality(M) <= 1
<1>1. CASE M = {}
  BY <1>1, FS_EmptySet
<1>2. CASE M # {}
  <2>1. PICK x \in M : TRUE
    BY <1>2
  <2>2. M = {x}
    BY <2>1
  <2>3. Cardinality({x}) = 1
    BY FS_Singleton
  <2> QED
    BY <2>2, <2>3
<1> QED
  BY <1>1, <1>2

\* init, its resumption and reset, one after the other and wherever they die:
\* device, secrets and stack are of one init.
THEOREM IdentityIsOne == Spec => []OneIdentity
<1>1. ScaffoldInv => OneIdentity
  <2> SUFFICES ASSUME ScaffoldInv, ~overlapped
               PROVE  /\ Cardinality({files[f] : f \in Present(Config)}) <= 1
                      /\ ~torn => Cardinality({files[f] : f \in Present(Files)}) <= 1
    BY DEF OneIdentity
  <2>1. \A x, y \in {files[f] : f \in Present(Config)} : x = y
    BY DEF ScaffoldInv, DirectoryInv, Is, Present
  <2>2. ~torn => \A x, y \in {files[f] : f \in Present(Files)} : x = y
    BY DEF ScaffoldInv, DirectoryInv, Is, Present
  <2> QED
    BY <2>1, <2>2, AtMostOne
<1> QED
  BY <1>1, ScaffoldInvariance, PTL

\* What reset needs to destroy a deployed stack stays, and so do the files a
\* daemon runs on.
THEOREM StackStaysReachable == Spec => []StackIsReachable
<1>1. ScaffoldInv => StackIsReachable
  BY DEF ScaffoldInv, DirectoryInv, StackIsReachable, Present, Is, Whole, Deployable
<1> QED
  BY <1>1, ScaffoldInvariance, PTL

\* link and unlink lose no link, and neither does a reset that fails.
THEOREM LinksAreKept == Spec => []LinksKept
<1>1. ScaffoldInv => LinksKept
  <2>1. DirectoryTypeOK /\ LinksTypeOK => TypeOK
    <3>1. DirectoryTypeOK => {serving, overlapped, torn} \subseteq BOOLEAN
      BY Zenon DEF DirectoryTypeOK
    <3> QED
      BY <3>1 DEF DirectoryTypeOK, LinksTypeOK, TypeOK, Places
  <2> QED
    BY <2>1 DEF ScaffoldInv, LinksKept
<1> QED
  BY <1>1, ScaffoldInvariance, PTL

----------------------------------------------------------------------------
(* The directory of decrypted traces.                                      *)

HIDE NothingAssumption DEF Files, Config, Infra

\* From the download on, a reader has the trace itself in hand.
InHand == {"write", "place", "stamp", "storing", "stored", "served"}

\* Where a process is.
Labels == {"off", "served", "stored", "purged", "cleared", "getting", "storing", "purging",
           "clearing", "lookup", "open", "check", "download", "write", "place", "stamp"}

\* The types of what a read uses.
ReadTypeOK ==
  /\ now \in 0..MaxTime /\ troubles \in 0..MaxTroubles
  /\ file \in [Traces -> Entry \cup {None}]
  /\ temps \in [Readers -> 0..MaxTime \cup {None}]
  /\ pc \in [Procs -> Labels]
  /\ want \in [Readers -> Traces \cup {None}]
  /\ got \in [Readers -> {"whole", "altered", None}]

\* Until it has stored its trace or taken it from the cache, a reader wants one.
Asking == {"getting", "lookup", "open", "check", "download", "write", "place", "stamp"}
LookupsWant == \A r \in Readers : pc[r] \in Asking => want[r] \in Traces

\* What is served or stored was checked or downloaded.
HandsWhole == \A r \in Readers : pc[r] \in InHand => got[r] = "whole"

\* An entry is whole unless a file was damaged.
FilesWhole == troubles = 0 => \A t \in Traces : file[t] # None => file[t].holds = "whole"

CacheInv == ReadTypeOK /\ LookupsWant /\ HandsWhole /\ FilesWhole

\* A pass of p over the directory removes entries, and ends where p goes on.
LEMMA PassKeeps ==
  ASSUME CacheInv, NEW p \in Procs,
         SweepBegins(p) \/ ClearBegins(p) \/ PassStep(p)
  PROVE  CacheInv'
<1>1. UNCHANGED <<now, want, got, troubles>>
  BY DEF SweepBegins, ClearBegins, PassStep, Look, Judge, Evict, PassEnds, readVars
<1>2. temps' \in [Readers -> 0..MaxTime \cup {None}]
  BY DEF SweepBegins, ClearBegins, PassStep, Look, Judge, Evict, PassEnds,
         CacheInv, ReadTypeOK
<1>3. /\ file' \in [Traces -> Entry \cup {None}]
      /\ \A t \in Traces : file'[t] = file[t] \/ file'[t] = None
  BY DEF SweepBegins, ClearBegins, PassStep, Look, Judge, Evict, PassEnds, UnlinkIfPresent,
         CacheInv, ReadTypeOK
<1>4. \/ pc' = pc
      \/ \E label \in {"purging", "clearing"} : pc' = [pc EXCEPT ![p] = label]
      \/ InPass(p) /\ pc' = [pc EXCEPT ![p] = After(p)]
  BY DEF SweepBegins, ClearBegins, PassStep, Look, Judge, Evict, PassEnds, Judged,
         Goto
<1>5. InPass(p) => /\ After(p) \in {"lookup", "stored", "purged", "cleared"}
                   /\ After(p) = "stored" => pc[p] = "storing"
                   /\ After(p) = "lookup" => pc[p] = "getting"
  BY DEF InPass, After
<1>6. /\ pc' \in [Procs -> Labels]
      /\ \A r \in Readers : /\ pc'[r] \in InHand => pc[r] \in InHand
                            /\ pc'[r] \in Asking => pc[r] \in Asking
  BY <1>4, <1>5 DEF InHand, Asking, Labels, Procs, CacheInv, ReadTypeOK
<1>7. ReadTypeOK'
  BY <1>1, <1>2, <1>3, <1>6 DEF CacheInv, ReadTypeOK
<1>8. LookupsWant' /\ HandsWhole'
  BY <1>1, <1>6 DEF CacheInv, LookupsWant, HandsWhole
<1>9. FilesWhole'
  BY <1>1, <1>3 DEF CacheInv, FilesWhole
<1> QED
  BY <1>7, <1>8, <1>9 DEF CacheInv

\* The entry that is put in place or stamped is whole if a reader has it whole
\* and nothing was damaged; no other entry changes but by being removed.
LEMMA ReadFiles ==
  ASSUME CacheInv, NEW r \in Readers, ReadStep(r)
  PROVE  file' \in [Traces -> Entry \cup {None}] /\ FilesWhole'
<1>1. troubles' = troubles
  BY DEF ReadStep, Lookup, Open, Check, Download, Write, Place, Stamp
<1>2. CASE Lookup(r) \/ Open(r) \/ Check(r) \/ Download(r) \/ Write(r)
  <2>1. file' = file \/ \E t : file' = [file EXCEPT ![t] = None]
    BY <1>2 DEF Lookup, Open, Check, Download, Write, UnlinkIfPresent
  <2> QED
    BY <1>1, <2>1 DEF CacheInv, ReadTypeOK, FilesWhole
<1>3. CASE Place(r) /\ temps[r] # None
  <2>1. got[r] = "whole" /\ temps[r] \in Nat
    BY <1>3 DEF Place, InHand, CacheInv, ReadTypeOK, HandsWhole
  <2>2. file' = [file EXCEPT ![want[r]] = [at |-> temps[r], holds |-> "whole"]]
    BY <1>3, <2>1 DEF Place
  <2>3. [at |-> temps[r], holds |-> "whole"] \in Entry
    BY <2>1 DEF Entry
  <2> QED
    BY <1>1, <2>2, <2>3 DEF CacheInv, ReadTypeOK, FilesWhole
<1>4. CASE Place(r) /\ temps[r] = None
  BY <1>1, <1>4 DEF Place, CacheInv, ReadTypeOK, FilesWhole
<1>5. CASE Stamp(r)
  BY <1>1, <1>5 DEF Stamp, Entry, CacheInv, ReadTypeOK, FilesWhole
<1> QED
  BY <1>2, <1>3, <1>4, <1>5 DEF ReadStep

\* A read serves what it has checked, and stores what it has downloaded.
LEMMA ReadKeeps ==
  ASSUME CacheInv, NEW r \in Readers, ReadStep(r) \/ \E t \in Traces : ReadBegins(r, t)
  PROVE  CacheInv'
<1>1. now' = now /\ troubles' = troubles
  BY DEF ReadBegins, ReadStep, Lookup, Open, Check, Download, Write, Place, Stamp
<1>2. temps' \in [Readers -> 0..MaxTime \cup {None}]
  BY DEF ReadBegins, ReadStep, Lookup, Open, Check, Download, Write, Place, Stamp,
         CacheInv, ReadTypeOK
<1>3. file' \in [Traces -> Entry \cup {None}] /\ FilesWhole'
  <2>1. CASE ReadStep(r)
    BY <2>1, ReadFiles
  <2>2. CASE \E t \in Traces : ReadBegins(r, t)
    BY <1>1, <2>2 DEF ReadBegins, CacheInv, ReadTypeOK, FilesWhole
  <2> QED
    BY <2>1, <2>2
<1>4. \E label \in Labels, plaintext \in {"whole", "altered", None} :
        /\ pc' = [pc EXCEPT ![r] = label] /\ got' = [got EXCEPT ![r] = plaintext]
        /\ label \in InHand => plaintext = "whole"
  <2>0. r \in Procs /\ got[r] \in {"whole", "altered", None} /\ got = [got EXCEPT ![r] = got[r]]
    BY DEF Procs, CacheInv, ReadTypeOK
  <2>1. CASE Lookup(r)
    BY <2>0, <2>1 DEF Lookup, Goto, readVars, Labels, InHand
  <2>2. CASE Open(r)
    <3>1. CASE pc' = [pc EXCEPT ![r] = "download"] /\ got' = got
      BY <2>0, <3>1 DEF Labels, InHand
    <3>2. CASE /\ file[want[r]] # None /\ file[want[r]].holds # "broken"
               /\ pc' = [pc EXCEPT ![r] = "check"] /\ got' = [got EXCEPT ![r] = file[want[r]].holds]
      <4>1. want[r] \in Traces
        BY <2>2 DEF Open, Asking, CacheInv, LookupsWant
      <4>2. file[want[r]].holds \in {"whole", "altered"}
        BY <3>2, <4>1 DEF Entry, CacheInv, ReadTypeOK
      <4> QED
        BY <3>2, <4>2 DEF Labels, InHand
    <3> QED
      BY <2>2, <3>1, <3>2 DEF Open, Goto
  <2>3. CASE Check(r)
    BY <2>0, <2>3 DEF Check, Goto, Labels, InHand
  <2>4. CASE Download(r)
    BY <2>0, <2>4 DEF Download, Fails, Goto, Labels, InHand
  <2>5. CASE Write(r) \/ Place(r) \/ Stamp(r)
    <3>1. got[r] = "whole"
      BY <2>5 DEF Write, Place, Stamp, InHand, CacheInv, HandsWhole
    <3> QED
      BY <2>0, <2>5, <3>1 DEF Write, Place, Stamp, Fails, Goto, readVars, Labels, InHand
  <2>6. CASE \E t \in Traces : ReadBegins(r, t)
    BY <2>6 DEF ReadBegins, Goto, Labels, InHand
  <2> QED
    BY <2>1, <2>2, <2>3, <2>4, <2>5, <2>6 DEF ReadStep
<1>5. pc' \in [Procs -> Labels] /\ got' \in [Readers -> {"whole", "altered", None}]
  BY <1>4 DEF CacheInv, ReadTypeOK
<1>6. HandsWhole'
  BY <1>4 DEF CacheInv, ReadTypeOK, HandsWhole, Procs
<1>7. LookupsWant' /\ want' \in [Readers -> Traces \cup {None}]
  <2>1. CASE \E t \in Traces : ReadBegins(r, t)
    BY <2>1 DEF ReadBegins, Goto, Procs, CacheInv, ReadTypeOK, LookupsWant
  <2>2. CASE ReadStep(r)
    <3>1. \/ want' = want /\ \E label \in Labels :
                                 /\ pc' = [pc EXCEPT ![r] = label]
                                 /\ label \in Asking => pc[r] \in Asking
          \/ want' = [want EXCEPT ![r] = None] /\ pc' = [pc EXCEPT ![r] = "off"]
      BY <2>2 DEF ReadStep, Lookup, Open, Check, Download, Write, Place, Stamp,
                Fails, Goto, readVars, Labels, Asking
    <3> QED
      BY <3>1 DEF Procs, Asking, CacheInv, ReadTypeOK, LookupsWant
  <2> QED
    BY <2>1, <2>2
<1> QED
  BY <1>1, <1>2, <1>3, <1>5, <1>6, <1>7 DEF CacheInv, ReadTypeOK

\* A process dies or throws.
LEMMA StopKeeps ==
  ASSUME CacheInv, NEW p \in Procs, Killed(p) \/ Refused(p)
  PROVE  CacheInv'
<1>1. /\ UNCHANGED <<now, file>> /\ troubles' = troubles + 1
      /\ pc' = [pc EXCEPT ![p] = "off"]
      /\ want' = [r \in Readers |-> IF r = p THEN None ELSE want[r]]
      /\ got' = [r \in Readers |-> IF r = p THEN None ELSE got[r]]
  BY DEF Killed, Refused, Stopped, Goto
<1>2. temps' \in [Readers -> 0..MaxTime \cup {None}]
  BY DEF Killed, Refused, CacheInv, ReadTypeOK
<1>3. ReadTypeOK'
  <2>1. troubles' \in 0..MaxTroubles
    BY BoundsAssumption DEF Killed, Refused, Stopped, CacheInv, ReadTypeOK
  <2> QED
    BY <1>1, <1>2, <2>1 DEF Labels, CacheInv, ReadTypeOK
<1>4. LookupsWant' /\ HandsWhole'
  BY <1>1 DEF InHand, Asking, Procs, CacheInv, ReadTypeOK, LookupsWant, HandsWhole
<1>5. FilesWhole'
  BY <1>1 DEF CacheInv, ReadTypeOK, FilesWhole
<1> QED
  BY <1>3, <1>4, <1>5 DEF CacheInv

\* A refused stat is passed over, and a refused read of an entry removes it.
LEMMA DroppedKeeps ==
  ASSUME CacheInv,
         (\E p \in Procs : LookRefused(p)) \/ (\E r \in Readers : MissRefused(r))
  PROVE  CacheInv'
<1>1. UNCHANGED <<now, temps, want, got>> /\ troubles' = troubles + 1 /\ troubles < MaxTroubles
  BY DEF LookRefused, MissRefused, readVars
<1>2. troubles' \in 0..MaxTroubles
  BY <1>1, BoundsAssumption DEF CacheInv, ReadTypeOK
<1>3. file' \in [Traces -> Entry \cup {None}]
  BY DEF LookRefused, MissRefused, UnlinkIfPresent, CacheInv, ReadTypeOK
<1>4. \/ pc' = pc
      \/ \E r \in Readers : pc[r] \in {"lookup", "open"} /\ pc' = [pc EXCEPT ![r] = "download"]
  BY DEF LookRefused, MissRefused, Goto
<1>5. /\ pc' \in [Procs -> Labels]
      /\ \A r \in Readers : /\ pc'[r] \in InHand => pc[r] \in InHand
                            /\ pc'[r] \in Asking => pc[r] \in Asking
  BY <1>4 DEF InHand, Asking, Labels, Procs, CacheInv, ReadTypeOK
<1>6. ReadTypeOK'
  BY <1>1, <1>2, <1>3, <1>5 DEF CacheInv, ReadTypeOK
<1>7. LookupsWant' /\ HandsWhole'
  BY <1>1, <1>5 DEF CacheInv, LookupsWant, HandsWhole
<1>8. FilesWhole'
  BY <1>1, <1>2, <1>6 DEF CacheInv, ReadTypeOK, FilesWhole
<1> QED
  BY <1>6, <1>7, <1>8 DEF CacheInv

\* A file is damaged.
LEMMA DamageKeeps ==
  ASSUME CacheInv, NEW t \in Traces, NEW holds \in {"altered", "broken"}, Damaged(t, holds)
  PROVE  CacheInv'
<1>1. UNCHANGED <<now, temps, pc, want, got>> /\ troubles' = troubles + 1
  BY DEF Damaged, readVars
<1>2. file' \in [Traces -> Entry \cup {None}]
  BY DEF Damaged, Entry, CacheInv, ReadTypeOK
<1>3. troubles' \in 0..MaxTroubles
  BY BoundsAssumption DEF Damaged, CacheInv, ReadTypeOK
<1>4. ReadTypeOK'
  BY <1>1, <1>2, <1>3 DEF CacheInv, ReadTypeOK
<1> QED
  BY <1>1, <1>4 DEF CacheInv, ReadTypeOK, LookupsWant, HandsWhole, FilesWhole

\* The directory is empty at first.
LEMMA CacheStarts ==
  ASSUME CacheInit
  PROVE  CacheInv
BY BoundsAssumption
DEF CacheInit, CacheInv, ReadTypeOK, LookupsWant, HandsWhole, FilesWhole, Asking, InHand,
    Labels, Procs

\* Every step leaves what reads use as it should be.
LEMMA CacheStepKeeps ==
  ASSUME CacheInv, [CacheNext]_cacheVars
  PROVE  CacheInv'
<1>1. CASE UNCHANGED cacheVars
  BY <1>1 DEF cacheVars, readVars, CacheInv, ReadTypeOK, LookupsWant, HandsWhole, FilesWhole
<1>2. CASE Tick
  <2>1. now' \in 0..MaxTime
    BY <1>2, BoundsAssumption DEF Tick, CacheInv, ReadTypeOK
  <2>2. ReadTypeOK'
    BY <1>2, <2>1 DEF Tick, readVars, CacheInv, ReadTypeOK
  <2> QED
    BY <1>2, <2>2 DEF Tick, readVars, CacheInv, ReadTypeOK, LookupsWant, HandsWhole, FilesWhole
<1>3. CASE CacheNext /\ ~Tick
  BY <1>3, PassKeeps, ReadKeeps, StopKeeps, DroppedKeeps, DamageKeeps DEF CacheNext
<1> QED
  BY <1>1, <1>2, <1>3

\* Whatever becomes of the cached entry or of the envelope, and however reads,
\* purges and clears interleave, a read returns the trace it was asked for, and
\* an entry that nobody damaged is whole.
THEOREM ReadsReturnTheTrace == CacheSpec => []ReadsAreGenuine
<1>1. CacheInit => CacheInv
  BY CacheStarts
<1>2. CacheInv /\ [CacheNext]_cacheVars => CacheInv'
  BY CacheStepKeeps
<1>3. CacheInv => ReadsAreGenuine
  BY DEF CacheInv, HandsWhole, FilesWhole, InHand, ReadsAreGenuine
<1> QED
  BY <1>1, <1>2, <1>3, PTL DEF CacheSpec

----------------------------------------------------------------------------
(* The bytes of a set of entries.                                          *)

\* The size of some entries together, and the entry it is counted from.
Sum(S) == MapThenSumSet(LAMBDA t : Bytes[t], S)
Pick(S) == CHOOSE t \in S : TRUE
Adds(f, S) ==
  f = [s \in SUBSET S |-> IF s = {} THEN 0 ELSE Bytes[Pick(s)] + f[s \ {Pick(s)}]]

\* Among the subsets of a finite set there is one with no smaller one.
LEMMA LeastSubset ==
  ASSUME NEW S, IsFiniteSet(S), NEW C \in SUBSET SUBSET S, C # {}
  PROVE  \E s \in C : \A r \in C : r \subseteq s => r = s
<1>1. PICK s \in C : \A r \in C : <<r, s>> \notin StrictSubsetOrdering(S)
  BY FS_StrictSubsetOrderingWellFounded, FS_FiniteSubsetsOfFinite, WFMin
<1> QED
  BY <1>1 DEF StrictSubsetOrdering

\* The element that is picked is one of the set.
LEMMA PickedIsIn ==
  ASSUME NEW S, S # {}
  PROVE  Pick(S) \in S
BY DEF Pick

\* What adds the sizes up is unique.
LEMMA AddsOneWay ==
  ASSUME NEW S, IsFiniteSet(S), NEW f, NEW g, Adds(f, S), Adds(g, S)
  PROVE  f = g
<1> DEFINE C == {s \in SUBSET S : f[s] # g[s]}
<1>1. CASE C # {}
  <2>0. C \in SUBSET SUBSET S
    OBVIOUS
  <2>1. PICK s \in C : \A r \in C : r \subseteq s => r = s
    <3> HIDE DEF C
    <3> QED
      BY <1>1, <2>0, LeastSubset
  <2>2. s # {}
    BY <2>1 DEF Adds
  <2>3. Pick(s) \in s
    BY <2>2, PickedIsIn
  <2>4. f[s \ {Pick(s)}] = g[s \ {Pick(s)}]
    BY <2>1, <2>3
  <2> QED
    BY <2>1, <2>2, <2>4 DEF Adds
<1>2. CASE C = {}
  BY <1>2 DEF Adds
<1> QED
  BY <1>1, <1>2

\* The sum of a set is what adds its sizes up.
LEMMA SumIsChosen ==
  ASSUME NEW S
  PROVE  Sum(S) = (CHOOSE f : Adds(f, S))[S]
BY DEF Sum, MapThenSumSet, MapThenFoldSet, Pick, Adds

\* The sum is that of one element and of the others.
LEMMA SumOfOneAndOthers ==
  ASSUME NEW S, IsFiniteSet(S)
  PROVE  Sum(S) = IF S = {} THEN 0 ELSE Bytes[Pick(S)] + Sum(S \ {Pick(S)})
<1> DEFINE Right(s) == Sum(s) = IF s = {} THEN 0 ELSE Bytes[Pick(s)] + Sum(s \ {Pick(s)})
           C == {s \in SUBSET S : ~Right(s)}
<1>1. CASE C # {}
  <2>0. C \in SUBSET SUBSET S
    OBVIOUS
  <2>1. PICK s \in C : \A r \in C : r \subseteq s => r = s
    <3> HIDE DEF C
    <3> QED
      BY <1>1, <2>0, LeastSubset
  <2>2. IsFiniteSet(s) /\ s \in SUBSET S
    BY <2>1, FS_Subset
  <2> DEFINE h == [r \in SUBSET s |-> IF r = {} THEN 0 ELSE Bytes[Pick(r)] + Sum(r \ {Pick(r)})]
  <2>3. \A r \in SUBSET s : r # s => h[r] = Sum(r)
    BY <2>1, <2>2
  <2>4. \A r \in SUBSET s : r # {} => h[r \ {Pick(r)}] = Sum(r \ {Pick(r)})
    <3> SUFFICES ASSUME NEW r \in SUBSET s, r # {} PROVE h[r \ {Pick(r)}] = Sum(r \ {Pick(r)})
      OBVIOUS
    <3>1. Pick(r) \in r
      BY PickedIsIn
    <3>2. r \ {Pick(r)} \in SUBSET s /\ r \ {Pick(r)} # s
      BY <3>1
    <3> HIDE DEF h
    <3> QED
      BY <2>3, <3>2
  <2>5. Adds(h, s)
    <3>1. h = [r \in SUBSET s |-> IF r = {} THEN 0 ELSE Bytes[Pick(r)] + h[r \ {Pick(r)}]]
      BY <2>4
    <3> HIDE DEF h
    <3> QED
      BY <3>1 DEF Adds
  <2>6. h[s] = IF s = {} THEN 0 ELSE Bytes[Pick(s)] + Sum(s \ {Pick(s)})
    OBVIOUS
  <2> HIDE DEF h
  <2>7. (CHOOSE f : Adds(f, s)) = h
    BY <2>2, <2>5, AddsOneWay
  <2>8. Right(s)
    BY <2>6, <2>7, SumIsChosen
  <2> QED
    BY <2>1, <2>8
<1>2. CASE C = {}
  BY <1>2
<1> QED
  BY <1>1, <1>2

\* The sum of finitely many entries is a number.
LEMMA SumIsNat ==
  ASSUME NEW S \in SUBSET Traces, IsFiniteSet(S)
  PROVE  Sum(S) \in Nat
<1> DEFINE C == {s \in SUBSET S : Sum(s) \notin Nat}
<1>1. CASE C # {}
  <2>0. C \in SUBSET SUBSET S
    OBVIOUS
  <2>1. PICK s \in C : \A r \in C : r \subseteq s => r = s
    <3> HIDE DEF C
    <3> QED
      BY <1>1, <2>0, LeastSubset
  <2>2. IsFiniteSet(s) /\ s \in SUBSET S
    BY <2>1, FS_Subset
  <2>3. Sum(s) = IF s = {} THEN 0 ELSE Bytes[Pick(s)] + Sum(s \ {Pick(s)})
    BY <2>2, SumOfOneAndOthers
  <2>4. CASE s # {}
    <3>1. Pick(s) \in s
      BY <2>4, PickedIsIn
    <3>2. Sum(s \ {Pick(s)}) \in Nat
      BY <2>1, <3>1
    <3>3. Bytes[Pick(s)] \in Nat
      BY <2>2, <3>1, BytesAssumption
    <3> QED
      BY <2>1, <2>3, <2>4, <3>2, <3>3
  <2> QED
    BY <2>1, <2>3, <2>4
<1>2. CASE C = {}
  BY <1>2
<1> QED
  BY <1>1, <1>2

\* An element more adds its size.
LEMMA SumOfOneMore ==
  ASSUME NEW S \in SUBSET Traces, IsFiniteSet(S), NEW t \in S
  PROVE  Sum(S) = Bytes[t] + Sum(S \ {t})
<1> DEFINE C == {s \in SUBSET S : \E x \in s : Sum(s) # Bytes[x] + Sum(s \ {x})}
<1>1. CASE C # {}
  <2>0. C \in SUBSET SUBSET S
    OBVIOUS
  <2>1. PICK s \in C : \A r \in C : r \subseteq s => r = s
    <3> HIDE DEF C
    <3> QED
      BY <1>1, <2>0, LeastSubset
  <2>2. PICK x \in s : Sum(s) # Bytes[x] + Sum(s \ {x})
    BY <2>1
  <2>3. IsFiniteSet(s) /\ s \in SUBSET S
    BY <2>1, FS_Subset
  <2>4. PICK y \in s : y = Pick(s) /\ Sum(s) = Bytes[y] + Sum(s \ {y})
    BY <2>3, SumOfOneAndOthers, PickedIsIn
  <2>5. x # y
    BY <2>2, <2>4
  <2>6. Sum(s \ {y}) = Bytes[x] + Sum((s \ {y}) \ {x})
    <3>1. s \ {y} \notin C /\ s \ {y} \in SUBSET S /\ x \in s \ {y}
      BY <2>1, <2>3, <2>4, <2>5
    <3> QED
      BY <3>1
  <2>7. Sum(s \ {x}) = Bytes[y] + Sum((s \ {x}) \ {y})
    <3>1. s \ {x} \notin C /\ s \ {x} \in SUBSET S /\ y \in s \ {x}
      BY <2>1, <2>3, <2>4, <2>5
    <3> QED
      BY <3>1
  <2>8. (s \ {y}) \ {x} = (s \ {x}) \ {y}
    OBVIOUS
  <2>9. PICK n \in Nat : n = Sum((s \ {x}) \ {y})
    <3>1. (s \ {x}) \ {y} \in SUBSET S
      BY <2>3
    <3>2. IsFiniteSet((s \ {x}) \ {y})
      BY <3>1, FS_Subset
    <3> QED
      BY <3>1, <3>2, SumIsNat
  <2>10. Bytes[x] \in Nat /\ Bytes[y] \in Nat
    BY <2>3, <2>2, <2>4, BytesAssumption
  <2>11. /\ Sum(s) = Bytes[y] + (Bytes[x] + n)
         /\ Sum(s \ {x}) = Bytes[y] + n
    BY <2>4, <2>6, <2>7, <2>8, <2>9
  <2> QED
    BY <2>2, <2>10, <2>11
<1>2. CASE C = {}
  BY <1>2
<1> QED
  BY <1>1, <1>2

\* The sum grows with the set.
LEMMA SumOfSubset ==
  ASSUME NEW S \in SUBSET Traces, IsFiniteSet(S), NEW T \in SUBSET S
  PROVE  Sum(T) <= Sum(S)
<1> DEFINE C == {s \in SUBSET S : T \subseteq s /\ ~(Sum(T) <= Sum(s))}
<1>1. CASE C # {}
  <2>0. C \in SUBSET SUBSET S
    OBVIOUS
  <2>1. PICK s \in C : \A r \in C : r \subseteq s => r = s
    <3> HIDE DEF C
    <3> QED
      BY <1>1, <2>0, LeastSubset
  <2>2. IsFiniteSet(s) /\ IsFiniteSet(T) /\ s \in SUBSET Traces /\ T \in SUBSET Traces
    BY <2>1, FS_Subset
  <2>3. Sum(s) \in Nat /\ Sum(T) \in Nat
    BY <2>2, SumIsNat
  <2>4. PICK x \in s : x \notin T
    <3>1. s # T
      BY <2>1, <2>3
    <3> QED
      BY <2>1, <3>1
  <2>5. Sum(s) = Bytes[x] + Sum(s \ {x})
    BY <2>2, SumOfOneMore
  <2>6. s \ {x} \notin C /\ s \ {x} \in SUBSET S /\ T \subseteq s \ {x}
    BY <2>1, <2>4
  <2>7. Sum(T) <= Sum(s \ {x})
    BY <2>6
  <2>8. Sum(s \ {x}) \in Nat
    BY <2>2, FS_RemoveElement, SumIsNat
  <2>9. Bytes[x] \in Nat
    BY <2>2, BytesAssumption
  <2> QED
    BY <2>1, <2>3, <2>5, <2>7, <2>8, <2>9
<1>2. CASE C = {}
  BY <1>2
<1> QED
  BY <1>1, <1>2
----------------------------------------------------------------------------
(* The passes over the directory.                                          *)

\* A set of times has an earliest one, and Min finds it.
LEMMA LeastNatural ==
  ASSUME NEW T \in SUBSET Nat, T # {}
  PROVE  Min(T) \in T /\ \A n \in T : Min(T) <= n
<1>1. PICK m \in T : \A n \in T : ~ (<<n, m>> \in OpToRel(<, Nat))
  BY NatLessThanWellFounded, WFMin
<1>2. \A n \in T : ~(n < m)
  BY <1>1 DEF OpToRel
<1>3. \A n \in T : m <= n
  BY <1>2
<1> QED
  BY <1>3 DEF Min

\* The traces of a listing.
Of(listing) == {e.trace : e \in listing}

\* The types of what a pass uses.
PassTypeOK ==
  /\ names \in [Procs -> SUBSET (Traces \cup Readers)]
  /\ seen \in [Procs -> SUBSET Listed] /\ kept \in [Procs -> SUBSET Listed]
  /\ total \in [Procs -> Nat]
  /\ spared \in [Procs -> SUBSET Traces]

\* A listing notes an entry once, when it has looked at its name.
NotedOnce(p) ==
  /\ \A e \in seen[p] \cup kept[p] : e.trace \notin names[p]
  /\ \A e, f \in seen[p] \cup kept[p] : e.trace = f.trace => e = f
  /\ seen[p] \cap kept[p] = {}

\* What a pass answers for has still to be dealt with, or is retained.
Covers(p) ==
  InPass(p) => \A t \in Old(p) : t \in names[p] \/ \E e \in seen[p] \cup kept[p] : e.trace = t

\* The total is never less than the size of what is retained; an entry somebody
\* else removed makes it more.
Counts(p) ==
  \E K \in SUBSET Traces : IsFiniteSet(K) /\ K = Of(kept[p]) /\ Sum(K) <= total[p]

\* clear retains nothing.
ClearsAll(p) == pc[p] = "clearing" => kept[p] = {}

\* After a pass what it answers for is among a few that are not too large.
Within(p) ==
  Passed(p) => \E S \in SUBSET Traces :
                 /\ IsFiniteSet(S) /\ Sum(S) <= MaxBytes /\ Old(p) \subseteq S
                 /\ pc[p] = "cleared" => S = {}

PassOf(p) == NotedOnce(p) /\ Covers(p) /\ Counts(p) /\ ClearsAll(p) /\ Within(p)

PassInv == CacheInv /\ PassTypeOK /\ \A p \in Procs : PassOf(p)

\* Where a process is neither in a pass nor at the end of one.
Elsewhere == {"off", "served", "open", "download", "check", "write", "place", "stamp"}

\* Nothing is retained and nothing noted, at the start of a pass and without one.
LEMMA NothingNoted ==
  ASSUME NEW p \in Procs, seen'[p] = {}, kept'[p] = {}, total'[p] = 0
  PROVE  (NotedOnce(p) /\ Counts(p) /\ ClearsAll(p))'
<1>1. Sum({}) = 0 /\ IsFiniteSet({})
  BY SumOfOneAndOthers, FS_EmptySet
<1>2. Counts(p)'
  BY <1>1 DEF Counts, Of
<1> QED
  BY <1>2 DEF NotedOnce, ClearsAll

\* A step of another process leaves a pass what it was if it puts no entry in
\* place that the pass does not know of.
LEMMA OthersKeep ==
  ASSUME PassInv, NEW p \in Procs,
         names'[p] = names[p], seen'[p] = seen[p], kept'[p] = kept[p], total'[p] = total[p],
         \/ pc'[p] \in Elsewhere
         \/ /\ pc'[p] = pc[p]
            /\ InPass(p) \/ Passed(p) => \A t \in Old(p)' : t \in Old(p)
  PROVE  PassOf(p)'
<1>1. PassOf(p)
  BY DEF PassInv
<1>2. NotedOnce(p)' /\ Counts(p)'
  BY <1>1 DEF PassOf, NotedOnce, Counts
<1>3. CASE pc'[p] \in Elsewhere
  <2>1. ~InPass(p)' /\ ~Passed(p)' /\ pc'[p] # "clearing"
    BY <1>3 DEF Elsewhere, InPass, Passed
  <2> QED
    BY <1>2, <2>1 DEF PassOf, Covers, ClearsAll, Within
<1>4. CASE pc'[p] = pc[p] /\ (InPass(p) \/ Passed(p) => \A t \in Old(p)' : t \in Old(p))
  <2>1. (InPass(p)' <=> InPass(p)) /\ (Passed(p)' <=> Passed(p))
    BY <1>4 DEF InPass, Passed
  <2>2. Covers(p)' /\ ClearsAll(p)'
    BY <1>1, <1>4, <2>1 DEF PassOf, Covers, ClearsAll
  <2>3. Within(p)'
    BY <1>1, <1>4, <2>1 DEF PassOf, Within
  <2> QED
    BY <1>2, <2>2, <2>3 DEF PassOf
<1> QED
  BY <1>3, <1>4

\* A listing has every entry that is there still to look at.
LEMMA ListingKeeps ==
  ASSUME PassInv, NEW p \in Procs, Listing(p),
         NEW label \in {"getting", "storing", "purging", "clearing"}, Goto(p, label),
         \A t \in Traces : file'[t] # None => file[t] # None
  PROVE  PassTypeOK' /\ PassOf(p)'
<1>1. PassTypeOK'
  BY DEF Listing, PassInv, PassTypeOK
<1>2. /\ names'[p] = {t \in Traces : file[t] # None} \cup {r \in Readers : temps[r] # None}
      /\ seen'[p] = {} /\ kept'[p] = {} /\ total'[p] = 0 /\ pc'[p] = label
  BY DEF Listing, Goto, PassInv, PassTypeOK, CacheInv, ReadTypeOK
<1>3. Covers(p)'
  BY <1>2 DEF Covers, Old
<1>4. Within(p)'
  BY <1>2 DEF Within, Passed
<1> QED
  BY <1>1, <1>2, <1>3, <1>4, NothingNoted DEF PassOf

\* Looking at a name notes the entry that has it.
LEMMA LookKeeps ==
  ASSUME PassInv, NEW p \in Procs, Look(p)
  PROVE  PassTypeOK' /\ PassOf(p)'
<1> DEFINE Found(n) == {[trace |-> t, at |-> file[t].at] :
                          t \in {u \in Traces : u = n /\ file[u] # None}}
<1>1. PICK n \in names[p] : /\ names' = [names EXCEPT ![p] = @ \ {n}]
                            /\ seen' = [seen EXCEPT ![p] = @ \cup Found(n)]
  BY DEF Look
<1>2. PassOf(p) /\ PassTypeOK /\ InPass(p) /\ UNCHANGED <<file, pc, kept, total, spared>>
  BY DEF Look, PassInv
<1>3. PICK F \in SUBSET Listed : F = Found(n)
  <2>1. \A t \in Traces : file[t] # None => [trace |-> t, at |-> file[t].at] \in Listed
    BY DEF PassInv, CacheInv, ReadTypeOK, Entry, Listed
  <2> QED
    BY <2>1
<1>4. /\ \A e \in F : e.trace = n
      /\ \A e, f \in F : e = f
      /\ n \in Traces /\ file[n] # None => \E e \in F : e.trace = n
  <2>1. CASE n \in Traces /\ file[n] # None
    <3>1. PICK e \in Listed : e = [trace |-> n, at |-> file[n].at]
      BY <2>1 DEF PassInv, CacheInv, ReadTypeOK, Entry, Listed
    <3>2. F = {e} /\ e.trace = n
      BY <1>3, <2>1, <3>1
    <3> QED
      BY <3>2
  <2>2. CASE ~(n \in Traces /\ file[n] # None)
    <3>1. F = {}
      BY <1>3, <2>2
    <3> QED
      BY <2>2, <3>1
  <2> QED
    BY <2>1, <2>2
<1>5. names'[p] = names[p] \ {n} /\ seen'[p] = seen[p] \cup F /\ kept'[p] = kept[p]
  BY <1>1, <1>2, <1>3 DEF PassTypeOK
<1>6. PassTypeOK'
  BY <1>1, <1>2, <1>3 DEF PassTypeOK
<1>7. NotedOnce(p)'
  BY <1>1, <1>2, <1>4, <1>5 DEF PassOf, NotedOnce
<1>8. Counts(p)' /\ ClearsAll(p)' /\ Within(p)'
  BY <1>2 DEF PassOf, Counts, ClearsAll, Within, InPass, Passed
<1>9. Covers(p)'
  <2>1. \A t \in Old(p)' : t \in Old(p) /\ t \in Traces /\ file[t] # None
    BY <1>2 DEF Old
  <2> QED
    BY <1>2, <1>4, <1>5, <2>1 DEF PassOf, Covers
<1> QED
  BY <1>6, <1>7, <1>8, <1>9 DEF PassOf

\* An entry whose stat is refused is none the pass answers for.
LEMMA RefusalKeeps ==
  ASSUME PassInv, NEW p \in Procs, LookRefused(p)
  PROVE  PassTypeOK' /\ PassOf(p)'
<1>1. PICK t \in names[p] \cap Traces : /\ names' = [names EXCEPT ![p] = @ \ {t}]
                                       /\ spared' = [spared EXCEPT ![p] = @ \cup {t}]
  BY DEF LookRefused
<1>2. PassOf(p) /\ PassTypeOK /\ InPass(p) /\ UNCHANGED <<file, pc, seen, kept, total>>
  BY DEF LookRefused, PassInv
<1>3. names'[p] = names[p] \ {t} /\ spared'[p] = spared[p] \cup {t}
  BY <1>1, <1>2 DEF PassTypeOK
<1>4. PassTypeOK'
  BY <1>1, <1>2 DEF PassTypeOK
<1>5. NotedOnce(p)'
  BY <1>2, <1>3 DEF PassOf, NotedOnce
<1>6. Counts(p)' /\ ClearsAll(p)' /\ Within(p)'
  BY <1>2 DEF PassOf, Counts, ClearsAll, Within, InPass, Passed
<1>7. Covers(p)'
  <2>1. \A u \in Old(p)' : u \in Old(p) /\ u # t
    BY <1>2, <1>3 DEF Old
  <2> QED
    BY <1>2, <1>3, <2>1 DEF PassOf, Covers
<1> QED
  BY <1>4, <1>5, <1>6, <1>7 DEF PassOf

\* An entry that is judged goes or is retained.
LEMMA JudgeKeeps ==
  ASSUME PassInv, NEW p \in Procs, Judge(p)
  PROVE  PassTypeOK' /\ PassOf(p)'
<1>1. PassOf(p) /\ PassTypeOK /\ InPass(p) /\ UNCHANGED <<pc, names, spared>>
  BY DEF Judge, PassInv
<1>2. PICK e \in seen[p] :
        /\ seen' = [seen EXCEPT ![p] = @ \ {e}]
        /\ \/ UnlinkIfPresent(e.trace) /\ UNCHANGED <<kept, total>>
           \/ /\ pc[p] # "clearing"
              /\ kept' = [kept EXCEPT ![p] = @ \cup {e}]
              /\ total' = [total EXCEPT ![p] = @ + Bytes[e.trace]]
              /\ UNCHANGED file
  BY DEF Judge
<1>3. e \in Listed /\ e.trace \in Traces /\ Bytes[e.trace] \in Nat
  BY <1>1, <1>2, BytesAssumption DEF PassTypeOK, Listed
<1>4. seen'[p] = seen[p] \ {e}
  BY <1>1, <1>2 DEF PassTypeOK
<1>5. CASE UnlinkIfPresent(e.trace) /\ UNCHANGED <<kept, total>>
  <2>1. PassTypeOK'
    BY <1>1, <1>2, <1>5 DEF PassTypeOK
  <2>2. NotedOnce(p)'
    BY <1>1, <1>4, <1>5 DEF PassOf, NotedOnce
  <2>3. Counts(p)' /\ ClearsAll(p)' /\ Within(p)'
    BY <1>1, <1>5 DEF PassOf, Counts, ClearsAll, Within, InPass, Passed
  <2>4. \A t \in Old(p)' : t \in Old(p) /\ t # e.trace
    BY <1>1, <1>3, <1>5 DEF Old, UnlinkIfPresent, PassInv, CacheInv, ReadTypeOK
  <2>5. Covers(p)'
    BY <1>1, <1>4, <1>5, <2>4 DEF PassOf, Covers, InPass
  <2> QED
    BY <2>1, <2>2, <2>3, <2>5 DEF PassOf
<1>6. CASE /\ pc[p] # "clearing"
           /\ kept' = [kept EXCEPT ![p] = @ \cup {e}]
           /\ total' = [total EXCEPT ![p] = @ + Bytes[e.trace]]
           /\ UNCHANGED file
  <2>1. kept'[p] = kept[p] \cup {e} /\ total'[p] = total[p] + Bytes[e.trace]
    BY <1>1, <1>6 DEF PassTypeOK
  <2>2. PassTypeOK'
    BY <1>1, <1>2, <1>3, <1>6 DEF PassTypeOK
  <2>3. NotedOnce(p)'
    BY <1>1, <1>2, <1>4, <2>1 DEF PassOf, NotedOnce
  <2>4. ClearsAll(p)' /\ Within(p)'
    BY <1>1, <1>6 DEF PassOf, ClearsAll, Within, InPass, Passed
  <2>5. Covers(p)'
    <3>1. \A t \in Old(p)' : t \in Old(p)
      BY <1>1, <1>6 DEF Old
    <3> QED
      BY <1>1, <1>4, <2>1, <3>1 DEF PassOf, Covers, InPass
  <2>6. Counts(p)'
    <3>1. PICK K \in SUBSET Traces : IsFiniteSet(K) /\ K = Of(kept[p]) /\ Sum(K) <= total[p]
      BY <1>1 DEF PassOf, Counts
    <3>2. PICK t \in Traces : t = e.trace
      BY <1>3
    <3>3. K \cup {t} \in SUBSET Traces /\ IsFiniteSet(K \cup {t}) /\ (K \cup {t}) \ {t} \in SUBSET K
      BY <3>1, FS_AddElement
    <3>4. /\ Sum(K \cup {t}) = Bytes[t] + Sum((K \cup {t}) \ {t})
          /\ Sum((K \cup {t}) \ {t}) <= Sum(K)
      BY <3>1, <3>3, SumOfOneMore, SumOfSubset
    <3>5. Sum(K) \in Nat /\ Sum((K \cup {t}) \ {t}) \in Nat
      BY <3>1, <3>3, FS_Subset, SumIsNat
    <3>6. Bytes[t] \in Nat /\ total[p] \in Nat /\ total'[p] = total[p] + Bytes[t]
      BY <1>1, <1>3, <2>1, <3>2 DEF PassTypeOK
    <3>7. Sum(K \cup {t}) <= total'[p]
      BY <3>1, <3>4, <3>5, <3>6
    <3>8. K \cup {t} = Of(kept'[p])
      BY <2>1, <3>1, <3>2 DEF Of
    <3> QED
      BY <3>3, <3>7, <3>8 DEF Counts
  <2> QED
    BY <2>2, <2>3, <2>4, <2>5, <2>6 DEF PassOf
<1> QED
  BY <1>2, <1>5, <1>6

\* An entry that is evicted goes, and its size if it was still there.
LEMMA EvictKeeps ==
  ASSUME PassInv, NEW p \in Procs, Evict(p)
  PROVE  PassTypeOK' /\ PassOf(p)'
<1>1. PassOf(p) /\ PassTypeOK /\ InPass(p) /\ UNCHANGED <<pc, names, seen, spared>>
  BY DEF Evict, Judged, PassInv
<1>2. PICK e \in kept[p] :
        /\ kept' = [kept EXCEPT ![p] = @ \ {e}]
        /\ total' = [total EXCEPT ![p] = IF file[e.trace] = None THEN @ ELSE @ - Bytes[e.trace]]
        /\ UnlinkIfPresent(e.trace)
  BY DEF Evict
<1>3. PICK t \in Traces : t = e.trace
  BY <1>1, <1>2 DEF PassTypeOK, Listed
<1>4. kept'[p] = kept[p] \ {e}
  BY <1>1, <1>2 DEF PassTypeOK
<1>5. PICK K \in SUBSET Traces : IsFiniteSet(K) /\ K = Of(kept[p]) /\ Sum(K) <= total[p]
  BY <1>1 DEF PassOf, Counts
<1>6. t \in K /\ K \ {t} \in SUBSET Traces /\ IsFiniteSet(K \ {t})
  BY <1>2, <1>3, <1>5, FS_RemoveElement DEF Of
<1>7. Sum(K) = Bytes[t] + Sum(K \ {t}) /\ Sum(K \ {t}) \in Nat /\ Bytes[t] \in Nat
  BY <1>5, <1>6, SumOfOneMore, SumIsNat, BytesAssumption
<1>8. total'[p] \in Nat /\ Sum(K \ {t}) <= total'[p]
  <2>1. total[p] \in Nat /\ total'[p] \in {total[p], total[p] - Bytes[t]}
    BY <1>1, <1>2, <1>3 DEF PassTypeOK
  <2> QED
    BY <1>5, <1>7, <2>1
<1>9. PassTypeOK'
  <2>1. \E n : total' = [total EXCEPT ![p] = n]
    BY <1>2
  <2>2. total' \in [Procs -> Nat]
    BY <1>1, <1>8, <2>1 DEF PassTypeOK
  <2> QED
    BY <1>1, <1>2, <2>2 DEF PassTypeOK
<1>10. NotedOnce(p)'
  BY <1>1, <1>4 DEF PassOf, NotedOnce
<1>11. K \ {t} = Of(kept'[p])
  <2>1. \A f \in kept[p] : f.trace = t <=> f = e
    BY <1>1, <1>2, <1>3 DEF PassOf, NotedOnce
  <2> QED
    BY <1>4, <1>5, <2>1 DEF Of
<1>12. Counts(p)'
  BY <1>6, <1>8, <1>11 DEF Counts
<1>13. ClearsAll(p)' /\ Within(p)'
  BY <1>1, <1>4 DEF PassOf, ClearsAll, Within, InPass, Passed
<1>14. Covers(p)'
  <2>1. \A u \in Old(p)' : u \in Old(p) /\ u # t
    BY <1>1, <1>2, <1>3 DEF Old, UnlinkIfPresent, PassInv, CacheInv, ReadTypeOK
  <2> QED
    BY <1>1, <1>3, <1>4, <2>1 DEF PassOf, Covers, InPass
<1> QED
  BY <1>9, <1>10, <1>12, <1>13, <1>14 DEF PassOf

\* A pass that can evict nothing more has retained nothing too large.
LEMMA EndKeeps ==
  ASSUME PassInv, NEW p \in Procs, PassEnds(p)
  PROVE  PassTypeOK' /\ PassOf(p)'
<1>1. PassOf(p) /\ PassTypeOK /\ InPass(p) /\ UNCHANGED <<names, seen, spared, file>>
  BY DEF PassEnds, Judged, PassInv
<1>2. /\ names[p] = {} /\ seen[p] = {} /\ ~\E e \in kept[p] : MustGo(p, e)
      /\ pc' = [pc EXCEPT ![p] = After(p)]
      /\ kept' = [kept EXCEPT ![p] = {}] /\ total' = [total EXCEPT ![p] = 0]
  BY DEF PassEnds, Judged, Goto
<1>3. PassTypeOK'
  BY <1>1, <1>2 DEF PassTypeOK
<1>4. seen'[p] = {} /\ kept'[p] = {} /\ total'[p] = 0
  BY <1>1, <1>2 DEF PassTypeOK
<1>5. After(p) \in {"lookup", "stored", "purged", "cleared"}
      /\ (After(p) = "cleared" => pc[p] = "clearing")
  BY <1>1 DEF InPass, After
<1>6. pc'[p] = After(p)
  BY <1>2 DEF PassInv, CacheInv, ReadTypeOK
<1>7. Covers(p)'
  BY <1>5, <1>6 DEF Covers, InPass
<1>8. PICK K \in SUBSET Traces : IsFiniteSet(K) /\ K = Of(kept[p]) /\ Sum(K) <= total[p]
  BY <1>1 DEF PassOf, Counts
<1>9. Old(p)' \subseteq K
  <2>1. \A t \in Old(p)' : t \in Old(p)
    BY <1>1 DEF Old
  <2>2. \A t \in Old(p) : \E e \in kept[p] : e.trace = t
    BY <1>1, <1>2 DEF PassOf, Covers
  <2> QED
    BY <1>8, <2>1, <2>2 DEF Of
<1>10. Sum(K) <= MaxBytes
  <2>1. CASE kept[p] = {}
    <3>1. K = {}
      BY <1>8, <2>1 DEF Of
    <3>2. Sum(K) = 0
      BY <1>8, <3>1, SumOfOneAndOthers
    <3> QED
      BY <3>2, LimitsAssumption
  <2>2. CASE kept[p] # {}
    <3>1. PICK T \in SUBSET Nat : T = {e.at : e \in kept[p]}
      <4>1. \A e \in kept[p] : e.at \in Nat
        BY <1>1 DEF PassTypeOK, Listed
      <4> QED
        BY <4>1
    <3>2. T # {}
      BY <2>2, <3>1
    <3>3. PICK e \in kept[p] : e.at = Min(T)
      BY <3>1, <3>2, LeastNatural
    <3>4. \A f \in kept[p] : e.at <= f.at
      BY <3>1, <3>2, <3>3, LeastNatural
    <3>5. ~(total[p] > MaxBytes)
      BY <1>2, <3>4 DEF MustGo
    <3>6. Sum(K) \in Nat /\ total[p] \in Nat
      BY <1>1, <1>8, SumIsNat DEF PassTypeOK
    <3> QED
      BY <1>8, <3>5, <3>6, LimitsAssumption
  <2> QED
    BY <2>1, <2>2
<1>11. pc'[p] = "cleared" => K = {}
  BY <1>1, <1>5, <1>6, <1>8 DEF PassOf, ClearsAll, Of
<1>12. Within(p)'
  BY <1>8, <1>9, <1>10, <1>11 DEF Within
<1> QED
  BY <1>3, <1>4, <1>7, <1>12, NothingNoted DEF PassOf

\* A step of p leaves the passes of the others what they were.
LEMMA PassesOfOthers ==
  ASSUME PassInv, NEW p \in Procs, NEW q \in Procs \ {p},
         \/ SweepBegins(p) \/ ClearBegins(p) \/ PassStep(p) \/ LookRefused(p)
         \/ Killed(p) \/ Refused(p)
         \/ p \in Readers /\ (ReadStep(p) \/ MissRefused(p) \/ \E t \in Traces : ReadBegins(p, t))
  PROVE  PassOf(q)'
<1>1. /\ names'[q] = names[q] /\ seen'[q] = seen[q] /\ kept'[q] = kept[q]
      /\ total'[q] = total[q] /\ pc'[q] = pc[q]
  <2>1. /\ \E v : names' = [names EXCEPT ![p] = v]
        /\ \E v : seen' = [seen EXCEPT ![p] = v]
        /\ \E v : kept' = [kept EXCEPT ![p] = v]
        /\ \E v : total' = [total EXCEPT ![p] = v]
        /\ \E v : pc' = [pc EXCEPT ![p] = v]
    <3>0. /\ names = [names EXCEPT ![p] = names[p]] /\ seen = [seen EXCEPT ![p] = seen[p]]
          /\ kept = [kept EXCEPT ![p] = kept[p]] /\ total = [total EXCEPT ![p] = total[p]]
          /\ pc = [pc EXCEPT ![p] = pc[p]]
      BY DEF PassInv, PassTypeOK, CacheInv, ReadTypeOK
    <3>1. CASE SweepBegins(p) \/ ClearBegins(p)
      BY <3>1 DEF SweepBegins, ClearBegins, Listing, Goto
    <3>2. CASE Look(p)
      BY <3>0, <3>2 DEF Look
    <3>3. CASE Judge(p)
      BY <3>0, <3>3 DEF Judge
    <3>4. CASE Evict(p)
      BY <3>0, <3>4 DEF Evict
    <3>5. CASE PassEnds(p)
      BY <3>0, <3>5 DEF PassEnds, Goto
    <3>6. CASE Killed(p) \/ Refused(p)
      BY <3>6 DEF Killed, Refused, Stopped, Goto
    <3>7. CASE \E t \in Traces : ReadBegins(p, t)
      BY <3>7 DEF ReadBegins, Listing, Goto
    <3>8. CASE Stamp(p)
      BY <3>0, <3>8 DEF Stamp, Listing, Goto, Fails, passVars
    <3>10. CASE LookRefused(p) \/ MissRefused(p)
      BY <3>0, <3>10 DEF LookRefused, MissRefused, Goto, passVars
    <3>9. CASE Lookup(p) \/ Open(p) \/ Check(p) \/ Download(p) \/ Write(p) \/ Place(p)
      BY <3>0, <3>9 DEF Lookup, Open, Check, Download, Write, Place, Goto, Fails, passVars
    <3> QED
      BY <3>1, <3>2, <3>3, <3>4, <3>5, <3>6, <3>7, <3>8, <3>9, <3>10 DEF PassStep, ReadStep
  <2> QED
    BY <2>1
<1>2. CASE p \in Readers /\ Place(p)
  <2>1. CASE temps[p] = None
    <3>1. file' = file /\ spared' = spared
      BY <1>2, <2>1 DEF Place
    <3> QED
      BY <1>1, <3>1, OthersKeep DEF Old
  <2>2. CASE temps[p] # None
    <3>1. PICK t : /\ \A u \in Traces \ {t} : file'[u] = file[u]
                   /\ spared' = [o \in Procs |-> IF InPass(o) \/ Passed(o)
                                                 THEN spared[o] \cup {t} ELSE {}]
      BY <1>2, <2>2 DEF Place, PassInv, CacheInv, ReadTypeOK
    <3>2. InPass(q) \/ Passed(q) => spared'[q] = spared[q] \cup {t}
      BY <3>1
    <3>3. InPass(q) \/ Passed(q) => \A u \in Old(q)' : u \in Old(q)
      BY <3>1, <3>2 DEF Old
    <3> QED
      BY <1>1, <3>3, OthersKeep
  <2> QED
    BY <2>1, <2>2
<1>3. CASE ~(p \in Readers /\ Place(p))
  <2>1. \A t \in Traces : file'[t] # None => file[t] # None
    <3>1. CASE SweepBegins(p) \/ ClearBegins(p) \/ PassStep(p) \/ Killed(p) \/ Refused(p)
      BY <3>1 DEF SweepBegins, ClearBegins, PassStep, Look, Judge, Evict, PassEnds, Killed,
                  Refused, Stopped, UnlinkIfPresent, PassInv, CacheInv, ReadTypeOK
    <3>2. CASE LookRefused(p) \/ \E t \in Traces : ReadBegins(p, t)
      BY <3>2 DEF LookRefused, ReadBegins
    <3>3. CASE p \in Readers /\ (ReadStep(p) \/ MissRefused(p)) /\ ~Stamp(p)
      <4>1. file' = file \/ \E t : file' = [file EXCEPT ![t] = None]
        BY <1>3, <3>3 DEF ReadStep, Lookup, Open, MissRefused, Check, Download, Write,
                          UnlinkIfPresent
      <4> QED
        BY <4>1 DEF PassInv, CacheInv, ReadTypeOK
    <3>4. CASE Stamp(p)
      BY <3>4 DEF Stamp, PassInv, CacheInv, ReadTypeOK
    <3> QED
      BY <3>1, <3>2, <3>3, <3>4
  <2>2. spared'[q] = spared[q]
    <3>1. \/ spared' = spared
          \/ \E v : spared' = [spared EXCEPT ![p] = v]
      <4>1. CASE LookRefused(p)
        BY <4>1 DEF LookRefused
      <4>2. CASE ~LookRefused(p)
        BY <1>3, <4>2 DEF SweepBegins, ClearBegins, PassStep, Look, Judge, Evict, PassEnds, Killed,
             Refused, Stopped, ReadBegins, ReadStep, Lookup, Open, MissRefused, Check, Download,
             Write, Stamp, Listing
      <4> QED
        BY <4>1, <4>2
    <3> QED
      BY <3>1 DEF PassInv, PassTypeOK
  <2>3. \A t \in Old(q)' : t \in Old(q)
    BY <2>1, <2>2 DEF Old
  <2> QED
    BY <1>1, <2>3, OthersKeep
<1> QED
  BY <1>2, <1>3

\* A reader is in no pass but when it begins to read and when it has stored.
LEMMA ReaderPasses ==
  ASSUME PassInv, NEW r \in Readers,
         ReadStep(r) \/ MissRefused(r) \/ \E t \in Traces : ReadBegins(r, t)
  PROVE  PassTypeOK' /\ PassOf(r)'
<1>0. r \in Procs
  BY DEF Procs
<1>1. CASE \E t \in Traces : ReadBegins(r, t)
  <2>1. Listing(r) /\ Goto(r, "getting") /\ UNCHANGED file
    BY <1>1 DEF ReadBegins
  <2> QED
    BY <1>0, <2>1, ListingKeeps
<1>2. CASE Stamp(r) /\ file[want[r]] # None
  <2>1. Listing(r) /\ Goto(r, "storing")
    BY <1>2 DEF Stamp
  <2>2. \A t \in Traces : file'[t] # None => file[t] # None
    BY <1>2 DEF Stamp, PassInv, CacheInv, ReadTypeOK
  <2> QED
    BY <1>0, <2>1, <2>2, ListingKeeps
<1>3. CASE (ReadStep(r) \/ MissRefused(r)) /\ ~(Stamp(r) /\ file[want[r]] # None)
  <2>1. \E label \in Elsewhere : pc' = [pc EXCEPT ![r] = label]
    BY <1>3 DEF ReadStep, Lookup, Open, MissRefused, Check, Download, Write, Place, Stamp, Fails,
                Goto, Elsewhere
  <2>2. pc'[r] \in Elsewhere
    BY <1>0, <2>1 DEF PassInv, CacheInv, ReadTypeOK
  <2>3. UNCHANGED passVars
    BY <1>3 DEF ReadStep, Lookup, Open, MissRefused, Check, Download, Write, Place, Stamp
  <2>4. PassOf(r)'
    BY <1>0, <2>2, <2>3, OthersKeep DEF passVars
  <2>5. spared' \in [Procs -> SUBSET Traces]
    <3>1. CASE spared' = spared
      BY <3>1 DEF PassInv, PassTypeOK
    <3>2. CASE Place(r) /\ spared' # spared
      <4>1. PICK t \in Traces : spared' = [o \in Procs |-> IF InPass(o) \/ Passed(o)
                                                           THEN spared[o] \cup {t} ELSE {}]
        BY <3>2 DEF Place, Asking, PassInv, CacheInv, LookupsWant
      <4> QED
        BY <4>1 DEF PassInv, PassTypeOK
    <3>3. spared' = spared \/ Place(r)
      BY <1>3 DEF ReadStep, Lookup, Open, MissRefused, Check, Download, Write, Stamp
    <3> QED
      BY <3>1, <3>2, <3>3
  <2> QED
    BY <2>3, <2>4, <2>5 DEF passVars, PassInv, PassTypeOK
<1> QED
  BY <1>1, <1>2, <1>3 DEF ReadStep

\* Every step leaves every pass what it should be.
LEMMA PassStepKeeps ==
  ASSUME PassInv, [CacheNext]_cacheVars
  PROVE  PassInv'
<1>1. CacheInv'
  BY CacheStepKeeps DEF PassInv
<1>2. CASE UNCHANGED <<passVars, spared, pc>> /\ \A t \in Traces : file'[t] # None => file[t] # None
  <2>1. PassTypeOK'
    BY <1>2 DEF passVars, PassInv, PassTypeOK
  <2>2. \A p \in Procs : \A t \in Old(p)' : t \in Old(p)
    BY <1>2 DEF Old
  <2>3. \A p \in Procs : PassOf(p)'
    BY <1>2, <2>2, OthersKeep DEF passVars
  <2> QED
    BY <1>1, <2>1, <2>3 DEF PassInv
<1>3. ASSUME NEW p \in Procs, SweepBegins(p) \/ ClearBegins(p) \/ PassStep(p)
                              \/ LookRefused(p) \/ Killed(p) \/ Refused(p)
      PROVE  PassInv'
  <2>1. CASE SweepBegins(p) \/ ClearBegins(p)
    <3>1. Listing(p) /\ UNCHANGED file /\ (Goto(p, "purging") \/ Goto(p, "clearing"))
      BY <2>1 DEF SweepBegins, ClearBegins
    <3>2. PassTypeOK' /\ PassOf(p)'
      BY <3>1, ListingKeeps
    <3> QED
      BY <1>1, <2>1, <3>2, PassesOfOthers DEF PassInv
  <2>2. CASE PassStep(p) \/ LookRefused(p)
    <3>1. PassTypeOK' /\ PassOf(p)'
      BY <2>2, LookKeeps, JudgeKeeps, EvictKeeps, EndKeeps, RefusalKeeps DEF PassStep
    <3> QED
      BY <1>1, <2>2, <3>1, PassesOfOthers DEF PassInv
  <2>3. CASE Killed(p) \/ Refused(p)
    <3>1. /\ names' = [names EXCEPT ![p] = {}] /\ seen' = [seen EXCEPT ![p] = {}]
          /\ kept' = [kept EXCEPT ![p] = {}] /\ total' = [total EXCEPT ![p] = 0]
          /\ spared' = [spared EXCEPT ![p] = {}] /\ pc' = [pc EXCEPT ![p] = "off"]
      BY <2>3 DEF Killed, Refused, Stopped, Goto
    <3>2. PassTypeOK'
      BY <3>1 DEF PassInv, PassTypeOK
    <3>3. seen'[p] = {} /\ kept'[p] = {} /\ total'[p] = 0 /\ pc'[p] = "off"
      BY <3>1 DEF PassInv, PassTypeOK, CacheInv, ReadTypeOK
    <3>4. Covers(p)' /\ Within(p)'
      BY <3>3 DEF Covers, Within, InPass, Passed
    <3>5. PassOf(p)'
      BY <3>3, <3>4, NothingNoted DEF PassOf
    <3> QED
      BY <1>1, <2>3, <3>2, <3>5, PassesOfOthers DEF PassInv
  <2> QED
    BY <1>3, <2>1, <2>2, <2>3
<1>4. ASSUME NEW r \in Readers,
             ReadStep(r) \/ MissRefused(r) \/ \E t \in Traces : ReadBegins(r, t)
      PROVE  PassInv'
  <2>1. r \in Procs
    BY DEF Procs
  <2>2. PassTypeOK' /\ PassOf(r)'
    BY <1>4, ReaderPasses
  <2>3. \A q \in Procs \ {r} : PassOf(q)'
    BY <1>4, <2>1, PassesOfOthers
  <2> QED
    BY <1>1, <2>2, <2>3 DEF PassInv
<1>5. CASE UNCHANGED cacheVars \/ Tick
  BY <1>2, <1>5 DEF cacheVars, Tick
<1>6. ASSUME NEW t \in Traces, NEW holds \in {"altered", "broken"}, Damaged(t, holds)
      PROVE  PassInv'
  <2>1. \A u \in Traces : file'[u] # None => file[u] # None
    BY <1>6 DEF Damaged, PassInv, CacheInv, ReadTypeOK
  <2>2. UNCHANGED <<passVars, spared, pc>>
    BY <1>6 DEF Damaged
  <2> QED
    BY <1>2, <2>1, <2>2
<1> QED
  BY <1>3, <1>4, <1>5, <1>6 DEF CacheNext

\* When a purge or a clear has ended, what was there when it began and did not
\* refuse the stat is within the size limit, or gone, although readers, sweeps and
\* other purges remove, replace and add entries all the while.
THEOREM LimitsAreEnforced == CacheSpec => []PassesEnforce
<1>1. CacheInit => PassInv
  <2> SUFFICES ASSUME CacheInit PROVE PassInv
    OBVIOUS
  <2>1. CacheInv
    BY CacheStarts
  <2>2. Sum({}) = 0 /\ IsFiniteSet({})
    BY SumOfOneAndOthers, FS_EmptySet
  <2>3. PassTypeOK
    BY DEF CacheInit, PassTypeOK
  <2>4. ASSUME NEW p \in Procs
        PROVE  /\ names[p] = {} /\ seen[p] = {} /\ kept[p] = {} /\ total[p] = 0 /\ pc[p] = "off"
    BY DEF CacheInit
  <2>5. ASSUME NEW p \in Procs PROVE PassOf(p)
    BY <2>2, <2>4 DEF PassOf, NotedOnce, Covers, Counts, Of, ClearsAll, Within, InPass, Passed
  <2> QED
    BY <2>1, <2>3, <2>5 DEF PassInv
<1>2. PassInv /\ [CacheNext]_cacheVars => PassInv'
  BY PassStepKeeps
<1>3. PassInv => PassesEnforce
  <2> SUFFICES ASSUME PassInv PROVE PassesEnforce
    OBVIOUS
  <2>1. CacheTypeOK
    BY DEF PassInv, PassTypeOK, CacheInv, ReadTypeOK, Labels, CacheTypeOK
  <2>2. ASSUME NEW p \in Procs, Passed(p)
        PROVE  Sum(Old(p)) <= MaxBytes /\ (pc[p] = "cleared" => Old(p) = {})
    <3>1. PICK S \in SUBSET Traces :
                 /\ IsFiniteSet(S) /\ Sum(S) <= MaxBytes /\ Old(p) \subseteq S
                 /\ pc[p] = "cleared" => S = {}
      BY <2>2 DEF PassInv, PassOf, Within
    <3>2. PICK T \in SUBSET S : T = Old(p)
      BY <3>1
    <3>3. Sum(T) <= Sum(S) /\ Sum(T) \in Nat /\ Sum(S) \in Nat
      BY <3>1, FS_Subset, SumOfSubset, SumIsNat
    <3>4. Sum(T) <= MaxBytes
      BY <3>1, <3>3, LimitsAssumption
    <3> QED
      BY <3>1, <3>2, <3>4
  <2>3. \A p \in Procs : pc[p] = "cleared" => Passed(p)
    BY DEF Passed
  <2> QED
    BY <2>1, <2>2, <2>3 DEF PassesEnforce, Sum
<1> QED
  BY <1>1, <1>2, <1>3, PTL DEF CacheSpec

=============================================================================
