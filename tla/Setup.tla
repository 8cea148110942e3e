------------------------------- MODULE Setup -------------------------------
(***************************************************************************)
(* The commands that create and remove a configuration directory: init,    *)
(* its resumption, reset, project link and unlink (apps/cli/src/index.ts,  *)
(* scaffold.ts, project-scope.ts), for a managed storage provider.         *)
(*                                                                         *)
(* Every command is a process.  Files are written and removed all at once, *)
(* in any order, and the process may die between two of them.  A file is   *)
(* named by the init that wrote it, since every init draws its own device, *)
(* secrets and bucket.                                                     *)
(***************************************************************************)
EXTENDS Naturals, FiniteSets

CONSTANTS
  Commands,  \* processes, and what an init writes
  Repos,     \* repositories a link can name
  Nothing

ASSUME NothingAssumption == Nothing \notin Commands

VARIABLES
  files,      \* the init each managed file is of, or Nothing
  cloud,      \* the inits whose storage stack is deployed
  links,      \* project-links.json: the link command of each repository
  serving,    \* .runtime.json is there: a daemon runs
  at,         \* where each command is
  left,       \* the files it has still to write or to remove
  hurt,       \* the commands one of whose writes or removals failed
  snap,       \* the links a command has read
  overlapped, \* two commands ran at once, or a daemon started beside one
  torn,       \* a reset did not remove everything
  book        \* the links the commands were told to make

vars == <<files, cloud, links, serving, at, left, hurt, snap, overlapped, torn, book>>

Config == {"config", "schema", "local"}  \* .gitignore is appended to and never removed
Infra  == {"package", "stack"}           \* with pnpm-workspace.yaml and alchemy.run.ts
Files  == Config \cup Infra
NoLinks == [r \in Repos |-> Nothing]

Init ==
  /\ files = [f \in Files |-> Nothing] /\ cloud = {}
  /\ links = NoLinks /\ book = NoLinks /\ snap = [p \in Commands |-> NoLinks]
  /\ serving = FALSE
  /\ at = [p \in Commands |-> "new"] /\ left = [p \in Commands |-> {}] /\ hurt = {}
  /\ overlapped = FALSE /\ torn = FALSE

Active(p) == at[p] \notin {"new", "done", "failed", "dead"}
Present(S) == {f \in S : files[f] # Nothing}

\* The first step of command p.
Begins(p) ==
  /\ at[p] = "new"
  /\ overlapped' = (overlapped \/ \E q \in Commands : Active(q))
To(p, place) == at' = [at EXCEPT ![p] = place]

----------------------------------------------------------------------------
(* init.                                                                   *)

\* readExistingScaffold: a configuration is there, and its deployment is
\* resumed or refused as incomplete; or there is none, and the prompts follow.
InitReads(p) ==
  /\ Begins(p)
  /\ \/ files["config"] = Nothing /\ To(p, "asking")
     \/ files["config"] # Nothing /\ files["schema"] # Nothing /\ Present(Infra) = Infra
        /\ (To(p, "resuming") \/ To(p, "done"))
     \/ files["config"] # Nothing /\ (files["schema"] = Nothing \/ Present(Infra) # Infra)
        /\ To(p, "failed")
  /\ UNCHANGED <<files, cloud, links, serving, left, hurt, snap, torn, book>>

\* Mutant of Protected: the configuration file alone is looked for.
ProtectedConfig == {"config"}

\* protectedPaths.
Protected == Config

\* createScaffold refuses to overwrite, or starts writing.
Scaffold(p) ==
  /\ at[p] = "asking"
  /\ \/ Present(Protected) # {} /\ To(p, "failed") /\ UNCHANGED left
     \/ Present(Protected) = {} /\ To(p, "writing") /\ left' = [left EXCEPT ![p] = Config]
  /\ UNCHANGED <<files, cloud, links, serving, hurt, snap, overlapped, torn, book>>

\* One of the writes under way ends: it creates the file or finds it there.
WriteFile(p, f) ==
  /\ at[p] \in {"writing", "building"} /\ f \in left[p]
  /\ left' = [left EXCEPT ![p] = @ \ {f}]
  /\ \/ files[f] = Nothing /\ files' = [files EXCEPT ![f] = p] /\ UNCHANGED hurt
     \/ files[f] # Nothing /\ hurt' = hurt \cup {p} /\ UNCHANGED files
  /\ UNCHANGED <<cloud, links, serving, at, snap, overlapped, torn, book>>

\* All writes have ended.
Written(p) ==
  /\ at[p] \in {"writing", "building"} /\ left[p] = {}
  /\ \/ p \in hurt /\ To(p, "failed") /\ UNCHANGED left
     \/ p \notin hurt /\ at[p] = "writing" /\ To(p, "building")
        /\ left' = [left EXCEPT ![p] = Infra]
     \/ p \notin hurt /\ at[p] = "building" /\ (To(p, "deploying") \/ To(p, "done"))
        /\ UNCHANGED left
  /\ UNCHANGED <<files, cloud, links, serving, hurt, snap, overlapped, torn, book>>

\* upgradeManagedInfrastructure, before a resumed deployment and before a
\* reset: package.json and the workspace are rewritten in place, or refused.
Upgrade(p) ==
  /\ at[p] \in {"resuming", "confirmed"}
  /\ \/ /\ Present(Infra) = Infra
        /\ To(p, IF at[p] = "resuming" THEN "deploying" ELSE "destroying")
     \/ To(p, "failed")
  /\ UNCHANGED <<files, cloud, links, serving, left, hurt, snap, overlapped, torn, book>>

\* deployInfrastructure: an attempt that fails, and one that is interrupted,
\* may have created the bucket.
Deploy(p) ==
  /\ at[p] = "deploying"
  /\ \/ To(p, "done") \/ To(p, "failed") \/ UNCHANGED at
  /\ \/ Present(Infra) = Infra /\ cloud' = cloud \cup {files["stack"]}
     \/ at'[p] # "done" /\ UNCHANGED cloud
  /\ UNCHANGED <<files, links, serving, left, hurt, snap, overlapped, torn, book>>

----------------------------------------------------------------------------
(* reset.                                                                  *)

\* A daemon runs, there is nothing to reset, the scaffold is incomplete, or
\* the owner confirms.
ResetReads(p) ==
  /\ Begins(p)
  /\ \/ serving /\ To(p, "failed")
     \/ ~serving /\ files["config"] = Nothing /\ To(p, "done")
     \/ ~serving /\ files["config"] # Nothing /\ Present(Infra) # Infra /\ To(p, "failed")
     \/ ~serving /\ files["config"] # Nothing /\ Present(Infra) = Infra
        /\ (To(p, "confirmed") \/ To(p, "done"))
  /\ UNCHANGED <<files, cloud, links, serving, left, hurt, snap, torn, book>>

\* Mutant of Destroy: the files are removed whatever becomes of the stack.
DestroyAnyhow(p) ==
  /\ at[p] = "destroying"
  /\ cloud' = cloud \ {files["stack"]} \/ UNCHANGED cloud
  /\ To(p, "removing")
  /\ left' = [left EXCEPT ![p] = Files \cup {"links"}]
  /\ UNCHANGED <<files, links, serving, hurt, snap, overlapped, torn, book>>

\* The stack is destroyed and the removal starts, or the files are preserved.
\* --state-store may fail after the stack was destroyed.
Destroy(p) ==
  /\ at[p] = "destroying"
  /\ \/ /\ Present(Infra) = Infra /\ cloud' = cloud \ {files["stack"]}
        /\ To(p, "removing")
        /\ left' = [left EXCEPT ![p] = Files \cup {"links"}]
     \/ /\ UNCHANGED left /\ To(p, "failed")
        /\ (Present(Infra) = Infra /\ cloud' = cloud \ {files["stack"]}) \/ UNCHANGED cloud
  /\ UNCHANGED <<files, links, serving, hurt, snap, overlapped, torn, book>>

\* One of the removals ends, well or not.
RemoveFile(p, f) ==
  /\ at[p] = "removing" /\ f \in left[p]
  /\ left' = [left EXCEPT ![p] = @ \ {f}]
  /\ \/ /\ hurt' = hurt \cup {p} /\ torn' = TRUE /\ UNCHANGED <<files, links, book>>
     \/ /\ UNCHANGED <<hurt, torn>>
        /\ IF f = "links" THEN links' = NoLinks /\ book' = NoLinks /\ UNCHANGED files
           ELSE files' = [files EXCEPT ![f] = Nothing] /\ UNCHANGED <<links, book>>
  /\ UNCHANGED <<cloud, serving, at, snap, overlapped>>

Removed(p) ==
  /\ at[p] = "removing" /\ left[p] = {}
  /\ To(p, IF p \in hurt THEN "failed" ELSE "done")
  /\ UNCHANGED <<files, cloud, links, serving, left, hurt, snap, overlapped, torn, book>>

----------------------------------------------------------------------------
(* project link and unlink.                                                *)

\* readLinks.
ReadLinks(p) ==
  /\ Begins(p)
  /\ snap' = [snap EXCEPT ![p] = links]
  /\ To(p, "linking")
  /\ UNCHANGED <<files, cloud, links, serving, left, hurt, torn, book>>

\* Mutant of Link: the other links of the file are forgotten.
LinkAlone(p, r) ==
  /\ at[p] = "linking" /\ To(p, "done")
  /\ links' = [NoLinks EXCEPT ![r] = p]
  /\ book' = [book EXCEPT ![r] = p]
  /\ UNCHANGED <<files, cloud, serving, left, hurt, snap, overlapped, torn>>

\* writeLinks renames a whole temporary file over the old one.
Link(p, r) ==
  /\ at[p] = "linking" /\ To(p, "done")
  /\ links' = [snap[p] EXCEPT ![r] = p]
  /\ book' = [book EXCEPT ![r] = p]
  /\ UNCHANGED <<files, cloud, serving, left, hurt, snap, overlapped, torn>>

\* unlink; the file goes with its last link, whatever it holds by then.
Unlink(p, r) ==
  /\ at[p] = "linking" /\ To(p, "done")
  /\ links' = IF snap[p][r] = Nothing THEN links ELSE [snap[p] EXCEPT ![r] = Nothing]
  /\ book' = [book EXCEPT ![r] = Nothing]
  /\ UNCHANGED <<files, cloud, serving, left, hurt, snap, overlapped, torn>>

----------------------------------------------------------------------------

\* The process dies, wherever it is.
Die(p) ==
  /\ Active(p)
  /\ To(p, "dead") /\ left' = [left EXCEPT ![p] = {}]
  /\ torn' = (torn \/ at[p] = "removing")
  /\ UNCHANGED <<files, cloud, links, serving, hurt, snap, overlapped, book>>

\* A daemon writes its runtime descriptor, and removes it when it stops.
Serve ==
  /\ serving' = ~serving
  /\ serving \/ Present(Config) = Config
  /\ overlapped' = (overlapped \/ (~serving /\ \E p \in Commands : Active(p)))
  /\ UNCHANGED <<files, cloud, links, at, left, hurt, snap, torn, book>>

Next ==
  \/ \E p \in Commands :
       \/ InitReads(p) \/ Scaffold(p) \/ Written(p) \/ Upgrade(p) \/ Deploy(p)
       \/ ResetReads(p) \/ Destroy(p) \/ Removed(p)
       \/ ReadLinks(p) \/ Die(p)
       \/ \E f \in Files : WriteFile(p, f)
       \/ \E f \in Files \cup {"links"} : RemoveFile(p, f)
       \/ \E r \in Repos : Link(p, r) \/ Unlink(p, r)
  \/ Serve

Spec == Init /\ [][Next]_vars

----------------------------------------------------------------------------
(* Properties.                                                             *)

TypeOK ==
  /\ files \in [Files -> Commands \cup {Nothing}]
  /\ cloud \subseteq Commands /\ hurt \subseteq Commands
  /\ {links, book} \subseteq [Repos -> Commands \cup {Nothing}]
  /\ snap \in [Commands -> [Repos -> Commands \cup {Nothing}]]
  /\ at \in [Commands -> {"new", "asking", "writing", "building", "resuming", "confirmed",
                          "deploying", "destroying", "removing", "linking", "done", "failed", "dead"}]
  /\ left \in [Commands -> SUBSET (Files \cup {"links"})]
  /\ {serving, overlapped, torn} \subseteq BOOLEAN

\* One identity: the device in the configuration, the secrets and the stack are
\* of one init, after any crash, as long as commands do not run at once.  The
\* stack of a reset that was interrupted may survive into the next init.
OneIdentity ==
  ~overlapped =>
    /\ Cardinality({files[f] : f \in Present(Config)}) <= 1
    /\ ~torn => Cardinality({files[f] : f \in Present(Files)}) <= 1

\* "reset destroys the generated stack before removing the local files": what
\* reset needs to destroy a deployed stack stays, and so do the files a daemon
\* runs on.
StackIsReachable ==
  ~overlapped =>
    /\ \A s \in cloud : "config" \in Present(Files) /\ Infra \subseteq Present(Files) /\ files["stack"] = s
    /\ serving => Present(Config) = Config

\* The file of links holds what the commands were told, one after the other.
LinksKept == TypeOK /\ (~overlapped => links = book)
=============================================================================
