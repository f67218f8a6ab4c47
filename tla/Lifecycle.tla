----------------------------- MODULE Lifecycle -----------------------------
(***************************************************************************)
(* The connectors of one environment in Git and in Kafka Connect, and the  *)
(* commands that move them: ADOPT, CREATE, UPDATE, MIGRATE and DELETE, one *)
(* after the other, each over a batch of connectors, while ArgoCD and CFK  *)
(* bring Git to the live workers and others change live connectors.        *)
(*                                                                         *)
(* A command lists the live connectors once, works on its items in any     *)
(* order (each item reads the live configuration and Git for itself), and  *)
(* changes the worktree as one batch.  ApplyBatch is one step or, when the *)
(* process dies, a prefix of its steps (see Worktree); the pool and the    *)
(* report are in BatchRun, the selection of the batch in Selection.        *)
(***************************************************************************)
EXTENDS Integers, FiniteSets

CONSTANTS
  Names,           \* connector names that match the environment's rule
  Classes,         \* connector classes; a smaller alias folder sorts first
  Versions,        \* what else a connector configuration says
  Configs,         \* the configurations there are, live and in input files
  Profiles,        \* Connect profiles, all of them adoption sources
  NoProfile,       \* no profile is given
  DefaultProfile,  \* the profile of each class's plugin rule
  MappedProfile,   \* the profile the secret mapping of each name asks for
  Source,          \* MIGRATE's source manifests, under their target names
  Verdicts,        \* what a live validation can come to
  Commands,        \* the commands that are run
  MaxBatch,        \* how many connectors one command works on
  MaxCommands,     \* how many commands are run
  MaxCrashes,      \* how often the process dies while it applies a batch
  MaxDrift         \* how often others change a live connector

ASSUME NamesAssumption    == Names \subseteq Nat /\ Classes \subseteq Nat
ASSUME ProfilesAssumption == /\ NoProfile \notin Profiles
                             /\ DefaultProfile \in [Classes -> Profiles]
                             /\ MappedProfile \in [Names -> Profiles \cup {NoProfile}]
ASSUME VerdictsAssumption == Verdicts \subseteq {"accepted", "rejected", "unreachable"}
ASSUME CommandsAssumption == Commands \subseteq {"adopt", "create", "update", "migrate", "delete"}
ASSUME BoundsAssumption   == {MaxBatch, MaxCommands, MaxCrashes, MaxDrift} \subseteq Nat

Connector == [name : Names, class : Classes, ver : Versions, profile : Profiles]
Manifest  == [name : Names, class : Classes, ver : Versions, profile : Profiles,
              origin : {"adopted", "create", "update", "migrated"}]

\* One item of a batch: a name and, but for ADOPT and DELETE, a configuration.
Named     == [name : Names]
Given     == Configs
Item      == Named \cup Given

ASSUME ConfigsAssumption  == /\ Configs \subseteq [name : Names, class : Classes, ver : Versions]
                             /\ Source \subseteq Configs

VARIABLES
  git,         \* the manifests in the environment's tree
  live,        \* the connectors that run, on any profile
  cr,          \* the names CFK manages, and where
  kind,        \* the running command, or the last one
  work,        \* the items of its batch
  todo,        \* the items not yet done
  located,     \* the live listing the command took when it began
  plan,        \* the collected mutations
  outcome,     \* "none", "running", "ok", "failed" or "crashed"
  commands,    \* bound: commands run
  crashes,     \* bound: crashes
  drifts,      \* bound: changes by others
  drifted,     \* history: names whose live connector changed since ADOPT read it
  split,       \* history: Git held two manifests for one name
  managed,     \* history: only ADOPT, UPDATE and DELETE ran, and none of them died
  torn,        \* history: class moves of single manifests that crashes left half done
  unaccepted   \* history: manifests planned without an accepted validation

worktree == <<git, split, managed>>
cluster  == <<live, cr, drifts, drifted>>
command  == <<kind, work, located>>
vars == <<git, live, cr, kind, work, todo, located, plan, outcome, commands,
          crashes, drifts, drifted, split, managed, torn, unaccepted>>

NamesOf(S)   == {x.name : x \in S}
Running(m)   == [name |-> m.name, class |-> m.class, ver |-> m.ver, profile |-> m.profile]
ConfigOf(m)  == [name |-> m.name, class |-> m.class, ver |-> m.ver]
PathOf(m)    == <<m.class, m.name>>
Unique(S, n) == \A x, y \in S : x.name = n /\ y.name = n => x = y

Write(w, m)  == [item |-> w, type |-> "write", path |-> PathOf(m), manifest |-> m]
Remove(w, m) == [item |-> w, type |-> "remove", path |-> PathOf(m), manifest |-> m]
Mutation     == [item : Item, type : {"write", "remove"}, path : Classes \X Names,
                 manifest : Manifest]

TypeOK ==
  /\ git \subseteq Manifest
  /\ \A x, y \in git : PathOf(x) = PathOf(y) => x = y
  /\ live \subseteq Connector
  /\ cr \subseteq [name : Names, profile : Profiles]
  /\ kind \in Commands \cup {"none"}
  /\ work \subseteq Item /\ todo \subseteq work
  /\ located \subseteq [name : Names, profile : Profiles]
  /\ plan \subseteq Mutation
  /\ outcome \in {"none", "running", "ok", "failed", "crashed"}
  /\ commands \in 0..MaxCommands /\ crashes \in 0..MaxCrashes /\ drifts \in 0..MaxDrift
  /\ drifted \subseteq Names
  /\ {split, managed} \subseteq BOOLEAN
  /\ torn \subseteq [item : Item, from : Classes]
  /\ unaccepted \subseteq Manifest

\* Before the adoption: an empty tree, connectors somewhere.
Init ==
  /\ git = {} /\ cr = {}
  /\ live \in SUBSET {c \in Connector : ConfigOf(c) \in Configs}
  /\ \A n \in Names : Unique(live, n)
  /\ kind = "none" /\ work = {} /\ todo = {} /\ located = {} /\ plan = {}
  /\ outcome = "none"
  /\ commands = 0 /\ crashes = 0 /\ drifts = 0
  /\ drifted = {} /\ split = FALSE /\ managed = TRUE /\ torn = {} /\ unaccepted = {}

-----------------------------------------------------------------------------
(* The beginning of a command.                                             *)

Inputs(k) == CASE k \in {"adopt", "delete"}  -> {[name |-> n] : n \in Names}
               [] k \in {"create", "update"} -> Given
               [] k = "migrate"              -> Source

\* "duplicate connector name in input" (CREATE and UPDATE); MIGRATE's targets
\* are not compared with each other.
Batches(k) == {b \in SUBSET Inputs(k) :
                 /\ b # {} /\ Cardinality(b) <= MaxBatch
                 /\ k # "migrate" => \A v, w \in b : v.name = w.name => v = w}

\* flattenProfileNames and its ADOPT sibling: a name found on two profiles.
Ambiguous == \E c, d \in live : c.name = d.name /\ c.profile # d.profile

\* DELETE refuses a tree with two manifests for one name.
Duplicated == \E n \in Names : ~Unique(git, n)

Start(k) ==
  /\ outcome # "running" /\ commands < MaxCommands
  /\ IF k = "delete" THEN ~Duplicated ELSE ~Ambiguous
  /\ \E b \in Batches(k) : work' = b /\ todo' = b
  /\ kind' = k
  /\ located' = IF k = "delete" THEN {}
                ELSE {[name |-> c.name, profile |-> c.profile] : c \in live}
  /\ plan' = {}
  /\ outcome' = "running"
  /\ commands' = commands + 1
  /\ torn' = IF kind' = kind /\ work' = work THEN torn ELSE {}
  /\ managed' = (managed /\ k \notin {"create", "migrate"})
  /\ UNCHANGED <<git, split, cluster, crashes, unaccepted>>

-----------------------------------------------------------------------------
(* One item.                                                               *)

\* The item fails: the batch will be withheld.
Fail ==
  /\ outcome' = "failed" /\ todo' = {} /\ plan' = {}
  /\ UNCHANGED <<worktree, cluster, command, commands, crashes, torn, unaccepted>>

Done(w, mutations) ==
  /\ plan' = plan \cup mutations
  /\ todo' = todo \ {w}
  /\ UNCHANGED <<worktree, live, cr, drifts, command, outcome, commands, crashes, torn>>

\* Mutant of Resolve: the profile to preserve is ignored.
ResolveDefault(n, class, forced, reject) ==
  IF MappedProfile[n] # NoProfile THEN MappedProfile[n] ELSE DefaultProfile[class]

\* resolveConnectProfile: NoProfile stands for its error.
Resolve(n, class, forced, reject) ==
  CASE forced # NoProfile /\ reject /\ MappedProfile[n] \notin {NoProfile, forced}
         -> NoProfile
    [] forced # NoProfile /\ ~(reject /\ MappedProfile[n] \notin {NoProfile, forced})
         -> forced
    [] forced = NoProfile /\ MappedProfile[n] # NoProfile -> MappedProfile[n]
    [] OTHER -> DefaultProfile[class]

\* buildConnector's live validation.  A response without errors passes; so does a
\* request that failed, because its error is not looked at.
Passes(v) == v # "rejected"
Checked(m, v) == unaccepted' = IF v = "accepted" THEN unaccepted ELSE unaccepted \cup {m}

At(path) == {x \in git : PathOf(x) = path}

\* Mutant of Writable: overwrite is not looked at.
WritableAlways(m, overwrite) == TRUE

\* PlanWrite: the path is free, holds the same manifest, or may be overwritten.
Writable(m, overwrite) == At(PathOf(m)) \subseteq {m} \/ overwrite

\* Only a change is a mutation.
Writing(w, m) == IF m \in git THEN {} ELSE {Write(w, m)}

\* Mutant of Find: the last manifest of that name.
FindLast(n) ==
  CHOOSE m \in git : m.name = n /\ \A x \in git : x.name = n => m.class >= x.class

\* FindByConnectorName: the first one in the order of the paths.
Find(n) ==
  CHOOSE m \in git : m.name = n /\ \A x \in git : x.name = n => m.class <= x.class

AdoptSkip(w) ==
  /\ kind = "adopt" /\ w \in todo
  /\ w.name \in NamesOf(git)
  /\ Done(w, {})
  /\ UNCHANGED <<drifted, unaccepted>>

\* The configuration is read from the profile of the listing, and preserved there.
Adopt(w) ==
  /\ kind = "adopt" /\ w \in todo
  /\ w.name \notin NamesOf(git)
  /\ \E c \in live, v \in Verdicts :
       /\ [name |-> w.name, profile |-> c.profile] \in located /\ c.name = w.name
       /\ Passes(v)
       /\ LET p == Resolve(c.name, c.class, c.profile, TRUE)
              m == [name |-> c.name, class |-> c.class, ver |-> c.ver, profile |-> p,
                    origin |-> "adopted"]
          IN /\ p # NoProfile
             /\ Writable(m, FALSE)
             /\ Done(w, Writing(w, m))
             /\ Checked(m, v)
             /\ drifted' = drifted \ {w.name}

Create(w) ==
  /\ kind \in {"create", "migrate"} /\ w \in todo
  /\ w.name \notin NamesOf(located)
  /\ \E v \in Verdicts :
       /\ Passes(v)
       /\ LET m == [name |-> w.name, class |-> w.class, ver |-> w.ver,
                    profile |-> Resolve(w.name, w.class, NoProfile, FALSE),
                    origin |-> IF kind = "create" THEN "create" ELSE "migrated"]
          IN /\ Writable(m, FALSE)
             /\ Done(w, Writing(w, m))
             /\ Checked(m, v)
  /\ UNCHANGED drifted

\* Mutant of Moved: the manifest in the old class directory is left there.
MovedByCopy(w, old, m) == {}

\* A class change moves the manifest: its old path is removed in the same batch.
Moved(w, old, m) == IF PathOf(old) = PathOf(m) THEN {} ELSE {Remove(w, old)}

Update(w) ==
  /\ kind = "update" /\ w \in todo
  /\ w.name \in NamesOf(git)
  /\ \E v \in Verdicts :
       /\ Passes(v)
       /\ LET old == Find(w.name)
              p   == Resolve(w.name, w.class, old.profile, TRUE)
              m   == [name |-> w.name, class |-> w.class, ver |-> w.ver, profile |-> p,
                      origin |-> "update"]
          IN /\ p # NoProfile
             /\ [name |-> w.name, profile |-> p] \in located
             /\ Writable(m, PathOf(old) = PathOf(m))
             /\ Done(w, Writing(w, m) \cup Moved(w, old, m))
             /\ Checked(m, v)
  /\ UNCHANGED drifted

Delete(w) ==
  /\ kind = "delete" /\ w \in todo
  /\ w.name \in NamesOf(git)
  /\ Done(w, {Remove(w, Find(w.name))})
  /\ UNCHANGED <<drifted, unaccepted>>

\* Any item but one ADOPT skips can fail, for reasons of its own or of the server's.
ItemFails(w) ==
  /\ outcome = "running" /\ w \in todo
  /\ ~(kind = "adopt" /\ w.name \in NamesOf(git))
  /\ Fail

-----------------------------------------------------------------------------
(* The worktree.                                                           *)

Written(S) == {x.manifest : x \in {y \in S : y.type = "write"}}

\* What a batch, or the part of it that was applied, makes of the tree.
Result(S) == {x \in git : \A y \in S : y.path # PathOf(x)} \cup Written(S)

\* ApplyBatch refuses two mutations of one path.
Conflict == \E x, y \in plan : x # y /\ x.path = y.path

\* Mutant of Before: manifests are removed before the new ones are written.
BeforeRemovesFirst(x, y) ==
  IF x.type # y.type THEN x.type = "remove"
  ELSE \/ x.path[1] < y.path[1]
       \/ x.path[1] = y.path[1] /\ x.path[2] < y.path[2]

\* The order ApplyBatch works in.
Before(x, y) ==
  IF x.type # y.type THEN x.type = "write"
  ELSE \/ x.path[1] < y.path[1]
       \/ x.path[1] = y.path[1] /\ x.path[2] < y.path[2]

Ready == outcome = "running" /\ todo = {}

Commit ==
  /\ Ready /\ ~Conflict
  /\ git' = Result(plan)
  /\ split' = (split \/ \E n \in Names : ~Unique(git', n))
  /\ outcome' = "ok"
  /\ plan' = {}
  /\ UNCHANGED <<managed, cluster, command, todo, commands, crashes, torn, unaccepted>>

Refuse ==
  /\ Ready /\ Conflict
  /\ outcome' = "failed"
  /\ plan' = {}
  /\ UNCHANGED <<worktree, cluster, command, todo, commands, crashes, torn, unaccepted>>

\* The process dies between two steps of ApplyBatch.
Crash ==
  /\ Ready /\ ~Conflict /\ crashes < MaxCrashes
  /\ \E done \in SUBSET plan :
       /\ done # plan
       /\ \A x \in done, y \in plan : Before(y, x) => y \in done
       /\ git' = Result(done)
       /\ torn' = torn \cup
            {[item |-> x.item, from |-> x.path[1]] :
               x \in {y \in plan \ done :
                       /\ y.type = "remove" /\ kind = "update" /\ Unique(git, y.item.name)
                       /\ \E z \in git' : PathOf(z) = <<y.item.class, y.item.name>>}}
  /\ split' = (split \/ \E n \in Names : ~Unique(git', n))
  /\ outcome' = "crashed"
  /\ plan' = {}
  /\ crashes' = crashes + 1 /\ managed' = FALSE
  /\ UNCHANGED <<cluster, command, todo, commands, unaccepted>>

-----------------------------------------------------------------------------
(* The environment.                                                        *)

\* ArgoCD and CFK make the profile of a manifest run what the manifest says.
Sync(m) ==
  /\ m \in git /\ Running(m) \notin live
  /\ live' = {c \in live : c.name # m.name \/ c.profile # m.profile} \cup {Running(m)}
  /\ cr' = {x \in cr : x.name # m.name} \cup {[name |-> m.name, profile |-> m.profile]}
  /\ UNCHANGED <<worktree, command, todo, plan, outcome, commands, crashes, drifts,
                 drifted, torn, unaccepted>>

\* Where pruning is permitted a manifest that is gone takes its connector along.
Prune(x) ==
  /\ x \in cr /\ x.name \notin NamesOf(git)
  /\ live' = {c \in live : c.name # x.name \/ c.profile # x.profile}
  /\ cr' = cr \ {x}
  /\ drifted' = drifted \cup {x.name}
  /\ UNCHANGED <<worktree, command, todo, plan, outcome, commands, crashes, drifts, torn,
                 unaccepted>>

\* Others change a live connector where it runs, or remove it.
Drift(c) ==
  /\ c \in live /\ drifts < MaxDrift
  /\ \/ live' = live \ {c}
     \/ \E v \in Versions \ {c.ver} :
          /\ [ConfigOf(c) EXCEPT !.ver = v] \in Configs
          /\ live' = (live \ {c}) \cup {[c EXCEPT !.ver = v]}
  /\ drifts' = drifts + 1
  /\ drifted' = drifted \cup {c.name}
  /\ UNCHANGED <<worktree, cr, command, todo, plan, outcome, commands, crashes, torn,
                 unaccepted>>

-----------------------------------------------------------------------------
ItemStep(w) == AdoptSkip(w) \/ Adopt(w) \/ Create(w) \/ Update(w) \/ Delete(w)
               \/ ItemFails(w)

Next ==
  \/ \E k \in Commands : Start(k)
  \/ \E w \in todo : ItemStep(w)
  \/ Commit \/ Refuse \/ Crash
  \/ \E m \in git : Sync(m)
  \/ \E x \in cr : Prune(x)
  \/ \E c \in live : Drift(c)

Spec == Init /\ [][Next]_vars

-----------------------------------------------------------------------------
(* Properties.                                                             *)

\* Git holds one manifest per connector name.  DELETE, OPS, VERIFY, INVENTORY and
\* MIGRATE refuse the whole environment when it does not.
UniqueInGit == ~Duplicated

\* It stays so in an environment kept with ADOPT, UPDATE and DELETE none of which
\* dies: ADOPT looks for the name in every class directory, and UPDATE removes
\* the manifest a class change leaves behind.
ManagedUnique == TypeOK /\ (managed => UniqueInGit)

\* No connector ends up running on two Connect profiles: ADOPT and UPDATE preserve
\* the profile, CREATE and MIGRATE look at every profile first, and this is still
\* so when the manifests reach Connect much later.  It takes a tree that never
\* held two manifests for one name.
NoDoubleRun == ~split => \A n \in Names : Unique(live, n)

\* ADOPT changes nothing that runs: the sync of an adopted manifest leaves the
\* workers as they are, unless others changed the connector after it was read.
SyncKeepsAdopted ==
  [][\A m \in git : Sync(m) /\ m.origin = "adopted" /\ UniqueInGit
                    => m.name \in drifted]_vars

\* ADOPT, CREATE and MIGRATE never replace or remove a manifest, crash or not.
OnlyUpdateReplaces ==
  [][kind' \in {"adopt", "create", "migrate"} => git \subseteq git']_vars

\* Only DELETE takes a connector out of Git: a class move, half done or not,
\* leaves it there.
NothingLost == [][kind' # "delete" => NamesOf(git) \subseteq NamesOf(git')]_vars

\* An UPDATE that died in the middle of a class move is repaired by running it
\* again until it succeeds, if the name had one manifest and the old class directory
\* sorts before the new one (FindByConnectorName finds the old manifest first).  In
\* the other direction the second run succeeds and both manifests stay.
RerunRepairs ==
  kind = "update" /\ outcome = "ok" =>
    \A t \in torn : t.item \in work /\ t.from < t.item.class => Unique(git, t.item.name)

-----------------------------------------------------------------------------
(* What the documentation says.                                            *)

\* docs/ARCHITECTURE.md: "Every connector in the selected batch must pass."
WrittenWasAccepted == git \cap unaccepted = {}
=============================================================================
