-------------------------- MODULE LifecycleProofs --------------------------
(***************************************************************************)
(* Proofs about Lifecycle: for any connectors, classes, configurations and *)
(* profiles, batches of any size, and any number of commands, crashes and  *)
(* changes by others.                                                      *)
(***************************************************************************)
EXTENDS Lifecycle, WellFoundedInduction, TLAPS

-----------------------------------------------------------------------------
(* The inductive invariant.                                                *)

\* The items of a command: configurations, one per name but for MIGRATE, and for
\* DELETE a tree without duplicates.  Only a running command has items to do.
WorkInv ==
  /\ todo # {} => outcome = "running"
  /\ kind \in {"create", "update", "migrate"} => work \subseteq Configs
  /\ kind # "migrate" => \A v, w \in work : v.name = w.name => v = w
  /\ outcome = "running" /\ kind = "delete" => ~Duplicated

\* A planned write: ADOPT, CREATE and MIGRATE take a free path, ADOPT for a name that is
\* not in Git and runs as the manifest says, the others for one that was not listed;
\* UPDATE replaces a manifest of the same profile, where it is or by a move.
WriteOK(y) ==
  /\ kind \in {"adopt", "create", "migrate", "update"}
  /\ kind # "update" => At(y.path) = {}
  /\ kind = "adopt" =>
       /\ y.manifest.name \notin NamesOf(git)
       /\ [name |-> y.manifest.name, profile |-> y.manifest.profile] \in located
       /\ Running(y.manifest) \in live \/ y.manifest.name \in drifted
  /\ kind \in {"create", "migrate"} =>
       y.manifest.name \notin NamesOf(located) /\ y.manifest.origin # "adopted"
  /\ kind = "update" =>
       /\ y.manifest.class = y.item.class /\ y.manifest.origin = "update"
       /\ \E old \in git :
            /\ old.name = y.manifest.name /\ old.profile = y.manifest.profile
            /\ PathOf(old) = y.path \/ Remove(y.item, old) \in plan

\* A planned removal: of a manifest in Git, by DELETE, or by an UPDATE that has or
\* writes another one.
RemoveOK(y) ==
  /\ kind \in {"update", "delete"}
  /\ y.manifest \in git
  /\ kind = "update" =>
       \E m \in Manifest :
         /\ m.name = y.manifest.name /\ m.origin = "update"
         /\ m.class = y.item.class /\ m.class # y.manifest.class
         /\ m \in git \/ Write(y.item, m) \in plan

PlanInv ==
  \A y \in plan :
    /\ outcome = "running"
    /\ y.item \in work \ todo
    /\ y.path = PathOf(y.manifest) /\ y.manifest.name = y.item.name
    /\ \A z \in plan : y.item = z.item /\ y.type = z.type => y = z
    /\ y.type = "write" => WriteOK(y)
    /\ y.type = "remove" => RemoveOK(y)

ManagedInv == managed => UniqueInGit /\ kind \notin {"create", "migrate"}

\* Until Git holds two manifests for one name, what runs runs once, where Git says,
\* and was listed or is in Git.
ProfileInv ==
  /\ outcome = "running" /\ kind # "delete" =>
       \A a, b \in located : a.name = b.name => a = b
  /\ ~split =>
       /\ UniqueInGit
       /\ \A c, d \in live : c.name = d.name => c = d
       /\ \A m \in git, c \in live : m.name = c.name => m.profile = c.profile
       /\ outcome = "running" /\ kind # "delete" =>
            \A c \in live : \/ c.name \in NamesOf(git)
                            \/ [name |-> c.name, profile |-> c.profile] \in located

\* An adopted manifest says what runs, unless others changed that or Git has another
\* manifest of the name.
AdoptedInv ==
  \A m \in git : m.origin = "adopted" =>
    \/ Running(m) \in live
    \/ m.name \in drifted
    \/ \E x \in git : x # m /\ x.name = m.name

\* A torn move has its manifests in the old or the new class, and repeating the
\* UPDATE removes the old one.
TornInv ==
  \A t \in torn :
    /\ kind = "update" /\ t.item \in work
    /\ \A x \in git : x.name = t.item.name => x.class \in {t.from, t.item.class}
    /\ t.from < t.item.class =>
         /\ outcome = "running" /\ t.item \notin todo =>
              \A x \in git : PathOf(x) = <<t.from, t.item.name>> => Remove(t.item, x) \in plan
         /\ outcome = "ok" => Unique(git, t.item.name)

IInv == TypeOK /\ WorkInv /\ PlanInv /\ ManagedInv /\ ProfileInv /\ AdoptedInv /\ TornInv

-----------------------------------------------------------------------------
(* Facts about the operators.                                              *)

\* The types without the sets of Booleans.
LEMMA Types ==
  ASSUME TypeOK
  PROVE  /\ git \subseteq Manifest /\ live \subseteq Connector /\ plan \subseteq Mutation
         /\ work \subseteq Item /\ todo \subseteq work
         /\ \A x, y \in git : PathOf(x) = PathOf(y) => x = y
         /\ split \in BOOLEAN /\ managed \in BOOLEAN
BY DEF TypeOK

LEMMA Paths ==
  ASSUME NEW x, NEW y
  PROVE  PathOf(x) = PathOf(y) <=> x.class = y.class /\ x.name = y.name
BY DEF PathOf

\* A tree has duplicates if two manifests have one name.
LEMMA DuplicatedMeans ==
  ASSUME git \subseteq Manifest
  PROVE  UniqueInGit <=> \A x, y \in git : x.name = y.name => x = y
<1>1. \A x \in git : x.name \in Names
  BY DEF Manifest
<1> QED
  BY <1>1 DEF UniqueInGit, Duplicated, Unique

\* resolveConnectProfile gives a profile or its error, and a forced one or its error.
LEMMA Resolved ==
  ASSUME NEW n \in Names, NEW class \in Classes, NEW forced \in Profiles \cup {NoProfile},
         NEW reject \in BOOLEAN
  PROVE  /\ Resolve(n, class, forced, reject) \in Profiles \cup {NoProfile}
         /\ forced = NoProfile => Resolve(n, class, forced, reject) \in Profiles
         /\ forced # NoProfile => Resolve(n, class, forced, reject) \in {forced, NoProfile}
BY ProfilesAssumption DEF Resolve

\* A set of numbers that is not empty has a smallest one.
LEMMA SmallestOf ==
  ASSUME NEW S, S \subseteq Nat, S # {}
  PROVE  \E x \in S : \A y \in S : x <= y
<1> DEFINE Less == OpToRel(<, Nat)
<1>1. Less = {p \in Nat \X Nat : p[1] < p[2]}
  BY DEF OpToRel
<1>2. IsWellFoundedOn(Less, Nat)
  BY NatLessThanWellFounded
<1> HIDE DEF Less
<1>3. PICK x \in S : \A y \in S : <<y, x>> \notin Less
  BY <1>2, WFMin
<1>4. \A y \in S : ~(y < x)
  BY <1>1, <1>3
<1> QED
  BY <1>4

\* FindByConnectorName finds the manifest in the smallest class directory.
LEMMA Finds ==
  ASSUME TypeOK, NEW n \in NamesOf(git)
  PROVE  /\ Find(n) \in git /\ Find(n).name = n
         /\ \A x \in git : x.name = n => Find(n).class <= x.class
<1> DEFINE S == {x.class : x \in {y \in git : y.name = n}}
<1>1. S \subseteq Nat /\ S # {}
  BY Types, NamesAssumption DEF Manifest, NamesOf
<1>2. PICK s \in S : \A x \in S : s <= x
  BY <1>1, SmallestOf
<1>3. \E m \in git : m.name = n /\ \A x \in git : x.name = n => m.class <= x.class
  BY <1>2
<1> QED
  BY <1>3 DEF Find

-----------------------------------------------------------------------------
(* The beginning and the end of a command.                                 *)

LEMMA InitInv == Init => IInv
<1> SUFFICES ASSUME Init PROVE IInv
  OBVIOUS
<1>1. TypeOK
  <2>1. 0 \in 0..MaxCommands /\ 0 \in 0..MaxCrashes /\ 0 \in 0..MaxDrift
    BY BoundsAssumption
  <2>2. {split, managed} \subseteq BOOLEAN
    BY Zenon DEF Init
  <2> QED
    BY <2>1, <2>2 DEF Init, TypeOK
<1>2. ~split /\ UniqueInGit
  BY DEF Init, UniqueInGit, Duplicated, Unique
<1>3. \A c \in live : c.name \in Names
  BY <1>1 DEF TypeOK, Connector
<1>4. ProfileInv
  BY <1>2, <1>3 DEF Init, ProfileInv, Unique
<1> QED
  BY <1>1, <1>2, <1>4 DEF Init, IInv, WorkInv, PlanInv, ManagedInv, AdoptedInv, TornInv

\* The items of a command are of the right kind.
LEMMA BatchItems ==
  ASSUME NEW k \in Commands, NEW b \in Batches(k)
  PROVE  /\ b \subseteq Item
         /\ k \in {"create", "update", "migrate"} => b \subseteq Configs
         /\ k # "migrate" => \A v, w \in b : v.name = w.name => v = w
BY CommandsAssumption, ConfigsAssumption DEF Batches, Inputs, Item, Given, Named

LEMMA StartStep == ASSUME IInv, NEW k \in Commands, Start(k) PROVE IInv'
<1>1. /\ work' \in Batches(k) /\ todo' = work' /\ kind' = k /\ plan' = {} /\ outcome' = "running"
      /\ IF k = "delete" THEN ~Duplicated /\ located' = {}
         ELSE ~Ambiguous /\ located' = {[name |-> c.name, profile |-> c.profile] : c \in live}
      /\ commands < MaxCommands /\ commands' = commands + 1
      /\ torn' = IF kind' = kind /\ work' = work THEN torn ELSE {}
      /\ managed' = (managed /\ k \notin {"create", "migrate"})
      /\ UNCHANGED <<git, split, live, cr, drifts, drifted, crashes, unaccepted>>
  BY DEF Start, cluster
<1>2. TypeOK'
  BY <1>1, BatchItems, BoundsAssumption DEF IInv, TypeOK, Connector
<1>3. Duplicated' <=> Duplicated
  BY <1>1 DEF Duplicated, Unique
<1>4. WorkInv'
  BY <1>1, <1>3, BatchItems DEF WorkInv
<1>5. PlanInv' /\ ManagedInv'
  BY <1>1, <1>3 DEF IInv, PlanInv, ManagedInv, UniqueInGit
<1>6. ProfileInv'
  <2>1. kind' # "delete" =>
          /\ \A a, b \in located' : a.name = b.name => a = b
          /\ \A c \in live' : [name |-> c.name, profile |-> c.profile] \in located'
    BY <1>1 DEF Ambiguous
  <2> QED
    BY <1>1, <1>3, <2>1 DEF IInv, ProfileInv, UniqueInGit
<1>7. AdoptedInv'
  BY <1>1 DEF IInv, AdoptedInv
<1>8. TornInv'
  <2>1. CASE torn' = {}
    BY <2>1 DEF TornInv
  <2>2. CASE torn' = torn /\ kind' = kind /\ work' = work
    BY <1>1, <2>2 DEF IInv, TornInv
  <2> QED
    BY <1>1, <2>1, <2>2
<1> QED
  BY <1>2, <1>4, <1>5, <1>6, <1>7, <1>8 DEF IInv

\* An item fails, or the batch is refused.
LEMMA FailStep ==
  ASSUME IInv, outcome' = "failed", todo' = {}, plan' = {},
         UNCHANGED <<git, split, managed, live, cr, drifts, drifted, kind, work, located,
                     commands, crashes, torn, unaccepted>>
  PROVE  IInv'
<1>1. TypeOK'
  BY DEF IInv, TypeOK
<1>2. WorkInv' /\ PlanInv' /\ ManagedInv' /\ AdoptedInv' /\ TornInv'
  BY DEF IInv, WorkInv, PlanInv, ManagedInv, AdoptedInv, TornInv, UniqueInGit, Duplicated, Unique
<1>3. ProfileInv'
  BY DEF IInv, ProfileInv, UniqueInGit, Duplicated, Unique
<1> QED
  BY <1>1, <1>2, <1>3 DEF IInv

-----------------------------------------------------------------------------
(* One item.                                                               *)

\* An item that collects the mutations M keeps the invariant, if they are of this item,
\* one of a type, and as planned mutations have to be, and if a repeated UPDATE removes
\* the manifest of a class its item has left behind.
LEMMA ItemDone ==
  ASSUME IInv, NEW w \in todo, NEW M, Done(w, M),
         unaccepted' \subseteq Manifest,
         drifted' \subseteq drifted,
         \A n \in drifted \ drifted' : n = w.name /\ n \notin NamesOf(git),
         M \subseteq Mutation,
         \A y \in M : /\ y.item = w /\ y.path = PathOf(y.manifest) /\ y.manifest.name = w.name
                      /\ \A z \in M : y.type = z.type => y = z
                      /\ y.type = "write" => WriteOK(y)'
                      /\ y.type = "remove" => RemoveOK(y)',
         kind = "update" =>
           \A from : from < w.class /\ (\A x \in git : x.name = w.name => x.class \in {from, w.class})
                    => \A x \in git : PathOf(x) = <<from, w.name>> => Remove(w, x) \in M
  PROVE  IInv'
<1>1. /\ plan' = plan \cup M /\ todo' = todo \ {w}
      /\ UNCHANGED <<git, split, managed, live, cr, drifts, kind, work, located, outcome,
                     commands, crashes, torn>>
  BY DEF Done, worktree, command
<1>2. TypeOK'
  BY <1>1 DEF IInv, TypeOK
<1>3. w \in work /\ outcome = "running"
  BY Types DEF IInv, WorkInv
<1>4. WorkInv' /\ ManagedInv'
  BY <1>1, <1>3 DEF IInv, WorkInv, ManagedInv, UniqueInGit, Duplicated, Unique
<1>5. PlanInv'
  <2> SUFFICES ASSUME NEW y \in plan'
               PROVE  /\ outcome' = "running"
                      /\ y.item \in work' \ todo'
                      /\ y.path = PathOf(y.manifest) /\ y.manifest.name = y.item.name
                      /\ \A z \in plan' : y.item = z.item /\ y.type = z.type => y = z
                      /\ y.type = "write" => WriteOK(y)'
                      /\ y.type = "remove" => RemoveOK(y)'
    BY DEF PlanInv
  <2>1. CASE y \in M
    <3>1. \A z \in plan : z.item # w
      BY DEF IInv, PlanInv
    <3> QED
      BY <1>1, <1>3, <2>1, <3>1
  <2>2. CASE y \in plan
    <3>1. /\ y.item \in work \ todo /\ y.path = PathOf(y.manifest)
          /\ y.manifest.name = y.item.name
          /\ \A z \in plan : y.item = z.item /\ y.type = z.type => y = z
          /\ y.type = "write" => WriteOK(y)
          /\ y.type = "remove" => RemoveOK(y)
      BY <2>2 DEF IInv, PlanInv
    <3>2. y.type = "write" => WriteOK(y)'
      <4> SUFFICES ASSUME WriteOK(y) PROVE WriteOK(y)'
        BY <3>1
      <4>1. kind = "adopt" /\ y.manifest.name \in drifted => y.manifest.name \in drifted'
        BY <1>3, <3>1 DEF IInv, WorkInv
      <4> QED
        BY <1>1, <4>1 DEF WriteOK, At
    <3>3. y.type = "remove" => RemoveOK(y)'
      BY <1>1, <3>1 DEF RemoveOK
    <3> QED
      BY <1>1, <1>3, <3>1, <3>2, <3>3
  <2> QED
    BY <1>1, <2>1, <2>2
<1>6. ProfileInv'
  BY <1>1 DEF IInv, ProfileInv, UniqueInGit, Duplicated, Unique
<1>7. AdoptedInv'
  <2>1. \A m \in git : m.name \in drifted => m.name \in drifted'
    BY DEF NamesOf
  <2> QED
    BY <1>1, <2>1 DEF IInv, AdoptedInv
<1>8. TornInv'
  <2> SUFFICES ASSUME NEW t \in torn
               PROVE  /\ kind' = "update" /\ t.item \in work'
                      /\ \A x \in git' : x.name = t.item.name => x.class \in {t.from, t.item.class}
                      /\ t.from < t.item.class =>
                           /\ outcome' = "running" /\ t.item \notin todo' =>
                                \A x \in git' : PathOf(x) = <<t.from, t.item.name>>
                                                => Remove(t.item, x) \in plan'
                           /\ outcome' = "ok" => Unique(git, t.item.name)'
    BY <1>1 DEF TornInv
  <2>1. /\ kind = "update" /\ t.item \in work
        /\ \A x \in git : x.name = t.item.name => x.class \in {t.from, t.item.class}
        /\ t.from < t.item.class =>
             (t.item \notin todo => \A x \in git : PathOf(x) = <<t.from, t.item.name>>
                                                  => Remove(t.item, x) \in plan)
    BY <1>3 DEF IInv, TornInv
  <2>2. CASE t.item = w
    BY <1>1, <1>3, <2>1, <2>2
  <2>3. CASE t.item # w
    BY <1>1, <1>3, <2>1, <2>3
  <2> QED
    BY <2>2, <2>3
<1> QED
  BY <1>2, <1>4, <1>5, <1>6, <1>7, <1>8 DEF IInv

LEMMA AdoptSkipStep == ASSUME IInv, NEW w \in todo, AdoptSkip(w) PROVE IInv'
<1>1. kind = "adopt" /\ Done(w, {}) /\ drifted' = drifted /\ unaccepted' = unaccepted
  BY DEF AdoptSkip
<1>2. unaccepted' \subseteq Manifest
  BY <1>1 DEF IInv, TypeOK
<1>3. \A n \in drifted \ drifted' : n = w.name /\ n \notin NamesOf(git)
  BY <1>1
<1> QED
  BY <1>1, <1>2, <1>3, ItemDone

LEMMA AdoptStep == ASSUME IInv, NEW w \in todo, Adopt(w) PROVE IInv'
<1>1. /\ kind = "adopt" /\ w.name \notin NamesOf(git)
      /\ drifted' = drifted \ {w.name}
  BY DEF Adopt
<1>2. PICK c \in live, v \in Verdicts :
        /\ [name |-> w.name, profile |-> c.profile] \in located /\ c.name = w.name
        /\ LET p == Resolve(c.name, c.class, c.profile, TRUE)
               m == [name |-> c.name, class |-> c.class, ver |-> c.ver, profile |-> p,
                     origin |-> "adopted"]
           IN /\ p # NoProfile
              /\ Writable(m, FALSE)
              /\ Done(w, Writing(w, m))
              /\ Checked(m, v)
  BY DEF Adopt
<1> DEFINE p == Resolve(c.name, c.class, c.profile, TRUE)
           m == [name |-> c.name, class |-> c.class, ver |-> c.ver, profile |-> p,
                 origin |-> "adopted"]
<1>3. c \in Connector /\ w \in Item
  BY Types DEF IInv
<1>4. p = c.profile
  BY <1>2, <1>3, Resolved, ProfilesAssumption DEF Connector
<1> HIDE DEF p
<1>5. m \in Manifest /\ m.name = w.name /\ Running(m) = c
  BY <1>2, <1>3, <1>4 DEF Connector, Manifest, Running
<1>6. /\ Writable(m, FALSE) /\ Done(w, Writing(w, m)) /\ Checked(m, v)
  BY <1>2 DEF p
<1> HIDE DEF m
<1>7. unaccepted' \subseteq Manifest
  BY <1>5, <1>6 DEF Checked, IInv, TypeOK
<1>8. Writing(w, m) \subseteq {Write(w, m)} /\ At(PathOf(m)) = {}
  BY <1>1, <1>5, <1>6 DEF Writing, Writable, NamesOf, At
<1>9. Write(w, m) \in Mutation
  BY <1>3, <1>5 DEF Write, Mutation, PathOf, Manifest
<1>10. UNCHANGED <<git, live, kind, located>>
  BY <1>6 DEF Done, worktree, command
<1>11. WriteOK(Write(w, m))'
  <2>1. [name |-> m.name, profile |-> m.profile] \in located /\ m.name \notin NamesOf(git)
    BY <1>1, <1>2, <1>4, <1>5 DEF m
  <2> QED
    BY <1>1, <1>2, <1>5, <1>8, <1>10, <2>1 DEF WriteOK, Write, At
<1>12. \A y \in Writing(w, m) :
         /\ y.item = w /\ y.path = PathOf(y.manifest) /\ y.manifest.name = w.name
         /\ \A z \in Writing(w, m) : y.type = z.type => y = z
         /\ y.type = "write" => WriteOK(y)'
         /\ y.type = "remove" => RemoveOK(y)'
  <2>1. Write(w, m).type = "write" /\ Write(w, m).item = w /\ Write(w, m).manifest = m
        /\ Write(w, m).path = PathOf(m)
    BY DEF Write
  <2> QED
    BY <1>5, <1>8, <1>11, <2>1
<1>13. Writing(w, m) \subseteq Mutation
  BY <1>8, <1>9
<1>14. drifted' \subseteq drifted /\ \A n \in drifted \ drifted' : n = w.name /\ n \notin NamesOf(git)
  BY <1>1
<1> QED
  BY <1>1, <1>6, <1>7, <1>12, <1>13, <1>14, ItemDone

LEMMA CreateStep == ASSUME IInv, NEW w \in todo, Create(w) PROVE IInv'
<1>1. /\ kind \in {"create", "migrate"} /\ w.name \notin NamesOf(located)
      /\ drifted' = drifted
  BY DEF Create
<1>2. PICK v, m :
        /\ v \in Verdicts
        /\ m = [name |-> w.name, class |-> w.class, ver |-> w.ver,
                profile |-> Resolve(w.name, w.class, NoProfile, FALSE),
                origin |-> IF kind = "create" THEN "create" ELSE "migrated"]
        /\ Writable(m, FALSE) /\ Done(w, Writing(w, m)) /\ Checked(m, v)
  BY DEF Create
<1>3. w \in [name : Names, class : Classes, ver : Versions] /\ w \in Item
  BY <1>1, Types, ConfigsAssumption DEF IInv, WorkInv
<1>4. m \in Manifest
  <2>1. Resolve(w.name, w.class, NoProfile, FALSE) \in Profiles
    BY <1>3, Resolved
  <2> QED
    BY <1>2, <1>3, <2>1 DEF Manifest
<1>5. m.name = w.name /\ m.origin # "adopted"
  BY <1>2
<1>6. unaccepted' \subseteq Manifest
  BY <1>2, <1>4 DEF Checked, IInv, TypeOK
<1>7. Writing(w, m) \subseteq {Write(w, m)} /\ (m \notin git => At(PathOf(m)) = {})
  BY <1>2 DEF Writing, Writable, At
<1>8. Write(w, m) \in Mutation
  BY <1>3, <1>4 DEF Write, Mutation, PathOf, Manifest
<1>9. UNCHANGED <<git, live, kind, located>>
  BY <1>2 DEF Done, worktree, command
<1>10. m \notin git => WriteOK(Write(w, m))'
  <2> SUFFICES ASSUME m \notin git PROVE WriteOK(Write(w, m))'
    OBVIOUS
  <2>1. At(PathOf(m)) = {} /\ Write(w, m).manifest = m /\ Write(w, m).path = PathOf(m)
    BY <1>7 DEF Write
  <2>2. m.name \notin NamesOf(located)
    BY <1>1, <1>5
  <2> QED
    BY <1>1, <1>5, <1>9, <2>1, <2>2 DEF WriteOK, At, NamesOf
<1>11. \A y \in Writing(w, m) : y = Write(w, m) /\ m \notin git
  BY DEF Writing
<1>12. \A y \in Writing(w, m) :
         /\ y.item = w /\ y.path = PathOf(y.manifest) /\ y.manifest.name = w.name
         /\ \A z \in Writing(w, m) : y.type = z.type => y = z
         /\ y.type = "write" => WriteOK(y)'
         /\ y.type = "remove" => RemoveOK(y)'
  <2>1. Write(w, m).type = "write" /\ Write(w, m).item = w /\ Write(w, m).manifest = m
        /\ Write(w, m).path = PathOf(m)
    BY DEF Write
  <2> QED
    BY <1>5, <1>10, <1>11, <2>1
<1>13. Writing(w, m) \subseteq Mutation
  BY <1>7, <1>8
<1>14. drifted' \subseteq drifted /\ \A n \in drifted \ drifted' : n = w.name /\ n \notin NamesOf(git)
  BY <1>1
<1> QED
  BY <1>1, <1>2, <1>6, <1>12, <1>13, <1>14, ItemDone

LEMMA UpdateStep == ASSUME IInv, NEW w \in todo, Update(w) PROVE IInv'
<1>1. kind = "update" /\ w.name \in NamesOf(git) /\ drifted' = drifted
  BY DEF Update
<1>2. PICK v, old, p, m :
        /\ v \in Verdicts
        /\ old = Find(w.name) /\ p = Resolve(w.name, w.class, old.profile, TRUE)
        /\ m = [name |-> w.name, class |-> w.class, ver |-> w.ver, profile |-> p,
                origin |-> "update"]
        /\ p # NoProfile
        /\ Done(w, Writing(w, m) \cup Moved(w, old, m))
        /\ Checked(m, v)
  BY DEF Update
<1>3. w \in [name : Names, class : Classes, ver : Versions] /\ w \in Item
  BY <1>1, Types, ConfigsAssumption DEF IInv, WorkInv
<1>4. /\ old \in git /\ old \in Manifest /\ old.name = w.name
      /\ \A x \in git : x.name = w.name => old.class <= x.class
  BY <1>1, <1>2, Finds, Types DEF IInv
<1>5. p = old.profile
  BY <1>2, <1>3, <1>4, Resolved, ProfilesAssumption DEF Manifest
<1>6. /\ m \in Manifest /\ m.name = w.name /\ m.class = w.class /\ m.origin = "update"
      /\ m.profile = old.profile
  BY <1>2, <1>3, <1>4, <1>5 DEF Manifest
<1> DEFINE M == Writing(w, m) \cup Moved(w, old, m)
<1>7. /\ unaccepted' \subseteq Manifest
      /\ UNCHANGED <<git, kind>> /\ plan' = plan \cup M
  BY <1>2, <1>6 DEF Checked, IInv, TypeOK, Done, worktree, command
<1>8. \A y \in M : \/ y = Write(w, m) /\ y.type = "write" /\ m \notin git
                   \/ /\ y = Remove(w, old) /\ y.type = "remove"
                      /\ old.class # m.class
  BY <1>4, <1>6, Paths DEF Writing, Moved, Write, Remove
<1>9. M \subseteq Mutation
  BY <1>3, <1>4, <1>6, <1>8 DEF Write, Remove, Mutation, PathOf, Manifest
<1>10. WriteOK(Write(w, m))'
  <2>1. PathOf(old) = PathOf(m) \/ Remove(w, old) \in plan'
    BY <1>7 DEF Moved
  <2>2. Write(w, m).path = PathOf(m) /\ Write(w, m).manifest = m /\ Write(w, m).item = w
    BY DEF Write
  <2> QED
    BY <1>1, <1>4, <1>6, <1>7, <2>1, <2>2 DEF WriteOK
<1>11. old.class # m.class => RemoveOK(Remove(w, old))'
  <2>1. m \in git \/ Write(w, m) \in plan'
    BY <1>7 DEF Writing
  <2>2. Remove(w, old).manifest = old /\ Remove(w, old).item = w
    BY DEF Remove
  <2> QED
    BY <1>1, <1>4, <1>6, <1>7, <2>1, <2>2 DEF RemoveOK
<1>12. \A y \in M :
         /\ y.item = w /\ y.path = PathOf(y.manifest) /\ y.manifest.name = w.name
         /\ \A z \in M : y.type = z.type => y = z
         /\ y.type = "write" => WriteOK(y)'
         /\ y.type = "remove" => RemoveOK(y)'
  <2>1. /\ Write(w, m).item = w /\ Write(w, m).path = PathOf(m) /\ Write(w, m).manifest = m
        /\ Remove(w, old).item = w /\ Remove(w, old).path = PathOf(old)
        /\ Remove(w, old).manifest = old
    BY DEF Write, Remove
  <2> HIDE DEF M
  <2> QED
    BY <1>4, <1>6, <1>8, <1>10, <1>11, <2>1
<1>13. ASSUME NEW from, from < w.class,
              \A x \in git : x.name = w.name => x.class \in {from, w.class},
              NEW x \in git, PathOf(x) = <<from, w.name>>
       PROVE  Remove(w, x) \in M
  <2>1. x.class = from /\ x.name = w.name
    BY <1>13 DEF PathOf
  <2>2. old.class <= x.class /\ old.class \in {from, w.class} /\ from \in Nat /\ w.class \in Nat
    BY <1>3, <1>4, <1>13, <2>1, Types, NamesAssumption DEF IInv, Manifest
  <2>3. old.class = from
    BY <1>13, <2>1, <2>2
  <2>4. old = x
    BY <1>4, <2>1, <2>3, Types, Paths DEF IInv
  <2>5. PathOf(old) # PathOf(m)
    BY <1>6, <1>13, <2>2, <2>3, Paths
  <2> QED
    BY <2>4, <2>5 DEF Moved
<1>14. drifted' \subseteq drifted /\ \A n \in drifted \ drifted' : n = w.name /\ n \notin NamesOf(git)
  BY <1>1
<1>15. Done(w, M)
  BY <1>2
<1> HIDE DEF M
<1> QED
  BY <1>7, <1>9, <1>12, <1>13, <1>14, <1>15, ItemDone

LEMMA DeleteStep == ASSUME IInv, NEW w \in todo, Delete(w) PROVE IInv'
<1>1. PICK old : /\ kind = "delete" /\ old = Find(w.name) /\ Done(w, {Remove(w, old)})
                 /\ w.name \in NamesOf(git) /\ UNCHANGED <<drifted, unaccepted>>
  BY DEF Delete
<1>2. old \in git /\ old \in Manifest /\ old.name = w.name /\ w \in Item
  BY <1>1, Finds, Types DEF IInv
<1>3. UNCHANGED <<git, kind>> /\ unaccepted' \subseteq Manifest
  BY <1>1 DEF Done, worktree, command, IInv, TypeOK
<1>4. Remove(w, old) \in Mutation
  BY <1>2 DEF Remove, Mutation, PathOf, Manifest
<1>5. /\ Remove(w, old).item = w /\ Remove(w, old).path = PathOf(old)
      /\ Remove(w, old).manifest = old /\ Remove(w, old).type = "remove"
  BY DEF Remove
<1>6. RemoveOK(Remove(w, old))'
  BY <1>1, <1>2, <1>3, <1>5 DEF RemoveOK
<1>7. drifted' \subseteq drifted /\ \A n \in drifted \ drifted' : n = w.name /\ n \notin NamesOf(git)
  BY <1>1
<1>8. kind # "update" /\ {Remove(w, old)} \subseteq Mutation
  BY <1>1, <1>4
<1>9. \A y \in {Remove(w, old)} :
         /\ y.item = w /\ y.path = PathOf(y.manifest) /\ y.manifest.name = w.name
         /\ \A z \in {Remove(w, old)} : y.type = z.type => y = z
         /\ y.type = "write" => WriteOK(y)'
         /\ y.type = "remove" => RemoveOK(y)'
  BY <1>2, <1>5, <1>6
<1> QED
  BY <1>1, <1>3, <1>7, <1>8, <1>9, ItemDone

LEMMA ItemInv == ASSUME IInv, NEW w \in todo, ItemStep(w) PROVE IInv'
<1>1. CASE ItemFails(w)
  BY <1>1, FailStep DEF ItemFails, Fail, worktree, cluster, command
<1> QED
  BY <1>1, AdoptSkipStep, AdoptStep, CreateStep, UpdateStep, DeleteStep DEF ItemStep

-----------------------------------------------------------------------------
(* What a batch makes of the tree.                                         *)

\* A part of the batch that contains, with a removal, all writes.
Part(S) == /\ S \subseteq plan
           /\ \A y \in S, z \in plan : y.type = "remove" /\ z.type = "write" => z \in S

LEMMA PartOfCommit == Part(plan)
BY DEF Part

LEMMA PartOfCrash ==
  ASSUME NEW done \in SUBSET plan, \A x \in done, y \in plan : Before(y, x) => y \in done
  PROVE  Part(done)
<1>1. \A y \in done, z \in plan : y.type = "remove" /\ z.type = "write" => Before(z, y)
  BY DEF Before
<1> QED
  BY <1>1 DEF Part

\* Where the manifests of the new tree come from.
LEMMA ResultMembers ==
  ASSUME IInv, NEW S, Part(S), NEW x \in Result(S)
  PROVE  \/ x \in git /\ \A y \in S : y.path # PathOf(x)
         \/ \E y \in S : y \in plan /\ y.type = "write" /\ y.manifest = x /\ y.path = PathOf(x)
                         /\ WriteOK(y)
BY DEF Result, Written, Part, IInv, PlanInv

LEMMA ResultTypes ==
  ASSUME IInv, ~Conflict, NEW S, Part(S)
  PROVE  /\ Result(S) \subseteq Manifest
         /\ \A x, y \in Result(S) : PathOf(x) = PathOf(y) => x = y
<1>1. Result(S) \subseteq Manifest
  BY ResultMembers, Types DEF IInv, Mutation
<1>2. ASSUME NEW x \in Result(S), NEW y \in Result(S), PathOf(x) = PathOf(y)
      PROVE  x = y
  <2>1. CASE x \in git /\ \A z \in S : z.path # PathOf(x)
    BY <1>2, <2>1, ResultMembers, Types DEF IInv
  <2>2. CASE y \in git /\ \A z \in S : z.path # PathOf(y)
    BY <1>2, <2>2, ResultMembers, Types DEF IInv
  <2>3. CASE /\ \E v \in S : v \in plan /\ v.manifest = x /\ v.path = PathOf(x)
             /\ \E w \in S : w \in plan /\ w.manifest = y /\ w.path = PathOf(y)
    BY <1>2, <2>3 DEF Conflict
  <2> QED
    BY <2>1, <2>2, <2>3, ResultMembers
<1> QED
  BY <1>1, <1>2

\* ADOPT, CREATE and MIGRATE only add.
LEMMA ResultAdds ==
  ASSUME IInv, kind \notin {"update", "delete"}, NEW S, Part(S)
  PROVE  git \subseteq Result(S)
<1>1. \A y \in S : y \in plan /\ y \in Mutation
  BY Types DEF Part, IInv
<1>2. \A y \in S : y.type = "write" /\ At(y.path) = {}
  BY <1>1 DEF IInv, PlanInv, RemoveOK, WriteOK, Mutation
<1> QED
  BY <1>2 DEF Result, At

\* UPDATE leaves every manifest, or one that it has written instead.
LEMMA ResultKeeps ==
  ASSUME IInv, kind = "update", NEW S, Part(S), NEW x \in git
  PROVE  x \in Result(S) \/ \E t \in Result(S) : t.name = x.name /\ t.origin = "update"
<1> SUFFICES ASSUME x \notin Result(S)
             PROVE  \E t \in Result(S) : t.name = x.name /\ t.origin = "update"
  OBVIOUS
<1>1. PICK y \in S : y.path = PathOf(x)
  BY DEF Result
<1>2. y \in plan /\ y \in Mutation /\ y.path = PathOf(y.manifest) /\ y.manifest.name = y.item.name
      /\ y.item \in work /\ y.manifest.name = x.name
  BY <1>1, Types, Paths DEF Part, IInv, PlanInv
<1>3. \A z \in S : z.type = "write" => z.manifest \in Result(S) /\ z.manifest.origin = "update"
  BY DEF Result, Written, Part, IInv, PlanInv, WriteOK
<1>4. CASE y.type = "write"
  BY <1>2, <1>3, <1>4
<1>5. CASE y.type = "remove"
  <2>1. RemoveOK(y)
    BY <1>2, <1>5 DEF IInv, PlanInv
  <2>2. PICK m : /\ m.name = x.name /\ m.origin = "update" /\ m.class # y.manifest.class
                 /\ m \in git \/ Write(y.item, m) \in plan
    BY <1>2, <2>1 DEF RemoveOK
  <2>3. CASE Write(y.item, m) \in plan
    <3>1. Write(y.item, m) \in S /\ Write(y.item, m).type = "write"
          /\ Write(y.item, m).manifest = m
      BY <1>5, <2>3 DEF Part, Write
    <3> QED
      BY <1>3, <2>2, <3>1
  <2>4. CASE m \in Result(S)
    BY <2>2, <2>4
  <2>5. CASE m \in git /\ m \notin Result(S)
    <3>1. PICK z \in S : z.path = PathOf(m)
      BY <2>5 DEF Result
    <3>2. z \in plan /\ z \in Mutation /\ z.path = PathOf(z.manifest)
          /\ z.manifest.name = z.item.name /\ z.item \in work
      BY <3>1, Types DEF Part, IInv, PlanInv
    <3>3. z.manifest.name = m.name /\ z.manifest.class = m.class
      BY <3>1, <3>2, Paths
    <3>4. z.item = y.item
      BY <1>2, <2>2, <3>2, <3>3 DEF IInv, WorkInv
    <3>5. z.type # "remove"
      BY <1>2, <1>5, <2>2, <3>2, <3>3, <3>4 DEF IInv, PlanInv
    <3>6. z.type = "write"
      BY <3>2, <3>5 DEF Mutation
    <3> QED
      BY <1>3, <2>2, <3>3, <3>6
  <2> QED
    BY <2>2, <2>3, <2>4, <2>5
<1> QED
  BY <1>2, <1>4, <1>5 DEF Mutation

\* What DELETE leaves was there.
LEMMA ResultRemoves ==
  ASSUME IInv, kind = "delete", NEW S, Part(S)
  PROVE  Result(S) \subseteq git
BY ResultMembers DEF WriteOK

-----------------------------------------------------------------------------
(* The tree changes.                                                       *)

LEMMA AdoptedStep ==
  ASSUME IInv, Ready, NEW S, Part(S), git' = Result(S), UNCHANGED <<live, drifted>>
  PROVE  AdoptedInv'
<1> SUFFICES ASSUME NEW m \in Result(S), m.origin = "adopted",
                    Running(m) \notin live, m.name \notin drifted
             PROVE  \E x \in Result(S) : x # m /\ x.name = m.name
  BY DEF AdoptedInv
<1>1. m \in git
  <2>1. ASSUME NEW y, y.manifest = m, WriteOK(y)
        PROVE  FALSE
    BY <2>1 DEF WriteOK
  <2> QED
    BY <2>1, ResultMembers
<1>2. PICK x \in git : x # m /\ x.name = m.name
  BY <1>1 DEF IInv, AdoptedInv
<1>3. kind # "delete"
  BY <1>1, <1>2, DuplicatedMeans, Types DEF IInv, WorkInv, Ready, UniqueInGit
<1>4. CASE kind = "update"
  BY <1>2, <1>4, ResultKeeps
<1>5. CASE kind # "update"
  BY <1>2, <1>3, <1>5, ResultAdds
<1> QED
  BY <1>4, <1>5

LEMMA ProfileStep ==
  ASSUME IInv, Ready, ~Conflict, NEW S, Part(S), git' = Result(S),
         split' = (split \/ \E n \in Names : ~Unique(git', n)),
         outcome' # "running", UNCHANGED live
  PROVE  ProfileInv'
<1> SUFFICES ASSUME ~split, \A n \in Names : ~(~Unique(git', n))
             PROVE  /\ UniqueInGit'
                    /\ \A c, d \in live : c.name = d.name => c = d
                    /\ \A m \in git', c \in live : m.name = c.name => m.profile = c.profile
  BY DEF ProfileInv
<1>1. UniqueInGit'
  BY DEF UniqueInGit, Duplicated, Unique
<1>2. \A x, y \in git' : x.name = y.name => x = y
  <2>1. \A x \in git' : x.name \in Names
    BY ResultTypes DEF Manifest
  <2> QED
    BY <2>1 DEF Unique
<1>3. /\ \A c, d \in live : c.name = d.name => c = d
      /\ \A m \in git, c \in live : m.name = c.name => m.profile = c.profile
      /\ kind # "delete" => \A c \in live : \/ c.name \in NamesOf(git)
                                            \/ [name |-> c.name, profile |-> c.profile] \in located
      /\ kind # "delete" => \A a, b \in located : a.name = b.name => a = b
  BY DEF IInv, ProfileInv, Ready
<1>4. ASSUME NEW m \in git', NEW c \in live, m.name = c.name, m \notin git
      PROVE  m.profile = c.profile
  <2>1. PICK y \in plan : y.type = "write" /\ y.manifest = m /\ y.path = PathOf(m) /\ WriteOK(y)
    BY <1>4, ResultMembers
  <2>2. CASE kind = "update"
    BY <1>3, <1>4, <2>1, <2>2 DEF WriteOK
  <2>3. CASE kind = "adopt"
    <3>1. [name |-> m.name, profile |-> m.profile] \in located
          /\ [name |-> c.name, profile |-> c.profile] \in located
      BY <1>3, <1>4, <2>1, <2>3 DEF WriteOK
    <3>2. [name |-> m.name, profile |-> m.profile] = [name |-> c.name, profile |-> c.profile]
      BY <1>3, <1>4, <2>3, <3>1
    <3> QED
      BY <3>2
  <2>4. CASE kind \in {"create", "migrate"}
    <3>1. c.name \in NamesOf(git)
      BY <1>3, <1>4, <2>1, <2>4 DEF WriteOK, NamesOf
    <3>2. PICK x \in git : x.name = m.name
      BY <1>4, <3>1 DEF NamesOf
    <3>3. x \in git'
      BY <2>4, ResultAdds
    <3> QED
      BY <1>2, <1>4, <3>2, <3>3
  <2> QED
    BY <2>1, <2>2, <2>3, <2>4 DEF WriteOK
<1> QED
  BY <1>1, <1>3, <1>4

\* One manifest per name stays one, with ADOPT, UPDATE and DELETE.
LEMMA ManagedStep ==
  ASSUME IInv, ~Conflict, managed, git' = Result(plan)
  PROVE  UniqueInGit'
<1>1. \A x, y \in git : x.name = y.name => x = y
  BY DuplicatedMeans, Types DEF IInv, ManagedInv
<1>2. kind \notin {"create", "migrate"}
  BY DEF IInv, ManagedInv
<1>3. git' \subseteq Manifest
  BY PartOfCommit, ResultTypes
<1>4. ASSUME NEW y \in plan, y.type = "write", NEW x \in git', x.name = y.manifest.name
      PROVE  x = y.manifest
  <2>1. /\ WriteOK(y) /\ y.item \in work /\ y.path = PathOf(y.manifest)
        /\ y.manifest.name = y.item.name
        /\ \A z \in plan : y.item = z.item /\ y.type = z.type => y = z
    BY <1>4 DEF IInv, PlanInv
  <2>2. CASE x \in git /\ \A z \in plan : z.path # PathOf(x)
    <3>1. kind = "update"
      BY <1>2, <1>4, <2>1, <2>2 DEF WriteOK, NamesOf
    <3>2. PICK old \in git : /\ old.name = y.manifest.name
                             /\ PathOf(old) = y.path \/ Remove(y.item, old) \in plan
      BY <2>1, <3>1 DEF WriteOK
    <3>3. old = x
      BY <1>1, <1>4, <2>2, <3>2
    <3> QED
      BY <1>4, <2>2, <3>2, <3>3 DEF Remove
  <2>3. CASE \E z \in plan : z.type = "write" /\ z.manifest = x
    <3>1. PICK z \in plan : z.type = "write" /\ z.manifest = x
      BY <2>3
    <3>2. z.item \in work /\ z.manifest.name = z.item.name
      BY <3>1 DEF IInv, PlanInv
    <3>3. z.item = y.item
      BY <1>2, <1>4, <2>1, <3>1, <3>2 DEF IInv, WorkInv
    <3> QED
      BY <1>4, <2>1, <3>1, <3>3
  <2> QED
    BY <2>2, <2>3, PartOfCommit, ResultMembers
<1>5. \A x, y \in git' : x.name = y.name => x = y
  BY <1>1, <1>4, PartOfCommit, ResultMembers
<1> QED
  BY <1>3, <1>5 DEF UniqueInGit, Duplicated, Unique

\* A torn move stays within its two classes ...
LEMMA TornClasses ==
  ASSUME IInv, NEW S, Part(S), NEW t \in torn, NEW x \in Result(S), x.name = t.item.name
  PROVE  x.class \in {t.from, t.item.class}
<1>1. kind = "update" /\ t.item \in work
  BY DEF IInv, TornInv
<1>2. CASE x \in git
  BY <1>2 DEF IInv, TornInv
<1>3. CASE x \notin git
  <2>1. PICK y \in plan : y.type = "write" /\ y.manifest = x /\ WriteOK(y)
    BY <1>3, ResultMembers
  <2>2. y.item \in work /\ y.item.name = x.name
    BY <2>1 DEF IInv, PlanInv
  <2>3. y.item = t.item
    BY <1>1, <2>2 DEF IInv, WorkInv
  <2> QED
    BY <1>1, <2>1, <2>3 DEF WriteOK
<1> QED
  BY <1>2, <1>3

\* ... and is repaired by the same UPDATE.
LEMMA TornRepaired ==
  ASSUME IInv, ~Conflict, Ready, NEW t \in torn, t.from < t.item.class
  PROVE  \A x, y \in Result(plan) : x.name = t.item.name /\ y.name = t.item.name => x = y
<1>1. /\ kind = "update" /\ t.item \in work
      /\ \A x \in git : PathOf(x) = <<t.from, t.item.name>> => Remove(t.item, x) \in plan
  BY DEF IInv, TornInv, Ready
<1>2. ASSUME NEW x \in Result(plan), x.name = t.item.name
      PROVE  x.class = t.item.class
  <2>1. CASE x \in git /\ \A y \in plan : y.path # PathOf(x)
    <3>1. x.class = t.from => PathOf(x) = <<t.from, t.item.name>>
      BY <1>2 DEF PathOf
    <3>2. Remove(t.item, x).path = PathOf(x)
      BY DEF Remove
    <3> QED
      BY <1>1, <1>2, <2>1, <3>1, <3>2, PartOfCommit, TornClasses
  <2>2. CASE \E y \in plan : y.type = "write" /\ y.manifest = x /\ WriteOK(y)
    <3>1. PICK y \in plan : y.type = "write" /\ y.manifest = x /\ WriteOK(y)
      BY <2>2
    <3>2. y.item \in work /\ y.item.name = x.name
      BY <3>1 DEF IInv, PlanInv
    <3>3. y.item = t.item
      BY <1>1, <1>2, <3>2 DEF IInv, WorkInv
    <3> QED
      BY <1>1, <3>1, <3>3 DEF WriteOK
  <2> QED
    BY <2>1, <2>2, PartOfCommit, ResultMembers
<1> QED
  BY <1>2, Paths, PartOfCommit, ResultTypes

LEMMA CommitStep == ASSUME IInv, Commit PROVE IInv'
<1>1. /\ Ready /\ ~Conflict /\ git' = Result(plan)
      /\ split' = (split \/ \E n \in Names : ~Unique(git', n))
      /\ outcome' = "ok" /\ plan' = {}
      /\ UNCHANGED <<managed, live, cr, drifts, drifted, kind, work, located, todo, commands,
                     crashes, torn, unaccepted>>
  BY DEF Commit, cluster, command
<1>2. TypeOK'
  <2>1. {split', managed'} \subseteq BOOLEAN
    BY <1>1, Types DEF IInv
  <2> QED
    BY <1>1, <2>1, PartOfCommit, ResultTypes DEF IInv, TypeOK
<1>3. WorkInv' /\ PlanInv'
  BY <1>1 DEF Ready, IInv, WorkInv, PlanInv
<1>4. ManagedInv'
  BY <1>1, ManagedStep DEF IInv, ManagedInv
<1>5. ProfileInv' /\ AdoptedInv'
  BY <1>1, PartOfCommit, ProfileStep, AdoptedStep
<1>6. TornInv'
  <2>1. \A t \in torn : t.from < t.item.class => Unique(git, t.item.name)'
    BY <1>1, TornRepaired DEF Unique
  <2>2. \A t \in torn, x \in git' : x.name = t.item.name => x.class \in {t.from, t.item.class}
    BY <1>1, PartOfCommit, TornClasses
  <2> QED
    BY <1>1, <2>1, <2>2 DEF IInv, TornInv
<1> QED
  BY <1>2, <1>3, <1>4, <1>5, <1>6 DEF IInv

LEMMA CrashStep == ASSUME IInv, Crash PROVE IInv'
<1>1. /\ Ready /\ ~Conflict /\ crashes < MaxCrashes
      /\ split' = (split \/ \E n \in Names : ~Unique(git', n))
      /\ outcome' = "crashed" /\ plan' = {} /\ crashes' = crashes + 1 /\ managed' = FALSE
      /\ UNCHANGED <<live, cr, drifts, drifted, kind, work, located, todo, commands, unaccepted>>
  BY DEF Crash, cluster, command
<1>2. PICK done \in SUBSET plan :
        /\ \A x \in done, y \in plan : Before(y, x) => y \in done
        /\ git' = Result(done)
        /\ torn' = torn \cup
             {[item |-> x.item, from |-> x.path[1]] :
                x \in {y \in plan \ done :
                        /\ y.type = "remove" /\ kind = "update" /\ Unique(git, y.item.name)
                        /\ \E z \in git' : PathOf(z) = <<y.item.class, y.item.name>>}}
  BY DEF Crash
<1>3. Part(done)
  BY <1>2, PartOfCrash
<1>4. ASSUME NEW t \in torn', t \notin torn
      PROVE  \E y \in plan : /\ y.type = "remove" /\ kind = "update" /\ Unique(git, y.item.name)
                             /\ t = [item |-> y.item, from |-> y.path[1]]
  BY <1>2, <1>4
<1>5. TypeOK'
  <2>1. {split', managed'} \subseteq BOOLEAN
    BY <1>1, Types DEF IInv
  <2>2. torn' \subseteq [item : Item, from : Classes]
    <3> SUFFICES ASSUME NEW t \in torn', t \notin torn PROVE t \in [item : Item, from : Classes]
      BY DEF IInv, TypeOK
    <3>1. PICK y \in plan : t = [item |-> y.item, from |-> y.path[1]]
      BY <1>4
    <3> QED
      BY <3>1, Types DEF IInv, Mutation
  <2>3. git' \subseteq Manifest /\ \A x, y \in git' : PathOf(x) = PathOf(y) => x = y
    BY <1>1, <1>2, <1>3, ResultTypes
  <2>4. crashes' \in 0..MaxCrashes
    BY <1>1, BoundsAssumption DEF IInv, TypeOK
  <2> QED
    BY <1>1, <2>1, <2>2, <2>3, <2>4 DEF IInv, TypeOK
<1>6. WorkInv' /\ PlanInv' /\ ManagedInv'
  BY <1>1 DEF Ready, IInv, WorkInv, PlanInv, ManagedInv
<1>7. ProfileInv' /\ AdoptedInv'
  BY <1>1, <1>2, <1>3, ProfileStep, AdoptedStep
<1>8. TornInv'
  <2> SUFFICES ASSUME NEW t \in torn'
               PROVE  /\ kind = "update" /\ t.item \in work
                      /\ \A x \in git' : x.name = t.item.name
                                         => x.class \in {t.from, t.item.class}
    BY <1>1 DEF TornInv
  <2>1. CASE t \in torn
    BY <1>2, <1>3, <2>1, TornClasses DEF IInv, TornInv
  <2>2. CASE t \notin torn
    <3>1. PICK y \in plan : /\ y.type = "remove" /\ kind = "update" /\ Unique(git, y.item.name)
                            /\ t = [item |-> y.item, from |-> y.path[1]]
      BY <1>4, <2>2
    <3>2. /\ RemoveOK(y) /\ y.item \in work /\ y.path = PathOf(y.manifest)
          /\ y.manifest.name = y.item.name
      BY <3>1 DEF IInv, PlanInv
    <3>3. ASSUME NEW x \in git', x.name = t.item.name
          PROVE  x.class \in {t.from, t.item.class}
      <4>1. CASE x \in git
        <5>1. x = y.manifest
          BY <3>1, <3>2, <3>3, <4>1 DEF RemoveOK, Unique
        <5> QED
          BY <3>1, <3>2, <5>1 DEF PathOf
      <4>2. CASE x \notin git
        <5>1. PICK z \in plan : z.type = "write" /\ z.manifest = x /\ WriteOK(z)
          BY <1>2, <1>3, <4>2, ResultMembers
        <5>2. z.item \in work /\ z.item.name = x.name
          BY <5>1 DEF IInv, PlanInv
        <5>3. z.item = t.item
          BY <3>1, <3>2, <3>3, <5>2 DEF IInv, WorkInv
        <5> QED
          BY <3>1, <5>1, <5>3 DEF WriteOK
      <4> QED
        BY <4>1, <4>2
    <3> QED
      BY <3>1, <3>2, <3>3
  <2> QED
    BY <2>1, <2>2
<1> QED
  BY <1>5, <1>6, <1>7, <1>8 DEF IInv

-----------------------------------------------------------------------------
(* The environment.                                                        *)

LEMMA SyncStep == ASSUME IInv, NEW m \in git, Sync(m) PROVE IInv'
<1>1. /\ live' = {c \in live : c.name # m.name \/ c.profile # m.profile} \cup {Running(m)}
      /\ cr' = {x \in cr : x.name # m.name} \cup {[name |-> m.name, profile |-> m.profile]}
      /\ UNCHANGED <<git, split, managed, kind, work, located, todo, plan, outcome, commands,
                     crashes, drifts, drifted, torn, unaccepted>>
  BY DEF Sync, worktree, command
<1>2. m \in Manifest /\ Running(m) \in Connector
      /\ Running(m).name = m.name /\ Running(m).profile = m.profile
  BY Types DEF IInv, Manifest, Connector, Running
<1>3. TypeOK'
  BY <1>1, <1>2 DEF IInv, TypeOK, Manifest
<1>4. WorkInv' /\ ManagedInv' /\ TornInv'
  BY <1>1 DEF IInv, WorkInv, ManagedInv, TornInv, UniqueInGit, Duplicated, Unique
<1>5. \A c \in live : c.name # m.name => c \in live'
  BY <1>1
<1>6. PlanInv'
  <2>1. \A y \in plan : WriteOK(y) => WriteOK(y)'
    <3> SUFFICES ASSUME NEW y \in plan, WriteOK(y) PROVE WriteOK(y)'
      OBVIOUS
    <3>1. kind = "adopt" => y.manifest.name # m.name
      BY DEF WriteOK, NamesOf
    <3>2. Running(y.manifest).name = y.manifest.name
      BY DEF Running
    <3> QED
      BY <1>1, <1>5, <3>1, <3>2 DEF WriteOK, At
  <2>2. \A y \in plan : RemoveOK(y) => RemoveOK(y)'
    BY <1>1 DEF RemoveOK
  <2> QED
    BY <1>1, <2>1, <2>2 DEF IInv, PlanInv
<1>7. ProfileInv'
  <2>1. ~split => \A x \in git : x.name = m.name => x = m
    BY DuplicatedMeans, Types DEF IInv, ProfileInv
  <2>2. ~split => \A c \in live' : c.name = m.name => c = Running(m)
    BY <1>1 DEF IInv, ProfileInv
  <2>3. \A c \in live' : c.name # m.name => c \in live
    BY <1>1, <1>2
  <2>4. m.name \in NamesOf(git)
    BY DEF NamesOf
  <2>5. UniqueInGit' <=> UniqueInGit
    BY <1>1 DEF UniqueInGit, Duplicated, Unique
  <2> QED
    BY <1>1, <1>2, <2>1, <2>2, <2>3, <2>4, <2>5 DEF IInv, ProfileInv
<1>8. AdoptedInv'
  <2> SUFFICES ASSUME NEW x \in git, x.origin = "adopted", Running(x) \notin live',
                      x.name \notin drifted
               PROVE  \E y \in git : y # x /\ y.name = x.name
    BY <1>1 DEF AdoptedInv
  <2>1. CASE x.name = m.name
    BY <1>1, <2>1
  <2>2. CASE x.name # m.name
    <3>1. Running(x) \notin live
      BY <1>5, <2>2 DEF Running
    <3> QED
      BY <3>1 DEF IInv, AdoptedInv
  <2> QED
    BY <2>1, <2>2
<1> QED
  BY <1>3, <1>4, <1>6, <1>7, <1>8 DEF IInv

\* What others do to a connector is remembered.
LEMMA OthersStep ==
  ASSUME IInv, NEW n \in Names, TypeOK', drifted' = drifted \cup {n},
         \A c \in live : c.name # n => c \in live',
         \A c \in live' : c.name # n => c \in live,
         \A c \in live' : \E d \in live : d.name = c.name /\ d.profile = c.profile,
         \A c, d \in live' : c.name = n /\ d.name = n
            => c = d \/ \E a, b \in live : a # b /\ a.name = n /\ b.name = n,
         UNCHANGED <<git, split, managed, kind, work, located, todo, plan, outcome, torn>>
  PROVE  IInv'
<1>1. WorkInv' /\ ManagedInv' /\ TornInv'
  BY DEF IInv, WorkInv, ManagedInv, TornInv, UniqueInGit, Duplicated, Unique
<1>2. \A x \in Manifest : Running(x) \in live => Running(x) \in live' \/ x.name \in drifted'
  BY DEF Running
<1>3. PlanInv'
  <2>1. \A y \in plan : WriteOK(y) => WriteOK(y)'
    BY <1>2, Types DEF WriteOK, At, IInv, Mutation
  <2>2. \A y \in plan : RemoveOK(y) => RemoveOK(y)'
    BY DEF RemoveOK
  <2> QED
    BY <2>1, <2>2 DEF IInv, PlanInv
<1>4. ProfileInv'
  <2>1. UniqueInGit' <=> UniqueInGit
    BY DEF UniqueInGit, Duplicated, Unique
  <2>2. ~split => \A c, d \in live' : c.name = d.name => c = d
    BY DEF IInv, ProfileInv
  <2>3. ~split => \A m \in git, c \in live' : m.name = c.name => m.profile = c.profile
    BY DEF IInv, ProfileInv
  <2>4. ~split /\ outcome = "running" /\ kind # "delete" =>
          \A c \in live' : \/ c.name \in NamesOf(git)
                           \/ [name |-> c.name, profile |-> c.profile] \in located
    BY DEF IInv, ProfileInv
  <2> QED
    BY <2>1, <2>2, <2>3, <2>4 DEF IInv, ProfileInv
<1>5. AdoptedInv'
  BY <1>2, Types DEF IInv, AdoptedInv
<1> QED
  BY <1>1, <1>3, <1>4, <1>5 DEF IInv

LEMMA PruneStep == ASSUME IInv, NEW x \in cr, Prune(x) PROVE IInv'
<1>1. /\ live' = {c \in live : c.name # x.name \/ c.profile # x.profile}
      /\ cr' = cr \ {x} /\ drifted' = drifted \cup {x.name}
      /\ UNCHANGED <<git, split, managed, kind, work, located, todo, plan, outcome, commands,
                     crashes, drifts, torn, unaccepted>>
  BY DEF Prune, worktree, command
<1>2. x.name \in Names
  BY DEF IInv, TypeOK
<1>3. TypeOK'
  BY <1>1, <1>2 DEF IInv, TypeOK
<1> QED
  BY <1>1, <1>2, <1>3, OthersStep

LEMMA DriftStep == ASSUME IInv, NEW c \in live, Drift(c) PROVE IInv'
<1>1. /\ drifts < MaxDrift /\ drifts' = drifts + 1 /\ drifted' = drifted \cup {c.name}
      /\ UNCHANGED <<git, split, managed, cr, kind, work, located, todo, plan, outcome,
                     commands, crashes, torn, unaccepted>>
  BY DEF Drift, worktree, command
<1>2. c \in Connector
  BY Types DEF IInv
<1>3. \/ live' = live \ {c}
      \/ \E v \in Versions : live' = (live \ {c}) \cup {[c EXCEPT !.ver = v]}
  BY DEF Drift
<1>4. TypeOK'
  <2>1. live' \subseteq Connector
    BY <1>2, <1>3, Types DEF IInv, Connector
  <2>2. drifts' \in 0..MaxDrift /\ drifted' \subseteq Names
    BY <1>1, <1>2, BoundsAssumption DEF IInv, TypeOK, Connector
  <2> QED
    BY <1>1, <2>1, <2>2 DEF IInv, TypeOK
<1> DEFINE new == live' \ (live \ {c})
<1>5. /\ live' = (live \ {c}) \cup new
      /\ \A d, e \in new : d = e
      /\ \A d \in new : d.name = c.name /\ d.profile = c.profile
  <2>1. CASE live' = live \ {c}
    BY <2>1
  <2>2. CASE \E v \in Versions : live' = (live \ {c}) \cup {[c EXCEPT !.ver = v]}
    <3>1. PICK d : d.name = c.name /\ d.profile = c.profile /\ live' = (live \ {c}) \cup {d}
      BY <1>2, <2>2 DEF Connector
    <3> QED
      BY <3>1
  <2> QED
    BY <1>3, <2>1, <2>2
<1> HIDE DEF new
<1>6. c.name \in Names
  BY <1>2 DEF Connector
<1>7. /\ \A d \in live : d.name # c.name => d \in live'
      /\ \A d \in live' : d.name # c.name => d \in live
      /\ \A d \in live' : \E e \in live : e.name = d.name /\ e.profile = d.profile
  BY <1>5
<1>8. \A d, e \in live' : d.name = c.name /\ e.name = c.name
         => d = e \/ \E a, b \in live : a # b /\ a.name = c.name /\ b.name = c.name
  BY <1>5
<1> QED
  BY <1>1, <1>4, <1>6, <1>7, <1>8, OthersStep

-----------------------------------------------------------------------------
(* The theorems.                                                           *)

LEMMA StepInv == IInv /\ [Next]_vars => IInv'
<1> SUFFICES ASSUME IInv, [Next]_vars PROVE IInv'
  OBVIOUS
<1>1. CASE UNCHANGED vars
  <2>1. TypeOK'
    BY <1>1 DEF IInv, TypeOK, vars
  <2>2. WorkInv' /\ ManagedInv' /\ AdoptedInv' /\ TornInv'
    BY <1>1 DEF vars, IInv, WorkInv, ManagedInv, AdoptedInv, TornInv, UniqueInGit, Duplicated,
                Unique
  <2>3. PlanInv'
    <3>1. \A y : WriteOK(y) => WriteOK(y)'
      BY <1>1 DEF vars, WriteOK, At
    <3>2. \A y : RemoveOK(y) => RemoveOK(y)'
      BY <1>1 DEF vars, RemoveOK
    <3> QED
      BY <1>1, <3>1, <3>2 DEF vars, IInv, PlanInv
  <2>4. ProfileInv'
    BY <1>1 DEF vars, IInv, ProfileInv, UniqueInGit, Duplicated, Unique
  <2> QED
    BY <2>1, <2>2, <2>3, <2>4 DEF IInv
<1>2. CASE Refuse
  BY <1>2, FailStep DEF Refuse, Ready, worktree, cluster, command
<1> QED
  BY <1>1, <1>2, StartStep, ItemInv, CommitStep, CrashStep, SyncStep, PruneStep, DriftStep
     DEF Next

\* The inductive invariant of a command and its environment.
THEOREM Invariance == Spec => []IInv
BY InitInv, StepInv, PTL DEF Spec

\* Git, the workers and the plan of a command keep their types (worktree, live
\* connectors and collected mutations of internal/workflow).
THEOREM TypeCorrect == Spec => []TypeOK
<1>1. IInv => TypeOK
  BY DEF IInv
<1> QED
  BY <1>1, Invariance, PTL

\* An environment kept with ADOPT, UPDATE and DELETE has one manifest per name
\* (adopt.go, create.go and delete.go).
THEOREM ManagedStaysUnique == Spec => []ManagedUnique
<1>1. IInv => ManagedUnique
  BY DEF IInv, ManagedInv, ManagedUnique
<1> QED
  BY <1>1, Invariance, PTL

\* No connector runs on two profiles while Git has one manifest per name
\* (resolveConnectProfile and the live listing, long before the sync).
THEOREM NeverRunsTwice == Spec => []NoDoubleRun
<1>1. IInv => NoDoubleRun
  BY DEF IInv, ProfileInv, NoDoubleRun, Unique
<1> QED
  BY <1>1, Invariance, PTL

\* A repeated UPDATE repairs a torn class move (create.go).
THEOREM RerunRepairsMove == Spec => []RerunRepairs
<1>1. IInv => RerunRepairs
  BY DEF IInv, TornInv, RerunRepairs
<1> QED
  BY <1>1, Invariance, PTL

\* The tree only changes when a batch is applied or dies.
LEMMA TreeSteps ==
  ASSUME IInv, [Next]_vars
  PROVE  \/ git' = git
         \/ kind' = kind /\ \E S : Part(S) /\ git' = Result(S)
<1>1. CASE Commit
  BY <1>1, PartOfCommit DEF Commit, command
<1>2. CASE Crash
  BY <1>2, PartOfCrash DEF Crash, command
<1>3. CASE \E w \in todo : ItemStep(w)
  BY <1>3 DEF ItemStep, AdoptSkip, Adopt, Create, Update, Delete, ItemFails, Done, Fail, worktree
<1> QED
  BY <1>1, <1>2, <1>3 DEF Next, vars, Start, Refuse, Sync, Prune, Drift, worktree

\* ADOPT, CREATE and MIGRATE never replace or remove a manifest (PlanWrite without
\* overwrite).
THEOREM OnlyUpdatesReplace == Spec => OnlyUpdateReplaces
<1>1. IInv /\ [Next]_vars => [kind' \in {"adopt", "create", "migrate"} => git \subseteq git']_vars
  BY TreeSteps, ResultAdds
<1> QED
  BY <1>1, Invariance, PTL DEF Spec, OnlyUpdateReplaces

\* Only DELETE takes a connector out of Git (create.go's move, ApplyBatch's order).
THEOREM NothingIsLost == Spec => NothingLost
<1>1. IInv /\ [Next]_vars => [kind' # "delete" => NamesOf(git) \subseteq NamesOf(git')]_vars
  <2> SUFFICES ASSUME IInv, [Next]_vars, kind' # "delete"
               PROVE  NamesOf(git) \subseteq NamesOf(git')
    OBVIOUS
  <2>1. CASE git' = git
    BY <2>1
  <2>2. CASE kind' = kind /\ \E S : Part(S) /\ git' = Result(S)
    <3>1. \A x \in git : \E t \in git' : t.name = x.name
      BY <2>2, ResultAdds, ResultKeeps
    <3> QED
      BY <3>1 DEF NamesOf
  <2> QED
    BY <2>1, <2>2, TreeSteps
<1> QED
  BY <1>1, Invariance, PTL DEF Spec, NothingLost

\* The sync of an adopted manifest leaves the workers as they are (adopt.go).
THEOREM SyncLeavesAdopted == Spec => SyncKeepsAdopted
<1>1. IInv /\ [Next]_vars =>
        [\A m \in git : Sync(m) /\ m.origin = "adopted" /\ UniqueInGit => m.name \in drifted]_vars
  <2> SUFFICES ASSUME IInv, NEW m \in git, Sync(m), m.origin = "adopted", UniqueInGit
               PROVE  m.name \in drifted
    OBVIOUS
  <2>1. Running(m) \notin live
    BY DEF Sync
  <2> QED
    BY <2>1, DuplicatedMeans, Types DEF IInv, AdoptedInv
<1> QED
  BY <1>1, Invariance, PTL DEF Spec, SyncKeepsAdopted
=============================================================================
