---------------------------- MODULE Operations -----------------------------
(***************************************************************************)
(* The commands that relate what Git holds to what runs, over the listing  *)
(* of Discovery: INVENTORY, VERIFY and OPS, and, as far as the listing     *)
(* decides what they write, ADOPT and CREATE.  Commands follow one         *)
(* another; CFK acts on annotations and others change the workers at any   *)
(* time.  A manifest is a CR: its own name, the connector's name, the      *)
(* connect-profile label and the discovery fields.                         *)
(***************************************************************************)
EXTENDS Discovery

CONSTANTS
  CRs,          \* metadata.name of Connector CRs
  CrName,       \* KubernetesName: the CR the commands make for a connector
  NoLabel,      \* the manifest has no connect-profile label
  OtherLabel,   \* its label names no configured profile
  Refs,         \* discovery fields (connectClusterRef, connectRest)
  Ref,          \* the discovery fields of each configured profile
  InitialGit,   \* the trees the first command may find
  InitialLive,  \* what may run before the first command
  InitialHealth, \* and in which state
  Allowed,      \* policies operations.allowed
  MaxCommands   \* bound: commands

Commands == {"inventory", "adopt", "create", "verify", "ops"}
Operation == {"status", "pause", "resume", "restart"}
Healths == {"running", "taskFailed", "down"}
Manifest == [name : Names, label : Profiles \cup {NoLabel, OtherLabel}, ref : Refs]

ASSUME OperationsAssumption ==
  /\ CrName \in [Names -> CRs] /\ Ref \in [Profiles -> Refs]
  /\ \A g \in InitialGit : DOMAIN g \subseteq CRs /\ \A c \in DOMAIN g : g[c] \in Manifest
  /\ InitialLive \subseteq SUBSET Places /\ InitialHealth \subseteq [Places -> Healths]
  /\ Allowed \subseteq Operation /\ MaxCommands \in Nat

VARIABLES
  git,        \* the manifests of the environment: a function on some CRs
  health,     \* the state of the connector and its tasks, if the place is live
  annotation, \* what CFK has still to do to a CR
  restarts,   \* how often CFK restarted a connector
  cmd,        \* the running command, or the last one
  operation,  \* OPS: the operation
  dryRun,     \* ADOPT, CREATE, OPS: no --write
  phase,      \* "idle", "listing", "items", "done" or "refused"
  selected,   \* the connectors the command works on
  todo,       \* those it has not done yet
  failed,     \* those that failed
  planned,    \* the profile of every manifest to write
  inventory,  \* the report of INVENTORY
  commands,   \* bound: commands begun
  added,      \* history: the connectors the command wrote manifests for
  acted,      \* history: the CRs CFK has acted on since the command began
  well,       \* history: the places that were in order at some time of the command
  restartRuns \* history: how many OPS runs asked for a restart of a connector

commandVars == <<cmd, operation, dryRun, selected, commands>>
workVars    == <<todo, failed, planned, inventory, added>>
vars == <<discoveryVars, git, health, annotation, restarts, commandVars, phase, workVars,
          acted, well, restartRuns>>

NoReport == [adopted |-> {}, pending |-> {}, gitOnly |-> {}, mismatch |-> {},
             liveCount |-> 0, gitCount |-> 0]

TypeOK ==
  /\ DiscoveryTypeOK
  /\ DOMAIN git \subseteq CRs /\ \A c \in DOMAIN git : git[c] \in Manifest
  /\ health \in [Places -> Healths]
  /\ annotation \in [CRs -> {"none", "pause", "resume", "restart"}]
  /\ restarts \in [Names -> Nat] /\ restartRuns \in [Names -> 0..MaxCommands]
  /\ cmd \in Commands \cup {"none"} /\ operation \in Operation /\ dryRun \in BOOLEAN
  /\ phase \in {"idle", "listing", "items", "done", "refused"}
  /\ selected \subseteq Names /\ todo \subseteq selected /\ failed \subseteq selected \ todo
  /\ DOMAIN planned \subseteq selected /\ \A n \in DOMAIN planned : planned[n] \in Profiles
  /\ added \subseteq selected /\ acted \subseteq CRs /\ well \subseteq Places
  /\ commands \in 0..MaxCommands

Init ==
  /\ live \in InitialLive /\ steady = live /\ ever = live /\ events = 0
  /\ listing = "idle" /\ asked = {} /\ scope = Names /\ pc = [p \in Profiles |-> "idle"]
  /\ results = {} /\ locations = << >>
  /\ git \in InitialGit
  /\ health \in InitialHealth
  /\ annotation = [c \in CRs |-> "none"] /\ restarts = [n \in Names |-> 0]
  /\ cmd = "none" /\ operation = "status" /\ dryRun = TRUE /\ phase = "idle"
  /\ selected = {} /\ todo = {} /\ failed = {} /\ planned = << >>
  /\ inventory = NoReport /\ commands = 0
  /\ added = {} /\ acted = {} /\ well = {} /\ restartRuns = [n \in Names |-> 0]

-----------------------------------------------------------------------------
(* Reading the tree.                                                       *)

Matching(m) == {p \in Profiles : Ref[p] = m.ref}

\* Mutant of ProfileFromCR: the label is believed.
ProfileByLabel(m) ==
  CASE m.label # NoLabel -> m.label
    [] m.label = NoLabel /\ Cardinality(Matching(m)) = 1 -> CHOOSE p \in Matching(m) : TRUE
    [] OTHER -> NoProfile

\* profileFromCR: the label if the discovery fields agree with it; without a label
\* the one profile with these fields.  NoProfile stands for the error.
ProfileFromCR(m) ==
  CASE m.label # NoLabel /\ m.label \in Matching(m) -> m.label
    [] m.label = NoLabel /\ Cardinality(Matching(m)) = 1 -> CHOOSE p \in Matching(m) : TRUE
    [] OTHER -> NoProfile

ManagedNames == {git[c].name : c \in DOMAIN git}

\* "Git contains duplicate connector name", or a manifest without a profile.
Unreadable ==
  \/ \E c, d \in DOMAIN git : c # d /\ git[c].name = git[d].name
  \/ \E c \in DOMAIN git : ProfileFromCR(git[c]) = NoProfile

\* Mutant of CrOf: the CR is called like the connector.
CrOfName(n) == CrName[n]

\* crNames and profiles of OPS, VERIFY and INVENTORY, for a readable tree.
CrOf(n) == CHOOSE c \in DOMAIN git : git[c].name = n
GitProfile(n) == ProfileFromCR(git[CrOf(n)])

-----------------------------------------------------------------------------
(* The beginning of a command.                                             *)

\* The history of a command starts with what runs when it begins.
Watch == /\ steady' = live /\ ever' = live /\ acted' = {}
         /\ well' = IF cmd' = "verify" THEN {x \in live : health[x] = "running"} ELSE {}

Command(c) ==
  /\ phase \in {"idle", "done", "refused"} /\ commands < MaxCommands
  /\ cmd' = c /\ commands' = commands + 1
  /\ failed' = {} /\ planned' = << >> /\ inventory' = NoReport /\ added' = {}
  /\ Watch
  /\ UNCHANGED <<live, events, git, health, annotation, restarts>>

\* INVENTORY lists every profile, ADOPT the ones it is asked for, CREATE every
\* profile and every name.
StartInventory ==
  /\ Command("inventory")
  /\ selected' = {} /\ todo' = {}
  /\ Begin(AllProfileNames, Env)
  /\ phase' = "listing"
  /\ operation' = "status" /\ dryRun' = TRUE /\ UNCHANGED restartRuns

StartAdopt ==
  /\ Command("adopt")
  /\ \E S \in SUBSET Env : S # {} /\ selected' = S /\ todo' = S
  /\ \E explicit \in Profiles \cup {NoProfile} : Begin(DiscoveryProfiles(explicit), Env)
  /\ dryRun' \in BOOLEAN
  /\ phase' = "listing"
  /\ operation' = "status" /\ UNCHANGED restartRuns

StartCreate ==
  /\ Command("create")
  /\ \E S \in SUBSET Names : S # {} /\ selected' = S /\ todo' = S
  /\ Begin(AllProfileNames, Names)
  /\ dryRun' \in BOOLEAN
  /\ phase' = "listing"
  /\ operation' = "status" /\ UNCHANGED restartRuns

\* VERIFY and OPS read the tree, refuse it, or select names that match the rule;
\* a name that is selected without a manifest is a failed item.
Reads(S) ==
  IF Unreadable \/ S = {} \/ ~(S \subseteq Env)
  THEN phase' = "refused" /\ selected' = {} /\ todo' = {}
  ELSE phase' = "items" /\ selected' = S /\ todo' = S

StartVerify ==
  /\ Command("verify")
  /\ \E S \in SUBSET Names : Reads(S)
  /\ NoListing
  /\ operation' = "status" /\ dryRun' = TRUE /\ UNCHANGED restartRuns

StartOps ==
  /\ Command("ops")
  /\ operation' \in Allowed /\ dryRun' \in BOOLEAN
  /\ \E S \in SUBSET Names : Reads(S)
  /\ restartRuns' = [n \in Names |->
       restartRuns[n] + IF operation' = "restart" /\ ~dryRun' /\ n \in selected' THEN 1 ELSE 0]
  /\ NoListing

-----------------------------------------------------------------------------
(* The goroutines of the listing, and what comes after it.                 *)

Unmoved == <<git, health, annotation, restarts, commandVars, acted, well, restartRuns>>

ListingStep == /\ (\E p \in Profiles : Answer(p)) \/ Collect
               /\ UNCHANGED <<Unmoved, phase, workVars>>

\* A listing that failed ends the command.
ListingRefused ==
  /\ phase = "listing" /\ listing \in {"failed", "ambiguous"}
  /\ phase' = "refused" /\ todo' = {}
  /\ UNCHANGED <<discoveryVars, Unmoved, failed, planned, inventory, added>>

\* Mutant of Classify: a connector on another profile than Git says is adopted.
ClassifyByName(L, G) ==
  [adopted |-> L \cap G, mismatch |-> {}, pending |-> L \ G, gitOnly |-> G \ L,
   liveCount |-> Cardinality(L), gitCount |-> Cardinality(G)]

\* Inventory's comparison of the live names L and the managed names G.
Classify(L, G) ==
  [adopted   |-> {n \in L \cap G : locations[n] = GitProfile(n)},
   mismatch  |-> {n \in L \cap G : locations[n] # GitProfile(n)},
   pending   |-> L \ G,
   gitOnly   |-> G \ L,
   liveCount |-> Cardinality(L), gitCount |-> Cardinality(G)]

Inventory ==
  /\ phase = "listing" /\ listing = "listed" /\ cmd = "inventory"
  /\ IF Unreadable
     THEN phase' = "refused" /\ UNCHANGED inventory
     ELSE phase' = "done" /\ inventory' = Classify(DOMAIN locations, ManagedNames)
  /\ UNCHANGED <<discoveryVars, Unmoved, todo, failed, planned, added>>

\* ADOPT and CREATE go on with their items.
Listed ==
  /\ phase = "listing" /\ listing = "listed" /\ cmd # "inventory"
  /\ phase' = "items"
  /\ UNCHANGED <<discoveryVars, Unmoved, workVars>>

-----------------------------------------------------------------------------
(* The items.                                                              *)

\* Mutant of Item: a connector is selected twice.
ItemStays(n) == phase = "items" /\ n \in todo /\ todo' \in {todo, todo \ {n}}

Item(n) == phase = "items" /\ n \in todo /\ todo' = todo \ {n}
Fails(n) == failed' = failed \cup {n} /\ UNCHANGED planned
Succeeds == UNCHANGED <<failed, planned>>
Plans(n, p) == /\ planned' = [x \in DOMAIN planned \cup {n} |-> IF x = n THEN p ELSE planned[x]]
               /\ UNCHANGED failed

\* PlanWrite: a name that has its CR already is skipped or refused before.
Free(n) == CrName[n] \notin DOMAIN git

\* ADOPT: skip what Git has, take the rest from where the listing saw it; the
\* request for its configuration fails if it is gone, or for any other reason.
AdoptItem(n) ==
  /\ cmd = "adopt" /\ Item(n)
  /\ \/ n \in ManagedNames /\ Succeeds
     \/ n \notin ManagedNames /\ Fails(n)
     \/ /\ n \notin ManagedNames /\ n \in DOMAIN locations
        /\ <<n, locations[n]>> \in live /\ Free(n)
        /\ Plans(n, locations[n])
  /\ UNCHANGED <<discoveryVars, Unmoved, phase, inventory, added>>

\* CREATE --check-live: the profile is the one the configuration resolves to.
CreateItem(n) ==
  /\ cmd = "create" /\ Item(n)
  /\ \/ Fails(n)
     \/ n \in Env /\ n \notin DOMAIN locations /\ Free(n) /\ \E p \in Profiles : Plans(n, p)
  /\ UNCHANGED <<discoveryVars, Unmoved, phase, inventory, added>>

\* Mutant of InOrder: the tasks are not looked at.
InOrderConnector(h) == h # "down"

\* VERIFY: the connector and every task are RUNNING.
InOrder(h) == h = "running"

VerifyItem(n) ==
  /\ cmd = "verify" /\ Item(n)
  /\ \/ Fails(n)
     \/ /\ n \in ManagedNames /\ <<n, GitProfile(n)>> \in live
        /\ InOrder(health[<<n, GitProfile(n)>>])
        /\ Succeeds
  /\ UNCHANGED <<discoveryVars, Unmoved, phase, inventory, added>>

\* OPS status asks the worker.
StatusItem(n) ==
  /\ cmd = "ops" /\ operation = "status" /\ Item(n)
  /\ \/ Fails(n)
     \/ n \in ManagedNames /\ <<n, GitProfile(n)>> \in live /\ Succeeds
  /\ UNCHANGED <<discoveryVars, Unmoved, phase, inventory, added>>

\* kubectl annotate --overwrite, or nothing in a dry run.
Annotated(n) == IF dryRun THEN UNCHANGED annotation
                ELSE annotation' = [annotation EXCEPT ![CrOf(n)] = operation]

\* The other operations annotate the CR.  kubectl fails, or is killed when the
\* command is cancelled, before or after the API server has done it.
AnnotateItem(n) ==
  /\ cmd = "ops" /\ operation # "status" /\ Item(n)
  /\ \/ n \in ManagedNames /\ Annotated(n) /\ Succeeds
     \/ n \in ManagedNames /\ ~dryRun /\ Annotated(n) /\ Fails(n)
     \/ (~dryRun \/ n \notin ManagedNames) /\ UNCHANGED annotation /\ Fails(n)
  /\ UNCHANGED <<discoveryVars, git, health, restarts, commandVars, acted, well, restartRuns, phase,
                 inventory, added>>

\* applyCollectedMutations, and the end of the command.
Writes == cmd \in {"adopt", "create"} /\ ~dryRun /\ failed = {}

Finish ==
  /\ phase = "items" /\ todo = {}
  /\ phase' = "done"
  /\ LET new == {CrName[n] : n \in DOMAIN planned}
         of(c) == CHOOSE n \in DOMAIN planned : CrName[n] = c
     IN IF Writes
        THEN /\ git' = [c \in DOMAIN git \cup new |->
                          IF c \in DOMAIN git THEN git[c]
                          ELSE [name |-> of(c), label |-> planned[of(c)],
                                ref |-> Ref[planned[of(c)]]]]
             /\ added' = DOMAIN planned
        ELSE UNCHANGED <<git, added>>
  /\ UNCHANGED <<discoveryVars, health, annotation, restarts, commandVars, acted, well, restartRuns,
                 todo, failed, planned, inventory>>

-----------------------------------------------------------------------------
(* CFK and the workers.  What others do between two commands is left out:   *)
(* the first command finds any of the initial states.  Only VERIFY looks at *)
(* the state of a connector, so only there it changes by itself.           *)

Environment == <<git, annotation, restarts, commandVars, phase, workVars, restartRuns, listingVars>>
Busy == phase \in {"listing", "items"}
Watched == well' = IF Busy /\ cmd = "verify" THEN well \cup {x \in live' : health'[x] = "running"}
                   ELSE well

OthersStart(n, p) == /\ Busy /\ Appears(n, p)
                     /\ health' = [health EXCEPT ![<<n, p>>] = "running"]
                     /\ Watched /\ UNCHANGED <<Environment, acted>>

OthersStop(n, p) == /\ Busy /\ Disappears(n, p)
                    /\ UNCHANGED health
                    /\ Watched /\ UNCHANGED <<Environment, acted>>

Breaks(n, p) == /\ Busy /\ cmd = "verify" /\ events < MaxEvents /\ <<n, p>> \in live
                /\ \E h \in Healths \ {health[<<n, p>>]} : health' = [health EXCEPT ![<<n, p>>] = h]
                /\ events' = events + 1
                /\ UNCHANGED <<Environment, acted, live, steady, ever>>
                /\ Watched

\* CFK takes the annotation away and does what it says to the connector, which it
\* finds by the discovery fields.
CFKActs(c) ==
  /\ c \in DOMAIN git /\ annotation[c] # "none"
  /\ annotation' = [annotation EXCEPT ![c] = "none"]
  /\ acted' = IF cmd = "ops" THEN acted \cup {c} ELSE acted
  /\ LET places == {git[c].name} \X Matching(git[c]) \cap live
     IN /\ health' = [x \in Places |-> IF x \notin places THEN health[x]
                                    ELSE IF annotation[c] = "pause" THEN "down" ELSE "running"]
        /\ restarts' = IF places # {} /\ annotation[c] = "restart"
                       THEN [restarts EXCEPT ![git[c].name] = @ + 1] ELSE restarts
  /\ UNCHANGED <<discoveryVars, git, commandVars, phase, workVars, restartRuns>>
  /\ Watched

Begins == StartInventory \/ StartAdopt \/ StartCreate \/ StartVerify \/ StartOps

Goes == ListingRefused \/ Inventory \/ Listed \/ Finish
        \/ \E n \in todo : AdoptItem(n) \/ CreateItem(n) \/ VerifyItem(n) \/ StatusItem(n)
                           \/ AnnotateItem(n)

Others == \/ \E n \in Names, p \in Profiles : OthersStart(n, p) \/ OthersStop(n, p) \/ Breaks(n, p)
          \/ \E c \in CRs : CFKActs(c)

Next == Begins \/ ListingStep \/ Goes \/ Others

\* Goroutines run, and requests are answered or time out.
Spec == Init /\ [][Next]_vars /\ WF_vars(ListingStep) /\ WF_vars(Goes)

-----------------------------------------------------------------------------
(* Properties.                                                             *)

\* INVENTORY is right about everything that stood still: a connector that stayed
\* where Git says is adopted, one that stayed elsewhere is a mismatch, one that
\* Git does not know is pending, and only what was away for a moment can be
\* reported as being in Git only.  Nothing is counted twice or left out.
InventoryHonest ==
  phase = "done" /\ cmd = "inventory" =>
    /\ \A x \in steady : x[1] \in Env =>
         x[1] \in IF x[1] \notin ManagedNames THEN inventory.pending
                  ELSE IF GitProfile(x[1]) = x[2] THEN inventory.adopted ELSE inventory.mismatch
    /\ \A n \in inventory.adopted : <<n, GitProfile(n)>> \in ever
    /\ inventory.liveCount = Cardinality(inventory.adopted) + Cardinality(inventory.mismatch)
                             + Cardinality(inventory.pending)
    /\ inventory.gitCount = Cardinality(inventory.adopted) + Cardinality(inventory.mismatch)
                            + Cardinality(inventory.gitOnly)

\* A manifest that ADOPT or CREATE writes is for a connector that did not stay on
\* any other profile the command looked at.  ADOPT with --source-profile looks at
\* one profile only; without it at all adoption sources, CREATE at all profiles.
NewManifestAlone ==
  \A n \in added, p \in asked :
    <<n, p>> \in steady => cmd = "adopt" /\ p = planned[n]

\* VERIFY passes a connector only if it was in order, connector and tasks, on the
\* profile its manifest runs on at some time of the command.
VerifyTruthful ==
  phase = "done" /\ cmd = "verify" =>
    \A n \in selected \ failed :
      \E c \in DOMAIN git : git[c].name = n /\ {n} \X Matching(git[c]) \cap well # {}

\* An OPS run that reports success for a connector has annotated the CR of its
\* manifest, whatever that is called, or CFK has acted on it since.  A connector
\* is restarted at most once per run that asked for it, although a run can fail
\* after the API server has done its work and is then repeated.
OpsOncePerRun ==
  /\ phase = "done" /\ cmd = "ops" /\ operation # "status" /\ ~dryRun =>
       \A n \in selected \ failed :
         \E c \in DOMAIN git : git[c].name = n /\ (annotation[c] = operation \/ c \in acted)
  /\ \A n \in Names : restarts[n] <= restartRuns[n]

\* Every command ends: no goroutine waits on the channel for good.
CommandEnds == phase \in {"listing", "items"} ~> phase \in {"done", "refused"}
=============================================================================
