----------------------------- MODULE Selection -----------------------------
(***************************************************************************)
(* Which connectors a bulk command works on (workflow/selection.go), and   *)
(* an operator who works through an environment page by page, one command  *)
(* after the other, while others add and remove connectors.                *)
(*                                                                         *)
(* Connector names are numbers, in the order sort.Strings gives them; Env  *)
(* is the set of those the environment's nameRegex matches.                *)
(***************************************************************************)
EXTENDS Integers, FiniteSets

CONSTANTS
  Names,          \* connector names
  Env,            \* the names that match the environment's rule
  AllowWholeEnv,  \* policies adoption.allowWholeEnvironment
  DefaultBatch,   \* policies defaults.batchSize
  MaxBatch,       \* policies adoption.maxBatchSize
  Sizes,          \* the values of --batch-size an operator tries
  MaxChanges      \* how many names others add or remove during a sweep

ASSUME NamesAssumption  == Names \subseteq Nat /\ IsFiniteSet(Names) /\ Env \subseteq Names
ASSUME PolicyAssumption == /\ AllowWholeEnv \in BOOLEAN
                           /\ DefaultBatch \in Nat \ {0} /\ MaxBatch \in Nat \ {0}
ASSUME SweepAssumption  == Sizes \subseteq Int /\ MaxChanges \in Nat

-----------------------------------------------------------------------------
(* applyBatchLimits, over n sorted names.                                  *)

\* Mutant of PageAllowed: an offset equal to the number of names is accepted.
PageAllowedAtEnd(n, size, offset, unsafeAll, allow) ==
  /\ size >= 0 /\ offset >= 0
  /\ unsafeAll => allow
  /\ unsafeAll \/ size <= MaxBatch
  /\ unsafeAll \/ size > 0 \/ n <= MaxBatch
  /\ offset <= n

\* Mutant of PageAllowed: the maximum is only compared with an explicit size.
PageAllowedUnbounded(n, size, offset, unsafeAll, allow) ==
  /\ size >= 0 /\ offset >= 0
  /\ unsafeAll => allow
  /\ unsafeAll \/ size <= MaxBatch
  /\ offset < n \/ (offset = 0 /\ n = 0)

PageAllowed(n, size, offset, unsafeAll, allow) ==
  /\ size >= 0 /\ offset >= 0
  /\ unsafeAll => allow
  /\ unsafeAll \/ size <= MaxBatch
  /\ unsafeAll \/ size > 0 \/ n <= MaxBatch
  /\ offset < n \/ (offset = 0 /\ n = 0)

\* The index of a name in the sorted list of the names in S.
Rank(n, S) == Cardinality({x \in S : x < n})

\* Mutant of Page: the cut keeps one name too many.
PageTooLong(S, size, offset) ==
  {n \in S : /\ offset <= Rank(n, S)
             /\ size > 0 => Rank(n, S) <= offset + size}

\* Mutant of Page: the offset is counted from 1.
PageSkips(S, size, offset) ==
  {n \in S : /\ offset > 0 => offset + 1 <= Rank(n, S)
             /\ size > 0 => Rank(n, S) < offset + size}

\* The slice of the sorted names.
Page(S, size, offset) ==
  {n \in S : /\ offset <= Rank(n, S)
             /\ size > 0 => Rank(n, S) < offset + size}

-----------------------------------------------------------------------------
(* selectNames: explicit names and, with --all-env, the listed names that  *)
(* match the rule.                                                         *)

Commands == {"adopt", "create", "migrate", "delete", "verify", "ops"}
Options  == [names : SUBSET Names, allEnv : BOOLEAN, size : Sizes, unsafeAll : BOOLEAN]

\* MIGRATE without any selection means --all-env.
Defaulted(c, o) ==
  IF c = "migrate" /\ o.names = {} THEN [o EXCEPT !.allEnv = TRUE] ELSE o

\* The allowWholeEnv argument: MIGRATE, VERIFY and OPS pass the constant true.
Allow(c) == c \in {"migrate", "verify", "ops"} \/ AllowWholeEnv

Chosen(listing, o) == o.names \cup (IF o.allEnv THEN listing \cap Env ELSE {})

Batch(c, o) == IF c # "create" /\ o.allEnv /\ o.size = 0 /\ ~o.unsafeAll
               THEN DefaultBatch ELSE o.size

\* CREATE and UPDATE page through their input directory: no --all-env, and the
\* naming rule is checked per item.  ADOPT has rules of its own.
Accepted(c, listing, o, offset) ==
  /\ CASE c = "adopt"  -> ~o.allEnv /\ ~o.unsafeAll /\ o.names # {}
       [] c = "create" -> o.names # {}
       [] OTHER        -> TRUE
  /\ c # "create" => /\ o.allEnv => Allow(c)
                     /\ Chosen(listing, o) # {} /\ Chosen(listing, o) \subseteq Env
  /\ PageAllowed(Cardinality(Chosen(listing, o)), Batch(c, o), offset, o.unsafeAll, Allow(c))

Selected(c, listing, o, offset) ==
  Page(Chosen(listing, o), Batch(c, o), offset)

-----------------------------------------------------------------------------
(* The sweep.                                                              *)

VARIABLES
  command,   \* the command the operator repeats
  options,   \* its options but for --batch-offset
  offset,    \* the --batch-offset of the next run
  git,       \* the manifests under the tree the command lists
  page,      \* the connectors of the last run
  handled,   \* the connectors of all runs
  state,     \* "running"; "refused" or "failed" when the last run was
  target,    \* history: what the first run could choose from
  removed,   \* history: the names others removed
  changes    \* history: how many names others added or removed

sweepVars == <<command, options, offset, git, page, handled, state, target, removed, changes>>

SweepTypeOK ==
  /\ command \in Commands /\ options \in Options
  /\ offset \in Nat
  /\ Batch(command, options) > 0 => offset < Cardinality(Names) + Batch(command, options)
  /\ {git, handled, target, removed} \subseteq SUBSET Names
  /\ page \in SUBSET Names
  /\ state \in {"running", "refused", "failed"}
  /\ changes \in 0..MaxChanges

\* --all-env is not a flag of CREATE and UPDATE.
SweepInit ==
  /\ command \in Commands
  /\ \E o \in Options : /\ command = "create" => ~o.allEnv
                        /\ options = Defaulted(command, o)
  /\ offset = 0
  /\ git \in SUBSET Names
  /\ page = {} /\ handled = {}
  /\ state = "running"
  /\ target = Chosen(git, options)
  /\ removed = {} /\ changes = 0

PageOf(c) == Selected(c, git, options, offset)

\* These commands work on manifests: a name without one is a failed item.
NeedsManifest == {"migrate", "delete", "verify", "ops"}

\* CREATE and UPDATE look at the environment's rule item by item.
Succeeds == /\ command \in NeedsManifest => PageOf(command) \subseteq git
            /\ command = "create" => PageOf(command) \subseteq Env

\* A successful run.  DELETE --all-env shrinks its own listing, so its next page
\* is again the first one; every other sweep advances by the batch size.  ADOPT
\* and CREATE add manifests while they page through explicit names; MIGRATE adds
\* them to another tree.
Run ==
  /\ state = "running"
  /\ Accepted(command, git, options, offset)
  /\ Succeeds
  /\ page' = PageOf(command)
  /\ handled' = handled \cup page'
  /\ git' = CASE command = "delete"             -> git \ page'
              [] command \in {"adopt", "create"} -> git \cup page'
              [] OTHER                           -> git
  /\ offset' = IF command = "delete" /\ options.allEnv THEN 0
               ELSE offset + (IF Batch(command, options) > 0 THEN Batch(command, options)
                              ELSE Cardinality(page'))
  /\ UNCHANGED <<command, options, state, target, removed, changes>>

\* The operator stops at a run that is refused ...
Refused ==
  /\ state = "running"
  /\ ~Accepted(command, git, options, offset)
  /\ state' = "refused"
  /\ UNCHANGED <<command, options, offset, git, page, handled, target, removed, changes>>

\* ... and at a batch that failed.
Fails ==
  /\ state = "running"
  /\ Accepted(command, git, options, offset)
  /\ ~Succeeds
  /\ state' = "failed"
  /\ UNCHANGED <<command, options, offset, git, page, handled, target, removed, changes>>

\* Others merge a change into the tree between two runs.
Appear(n) ==
  /\ state = "running" /\ changes < MaxChanges
  /\ n \notin git
  /\ git' = git \cup {n}
  /\ changes' = changes + 1
  /\ UNCHANGED <<command, options, offset, page, handled, state, target, removed>>

Disappear(n) ==
  /\ state = "running" /\ changes < MaxChanges
  /\ n \in git
  /\ git' = git \ {n}
  /\ removed' = removed \cup {n}
  /\ changes' = changes + 1
  /\ UNCHANGED <<command, options, offset, page, handled, state, target>>

SweepNext == Run \/ Refused \/ Fails \/ \E n \in Names : Appear(n) \/ Disappear(n)

SweepSpec == SweepInit /\ [][SweepNext]_sweepVars

\* The operator goes on until a run is refused or fails.
FairSweep == SweepSpec /\ WF_sweepVars(Run \/ Refused \/ Fails)

-----------------------------------------------------------------------------
(* Properties.                                                             *)

\* "Bulk CREATE/UPDATE uses the same blast-radius limit as adoption": whatever
\* the selection, no run without --unsafe-all works on more than the policy's
\* maximum, explicit lists and listings that grew meanwhile included.
BlastRadius == SweepTypeOK /\ (~options.unsafeAll => Cardinality(page) <= MaxBatch)

\* A sweep that was not refused at once reaches every connector that was there
\* when it began, although offsets are counted from a new listing in each run
\* and others add connectors meanwhile.  A removal by others can make a sweep
\* with offsets miss a connector; DELETE --all-env, which has none, misses nothing.
SweepCovers ==
  /\ state = "refused" /\ handled # {}
  /\ removed = {} \/ (command = "delete" /\ options.allEnv)
  => target \ removed \subseteq handled

\* Without changes by others no connector is in two pages (a second page of
\* OPS restart would restart it twice).
NoneTwice == [][Run /\ changes = 0 => page' \cap handled = {}]_sweepVars

\* Every sweep comes to an end: the refusal of an offset past the last name is
\* what stops the operator.
SweepEnds == <>(state # "running")

-----------------------------------------------------------------------------
(* What the documentation says of the policy.                              *)

\* config/policies.yaml on allowWholeEnvironment: false "still permits --all-env
\* in bounded batches" ...
AllEnvPermitted ==
  options.allEnv /\ ~options.unsafeAll
  /\ options.size \in 1..MaxBatch /\ options.names = {} /\ target # {}
  => ~(state = "refused" /\ handled = {} /\ removed = {})

\* ... and "only --unsafe-all is blocked", here for the commands that write
\* manifests.
UnsafeAllBlocked == command \notin {"verify", "ops"} /\ options.unsafeAll => handled = {}

PolicyAsDocumented == ~AllowWholeEnv => AllEnvPermitted /\ UnsafeAllBlocked
=============================================================================
