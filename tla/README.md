# connectorctl in TLA+

A formal model of `connectorctl`, the command that moves Kafka Connect
connectors into a Git tree of CFK `Connector` manifests and maintains them
there. TLC checks the modules on small instances; TLAPS proves the central
theorems for every value of the constants. Paths below are relative to `src/`.

## The system

An operator or a Jenkins job runs one command at a time in a Git worktree. The
command reads live configuration from the Kafka Connect workers ("profiles") of a
cluster, decides for every selected connector, writes or removes manifests in the
worktree as one batch, and leaves a JSON report. A merge request, ArgoCD and CFK
then bring the manifests to the workers; none of that is in this repository.

| Component | State it keeps | Operations | What makes it correct |
|---|---|---|---|
| Worktree batch, `internal/repository/{repository,mutation}.go` | the files; during a batch the backups and the list of applied paths | `PlanWrite`, `PlanRemove`, `WriteAtomic`, `Remove`, `ApplyBatch`, `rollback`, `FindByConnectorName` | all or nothing under I/O errors; no third content after a crash; a class move never loses the connector |
| Pool, collector, report, `internal/workflow/{worker,mutations}.go`, `internal/report` | channels, WaitGroup, the collector's slice and mutex, the report | `runConcurrent`, `safeItemCall`, `Add`, `Snapshot`, `applyCollectedMutations`, `Finalize`, `Write` | one result per connector; nothing applied if any item failed; the report says what happened; no deadlock |
| Selection, `internal/workflow/selection.go` | none (flags and policy) | `selectNames`, `applyBatchLimits`, `validateAdoptSelection` | the blast radius; paging reaches everything once and ends |
| Commands, `internal/workflow/{adopt,create,migrate,delete}.go` | the listing taken at the start | ADOPT, CREATE, UPDATE, MIGRATE, DELETE | one manifest per connector, one profile per connector, ADOPT changes nothing that runs |
| Building, `internal/workflow/build.go` | none | profile choice, live validation, server dry run, `planPersist` | the profile is preserved; only validated manifests are written |
| Discovery, `internal/workflow/live.go` | a map of places while the profiles are asked | concurrent listings, ambiguity check, `profileFromCR` | what stood still is seen where it stood; nothing is invented |
| REST client, `internal/connect`, `workflow/service.go` | one cached client per profile, its token bucket | `ClientFor`, `doJSON`, `Wait` | one rate limit for all workers, bounded attempts, every call returns |
| OPS, VERIFY, INVENTORY, `internal/workflow/{ops,verify,inventory}.go` | none (annotations in the API server) | annotate, read states, compare | refuse ambiguous trees, report honestly, ask for an effect once |
| Configuration, registry, secrets, transformation, `internal/{config,registry,secret,transform}` | `config/` and `config/mappings/`, read once | `LoadBundle`, `Validate`, `Lookup`, `SensitiveKeys`, `Resolve`, `Normalize`, `Renderer.Build` | no plaintext secrets; one meaning for a configuration |
| repo-validate, `internal/workflow/repository_validate.go` | none | every check of every manifest | agrees with what the other commands write |
| Vendored YAML, `internal/yaml` | scanner queues and stacks, parser states | `yaml_emitter_emit`, `yaml_parser_scan`, `yaml_parser_parse`, node building | what is written is what is read; no text blocks or crashes a command |
| CLI, `cmd`, `internal/cli` | none | dispatch, printing | |

Interactions: the CLI derives a context from SIGINT/SIGTERM and calls one workflow;
the workflow resolves its target from configuration, lists live connectors or
manifests, selects names, and hands them to the pool. Each item calls the Connect
client (shared token bucket), builds a manifest and calls `collector.Add`. When the
pool has drained, `applyCollectedMutations` calls `ApplyBatch` once, and the report
is written. Nothing persists but the worktree and the reports.

The hard behaviours: concurrency of items, cancellation and panics in the pool;
errors and crashes between the steps of a batch; listings that are stale when they
are used and long-lived effects (a manifest reaches the workers after the command is
gone); sequences of legal commands that end with two manifests or two running
copies of one connector; paging over listings that change.

## Modules

| Module | Models | Size of an instance |
|---|---|---|
| `Mutations` | files, mutations, `PlanWrite`/`PlanRemove`, the sort order, what a batch means | data only |
| `AtomicBatch` | the promise of `ApplyBatch`: one indivisible step or nothing, and what a failed rollback or a crash may leave | 3 paths |
| `Worktree` | `ApplyBatch` step by step, with errors, crashes, other writers; implements `AtomicBatch` | 3 paths |
| `BatchRun` | one command: feeder, workers, mutex, collector, decision, apply, report, exit | 3 items, 2 workers |
| `Selection` | selecting and paging, one command repeated over an environment | 4 names |
| `Lifecycle` | sequences of commands against Git, the workers and CFK | 1 or 2 names, 2 classes, 2 profiles |
| `RateLimit` | the promise of a profile's limiter: requests spend a credit that only time restores | 2 callers |
| `ConnectClient` | concurrent requests to one profile: client cache, token bucket, retries, timeouts, cancellation; implements `RateLimit` | 2 callers |
| `Discovery` | listing all profiles of a cluster while connectors move | 2 names, 2 profiles |
| `Operations` | INVENTORY, ADOPT, CREATE, VERIFY, OPS from their listing to their end, next to CFK and others; extends `Discovery` | 2 names, 2 profiles |
| `Secrets` | the classes of configuration values, the registry, mappings, references and their paths, `Resolve` | data only |
| `Config` | the bundle of `config/`, its validation, target resolution, plugin lookup | data only |
| `Build` | building one connector from a configuration, the commands that do it, and repo-validate | 13 bundles, 9 sets of mappings |
| `YamlScanner`, `YamlParser`, `YamlEmitter` | the three state machines of the YAML library | lexemes |
| `Yaml` | writing a stream with the emitter and reading it, or a given text, back | 4 nodes or 3 to 4 lexemes |
| `WorktreeProofs`, `BatchRunProofs`, `SelectionClientProofs`, `LifecycleProofs`, `OperationsProofs`, `BuildProofs`, `YamlProofs`, `YamlKeyProofs` | the theorems | |
| `MCWorktree`, `MCSelection`, `MCLifecycle`, `MCOperations`, `MCBuild`, `MCYaml` | definitions for the `.cfg` files | |

They compose by abstraction. `BatchRun` and `Lifecycle` take `ApplyBatch` as one step,
which `Worktree` shows to be permitted (`AbsSpec`). For a crash `AtomicBatch` promises old
or new content path by path; `Lifecycle` takes the prefixes of the steps in the order
`Mutations!Before` gives, which are among those. `Lifecycle` takes "all items
succeeded" as the condition for the batch, which is `BatchRun`'s `BatchAllOrNothing`,
and any batch up to `MaxBatch`, which is `Selection`'s `BlastRadius`. `Operations` looks inside the listing that
`Lifecycle` takes in one step; `Build` looks inside the item that `Lifecycle` reduces to a
class, a version and a profile, and takes the rest (live validation, dry runs, the
listing) as reasons to fail, which are `Lifecycle`'s.

### Worktree

`pc` is the position in `ApplyBatch`: the preflight loop ("preflight", "backup"), the
apply loop ("apply", and "rename" between the two halves of `WriteAtomic`), the
rollback ("rollback", "restore", "chmod"). `backups`, `applied`, `firstErr` (rollback's
`first`) and `i` are the code's variables; `ordered` is any permutation that the sort
may return. A path holds a file, a directory or nothing, and a file has content and
permission bits, because the rollback restores bits with a separate `Chmod`. An I/O
error is an action of its own per operation (`ApplyError`, `RestoreError`, ...),
permitted by `Faults`; `Crash` stops anywhere; `Edit` is another process that writes or
removes a manifest. `orig` and `edited` are history variables the properties use.

`AtomicBatch` has no steps: a batch is committed, refused, or ends by a failed rollback
(`Spoil`) or a crash with each path old or new. Its `edited` is the set of the paths others
touched, of which it promises nothing. `BlameInv` is why `Spoil` needs an excuse: a rollback
fails only where its own operations can fail, or where somebody else wrote.

A path in the model is one `ApplyBatch` accepts: the check of the path
(`mutation.go:84-86`) and the refusal of an unknown mutation type (`104-105`), both before
anything is written, are left out, as no caller makes either.

The temporary file of `WriteAtomic` and the directories of `MkdirAll` are left out: no
reader of manifests looks at a name that does not end in `.yaml`/`.yml`, or at an
empty directory. Both can be left behind by a crash, and directories by a rollback.

What holds, and what does not: `ApplyBatch` is all or nothing unless the rollback itself
fails. A rollback that fails goes on with the other paths (`mutation.go:159-163`), so
after one failed restore the rest is still undone; then a class move may have lost both
manifests, which is why `MoveNeverLoses` supposes `firstErr = "nil"`. A batch of writes
that died half-way can be repeated; a batch with removals cannot, because `PlanRemove`
refuses a path that is already gone.

### BatchRun

Every worker has a program counter through `runConcurrent`'s loop: receive, check the
context, call the item, `Add` (lock, append, unlock as two steps, with the slice read
when the mutex is taken), return, send. The call of an item is nondeterministic: it
fails, panics (before or after `Add`), is skipped, or succeeds with or without a
change. `main` follows the command through wait, apply, report, exit. The mutations of an
item are represented by the item.

### Selection

Names are numbers in `sort.Strings` order, and the index of a name in the sorted list is its
`Rank`. `PageAllowed` and `Page` are the checks and the slice of `applyBatchLimits`;
`Accepted` adds the rules of `selectNames` and of the
commands, and `Succeeds` the ones that are made item by item: MIGRATE, DELETE, VERIFY and OPS need
the manifest, CREATE a name that the environment's rule matches (`create.go:109`). The sweep is what
README.md:242 tells the operator to do: repeat the command with the next offset until it is refused.
The commands change the listing they page through: DELETE shrinks it.

### ConnectClient

`clients` are the limiters that `NewClient` made and `cached` the entry of the service's
map; the code makes one, and `Limited` depends on it. `pc` follows a caller through
`ClientFor`, the loop of `doJSON`, `Wait` ("limit" is a turn of its loop under the mutex,
"token" the sleep) and the backoff. Time is a global `Tick`: the unit of the bucket is what
the rate adds in a tick, so a token is `Interval` units, and a bucket keeps what it held
when it was last looked at and its age. `Waits` allows for the fraction of a tick that the
conversion to a `Duration` cuts off, after which a caller finds the bucket still short and
sleeps again. A timer that has run out fires when its goroutine gets to run, any number of
ticks later. What the server does is a choice: an answer, a status or error to repeat,
with or without Retry-After, or silence. `quiet` is a history variable: the time the
server still wants to be left alone by this caller.

`RateLimit` has no client, bucket, timer or attempt: a credit, and how many requests each
caller was let through. `ConnectClient` refines it with the level of the first bucket as
the credit.

What it leaves to the reader: Retry-After binds the caller it was sent to, the others go
on at the profile's rate; a call that was cancelled may still take a token, as `Wait`
looks at the context only when it has to sleep; a timeout of the HTTP client is final,
not retried; the error "exhausted retries" at the end of `doJSON` is never returned, since the
last attempt returns its own.

### Lifecycle

`git` is the set of manifests of an environment (path = class alias and name), `live`
the connectors on the workers, `cr` what CFK manages. `Start` takes the listing and
the ambiguity check that every command begins with; one action per command does one
item; `Commit`, `Refuse` and `Crash` are the three ends of the batch. `Resolve` is
`resolveConnectProfile` with its four sources in order (the environment's default
profile is folded into the class default, as only the result matters). `Sync`, `Prune`
and `Drift` are the environment's. Two different manifests never differ in bytes
alone: `ver` stands for everything but name, class and profile, `origin` for the
metadata labels.

Simplifications: all profiles are adoption sources and all names match the naming
rule; `--check-live` is on, its default; dry runs change nothing and are left out.

### Discovery and Operations

`asked` are the profiles a command lists, `pc` is where the goroutine of each stands,
and `results` the channel. Each answer is taken at a moment of its own (`Answer`) and only
sent while the channel has room (`Capacity`); `Collect` waits for all of them, and `Merge` is
the loop over the results with the ambiguity check. `steady` and `ever` are history variables, reset by every command: the
places where a connector ran during the whole command, and those where it ran at some time
of it. `Operations` adds the tree (`git`, by CR), the health of what runs, the annotations
CFK has not acted on, and one action per command and per item. Events of others (a
connector starts, stops or breaks, CFK acts) happen while a command runs; only VERIFY looks
at health, so `Breaks` is limited to it.

Two facts of the code show in the constants. `profileFromCR` compares discovery fields, so
two profiles with the same fields make every manifest without a profile label
unmappable. `LoadConnectors` is strict: one manifest that cannot be read refuses
the command for the whole environment.

### Secrets, Config, Build

A configuration is a function from keys to values, and a value is a kind (a plain text, blank, a
whole external reference, a mangled one, one of another provider, one within a longer text, a
placeholder), what it speaks of, and whether it is padded with spaces: what `Resolve`, `Normalize`,
`IsReference` and the validators tell apart. Patterns and exact names of sensitive keys are one set.
A mapped field has the names it was given and the class of its paths ("clean", "relative",
"unclean", or with a brace, which nothing forbids), a secret profile its mount root and default
file; `PathParts` is what `referenceFor` puts together, and a brace in it makes a reference that no
pattern recognises (`Mangles`). `ValidBundle` is the conjunction of the rules of `validate.go`;
settings that are looked at one by one and by nobody else are the flags `valid` and `sane`.
`Unbuildable` is the set of the checks of `buildConnector` that fail, where the code reports the
first; `Built` the manifest with its labels, discovery fields, restart policy (`RestartOf`) and
annotations (origin and ticket); `InvalidKeys` the keys `Normalize` refuses; `Complaints` the checks
of repo-validate. The commands work on one connector each. The name of an input and the profile of a
connector have sources in an order (`InputName`, `ResolveConnectProfile`). Between commands the
configuration may be replaced by another bundle or another set of mapping files (`EditConfig`), as
long as a command follows, and manifests may be written by hand: anything that has the fields of a
manifest (`Manifest`), with any name in the metadata, any number of tasks, keys nobody checked.
`FindByConnectorName` returns the first by path; `Update` takes any, as no property depends on
which.

`PassMeansRebuildable` says what "passes repo-validate" is good for. Give UPDATE the configuration
of a manifest that passed: it is refused only for what `Overlooked` lists (another profile in the
mapping now, a plugin that is not installed, a number of tasks or a key that a person wrote), and
what comes out is the manifest itself but for what `Renewed` lists: the name in the metadata, the
restart policy of the profile as it is now, the annotations of this UPDATE, and spaces and keys the
code normalises.

`WrittenValidates` found its `Tolerated` list: what one command writes and the other refuses. A
mapped field that the configuration does not have is a warning at build and an error later; a
required `name` is dropped by `Normalize`; a profile with `connectRest: {}` is read back as none and
never matches again; a mapping of `connector.class` or `tasks.max` is accepted and writes a
reference, or a default that is then judged to be plaintext; a brace in `mountPath`, `fileName`,
`mountRoot` or `defaultFile` makes a reference that is not recognised; and an environment below the
Git root of another shares its manifests. The brace contradicts README.md:67 (see the findings
below), the others no document. One more limit: a plugin class with spaces passes the validation of
the configuration and is never found in the registry.

`MigrateRepoints` is what MIGRATE does keep: every whole reference it recognises is the target's.
`NeverReused` is what README.md:274 says, for references of other providers and inside a longer
text, such as `jdbc:${file:...}`, as well: the run `build_migrate` shows that it does not hold.

`NoPlaintext` is the promise of `neverPersistPlaintext` as far as it is kept: under a key that the
registry, the generic patterns or the mapping calls sensitive, a command writes something of the
form of a reference, if only a mangled one.

### The YAML library

A text is a sequence of lexemes with a line, a column and, for scalars, an extent; what the
scanner decides from characters (which lexeme begins here) is left out, what it
decides from its state is kept: the stack of indents, the possible simple keys of every
flow level and their index by token, the queue with its insertions in the middle, the
adjacency and same-line rules. `YamlScanner` and `YamlParser` are functions on records,
one operator per function of `scannerc.go` and `parserc.go`; `YamlEmitter` the emitter's states,
its choice of scalar style, simple keys and indents. In `Yaml` a stream of events, as
`encode.go` sends them, is written and then read (`given = {}`), or a text that
nobody wrote is given lexeme by lexeme, drawn from a set of kinds, with every
layout the columns permit. `idle` counts the steps of the automaton since it took a
token.

What the bounds leave out: comments, anchors and tags when writing, folding and canonical form, tabs
elsewhere than at the beginning of a scalar, byte encodings. The writer's indent is 2, as in the
repository; with 4 the hint of a block scalar that begins with a space is relative to another column
than the scanner's. A flow collection that is a key loses its entry in `simple_keys_by_tok` to a key
inside of it, so that `[? "a"]: x` is refused; connectorctl writes no such key. `Reading` goes on to
the end of a stream, as repeated calls of `Decode` do; one `Unmarshal` stops after the first
document, having done what the model does up to there.

A value with a line break is written as a literal. `RoundTrip` states the two errors in that: a
value that begins with a tab gets no indentation hint, and the scanner refuses it (`TabIndents`,
`scannerc.go:2404`); one that begins with line breaks loses the first of them, because the emitter
counts it as the end of the line of the hints (`WithoutBreak`). Values with only spaces in front, or
text, come back as they were. An error of the library itself is returned; any other panic goes
through `handleErr` to the program, which is why `NeverSurprised` and the index in `SimpleKeysSound`
matter.

## Runs

| Run | What it asks | Bounds |
|---|---|---|
| `worktree` | `ApplyBatch` implements `AtomicBatch` (`AbsSpec`), `AllOrNothing`, `OldOrNew`, `MoveNeverLoses`, `CrashRestartable` | every worktree over 3 paths with 2 contents and 2 modes; batches of up to 3 (moves, mixed writes and removals, orders the sort changes, two mutations of one path), all faults, one path edited by others |
| `batch_run` | pool, collector, decision, report, exit; every command returns | 3 items, 2 workers, write and dry run, failing rollback |
| `selection_sweep` | blast radius, coverage, no repetition, end | 4 names (one outside the rule), policy maximum 2, sizes at and around it, ADOPT, CREATE, MIGRATE, DELETE, VERIFY and OPS, one change by others |
| `lifecycle` | `ManagedUnique`, `NoDoubleRun`, `RerunRepairs`, `SyncKeepsAdopted`, `OnlyUpdateReplaces`, `NothingLost` | 2 names, classes, versions and profiles; all five commands, 3 in a row over batches of up to 2, one crash, one drift, a mapped profile, two migration sources with one target |
| `connect_client` | one limiter for all callers (`Limited`), Retry-After, every call returns, with a cancelled context without waiting | 2 callers, 2 retries, burst of 2 tokens of 3 units, hints below and above the longest delay |
| `operations` | listings (`ListingFaithful`), `InventoryHonest`, `NewManifestAlone`, `VerifyTruthful`, `OpsOncePerRun`, every command ends | 2 names, 2 profiles, 2 commands, 2 events of others, trees written by commands or by hand |
| `yaml` | `RoundTrip`, `NeverSurprised`, `SimpleKeysSound`, `BlocksMatch`, `TakesTokens` | streams of up to 4 nodes in 2 documents, with scalars that begin with a space, a tab or breaks and end with up to two; texts of 3 lexemes of every kind, of 4 of the kinds of block keys, of flow collections, of document boundaries |
| `build` | `PassMeansRebuildable`, `WrittenValidates`, `MigrateRepoints`, `AdoptKeepsRunning`, `MappingsResolve` | 13 bundles, 9 sets of mapping files, 2 commands, 1 edit or manifest by hand between them |
| `selection_policy`, `lifecycle_migrate`, `lifecycle_validation`, `build_migrate` | a sentence of the documentation that the code contradicts | each ends with a counterexample |

Why the bounds are enough: in `Worktree` paths interact only through the order of the
batch and the rollback, and three paths give a first, a middle and a last step. In `BatchRun`
two workers race for the mutex while a third item waits. A page boundary in `Selection` needs a
full page, a partial one and a name outside the rule. In `Lifecycle` the properties relate
two manifests or two copies of one name, so two names suffice; a third command is
needed for create, change, repeat. Exact duplicates between more than two manifests of
one name would behave as two do. In `ConnectClient` six attempts compete for a burst of two, so
the bucket runs dry and fills up again, and a wait can be one tick short. In `Operations` two events let one connector move, or
appear and break, during a listing, and two commands let the second meet what the first left.
In `Build` a bundle that is refused differs from a sound one in the one rule it is there for, one that
is accepted in a few that have nothing to do with one another, two commands are
write and validate, and the edit between them is the mapping or policy that changed meanwhile.
Texts of four lexemes contain a key, its colon and a value inside a collection; longer ones repeat
the levels, which the streams of four nodes reach. The proofs remove the bounds of every
safety property but `RoundTrip`.

`CHECK_DEADLOCK FALSE` is set where the bounds end the behaviour: `Selection` after a
refusal, `Lifecycle`, `Operations` and `Build` after `MaxCommands`. Every other run, `yaml` included,
checks deadlock: a state in which the program would be stuck is an error there.

No run checks a type invariant alone: the types of `Worktree`, `BatchRun`, `ConnectClient`,
`Selection`, `Lifecycle`, `Operations` and `Build` are proved, and those of the YAML modules
are a conjunct of `SimpleKeysSound`. `BlastRadius`,
`ManagedUnique` and `ListingFaithful` contain their module's types as well.

### What the runs found

* `selection_policy`: with `allowWholeEnvironment: false` ADOPT and DELETE refuse every `--all-env`, and
  MIGRATE accepts `--unsafe-all`, although `config/policies.yaml:8` says that bounded batches stay
  possible and only `--unsafe-all` is blocked.
* `lifecycle_migrate`: two MIGRATE commands of one connector each. The second has a source of the same
  target name and another class, looks only at its own path, and puts a second manifest into Git for a
  name Git holds since the first, against docs/ARCHITECTURE.md:114 ("Reject names already present live or
  in Git"). DELETE then refuses the environment.
* `lifecycle_validation`: `buildConnector` ignores the error of the validation request.
* `build_migrate`: MIGRATE copies a reference of another provider, or one inside a longer text, from the
  source, against README.md:274 ("source secret references are never silently reused").
* `build`: a brace in one of the four paths a reference is made of is written unchecked, and
  repo-validate calls the result plaintext, against README.md:67. The run passes because `Tolerated` says so.
* `yaml`: a literal that begins with a tab cannot be read back, and one that begins with line breaks loses
  the first. The run passes because `RoundTrip` states both, and fails without either.

Other limits that the models make visible without a contradiction to a document:
CREATE, like MIGRATE, looks only at its own path in Git, so a name that is in Git but not
yet live can be created a second time under another class (`UniqueInGit` is therefore
only checked for ADOPT, UPDATE and DELETE, and `NoDoubleRun` supposes a tree that never
held such a pair). An UPDATE that died in the middle of a class move is repaired by
repeating it only when the old alias sorts before the new one and the name had one manifest
before: with a third class in the tree, the repetition still leaves two (`RerunRepairs`). After a failed apply the
items are reported failed with `changed: true`.

### Fairness

`BatchRun`'s liveness needs weak fairness of each goroutine (Go schedules every runnable
goroutine; HTTP requests have a timeout and the external commands a context, so a call
returns) and of the command's own thread. Cancellation is not fair: it may never come.
`ConnectClient` gives every caller weak fairness for the steps it can take by itself, and
strong fairness for noticing that the context is done: a `select` with two ready cases picks
at random. Answers are not fair, a server may stay silent. `Returns` supposes in addition
that time passes and that the profile has a timeout (`timeout: 0s` passes the validation and
means none); `CancelEnds` does not need time to pass.
`Selection` assumes the operator goes on with the sweep. `Operations` is weakly fair to the
goroutines of a listing and to the command's own steps, for the same reasons as `BatchRun`. `Yaml` states
progress as a bound (`TakesTokens`): the automaton is a function, and no fairness could hide that
it turns in a circle. The other modules claim no
liveness: a process may stop at any step.

## Proofs

`WorktreeProofs` proves `Spec => []IInv` and from it `AllOrNothing`, `OldOrNew`,
`MoveNeverLoses`, `CrashRestartable`, and `Spec => AbsSpec`, under every combination of faults and any
number of edits by others: for any set of
paths, contents, modes and batches of any length. None of the properties is inductive.
`IInv` adds what holds in the middle:

* `ShapeInv`: the index is in range and the current path has the backup the step reads;
* `PreflightInv`: every mutation passed so far was planned against `orig`, has no equal
  path, and is backed up exactly if it changes something;
* `AppliedInv`: `applied` is the prefix of the changing mutations in sorted order, without
  repetition (the rollback shortens it from its end);
* `TreeInv`: a path not applied is as in `orig` (or, once a restore failed, old or new), a
  path applied is as its mutation leaves it, and between restore and chmod has the old
  content;
* `BlameInv`: a rollback that fails has an operation that can fail, or somebody else's edit, to blame.

In the refinement every step of `ApplyBatch` but its end is a stutter, though others change the tree
in between: the abstract tree is `orig` until the batch ends. `AppliedAdmissible` says that a batch that
ends well was planned on content which `orig` still had, off the edited paths; `BlameInv` is what a failed
rollback needs to be a `Spoil`. Assumptions: the sentinels differ from files, the default
mode is a mode, `Batches` are sequences of mutations.

`BatchRunProofs` proves `Spec => []IInv` and from it exactly-once delivery, the exact
collector, all-or-nothing, the truthful report and the truthful exit, for every number of
connectors and every requested concurrency, zero and negative included. `PoolInv` says
that every item handed out is held by one worker or delivered once; `CollectorInv` that
the slice read under the mutex is current and that an item's mutations are collected
before its result can say "changed"; `MainInv` what the command knows at its decision.
The counts are cardinalities of sets of items, so the lemmas `CountType` and `CountFailed`
rest on the library's theorems about finite sets.

`SelectionClientProofs` holds the proofs of two components that share nothing, `Selection` and
`ConnectClient`. For `Selection` it proves `BlastRadius`, `SweepCovers` and `NoneTwice` for any finite listing, any
policy and batch size, and any number of changes by others. The position of a name is a cardinality,
so a page is a set of ranks, and the arithmetic of offsets rests on two lemmas: a name between two
others has a rank between theirs (`Between`), and removing a page leaves what it did not hold
(`PageRest`). `AcceptedInv` says that a sweep with one successful run can only be refused for its
offset or its listing; `CoverInv` that what it has to reach is handled or still ahead of the offset;
`OnceInv` that what is handled is behind it.

`LifecycleProofs` proves `ManagedUnique`, `NoDoubleRun`, `RerunRepairs`, `OnlyUpdateReplaces`,
`NothingLost`, `SyncKeepsAdopted` and `TypeOK` for any names, classes, configurations and profiles,
batches of any size, and any number of commands, crashes and changes by others. `PlanInv` carries what an
item found when it looked (`WriteOK`, `RemoveOK`) to the moment when the batch is applied: nothing
else writes to Git in between, but connectors move, so it never speaks of `live` alone.
A commit and a crash are treated together: both apply a part of the plan that contains
every write before any removal (`Part`, `Result`), and `ResultAdds`, `ResultKeeps` and
`ResultRemoves` say what that does to a name. `ProfileInv` is the invariant behind
`NoDoubleRun`: until Git holds two manifests for one name, what runs runs once, where Git says, and was
listed by the command or is in Git. `AdoptedInv` ties an adopted manifest to what runs; `TornInv` the
pieces of a class move that died to the plan of the UPDATE that repeats it. That UPDATE finds the
first manifest by path is the one place that needs a smallest element of a set of numbers; it comes from
the library's theorem about well-founded orders.

For `ConnectClient`, `SelectionClientProofs` proves `Spec => Limited`, `AttemptsBounded`, `RetryAfterHonoured` and
`TypeOK` for any number of callers and any settings. `OneClient` says that a caller in flight
holds the one cached client: without it the level of one bucket says nothing about the
requests of another. `Attempts` relates the tokens a caller took to its loop variable by its
place in the loop, `Quiet` the timer of a backoff to what the server asked for. In the
refinement a look at the bucket, granting nothing, leaves the level alone, and a tick
raises it by one up to the capacity, because both the age and the level are capped there.

`OperationsProofs` proves `ListingFaithful`, `NewManifestAlone`, `VerifyTruthful`,
`InventoryHonest`, `OpsOncePerRun` and `TypeOK` for any finite sets of names and profiles and
any number of commands and events. `StepKinds` sorts the steps by what they do to the
listing: one begins, one of its goroutines moves on, others move connectors, or it is left
alone. `AnswersInv` is what holds while goroutines are out: one that is done has sent an
answer that misses nothing that is still steady and invents nothing, and what runs has been
seen to run. The rest stands on it. `PlanInv` ties a planned manifest to the entry of the
map, or to its absence, it was planned from. `VerifyInv` is the promise of VERIFY in the
middle of its loop. `ScopeInv` says which profiles INVENTORY asked; that its counts add up
is `ClassifyAddsUp`, a fact about cardinalities, hence the finite sets. `RestartInv` is a
balance: the restarts done, one that is annotated (`Pending`) and one that this run has
still to annotate (`Due`) are together never more than the runs that asked.

`BuildProofs` proves `PassMeansRebuildable`, `WrittenValidates`, `MappingsResolve`,
`MigrateRepoints`, `AdoptKeepsRunning` and `NoPlaintext` for any bundles, mapping files, inputs,
plans and running connectors. `IInv` says that the mapping files are among those the repository may
hold (`FilesInv`), that manifests which differ lie in different places and have the fields and types
of a manifest (`GitInv`), and that nothing has changed since repo-validate passed (`PassInv`). The
operators need more: `Resolved` and `BuiltFields` say what becomes of one key from the raw
configuration to the manifest, `Outcome` that a command writes one manifest, built from its request,
or none, and `AdoptedSame` that trimming, removing the special keys, putting them back and reading
the result as Connect does is no change. For `PassMeansRebuildable` the checks of `buildConnector`
are gone through one by one, each shown to have a complaint of repo-validate behind it or to be one
of `Overlooked`; for `WrittenValidates` the other way round, a complaint about a manifest just
written being one of `Tolerated`, over values that a migration rewrites with one rule after the
other (`RulesApplied` keeps them values). What is assumed of the constants: a mapping is a record of
a profile and fields, a registered class is a class or blank, configurations and overrides hold
values, connectors that run have a class and a profile, as Connect lists them, the three keys with a
field of their own are valid keys, and manifests written by hand have the fields and types of a
manifest. Nothing is assumed of what people write into them.

`YamlProofs` proves `NeverSurprised` and `TakesTokens` for any text, written or given, of any
length. Both are about the automaton, whose stack grows without bound, and need no fact about the
scanner but that it leaves alone a token it has offered; so they hold for every sequence of tokens, and no
induction over a text is in them. `WellFormed` says which states can lie on the stack: the end of the document
at its bottom, an indentless sequence only on a mapping. `Matched` ties the calls of the node builder,
which are recursive functions in `decode.go`, to that stack: a function `f` says how many calls
lie below each state, a pair in a flow sequence standing for two of them (`Height`), and the innermost
call waits for what the state is about to give (`Awaited`). `Patience` is the variant behind
`TakesTokens`: a step that takes no token leads to a state with more patience for the same token, and no
state has more than four. `StepGood` shows, state by state, that a step is one of the fourteen
kinds of `Move` and keeps all three, and `MoveMatched` what each kind does to the builder.

`BlocksMatch` compares two stacks of different functions, so its proof counts. `Balance` of the queue
is its block starts less its block ends, and `Balanced(s, n)`, carried through every function of the scanner,
says that a step that moves the balance by n moves the levels of indentation by as much (`Sound`
holds their types, and that a token inserted in front of a possible key has a place in the queue). `Deep`
counts the states of the automaton that are inside of a block; `StepDeep` says that it changes by what the
token taken weighs. `MatchedInv` puts the two together: `Deep` plus the balance is the number of levels.
The scanner's half needs the types of the lexemes, of those the emitter writes too. Hence `WriterInv`: the
emitter is inside of the collections on its stack, with one level of indentation for each that is begun
(`Nested`), which keeps `decrease_indent` from an empty stack and a literal's
indentation from being that of the outside. What the emitter does with an event it does not expect, an error
that ends the encoder, is part of the argument, so the proof does not ask the encoder for well-formed events.

`YamlKeyProofs` proves `SimpleKeysSound`, which is about the index `simple_keys_by_tok`, from tokens to flow levels: `save`, `remove` and the
flow levels keep it up to date one entry at a time, and an entry may outlive its key. `Steady` is what holds at
every call of the scanner. The keys of the levels begin one behind the other, at places the mark has passed and at
tokens that are numbered (`Marked`, `Numbered`); an entry for a token still to come leads to the key that begins
there, and a key that has an entry is found by it (`Indexed`); the parser is not given a token that may begin a
key (`Held`). Two levels may begin at one token, and the inner one takes the entry; a level that closes takes the
entry along, even of a key around it. What keeps that from harm is `Spent`: an entry of a flow level whose key is
none any more is out of reach of the mark for good, and has three tokens behind it, or two where no key may begin,
so `fetch_more_tokens` gives its token away before another key can replace the one it leads to. In the middle of a
fetch only the weaker `Lax` holds; each of the fetch functions is shown to lead from the one to the other (`Fine`,
`Firm`, `Rests`). All of it needs the mark to move forward only, so the text must lie in front of it, one lexeme
behind the other (`Follow`). For a given text that is how the next lexeme is chosen. For a written one it is a fact
about the emitter: `Laid` says that its lexemes are in order, `Placed` that it stands behind the last one
(`Clear`), or has still to break the line below a block scalar without a last break (`Hung`), and then is in a state
whose function begins with `write_indent`. That a state in a flow collection, or behind a simple key, is never left
so is what `Layers` says of the stack: flow states, as many as `flow_level`, inside of a simple key at most, inside of
block states. The types, which are a conjunct of `SimpleKeysSound`, follow from the same invariants.

All proved theorems are in `PROJECT.json`. Some are not checked by a run, since their
formulas serve as lemmas: `CollectorExact`, `AttemptsBounded`, and the type and inductive
invariants. `NoPlaintext` is proved only; what a run could show of it is part of `WrittenValidates`.

Only model-checked are the liveness properties (`Terminates`, `SweepEnds`, `Returns`,
`CancelEnds`, `CommandEnds`), as neither fairness nor ENABLED is within the prover's
reach; and `RoundTrip`. What
it says of a whole text is an induction over its nodes by an operator, and the library's
theorems about induction take that operator as a parameter, which the provers cannot instantiate.

## Not modelled

* Of the REST client: TLS, authentication headers, decoding of responses; a Retry-After in
  the date format is a number of ticks like the other, and one so large that it overflows when it is
  converted to a duration (`client.go:254`) is not among the hints.
* Dry runs of the commands (preview files, server dry run) and the policy gates that
  only refuse a command before it has begun.
* Values: JSON input files, typed decoding and encoding of YAML (`decode.go` from the node tree on, `resolve.go`,
  `encode.go` above its events), the text of Kubernetes names; names of connectors and change tickets with
  control characters, which `Normalize` refuses (`transform.go:28-33`).
* Mapping files that change between the two reads of one command (`mapping_files.go:67`, `load.go:40`; the
  second read validates nothing).
* CLI: flags and printing. The dispatch is in `Operations` and the exit in `BatchRun`.
* Two commands in one worktree at once: `Edit` in `Worktree` covers what a second process
  does to the files, `Lifecycle` runs commands one after the other.

## Plan

1. Done: all modules of the table above, and the proofs of `Worktree`, `BatchRun`, `Selection`,
   `Lifecycle`, `ConnectClient`, `Operations` with `Discovery`, `Build`, in `Yaml` of the automaton,
   of the levels of scanner and emitter, and of the simple keys.
2. `BatchRun` with `ApplyBatch` as an instance of `AtomicBatch`.
3. Dry runs with their preview files, and the policy gates before a command begins.
