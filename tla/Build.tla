-------------------------------- MODULE Build --------------------------------
(***************************************************************************)
(* What is inside a manifest: the way of one connector's configuration     *)
(* from a JSON file, from Kafka Connect or from another environment        *)
(* through buildConnector (workflow/build.go) into the worktree, under a   *)
(* configuration (module Config) that people edit between the commands,    *)
(* and the judgement of repo-validate (workflow/repository_validate.go)    *)
(* over what then lies there.                                              *)
(*                                                                         *)
(* One command works on one connector here: batches, their atomic          *)
(* application, crashes, and the concurrency of the workers are modules    *)
(* Worktree, BatchRun and Lifecycle. So are live validation, live listings *)
(* and dry runs: all they can do here is to make a command fail.           *)
(***************************************************************************)
EXTENDS Config, SequencesExt

CONSTANTS
    Bundles,      \* the bundles the repository may hold
    MappingSets,  \* the sets of mapping files it may hold
    ByHand,       \* the manifests a person may add
    Live,         \* what Connect runs: [cluster, profile, name, config]
    Installed,    \* the classes installed on the workers of a profile
    ShortName,    \* the simple name of a fully qualified class
    Inputs,       \* the JSON files: [stem, wrapped, name, config]
    Plans,        \* the migration plans
    Explicit,     \* the values of --name
    NoName,       \* no --name, no name in the file, no other target
    Tickets,      \* the values of --change-ticket, "" for none
    InvalidKeys,  \* the keys that are blank or contain a control character
    MaxCommands, MaxEdits

ASSUME BoundsAssumption == MaxCommands \in Nat /\ MaxEdits \in Nat
\* Every connector that runs has a class, and Connect adds its name to the
\* configuration. It was listed under the key of a profile, which is never empty.
ASSUME LiveAssumption ==
    \A l \in Live : /\ l.config \in [DOMAIN l.config -> Value]
                    /\ {"connector.class", "name"} \subseteq DOMAIN l.config
                    /\ l.config["name"].kind = "text"
                    /\ l.profile # ""
\* A mapping has a profile and fields.
ASSUME MappingsAssumption ==
    \A fs \in MappingSets : \A f \in fs : \A n \in DOMAIN f.connectors :
        LET mapping == f.connectors[n] IN
        /\ mapping = [profile |-> mapping.profile, fields |-> mapping.fields]
        /\ mapping.fields \in [DOMAIN mapping.fields -> Field]
\* A registered class is the name of a class, or was left blank.
ASSUME RegistryAssumption ==
    \A b \in Bundles : \A a \in DOMAIN b.plugins : \A u \in b.plugins[a].classes :
        u.kind \in {"text", "blank"}
\* Configurations, rules and overrides speak of Things, two of which are numbers.
ASSUME ValuesAssumption ==
    /\ {"1", "2"} \subseteq Things
    /\ \A i \in Inputs : i.config \in [DOMAIN i.config -> Value]
    /\ \A p \in Plans :
          /\ p.rules \in Seq([fields : SUBSET STRING, from : Things, to : Things])
          /\ \A n \in DOMAIN p.overrides :
                LET set == p.overrides[n].set IN set \in [DOMAIN set -> Value]

VARIABLES
    bundle, files,     \* the configuration: config/ and config/mappings/
    git,               \* the manifests in the worktree
    last,              \* the last command and its result
    commands, edits

vars == <<bundle, files, git, last, commands, edits>>

Class == "connector.class"
Tasks == "tasks.max"
Special == {Class, Tasks, "name"}
ASSUME KeysAssumption == InvalidKeys \cap Special = {}

Clusters == bundle.clusters
EnvOf(c, e) == Clusters[c].envs[e]
Targets == UNION {{<<c, e>> : e \in DOMAIN Clusters[c].envs} : c \in DOMAIN Clusters}
Base(c, e)  == Clusters[c].root \o <<e>>

\* LoadConnectors walks everything below the directory of the environment.
Below(base, m)  == Len(base) <= Len(m.dir) /\ SubSeq(m.dir, 1, Len(base)) = base
Loaded(c, e)    == {m \in git : Below(Base(c, e), m)}
At(m)           == {x \in git : x.dir = m.dir /\ x.meta = m.meta}

-----------------------------------------------------------------------------
(* buildConnector. x is [c, e, name, raw, mapping, forced, reject,         *)
(* annotations].                                                           *)

\* A label of the cleaned name; whatever had to be cleaned gets a hash behind it.
KubernetesName(n) ==
    [label |-> <<n.env, n.base>>, hash |-> IF n.dirty THEN {n} ELSE {}]

RuleOf(class) == bundle.plugins[CHOOSE a \in Lookup(bundle, class) : TRUE]
AliasOf(class) == CHOOSE a \in Lookup(bundle, class) : TRUE

ResolveConnectProfile(rule, env, mapping, forced) ==
    IF forced # ""               THEN forced
    ELSE IF mapping.profile # "" THEN mapping.profile
    ELSE IF rule.default # ""    THEN rule.default
    ELSE DefaultOf(env)

\* A simple class name is satisfied by any installed class that ends in it.
PluginInstalled(class, installed) ==
    \/ class \in installed
    \/ class \notin DOMAIN ShortName /\ \E i \in installed : ShortName[i] = class

\* The numbers of tasks that parse; any other text does not.
Counts == {V("text", "1"), V("text", "2")}

\* Mutant of TaskMax: there is always one task.
TaskMaxOne(cfg) == V("text", "1")

TaskMax(cfg) == IF Get(cfg, Tasks).kind = "blank" THEN V("text", "1") ELSE Trim(cfg[Tasks])

Normalize(cfg) == Restrict(cfg, DOMAIN cfg \ Special)

\* What happens to a connector that fails, unless its profile says otherwise.
DefaultRestart == "OnFailure"
RestartOf(p) == IF p.restart = "none" THEN DefaultRestart ELSE p.restart

Annotations(origin, ticket) == [origin |-> origin, ticket |-> ticket]

\* What YAML gives back of a REST section: an empty one is left out.
ReadBack(rest) == IF rest = "empty" THEN "nil" ELSE rest

ProfileFor(x) == ResolveConnectProfile(RuleOf(x.raw[Class]), EnvOf(x.c, x.e), x.mapping, x.forced)

SensitiveOf(x) == SensitiveKeysWithMapping(bundle, RuleOf(x.raw[Class]), x.raw, x.mapping)

Incomplete(x)   == MissingKeys(RuleOf(x.raw[Class]), x.raw) # {}
Overridden(x)   == x.reject /\ x.forced # "" /\ x.mapping.profile \notin {"", x.forced}
Unknown(x)      == ProfileFor(x) \notin DOMAIN Clusters[x.c].profiles
NotInstalled(x) == /\ bundle.verify
                   /\ ProfileFor(x) \in DOMAIN Installed
                   /\ ~PluginInstalled(Trim(x.raw[Class]).of, Installed[ProfileFor(x)])

Sanitized(x) == Resolve(x.raw, SensitiveOf(x), x.mapping, bundle.secretProfiles)

BadTasks(x) == TaskMax(Sanitized(x)) \notin Counts
BadKeys(x)  == DOMAIN Sanitized(x) \cap InvalidKeys # {}

\* The checks that fail: all of them, where the code reports the first.
Problems(x) ==
    {why \in {"required", "override", "profile", "installed", "plaintext", "reference",
              "tasks", "key"} :
        CASE why = "required"  -> Incomplete(x)
          [] why = "override"  -> Overridden(x)
          [] why = "profile"   -> Unknown(x)
          [] why = "installed" -> NotInstalled(x)
          [] why = "plaintext" -> Unresolved(x.raw, SensitiveOf(x), x.mapping) # {}
          [] why = "reference" -> Unreferable(x.raw, SensitiveOf(x), x.mapping,
                                              bundle.secretProfiles) # {}
          [] why = "tasks"     -> BadTasks(x)
          [] why = "key"       -> BadKeys(x)}

Unbuildable(x) ==
    IF Lookup(bundle, Get(x.raw, Class)) = {} THEN {"class"} ELSE Problems(x)

\* The class is the one of the sanitized configuration, the alias that of the raw.
Built(x) ==
    LET profile == ProfileFor(x)
        alias   == AliasOf(x.raw[Class]) IN
    [dir |-> Base(x.c, x.e) \o <<alias>>, meta |-> KubernetesName(x.name),
     namespace |-> Clusters[x.c].namespace, name |-> x.name,
     class |-> Trim(Sanitized(x)[Class]), tasks |-> TaskMax(Sanitized(x)),
     configs |-> Normalize(Sanitized(x)),
     labels |-> [plugin |-> alias, env |-> x.e, cluster |-> x.c, profile |-> profile],
     ref |-> Clusters[x.c].profiles[profile].ref,
     rest |-> ReadBack(Clusters[x.c].profiles[profile].rest),
     restart |-> RestartOf(Clusters[x.c].profiles[profile]),
     annotations |-> x.annotations]

\* A manifest as it is read, by whomever it was written. Labels and annotations of other
\* tools, and fields the tool does not know, are not in it: UPDATE drops them.
Manifest(m) ==
    /\ m = [dir |-> m.dir, meta |-> m.meta, namespace |-> m.namespace,
            name |-> m.name, class |-> m.class, tasks |-> m.tasks, configs |-> m.configs,
            labels |-> [plugin |-> m.labels.plugin, env |-> m.labels.env,
                        cluster |-> m.labels.cluster, profile |-> m.labels.profile],
            ref |-> m.ref, rest |-> m.rest, restart |-> m.restart,
            annotations |-> m.annotations]
    /\ m.class \in Value
    /\ m.tasks \in Value /\ m.tasks.kind = "text" /\ m.tasks = Trim(m.tasks)
    /\ m.configs \in [DOMAIN m.configs -> Value]

ASSUME ByHandAssumption == \A m \in ByHand : Manifest(m)

FullConnectConfig(m) ==
    [k \in {Class, Tasks} \cup DOMAIN m.configs |->
        CASE k = Class -> m.class [] k = Tasks -> m.tasks [] OTHER -> m.configs[k]]

\* The label decides if there is one; its profile must still be where the manifest points.
SameDiscovery(m, p) == m.ref = p.ref /\ m.rest = p.rest

ProfileFromCR(m, cl) ==
    {p \in DOMAIN cl.profiles : /\ SameDiscovery(m, cl.profiles[p])
                                /\ m.labels.profile \in {"", p}}
Mapped(m, cl) == Cardinality(ProfileFromCR(m, cl)) = 1

-----------------------------------------------------------------------------
(* The commands. Each loads the configuration, resolves its target and     *)
(* ends with a result; only one that succeeds changes the worktree.        *)

Result(op, status, why) == [op |-> op, status |-> status, why |-> why]

TypeOK ==
    /\ bundle \in Bundles /\ files \in MappingSets
    /\ \A m \in git : Manifest(m) /\ At(m) = {m}
    /\ last.status \in {"none", "succeeded", "skipped", "failed"}
    /\ commands \in 0..MaxCommands /\ edits \in 0..MaxEdits

Init ==
    /\ bundle \in Bundles
    /\ files \in MappingSets
    /\ git = {}
    /\ last = Result("none", "none", {})
    /\ commands = 0 /\ edits = 0

Runs(c, e) ==
    /\ commands < MaxCommands
    /\ LoadBundle(bundle, files)
    /\ ResolveTarget(bundle, c, e)
    /\ commands' = commands + 1
    /\ UNCHANGED <<bundle, files, edits>>

Fails(op, why) == last' = Result(op, "failed", why) /\ UNCHANGED git
Skips(op)      == last' = Result(op, "skipped", {}) /\ UNCHANGED git

\* planPersist: an equal file is left alone, another one only replaced by UPDATE.
Persist(op, m, gone, overwrite) ==
    IF At(m) \subseteq {m} \/ overwrite
    THEN git' = ((git \ At(m)) \ gone) \cup {m} /\ last' = Result(op, "succeeded", {})
    ELSE Fails(op, {"exists"})

\* UPDATE replaces an old manifest: in its place, or by moving it.
BuildAndPersist(op, x, replaced) ==
    IF Unbuildable(x) # {} THEN Fails(op, Unbuildable(x))
    ELSE LET m == Built(x) IN
         Persist(op, m, replaced \ At(m), replaced \cap At(m) # {})

\* The name of an input: --name, which must agree with a wrapper, the wrapper's, the file's.
Disagrees(input, explicit) ==
    explicit # NoName /\ input.wrapped # NoName /\ explicit # input.wrapped
InputName(input, explicit) ==
    IF explicit # NoName           THEN explicit
    ELSE IF input.wrapped # NoName THEN input.wrapped
    ELSE input.stem

Request(c, e, n, raw, forced, reject, annotations) ==
    [c |-> c, e |-> e, name |-> n, raw |-> raw, mapping |-> MappingOf(files, c, e, n),
     forced |-> forced, reject |-> reject, annotations |-> annotations]

Create(c, e, input, explicit) ==
    LET n == InputName(input, explicit) IN
    /\ Runs(c, e)
    /\ ~Disagrees(input, explicit)
    /\ IF n \notin EnvOf(c, e).names THEN Fails("create", {"name"})
       ELSE \E ticket \in Tickets :
              BuildAndPersist("create", Request(c, e, n, input.config, "", FALSE,
                                                Annotations(<<"create">>, ticket)), {})

\* FindByConnectorName returns the first by path: any of them here.
Update(c, e, input, explicit) ==
    LET n == InputName(input, explicit) IN
    /\ Runs(c, e)
    /\ ~Disagrees(input, explicit)
    /\ IF n \notin EnvOf(c, e).names THEN Fails("update", {"name"})
       ELSE IF \A m \in Loaded(c, e) : m.name # n THEN Fails("update", {"not found"})
       ELSE \E old \in {m \in Loaded(c, e) : m.name = n} :
              IF ~Mapped(old, Clusters[c]) THEN Fails("update", {"profile"})
              ELSE \E ticket \in Tickets :
                     BuildAndPersist("update",
                         Request(c, e, n, input.config,
                                 CHOOSE p \in ProfileFromCR(old, Clusters[c]) : TRUE,
                                 TRUE, Annotations(<<"update">>, ticket)),
                         {old})

\* Keys in which the generated configuration is not the live one.
AdoptionDiff(live, generated, sensitive) ==
    {k \in (DOMAIN live \cup DOMAIN generated) \ {"name"} :
        IF k \in sensitive THEN k \notin DOMAIN generated \/ ~IsReference(generated[k])
        ELSE IF k \notin DOMAIN live THEN ~(k = Tasks /\ generated[k] = V("text", "1"))
        ELSE k \notin DOMAIN generated \/ generated[k] # live[k]}

Adopt(c, e, l) ==
    /\ l.cluster = c /\ l.name \in EnvOf(c, e).names
    /\ Runs(c, e)
    /\ l.profile \in DOMAIN Clusters[c].profiles
    /\ IF \E m \in Loaded(c, e) : m.name = l.name THEN Skips("adopt")
       ELSE \E ticket \in Tickets :
              LET x == Request(c, e, l.name, l.config, l.profile, TRUE,
                               Annotations(<<"adopted">>, ticket)) IN
              IF Unbuildable(x) # {} THEN Fails("adopt", Unbuildable(x))
              ELSE IF bundle.functionalDiff
                      /\ AdoptionDiff(l.config, FullConnectConfig(Built(x)), SensitiveOf(x)) # {}
                   THEN Fails("adopt", {"diff"})
              ELSE Persist("adopt", Built(x), {}, FALSE)

-----------------------------------------------------------------------------
(* MIGRATE: the configuration of a manifest, renamed and rewritten by a    *)
(* plan [rename, rules, overrides], built again for another environment.   *)

NoOverride == [target |-> NoName, profile |-> "", set |-> [k \in {} |-> Blank], remove |-> {}]
OverrideOf(plan, n) == IF n \in DOMAIN plan.overrides THEN plan.overrides[n] ELSE NoOverride

\* The source environment in the name gives way to the target's, then the plan renames.
DefaultMigratedName(n, e, e2) == IF n.env = e THEN [n EXCEPT !.env = e2] ELSE n
ApplyNameReplacements(n, rename) ==
    IF n.base \in DOMAIN rename THEN [n EXCEPT !.base = rename[n.base]] ELSE n
TargetName(plan, n, e, e2) ==
    IF OverrideOf(plan, n).target # NoName THEN OverrideOf(plan, n).target
    ELSE ApplyNameReplacements(DefaultMigratedName(n, e, e2), plan.rename)

\* A rule rewrites the fields it lists, wherever the text occurs in them.
Replaced(cfg, rule) ==
    [k \in DOMAIN cfg |-> IF k \in rule.fields /\ cfg[k].of = rule.from
                          THEN [cfg[k] EXCEPT !.of = rule.to] ELSE cfg[k]]
\* The rules one after the other.
RulesApplied(rules, cfg) ==
    LET after[n \in 0..Len(rules)] ==
          IF n = 0 THEN cfg ELSE Replaced(after[n - 1], rules[n])
    IN after[Len(rules)]
Rewritten(plan, n, cfg) ==
    LET o == OverrideOf(plan, n)
        new == RulesApplied(plan.rules, cfg) IN
    [k \in (DOMAIN o.set \cup DOMAIN new) \ o.remove |->
        IF k \in DOMAIN o.set THEN o.set[k] ELSE new[k]]

\* Mutant of ToMap: only what the registry and the mapping call sensitive is mapped.
ToMapSensitive(raw, mapping) ==
    SensitiveKeysWithMapping(bundle, RuleOf(raw[Class]), raw, mapping)

\* What the target environment has to map: the sensitive keys, and whatever
\* is a reference of the source.
ToMap(raw, mapping) ==
    SensitiveKeysWithMapping(bundle, RuleOf(raw[Class]), raw, mapping)
      \cup {k \in DOMAIN raw : IsExternalReference(raw[k])}

Placeholder == [Blank EXCEPT !.kind = "placeholder"]
Cleared(raw, mapping) ==
    [k \in DOMAIN raw |-> IF k \in ToMap(raw, mapping) THEN Placeholder ELSE raw[k]]

MigrateOne(source, e, c2, e2, plan) ==
    LET target  == TargetName(plan, source.name, e, e2)
        over    == OverrideOf(plan, source.name)
        raw     == Rewritten(plan, source.name, FullConnectConfig(source))
        mapping == LET given == MappingOf(files, c2, e2, target) IN
                   IF over.profile = "" THEN given ELSE [given EXCEPT !.profile = over.profile]
    IN IF target = source.name THEN Fails("migrate", {"unchanged"})
       ELSE IF target \notin EnvOf(c2, e2).names THEN Fails("migrate", {"name"})
       ELSE IF Lookup(bundle, Get(raw, Class)) = {} THEN Fails("migrate", {"class"})
       ELSE IF ~(ToMap(raw, mapping) \subseteq DOMAIN mapping.fields)
            THEN Fails("migrate", {"unmapped"})
       ELSE \E ticket \in Tickets :
              BuildAndPersist("migrate",
                  [Request(c2, e2, target, Cleared(raw, mapping), "", FALSE,
                           Annotations(<<"migrated", e>>, ticket)) EXCEPT !.mapping = mapping],
                  {})

Migrate(c, e, c2, e2, plan) ==
    /\ Runs(c2, e2)
    /\ ResolveTarget(bundle, c, e)
    /\ \A x, y \in Loaded(c, e) : x.name = y.name => x = y
    /\ \E source \in {m \in Loaded(c, e) : m.name \in EnvOf(c, e).names} :
           MigrateOne(source, e, c2, e2, plan)

-----------------------------------------------------------------------------
(* repo-validate, and the people who edit the repository.                  *)

\* A manifest is checked in every environment whose directory it lies in.
Checked == UNION {{<<t[1], t[2], m>> : m \in Loaded(t[1], t[2])} :
                  t \in {u \in Targets : ResolveTarget(bundle, u[1], u[2])}}

SameName(t, u) == t[1] = u[1] /\ t[3].name = u[3].name
SameMeta(t, u) == /\ Clusters[t[1]].namespace = Clusters[u[1]].namespace
                  /\ t[3].meta = u[3].meta

\* Complaints about the content, which need the rule of the class.
OfContent(c, e, m) ==
    LET alias   == AliasOf(m.class)
        rule    == RuleOf(m.class)
        full    == FullConnectConfig(m)
        mapping == MappingOf(files, c, e, m.name) IN
    {why \in {"label", "profile", "path", "required", "mapping", "plaintext"} :
        CASE why = "label"     -> \/ m.labels.plugin # alias \/ m.labels.env # e
                                  \/ m.labels.cluster # c
          [] why = "profile"   -> ~Mapped(m, Clusters[c]) \/ m.labels.profile = ""
          [] why = "path"      -> m.dir # Base(c, e) \o <<alias>>
          [] why = "required"  -> MissingKeys(rule, full) # {}
          [] why = "mapping"   -> MappedInVain(full, mapping) # {}
          [] why = "plaintext" -> \E k \in SensitiveKeysWithMapping(bundle, rule, full, mapping) :
                                      ~IsExternalReference(full[k])}

\* Mutant of Complaints: a class that is not registered goes unnoticed.
ComplaintsUnregistered(c, e, m) ==
    UNION {IF m.namespace = Clusters[c].namespace THEN {} ELSE {"namespace"},
           IF m.name \in EnvOf(c, e).names THEN {} ELSE {"name"},
           IF \E t \in Checked : t # <<c, e, m>> /\ SameName(t, <<c, e, m>>) THEN {"twice"} ELSE {},
           IF \E t \in Checked : t # <<c, e, m>> /\ SameMeta(t, <<c, e, m>>) THEN {"metadata"} ELSE {},
           IF Lookup(bundle, m.class) = {} THEN {} ELSE OfContent(c, e, m)}

\* The second of two that clash is reported; here both are.
Complaints(c, e, m) ==
    UNION {IF m.namespace = Clusters[c].namespace THEN {} ELSE {"namespace"},
           IF m.name \in EnvOf(c, e).names THEN {} ELSE {"name"},
           IF \E t \in Checked : t # <<c, e, m>> /\ SameName(t, <<c, e, m>>) THEN {"twice"} ELSE {},
           IF \E t \in Checked : t # <<c, e, m>> /\ SameMeta(t, <<c, e, m>>) THEN {"metadata"} ELSE {},
           IF Lookup(bundle, m.class) = {} THEN {"class"} ELSE OfContent(c, e, m)}

ValidateRepository ==
    /\ commands < MaxCommands
    /\ LoadBundle(bundle, files)
    /\ LET found == UNION {Complaints(t[1], t[2], t[3]) : t \in Checked} IN
       last' = Result("repo-validate", IF found = {} THEN "succeeded" ELSE "failed", found)
    /\ commands' = commands + 1
    /\ UNCHANGED <<bundle, files, git, edits>>

\* Another edit, while there is a command to come that may see it.
Edits ==
    /\ edits < MaxEdits /\ commands < MaxCommands
    /\ edits' = edits + 1

EditConfig ==
    /\ Edits
    /\ \/ bundle' \in Bundles \ {bundle} /\ UNCHANGED files
       \/ files' \in MappingSets \ {files} /\ UNCHANGED bundle
    /\ last' = Result("edit", "none", {})
    /\ UNCHANGED <<git, commands>>

WriteByHand(m) ==
    /\ Edits
    /\ git' = (git \ At(m)) \cup {m}
    /\ last' = Result("edit", "none", {})
    /\ UNCHANGED <<bundle, files, commands>>

Next ==
    \/ \E t \in Targets :
         \/ \E input \in Inputs, explicit \in Explicit :
               Create(t[1], t[2], input, explicit) \/ Update(t[1], t[2], input, explicit)
         \/ \E l \in Live : Adopt(t[1], t[2], l)
         \/ \E u \in Targets, plan \in Plans : Migrate(t[1], t[2], u[1], u[2], plan)
    \/ ValidateRepository
    \/ EditConfig
    \/ \E m \in ByHand : WriteByHand(m)

Spec == Init /\ [][Next]_vars

-----------------------------------------------------------------------------
(* Properties.                                                             *)

\* The manifests the current step wrote, if it was the step of a command.
Writes == IF last'.op \in {"create", "update", "adopt", "migrate"} THEN git' \ git ELSE {}

\* One manifest under the configuration of the step, next to its neighbours.
Home(m) == <<m.labels.cluster, m.labels.env>>
MappingFor(m) == MappingOf(files, m.labels.cluster, m.labels.env, m.name)

\* Some enabled environment other than its own loads the manifest as well.
Nested(m) == \E t \in Targets : /\ t # Home(m)
                                 /\ ResolveTarget(bundle, t[1], t[2])
                                 /\ Below(Base(t[1], t[2]), m)

\* What buildConnector lets pass and repo-validate does not: the complaints
\* that a manifest may earn on the day it is written, and their reasons. With a
\* brace in a path, what is written under a sensitive key is no accepted reference.
Tolerated(m) ==
    LET fields == MappingFor(m).fields
        profile == Clusters[m.labels.cluster].profiles[m.labels.profile]
        rule == bundle.plugins[m.labels.plugin] IN
    UNION {IF DOMAIN fields \subseteq DOMAIN FullConnectConfig(m) THEN {} ELSE {"mapping"},
           IF "name" \in rule.required THEN {"required"} ELSE {},
           IF profile.rest = "empty" THEN {"profile"} ELSE {},
           IF Class \in DOMAIN fields THEN {"class"} ELSE {},
           IF \/ Tasks \in DOMAIN fields
              \/ Tasks \in rule.sensitive \cup bundle.generic /\ m.tasks = V("text", "1")
              \/ \E k \in DOMAIN fields : Mangles(fields[k], bundle.secretProfiles)
             THEN {"plaintext"} ELSE {},
           IF \E x \in git' \ {m} : x.name = m.name \/ x.meta = m.meta
             THEN {"twice", "metadata"} ELSE {},
           IF Nested(m) THEN {"namespace", "name", "label", "profile", "path",
                              "twice", "metadata"} ELSE {}}

\* Whatever a command writes passes the validation of the repository under
\* the same configuration, but for the reasons that Tolerated lists
\* (build.go:45 against repository_validate.go:43).
WrittenValidates ==
    [][\A m \in Writes : Complaints(m.labels.cluster, m.labels.env, m)' \subseteq Tolerated(m)]_vars

\* UPDATE with the configuration a manifest has, and without a ticket.
Again(m) == Request(m.labels.cluster, m.labels.env, m.name, FullConnectConfig(m),
                    m.labels.profile, TRUE, Annotations(<<"update">>, ""))

\* All that it makes anew: what repo-validate does not look at.
Renewed(m) ==
    [m EXCEPT !.meta = KubernetesName(m.name), !.class = Trim(m.class),
              !.configs = Normalize(m.configs), !.rest = ReadBack(m.rest),
              !.restart = RestartOf(Clusters[m.labels.cluster].profiles[m.labels.profile]),
              !.annotations = Annotations(<<"update">>, "")]

\* The reasons to refuse it that repo-validate does not look at either.
Overlooked(m) ==
    UNION {{"override", "installed"},
           IF m.tasks \in Counts THEN {} ELSE {"tasks"},
           IF DOMAIN m.configs \cap InvalidKeys = {} THEN {} ELSE {"key"}}

\* Each manifest of a repository that passes can be built again from itself: given to
\* UPDATE it is refused only because its mapping now asks for another profile, the plugin
\* is not installed, or for a number of tasks or a key that a person wrote; and what comes
\* out has its place, its profile and its configuration unchanged, whatever was edited
\* since it was written. Only the name in the metadata, the restart policy and the
\* annotations are made anew (repository_validate.go:43 against build.go:45).
PassMeansRebuildable ==
    /\ TypeOK
    /\ last.op = "repo-validate" /\ last.status = "succeeded" =>
        \A t \in Checked : LET x == Again(t[3]) IN
            /\ Unbuildable(x) \subseteq Overlooked(t[3])
            /\ Built(x) = Renewed(t[3])

\* Whatever in a migrated manifest is a recognised reference and nothing else, the
\* mapping of the target put there: no such reference of the source survives, whatever
\* the plan sets and rewrites (migrate.go:188). References of other providers, and
\* those inside a longer text, are the subject of NeverReused.
MigrateRepoints ==
    [][\A m \in Writes : last'.op = "migrate" =>
          \A k \in DOMAIN m.configs : IsExternalReference(m.configs[k]) =>
              /\ k \in DOMAIN MappingFor(m).fields
              /\ m.configs[k].of = MappingFor(m).fields[k].of]_vars

\* The values of a source that hold a reference: alone, mangled, to another provider, or
\* inside a text.
HoldsReference(v) == IsReference(v) \/ v.kind = "within"

\* "Source secret references are never silently reused" (README.md:274): a value of the
\* source with a reference in it is not in the migrated manifest, unless the mapping of
\* the target names its key.
NeverReused ==
    [][\A m \in Writes : last'.op = "migrate" =>
          \A s \in git : s.labels.env = m.annotations.origin[2] =>
              \A k \in DOMAIN s.configs \cap DOMAIN m.configs :
                  HoldsReference(s.configs[k]) /\ m.configs[k] = s.configs[k] =>
                      k \in DOMAIN MappingFor(m).fields]_vars

\* No command writes a plaintext under a key that the registry or the mapping calls
\* sensitive: what it writes there has the form ${..} of a reference (build.go:72,
\* resolver.go:24). That it is a reference which the validation accepts is not so: a
\* brace in a path makes one that is not (Mangles, WrittenValidates).
NoPlaintext ==
    [][\A m \in Writes :
          LET rule == bundle.plugins[m.labels.plugin]
              sensitive == rule.sensitive \cup bundle.generic \cup DOMAIN MappingFor(m).fields IN
          \A k \in sensitive \cap DOMAIN m.configs : IsReference(m.configs[k])]_vars

\* What Connect makes of a configuration: it trims the class and the number of
\* tasks, of which there is one if none is given.
Effective(cfg) ==
    [k \in {Class, Tasks} \cup (DOMAIN cfg \ Special) |->
        CASE k = Class -> Trim(cfg[k])
          [] k = Tasks -> IF Get(cfg, k).kind = "blank" THEN V("text", "1") ELSE Trim(cfg[k])
          [] OTHER     -> cfg[k]]

\* When CFK takes over an adopted connector, nothing changes for it: the same
\* keys with the same meaning, except that a plaintext becomes a reference
\* (adopt.go:121, transform.go:23).
AdoptKeepsRunning ==
    [][\A m \in Writes : last'.op = "adopt" =>
          \E l \in Live :
             LET was == Effective(l.config)
                 now == Effective(FullConnectConfig(m)) IN
             /\ l.name = m.name /\ l.cluster = m.labels.cluster /\ l.profile = m.labels.profile
             /\ DOMAIN now = DOMAIN was
             /\ \A k \in DOMAIN now : now[k] = was[k] \/ (IsReference(now[k]) /\ ~IsExternalReference(was[k]))]_vars

\* A mapping that the configuration accepts never fails in the resolver, which
\* has rules of its own (mappings_validate.go:31 against resolver.go:52).
MappingsResolve == "reference" \notin last.why
=============================================================================
