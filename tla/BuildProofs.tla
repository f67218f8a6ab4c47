----------------------------- MODULE BuildProofs -----------------------------
(***************************************************************************)
(* Proofs about Build: for any configuration of the repository, any sets   *)
(* of mapping files, inputs, running connectors and migration plans, and   *)
(* any number of commands and edits.                                       *)
(***************************************************************************)
EXTENDS Build, FiniteSetTheorems, WellFoundedInduction, TLAPS

\* The configuration in use is one of those the repository may hold.
FilesInv == bundle \in Bundles /\ files \in MappingSets

\* Manifests that differ lie in different places.
Apart(manifests) ==
  \A x, y \in manifests : x.dir = y.dir /\ x.meta = y.meta => x = y

\* The values of a configuration.
Typed(cfg) == \A k \in DOMAIN cfg : cfg[k] \in Value

\* A manifest of the form the builder gives it.
Formed(m) ==
  /\ Manifest(m) /\ m.meta = KubernetesName(m.name)
  /\ m.class = Trim(m.class) /\ m.tasks \in Counts
  /\ DOMAIN m.configs \cap Special = {} /\ m.rest # "empty"

\* What is asked for is of the environment it is asked for, and is mapped as it says.
Fit(x) ==
  /\ ResolveTarget(bundle, x.c, x.e)
  /\ x.name \in EnvOf(x.c, x.e).names
  /\ Typed(x.raw)
  /\ x.mapping.fields = MappingOf(files, x.c, x.e, x.name).fields

\* What building a connector from x may leave behind: nothing, or one manifest.
Outcome(op, x) ==
  /\ last'.op = op /\ last'.status \in {"succeeded", "skipped", "failed"}
  /\ "reference" \in last'.why => "reference" \in Unbuildable(x)
  /\ \A m \in git' \ git : m = Built(x) /\ Unbuildable(x) = {}
  /\ Apart(git) => Apart(git')

-----------------------------------------------------------------------------
(* Facts about the operators.                                              *)

\* A set of numbers that is not empty has a smallest element.
LEMMA SmallestOf ==
  ASSUME NEW S, S \subseteq Nat, S # {}
  PROVE  \E x \in S : \A y \in S : x <= y
<1> DEFINE Less == OpToRel(<, Nat)
<1>1. Less = {p \in Nat \X Nat : p[1] < p[2]}
  BY DEF OpToRel
<1>2. IsWellFoundedOn(Less, Nat)
  BY NatLessThanWellFounded
<1> HIDE DEF Less
<1>3. PICK x \in S : \A y \in S : <<y, x>> \notin Less
  BY <1>2, WFMin
<1>4. \A y \in S : ~(y < x)
  BY <1>1, <1>3
<1> QED
  BY <1>4

\* The fields that are read of a built manifest.
LEMMA BuiltFields ==
  ASSUME NEW x
  PROVE  /\ Built(x).name = x.name
         /\ Built(x).labels.plugin = AliasOf(x.raw[Class])
         /\ Built(x).labels.cluster = x.c /\ Built(x).labels.env = x.e
         /\ Built(x).labels.profile = ProfileFor(x)
         /\ Built(x).class = Trim(Sanitized(x)[Class])
         /\ Built(x).tasks = TaskMax(Sanitized(x))
         /\ Built(x).configs = Normalize(Sanitized(x))
BY DEF Built

LEMMA RequestFields ==
  ASSUME NEW c, NEW e, NEW n, NEW raw, NEW forced, NEW reject, NEW notes, NEW x,
         x = Request(c, e, n, raw, forced, reject, notes)
  PROVE  /\ x.c = c /\ x.e = e /\ x.name = n /\ x.raw = raw /\ x.forced = forced
         /\ x.mapping = MappingOf(files, c, e, n)
         /\ x.mapping.fields = MappingOf(files, x.c, x.e, x.name).fields
<1>1. /\ x.c = c /\ x.e = e /\ x.name = n /\ x.raw = raw /\ x.forced = forced
      /\ x.mapping = MappingOf(files, c, e, n)
  BY DEF Request
<1> QED
  BY <1>1

LEMMA NormalizedKeys ==
  ASSUME NEW cfg
  PROVE  /\ DOMAIN Normalize(cfg) = DOMAIN cfg \ Special
         /\ \A k \in DOMAIN Normalize(cfg) : Normalize(cfg)[k] = cfg[k]
BY DEF Normalize, Restrict

LEMMA ResolveDomain ==
  ASSUME NEW x
  PROVE  DOMAIN Sanitized(x) = DOMAIN x.raw
BY DEF Sanitized, Resolve

\* A value under a key is the one that was there, or a reference that the mapping names.
LEMMA Resolved ==
  ASSUME NEW x, NEW k \in DOMAIN Sanitized(x)
  PROVE  LET now == Sanitized(x)[k] IN
         /\ k \in DOMAIN x.raw
         /\ \/ now = x.raw[k]
            \/ /\ k \in SensitiveOf(x) /\ k \in DOMAIN x.mapping.fields
               /\ ~IsExternalReference(x.raw[k])
               /\ now = ReferenceFor(x.mapping.fields[k], bundle.secretProfiles)
         /\ now = x.raw[k] \/ IsReference(now)
         /\ k \in SensitiveOf(x) /\ k \in DOMAIN x.mapping.fields => IsReference(now)
BY DEF Sanitized, Resolve, ReferenceFor, IsReference, IsExternalReference, V

LEMMA Persists ==
  ASSUME NEW op, NEW m, NEW gone, NEW overwrite, Persist(op, m, gone, overwrite)
  PROVE  /\ last'.op = op /\ last'.status \in {"succeeded", "failed"}
         /\ last'.why \subseteq {"exists"} /\ git' \ git \subseteq {m}
         /\ Apart(git) => Apart(git')
<1>1. CASE Fails(op, {"exists"})
  BY <1>1 DEF Fails, Result, Apart
<1>2. CASE git' = ((git \ At(m)) \ gone) \cup {m} /\ last' = Result(op, "succeeded", {})
  BY <1>2 DEF Result, Apart, At
<1> QED
  BY <1>1, <1>2 DEF Persist

LEMMA Failing ==
  ASSUME NEW op, NEW why, Fails(op, why)
  PROVE  /\ last'.op = op /\ last'.status = "failed" /\ last'.why = why
         /\ git' = git /\ git' \ git = {}
BY DEF Fails, Result

LEMMA BuildsOne ==
  ASSUME NEW op, NEW x, NEW replaced, BuildAndPersist(op, x, replaced)
  PROVE  Outcome(op, x)
<1>1. CASE Unbuildable(x) # {}
  BY <1>1, Failing DEF BuildAndPersist, Outcome
<1>2. CASE Unbuildable(x) = {}
  <2>1. Persist(op, Built(x), replaced \ At(Built(x)), replaced \cap At(Built(x)) # {})
    BY <1>2 DEF BuildAndPersist
  <2> QED
    BY <1>2, <2>1, Persists DEF Outcome
<1> QED
  BY <1>1, <1>2

\* The rules of a plan change what values speak of, and leave them values.
LEMMA RulesTyped ==
  ASSUME NEW rules \in Seq([fields : SUBSET STRING, from : Things, to : Things]),
         NEW cfg, Typed(cfg)
  PROVE  Typed(RulesApplied(rules, cfg))
<1> DEFINE N == Len(rules)
           Solves(f, n) ==
             f = [i \in 0..n |-> IF i = 0 THEN cfg ELSE Replaced(f[i - 1], rules[i])]
           after == CHOOSE f : Solves(f, N)
           Unsolved == {n \in 0..N : ~ \E f : Solves(f, n)}
<1>1. N \in Nat
  OBVIOUS
<1>2. Solves(after, N)
  <2>1. SUFFICES ASSUME Unsolved # {} PROVE FALSE
    <3>1. \E f : Solves(f, N)
      BY <1>1, <2>1
    <3> QED
      BY <3>1
  <2>0. Unsolved \subseteq 0..N /\ Unsolved \subseteq Nat
    BY <1>1
  <2>2. PICK n \in Unsolved : \A i \in Unsolved : n <= i
    <3> HIDE DEF Unsolved
    <3> QED
      BY <2>0, <2>1, SmallestOf
  <2>3. CASE n = 0
    <3> DEFINE f == [i \in 0..0 |-> cfg]
    <3>1. Solves(f, 0)
      OBVIOUS
    <3> QED
      BY <2>2, <2>3, <3>1
  <2>4. CASE n # 0
    <3>1. n \in 0..N /\ n - 1 \in 0..N /\ n - 1 \notin Unsolved
      <4> HIDE DEF Unsolved, N
      <4> QED
        BY <1>1, <2>0, <2>2, <2>4
    <3>2. PICK f : Solves(f, n - 1)
      BY <3>1
    <3>3. PICK top : top = Replaced(f[n - 1], rules[n])
      OBVIOUS
    <3>4. PICK g : g = [i \in 0..n |-> IF i = n THEN top ELSE f[i]]
      OBVIOUS
    <3>5. \A i \in 0..n - 1 : g[i] = f[i]
      BY <1>1, <2>2, <3>4
    <3>6. \A i \in 0..n : g[i] = IF i = 0 THEN cfg ELSE Replaced(g[i - 1], rules[i])
      <4> TAKE i \in 0..n
      <4>1. CASE i = n
        BY <2>4, <3>1, <3>3, <3>4, <3>5, <4>1
      <4>2. CASE i # n
        <5>1. i \in 0..n - 1
          BY <1>1, <2>2, <4>2
        <5>2. f[i] = IF i = 0 THEN cfg ELSE Replaced(f[i - 1], rules[i])
          BY <3>2, <5>1
        <5>3. i # 0 => i - 1 \in 0..n - 1
          BY <5>1
        <5> QED
          BY <3>5, <5>1, <5>2, <5>3
      <4> QED
        BY <4>1, <4>2
    <3>7. Solves(g, n)
      BY <3>4, <3>6
    <3> QED
      BY <2>2, <3>7
  <2> QED
    BY <2>3, <2>4
<1>3. RulesApplied(rules, cfg) = after[N]
  BY DEF RulesApplied
<1>4. \A i \in 0..N : Typed(after[i])
  <2> DEFINE Bad == {i \in 0..N : ~Typed(after[i])}
  <2>1. SUFFICES ASSUME Bad # {} PROVE FALSE
    OBVIOUS
  <2> HIDE DEF after
  <2>0. Bad \subseteq Nat
    BY <1>1
  <2>2. PICK i \in Bad : \A l \in Bad : i <= l
    <3> HIDE DEF Bad
    <3> QED
      BY <2>0, <2>1, SmallestOf
  <2>3. CASE i = 0
    BY <1>1, <1>2, <2>2, <2>3
  <2>4. CASE i # 0
    <3>1. i - 1 \in 0..N /\ Typed(after[i - 1]) /\ i \in 1..N
      BY <1>1, <2>2, <2>4
    <3>2. after[i] = Replaced(after[i - 1], rules[i])
      BY <1>2, <2>2, <2>4
    <3>3. rules[i].to \in Things
      <4>1. PICK R : R = [fields : SUBSET STRING, from : Things, to : Things]
        OBVIOUS
      <4>2. rules \in Seq(R)
        BY <4>1
      <4>3. rules[i] \in R
        BY <3>1, <4>2
      <4> QED
        BY <4>1, <4>3
    <3>4. Typed(Replaced(after[i - 1], rules[i]))
      BY <3>1, <3>3 DEF Typed, Replaced, Value
    <3> QED
      BY <2>2, <3>2, <3>4
  <2> QED
    BY <2>3, <2>4
<1> QED
  BY <1>1, <1>3, <1>4

\* A mapping that the configuration accepts is empty or one of a file, and the resolver
\* can refer to each of its fields.
LEMMA MappingsRefer ==
  ASSUME FilesInv, LoadBundle(bundle, files), NEW c, NEW e, NEW n
  PROVE  LET mapping == MappingOf(files, c, e, n) IN
         /\ mapping = [profile |-> mapping.profile, fields |-> mapping.fields]
         /\ \A k \in DOMAIN mapping.fields : /\ Refers(mapping.fields[k], bundle.secretProfiles)
                                            /\ mapping.fields[k] \in Field
<1> DEFINE known == {f \in files : f.cluster = c /\ f.env = e /\ n \in DOMAIN f.connectors}
           mapping == MappingOf(files, c, e, n)
<1>1. CASE known = {}
  <2>1. mapping = NoMapping
    BY <1>1 DEF MappingOf
  <2>2. NoMapping = [profile |-> NoMapping.profile, fields |-> NoMapping.fields]
        /\ DOMAIN NoMapping.fields = {}
    BY DEF NoMapping
  <2> QED
    BY <2>1, <2>2
<1>2. CASE known # {}
  <2> DEFINE file == CHOOSE f \in known : TRUE
  <2>1. file \in known
    BY <1>2
  <2>2. mapping = file.connectors[n]
    BY <1>2 DEF MappingOf
  <2>3. /\ ValidSecretMappings(file.connectors, bundle)
        /\ n \in DOMAIN file.connectors
        /\ mapping = [profile |-> mapping.profile, fields |-> mapping.fields]
        /\ mapping.fields \in [DOMAIN mapping.fields -> Field]
    <3> HIDE DEF mapping
    <3> QED
      BY <2>1, <2>2, MappingsAssumption DEF FilesInv, LoadBundle, ValidMappingFile
  <2> HIDE DEF file, mapping
  <2>4. \A k \in DOMAIN mapping.fields : ValidField(mapping.fields[k], bundle.secretProfiles)
    BY <2>2, <2>3 DEF ValidSecretMappings
  <2>5. \A f : ValidField(f, bundle.secretProfiles) => Refers(f, bundle.secretProfiles)
    BY DEF ValidField, ValidLiteral, ValidMounted, Refers
  <2> QED
    BY <2>3, <2>4, <2>5 DEF mapping
<1> QED
  BY <1>1, <1>2

LEMMA NoReferenceProblem ==
  ASSUME NEW x, \A k \in DOMAIN x.mapping.fields : Refers(x.mapping.fields[k], bundle.secretProfiles)
  PROVE  "reference" \notin Unbuildable(x)
<1>1. Unreferable(x.raw, SensitiveOf(x), x.mapping, bundle.secretProfiles) = {}
  BY DEF Unreferable
<1>2. "reference" \notin Problems(x)
  BY <1>1 DEF Problems
<1> QED
  BY <1>2 DEF Unbuildable

\* Under a sensitive key of a manifest that could be built is a reference.
LEMMA BuiltReferences ==
  ASSUME NEW x, Unbuildable(x) = {}, NEW k \in DOMAIN Built(x).configs,
         LET rule == bundle.plugins[Built(x).labels.plugin] IN
         k \in rule.sensitive \cup bundle.generic \cup DOMAIN x.mapping.fields
  PROVE  IsReference(Built(x).configs[k])
<1> DEFINE cfg == Sanitized(x)
<1>1. k \in DOMAIN x.raw /\ k \in DOMAIN cfg /\ Built(x).configs[k] = cfg[k]
  <2>1. Built(x).configs = Normalize(cfg)
    BY BuiltFields
  <2>2. DOMAIN cfg = DOMAIN x.raw
    BY ResolveDomain
  <2> HIDE DEF cfg
  <2> QED
    BY <2>1, <2>2, NormalizedKeys
<1>2. k \in SensitiveOf(x)
  BY <1>1, BuiltFields DEF SensitiveOf, SensitiveKeysWithMapping, SensitiveKeys, RuleOf, AliasOf
<1>3. Unresolved(x.raw, SensitiveOf(x), x.mapping) = {}
  <2>1. "plaintext" \notin Problems(x)
    BY DEF Unbuildable
  <2> QED
    BY <2>1 DEF Problems
<1>4. k \in DOMAIN x.mapping.fields \/ IsExternalReference(x.raw[k])
  BY <1>2, <1>3 DEF Unresolved
<1> QED
  BY <1>1, <1>2, <1>4, Resolved DEF IsReference, IsExternalReference

-----------------------------------------------------------------------------
(* The commands.                                                           *)

\* A manifest that a command writes was built from a fitting request.
Sound(m) == \E x : m = Built(x) /\ Unbuildable(x) = {} /\ Fit(x)

Step(op) ==
  /\ last'.op = op /\ last'.status \in {"succeeded", "skipped", "failed"}
  /\ "reference" \notin last'.why
  /\ \A m \in git' \ git : Sound(m)
  /\ Apart(git) => Apart(git')

LEMMA SoundOutcome ==
  ASSUME FilesInv, LoadBundle(bundle, files), NEW op, NEW x, Outcome(op, x), Fit(x)
  PROVE  Step(op)
<1>1. "reference" \notin Unbuildable(x)
  BY MappingsRefer, NoReferenceProblem DEF Fit
<1> QED
  BY <1>1 DEF Outcome, Step, Sound

LEMMA FitRequest ==
  ASSUME NEW c, NEW e, NEW n, NEW raw, NEW forced, NEW reject, NEW notes,
         ResolveTarget(bundle, c, e), n \in EnvOf(c, e).names, Typed(raw),
         NEW x, x = Request(c, e, n, raw, forced, reject, notes)
  PROVE  Fit(x)
<1>1. /\ x.c = c /\ x.e = e /\ x.name = n /\ x.raw = raw
      /\ x.mapping.fields = MappingOf(files, x.c, x.e, x.name).fields
  BY RequestFields
<1> QED
  BY <1>1 DEF Fit

LEMMA Requested ==
  ASSUME FilesInv, LoadBundle(bundle, files), NEW op, NEW replaced,
         NEW c, NEW e, NEW n, NEW raw, NEW forced, NEW reject, NEW notes,
         ResolveTarget(bundle, c, e), n \in EnvOf(c, e).names, Typed(raw),
         BuildAndPersist(op, Request(c, e, n, raw, forced, reject, notes), replaced)
  PROVE  Step(op)
<1>1. PICK x : x = Request(c, e, n, raw, forced, reject, notes)
  OBVIOUS
<1>2. Fit(x)
  BY <1>1, FitRequest
<1>3. Outcome(op, x)
  BY <1>1, BuildsOne
<1> QED
  BY <1>2, <1>3, SoundOutcome

LEMMA FailingStep ==
  ASSUME NEW op, NEW why, Fails(op, why), "reference" \notin why
  PROVE  Step(op)
BY Failing DEF Step

LEMMA CreateStep ==
  ASSUME FilesInv, NEW c, NEW e, NEW input \in Inputs, NEW explicit,
         Create(c, e, input, explicit)
  PROVE  Step("create")
<1> DEFINE n == InputName(input, explicit)
<1>1. LoadBundle(bundle, files) /\ ResolveTarget(bundle, c, e) /\ Typed(input.config)
  BY ValuesAssumption DEF Create, Runs, Typed
<1>2. \/ Fails("create", {"name"})
      \/ /\ n \in EnvOf(c, e).names
         /\ \E notes : BuildAndPersist("create", Request(c, e, n, input.config, "", FALSE, notes), {})
  BY DEF Create
<1>3. CASE /\ n \in EnvOf(c, e).names
           /\ \E notes : BuildAndPersist("create", Request(c, e, n, input.config, "", FALSE, notes), {})
  BY <1>1, <1>3, Requested
<1> QED
  BY <1>2, <1>3, FailingStep

LEMMA UpdateStep ==
  ASSUME FilesInv, NEW c, NEW e, NEW input \in Inputs, NEW explicit,
         Update(c, e, input, explicit)
  PROVE  Step("update")
<1> DEFINE n == InputName(input, explicit)
           Forced(old) == CHOOSE p \in ProfileFromCR(old, Clusters[c]) : TRUE
           Updates(old) == \E notes :
             BuildAndPersist("update",
                 Request(c, e, n, input.config, Forced(old), TRUE, notes), {old})
<1>1. LoadBundle(bundle, files) /\ ResolveTarget(bundle, c, e) /\ Typed(input.config)
  BY ValuesAssumption DEF Update, Runs, Typed
<1>2. \/ Fails("update", {"name"})
      \/ Fails("update", {"not found"})
      \/ Fails("update", {"profile"})
      \/ n \in EnvOf(c, e).names /\ \E old : Updates(old)
  BY DEF Update
<1>3. CASE n \in EnvOf(c, e).names /\ \E old : Updates(old)
  <2>1. PICK old : Updates(old)
    BY <1>3
  <2>2. PICK forced : forced = Forced(old)
    OBVIOUS
  <2> QED
    BY <1>1, <1>3, <2>1, <2>2, Requested
<1> QED
  BY <1>2, <1>3, FailingStep

\* ADOPT, and where what it writes comes from.
LEMMA AdoptStep ==
  ASSUME FilesInv, NEW c, NEW e, NEW l \in Live, Adopt(c, e, l)
  PROVE  /\ Step("adopt")
         /\ \A m \in git' \ git :
              \E x : /\ m = Built(x) /\ Unbuildable(x) = {}
                     /\ x.raw = l.config /\ x.name = l.name
                     /\ x.c = l.cluster /\ x.forced = l.profile
<1>1. /\ LoadBundle(bundle, files) /\ l.cluster = c
      /\ ResolveTarget(bundle, c, e) /\ l.name \in EnvOf(c, e).names /\ Typed(l.config)
  BY LiveAssumption DEF Adopt, Runs, Typed
<1> DEFINE Asked(notes) == Request(c, e, l.name, l.config, l.profile, TRUE, notes)
           Ends(x) == \/ Skips("adopt")
                      \/ Fails("adopt", Unbuildable(x)) /\ Unbuildable(x) # {}
                      \/ Fails("adopt", {"diff"})
                      \/ Persist("adopt", Built(x), {}, FALSE) /\ Unbuildable(x) = {}
<1>0. \E notes : Ends(Asked(notes))
  <2>1. \/ Skips("adopt")
        \/ \E ticket \in Tickets : Ends(Asked(Annotations(<<"adopted">>, ticket)))
    BY Zenon DEF Adopt
  <2> QED
    BY <2>1
<1>2. PICK notes, x : x = Asked(notes) /\ Ends(x)
  BY <1>0
<1>3. Ends(x)
  BY <1>2
<1>4. /\ x.raw = l.config /\ x.name = l.name /\ x.c = c /\ x.forced = l.profile
      /\ Fit(x)
  <2>1. x.raw = l.config /\ x.name = l.name /\ x.c = c /\ x.forced = l.profile
    BY <1>2 DEF Request
  <2>2. Fit(x)
    BY <1>1, <1>2, FitRequest
  <2> QED
    BY <2>1, <2>2
<1>5. Outcome("adopt", x)
  <2>1. CASE Skips("adopt")
    BY <2>1 DEF Outcome, Skips, Result, Apart
  <2>2. CASE Fails("adopt", Unbuildable(x)) \/ Fails("adopt", {"diff"})
    BY <2>2, Failing DEF Outcome
  <2>3. CASE Persist("adopt", Built(x), {}, FALSE) /\ Unbuildable(x) = {}
    <3>1. /\ last'.op = "adopt" /\ last'.status \in {"succeeded", "failed"}
          /\ last'.why \subseteq {"exists"} /\ git' \ git \subseteq {Built(x)}
          /\ Apart(git) => Apart(git')
      BY <2>3, Persists, Zenon
    <3> QED
      BY <2>3, <3>1 DEF Outcome
  <2> QED
    BY <1>3, <2>1, <2>2, <2>3
<1> QED
  BY <1>1, <1>4, <1>5, SoundOutcome DEF Outcome

\* MIGRATE clears every reference of its source before it builds.
LEMMA ClearedValues ==
  ASSUME NEW raw, NEW mapping, NEW k \in DOMAIN Cleared(raw, mapping)
  PROVE  ~IsExternalReference(Cleared(raw, mapping)[k])
<1>1. ~IsExternalReference(Placeholder)
  BY DEF Placeholder, Blank, V, IsExternalReference
<1>2. k \in DOMAIN raw /\ (IsExternalReference(raw[k]) => k \in ToMap(raw, mapping))
  BY DEF Cleared, ToMap
<1> QED
  BY <1>1, <1>2 DEF Cleared

\* Values are values again when their white space is trimmed; so are numbers of tasks.
LEMMA Values ==
  /\ Blank \in Value /\ Placeholder \in Value /\ Counts \subseteq Value
  /\ \A v \in Value : Trim(v) \in Value /\ Trim(v).kind = v.kind
  /\ \A f \in Field : \A profiles : ReferenceFor(f, profiles) \in Value
<1>1. Blank \in Value /\ Placeholder \in Value /\ Counts \subseteq Value
  <2>1. \A kind \in Kinds, of \in Things : V(kind, of) \in Value
    BY DEF V, Value
  <2>2. Blank \in Value
    BY <2>1, ValuesAssumption DEF Blank, Kinds
  <2>3. Placeholder \in Value
    BY <2>2 DEF Placeholder, Value, Kinds
  <2>4. Counts \subseteq Value
    BY <2>1, ValuesAssumption DEF Counts, Kinds
  <2> QED
    BY <2>2, <2>3, <2>4
<1>2. \A v \in Value : Trim(v) \in Value /\ Trim(v).kind = v.kind
  BY DEF Trim, Value
<1>3. \A f \in Field : \A profiles : ReferenceFor(f, profiles) \in Value
  BY DEF ReferenceFor, Field, V, Value, Kinds
<1> QED
  BY <1>1, <1>2, <1>3

LEMMA FullFields ==
  ASSUME NEW m, Manifest(m)
  PROVE  LET full == FullConnectConfig(m) IN
         /\ DOMAIN full = {Class, Tasks} \cup DOMAIN m.configs
         /\ full[Class] = m.class /\ full[Tasks] = m.tasks
         /\ \A k \in DOMAIN m.configs \ {Class, Tasks} : full[k] = m.configs[k]
         /\ Typed(full)
<1>1. \A k \in DOMAIN m.configs : m.configs[k] \in Value
  BY DEF Manifest
<1>2. m.class \in Value /\ m.tasks \in Value
  BY DEF Manifest
<1> QED
  BY <1>1, <1>2 DEF FullConnectConfig, Class, Tasks, Typed

\* What MIGRATE builds from is a configuration again.
LEMMA MigratedTyped ==
  ASSUME NEW plan \in Plans, NEW m, Manifest(m), NEW n, NEW mapping
  PROVE  Typed(Cleared(Rewritten(plan, n, FullConnectConfig(m)), mapping))
<1>1. PICK full : full = FullConnectConfig(m)
  OBVIOUS
<1>2. PICK new : new = RulesApplied(plan.rules, full)
  OBVIOUS
<1>3. PICK o : o = OverrideOf(plan, n)
  OBVIOUS
<1>4. PICK raw : raw = Rewritten(plan, n, full)
  OBVIOUS
<1>5. Typed(new)
  BY <1>1, <1>2, FullFields, RulesTyped, ValuesAssumption
<1>6. Typed(o.set)
  <2>1. CASE n \in DOMAIN plan.overrides
    BY <1>3, <2>1, ValuesAssumption DEF OverrideOf, Typed
  <2>2. CASE n \notin DOMAIN plan.overrides
    BY <1>3, <2>2 DEF OverrideOf, NoOverride, Typed
  <2> QED
    BY <2>1, <2>2
<1>7. Typed(raw)
  BY <1>2, <1>3, <1>4, <1>5, <1>6 DEF Rewritten, Typed
<1> QED
  BY <1>1, <1>4, <1>7, Values DEF Cleared, Typed

LEMMA Migration ==
  ASSUME FilesInv, LoadBundle(bundle, files), NEW source, NEW e, NEW c2, NEW e2,
         NEW plan \in Plans, Manifest(source), ResolveTarget(bundle, c2, e2),
         MigrateOne(source, e, c2, e2, plan)
  PROVE  \/ \E why \in {"unchanged", "name", "class", "unmapped"} : Fails("migrate", {why})
         \/ \E x : /\ BuildAndPersist("migrate", x, {})
                   /\ Fit(x)
                   /\ \A k \in DOMAIN x.raw : ~IsExternalReference(x.raw[k])
<1>1. PICK target : target = TargetName(plan, source.name, e, e2)
  OBVIOUS
<1>2. PICK raw : raw = Rewritten(plan, source.name, FullConnectConfig(source))
  OBVIOUS
<1>3. PICK given : given = MappingOf(files, c2, e2, target)
  OBVIOUS
<1>4. PICK profile : profile = OverrideOf(plan, source.name).profile
  OBVIOUS
<1>5. PICK mapping : mapping = IF profile = "" THEN given ELSE [given EXCEPT !.profile = profile]
  OBVIOUS
<1> DEFINE Asks(x) == \E notes :
             x = [Request(c2, e2, target, Cleared(raw, mapping), "", FALSE, notes)
                    EXCEPT !.mapping = mapping]
<1>8. \/ Fails("migrate", {"unchanged"})
      \/ Fails("migrate", {"name"})
      \/ Fails("migrate", {"class"})
      \/ Fails("migrate", {"unmapped"})
      \/ target \in EnvOf(c2, e2).names /\ \E x : Asks(x) /\ BuildAndPersist("migrate", x, {})
  BY <1>1, <1>2, <1>3, <1>4, <1>5, Zenon DEF MigrateOne
<1>9. mapping.fields = given.fields
  <2>1. given = [profile |-> given.profile, fields |-> given.fields]
    BY <1>3, MappingsRefer
  <2> QED
    BY <1>5, <2>1
<1>10. ASSUME NEW x, Asks(x), target \in EnvOf(c2, e2).names
       PROVE  Fit(x) /\ \A k \in DOMAIN x.raw : ~IsExternalReference(x.raw[k])
  <2>1. PICK notes :
          x = [Request(c2, e2, target, Cleared(raw, mapping), "", FALSE, notes)
                 EXCEPT !.mapping = mapping]
    BY <1>10
  <2>2. x.c = c2 /\ x.e = e2 /\ x.name = target /\ x.raw = Cleared(raw, mapping) /\ x.mapping = mapping
    BY <2>1 DEF Request
  <2>3. x.mapping.fields = MappingOf(files, x.c, x.e, x.name).fields
    BY <1>3, <1>9, <2>2
  <2>4. Typed(x.raw)
    BY <1>2, <2>2, MigratedTyped
  <2>5. \A k \in DOMAIN x.raw : ~IsExternalReference(x.raw[k])
    BY <2>2, ClearedValues
  <2> QED
    BY <1>10, <2>2, <2>3, <2>4, <2>5 DEF Fit
<1> QED
  BY <1>8, <1>10

\* MIGRATE, and what the references in its manifest are.
LEMMA MigrateStep ==
  ASSUME FilesInv, \A m \in git : Manifest(m), NEW c, NEW e, NEW c2, NEW e2, NEW plan \in Plans,
         Migrate(c, e, c2, e2, plan)
  PROVE  /\ Step("migrate")
         /\ \A m \in git' \ git : \A k \in DOMAIN m.configs : IsExternalReference(m.configs[k]) =>
              /\ k \in DOMAIN MappingFor(m).fields
              /\ m.configs[k].of = MappingFor(m).fields[k].of
<1>1. LoadBundle(bundle, files) /\ ResolveTarget(bundle, c2, e2)
  BY DEF Migrate, Runs
<1>2. PICK source : Manifest(source) /\ MigrateOne(source, e, c2, e2, plan)
  BY DEF Migrate, Loaded
<1>3. CASE \E why \in {"unchanged", "name", "class", "unmapped"} : Fails("migrate", {why})
  BY <1>3, Failing, FailingStep
<1>4. CASE \E x : /\ BuildAndPersist("migrate", x, {})
                  /\ Fit(x)
                  /\ \A k \in DOMAIN x.raw : ~IsExternalReference(x.raw[k])
  <2>1. PICK x : /\ BuildAndPersist("migrate", x, {})
                 /\ Fit(x)
                 /\ \A k \in DOMAIN x.raw : ~IsExternalReference(x.raw[k])
    BY <1>4
  <2>2. Outcome("migrate", x)
    BY <2>1, BuildsOne
  <2>3. ASSUME NEW m \in git' \ git, NEW k \in DOMAIN m.configs, IsExternalReference(m.configs[k])
        PROVE  /\ k \in DOMAIN MappingFor(m).fields
               /\ m.configs[k].of = MappingFor(m).fields[k].of
    <3>1. m = Built(x)
      BY <2>2 DEF Outcome
    <3>2. MappingFor(m).fields = x.mapping.fields
      BY <2>1, <3>1, BuiltFields DEF MappingFor, Fit
    <3> DEFINE cfg == Sanitized(x)
    <3>3. k \in DOMAIN cfg /\ m.configs[k] = cfg[k]
      <4>1. m.configs = Normalize(cfg)
        BY <3>1, BuiltFields
      <4> HIDE DEF cfg
      <4> QED
        BY <4>1, NormalizedKeys
    <3>4. k \in DOMAIN x.mapping.fields /\ cfg[k] = ReferenceFor(x.mapping.fields[k], bundle.secretProfiles)
      BY <2>1, <2>3, <3>3, Resolved
    <3> QED
      BY <3>2, <3>3, <3>4 DEF ReferenceFor, V
  <2> QED
    BY <1>1, <2>1, <2>2, <2>3, SoundOutcome
<1> QED
  BY <1>1, <1>2, <1>3, <1>4, Migration

-----------------------------------------------------------------------------
(* The invariant.                                                          *)

LEMMA ValidateStep ==
  ASSUME ValidateRepository
  PROVE  /\ last'.op = "repo-validate" /\ last'.status \in {"succeeded", "failed"}
         /\ "reference" \notin last'.why /\ git' = git
<1>1. \A t : "reference" \notin Complaints(t[1], t[2], t[3])
  BY DEF Complaints, OfContent
<1> QED
  BY <1>1 DEF ValidateRepository, Result

\* The kinds of steps, and what a command keeps of the configuration.
Commands == {"create", "update", "adopt", "migrate"}

LEMMA Steps ==
  ASSUME FilesInv, \A m \in git : Manifest(m), Next
  PROVE  /\ FilesInv' /\ MappingsResolve'
         /\ last'.status \in {"none", "succeeded", "skipped", "failed"}
         /\ \/ ValidateRepository
            \/ last'.op = "edit" /\ git' = git
            \/ last'.op = "edit" /\ \E m \in ByHand : git' = (git \ At(m)) \cup {m}
            \/ /\ last'.op \in Commands /\ LoadBundle(bundle, files)
               /\ UNCHANGED <<bundle, files>>
               /\ Step(last'.op)
         /\ last'.op = "migrate" =>
              \A m \in git' \ git : \A k \in DOMAIN m.configs : IsExternalReference(m.configs[k]) =>
                 /\ k \in DOMAIN MappingFor(m).fields
                 /\ m.configs[k].of = MappingFor(m).fields[k].of
         /\ last'.op = "adopt" =>
              \A m \in git' \ git : \E l \in Live : \E x :
                 /\ m = Built(x) /\ Unbuildable(x) = {}
                 /\ x.raw = l.config /\ x.name = l.name
                 /\ x.c = l.cluster /\ x.forced = l.profile
<1>1. CASE \E t \in Targets, input \in Inputs, explicit \in Explicit : Create(t[1], t[2], input, explicit)
  <2>1. PICK t \in Targets, input \in Inputs, explicit \in Explicit : Create(t[1], t[2], input, explicit)
    BY <1>1
  <2>2. Step("create") /\ UNCHANGED <<bundle, files>> /\ LoadBundle(bundle, files)
    BY <2>1, CreateStep DEF Create, Runs
  <2> QED
    BY <2>2 DEF Step, Commands, FilesInv, MappingsResolve
<1>2. CASE \E t \in Targets, input \in Inputs, explicit \in Explicit : Update(t[1], t[2], input, explicit)
  <2>1. PICK t \in Targets, input \in Inputs, explicit \in Explicit : Update(t[1], t[2], input, explicit)
    BY <1>2
  <2>2. Step("update") /\ UNCHANGED <<bundle, files>> /\ LoadBundle(bundle, files)
    BY <2>1, UpdateStep DEF Update, Runs
  <2> QED
    BY <2>2 DEF Step, Commands, FilesInv, MappingsResolve
<1>3. CASE \E t \in Targets, l \in Live : Adopt(t[1], t[2], l)
  <2>1. PICK t \in Targets, l \in Live : Adopt(t[1], t[2], l)
    BY <1>3
  <2>2. UNCHANGED <<bundle, files>> /\ LoadBundle(bundle, files)
    BY <2>1 DEF Adopt, Runs
  <2> QED
    BY <2>1, <2>2, AdoptStep DEF Step, Commands, FilesInv, MappingsResolve
<1>4. CASE \E t, u \in Targets, plan \in Plans : Migrate(t[1], t[2], u[1], u[2], plan)
  <2>1. PICK t \in Targets, u \in Targets, plan \in Plans : Migrate(t[1], t[2], u[1], u[2], plan)
    BY <1>4
  <2>2. UNCHANGED <<bundle, files>> /\ LoadBundle(bundle, files)
    BY <2>1 DEF Migrate, Runs
  <2> QED
    BY <2>1, <2>2, MigrateStep DEF Step, Commands, FilesInv, MappingsResolve
<1>5. CASE ValidateRepository
  BY <1>5, ValidateStep DEF ValidateRepository, FilesInv, MappingsResolve
<1>6. CASE EditConfig \/ \E m \in ByHand : WriteByHand(m)
  BY <1>6 DEF EditConfig, WriteByHand, Edits, Result, FilesInv, MappingsResolve
<1> QED
  BY <1>1, <1>2, <1>3, <1>4, <1>5, <1>6 DEF Next

-----------------------------------------------------------------------------
(* What an adopted connector becomes.                                      *)

\* White space is trimmed once, and a reference that replaces a value has none.
LEMMA Trims ==
  /\ \A v \in Value : Trim(v).kind = v.kind /\ Trim(Trim(v)) = Trim(v)
  /\ \A kind, of : Trim(V(kind, of)) = V(kind, of)
  /\ \A f, profiles : IsReference(ReferenceFor(f, profiles)) /\ Trim(ReferenceFor(f, profiles)) = ReferenceFor(f, profiles)
<1>1. \A v \in Value : Trim(v).kind = v.kind /\ Trim(Trim(v)) = Trim(v)
  BY DEF Trim, Value
<1>2. ASSUME NEW kind, NEW of
      PROVE  Trim(V(kind, of)) = V(kind, of)
  <2>1. PICK v : v = [kind |-> kind, of |-> of, pad |-> FALSE]
    OBVIOUS
  <2>2. v.pad = FALSE
    BY <2>1
  <2>3. [v EXCEPT !.pad = FALSE] = v
    BY <2>1, <2>2
  <2> QED
    BY <2>1, <2>3, Zenon DEF Trim, V
<1>3. ASSUME NEW f, NEW profiles
      PROVE  IsReference(ReferenceFor(f, profiles)) /\ Trim(ReferenceFor(f, profiles)) = ReferenceFor(f, profiles)
  <2>1. PICK kind \in {"mangled", "external"} : ReferenceFor(f, profiles) = V(kind, f.of)
    BY DEF ReferenceFor
  <2>2. V(kind, f.of).kind = kind
    BY DEF V
  <2> QED
    BY <1>2, <2>1, <2>2 DEF IsReference
<1> QED
  BY <1>1, <1>2, <1>3

LEMMA AdoptedSame ==
  ASSUME NEW l \in Live, NEW x, Unbuildable(x) = {}, x.raw = l.config
  PROVE  LET was == Effective(l.config)
             now == Effective(FullConnectConfig(Built(x))) IN
         /\ DOMAIN now = DOMAIN was
         /\ \A k \in DOMAIN now : now[k] = was[k] \/ (IsReference(now[k]) /\ ~IsExternalReference(was[k]))
<1>1. PICK cfg : cfg = Sanitized(x)
  OBVIOUS
<1>2. PICK full : full = FullConnectConfig(Built(x))
  OBVIOUS
<1>3. PICK was : was = Effective(l.config)
  OBVIOUS
<1>4. PICK now : now = Effective(full)
  OBVIOUS
<1>5. PICK D : D = DOMAIN l.config
  OBVIOUS
<1>6. DOMAIN cfg = D
  BY <1>1, <1>5, ResolveDomain
<1>7. \A k \in D : \/ cfg[k] = l.config[k] /\ l.config[k] \in Value
                  \/ /\ IsReference(cfg[k]) /\ Trim(cfg[k]) = cfg[k]
                     /\ l.config[k] \in Value /\ ~IsExternalReference(l.config[k])
  <2>1. \A k \in D : l.config[k] \in Value
    BY <1>5, LiveAssumption
  <2> QED
    BY <1>1, <1>6, <2>1, Resolved, Trims
<1>8. /\ DOMAIN full = {Class, Tasks} \cup (D \ Special)
      /\ full[Class] = Trim(cfg[Class]) /\ full[Tasks] = TaskMax(cfg)
      /\ \A k \in D \ Special : full[k] = cfg[k]
  <2>1. PICK m : m = Built(x)
    OBVIOUS
  <2>2. m.class = Trim(cfg[Class]) /\ m.tasks = TaskMax(cfg) /\ m.configs = Normalize(cfg)
    BY <1>1, <2>1, BuiltFields
  <2>3. DOMAIN m.configs = D \ Special /\ \A k \in D \ Special : m.configs[k] = cfg[k]
    BY <1>6, <2>2, NormalizedKeys
  <2> QED
    BY <1>2, <2>1, <2>2, <2>3 DEF FullConnectConfig, Class, Tasks, Special
<1>9. Class \in D
  BY <1>5, LiveAssumption DEF Class
<1>10. DOMAIN was = {Class, Tasks} \cup (D \ Special) /\ DOMAIN now = DOMAIN was
  BY <1>3, <1>4, <1>5, <1>8 DEF Effective, Special
<1>11. /\ was[Class] = Trim(l.config[Class]) /\ now[Class] = Trim(full[Class])
       /\ was[Tasks] = TaskMax(l.config) /\ now[Tasks] = TaskMax(full)
       /\ \A k \in D \ Special : was[k] = l.config[k] /\ now[k] = full[k]
  BY <1>3, <1>4, <1>5, <1>8 DEF Effective, TaskMax, Class, Tasks, Special
<1>12. now[Class] = was[Class] \/ (IsReference(now[Class]) /\ ~IsExternalReference(was[Class]))
  BY <1>7, <1>8, <1>9, <1>11, Trims DEF IsExternalReference
<1>13. now[Tasks] = was[Tasks] \/ (IsReference(now[Tasks]) /\ ~IsExternalReference(was[Tasks]))
  <2>1. TaskMax(full) = TaskMax(cfg)
    <3>1. TaskMax(cfg).kind # "blank" /\ Trim(TaskMax(cfg)) = TaskMax(cfg)
      <4>1. CASE Get(cfg, Tasks).kind = "blank"
        BY <4>1, Trims DEF TaskMax, V
      <4>2. CASE Get(cfg, Tasks).kind # "blank"
        <5>1. Tasks \in D /\ cfg[Tasks].kind # "blank" /\ TaskMax(cfg) = Trim(cfg[Tasks])
          BY <1>6, <4>2 DEF Get, Blank, V, TaskMax
        <5> QED
          BY <1>7, <5>1, Trims
      <4> QED
        BY <4>1, <4>2
    <3>2. Get(full, Tasks) = TaskMax(cfg) /\ full[Tasks] = TaskMax(cfg)
      BY <1>8 DEF Get
    <3> QED
      BY <3>1, <3>2 DEF TaskMax
  <2>2. CASE Tasks \notin D
    BY <1>5, <1>6, <1>11, <2>1, <2>2 DEF TaskMax, Get, Blank, V
  <2>3. CASE Tasks \in D /\ cfg[Tasks] = l.config[Tasks]
    BY <1>5, <1>6, <1>11, <2>1, <2>3 DEF TaskMax, Get
  <2>4. CASE Tasks \in D /\ cfg[Tasks] # l.config[Tasks]
    <3>1. /\ IsReference(cfg[Tasks]) /\ Trim(cfg[Tasks]) = cfg[Tasks]
          /\ l.config[Tasks] \in Value /\ ~IsExternalReference(l.config[Tasks])
      BY <1>7, <2>4
    <3>2. TaskMax(cfg) = cfg[Tasks]
      BY <1>6, <2>4, <3>1 DEF TaskMax, Get, IsReference
    <3>3. ~IsExternalReference(TaskMax(l.config))
      BY <1>5, <2>4, <3>1, Trims DEF TaskMax, Get, IsExternalReference, V
    <3> QED
      BY <1>11, <2>1, <3>1, <3>2, <3>3
  <2> QED
    BY <2>2, <2>3, <2>4
<1>14. \A k \in D \ Special : now[k] = was[k] \/ (IsReference(now[k]) /\ ~IsExternalReference(was[k]))
  BY <1>7, <1>8, <1>11
<1> QED
  BY <1>2, <1>3, <1>4, <1>10, <1>12, <1>13, <1>14

-----------------------------------------------------------------------------
(* What is built is a manifest.                                            *)

\* A connector can only be built with a class, which is a text.
LEMMA Classed ==
  ASSUME FilesInv, LoadBundle(bundle, files), NEW x, Unbuildable(x) = {}, Typed(x.raw)
  PROVE  /\ Class \in DOMAIN x.raw /\ x.raw[Class] \in Value
         /\ x.raw[Class].kind = "text" /\ Lookup(bundle, x.raw[Class]) # {}
<1>1. PICK v : v = Get(x.raw, Class)
  OBVIOUS
<1>2. Lookup(bundle, v) # {}
  BY <1>1 DEF Unbuildable
<1>3. v \in Value
  BY <1>1, Values DEF Get, Typed
<1>4. v.kind = "text"
  <2>1. PICK a \in DOMAIN bundle.plugins : Trim(v) \in bundle.plugins[a].classes
    BY <1>2 DEF Lookup
  <2>2. Trim(v).kind \in {"text", "blank"}
    BY <2>1, RegistryAssumption DEF FilesInv
  <2>3. Trim(v).kind # "blank"
    BY <2>1 DEF LoadBundle, ValidBundle, ClassOwned
  <2> QED
    BY <1>3, <2>2, <2>3, Values
<1>5. Class \in DOMAIN x.raw /\ v = x.raw[Class]
  BY <1>1, <1>4 DEF Get, Blank, V
<1> QED
  BY <1>2, <1>3, <1>4, <1>5

LEMMA ResolvedTyped ==
  ASSUME FilesInv, LoadBundle(bundle, files), NEW x, Fit(x)
  PROVE  Typed(Sanitized(x))
<1>1. \A k \in DOMAIN x.mapping.fields : ReferenceFor(x.mapping.fields[k], bundle.secretProfiles) \in Value
  BY MappingsRefer, Values DEF Fit
<1>2. Typed(x.raw)
  BY DEF Fit
<1> QED
  BY <1>1, <1>2 DEF Sanitized, Resolve, Typed

LEMMA Laid ==
  ASSUME NEW dir, NEW n, NEW namespace, NEW class, NEW tasks, NEW configs, NEW plugin, NEW env,
         NEW cluster, NEW profile, NEW ref, NEW rest, NEW restart, NEW notes,
         class \in Value, class = Trim(class), tasks \in Counts,
         configs \in [DOMAIN configs -> Value], DOMAIN configs \cap Special = {}, rest # "empty"
  PROVE  Formed([dir |-> dir, meta |-> KubernetesName(n), namespace |-> namespace, name |-> n,
                 class |-> class, tasks |-> tasks, configs |-> configs,
                 labels |-> [plugin |-> plugin, env |-> env, cluster |-> cluster,
                             profile |-> profile],
                 ref |-> ref, rest |-> rest, restart |-> restart, annotations |-> notes])
<1>1. PICK labels : labels = [plugin |-> plugin, env |-> env, cluster |-> cluster, profile |-> profile]
  OBVIOUS
<1>2. labels = [plugin |-> labels.plugin, env |-> labels.env, cluster |-> labels.cluster,
                profile |-> labels.profile]
  BY <1>1
<1>3. PICK m : m = [dir |-> dir, meta |-> KubernetesName(n), namespace |-> namespace, name |-> n,
                    class |-> class, tasks |-> tasks, configs |-> configs, labels |-> labels,
                    ref |-> ref, rest |-> rest, restart |-> restart, annotations |-> notes]
  OBVIOUS
<1>4. /\ m.dir = dir /\ m.meta = KubernetesName(m.name) /\ m.namespace = namespace /\ m.name = n
      /\ m.class = class /\ m.tasks = tasks /\ m.configs = configs /\ m.labels = labels
      /\ m.ref = ref /\ m.rest = rest /\ m.restart = restart /\ m.annotations = notes
  BY <1>3
<1>5. m.tasks \in Value /\ m.tasks.kind = "text" /\ m.tasks = Trim(m.tasks)
  BY <1>4, Values, Trims DEF Counts, V
<1>6. Manifest(m)
  BY <1>2, <1>3, <1>4, <1>5 DEF Manifest
<1>7. Formed(m)
  BY <1>4, <1>6 DEF Formed
<1> QED
  BY <1>1, <1>3, <1>7

LEMMA BuiltFormed ==
  ASSUME FilesInv, LoadBundle(bundle, files), NEW x, Unbuildable(x) = {}, Fit(x)
  PROVE  Formed(Built(x))
<1>1. PICK cfg : cfg = Sanitized(x)
  OBVIOUS
<1>2. DOMAIN cfg = DOMAIN x.raw /\ Typed(cfg)
  BY <1>1, ResolveDomain, ResolvedTyped
<1>3. Class \in DOMAIN cfg
  BY <1>2, Classed DEF Fit
<1>4. PICK class : class = Trim(cfg[Class])
  OBVIOUS
<1>5. class \in Value /\ class = Trim(class)
  BY <1>2, <1>3, <1>4, Values, Trims DEF Typed
<1>6. PICK tasks : tasks = TaskMax(cfg)
  OBVIOUS
<1>7. tasks \in Counts
  <2>1. "tasks" \notin Problems(x)
    BY DEF Unbuildable
  <2> QED
    BY <1>1, <1>6, <2>1 DEF Problems, BadTasks
<1>8. PICK configs : configs = Normalize(cfg)
  OBVIOUS
<1>9. configs \in [DOMAIN configs -> Value] /\ DOMAIN configs \cap Special = {}
  BY <1>2, <1>8 DEF Normalize, Restrict, Typed
<1>10. PICK p : p = ProfileFor(x)
  OBVIOUS
<1>11. PICK rest : rest = ReadBack(Clusters[x.c].profiles[p].rest)
  OBVIOUS
<1>12. rest # "empty"
  BY <1>11 DEF ReadBack
<1>13. PICK alias : alias = AliasOf(x.raw[Class])
  OBVIOUS
<1>14. PICK dir : dir = Base(x.c, x.e) \o <<alias>>
  OBVIOUS
<1>15. PICK restart, namespace, ref :
         /\ restart = RestartOf(Clusters[x.c].profiles[p])
         /\ namespace = Clusters[x.c].namespace /\ ref = Clusters[x.c].profiles[p].ref
  OBVIOUS
<1>16. Built(x) =
         [dir |-> dir, meta |-> KubernetesName(x.name), namespace |-> namespace, name |-> x.name,
          class |-> class, tasks |-> tasks, configs |-> configs,
          labels |-> [plugin |-> alias, env |-> x.e, cluster |-> x.c, profile |-> p],
          ref |-> ref, rest |-> rest, restart |-> restart, annotations |-> x.annotations]
  BY <1>1, <1>4, <1>6, <1>8, <1>10, <1>11, <1>13, <1>14, <1>15, Zenon DEF Built
<1> QED
  BY <1>5, <1>7, <1>9, <1>12, <1>16, Laid

-----------------------------------------------------------------------------
(* The invariant.                                                          *)

GitInv == Apart(git) /\ \A m \in git : Manifest(m)

\* Nothing has changed since repo-validate passed.
PassInv ==
  last.op = "repo-validate" /\ last.status = "succeeded" =>
    \A t \in Checked : Complaints(t[1], t[2], t[3]) = {}

BoundsInv ==
  /\ last.status \in {"none", "succeeded", "skipped", "failed"}
  /\ commands \in 0..MaxCommands /\ edits \in 0..MaxEdits

IInv == FilesInv /\ BoundsInv /\ GitInv /\ PassInv /\ MappingsResolve

\* The complaints are about the configuration and the manifests.
LEMMA SameContent ==
  ASSUME UNCHANGED <<bundle, files>>
  PROVE  \A c, e, m : OfContent(c, e, m)' = OfContent(c, e, m)
BY DEF OfContent, AliasOf, RuleOf, Mapped, ProfileFromCR, Base, Clusters

LEMMA SameComplaints ==
  ASSUME UNCHANGED <<bundle, files, git>>
  PROVE  /\ Checked' = Checked
         /\ \A c, e, m : Complaints(c, e, m)' = Complaints(c, e, m)
<1>1. Clusters' = Clusters /\ Targets' = Targets
  BY DEF Clusters, Targets
<1>2. Checked' = Checked
  BY <1>1 DEF Checked, Loaded, Base, Clusters
<1>3. \A c, e, m : OfContent(c, e, m)' = OfContent(c, e, m)
  BY SameContent
<1>4. \A c, e : EnvOf(c, e)' = EnvOf(c, e)
  BY DEF EnvOf, Clusters
<1>5. \A t, u : SameMeta(t, u)' = SameMeta(t, u)
  BY DEF SameMeta, Clusters
<1> QED
  BY <1>1, <1>2, <1>3, <1>4, <1>5 DEF Complaints, SameName

LEMMA Counters ==
  ASSUME BoundsInv, Next
  PROVE  commands' \in 0..MaxCommands /\ edits' \in 0..MaxEdits
<1>1. \/ commands < MaxCommands /\ commands' = commands + 1 /\ edits' = edits
      \/ edits < MaxEdits /\ edits' = edits + 1 /\ commands' = commands
  <2> DEFINE Ran == commands < MaxCommands /\ commands' = commands + 1 /\ edits' = edits
             Edited == edits < MaxEdits /\ edits' = edits + 1 /\ commands' = commands
  <2>1. \A c, e : Runs(c, e) => Ran
    BY DEF Runs
  <2>2. \A c, e, input, explicit : Create(c, e, input, explicit) \/ Update(c, e, input, explicit) => Ran
    BY <2>1, Zenon DEF Create, Update
  <2>3. \A c, e, l : Adopt(c, e, l) => Ran
    BY <2>1, Zenon DEF Adopt
  <2>4. \A c, e, c2, e2, plan : Migrate(c, e, c2, e2, plan) => Ran
    BY <2>1, Zenon DEF Migrate
  <2>5. ValidateRepository => Ran
    BY DEF ValidateRepository
  <2>6. EditConfig \/ (\E m \in ByHand : WriteByHand(m)) => Edited
    BY DEF EditConfig, WriteByHand, Edits
  <2> QED
    BY <2>2, <2>3, <2>4, <2>5, <2>6, Zenon DEF Next
<1> QED
  BY <1>1, BoundsAssumption DEF BoundsInv

\* A command, a validation or a person leaves manifests, each in a place of its own.
LEMMA GitStep ==
  ASSUME FilesInv, GitInv, Next
  PROVE  GitInv'
<1>0. \A m \in git : Manifest(m)
  BY DEF GitInv
<1>1. CASE git' = git
  BY <1>1 DEF GitInv
<1>2. CASE \E m \in ByHand : git' = (git \ At(m)) \cup {m}
  BY <1>2, ByHandAssumption DEF GitInv, Apart, At
<1>3. CASE LoadBundle(bundle, files) /\ Step(last'.op)
  <2>1. \A m \in git' \ git : Manifest(m)
    BY <1>3, BuiltFormed DEF Step, Sound, Formed
  <2> QED
    BY <1>3, <2>1 DEF GitInv, Step
<1> QED
  BY <1>0, <1>1, <1>2, <1>3, Steps, ValidateStep

LEMMA PassStep ==
  ASSUME FilesInv, GitInv, Next
  PROVE  PassInv'
<1>1. CASE ValidateRepository
  <2>1. UNCHANGED <<bundle, files, git>>
    BY <1>1 DEF ValidateRepository
  <2>2. last'.status = "succeeded" => \A t \in Checked : Complaints(t[1], t[2], t[3]) = {}
    BY <1>1 DEF ValidateRepository, Result
  <2> QED
    BY <2>1, <2>2, SameComplaints DEF PassInv
<1>2. CASE last'.op = "edit" \/ last'.op \in Commands
  BY <1>2 DEF PassInv, Commands
<1> QED
  BY <1>1, <1>2, Steps DEF GitInv

-----------------------------------------------------------------------------
(* What passes repo-validate can be built again.                           *)

Passes(c, e, m) == Complaints(c, e, m) = {}

\* What no complaint about a manifest says of it.
LEMMA NoComplaints ==
  ASSUME NEW c, NEW e, NEW m, Passes(c, e, m)
  PROVE  /\ m.namespace = Clusters[c].namespace /\ Lookup(bundle, m.class) # {}
         /\ m.labels.plugin = AliasOf(m.class) /\ m.labels.env = e /\ m.labels.cluster = c
         /\ m.labels.profile # "" /\ Mapped(m, Clusters[c])
         /\ m.dir = Base(c, e) \o <<AliasOf(m.class)>>
         /\ MissingKeys(RuleOf(m.class), FullConnectConfig(m)) = {}
         /\ \A k \in SensitiveKeysWithMapping(bundle, RuleOf(m.class), FullConnectConfig(m),
                                               MappingOf(files, c, e, m.name)) :
               IsExternalReference(FullConnectConfig(m)[k])
<1>1. m.namespace = Clusters[c].namespace /\ Lookup(bundle, m.class) # {}
  BY DEF Passes, Complaints
<1>2. OfContent(c, e, m) = {}
  BY <1>1 DEF Passes, Complaints
<1>3. /\ "label" \notin OfContent(c, e, m) /\ "profile" \notin OfContent(c, e, m)
      /\ "path" \notin OfContent(c, e, m) /\ "required" \notin OfContent(c, e, m)
      /\ "plaintext" \notin OfContent(c, e, m)
  BY <1>2
<1>4. /\ m.labels.plugin = AliasOf(m.class) /\ m.labels.env = e /\ m.labels.cluster = c
  BY <1>3 DEF OfContent
<1>5. m.labels.profile # "" /\ Mapped(m, Clusters[c])
  BY <1>3 DEF OfContent
<1>6. m.dir = Base(c, e) \o <<AliasOf(m.class)>>
  BY <1>3 DEF OfContent
<1>7. MissingKeys(RuleOf(m.class), FullConnectConfig(m)) = {}
  BY <1>3 DEF OfContent
<1>8. \A k \in SensitiveKeysWithMapping(bundle, RuleOf(m.class), FullConnectConfig(m),
                                        MappingOf(files, c, e, m.name)) :
         IsExternalReference(FullConnectConfig(m)[k])
  BY <1>3 DEF OfContent
<1> QED
  BY <1>1, <1>4, <1>5, <1>6, <1>7, <1>8

LEMMA PassedRebuilds ==
  ASSUME NEW c, NEW e, NEW m, Manifest(m), Passes(c, e, m)
  PROVE  /\ Unbuildable(Again(m)) \subseteq Overlooked(m)
         /\ Built(Again(m)) = Renewed(m)
<1>1. PICK alias : alias = AliasOf(m.class)
  OBVIOUS
<1>2. PICK full : full = FullConnectConfig(m)
  OBVIOUS
<1>3. PICK mapping : mapping = MappingOf(files, c, e, m.name)
  OBVIOUS
<1>4. PICK p : p = m.labels.profile
  OBVIOUS
<1>5. PICK x : x = Again(m)
  OBVIOUS
<1>6. /\ m.namespace = Clusters[c].namespace /\ Lookup(bundle, m.class) # {}
      /\ m.labels.plugin = alias /\ m.labels.env = e /\ m.labels.cluster = c
      /\ p # "" /\ Mapped(m, Clusters[c])
      /\ m.dir = Base(c, e) \o <<alias>>
      /\ MissingKeys(RuleOf(m.class), full) = {}
      /\ \A k \in SensitiveKeysWithMapping(bundle, RuleOf(m.class), full, mapping) :
            IsExternalReference(full[k])
  <2>1. /\ m.namespace = Clusters[c].namespace /\ Lookup(bundle, m.class) # {}
        /\ m.labels.plugin = AliasOf(m.class) /\ m.labels.env = e /\ m.labels.cluster = c
        /\ m.labels.profile # "" /\ Mapped(m, Clusters[c])
        /\ m.dir = Base(c, e) \o <<AliasOf(m.class)>>
        /\ MissingKeys(RuleOf(m.class), FullConnectConfig(m)) = {}
        /\ \A k \in SensitiveKeysWithMapping(bundle, RuleOf(m.class), FullConnectConfig(m),
                                              MappingOf(files, c, e, m.name)) :
              IsExternalReference(FullConnectConfig(m)[k])
    BY NoComplaints
  <2> QED
    BY <1>1, <1>2, <1>3, <1>4, <2>1
<1>7. /\ x.c = c /\ x.e = e /\ x.name = m.name /\ x.raw = full /\ x.forced = p
      /\ x.mapping = mapping /\ x.annotations = Annotations(<<"update">>, "")
  BY <1>2, <1>3, <1>4, <1>5, <1>6 DEF Again, Request
<1>8. full[Class] = m.class /\ full[Tasks] = m.tasks
      /\ DOMAIN full = {Class, Tasks} \cup DOMAIN m.configs
      /\ \A k \in DOMAIN m.configs \ {Class, Tasks} : full[k] = m.configs[k]
  BY <1>2, FullFields
<1>9. PICK sensitive : sensitive = SensitiveOf(x)
  OBVIOUS
<1>10. \A k \in sensitive : IsExternalReference(full[k])
  BY <1>6, <1>7, <1>8, <1>9 DEF SensitiveOf
<1>11. Sanitized(x) = full
  <2>1. full = [k \in DOMAIN full |-> full[k]]
    BY <1>2 DEF FullConnectConfig
  <2>2. \A k \in DOMAIN full : ~(k \in sensitive \cap DOMAIN mapping.fields /\ ~IsExternalReference(full[k]))
    BY <1>10
  <2> QED
    BY <1>7, <1>9, <2>1, <2>2 DEF Sanitized, Resolve
<1>12. /\ p \in DOMAIN Clusters[c].profiles
       /\ m.ref = Clusters[c].profiles[p].ref /\ m.rest = Clusters[c].profiles[p].rest
  <2>1. ProfileFromCR(m, Clusters[c]) # {}
    <3>1. Cardinality({}) = 0
      BY FS_EmptySet
    <3>2. Cardinality(ProfileFromCR(m, Clusters[c])) = 1
      BY <1>6 DEF Mapped
    <3> QED
      BY <3>1, <3>2
  <2> QED
    BY <1>4, <1>6, <2>1 DEF ProfileFromCR, SameDiscovery
<1>13. ProfileFor(x) = p
  BY <1>6, <1>7 DEF ProfileFor, ResolveConnectProfile
<1>14. TaskMax(full) = m.tasks
  <2>1. m.tasks.kind # "blank" /\ Trim(m.tasks) = m.tasks
    BY DEF Manifest
  <2>2. Get(full, Tasks) = m.tasks
    BY <1>8 DEF Get
  <2> QED
    BY <1>8, <2>1, <2>2 DEF TaskMax
<1>15. Unbuildable(x) \subseteq Overlooked(m)
  <2>1. Get(x.raw, Class) = m.class
    BY <1>7, <1>8 DEF Get
  <2>2. ~Incomplete(x)
    BY <1>6, <1>7, <1>8 DEF Incomplete
  <2>3. ~Unknown(x)
    BY <1>7, <1>12, <1>13 DEF Unknown
  <2>4. Unresolved(x.raw, SensitiveOf(x), x.mapping) = {}
    BY <1>7, <1>9, <1>10 DEF Unresolved
  <2>5. Unreferable(x.raw, SensitiveOf(x), x.mapping, bundle.secretProfiles) = {}
    BY <1>7, <1>9, <1>10 DEF Unreferable
  <2>6. BadTasks(x) => m.tasks \notin Counts
    BY <1>11, <1>14 DEF BadTasks
  <2>7. BadKeys(x) => DOMAIN m.configs \cap InvalidKeys # {}
    BY <1>8, <1>11, KeysAssumption DEF BadKeys, Special
  <2>8. /\ {"override", "installed"} \subseteq Overlooked(m)
        /\ BadTasks(x) => "tasks" \in Overlooked(m)
        /\ BadKeys(x) => "key" \in Overlooked(m)
    BY <2>6, <2>7 DEF Overlooked
  <2>9. Problems(x) \subseteq Overlooked(m)
    BY <2>2, <2>3, <2>4, <2>5, <2>8 DEF Problems
  <2> QED
    BY <1>6, <2>1, <2>9 DEF Unbuildable
<1>16. Built(x) = Renewed(m)
  <2>1. PICK rest : rest = ReadBack(m.rest)
    OBVIOUS
  <2>2. PICK class : class = Trim(m.class)
    OBVIOUS
  <2>3. PICK configs : configs = Normalize(m.configs)
    OBVIOUS
  <2>4. PICK meta : meta = KubernetesName(m.name)
    OBVIOUS
  <2>5. PICK restart : restart = RestartOf(Clusters[c].profiles[p])
    OBVIOUS
  <2>6. PICK notes : notes = Annotations(<<"update">>, "")
    OBVIOUS
  <2>7. Normalize(full) = configs
    <3>1. DOMAIN full \ Special = DOMAIN m.configs \ Special
      BY <1>8 DEF Special
    <3>2. \A k \in DOMAIN m.configs \ Special : full[k] = m.configs[k]
      BY <1>8 DEF Special
    <3> QED
      BY <2>3, <3>1, <3>2 DEF Normalize, Restrict
  <2>8. AliasOf(x.raw[Class]) = alias
    BY <1>1, <1>7, <1>8
  <2>9. Built(x) =
          [dir |-> Base(c, e) \o <<alias>>, meta |-> meta,
           namespace |-> Clusters[c].namespace, name |-> m.name,
           class |-> class, tasks |-> TaskMax(full), configs |-> configs,
           labels |-> [plugin |-> alias, env |-> e, cluster |-> c, profile |-> p],
           ref |-> Clusters[c].profiles[p].ref, rest |-> ReadBack(Clusters[c].profiles[p].rest),
           restart |-> restart, annotations |-> notes]
    BY <1>7, <1>8, <1>11, <1>13, <2>2, <2>4, <2>5, <2>6, <2>7, <2>8, Zenon DEF Built
  <2>10. /\ m.labels = [plugin |-> m.labels.plugin, env |-> m.labels.env,
                        cluster |-> m.labels.cluster, profile |-> m.labels.profile]
         /\ m = [dir |-> m.dir, meta |-> m.meta, namespace |-> m.namespace,
                 name |-> m.name, class |-> m.class, tasks |-> m.tasks, configs |-> m.configs,
                 labels |-> m.labels, ref |-> m.ref, rest |-> m.rest, restart |-> m.restart,
                 annotations |-> m.annotations]
    <3>1. PICK labels : labels = [plugin |-> m.labels.plugin, env |-> m.labels.env,
                                  cluster |-> m.labels.cluster, profile |-> m.labels.profile]
      OBVIOUS
    <3>2. m = [dir |-> m.dir, meta |-> m.meta, namespace |-> m.namespace,
               name |-> m.name, class |-> m.class, tasks |-> m.tasks, configs |-> m.configs,
               labels |-> labels, ref |-> m.ref, rest |-> m.rest, restart |-> m.restart,
               annotations |-> m.annotations]
      BY <3>1, Zenon DEF Manifest
    <3>3. m.labels = labels
      BY <3>2
    <3> QED
      BY <3>1, <3>2, <3>3, Zenon
  <2>11. m.labels = [plugin |-> alias, env |-> e, cluster |-> c, profile |-> p]
    BY <1>4, <1>6, <2>10, Zenon
  <2>12. Renewed(m) =
           [m EXCEPT !.meta = meta, !.class = class, !.configs = configs, !.rest = rest,
                     !.restart = restart, !.annotations = notes]
    BY <1>4, <1>6, <2>1, <2>2, <2>3, <2>4, <2>5, <2>6, Zenon DEF Renewed
  <2>13. Renewed(m) =
           [dir |-> m.dir, meta |-> meta, namespace |-> m.namespace,
            name |-> m.name, class |-> class, tasks |-> m.tasks, configs |-> configs,
            labels |-> m.labels, ref |-> m.ref, rest |-> rest, restart |-> restart,
            annotations |-> notes]
    BY <2>10, <2>12
  <2> QED
    BY <1>6, <1>12, <1>14, <2>1, <2>9, <2>11, <2>13, Zenon
<1> QED
  BY <1>5, <1>15, <1>16

-----------------------------------------------------------------------------
(* What a command writes passes repo-validate.                             *)

\* The class of a manifest finds the rule the manifest was built by, unless the
\* mapping replaces the class.
LEMMA BuiltClass ==
  ASSUME FilesInv, LoadBundle(bundle, files), NEW x, Unbuildable(x) = {}, Fit(x),
         NEW m, m = Built(x)
  PROVE  \/ /\ m.class.kind = "text" /\ Lookup(bundle, m.class) # {}
            /\ AliasOf(m.class) = AliasOf(x.raw[Class])
            /\ RuleOf(m.class) = RuleOf(x.raw[Class])
         \/ Class \in DOMAIN x.mapping.fields /\ Lookup(bundle, m.class) = {}
<1>1. PICK cfg : cfg = Sanitized(x)
  OBVIOUS
<1>2. PICK v : v = x.raw[Class]
  OBVIOUS
<1>3. Class \in DOMAIN x.raw /\ v \in Value /\ v.kind = "text" /\ Lookup(bundle, v) # {}
  BY <1>2, Classed DEF Fit
<1>4. m.class = Trim(cfg[Class]) /\ Class \in DOMAIN cfg
  BY <1>1, <1>3, BuiltFields, ResolveDomain
<1>5. CASE cfg[Class] = v
  <2>1. m.class.kind = "text" /\ Trim(m.class) = Trim(v)
    BY <1>3, <1>4, <1>5, Trims
  <2>2. Lookup(bundle, m.class) = Lookup(bundle, v)
    BY <2>1 DEF Lookup
  <2>3. AliasOf(m.class) = AliasOf(v) /\ RuleOf(m.class) = RuleOf(v)
    BY <2>2 DEF AliasOf, RuleOf
  <2> QED
    BY <1>2, <1>3, <2>1, <2>2, <2>3
<1>6. CASE cfg[Class] # v
  <2>1. Class \in DOMAIN x.mapping.fields /\ cfg[Class] = ReferenceFor(x.mapping.fields[Class], bundle.secretProfiles)
    BY <1>1, <1>2, <1>4, <1>6, Resolved
  <2>2. m.class.kind \notin {"text", "blank"} /\ Trim(m.class) = m.class
    <3>1. IsReference(m.class) /\ Trim(m.class) = m.class
      BY <1>4, <2>1, Trims
    <3> QED
      BY <3>1 DEF IsReference
  <2>3. Lookup(bundle, m.class) = {}
    BY <2>2, RegistryAssumption DEF Lookup, FilesInv
  <2> QED
    BY <2>1, <2>3
<1> QED
  BY <1>5, <1>6

\* The number of tasks is no secret, or it was left out.
LEMMA BuiltTasks ==
  ASSUME NEW x, Unbuildable(x) = {}, Tasks \in SensitiveOf(x)
  PROVE  Tasks \in DOMAIN x.mapping.fields
<1>1. PICK cfg : cfg = Sanitized(x)
  OBVIOUS
<1>2. SUFFICES ASSUME Tasks \notin DOMAIN x.mapping.fields PROVE FALSE
  OBVIOUS
<1>3. Tasks \in DOMAIN x.raw /\ IsExternalReference(x.raw[Tasks])
  <2>1. "plaintext" \notin Problems(x)
    BY DEF Unbuildable
  <2>2. Unresolved(x.raw, SensitiveOf(x), x.mapping) = {}
    BY <2>1 DEF Problems
  <2>3. Tasks \in DOMAIN x.raw
    BY <1>2 DEF SensitiveOf, SensitiveKeysWithMapping, SensitiveKeys
  <2> QED
    BY <1>2, <2>2, <2>3 DEF Unresolved
<1>4. cfg[Tasks] = x.raw[Tasks] /\ Tasks \in DOMAIN cfg
  BY <1>1, <1>3 DEF Sanitized, Resolve
<1>5. TaskMax(cfg) \notin Counts
  <2>1. Get(cfg, Tasks) = x.raw[Tasks]
    BY <1>4 DEF Get
  <2>2. TaskMax(cfg) = Trim(x.raw[Tasks])
    BY <1>3, <1>4, <2>1 DEF TaskMax, IsExternalReference
  <2> QED
    BY <1>3, <2>2 DEF Trim, IsExternalReference, Counts, V
<1>6. "tasks" \in Problems(x)
  BY <1>1, <1>5 DEF Problems, BadTasks
<1> QED
  BY <1>6 DEF Unbuildable

LEMMA BuiltProfile ==
  ASSUME FilesInv, LoadBundle(bundle, files), NEW x, Unbuildable(x) = {},
         NEW m, m = Built(x), ResolveTarget(bundle, x.c, x.e)
  PROVE  LET p == m.labels.profile IN
         /\ p # "" /\ p \in DOMAIN Clusters[x.c].profiles
         /\ Clusters[x.c].profiles[p].rest # "empty" => Mapped(m, Clusters[x.c])
<1>1. PICK p : p = ProfileFor(x)
  OBVIOUS
<1>2. m.labels.profile = p
  BY <1>1, BuiltFields
<1>3. p # ""
  BY <1>1 DEF ProfileFor, ResolveConnectProfile, DefaultOf
<1>4. p \in DOMAIN Clusters[x.c].profiles
  <2>1. "profile" \notin Problems(x)
    BY DEF Unbuildable
  <2> QED
    BY <1>1, <2>1 DEF Problems, Unknown
<1>5. ASSUME Clusters[x.c].profiles[p].rest # "empty"
      PROVE  Mapped(m, Clusters[x.c])
  <2>1. m.ref = Clusters[x.c].profiles[p].ref /\ m.rest = ReadBack(Clusters[x.c].profiles[p].rest)
    BY <1>1 DEF Built
  <2>2. m.rest = Clusters[x.c].profiles[p].rest
    BY <1>5, <2>1 DEF ReadBack
  <2>3. ProfileFromCR(m, Clusters[x.c]) = {p}
    BY <1>2, <1>3, <1>4, <2>1, <2>2 DEF ProfileFromCR, SameDiscovery
  <2>4. Cardinality({p}) = 1
    BY FS_Singleton
  <2> QED
    BY <2>3, <2>4 DEF Mapped
<1> QED
  BY <1>2, <1>3, <1>4, <1>5

\* What a built manifest says under the keys of its configuration.
LEMMA BuiltValue ==
  ASSUME FilesInv, LoadBundle(bundle, files), NEW x, Unbuildable(x) = {}, Fit(x),
         NEW m, m = Built(x), NEW k \in DOMAIN FullConnectConfig(m) \ {Class, Tasks}
  PROVE  /\ k \in DOMAIN x.raw
         /\ k \in DOMAIN Sanitized(x)
         /\ FullConnectConfig(m)[k] = Sanitized(x)[k]
<1>1. PICK cfg : cfg = Sanitized(x)
  OBVIOUS
<1>2. Formed(m)
  BY BuiltFormed
<1>3. m.configs = Normalize(cfg) /\ DOMAIN cfg = DOMAIN x.raw
  BY <1>1, BuiltFields, ResolveDomain
<1>4. k \in DOMAIN m.configs /\ FullConnectConfig(m)[k] = m.configs[k]
  BY <1>2, FullFields DEF Formed
<1>5. k \in DOMAIN cfg /\ m.configs[k] = cfg[k]
  <2>1. k \in DOMAIN Normalize(cfg)
    BY <1>3, <1>4
  <2>2. Normalize(cfg)[k] = cfg[k]
    BY <2>1, NormalizedKeys
  <2>3. DOMAIN Normalize(cfg) \subseteq DOMAIN cfg
    BY NormalizedKeys
  <2> QED
    BY <1>3, <2>1, <2>2, <2>3
<1> QED
  BY <1>1, <1>3, <1>4, <1>5

LEMMA BuiltFull ==
  ASSUME FilesInv, LoadBundle(bundle, files), NEW x, Unbuildable(x) = {}, Fit(x),
         NEW m, m = Built(x)
  PROVE  LET full == FullConnectConfig(m) IN
         /\ DOMAIN full = {Class, Tasks} \cup (DOMAIN x.raw \ Special)
         /\ full[Class] = m.class /\ full[Tasks] = m.tasks /\ m.tasks \in Counts
<1>1. PICK cfg : cfg = Sanitized(x)
  OBVIOUS
<1>2. Formed(m)
  BY BuiltFormed
<1>3. m.configs = Normalize(cfg) /\ DOMAIN cfg = DOMAIN x.raw
  BY <1>1, BuiltFields, ResolveDomain
<1>4. DOMAIN m.configs = DOMAIN x.raw \ Special
  BY <1>3, NormalizedKeys
<1>5. m.tasks \in Counts
  BY <1>2 DEF Formed
<1> QED
  BY <1>2, <1>4, <1>5, FullFields DEF Formed, Special

LEMMA ToleratedKinds ==
  ASSUME NEW m, NEW fields, fields = MappingFor(m).fields,
         NEW profile, profile = Clusters[m.labels.cluster].profiles[m.labels.profile],
         NEW rule, rule = bundle.plugins[m.labels.plugin]
  PROVE  /\ ~(DOMAIN fields \subseteq DOMAIN FullConnectConfig(m)) => "mapping" \in Tolerated(m)
         /\ "name" \in rule.required => "required" \in Tolerated(m)
         /\ profile.rest = "empty" => "profile" \in Tolerated(m)
         /\ Class \in DOMAIN fields => "class" \in Tolerated(m)
         /\ Tasks \in DOMAIN fields => "plaintext" \in Tolerated(m)
         /\ Tasks \in rule.sensitive \cup bundle.generic /\ m.tasks = V("text", "1") =>
              "plaintext" \in Tolerated(m)
         /\ (\E k \in DOMAIN fields : Mangles(fields[k], bundle.secretProfiles)) =>
              "plaintext" \in Tolerated(m)
         /\ (\E y \in git' \ {m} : y.name = m.name \/ y.meta = m.meta) =>
              {"twice", "metadata"} \subseteq Tolerated(m)
         /\ Nested(m) => {"twice", "metadata"} \subseteq Tolerated(m)
BY DEF Tolerated

\* The complaints about the content of a new manifest.
LEMMA ContentTolerated ==
  ASSUME FilesInv, LoadBundle(bundle, files), NEW x, Unbuildable(x) = {}, Fit(x),
         NEW m, m = Built(x), Lookup(bundle, m.class) # {}
  PROVE  OfContent(x.c, x.e, m) \subseteq Tolerated(m)
<1>1. PICK alias : alias = AliasOf(m.class)
  OBVIOUS
<1>2. PICK rule : rule = RuleOf(m.class)
  OBVIOUS
<1>3. PICK full : full = FullConnectConfig(m)
  OBVIOUS
<1>4. PICK mapping : mapping = MappingOf(files, x.c, x.e, m.name)
  OBVIOUS
<1>5. PICK fields : fields = mapping.fields
  OBVIOUS
<1>6. PICK cfg : cfg = Sanitized(x)
  OBVIOUS
<1>7. /\ m.labels.plugin = alias /\ m.labels.env = x.e /\ m.labels.cluster = x.c /\ m.name = x.name
      /\ alias = AliasOf(x.raw[Class]) /\ rule = RuleOf(x.raw[Class]) /\ m.class.kind = "text"
  BY <1>1, <1>2, BuiltClass, BuiltFields
<1>8. /\ fields = x.mapping.fields /\ fields = MappingFor(m).fields
      /\ rule = bundle.plugins[m.labels.plugin]
  <2>1. fields = MappingFor(m).fields
    BY <1>4, <1>5, <1>7 DEF MappingFor
  <2>2. fields = x.mapping.fields
    BY <1>4, <1>5, <1>7 DEF Fit
  <2>3. rule = bundle.plugins[m.labels.plugin]
    BY <1>2, <1>1, <1>7 DEF RuleOf, AliasOf
  <2> QED
    BY <2>1, <2>2, <2>3
<1>9. /\ DOMAIN full = {Class, Tasks} \cup (DOMAIN x.raw \ Special)
      /\ full[Class] = m.class /\ full[Tasks] = m.tasks /\ m.tasks \in Counts
      /\ \A k \in DOMAIN full \ {Class, Tasks} :
           k \in DOMAIN x.raw /\ k \in DOMAIN cfg /\ full[k] = cfg[k]
  <2>1. /\ DOMAIN FullConnectConfig(m) = {Class, Tasks} \cup (DOMAIN x.raw \ Special)
        /\ FullConnectConfig(m)[Class] = m.class /\ FullConnectConfig(m)[Tasks] = m.tasks
        /\ m.tasks \in Counts
    BY BuiltFull
  <2>2. \A k \in DOMAIN FullConnectConfig(m) \ {Class, Tasks} :
          /\ k \in DOMAIN x.raw /\ k \in DOMAIN Sanitized(x)
          /\ FullConnectConfig(m)[k] = Sanitized(x)[k]
    <3> SUFFICES ASSUME NEW k \in DOMAIN FullConnectConfig(m) \ {Class, Tasks}
                 PROVE  /\ k \in DOMAIN x.raw
                        /\ k \in DOMAIN Sanitized(x)
                        /\ FullConnectConfig(m)[k] = Sanitized(x)[k]
      OBVIOUS
    <3> QED
      BY BuiltValue
  <2> QED
    BY <1>3, <1>6, <2>1, <2>2
<1>10. ResolveTarget(bundle, x.c, x.e) /\ Typed(x.raw)
  BY DEF Fit
<1>11. m.tasks.kind = "text"
  BY <1>9 DEF Counts, V
<1>12. \A k \in DOMAIN cfg :
         /\ k \in DOMAIN x.raw
         /\ \/ cfg[k] = x.raw[k]
            \/ /\ k \in SensitiveOf(x) /\ k \in DOMAIN fields
               /\ ~IsExternalReference(x.raw[k])
               /\ cfg[k] = ReferenceFor(fields[k], bundle.secretProfiles)
         /\ cfg[k] = x.raw[k] \/ IsReference(cfg[k])
         /\ k \in SensitiveOf(x) /\ k \in DOMAIN fields => IsReference(cfg[k])
  BY <1>6, <1>8, Resolved
<1>13. \A k \in SensitiveOf(x) : IsExternalReference(x.raw[k]) \/ k \in DOMAIN fields
  <2>1. "plaintext" \notin Problems(x)
    BY DEF Unbuildable
  <2>2. Unresolved(x.raw, SensitiveOf(x), x.mapping) = {}
    BY <2>1 DEF Problems
  <2> QED
    BY <1>8, <2>2 DEF Unresolved
<1>14. SensitiveOf(x) = DOMAIN x.raw \cap (rule.sensitive \cup bundle.generic \cup DOMAIN fields)
  BY <1>7, <1>8 DEF SensitiveOf, SensitiveKeysWithMapping, SensitiveKeys
<1>15. "label" \notin OfContent(x.c, x.e, m) /\ "path" \notin OfContent(x.c, x.e, m)
  <2>1. m.dir = Base(x.c, x.e) \o <<alias>>
    BY <1>7 DEF Built
  <2> QED
    BY <1>1, <1>7, <2>1 DEF OfContent
<1>16. "profile" \in OfContent(x.c, x.e, m) => "profile" \in Tolerated(m)
  <2>1. ASSUME "profile" \in OfContent(x.c, x.e, m)
        PROVE  Clusters[m.labels.cluster].profiles[m.labels.profile].rest = "empty"
    <3>1. ~Mapped(m, Clusters[x.c]) \/ m.labels.profile = ""
      BY <2>1 DEF OfContent
    <3> QED
      BY <1>7, <1>10, <3>1, BuiltProfile
  <2> QED
    BY <2>1, ToleratedKinds
<1>17. "required" \in OfContent(x.c, x.e, m) => "required" \in Tolerated(m)
  <2>1. ASSUME "required" \in OfContent(x.c, x.e, m)
        PROVE  "name" \in rule.required
    <3>1. MissingKeys(rule, full) # {}
      BY <1>2, <1>3, <2>1 DEF OfContent
    <3>2. PICK k \in rule.required : Get(full, k).kind = "blank"
      BY <3>1 DEF MissingKeys
    <3>3. Get(x.raw, k).kind # "blank"
      <4>1. "required" \notin Problems(x)
        BY DEF Unbuildable
      <4> QED
        BY <1>7, <3>2, <4>1 DEF Problems, Incomplete, MissingKeys
    <3>4. k \in DOMAIN x.raw /\ x.raw[k].kind # "blank"
      BY <3>3 DEF Get, Blank, V
    <3>5. k # Class /\ k # Tasks
      BY <1>7, <1>9, <1>11, <3>2 DEF Get
    <3>6. SUFFICES ASSUME k # "name" PROVE FALSE
      BY <3>2
    <3>7. k \in DOMAIN full /\ k \in DOMAIN cfg /\ full[k] = cfg[k]
      BY <1>9, <3>4, <3>5, <3>6 DEF Special
    <3>8. cfg[k].kind # "blank"
      BY <1>12, <3>4, <3>7 DEF IsReference
    <3> QED
      BY <3>2, <3>7, <3>8 DEF Get
  <2> QED
    BY <1>8, <2>1, ToleratedKinds
<1>18. "mapping" \in OfContent(x.c, x.e, m) => "mapping" \in Tolerated(m)
  <2>1. ASSUME "mapping" \in OfContent(x.c, x.e, m)
        PROVE  ~(DOMAIN fields \subseteq DOMAIN full)
    BY <1>3, <1>4, <1>5, <2>1 DEF OfContent, MappedInVain
  <2> QED
    BY <1>3, <1>8, <2>1, ToleratedKinds
<1>19. "plaintext" \in OfContent(x.c, x.e, m) => "plaintext" \in Tolerated(m)
  <2>1. SUFFICES ASSUME "plaintext" \in OfContent(x.c, x.e, m), "plaintext" \notin Tolerated(m)
                 PROVE  FALSE
    OBVIOUS
  <2>2. PICK k \in SensitiveKeysWithMapping(bundle, rule, full, mapping) : ~IsExternalReference(full[k])
    BY <1>2, <1>3, <1>4, <2>1 DEF OfContent
  <2>3. k \in DOMAIN full /\ k \in rule.sensitive \cup bundle.generic \cup DOMAIN fields
    BY <1>5, <2>2 DEF SensitiveKeysWithMapping, SensitiveKeys
  <2>4. /\ Tasks \notin DOMAIN fields
        /\ Tasks \in rule.sensitive \cup bundle.generic => m.tasks # V("text", "1")
        /\ \A l \in DOMAIN fields : ~Mangles(fields[l], bundle.secretProfiles)
    BY <1>8, <2>1, ToleratedKinds
  <2>5. CASE k = Tasks
    <3>1. Tasks \in DOMAIN x.raw
      <4>1. m.tasks = TaskMax(cfg)
        BY <1>6, BuiltFields
      <4>2. DOMAIN cfg = DOMAIN x.raw
        BY <1>6, ResolveDomain
      <4> QED
        BY <2>3, <2>4, <2>5, <4>1, <4>2 DEF TaskMax, Get, Blank, V
    <3>2. Tasks \in SensitiveOf(x)
      BY <1>14, <2>3, <2>5, <3>1
    <3> QED
      BY <1>8, <2>4, <3>2, BuiltTasks
  <2>6. CASE k = Class
    <3>1. Class \in DOMAIN x.raw /\ x.raw[Class].kind = "text" /\ Class \in DOMAIN cfg
      BY <1>6, <1>10, Classed, ResolveDomain
    <3>2. Class \in SensitiveOf(x)
      BY <1>14, <2>3, <2>6, <3>1
    <3>3. IsReference(cfg[Class])
      BY <1>12, <1>13, <3>1, <3>2 DEF IsExternalReference
    <3>4. cfg[Class] \in Value /\ m.class = Trim(cfg[Class])
      BY <1>6, <3>1, ResolvedTyped, BuiltFields DEF Typed
    <3> QED
      BY <1>7, <3>3, <3>4, Values DEF IsReference
  <2>7. CASE k # Tasks /\ k # Class
    <3>1. k \in DOMAIN x.raw /\ k \in DOMAIN cfg /\ full[k] = cfg[k]
      BY <1>9, <2>3, <2>7
    <3>2. k \in SensitiveOf(x)
      BY <1>14, <2>3, <3>1
    <3>3. ~IsExternalReference(x.raw[k]) /\ k \in DOMAIN fields
      BY <1>12, <1>13, <2>2, <3>1, <3>2
    <3>4. cfg[k] = ReferenceFor(fields[k], bundle.secretProfiles)
      BY <1>6, <1>8, <3>1, <3>2, <3>3 DEF Sanitized, Resolve
    <3> QED
      BY <2>2, <2>4, <3>1, <3>3, <3>4 DEF ReferenceFor, IsExternalReference, V
  <2> QED
    BY <2>5, <2>6, <2>7
<1> QED
  BY <1>15, <1>16, <1>17, <1>18, <1>19 DEF OfContent

-----------------------------------------------------------------------------
(* The theorems.                                                           *)

\* What commands and people leave of the configuration, the manifests and the last result.
THEOREM Invariance == Spec => []IInv
<1>1. Init => IInv
  BY BoundsAssumption DEF Init, IInv, FilesInv, BoundsInv, GitInv, Apart, PassInv, MappingsResolve, Result
<1>2. IInv /\ [Next]_vars => IInv'
  <2>1. CASE IInv /\ Next
    <3>1. FilesInv' /\ MappingsResolve' /\ BoundsInv'
      BY <2>1, Steps, Counters DEF IInv, BoundsInv, GitInv
    <3> QED
      BY <2>1, <3>1, GitStep, PassStep DEF IInv
  <2>2. CASE IInv /\ UNCHANGED vars
    <3>1. PassInv'
      BY <2>2, SameComplaints DEF vars, IInv, PassInv
    <3> QED
      BY <2>2, <3>1 DEF vars, IInv, FilesInv, BoundsInv, GitInv, MappingsResolve
  <2> QED
    BY <2>1, <2>2
<1> QED
  BY <1>1, <1>2, PTL DEF Spec

\* A mapping that the configuration accepts never fails in the resolver
\* (mappings_validate.go against resolver.go).
THEOREM MappingsAlwaysResolve == Spec => []MappingsResolve
<1>1. IInv => MappingsResolve
  BY DEF IInv
<1> QED
  BY <1>1, Invariance, PTL

\* A step that writes a manifest is one of Next.
LEMMA WritesStep ==
  ASSUME [Next]_vars, NEW m \in Writes
  PROVE  /\ Next /\ m \in git' \ git
         /\ last'.op \in {"create", "update", "adopt", "migrate"}
BY DEF Writes, vars

\* A repository that passes repo-validate can be built again from itself
\* (repository_validate.go against build.go).
THEOREM PassedIsRebuildable == Spec => []PassMeansRebuildable
<1>1. ASSUME IInv
      PROVE  PassMeansRebuildable
  <2>1. TypeOK
    <3>1. ASSUME NEW m \in git
          PROVE  Manifest(m) /\ At(m) = {m}
      BY <1>1 DEF IInv, GitInv, Apart, At
    <3> QED
      BY <1>1, <3>1 DEF IInv, FilesInv, BoundsInv, TypeOK
  <2>2. ASSUME last.op = "repo-validate", last.status = "succeeded", NEW t \in Checked
        PROVE  /\ Unbuildable(Again(t[3])) \subseteq Overlooked(t[3])
               /\ Built(Again(t[3])) = Renewed(t[3])
    <3>1. t[3] \in git
      BY <2>2 DEF Checked, Loaded
    <3> QED
      BY <1>1, <2>2, <3>1, PassedRebuilds DEF IInv, GitInv, PassInv, Passes
  <2> QED
    BY <2>1, <2>2 DEF PassMeansRebuildable
<1> QED
  BY <1>1, Invariance, PTL

\* What a step writes was built from a fitting request.
LEMMA SoundWrites ==
  ASSUME FilesInv, GitInv, [Next]_vars, NEW m \in Writes
  PROVE  /\ Sound(m) /\ m \in git' /\ LoadBundle(bundle, files)
         /\ UNCHANGED <<bundle, files>>
<1>1. Next /\ m \in git' \ git /\ last'.op \in Commands
  BY WritesStep DEF Commands
<1>2. last'.op \notin {"edit", "repo-validate"}
  BY <1>1 DEF Commands
<1>3. /\ LoadBundle(bundle, files) /\ UNCHANGED <<bundle, files>>
      /\ Step(last'.op)
  BY <1>1, <1>2, Steps, ValidateStep DEF GitInv
<1> QED
  BY <1>1, <1>3 DEF Step

\* No command writes a plaintext under a sensitive key (build.go, resolver.go).
THEOREM PlaintextNeverWritten == Spec => NoPlaintext
<1> DEFINE sensitive(m) ==
      LET rule == bundle.plugins[m.labels.plugin] IN
      rule.sensitive \cup bundle.generic \cup DOMAIN MappingFor(m).fields
<1>1. ASSUME FilesInv, GitInv, [Next]_vars, NEW m \in Writes, NEW k \in sensitive(m) \cap DOMAIN m.configs
      PROVE  IsReference(m.configs[k])
  <2>1. Sound(m)
    BY <1>1, WritesStep, SoundWrites
  <2>2. PICK x : m = Built(x) /\ Unbuildable(x) = {} /\ Fit(x)
    BY <2>1 DEF Sound
  <2>3. MappingFor(m).fields = x.mapping.fields
    BY <2>2, BuiltFields DEF MappingFor, Fit
  <2> QED
    BY <1>1, <2>2, <2>3, BuiltReferences
<1>2. FilesInv /\ GitInv /\ [Next]_vars =>
        [\A m \in Writes : \A k \in sensitive(m) \cap DOMAIN m.configs : IsReference(m.configs[k])]_vars
  BY <1>1
<1>3. IInv => FilesInv /\ GitInv
  BY DEF IInv
<1> QED
  BY <1>2, <1>3, Invariance, PTL DEF Spec, NoPlaintext

\* No whole reference of the source survives a migration (migrate.go).
THEOREM MigrationRepoints == Spec => MigrateRepoints
<1>1. FilesInv /\ GitInv /\ [Next]_vars =>
        [\A m \in Writes : last'.op = "migrate" =>
            \A k \in DOMAIN m.configs : IsExternalReference(m.configs[k]) =>
              /\ k \in DOMAIN MappingFor(m).fields
              /\ m.configs[k].of = MappingFor(m).fields[k].of]_vars
  BY WritesStep, Steps DEF GitInv
<1>2. IInv => FilesInv /\ GitInv
  BY DEF IInv
<1> QED
  BY <1>1, <1>2, Invariance, PTL DEF Spec, MigrateRepoints

\* What CFK takes over is what ran (adopt.go, transform.go).
THEOREM AdoptionKeepsRunning == Spec => AdoptKeepsRunning
<1> DEFINE Same(m, l) ==
             LET was == Effective(l.config)
                 now == Effective(FullConnectConfig(m)) IN
             /\ l.name = m.name /\ l.cluster = m.labels.cluster /\ l.profile = m.labels.profile
             /\ DOMAIN now = DOMAIN was
             /\ \A k \in DOMAIN now : now[k] = was[k] \/ (IsReference(now[k]) /\ ~IsExternalReference(was[k]))
<1>1. ASSUME FilesInv, GitInv, [Next]_vars, NEW m \in Writes, last'.op = "adopt"
      PROVE  \E l \in Live : Same(m, l)
  <2> DEFINE From(l, x) == /\ m = Built(x) /\ Unbuildable(x) = {}
                           /\ x.raw = l.config /\ x.name = l.name
                           /\ x.c = l.cluster /\ x.forced = l.profile
  <2>0. PICK l \in Live : \E x : From(l, x)
    BY <1>1, WritesStep, Steps DEF GitInv
  <2>1. PICK x : From(l, x)
    BY <2>0
  <2>2. m.name = l.name /\ m.labels.cluster = l.cluster
    BY <2>1, BuiltFields
  <2>3. m.labels.profile = l.profile
    <3>1. x.forced # ""
      BY <2>1, LiveAssumption
    <3>2. ProfileFor(x) = x.forced
      BY <3>1 DEF ProfileFor, ResolveConnectProfile
    <3> QED
      BY <2>1, <3>2, BuiltFields
  <2>4. /\ DOMAIN Effective(FullConnectConfig(m)) = DOMAIN Effective(l.config)
        /\ \A k \in DOMAIN Effective(FullConnectConfig(m)) :
             LET was == Effective(l.config)
                 now == Effective(FullConnectConfig(m)) IN
             now[k] = was[k] \/ (IsReference(now[k]) /\ ~IsExternalReference(was[k]))
    BY <2>1, AdoptedSame
  <2> QED
    BY <2>2, <2>3, <2>4
<1>2. FilesInv /\ GitInv /\ [Next]_vars =>
        [\A m \in Writes : last'.op = "adopt" => \E l \in Live : Same(m, l)]_vars
  BY <1>1
<1>3. IInv => FilesInv /\ GitInv
  BY DEF IInv
<1> QED
  BY <1>2, <1>3, Invariance, PTL DEF Spec, AdoptKeepsRunning

\* Whatever a command writes passes repo-validate, but for known reasons
\* (build.go against repository_validate.go).
THEOREM WrittenIsValid == Spec => WrittenValidates
<1>1. ASSUME FilesInv, GitInv, [Next]_vars, NEW m \in Writes
      PROVE  Complaints(m.labels.cluster, m.labels.env, m)' \subseteq Tolerated(m)
  <2>1. /\ Sound(m) /\ m \in git' /\ LoadBundle(bundle, files)
        /\ UNCHANGED <<bundle, files>>
    BY <1>1, SoundWrites
  <2>2. PICK x : m = Built(x) /\ Unbuildable(x) = {} /\ Fit(x)
    BY <2>1 DEF Sound
  <2>3. m.labels.cluster = x.c /\ m.labels.env = x.e /\ m.name = x.name
    BY <2>2, BuiltFields
  <2>4. m.namespace = Clusters[x.c].namespace /\ m.name \in EnvOf(x.c, x.e).names
    BY <2>2, <2>3 DEF Built, Fit
  <2>5. Clusters' = Clusters /\ Targets' = Targets
    BY <2>1 DEF Clusters, Targets
  <2>6. EnvOf(x.c, x.e)' = EnvOf(x.c, x.e) /\ \A t, u : SameMeta(t, u)' = SameMeta(t, u)
    BY <2>5 DEF EnvOf, SameMeta
  <2>7. OfContent(x.c, x.e, m)' = OfContent(x.c, x.e, m)
    BY <1>1, <2>1, SameContent
  <2>8. ASSUME NEW t \in Checked', t # <<x.c, x.e, m>>, SameName(t, <<x.c, x.e, m>>) \/ SameMeta(t, <<x.c, x.e, m>>)
        PROVE  {"twice", "metadata"} \subseteq Tolerated(m)
    <3>1. PICK u \in Targets : /\ ResolveTarget(bundle, u[1], u[2])
                               /\ t[1] = u[1] /\ t[2] = u[2] /\ t = <<u[1], u[2], t[3]>>
                               /\ t[3] \in git' /\ Below(Base(u[1], u[2]), t[3])
      BY <2>1, <2>5, <2>8 DEF Checked, Loaded, Base
    <3>2. CASE t[3] # m
      <4>1. t[3].name = m.name \/ t[3].meta = m.meta
        BY <2>8 DEF SameName, SameMeta
      <4> QED
        BY <3>1, <3>2, <4>1, ToleratedKinds
    <3>3. CASE t[3] = m
      <4>1. u = <<u[1], u[2]>>
        BY <3>1 DEF Targets
      <4>2. u # Home(m)
        BY <2>3, <2>8, <3>1, <3>3 DEF Home
      <4>3. Nested(m)
        BY <3>1, <3>3, <4>2 DEF Nested
      <4> QED
        BY <4>3, ToleratedKinds
    <3> QED
      BY <3>2, <3>3
  <2>9. CASE Lookup(bundle, m.class) = {}
    <3>1. Class \in DOMAIN MappingFor(m).fields
      BY <2>1, <2>2, <2>3, <2>9, <1>1, BuiltClass DEF Fit, MappingFor
    <3>2. "class" \in Tolerated(m)
      BY <3>1, ToleratedKinds
    <3> QED
      BY <2>1, <2>3, <2>4, <2>5, <2>6, <2>8, <2>9, <3>2 DEF Complaints, SameName
  <2>10. CASE Lookup(bundle, m.class) # {}
    <3>1. OfContent(x.c, x.e, m) \subseteq Tolerated(m)
      BY <1>1, <2>1, <2>2, <2>10, ContentTolerated
    <3> QED
      BY <2>1, <2>3, <2>4, <2>5, <2>6, <2>7, <2>8, <2>10, <3>1 DEF Complaints, SameName
  <2> QED
    BY <2>9, <2>10
<1>2. FilesInv /\ GitInv /\ [Next]_vars =>
        [\A m \in Writes : Complaints(m.labels.cluster, m.labels.env, m)' \subseteq Tolerated(m)]_vars
  BY <1>1
<1>3. IInv => FilesInv /\ GitInv
  BY DEF IInv
<1> QED
  BY <1>2, <1>3, Invariance, PTL DEF Spec, WrittenValidates
=============================================================================
