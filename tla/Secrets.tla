------------------------------- MODULE Secrets -------------------------------
(***************************************************************************)
(* Configuration values and what decides that one of them is a secret: the *)
(* plugin registry (registry/registry.go), the secret mappings and their   *)
(* validation (config/mappings_validate.go) and the resolver that puts a   *)
(* reference in the place of a plaintext (secret/resolver.go).             *)
(*                                                                         *)
(* A value is not spelled out. What the code tells apart is its kind:      *)
(*   text         nothing special          blank    empty after TrimSpace  *)
(*   external     ${file:..}, ${secret:..} or ${env:..} and nothing else   *)
(*   mangled      such a reference with a brace or a break inside the path *)
(*   foreign      a reference of another provider: ${vault:..}             *)
(*   within       a reference inside a text: jdbc:${file:..}@host          *)
(*   placeholder  what MIGRATE puts into a field it is about to map        *)
(* together with what it speaks of (a class, a number, an environment) and *)
(* whether there is white space around it.                                 *)
(***************************************************************************)
EXTENDS FiniteSets, Functions

CONSTANT Things   \* what a text or a reference can speak of

Kinds == {"text", "blank", "external", "mangled", "foreign", "within", "placeholder"}
Value == [kind : Kinds, of : Things, pad : BOOLEAN]

V(kind, of)    == [kind |-> kind, of |-> of, pad |-> FALSE]
Trim(v)        == [v EXCEPT !.pad = FALSE]
Blank          == V("blank", CHOOSE t \in Things : TRUE)
Get(cfg, key)  == IF key \in DOMAIN cfg THEN cfg[key] ELSE Blank

IsExternalReference(v) == v.kind = "external"
IsReference(v)         == v.kind \in {"external", "mangled", "foreign"}

-----------------------------------------------------------------------------
(* The registry: r.plugins maps an alias to its rule, r.generic holds the  *)
(* keys that the generic patterns match; exact names and patterns of a     *)
(* plugin are one set, sensitive.                                          *)

\* Classes are kept as they are written, and looked up trimmed.
Lookup(r, class) == {a \in DOMAIN r.plugins : Trim(class) \in r.plugins[a].classes}

MissingKeys(rule, cfg) == {k \in rule.required : Get(cfg, k).kind = "blank"}

SensitiveKeys(r, rule, cfg) == DOMAIN cfg \cap (rule.sensitive \cup r.generic)

SensitiveKeysWithMapping(r, rule, cfg, mapping) ==
    SensitiveKeys(r, rule, cfg) \cup (DOMAIN mapping.fields \cap DOMAIN cfg)

\* The warnings that go with it: mapped fields the configuration does not have.
MappedInVain(cfg, mapping) == DOMAIN mapping.fields \ DOMAIN cfg

-----------------------------------------------------------------------------
(* A mapped field: a literal reference, or a key of a mounted secret. Its  *)
(* names are given or not. A path must be absolute and clean and a file    *)
(* name single, but either may contain a brace, which no rule forbids. A   *)
(* secret profile has a mount root and a default file under the same       *)
(* rules, only that a line break may be in the default file as well.       *)

Paths     == {"none", "clean", "relative", "brace"}
FileNames == {"none", "clean", "unclean", "brace"}
Field == [literal : {"none"} \cup Kinds, profile : STRING, secretName : BOOLEAN,
          secretKey : BOOLEAN, fileName : FileNames, mountPath : Paths, of : Things]

ValidSecretProfile(p) == p.mountRoot # "relative" /\ p.defaultFile # "unclean"

ProfileOf(f) == IF f.profile = "" THEN "mounted-file" ELSE f.profile

ValidLiteral(f) ==
    /\ f.literal = "external"
    /\ ~f.secretName /\ ~f.secretKey /\ f.fileName = "none" /\ f.mountPath = "none"

ValidMounted(f, profiles) == ProfileOf(f) \in DOMAIN profiles /\ f.secretKey

\* Mutant of ValidField: the secret of a field may be left out.
ValidFieldUnnamed(f, profiles) ==
    IF f.literal # "none" THEN ValidLiteral(f)
    ELSE /\ ValidMounted(f, profiles)
         /\ IF f.mountPath = "none" THEN f.fileName # "unclean"
            ELSE f.mountPath # "relative" /\ ~f.secretName /\ f.fileName = "none"

ValidField(f, profiles) ==
    IF f.literal # "none" THEN ValidLiteral(f)
    ELSE /\ ValidMounted(f, profiles)
         /\ IF f.mountPath = "none" THEN f.secretName /\ f.fileName # "unclean"
            ELSE f.mountPath # "relative" /\ ~f.secretName /\ f.fileName = "none"

\* The resolver refuses by its own rules, which are not those of the validation.
Refers(f, profiles) ==
    IF f.literal # "none"
    THEN f.literal = "external"
    ELSE /\ ProfileOf(f) \in DOMAIN profiles
         /\ f.secretKey
         /\ f.mountPath = "none" => f.secretName

\* What the path of the reference is put together from: the mount path, or else the root
\* of the profile and the file of the field, of the profile, or the default one.
PathParts(f, p) ==
    IF f.mountPath # "none" THEN {f.mountPath}
    ELSE {p.mountRoot, IF f.fileName # "none" THEN f.fileName ELSE p.defaultFile}

\* A brace in it makes a reference that no pattern recognises any more.
Mangles(f, profiles) ==
    f.literal = "none" /\ "brace" \in PathParts(f, profiles[ProfileOf(f)])

ReferenceFor(f, profiles) ==
    V(IF Mangles(f, profiles) THEN "mangled" ELSE "external", f.of)

\* Resolve: what is already a reference stays, the rest needs a mapping.
Unresolved(cfg, sensitive, mapping) ==
    {k \in sensitive : ~IsExternalReference(cfg[k]) /\ k \notin DOMAIN mapping.fields}

Unreferable(cfg, sensitive, mapping, profiles) ==
    {k \in sensitive : /\ ~IsExternalReference(cfg[k])
                       /\ k \in DOMAIN mapping.fields
                       /\ ~Refers(mapping.fields[k], profiles)}

\* Mutant of Resolve: anything that looks like a reference stays.
ResolveLoosely(cfg, sensitive, mapping, profiles) ==
    [k \in DOMAIN cfg |->
        IF k \in sensitive \cap DOMAIN mapping.fields /\ ~IsReference(cfg[k])
        THEN ReferenceFor(mapping.fields[k], profiles) ELSE cfg[k]]

Resolve(cfg, sensitive, mapping, profiles) ==
    [k \in DOMAIN cfg |->
        IF k \in sensitive \cap DOMAIN mapping.fields /\ ~IsExternalReference(cfg[k])
        THEN ReferenceFor(mapping.fields[k], profiles) ELSE cfg[k]]
=============================================================================
