------------------------------- MODULE Config --------------------------------
(***************************************************************************)
(* The configuration a command loads before it does anything: platforms,   *)
(* plugins, policies and secret profiles (config/load.go), their           *)
(* validation (config/validate.go), the files under mappings/              *)
(* (config/mapping_files.go), and the target a command resolves in them.   *)
(*                                                                         *)
(* A bundle b is a record. b.clusters maps a cluster to its namespace, Git *)
(* root (a sequence of directories), environments and Connect profiles; an *)
(* environment has the set of names its rule matches. Settings that are    *)
(* only ever looked at one by one (URLs, timeouts, limits, the policy      *)
(* numbers and the three switches that must be true) are one flag per      *)
(* profile (valid) and one for the rest of the bundle (b.sane).            *)
(***************************************************************************)
EXTENDS Secrets, Sequences

DefaultOf(env) == IF env.default = "" THEN "default" ELSE env.default

\* No environment and no Git root belongs to two clusters. Roots are compared
\* whole: one may lie inside the other.
OneOwner(b) ==
    \A c, d \in DOMAIN b.clusters : c # d =>
        /\ b.clusters[c].root # b.clusters[d].root
        /\ DOMAIN b.clusters[c].envs \cap DOMAIN b.clusters[d].envs = {}

\* How CFK finds the workers of a profile: a reference, or a REST section. An
\* empty section counts as none here, yet it is not nil.
Discoverable(p) == p.ref # "none" \/ p.rest \notin {"nil", "empty"}

\* REST settings are validated only where the cluster is enabled, the type of a restart
\* policy everywhere.
ValidCluster(cl) ==
    /\ cl.namespace # "" /\ cl.root # <<>>
    /\ DOMAIN cl.envs # {} /\ DOMAIN cl.profiles # {}
    /\ \A e \in DOMAIN cl.envs : DefaultOf(cl.envs[e]) \in DOMAIN cl.profiles
    /\ \A p \in DOMAIN cl.profiles :
          /\ Discoverable(cl.profiles[p])
          /\ cl.profiles[p].restart # "unknown"
          /\ cl.enabled => cl.profiles[p].valid

\* A class belongs to one plugin; classes are compared trimmed.
ClassOwned(b) ==
    /\ \A a \in DOMAIN b.plugins : /\ b.plugins[a].classes # {}
                                  /\ \A u \in b.plugins[a].classes : u.kind # "blank"
    /\ \A a, d \in DOMAIN b.plugins :
          \A u \in b.plugins[a].classes, v \in b.plugins[d].classes :
              Trim(u) = Trim(v) => a = d /\ u = v

ValidBundle(b) ==
    /\ b.sane
    /\ DOMAIN b.clusters # {}
    /\ OneOwner(b)
    /\ \A c \in DOMAIN b.clusters : ValidCluster(b.clusters[c])
    /\ ClassOwned(b)
    /\ \A p \in DOMAIN b.secretProfiles : ValidSecretProfile(b.secretProfiles[p])
    /\ "mounted-file" \in DOMAIN b.secretProfiles

\* One mapping file is [cluster, env, connectors], connectors a function from
\* names to [profile, fields]. It is validated alone, and where it is put.
ValidSecretMappings(connectors, b) ==
    \A n \in DOMAIN connectors : \A k \in DOMAIN connectors[n].fields :
        ValidField(connectors[n].fields[k], b.secretProfiles)

ValidMappingFile(f, b) ==
    /\ f.cluster \in DOMAIN b.clusters
    /\ f.env \in DOMAIN b.clusters[f.cluster].envs
    /\ ValidSecretMappings(f.connectors, b)
    /\ \A n \in DOMAIN f.connectors :
          /\ n \in b.clusters[f.cluster].envs[f.env].names
          /\ f.connectors[n].profile \in {""} \cup DOMAIN b.clusters[f.cluster].profiles

LoadBundle(b, files) == ValidBundle(b) /\ \A f \in files : ValidMappingFile(f, b)

NoMapping == [profile |-> "", fields |-> [k \in {} |-> 0]]

\* The files of an environment are joined. They are read twice, once to be validated and
\* once to be used (mapping_files.go:67, load.go:40); nobody edits them in between here.
MappingOf(files, c, e, n) ==
    LET known == {f \in files : f.cluster = c /\ f.env = e /\ n \in DOMAIN f.connectors} IN
    IF known = {} THEN NoMapping ELSE (CHOOSE f \in known : TRUE).connectors[n]

\* The environment is looked up in the cluster that was asked for.
ResolveTarget(b, c, e) ==
    /\ c \in DOMAIN b.clusters
    /\ b.clusters[c].enabled
    /\ e \in DOMAIN b.clusters[c].envs
    /\ b.clusters[c].envs[e].enabled
=============================================================================
