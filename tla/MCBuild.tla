------------------------------- MODULE MCBuild -------------------------------
(***************************************************************************)
(* Build with two clusters, three environments and two plugins. The first  *)
(* bundle is a sound one. Those that are refused when they are loaded      *)
(* differ from it in one respect each, those that are accepted in a few    *)
(* that have nothing to do with one another.                               *)
(***************************************************************************)
EXTENDS Build, TLC

MCThings == {"c1", "c2", "c3", "0", "1", "2", "x", "sit", "e2e", "uat"}

T(of)      == V("text", of)
Pad(v)     == [v EXCEPT !.pad = TRUE]
N(env, b)  == [env |-> env, base |-> b, dirty |-> FALSE]
MCNoName   == N("none", "")
SitA == N("sit", "a")    SitB == N("sit", "b")
E2eA == N("e2e", "a")    E2eB == N("e2e", "b")
UatA == N("uat", "a")
Dirty == [SitA EXCEPT !.dirty = TRUE]

Env(names) == [names |-> names, default |-> "", enabled |-> TRUE]
Prof(ref, rest) == [ref |-> ref, rest |-> rest, restart |-> "none", valid |-> TRUE]
Secrets(root, file) == "mounted-file" :> [mountRoot |-> root, defaultFile |-> file]

Dev  == [enabled |-> TRUE, namespace |-> "dev", root |-> <<"connectors", "dev">>,
         envs |-> "sit" :> Env({SitA, SitB, Dirty}) @@ "e2e" :> Env({E2eA, E2eB}),
         profiles |-> "default" :> Prof("connect", "nil") @@ "rotating" :> Prof("connect-db", "rest")]
Prod == [enabled |-> TRUE, namespace |-> "prod", root |-> <<"connectors", "prod">>,
         envs |-> "uat" :> Env({UatA}), profiles |-> "default" :> Prof("connect", "nil")]
Pg   == [classes |-> {T("c1")}, required |-> {"url"}, sensitive |-> {"password"},
         default |-> "rotating"]
Http == [classes |-> {T("c2")}, required |-> {}, sensitive |-> {}, default |-> ""]

Sound == [clusters |-> "dev" :> Dev @@ "prod" :> Prod, plugins |-> "pg" :> Pg @@ "http" :> Http,
          generic |-> {"token"}, secretProfiles |-> Secrets("none", "none"),
          sane |-> TRUE, verify |-> TRUE, functionalDiff |-> TRUE]

MCBundles == {
    Sound,
    \* refused: an environment of two clusters, a class of two plugins, bad REST settings,
    \* an unknown restart policy, a mount root or a default file that is none
    [Sound EXCEPT !.clusters["prod"].envs = "uat" :> Env({UatA}) @@ "sit" :> Env({SitA})],
    [Sound EXCEPT !.plugins["http"].classes = {T("c2"), Pad(T("c1"))}],
    [Sound EXCEPT !.clusters["prod"].profiles["default"].valid = FALSE],
    [Sound EXCEPT !.clusters["prod"].profiles["default"].restart = "unknown"],
    [Sound EXCEPT !.secretProfiles = Secrets("relative", "none")],
    [Sound EXCEPT !.secretProfiles = Secrets("clean", "unclean")],
    \* accepted: the bad settings where the cluster is disabled, next to overlapping names; a
    \* padded class or a required name, each with a restart policy and a brace in the default
    \* file or the mount root; an empty REST section; one root inside the other
    [Sound EXCEPT !.clusters["prod"].profiles["default"].valid = FALSE,
                  !.clusters["prod"].enabled = FALSE,
                  !.clusters["dev"].envs["e2e"].names = {E2eA, E2eB, SitA}],
    [Sound EXCEPT !.plugins["http"].classes = {Pad(T("c2"))},
                  !.clusters["dev"].profiles["default"].restart = "Never",
                  !.secretProfiles = Secrets("clean", "brace")],
    [Sound EXCEPT !.plugins["pg"].required = {"url", "name"},
                  !.clusters["dev"].profiles["rotating"].restart = "Never",
                  !.secretProfiles = Secrets("brace", "clean")],
    [Sound EXCEPT !.clusters["dev"].profiles["rotating"].rest = "empty"],
    [Sound EXCEPT !.clusters["prod"].root = <<"connectors">>,
                  !.clusters["prod"].envs = "dev" :> Env({UatA})],
    \* accepted: a stricter plugin without functional diff or check of the plugins, and a
    \* disabled environment
    [Sound EXCEPT !.plugins["http"].sensitive = {"url"}, !.functionalDiff = FALSE,
                  !.verify = FALSE, !.clusters["dev"].envs["e2e"].enabled = FALSE]}

Mounted(of)  == [literal |-> "none", profile |-> "", secretName |-> TRUE, secretKey |-> TRUE,
                 fileName |-> "none", mountPath |-> "none", of |-> of]
Literal(of)  == [Mounted(of) EXCEPT !.literal = "external", !.secretName = FALSE, !.secretKey = FALSE]
Braced(of)   == [Mounted(of) EXCEPT !.mountPath = "brace", !.secretName = FALSE]
In(file, of) == [Mounted(of) EXCEPT !.fileName = file]
Unnamed(of)  == [Mounted(of) EXCEPT !.secretName = FALSE]
Fields(f)    == [profile |-> "", fields |-> f]
File(c, e, connectors) == [cluster |-> c, env |-> e, connectors |-> connectors]

Secret(of) == Fields("password" :> Mounted(of) @@ "token" :> Mounted(of))
MCMappingSets == {
    {},
    {File("dev", "sit", SitA :> Secret("sit") @@ Dirty :> Secret("sit")),
     File("dev", "e2e", E2eA :> Fields("password" :> Literal("e2e") @@ "token" :> Literal("e2e")
                                         @@ "url" :> Mounted("e2e")))},
    {File("dev", "sit", SitA :> [Secret("sit") EXCEPT !.profile = "rotating"]),
     File("dev", "e2e", E2eA :> [Secret("e2e") EXCEPT !.profile = "default"]
                          @@ E2eB :> Fields("token" :> Mounted("e2e") @@ "url" :> Mounted("e2e"))),
     File("prod", "uat", UatA :> Secret("uat"))},
    {File("dev", "sit", SitA  :> Fields("password" :> In("brace", "sit") @@ "url" :> In("clean", "sit"))
                          @@ Dirty :> Fields("password" :> Braced("sit") @@ "token" :> In("brace", "sit")))},
    {File("dev", "sit", SitA :> Fields("password" :> In("unclean", "sit")))},
    {File("dev", "sit", SitA :> Fields("password" :> Unnamed("sit") @@ "token" :> Unnamed("sit")))},
    {File("dev", "sit", SitA :> Fields(Class :> Literal("sit") @@ "password" :> Literal("sit")))},
    {File("dev", "sit", SitA :> Fields(Tasks :> Mounted("sit")))},
    {File("dev", "sit", E2eA :> Secret("sit"))}}

Config(class, tasks, rest) ==
    (IF tasks = "none" THEN <<>> ELSE Tasks :> T(tasks)) @@ (Class :> class) @@ rest
Input(stem, wrapped, config) == [stem |-> stem, wrapped |-> wrapped, config |-> config]

Plain == "password" :> T("x") @@ "url" :> V("within", "sit")
MCInputs == {
    Input(SitA, MCNoName, Config(T("c1"), "2", Plain)),
    Input(SitA, Dirty,    Config(T("c1"), "none", Plain)),
    Input(SitA, MCNoName, Config(Pad(T("c1")), "1",
                                 "password" :> Pad(V("external", "sit")) @@ "url" :> T("sit"))),
    Input(SitB, MCNoName, Config(T("c2"), "none", "url" :> V("external", "sit") @@ "name" :> T("x"))),
    Input(SitA, MCNoName, Config(T("c2"), "2", "token" :> V("foreign", "sit"))),
    Input(SitB, MCNoName, Config(T("c1"), "x", "password" :> V("external", "sit"))),
    Input(SitB, MCNoName, Config(T("c3"), "1", <<>>)),
    Input(SitB, MCNoName, Config(T("c2"), "1", "\t" :> T("x"))),
    Input(UatA, MCNoName, Config(T("c2"), "1", "token" :> T("x") @@ "url" :> Blank))}
MCExplicit == {MCNoName, SitA}
MCTickets == {"CHG-1"}
MCInvalidKeys == {"", "\t"}

Running(n, p, config) ==
    [cluster |-> "dev", profile |-> p, name |-> n, config |-> "name" :> T("x") @@ config]
MCLive == {
    Running(SitA, "rotating", Config(T("c1"), "none", Plain)),
    Running(SitB, "default",  Config(T("c2"), "2", "token" :> V("external", "sit") @@ "url" :> T("sit"))),
    Running(SitB, "rotating", Config(Pad(T("c1")), "2",
                                     "password" :> V("external", "sit") @@ "url" :> T("sit")))}

\* The workers name the class c2 only by its fully qualified form, of which it is the end.
MCInstalled == "default" :> {"c1", "io.c2"} @@ "rotating" :> {"c1"}
MCShortName == "io.c2" :> "c2" @@ "c1" :> "pg"

Plan(rename, rules, overrides) == [rename |-> rename, rules |-> rules, overrides |-> overrides]
Rule(fields, from, to) == [fields |-> fields, from |-> from, to |-> to]
MCPlans == {
    Plan(<<>>, <<>>, <<>>),
    Plan("a" :> "b", <<Rule({"url"}, "sit", "e2e"), Rule({"url", "token"}, "e2e", "uat")>>, <<>>),
    Plan(<<>>, <<>>,
         SitA :> [target |-> E2eB, profile |-> "default",
                  set |-> "url" :> V("external", "sit") @@ Class :> T("c2"), remove |-> {"password"}]
      @@ SitB :> [target |-> UatA, profile |-> "", set |-> <<>>, remove |-> {"url"}])}

Handmade(name, class, configs) ==
    [dir |-> <<"connectors", "dev", "sit", "http">>, meta |-> [label |-> <<"sit", name.base>>, hash |-> {}],
     namespace |-> "dev", name |-> name, class |-> class, tasks |-> T("1"), configs |-> configs,
     labels |-> [plugin |-> "http", env |-> "sit", cluster |-> "dev", profile |-> "default"],
     ref |-> "connect", rest |-> "nil", restart |-> "Never",
     annotations |-> Annotations(<<"hand">>, "")]
MCByHand == {
    Handmade(SitB, T("c3"), <<>>),
    Handmade(SitB, T("c2"), "token" :> T("x")),
    [Handmade(SitB, T("c2"), <<>>) EXCEPT !.labels.profile = ""],
    \* these pass repo-validate
    [Handmade(SitB, Pad(T("c2")), "name" :> T("x")) EXCEPT !.meta.label = <<"other">>],
    [Handmade(SitB, T("c2"), "\t" :> T("x")) EXCEPT !.tasks = T("0")]}
=============================================================================
