--------------------------- MODULE MCContractRun ---------------------------
(* Scenarios that each vary one part of a run: credentials, trees of       *)
(* directories, Smithy projects, files and budgets, topics, definitions.   *)
EXTENDS ContractRun

CONSTANTS u1, u2, u3, u4, u5,      \* good; of a local name; not https; not listed; good
          a4, a6, private

MCUrls    == {u1, u2, u3, u4, u5}
MCHttps   == {u1, u2, u4, u5}
MCAllowed == {u1, u2, u3, u5}
MCServed  == [u \in MCUrls |-> IF u = u5 THEN "asyncapi" ELSE "odd"]
MCAnswers == {<<>>, <<a6, a4>>, <<a4, private>>}

-----------------------------------------------------------------------------
(* Trees: what root, api, deep and out contain; far contains deep too.     *)

Dirs    == {"root", "api", "far", "deep", "out"}
MCPaths == Dirs \cup {"link", "f1", "f2", "f3", "f4", "bld", "m1"}
MCWalkRoots == [w \in Walks |-> CASE w = "specs" -> <<"root", "api">> [] w = "generated" -> <<"out">>
                                  [] w \in {"scan", "terraform"} -> <<"root">>]
MCLimits == [w \in Walks |-> CASE w \in {"specs", "scan"} -> [depth |-> 1, entries |-> 6, files |-> 5]
                               [] w = "generated" -> [depth |-> 1, entries |-> 2, files |-> 0]
                               [] w = "terraform" -> [depth |-> 1, entries |-> 4, files |-> 0]]

(* Projects: what smithy-build.json, a second configuration and a directory lead to; x is of a kind. *)

MCNodes == {"bld", "sub", "sd", "sd2", "sd3", "m1", "m2", "x"}
Nothing == [n \in MCNodes |-> <<>>]
Project(bld, sub, kind) ==
  [root |-> "bld",
   kind |-> [n \in MCNodes |-> IF n \in {"bld", "sub"} THEN "config" ELSE IF n \in {"sd", "sd2", "sd3"} THEN "dir"
                               ELSE IF n = "x" THEN kind ELSE "model"],
   plan |-> [Nothing EXCEPT !["bld"] = bld, !["sub"] = sub],
   content |-> [n \in MCNodes |-> IF n = "sd" THEN {"m1", "x", "sd2"} ELSE {}],
   size |-> [n \in MCNodes |-> IF n = "sd" THEN 0 ELSE 1],
   closed |-> {}, malformed |-> {}, projected |-> FALSE]

Plan == <<"m2", "sd", "m2">>
MCProjects ==
  {Project(Plan, <<>>, k) : k \in {"other", "model"}}
    \cup {Project(<<"x", "sub">>, <<"m1">>, k) : k \in NodeKinds \ {"config", "model", "dir"}}
    \cup {Project(<<"sub", "m1">>, <<"m2", "bld">>, "other"), Project(<<>>, <<>>, "other"),
          [Project(<<>>, <<>>, "other") EXCEPT !.projected = TRUE]}
    \cup {[Project(Plan, <<>>, "other") EXCEPT !.content["sd2"] = {"sd3"}, !.content["sd3"] = {"m1"}]}
    \cup {[Project(<<"sub", "m1">>, <<"sd">>, "model") EXCEPT !.malformed = b] : b \in {{}, {"bld"}, {"sub"}}}
    \cup {[Project(<<"m2", "sub">>, <<"sd">>, "other") EXCEPT !.closed = {c}] : c \in {"bld", "sub", "sd", "m1"}}
    \cup {[Project(Plan, <<>>, "other") EXCEPT !.size["m1"] = n] : n \in {2, 3}}

-----------------------------------------------------------------------------
Tree(root, api, deep, out) ==
  LET listed == {"root"} \cup root \cup api \cup deep \cup out IN
  [kind |-> [p \in MCPaths |-> IF p \notin listed \cup (IF "far" \in root THEN {"deep"} ELSE {}) THEN "gone" ELSE IF p \in Dirs THEN "dir"
                               ELSE IF p = "link" THEN "dirlink" ELSE "file"],
   content |-> [p \in MCPaths |-> CASE p = "root" -> root [] p = "api" -> api [] p = "deep" -> deep [] p = "far" -> {"deep"}
                                    [] p = "out" -> out [] OTHER -> {}],
   closed |-> {},
   skipped |-> [w \in Walks |-> IF w \in {"specs", "scan"} THEN {"out"} ELSE {}],
   wanted |-> [w \in Walks |-> CASE w = "specs" -> {"f1", "f2", "f3", "bld", "m1"}
                                 [] w \in {"scan", "generated"} -> {"f1", "f2", "f3", "f4"}
                                 [] w = "terraform" -> {"f4"}],
   order |-> <<"bld", "f1", "f2", "f3", "f4", "m1", "api", "far", "deep", "link", "out", "root">>,
   direct |-> {},
   shape |-> [p \in MCPaths |-> IF p = "bld" THEN "config" ELSE IF p \in {"f1", "m1"} THEN "single"
                                ELSE IF p \in {"f2", "f3"} THEN "graphql" ELSE "none"],
   preferred |-> {"f3"}, size |-> [p \in MCPaths |-> 1], broken |-> {},
   project |-> [p \in MCPaths |-> Project(Plan, <<>>, "other")],
   iac |-> [s \in {"cloudformation", "cdk", "serverless"} |-> {}],
   scope |-> MCPaths, escaping |-> {}, authored |-> {}, service |-> [p \in MCPaths |-> IF p \in api THEN "api" ELSE "root"],
   area |-> [p \in MCPaths |-> IF p \in out \cup {"out"} THEN "output" ELSE "top"],
   name |-> [p \in MCPaths |-> CASE p = "f1" -> "asyncapi" [] p = "f2" -> "schema"
                                 [] p \in {"f3", "f4"} -> "x.asyncapi" [] OTHER -> "other"],
   holds |-> [p \in MCPaths |-> CASE p = "f2" -> "json-schema" [] p \in {"f1", "f3", "f4"} -> "asyncapi"
                                  [] OTHER -> "odd"],
   mentions |-> {}, ignored |-> {}]

Bare == Tree({}, {}, {}, {})
Flat == Tree({"api", "f1", "f2"}, {"f3"}, {}, {})
Deep == Tree({"far", "f2"}, {}, {"f1"}, {})

Trees ==
  {Flat, Deep, [Flat EXCEPT !.scope = {"api", "f3"}], Tree({"api", "f2"}, {"deep", "f3"}, {"f1"}, {}), [Flat EXCEPT !.direct = {"f1"}, !.broken = {"f2"}], [Flat EXCEPT !.size["f1"] = 2],
   [Flat EXCEPT !.size["f1"] = 3], [Flat EXCEPT !.closed = {"api"}], [Flat EXCEPT !.kind["root"] = "dirlink"],
   [Flat EXCEPT !.kind["api"] = "filelink"], Tree({"api", "f1", "f2", "f3", "link", "out"}, {"m1"}, {}, {"f4"}),
   Tree({"f1", "f4", "link", "api"}, {"m1"}, {}, {}), Tree({"f2", "f3", "out"}, {}, {}, {"f1"})}

Coded ==
  {[Tree({"f4", "f1"}, {}, {}, {}) EXCEPT !.iac["cdk"] = {"f2"}, !.authored = {"f2", "f4"}],
   [Tree({"f1", "api"}, {"f4"}, {}, {}) EXCEPT !.iac["cdk"] = {"f2", "f3"}, !.authored = {"f1", "f4"},
                                               !.iac["serverless"] = {"f1"}],
   [Tree({"f4"}, {}, {}, {}) EXCEPT !.iac["cdk"] = {"f2", "f3"}, !.escaping = {"f2"}, !.broken = {"f3"}],
   [Tree({"f4"}, {}, {}, {}) EXCEPT !.iac["cdk"] = {"f2", "f3"}, !.authored = {"f2", "f3", "f4"}, !.broken = {"f3"}],
   [Tree({"f4"}, {}, {}, {}) EXCEPT !.iac["cdk"] = {"f2"}, !.size["f2"] = 2, !.size["f4"] = 2]}

Built == {[Tree({"bld", "m1"}, {}, {}, {}) EXCEPT !.project["bld"] = p] : p \in MCProjects}

-----------------------------------------------------------------------------
Topic == [ssm |-> "answers", content |-> "none", url |-> NoUrl, declared |-> "none", remotes |-> <<>>,
          bridge |-> "none", schemas |-> <<>>, code |-> {}, subscriptions |-> <<>>, headers |-> FALSE]

At(u, n)        == [url |-> u, affinity |-> n]
Schema(n, form) == [affinity |-> n, shape |-> form]
Code(kind, n, holds) == [kind |-> kind, path |-> n, holds |-> holds, linked |-> TRUE, payload |-> TRUE, inside |-> TRUE]
Import == Code("json-schema-ref", 1, "json-schema")
Subscribed(p, raw, attributes, confirmed) ==
  [protocol |-> p, raw |-> raw, attributes |-> attributes, confirmed |-> confirmed]

Delivered == <<Subscribed("http", TRUE, {"kind"}, TRUE), Subscribed("lambda", TRUE, {}, TRUE),
               Subscribed("sqs", FALSE, {}, FALSE)>>

Fetching == {[Topic EXCEPT !.url = u1], [Topic EXCEPT !.remotes = <<At(u1, 60), At(u5, 100)>>],
             [Topic EXCEPT !.url = u5, !.declared = "json-schema"],
             [Topic EXCEPT !.url = u3, !.remotes = <<At(u4, 30), At(u5, 30)>>]}
Asked ==
  {Topic, [Topic EXCEPT !.ssm = "silent"], [Topic EXCEPT !.content = "asyncapi", !.subscriptions = Delivered],
   [Topic EXCEPT !.content = "odd"], [Topic EXCEPT !.content = "odd", !.declared = "asyncapi", !.headers = TRUE,
                                                   !.subscriptions = Delivered]}
Derived ==
  {[Topic EXCEPT !.bridge = b, !.schemas = <<Schema(60, "envelope"), Schema(100, "odd"), Schema(60, "wrapped")>>,
                 !.code = c] :
     b \in {"none", "unavailable", "listed"}, c \in {{}, {Import}, {Import, Code("zod", 2, "odd")}}}
  \cup {[Topic EXCEPT !.code = c] :
         c \in {{[Import EXCEPT !.payload = FALSE]}, {[Import EXCEPT !.inside = FALSE], Code("typebox", 2, "odd")},
               {Code("springwolf", 1, "asyncapi"), [Code("zod", 2, "odd") EXCEPT !.linked = FALSE]},
               {Code("springwolf", 1, "asyncapi"), Code("generated-asyncapi", 2, "asyncapi")},
               {Code("springwolf", 1, "odd"), Code("java-annotation", 2, "odd")}}}
  \cup {[Topic EXCEPT !.bridge = "listed", !.schemas = <<Schema(60, "envelope"), Schema(100, "wrapped")>>]}
MCTopics == Fetching \cup Asked \cup Derived

Silent(r) == [r EXCEPT !.wanted["specs"] = {}]
Events ==
  {Tree({"api", "f1", "f2"}, {"f3"}, {}, {}),
   [Tree({"api", "f1", "f2"}, {"f3"}, {}, {}) EXCEPT !.holds["f1"] = "odd"],
   [Tree({"api", "f1", "f3"}, {"f2"}, {}, {}) EXCEPT !.holds["f1"] = "odd", !.holds["f2"] = "odd", !.area["f3"] = "spec"],
   [Tree({"f1", "f3"}, {}, {}, {}) EXCEPT !.name["f3"] = "asyncapi", !.mentions = {"f3"}],
   [Tree({"f1", "f3"}, {}, {}, {}) EXCEPT !.area = [@ EXCEPT !["f1"] = "events", !["f3"] = "contracts"], !.mentions = {"f3"}],
   [Tree({"link", "f2"}, {}, {}, {}) EXCEPT !.content["link"] = {"f1"}, !.kind["f1"] = "file", !.broken = {"f2"}],
   [Tree({"api"}, {"deep"}, {"f1"}, {}) EXCEPT !.closed = {"link"}],
   Tree({"out"}, {}, {}, {"f3", "f4"}), Tree({"out"}, {}, {}, {"f3", "f4", "m1"}),
   [Tree({"out"}, {}, {}, {"f3", "f4"}) EXCEPT !.ignored = {"f3"}],
   [Tree({"f1"}, {}, {}, {}) EXCEPT !.area["f1"] = "target"],
   [Tree({"out"}, {}, {}, {"f3"}) EXCEPT !.ignored = {"f3"}]}

-----------------------------------------------------------------------------
MCFiles == {"f1", "f2", "f3", "f4"}
Bundle(kind, one, two, three) ==
  [root |-> "f1", format |-> kind, readable |-> MCFiles, size |-> [f \in MCFiles |-> 1],
   imports |-> [f \in MCFiles |-> CASE f = "f1" -> one [] f = "f2" -> two [] f = "f3" -> three [] OTHER -> <<>>]]

Plain == Bundle("other", <<>>, <<>>, <<>>)
MCBundles ==
  {Plain, Bundle("protobuf", <<"f2", WellKnown>>, <<"f1", "f3">>, <<>>), Bundle("wsdl", <<"f2", WellKnown>>, <<>>, <<>>),
   Bundle("wsdl", <<Outside, "f2">>, <<>>, <<>>), Bundle("protobuf", <<"f2">>, <<"f3">>, <<"f4">>),
   Bundle("protobuf", <<"f2", "f3", "f4">>, <<>>, <<>>), Bundle("wsdl", <<>>, <<>>, <<>>),
   [Bundle("protobuf", <<"f2", "f3">>, <<>>, <<>>) EXCEPT !.readable = {"f2"}],
   [Bundle("wsdl", <<"f2", "f3">>, <<>>, <<>>) EXCEPT !.size["f2"] = 3],
   [Bundle("wsdl", <<"f2", "f3">>, <<>>, <<>>) EXCEPT !.size["f2"] = 2, !.size["f1"] = 2]}

Run(h, r, ts, b) == [held |-> h, repo |-> r, topics |-> ts, bundle |-> b]
MCRepos == {Bare} \cup Trees \cup Coded \cup Built \cup {Silent(r) : r \in Events}
MCScenarios ==
  {Run(h, Bare, <<>>, Plain) : h \in SUBSET {"key", "token"}}
    \cup {Run({}, r, <<>>, Plain) : r \in Trees \cup Coded \cup Built}
    \cup {Run({}, Silent(r), <<Topic>>, Plain) : r \in Events}
    \cup {Run({}, Bare, <<t>>, Plain) : t \in Asked \cup Derived}
    \cup {Run({}, Bare, <<[Topic EXCEPT !.ssm = "silent"], Topic>>, Plain)}
    \cup {Run({}, Bare, <<[Topic EXCEPT !.url = u5, !.declared = "json-schema"]>>, Plain),
          Run({}, Bare, <<[Topic EXCEPT !.url = u3, !.remotes = <<At(u4, 30), At(u5, 30)>>]>>, Plain),
          Run({}, Bare, <<[Topic EXCEPT !.url = u1], [Topic EXCEPT !.remotes = <<At(u1, 60), At(u5, 100)>>]>>, Plain)}
    \cup {Run({}, Bare, <<>>, b) : b \in MCBundles}
=============================================================================
