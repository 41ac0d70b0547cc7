----------------------------- MODULE MCAwsSweep -----------------------------
(* Every provider alone, registries in which probes of each kind race, and *)
(* gateways of each protocol with each interesting set of stages.          *)
EXTENDS AwsSweep

Alone(t) == <<t>>
Races == {<<"api", "eventbridge">>, <<"appsync", "lambdaUrl">>,
          <<"cloudformation", "api", "stepFunctions">>, <<"ssm", "glue">>}
MCRegistries == {Alone(t) : t \in Types} \cup Races

Stage(n, a) == [name |-> n, auto |-> a]
Listings == {{}, {Stage("prod", FALSE)}, {Stage("prod", FALSE), Stage("test", FALSE)},
             {Stage("$default", TRUE), Stage("test", FALSE)},
             {Stage("$default", TRUE), Stage("test", TRUE)}}

Gateway == [type : G!Types, caller : {"discover", "resolve"}, stages : Listings,
            mapped : {{}, {"prod"}, {"prod", "test"}}, wanted : {NoStage, "test"},
            expected : BOOLEAN]

Caller == [account |-> "ours", partition |-> "aws"]
Plain(mode, r, gs) ==
  [mode |-> mode, registry |-> r, gateways |-> gs, checks |-> FALSE,
   account |-> Anything, partition |-> Anything, caller |-> Caller]

Small(type) == CHOOSE g \in Gateway : g.type = type /\ g.caller = "discover" /\ g.mapped = {}
                        /\ g.stages = {Stage("prod", FALSE)} /\ g.wanted = NoStage /\ ~g.expected

MCSetups ==
  {Plain("discover-many", r, <<>>) : r \in MCRegistries}
    \cup {Plain(IF g.caller = "resolve" THEN "resolve-one" ELSE "discover-many", <<"api">>, <<g>>) :
            g \in Gateway}
    \cup {Plain("discover-many", <<"lambdaUrl">>, <<Small("HTTP"), Small("WEBSOCKET")>>)}
    \cup {[Plain("discover-many", <<"alb">>, <<Small("HTTP")>>)
             EXCEPT !.checks = c, !.account = a, !.partition = p] :
            c \in BOOLEAN, a \in {Anything, "ours", "theirs"}, p \in {Anything, "aws", "aws-cn"}}
=============================================================================
