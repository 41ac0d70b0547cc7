--------------------------- MODULE MCResolution ---------------------------
(* Every source writes into the folder of the one service; the gateway, a  *)
(* topic and the best provider candidate may tie at 70.                    *)
EXTENDS Resolution, TLC

CONSTANTS p1, p2, p3

MCFiles == {"repo.yaml", "index.yaml", "index.json", "schema.graphql", "root.proto",
            "member.proto", "metadata.json", "openapi.derived.json"}

MCKept == {"metadata.json", "openapi.derived.json"}

MCCatalogs == {<<>>, <<"inline">>, <<"local">>, <<"remote", "local">>}

MCCandidates == {p1, p2, p3}
MCConfidence == p1 :> 85 @@ p2 :> 70 @@ p3 :> 35

MCGateways == {NoCandidate, [confidence |-> 30, ambiguous |-> FALSE],
               [confidence |-> 70, ambiguous |-> FALSE], [confidence |-> 90, ambiguous |-> TRUE]}

Single(f) == [native |-> f, sidecars |-> <<>>, meta |-> NoFile,
              derived |-> "openapi.derived.json", members |-> <<>>]

MCPlan ==
  "artifact" :> Single("index.yaml")
  @@ "repo" :> [Single("schema.graphql") EXCEPT !.members = <<"root.proto", "member.proto">>]
  @@ "gateway" :> Single("index.yaml")
  @@ "sns" :> [Single("index.json") EXCEPT !.meta = "metadata.json"]
  @@ "review" :> [Single(NoFile) EXCEPT !.meta = "metadata.json", !.derived = NoFile]
  @@ p1 :> [Single(NoFile) EXCEPT !.members = <<"root.proto", "member.proto">>]
  @@ p2 :> [Single("index.json") EXCEPT !.sidecars = <<"metadata.json">>]
  @@ p3 :> Single("index.json")
=============================================================================
