--------------------------- MODULE MCDiscoverMany ---------------------------
(* One output directory, three gateways under a cap of two, two further    *)
(* providers.  The repository may hold a contract composed from several    *)
(* files, and the output of an earlier run in the folder "orders".         *)
EXTENDS DiscoverMany, TLC

MCFolders == {"src", "orders", "orders-l1", "orders-a2", "orders-t1", 
              "orders-t3", "billing", "billing-a3", "orders-t1-t2", "orders-a1"}
MCNames == {"index.yaml", "schema.graphql", "openapi.derived.json"}

MCGroupOf ==
  "composed" :> [peers |-> 1, source |-> <<"src", "schema.graphql">>,
                 path |-> <<"orders", "schema.graphql">>]
  @@ "earlier" :> [peers |-> 1, source |-> <<"orders", "index.yaml">>,
                   path |-> <<"orders", "index.yaml">>]
  @@ "twins" :> [peers |-> 2, source |-> <<"src", "index.yaml">>,
                 path |-> <<"src", "index.yaml">>]
  @@ "again" :> [peers |-> 1, source |-> <<"billing", "schema.graphql">>,
                 path |-> <<"orders", "schema.graphql">>]

MCInventories == {<<>>, <<"composed", "earlier">>, <<"twins", "again", "composed">>}

Gateway(b, s)     == [phase |-> "gateway", base |-> b, suffixed |-> s,
                      files |-> <<"index.yaml", "openapi.derived.json">>]
Provided(b, s, f) == [phase |-> "provider", base |-> b, suffixed |-> s, files |-> <<f>>]

MCAttr ==
  "a1" :> Gateway("orders", "orders-a1")
  @@ "a2" :> Gateway("orders", "orders-a2")
  @@ "a3" :> Gateway("billing", "billing-a3")
  @@ "l1" :> Provided("orders", "orders-l1", "index.yaml")
  @@ "t1" :> Provided("orders", "orders-t1", "schema.graphql")
  @@ "t2" :> Provided("orders-t1", "orders-t1-t2", "schema.graphql")
  @@ "t3" :> Provided("orders", "orders-t3", "schema.graphql")

NoContracts == {<<>>}

MCListing == "lambda-url" :> <<"l1">> @@ "appsync" :> <<"t1", "t2", "t3">>
MCExtra   == <<"lambda-url", "appsync">>
MCRest == <<"a1">>
MCHttp == <<"a2", "a3">>
=============================================================================
