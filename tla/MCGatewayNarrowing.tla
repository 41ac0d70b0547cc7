------------------------- MODULE MCGatewayNarrowing -------------------------
(* Accounts of three gateways under a cap of two, in two listing orders.   *)
EXTENDS GatewayNarrowing

Plain == [kind |-> "REST", shown |-> TRUE, domain |-> FALSE, iac |-> FALSE, stack |-> FALSE,
          tag |-> "none", slug |-> FALSE, service |-> FALSE, mark |-> FALSE]

MCProfiles == {
  Plain,
  [Plain EXCEPT !.tag = "canonical"],
  [Plain EXCEPT !.tag = "canonical", !.kind = "HTTP", !.shown = FALSE],
  [Plain EXCEPT !.tag = "mixedCase", !.service = TRUE],
  [Plain EXCEPT !.tag = "split", !.service = TRUE],
  [Plain EXCEPT !.domain = TRUE, !.kind = "HTTP"],
  [Plain EXCEPT !.iac = TRUE, !.service = TRUE],
  [Plain EXCEPT !.stack = TRUE, !.mark = TRUE],
  [Plain EXCEPT !.tag = "generic", !.kind = "HTTP"],
  [Plain EXCEPT !.slug = TRUE, !.service = TRUE]}

MCOrders == {<<1, 2, 3>>, <<3, 1, 2>>}

\* For the promise about twins: gateways told apart by nothing but their tags.
TwinProfiles == {Plain, [Plain EXCEPT !.tag = "canonical"]}

MCInputs == {<<>>, <<3, 2>>}
NobodyExpected == {<<>>}
=============================================================================
