---------------------------- MODULE AwsSweepProofs ----------------------------
(* One sweep over an account, for every registry, every account and all    *)
(* page limits.                                                            *)
EXTENDS AwsSweep, SubsequencesProofs

-----------------------------------------------------------------------------
(* The export of one gateway.                                              *)

Spots == {"stages", "mappings", "tags", "rest", "http", "enrich", "fallback", "websocket", "responses"}

\* What a choice of a stage may say of a gateway.
Sound(choice, type) ==
  /\ choice.mode \in {"none", "deployed-stage", "latest-configuration", "partial-control-plane"}
  /\ choice.mode = "deployed-stage" <=> type # "WEBSOCKET" /\ choice.stage # NoStage
  /\ choice.mode = "latest-configuration" => type = "HTTP"

Call == [pages : 1 .. MaxPages, seen : SUBSET Tokens, done : BOOLEAN]

(* What makes ProvenanceIsTrue inductive: nothing is delivered before the last point of the         *)
(* protocol, and each protocol has points of its own.                                               *)
GatewayInv ==
  /\ ApiOf(api)
  /\ pc \in {"idle"} \cup Spots \cup G!Ends
  /\ pc \in Spots => DOMAIN calls = G!Reads[pc]
  /\ \A c \in DOMAIN calls : calls[c] \in Call
  /\ Sound(picked, api.type)
  /\ pc \in {"idle"} \cup Spots => document = G!NoDocument
  /\ pc = "mappings" => ~G!Requested
  /\ pc \in {"rest", "enrich", "fallback"} => api.type = "REST"
  /\ pc = "http" => api.type = "HTTP"
  /\ pc \in {"websocket", "responses"} => api.type = "WEBSOCKET"
  /\ document.body \in {"none", "native", "enriched", "synthesized"}
  /\ ProvenanceIsTrue

\* What a step may do to an export that AWS has answered, and to a choice between equals.
NativeStep ==
  pc = "enrich" => pc' \in {"enrich", "exported"} /\ document'.body \in {"none", "native", "enriched"}

NeverStep ==
  \A s, t \in api.stages :
    G!Alike(s, t) /\ ~G!Requested /\ picked'.stage # NoStage => picked'.stage \notin {s.name, t.name}

GatewayStep == GatewayInv' /\ NativeStep /\ (NeverStep \/ UNCHANGED <<api, picked>>)

LEMMA SpotsArePoints == G!Points = Spots
BY DEF G!Points, G!Reads, Spots

LEMMA GotoFacts ==
  ASSUME NEW p \in {"idle"} \cup Spots \cup G!Ends, G!Goto(p)
  PROVE  /\ pc' = p
         /\ p \in Spots => DOMAIN calls' = G!Reads[p]
         /\ \A c \in DOMAIN calls' : calls'[c] \in Call
<1>1. CASE p \in Spots
  <2>1. pc' = p /\ calls' = [c \in G!Reads[p] |-> [pages |-> 1, seen |-> {}, done |-> FALSE]]
    BY <1>1, SpotsArePoints DEF G!Goto, G!Fresh
  <2>2. [pages |-> 1, seen |-> {}, done |-> FALSE] \in Call
    BY AwsProvidersAssumption DEF Call
  <2> QED BY <2>1, <2>2
<1>2. CASE p \notin Spots
  BY <1>2, SpotsArePoints DEF G!Goto, G!NoCalls
<1> QED BY <1>1, <1>2

\* A choice is sound whatever the listings say.
LEMMA ChoicesAreSound ==
  ASSUME GatewayInv
  PROVE  /\ G!Requested \/ G!Newest => Sound(G!RequestedStage, api.type)
         /\ \A linked : Sound(G!EvidencedStage(linked), api.type)
<1>1. api.type \in {"REST", "HTTP", "WEBSOCKET"} /\ \A n \in G!Names : n # NoStage
  BY DEF GatewayInv, ApiOf, G!Types, G!Names
<1>2. Sound(G!Refused, api.type)
  BY <1>1 DEF Sound, G!Refused
<1>3. ASSUME NEW n \in G!Names PROVE Sound(G!Deployed(n), api.type)
  BY <1>1 DEF Sound, G!Deployed, G!Pick, G!configurationModeForGateway
<1>4. /\ api.type = "HTTP" => Sound(G!Latest("latest-configuration"), api.type)
      /\ api.type = "WEBSOCKET" => Sound(G!Latest("partial-control-plane"), api.type)
  BY DEF Sound, G!Latest
<1>5. ASSUME G!Requested \/ G!Newest PROVE Sound(G!RequestedStage, api.type)
  BY <1>2, <1>3, <1>4, <1>5 DEF G!RequestedStage, G!Requested, G!Newest
<1>6. ASSUME NEW linked PROVE Sound(G!EvidencedStage(linked), api.type)
  <2>1. G!Evidence(linked) # NoStage => G!Evidence(linked) \in G!Names
    BY DEF G!Evidence
  <2>2. G!AutoDeployed = {G!Default} => G!Default \in G!Names
    BY DEF G!AutoDeployed, G!Names
  <2>3. G!Names # {} => (CHOOSE s \in G!Names : TRUE) \in G!Names
    OBVIOUS
  <2>4. CASE G!Evidence(linked) # NoStage
    BY <1>3, <2>1, <2>4 DEF G!EvidencedStage
  <2>5. CASE G!Evidence(linked) = NoStage /\ G!Names = {}
    BY <1>1, <1>2, <1>4, <2>5 DEF G!EvidencedStage
  <2>6. CASE G!Evidence(linked) = NoStage /\ G!Names # {}
    BY <1>2, <1>3, <2>2, <2>3, <2>6 DEF G!EvidencedStage
  <2> QED BY <2>4, <2>5, <2>6
<1> QED BY <1>5, <1>6

\* A choice that the inputs did not make is of a stage without equals.
Unequalled(choice) ==
  \A s, t \in api.stages : G!Alike(s, t) /\ choice.stage # NoStage => choice.stage \notin {s.name, t.name}

LEMMA EqualsAreLeft ==
  ASSUME GatewayInv, ~G!Requested
  PROVE  /\ Unequalled(G!RequestedStage)
         /\ \A linked \in {{}, api.mapped} : Unequalled(G!EvidencedStage(linked))
<1>1. Unequalled(G!RequestedStage)
  BY DEF Unequalled, G!RequestedStage, G!Latest
<1>2. SUFFICES ASSUME NEW linked \in {{}, api.mapped}, NEW s \in api.stages, NEW t \in api.stages,
                      G!Alike(s, t), G!EvidencedStage(linked).stage # NoStage
               PROVE  G!EvidencedStage(linked).stage \notin {s.name, t.name}
  BY <1>1 DEF Unequalled
<1> DEFINE c == G!EvidencedStage(linked)
<1>3. /\ s.name # t.name /\ s.name \in G!Names /\ t.name \in G!Names
      /\ s.name \in api.mapped <=> t.name \in api.mapped
      /\ api.type = "HTTP" => G!Default \notin {s.name, t.name}
  BY <1>2 DEF GatewayInv, ApiOf, G!Alike, G!Names
<1>4. \A n : G!Deployed(n).stage = n
  BY DEF G!Deployed, G!Pick
<1>5. CASE G!Evidence(linked) # NoStage
  <2>1. linked = {G!Evidence(linked)}
    BY <1>5 DEF G!Evidence
  <2>2. linked = api.mapped
    BY <2>1
  <2>3. c.stage = G!Evidence(linked)
    BY <1>4, <1>5 DEF G!EvidencedStage
  <2> QED BY <1>3, <2>1, <2>2, <2>3
<1>6. CASE G!Evidence(linked) = NoStage
  <2>1. ~\E n \in G!Names : G!Names = {n}
    BY <1>3
  <2>2. c \in {G!Deployed(G!Default), G!Refused} /\ (c = G!Deployed(G!Default) => api.type = "HTTP")
    <3>1. G!Names # {}
      BY <1>3
    <3>2. c = IF api.type = "HTTP" /\ G!AutoDeployed = {G!Default} THEN G!Deployed(G!Default) ELSE G!Refused
      BY <1>6, <2>1, <3>1 DEF G!EvidencedStage
    <3>3. CASE api.type = "HTTP" /\ G!AutoDeployed = {G!Default}
      BY <3>2, <3>3
    <3>4. CASE ~(api.type = "HTTP" /\ G!AutoDeployed = {G!Default})
      <4>1. c = G!Refused
        BY <3>2, <3>4
      <4> QED BY <1>2, <4>1 DEF G!Refused
    <3> QED BY <3>3, <3>4
  <2>3. c.stage = G!Default /\ api.type = "HTTP"
    BY <1>2, <1>4, <2>2 DEF G!Refused
  <2> QED BY <1>3, <2>3
<1> QED BY <1>5, <1>6

-----------------------------------------------------------------------------
\* A step to another point with the same gateway, choice and document.
LEMMA OnwardInv ==
  ASSUME GatewayInv, pc \in Spots \ {"enrich"}, UNCHANGED <<api, picked, document>>,
         NEW p \in Spots \cup {"failed", "review", "skipped"}, G!Goto(p),
         p = "mappings" => ~G!Requested,
         p \in {"rest", "enrich", "fallback"} => api.type = "REST",
         p = "http" => api.type = "HTTP",
         p \in {"websocket", "responses"} => api.type = "WEBSOCKET"
  PROVE  GatewayStep
<1>1. /\ pc' = p /\ (p \in Spots => DOMAIN calls' = G!Reads[p])
      /\ \A c \in DOMAIN calls' : calls'[c] \in Call
  BY GotoFacts DEF G!Ends
<1>2. pc' \in {"idle"} \cup Spots \cup G!Ends /\ pc' # "exported"
  BY <1>1 DEF Spots, G!Ends
<1>3. ApiOf(api)' /\ Sound(picked, api.type)'
  BY DEF GatewayInv, ApiOf, Sound
<1>4. document' = G!NoDocument /\ document'.body \in {"none", "native", "enriched", "synthesized"}
  BY DEF GatewayInv
<1>5. ProvenanceIsTrue'
  BY <1>2 DEF ProvenanceIsTrue, G!ProvenanceIsTrue
<1> QED BY <1>1, <1>2, <1>3, <1>4, <1>5 DEF GatewayInv, GatewayStep, NativeStep, G!Requested

\* The document is there.
LEMMA DeliverInv ==
  ASSUME GatewayInv, NEW body, NEW partial, G!Deliver(body, partial),
         \/ pc = "http" /\ body = "native" /\ partial = FALSE
         \/ pc = "enrich" /\ body \in {"native", "enriched"} /\ partial = FALSE
         \/ pc \in {"fallback", "websocket", "responses"} /\ body = "synthesized" /\ partial = TRUE
  PROVE  GatewayStep
<1>1. /\ document' = [body |-> body, stage |-> picked.stage, partial |-> partial]
      /\ api' = api /\ picked' = picked /\ pc' = "exported" /\ calls' = <<>>
  BY SpotsArePoints DEF G!Deliver, G!Goto, G!NoCalls, Spots
<1>2. ApiOf(api)' /\ Sound(picked, api.type)'
  BY <1>1 DEF GatewayInv, ApiOf, Sound
<1>3. ProvenanceIsTrue'
  BY <1>1 DEF GatewayInv, ProvenanceIsTrue, G!ProvenanceIsTrue, Sound
<1> QED BY <1>1, <1>2, <1>3 DEF GatewayInv, GatewayStep, NativeStep, Spots, G!Ends

\* A stage is chosen, or none.
LEMMA ChosenInv ==
  ASSUME GatewayInv, pc \in {"stages", "mappings"}, NEW choice, G!Chosen(choice), Sound(choice, api.type),
         ~G!Requested => Unequalled(choice)
  PROVE  GatewayStep
<1> DEFINE p == IF choice = G!Refused THEN (IF api.caller = "discover" THEN "skipped" ELSE "review")
                ELSE IF api.caller = "discover" THEN "tags" ELSE G!ExportPoint
<1>1. /\ picked' = choice /\ api' = [G!Nobody EXCEPT !.type = api.type, !.caller = api.caller]
      /\ document' = document /\ G!Goto(p)
  BY DEF G!Chosen, G!Select
<1>2. /\ api.type \in {"REST", "HTTP", "WEBSOCKET"} /\ api.caller \in {"discover", "resolve"}
      /\ document = G!NoDocument
  BY DEF GatewayInv, ApiOf, G!Types, Spots
<1>3. /\ p \in {"skipped", "review", "tags", "rest", "http", "websocket"}
      /\ p = "rest" => api.type = "REST"
      /\ p = "http" => api.type = "HTTP"
      /\ p = "websocket" => api.type = "WEBSOCKET"
  BY <1>2 DEF G!ExportPoint
<1> HIDE DEF p
<1>4. /\ pc' = p /\ (p \in Spots => DOMAIN calls' = G!Reads[p])
      /\ \A c \in DOMAIN calls' : calls'[c] \in Call
  BY <1>1, <1>3, GotoFacts DEF Spots, G!Ends
<1>5. api'.type = api.type /\ api'.caller = api.caller /\ api'.stages = {}
  BY <1>1 DEF G!Nobody
<1>6. ApiOf(api)'
  BY <1>2, <1>5 DEF ApiOf, G!Types
<1>7. ProvenanceIsTrue'
  BY <1>3, <1>4 DEF ProvenanceIsTrue, G!ProvenanceIsTrue
<1>8. NeverStep
  BY <1>1 DEF NeverStep, Unequalled
<1>9. Sound(picked, api.type)'
  BY <1>1, <1>5 DEF Sound
<1>10. pc' \in {"idle"} \cup Spots \cup G!Ends /\ pc' \notin {"mappings", "enrich", "fallback", "responses"}
  BY <1>3, <1>4 DEF Spots, G!Ends
<1>11. NativeStep
  BY DEF NativeStep
<1>12. /\ document' = G!NoDocument /\ document'.body \in {"none", "native", "enriched", "synthesized"}
       /\ pc' \in Spots => DOMAIN calls' = G!Reads[pc']
       /\ pc' = "rest" => api'.type = "REST"
       /\ pc' = "http" => api'.type = "HTTP"
       /\ pc' = "websocket" => api'.type = "WEBSOCKET"
  BY <1>1, <1>2, <1>3, <1>4, <1>5 DEF GatewayInv
<1>13. GatewayInv'
  BY <1>4, <1>6, <1>7, <1>9, <1>10, <1>12 DEF GatewayInv
<1> QED BY <1>8, <1>11, <1>13 DEF GatewayStep

LEMMA ChooseInv ==
  ASSUME GatewayInv
  PROVE  /\ pc = "stages" /\ (G!Requested \/ G!Newest) /\ G!Chosen(G!RequestedStage) => GatewayStep
         /\ pc = "mappings" /\ ~G!Requested =>
              \A linked \in {{}, api.mapped} : G!Chosen(G!EvidencedStage(linked)) => GatewayStep
<1>1. ASSUME pc = "stages", G!Requested \/ G!Newest, G!Chosen(G!RequestedStage) PROVE GatewayStep
  <2> DEFINE c == G!RequestedStage
  <2>1. Sound(c, api.type) /\ (~G!Requested => Unequalled(c)) /\ G!Chosen(c)
    BY <1>1, ChoicesAreSound, EqualsAreLeft
  <2> HIDE DEF c
  <2> QED BY <1>1, <2>1, ChosenInv
<1>2. ASSUME pc = "mappings", ~G!Requested, NEW linked \in {{}, api.mapped},
             G!Chosen(G!EvidencedStage(linked))
      PROVE  GatewayStep
  <2> DEFINE c == G!EvidencedStage(linked)
  <2>1. Sound(c, api.type) /\ Unequalled(c) /\ G!Chosen(c)
    BY <1>2, ChoicesAreSound, EqualsAreLeft
  <2> HIDE DEF c
  <2> QED BY <1>2, <2>1, ChosenInv
<1> QED BY <1>1, <1>2

\* All calls of a point are answered.
LEMMA EndPointInv ==
  ASSUME GatewayInv, pc \in Spots, G!Answered
  PROVE  GatewayStep
<1> USE DEF Spots
<1>1. CASE pc = "stages"
  <2>1. CASE G!Requested \/ G!Newest
    <3>1. G!Chosen(G!RequestedStage)
      BY <1>1, <2>1 DEF G!Answered
    <3> QED BY <1>1, <2>1, <3>1, ChooseInv
  <2>2. CASE ~(G!Requested \/ G!Newest)
    <3>1. G!Goto("mappings") /\ UNCHANGED <<api, picked, document>>
      BY <1>1, <2>2 DEF G!Answered
    <3> QED BY <1>1, <2>2, <3>1, OnwardInv
  <2> QED BY <2>1, <2>2
<1>2. CASE pc = "mappings"
  <2>1. G!Chosen(G!EvidencedStage(api.mapped))
    BY <1>2 DEF G!Answered
  <2> QED BY <1>2, <2>1, ChooseInv DEF GatewayInv
<1>3. CASE pc = "tags"
  <2>1. G!Goto(G!ExportPoint) /\ UNCHANGED <<api, picked, document>>
    BY <1>3 DEF G!Answered
  <2>2. \/ G!ExportPoint = "rest" /\ api.type = "REST"
        \/ G!ExportPoint = "http" /\ api.type = "HTTP"
        \/ G!ExportPoint = "websocket" /\ api.type = "WEBSOCKET"
    BY DEF G!ExportPoint, GatewayInv, ApiOf, G!Types
  <2>3. PICK p : p = G!ExportPoint
    OBVIOUS
  <2>4. G!Goto(p)
    BY <2>1, <2>3
  <2> QED BY <1>3, <2>1, <2>2, <2>3, <2>4, OnwardInv
<1>4. CASE pc = "rest"
  <2>1. G!Goto("enrich") /\ UNCHANGED <<api, picked, document>>
    BY <1>4 DEF G!Answered
  <2> QED BY <1>4, <2>1, OnwardInv DEF GatewayInv
<1>5. CASE pc = "http"
  <2>1. G!Deliver("native", FALSE)
    BY <1>5 DEF G!Answered
  <2> QED BY <1>5, <2>1, DeliverInv
<1>6. CASE pc = "enrich"
  <2>1. PICK body \in {"native", "enriched"} : G!Deliver(body, FALSE)
    BY <1>6 DEF G!Answered
  <2> QED BY <1>6, <2>1, DeliverInv
<1>7. CASE pc \in {"fallback", "responses"}
  <2>1. G!Deliver("synthesized", TRUE)
    BY <1>7 DEF G!Answered
  <2> QED BY <1>7, <2>1, DeliverInv
<1>8. CASE pc = "websocket"
  <2>1. \/ G!Goto("responses") /\ UNCHANGED <<api, picked, document>>
        \/ G!Deliver("synthesized", TRUE)
    BY <1>8 DEF G!Answered
  <2>2. CASE G!Goto("responses") /\ UNCHANGED <<api, picked, document>>
    BY <1>8, <2>2, OnwardInv DEF GatewayInv
  <2>3. CASE G!Deliver("synthesized", TRUE)
    BY <1>8, <2>3, DeliverInv
  <2> QED BY <2>1, <2>2, <2>3
<1> QED BY <1>1, <1>2, <1>3, <1>4, <1>5, <1>6, <1>7, <1>8

\* A call of a point is refused, or its listing cannot be read to the end.
LEMMA LoseInv ==
  ASSUME GatewayInv, pc \in Spots, NEW r, G!Lose(r)
  PROVE  GatewayStep
<1> USE DEF Spots
<1>1. CASE pc = "mappings"
  <2>1. G!Chosen(G!EvidencedStage({}))
    BY <1>1 DEF G!Lose
  <2> QED BY <1>1, <2>1, ChooseInv DEF GatewayInv
<1>2. CASE pc = "rest" /\ r = "limit"
  <2>1. G!Goto("fallback") /\ UNCHANGED <<api, picked, document>>
    BY <1>2 DEF G!Lose
  <2> QED BY <1>2, <2>1, OnwardInv DEF GatewayInv
<1>3. CASE pc = "enrich"
  <2>1. G!Deliver("native", FALSE)
    BY <1>3 DEF G!Lose
  <2> QED BY <1>3, <2>1, DeliverInv
<1>4. CASE pc \notin {"mappings", "enrich"} /\ ~(pc = "rest" /\ r = "limit")
  <2>1. G!Lost(r)
    BY <1>4 DEF G!Lose
  <2>2. PICK p : /\ p \in {"review", "failed"} /\ G!Goto(p)
                 /\ UNCHANGED <<api, picked, document>>
    BY <2>1 DEF G!Lost
  <2> QED BY <1>4, <2>2, OnwardInv
<1> QED BY <1>1, <1>2, <1>3, <1>4

\* A page that is not the last.
LEMMA MorePagesInv ==
  ASSUME GatewayInv, pc \in Spots, UNCHANGED <<api, pc, picked, document>>,
         DOMAIN calls' = DOMAIN calls, \A c \in DOMAIN calls' : calls'[c] \in Call
  PROVE  GatewayStep
<1>1. ApiOf(api)' /\ Sound(picked, api.type)' /\ (pc' = "mappings" => ~G!Requested')
  BY DEF GatewayInv, ApiOf, Sound, G!Requested
<1>2. ProvenanceIsTrue'
  BY DEF GatewayInv, ProvenanceIsTrue, G!ProvenanceIsTrue
<1>3. GatewayInv'
  BY <1>1, <1>2 DEF GatewayInv
<1>4. NativeStep
  BY DEF GatewayInv, NativeStep, G!NoDocument
<1> QED BY <1>3, <1>4 DEF GatewayStep

LEMMA ReadInv ==
  ASSUME GatewayInv, G!Read
  PROVE  GatewayStep
<1>1. ASSUME NEW c \in DOMAIN calls, NEW token \in Tokens \cup {NoToken}, G!Page(c, token)
      PROVE  GatewayStep
  <2> DEFINE more == [calls EXCEPT ![c].pages = calls[c].pages + 1, ![c].seen = calls[c].seen \cup {token}]
             over == [calls EXCEPT ![c] = [pages |-> 1, seen |-> {}, done |-> TRUE]]
  <2>1. pc \in Spots /\ calls[c] \in Call
    BY <1>1, SpotsArePoints DEF G!Page, G!Open, GatewayInv
  <2>2. \/ G!Lose("other")
        \/ /\ token \in Tokens /\ calls[c].pages # MaxPages /\ calls' = more
           /\ UNCHANGED <<api, pc, picked, document>>
        \/ G!Answered
        \/ calls' = over /\ UNCHANGED <<api, pc, picked, document>>
    BY <1>1 DEF G!Page
  <2>3. CASE G!Lose("other")
    BY <2>1, <2>3, LoseInv
  <2>4. CASE G!Answered
    BY <2>1, <2>4, EndPointInv
  <2>5. CASE /\ token \in Tokens /\ calls[c].pages # MaxPages /\ calls' = more
             /\ UNCHANGED <<api, pc, picked, document>>
    <3>1. DOMAIN more = DOMAIN calls /\ \A d \in DOMAIN calls : d # c => more[d] = calls[d]
      OBVIOUS
    <3>2. more[c] = [calls[c] EXCEPT !.pages = calls[c].pages + 1, !.seen = calls[c].seen \cup {token}]
      OBVIOUS
    <3>3. calls[c].pages + 1 \in 1 .. MaxPages /\ calls[c].seen \cup {token} \in SUBSET Tokens
      BY <2>1, <2>5, AwsProvidersAssumption DEF Call
    <3>4. more[c] \in Call
      BY <2>1, <3>2, <3>3 DEF Call
    <3> HIDE DEF more
    <3> QED BY <2>1, <2>5, <3>1, <3>4, MorePagesInv DEF GatewayInv
  <2>6. CASE calls' = over /\ UNCHANGED <<api, pc, picked, document>>
    <3>1. /\ DOMAIN over = DOMAIN calls /\ \A d \in DOMAIN calls : d # c => over[d] = calls[d]
          /\ over[c] = [pages |-> 1, seen |-> {}, done |-> TRUE]
      OBVIOUS
    <3>2. over[c] \in Call
      BY <3>1, AwsProvidersAssumption DEF Call
    <3> HIDE DEF over
    <3> QED BY <2>1, <2>6, <3>1, <3>2, MorePagesInv DEF GatewayInv
  <2> QED BY <2>2, <2>3, <2>4, <2>5, <2>6
<1>2. ASSUME NEW c \in DOMAIN calls, NEW r \in G!Refusals, G!Refuse(c, r)
      PROVE  GatewayStep
  <2>1. pc \in Spots /\ G!Lose(r)
    BY <1>2, SpotsArePoints DEF G!Refuse, G!Open
  <2> QED BY <2>1, LoseInv
<1> QED BY <1>1, <1>2 DEF G!Read

LEMMA BeginInv ==
  ASSUME GatewayInv, NEW a \in Apis, G!Begin(a)
  PROVE  GatewayStep
<1>1. /\ pc = "idle" /\ api' = a /\ G!Goto("stages") /\ picked' = G!Refused
      /\ document' = G!NoDocument
  BY DEF G!Begin
<1>2. /\ pc' = "stages" /\ DOMAIN calls' = G!Reads["stages"]
      /\ \A c \in DOMAIN calls' : calls'[c] \in Call
  BY <1>1, GotoFacts DEF Spots
<1>3. ApiOf(api)'
  BY <1>1, SetupsAssumption DEF ApiOf
<1>4. Sound(picked, api.type)'
  BY <1>1 DEF Sound, G!Refused
<1>5. ProvenanceIsTrue'
  BY <1>2 DEF ProvenanceIsTrue, G!ProvenanceIsTrue
<1>6. NativeStep /\ NeverStep
  BY <1>1 DEF NativeStep, NeverStep, G!Refused
<1> QED BY <1>1, <1>2, <1>3, <1>4, <1>5, <1>6
       DEF GatewayInv, GatewayStep, Spots, G!NoDocument

LEMMA GatewayEndedInv ==
  ASSUME GatewayInv, GatewayEnded
  PROVE  GatewayStep
<1>1. /\ pc \in G!Ends /\ pc' = "idle" /\ api' = G!Nobody /\ calls' = <<>>
      /\ picked' = G!Refused /\ document' = G!NoDocument
  BY DEF GatewayEnded, G!NoCalls
<1>2. ApiOf(api)' /\ Sound(picked, api.type)'
  BY <1>1 DEF ApiOf, Sound, G!Nobody, G!Refused, G!Types
<1>3. ProvenanceIsTrue' /\ NativeStep /\ NeverStep
  BY <1>1 DEF ProvenanceIsTrue, G!ProvenanceIsTrue, NativeStep, NeverStep, G!Refused, G!Ends
<1> QED BY <1>1, <1>2, <1>3 DEF GatewayInv, GatewayStep, Spots, G!NoDocument

-----------------------------------------------------------------------------
(* The sweep around it.                                                    *)

Astray ==
  ~(Expected(setup.account, setup.caller.account) /\ Expected(setup.partition, setup.caller.partition))

(* What makes WrongAccountUntouched inductive: with the wrong credentials the run never leaves the  *)
(* preflight but to end.                                                                            *)
AccountInv ==
  /\ {"gateways", "account", "partition", "caller"} \subseteq DOMAIN setup
  /\ setup.gateways \in Seq(Apis)
  /\ Astray => stage \in {"preflight", "aborted"}
  /\ WrongAccountUntouched

LEMMA SweepInitInv == SweepInit => AccountInv /\ GatewayInv
<1> SUFFICES ASSUME SweepInit PROVE AccountInv /\ GatewayInv
  OBVIOUS
<1>1. /\ SetupOf(setup) /\ stage = "preflight" /\ phase = "probe" /\ pc = "idle"
      /\ \A i \in Places : verdict[i] = "pending"
  BY SetupsAssumption DEF SweepInit, Init, G!Init
<1>2. AccountInv
  BY <1>1 DEF AccountInv, SetupOf, WrongAccountUntouched
<1>3. /\ api = G!Nobody /\ calls = <<>> /\ picked = G!Refused /\ document = G!NoDocument
  BY DEF SweepInit, G!Init, G!NoCalls
<1>4. ApiOf(api) /\ Sound(picked, api.type)
  BY <1>3 DEF ApiOf, Sound, G!Nobody, G!Refused, G!Types
<1>5. ProvenanceIsTrue
  BY <1>1 DEF ProvenanceIsTrue, G!ProvenanceIsTrue
<1>6. GatewayInv
  BY <1>1, <1>3, <1>4, <1>5 DEF GatewayInv, Spots, G!NoDocument
<1> QED BY <1>2, <1>6

LEMMA AccountNextInv == AccountInv /\ [SweepNext]_sweep => AccountInv'
<1> SUFFICES ASSUME AccountInv, [SweepNext]_sweep PROVE AccountInv'
  OBVIOUS
<1>1. CASE UNCHANGED <<setup, gateway, vars>> /\ (Astray => stage' \in {"preflight", "aborted"})
  BY <1>1 DEF AccountInv, WrongAccountUntouched, Astray, gateway, vars, Places
<1>2. CASE PreflightSkipped
  <2>1. ~Astray
    BY <1>2 DEF PreflightSkipped, shouldResolveCallerIdentity, Astray, Expected
  <2> QED BY <1>1, <1>2, <2>1 DEF PreflightSkipped
<1>3. CASE PreflightChecked
  <2>1. Astray => stage' = "aborted"
    BY <1>3 DEF PreflightChecked, Astray
  <2> QED BY <1>1, <1>3, <2>1 DEF PreflightChecked
<1>4. CASE UNCHANGED setup /\ stage \notin {"preflight", "aborted"}
  BY <1>4 DEF AccountInv, WrongAccountUntouched, Astray
<1>5. CASE Ask \/ AskProviders \/ ReadGateway \/ GatewayEnded \/ GatewaysEnded
  BY <1>4, <1>5 DEF Ask, AskProviders, ReadGateway, GatewayEnded, GatewaysEnded
<1>6. CASE BeginGateway
  <2>1. /\ stage = "gateways" /\ setup.gateways # <<>>
        /\ setup' = [setup EXCEPT !.gateways = Tail(setup.gateways)]
    BY <1>6 DEF BeginGateway
  <2>2. /\ DOMAIN setup' = DOMAIN setup /\ setup'.account = setup.account
        /\ setup'.partition = setup.partition /\ setup'.caller = setup.caller
        /\ setup'.gateways = Tail(setup.gateways)
    BY <2>1 DEF AccountInv
  <2>3. Tail(setup.gateways) \in Seq(Apis)
    BY <2>1, TailFacts DEF AccountInv
  <2>4. ~Astray /\ ~Astray'
    BY <2>1, <2>2 DEF AccountInv, Astray
  <2> QED BY <2>2, <2>3, <2>4 DEF AccountInv, WrongAccountUntouched, Astray
<1>7. CASE UNCHANGED sweep
  BY <1>7 DEF sweep, gateway, vars, AccountInv, WrongAccountUntouched, Astray, Places
<1> QED BY <1>2, <1>3, <1>5, <1>6, <1>7 DEF SweepNext, Preflight, Gateways

LEMMA GatewaySteps ==
  AccountInv /\ GatewayInv /\ [SweepNext]_sweep => GatewayStep \/ (GatewayInv' /\ UNCHANGED gateway)
<1> SUFFICES ASSUME AccountInv, GatewayInv, [SweepNext]_sweep
             PROVE  GatewayStep \/ (GatewayInv' /\ UNCHANGED gateway)
  OBVIOUS
<1>1. CASE UNCHANGED gateway
  <2>1. UNCHANGED <<api, pc, calls, picked, document>>
    BY <1>1 DEF gateway
  <2>2. /\ ApiOf(api)' /\ Sound(picked, api.type)' /\ ProvenanceIsTrue'
        /\ (pc' = "mappings" => ~G!Requested')
    BY <2>1 DEF GatewayInv, ApiOf, Sound, ProvenanceIsTrue, G!ProvenanceIsTrue, G!Requested
  <2>3. GatewayInv'
    BY <2>1, <2>2 DEF GatewayInv
  <2> QED BY <1>1, <2>3
<1>2. CASE Preflight \/ Ask \/ GatewaysEnded \/ AskProviders
  BY <1>1, <1>2 DEF Preflight, PreflightSkipped, PreflightChecked, Ask, GatewaysEnded, AskProviders
<1>3. CASE BeginGateway
  <2>1. Head(setup.gateways) \in Apis
    BY <1>3, TailFacts DEF BeginGateway, AccountInv
  <2>2. PICK a \in Apis : G!Begin(a)
    BY <1>3, <2>1 DEF BeginGateway
  <2> QED BY <2>2, BeginInv
<1>4. CASE ReadGateway
  BY <1>4, ReadInv DEF ReadGateway
<1>5. CASE GatewayEnded
  BY <1>5, GatewayEndedInv
<1>6. CASE UNCHANGED sweep
  BY <1>1, <1>6 DEF sweep
<1> QED BY <1>2, <1>3, <1>4, <1>5, <1>6 DEF SweepNext, Gateways

LEMMA AlwaysGateway == SweepSpec => [](AccountInv /\ GatewayInv)
<1>1. AccountInv /\ GatewayInv /\ [SweepNext]_sweep => (AccountInv /\ GatewayInv)'
  BY AccountNextInv, GatewaySteps DEF GatewayStep
<1> QED BY <1>1, SweepInitInv, PTL DEF SweepSpec

\* Nothing is asked of an account or a partition that the inputs do not expect, whoever the
\* credentials belong to (runPreflight, execute).
THEOREM StrangersAreUntouched == SweepSpec => []WrongAccountUntouched
<1>1. AccountInv => WrongAccountUntouched
  BY DEF AccountInv
<1> QED BY <1>1, AlwaysGateway, PTL

\* The provenance of a document says how it was read, for every set of stages and mappings
\* (resolveStageSelection, exportSpec).
THEOREM ProvenanceStaysTrue == SweepSpec => []ProvenanceIsTrue
<1>1. GatewayInv => ProvenanceIsTrue
  BY DEF GatewayInv
<1> QED BY <1>1, AlwaysGateway, PTL

\* Once AWS has exported a REST API the export succeeds whatever happens to the listings that
\* complete it (exportRestApi).
THEOREM ExportsSurvive == SweepSpec => NativeSurvives
<1>1. AccountInv /\ GatewayInv /\ [SweepNext]_sweep => NativeStep \/ UNCHANGED gateway
  BY GatewaySteps DEF GatewayStep
<1> QED BY <1>1, AlwaysGateway, PTL DEF SweepSpec, NativeSurvives, G!NativeSurvives, NativeStep, gateway, G!vars

\* Of two stages that nothing tells apart none is chosen (resolveStageSelection).
THEOREM EqualsAreNotChosen == SweepSpec => NeverBetweenEquals
<1>1. AccountInv /\ GatewayInv /\ [SweepNext]_sweep => NeverStep \/ UNCHANGED <<api, picked>>
  BY GatewaySteps DEF GatewayStep, gateway
<1> QED BY <1>1, AlwaysGateway, PTL DEF SweepSpec, NeverBetweenEquals, G!NeverBetweenEquals, NeverStep

-----------------------------------------------------------------------------
(* The table of the providers.                                             *)

\* On the way to a candidate no failure is answered with nothing, but that a thing is gone; and a
\* candidate that may be gone is asked for in one page.
CallOf(c) == c.pages \in Nat /\ c.stop = "throw"
LegOf(l) ==
  /\ Len(l.calls) \in 1 .. Depth /\ l.at \in 1 .. Len(l.calls)
  /\ \A d \in 1 .. Len(l.calls) :
       /\ CallOf(l.calls[d])
       /\ d <= l.at => l.calls[d].empty \subseteq {"gone"}
       /\ d = l.at /\ "gone" \in l.calls[d].empty => l.calls[d].pages = 0

ProviderOf(p) ==
  /\ Len(p.legs) \in Nat /\ Len(p.legs) # 0
  /\ \A i \in 1 .. Len(p.legs) : LegOf(p.legs[i])
  /\ \A e \in p.exports : e.ends => e.doc \in Result

Listed == Types \ {"api"}

LEMMA LegFacts ==
  ASSUME NEW a, NEW b, NEW c, CallOf(a), CallOf(b), CallOf(c), a.empty = {}
  PROVE  /\ LegOf(Leg(<<a>>, 1)) /\ LegOf(Leg(<<a, b>>, 1))
         /\ b.empty = {} => LegOf(Leg(<<a, b>>, 2))
         /\ b.empty = {} /\ c.empty = {} => LegOf(Leg(<<a, b, c>>, 3))
         /\ b.empty = {"gone"} /\ b.pages = 0 => LegOf(Leg(<<a, b, c>>, 2))
<1> USE DEF LegOf, Leg, Depth
<1>1. LegOf(Leg(<<a>>, 1))
  <2>1. \A d \in 1 .. 1 : d = 1
    OBVIOUS
  <2> QED BY <2>1
<1>2. \A d \in 1 .. 2 : d = 1 \/ d = 2
  OBVIOUS
<1>3. LegOf(Leg(<<a, b>>, 1))
  BY <1>2
<1>4. ASSUME b.empty = {} PROVE LegOf(Leg(<<a, b>>, 2))
  BY <1>2, <1>4
<1>5. \A d \in 1 .. 3 : d = 1 \/ d = 2 \/ d = 3
  OBVIOUS
<1>6. ASSUME b.empty = {}, c.empty = {} PROVE LegOf(Leg(<<a, b, c>>, 3))
  BY <1>5, <1>6
<1>7. ASSUME b.empty = {"gone"}, b.pages = 0 PROVE LegOf(Leg(<<a, b, c>>, 2))
  BY <1>5, <1>7
<1> QED BY <1>1, <1>3, <1>4, <1>6, <1>7

LEMMA CallFacts ==
  /\ CallOf(Single) /\ CallOf(Paged) /\ Single.empty = {} /\ Paged.empty = {}
  /\ CallOf(Caught(Single)) /\ CallOf(Caught(Paged)) /\ CallOf(Missing(Single))
  /\ CallOf(Caught(Missing(Single)))
  /\ Missing(Single).empty = {"gone"} /\ Missing(Single).pages = 0
BY AwsProvidersAssumption DEF CallOf, Single, Paged, Caught, Missing

LEMMA OneLegFacts ==
  ASSUME NEW kind, NEW asks, NEW exports, NEW one, LegOf(one),
         \A e \in exports : e.ends => e.doc \in Result
  PROVE  ProviderOf(Provider(kind, asks, <<one>>, exports))
<1>1. \A i \in 1 .. 1 : i = 1
  OBVIOUS
<1> QED BY <1>1 DEF ProviderOf, Provider

LEMMA DocFacts ==
  /\ \A cs, doc : doc \in {"live", "merged", "listed"} =>
       (Export(cs, doc).ends => Export(cs, doc).doc \in Result)
  /\ \A cs : Hollow(cs).ends => Hollow(cs).doc \in Result
BY DEF Export, Hollow, Result

LEMMA TableFacts == \A t \in Listed : ProviderOf(Of(t))
<1>1. ProviderOf(AppSync)
  <2> DEFINE one == Leg(<<AppSyncReads.apis>>, 1)
  <2>1. LegOf(one)
    BY LegFacts, CallFacts DEF AppSyncReads
  <2>2. \A e \in AppSync.exports : e.ends => e.doc \in Result
    BY DocFacts DEF AppSync, Provider
  <2>3. AppSync = Provider(AppSync.kind, AppSync.asks, <<one>>, AppSync.exports)
    BY DEF AppSync, Provider
  <2> HIDE DEF one
  <2> QED BY <2>1, <2>2, <2>3, OneLegFacts
<1>2. ProviderOf(AppSyncEvents)
  BY LegFacts, CallFacts, OneLegFacts, DocFacts DEF AppSyncEvents, EventApiReads
<1>3. ProviderOf(EventBridgeSchemas)
  BY LegFacts, CallFacts, OneLegFacts, DocFacts DEF EventBridgeSchemas, SchemaReads
<1>4. ProviderOf(CloudFormation)
  <2> DEFINE one == Leg(<<StackReads.stacks, StackReads.resources>>, 2)
  <2>1. LegOf(one)
    BY LegFacts, CallFacts DEF StackReads
  <2>2. \A e \in CloudFormation.exports : e.ends => e.doc \in Result
    BY DocFacts DEF CloudFormation, Provider
  <2>3. CloudFormation = Provider(CloudFormation.kind, CloudFormation.asks, <<one>>, CloudFormation.exports)
    BY DEF CloudFormation, Provider
  <2> HIDE DEF one
  <2> QED BY <2>1, <2>2, <2>3, OneLegFacts
<1>5. ProviderOf(GlueSchema)
  BY LegFacts, CallFacts, OneLegFacts, DocFacts DEF GlueSchema, GlueReads
<1>6. ProviderOf(BedrockActionGroup)
  BY LegFacts, CallFacts, OneLegFacts, DocFacts DEF BedrockActionGroup, AgentReads, ObjectReads
<1>7. ProviderOf(AlbListenerRules)
  BY LegFacts, CallFacts, OneLegFacts, DocFacts DEF AlbListenerRules, BalancerReads
<1>8. ProviderOf(Ssm)
  BY LegFacts, CallFacts, OneLegFacts, DocFacts DEF Ssm, ParameterReads
<1>9. ProviderOf(LambdaUrl)
  BY LegFacts, CallFacts, OneLegFacts, DocFacts DEF LambdaUrl, LambdaReads
<1>10. ProviderOf(LambdaEventSource)
  BY LegFacts, CallFacts, OneLegFacts, DocFacts DEF LambdaEventSource, MappingReads
<1>11. ProviderOf(VerifiedPermissions)
  BY LegFacts, CallFacts, OneLegFacts, DocFacts DEF VerifiedPermissions, StoreReads
<1>12. ProviderOf(StepFunctions)
  BY LegFacts, CallFacts, OneLegFacts, DocFacts DEF StepFunctions, MachineReads
<1>13. ProviderOf(Sns)
  BY LegFacts, CallFacts, OneLegFacts, DocFacts DEF Sns, TopicReads
<1>14. ProviderOf(EventBridgeSurface)
  <2> DEFINE l1 == Leg(<<SurfaceReads.rules, Caught(SurfaceReads.targets)>>, 1)
             l2 == Leg(<<SurfaceReads.pipes>>, 1)
             l3 == Leg(<<SurfaceReads.destinations>>, 1)
  <2>1. LegOf(l1) /\ LegOf(l2) /\ LegOf(l3)
    BY LegFacts, CallFacts DEF SurfaceReads
  <2>2. EventBridgeSurface.legs = <<l1, l2, l3>>
    BY DEF EventBridgeSurface, Provider
  <2>3. \A e \in EventBridgeSurface.exports : e.ends => e.doc \in Result
    BY DocFacts DEF EventBridgeSurface, Provider
  <2> HIDE DEF l1, l2, l3
  <2>4. \A i \in 1 .. 3 : i = 1 \/ i = 2 \/ i = 3
    OBVIOUS
  <2> QED BY <2>1, <2>2, <2>3, <2>4 DEF ProviderOf
<1> QED BY <1>1, <1>2, <1>3, <1>4, <1>5, <1>6, <1>7, <1>8, <1>9, <1>10, <1>11, <1>12, <1>13, <1>14 DEF Listed, Types, Of, Table

-----------------------------------------------------------------------------
(* Probing and listing.                                                    *)

Due == {registry[i] : i \in Available(verdict)} \ {"api"}

InOrder(q) ==
  \A a, b \in DOMAIN q : a < b => \E i, j \in Places : i < j /\ registry[i] = q[a] /\ registry[j] = q[b]

(* What makes EveryoneHasATurn inductive: who is due has been listed or waits.                      *)
TurnInv ==
  /\ queue \in Seq(Listed) /\ InOrder(queue)
  /\ phase = "probe" => queue = <<>> /\ DOMAIN outcome = {}
  /\ phase # "probe" => DOMAIN outcome \cup ToSet(queue) = Due
  /\ phase \in {"list", "export"} => queue # <<>>
  /\ phase = "done" => queue = <<>>

(* What makes ListedIsWhole inductive: a candidate that AWS has shown is kept, or on a page of the  *)
(* call under way.                                                                                  *)
ListInv ==
  /\ phase \in {"probe", "turn", "done"} => cands = {} /\ served = {} /\ ~cut
  /\ phase = "list" =>
       /\ leg \in 1 .. Len(Now.legs) /\ level \in 1 .. Len(Now.legs[leg].calls) /\ pages > 0
       /\ served = cands \cup (IF Listing(level) THEN got ELSE {}) /\ ~cut
       /\ Current.pages = 0 => got = {}
  /\ phase = "export" /\ step = 0 => cands = served /\ ~cut

\* TypeOK in two parts.
ProbeTypes ==
  /\ registry \in Seq(Types)
  /\ \A i \in DOMAIN asked : asked[i] \in [1..Of(registry[i]).asks -> Answers]
  /\ verdict \in [Places -> Verdict]

ReadTypes ==
  /\ phase \in {"probe", "turn", "list", "export", "done"}
  /\ queue \in Seq(Types)
  /\ leg \in Nat /\ level \in 0..Depth /\ left \in [1..Depth -> SUBSET Nat]
  /\ pages \in Nat /\ seen \subseteq Tokens /\ got \subseteq Nat
  /\ last \in Nat /\ cands \subseteq Nat /\ served \subseteq Nat
  /\ step \in Nat /\ flag \in {"none", "complete", "partial", "denied"}
  /\ DOMAIN outcome \subseteq Types /\ \A t \in DOMAIN outcome : outcome[t] \in Result
  /\ cut \in BOOLEAN

LEMMA TypesAreBoth == TypeOK <=> ProbeTypes /\ ReadTypes
BY DEF TypeOK, ProbeTypes, ReadTypes

\* The export that was chosen is one of the provider's.
PlanInv == plan.ends => plan.doc \in Result

ProviderInv == ProbeTypes /\ ReadTypes /\ TurnInv /\ ListInv /\ PlanInv

\* What a step may do to the verdicts.
VerdictStep == \A i \in Places : verdict[i] # "pending" => verdict'[i] = verdict[i]

ProviderStep == ProviderInv' /\ VerdictStep

LEMMA ProviderInitInv == Init => ProviderInv
<1> SUFFICES ASSUME Init PROVE ProviderInv
  OBVIOUS
<1>1. registry \in Seq(Types)
  BY RegistriesAssumption DEF Init
<1>2. \A i \in DOMAIN asked : asked[i] \in [1..Of(registry[i]).asks -> Answers]
  BY DEF Init, Answers
<1>3. /\ verdict \in [Places -> Verdict] /\ phase = "probe" /\ queue = <<>> /\ leg = 0 /\ level = 0
      /\ left = Nothing /\ pages = 0 /\ seen = {} /\ got = {} /\ cands = {} /\ last = 0 /\ served = {}
      /\ step = 0 /\ flag = "none" /\ outcome = <<>> /\ cut = FALSE
  BY DEF Init, Verdict
<1>4. left \in [1 .. Depth -> SUBSET Nat]
  BY <1>3 DEF Nothing
<1>5. DOMAIN outcome = {} /\ queue \in Seq(Types) /\ queue \in Seq(Listed) /\ DOMAIN queue = {}
  BY <1>3
<1>6. ProbeTypes /\ ReadTypes
  <2>1. cut \in BOOLEAN /\ seen \subseteq Tokens
    BY <1>3
  <2>2. level \in 0 .. Depth
    BY <1>3 DEF Depth
  <2>3. ProbeTypes
    BY <1>1, <1>2, <1>3 DEF ProbeTypes
  <2> QED BY <1>3, <1>4, <1>5, <2>1, <2>2, <2>3 DEF ReadTypes
<1>7. TurnInv
  BY <1>3, <1>5 DEF TurnInv, InOrder
<1>8. ListInv
  BY <1>3 DEF ListInv
<1>9. PlanInv
  BY DEF Init, PlanInv, NoPlan, Hollow
<1> QED BY <1>6, <1>7, <1>8, <1>9 DEF ProviderInv

\* The provider whose turn it is.
LEMMA NowFacts ==
  ASSUME ProviderInv, queue # <<>>
  PROVE  /\ Head(queue) \in Listed /\ Head(queue) \in Types /\ ProviderOf(Now)
         /\ Tail(queue) \in Seq(Listed) /\ Tail(queue) \in Seq(Types) /\ InOrder(Tail(queue))
         /\ ToSet(queue) = {Head(queue)} \cup ToSet(Tail(queue))
<1>1. /\ queue \in Seq(Listed) /\ Head(queue) \in Listed /\ Tail(queue) \in Seq(Listed)
      /\ ToSet(queue) = {Head(queue)} \cup ToSet(Tail(queue))
  BY TailFacts DEF ProviderInv, TurnInv
<1>2. ProviderOf(Now)
  BY <1>1, TableFacts DEF Now
<1>3. Listed \in SUBSET Types
  BY DEF Listed
<1>4. Tail(queue) \in Seq(Types)
  BY <1>1, <1>3, SeqOfSubset
<1>5. InOrder(Tail(queue))
  <2>1. /\ DOMAIN Tail(queue) = 1 .. Len(queue) - 1 /\ DOMAIN queue = 1 .. Len(queue) /\ Len(queue) \in Nat
        /\ \A a \in DOMAIN Tail(queue) : Tail(queue)[a] = queue[a + 1]
    BY <1>1
  <2> SUFFICES ASSUME NEW a \in DOMAIN Tail(queue), NEW b \in DOMAIN Tail(queue), a < b
               PROVE  \E i, j \in Places : i < j /\ registry[i] = Tail(queue)[a] /\ registry[j] = Tail(queue)[b]
    BY DEF InOrder
  <2>2. a + 1 \in DOMAIN queue /\ b + 1 \in DOMAIN queue /\ a + 1 < b + 1
    BY <2>1
  <2> QED BY <2>1, <2>2 DEF ProviderInv, TurnInv, InOrder
<1> QED BY <1>1, <1>2, <1>3, <1>4, <1>5

\* The turn of a provider ends, with whatever came of it.
LEMMA EndTurnInv ==
  ASSUME ProviderInv, phase \in {"list", "export"}, NEW r \in Result, EndTurn(r), UNCHANGED probing
  PROVE  ProviderStep
<1>1. queue # <<>> /\ UNCHANGED <<registry, asked, verdict>>
  BY DEF ProviderInv, TurnInv, probing
<1>2. /\ outcome' = [t \in DOMAIN outcome \cup {Head(queue)} |-> IF t = Head(queue) THEN r ELSE outcome[t]]
      /\ queue' = Tail(queue) /\ phase' = "turn" /\ pages' = 0 /\ seen' = {} /\ got' = {}
      /\ leg' = 0 /\ level' = 0 /\ left' = Nothing /\ cands' = {} /\ last' = 0 /\ served' = {}
      /\ step' = 0 /\ flag' = "none" /\ cut' = FALSE
  BY DEF EndTurn, NoCall, NoList
<1>3. /\ Head(queue) \in Types /\ Tail(queue) \in Seq(Listed) /\ Tail(queue) \in Seq(Types)
      /\ InOrder(Tail(queue)) /\ ToSet(queue) = {Head(queue)} \cup ToSet(Tail(queue))
  BY <1>1, NowFacts
<1>0. ProbeTypes'
  BY <1>1 DEF ProviderInv, ProbeTypes, Places
<1>4. ReadTypes'
  <2>1. left' \in [1 .. Depth -> SUBSET Nat]
    BY <1>2 DEF Nothing
  <2>2. DOMAIN outcome' \subseteq Types /\ \A t \in DOMAIN outcome' : outcome'[t] \in Result
    BY <1>2, <1>3 DEF ProviderInv, ReadTypes
  <2>3. cut' \in BOOLEAN /\ seen' \subseteq Tokens
    BY <1>2
  <2>4. level' \in 0 .. Depth
    BY <1>2 DEF Depth
  <2> QED BY <1>2, <1>3, <2>1, <2>2, <2>3, <2>4 DEF ReadTypes
<1>5. TurnInv'
  <2>1. DOMAIN outcome' \cup ToSet(queue') = Due'
    BY <1>1, <1>2, <1>3 DEF ProviderInv, TurnInv, Due, Available, Places
  <2>2. InOrder(queue)'
    <3>1. queue' = Tail(queue) /\ registry' = registry
      BY <1>1, <1>2
    <3> QED BY <1>3, <3>1 DEF InOrder, Places
  <2> QED BY <1>2, <1>3, <2>1, <2>2 DEF TurnInv
<1>6. ListInv'
  BY <1>2 DEF ListInv
<1>7. PlanInv'
  BY DEF EndTurn, PlanInv, NoPlan, Hollow
<1> QED BY <1>0, <1>1, <1>4, <1>5, <1>6, <1>7 DEF ProviderStep, ProviderInv, VerdictStep

\* A call of a listing is over: another one begins, or the listing does end.
LEMMA DescendFacts ==
  ASSUME ProviderInv, phase = "list", NEW lf \in [1 .. Depth -> SUBSET Nat], Descend(lf)
  PROVE  /\ left' \in [1 .. Depth -> SUBSET Nat] /\ leg' \in Nat /\ level' \in 0 .. Depth
         /\ seen' = {} /\ got' = {}
         /\ \/ /\ phase' = "list" /\ pages' = 1
               /\ leg' \in 1 .. Len(Now.legs) /\ level' \in 1 .. Len(Now.legs[leg'].calls)
            \/ phase' = "export" /\ pages' = 0
<1> DEFINE calls1 == Now.legs[leg].calls
           open == {d \in 1 .. (Len(calls1) - 1) : lf[d] # {}}
<1>1. ProviderOf(Now) /\ leg \in 1 .. Len(Now.legs) /\ Len(Now.legs) \in Nat
  BY NowFacts DEF ProviderInv, TurnInv, ListInv, ProviderOf
<1>2. \A i \in 1 .. Len(Now.legs) : Len(Now.legs[i].calls) \in 1 .. 3
  BY <1>1 DEF ProviderOf, LegOf, Depth
<1>3. Len(calls1) \in 1 .. 3
  BY <1>1, <1>2
<1>4. Nothing \in [1 .. Depth -> SUBSET Nat]
  BY DEF Nothing
<1>5. CASE open # {}
  <2> DEFINE d == CHOOSE d \in open : \A e \in open : e <= d
             x == CHOOSE x \in lf[d] : \A y \in lf[d] : x <= y
  <2>1. PICK n \in 1 .. 3 : n = Len(calls1)
    BY <1>3
  <2>2. open = {c \in 1 .. n - 1 : lf[c] # {}}
    BY <2>1
  <2>3. \E c \in open : \A e \in open : e <= c
    <3> HIDE DEF calls1
    <3>1. open \subseteq 1 .. 2
      BY <2>2
    <3> HIDE DEF open
    <3>2. CASE 2 \in open
      BY <3>1, <3>2
    <3>3. CASE 2 \notin open
      <4>1. \A e \in open : e = 1
        BY <3>1, <3>3
      <4> QED BY <4>1, <1>5
    <3> QED BY <3>2, <3>3
  <2>4. d \in open
    <3> HIDE DEF open
    <3> QED BY <2>3
  <2>5. /\ level' = d + 1 /\ left' = [lf EXCEPT ![d] = lf[d] \ {x}]
        /\ leg' = leg /\ phase' = phase /\ pages' = 1 /\ seen' = {} /\ got' = {}
    BY <1>5 DEF Descend, NewCall
  <2>6. d \in 1 .. n - 1
    BY <2>2, <2>4
  <2> HIDE DEF d, x, open
  <2>7. level' \in 1 .. n /\ level' \in 0 .. Depth /\ d \in 1 .. Depth
    BY <2>5, <2>6 DEF Depth
  <2>8. left' \in [1 .. Depth -> SUBSET Nat]
    BY <2>5, <2>7
  <2> QED BY <1>1, <2>1, <2>5, <2>7, <2>8
<1>6. CASE open = {} /\ leg < Len(Now.legs)
  <2>1. /\ leg' = leg + 1 /\ level' = 1 /\ left' = Nothing /\ phase' = phase
        /\ pages' = 1 /\ seen' = {} /\ got' = {}
    BY <1>6 DEF Descend, NewCall
  <2>2. leg' \in 1 .. Len(Now.legs) /\ leg' \in Nat
    BY <1>1, <1>6, <2>1
  <2>3. PICK n \in 1 .. 3 : n = Len(Now.legs[leg'].calls)
    BY <1>2, <2>2
  <2>4. level' \in 1 .. n /\ level' \in 0 .. Depth
    BY <2>1 DEF Depth
  <2> QED BY <1>4, <2>1, <2>2, <2>3, <2>4
<1>7. CASE open = {} /\ ~(leg < Len(Now.legs))
  <2>1. /\ leg' = leg /\ level' = 0 /\ left' = Nothing /\ phase' = "export"
        /\ pages' = 0 /\ seen' = {} /\ got' = {}
    BY <1>7 DEF Descend, NoCall
  <2> QED BY <1>1, <1>4, <2>1 DEF Depth
<1> QED BY <1>5, <1>6, <1>7

\* A call of a listing is over, and what AWS has shown so far is kept.
LEMMA ListDoneInv ==
  ASSUME ProviderInv, phase = "list", NEW all \in SUBSET Nat, ListDone(all),
         served' = cands', cut' = FALSE, last' \in Nat
  PROVE  ProviderStep
<1> DEFINE lf == IF level < Len(Now.legs[leg].calls) THEN [left EXCEPT ![level] = all] ELSE left
<1>1. /\ UNCHANGED <<registry, asked, verdict, queue, plan, step, flag, outcome>> /\ Descend(lf)
      /\ cands' = IF Listing(level) THEN cands \cup all ELSE cands
  BY DEF ListDone, probing
<1>2. lf \in [1 .. Depth -> SUBSET Nat]
  BY DEF ProviderInv, ReadTypes
<1> HIDE DEF lf
<1>3. /\ left' \in [1 .. Depth -> SUBSET Nat] /\ leg' \in Nat /\ level' \in 0 .. Depth
      /\ seen' = {} /\ got' = {}
      /\ \/ /\ phase' = "list" /\ pages' = 1
            /\ leg' \in 1 .. Len(Now.legs) /\ level' \in 1 .. Len(Now.legs[leg'].calls)
         \/ phase' = "export" /\ pages' = 0
  BY <1>1, <1>2, DescendFacts
<1>4. ProbeTypes' /\ VerdictStep
  BY <1>1 DEF ProviderInv, ProbeTypes, VerdictStep, Places
<1>5. ReadTypes'
  <2>1. cands' \subseteq Nat /\ cut' \in BOOLEAN /\ seen' \subseteq Tokens
    BY <1>1, <1>3 DEF ProviderInv, ReadTypes
  <2> QED BY <1>1, <1>3, <2>1 DEF ProviderInv, ReadTypes
<1>6. TurnInv'
  <2>1. DOMAIN outcome' \cup ToSet(queue') = Due' /\ InOrder(queue)'
    BY <1>1 DEF ProviderInv, TurnInv, Due, Available, InOrder, Places
  <2> QED BY <1>1, <1>3, <2>1 DEF ProviderInv, TurnInv
<1>7. Now' = Now
  BY <1>1 DEF Now
<1>8. ListInv'
  BY <1>3, <1>7 DEF ListInv
<1>9. PlanInv'
  BY <1>1 DEF ProviderInv, PlanInv
<1> QED BY <1>4, <1>5, <1>6, <1>8, <1>9 DEF ProviderStep, ProviderInv

\* A call of an export is over.
LEMMA NextExportCallInv ==
  ASSUME ProviderInv, phase = "export", NextExportCall,
         flag' \in {"none", "complete", "partial", "denied"}, cut' \in BOOLEAN
  PROVE  ProviderStep
<1>1. /\ UNCHANGED <<registry, asked, verdict, phase, queue, leg, level, left, cands, last, served, plan, outcome>>
      /\ step' = step + 1 /\ pages' \in {0, 1} /\ seen' = {} /\ got' = {}
  BY DEF NextExportCall, NewCall, NoCall, probing, listing
<1>2. ProbeTypes' /\ VerdictStep
  BY <1>1 DEF ProviderInv, ProbeTypes, VerdictStep, Places
<1>3. ReadTypes'
  BY <1>1 DEF ProviderInv, ReadTypes
<1>4. TurnInv'
  <2>1. DOMAIN outcome' \cup ToSet(queue') = Due' /\ InOrder(queue)'
    BY <1>1 DEF ProviderInv, TurnInv, Due, Available, InOrder, Places
  <2> QED BY <1>1, <2>1 DEF ProviderInv, TurnInv
<1>5. ListInv'
  BY <1>1 DEF ProviderInv, ReadTypes, ListInv
<1>6. PlanInv'
  BY <1>1 DEF ProviderInv, PlanInv
<1> QED BY <1>2, <1>3, <1>4, <1>5, <1>6 DEF ProviderStep, ProviderInv

\* A call that fails is answered with nothing, or ends the turn.
LEMMA ThrownInv ==
  ASSUME ProviderInv, phase \in {"list", "export"}, NEW f, Thrown(f)
  PROVE  ProviderStep
<1>1. CASE phase = "list" /\ f \in Current.empty
  <2>1. ListDone({}) /\ last' = last /\ served' = served
        /\ cut' = (cut \/ (level <= Now.legs[leg].at /\ f # "gone"))
    BY <1>1 DEF Thrown
  <2>2. /\ leg \in 1 .. Len(Now.legs) /\ level \in 1 .. Len(Now.legs[leg].calls)
        /\ served = cands \cup (IF Listing(level) THEN got ELSE {}) /\ cut = FALSE
        /\ Current.pages = 0 => got = {}
    BY <1>1 DEF ProviderInv, ListInv, ReadTypes
  <2>3. LegOf(Now.legs[leg]) /\ Current = Now.legs[leg].calls[level]
    BY <1>1, <2>2, NowFacts DEF ProviderInv, TurnInv, ProviderOf, Current
  <2>4. level <= Now.legs[leg].at => f = "gone"
    BY <1>1, <2>2, <2>3 DEF LegOf
  <2>5. Listing(level) => Current.pages = 0
    BY <1>1, <2>2, <2>3, <2>4 DEF LegOf, Listing
  <2>6. served' = cands' /\ cut' = FALSE
    BY <2>1, <2>2, <2>4, <2>5 DEF ListDone
  <2>7. last' \in Nat
    BY <2>1 DEF ProviderInv, ReadTypes
  <2> QED BY <1>1, <2>1, <2>6, <2>7, ListDoneInv
<1>2. CASE phase = "export" /\ f \in Current.empty
  <2>1. NextExportCall
    BY <1>2 DEF Thrown
  <2>2. cut' \in BOOLEAN /\ flag' \in {"none", "complete", "partial", "denied"}
    <3>1. CASE Current.stop = "truncate"
      BY <1>2, <3>1 DEF Thrown
    <3>2. CASE Current.stop # "truncate"
      BY <1>2, <3>2 DEF Thrown, ProviderInv, ReadTypes
    <3> QED BY <3>1, <3>2
  <2> QED BY <1>2, <2>1, <2>2, NextExportCallInv
<1>3. CASE f \notin Current.empty
  <2>1. UNCHANGED probing /\ (EndTurn("unlisted") \/ EndTurn("failed"))
    BY <1>3 DEF Thrown
  <2> QED BY <2>1, EndTurnInv DEF Result
<1> QED BY <1>1, <1>2, <1>3

\* A page arrives.
LEMMA PageInv ==
  ASSUME ProviderInv, NEW n \in 0 .. PageSize, NEW token \in Tokens \cup {NoToken}, Page(n, token)
  PROVE  ProviderStep
<1> DEFINE things == got \cup (last + 1) .. (last + n)
<1>1. /\ phase \in {"list", "export"} /\ n \in Nat /\ last \in Nat /\ pages \in Nat /\ pages > 0
      /\ last + n \in Nat /\ things \in SUBSET Nat
      /\ cut \in BOOLEAN
  BY AwsProvidersAssumption DEF Page, Reading, ProviderInv, ReadTypes
<1>2. CASE token \in seen
  BY <1>1, <1>2, ThrownInv DEF Page
<1>3. CASE token \notin seen /\ token # NoToken /\ pages < Current.pages
  <2>1. /\ pages' = pages + 1 /\ seen' = seen \cup {token} /\ got' = things /\ last' = last + n
        /\ served' = IF phase = "list" /\ Listing(level) THEN served \cup things ELSE served
        /\ UNCHANGED <<registry, asked, verdict, phase, queue, leg, level, left, cands, plan, step, flag,
                       outcome, cut>>
    BY <1>3 DEF Page, probing
  <2> HIDE DEF things
  <2>2. ProbeTypes' /\ VerdictStep
    BY <2>1 DEF ProviderInv, ProbeTypes, VerdictStep, Places
  <2>3. ReadTypes'
    <3>1. served' \subseteq Nat /\ seen' \subseteq Tokens /\ got' \subseteq Nat
      BY <1>1, <1>3, <2>1 DEF ProviderInv, ReadTypes
    <3>2. pages' \in Nat /\ last' \in Nat
      BY <1>1, <2>1
    <3>3. cut' \in BOOLEAN
      BY <1>1, <2>1
    <3> QED BY <2>1, <3>1, <3>2, <3>3 DEF ProviderInv, ReadTypes
  <2>4. TurnInv'
    <3>1. DOMAIN outcome' \cup ToSet(queue') = DOMAIN outcome \cup ToSet(queue) /\ Due' = Due /\ InOrder(queue)' = InOrder(queue)
      BY <2>1 DEF Due, Available, InOrder, Places
    <3> QED BY <2>1, <3>1 DEF ProviderInv, TurnInv
  <2>5. /\ Now' = Now /\ Listing(level)' = Listing(level)
        /\ phase = "list" => Current' = Current
    BY <2>1 DEF Now, Listing, Current
  <2>6. got \subseteq things
    BY DEF things
  <2>7. ListInv'
    <3>1. CASE phase = "list"
      <4>1. /\ leg' \in 1 .. Len(Now'.legs) /\ level' \in 1 .. Len(Now'.legs[leg'].calls) /\ pages' > 0
        BY <1>1, <2>1, <2>5, <3>1 DEF ProviderInv, ListInv
      <4>2. served' = cands' \cup (IF Listing(level)' THEN got' ELSE {}) /\ ~cut'
        BY <2>1, <2>5, <2>6, <3>1 DEF ProviderInv, ListInv
      <4>3. Current'.pages # 0
        BY <1>1, <1>3, <2>5, <3>1
      <4> QED BY <2>1, <3>1, <4>1, <4>2, <4>3 DEF ListInv
    <3>2. CASE phase = "export"
      BY <2>1, <3>2 DEF ProviderInv, ListInv
    <3> QED BY <1>1, <3>1, <3>2
  <2>8. PlanInv'
    BY <2>1 DEF ProviderInv, PlanInv
  <2> QED BY <2>2, <2>3, <2>4, <2>7, <2>8 DEF ProviderStep, ProviderInv
<1>4. CASE token \notin seen /\ ~(token # NoToken /\ pages < Current.pages)
  <2>1. CASE token # NoToken /\ Current.stop = "throw"
    BY <1>1, <1>4, <2>1, ThrownInv DEF Page
  <2>2. CASE ~(token # NoToken /\ Current.stop = "throw") /\ phase = "list"
    <3>1. /\ ListDone(things) /\ last' = last + n /\ cut' = cut
          /\ served' = (IF Listing(level) THEN served \cup things ELSE served)
      BY <1>4, <2>2 DEF Page
    <3>2. served = cands \cup (IF Listing(level) THEN got ELSE {}) /\ cut = FALSE
      BY <2>2 DEF ProviderInv, ListInv, ReadTypes
    <3>3. cands' = IF Listing(level) THEN cands \cup things ELSE cands
      BY <3>1 DEF ListDone
    <3>4. got \subseteq things
      OBVIOUS
    <3> HIDE DEF things
    <3>5. served' = cands' /\ cut' = FALSE /\ last' \in Nat
      BY <1>1, <3>1, <3>2, <3>3, <3>4
    <3> QED BY <1>1, <2>2, <3>1, <3>5, ListDoneInv
  <2>3. CASE ~(token # NoToken /\ Current.stop = "throw") /\ phase = "export"
    <3>1. /\ NextExportCall
          /\ flag' = (IF Current.stop = "throw" THEN flag
                      ELSE IF token = NoToken THEN "complete" ELSE "partial")
      BY <1>4, <2>3 DEF Page
    <3>2. cut' \in BOOLEAN
      BY <1>4, <2>3 DEF Page
    <3>3. flag' \in {"none", "complete", "partial", "denied"}
      BY <3>1 DEF ProviderInv, ReadTypes
    <3> QED BY <2>3, <3>1, <3>2, <3>3, NextExportCallInv
  <2> QED BY <1>1, <2>1, <2>2, <2>3
<1> QED BY <1>2, <1>3, <1>4

\* An answer to a probe, or its timer.
LEMMA ProbedInv ==
  ASSUME ProviderInv, phase = "probe", ProbeTypes',
         UNCHANGED <<registry, phase, queue, leg, level, left, pages, seen, got, cands, last, plan, step,
                     flag, outcome, served, cut>>
  PROVE  ProviderInv'
<1>1. ReadTypes'
  <2>1. cut' \in BOOLEAN
    BY DEF ProviderInv, ReadTypes
  <2> QED BY <2>1 DEF ProviderInv, ReadTypes
<1>2. TurnInv'
  <2>1. InOrder(queue)'
    BY DEF ProviderInv, TurnInv, InOrder, Places
  <2> QED BY <2>1 DEF ProviderInv, TurnInv
<1>3. ListInv' /\ PlanInv'
  BY DEF ProviderInv, ListInv, PlanInv
<1> QED BY <1>1, <1>2, <1>3 DEF ProviderInv

LEMMA AnswerInv ==
  ASSUME ProviderInv, NEW i \in DOMAIN asked, NEW k \in DOMAIN asked[i], NEW a \in Answers \ {"waiting"},
         Answer(i, k, a)
  PROVE  ProviderStep
<1>1. /\ phase = "probe" /\ asked' = [asked EXCEPT ![i] = [asked[i] EXCEPT ![k] = a]]
      /\ UNCHANGED <<registry, phase, queue, leg, level, left, pages, seen, got, cands, last, plan, step,
                     flag, outcome, served, cut>>
  BY DEF Answer, reading, listing
<1>2. \/ verdict' = verdict
      \/ verdict[i] = "pending" /\ \E v \in {"available", "iam", "none"} : verdict' = [verdict EXCEPT ![i] = v]
  <2>1. \A kind, answers : Settlement(kind, answers) \in {"available", "iam", "none"}
    BY DEF Settlement
  <2> QED BY <2>1 DEF Answer
<1>3. verdict' \in [Places -> Verdict] /\ VerdictStep
  <2>1. verdict \in [Places -> Verdict]
    BY DEF ProviderInv, ProbeTypes
  <2>2. {"available", "iam", "none"} \subseteq Verdict
    BY DEF Verdict, Reasons
  <2> QED BY <1>2, <2>1, <2>2 DEF VerdictStep
<1>4. \A j \in DOMAIN asked' : asked'[j] \in [1 .. Of(registry[j]).asks -> Answers]
  BY <1>1 DEF ProviderInv, ProbeTypes
<1>5. ProbeTypes'
  BY <1>1, <1>3, <1>4 DEF ProviderInv, ProbeTypes, Places
<1> QED BY <1>1, <1>3, <1>5, ProbedInv DEF ProviderStep

LEMMA ProbeTimeoutInv ==
  ASSUME ProviderInv, NEW i \in Places, ProbeTimeout(i)
  PROVE  ProviderStep
<1>1. /\ phase = "probe" /\ verdict[i] = "pending" /\ verdict' = [verdict EXCEPT ![i] = "timeout"]
      /\ UNCHANGED <<registry, asked, phase, queue, leg, level, left, pages, seen, got, cands, last, plan, step,
                     flag, outcome, served, cut>>
  BY DEF ProbeTimeout, reading, listing
<1>2. verdict' \in [Places -> Verdict] /\ VerdictStep
  BY <1>1 DEF ProviderInv, ProbeTypes, VerdictStep, Verdict, Reasons
<1>3. ProbeTypes'
  BY <1>1, <1>2 DEF ProviderInv, ProbeTypes, Places
<1> QED BY <1>1, <1>2, <1>3, ProbedInv DEF ProviderStep

\* The available providers wait for their turn, in order of registration.
LEMMA SummariseInv ==
  ASSUME ProviderInv, Summarise
  PROVE  ProviderStep
<1> DEFINE I == {i \in Available(verdict) : IsListed(registry[i])}
<1>1. /\ phase = "probe" /\ queue' = Picked(registry, I) /\ phase' = "turn" /\ asked' = <<>>
      /\ UNCHANGED <<registry, verdict, leg, level, left, pages, seen, got, cands, last, plan, step,
                     flag, outcome, served, cut>>
  BY DEF Summarise, reading, listing
<1>2. registry \in Seq(Types)
  BY DEF ProviderInv, ProbeTypes
<1>3. queue' \in Seq(Types) /\ ToSet(queue') = {registry[i] : i \in DOMAIN registry \cap I}
  BY <1>1, <1>2, PickedFacts
<1>4. ToSet(queue') = Due'
  BY <1>1, <1>3 DEF Due, Available, Places, IsListed
<1>5. InOrder(queue)'
  <2>1. PICK J : J = I
    OBVIOUS
  <2>2. PICK q : q = Picked(registry, J)
    OBVIOUS
  <2> HIDE DEF I
  <2>3. \A a, b \in DOMAIN q : a < b =>
          \E i, j \in DOMAIN registry \cap J : i < j /\ registry[i] = q[a] /\ registry[j] = q[b]
    BY <1>2, <2>2, PickedInOrder
  <2>4. queue' = q /\ registry' = registry
    BY <1>1, <2>1, <2>2
  <2> QED BY <2>3, <2>4 DEF InOrder, Places
<1>6. queue' \in Seq(Listed)
  <2> DEFINE q == queue'
  <2>1. \A a \in DOMAIN q : q[a] \in ToSet(q)
    BY DEF ToSet
  <2>2. Due' \subseteq Listed
    BY <1>1, <1>2 DEF Due, Available, Places, Listed
  <2>3. q \in Seq(Types) /\ \A a \in DOMAIN q : q[a] \in Listed
    BY <1>3, <1>4, <2>1, <2>2
  <2> HIDE DEF q
  <2>4. Len(q) \in Nat /\ DOMAIN q = 1 .. Len(q) /\ q \in [1 .. Len(q) -> Listed]
    BY <2>3
  <2>5. q \in Seq(Listed)
    BY <2>4
  <2> QED BY <2>5 DEF q
<1>7. ProbeTypes' /\ VerdictStep
  BY <1>1 DEF ProviderInv, ProbeTypes, VerdictStep, Places
<1>8. ReadTypes'
  <2>1. cut' \in BOOLEAN
    BY <1>1 DEF ProviderInv, ReadTypes
  <2> QED BY <1>1, <1>3, <2>1 DEF ProviderInv, ReadTypes
<1>9. TurnInv'
  <2>1. DOMAIN outcome' = {}
    BY <1>1 DEF ProviderInv, TurnInv
  <2> QED BY <1>1, <1>4, <1>5, <1>6, <2>1 DEF TurnInv
<1>10. ListInv' /\ PlanInv'
  BY <1>1 DEF ProviderInv, ListInv, PlanInv
<1> QED BY <1>7, <1>8, <1>9, <1>10 DEF ProviderStep, ProviderInv

\* A provider is taken, or none is left.
LEMMA TurnsInv ==
  ASSUME ProviderInv, TakeTurn \/ Finish
  PROVE  ProviderStep
<1>1. /\ phase = "turn" /\ phase' \in {"list", "done"}
      /\ phase' = "done" => queue = <<>>
      /\ UNCHANGED <<registry, asked, verdict, queue, left, cands, last, plan, step, flag, outcome, served, cut>>
  BY DEF TakeTurn, Finish, probing, listing
<1>2. \/ leg' = 1 /\ level' = 1 /\ pages' = 1 /\ seen' = {} /\ got' = {} /\ phase' = "list" /\ queue # <<>>
      \/ UNCHANGED <<leg, level, pages, seen, got>> /\ phase' = "done"
  BY DEF TakeTurn, Finish, reading, listing, NewCall
<1>3. ProbeTypes' /\ VerdictStep
  BY <1>1 DEF ProviderInv, ProbeTypes, VerdictStep, Places
<1>4. ReadTypes'
  <2>1. cut' \in BOOLEAN
    BY <1>1 DEF ProviderInv, ReadTypes
  <2>2. leg' \in Nat /\ level' \in 0 .. Depth /\ pages' \in Nat
    BY <1>2 DEF ProviderInv, ReadTypes, Depth
  <2>3. seen' \subseteq Tokens /\ got' \subseteq Nat
    <3>1. (seen' = {} /\ got' = {}) \/ (seen' = seen /\ got' = got)
      BY <1>2
    <3> QED BY <3>1 DEF ProviderInv, ReadTypes
  <2> QED BY <1>1, <2>1, <2>2, <2>3 DEF ProviderInv, ReadTypes
<1>5. TurnInv'
  <2>1. DOMAIN outcome' \cup ToSet(queue') = DOMAIN outcome \cup ToSet(queue) /\ Due' = Due /\ InOrder(queue)' = InOrder(queue)
    BY <1>1 DEF Due, Available, InOrder, Places
  <2> QED BY <1>1, <1>2, <2>1 DEF ProviderInv, TurnInv
<1>6. ListInv'
  <2>1. CASE phase' = "done"
    BY <1>1, <2>1 DEF ProviderInv, ListInv
  <2>2. CASE phase' = "list"
    <3>1. Now' = Now /\ leg' = 1 /\ level' = 1 /\ pages' = 1 /\ got' = {} /\ queue # <<>>
      BY <1>1, <1>2, <2>2 DEF Now
    <3>2. ProviderOf(Now)
      BY <3>1, NowFacts
    <3>3. Len(Now.legs) \in Nat /\ Len(Now.legs) # 0
      BY <3>2 DEF ProviderOf
    <3>4. PICK n \in Nat \ {0} : n = Len(Now.legs)
      BY <3>3
    <3>5. 1 \in 1 .. Len(Now.legs)
      BY <3>4
    <3>6. LegOf(Now.legs[1])
      BY <3>2, <3>5 DEF ProviderOf
    <3>7. PICK m \in 1 .. 3 : m = Len(Now.legs[1].calls)
      BY <3>6 DEF LegOf, Depth
    <3>8. 1 \in 1 .. m
      OBVIOUS
    <3>9. served' = {} /\ cands' = {} /\ ~cut'
      BY <1>1 DEF ProviderInv, ListInv
    <3> QED BY <2>2, <3>1, <3>5, <3>7, <3>8, <3>9 DEF ListInv
  <2> QED BY <1>1, <2>1, <2>2
<1>7. PlanInv'
  BY <1>1 DEF ProviderInv, PlanInv
<1> QED BY <1>3, <1>4, <1>5, <1>6, <1>7 DEF ProviderStep, ProviderInv

LEMMA ChooseExportInv ==
  ASSUME ProviderInv, NEW p \in Now.exports, ChooseExport(p)
  PROVE  ProviderStep
<1>1. /\ phase = "export" /\ plan' = p /\ step' = 1 /\ pages' \in {0, 1} /\ seen' = {} /\ got' = {}
      /\ UNCHANGED <<registry, asked, verdict, phase, queue, leg, level, left, cands, last, served, flag,
                     outcome, cut>>
  BY DEF ChooseExport, NewCall, NoCall, probing, listing
<1>2. ProbeTypes' /\ VerdictStep
  BY <1>1 DEF ProviderInv, ProbeTypes, VerdictStep, Places
<1>3. ReadTypes'
  <2>1. cut' \in BOOLEAN
    BY <1>1 DEF ProviderInv, ReadTypes
  <2> QED BY <1>1, <2>1 DEF ProviderInv, ReadTypes
<1>4. TurnInv'
  <2>1. DOMAIN outcome' \cup ToSet(queue') = DOMAIN outcome \cup ToSet(queue) /\ Due' = Due /\ InOrder(queue)' = InOrder(queue)
    BY <1>1 DEF Due, Available, InOrder, Places
  <2> QED BY <1>1, <2>1 DEF ProviderInv, TurnInv
<1>5. ListInv'
  BY <1>1 DEF ListInv
<1>6. PlanInv'
  <2>1. queue # <<>>
    BY <1>1 DEF ProviderInv, TurnInv
  <2> QED BY <1>1, <2>1, NowFacts DEF PlanInv, ProviderOf
<1> QED BY <1>2, <1>3, <1>4, <1>5, <1>6 DEF ProviderStep, ProviderInv

LEMMA ProviderNextInv ==
  ASSUME ProviderInv, Probe \/ List \/ (phase = "export" /\ ExportOne)
  PROVE  ProviderStep
<1>1. CASE Probe
  BY <1>1, AnswerInv, ProbeTimeoutInv, SummariseInv DEF Probe
<1>2. CASE List
  <2>1. ASSUME NEW f \in Failures, CallFails(f) PROVE ProviderStep
    BY <2>1, ThrownInv DEF CallFails, Reading
  <2> QED BY <1>2, <2>1, TurnsInv, PageInv DEF List
<1>3. CASE phase = "export" /\ ExportOne
  <2>1. CASE NothingToExport
    BY <2>1, EndTurnInv DEF NothingToExport, Result
  <2>2. CASE FinishExport
    <3>1. (IF plan.ends THEN plan.doc ELSE "failed") \in Result
      BY DEF ProviderInv, PlanInv, Result
    <3> QED BY <2>2, <3>1, EndTurnInv DEF FinishExport, Exported
  <2> QED BY <1>3, <2>1, <2>2, ChooseExportInv DEF ExportOne
<1> QED BY <1>1, <1>2, <1>3

LEMMA ProviderSteps == ProviderInv /\ [SweepNext]_sweep => ProviderInv' /\ (VerdictStep \/ UNCHANGED vars)
<1> SUFFICES ASSUME ProviderInv, [SweepNext]_sweep PROVE ProviderInv' /\ (VerdictStep \/ UNCHANGED vars)
  OBVIOUS
<1>1. CASE UNCHANGED vars
  <2>1. /\ UNCHANGED <<registry, asked, verdict, phase, queue, leg, level, left, pages, seen, got>>
        /\ UNCHANGED <<cands, last, plan, step, flag, outcome, served, cut>>
    BY <1>1 DEF vars
  <2>2. cut' \in BOOLEAN
    BY <2>1 DEF ProviderInv, ReadTypes
  <2>3. Due' = Due /\ InOrder(queue)' = InOrder(queue) /\ Now' = Now /\ Listing(level)' = Listing(level)
    BY <2>1 DEF Due, Available, InOrder, Places, Now, Listing
  <2>4. ProbeTypes' /\ PlanInv'
    BY <2>1 DEF ProviderInv, ProbeTypes, PlanInv, Places
  <2>5. ReadTypes'
    BY <2>1, <2>2 DEF ProviderInv, ReadTypes
  <2>6. TurnInv'
    BY <2>1, <2>3 DEF ProviderInv, TurnInv
  <2>7. ListInv'
    <3>1. Current' = Current
      BY <2>1, <2>3 DEF Current
    <3> QED BY <2>1, <2>3, <3>1 DEF ProviderInv, ListInv
  <2> QED BY <1>1, <2>4, <2>5, <2>6, <2>7 DEF ProviderInv
<1>2. CASE Preflight \/ Gateways
  BY <1>1, <1>2 DEF Preflight, PreflightSkipped, PreflightChecked, Gateways, BeginGateway, ReadGateway,
                    GatewayEnded, GatewaysEnded
<1>3. CASE Ask \/ AskProviders
  BY <1>3, ProviderNextInv DEF Ask, AskProviders, ProviderStep
<1>4. CASE UNCHANGED sweep
  BY <1>1, <1>4 DEF sweep
<1> QED BY <1>2, <1>3, <1>4 DEF SweepNext

LEMMA AlwaysProviders == SweepSpec => []ProviderInv
<1>1. SweepInit => ProviderInv
  BY ProviderInitInv DEF SweepInit
<1>2. ProviderInv /\ [SweepNext]_sweep => ProviderInv'
  BY ProviderSteps
<1> QED BY <1>1, <1>2, PTL DEF SweepSpec

\* A verdict stands, whatever is answered after the timer and whenever the timer fires
\* (withTimeout, probeAvailableDetailed).
THEOREM VerdictsAreFinal == SweepSpec => VerdictsStand
<1>1. ProviderInv /\ [SweepNext]_sweep => VerdictStep \/ UNCHANGED vars
  BY ProviderSteps
<1> QED BY <1>1, AlwaysProviders, PTL DEF SweepSpec, VerdictsStand, VerdictStep

\* Every available provider has its turn, in order of registration, whatever became of the
\* others (runMultiProviderDiscovery).
THEOREM NobodyIsPassedOver == SweepSpec => []EveryoneHasATurn
<1>1. ProviderInv => EveryoneHasATurn
  <2> SUFFICES ASSUME ProviderInv PROVE EveryoneHasATurn
    OBVIOUS
  <2>1. ASSUME phase = "done" PROVE DOMAIN outcome = Due
    <3>1. ToSet(queue) = {}
      BY <2>1 DEF ProviderInv, TurnInv, ToSet
    <3> QED BY <2>1, <3>1 DEF ProviderInv, TurnInv
  <2> QED BY <2>1 DEF ProviderInv, TurnInv, InOrder, EveryoneHasATurn, Due
<1> QED BY <1>1, AlwaysProviders, PTL

\* A list of candidates that is used holds everything AWS had to show, for every number of
\* pages, tokens and things (pagination.ts, listCandidates).
THEOREM ListsAreWhole == SweepSpec => []ListedIsWhole
<1>1. ProviderInv => ListedIsWhole
  BY DEF ProviderInv, ListInv, ListedIsWhole
<1> QED BY <1>1, AlwaysProviders, PTL

Phases == {"preflight", "probe", "gateways", "providers", "done", "aborted"}

PhaseInv == stage \in Phases

LEMMA PhaseSteps == PhaseInv /\ [SweepNext]_sweep => PhaseInv'
BY DEF PhaseInv, Phases, SweepNext, Preflight, PreflightSkipped, PreflightChecked, AfterPreflight, Ask, Gateways,
       BeginGateway, ReadGateway, GatewayEnded, GatewaysEnded, AskProviders, sweep

\* The state keeps its types for every table of pages, tokens and gateways.
THEOREM SweepIsTyped == SweepSpec => []SweepTypeOK
<1>1. AccountInv /\ GatewayInv => G!TypeOK
  <2> SUFFICES ASSUME GatewayInv PROVE G!TypeOK
    OBVIOUS
  <2>1. api.type \in G!Types /\ api.caller \in {"discover", "resolve"}
    BY DEF GatewayInv, ApiOf
  <2>2. \A c \in DOMAIN calls : calls[c].pages \in 1 .. MaxPages /\ calls[c].seen \subseteq Tokens
    BY DEF GatewayInv, Call
  <2> QED BY <2>1, <2>2, SpotsArePoints DEF GatewayInv, Sound, G!TypeOK
<1>2. ProviderInv => TypeOK
  BY TypesAreBoth DEF ProviderInv
<1>3. SweepInit => PhaseInv
  BY DEF PhaseInv, SweepInit, Phases
<1>4. G!TypeOK /\ TypeOK /\ PhaseInv => SweepTypeOK
  BY DEF PhaseInv, SweepTypeOK, Phases
<1>5. SweepSpec => []PhaseInv
  BY <1>3, PhaseSteps, PTL DEF SweepSpec
<1>6. (AccountInv /\ GatewayInv) /\ ProviderInv /\ PhaseInv => SweepTypeOK
  BY <1>1, <1>2, <1>4
<1> QED BY <1>5, <1>6, AlwaysGateway, AlwaysProviders, PTL
=============================================================================
