---------------------------- MODULE GatewayExport ----------------------------
(***************************************************************************)
(* The export of one API Gateway: the stages are listed, one is chosen or  *)
(* the gateway is left alone, and the document is read, from several       *)
(* listings at once where AWS has no export or its export needs            *)
(* completing.  Discover-many and the last step of resolve-one share it    *)
(* ("caller"); which gateways are exported is GatewayNarrowing and         *)
(* DiscoverMany, what is written is AtomicExport.                          *)
(*                                                                         *)
(* A document is where it was read from: "native" is AWS's own export,     *)
(* "enriched" the same with models, validators and documentation merged    *)
(* in, "synthesized" one built from control plane listings.                *)
(***************************************************************************)
EXTENDS Naturals

CONSTANTS
  Tokens, NoToken,   \* continuation tokens
  MaxPages,          \* MAX_API_GATEWAY_PAGES
  NoStage

\* A refusal of AWS: BadRequestException and the known limits of GetExport are told apart.
Refusals == {"limit", "other"}
Types    == {"REST", "HTTP", "WEBSOCKET"}
Default  == "$default"

\* The calls made at once at each point, and those that page.
Reads ==
  [stages     |-> {"stages"},
   mappings   |-> {"mappings"},
   tags       |-> {"tags"},
   rest       |-> {"export"},
   http       |-> {"export"},
   enrich     |-> {"resources", "models", "validators", "documentation"},
   fallback   |-> {"api", "resources", "models"},
   websocket  |-> {"api", "routes", "integrations", "authorizers", "models"},
   responses  |-> {"route1", "route2"}]
Points == DOMAIN Reads
SinglePage == {"tags", "export", "api"}
Pages(c, type) == IF c \in SinglePage \/ (c = "stages" /\ type = "REST") THEN 0 ELSE MaxPages

VARIABLES
  api,      \* the gateway: its stages and domain mappings, and what the inputs say of it
  pc,       \* "idle", a point of Reads, or how it ended
  calls,    \* the calls under way at this point
  picked,   \* the ResolutionStageSelection
  document  \* the document and the stage it was asked for

vars == <<api, pc, calls, picked, document>>

Ends    == {"exported", "skipped", "failed", "review"}
Nobody  == [type |-> "REST", caller |-> "discover", stages |-> {}, mapped |-> {},
            wanted |-> NoStage, expected |-> FALSE]
Pick(stage, mode) == [stage |-> stage, mode |-> mode, latest |-> FALSE]
Latest(mode)      == [stage |-> NoStage, mode |-> mode, latest |-> TRUE]
Refused           == [stage |-> NoStage, mode |-> "none", latest |-> FALSE]
NoDocument        == [body |-> "none", stage |-> NoStage, partial |-> FALSE]

Fresh(p)  == [c \in Reads[p] |-> [pages |-> 1, seen |-> {}, done |-> FALSE]]
NoCalls   == <<>>

TypeOK ==
  /\ api.type \in Types /\ api.caller \in {"discover", "resolve"}
  /\ pc \in {"idle"} \cup Points \cup Ends
  /\ pc \in Points => DOMAIN calls = Reads[pc]
  /\ \A c \in DOMAIN calls : calls[c].pages \in 1..MaxPages /\ calls[c].seen \subseteq Tokens
  /\ picked.mode \in {"none", "deployed-stage", "latest-configuration", "partial-control-plane"}
  /\ document.body \in {"none", "native", "enriched", "synthesized"}

Init == /\ api = Nobody /\ pc = "idle" /\ calls = NoCalls
        /\ picked = Refused /\ document = NoDocument

-----------------------------------------------------------------------------
(* Choosing a stage *)

\* Mutant: a WebSocket API with a stage counts as deployed.
configurationModeDeployed(type) == IF type = "NONE" THEN "partial-control-plane" ELSE "deployed-stage"

configurationModeForGateway(type) ==
  IF type = "WEBSOCKET" THEN "partial-control-plane" ELSE "deployed-stage"

Names == {s.name : s \in api.stages}
Deployed(stage) == Pick(stage, configurationModeForGateway(api.type))

\* What is known before domain mappings are looked at: the stage asked for, or the newest
\* configuration of an HTTP API named in the inputs.
Requested == api.wanted # NoStage
Newest    == api.expected /\ api.type = "HTTP"

RequestedStage ==
  IF ~Requested THEN Latest("latest-configuration")
  ELSE IF api.wanted \in Names THEN Deployed(api.wanted) ELSE Refused

\* collectTrustedStageEvidence: the one stage the custom domains map this gateway to.
Evidence(linked) ==
  IF \E s \in Names : linked = {s} THEN CHOOSE s \in Names : linked = {s} ELSE NoStage

AutoDeployed == {s.name : s \in {t \in api.stages : t.auto}}

\* Mutant: the first of several stages is taken.
EvidencedStageFirst(linked) ==
  IF Evidence(linked) # NoStage THEN Deployed(Evidence(linked))
  ELSE IF Names = {}
  THEN CASE api.type = "HTTP"      -> Latest("latest-configuration")
         [] api.type = "WEBSOCKET" -> Latest("partial-control-plane")
         [] api.type = "REST"      -> Refused
  ELSE Deployed(CHOOSE s \in Names : TRUE)

EvidencedStage(linked) ==
  IF Evidence(linked) # NoStage THEN Deployed(Evidence(linked))
  ELSE IF Names = {}
  THEN CASE api.type = "HTTP"      -> Latest("latest-configuration")
         [] api.type = "WEBSOCKET" -> Latest("partial-control-plane")
         [] api.type = "REST"      -> Refused
  ELSE IF \E n \in Names : Names = {n} THEN Deployed(CHOOSE s \in Names : TRUE)
  ELSE IF api.type = "HTTP" /\ AutoDeployed = {Default} THEN Deployed(Default)
  ELSE Refused

\* From here on nobody looks at the listing or the inputs again.
Select(choice) ==
  /\ picked' = choice
  /\ api' = [Nobody EXCEPT !.type = api.type, !.caller = api.caller]

-----------------------------------------------------------------------------
(* Reading *)

Goto(p) == pc' = p /\ calls' = (IF p \in Points THEN Fresh(p) ELSE NoCalls)

Begin(a) ==
  /\ pc = "idle" /\ api' = a /\ Goto("stages")
  /\ picked' = Refused /\ document' = NoDocument

ExportPoint == CASE api.type = "REST" -> "rest" [] api.type = "HTTP" -> "http"
                 [] api.type = "WEBSOCKET" -> "websocket"

\* After the choice: discover-many reads the tags, resolve-one goes straight to the export, and
\* a gateway without an evidenced stage is skipped, or left to a person.
Chosen(choice) ==
  /\ Select(choice) /\ UNCHANGED document
  /\ Goto(IF choice = Refused THEN (IF api.caller = "discover" THEN "skipped" ELSE "review")
          ELSE IF api.caller = "discover" THEN "tags" ELSE ExportPoint)

Deliver(body, partial) ==
  /\ document' = [body |-> body, stage |-> picked.stage, partial |-> partial]
  /\ Goto("exported") /\ UNCHANGED <<api, picked>>

\* All calls of this point have been answered.
Answered ==
  CASE pc = "stages" ->
         IF Requested \/ Newest THEN Chosen(RequestedStage)
         ELSE Goto("mappings") /\ UNCHANGED <<api, picked, document>>
    [] pc = "mappings" -> Chosen(EvidencedStage(api.mapped))
    [] pc = "tags"     -> Goto(ExportPoint) /\ UNCHANGED <<api, picked, document>>
    [] pc = "rest"     -> Goto("enrich") /\ UNCHANGED <<api, picked, document>>
    [] pc = "http"     -> Deliver("native", FALSE)
    [] pc = "enrich"   -> \E body \in {"native", "enriched"} : Deliver(body, FALSE)
    [] pc = "fallback" -> Deliver("synthesized", TRUE)
    [] pc = "websocket" -> \/ Goto("responses") /\ UNCHANGED <<api, picked, document>>
                           \/ Deliver("synthesized", TRUE)
    [] pc = "responses" -> Deliver("synthesized", TRUE)

Lost(r) ==
  /\ Goto(IF api.caller = "resolve" /\ (r = "limit" \/ pc = "stages") THEN "review" ELSE "failed")
  /\ UNCHANGED <<api, picked, document>>

\* Mutant: enrichment is awaited outside the try.
LoseHard(r) ==
  CASE pc = "mappings" -> Chosen(EvidencedStage({}))
    [] pc = "rest" /\ r = "limit" -> Goto("fallback") /\ UNCHANGED <<api, picked, document>>
    [] OTHER -> Lost(r)

\* The first call of a point to fail decides; the others go on, and nobody hears them.
Lose(r) ==
  CASE pc = "mappings" -> Chosen(EvidencedStage({}))
    [] pc = "rest" /\ r = "limit" -> Goto("fallback") /\ UNCHANGED <<api, picked, document>>
    [] pc = "enrich" -> Deliver("native", FALSE)
    [] OTHER -> Lost(r)

Open(c) == pc \in Points /\ c \in DOMAIN calls /\ ~calls[c].done

Refuse(c, r) == Open(c) /\ Lose(r)

\* Mutant: one page more than the cap is read.
PageBeyond(c, token) ==
  /\ Open(c) /\ (Pages(c, api.type) = 0 => token = NoToken)
  /\ IF token \in calls[c].seen \/ (token # NoToken /\ calls[c].pages > MaxPages) THEN Lose("other")
     ELSE IF token # NoToken
     THEN /\ calls' = [calls EXCEPT ![c].pages = @ + 1, ![c].seen = @ \cup {token}]
          /\ UNCHANGED <<api, pc, picked, document>>
     ELSE IF \A d \in DOMAIN calls \ {c} : calls[d].done THEN Answered
     ELSE calls' = [calls EXCEPT ![c] = [pages |-> 1, seen |-> {}, done |-> TRUE]]
          /\ UNCHANGED <<api, pc, picked, document>>

\* An API that is gone is no error to getRestApi and getHttpApi.  A repeated token or one page
\* too many ends a listing with an error.
Page(c, token) ==
  /\ Open(c) /\ (Pages(c, api.type) = 0 => token = NoToken)
  /\ IF token \in calls[c].seen \/ (token # NoToken /\ calls[c].pages = MaxPages) THEN Lose("other")
     ELSE IF token # NoToken
     THEN /\ calls' = [calls EXCEPT ![c].pages = @ + 1, ![c].seen = @ \cup {token}]
          /\ UNCHANGED <<api, pc, picked, document>>
     ELSE IF \A d \in DOMAIN calls \ {c} : calls[d].done THEN Answered
     ELSE calls' = [calls EXCEPT ![c] = [pages |-> 1, seen |-> {}, done |-> TRUE]]
          /\ UNCHANGED <<api, pc, picked, document>>

Read == \/ \E c \in DOMAIN calls, token \in Tokens \cup {NoToken} : Page(c, token)
        \/ \E c \in DOMAIN calls, r \in Refusals : Refuse(c, r)

-----------------------------------------------------------------------------
(* Properties *)

\* Which of two stages is meant is never guessed: of two that are mapped alike and deployed
\* alike, neither is chosen unless the inputs name it (resolveStageSelection).  Only $default
\* of an HTTP API is special.
Alike(s, t) ==
  /\ s # t /\ s.auto = t.auto /\ (s.name \in api.mapped <=> t.name \in api.mapped)
  /\ api.type = "HTTP" => Default \notin {s.name, t.name}

NeverBetweenEquals ==
  [][\A s, t \in api.stages :
       Alike(s, t) /\ ~Requested /\ picked'.stage # NoStage => picked'.stage \notin {s.name, t.name}]_<<api, picked>>

\* Once AWS has exported a REST API the export succeeds, whatever happens to the four listings
\* that complete it, and is completed from all of them or from none (exportRestApi: "any
\* enrichment error returns the exact native body").
NativeSurvives ==
  [][pc = "enrich" => pc' \in {"enrich", "exported"} /\ document'.body \in {"none", "native", "enriched"}]_vars

\* What the provenance says of a document is how it was read: the newest configuration without
\* a stage, and a document that AWS did not export is called partial.
ProvenanceIsTrue ==
  pc = "exported" =>
    /\ picked.mode = "deployed-stage" <=> api.type # "WEBSOCKET" /\ document.stage # NoStage
    /\ picked.mode = "latest-configuration" => api.type = "HTTP" /\ document.body = "native"
    /\ document.partial <=> document.body = "synthesized"
=============================================================================
