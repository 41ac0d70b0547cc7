---------------------------- MODULE AwsProviders ----------------------------
(***************************************************************************)
(* What a run asks the AWS providers: the concurrent probes of             *)
(* ProviderRegistry against their timers, the nested paginated listings    *)
(* behind listCandidates, and the calls of one exportSpec per provider.    *)
(*                                                                         *)
(* The providers and their SDK clients are tables: a client says how each  *)
(* of its calls ends when AWS refuses it, a provider which calls it nests  *)
(* to list candidates and which it makes to export one.  One machine reads *)
(* the tables.  A listed thing is a serial number; what a client or a      *)
(* provider filters out (no name, no ARN, another protocol, the registry   *)
(* aws.events) never gets one.  Every failure of a call is one of          *)
(* Failures, after the SDK's own attempts.  The provider of API Gateways   *)
(* is only probed: runtime.ts lists and exports gateways by other means    *)
(* (GatewayNarrowing, GatewayExport), and SNS is SnsContracts.             *)
(***************************************************************************)
EXTENDS Integers, FiniteSets, Subsequences

CONSTANTS
  Registries,            \* orders of registration to consider
  Tokens,                \* continuation tokens AWS may return
  MaxPages,              \* MAX_AWS_LIST_PAGES
  MaxAssociationPages,   \* MAX_SOURCE_ASSOCIATION_PAGES
  PageSize,              \* bound: things on a page
  MaxServed,             \* bound: things listed in one leg
  NoToken

Failures == {"denied", "gone", "failed"}
Depth    == 3

ASSUME AwsProvidersAssumption ==
  /\ MaxPages \in Nat \ {0} /\ MaxAssociationPages \in Nat \ {0}
  /\ PageSize \in Nat /\ MaxServed \in Nat /\ NoToken \notin Tokens

-----------------------------------------------------------------------------
(* Calls of a client.  "empty" are the failures answered with nothing,     *)
(* "stop" is what the page cap does.                                       *)

Single     == [pages |-> 0, stop |-> "throw", empty |-> {}]
Paged      == [pages |-> MaxPages, stop |-> "throw", empty |-> {}]
Caught(c)  == [c EXCEPT !.empty = Failures \cup {"abort"}]
Missing(c) == [c EXCEPT !.empty = {"gone"}]

(* appsync-client.ts: a denied or failed association listing keeps what it *)
(* has; the soft cap truncates it; a repeated token is thrown.             *)
AppSyncReads ==
  [apis |-> Paged, schema |-> Single, tags |-> Single,
   associations |-> [pages |-> MaxAssociationPages, stop |-> "truncate", empty |-> Failures]]

EventApiReads == [apis |-> Paged, namespaces |-> Paged]

GlueReads == [registries |-> Paged, schemas |-> Paged, version |-> Single]

SchemaReads == [registries |-> Paged, schemas |-> Paged, describe |-> Single]

\* Mutant: a stack whose resources cannot be read is skipped.
StackReadsSoft == [stacks |-> Paged, resources |-> Caught(Paged), template |-> Single]

StackReads == [stacks |-> Paged, resources |-> Paged, template |-> Single]

AgentReads == [agents |-> Paged, groups |-> Paged, group |-> Single]

BalancerReads == [balancers |-> Paged, listeners |-> Paged, rules |-> Paged]

SurfaceReads == [rules |-> Paged, targets |-> Paged, pipes |-> Paged, pipe |-> Single,
                 destinations |-> Paged]

(* lambda-client.ts: a function without URL, or deleted, is no error. *)
LambdaReads == [functions |-> Paged, url |-> Missing(Single), tags |-> Missing(Single)]

MappingReads == [mappings |-> Paged, mapping |-> Single]

ParameterReads == [parameters |-> Paged]

StoreReads == [stores |-> Paged, schema |-> Single]

MachineReads == [machines |-> Paged, machine |-> Single]

ObjectReads == [object |-> Single]

-----------------------------------------------------------------------------
(* Providers.  A leg nests its calls, each made for every thing the one    *)
(* before it listed; the candidates are what the call "at" lists, deeper   *)
(* calls only add to them.  An export is a sequence of calls; "ends" says  *)
(* whether the answer then holds a document.                               *)

Leg(calls, at)     == [calls |-> calls, at |-> at]
Export(calls, doc) == [calls |-> calls, doc |-> doc, ends |-> TRUE]
Hollow(calls)      == [calls |-> calls, doc |-> "none", ends |-> FALSE]

\* What the answer to the probe's calls means: "quiet" hides every error, "strict" throws the
\* denials, "any" asks several calls and is content with one.
Provider(kind, asks, legs, exports) ==
  [kind |-> kind, asks |-> asks, legs |-> legs, exports |-> exports]

ApiGateway == Provider("any", 2, <<>>, {})

AppSync ==
  Provider("strict", 1, <<Leg(<<AppSyncReads.apis>>, 1)>>,
    {Export(<<AppSyncReads.schema, AppSyncReads.tags>>, "live"),
     Export(<<AppSyncReads.schema, AppSyncReads.tags, AppSyncReads.associations>>, "merged")})

AppSyncEvents ==
  Provider("quiet", 1, <<Leg(<<EventApiReads.apis, EventApiReads.namespaces>>, 1)>>,
    {Export(<<>>, "listed")})

EventBridgeSchemas ==
  Provider("quiet", 1, <<Leg(<<SchemaReads.registries, SchemaReads.schemas>>, 2)>>,
    {Export(<<SchemaReads.describe>>, "live")})

EventBridgeSurface ==
  Provider("any", 3,
    <<Leg(<<SurfaceReads.rules, Caught(SurfaceReads.targets)>>, 1),
      Leg(<<SurfaceReads.pipes>>, 1), Leg(<<SurfaceReads.destinations>>, 1)>>,
    {Export(<<>>, "listed"), Export(<<SurfaceReads.pipe>>, "live")})

\* extractEmbeddedSpec: an inline body, a file, an S3 object, or nothing it may follow.
CloudFormation ==
  Provider("quiet", 1, <<Leg(<<StackReads.stacks, StackReads.resources>>, 2)>>,
    {Export(<<StackReads.template>>, "live"),
     Export(<<StackReads.template, ObjectReads.object>>, "live"),
     Hollow(<<StackReads.template>>)})

GlueSchema ==
  Provider("quiet", 1, <<Leg(<<GlueReads.registries, GlueReads.schemas>>, 2)>>,
    {Export(<<GlueReads.version>>, "live")})

BedrockActionGroup ==
  Provider("quiet", 1, <<Leg(<<AgentReads.agents, AgentReads.groups>>, 2)>>,
    {Export(<<AgentReads.group>>, "live"),
     Export(<<AgentReads.group, ObjectReads.object>>, "live")})

AlbListenerRules ==
  Provider("quiet", 1,
    <<Leg(<<BalancerReads.balancers, BalancerReads.listeners, BalancerReads.rules>>, 3)>>,
    {Export(<<>>, "listed")})

\* The parameters are listed again for the export; a service that has neither content nor
\* address by then is an error, and so is an address that cannot be fetched.
Ssm ==
  Provider("quiet", 1, <<Leg(<<ParameterReads.parameters>>, 1)>>,
    {Export(<<ParameterReads.parameters>>, "live"),
     Export(<<ParameterReads.parameters, Single>>, "live"),
     Hollow(<<ParameterReads.parameters>>)})

LambdaUrl ==
  Provider("quiet", 1,
    <<Leg(<<LambdaReads.functions, LambdaReads.url, Caught(LambdaReads.tags)>>, 2)>>,
    {Export(<<>>, "listed")})

LambdaEventSource ==
  Provider("quiet", 1, <<Leg(<<MappingReads.mappings>>, 1)>>,
    {Export(<<Caught(MappingReads.mapping)>>, "live")})

VerifiedPermissions ==
  Provider("quiet", 1, <<Leg(<<StoreReads.stores>>, 1)>>, {Export(<<StoreReads.schema>>, "live")})

StepFunctions ==
  Provider("quiet", 1, <<Leg(<<MachineReads.machines>>, 1)>>,
    {Export(<<MachineReads.machine>>, "live")})

\* SNS is listed like the others, the attributes and the tags of a topic only if they can be
\* read; its export is a ladder of its own (SnsContracts).
TopicReads == [topics |-> Paged, about |-> Single]
Sns == Provider("quiet", 1, <<Leg(<<TopicReads.topics, Caught(TopicReads.about)>>, 1)>>, {})

Table ==
  [api |-> ApiGateway, appsync |-> AppSync, appsyncEvents |-> AppSyncEvents,
   eventbridgeSchemas |-> EventBridgeSchemas, eventbridge |-> EventBridgeSurface,
   cloudformation |-> CloudFormation, glue |-> GlueSchema, bedrock |-> BedrockActionGroup,
   alb |-> AlbListenerRules, ssm |-> Ssm, sns |-> Sns, lambdaUrl |-> LambdaUrl,
   lambdaEventSource |-> LambdaEventSource, verifiedPermissions |-> VerifiedPermissions,
   stepFunctions |-> StepFunctions]

Types == DOMAIN Table
NoPlan == Hollow(<<>>)

\* A provider is registered once.
ASSUME RegistriesAssumption ==
  \A r \in Registries : r \in Seq(Types) /\ IsInjective(r)

-----------------------------------------------------------------------------

VARIABLES
  registry,  \* the providers in order of registration (never changes)
  asked,     \* asked[i][k]: the k-th call of the probe of registry[i]
  verdict,   \* verdict[i]: how the probe of registry[i] settled
  phase,     \* "probe", "turn", "list", "export", "done"
  queue,     \* the providers still to be listed
  leg,       \* the leg being listed
  level,     \* the nesting depth of the call under way
  left,      \* left[d]: things listed at depth d that were not looked into yet
  pages, seen, got,  \* the call under way: pages read, tokens accepted, things listed
  cands,     \* the candidates so far
  last,      \* the last number given to a listed thing
  plan, step,        \* the export under way and its next call
  flag,      \* how complete the associations of a merged API are said to be
  outcome,   \* what the run has of each provider
  \* history
  served,    \* candidates AWS has shown
  cut        \* something that was to be read to its end was not

probing  == <<registry, asked, verdict>>
reading  == <<pages, seen, got>>
listing  == <<leg, level, left, cands, last, served>>
vars == <<registry, asked, verdict, phase, queue, leg, level, left, pages, seen, got, cands, last,
          plan, step, flag, outcome, served, cut>>

Places  == DOMAIN registry
Answers == {"waiting", "ok", "denied", "failed"}
Reasons == {"iam", "timeout", "error", "none"}
Verdict == {"pending", "available"} \cup Reasons
Result  == {"unlisted", "empty", "listed", "failed", "live", "merged"}

Of(t)   == Table[t]
Now     == Of(Head(queue))
Current == IF phase = "list" THEN Now.legs[leg].calls[level] ELSE plan.calls[step]

TypeOK ==
  /\ registry \in Seq(Types)
  /\ \A i \in DOMAIN asked : asked[i] \in [1..Of(registry[i]).asks -> Answers]
  /\ verdict \in [Places -> Verdict]
  /\ phase \in {"probe", "turn", "list", "export", "done"}
  /\ queue \in Seq(Types)
  /\ leg \in Nat /\ level \in 0..Depth /\ left \in [1..Depth -> SUBSET Nat]
  /\ pages \in Nat /\ seen \subseteq Tokens /\ got \subseteq Nat
  /\ last \in Nat /\ cands \subseteq Nat /\ served \subseteq Nat
  /\ step \in Nat /\ flag \in {"none", "complete", "partial", "denied"}
  /\ DOMAIN outcome \subseteq Types /\ \A t \in DOMAIN outcome : outcome[t] \in Result
  /\ cut \in BOOLEAN

Nothing == [d \in 1..Depth |-> {}]

Init ==
  /\ registry \in Registries
  /\ asked = [i \in Places |-> [k \in 1..Of(registry[i]).asks |-> "waiting"]]
  /\ verdict = [i \in Places |-> "pending"]
  /\ phase = "probe" /\ queue = <<>>
  /\ leg = 0 /\ level = 0 /\ left = Nothing
  /\ pages = 0 /\ seen = {} /\ got = {} /\ cands = {} /\ last = 0 /\ served = {}
  /\ plan = NoPlan /\ step = 0 /\ flag = "none" /\ outcome = <<>> /\ cut = FALSE

-----------------------------------------------------------------------------
(* Probing *)

\* What a probe's promise settles with, once every call of it is answered: a client that
\* catches everything answers false, and false carries no reason.
Settlement(kind, answers) ==
  LET all == {answers[k] : k \in DOMAIN answers} IN
  IF "ok" \in all THEN "available"
  ELSE IF kind = "strict" /\ all = {"denied"} THEN "iam" ELSE "none"

\* Mutant: an answer after the timer still settles the probe.
AnswerLate(i, k, a) ==
  /\ phase = "probe" /\ asked[i][k] = "waiting"
  /\ asked' = [asked EXCEPT ![i][k] = a]
  /\ verdict' = IF \A j \in DOMAIN asked[i] \ {k} : asked[i][j] # "waiting"
                THEN [verdict EXCEPT ![i] = Settlement(Of(registry[i]).kind, asked'[i])]
                ELSE verdict
  /\ UNCHANGED <<registry, phase, queue, reading, listing, plan, step, flag, outcome, cut>>

\* The timer of withTimeout may have fired before: then the answer is dropped.  Answers that
\* arrive after the summary change nothing that is ever read again.
Answer(i, k, a) ==
  /\ phase = "probe" /\ asked[i][k] = "waiting"
  /\ asked' = [asked EXCEPT ![i][k] = a]
  /\ verdict' = IF verdict[i] = "pending" /\ \A j \in DOMAIN asked[i] \ {k} : asked[i][j] # "waiting"
                THEN [verdict EXCEPT ![i] = Settlement(Of(registry[i]).kind, asked'[i])]
                ELSE verdict
  /\ UNCHANGED <<registry, phase, queue, reading, listing, plan, step, flag, outcome, cut>>

\* Mutant: a provider that asks several services waits for all of them.
ProbeTimeoutUnlessAny(i) ==
  /\ phase = "probe" /\ verdict[i] = "pending" /\ Of(registry[i]).kind # "any"
  /\ verdict' = [verdict EXCEPT ![i] = "timeout"]
  /\ UNCHANGED <<registry, asked, phase, queue, reading, listing, plan, step, flag, outcome, cut>>

ProbeTimeout(i) ==
  /\ phase = "probe" /\ verdict[i] = "pending"
  /\ verdict' = [verdict EXCEPT ![i] = "timeout"]
  /\ UNCHANGED <<registry, asked, phase, queue, reading, listing, plan, step, flag, outcome, cut>>

\* probeAvailableDetailed awaits every probe and keeps the available providers in order.
IsListed(t)  == t # "api"
Available(v) == {i \in Places : v[i] = "available"}

Summarise ==
  /\ phase = "probe" /\ \A i \in Places : verdict[i] # "pending"
  /\ queue' = Picked(registry, {i \in Available(verdict) : IsListed(registry[i])})
  /\ phase' = "turn" /\ asked' = <<>>
  /\ UNCHANGED <<registry, verdict, reading, listing, plan, step, flag, outcome, cut>>

-----------------------------------------------------------------------------
(* Listing *)

NewCall == /\ pages' = 1 /\ seen' = {} /\ got' = {}
NoCall  == /\ pages' = 0 /\ seen' = {} /\ got' = {}

NoList == /\ leg' = 0 /\ level' = 0 /\ left' = Nothing /\ cands' = {} /\ last' = 0 /\ served' = {}

TakeTurn ==
  /\ phase = "turn" /\ queue # <<>>
  /\ phase' = "list" /\ leg' = 1 /\ level' = 1
  /\ NewCall
  /\ UNCHANGED <<probing, queue, left, cands, last, served, plan, step, flag, outcome, cut>>

\* Mutant: a failed listing returns from the loop instead of continuing it.
EndTurnForAll(r) ==
  /\ outcome' = [t \in DOMAIN outcome \cup {Head(queue)} |->
                   IF t = Head(queue) THEN r ELSE outcome[t]]
  /\ queue' = (IF r = "unlisted" THEN <<>> ELSE Tail(queue)) /\ phase' = "turn"
  /\ NoCall /\ NoList
  /\ plan' = NoPlan /\ step' = 0 /\ flag' = "none" /\ cut' = FALSE

\* runMultiProviderDiscovery counts the failure and goes on with the next provider.
EndTurn(r) ==
  /\ outcome' = [t \in DOMAIN outcome \cup {Head(queue)} |->
                   IF t = Head(queue) THEN r ELSE outcome[t]]
  /\ queue' = Tail(queue) /\ phase' = "turn"
  /\ NoCall /\ NoList
  /\ plan' = NoPlan /\ step' = 0 /\ flag' = "none" /\ cut' = FALSE

Finish ==
  /\ phase = "turn" /\ queue = <<>>
  /\ phase' = "done"
  /\ UNCHANGED <<probing, queue, reading, listing, plan, step, flag, outcome, cut>>

\* Where the listing goes when a call is over: into the deepest thing that was not looked into.
Descend(lf) ==
  LET calls == Now.legs[leg].calls
      open  == {d \in 1..(Len(calls) - 1) : lf[d] # {}}
  IN IF open # {}
     THEN LET d == CHOOSE d \in open : \A e \in open : e <= d
              x == CHOOSE x \in lf[d] : \A y \in lf[d] : x <= y
          IN /\ level' = d + 1 /\ left' = [lf EXCEPT ![d] = @ \ {x}]
             /\ leg' = leg /\ phase' = phase /\ NewCall
     ELSE IF leg < Len(Now.legs)
     THEN /\ leg' = leg + 1 /\ level' = 1 /\ left' = Nothing
          /\ phase' = phase /\ NewCall
     ELSE /\ leg' = leg /\ level' = 0 /\ left' = Nothing
          /\ phase' = "export" /\ NoCall

Listing(d) == d = Now.legs[leg].at

\* The call under way has listed "all".
ListDone(all) ==
  /\ cands' = IF Listing(level) THEN cands \cup all ELSE cands
  /\ Descend(IF level < Len(Now.legs[leg].calls) THEN [left EXCEPT ![level] = all] ELSE left)
  /\ UNCHANGED <<probing, queue, plan, step, flag, outcome>>

NextExportCall ==
  /\ step' = step + 1
  /\ IF step < Len(plan.calls) THEN NewCall ELSE NoCall
  /\ UNCHANGED <<probing, phase, queue, listing, plan, outcome>>

\* A call that is refused is answered with nothing, keeps what it has, or throws: then the whole
\* listing of the provider, or the export, is lost.
Thrown(f) ==
  IF phase = "list"
  THEN IF f \in Current.empty
       THEN /\ ListDone({}) /\ UNCHANGED <<last, served>>
            /\ cut' = (cut \/ (level <= Now.legs[leg].at /\ f # "gone"))
       ELSE /\ EndTurn("unlisted") /\ UNCHANGED probing
  ELSE IF f \in Current.empty
       THEN /\ NextExportCall
            /\ IF Current.stop = "truncate"
               THEN /\ flag' = (IF f = "denied" THEN "denied" ELSE "complete") /\ cut' = TRUE
               ELSE UNCHANGED <<flag, cut>>
       ELSE /\ EndTurn("failed") /\ UNCHANGED probing

Reading == phase \in {"list", "export"} /\ pages > 0

CallFails(f) == Reading /\ f \in Failures /\ Thrown(f)

\* One page with n things and a token.  takeNextToken refuses a token it has seen, and beginPage
\* a page beyond the cap: nothing of the call is used then, unless its caller catches that too.
Page(n, token) ==
  /\ Reading
  /\ n <= (IF phase = "export" THEN 0 ELSE PageSize) /\ last + n <= MaxServed
  /\ Current.pages = 0 => token = NoToken /\ n <= 1
  /\ LET things == got \cup (last + 1)..(last + n) IN
     IF token \in seen THEN Thrown("abort")
     ELSE IF token # NoToken /\ pages < Current.pages
     THEN /\ pages' = pages + 1 /\ seen' = seen \cup {token} /\ got' = things
          /\ last' = last + n
          /\ served' = IF phase = "list" /\ Listing(level) THEN served \cup things ELSE served
          /\ UNCHANGED <<probing, phase, queue, leg, level, left, cands, plan, step, flag,
                         outcome, cut>>
     ELSE IF token # NoToken /\ Current.stop = "throw" THEN Thrown("abort")
     ELSE IF phase = "list"
     THEN /\ ListDone(things) /\ last' = last + n
          /\ served' = (IF Listing(level) THEN served \cup things ELSE served)
          /\ UNCHANGED cut
     ELSE /\ NextExportCall
          /\ flag' = (IF Current.stop = "throw" THEN flag
                      ELSE IF token = NoToken THEN "complete" ELSE "partial")
          /\ cut' = (cut \/ token # NoToken)

-----------------------------------------------------------------------------
(* Exporting one of the candidates *)

ChooseExport(p) ==
  /\ phase = "export" /\ step = 0 /\ cands # {} /\ p \in Now.exports
  /\ plan' = p /\ step' = 1
  /\ IF p.calls # <<>> THEN NewCall ELSE NoCall
  /\ UNCHANGED <<probing, phase, queue, listing, flag, outcome, cut>>

NothingToExport ==
  /\ phase = "export" /\ step = 0 /\ (cands = {} \/ Now.exports = {})
  /\ EndTurn(IF cands = {} THEN "empty" ELSE "listed")
  /\ UNCHANGED probing

Exported == phase = "export" /\ step > Len(plan.calls)

FinishExport ==
  /\ Exported
  /\ EndTurn(IF plan.ends THEN plan.doc ELSE "failed")
  /\ UNCHANGED probing

Probe == \/ \E i \in DOMAIN asked : \E k \in DOMAIN asked[i], a \in Answers \ {"waiting"} : Answer(i, k, a)
         \/ \E i \in Places : ProbeTimeout(i)
         \/ Summarise

List == \/ TakeTurn \/ Finish
        \/ \E f \in Failures : CallFails(f)
        \/ \E n \in 0..PageSize, token \in Tokens \cup {NoToken} : Page(n, token)

ExportOne == \/ \E p \in Now.exports : ChooseExport(p)
             \/ NothingToExport \/ FinishExport

-----------------------------------------------------------------------------
(* Properties *)

\* A verdict, once reached, stands: an answer that comes after the timer of withTimeout is not
\* heard, nor a timer after the answer (registry.ts).
VerdictsStand == [][\A i \in Places : verdict[i] # "pending" => verdict'[i] = verdict[i]]_vars

\* Every provider that was found available is listed exactly once whatever happened to the
\* others, and none else; they are taken in order of registration, not of completion
\* (probeAvailableDetailed, runMultiProviderDiscovery).
EveryoneHasATurn ==
  /\ phase = "done" => DOMAIN outcome = {registry[i] : i \in Available(verdict)} \ {"api"}
  /\ \A a, b \in DOMAIN queue : a < b =>
       \E i, j \in Places : i < j /\ registry[i] = queue[a] /\ registry[j] = queue[b]

\* A list of candidates that is used holds every candidate AWS had to show: a denial, an error,
\* a repeated token or the page cap anywhere on the way to a candidate loses the whole list,
\* never a part of it, except that a thing deleted meanwhile may be left out
\* (pagination.ts: "never returns partial data on cycle/cap").
ListedIsWhole ==
  phase = "export" /\ step = 0 => cands = served /\ ~cut

\* A merged AppSync API is exported with "complete" associations only if all were read
\* (appsync-client.ts promises a "typed partial contract (truncated), not a silent incomplete
\* array").
AssociationsSayWhatTheyAre == Exported /\ flag = "complete" => ~cut
=============================================================================
