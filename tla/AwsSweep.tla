------------------------------ MODULE AwsSweep ------------------------------
(***************************************************************************)
(* What one run asks of AWS, in the order of execute: the identity of the  *)
(* caller (runPreflight), then for discover-many the probes of the         *)
(* providers, the export of every gateway and the other providers, for     *)
(* resolve-one the export of the gateway it selected.  What the repository *)
(* holds is read between these and asks nothing of AWS.                    *)
(***************************************************************************)
EXTENDS AwsProviders

CONSTANTS
  Setups,      \* inputs and accounts to consider
  Apis,        \* gateways to consider
  NoStage, Anything

VARIABLES
  setup,       \* the inputs that matter here and what the account holds
  stage,       \* "preflight", "probe", "gateways", "providers", "done", "aborted"
  api, pc, calls, picked, document

G == INSTANCE GatewayExport

gateway == <<api, pc, calls, picked, document>>
sweep   == <<setup, stage, gateway, vars>>

SetupOf(s) ==
  /\ DOMAIN s = {"mode", "registry", "gateways", "checks", "account", "partition", "caller"}
  /\ s.mode \in {"discover-many", "resolve-one"}
  /\ s.registry \in Registries
  /\ s.gateways \in Seq(Apis)
  /\ s.checks \in BOOLEAN

\* The stages of a gateway differ by name.
ApiOf(a) ==
  /\ a.type \in G!Types /\ a.caller \in {"discover", "resolve"}
  /\ \A s, t \in a.stages : s.name # NoStage /\ (s.name = t.name => s = t)

ASSUME SetupsAssumption ==
  (\A s \in Setups : SetupOf(s)) /\ \A a \in Apis : ApiOf(a)

SweepInit ==
  /\ Init /\ G!Init
  /\ setup \in {s \in Setups : s.registry = registry}
  /\ stage = "preflight"

-----------------------------------------------------------------------------
(* runPreflight *)

shouldResolveCallerIdentity ==
  setup.checks \/ setup.account # Anything \/ setup.partition # Anything

Expected(wanted, actual) == wanted = Anything \/ wanted = actual

AfterPreflight == IF setup.mode = "discover-many" THEN "probe" ELSE "gateways"

PreflightSkipped ==
  /\ stage = "preflight" /\ ~shouldResolveCallerIdentity
  /\ stage' = AfterPreflight /\ UNCHANGED <<setup, gateway, vars>>

\* Mutant: a mismatch is logged with the other warnings.
PreflightWarns ==
  /\ stage = "preflight" /\ shouldResolveCallerIdentity
  /\ stage' \in {AfterPreflight, "aborted"} /\ UNCHANGED <<setup, gateway, vars>>

\* GetCallerIdentity is refused, or answers with the account and the partition of the caller; the
\* permission probe after it only warns.
PreflightChecked ==
  /\ stage = "preflight" /\ shouldResolveCallerIdentity
  /\ \/ stage' = "aborted"
     \/ /\ Expected(setup.account, setup.caller.account)
        /\ Expected(setup.partition, setup.caller.partition)
        /\ stage' = AfterPreflight
  /\ UNCHANGED <<setup, gateway, vars>>

-----------------------------------------------------------------------------
(* The phases *)

Ask == /\ stage = "probe" /\ Probe
       /\ stage' = (IF phase' = "turn" THEN "gateways" ELSE stage)
       /\ UNCHANGED <<setup, gateway>>

\* The loop over the gateways: what became of one says nothing of the next.
BeginGateway ==
  /\ stage = "gateways" /\ setup.gateways # <<>>
  /\ G!Begin(Head(setup.gateways))
  /\ setup' = [setup EXCEPT !.gateways = Tail(@)]
  /\ UNCHANGED <<stage, vars>>

ReadGateway == stage = "gateways" /\ G!Read /\ UNCHANGED <<setup, stage, vars>>

GatewayEnded ==
  /\ stage = "gateways" /\ pc \in G!Ends
  /\ api' = G!Nobody /\ pc' = "idle" /\ calls' = G!NoCalls
  /\ picked' = G!Refused /\ document' = G!NoDocument
  /\ UNCHANGED <<setup, stage, vars>>

GatewaysEnded ==
  /\ stage = "gateways" /\ pc = "idle" /\ setup.gateways = <<>>
  /\ stage' = (IF setup.mode = "discover-many" THEN "providers" ELSE "done")
  /\ UNCHANGED <<setup, gateway, vars>>

AskProviders ==
  /\ stage = "providers"
  /\ List \/ (phase = "export" /\ ExportOne)
  /\ stage' = (IF phase' = "done" THEN "done" ELSE stage)
  /\ UNCHANGED <<setup, gateway>>

Preflight == PreflightSkipped \/ PreflightChecked
Gateways  == BeginGateway \/ ReadGateway \/ GatewayEnded \/ GatewaysEnded

SweepNext == Preflight \/ Ask \/ Gateways \/ AskProviders

(* A probe may never be answered, but its timer fires; every other call    *)
(* settles, by the request timeout of the SDK at the latest, and the       *)
(* single thread of the process goes on with it.                           *)
Settles == stage = "probe" /\ UNCHANGED <<setup, gateway>> /\
             \/ Summarise /\ stage' = "gateways"
             \/ (\E i \in Places : ProbeTimeout(i)) /\ stage' = stage

SweepSpec == /\ SweepInit /\ [][SweepNext]_sweep
             /\ WF_sweep(Preflight) /\ WF_sweep(Settles)
             /\ WF_sweep(Gateways) /\ WF_sweep(AskProviders)

-----------------------------------------------------------------------------
(* Properties *)

SweepTypeOK == TypeOK /\ G!TypeOK /\ stage \in {"preflight", "probe", "gateways", "providers", "done", "aborted"}

\* Whoever the credentials belong to, nothing is asked of an account or a partition the inputs do
\* not expect, and so nothing is exported from it (runPreflight, execute).
WrongAccountUntouched ==
  ~(Expected(setup.account, setup.caller.account) /\ Expected(setup.partition, setup.caller.partition))
    => phase = "probe" /\ pc = "idle" /\ \A i \in Places : verdict[i] = "pending"

\* GatewayExport's, of the gateway under way.
ProvenanceIsTrue   == G!ProvenanceIsTrue
NeverBetweenEquals == G!NeverBetweenEquals
NativeSurvives     == G!NativeSurvives

\* The run ends though probes may hang and AWS may hand out tokens for ever.
SweepEnds == <>(stage \in {"done", "aborted"})
=============================================================================
