---------------------------- MODULE ContractRun ----------------------------
(***************************************************************************)
(* What a resolve-one run does beside AWS's own gateways: credentials for  *)
(* telemetry are prepared, the repository is looked through for contracts, *)
(* the SNS topics are tried one after the other until one has a contract,  *)
(* and the definition that was chosen is closed over its imports.          *)
(***************************************************************************)
EXTENDS Credentials, RepoInventory, SnsContracts, DefinitionClosure

CONSTANTS
  Scenarios,    \* [held, repo, topics, bundle]
  Answers       \* what a name can be looked up as

ASSUME ScenariosAssumption ==
  \A s \in Scenarios : /\ s.held \subseteq {"key", "token"} /\ s.repo \in Repos /\ s.bundle \in Bundles
                       /\ s.topics \in Seq(Topics)
ASSUME AnswersAssumption == \A a \in Answers : a \in Seq(Addresses)

VARIABLES
  phase,        \* "credentials", "inventory", "topics", "closure", "done"
  toTry         \* candidatesToTry not tried yet

run == <<phase, toTry>>
runVars == <<run, credVars, walkVars, smithyVars, invVars, fetchVars, snsVars, closureVars>>

-----------------------------------------------------------------------------
RunInit ==
  /\ phase = "credentials" /\ CredInit
  /\ WalkInit /\ SmithyInit /\ InventoryInit /\ FetchInit /\ SnsInit /\ ClosureInit
  /\ topic = CHOOSE t \in Topics : TRUE
  /\ \E s \in Scenarios : held = s.held /\ repo = s.repo /\ bundle = s.bundle /\ toTry = s.topics

Preparing ==
  /\ phase = "credentials"
  /\ CredNext
  /\ UNCHANGED <<run, walkVars, smithyVars, invVars, fetchVars, snsVars, closureVars>>

\* Whatever became of the credentials, discovery starts.
Prepared ==
  /\ phase = "credentials" /\ credStep = "ready" /\ phase' = "inventory"
  /\ StartInventory
  /\ UNCHANGED <<toTry, credVars, smithyVars, fetchVars, snsVars, closureVars>>

Looking ==
  /\ phase = "inventory"
  /\ InventoryStep
  /\ UNCHANGED <<run, credVars, fetchVars, snsVars, closureVars>>

Looked ==
  /\ phase = "inventory" /\ invStep = "done" /\ phase' = "topics"
  /\ UNCHANGED <<toTry, credVars, walkVars, smithyVars, invVars, fetchVars, snsVars, closureVars>>

Between  == rung \in {"idle", "thrown", "done"}
Resolved == rung = "done" /\ result.origin # "manual-review"

\* A topic that needs a person, or throws, leaves room for the next one.
NextTopic ==
  /\ phase = "topics" /\ Between /\ ~Resolved /\ toTry # <<>>
  /\ StartTopic(Head(toTry))
  /\ toTry' = Tail(toTry)
  /\ UNCHANGED <<phase, credVars, smithyVars, invVars, closureVars>>

Resolving ==
  /\ phase = "topics"
  /\ SnsStep(Answers)
  /\ UNCHANGED <<run, credVars, smithyVars, invVars, closureVars>>

TopicsEnd ==
  /\ phase = "topics" /\ Between /\ (Resolved \/ toTry = <<>>)
  /\ phase' = "closure"
  /\ UNCHANGED <<toTry, credVars, walkVars, smithyVars, invVars, fetchVars, snsVars, closureVars>>

Closing ==
  /\ phase = "closure"
  /\ ClosureNext
  /\ UNCHANGED <<run, credVars, walkVars, smithyVars, invVars, fetchVars, snsVars>>

Closed ==
  /\ phase = "closure" /\ closing # "reading" /\ phase' = "done"
  /\ UNCHANGED <<toTry, credVars, walkVars, smithyVars, invVars, fetchVars, snsVars, closureVars>>

RunNext ==
  \/ Preparing \/ Prepared
  \/ Looking \/ Looked
  \/ NextTopic \/ Resolving \/ TopicsEnd
  \/ Closing \/ Closed

\* One call after the other is awaited; each ends by itself or by its own time limit.
RunSpec == RunInit /\ [][RunNext]_runVars /\ WF_runVars(RunNext)

-----------------------------------------------------------------------------
\* Every variable keeps its type, the number of redirects its bound.
ContractTypeOK ==
  /\ phase \in {"credentials", "inventory", "topics", "closure", "done"} /\ toTry \in Seq(Topics)
  /\ CredTypeOK /\ WalkTypeOK /\ SmithyTypeOK /\ InventoryTypeOK /\ FetchTypeOK /\ SnsTypeOK /\ ClosureTypeOK

(* The run ends, whatever the services answer, however often they redirect, however the directories *)
(* and configurations of the repository refer to each other, and whichever topic throws             *)
(* (prepareTelemetryCredentials, fetchSpecFromUrl, resolveSmithyProject, findIaCFiles,              *)
(* resolveRepoDefinitionClosure, the loop over SNS candidates).                                     *)
RunEnds == <>(phase = "done")
=============================================================================
