# A verification model of postman-aws-spec-discovery-action

The action finds the API specification of a service: in its repository, in AWS API Gateway, or in
one of fourteen other AWS services. `resolve-one` returns a single answer, `discover-many` exports
everything an account shows. Paths below are relative to the repository; its implementation lies
in `src/`, so `src/runtime.ts` here is `src/src/runtime.ts` in `PROJECT.json`.

The program is one Node process without threads. What makes it hard is not parallelism but the
number of awaited calls that may each be denied, fail, time out or be killed, the number of places
that swallow such a failure, and the files that are written on the way. The models therefore keep
every guard, early return, handler and write in its order, and let the environment choose what the
repository, AWS and the disk answer. Documents, names and messages are model values.

## Inventory

| Component (source) | State it keeps | Operations and interactions | What is hard, what makes it correct |
| --- | --- | --- | --- |
| Staged definition export (`lib/spec/definition-file-inventory.ts`) | the service directory, `.stage-<runId>`, `.backup-<runId>` | `stageDefinitionExportTree`: write, read back, two renames, verify, two levels of handlers; called by the artifact writer | crash between the renames, failing clean-up, a second job on the same directory. No mixed, partial or lost tree; success means every member as asked and nothing stale |
| Gateway narrowing and scoring (`runtime.ts`, `lib/resolve/narrowing-pipeline.ts`, `service-resolver.ts`) | candidates, inferred ids, exact matches, scores | custom domains, lookup or listing, exact tag correlation, four tiers, cap, tag reads, ranking; feeds resolve-one | each call may be denied and is swallowed at its own place. Exact matches survive, narrowing only demotes, a name alone selects nothing, ties stay for review |
| Resolve-one (`runResolution`, `lib/resolve/source-selector.ts`) | repository contract, gateway, SNS and provider candidates, the selection | repository first, build artifacts, gateway, SNS, providers, choice, export, fall-through | a failed export falls through to the next candidate after files were written. Repository wins, no better source is passed over, published files belong to the result, dry runs write nothing |
| Artifact writer (`writeResolvedArtifactWithDerivedOpenApi`) | files of one service directory | native, sidecars, derived document, or one staged tree | not transactional for single files |
| Discover-many (`execute`, `discoverRepoServiceGroups`, `runDiscovery`, `runMultiProviderDiscovery`) | `nativePaths`, `slugUsage` per phase, three summaries | preflight, probes, then three phases that write below one output directory | partial failures must be counted once; folders collide between phases; the wrong account must never be touched |
| Provider registry (`lib/providers/registry.ts`) | probe results | fifteen concurrent probes with a 3 s timer each, then the available ones in turn | late answers; order of the results; one failing provider must not silence the others |
| Remote fetch (`lib/fetch/`) | byte budget of the run, redirect count, abort timer | policy on every hop, one lookup that is pinned, limits per body and per run; called by the SNS ladder and the catalog, one fetch at a time | a redirect must be checked like the first location; three comparisons must agree at the limit |
| Credentials and telemetry (`lib/postman/`) | token, identity, failure | `refresh` with retries, a diagnosis of refused keys, the session probe with retries; once, before discovery | retries that must end, refusals that must not be retried, discovery that goes on regardless |
| Stage selection and export (`resolveStageSelection`, `exportApiGatewaySpecBody`, `lib/aws/client.ts`) | choice, document, provenance | listings of stages and mappings, a decision, then several concurrent listings | never one of several equal stages; the native body survives its completion; the provenance is true |
| Definition closure (`resolveRepoDefinitionClosure`) | queue, members, byte count | breadth-first search with limits; after the choice of a definition in resolve-one | limits at the boundary; a closure called full must be closed |
| Pagination and AWS clients (`lib/aws/`) | tokens seen | listing loops with a page cap, some of them nested or forgiving | repeated tokens, truncated lists that look whole |
| Specification providers (`lib/providers/*.ts`) | none | `probe`, `listCandidates`, `exportSpec`; asked by the registry and by both modes | which failures each forgives differs from call to call |
| SNS contract resolution (`lib/providers/sns*.ts`) | scan, evidence, result | a ladder of eight origins, then the subscriptions, then a sidecar; uses remote fetch and the bounded scan | falls through on failure; a weak origin must not win over a usable strong one |
| Repository contracts (`lib/repo/specs.ts`, `catalog.ts`, `graphql-compose.ts`, `smithy-project.ts`) | names, budgets, errors | bounded walk, Smithy projects that import each other, GraphQL groups, IaC documents | every bound must be reported; mutually recursive configurations must end |
| Repository signals and scan (`lib/repo/signals.ts`, `scan.ts`, `context.ts`) | a shared `stopped` flag | bounded directory walk | one deep directory ends the whole walk |
| Static IaC (`lib/iac/`) | a memoised promise, a read budget | five sources in order, Terraform's walk, merge with authored contracts | the order of precedence; the parsers are text processing |
| Path containment (`lib/utils/`) | none | refuses paths outside the root and symbolic links | appears as a failing write |
| Derivation and classification (`lib/spec/*` otherwise) | none | pure document transformations | no state |
| Inputs, entry points, outputs (`index.ts`, `cli.ts`, `contracts.ts`, `execute`) | none | parsing, preflight, order of the phases, output wiring | the preflight comes before anything is asked of the account |
| Logging and summary (`lib/logging/`) | none | formatting, redaction | text |

The hazards of the code, each at its line with the property that would catch it, are in
`PROJECT.json`.

## Plan

Order by importance; every item is done.

1. `StagedExport`, `AtomicExport` - the only place that deletes what it did not write.
2. `GatewayNarrowing` - which gateway of an account is answered.
3. `Resolution` - the main control flow; uses what 1 and 2 establish as choices.
4. `DiscoverMany` - the other mode.
5. `AwsProviders`, `GatewayExport`, composed by `AwsSweep` - probes against their timers, the listings
   behind them, the choice of a stage and the export of a gateway, behind the preflight.
6. `Credentials`, `RemoteFetch`, `DefinitionClosure` - retries, redirects and bounds.
7. `BoundedWalk`, `SmithyClosure`, `RepoInventory` - what a repository holds, and what a bound hides.
8. `SnsContracts` - the ladder; composed with 6 and 7 by `ContractRun`.

Every invariant and action property of these runs, and the refinement of `AtomicExport`, is also a
theorem. Left for later: the ranking of repository candidates as an operator against a reference
definition.

Modules to be proved about declare no `RECURSIVE` operator, take their parameters as constants with
named assumptions, and keep one action per operation.

## Modules and the code

### StagedExport, AtomicExport, MCStagedExport

`canonical`, `stage[r]` and `backup[r]` are the three directories of run `r`; a directory is absent
or maps file names to bodies. `pc[r]` names the awaited call `r` makes next: `write`, `sidecar`,
`list`, `copy` are the loops of `stageDefinitionExportTree`, `swapOut` and `swapIn` its renames,
`verify` the read-back after the swap, `restore*` the inner recovery, `clean*` the outer `catch`.
`CallFails` is a rejection of the pending call and goes to the handler that encloses it; `Crash` may
happen anywhere. Two failures reach no handler and are choices of the step itself: a write or a copy
that tears (`Written`), which only a member notices since only members are read back, and a
`readdir` of the prior directory that `listFilesRecursive` swallows (`Listings`), after which no
prior sidecar is carried over. `Exports` is therefore a set: the trees an export of one request may
leave, with its members as asked and its sidecars subject to both. `rm` is one unlink per step.
Symbolic links and hashes are abstracted: a body is what its sha256 tells apart, and a refused link
is a failing call. Two runs with different `runId` interleave freely, as two jobs on one checkout
may. `AtomicExport` is what callers are promised: one step replaces the tree by one of these, or
none does; `Visible` maps the directory, or the backup while a run that moved it is active, to that
tree.

### GatewayNarrowing, MCGatewayNarrowing

From `lookupCandidatesByCustomDomains` to `resolveServiceCandidate`. A gateway is a number with a
profile of facts: whether a domain maps to it, its id or stack occurs in the repository, its tags and
its name match. The three tagging queries, four tiers, `cap`, `read` (tags of every candidate) and
`resolve` are steps; every denial is a disjunct at the call where it is swallowed.

### Resolution, MCResolution, ResolutionProofs

One action per awaited step of `runResolution`: explicit path, catalog entries, inventory, build
artifacts, gateway, SNS probe and topics, provider candidates, `chooseSource`, the loop over
preferred candidates, and the five exports. `job` is the artifact the writer is busy with, with the
result to return and the handler to go to when a write fails; `disk[f]` remembers which source wrote
file `f`, so that "the path names that source's bytes" can be stated. `GatewayNarrowing` and
`StagedExport` enter as what they guarantee: any candidate of `Gateways`; a tree left as it was,
replaced, or missing.

### DiscoverMany, MCDiscoverMany

`execute` in discover-many mode. `usage` is `slugUsage`, reset between gateways and providers
because the code has one map for each; `native` is `nativePaths`; `sums` and `found` hold the summary
and the services of each phase until `Finish` adds and filters them. `folder[s]` records the folder a
candidate was given. No provider in the repository returns `definitionArtifacts`, so artifacts are
written file by file here.

`Subsequences` holds `Array.filter` as recursive functions, shared by the modules that drop elements
of a list in its order.

### AwsProviders, GatewayExport, AwsSweep, MCAwsSweep

What a run asks of AWS. `AwsProviders` gives every SDK client and every provider as a record: which
calls `listCandidates` nests, which failures each call forgives, whether it pages and what its page
cap does, which calls one `exportSpec` makes. One machine reads these tables. `asked` and `verdict`
are the probes: `Answer` and `ProbeTimeout` race for each, `Summarise` is the end of
`probeAvailableDetailed`. `leg`, `level` and `left` walk the nested listings, `pages`, `seen` and
`got` are the pagination guard of the call under way, `EndTurn` is the `continue` of
`runMultiProviderDiscovery`. `GatewayExport` is one gateway: `pc` names the set of calls made at
once, `Select` is `resolveStageSelection`, `Lose` says what the first failing call of a set decides.
`AwsSweep` puts `runPreflight` before both and takes the phases in the order of `execute`; as the
process does, it works on one gateway or provider at a time. SNS topics are listed here and resolved
in `SnsContracts`.

### Credentials, RemoteFetch, DefinitionClosure

`Credentials` is `prepareTelemetryCredentials`: `mints` and `probes` are the answers so far, so that
"asked once more after a refusal" can be stated. `RemoteFetch` is `fetchSpecFromUrl`: `CheckLocation`,
`LookUp`, the request, `Redirected` and the body; `requests` keeps every request made and what it
was pinned to. All fetches of a run are awaited one after the other, so the budget is never read by
two at a time. `DefinitionClosure` is `resolveRepoDefinitionClosure` with its queue, its three
bounds and the three ways it ends.

### Reachability, BoundedWalk, SmithyClosure, RepoInventory

`BoundedWalk` is the directory walks of `specs.ts`, `scan.ts`, `sns.ts` and `terraform.ts` in one
machine, since they differ in what they do at a bound: go on, stop, stop silently, drop everything.
The order in which `opendir` lists is free. `SmithyClosure` resolves one `smithy-build.json` with a
stack of frames where the code recurses. `RepoInventory` is `inventoryRepoSpecs`: walk, projects,
bounded reads, GraphQL groups, static infrastructure code. What a document contains (its format,
service, size, imports) is given by the repository of the scenario.

What there is to find is defined apart from the machines: `Reached` is the least set that holds some
roots and all that its members lead to, `Seen` and `Listed` apply it to the directories of a walk,
`ModelsIn` to the configurations and directories of a Smithy project, `Whole` groups the files
the way the inventory offers them, and `Static` is the static code that bears a document of its own
and can be read. A GraphQL or other file that some project takes as a model is
offered with that project and not again. `ContractsHeldOrReported` compares these sets with what the
machines return. It says what an inventory without errors is worth, and no more: the code reports
neither a directory that it cannot open (`specs.ts:881`), nor static code that it cannot read
(`:691`), nor a resolution of static code that throws (`:734`), so two inventories of one repository,
both without errors, may differ in the documents of static code.

### SnsContracts

`resolveContract` of one topic: `rung` is the origin being tried, `Accepted` what generated
documents may be taken: those that frameworks wrote only when all of them were seen and git does not
ignore them, those under `spec`, `contracts` and `events` without asking git. Then the subscriptions
are read and the result is put together. It uses `BoundedWalk` for the scan and `RemoteFetch` for
the two origins behind an address.

### ContractRun, MCContractRun

Composes these in the order of a resolve-one run: credentials, inventory, topics one after the
other until one has a contract, closure of the definition. The parts share the repository and the
fetch budget.

## Runs

| Run | Question | Result |
| --- | --- | --- |
| `staged_export` | Can failures, torn writes, crashes and a rival export mix, lose or expose a part of a tree? | Not of its members. `NeverMixed` holds under any interleaving; `TreeSurvives`, `CanonicalWhole`, `SuccessInstalls` whenever the run is alone. A sidecar may be torn, or the prior ones dropped, in a run that succeeds |
| `staged_export_solo` | Is the staged replacement one atomic step for callers, and does every run settle? | Yes (`ReplacesAtomically`, `EveryRunEnds`) |
| `staged_export_doc` | Does a failure restore the prior tree, as the function's comment says? | No: a read that fails after the swap leaves the new tree and deletes the backup |
| `narrowing` | What may narrowing, truncation and ties select? | `ExactMatchesSurvive`, `DemotedNotDeleted`, `NeverByNameAlone`, `TwinsStayForReview` hold |
| `narrowing_doc` | Do several exact tag matches always stay for review, as `docs/providers.md` says? | No: a denied tag read of one twin selects the other |
| `resolution` | Which source wins, whose bytes are at the returned paths, what do dry runs and failures leave? | `DryRunWritesNothing`, `PublishedFilesAreItsOwn`, `RepoFirst`, `MostConfidentWins`, `LeftoversAreFailures`, `Settles` hold |
| `resolution_doc` | Does `spec-path` name a specification that exists, as the README says? | No: a composed or fetched repository contract whose write fails is still reported as resolved |
| `discover_many` | Is everything counted once, the repository first, and a file lost only to a namesake? | `DryRunWritesNothing`, `EveryoneIsCounted`, `RepoFirst`, `LostOnlyToNamesakes` hold |
| `discover_many_doc` | Are native artifacts preserved, as `docs/providers.md` says? | No: services of one name in two phases share a folder and overwrite each other |
| `aws_sweep` | Can a late answer, a repeated token, a page cap, a failing provider, a stage listing or the wrong account lead a run astray, and does it end? | `EveryoneHasATurn`, `ListedIsWhole`, `WrongAccountUntouched`, `ProvenanceIsTrue`, `VerdictsStand`, `NeverBetweenEquals`, `NativeSurvives`, `SweepEnds` hold |
| `aws_sweep_doc` | Is an incomplete list of merged-API associations never silent, as the comments of `lib/aws/appsync-client.ts` say? | No: after a failure that is not a denial the pages read so far are recorded as `complete` |
| `contract_run` | Do retries stop, are listed contracts held or an error reported, does the first usable origin win, is a full closure closed, do fetches keep policy and budget, and does the run end? | `RefusalsAreFinal`, `ContractsHeldOrReported`, `FullIsClosed`, `StrongestOrigin`, `FetchesStayInBounds`, `RunEnds` hold |

Each property of a passing run has a mutant in its module, a version of one definition with a bug
that could plausibly be there (a dropped read-back, a missing `return`, a cap applied before the
reordering); TLC finds the property violated under it.

### Bounds

* Staged export: two runs, two definition files and one known sidecar, three requests (two that
  differ in members, sidecars and bodies, one whose sidecar is named like a member), an absent or a
  complete prior tree. Two runs suffice for every pairwise race; a stale definition, a kept sidecar
  and a rewritten sidecar all occur, each also torn, and with a prior tree that cannot be listed.
  Runs are interchangeable, so the safety run uses their permutations as symmetry; the run with
  liveness does not.
* Narrowing: three gateways of ten profiles, a cap of two, two listing orders, with and without
  expected ids. Three is the least number at which a tie and a truncation happen together.
* Resolution: three provider candidates at 85, 70 and 35 (above, at and below what a gateway or a
  topic may score), gateways absent, weak, at 70 and ambiguous at 90, up to two topics at 55 or 70,
  four catalogs, all writing into one directory with overlapping names.
* Discover-many: three gateways under a cap of two, providers of one and of three candidates under
  the same cap, most of one name, one named like another with its id; three repositories, one with
  a composed contract and the output of an earlier run, one with an ambiguous group and two
  contracts that claim one path.

* AWS sweep: every provider alone, so that each table is walked, and four registries in which
  probes of each kind race; HTTP, REST and WebSocket gateways with every combination of five stage
  listings, three domain mappings, a named stage or none, for both callers; accounts and partitions
  that are expected, not expected and not checked. Two pages of up to two things and at most five
  things per listing: one page more than the cap, a repeated token and a thing nested below the
  second of its level all occur.
* Contract run: 88 scenarios which each vary one part and leave the others small. Every limit of the
  code is replaced by one of 1 to 6, so that each bound is met, missed by one and passed: one
  redirect, three attempts, two bytes a file and three a run, depth one. The order of a directory
  and the moment the time runs out are free.

`CHECK_DEADLOCK FALSE` is set everywhere because every run ends: a state without successor is a call
that returned or threw.

### Fairness

Weak fairness is assumed of what one process does next, and of nothing else:

* `SoloSpec` of each run's own next call, `Resolution!Spec` of its next step: an awaited file system
  or AWS call settles, by answering or by rejecting (the clients set request timeouts and a number
  of attempts), and the process then continues.
* `SweepSpec` of the preflight, the gateways and the providers for the same reason, and of the
  timers and the summary of the probes: `setTimeout` fires. No answer to a probe is assumed.
* `RunSpec` of its next step: `GET /me` and the remote fetches have timers of their own, the other
  requests to Postman rely on the timeouts of the HTTP client.

Nothing obliges a run to start, a call to succeed or a crash to happen; `Spec` of `StagedExport`,
`GatewayNarrowing` and `DiscoverMany` assume none.

## Proofs

The theorems hold for every value of the constants that satisfies the named assumptions of the
modules: any number of runs, files, gateways, providers, pages, tokens, attempts, locations and
topics. `SubsequencesProofs` has the facts about sequences the others cite; since the induction
theorems of the library cannot be used, it shows that the recursive function behind `Picked` exists
and is right by looking at the least length at which it would not be.

* `TypeCorrect`, `SweepIsTyped`: every reachable state is well typed. The other proofs rest on it.
* `StagedExportProofs`. `NeverMixed` is not inductive, since it says nothing of stages and backups:
  the invariant adds that every stage holds files of its own request or copies of known sidecars
  only, and that every backup is one export. `TreesSurvive`, `NeverPartial` and `SuccessIsExport`
  describe a lone run label by label. They assume `"probe" \notin FaultSites`, that is, that
  `pathExists` answers truthfully: it reads every error of `stat` as absence, and with such an error
  the handler may delete the backup. `ReplacementIsAtomic` is the refinement, under the same
  assumption: exports that do not overlap implement `AtomicExport`. `SoloInv` adds to that invariant
  that the active run is the one that was started last, all others have ended, and that the tree a
  caller finds is the old or the new one; then each of the labels between the two renames and each
  handler is a stutter or the one step that replaces the tree. `SuccessIsExact` adds `"torn"` and
  `"list"` to what must not happen, and concludes that the tree is exactly the export, sidecars
  included: these two are all that can spoil a success unnoticed.
* `GatewayNarrowingProofs`. `NarrowingInv` says that before the cap no candidate is lost, that what
  a tier named stands in front of the rest, that the tiers only run when no exact match was
  enumerated, and that the answer is scored with the tags known at the end. All four safety
  properties follow.
* `ResolutionProofs`. `DryRunsWriteNothing`: only a step from `write` changes the disk, and no dry run
  gets there. `RepositoryWins`: `ContractInv` says that a contract, once found, stays the selected
  source, that nothing was written before it could be found, and that every job is then the
  repository's. `PathsNameTheirSource` and `StrangersFailed` share `ArtifactInv`: what a source left on
  the disk is a failure's, or belongs to the source that is writing or has succeeded, and a job has
  still to write whatever its result names and the disk does not hold. `BestSourceWins` follows from
  `RankInv`: the providers that wait are in order of confidence, everyone else on the list has failed
  or is being written, and what is written is no worse than those that wait, the gateway and the
  topic.
* `DiscoverManyProofs`. `RepositoryFirst`: every contract has claimed its path in `native`, no two
  the same one (`ReportInv`), before a service is reported. `AllAreCounted` needs that nobody is
  visited twice: what is still queued has neither failed nor been given a folder (`VisitInv`); then
  each phase balances what it attempted with what was exported, failed, skipped or still waits, and
  the failures are as many as there are culprits (`CountInv`). `FilesGoToNamesakes` needs that
  services of one name and one phase have folders of their own, since each folder that is given away
  is counted under its name (`FolderInv`), and that a path of a stored service holds its own file or
  the file of another service of its folder (`FileInv`).
* `AwsSweepProofs`. `StrangersAreUntouched`: with the wrong credentials the run does not leave the
  preflight but to end (`AccountInv`). `ProvenanceStaysTrue`, `ExportsSurvive` and `EqualsAreNotChosen`
  share `GatewayInv`: each protocol has points of its own and nothing is delivered before the last.
  `NobodyIsPassedOver` keeps the providers that were listed and those that wait together with those
  found available (`TurnInv`). `ListsAreWhole` keeps every candidate AWS has shown either among the
  candidates or on the page being read (`ListInv`), and rests on `TableFacts`: no table of a provider
  forgives a failure on the way to its candidates.
* `RepoInventoryProofs`. A walk remembers what it found and what is left on its trail, but not where
  it has been. `ReachedFacts` gives the two halves of a least closed set. `WalkInv` says that what
  is on the trail or was found is reached from the roots, and that there is a set of paths which are
  dealt with: with the trail it holds the roots and all that its members lead to, and its files were
  found, unless the walk was cut. At the end the trail is empty, the set is closed, and what was
  found is what the walk lists (`WholeWalk`). `SmithyInv` says the same of the frames of a project,
  where an error takes the place of the cut (`WholeProject`). `InventoryInv` follows the budgets:
  while nothing was cut and no error noted (`Quiet`), the candidates so far and the files and
  projects still to be read are together what the repository holds; and of the static code
  (`CodeOK`), what was read and what the sources that are left still name are together all that can be
  read, unless a bound or an escape was noted.
* `ContractRunProofs` has the invariants of the other parts: `CredInv` (while attempts go on, all
  answers so far were transient and fewer than the limit), `FetchInv` (what was requested passed the
  policy and was pinned; what was read is within both limits), `ClosureInv` (a member waits in the
  queue, or what it needs is covered), and `SnsInv`, which goes down the ladder: an origin that was
  passed had nothing usable, where each scan that was not cut is a whole walk. `RunInv` joins the
  parts with the order of the run, since a walk belongs now to the inventory and now to a topic. It
  gives `ContractTypesHold`, `ContractsAreHeldOrReported` and `TheStrongestWins`; `RefusalsStayFinal`,
  `FullMeansClosed` and `FetchesAreBounded` need one part each.

The assumptions of these modules say of the environment what the code relies on: paths are finitely
many and have an order, there is a project and a topic (one without either has nothing to resolve),
limits are natural numbers, and what lies in a directory that a framework writes to is output of
that framework.

Only model-checked: liveness (`EveryRunEnds`, `Settles`, `SweepEnds`, `RunEnds`). Liveness under
fairness is beyond the proof system; so is what a recursive definition computes for every input,
unless a least counterexample can be looked at as above.

## Observations without a run

Met while modelling, beside the five findings of `PROJECT.json`; the first three are listed there as
hazards.

* `scan.ts:49`: a directory below the depth limit sets `stopped` and ends the whole walk without a
  sign, siblings included, so what is found depends on the order of `opendir`.
* `runtime.ts:3171`: discover-many builds its `SnsProvider` without the EventBridge client and bridge
  evidence that resolve-one passes at 2691, so the `eventbridge-derived` origin never applies there.
* `runtime.ts:2243`: the errors of an inventory that was cut short are put aside. Roots that are
  walked twice count their entries twice, so the cut may come early.
* `definition-file-inventory.ts:460`: a `readdir` that rejects is swallowed, so that a run may succeed
  and have dropped the prior sidecars, which the comment at 504 says are preserved; sidecars are
  never read back, so that a torn one is installed with success. Both are faults of the model.
* `spec-fetcher.ts`: bytes of a body whose fetch then fails are not charged to the budget of the run.
* `smithy-project.ts:445`: a directory that cannot be opened is skipped without an error.
* `docs/sns-contract-resolution.md` calls the documents of the repository tracked (line 7), but git
  is only asked about what frameworks wrote (`sns.ts:1328`). It prefers
  `events/order-placed/asyncapi.yaml` (84), which the code takes for generated and ranks below a
  document elsewhere, and scans `contracts/notifications/asyncapi.yaml` (89), where the code only
  accepts `*.asyncapi.*`. `StrongestOrigin` states the order of the code.

## Not modelled

The components marked `not_modelled` in `PROJECT.json`, and of those marked `partly` what their note
says: the tests of path containment, derivation, classification and composition of documents, the
parsers of static infrastructure code, the hints read from text, the ranking of repository
candidates, input parsing, output wiring and logging. They transform text or single paths and keep
no state; where they fail, the step that calls them fails in the model. The scripts under
`validation/` and `scripts/` are tools of the maintainers that test the action against a live
account. The AWS SDK, the file system and the network are the environment. Time is not modelled: a
timeout is a call that fails, or a timer that races it.
