----------------------------- MODULE Resolution -----------------------------
(***************************************************************************)
(* resolve-one: runResolution of src/runtime.ts with chooseSource and the  *)
(* artifact writer, one action per awaited step whose answer or failure    *)
(* changes what happens next.  What the repository, AWS and the disk       *)
(* answer is chosen at the step that asks.  GatewayNarrowing details how   *)
(* the gateway candidate comes about, StagedExport how a tree is written.  *)
(*                                                                         *)
(* A writer is the source an artifact comes from; a file remembers who     *)
(* wrote it last: "tree" for a file of the repository, "stale" for the     *)
(* output of an earlier run.                                               *)
(***************************************************************************)
EXTENDS Naturals, Sequences, FiniteSets, SequencesExt

CONSTANTS
  Files, TreeFile, NoFile,  \* paths; TreeFile is the contract in the repository,
                            \* the others lie in the service directory
  Kept,          \* sidecars a staged export carries over
  Catalogs,      \* what the Backstage catalog may list, as sequences of entry kinds
  Candidates,    \* candidates of the additional providers
  Confidence,    \* their scores
  Gateways,      \* what the gateway resolver may answer, NoCandidate included
  SnsScores,     \* scores of a resolved SNS topic
  MaxTopics,     \* SNS candidates tried
  Plan,          \* Plan[w]: what writer w has to write
  NoCandidate, NoContract

Writers == Candidates \cup {"artifact", "repo", "gateway", "sns", "review"}
Owners  == Writers \cup {"tree", "stale", "torn", "absent"}

\* members: the files of a multi-file definition, the root first; otherwise empty.
Plans == [native : Files \cup {NoFile}, sidecars : Seq(Files), meta : Files \cup {NoFile},
          derived : Files \cup {NoFile}, members : Seq(Files)]

ASSUME ResolutionAssumption ==
  /\ TreeFile \in Files /\ NoFile \notin Files /\ Kept \subseteq Files \ {TreeFile}
  /\ Catalogs \subseteq Seq({"inline", "local", "remote"})
  /\ IsFiniteSet(Candidates)
  /\ Candidates \cap {"artifact", "repo", "gateway", "sns", "review", "nobody",
                    "tree", "stale", "torn", "absent"} = {}
  /\ Confidence \in [Candidates -> Nat] /\ SnsScores \subseteq Nat /\ MaxTopics \in Nat
  /\ Gateways \subseteq [confidence : Nat, ambiguous : BOOLEAN] \cup {NoCandidate}
  /\ Plan \in [Writers -> Plans]

VARIABLES
  pc,
  input,     \* explicit spec-path, dry-run, the SNS hint
  catalog,   \* catalog entries still to visit
  viable,    \* kinds of the entries that gave a contract
  contract,  \* the repository contract: NoContract, "tree", "fetched" or "aggregate"
  gateway,   \* the resolved gateway candidate
  topics,    \* SNS candidates still to try
  sns,       \* the resolved SNS candidate
  review,    \* SNS evidence for manual review: "none", "evidence" or "metadata"
  queue,     \* provider candidates still to try, best first
  selected,  \* selectedSource
  job,       \* the artifact being written
  disk,      \* disk[f]: who wrote file f
  result,    \* what the call returns
  \* history
  listed,    \* the provider candidates that were scored
  failed     \* writers whose export or write failed

repoVars == <<catalog, viable, contract>>
snsVars  == <<topics, sns, review>>
vars == <<pc, input, catalog, viable, contract, gateway, topics, sns, review, queue,
          selected, job, disk, result, listed, failed>>

Origins     == {"repo", "other"}
SourceTypes == {"repo-spec", "cfn-embedded", "gateway-export", "sns-contract", "provider", "manual-review"}
Result == [status : {"resolved", "unresolved"}, source : SourceTypes, confidence : Nat,
           by : Writers \cup {"nobody"}, spec : Files \cup {NoFile},
           derived : Files \cup {NoFile}, meta : Files \cup {NoFile}]

Unresolved(c) ==
  [status |-> "unresolved", source |-> "manual-review", confidence |-> c, by |-> "nobody",
   spec |-> NoFile, derived |-> NoFile, meta |-> NoFile]
Resolved(source, c, w) ==
  [status |-> "resolved", source |-> source, confidence |-> c, by |-> w,
   spec |-> NoFile, derived |-> NoFile, meta |-> NoFile]
NoResult == Unresolved(0)

NoJob == [by |-> "nobody", todo |-> <<>>, tree |-> FALSE, ok |-> NoResult, otherwise |-> "threw"]
Job   == [by : Writers \cup {"nobody"}, todo : Seq(Files), tree : BOOLEAN,
          ok : Result, otherwise : {"threw", "gateway", "export", "keep"}]

TypeOK ==
  /\ pc \in {"explicit", "catalog", "inventory", "artifacts", "gateway", "probeSns", "sns",
             "providers", "choose", "export", "dispatch", "write", "done", "threw"}
  /\ input \in [explicit : BOOLEAN, dry : BOOLEAN, hint : BOOLEAN]
  /\ catalog \in Seq({"inline", "local", "remote"}) /\ viable \in Seq({"inline", "local", "remote"})
  /\ contract \in {NoContract, "tree", "fetched", "aggregate"}
  /\ gateway \in Gateways \cup {NoCandidate}
  /\ topics \in Nat /\ review \in {"none", "evidence", "metadata"}
  /\ sns \in [confidence : Nat, origin : Origins] \cup {NoCandidate}
  /\ queue \in Seq(Candidates) /\ listed \subseteq Candidates /\ failed \subseteq Writers
  /\ selected \in Result /\ result \in Result /\ job \in Job
  /\ disk \in [Files -> Owners]
  /\ pc = "write" => job.by # "nobody" /\ ~input.dry

Init ==
  /\ input \in [explicit : BOOLEAN, dry : BOOLEAN, hint : BOOLEAN]
  /\ pc = (IF input.explicit THEN "explicit" ELSE "catalog")
  /\ catalog \in Catalogs /\ viable = <<>> /\ contract = NoContract
  /\ gateway = NoCandidate /\ topics = 0 /\ sns = NoCandidate /\ review = "none"
  /\ queue = <<>> /\ selected = NoResult /\ job = NoJob /\ result = NoResult
  /\ \E before \in {"absent", "stale"} :
       disk = [f \in Files |-> IF f = TreeFile THEN "tree" ELSE before]
  /\ listed = {} /\ failed = {}

Return(r) ==
  /\ pc' = "done" /\ result' = r
Throw ==
  /\ pc' = "threw" /\ UNCHANGED result
Proceed(l) ==
  /\ pc' = l /\ UNCHANGED result

-----------------------------------------------------------------------------
(* The repository first.                                                   *)

\* selectExplicitRepoSpec: a symbolic link is refused, any other failure thrown.
SelectExplicit ==
  /\ pc = "explicit"
  /\ \/ contract' = "tree" /\ Proceed("gateway")
     \/ UNCHANGED contract /\ Return(Unresolved(0))
     \/ UNCHANGED contract /\ Throw
  /\ UNCHANGED <<input, catalog, viable, gateway, snsVars, queue, selected, job, disk, listed, failed>>

\* One entry of the catalog: classified, or skipped with a warning when it
\* cannot be read, fetched or classified.
VisitEntry ==
  /\ pc = "catalog" /\ catalog # <<>>
  /\ catalog' = Tail(catalog)
  /\ viable' \in {viable, Append(viable, Head(catalog))}
  /\ UNCHANGED <<pc, input, contract, gateway, snsVars, queue, selected, job, disk, result, listed, failed>>

\* One viable entry is the contract; several are left to a reviewer.
selectCatalogContract ==
  /\ pc = "catalog" /\ catalog = <<>>
  /\ CASE Len(viable) = 0 -> Proceed("inventory") /\ UNCHANGED contract
       [] Len(viable) = 1 -> /\ contract' = IF viable[1] = "local" THEN "tree" ELSE "fetched"
                             /\ Proceed("gateway")
       [] OTHER -> Return(Unresolved(0)) /\ UNCHANGED contract
  /\ UNCHANGED <<input, catalog, viable, gateway, snsVars, queue, selected, job, disk, listed, failed>>

\* selectInventoryContract: no candidate, one of the top tier, or several.
selectInventoryContract ==
  /\ pc = "inventory"
  /\ \/ UNCHANGED contract /\ Proceed("artifacts")
     \/ contract' \in {"tree", "aggregate"} /\ Proceed("gateway")
     \/ UNCHANGED contract /\ Return(Unresolved(0))
  /\ UNCHANGED <<input, catalog, viable, gateway, snsVars, queue, selected, job, disk, listed, failed>>

-----------------------------------------------------------------------------
(* writeResolvedArtifactWithDerivedOpenApi.                                *)
Named(w, r) ==
  LET p == Plan[w]
  IN  [r EXCEPT !.spec = IF p.members # <<>> THEN p.members[1] ELSE p.native,
                !.derived = p.derived, !.meta = p.meta]

\* Native file, sidecars, metadata, derived document, in this order; a dry run
\* names the paths and writes nothing.
OneIfAny(f) == IF f = NoFile THEN <<>> ELSE <<f>>
Written(p)  == OneIfAny(p.native) \o p.sidecars \o OneIfAny(p.meta) \o OneIfAny(p.derived)

\* Mutant: the dry-run return comes after the tree has been staged.
PublishEager(w, r, otherwise) ==
  /\ pc' = "write" /\ UNCHANGED result
  /\ job' = [by |-> w, tree |-> Plan[w].members # <<>>, ok |-> r, otherwise |-> otherwise,
             todo |-> IF Plan[w].members # <<>> THEN <<>> ELSE Written(Plan[w])]

WriteOut(w, tree, todo, r, otherwise) ==
  IF input.dry THEN Return(r) /\ UNCHANGED job
  ELSE /\ pc' = "write" /\ UNCHANGED result
       /\ job' = [by |-> w, tree |-> tree, todo |-> todo, ok |-> r, otherwise |-> otherwise]

Publish(w, r, otherwise) ==
  LET tree == Plan[w].members # <<>>
  IN  WriteOut(w, tree, IF tree THEN <<>> ELSE Written(Plan[w]), r, otherwise)

WriteFile ==
  /\ pc = "write" /\ ~job.tree /\ job.todo # <<>>
  /\ disk' = [disk EXCEPT ![Head(job.todo)] = job.by]
  /\ job' = [job EXCEPT !.todo = Tail(@)]
  /\ UNCHANGED <<pc, input, repoVars, gateway, snsVars, queue, selected, result, listed, failed>>

\* The staged export replaces the service directory, known sidecars apart.
Installed(w) ==
  LET new == ToSet(Plan[w].members) \cup ToSet(Written([Plan[w] EXCEPT !.native = NoFile]))
  IN  [f \in Files |-> IF f \in new THEN w
                       ELSE IF f \in Kept \cup {TreeFile} THEN disk[f] ELSE "absent"]

\* The swap and the way back both failed.
Missing == [f \in Files |-> IF f = TreeFile THEN disk[f] ELSE "absent"]

WriteTree ==
  /\ pc = "write" /\ job.tree
  /\ disk' = Installed(job.by) /\ job' = [job EXCEPT !.tree = FALSE]
  /\ UNCHANGED <<pc, input, repoVars, gateway, snsVars, queue, selected, result, listed, failed>>

\* Mutant: whatever fails, the caller is told that the artifact is there.
WriteFailsSilently ==
  /\ pc = "write" /\ (job.tree \/ job.todo # <<>>)
  /\ failed' = failed \cup {job.by} /\ job' = NoJob
  /\ Return(job.ok)
  /\ UNCHANGED <<input, repoVars, gateway, snsVars, queue, selected, disk, listed>>

\* A write rejects.  A file may be left torn; a tree is left as it was, already
\* replaced, or missing.  What happens next is the caller's business.
WriteFails ==
  /\ pc = "write" /\ (job.tree \/ job.todo # <<>>)
  /\ disk' \in IF job.tree THEN {disk, Installed(job.by), Missing}
               ELSE {disk, [disk EXCEPT ![Head(job.todo)] = "torn"]}
  /\ failed' = failed \cup {job.by} /\ job' = NoJob
  /\ CASE job.otherwise = "keep"  -> Return(selected)
       [] job.otherwise = "threw" -> Throw
       [] OTHER -> Proceed(job.otherwise)
  /\ UNCHANGED <<input, repoVars, gateway, snsVars, queue, selected, listed>>

\* Mutant: the return after a written build artifact is forgotten.
WriteDoneFallsThrough ==
  /\ pc = "write" /\ ~job.tree /\ job.todo = <<>>
  /\ IF job.otherwise = "gateway" THEN Proceed("gateway") ELSE Return(job.ok)
  /\ job' = NoJob
  /\ UNCHANGED <<input, repoVars, gateway, snsVars, queue, selected, disk, listed, failed>>

WriteDone ==
  /\ pc = "write" /\ ~job.tree /\ job.todo = <<>>
  /\ Return(job.ok) /\ job' = NoJob
  /\ UNCHANGED <<input, repoVars, gateway, snsVars, queue, selected, disk, listed, failed>>

-----------------------------------------------------------------------------
(* Evidence.                                                               *)

\* Local CDK/SAM build artifacts: none, a stale one, several, or one that is
\* published; a failed write is a warning.
findLocalCfnArtifactSpecs ==
  /\ pc = "artifacts"
  /\ \/ Proceed("gateway") /\ UNCHANGED job
     \/ Return(Unresolved(0)) /\ UNCHANGED job
     \/ LET r == Named("artifact", Resolved("cfn-embedded", 75, "artifact"))
        IN  Publish("artifact", IF input.dry THEN [r EXCEPT !.derived = NoFile] ELSE r, "gateway")
  /\ UNCHANGED <<input, repoVars, gateway, snsVars, queue, selected, disk, listed, failed>>

ResolveGateway ==
  /\ pc = "gateway" /\ gateway' \in Gateways
  /\ Proceed(IF input.hint THEN "probeSns" ELSE "providers")
  /\ UNCHANGED <<input, repoVars, snsVars, queue, selected, job, disk, listed, failed>>

\* The SNS provider is unavailable, or lists the topics to try.
ProbeSns ==
  /\ pc = "probeSns"
  /\ \/ review' = "evidence" /\ topics' = 0
     \/ topics' \in 0..MaxTopics /\ UNCHANGED review
  /\ Proceed("sns")
  /\ UNCHANGED <<input, repoVars, gateway, sns, queue, selected, job, disk, listed, failed>>

\* One topic: a contract ends the search; an unresolved one leaves evidence and,
\* for the first, metadata; an unsupported format leaves evidence; a throw nothing.
TryTopic ==
  /\ pc = "sns" /\ topics > 0
  /\ \/ /\ \E c \in SnsScores, o \in Origins : sns' = [confidence |-> c, origin |-> o]
        /\ topics' = 0 /\ UNCHANGED review
     \/ /\ topics' = topics - 1 /\ UNCHANGED sns
        /\ review' \in {"metadata", review, IF review = "none" THEN "evidence" ELSE review}
  /\ UNCHANGED <<pc, input, repoVars, gateway, queue, selected, job, disk, result, listed, failed>>

SnsDone ==
  /\ pc = "sns" /\ topics = 0 /\ Proceed("providers")
  /\ UNCHANGED <<input, repoVars, gateway, snsVars, queue, selected, job, disk, listed, failed>>

\* Mutant: candidates are tried in the order the providers listed them.
AnyOrder(q) == TRUE

BestFirst(q) == \A i, j \in DOMAIN q : i < j => Confidence[q[i]] >= Confidence[q[j]]

\* A provider that cannot list contributes no candidate.
collectProviderResolutionCandidates ==
  /\ pc = "providers"
  /\ listed' \in SUBSET Candidates
  /\ \E q \in SetToSeqs(listed') : BestFirst(q) /\ queue' = q
  /\ Proceed("choose")
  /\ UNCHANGED <<input, repoVars, gateway, snsVars, selected, job, disk, failed>>

-----------------------------------------------------------------------------
(* chooseSource.                                                           *)
Seen(c) == IF c = NoCandidate THEN 0 ELSE c.confidence
Best    == IF Seen(gateway) > Seen(sns) THEN Seen(gateway) ELSE Seen(sns)

isResolvedGatewayCandidate ==
  gateway # NoCandidate /\ ~gateway.ambiguous /\ gateway.confidence >= 40
isResolvedSnsCandidate == sns # NoCandidate /\ sns.confidence >= 40

\* More confidence wins; a tie goes to the gateway unless the repository itself
\* holds the contract of the topic.
SnsWins ==
  /\ isResolvedSnsCandidate
  /\ isResolvedGatewayCandidate =>
       \/ sns.confidence > gateway.confidence
       \/ sns.confidence = gateway.confidence /\ sns.origin = "repo"

ContractPath == IF contract = "tree" THEN TreeFile ELSE Plan["repo"].native

\* Mutant: a candidate above the bar outranks the contract of the repository.
chooseSourceCloudFirst ==
  CASE SnsWins -> Resolved("sns-contract", sns.confidence, "sns")
    [] isResolvedGatewayCandidate -> Resolved("gateway-export", gateway.confidence, "gateway")
    [] contract # NoContract -> [Resolved("repo-spec", 70, "repo") EXCEPT !.spec = ContractPath]
    [] OTHER -> Unresolved(Best)

chooseSource ==
  CASE contract # NoContract ->
         [Resolved("repo-spec", IF gateway = NoCandidate /\ sns = NoCandidate THEN 70
                                ELSE IF Best > 80 THEN Best ELSE 80, "repo")
           EXCEPT !.spec = ContractPath]
    [] contract = NoContract /\ SnsWins -> Resolved("sns-contract", sns.confidence, "sns")
    [] contract = NoContract /\ ~SnsWins /\ isResolvedGatewayCandidate ->
         Resolved("gateway-export", gateway.confidence, "gateway")
    [] OTHER -> Unresolved(Best)

Choose ==
  /\ pc = "choose" /\ selected' = chooseSource /\ Proceed("export")
  /\ UNCHANGED <<input, repoVars, gateway, snsVars, queue, job, disk, listed, failed>>

shouldPreferProviderCandidate(p) ==
  /\ Confidence[p] >= 40 /\ selected.source # "repo-spec"
  /\ selected.status = "unresolved" \/ Confidence[p] > selected.confidence

Preferred == queue # <<>> /\ shouldPreferProviderCandidate(Head(queue))

\* Mutant: a candidate whose export fails is tried again after the others.
TryProviderForever ==
  /\ pc = "export" /\ Preferred
  /\ LET p == Head(queue)
     IN  \/ /\ queue' = Append(Tail(queue), p) /\ failed' = failed \cup {p}
            /\ Proceed("export") /\ UNCHANGED job
         \/ /\ queue' = Tail(queue) /\ UNCHANGED failed
            /\ Publish(p, Named(p, Resolved("provider", Confidence[p], p)), "export")
  /\ UNCHANGED <<input, repoVars, gateway, snsVars, selected, disk, listed>>

\* exportProviderResolutionCandidate for the next candidate: it throws, refuses
\* an incomplete definition, or publishes.
TryProvider ==
  /\ pc = "export" /\ Preferred
  /\ queue' = Tail(queue)
  /\ LET p == Head(queue)
     IN  \/ failed' = failed \cup {p} /\ Proceed("export") /\ UNCHANGED job
         \/ Return(Unresolved(0)) /\ UNCHANGED <<failed, job>>
         \/ /\ Publish(p, Named(p, Resolved("provider", Confidence[p], p)), "export")
            /\ UNCHANGED failed
  /\ UNCHANGED <<input, repoVars, gateway, snsVars, selected, disk, listed>>

\* No candidate is preferred any more; having tried one and still nothing
\* selected means manual review.
ProvidersDone ==
  /\ pc = "export" /\ ~Preferred
  /\ IF selected.status = "unresolved" /\ failed \cap listed # {}
     THEN Return(selected) ELSE Proceed("dispatch")
  /\ UNCHANGED <<input, repoVars, gateway, snsVars, queue, selected, job, disk, listed, failed>>

-----------------------------------------------------------------------------
(* Export of the selected source.                                          *)
Dispatch(source) == pc = "dispatch" /\ selected.source = source
DispatchFrame    == UNCHANGED <<input, repoVars, gateway, snsVars, queue, selected, disk, listed>>

\* The repository contract: a symbolic link or an incomplete closure is refused;
\* any other failure is reported as a skipped derived document.
ExportRepo ==
  /\ Dispatch("repo-spec")
  /\ \/ Return(Unresolved(0)) /\ UNCHANGED <<job, failed>>
     \/ Return(selected) /\ failed' = failed \cup {"repo"} /\ UNCHANGED job
     \/ \* a closure of several files is staged as a tree.
        /\ contract # "aggregate" /\ Plan["repo"].members # <<>>
        /\ Publish("repo", Named("repo", selected), "keep") /\ UNCHANGED failed
     \/ \* One file; only a materialized contract is written.
        LET r == [selected EXCEPT !.derived = Plan["repo"].derived]
            native == IF contract = "tree" THEN NoFile ELSE Plan["repo"].native
            todo == OneIfAny(native) \o OneIfAny(Plan["repo"].derived)
        IN  /\ WriteOut("repo", FALSE, todo, r, "keep")
            /\ UNCHANGED failed
  /\ DispatchFrame

\* Stage selection or a known limit of the export ends in manual review, any
\* other failure is thrown.
ExportGateway ==
  /\ Dispatch("gateway-export")
  /\ \/ Return(Unresolved(selected.confidence)) /\ failed' = failed \cup {"gateway"} /\ UNCHANGED job
     \/ ~input.dry /\ Throw /\ failed' = failed \cup {"gateway"} /\ UNCHANGED job
     \/ Publish("gateway", Named("gateway", selected), "threw") /\ UNCHANGED failed
  /\ DispatchFrame

ExportSns ==
  /\ Dispatch("sns-contract")
  /\ Publish("sns", Named("sns", selected), "threw") /\ UNCHANGED failed
  /\ DispatchFrame

\* Manual review: the path of the SNS metadata is returned as soon as there is
\* SNS evidence, the files are written, metadata first, when there is metadata.
Review ==
  /\ Dispatch("manual-review")
  /\ LET r == [selected EXCEPT !.meta = Plan["review"].meta]
     IN  CASE review = "none"     -> Return(selected) /\ UNCHANGED job
           [] review = "evidence" -> Return(r) /\ UNCHANGED job
           [] review = "metadata" ->
                WriteOut("review", FALSE, OneIfAny(Plan["review"].meta) \o Plan["review"].sidecars,
                         r, "threw")
  /\ UNCHANGED failed /\ DispatchFrame

-----------------------------------------------------------------------------
Next ==
  \/ SelectExplicit \/ VisitEntry \/ selectCatalogContract \/ selectInventoryContract
  \/ findLocalCfnArtifactSpecs \/ ResolveGateway \/ ProbeSns \/ TryTopic \/ SnsDone
  \/ collectProviderResolutionCandidates \/ Choose \/ TryProvider \/ ProvidersDone
  \/ ExportRepo \/ ExportGateway \/ ExportSns \/ Review
  \/ WriteFile \/ WriteTree \/ WriteFails \/ WriteDone

\* Every awaited call settles.
Spec == Init /\ [][Next]_vars /\ WF_vars(Next)

-----------------------------------------------------------------------------
(* Properties.                                                             *)
Done      == pc = "done"
Succeeded == Done /\ result.status = "resolved"
Output(f) == f \in Files \ {TreeFile}

\* A dry run leaves every file as it was, whichever branch it takes.
DryRunWritesNothing == input.dry => \A f \in Files : disk[f] \notin Writers \cup {"torn"}

\* The paths of a resolved AWS or build-artifact result name files with the
\* bytes of exactly that source, whatever failed attempts wrote before it.
PublishedFilesAreItsOwn ==
  Succeeded /\ ~input.dry /\ result.source # "repo-spec" =>
    \A f \in {result.spec, result.derived, result.meta} \ {NoFile} : disk[f] = result.by

\* A contract of the repository is never replaced: the call ends with it, with
\* manual review or with an error, and no AWS source has written anything.
RepoFirst ==
  contract # NoContract =>
    /\ Done => result.source \in {"repo-spec", "manual-review"}
    /\ \A f \in Files : disk[f] \notin Writers \ {"repo"}

\* No better source is passed over: a more confident provider candidate has
\* failed to export, a usable gateway wins every tie with one, and neither a
\* gateway nor a topic of more confidence is ignored.
MostConfidentWins ==
  Succeeded /\ result.source \in {"gateway-export", "sns-contract", "provider"} =>
    /\ result.confidence >= 40
    /\ \A p \in listed : Confidence[p] > result.confidence => p \in failed
    /\ isResolvedGatewayCandidate => gateway.confidence <= result.confidence
    /\ isResolvedSnsCandidate => sns.confidence <= result.confidence
    /\ result.source = "provider" /\ isResolvedGatewayCandidate =>
         gateway.confidence < result.confidence

\* A file of a source that is not the result's was left by a write that failed.
LeftoversAreFailures ==
  Succeeded => \A f \in Files : disk[f] \in Writers \ {result.by} => disk[f] \in failed

\* The call returns or throws, however many entries, topics and candidates fail.
Settles == <>(pc \in {"done", "threw"})

\* "Path to resolved or generated specification when available" (README.md).
SpecPathNamesItsFile ==
  Succeeded /\ ~input.dry => disk[result.spec] \in {result.by, "tree"}
=============================================================================
