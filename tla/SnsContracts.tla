---------------------------- MODULE SnsContracts ----------------------------
(***************************************************************************)
(* SnsProvider.resolveContract: a topic has no specification of its own,   *)
(* so its contract is looked for in one source after the other, from the   *)
(* files of the repository to what the code implies; the first usable one  *)
(* is taken, and what the subscriptions tell is added to it.               *)
(***************************************************************************)
EXTENDS BoundedWalk, RemoteFetch

CONSTANTS
  Topics,       \* the topics: see TopicOK
  Served,       \* [Urls -> Documents]: what a location serves
  Attributes    \* the message attributes of filter policies

VARIABLES
  topic,        \* the topic being resolved
  rung,         \* the source being looked at
  scanned,      \* scannedFiles
  scanCut,      \* history: a bound ended the scan, which its caller cannot tell
  outputCut,    \* frameworkSearchTruncated
  remotes,      \* remote locations left to try
  got,          \* history: what was fetched for this topic, as <<source, location>>
  pointer,      \* the pointer sidecar is kept
  origin,       \* resolvedOrigin, "none" until a contract is found
  chosen,       \* the file or location it was taken from, where there is one
  format,       \* of the contract
  transformed,  \* bridgeDerivedTransformed
  unseen,       \* subscriptions left to inspect
  inspected,    \* what became of those inspected
  subErrors,    \* how many reads of subscriptions failed
  result        \* what the caller gets

snsVars == <<topic, rung, scanned, scanCut, outputCut, remotes, got, pointer, origin, chosen, format,
             transformed, unseen, inspected, subErrors, result>>

\* What a document turns out to be: detectFormat.
Documents == {"asyncapi", "json-schema", "odd"}
Usables   == {"asyncapi", "json-schema"}
NoResult  == [origin |-> "none"]

\* What code can tell: a document a framework wrote, a schema that code imports, a declaration.
DocumentKinds    == {"springwolf", "generated-asyncapi"}
DeclarationKinds == {"zod", "typebox", "java-annotation"}

\* The attributes are those of a filter policy on message attributes.
Subscription == [confirmed : BOOLEAN, protocol : {"http", "lambda", "sqs"}, raw : BOOLEAN,
                 attributes : SUBSET Attributes]

TopicOK(t) ==
  /\ t.ssm \in {"silent", "answers"}
  /\ t.content \in Documents \cup {"none"} /\ t.url \in Urls \cup {NoUrl}
  /\ t.declared \in Usables \cup {"none"}                    \* the format parameter
  /\ t.remotes \in Seq([url : Urls, affinity : {30, 60, 100}])
  /\ t.bridge \in {"none", "unavailable", "listed"}          \* evidence of a bridge, and its registry
  /\ t.schemas \in Seq([affinity : {30, 60, 100}, shape : {"envelope", "wrapped", "odd"}])
  /\ t.code \subseteq [kind : DocumentKinds \cup {"json-schema-ref"} \cup DeclarationKinds, path : Nat,
                      holds : Documents, linked : BOOLEAN, payload : BOOLEAN, inside : BOOLEAN]
  /\ t.subscriptions \in Seq(Subscription)
  /\ t.headers \in BOOLEAN                                   \* a message declares headers itself

\* Of the repository: where a file lies and what it is called.  The directories that frameworks write
\* to, and what lies in them, are outputs; "target" is target/springwolf/asyncapi.json.
SnsRepoOK(r) ==
  /\ r.area \in [Paths -> {"top", "spec", "contracts", "events", "output", "target"}]
  /\ \A d \in RootsOf("generated") : r.area[d] = "output"
  /\ \A d \in Paths : r.kind[d] = "dir" /\ r.area[d] = "output" => \A e \in r.content[d] : r.area[e] = "output"
  /\ r.name \in [Paths -> {"asyncapi", "x.asyncapi", "schema", "other"}]
  /\ \A p \in Paths : r.area[p] = "target" => r.name[p] = "asyncapi"
  /\ r.holds \in [Paths -> Documents]
  /\ r.mentions \subseteq Paths              \* the path names the topic
  /\ r.ignored \subseteq Paths               \* git check-ignore
  /\ r.broken \subseteq Paths

ASSUME TopicsAssumption == Topics # {} /\ (\A t \in Topics : TopicOK(t)) /\ \A r \in Repos : SnsRepoOK(r)
ASSUME ServedAssumption == Served \in [Urls -> Documents]

-----------------------------------------------------------------------------
(* What a file of the repository can be. *)

\* findContractFiles; a document that springwolf wrote to target is left to the code-derived source.
IsRepoAsyncApi(p) == repo.area[p] = "top" /\ repo.name[p] = "asyncapi"
IsJsonSchema(p)   == repo.name[p] = "schema"

\* isGeneratedAsyncApiPath
IsOutput(p) == repo.area[p] = "output"
IsGenerated(p) ==
  \/ repo.area[p] \in {"spec", "contracts"} /\ repo.name[p] = "x.asyncapi"
  \/ repo.area[p] = "events" /\ repo.name[p] = "asyncapi"
  \/ IsOutput(p) /\ repo.name[p] \in {"asyncapi", "x.asyncapi"}

Readable(files, document) == {p \in files \ repo.broken : repo.holds[p] = document}

\* sortByTopicAffinity: the files that name the topic come first.
Nearest(files) == FirstOf(IF files \cap repo.mentions # {} THEN files \cap repo.mentions ELSE files)

\* Ranked lists: the highest affinity, the earliest of those.
Closest(list, good) ==
  CHOOSE i \in good :
    \A j \in good :
      list[j].affinity < list[i].affinity \/ (list[j].affinity = list[i].affinity /\ i <= j)

-----------------------------------------------------------------------------
SnsInit ==
  /\ rung = "idle" /\ scanned = {} /\ scanCut = FALSE /\ outputCut = FALSE
  /\ remotes = <<>> /\ got = {} /\ pointer = FALSE /\ origin = "none" /\ chosen = NoUrl /\ format = "none"
  /\ transformed = FALSE /\ unseen = <<>> /\ inspected = <<>> /\ subErrors = 0 /\ result = NoResult

\* What the local sources leave alone.
Aside == UNCHANGED <<topic, remotes, got, pointer, unseen, inspected, subErrors, result>>

\* A source had a contract: the sources after it are not asked.
Take(source, document, at) ==
  origin' = source /\ format' = document /\ chosen' = at /\ rung' = "subscriptions"

GoOn(step) == rung' = step /\ UNCHANGED <<origin, chosen, format>>

\* Every topic is resolved from nothing, save for the bytes fetched before.
StartTopic(t) ==
  /\ rung \in {"idle", "done", "thrown"} /\ rung' = "scan" /\ topic' = t
  /\ BeginWalk("scan")
  /\ scanned' = {} /\ scanCut' = FALSE /\ outputCut' = FALSE /\ remotes' = <<>> /\ got' = {}
  /\ pointer' = FALSE /\ origin' = "none" /\ chosen' = NoUrl /\ format' = "none" /\ transformed' = FALSE
  /\ unseen' = <<>> /\ inspected' = <<>> /\ subErrors' = 0 /\ result' = NoResult
  /\ UNCHANGED fetchVars

\* One walk serves the files of the repository and the generated ones.
TakeScan ==
  /\ rung = "scan" /\ WalkDone
  /\ scanned' = found /\ scanCut' = cut
  /\ EndWalk /\ GoOn("asyncapi")
  /\ UNCHANGED <<outputCut, transformed>> /\ Aside /\ UNCHANGED fetchVars

RepoAsyncApi ==
  /\ rung = "asyncapi"
  /\ LET usable == {p \in Readable(scanned, "asyncapi") : IsRepoAsyncApi(p)} IN
     IF usable # {} THEN Take("repo-asyncapi", "asyncapi", Nearest(usable)) ELSE GoOn("schema")
  /\ UNCHANGED <<scanned, scanCut, outputCut, transformed>> /\ Aside /\ UNCHANGED <<walkVars, fetchVars>>

RepoJsonSchema ==
  /\ rung = "schema"
  /\ LET usable == {p \in Readable(scanned, "json-schema") : IsJsonSchema(p)} IN
     IF usable # {} THEN Take("repo-json-schema", "json-schema", Nearest(usable)) /\ UNCHANGED walkVars
     ELSE GoOn("generated") /\ BeginWalk("generated")
  /\ UNCHANGED <<scanned, scanCut, outputCut, transformed>> /\ Aside /\ UNCHANGED fetchVars

\* isGitIgnoredByGit, asked of git once per path; outside of a work tree nothing is ignored.
KeptByGit(p) == p \notin repo.ignored

\* Mutant: what a walk found before it was cut off is used.
AcceptedAnyway(files) ==
  {p \in files : IsGenerated(p) /\ (IsOutput(p) => KeptByGit(p))}

\* findGeneratedAsyncApiFiles: outputs count only when all of them were seen, and git keeps them.
Accepted(files) ==
  {p \in files : IsGenerated(p) /\ (IsOutput(p) => ~cut /\ KeptByGit(p))}

GeneratedAsyncApi ==
  /\ rung = "generated" /\ WalkDone
  /\ outputCut' = cut
  /\ LET usable == Readable(Accepted(scanned \cup found), "asyncapi") IN
     IF usable # {} THEN Take("generated-asyncapi", "asyncapi", Nearest(usable)) ELSE GoOn("ssm")
  /\ EndWalk
  /\ UNCHANGED <<scanned, scanCut, transformed>> /\ Aside /\ UNCHANGED fetchVars

\* A declared format is believed, else the document is looked at.
FormatOf(document) ==
  IF topic.declared # "none" THEN topic.declared ELSE document

\* The parameters of the service; a listing that fails ends the topic.
SsmParameters(answers) ==
  /\ rung = "ssm"
  /\ IF ~answers THEN GoOn("thrown") /\ UNCHANGED fetchVars
     ELSE IF topic.content # "none" /\ FormatOf(topic.content) \in Usables
     THEN Take("ssm-content", FormatOf(topic.content), NoUrl) /\ UNCHANGED fetchVars
     ELSE IF topic.url # NoUrl THEN GoOn("ssmUrl") /\ StartFetch(topic.url)
     ELSE GoOn("remote") /\ UNCHANGED fetchVars
  /\ remotes' = topic.remotes
  /\ UNCHANGED <<scanned, scanCut, outputCut, transformed>>
  /\ UNCHANGED <<topic, got, pointer, unseen, inspected, subErrors, result>> /\ UNCHANGED walkVars

\* The caller takes what the fetch returned or threw.
FetchTaken == /\ fetching' = "idle"
              /\ UNCHANGED <<url, hop, lookedUp, expired, limit, received, spent, requested, kept>>

\* A location that cannot be fetched is at least named in a sidecar.
SsmFetched ==
  /\ rung = "ssmUrl" /\ fetching \in {"fetched", "failed"} /\ FetchTaken
  /\ pointer' = (fetching = "failed")
  /\ got' = (IF fetching = "fetched" THEN got \cup {<<"ssm-url", topic.url>>} ELSE got)
  /\ IF fetching = "fetched" /\ FormatOf(Served[topic.url]) \in Usables
     THEN Take("ssm-url", FormatOf(Served[topic.url]), topic.url) ELSE GoOn("remote")
  /\ UNCHANGED <<scanned, scanCut, outputCut, transformed>>
  /\ UNCHANGED <<topic, remotes, unseen, inspected, subErrors, result>> /\ UNCHANGED walkVars

\* Catalog and registry locations, the closest first.
TryRemote ==
  /\ rung = "remote" /\ fetching = "idle"
  /\ IF remotes = <<>> THEN GoOn("bridge") /\ UNCHANGED <<remotes, fetchVars>>
     ELSE LET i == Closest(remotes, 1 .. Len(remotes)) IN
          /\ StartFetch(remotes[i].url)
          /\ remotes' = SubSeq(remotes, 1, i - 1) \o SubSeq(remotes, i + 1, Len(remotes))
          /\ UNCHANGED <<rung, origin, chosen, format>>
  /\ UNCHANGED <<scanned, scanCut, outputCut, transformed>>
  /\ UNCHANGED <<topic, got, pointer, unseen, inspected, subErrors, result>> /\ UNCHANGED walkVars

RemoteFetched ==
  /\ rung = "remote" /\ fetching \in {"fetched", "failed"} /\ FetchTaken
  /\ got' = (IF fetching = "fetched" THEN got \cup {<<"catalog-url", requested[1].url>>} ELSE got)
  /\ IF fetching = "fetched" /\ Served[requested[1].url] \in Usables
     THEN Take("catalog-url", Served[requested[1].url], requested[1].url) ELSE UNCHANGED <<rung, origin, chosen, format>>
  /\ UNCHANGED <<scanned, scanCut, outputCut, transformed>>
  /\ UNCHANGED <<topic, remotes, pointer, unseen, inspected, subErrors, result>> /\ UNCHANGED walkVars

\* detectSnsShapeFromSchemaDocument: the schemas that have the fields of an SNS message, at the top
\* or in `detail'.
SnsShaped == {i \in 1 .. Len(topic.schemas) : topic.schemas[i].shape \in {"envelope", "wrapped"}}

\* EventBridge schemas, the closest that has the fields of an SNS message; errors are only noted.
\* A schema that wraps them in `detail' is marked as transformed.
EventBridgeSchema ==
  /\ rung = "bridge"
  /\ IF topic.bridge = "listed" /\ SnsShaped # {}
     THEN /\ Take("eventbridge-derived", "json-schema", NoUrl)
          /\ transformed' = (topic.schemas[Closest(topic.schemas, SnsShaped)].shape = "wrapped")
     ELSE GoOn("code") /\ UNCHANGED transformed
  /\ UNCHANGED <<scanned, scanCut, outputCut>>
  /\ UNCHANGED <<topic, remotes, got, pointer, unseen, inspected, subErrors, result>>
  /\ UNCHANGED <<walkVars, fetchVars>>

FromDocuments == {c \in topic.code : c.kind \in DocumentKinds /\ c.holds = "asyncapi"}

\* A schema imported next to the name of the topic and used for what is published, from inside.
FromReferences ==
  {c \in topic.code : /\ c.kind = "json-schema-ref" /\ c.holds = "json-schema"
                      /\ c.linked /\ c.payload /\ c.inside}

FromDeclarations == {c \in topic.code : c.kind \in DeclarationKinds /\ c.linked}

\* One per kind and file.
Derivations ==
  {[kind |-> c.kind, path |-> c.path, format |-> IF c.kind \in DocumentKinds THEN "asyncapi" ELSE "json-schema"] :
     c \in FromDocuments \cup FromReferences \cup FromDeclarations}

\* resolveCodeDerivedContract: several candidates are none.
CodeDerived ==
  /\ rung = "code"
  /\ IF Cardinality(Derivations) = 1
     THEN \E d \in Derivations : Take("code-derived", d.format, NoUrl)
     ELSE GoOn("subscriptions")
  /\ UNCHANGED <<scanned, scanCut, outputCut, transformed>> /\ Aside /\ UNCHANGED <<walkVars, fetchVars>>

-----------------------------------------------------------------------------
(* inspectSubscriptions, whatever the ladder found. *)

ListSubscriptions(answers) ==
  /\ rung = "subscriptions" /\ rung' = "inspect"
  /\ unseen' = (IF answers THEN topic.subscriptions ELSE <<>>)
  /\ subErrors' = (IF answers THEN 0 ELSE 1)
  /\ UNCHANGED <<topic, scanned, scanCut, outputCut, remotes, got, pointer, origin, chosen, format, transformed,
                 inspected, result>>
  /\ UNCHANGED <<walkVars, fetchVars>>

\* classifyDeliveryVariant: Lambda always gets the envelope, and what could not be read is taken for it.
RecordOf(s, answers) ==
  <<[protocol   |-> s.protocol,
     raw        |-> answers /\ s.raw /\ s.protocol # "lambda",
     attributes |-> IF answers THEN s.attributes ELSE {}]>>

InspectSubscription(answers) ==
  /\ rung = "inspect" /\ unseen # <<>>
  /\ LET s == Head(unseen) IN
     /\ inspected' = (IF s.confirmed THEN inspected \o RecordOf(s, answers) ELSE inspected)
     /\ subErrors' = (IF s.confirmed /\ ~answers THEN subErrors + 1 ELSE subErrors)
  /\ unseen' = Tail(unseen)
  /\ UNCHANGED <<topic, rung, scanned, scanCut, outputCut, remotes, got, pointer, origin, chosen, format,
                 transformed, result>>
  /\ UNCHANGED <<walkVars, fetchVars>>

Each(i) == inspected[i]
Merged  == UNION {Each(i).attributes : i \in 1 .. Len(inspected)}

\* buildWebhookSidecar: a webhook per way of delivery that an HTTP endpoint has, with the policies of
\* all endpoints of that way.
Webhooks ==
  LET http == {i \in 1 .. Len(inspected) : Each(i).protocol = "http"} IN
  {[raw |-> way, attributes |-> UNION {Each(i).attributes : i \in {j \in http : Each(j).raw = way}}] :
     way \in {Each(i).raw : i \in http}}

\* deriveAsyncApiHeaders: only into an AsyncAPI document whose messages have none.
HeadersAdded == format = "asyncapi" /\ Merged # {} /\ ~topic.headers

\* The contract with its sidecars, or what a person needs to write one.
FinishTopic ==
  /\ rung = "inspect" /\ unseen = <<>> /\ rung' = "done"
  /\ result' =
       IF origin = "none"
       THEN [origin |-> "manual-review", pointer |-> pointer, attributes |-> Merged,
             total |-> Len(inspected), failed |-> subErrors]
       ELSE [origin |-> origin, chosen |-> chosen, pointer |-> pointer, attributes |-> Merged,
             total |-> Len(inspected), failed |-> subErrors,
             headers |-> HeadersAdded, webhooks |-> Webhooks, transformed |-> transformed]
  /\ UNCHANGED <<topic, scanned, scanCut, outputCut, remotes, got, pointer, origin, chosen, format, transformed,
                 unseen, inspected, subErrors>>
  /\ UNCHANGED <<walkVars, fetchVars>>

SnsStep(answers) ==
  \/ TakeScan \/ RepoAsyncApi \/ RepoJsonSchema \/ GeneratedAsyncApi
  \/ SsmParameters(TRUE) \/ (topic.ssm = "silent" /\ SsmParameters(FALSE))
  \/ SsmFetched \/ TryRemote \/ RemoteFetched
  \/ EventBridgeSchema \/ CodeDerived
  \/ \E a \in BOOLEAN : ListSubscriptions(a) \/ InspectSubscription(a)
  \/ FinishTopic
  \/ WalkStep /\ UNCHANGED <<snsVars, fetchVars>>
  \/ FetchStep(answers) /\ UNCHANGED <<snsVars, walkVars>>

-----------------------------------------------------------------------------
SnsTypeOK ==
  /\ topic \in Topics
  /\ rung \in {"idle", "scan", "asyncapi", "schema", "generated", "ssm", "ssmUrl", "remote", "bridge",
               "code", "subscriptions", "inspect", "done", "thrown"}
  /\ scanned \subseteq Paths /\ scanCut \in BOOLEAN /\ outputCut \in BOOLEAN
  /\ got \subseteq {"ssm-url", "catalog-url"} \X Urls /\ pointer \in BOOLEAN /\ transformed \in BOOLEAN
  /\ chosen \in Paths \cup Urls \cup {NoUrl}
  /\ format \in Usables \cup {"none"} /\ (format = "none") = (origin = "none")
  /\ subErrors \in Nat

\* What each source had to offer, the strongest first.  Of the repository it is what the files hold
\* when the scan was whole, else what the scan returned.
Ladder ==
  LET files     == IF scanCut THEN scanned ELSE Listed("scan")
      outputs   == IF outputCut THEN {} ELSE Listed("generated") \ repo.ignored
      generated == {p \in files : IsGenerated(p) /\ ~IsOutput(p)} \cup
                   {p \in outputs \cup files : IsGenerated(p) /\ IsOutput(p) /\ ~outputCut
                                            /\ p \notin repo.ignored}
  IN  << <<"repo-asyncapi",       {p \in Readable(files, "asyncapi") : IsRepoAsyncApi(p)}>>,
         <<"repo-json-schema",    {p \in Readable(files, "json-schema") : IsJsonSchema(p)}>>,
         <<"generated-asyncapi",  Readable(generated, "asyncapi")>>,
         <<"ssm-content",         {d \in Documents : d = topic.content /\ FormatOf(d) \in Usables}>>,
         <<"ssm-url",             {g \in got : g[1] = "ssm-url" /\ FormatOf(Served[g[2]]) \in Usables}>>,
         <<"catalog-url",         {g \in got : g[1] = "catalog-url" /\ Served[g[2]] \in Usables}>>,
         <<"eventbridge-derived", IF topic.bridge = "listed" THEN SnsShaped ELSE {}>>,
         <<"code-derived",        IF Cardinality(Derivations) = 1 THEN Derivations ELSE {}>> >>

(* A topic gets the contract of the strongest source that has a usable one, in the order the code   *)
(* asks them, and goes to a person only when no source has: a weaker source never wins over a       *)
(* stronger one, whatever failed on the way.  What frameworks wrote counts only when all of it was  *)
(* seen and git does not ignore it; git is not asked about any other file, and a file under spec,   *)
(* contracts or events counts as generated, below the documents elsewhere in the repository.  Of    *)
(* the files of one source one that names the topic is preferred.  No failure to read subscriptions *)
(* costs the contract, and each confirmed one that was listed is counted in the metadata            *)
(* (resolveContract, findGeneratedAsyncApiFiles, inspectSubscriptions).                             *)
StrongestOrigin ==
  rung = "done" =>
    /\ IF \A i \in DOMAIN Ladder : Ladder[i][2] = {}
       THEN result.origin = "manual-review"
       ELSE \E i \in DOMAIN Ladder :
              /\ result.origin = Ladder[i][1] /\ Ladder[i][2] # {}
              /\ \A j \in 1 .. (i - 1) : Ladder[j][2] = {}
              /\ i <= 3 => /\ result.chosen \in Ladder[i][2]
                           /\ Ladder[i][2] \cap repo.mentions # {} => result.chosen \in repo.mentions
    /\ result.pointer => topic.url # NoUrl /\ \A g \in got : g[1] = "catalog-url"
    /\ result.total = Cardinality({i \in 1 .. Len(topic.subscriptions) : topic.subscriptions[i].confirmed})
         \/ (result.total = 0 /\ result.failed = 1)
=============================================================================
