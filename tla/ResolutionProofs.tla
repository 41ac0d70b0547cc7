-------------------------- MODULE ResolutionProofs --------------------------
(* Theorems about Resolution for every set of files, candidates, catalogs  *)
(* and plans.                                                              *)
EXTENDS Resolution, SubsequencesProofs

Handlers == {"threw", "gateway", "export", "keep"}
Kinds    == {"inline", "local", "remote"}

-----------------------------------------------------------------------------
(* The operators.                                                          *)

\* The records a call may return are results.
LEMMA ResultTypes ==
  /\ NoResult \in Result
  /\ \A c \in Nat : Unresolved(c) \in Result
  /\ \A s \in SourceTypes, c \in Nat, w \in Writers : Resolved(s, c, w) \in Result
BY ResolutionAssumption DEF NoResult, Unresolved, Resolved, Result, SourceTypes, Writers

\* Every writer has a plan.
LEMMA PlanTypes ==
  ASSUME NEW w \in Writers
  PROVE  Plan[w] \in Plans
BY ResolutionAssumption

\* What a plan writes is a sequence of files.
LEMMA WrittenTypes ==
  ASSUME NEW p \in Plans
  PROVE  Written(p) \in Seq(Files)
<1>1. \A f \in Files \cup {NoFile} : OneIfAny(f) \in Seq(Files)
  BY DEF OneIfAny
<1> QED BY <1>1 DEF Written, Plans

\* Naming the paths of an artifact keeps the rest of the result.
LEMMA NamedTypes ==
  ASSUME NEW w \in Writers, NEW r \in Result
  PROVE  /\ Named(w, r) \in Result
         /\ Named(w, r).source = r.source
<1>1. Plan[w] \in Plans
  BY PlanTypes
<1>2. Plan[w].members # <<>> => Plan[w].members[1] \in Files
  BY <1>1 DEF Plans
<1> QED BY <1>1, <1>2 DEF Named, Result, Plans

\* Writing out returns the result of a dry run, or leaves a job of writer w.
LEMMA WriteOutTypes ==
  ASSUME TypeOK, NEW w \in Writers, NEW t \in BOOLEAN, NEW todo \in Seq(Files),
         NEW r \in Result, NEW o \in Handlers,
         WriteOut(w, t, todo, r, o)
  PROVE  /\ result' \in Result /\ job' \in Job
         /\ pc' \in {"done", "write"}
         /\ pc' = "done" => result' = r
         /\ pc' = "write" => ~input.dry /\ job'.by = w /\ job'.ok = r /\ job'.otherwise = o
         /\ w # "nobody"
<1>1. w # "nobody"
  BY ResolutionAssumption DEF Writers
<1>2. CASE input.dry
  BY <1>1, <1>2 DEF WriteOut, Return, TypeOK
<1>3. CASE ~input.dry
  <2>1. /\ pc' = "write" /\ result' = result
        /\ job' = [by |-> w, tree |-> t, todo |-> todo, ok |-> r, otherwise |-> o]
    BY <1>3 DEF WriteOut
  <2>2. job' \in Job
    BY <2>1 DEF Job, Handlers
  <2> QED BY <1>1, <1>3, <2>1, <2>2 DEF TypeOK
<1> QED BY <1>2, <1>3

\* Publishing writes out what the plan of w names.
LEMMA PublishWritesOut ==
  ASSUME NEW w \in Writers, NEW r \in Result, NEW o \in Handlers, Publish(w, r, o)
  PROVE  \E t \in BOOLEAN, todo \in Seq(Files) : WriteOut(w, t, todo, r, o)
<1>1. Written(Plan[w]) \in Seq(Files) /\ <<>> \in Seq(Files)
  BY PlanTypes, WrittenTypes
<1> DEFINE tree == Plan[w].members # <<>>
           todo == IF tree THEN <<>> ELSE Written(Plan[w])
<1>2. tree \in BOOLEAN /\ todo \in Seq(Files)
  BY <1>1
<1>3. WriteOut(w, tree, todo, r, o)
  BY DEF Publish
<1> HIDE DEF tree, todo
<1> QED BY <1>2, <1>3

\* The same of publishing.
LEMMA PublishTypes ==
  ASSUME TypeOK, NEW w \in Writers, NEW r \in Result, NEW o \in Handlers,
         Publish(w, r, o)
  PROVE  /\ result' \in Result /\ job' \in Job
         /\ pc' \in {"done", "write"}
         /\ pc' = "done" => result' = r
         /\ pc' = "write" => ~input.dry /\ job'.by = w /\ job'.ok = r /\ job'.otherwise = o
         /\ w # "nobody"
BY PublishWritesOut, WriteOutTypes

\* The repository contract has a path, or none is known yet.
LEMMA ContractPathType ==
  ContractPath \in Files \cup {NoFile}
BY PlanTypes, ResolutionAssumption DEF ContractPath, Plans, Writers

\* chooseSource names a source it has seen, and the contract when there is one.
LEMMA ChooseTypes ==
  ASSUME TypeOK
  PROVE  /\ chooseSource \in Result
         /\ contract # NoContract => chooseSource.source = "repo-spec"
<1>1. Seen(gateway) \in Nat /\ Seen(sns) \in Nat
  BY ResolutionAssumption DEF Seen, TypeOK
<1>2. Best \in Nat
  BY <1>1 DEF Best
<1>3. SnsWins => sns.confidence \in Nat
  BY DEF SnsWins, isResolvedSnsCandidate, TypeOK
<1>4. isResolvedGatewayCandidate => gateway.confidence \in Nat
  BY ResolutionAssumption DEF isResolvedGatewayCandidate, TypeOK
<1>5. CASE contract # NoContract
  <2> DEFINE c == IF gateway = NoCandidate /\ sns = NoCandidate THEN 70
                  ELSE IF Best > 80 THEN Best ELSE 80
  <2>1. c \in Nat
    BY <1>2
  <2>2. Resolved("repo-spec", c, "repo") \in Result
    BY <2>1, ResultTypes DEF SourceTypes, Writers
  <2>3. chooseSource = [Resolved("repo-spec", c, "repo") EXCEPT !.spec = ContractPath]
    BY <1>5 DEF chooseSource
  <2>4. Resolved("repo-spec", c, "repo").source = "repo-spec"
    BY DEF Resolved
  <2> HIDE DEF c
  <2> QED BY <2>2, <2>3, <2>4, ContractPathType DEF Result
<1>6. CASE contract = NoContract
  BY <1>2, <1>3, <1>4, <1>6, ResultTypes DEF chooseSource, SourceTypes, Writers
<1> QED BY <1>5, <1>6

-----------------------------------------------------------------------------
(* Type correctness.                                                       *)

\* The staged tree, the torn file and the missing directory are disks.
LEMMA DiskTypes ==
  ASSUME TypeOK, NEW w \in Writers
  PROVE  /\ Installed(w) \in [Files -> Owners]
         /\ Missing \in [Files -> Owners]
         /\ \A f \in Files, o \in Owners : [disk EXCEPT ![f] = o] \in [Files -> Owners]
BY DEF Installed, Missing, TypeOK, Owners

\* An action that publishes or writes out and otherwise touches the queue and
\* failed only.
LEMMA WriteOutKeepsTypes ==
  ASSUME TypeOK, NEW w \in Writers, NEW t \in BOOLEAN, NEW todo \in Seq(Files),
         NEW r \in Result, NEW o \in Handlers,
         WriteOut(w, t, todo, r, o),
         queue' \in Seq(Candidates), failed' \subseteq Writers,
         UNCHANGED <<input, repoVars, gateway, snsVars, selected, disk, listed>>
  PROVE  TypeOK'
BY WriteOutTypes DEF TypeOK, repoVars, snsVars

\* The same of an action that publishes the whole plan of a writer.
LEMMA PublishKeepsTypes ==
  ASSUME TypeOK, NEW w \in Writers, NEW r \in Result, NEW o \in Handlers,
         Publish(w, r, o),
         queue' \in Seq(Candidates), failed' \subseteq Writers,
         UNCHANGED <<input, repoVars, gateway, snsVars, selected, disk, listed>>
  PROVE  TypeOK'
BY PublishWritesOut, WriteOutKeepsTypes

\* The call starts well typed.
LEMMA InitTypes ==
  ASSUME Init
  PROVE  TypeOK
<1>1. NoJob \in Job
  BY ResultTypes DEF NoJob, Job
<1>2. disk \in [Files -> Owners]
  BY DEF Init, Owners
<1>3. catalog \in Seq(Kinds)
  BY ResolutionAssumption DEF Init, Kinds
<1> QED BY <1>1, <1>2, <1>3, ResultTypes DEF Init, TypeOK, Kinds

\* No step of the call leaves the types.
LEMMA TypePreserved ==
  ASSUME TypeOK, [Next]_vars
  PROVE  TypeOK'
<1> USE DEF repoVars, snsVars, Return, Throw, Proceed
<1>0. NoJob \in Job /\ NoResult \in Result /\ Unresolved(0) \in Result
  BY ResultTypes DEF NoJob, Job
<1>1. CASE UNCHANGED vars
  BY <1>1 DEF vars, TypeOK
<1>2. CASE SelectExplicit
  BY <1>0, <1>2 DEF SelectExplicit, TypeOK
<1>3. CASE VisitEntry
  <2>1. Head(catalog) \in Kinds /\ Tail(catalog) \in Seq(Kinds)
    BY <1>3 DEF VisitEntry, TypeOK, Kinds
  <2>2. viable' \in Seq(Kinds)
    <3>1. viable \in Seq(Kinds)
      BY DEF TypeOK, Kinds
    <3>2. viable' \in {viable, Append(viable, Head(catalog))}
      BY <1>3 DEF VisitEntry
    <3> QED BY <2>1, <3>1, <3>2
  <2> QED BY <1>3, <2>1, <2>2 DEF VisitEntry, TypeOK, Kinds
<1>4. CASE selectCatalogContract
  <2>1. CASE Len(viable) = 0
    BY <1>4, <2>1 DEF selectCatalogContract, TypeOK
  <2>2. CASE Len(viable) = 1
    <3>1. contract' \in {"tree", "fetched"} /\ pc' = "gateway" /\ result' = result
      BY <1>4, <2>2 DEF selectCatalogContract
    <3> QED BY <1>4, <3>1 DEF selectCatalogContract, TypeOK
  <2>3. CASE Len(viable) # 0 /\ Len(viable) # 1
    <3>1. pc' = "done" /\ result' = Unresolved(0) /\ contract' = contract
      BY <1>4, <2>3 DEF selectCatalogContract
    <3> QED BY <1>0, <1>4, <3>1 DEF selectCatalogContract, TypeOK
  <2> QED BY <2>1, <2>2, <2>3
<1>5. CASE selectInventoryContract
  BY <1>0, <1>5 DEF selectInventoryContract, TypeOK
<1>6. CASE findLocalCfnArtifactSpecs
  <2> DEFINE r == Named("artifact", Resolved("cfn-embedded", 75, "artifact"))
             shown == IF input.dry THEN [r EXCEPT !.derived = NoFile] ELSE r
  <2>1. "artifact" \in Writers /\ "cfn-embedded" \in SourceTypes /\ "gateway" \in Handlers
    BY DEF Writers, SourceTypes, Handlers
  <2>2. r \in Result
    BY <2>1, ResultTypes, NamedTypes
  <2>3. shown \in Result
    BY <2>2 DEF Result
  <2>4. CASE Publish("artifact", shown, "gateway")
    <3>1. queue' \in Seq(Candidates) /\ failed' \subseteq Writers
      BY <1>6 DEF findLocalCfnArtifactSpecs, TypeOK
    <3> HIDE DEF shown, r
    <3> QED BY <1>6, <2>1, <2>3, <2>4, <3>1, PublishKeepsTypes DEF findLocalCfnArtifactSpecs
  <2>5. CASE ~Publish("artifact", shown, "gateway")
    BY <1>0, <1>6, <2>5 DEF findLocalCfnArtifactSpecs, TypeOK
  <2> QED BY <2>4, <2>5
<1>7. CASE ResolveGateway
  BY <1>7 DEF ResolveGateway, TypeOK
<1>8. CASE ProbeSns
  BY <1>8, ResolutionAssumption DEF ProbeSns, TypeOK
<1>9. CASE TryTopic
  <2>1. topics' \in Nat /\ review' \in {"none", "evidence", "metadata"}
    BY <1>9 DEF TryTopic, TypeOK
  <2>2. sns' \in [confidence : Nat, origin : Origins] \cup {NoCandidate}
    <3>1. SnsScores \subseteq Nat
      BY ResolutionAssumption
    <3>2. \/ \E c \in SnsScores, o \in Origins : sns' = [confidence |-> c, origin |-> o]
          \/ sns' = sns
      BY <1>9 DEF TryTopic
    <3> QED BY <3>1, <3>2 DEF TypeOK
  <2> QED BY <1>9, <2>1, <2>2 DEF TryTopic, TypeOK
<1>10. CASE SnsDone
  BY <1>10 DEF SnsDone, TypeOK
<1>11. CASE collectProviderResolutionCandidates
  <2>1. listed' \subseteq Candidates /\ queue' \in SetToSeqs(listed')
    BY <1>11 DEF collectProviderResolutionCandidates
  <2>2. Cardinality(listed') \in Nat
    BY <2>1, ResolutionAssumption, FS_Subset, FS_CardinalityType
  <2>3. queue' \in [1..Cardinality(listed') -> listed']
    BY <2>1 DEF SetToSeqs
  <2>4. queue' \in Seq(Candidates)
    BY <2>1, <2>2, <2>3
  <2> QED BY <1>11, <2>1, <2>4 DEF collectProviderResolutionCandidates, TypeOK
<1>12. CASE Choose
  BY <1>12, ChooseTypes DEF Choose, TypeOK
<1>13. CASE TryProvider
  <2> DEFINE p == Head(queue)
  <2>1. p \in Candidates /\ Tail(queue) \in Seq(Candidates)
    BY <1>13 DEF TryProvider, Preferred, TypeOK
  <2>2. p \in Writers /\ Confidence[p] \in Nat
    BY <2>1, ResolutionAssumption DEF Writers
  <2>3. Named(p, Resolved("provider", Confidence[p], p)) \in Result /\ "export" \in Handlers
    BY <2>2, NamedTypes, ResultTypes DEF SourceTypes, Handlers
  <2> HIDE DEF p
  <2>4. queue' = Tail(queue)
    BY <1>13 DEF TryProvider
  <2>5. CASE Publish(p, Named(p, Resolved("provider", Confidence[p], p)), "export") /\ failed' = failed
    <3>1. queue' \in Seq(Candidates) /\ failed' \subseteq Writers
      BY <2>1, <2>4, <2>5 DEF TypeOK
    <3> QED BY <1>13, <2>2, <2>3, <2>5, <3>1, PublishKeepsTypes DEF TryProvider
  <2>6. CASE /\ \/ failed' = failed \cup {p} /\ Proceed("export")
                \/ Return(Unresolved(0)) /\ failed' = failed
             /\ job' = job
    BY <1>0, <1>13, <2>1, <2>2, <2>4, <2>6 DEF TryProvider, TypeOK
  <2> QED BY <1>13, <2>5, <2>6 DEF TryProvider, p
<1>14. CASE ProvidersDone
  BY <1>14 DEF ProvidersDone, TypeOK
<1>15. CASE ExportRepo
  <2>1. /\ UNCHANGED <<input, repoVars, gateway, snsVars, queue, selected, disk, listed>>
        /\ "repo" \in Writers /\ "repo" # "nobody" /\ "keep" \in Handlers
    BY <1>15 DEF ExportRepo, DispatchFrame, Writers, Handlers
  <2>2. CASE \/ Return(Unresolved(0)) /\ UNCHANGED <<job, failed>>
             \/ Return(selected) /\ failed' = failed \cup {"repo"} /\ UNCHANGED job
    BY <1>0, <2>1, <2>2 DEF TypeOK
  <2>3. CASE Publish("repo", Named("repo", selected), "keep") /\ UNCHANGED failed
    <3>1. Named("repo", selected) \in Result
      BY <2>1, NamedTypes DEF TypeOK
    <3>2. queue' \in Seq(Candidates) /\ failed' \subseteq Writers
      BY <2>1, <2>3 DEF TypeOK
    <3> QED BY <2>1, <2>3, <3>1, <3>2, PublishKeepsTypes
  <2>4. ASSUME NEW n \in Files \cup {NoFile},
               LET r == [selected EXCEPT !.derived = Plan["repo"].derived]
                   todo == OneIfAny(n) \o OneIfAny(Plan["repo"].derived)
               IN  WriteOut("repo", FALSE, todo, r, "keep") /\ UNCHANGED failed
        PROVE  TypeOK'
    <3> DEFINE r == [selected EXCEPT !.derived = Plan["repo"].derived]
               todo == OneIfAny(n) \o OneIfAny(Plan["repo"].derived)
    <3>1. Plan["repo"].derived \in Files \cup {NoFile}
      BY <2>1, PlanTypes DEF Plans
    <3>2. r \in Result
      BY <3>1 DEF TypeOK, Result
    <3>3. todo \in Seq(Files)
      BY <3>1 DEF OneIfAny
    <3>4. WriteOut("repo", FALSE, todo, r, "keep") /\ failed' = failed
      BY <2>4
    <3> HIDE DEF r, todo
    <3>5. queue' \in Seq(Candidates) /\ failed' \subseteq Writers
      BY <2>1, <3>4 DEF TypeOK
    <3> QED BY <2>1, <3>2, <3>3, <3>4, <3>5, WriteOutKeepsTypes
  <2>5. (IF contract = "tree" THEN NoFile ELSE Plan["repo"].native) \in Files \cup {NoFile}
    BY <2>1, PlanTypes DEF Plans
  <2> QED BY <1>15, <2>2, <2>3, <2>4, <2>5 DEF ExportRepo
<1>16. CASE ExportGateway
  <2>1. /\ UNCHANGED <<input, repoVars, gateway, snsVars, queue, selected, disk, listed>>
        /\ "gateway" \in Writers /\ "threw" \in Handlers
    BY <1>16 DEF ExportGateway, DispatchFrame, Writers, Handlers
  <2>2. Named("gateway", selected) \in Result /\ Unresolved(selected.confidence) \in Result
    BY <2>1, NamedTypes, ResultTypes DEF TypeOK, Result
  <2>3. CASE Publish("gateway", Named("gateway", selected), "threw") /\ UNCHANGED failed
    <3>1. queue' \in Seq(Candidates) /\ failed' \subseteq Writers
      BY <2>1, <2>3 DEF TypeOK
    <3> QED BY <2>1, <2>2, <2>3, <3>1, PublishKeepsTypes
  <2>4. CASE /\ Return(Unresolved(selected.confidence)) \/ Throw
             /\ failed' = failed \cup {"gateway"} /\ UNCHANGED job
    BY <2>1, <2>2, <2>4 DEF TypeOK
  <2> QED BY <1>16, <2>3, <2>4 DEF ExportGateway
<1>17. CASE ExportSns
  <2>1. /\ UNCHANGED <<input, repoVars, gateway, snsVars, queue, selected, disk, listed>>
        /\ "sns" \in Writers /\ "threw" \in Handlers
    BY <1>17 DEF ExportSns, DispatchFrame, Writers, Handlers
  <2>2. Named("sns", selected) \in Result
    BY <2>1, NamedTypes DEF TypeOK
  <2>3. queue' \in Seq(Candidates) /\ failed' \subseteq Writers
    BY <1>17, <2>1 DEF ExportSns, TypeOK
  <2> QED BY <1>17, <2>1, <2>2, <2>3, PublishKeepsTypes DEF ExportSns
<1>18. CASE Review
  <2> DEFINE r == [selected EXCEPT !.meta = Plan["review"].meta]
  <2>1. /\ UNCHANGED <<input, repoVars, gateway, snsVars, queue, selected, disk, listed, failed>>
        /\ "review" \in Writers /\ "threw" \in Handlers
    BY <1>18 DEF Review, DispatchFrame, Writers, Handlers
  <2>2. r \in Result
    BY <2>1, PlanTypes DEF TypeOK, Result, Plans
  <2> HIDE DEF r
  <2>3. queue' \in Seq(Candidates) /\ failed' \subseteq Writers
    BY <2>1 DEF TypeOK
  <2> DEFINE todo == OneIfAny(Plan["review"].meta) \o Plan["review"].sidecars
  <2>6. todo \in Seq(Files)
    BY <2>1, PlanTypes DEF OneIfAny, Plans
  <2> HIDE DEF todo
  <2>4. CASE WriteOut("review", FALSE, todo, r, "threw")
    BY <2>1, <2>2, <2>3, <2>4, <2>6, WriteOutKeepsTypes
  <2>5. CASE (Return(selected) \/ Return(r)) /\ UNCHANGED job
    BY <2>1, <2>2, <2>5 DEF TypeOK
  <2> QED BY <1>18, <2>4, <2>5 DEF Review, TypeOK, r, todo
<1>19. CASE WriteFile
  <2>1. job.by \in Writers /\ Head(job.todo) \in Files /\ Tail(job.todo) \in Seq(Files)
    BY <1>19 DEF WriteFile, TypeOK, Job
  <2>2. disk' \in [Files -> Owners]
    BY <1>19, <2>1, DiskTypes DEF WriteFile, Owners
  <2>3. job' \in Job /\ job'.by = job.by
    BY <1>19, <2>1 DEF WriteFile, TypeOK, Job
  <2> QED BY <1>19, <2>2, <2>3 DEF WriteFile, TypeOK
<1>20. CASE WriteTree
  <2>1. job.by \in Writers
    BY <1>20 DEF WriteTree, TypeOK, Job
  <2>2. disk' \in [Files -> Owners]
    BY <1>20, <2>1, DiskTypes DEF WriteTree
  <2>3. job' \in Job /\ job'.by = job.by
    BY <1>20 DEF WriteTree, TypeOK, Job
  <2> QED BY <1>20, <2>2, <2>3 DEF WriteTree, TypeOK
<1>21. CASE WriteFails
  <2>1. job.by \in Writers
    BY <1>21 DEF WriteFails, TypeOK, Job
  <2>2. disk' \in [Files -> Owners]
    <3>1. ~job.tree => Head(job.todo) \in Files
      BY <1>21 DEF WriteFails, TypeOK, Job
    <3> QED BY <1>21, <2>1, <3>1, DiskTypes, SMTT(30) DEF WriteFails, Owners, TypeOK
  <2>3. job' \in Job /\ failed' \subseteq Writers
    BY <1>0, <1>21, <2>1 DEF WriteFails, TypeOK
  <2>4. /\ pc' \in {"done", "threw", "gateway", "export"}
        /\ result' \in {result, selected}
    BY <1>21 DEF WriteFails, TypeOK, Job
  <2> QED BY <1>21, <2>2, <2>3, <2>4 DEF WriteFails, TypeOK
<1>22. CASE WriteDone
  BY <1>0, <1>22 DEF WriteDone, TypeOK, Job
<1> QED
  BY <1>1, <1>2, <1>3, <1>4, <1>5, <1>6, <1>7, <1>8, <1>9, <1>10, <1>11, <1>12, <1>13,
     <1>14, <1>15, <1>16, <1>17, <1>18, <1>19, <1>20, <1>21, <1>22 DEF Next

\* Every reachable state is well typed.
THEOREM TypeCorrect == Spec => []TypeOK
BY InitTypes, TypePreserved, PTL DEF Spec

-----------------------------------------------------------------------------
(* A dry run.                                                              *)

\* Only a step that starts in "write" changes the disk, and a dry run never
\* gets there.
LEMMA OnlyWritesWrite ==
  ASSUME TypeOK, [Next]_vars, pc # "write"
  PROVE  disk' = disk
BY DEF Next, vars, SelectExplicit, VisitEntry, selectCatalogContract, selectInventoryContract,
       findLocalCfnArtifactSpecs, ResolveGateway, ProbeSns, TryTopic, SnsDone,
       collectProviderResolutionCandidates, Choose, TryProvider, ProvidersDone,
       ExportRepo, ExportGateway, ExportSns, Review, DispatchFrame,
       WriteFile, WriteTree, WriteFails, WriteDone

\* No source of this call has written anything before it starts.
LEMMA InitialDisk ==
  ASSUME Init
  PROVE  \A f \in Files : disk[f] \notin Writers \cup {"torn"}
BY ResolutionAssumption DEF Init, Writers

\* The inputs, dry-run among them, are read only.
LEMMA InputNeverChanges ==
  ASSUME [Next]_vars
  PROVE  input' = input
BY DEF Next, vars, SelectExplicit, VisitEntry, selectCatalogContract, selectInventoryContract,
       findLocalCfnArtifactSpecs, ResolveGateway, ProbeSns, TryTopic, SnsDone,
       collectProviderResolutionCandidates, Choose, TryProvider, ProvidersDone,
       ExportRepo, ExportGateway, ExportSns, Review, DispatchFrame,
       WriteFile, WriteTree, WriteFails, WriteDone

\* A dry run leaves every file as it was, for every plan and every outcome of
\* the sources.
THEOREM DryRunsWriteNothing == Spec => []DryRunWritesNothing
<1>1. Init => DryRunWritesNothing
  BY InitialDisk DEF DryRunWritesNothing
<1>2. TypeOK /\ DryRunWritesNothing /\ [Next]_vars => DryRunWritesNothing'
  <2> SUFFICES ASSUME TypeOK, DryRunWritesNothing, [Next]_vars, input'.dry
               PROVE  \A f \in Files : disk'[f] \notin Writers \cup {"torn"}
    BY DEF DryRunWritesNothing
  <2>1. input.dry
    BY InputNeverChanges
  <2>2. pc # "write"
    BY <2>1 DEF TypeOK
  <2> QED BY <2>1, <2>2, OnlyWritesWrite DEF DryRunWritesNothing
<1> QED BY <1>1, <1>2, TypeCorrect, PTL DEF Spec

-----------------------------------------------------------------------------
(* The repository first.                                                   *)

\* No contract is chosen and nothing is written before the repository has been
\* asked; from then on a contract stays the selected source to the end.
ContractInv ==
  /\ pc \in {"explicit", "catalog", "inventory", "artifacts"} => contract = NoContract
  /\ pc \in {"explicit", "catalog", "inventory"} => \A f \in Files : disk[f] \notin Writers
  /\ contract # NoContract =>
       /\ \A f \in Files : disk[f] \notin Writers \ {"repo"}
       /\ pc \in {"export", "dispatch", "write"} => selected.source = "repo-spec"
       /\ pc = "write" => /\ job.by = "repo" /\ job.otherwise = "keep"
                          /\ job.ok.source = "repo-spec"
       /\ pc = "done" => result.source \in {"repo-spec", "manual-review"}

\* Manual review is the source of every unresolved result.
LEMMA UnresolvedSource ==
  \A c : Unresolved(c).source = "manual-review"
BY DEF Unresolved

\* Whatever the repository's writer leaves on disk is its own.
LEMMA RepoWritesOnly ==
  ASSUME TypeOK, \A f \in Files : disk[f] \notin Writers \ {"repo"}
  PROVE  /\ \A f \in Files : Installed("repo")[f] \notin Writers \ {"repo"}
         /\ \A f \in Files : Missing[f] \notin Writers \ {"repo"}
         /\ \A g \in Files, o \in {"repo", "torn"} :
              \A f \in Files : [disk EXCEPT ![g] = o][f] \notin Writers \ {"repo"}
<1>1. "absent" \notin Writers /\ "torn" \notin Writers
  BY ResolutionAssumption DEF Writers
<1> QED BY <1>1 DEF Installed, Missing, TypeOK

\* No step publishes an AWS source once the repository holds a contract.
LEMMA ContractInductive ==
  ASSUME TypeOK, ContractInv, [Next]_vars
  PROVE  ContractInv'
<1> USE DEF repoVars, snsVars, Return, Throw, Proceed
<1>1. CASE UNCHANGED vars
  BY <1>1 DEF vars, ContractInv
<1>2. CASE SelectExplicit
  BY <1>2, UnresolvedSource DEF SelectExplicit, ContractInv
<1>3. CASE VisitEntry
  BY <1>3 DEF VisitEntry, ContractInv
<1>4. CASE selectCatalogContract
  BY <1>4, UnresolvedSource DEF selectCatalogContract, ContractInv
<1>5. CASE selectInventoryContract
  BY <1>5, UnresolvedSource DEF selectInventoryContract, ContractInv
<1>6. CASE findLocalCfnArtifactSpecs
  BY <1>6 DEF findLocalCfnArtifactSpecs, Publish, WriteOut, ContractInv
<1>7. CASE ResolveGateway
  BY <1>7 DEF ResolveGateway, ContractInv
<1>8. CASE ProbeSns
  BY <1>8 DEF ProbeSns, ContractInv
<1>9. CASE TryTopic
  BY <1>9 DEF TryTopic, ContractInv
<1>10. CASE SnsDone
  BY <1>10 DEF SnsDone, ContractInv
<1>11. CASE collectProviderResolutionCandidates
  BY <1>11 DEF collectProviderResolutionCandidates, ContractInv
<1>12. CASE Choose
  BY <1>12, ChooseTypes DEF Choose, ContractInv
<1>13. CASE TryProvider
  <2>1. contract = NoContract
    BY <1>13 DEF TryProvider, Preferred, shouldPreferProviderCandidate, ContractInv
  <2> QED BY <1>13, <2>1 DEF TryProvider, Publish, WriteOut, ContractInv
<1>14. CASE ProvidersDone
  BY <1>14 DEF ProvidersDone, ContractInv
<1>15. CASE ExportRepo
  <2>1. UNCHANGED <<input, repoVars, gateway, snsVars, queue, selected, disk, listed>>
    BY <1>15 DEF ExportRepo, DispatchFrame
  <2>2. pc = "dispatch" /\ selected.source = "repo-spec"
    BY <1>15 DEF ExportRepo, Dispatch
  <2>3. Named("repo", selected).source = "repo-spec"
    BY <2>2, NamedTypes DEF TypeOK, Writers
  <2>4. [selected EXCEPT !.derived = Plan["repo"].derived].source = "repo-spec"
    BY <2>2 DEF TypeOK, Result
  <2>5. \/ pc' = "done" /\ result'.source \in {"repo-spec", "manual-review"}
        \/ pc' = "write" /\ job'.by = "repo" /\ job'.otherwise = "keep"
           /\ job'.ok.source = "repo-spec"
    <3> DEFINE r == [selected EXCEPT !.derived = Plan["repo"].derived]
               n == OneIfAny(IF contract = "tree" THEN NoFile ELSE Plan["repo"].native)
                    \o OneIfAny(Plan["repo"].derived)
    <3>1. CASE Return(Unresolved(0)) \/ Return(selected)
      BY <2>2, <3>1, UnresolvedSource
    <3>2. CASE Publish("repo", Named("repo", selected), "keep")
      BY <2>3, <3>2 DEF Publish, WriteOut
    <3>3. CASE WriteOut("repo", FALSE, n, r, "keep")
      <4>1. r.source = "repo-spec"
        BY <2>4
      <4> HIDE DEF n, r
      <4> QED BY <3>3, <4>1 DEF WriteOut
    <3> QED BY <1>15, <3>1, <3>2, <3>3 DEF ExportRepo
  <2> QED BY <2>1, <2>2, <2>5 DEF ContractInv
<1>16. CASE ExportGateway
  <2>1. contract = NoContract
    BY <1>16 DEF ExportGateway, Dispatch, ContractInv
  <2> QED BY <1>16, <2>1 DEF ExportGateway, DispatchFrame, Publish, WriteOut, ContractInv
<1>17. CASE ExportSns
  <2>1. contract = NoContract
    BY <1>17 DEF ExportSns, Dispatch, ContractInv
  <2> QED BY <1>17, <2>1 DEF ExportSns, DispatchFrame, Publish, WriteOut, ContractInv
<1>18. CASE Review
  <2>1. contract = NoContract
    BY <1>18 DEF Review, Dispatch, ContractInv
  <2>2. pc' \in {"done", "write"} /\ contract' = contract
    BY <1>18 DEF Review, DispatchFrame, Publish, WriteOut, TypeOK
  <2> QED BY <2>1, <2>2 DEF ContractInv
<1>19. CASE WriteFile
  <2>1. Head(job.todo) \in Files
    BY <1>19 DEF WriteFile, TypeOK, Job
  <2>2. /\ contract' = contract /\ pc' = "write" /\ selected' = selected /\ pc = "write"
        /\ disk' = [disk EXCEPT ![Head(job.todo)] = job.by]
        /\ job' = [job EXCEPT !.todo = Tail(@)]
    BY <1>19 DEF WriteFile
  <2>3. job'.by = job.by /\ job'.otherwise = job.otherwise /\ job'.ok = job.ok
    BY <2>2 DEF TypeOK, Job
  <2> QED BY <2>1, <2>2, <2>3, RepoWritesOnly DEF ContractInv
<1>20. CASE WriteTree
  <2>1. /\ contract' = contract /\ pc' = "write" /\ selected' = selected /\ pc = "write"
        /\ disk' = Installed(job.by) /\ job' = [job EXCEPT !.tree = FALSE]
    BY <1>20 DEF WriteTree
  <2>2. job'.by = job.by /\ job'.otherwise = job.otherwise /\ job'.ok = job.ok
    BY <2>1 DEF TypeOK, Job
  <2> QED BY <2>1, <2>2, RepoWritesOnly DEF ContractInv
<1>21. CASE WriteFails
  <2>1. contract' = contract /\ pc = "write" /\ selected' = selected
    BY <1>21 DEF WriteFails
  <2>2. pc' \in {"done", "threw", "gateway", "export"}
    BY <1>21 DEF WriteFails, TypeOK, Job
  <2>3. CASE contract = NoContract
    BY <2>1, <2>2, <2>3 DEF ContractInv
  <2>4. CASE contract # NoContract
    <3>1. job.by = "repo" /\ job.otherwise = "keep" /\ selected.source = "repo-spec"
      BY <2>1, <2>4 DEF ContractInv
    <3>2. pc' = "done" /\ result' = selected
      BY <1>21, <3>1 DEF WriteFails
    <3>3. ~job.tree => Head(job.todo) \in Files
      BY <1>21 DEF WriteFails, TypeOK, Job
    <3>4. \A f \in Files : disk[f] \notin Writers \ {"repo"}
      BY <2>4 DEF ContractInv
    <3>5. \A f \in Files : disk'[f] \notin Writers \ {"repo"}
      BY <1>21, <3>1, <3>3, <3>4, RepoWritesOnly DEF WriteFails
    <3> QED BY <2>1, <3>1, <3>2, <3>5 DEF ContractInv
  <2> QED BY <2>3, <2>4
<1>22. CASE WriteDone
  BY <1>22 DEF WriteDone, ContractInv
<1> QED
  BY <1>1, <1>2, <1>3, <1>4, <1>5, <1>6, <1>7, <1>8, <1>9, <1>10, <1>11, <1>12, <1>13,
     <1>14, <1>15, <1>16, <1>17, <1>18, <1>19, <1>20, <1>21, <1>22 DEF Next

\* A contract of the repository is never replaced by an AWS source, nor is any
\* file of one written, for every catalog, every set of candidates and scores.
THEOREM RepositoryWins == Spec => []RepoFirst
<1>1. Init => ContractInv
  BY InitialDisk DEF Init, ContractInv
<1>2. TypeOK /\ ContractInv /\ [Next]_vars => ContractInv'
  BY ContractInductive
<1>3. ContractInv => RepoFirst
  BY DEF ContractInv, RepoFirst, Done
<1> QED BY <1>1, <1>2, <1>3, TypeCorrect, PTL DEF Spec

-----------------------------------------------------------------------------
(* What is published, and what is left behind.                             *)

Paths(r) == {r.spec, r.derived, r.meta} \ {NoFile}
Fresh(w) == ToSet(Plan[w].members) \cup ToSet(Written([Plan[w] EXCEPT !.native = NoFile]))

\* The paths of r hold what w wrote, once the job is done.
Ready(r, w, tree, todo) ==
  \A f \in Paths(r) : IF tree THEN f \in Fresh(w) ELSE f \in ToSet(todo) \/ disk[f] = w

\* An artifact that a run may return as resolved is its writer's, and all it names is written or
\* still to be written; the repository's contract need not be written at all.
Honest(r, w, tree, todo) ==
  r.status = "resolved" => r.by = w /\ (r.source # "repo-spec" => Ready(r, w, tree, todo))

\* The source that was selected, and who would write it.
SelectedInv ==
  /\ selected.source = "manual-review" <=> selected.status = "unresolved"
  /\ selected.source = "gateway-export" => selected.by = "gateway"
  /\ selected.source = "sns-contract" => selected.by = "sns"
  /\ selected.source = "repo-spec" => selected.by = "repo"

\* What lies on the disk is a failure's, or the work of the current or the successful writer.
ArtifactInv ==
  /\ SelectedInv
  /\ pc = "write" => /\ Honest(job.ok, job.by, job.tree, job.todo)
                     /\ job.otherwise = "keep" => selected.source = "repo-spec"
  /\ \A f \in Files : disk[f] \in Writers =>
       \/ disk[f] \in failed
       \/ pc = "write" /\ disk[f] = job.by
       \/ pc = "done" /\ (result.status = "resolved" => disk[f] = result.by)
  /\ PublishedFilesAreItsOwn

LEMMA ElementsOfFour ==
  ASSUME NEW E, NEW a \in Seq(E), NEW b \in Seq(E), NEW c \in Seq(E), NEW d \in Seq(E)
  PROVE  ToSet(((a \o b) \o c) \o d) = ToSet(a) \cup ToSet(b) \cup ToSet(c) \cup ToSet(d)
<1>1. \A x, y \in Seq(E) : x \o y \in Seq(E) /\ ToSet(x \o y) = ToSet(x) \cup ToSet(y)
  BY ConcatFacts
<1>2. a \o b \in Seq(E) /\ ToSet(a \o b) = ToSet(a) \cup ToSet(b)
  BY <1>1
<1>3. (a \o b) \o c \in Seq(E) /\ ToSet((a \o b) \o c) = ToSet(a \o b) \cup ToSet(c)
  BY <1>1, <1>2
<1>4. ToSet(((a \o b) \o c) \o d) = ToSet((a \o b) \o c) \cup ToSet(d)
  BY <1>1, <1>3
<1> QED BY <1>2, <1>3, <1>4

\* All a plan names is in what it writes.
LEMMA NamedIsWritten ==
  ASSUME NEW w \in Writers, NEW r \in Result
  PROVE  /\ Plan[w].members # <<>> => Paths(Named(w, r)) \subseteq Fresh(w)
         /\ Plan[w].members = <<>> => Paths(Named(w, r)) \subseteq ToSet(Written(Plan[w]))
<1> DEFINE p == Plan[w]
           q == [p EXCEPT !.native = NoFile]
<1>1. p \in Plans /\ q \in Plans
  BY PlanTypes DEF Plans
<1>2. \A f \in Files \cup {NoFile} : OneIfAny(f) \in Seq(Files) /\ (f # NoFile => ToSet(OneIfAny(f)) = {f})
  <2> TAKE f \in Files \cup {NoFile}
  <2>1. CASE f = NoFile
    BY <2>1 DEF OneIfAny
  <2>2. CASE f # NoFile
    <3>1. <<f>> \in Seq(Files) /\ ToSet(<<f>>) = {f}
      BY <2>2 DEF ToSet
    <3> QED BY <2>2, <3>1 DEF OneIfAny
  <2> QED BY <2>1, <2>2
<1>3. ASSUME NEW v \in Plans
      PROVE  {v.native, v.meta, v.derived} \ {NoFile} \subseteq ToSet(Written(v))
  <2> DEFINE a == OneIfAny(v.native)
             b == v.sidecars
             c == OneIfAny(v.meta)
             d == OneIfAny(v.derived)
  <2>1. a \in Seq(Files) /\ b \in Seq(Files) /\ c \in Seq(Files) /\ d \in Seq(Files)
    BY <1>2 DEF Plans
  <2>2. /\ v.native # NoFile => v.native \in ToSet(a)
        /\ v.meta # NoFile => v.meta \in ToSet(c)
        /\ v.derived # NoFile => v.derived \in ToSet(d)
    BY <1>2 DEF Plans
  <2>3. Written(v) = ((a \o b) \o c) \o d
    BY DEF Written
  <2> HIDE DEF a, b, c, d
  <2> QED BY <2>1, <2>2, <2>3, ElementsOfFour
<1>4. /\ Named(w, r).spec = IF p.members # <<>> THEN p.members[1] ELSE p.native
      /\ Named(w, r).derived = p.derived /\ Named(w, r).meta = p.meta
  BY DEF Named, Result
<1>5. q.meta = p.meta /\ q.derived = p.derived
  BY <1>1 DEF Plans
<1>6. p.members # <<>> => p.members[1] \in ToSet(p.members)
  <2>1. p.members \in Seq(Files)
    BY <1>1 DEF Plans
  <2> QED BY <2>1 DEF ToSet
<1>7. Fresh(w) = ToSet(p.members) \cup ToSet(Written(q))
  BY DEF Fresh
<1>8. /\ {p.native, p.meta, p.derived} \ {NoFile} \subseteq ToSet(Written(p))
      /\ {q.meta, q.derived} \ {NoFile} \subseteq ToSet(Written(q))
  BY <1>1, <1>3
<1>9. Written(p) = Written(Plan[w])
  OBVIOUS
<1>10. p.members = Plan[w].members
  OBVIOUS
<1> HIDE DEF p, q
<1> QED BY <1>4, <1>5, <1>6, <1>7, <1>8, <1>9, <1>10 DEF Paths

\* Naming changes the three paths only.
LEMMA NamedKeeps ==
  ASSUME NEW w \in Writers, NEW r \in Result
  PROVE  /\ Named(w, r).status = r.status /\ Named(w, r).source = r.source
         /\ Named(w, r).by = r.by /\ Named(w, r).confidence = r.confidence
BY DEF Named, Result

LEMMA ChosenSource ==
  ASSUME TypeOK
  PROVE  /\ chooseSource.source = "manual-review" <=> chooseSource.status = "unresolved"
         /\ chooseSource.source = "gateway-export" => chooseSource.by = "gateway"
         /\ chooseSource.source = "sns-contract" => chooseSource.by = "sns"
         /\ chooseSource.source = "repo-spec" => chooseSource.by = "repo"
         /\ chooseSource.source # "provider"
<1>1. \A c, w, s : /\ Resolved(s, c, w).status = "resolved" /\ Resolved(s, c, w).by = w
                   /\ Resolved(s, c, w).source = s
  BY DEF Resolved
<1>2. \A c, f : LET x == [Resolved("repo-spec", c, "repo") EXCEPT !.spec = f]
                IN  x.status = "resolved" /\ x.by = "repo" /\ x.source = "repo-spec"
  BY DEF Resolved
<1>3. \A c : Unresolved(c).status = "unresolved" /\ Unresolved(c).source = "manual-review"
  BY DEF Unresolved
<1>4. CASE contract # NoContract
  BY <1>2, <1>4 DEF chooseSource
<1>5. CASE contract = NoContract
  BY <1>1, <1>3, <1>5 DEF chooseSource
<1> QED BY <1>4, <1>5

\* A step that writes nothing, and returns nothing that would have to be written.
LEMMA QuietArtifact ==
  ASSUME ArtifactInv, pc \notin {"write", "done"}, pc' # "write", UNCHANGED disk,
         failed \subseteq failed', SelectedInv',
         pc' = "done" => result'.status = "unresolved" \/ result'.source = "repo-spec"
  PROVE  ArtifactInv'
BY DEF ArtifactInv, PublishedFilesAreItsOwn, Succeeded, Done

\* A step that hands an artifact to the writer, or stops short of it in a dry run.
LEMMA StartsWriting ==
  ASSUME TypeOK, ArtifactInv, pc \notin {"write", "done"}, NEW w \in Writers, NEW t \in BOOLEAN,
         NEW todo \in Seq(Files), NEW r \in Result, NEW o \in Handlers, WriteOut(w, t, todo, r, o),
         Honest(r, w, t, todo) \/ (input.dry /\ (r.status = "resolved" => r.by = w)),
         o = "keep" => selected.source = "repo-spec",
         UNCHANGED <<input, disk, selected, failed>>
  PROVE  ArtifactInv'
<1>1. SelectedInv'
  BY DEF ArtifactInv, SelectedInv
<1>2. \A f \in Files : disk'[f] \in Writers => disk'[f] \in failed'
  BY DEF ArtifactInv
<1>3. CASE input.dry
  <2>1. pc' = "done" /\ input'.dry
    BY <1>3 DEF WriteOut, Return
  <2> QED BY <1>1, <1>2, <2>1 DEF ArtifactInv, PublishedFilesAreItsOwn
<1>4. CASE ~input.dry
  <2>1. /\ pc' = "write"
        /\ job' = [by |-> w, tree |-> t, todo |-> todo, ok |-> r, otherwise |-> o]
    BY <1>4 DEF WriteOut
  <2>2. Honest(job.ok, job.by, job.tree, job.todo)'
    <3>1. Honest(r, w, t, todo) /\ disk' = disk
      BY <1>4
    <3>2. job'.ok = r /\ job'.by = w /\ job'.tree = t /\ job'.todo = todo
      BY <2>1
    <3> QED BY <3>1, <3>2 DEF Honest, Ready
  <2>3. PublishedFilesAreItsOwn'
    BY <2>1 DEF PublishedFilesAreItsOwn, Succeeded, Done
  <2>4. job'.otherwise = "keep" => selected'.source = "repo-spec"
    BY <2>1
  <2> QED BY <1>1, <1>2, <2>1, <2>2, <2>3, <2>4 DEF ArtifactInv
<1> QED BY <1>3, <1>4

LEMMA StartsPublishing ==
  ASSUME TypeOK, ArtifactInv, pc \notin {"write", "done"}, NEW w \in Writers, NEW r \in Result,
         NEW o \in Handlers, Publish(w, Named(w, r), o), r.by = w,
         o = "keep" => selected.source = "repo-spec",
         UNCHANGED <<input, disk, selected, failed>>
  PROVE  ArtifactInv'
<1> DEFINE tree == Plan[w].members # <<>>
           todo == IF tree THEN <<>> ELSE Written(Plan[w])
           n == Named(w, r)
<1>1. tree \in BOOLEAN /\ todo \in Seq(Files) /\ n \in Result
  <2>1. Written(Plan[w]) \in Seq(Files)
    BY PlanTypes, WrittenTypes
  <2> QED BY <2>1, NamedTypes
<1>2. WriteOut(w, tree, todo, n, o)
  BY DEF Publish
<1>3. Honest(n, w, tree, todo)
  BY NamedIsWritten, NamedKeeps DEF Honest, Ready
<1> HIDE DEF tree, todo, n
<1> QED BY <1>1, <1>2, <1>3, StartsWriting

\* The steps before a source is chosen write nothing and return no artifact.
LEMMA EarlySteps ==
  ASSUME SelectExplicit \/ VisitEntry \/ selectCatalogContract \/ selectInventoryContract
         \/ ResolveGateway \/ ProbeSns \/ TryTopic \/ SnsDone \/ collectProviderResolutionCandidates
  PROVE  /\ UNCHANGED <<input, disk, selected, failed, job>>
         /\ pc \notin {"write", "done", "choose", "export", "dispatch"}
         /\ pc' \notin {"write", "export", "dispatch"}
         /\ pc' = "choose" => collectProviderResolutionCandidates
         /\ pc' = "done" => result' = Unresolved(0)
<1> USE DEF Return, Throw, Proceed, repoVars, snsVars
<1>1. CASE SelectExplicit \/ VisitEntry \/ selectInventoryContract
  BY <1>1 DEF SelectExplicit, VisitEntry, selectInventoryContract
<1>2. CASE selectCatalogContract
  <2>1. \/ pc' \in {"inventory", "gateway"}
        \/ pc' = "done" /\ result' = Unresolved(0)
    BY <1>2 DEF selectCatalogContract
  <2> QED BY <1>2, <2>1 DEF selectCatalogContract
<1>3. CASE ResolveGateway \/ ProbeSns \/ TryTopic \/ SnsDone \/ collectProviderResolutionCandidates
  BY <1>3 DEF ResolveGateway, ProbeSns, TryTopic, SnsDone, collectProviderResolutionCandidates
<1> QED BY <1>1, <1>2, <1>3

\* The steps before the writer.
LEMMA ChoosingArtifact ==
  ASSUME TypeOK, ArtifactInv, findLocalCfnArtifactSpecs \/ Choose \/ TryProvider \/ ProvidersDone
  PROVE  ArtifactInv'
<1> USE DEF Return, Throw, Proceed
<1>0. \A c : Unresolved(c).status = "unresolved"
  BY DEF Unresolved
<1>1. CASE findLocalCfnArtifactSpecs
  <2> DEFINE r == Named("artifact", Resolved("cfn-embedded", 75, "artifact"))
             shown == IF input.dry THEN [r EXCEPT !.derived = NoFile] ELSE r
  <2>1. "artifact" \in Writers /\ "cfn-embedded" \in SourceTypes /\ "gateway" \in Handlers
    BY DEF Writers, SourceTypes, Handlers
  <2>2. Resolved("cfn-embedded", 75, "artifact") \in Result /\ r \in Result /\ r.by = "artifact"
    BY <2>1, ResultTypes, NamedTypes, NamedKeeps DEF Resolved
  <2>3. shown \in Result /\ shown.by = "artifact"
    BY <2>2 DEF Result
  <2>4. pc = "artifacts" /\ UNCHANGED <<input, disk, selected, failed>>
    BY <1>1 DEF findLocalCfnArtifactSpecs
  <2>5. SelectedInv'
    BY <2>4 DEF ArtifactInv, SelectedInv
  <2>6. CASE Publish("artifact", shown, "gateway")
    <3>1. CASE input.dry
      <4> HIDE DEF shown, r
      <4>1. PICK t \in BOOLEAN, todo \in Seq(Files) : WriteOut("artifact", t, todo, shown, "gateway")
        BY <2>1, <2>3, <2>6, PublishWritesOut
      <4> QED BY <2>1, <2>3, <2>4, <3>1, <4>1, StartsWriting
    <3>2. CASE ~input.dry
      <4>1. Publish("artifact", Named("artifact", Resolved("cfn-embedded", 75, "artifact")), "gateway")
        BY <2>6, <3>2
      <4>2. Resolved("cfn-embedded", 75, "artifact").by = "artifact"
        BY DEF Resolved
      <4> HIDE DEF shown, r
      <4> QED BY <2>1, <2>2, <2>4, <4>1, <4>2, StartsPublishing
    <3> QED BY <3>1, <3>2
  <2>7. CASE ~Publish("artifact", shown, "gateway")
    <3>1. pc' = "gateway" \/ (pc' = "done" /\ result' = Unresolved(0))
      BY <1>1, <2>7 DEF findLocalCfnArtifactSpecs
    <3> QED BY <1>0, <2>4, <2>5, <3>1, QuietArtifact
  <2> QED BY <2>6, <2>7
<1>2. CASE Choose
  <2>1. pc = "choose" /\ pc' = "export" /\ UNCHANGED <<disk, failed>> /\ selected' = chooseSource
    BY <1>2 DEF Choose
  <2>2. SelectedInv'
    BY <2>1, ChosenSource DEF SelectedInv
  <2> QED BY <2>1, <2>2, QuietArtifact
<1>3. CASE TryProvider
  <2> DEFINE p == Head(queue)
  <2>1. /\ pc = "export" /\ UNCHANGED <<input, disk, selected>>
    BY <1>3 DEF TryProvider
  <2>2. SelectedInv'
    BY <2>1 DEF ArtifactInv, SelectedInv
  <2>3. p \in Writers /\ Confidence[p] \in Nat
    <3>1. p \in Candidates
      BY <1>3 DEF TryProvider, Preferred, TypeOK
    <3> QED BY <3>1, ResolutionAssumption DEF Writers
  <2> HIDE DEF p
  <2>4. Resolved("provider", Confidence[p], p) \in Result /\ Resolved("provider", Confidence[p], p).by = p
    BY <2>3, ResultTypes DEF SourceTypes, Resolved
  <2>5. CASE Publish(p, Named(p, Resolved("provider", Confidence[p], p)), "export") /\ UNCHANGED failed
    BY <2>1, <2>3, <2>4, <2>5, StartsPublishing DEF Handlers
  <2>6. CASE \/ failed' = failed \cup {p} /\ pc' = "export"
             \/ pc' = "done" /\ result' = Unresolved(0) /\ UNCHANGED failed
    BY <1>0, <2>1, <2>2, <2>6, QuietArtifact
  <2> QED BY <1>3, <2>5, <2>6 DEF TryProvider, p
<1>4. CASE ProvidersDone
  <2>1. /\ pc = "export" /\ UNCHANGED <<disk, selected, failed>>
        /\ \/ pc' = "dispatch"
           \/ pc' = "done" /\ result' = selected /\ selected.status = "unresolved"
    BY <1>4 DEF ProvidersDone
  <2>2. SelectedInv'
    BY <2>1 DEF ArtifactInv, SelectedInv
  <2> QED BY <2>1, <2>2, QuietArtifact
<1> QED BY <1>1, <1>2, <1>3, <1>4

LEMMA DispatchingArtifact ==
  ASSUME TypeOK, ArtifactInv, ExportRepo \/ ExportGateway \/ ExportSns \/ Review
  PROVE  ArtifactInv'
<1> USE DEF Return, Throw, Proceed
<1>0. /\ \A c : Unresolved(c).status = "unresolved"
      /\ {"repo", "gateway", "sns", "review"} \subseteq Writers /\ {"threw", "keep"} \subseteq Handlers
      /\ selected \in Result
  BY DEF Unresolved, Writers, Handlers, TypeOK
<1>1. pc = "dispatch" /\ UNCHANGED <<input, disk, selected>>
  BY DEF ExportRepo, ExportGateway, ExportSns, Review, DispatchFrame, Dispatch
<1>2. SelectedInv' /\ SelectedInv
  BY <1>1 DEF ArtifactInv, SelectedInv
<1>3. CASE ExportRepo
  <2> DEFINE r == [selected EXCEPT !.derived = Plan["repo"].derived]
             todo == OneIfAny(IF contract = "tree" THEN NoFile ELSE Plan["repo"].native)
                     \o OneIfAny(Plan["repo"].derived)
  <2>1. selected.source = "repo-spec" /\ selected.by = "repo"
    BY <1>2, <1>3 DEF ExportRepo, Dispatch, SelectedInv
  <2>2. CASE \/ Return(Unresolved(0)) /\ UNCHANGED failed
             \/ Return(selected) /\ failed' = failed \cup {"repo"}
    BY <1>0, <1>1, <1>2, <2>1, <2>2, QuietArtifact
  <2>3. CASE Publish("repo", Named("repo", selected), "keep") /\ UNCHANGED failed
    BY <1>0, <1>1, <2>1, <2>3, StartsPublishing
  <2>4. CASE WriteOut("repo", FALSE, todo, r, "keep") /\ UNCHANGED failed
    <3>1. Plan["repo"] \in Plans
      BY <1>0, PlanTypes
    <3>2. r \in Result /\ r.source = "repo-spec" /\ r.by = "repo"
      BY <1>0, <2>1, <3>1 DEF Result, Plans
    <3>3. todo \in Seq(Files)
      BY <3>1 DEF OneIfAny, Plans
    <3> HIDE DEF r, todo
    <3>4. Honest(r, "repo", FALSE, todo)
      BY <3>2 DEF Honest
    <3> QED BY <1>0, <1>1, <2>1, <2>4, <3>2, <3>3, <3>4, StartsWriting
  <2> QED BY <1>3, <2>2, <2>3, <2>4 DEF ExportRepo
<1>4. CASE ExportGateway
  <2>1. selected.by = "gateway"
    BY <1>2, <1>4 DEF ExportGateway, Dispatch, SelectedInv
  <2>2. CASE Publish("gateway", Named("gateway", selected), "threw") /\ UNCHANGED failed
    BY <1>0, <1>1, <2>1, <2>2, StartsPublishing
  <2>3. CASE /\ failed' = failed \cup {"gateway"}
             /\ pc' = "threw" \/ (pc' = "done" /\ result' = Unresolved(selected.confidence))
    BY <1>0, <1>1, <1>2, <2>3, QuietArtifact
  <2> QED BY <1>4, <2>2, <2>3 DEF ExportGateway
<1>5. CASE ExportSns
  <2>1. selected.by = "sns"
    BY <1>2, <1>5 DEF ExportSns, Dispatch, SelectedInv
  <2>2. Publish("sns", Named("sns", selected), "threw") /\ UNCHANGED failed
    BY <1>5 DEF ExportSns
  <2> QED BY <1>0, <1>1, <2>1, <2>2, StartsPublishing
<1>6. CASE Review
  <2> DEFINE r == [selected EXCEPT !.meta = Plan["review"].meta]
             todo == OneIfAny(Plan["review"].meta) \o Plan["review"].sidecars
  <2>1. selected.status = "unresolved" /\ UNCHANGED failed
    BY <1>2, <1>6 DEF Review, Dispatch, SelectedInv
  <2>2. Plan["review"] \in Plans
    BY <1>0, PlanTypes
  <2>3. r \in Result /\ r.status = "unresolved"
    BY <1>0, <2>1, <2>2 DEF Result, Plans
  <2>4. todo \in Seq(Files)
    BY <2>2 DEF OneIfAny, Plans
  <2>5. \/ pc' = "done" /\ (result' = selected \/ result' = r)
        \/ WriteOut("review", FALSE, todo, r, "threw")
    BY <1>6 DEF Review, TypeOK
  <2> HIDE DEF r, todo
  <2>6. CASE pc' = "done" /\ (result' = selected \/ result' = r)
    BY <1>1, <1>2, <2>1, <2>3, <2>6, QuietArtifact
  <2>7. CASE WriteOut("review", FALSE, todo, r, "threw")
    <3>1. Honest(r, "review", FALSE, todo)
      BY <2>3 DEF Honest
    <3> QED BY <1>0, <1>1, <2>1, <2>3, <2>4, <2>7, <3>1, StartsWriting
  <2> QED BY <2>5, <2>6, <2>7
<1> QED BY <1>3, <1>4, <1>5, <1>6

LEMMA WritingArtifact ==
  ASSUME TypeOK, ArtifactInv, WriteFile \/ WriteTree \/ WriteFails \/ WriteDone
  PROVE  ArtifactInv'
<1> USE DEF Return, Throw, Proceed
<1>1. /\ pc = "write" /\ UNCHANGED <<input, selected>> /\ job \in Job /\ job.by \in Writers
      /\ job.todo \in Seq(Files) /\ job.ok \in Result /\ disk \in [Files -> Owners]
  BY DEF WriteFile, WriteTree, WriteFails, WriteDone, TypeOK, Job
<1>2. /\ SelectedInv' /\ Honest(job.ok, job.by, job.tree, job.todo)
      /\ job.otherwise = "keep" => selected.source = "repo-spec"
      /\ \A f \in Files : disk[f] \in Writers => disk[f] \in failed \/ disk[f] = job.by
  BY <1>1 DEF ArtifactInv, SelectedInv
<1>3. Paths(job.ok) \subseteq Files
  BY <1>1 DEF Paths, Result
<1>4. "torn" \notin Writers /\ "absent" \notin Writers
  BY ResolutionAssumption DEF Writers
<1>5. ASSUME pc' = "write", job'.by = job.by, job'.ok = job.ok, job'.otherwise = job.otherwise,
             job'.tree = FALSE, UNCHANGED failed,
             job.ok.status = "resolved" /\ job.ok.source # "repo-spec" =>
               \A f \in Paths(job.ok) : f \in ToSet(job'.todo) \/ disk'[f] = job.by,
             \A f \in Files : disk'[f] \in Writers => disk'[f] \in {disk[f], job.by}
      PROVE  ArtifactInv'
  <2>1. Honest(job.ok, job.by, job.tree, job.todo)'
    BY <1>2, <1>5 DEF Honest, Ready
  <2>2. PublishedFilesAreItsOwn'
    BY <1>5 DEF PublishedFilesAreItsOwn, Succeeded, Done
  <2>3. \A f \in Files : disk'[f] \in Writers => disk'[f] \in failed' \/ disk'[f] = job'.by
    BY <1>2, <1>5
  <2>4. job'.otherwise = "keep" => selected'.source = "repo-spec"
    BY <1>1, <1>2, <1>5
  <2> QED BY <1>2, <1>5, <2>1, <2>2, <2>3, <2>4 DEF ArtifactInv
<1>6. CASE WriteFile
  <2>1. /\ ~job.tree /\ job.todo # <<>> /\ pc' = "write" /\ UNCHANGED failed
        /\ disk' = [disk EXCEPT ![Head(job.todo)] = job.by]
        /\ job' = [job EXCEPT !.todo = Tail(job.todo)]
    BY <1>1, <1>6 DEF WriteFile
  <2>2. /\ job'.by = job.by /\ job'.ok = job.ok /\ job'.otherwise = job.otherwise
        /\ job'.tree = FALSE /\ job'.todo = Tail(job.todo)
    BY <1>1, <2>1 DEF Job
  <2>3. Head(job.todo) \in Files /\ ToSet(job.todo) = {Head(job.todo)} \cup ToSet(Tail(job.todo))
    BY <1>1, <2>1, TailFacts
  <2>4. \A f \in Files : disk'[f] = IF f = Head(job.todo) THEN job.by ELSE disk[f]
    BY <1>1, <2>1
  <2>5. job.ok.status = "resolved" /\ job.ok.source # "repo-spec" =>
          \A f \in Paths(job.ok) : f \in ToSet(job'.todo) \/ disk'[f] = job.by
    BY <1>2, <1>3, <2>1, <2>2, <2>3, <2>4 DEF Honest, Ready
  <2> QED BY <1>5, <2>1, <2>2, <2>4, <2>5
<1>7. CASE WriteTree
  <2>1. /\ job.tree /\ pc' = "write" /\ UNCHANGED failed
        /\ disk' = Installed(job.by) /\ job' = [job EXCEPT !.tree = FALSE]
    BY <1>1, <1>7 DEF WriteTree
  <2>2. job'.by = job.by /\ job'.ok = job.ok /\ job'.otherwise = job.otherwise /\ job'.tree = FALSE
    BY <1>1, <2>1 DEF Job
  <2>3. \A f \in Files : disk'[f] = IF f \in Fresh(job.by) THEN job.by
                                    ELSE IF f \in Kept \cup {TreeFile} THEN disk[f] ELSE "absent"
    BY <2>1 DEF Installed, Fresh
  <2>4. job.ok.status = "resolved" /\ job.ok.source # "repo-spec" =>
          \A f \in Paths(job.ok) : disk'[f] = job.by
    BY <1>2, <1>3, <2>1, <2>3 DEF Honest, Ready
  <2> QED BY <1>4, <1>5, <2>1, <2>2, <2>3, <2>4
<1>8. CASE WriteFails
  <2>1. /\ disk' \in IF job.tree THEN {disk, Installed(job.by), Missing}
                     ELSE {disk, [disk EXCEPT ![Head(job.todo)] = "torn"]}
        /\ failed' = failed \cup {job.by}
    BY <1>8 DEF WriteFails
  <2>2. \A f \in Files : disk'[f] \in Writers => disk'[f] \in {disk[f], job.by}
    <3>1. CASE disk' = disk
      BY <3>1
    <3>2. CASE disk' = Installed(job.by)
      BY <1>4, <3>2 DEF Installed
    <3>3. CASE disk' = Missing
      BY <1>4, <3>3 DEF Missing
    <3>4. CASE disk' = [disk EXCEPT ![Head(job.todo)] = "torn"]
      BY <1>1, <1>4, <3>4
    <3> QED BY <2>1, <3>1, <3>2, <3>3, <3>4
  <2>3. \A f \in Files : disk'[f] \in Writers => disk'[f] \in failed'
    BY <1>2, <2>1, <2>2
  <2>4. pc' # "write" /\ (pc' = "done" => result'.source = "repo-spec")
    <3>1. job.otherwise \in Handlers
      BY <1>1 DEF Job, Handlers
    <3> QED BY <1>2, <1>8, <3>1 DEF WriteFails, Handlers
  <2> QED BY <1>2, <2>3, <2>4 DEF ArtifactInv, PublishedFilesAreItsOwn, Succeeded, Done
<1>9. CASE WriteDone
  <2>1. ~job.tree /\ job.todo = <<>> /\ pc' = "done" /\ result' = job.ok /\ UNCHANGED <<disk, failed>>
    BY <1>9 DEF WriteDone
  <2>2. ToSet(job.todo) = {}
    BY <2>1 DEF ToSet
  <2>3. PublishedFilesAreItsOwn'
    <3>1. job.ok.status = "resolved" /\ job.ok.source # "repo-spec" =>
            job.ok.by = job.by /\ \A f \in Paths(job.ok) : disk[f] = job.by
      BY <1>2, <2>1, <2>2 DEF Honest, Ready
    <3>2. Paths(result') = {result'.spec, result'.derived, result'.meta} \ {NoFile}
      BY DEF Paths
    <3> QED BY <2>1, <3>1, <3>2 DEF PublishedFilesAreItsOwn, Succeeded
  <2>4. \A f \in Files : disk'[f] \in Writers =>
          disk'[f] \in failed' \/ (result'.status = "resolved" => disk'[f] = result'.by)
    BY <1>2, <2>1 DEF Honest
  <2> QED BY <1>2, <2>1, <2>3, <2>4 DEF ArtifactInv
<1> QED BY <1>6, <1>7, <1>8, <1>9

LEMMA ArtifactInductive ==
  ASSUME TypeOK, ArtifactInv, [Next]_vars
  PROVE  ArtifactInv'
<1>1. CASE UNCHANGED vars
  BY <1>1 DEF vars, ArtifactInv, SelectedInv, Honest, Ready, PublishedFilesAreItsOwn, Succeeded, Done
<1>2. CASE SelectExplicit \/ VisitEntry \/ selectCatalogContract \/ selectInventoryContract
           \/ ResolveGateway \/ ProbeSns \/ TryTopic \/ SnsDone \/ collectProviderResolutionCandidates
  <2>1. SelectedInv'
    BY <1>2, EarlySteps DEF ArtifactInv, SelectedInv
  <2>2. Unresolved(0).status = "unresolved"
    BY DEF Unresolved
  <2> QED BY <1>2, <2>1, <2>2, EarlySteps, QuietArtifact
<1> QED BY <1>1, <1>2, ChoosingArtifact, DispatchingArtifact, WritingArtifact DEF Next

LEMMA InitArtifact == Init => ArtifactInv
<1> SUFFICES ASSUME Init PROVE ArtifactInv
  OBVIOUS
<1>1. SelectedInv
  BY DEF Init, SelectedInv, NoResult, Unresolved
<1>2. pc \notin {"write", "done"}
  BY DEF Init
<1> QED BY <1>1, <1>2, InitialDisk DEF ArtifactInv, PublishedFilesAreItsOwn, Succeeded, Done

\* The paths of a resolved result from AWS or a build artifact name files of exactly that source,
\* whatever the attempts before it left (writeResolvedArtifactWithDerivedOpenApi).
THEOREM PathsNameTheirSource == Spec => []PublishedFilesAreItsOwn
<1>1. ArtifactInv => PublishedFilesAreItsOwn
  BY DEF ArtifactInv
<1> QED BY <1>1, InitArtifact, ArtifactInductive, TypeCorrect, PTL DEF Spec

\* Files of another source than the one that is returned were left by a write that failed.
THEOREM StrangersFailed == Spec => []LeftoversAreFailures
<1>1. ArtifactInv => LeftoversAreFailures
  BY DEF ArtifactInv, LeftoversAreFailures, Succeeded, Done
<1> QED BY <1>1, InitArtifact, ArtifactInductive, TypeCorrect, PTL DEF Spec

-----------------------------------------------------------------------------
(* The most confident source.                                              *)

Clouds  == {"gateway-export", "sns-contract", "provider"}
Fair(c) == /\ isResolvedGatewayCandidate => gateway.confidence <= c
           /\ isResolvedSnsCandidate => sns.confidence <= c

\* Nothing better than r was passed over.
Wins(r) ==
  r.status = "resolved" /\ r.source \in Clouds =>
    /\ r.confidence >= 40 /\ Fair(r.confidence)
    /\ \A p \in listed : Confidence[p] > r.confidence => p \in failed
    /\ r.source = "provider" /\ isResolvedGatewayCandidate => gateway.confidence < r.confidence

\* What chooseSource settles between the gateway and the topics.
Chosen ==
  /\ selected.source # "provider" /\ selected.confidence \in Nat
  /\ selected.source # "repo-spec" =>
       /\ selected.status = "resolved" => selected.confidence >= 40 /\ Fair(selected.confidence)
       /\ selected.status # "resolved" => ~isResolvedGatewayCandidate /\ ~isResolvedSnsCandidate

\* The candidates that are left are in order, and nobody else was passed over but those that failed.
Contest(current) == Chosen /\ BestFirst(queue) /\ listed \subseteq ToSet(queue) \cup failed \cup current

RankInv ==
  /\ pc = "choose" => BestFirst(queue) /\ ToSet(queue) = listed
  /\ pc = "export" => Contest({})
  /\ pc = "dispatch" => selected.source # "provider" /\ Wins(selected)
  /\ pc = "write" => Wins(job.ok) /\ (job.otherwise = "export" => Contest({job.by}))
  /\ pc = "done" => Wins(result)

\* The confidences that are compared are numbers.
LEMMA Scores ==
  ASSUME TypeOK
  PROVE  /\ isResolvedGatewayCandidate => gateway.confidence \in Nat
         /\ isResolvedSnsCandidate => sns.confidence \in Nat
         /\ \A p \in Candidates : Confidence[p] \in Nat
BY ResolutionAssumption DEF isResolvedGatewayCandidate, isResolvedSnsCandidate, TypeOK

LEMMA ChoiceIsFair ==
  ASSUME TypeOK, UNCHANGED <<gateway, sns>>, selected' = chooseSource
  PROVE  Chosen'
<1>1. /\ \A s, c, w : /\ Resolved(s, c, w).status = "resolved" /\ Resolved(s, c, w).confidence = c
                      /\ Resolved(s, c, w).source = s
      /\ \A c : Unresolved(c).status = "unresolved" /\ Unresolved(c).source = "manual-review"
  BY DEF Resolved, Unresolved
<1>2. chooseSource \in Result /\ (contract # NoContract => chooseSource.source = "repo-spec")
      /\ chooseSource.source # "provider"
  BY ChooseTypes, ChosenSource
<1>3. chooseSource.confidence \in Nat
  BY <1>2 DEF Result
<1>4. ASSUME contract = NoContract, SnsWins
      PROVE  chooseSource.status = "resolved" /\ chooseSource.confidence >= 40 /\ Fair(chooseSource.confidence)
  <2>1. chooseSource = Resolved("sns-contract", sns.confidence, "sns")
    BY <1>4 DEF chooseSource
  <2> QED BY <1>1, <1>4, <2>1, Scores DEF SnsWins, Fair, isResolvedSnsCandidate
<1>5. ASSUME contract = NoContract, ~SnsWins, isResolvedGatewayCandidate
      PROVE  chooseSource.status = "resolved" /\ chooseSource.confidence >= 40 /\ Fair(chooseSource.confidence)
  <2>1. chooseSource = Resolved("gateway-export", gateway.confidence, "gateway")
    BY <1>5 DEF chooseSource
  <2>2. isResolvedSnsCandidate => sns.confidence <= gateway.confidence
    BY <1>5, Scores DEF SnsWins
  <2> QED BY <1>1, <1>5, <2>1, <2>2, Scores DEF Fair, isResolvedGatewayCandidate
<1>6. ASSUME contract = NoContract, ~SnsWins, ~isResolvedGatewayCandidate
      PROVE  chooseSource.status = "unresolved" /\ ~isResolvedSnsCandidate
  <2>1. chooseSource = Unresolved(Best)
    BY <1>6 DEF chooseSource
  <2> QED BY <1>1, <1>6, <2>1 DEF SnsWins
<1>7. /\ isResolvedGatewayCandidate' = isResolvedGatewayCandidate
      /\ isResolvedSnsCandidate' = isResolvedSnsCandidate
      /\ \A c : Fair(c)' = Fair(c)
  BY DEF isResolvedGatewayCandidate, isResolvedSnsCandidate, Fair
<1>8. CASE contract # NoContract
  BY <1>2, <1>3, <1>8 DEF Chosen
<1>9. CASE contract = NoContract
  BY <1>2, <1>3, <1>4, <1>5, <1>6, <1>7, <1>9 DEF Chosen
<1> QED BY <1>8, <1>9

\* The first of the queue is as good as any.
LEMMA OrderedQueue ==
  ASSUME NEW q \in Seq(Candidates), q # <<>>, BestFirst(q)
  PROVE  /\ BestFirst(Tail(q)) /\ Head(q) \in Candidates /\ Tail(q) \in Seq(Candidates)
         /\ ToSet(q) = {Head(q)} \cup ToSet(Tail(q))
         /\ \A p \in ToSet(q) : Confidence[Head(q)] >= Confidence[p]
<1>1. /\ Head(q) \in Candidates /\ Tail(q) \in Seq(Candidates)
      /\ ToSet(q) = {Head(q)} \cup ToSet(Tail(q))
  BY TailFacts
<1>2. /\ Len(q) \in Nat /\ Len(q) > 0 /\ DOMAIN q = 1 .. Len(q) /\ Head(q) = q[1]
      /\ DOMAIN Tail(q) = 1 .. Len(q) - 1 /\ \A i \in 1 .. Len(q) - 1 : Tail(q)[i] = q[i + 1]
  OBVIOUS
<1>3. \A p \in Candidates : Confidence[p] \in Nat
  BY ResolutionAssumption
<1>4. \A p \in ToSet(q) : Confidence[Head(q)] >= Confidence[p]
  <2> SUFFICES ASSUME NEW i \in DOMAIN q PROVE Confidence[q[1]] >= Confidence[q[i]]
    BY <1>2 DEF ToSet
  <2>1. q[i] \in Candidates
    OBVIOUS
  <2> QED BY <1>2, <1>3, <2>1 DEF BestFirst
<1>5. BestFirst(Tail(q))
  <2> DEFINE t == Tail(q)
  <2> SUFFICES ASSUME NEW i \in DOMAIN t, NEW j \in DOMAIN t, i < j
               PROVE  Confidence[t[i]] >= Confidence[t[j]]
    BY DEF BestFirst
  <2>1. i + 1 \in DOMAIN q /\ j + 1 \in DOMAIN q /\ i + 1 < j + 1 /\ t[i] = q[i + 1] /\ t[j] = q[j + 1]
    BY <1>2
  <2> HIDE DEF t
  <2> QED BY <2>1 DEF BestFirst
<1> QED BY <1>1, <1>4, <1>5

\* Scores, candidates and failures stay as they are, or more fail.
Onwards == UNCHANGED <<gateway, sns, listed>> /\ failed \subseteq failed'

LEMMA WinsOnwards ==
  ASSUME Onwards, NEW r, Wins(r)
  PROVE  Wins(r)'
<1>1. /\ isResolvedGatewayCandidate' = isResolvedGatewayCandidate
      /\ isResolvedSnsCandidate' = isResolvedSnsCandidate
  BY DEF isResolvedGatewayCandidate, isResolvedSnsCandidate, Onwards
<1> QED BY <1>1 DEF Wins, Fair, Onwards

LEMMA ContestOnwards ==
  ASSUME Onwards, UNCHANGED <<queue, selected>>, NEW A, NEW B, Contest(A), A \subseteq B \cup failed'
  PROVE  Contest(B)'
<1>1. /\ isResolvedGatewayCandidate' = isResolvedGatewayCandidate
      /\ isResolvedSnsCandidate' = isResolvedSnsCandidate
  BY DEF isResolvedGatewayCandidate, isResolvedSnsCandidate, Onwards
<1>2. Chosen'
  BY <1>1 DEF Contest, Chosen, Fair, Onwards
<1>3. BestFirst(queue') /\ listed' \subseteq ToSet(queue') \cup failed' \cup B
  BY DEF Contest, Onwards
<1> QED BY <1>2, <1>3 DEF Contest, BestFirst

\* A result that no source of the account won has nothing to prove.
LEMMA OthersWin ==
  /\ \A c : Wins(Unresolved(c))
  /\ \A r : r.status # "resolved" \/ r.source \notin Clouds => Wins(r)
BY DEF Wins, Unresolved

LEMMA CollectRanks ==
  ASSUME TypeOK, collectProviderResolutionCandidates
  PROVE  BestFirst(queue') /\ ToSet(queue') = listed'
<1>1. listed' \subseteq Candidates /\ queue' \in SetToSeqs(listed') /\ BestFirst(queue')
  BY DEF collectProviderResolutionCandidates
<1>2. IsFiniteSet(listed') /\ Cardinality(listed') \in Nat
  BY <1>1, ResolutionAssumption, FS_Subset, FS_CardinalityType
<1>3. queue' \in [1 .. Cardinality(listed') -> listed'] /\ NoRepeats(queue')
  BY <1>1 DEF SetToSeqs, NoRepeats
<1>4. queue' \in Seq(listed') /\ Len(queue') = Cardinality(listed')
  BY <1>2, <1>3
<1>5. Cardinality(ToSet(queue')) = Cardinality(listed')
  BY <1>3, <1>4, LengthIsCardinality
<1>6. ToSet(queue') \in SUBSET listed'
  BY <1>4 DEF ToSet
<1> QED BY <1>1, <1>2, <1>5, <1>6, FS_Subset

\* A step that returns r, or hands it to the writer.
LEMMA RankPublishes ==
  ASSUME TypeOK, NEW w \in Writers, NEW t \in BOOLEAN, NEW todo \in Seq(Files),
         NEW r \in Result, NEW o \in Handlers \ {"export"}, WriteOut(w, t, todo, r, o),
         Wins(r), Onwards
  PROVE  RankInv'
<1>1. Wins(r)'
  BY WinsOnwards
<1>2. \/ pc' = "done" /\ result' = r
      \/ pc' = "write" /\ job'.ok = r /\ job'.otherwise = o
  BY DEF WriteOut, Return
<1>3. CASE pc' = "done" /\ result' = r
  <2>1. Wins(result)'
    BY <1>1, <1>3 DEF Wins
  <2> QED BY <1>3, <2>1 DEF RankInv
<1>4. CASE pc' = "write" /\ job'.ok = r /\ job'.otherwise = o
  <2>1. Wins(job.ok)' /\ job'.otherwise # "export"
    BY <1>1, <1>4 DEF Wins
  <2> QED BY <1>4, <2>1 DEF RankInv
<1> QED BY <1>2, <1>3, <1>4

LEMMA RankPublishesPlan ==
  ASSUME TypeOK, NEW w \in Writers, NEW r \in Result, NEW o \in Handlers \ {"export"},
         Publish(w, r, o), Wins(r), Onwards
  PROVE  RankInv'
<1>1. PICK t \in BOOLEAN, todo \in Seq(Files) : WriteOut(w, t, todo, r, o)
  BY PublishWritesOut
<1> QED BY <1>1, RankPublishes

\* A candidate that is preferred beats the selected source and everybody who has not failed.
LEMMA PreferredWins ==
  ASSUME TypeOK, Contest({}), Preferred, NEW r, r.source = "provider",
         r.confidence = Confidence[Head(queue)]
  PROVE  Wins(r)
<1> DEFINE p == Head(queue)
<1>1. /\ queue \in Seq(Candidates) /\ queue # <<>> /\ BestFirst(queue) /\ Chosen
      /\ listed \subseteq ToSet(queue) \cup failed
  BY DEF TypeOK, Preferred, Contest
<1>2. /\ Confidence[p] >= 40 /\ selected.source # "repo-spec"
      /\ selected.status = "unresolved" \/ Confidence[p] > selected.confidence
  BY DEF Preferred, shouldPreferProviderCandidate
<1>3. p \in Candidates /\ \A c \in ToSet(queue) : Confidence[p] >= Confidence[c]
  BY <1>1, OrderedQueue
<1>4. \A c \in ToSet(queue) : c \in Candidates
  BY <1>1 DEF ToSet
<1> HIDE DEF p
<1>5. \A c \in listed : Confidence[c] > Confidence[p] => c \in failed
  BY <1>1, <1>3, <1>4, Scores
<1>6. /\ isResolvedGatewayCandidate => gateway.confidence < Confidence[p]
      /\ isResolvedSnsCandidate => sns.confidence < Confidence[p]
  BY <1>1, <1>2, <1>3, Scores DEF Chosen, Fair
<1>7. Fair(Confidence[p])
  BY <1>3, <1>6, Scores DEF Fair
<1> QED BY <1>2, <1>5, <1>6, <1>7 DEF Wins, p

\* When nobody is preferred any more, the selected source beats whoever has not failed.
LEMMA SelectedWins ==
  ASSUME TypeOK, Contest({}), ~Preferred
  PROVE  Wins(selected)
<1> SUFFICES ASSUME selected.status = "resolved", selected.source \in Clouds PROVE Wins(selected)
  BY DEF Wins
<1>1. /\ queue \in Seq(Candidates) /\ BestFirst(queue) /\ Chosen
      /\ listed \subseteq ToSet(queue) \cup failed
  BY DEF TypeOK, Contest
<1>2. /\ selected.source # "provider" /\ selected.source # "repo-spec" /\ selected.confidence \in Nat
      /\ selected.confidence >= 40 /\ Fair(selected.confidence)
  BY <1>1 DEF Chosen, Clouds
<1>3. ASSUME NEW p \in listed, Confidence[p] > selected.confidence, p \notin failed
      PROVE  FALSE
  <2>1. p \in ToSet(queue)
    BY <1>1, <1>3
  <2>2. queue # <<>>
    BY <2>1 DEF ToSet
  <2>3. p \in Candidates /\ Head(queue) \in Candidates /\ Confidence[Head(queue)] >= Confidence[p]
    <3>1. \A c \in ToSet(queue) : c \in Candidates
      BY <1>1 DEF ToSet
    <3> QED BY <1>1, <2>1, <2>2, <3>1, OrderedQueue
  <2>4. Confidence[Head(queue)] >= 40 /\ Confidence[Head(queue)] > selected.confidence
    BY <1>2, <1>3, <2>3, Scores
  <2> QED BY <1>2, <2>2, <2>4 DEF Preferred, shouldPreferProviderCandidate
<1> QED BY <1>2, <1>3 DEF Wins

LEMMA ChoosingRanks ==
  ASSUME TypeOK, RankInv, findLocalCfnArtifactSpecs \/ Choose \/ TryProvider \/ ProvidersDone
  PROVE  RankInv'
<1> USE DEF Return, Throw, Proceed
<1>0. /\ \A c : Wins(Unresolved(c))'
      /\ \A d : Unresolved(d).status # "resolved"
  BY DEF Wins, Unresolved
<1>1. CASE findLocalCfnArtifactSpecs
  <2> DEFINE r == Named("artifact", Resolved("cfn-embedded", 75, "artifact"))
             shown == IF input.dry THEN [r EXCEPT !.derived = NoFile] ELSE r
  <2>1. "artifact" \in Writers /\ "cfn-embedded" \in SourceTypes /\ "gateway" \in Handlers \ {"export"}
    BY DEF Writers, SourceTypes, Handlers
  <2>2. r \in Result /\ r.source = "cfn-embedded"
    BY <2>1, ResultTypes, NamedTypes, NamedKeeps DEF Resolved
  <2>3. shown \in Result /\ shown.source = "cfn-embedded"
    BY <2>2 DEF Result
  <2>4. Onwards
    BY <1>1 DEF findLocalCfnArtifactSpecs, Onwards, snsVars
  <2>5. Wins(shown)
    BY <2>3 DEF Wins, Clouds
  <2>6. CASE Publish("artifact", shown, "gateway")
    <3> HIDE DEF shown, r
    <3> QED BY <2>1, <2>3, <2>4, <2>5, <2>6, RankPublishesPlan
  <2>7. CASE ~Publish("artifact", shown, "gateway")
    <3>1. pc' = "gateway" \/ (pc' = "done" /\ result' = Unresolved(0))
      BY <1>1, <2>7 DEF findLocalCfnArtifactSpecs
    <3> QED BY <1>0, <3>1 DEF RankInv, Wins
  <2> QED BY <2>6, <2>7
<1>2. CASE Choose
  <2>1. /\ pc = "choose" /\ pc' = "export" /\ selected' = chooseSource
        /\ UNCHANGED <<gateway, sns, queue, listed, failed>>
    BY <1>2 DEF Choose, snsVars
  <2>2. Chosen'
    BY <2>1, ChoiceIsFair
  <2> QED BY <2>1, <2>2 DEF RankInv, Contest, BestFirst
<1>3. CASE TryProvider
  <2>p. PICK p : p = Head(queue)
    OBVIOUS
  <2>r. PICK r : r = Named(p, Resolved("provider", Confidence[p], p))
    OBVIOUS
  <2>1. /\ pc = "export" /\ Preferred /\ Contest({}) /\ queue' = Tail(queue)
        /\ UNCHANGED <<gateway, sns, listed, selected>>
    BY <1>3 DEF TryProvider, RankInv, snsVars
  <2>2. queue \in Seq(Candidates) /\ queue # <<>> /\ BestFirst(queue) /\ listed \subseteq ToSet(queue) \cup failed
    BY <2>1 DEF TypeOK, Preferred, Contest
  <2>3. /\ BestFirst(Tail(queue)) /\ p \in Candidates /\ ToSet(queue) = {p} \cup ToSet(Tail(queue))
    BY <2>2, <2>p, OrderedQueue
  <2>4. p \in Writers /\ Confidence[p] \in Nat
    BY <2>3, ResolutionAssumption DEF Writers
  <2>5. r \in Result /\ r.source = "provider" /\ r.confidence = Confidence[p] /\ r.status = "resolved"
    <3>1. Resolved("provider", Confidence[p], p) \in Result
      BY <2>4, ResultTypes DEF SourceTypes
    <3> QED BY <2>4, <2>r, <3>1, NamedTypes, NamedKeeps DEF Resolved
  <2>6. Wins(r)
    BY <2>1, <2>5, <2>p, PreferredWins
  <2>7. ASSUME NEW A, failed \subseteq failed', {p} \subseteq A \cup failed'
        PROVE  Contest(A)'
    <3>1. Chosen'
      BY <2>1 DEF Contest, Chosen, Fair, isResolvedGatewayCandidate, isResolvedSnsCandidate
    <3>2. listed' \subseteq ToSet(queue') \cup failed' \cup A
      BY <2>1, <2>2, <2>3, <2>7
    <3>3. BestFirst(queue)'
      BY <2>1, <2>3 DEF BestFirst
    <3> QED BY <3>1, <3>2, <3>3 DEF Contest
  <2>8. CASE Publish(p, r, "export") /\ UNCHANGED failed
    <3>1. Onwards
      BY <2>1, <2>8 DEF Onwards
    <3>2. Wins(r)'
      BY <2>6, <3>1, WinsOnwards
    <3>3. /\ pc' \in {"done", "write"} /\ (pc' = "done" => result' = r)
          /\ pc' = "write" => job'.by = p /\ job'.ok = r
      BY <2>4, <2>5, <2>8, PublishTypes DEF Handlers
    <3>4. Contest({p})'
      BY <2>7, <2>8
    <3>5. CASE pc' = "done"
      BY <3>2, <3>3, <3>5 DEF RankInv, Wins
    <3>6. CASE pc' = "write"
      <4>1. Wins(job.ok)'
        BY <3>2, <3>3, <3>6 DEF Wins
      <4>2. Contest({job.by})'
        BY <3>3, <3>4, <3>6 DEF Contest
      <4> QED BY <3>6, <4>1, <4>2 DEF RankInv
    <3> QED BY <3>3, <3>5, <3>6
  <2>9. CASE failed' = failed \cup {p} /\ pc' = "export"
    <3>1. Contest({})'
      BY <2>7, <2>9
    <3> QED BY <2>9, <3>1 DEF RankInv
  <2>10. CASE pc' = "done" /\ result' = Unresolved(0)
    BY <1>0, <2>10 DEF RankInv, Wins
  <2> QED BY <1>3, <2>p, <2>r, <2>8, <2>9, <2>10 DEF TryProvider
<1>4. CASE ProvidersDone
  <2>1. /\ pc = "export" /\ ~Preferred /\ Contest({}) /\ Onwards /\ UNCHANGED selected
        /\ \/ pc' = "dispatch"
           \/ pc' = "done" /\ result' = selected /\ selected.status = "unresolved"
    BY <1>4 DEF ProvidersDone, RankInv, Onwards, snsVars
  <2>2. CASE pc' = "dispatch"
    <3>1. Wins(selected) /\ selected.source # "provider"
      BY <2>1, SelectedWins DEF Contest, Chosen
    <3>2. Wins(selected)'
      BY <2>1, <3>1, WinsOnwards DEF Wins
    <3> QED BY <2>1, <2>2, <3>1, <3>2 DEF RankInv
  <2>3. CASE pc' = "done" /\ result' = selected /\ selected.status = "unresolved"
    BY <2>3 DEF RankInv, Wins
  <2> QED BY <2>1, <2>2, <2>3
<1> QED BY <1>1, <1>2, <1>3, <1>4

LEMMA DispatchingRanks ==
  ASSUME TypeOK, RankInv, ExportRepo \/ ExportGateway \/ ExportSns \/ Review
  PROVE  RankInv'
<1> USE DEF Return, Throw, Proceed
<1>0. /\ \A c : Unresolved(c).status = "unresolved"
      /\ {"repo", "gateway", "sns", "review"} \subseteq Writers
      /\ {"threw", "keep"} \subseteq Handlers \ {"export"} /\ selected \in Result
  BY DEF Unresolved, Writers, Handlers, TypeOK
<1>1. pc = "dispatch" /\ Wins(selected) /\ UNCHANGED <<gateway, sns, listed, selected>>
  BY DEF ExportRepo, ExportGateway, ExportSns, Review, DispatchFrame, Dispatch, RankInv, snsVars
<1>2. ASSUME pc' = "done", result'.status # "resolved" \/ result'.source \notin Clouds
      PROVE  RankInv'
  BY <1>2 DEF RankInv, Wins
<1>3. \A w \in Writers : Named(w, selected) \in Result /\ Wins(Named(w, selected))
  BY <1>0, <1>1, NamedTypes, NamedKeeps DEF Wins
<1>4. UNCHANGED failed => Onwards
  BY <1>1 DEF Onwards
<1>5. CASE ExportRepo
  <2> DEFINE r == [selected EXCEPT !.derived = Plan["repo"].derived]
             todo == OneIfAny(IF contract = "tree" THEN NoFile ELSE Plan["repo"].native)
                     \o OneIfAny(Plan["repo"].derived)
  <2>1. selected.source \notin Clouds
    BY <1>5 DEF ExportRepo, Dispatch, Clouds
  <2>2. CASE Return(Unresolved(0)) \/ Return(selected)
    BY <1>0, <1>2, <2>1, <2>2
  <2>3. CASE Publish("repo", Named("repo", selected), "keep") /\ UNCHANGED failed
    BY <1>0, <1>3, <1>4, <2>3, RankPublishesPlan
  <2>4. CASE WriteOut("repo", FALSE, todo, r, "keep") /\ UNCHANGED failed
    <3>1. Plan["repo"] \in Plans
      BY <1>0, PlanTypes
    <3>2. r \in Result /\ r.source \notin Clouds
      BY <1>0, <2>1, <3>1 DEF Result, Plans
    <3>3. todo \in Seq(Files)
      BY <3>1 DEF OneIfAny, Plans
    <3> HIDE DEF r, todo
    <3>4. Wins(r)
      BY <3>2, OthersWin
    <3> QED BY <1>0, <1>4, <2>4, <3>2, <3>3, <3>4, RankPublishes
  <2> QED BY <1>5, <2>2, <2>3, <2>4 DEF ExportRepo
<1>6. CASE ExportGateway
  <2>1. CASE Publish("gateway", Named("gateway", selected), "threw") /\ UNCHANGED failed
    BY <1>0, <1>3, <1>4, <2>1, RankPublishesPlan
  <2>2. CASE pc' = "threw"
    BY <2>2 DEF RankInv
  <2>3. CASE pc' = "done" /\ result' = Unresolved(selected.confidence)
    BY <1>0, <1>2, <2>3
  <2> QED BY <1>6, <2>1, <2>2, <2>3 DEF ExportGateway
<1>7. CASE ExportSns
  <2>1. Publish("sns", Named("sns", selected), "threw") /\ UNCHANGED failed
    BY <1>7 DEF ExportSns
  <2> QED BY <1>0, <1>3, <1>4, <2>1, RankPublishesPlan
<1>8. CASE Review
  <2> DEFINE r == [selected EXCEPT !.meta = Plan["review"].meta]
             todo == OneIfAny(Plan["review"].meta) \o Plan["review"].sidecars
  <2>1. selected.source \notin Clouds /\ UNCHANGED failed
    BY <1>8 DEF Review, Dispatch, Clouds
  <2>2. Plan["review"] \in Plans
    BY <1>0, PlanTypes
  <2>3. r \in Result /\ r.source \notin Clouds
    BY <1>0, <2>1, <2>2 DEF Result, Plans
  <2>4. todo \in Seq(Files)
    BY <2>2 DEF OneIfAny, Plans
  <2>5. \/ pc' = "done" /\ (result' = selected \/ result' = r)
        \/ WriteOut("review", FALSE, todo, r, "threw")
    BY <1>8 DEF Review, TypeOK
  <2> HIDE DEF r, todo
  <2>6. CASE pc' = "done" /\ (result' = selected \/ result' = r)
    BY <1>2, <2>1, <2>3, <2>6
  <2>7. CASE WriteOut("review", FALSE, todo, r, "threw")
    <3>1. Wins(r)
      BY <2>3, OthersWin
    <3> QED BY <1>0, <1>4, <2>1, <2>3, <2>4, <2>7, <3>1, RankPublishes
  <2> QED BY <2>5, <2>6, <2>7
<1> QED BY <1>5, <1>6, <1>7, <1>8

LEMMA WritingRanks ==
  ASSUME TypeOK, ArtifactInv, RankInv, WriteFile \/ WriteTree \/ WriteFails \/ WriteDone
  PROVE  RankInv'
<1> USE DEF Return, Throw, Proceed
<1>1. /\ pc = "write" /\ Wins(job.ok) /\ (job.otherwise = "export" => Contest({job.by}))
      /\ job.otherwise = "keep" => selected.source = "repo-spec"
      /\ job \in Job /\ Onwards /\ UNCHANGED <<queue, selected>>
  BY DEF WriteFile, WriteTree, WriteFails, WriteDone, RankInv, ArtifactInv, TypeOK, Onwards, snsVars
<1>2. CASE WriteFile \/ WriteTree
  <2>1. pc' = "write" /\ job'.ok = job.ok /\ job'.by = job.by /\ job'.otherwise = job.otherwise
    BY <1>1, <1>2 DEF WriteFile, WriteTree, Job
  <2>2. Wins(job.ok)'
    BY <1>1, <2>1, WinsOnwards DEF Wins
  <2>3. job'.otherwise = "export" => Contest({job.by})'
    <3>1. ASSUME job.otherwise = "export" PROVE Contest({job.by})'
      BY <1>1, <2>1, <3>1, ContestOnwards DEF Contest
    <3> QED BY <2>1, <3>1
  <2> QED BY <2>1, <2>2, <2>3 DEF RankInv
<1>3. CASE WriteFails
  <2>1. failed' = failed \cup {job.by} /\ job.otherwise \in Handlers
    BY <1>1, <1>3 DEF WriteFails, Job, Handlers
  <2>2. CASE job.otherwise = "keep"
    <3>1. pc' = "done" /\ result' = selected /\ result'.source \notin Clouds
      BY <1>1, <1>3, <2>2 DEF WriteFails, Clouds
    <3> QED BY <3>1 DEF RankInv, Wins
  <2>3. CASE job.otherwise \in {"threw", "gateway"}
    <3>1. pc' \in {"threw", "gateway"}
      BY <1>3, <2>3 DEF WriteFails
    <3> QED BY <3>1 DEF RankInv
  <2>4. CASE job.otherwise = "export"
    <3>1. pc' = "export"
      BY <1>3, <2>4 DEF WriteFails
    <3>2. Contest({})'
      BY <1>1, <2>1, <2>4, ContestOnwards
    <3> QED BY <3>1, <3>2 DEF RankInv
  <2> QED BY <2>1, <2>2, <2>3, <2>4 DEF Handlers
<1>4. CASE WriteDone
  <2>1. pc' = "done" /\ result' = job.ok
    BY <1>4 DEF WriteDone
  <2>2. Wins(result)'
    BY <1>1, <2>1, WinsOnwards DEF Wins
  <2> QED BY <2>1, <2>2 DEF RankInv
<1> QED BY <1>2, <1>3, <1>4

LEMMA RankInductive ==
  ASSUME TypeOK, ArtifactInv, RankInv, [Next]_vars
  PROVE  RankInv'
<1>1. CASE UNCHANGED vars
  BY <1>1 DEF vars, RankInv, Contest, Chosen, Wins, Fair, BestFirst,
              isResolvedGatewayCandidate, isResolvedSnsCandidate
<1>2. CASE SelectExplicit \/ VisitEntry \/ selectCatalogContract \/ selectInventoryContract
           \/ ResolveGateway \/ ProbeSns \/ TryTopic \/ SnsDone \/ collectProviderResolutionCandidates
  <2>1. /\ pc' \notin {"write", "export", "dispatch"}
        /\ pc' = "choose" => collectProviderResolutionCandidates
        /\ pc' = "done" => result' = Unresolved(0)
    BY <1>2, EarlySteps
  <2>2. pc' = "choose" => BestFirst(queue)' /\ ToSet(queue') = listed'
    BY <2>1, CollectRanks DEF BestFirst
  <2>3. pc' = "done" => Wins(result)'
    BY <2>1 DEF Wins, Unresolved
  <2> QED BY <2>1, <2>2, <2>3 DEF RankInv
<1> QED BY <1>1, <1>2, ChoosingRanks, DispatchingRanks, WritingRanks DEF Next

\* No better source is passed over: a provider candidate of more confidence has failed, and neither a
\* gateway nor a topic of more confidence is ignored (chooseSource, shouldPreferProviderCandidate).
THEOREM BestSourceWins == Spec => []MostConfidentWins
<1>1. Init => RankInv
  BY DEF Init, RankInv
<1>2. RankInv => MostConfidentWins
  BY DEF RankInv, MostConfidentWins, Wins, Fair, Clouds, Succeeded, Done
<1> QED BY <1>1, <1>2, RankInductive, InitArtifact, ArtifactInductive, TypeCorrect, PTL DEF Spec
=============================================================================
