----------------------------- MODULE DiscoverMany -----------------------------
(***************************************************************************)
(* discover-many: execute of src/runtime.ts with discoverRepoServiceGroups,*)
(* runDiscovery and runMultiProviderDiscovery, one action per awaited call *)
(* whose failure changes what is counted, written or reported.  Three      *)
(* phases write below one output directory: the groups of the repository,  *)
(* the gateways, the other providers.  The last two count folder names     *)
(* separately.                                                             *)
(*                                                                         *)
(* A path is a folder and a file name.  A file remembers who wrote it: a   *)
(* group of the repository or a service of the account.  No provider of    *)
(* this repository exports several files, so trees are left to Resolution. *)
(***************************************************************************)
EXTENDS Integers, FiniteSets, Subsequences

CONSTANTS
  Groups,         \* service groups of the repository
  Services,       \* candidates in the account
  Folders, Names, \* folder names; file names
  GroupOf,        \* GroupOf[g]: what the inventory says of group g
  Attr,           \* Attr[s]: what AWS says of candidate s
  Inventories,    \* the groups found, in the order of their roots
  Rest, Http,     \* the gateways, in listing order, after api-filter
  Extra,          \* the other providers, in registration order
  Listing,        \* Listing[p]: the candidates of provider p
  MaxCandidates,  \* max-candidates; 0 is no limit
  NoFolder, NoJob

Paths  == Folders \X Names
Phases == {"repo", "gateway", "provider"}

\* peers: candidates of the winning class and kind; a composed contract is
\* written to a path that differs from its source.
Group   == [peers : Nat \ {0}, source : Paths, path : Paths]
\* files: the native artifact first, then sidecars and derived document; base and
\* suffixed: projectFolderName of its name, and the same followed by its id.
Service == [phase : {"gateway", "provider"}, base : Folders, suffixed : Folders,
            files : Seq(Names) \ {<<>>}]

ASSUME DiscoverManyAssumption ==
  /\ Groups \cap Services = {} /\ NoFolder \notin Folders
  /\ GroupOf \in [Groups -> Group] /\ Attr \in [Services -> Service]
  /\ \A s, t \in Services :
       Attr[s].base = Attr[t].base => /\ Attr[s].suffixed # Attr[t].base
                                      /\ s # t => Attr[s].suffixed # Attr[t].suffixed
  /\ Inventories \subseteq Seq(Groups) /\ Rest \in Seq(Services) /\ Http \in Seq(Services)
  /\ Extra \in Seq(DOMAIN Listing) /\ \A p \in DOMAIN Listing : Listing[p] \in Seq(Services)
  /\ MaxCandidates \in Nat
  \* Groups and candidates are listed once: a group has a root of its own, a candidate an id.
  /\ \A s \in Inventories \cup {Rest \o Http, Extra} \cup {Listing[p] : p \in DOMAIN Listing} : IsInjective(s)
  /\ \A p, q \in DOMAIN Listing : p # q => ToSet(Listing[p]) \cap ToSet(Listing[q]) = {}
  /\ \A s \in ToSet(Rest \o Http) : Attr[s].phase = "gateway"
  /\ \A p \in DOMAIN Listing : \A s \in ToSet(Listing[p]) : Attr[s].phase = "provider"
  /\ (Groups \cup Services) \cap DOMAIN Listing = {}
  /\ {"torn", "absent"} \cap (Groups \cup Services) = {}
  /\ NoJob \notin [by : Services, todo : Seq(Names)]

VARIABLES
  pc,
  dry,         \* dry-run
  groups,      \* groups still to visit
  queue,       \* candidates still to visit in the current loop
  providers,   \* providers still to list
  usage,       \* slugUsage of the current phase
  native,      \* nativePaths
  found,       \* found[ph]: discovered services of each phase
  sums,        \* sums[ph]: summary of each phase
  job,         \* the artifact being written
  disk,        \* disk[p]: who wrote path p
  reported,    \* discovered: what the run returns
  \* history
  folder,      \* folder[s]: the folder that s was given
  troubles,    \* candidates and providers that could not be listed, exported or written
  omitted      \* candidates cut off by max-candidates after the gateways

loops  == <<groups, queue, providers>>
ledger == <<found, sums, troubles, omitted>>
output == <<job, disk, folder, reported>>
vars   == <<pc, dry, groups, queue, providers, usage, native, found, sums, job, disk,
            reported, folder, troubles, omitted>>

Counts == [attempted : Nat, exported : Nat, failed : Nat, skipped : Nat]
None   == [attempted |-> 0, exported |-> 0, failed |-> 0, skipped |-> 0]

TypeOK ==
  /\ pc \in {"probe", "inventory", "repo", "list", "gateway", "listProvider", "provider",
             "write", "done", "threw"}
  /\ dry \in BOOLEAN
  /\ groups \in Seq(Groups) /\ queue \in Seq(Services) /\ providers \in Seq(DOMAIN Listing)
  /\ usage \in [Folders -> Nat] /\ native \subseteq Paths
  /\ found \in [Phases -> Seq(Groups \cup Services)] /\ sums \in [Phases -> Counts]
  /\ job \in [by : Services, todo : Seq(Names)] \cup {NoJob}
  /\ (job # NoJob) = (pc = "write")
  /\ disk \in [Paths -> Groups \cup Services \cup {"absent", "torn"}]
  /\ reported \in Seq(Groups \cup Services)
  /\ folder \in [Services -> Folders \cup {NoFolder}]
  /\ troubles \subseteq Groups \cup Services \cup DOMAIN Listing /\ omitted \in Nat

\* What the repository holds before the run.
Committed ==
  [p \in Paths |-> IF \E g \in Groups : GroupOf[g].source = p
                   THEN CHOOSE g \in Groups : GroupOf[g].source = p ELSE "absent"]

Init ==
  /\ pc = "probe" /\ dry \in BOOLEAN /\ groups = <<>>
  /\ queue = <<>> /\ providers = <<>> /\ native = {} /\ reported = <<>>
  /\ usage = [f \in Folders |-> 0] /\ job = NoJob
  /\ found = [ph \in Phases |-> <<>>] /\ sums = [ph \in Phases |-> None]
  /\ disk = Committed
  /\ folder = [s \in Services |-> NoFolder] /\ troubles = {} /\ omitted = 0

-----------------------------------------------------------------------------
Goto(l)         == pc' = l
Count(ph, what) == sums' = [sums EXCEPT ![ph][what] = @ + 1]
Blame(who)      == troubles' = troubles \cup {who}

Capped(s) == IF MaxCandidates > 0 /\ Len(s) > MaxCandidates THEN SubSeq(s, 1, MaxCandidates) ELSE s

\* The probes of the additional providers answer, or do not.
Probe ==
  /\ pc = "probe" /\ Goto("inventory")
  /\ \E S \in SUBSET ToSet(Extra) : providers' = Only(Extra, S)
  /\ UNCHANGED <<dry, groups, queue, usage, native, ledger, output>>

\* What rejects the whole call: the inventory, an output-dir outside the
\* repository, the collection of signals.
Rejects ==
  /\ pc \in {"inventory", "list"} \/ (pc = "gateway" /\ queue = <<>>)
  /\ Goto("threw")
  /\ UNCHANGED <<dry, loops, usage, native, ledger, output>>

-----------------------------------------------------------------------------
(* discoverRepoServiceGroups.                                              *)
Inventory ==
  /\ pc = "inventory" /\ Goto("repo") /\ groups' \in Inventories
  /\ UNCHANGED <<dry, queue, providers, usage, native, ledger, output>>

Attempt(outcome) == sums' = [sums EXCEPT !["repo"].attempted = @ + 1, !["repo"][outcome] = @ + 1]

GroupFrame == UNCHANGED <<pc, dry, queue, providers, usage, job, reported, folder, omitted>>

\* Several peers, or a contract another group has already claimed.
SkipGroup ==
  /\ pc = "repo" /\ groups # <<>> /\ groups' = Tail(groups)
  /\ LET g == Head(groups)
     IN  /\ GroupOf[g].peers # 1 \/ {GroupOf[g].source, GroupOf[g].path} \cap native # {}
         /\ Attempt("skipped")
  /\ UNCHANGED <<native, found, disk, troubles>> /\ GroupFrame

\* Both paths are claimed before a composed contract is written; the write may
\* fail and leave the file torn.
VisitGroup ==
  /\ pc = "repo" /\ groups # <<>> /\ groups' = Tail(groups)
  /\ LET g == Head(groups)
         paths == {GroupOf[g].source, GroupOf[g].path}
         writes == ~dry /\ GroupOf[g].path # GroupOf[g].source
     IN  /\ GroupOf[g].peers = 1 /\ paths \cap native = {}
         /\ native' = native \cup paths
         /\ \/ /\ disk' = IF writes THEN [disk EXCEPT ![GroupOf[g].path] = g] ELSE disk
               /\ found' = [found EXCEPT !["repo"] = Append(@, g)]
               /\ Attempt("exported") /\ UNCHANGED troubles
            \/ /\ writes /\ disk' \in {disk, [disk EXCEPT ![GroupOf[g].path] = "torn"]}
               /\ Attempt("failed") /\ Blame(g) /\ UNCHANGED found
  /\ GroupFrame

GroupsDone ==
  /\ pc = "repo" /\ groups = <<>> /\ Goto("list")
  /\ UNCHANGED <<dry, loops, usage, native, ledger, output>>

-----------------------------------------------------------------------------
(* runDiscovery.                                                           *)

\* Either list may be denied, which leaves it empty; the cap drops the rest.
ListGateways ==
  /\ pc = "list" /\ Goto("gateway")
  /\ \E rest \in {<<>>, Rest}, http \in {<<>>, Http} :
       /\ queue' = Capped(rest \o http)
       /\ sums' = [sums EXCEPT !["gateway"].attempted = Len(queue')]
  /\ UNCHANGED <<dry, groups, providers, usage, native, found, output, troubles, omitted>>

\* Mutant: every service gets the folder of its name.
AllocateBase(s) ==
  /\ usage' = [usage EXCEPT ![Attr[s].base] = @ + 1]
  /\ folder' = [folder EXCEPT ![s] = Attr[s].base]

\* The first service of a name gets its folder, the others one with their id.
Allocate(s) ==
  /\ usage' = [usage EXCEPT ![Attr[s].base] = @ + 1]
  /\ folder' = [folder EXCEPT ![s] = IF usage[Attr[s].base] = 0 THEN Attr[s].base ELSE Attr[s].suffixed]

Take(from) == pc = from /\ queue # <<>> /\ queue' = Tail(queue)
CandidateFrame == UNCHANGED <<dry, groups, providers, native, found, disk, reported, omitted>>

\* No stage, or a choice of stages nothing decides.
SkipGateway ==
  /\ Take("gateway") /\ Count("gateway", "skipped")
  /\ UNCHANGED <<pc, usage, job, folder, troubles>> /\ CandidateFrame

\* Mutant: the counter of the failing branch is forgotten.
CandidateFailsUncounted(ph) ==
  /\ Take(ph) /\ UNCHANGED sums /\ Blame(Head(queue))
  /\ UNCHANGED <<pc, usage, folder, job>> /\ CandidateFrame

\* The stages, the tags or the export cannot be read, or the definition is
\* incomplete.  A gateway has its folder before it is exported, another service
\* afterwards.
CandidateFails(ph) ==
  /\ Take(ph) /\ Count(ph, "failed") /\ Blame(Head(queue))
  /\ ph = "provider" => ~dry
  /\ \/ UNCHANGED <<usage, folder>>
     \/ ~dry /\ Allocate(Head(queue))
  /\ UNCHANGED <<pc, job>> /\ CandidateFrame

\* A dry run stops before the export.
DryRun(ph) ==
  /\ Take(ph) /\ dry /\ Count(ph, "skipped")
  /\ IF ph = "gateway" THEN Allocate(Head(queue)) ELSE UNCHANGED <<usage, folder>>
  /\ UNCHANGED <<pc, job, troubles>> /\ CandidateFrame

\* Mutant: the providers export before they ask for dry-run.
ExportsAnyway(ph) ==
  /\ Take(ph) /\ Allocate(Head(queue))
  /\ job' = [by |-> Head(queue), todo |-> Attr[Head(queue)].files] /\ Goto("write")
  /\ UNCHANGED <<sums, troubles>> /\ CandidateFrame

Exports(ph) ==
  /\ Take(ph) /\ ~dry /\ Allocate(Head(queue))
  /\ job' = [by |-> Head(queue), todo |-> Attr[Head(queue)].files] /\ Goto("write")
  /\ UNCHANGED <<sums, troubles>> /\ CandidateFrame

-----------------------------------------------------------------------------
(* writeResolvedArtifactWithDerivedOpenApi and what follows it.            *)
PathsOf(s) == {<<folder[s], n>> : n \in ToSet(Attr[s].files)}
SpecPath(x) == IF x \in Groups THEN GroupOf[x].path ELSE <<folder[x], Head(Attr[x].files)>>

WriteFrame == UNCHANGED <<dry, loops, usage, native, reported, folder, omitted>>

WriteFile ==
  /\ pc = "write" /\ job.todo # <<>>
  /\ disk' = [disk EXCEPT ![<<folder[job.by], Head(job.todo)>>] = job.by]
  /\ job' = [job EXCEPT !.todo = Tail(@)]
  /\ UNCHANGED <<pc, found, sums, troubles>> /\ WriteFrame

\* Mutant: the handler keeps the artifact it gave up.
WriteFailsHalfway ==
  /\ pc = "write" /\ job.todo # <<>>
  /\ disk' \in {disk, [disk EXCEPT ![<<folder[job.by], Head(job.todo)>>] = "torn"]}
  /\ Count(Attr[job.by].phase, "failed") /\ Blame(job.by)
  /\ Goto(Attr[job.by].phase) /\ UNCHANGED job
  /\ UNCHANGED found /\ WriteFrame

WriteFails ==
  /\ pc = "write" /\ job.todo # <<>>
  /\ disk' \in {disk, [disk EXCEPT ![<<folder[job.by], Head(job.todo)>>] = "torn"]}
  /\ Count(Attr[job.by].phase, "failed") /\ Blame(job.by)
  /\ Goto(Attr[job.by].phase) /\ job' = NoJob
  /\ UNCHANGED found /\ WriteFrame

WriteDone ==
  /\ pc = "write" /\ job.todo = <<>>
  /\ LET ph == Attr[job.by].phase
     IN  /\ Count(ph, "exported") /\ found' = [found EXCEPT ![ph] = Append(@, job.by)] /\ Goto(ph)
  /\ job' = NoJob
  /\ UNCHANGED <<disk, troubles>> /\ WriteFrame

GatewaysDone ==
  /\ pc = "gateway" /\ queue = <<>> /\ Goto("listProvider")
  /\ usage' = [f \in Folders |-> 0]
  /\ UNCHANGED <<dry, loops, native, ledger, output>>

-----------------------------------------------------------------------------
(* runMultiProviderDiscovery.                                              *)
ListProvider ==
  /\ pc = "listProvider" /\ providers # <<>> /\ Goto("provider")
  /\ LET all  == Listing[Head(providers)]
         kept == Capped(all)
     IN  /\ queue' = kept /\ omitted' = omitted + Len(all) - Len(kept)
         /\ sums' = [sums EXCEPT !["provider"].attempted = @ + Len(kept),
                                 !["provider"].skipped = @ + Len(all) - Len(kept)]
  /\ UNCHANGED <<dry, groups, providers, usage, native, found, output, troubles>>

\* A provider that cannot list counts as a failure of its own.
ListFails ==
  /\ pc = "listProvider" /\ providers # <<>> /\ providers' = Tail(providers)
  /\ Count("provider", "failed") /\ Blame(Head(providers))
  /\ UNCHANGED <<pc, dry, groups, queue, usage, native, found, output, omitted>>

ProviderDone ==
  /\ pc = "provider" /\ queue = <<>> /\ Goto("listProvider") /\ providers' = Tail(providers)
  /\ UNCHANGED <<dry, groups, queue, usage, native, ledger, output>>

\* Mutant: every service of the account is reported.
FinishUnfiltered ==
  /\ pc = "listProvider" /\ providers = <<>> /\ Goto("done")
  /\ reported' = found["repo"] \o found["gateway"] \o found["provider"]
  /\ UNCHANGED <<dry, loops, usage, native, ledger, job, disk, folder>>

\* AWS services at a path the repository claimed are not reported.
Finish ==
  /\ pc = "listProvider" /\ providers = <<>> /\ Goto("done")
  /\ reported' = found["repo"]
       \o Only(found["gateway"] \o found["provider"], {s \in Services : SpecPath(s) \notin native})
  /\ UNCHANGED <<dry, loops, usage, native, ledger, job, disk, folder>>

Next ==
  \/ Probe \/ Rejects \/ Inventory \/ SkipGroup \/ VisitGroup \/ GroupsDone
  \/ ListGateways \/ SkipGateway \/ GatewaysDone
  \/ ListProvider \/ ListFails \/ ProviderDone
  \/ \E ph \in {"gateway", "provider"} : CandidateFails(ph) \/ DryRun(ph) \/ Exports(ph)
  \/ WriteFile \/ WriteFails \/ WriteDone \/ Finish

Spec == Init /\ [][Next]_vars

-----------------------------------------------------------------------------
(* Outputs and properties.                                                *)
Sum(what) == sums["repo"][what] + sums["gateway"][what] + sums["provider"][what]
resolutionStatus == IF Sum("failed") > 0 THEN "unresolved" ELSE "resolved"

Done == pc = "done"

\* A dry run leaves the repository and the output directory as they were.
DryRunWritesNothing == dry => disk = Committed

\* Whatever fails in whatever phase, each group and each candidate is counted
\* once, each provider that cannot list is one failure, and the run is unresolved
\* exactly when something failed.
EveryoneIsCounted ==
  Done =>
    /\ Sum("attempted") + omitted + Cardinality(troubles \cap DOMAIN Listing)
         = Sum("exported") + Sum("failed") + Sum("skipped")
    /\ Sum("failed") = Cardinality(troubles)
    /\ resolutionStatus = "unresolved" <=> troubles # {}

\* Contracts of the repository come first, no two of them share a path, and no
\* service of the account is reported at the path of one.
RepoFirst ==
  Done =>
    \A i, j \in DOMAIN reported : i < j =>
      /\ reported[j] \in Groups => reported[i] \in Groups
      /\ reported[i] \in Groups => SpecPath(reported[i]) # SpecPath(reported[j])

\* A reported service loses a file only to a service of another phase in the same
\* folder, or to one whose own name is the other's name and id: two services of
\* one name and one phase never share a folder, whatever fails between them.
LostOnlyToNamesakes ==
  Done =>
    \A s \in ToSet(reported) \cap Services : \A p \in PathsOf(s) :
      \/ disk[p] = s
      \/ \E t \in Services \ {s} :
           /\ folder[t] = folder[s] /\ disk[p] \in {t, "torn"}
           /\ Attr[t].phase # Attr[s].phase \/ Attr[t].base # Attr[s].base

\* "Native artifacts are preserved as the primary output" (docs/providers.md).
NativeArtifactsPreserved ==
  Done /\ ~dry => \A x \in ToSet(reported) : disk[SpecPath(x)] = x
=============================================================================
