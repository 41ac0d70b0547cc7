--------------------------- MODULE RepoInventory ---------------------------
(***************************************************************************)
(* inventoryRepoSpecs: the contracts a repository holds.  The names are    *)
(* collected by a bounded walk, Smithy projects are resolved, the other    *)
(* files are read within a budget, GraphQL files are joined per service    *)
(* and the documents of static infrastructure code are added.              *)
(***************************************************************************)
EXTENDS BoundedWalk, SmithyClosure

CONSTANTS MaxFileBytes, MaxCumulativeBytes,   \* of the inventory; the former of the latter too
          MaxIacFiles, MaxIacBytes            \* of resolveStaticIacCandidates

VARIABLES
  invStep,      \* "idle", "paths", "projects", "files", "iac", "done"
  builds,       \* smithy-build.json files still to resolve
  building,     \* the one being resolved
  left,         \* files still to read
  truncated,    \* budget.truncated
  charged,      \* budget.cumulativeBytes
  hidden,       \* smithyMemberPaths
  sdl,          \* graphqlFiles
  candidates,   \* raw, as [path, members]
  invErrors,    \* errors, as codes
  iacLeft,      \* sources of static infrastructure code still to resolve
  iacPaths,     \* files of the current one still to read
  iacRead,      \* files read
  iacBytes,     \* their size
  iacCodes      \* errors of the resolution

invVars == <<invStep, builds, building, left, truncated, charged, hidden, sdl, candidates, invErrors,
             iacLeft, iacPaths, iacRead, iacBytes, iacCodes>>

Sources == <<"cloudformation", "cdk", "terraform", "serverless">>

InventoryRepoOK(r) ==
  /\ r.direct \subseteq Paths                      \* DIRECT_SPEC_CANDIDATES that are regular files
  /\ r.shape \in [Paths -> {"config", "graphql", "single", "none"}]   \* detectRepoSpec
  /\ r.preferred \subseteq Paths                   \* schema.graphql and schema.gql
  /\ r.size \in [Paths -> Nat] /\ r.broken \subseteq Paths
  /\ \A c \in Paths : r.shape[c] = "config" => r.project[c] \in Projects
  /\ r.iac \in [{"cloudformation", "cdk", "serverless"} -> SUBSET Paths]
  /\ r.scope \subseteq Paths                       \* what lies under the service root that is asked for
  /\ r.escaping \subseteq Paths                    \* they lead out of the repository
  /\ r.authored \subseteq Paths                    \* static code that bears a document of its own

ASSUME InventoryAssumption == \A r \in Repos : InventoryRepoOK(r)
ASSUME InventoryBoundsAssumption ==
  MaxFileBytes \in Nat /\ MaxCumulativeBytes \in Nat /\ MaxIacFiles \in Nat /\ MaxIacBytes \in Nat

Candidate(path, members) == [path |-> path, members |-> members]

-----------------------------------------------------------------------------
InventoryInit ==
  /\ invStep = "idle" /\ builds = {} /\ building = {} /\ left = {}
  /\ truncated = FALSE /\ charged = 0 /\ hidden = {} /\ sdl = {} /\ candidates = {} /\ invErrors = {}
  /\ iacLeft = <<>> /\ iacPaths = {} /\ iacRead = {} /\ iacBytes = 0 /\ iacCodes = {}

StartInventory ==
  /\ invStep = "idle" /\ invStep' = "paths"
  /\ BeginWalk("specs")
  /\ UNCHANGED <<builds, building, left, truncated, charged, hidden, sdl, candidates, invErrors,
                 iacLeft, iacPaths, iacRead, iacBytes, iacCodes>>

\* collectSpecCandidatePaths is done.
TakePaths ==
  /\ invStep = "paths" /\ WalkDone
  /\ LET all == (found \cup repo.direct) \cap repo.scope IN
     /\ builds' = {p \in all : repo.shape[p] = "config"}
     /\ left'   = {p \in all : repo.shape[p] # "config"}
  /\ truncated' = cut /\ invErrors' = (IF refused THEN {"path-escape"} ELSE {})
  /\ invStep' = "projects"
  /\ UNCHANGED <<building, charged, hidden, sdl, candidates, iacLeft, iacPaths, iacRead, iacBytes, iacCodes>>
  /\ UNCHANGED <<walkVars, smithyVars>>

NextProject ==
  /\ invStep = "projects" /\ building = {} /\ builds # {}
  /\ building' = {FirstOf(builds)} /\ builds' = builds \ building'
  /\ StartProject(repo.project[FirstOf(builds)])
  /\ UNCHANGED <<invStep, left, truncated, charged, hidden, sdl, candidates, invErrors,
                 iacLeft, iacPaths, iacRead, iacBytes, iacCodes>>
  /\ UNCHANGED walkVars

\* Mutant: a project with errors is put back.
TakeProjectAgain ==
  /\ invStep = "projects" /\ building # {} /\ smithyStep = "done"
  /\ candidates' = candidates \cup (IF Usable THEN {Candidate(c, models) : c \in building} ELSE {})
  /\ builds' = (IF problems = {} THEN builds ELSE builds \cup building)
  /\ building' = {} /\ smithyStep' = "idle"
  /\ UNCHANGED <<project, frames, models, problems, walked, entriesSeen, filesRead, modelBytes>>
  /\ UNCHANGED <<invStep, left, truncated, charged, hidden, sdl, invErrors, iacLeft, iacPaths, iacRead, iacBytes, iacCodes>>
  /\ UNCHANGED walkVars

\* What a broken project had already collected is not offered file by file either.
TakeProject ==
  /\ invStep = "projects" /\ building # {} /\ smithyStep = "done"
  /\ invErrors' = invErrors \cup problems
  /\ hidden' = hidden \cup models
  /\ candidates' = candidates \cup (IF Usable THEN {Candidate(c, models) : c \in building} ELSE {})
  /\ building' = {} /\ smithyStep' = "idle"
  /\ UNCHANGED <<project, frames, models, problems, walked, entriesSeen, filesRead, modelBytes>>
  /\ UNCHANGED <<invStep, builds, left, truncated, charged, sdl, iacLeft, iacPaths, iacRead, iacBytes, iacCodes>>
  /\ UNCHANGED walkVars

ProjectsDone ==
  /\ invStep = "projects" /\ building = {} /\ builds = {}
  /\ invStep' = "files" /\ left' = left \ hidden
  /\ UNCHANGED <<builds, building, truncated, charged, hidden, sdl, candidates, invErrors,
                 iacLeft, iacPaths, iacRead, iacBytes, iacCodes>>
  /\ UNCHANGED <<walkVars, smithyVars>>

\* readBoundedFile; a time limit or the size of all files together truncates, what is wrong with one
\* file is an error of that file.
NextFile ==
  /\ invStep = "files" /\ left # {}
  /\ LET p == FirstOf(left)
         unfit == p \in repo.broken \/ repo.size[p] > MaxFileBytes
         full  == charged + repo.size[p] > MaxCumulativeBytes
         read  == ~late /\ ~unfit /\ ~full
     IN  /\ left' = left \ {p}
         /\ truncated' = (truncated \/ late \/ (~unfit /\ full))
         /\ invErrors' = invErrors \cup (IF late \/ read THEN {}
                                         ELSE IF unfit THEN {"unreadable"} ELSE {"bounds-exceeded"})
         /\ charged' = (IF read THEN charged + repo.size[p] ELSE charged)
         /\ sdl' = (IF read /\ repo.shape[p] = "graphql" THEN sdl \cup {p} ELSE sdl)
         /\ candidates' = (IF read /\ repo.shape[p] = "single"
                           THEN candidates \cup {Candidate(p, {p})} ELSE candidates)
  /\ UNCHANGED <<invStep, builds, building, hidden, iacLeft, iacPaths, iacRead, iacBytes, iacCodes>>
  /\ UNCHANGED <<walkVars, smithyVars>>

\* groupGraphqlByServiceRoot: one candidate per service, at its schema file or its first member.
Groups ==
  {LET group == {f \in sdl : repo.service[f] = s} IN
   Candidate(IF group \cap repo.preferred # {} THEN FirstOf(group \cap repo.preferred)
             ELSE FirstOf(group), group) : s \in {repo.service[f] : f \in sdl}}

GroupGraphql ==
  /\ invStep = "files" /\ left = {}
  /\ candidates' = candidates \cup Groups
  /\ invStep' = "iac" /\ iacLeft' = Sources
  /\ EndWalk
  /\ UNCHANGED <<builds, building, left, truncated, charged, hidden, sdl, invErrors,
                 iacPaths, iacRead, iacBytes, iacCodes>>
  /\ UNCHANGED smithyVars

\* The next source: Terraform files are found by a walk, the others at known places.
NextSource ==
  /\ invStep = "iac" /\ walk = "none" /\ iacPaths = {} /\ iacLeft # <<>>
  /\ iacLeft' = Tail(iacLeft)
  /\ IF Head(iacLeft) = "terraform"
     THEN BeginWalk("terraform") /\ UNCHANGED iacPaths
     ELSE iacPaths' = repo.iac[Head(iacLeft)] /\ UNCHANGED walkVars
  /\ UNCHANGED <<invStep, builds, building, left, truncated, charged, hidden, sdl, candidates, invErrors,
                 iacRead, iacBytes, iacCodes>>
  /\ UNCHANGED smithyVars

TakeTerraform ==
  /\ invStep = "iac" /\ walk = "terraform" /\ WalkDone
  /\ iacPaths' = found
  /\ iacCodes' = iacCodes \cup (IF cut THEN {"bounds-exceeded"} ELSE {})
  /\ EndWalk
  /\ UNCHANGED <<invStep, builds, building, left, truncated, charged, hidden, sdl, candidates, invErrors,
                 iacLeft, iacRead, iacBytes>>
  /\ UNCHANGED smithyVars

\* readIacFile; all sources share one account.
IacProblem(p) ==
  CASE Cardinality(iacRead) >= MaxIacFiles -> {"bounds-exceeded"}
    [] OTHER -> IF p \in repo.escaping THEN {"path-escape"}
                ELSE IF p \in repo.broken THEN {"unreadable"}
                ELSE IF repo.size[p] > MaxFileBytes \/ iacBytes + repo.size[p] > MaxIacBytes
                THEN {"bounds-exceeded"} ELSE {}

NextIacFile ==
  /\ invStep = "iac" /\ walk = "none" /\ iacPaths # {}
  /\ LET p == FirstOf(iacPaths) IN
     /\ iacPaths' = iacPaths \ {p}
     /\ IF IacProblem(p) # {}
        THEN iacCodes' = iacCodes \cup IacProblem(p) /\ UNCHANGED <<iacRead, iacBytes>>
        ELSE /\ iacRead' = iacRead \cup {p} /\ iacBytes' = iacBytes + repo.size[p]
             /\ UNCHANGED iacCodes
  /\ UNCHANGED <<invStep, builds, building, left, truncated, charged, hidden, sdl, candidates, invErrors, iacLeft>>
  /\ UNCHANGED <<walkVars, smithyVars>>

Finish(added, codes) ==
  /\ candidates' = candidates \cup added
  /\ invErrors' = invErrors \cup codes \cup (IF truncated THEN {"bounds-exceeded"} ELSE {})
  /\ invStep' = "done"
  /\ UNCHANGED <<builds, building, left, truncated, charged, hidden, sdl, iacLeft, iacPaths, iacRead, iacBytes, iacCodes>>
  /\ UNCHANGED <<walkVars, smithyVars>>

\* Only authored documents are added, none over a candidate of the same path.
MergeStaticIac ==
  /\ invStep = "iac" /\ walk = "none" /\ iacPaths = {} /\ iacLeft = <<>>
  /\ Finish({Candidate(p, {p}) : p \in {q \in iacRead \cap repo.authored \cap repo.scope :
                                          \A c \in candidates : c.path # q}},
            iacCodes \cap {"bounds-exceeded", "path-escape"})

\* Static infrastructure code must not break the inventory: what it throws is dropped.
StaticIacThrows ==
  /\ invStep = "iac" /\ walk = "none" /\ iacPaths # {}
  /\ Finish({}, {})

InventoryStep ==
  \/ TakePaths
  \/ NextProject \/ TakeProject \/ ProjectsDone
  \/ NextFile \/ GroupGraphql
  \/ NextSource \/ TakeTerraform \/ NextIacFile
  \/ MergeStaticIac \/ StaticIacThrows
  \/ SmithyNext /\ UNCHANGED <<walkVars, invVars>>
  \/ WalkStep /\ UNCHANGED <<smithyVars, invVars>>

-----------------------------------------------------------------------------
InventoryTypeOK ==
  /\ invStep \in {"idle", "paths", "projects", "files", "iac", "done"}
  /\ builds \subseteq Paths /\ building \subseteq Paths /\ left \subseteq Paths
  /\ truncated \in BOOLEAN /\ charged \in Nat /\ hidden \subseteq Nodes /\ sdl \subseteq Paths
  /\ candidates \subseteq [path : Paths, members : SUBSET (Paths \cup Nodes)]
  /\ invErrors \subseteq Codes /\ iacLeft \in Seq({"cloudformation", "cdk", "terraform", "serverless"})
  /\ iacPaths \subseteq Paths /\ iacRead \subseteq Paths /\ iacBytes \in Nat /\ iacCodes \subseteq Codes

\* The files of the service root: those a walk of all of it lists, and the well-known ones.
Named     == (Listed("specs") \cup repo.direct) \cap repo.scope
Of(shape) == {p \in Named : repo.shape[p] = shape}

\* The models of a project, and those of all projects, which are not offered file by file.
ModelsOf(c) == ModelsIn(repo.project[c])
Modelled    == UNION {ModelsOf(c) : c \in Of("config")}

\* The contracts that the repository holds, each as the set of its files.
Graphql == Of("graphql") \ Modelled
Singles == Of("single") \ Modelled
Whole   == {ModelsOf(c) : c \in {d \in Of("config") : ModelsOf(d) # {}}}
             \cup {{q \in Graphql : repo.service[q] = repo.service[p]} : p \in Graphql}
             \cup {{p} : p \in Singles}

Held == {c.members : c \in candidates}

\* Static infrastructure code that bears a document of its own and can be read.
InCode(s) == IF s = "terraform" THEN Listed("terraform") ELSE repo.iac[s]
Static    == {p \in (repo.authored \cap repo.scope) \ repo.broken :
                \E s \in {"cloudformation", "cdk", "terraform", "serverless"} : p \in InCode(s)}

(* Contracts are held or reported: an inventory that reports no error holds every contract that the *)
(* directories it can open list, in whatever order they list them and whenever the time runs out:   *)
(* each Smithy project whole, of the other files the GraphQL files of a service together, the rest  *)
(* one by one.  What it holds beside them are readable documents of static infrastructure code:     *)
(* all of them, or, when their resolution threw, none.  A directory that cannot be opened, a        *)
(* resolution that throws and a piece of code that cannot be read are no errors, so without one     *)
(* nothing is known about them (inventoryRepoSpecs, walkSpecCandidates, readBoundedFile,            *)
(* resolveSmithyProject, groupGraphqlByServiceRoot, resolveInventoryStaticIac).                     *)
ContractsHeldOrReported ==
  invStep = "done" /\ invErrors = {} =>
    /\ Whole \subseteq Held /\ Held \ Whole \subseteq {{p} : p \in Static}
    /\ Held \subseteq Whole \/ \A p \in Static : \E c \in candidates : c.path = p
=============================================================================
