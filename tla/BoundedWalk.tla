---------------------------- MODULE BoundedWalk ----------------------------
(***************************************************************************)
(* The walks that look for files in a checked-out repository.  Each lists  *)
(* directories entry by entry, some in the order they come, and is bounded *)
(* in depth, entries, files and time; what happens at a bound differs:     *)
(*   "specs"      walkSpecCandidates       goes on beside what is too deep *)
(*   "scan"       findIaCFiles             follows links, stops, and is    *)
(*                                         silent about it                 *)
(*   "generated"  collectGeneratedArtifactFilesBounded                     *)
(*                                         stops, and nothing found counts *)
(*   "terraform"  collectTfPaths           takes a directory all or not at *)
(*                                         all                             *)
(***************************************************************************)
EXTENDS Integers, Sequences, FiniteSets, Reachability

CONSTANTS
  Paths,        \* the paths of the repositories
  Repos,        \* the repositories: see TreeOK
  WalkRoots,    \* [Walks -> Seq(Paths)]: where each walk starts
  Limits        \* [Walks -> [depth, entries, files : Nat]]

Walks == {"specs", "scan", "generated", "terraform"}

VARIABLES
  repo,         \* the repository
  walk,         \* the walk under way, or "none"
  rootsLeft,    \* where it still has to start
  trail,        \* the directories it is in, with the entries they still have
  entries,      \* the entries looked at
  counted,      \* the files counted, those seen twice twice
  found,        \* the files it returns
  cut,          \* a bound stopped it or kept it out of a directory
  refused,      \* a root is a symlink
  late          \* the time is up

walkVars == <<repo, walk, rootsLeft, trail, entries, counted, found, cut, refused, late>>

\* A "dirlink" lists the content of the directory it leads to.
PathKinds == {"dir", "file", "dirlink", "filelink", "gone"}

TreeOK(r) ==
  /\ r.kind \in [Paths -> PathKinds]
  /\ r.content \in [Paths -> SUBSET Paths]
  /\ r.closed \subseteq Paths                     \* directories that cannot be listed
  /\ r.skipped \in [Walks -> SUBSET Paths]        \* names a walk passes by
  /\ r.wanted \in [Walks -> SUBSET Paths]         \* names a walk looks for
  /\ r.order \in Seq(Paths) /\ \A p \in Paths : \E i \in 1 .. Len(r.order) : r.order[i] = p     \* lexical

ASSUME ReposAssumption == IsFiniteSet(Paths) /\ \A r \in Repos : TreeOK(r)
ASSUME WalkBoundsAssumption ==
  /\ WalkRoots \in [Walks -> Seq(Paths)]
  /\ Limits \in [Walks -> [depth : Nat, entries : Nat, files : Nat]]

-----------------------------------------------------------------------------
Timed     == walk \in {"specs", "scan"}
Follows   == walk = "scan"
Wholesale == walk = "terraform"
Sorted    == walk \in {"generated", "terraform"}

IsDir(p)  == repo.kind[p] = "dir" \/ (Follows /\ repo.kind[p] = "dirlink")
IsFile(p) == repo.kind[p] = "file" \/ (Follows /\ repo.kind[p] = "filelink")

Full ==
  \/ entries >= Limits[walk].entries
  \/ walk \in {"specs", "scan"} /\ counted >= Limits[walk].files
  \/ Timed /\ late

\* Every caller sees the bound and returns.
StopWalk ==
  /\ trail' = <<>> /\ rootsLeft' = <<>> /\ cut' = TRUE
  /\ UNCHANGED <<entries, counted, found>>

\* What is found is processed in lexical order.
FirstOf(S) == repo.order[CHOOSE i \in 1 .. Len(repo.order) :
                /\ repo.order[i] \in S
                /\ \A j \in 1 .. (i - 1) : repo.order[j] \notin S]

WalkInit ==
  /\ walk = "none" /\ rootsLeft = <<>> /\ trail = <<>> /\ entries = 0 /\ counted = 0 /\ found = {}
  /\ cut = FALSE /\ refused = FALSE /\ late = FALSE

\* What a walk is asked to do; the clock of a walk that has one starts anew.
BeginWalk(kind) ==
  /\ walk' = kind /\ rootsLeft' = WalkRoots[kind] /\ trail' = <<>>
  /\ entries' = 0 /\ counted' = 0 /\ found' = {}
  /\ cut' = FALSE /\ refused' = FALSE /\ late' = FALSE
  /\ UNCHANGED repo

\* Mutant: a directory that is too deep is left out and nobody is told.
EnterShallow(d, depth, seen, below, roots) ==
  /\ trail' = (IF d \in repo.closed \/ depth > Limits[walk].depth THEN below
              ELSE Append(below, [left |-> repo.content[d], depth |-> depth]))
  /\ entries' = seen /\ rootsLeft' = roots /\ UNCHANGED cut

\* The head of each walk function: `seen' entries were looked at, and `below' and `roots' are what
\* is left to do on return.
Enter(d, depth, seen, below, roots) ==
  LET listed == IF Wholesale /\ d \notin repo.closed THEN Cardinality(repo.content[d]) ELSE 0
      deep   == depth > Limits[walk].depth
      stop   == \/ seen >= Limits[walk].entries \/ seen + listed > Limits[walk].entries
                \/ Timed /\ late
                \/ deep /\ walk # "specs"
  IN  /\ cut' = (cut \/ stop \/ deep)
      /\ rootsLeft' = (IF stop THEN <<>> ELSE roots)
      /\ entries' = seen + listed
      /\ trail' = (IF stop THEN <<>> ELSE IF deep \/ d \in repo.closed THEN below
                  ELSE Append(below, [left |-> repo.content[d], depth |-> depth]))

\* The next root; the frameworks' output directories are walked on an account of their own each.
EnterRoot ==
  /\ walk # "none" /\ trail = <<>> /\ rootsLeft # <<>>
  /\ LET r    == Head(rootsLeft)
         seen == IF walk = "generated" THEN 0 ELSE entries
     IN  IF walk = "specs" /\ Full THEN StopWalk /\ UNCHANGED refused
         ELSE /\ refused' = (refused \/ (walk = "specs" /\ repo.kind[r] \in {"dirlink", "filelink"}))
              /\ found' = (IF walk = "specs" /\ repo.kind[r] = "file" /\ r \in repo.wanted[walk]
                           THEN found \cup {r} ELSE found)
              /\ IF IsDir(r) THEN Enter(r, 0, seen, <<>>, Tail(rootsLeft))
                 ELSE rootsLeft' = Tail(rootsLeft) /\ UNCHANGED <<trail, entries, cut>>
              /\ UNCHANGED counted
  /\ UNCHANGED <<repo, walk, late>>

\* One entry of the innermost directory.
Visit(e) ==
  /\ walk # "none" /\ trail # <<>> /\ e \in trail[Len(trail)].left
  /\ Sorted => e = FirstOf(trail[Len(trail)].left)
  /\ LET here  == trail[Len(trail)]
         below == [trail EXCEPT ![Len(trail)].left = @ \ {e}]
         seen  == IF Wholesale THEN entries ELSE entries + 1
     IN  IF Full /\ ~Wholesale THEN StopWalk
         ELSE IF e \notin repo.skipped[walk] /\ IsDir(e)
         THEN Enter(e, here.depth + 1, seen, below, rootsLeft) /\ UNCHANGED <<counted, found>>
         ELSE /\ trail' = below /\ entries' = seen
              /\ IF e \notin repo.skipped[walk] /\ IsFile(e) /\ e \in repo.wanted[walk]
                 THEN found' = found \cup {e} /\ counted' = counted + 1
                 ELSE UNCHANGED <<found, counted>>
              /\ UNCHANGED <<rootsLeft, cut>>
  /\ UNCHANGED <<repo, walk, refused, late>>

LeaveDir ==
  /\ walk # "none" /\ trail # <<>> /\ trail[Len(trail)].left = {}
  /\ trail' = SubSeq(trail, 1, Len(trail) - 1)
  /\ UNCHANGED <<repo, walk, rootsLeft, entries, counted, found, cut, refused, late>>

TimeIsUp ==
  /\ Timed /\ ~late /\ late' = TRUE
  /\ UNCHANGED <<repo, walk, rootsLeft, trail, entries, counted, found, cut, refused>>

WalkStep == EnterRoot \/ (\E e \in Paths : Visit(e)) \/ LeaveDir \/ TimeIsUp

WalkDone == trail = <<>> /\ rootsLeft = <<>>

\* The walk is over; its findings stay until the next one begins.
EndWalk == walk' = "none" /\ UNCHANGED <<repo, rootsLeft, trail, entries, counted, found, cut, refused, late>>

-----------------------------------------------------------------------------
WalkTypeOK ==
  /\ repo \in Repos /\ walk \in Walks \cup {"none"}
  /\ rootsLeft \in Seq(Paths)
  /\ trail \in Seq([left : SUBSET Paths, depth : Nat])
  /\ entries \in Nat /\ counted \in Nat /\ found \subseteq Paths
  /\ cut \in BOOLEAN /\ refused \in BOOLEAN /\ late \in BOOLEAN

\* What a walk lists of each path; only the scan follows links.
Leads(kind) ==
  [p \in Paths |->
     IF p \notin repo.closed /\ (repo.kind[p] = "dir" \/ (kind = "scan" /\ repo.kind[p] = "dirlink"))
     THEN repo.content[p] \ repo.skipped[kind] ELSE {}]

RootsOf(kind) == {WalkRoots[kind][i] : i \in 1 .. Len(WalkRoots[kind])}
Seen(kind)    == Reached(RootsOf(kind), Leads(kind))

\* The files a walk of the whole tree returns; a root can be one of them in the walk for contracts.
Listed(kind) ==
  {f \in (IF kind = "specs" THEN Seen(kind) ELSE UNION {Leads(kind)[d] : d \in Seen(kind)}) :
     /\ f \in repo.wanted[kind]
     /\ repo.kind[f] = "file" \/ (kind = "scan" /\ repo.kind[f] = "filelink")}
=============================================================================
