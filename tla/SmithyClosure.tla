--------------------------- MODULE SmithyClosure ---------------------------
(***************************************************************************)
(* resolveSmithyProject: the models a smithy-build.json names, directly,   *)
(* through directories and through further configurations, read within     *)
(* one budget of files, directory entries, bytes and depth.  A project     *)
(* with any error is not used.                                             *)
(***************************************************************************)
EXTENDS Integers, Sequences, Reachability

CONSTANTS
  Nodes,            \* the paths a configuration may name
  Projects,         \* the projects: see ProjectOK
  MaxSmithyFiles,   \* also the number of directory entries looked at
  MaxSmithyDepth, MaxSmithyBytes, MaxSmithyTotal

VARIABLES
  project,          \* the project being resolved
  smithyStep,       \* "idle", "root", "collect", "done"
  frames,           \* the configurations and directories being worked through
  models,           \* state.contents
  problems,         \* state.errors, as codes
  walked,           \* state.visitedDirs
  entriesSeen,      \* state.inspectedEntries
  filesRead,        \* state.filesRead
  modelBytes        \* state.cumulativeBytes

smithyVars == <<project, smithyStep, frames, models, problems, walked, entriesSeen, filesRead, modelBytes>>

\* "blank" is an entry that names nothing, "link" passes a symlink, "outside" leaves the repository.
NodeKinds == {"config", "model", "dir", "other", "missing", "special", "blank", "link", "outside"}

ProjectOK(p) ==
  /\ p.root \in Nodes /\ p.kind \in [Nodes -> NodeKinds] /\ p.kind[p.root] = "config"
  /\ p.plan \in [Nodes -> Seq(Nodes)]           \* sources, imports, imports of projections
  /\ p.content \in [Nodes -> SUBSET Nodes]      \* of directories
  /\ p.size \in [Nodes -> Nat]
  /\ p.closed \subseteq Nodes                   \* files and directories that cannot be opened
  /\ p.malformed \subseteq Nodes                \* configurations that cannot be used
  /\ p.projected \in BOOLEAN                    \* the root declares projections

ASSUME ProjectsAssumption == Projects # {} /\ \A p \in Projects : ProjectOK(p)
ASSUME SmithyBoundsAssumption ==
  /\ MaxSmithyFiles \in Nat /\ MaxSmithyDepth \in Nat
  /\ MaxSmithyBytes \in Nat /\ MaxSmithyTotal \in Nat

Fatal == {"bounds-exceeded", "cycle", "path-escape"}
Codes == Fatal \cup {"missing-import", "unreadable", "malformed-config"}

Halted  == problems \cap Fatal # {}
Current == frames[Len(frames)]

\* A configuration lists what it names in order, a directory as it comes.
ConfigFrame(c) == [node |-> c, depth |-> 0, plan |-> project.plan[c], left |-> {}]
DirFrame(d, n) == [node |-> d, depth |-> n, plan |-> <<>>,
                   left |-> IF d \in project.closed THEN {} ELSE project.content[d]]

TooMuch(f) == project.size[f] > MaxSmithyBytes \/ modelBytes + project.size[f] > MaxSmithyTotal

-----------------------------------------------------------------------------
SmithyInit ==
  /\ project = (CHOOSE p \in Projects : TRUE) /\ smithyStep = "idle"
  /\ frames = <<>> /\ models = {} /\ problems = {} /\ walked = {}
  /\ entriesSeen = 0 /\ filesRead = 0 /\ modelBytes = 0

\* Each project has a budget of its own.
StartProject(p) ==
  /\ smithyStep = "idle"
  /\ project' = p /\ smithyStep' = "root"
  /\ frames' = <<>> /\ models' = {} /\ problems' = {} /\ walked' = {}
  /\ entriesSeen' = 0 /\ filesRead' = 0 /\ modelBytes' = 0

\* readSmithyConfigFile: {} when the file was read.
ConfigProblem(c) ==
  IF filesRead >= MaxSmithyFiles \/ TooMuch(c) THEN {"bounds-exceeded"}
  ELSE IF c \in project.closed THEN {"unreadable"}
  ELSE {}

\* readSmithyModelFile and readBoundedSmithyModelBytes.
ModelProblem(f) ==
  IF filesRead < MaxSmithyFiles /\ f \in project.closed THEN {"unreadable"}
  ELSE IF filesRead >= MaxSmithyFiles \/ TooMuch(f) THEN {"bounds-exceeded"}
  ELSE {}

Report(codes) ==
  /\ problems' = problems \cup codes
  /\ UNCHANGED <<models, walked, filesRead, modelBytes>>

Charge(f) == filesRead' = filesRead + 1 /\ modelBytes' = modelBytes + project.size[f]

\* The root is read before anything else; without it there is no project.
ReadRoot ==
  /\ smithyStep = "root"
  /\ LET c == project.root IN
     IF ConfigProblem(c) # {} \/ c \in project.malformed
     THEN /\ problems' = (IF ConfigProblem(c) # {} THEN ConfigProblem(c) ELSE {"malformed-config"})
          /\ smithyStep' = "done"
          /\ UNCHANGED <<frames, filesRead, modelBytes>>
     ELSE /\ problems' = (IF project.plan[c] = <<>> /\ ~project.projected
                          THEN {"malformed-config"} ELSE {})
          /\ Charge(c) /\ frames' = <<ConfigFrame(c)>>
          /\ smithyStep' = "collect"
  /\ UNCHANGED <<project, models, walked, entriesSeen>>

\* readSmithyModelFile: a model is read once.
ReadModel(f) ==
  IF f \in models THEN Report({})
  ELSE IF ModelProblem(f) # {} THEN Report(ModelProblem(f))
  ELSE Charge(f) /\ models' = models \cup {f} /\ UNCHANGED <<problems, walked>>

\* walkSmithyDirectory: the frames below are what is left to do on return.
EnterDir(d, depth, seen, below) ==
  IF depth > MaxSmithyDepth \/ seen >= MaxSmithyFiles
  THEN Report({"bounds-exceeded"}) /\ frames' = below
  ELSE IF d \in walked THEN Report({}) /\ frames' = below
  ELSE /\ walked' = walked \cup {d}
       /\ frames' = Append(below, DirFrame(d, depth))
       /\ UNCHANGED <<problems, models, filesRead, modelBytes>>

\* collectNestedSmithyBuild.
EnterConfig(c, below) ==
  IF ConfigProblem(c) # {} THEN Report(ConfigProblem(c)) /\ frames' = below
  ELSE /\ Charge(c)
       /\ IF c \in project.malformed
          THEN problems' = problems \cup {"malformed-config"} /\ frames' = below
          ELSE problems' = problems /\ frames' = Append(below, ConfigFrame(c))
       /\ UNCHANGED <<models, walked>>

EntryProblem(e) ==
  CASE project.kind[e] = "blank"               -> {"malformed-config"}
    [] project.kind[e] \in {"outside", "link"} -> {"path-escape"}
    [] project.kind[e] = "missing"             -> {"missing-import"}
    [] project.kind[e] = "special"             -> {"unreadable"}
    [] project.kind[e] \in {"config", "dir", "model", "other"} ->
         IF \E i \in 1 .. Len(frames) : frames[i].node = e THEN {"cycle"} ELSE {}

\* collectPathEntry: the next entry of the configuration on top.
CollectEntry ==
  /\ smithyStep = "collect" /\ ~Halted /\ frames # <<>> /\ Current.plan # <<>>
  /\ LET e     == Head(Current.plan)
         below == [frames EXCEPT ![Len(frames)].plan = Tail(@)]
     IN  IF EntryProblem(e) # {} THEN Report(EntryProblem(e)) /\ frames' = below
         ELSE CASE project.kind[e] = "config" -> EnterConfig(e, below)
                [] project.kind[e] = "dir"    -> EnterDir(e, 0, entriesSeen, below)
                [] project.kind[e] = "model"  -> ReadModel(e) /\ frames' = below
                [] project.kind[e] = "other"  -> Report({}) /\ frames' = below
  /\ UNCHANGED <<project, smithyStep, entriesSeen>>

\* The next entry of the directory on top; configurations found this way are not followed.
WalkEntry(e) ==
  /\ smithyStep = "collect" /\ ~Halted /\ frames # <<>> /\ e \in Current.left
  /\ LET below == [frames EXCEPT ![Len(frames)].left = @ \ {e}] IN
     IF entriesSeen >= MaxSmithyFiles
     THEN Report({"bounds-exceeded"}) /\ frames' = below /\ UNCHANGED entriesSeen
     ELSE /\ entriesSeen' = entriesSeen + 1
          /\ IF filesRead >= MaxSmithyFiles THEN Report({"bounds-exceeded"}) /\ frames' = below
             ELSE CASE project.kind[e] = "dir"   -> EnterDir(e, Current.depth + 1, entriesSeen', below)
                    [] project.kind[e] = "model" -> ReadModel(e) /\ frames' = below
                    [] OTHER                     -> Report({}) /\ frames' = below
  /\ UNCHANGED <<project, smithyStep>>

LeaveFrame ==
  /\ smithyStep = "collect" /\ ~Halted /\ frames # <<>>
  /\ Current.plan = <<>> /\ Current.left = {}
  /\ frames' = SubSeq(frames, 1, Len(frames) - 1)
  /\ UNCHANGED <<project, smithyStep, models, problems, walked, entriesSeen, filesRead, modelBytes>>

\* After an error of the fatal kind every caller returns at once.
ProjectEnds ==
  /\ smithyStep = "collect" /\ (Halted \/ frames = <<>>)
  /\ smithyStep' = "done" /\ frames' = <<>>
  /\ UNCHANGED <<project, models, problems, walked, entriesSeen, filesRead, modelBytes>>

SmithyNext ==
  \/ ReadRoot \/ CollectEntry
  \/ \E e \in Nodes : WalkEntry(e)
  \/ LeaveFrame \/ ProjectEnds

\* discoverRepoSpecs: only a project without errors that has a model is a candidate.
Usable == smithyStep = "done" /\ problems = {} /\ models # {}

-----------------------------------------------------------------------------
SmithyTypeOK ==
  /\ project \in Projects /\ smithyStep \in {"idle", "root", "collect", "done"}
  /\ frames \in Seq([node : Nodes, depth : Nat, plan : Seq(Nodes), left : SUBSET Nodes])
  /\ models \subseteq Nodes /\ problems \subseteq Codes /\ walked \subseteq Nodes
  /\ entriesSeen \in Nat /\ filesRead \in Nat /\ modelBytes \in Nat

\* What a project takes from each path.
Refers(p) ==
  [n \in Nodes |-> IF p.kind[n] = "config" THEN {p.plan[n][i] : i \in 1 .. Len(p.plan[n])}
                   ELSE IF p.kind[n] = "dir" /\ n \notin p.closed
                   THEN {e \in p.content[n] : p.kind[e] \in {"dir", "model"}} ELSE {}]

\* All the models of a project.
ModelsIn(p) == {n \in Reached({p.root}, Refers(p)) : p.kind[n] = "model"}
=============================================================================
