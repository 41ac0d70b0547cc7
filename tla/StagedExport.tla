--------------------------- MODULE StagedExport ---------------------------
(***************************************************************************)
(* stageDefinitionExportTree (src/lib/spec/definition-file-inventory.ts):  *)
(* a complete service directory is replaced through a private sibling      *)
(* directory, two renames and a verification.  One action per call whose   *)
(* failure, or whose interleaving with a crash or with another export of   *)
(* the same directory, the code can observe.                               *)
(*                                                                         *)
(* A directory is NoDir or a function from every file name to its body.    *)
(* Recursive removal is not atomic: it unlinks one file at a time.  Every  *)
(* run draws a random runId, so its stage and backup are its own and are   *)
(* absent when it starts.  The local hadCanonical is not kept: it is TRUE  *)
(* exactly when the run has made its backup.                               *)
(***************************************************************************)
EXTENDS FiniteSets

CONSTANTS
  Runs,          \* executions that export this service directory, ever
  Files,         \* file names relative to the service directory
  Known,         \* names isPreservedNonDefinitionSidecar recognises
  Bodies,        \* file contents, told apart by their sha256
  Requests,      \* what a run may be asked to write
  InitialTrees,  \* what the directory may hold before the first run
  FaultSites,    \* kinds of system call that may fail in this instance
  NoDir, NoFile, Torn, NoRun

Content   == Bodies \cup {NoFile, Torn}
Tree      == [Files -> Content]
Dir       == Tree \cup {NoDir}
EmptyTree == [f \in Files |-> NoFile]
Request   == [members : SUBSET Files, sidecars : SUBSET Known, body : Bodies]
Unasked   == [members |-> {}, sidecars |-> {}, body |-> NoFile]

\* Every definition file of d comes from one and the same export.
OneExport(d) ==
  d = NoDir \/ \E b \in Bodies : \A f \in Files \ Known : d[f] \in {NoFile, b}

ASSUME StagedExportAssumption ==
  /\ Known \subseteq Files
  /\ Bodies # {} /\ NoFile \notin Bodies /\ Torn \notin Bodies /\ NoFile # Torn
  /\ NoDir \notin Tree /\ NoRun \notin Runs
  /\ Requests \subseteq Request /\ \A q \in Requests : q.members # {}
  /\ InitialTrees \subseteq Dir /\ \A t \in InitialTrees : OneExport(t)
  /\ FaultSites \subseteq {"write", "torn", "list", "read", "rename", "remove", "probe", "crash"}

VARIABLES
  canonical,   \* the service directory
  stage,       \* stage[r]: <dir>.stage-<runId>
  backup,      \* backup[r]: <dir>.backup-<runId>
  pc,          \* pc[r]: the call run r makes next
  req,         \* req[r]: members and sidecars r was asked to write
  todo,        \* todo[r]: files the current loop of r has still to visit
  \* history
  before,      \* before[r]: the directory when r started
  latest,      \* the run that started last
  overlapped   \* runs that were active together with another one

disk    == <<canonical, stage, backup>>
history == <<before, latest, overlapped>>
vars    == <<canonical, stage, backup, pc, req, todo, before, latest, overlapped>>

Staging    == {"prepare", "write", "sidecar", "list", "copy", "probe", "swapOut"}
Restoring  == {"restoreProbe", "restoreRemove", "restoreRename"}
Committed  == {"verify", "dropBackup", "dropStage"}
Cleaning   == {"cleanStage", "cleanProbe", "cleanRename", "cleanDrop"}
Active     == Staging \cup {"swapIn"} \cup Restoring \cup Committed \cup Cleaning
Ended      == {"done", "failed", "crashed"}

TypeOK ==
  /\ canonical \in Dir /\ stage \in [Runs -> Dir] /\ backup \in [Runs -> Dir]
  /\ pc   \in [Runs -> {"idle"} \cup Active \cup Ended]
  /\ req  \in [Runs -> Request \cup {Unasked}]
  /\ todo \in [Runs -> SUBSET Files]
  /\ before \in [Runs -> Dir] /\ latest \in Runs \cup {NoRun} /\ overlapped \subseteq Runs

Init ==
  /\ canonical \in InitialTrees
  /\ stage = [r \in Runs |-> NoDir] /\ backup = [r \in Runs |-> NoDir]
  /\ pc   = [r \in Runs |-> "idle"]
  /\ req  = [r \in Runs |-> Unasked]
  /\ todo = [r \in Runs |-> {}]
  /\ before = [r \in Runs |-> NoDir] /\ latest = NoRun /\ overlapped = {}

-----------------------------------------------------------------------------
At(r, l)         == pc[r] = l
Goto(r, l)       == pc' = [pc EXCEPT ![r] = l]
Visit(r, f)      == todo' = [todo EXCEPT ![r] = @ \ {f}]
Step(r, from, to) == At(r, from) /\ Goto(r, to)

\* rm(dir, {recursive, force}): one unlink, or the final rmdir.
Shrunk(t) ==
  IF t = EmptyTree THEN {NoDir}
  ELSE {[t EXCEPT ![f] = NoFile] : f \in {g \in Files : t[g] # NoFile}}

\* rename(2) moves a directory over nothing or over an empty directory only.
CanLand(d) == d \in {NoDir, EmptyTree}

\* pathExists: a failing stat reads as "absent".
Probes(d) == {d # NoDir} \cup (IF "probe" \in FaultSites THEN {FALSE} ELSE {})

\* What a write, or a copy, that does not reject may leave on disk.
Written(b) == {b} \cup (IF "torn" \in FaultSites THEN {Torn} ELSE {})

\* Mutant: every file of the prior tree is carried over, stale definitions too.
PreservedStale(prior, q) ==
  IF prior = NoDir THEN {}
  ELSE {f \in Files \ (q.members \cup q.sidecars) : prior[f] # NoFile}

\* Sidecars of the prior tree to carry over: known ones that are not written afresh.
Preserved(prior, q) ==
  IF prior = NoDir THEN {}
  ELSE {f \in Known \ (q.members \cup q.sidecars) : prior[f] # NoFile}

\* The trees an export of q over the prior tree may install.  Members are read back, so they are as
\* asked; sidecars are not, and those of the prior tree are all left behind when it cannot be listed.
Exports(q, prior) ==
  LET kept == Preserved(prior, q) IN
  {t \in Tree :
     /\ \A f \in q.members : t[f] = q.body
     /\ \A f \in q.sidecars : t[f] \in Written(q.body)
     /\ \/ \A f \in kept : t[f] \in Written(prior[f])
        \/ "list" \in FaultSites /\ \A f \in kept : t[f] = NoFile
     /\ \A f \in Files \ (q.members \cup q.sidecars \cup kept) : t[f] = NoFile}

-----------------------------------------------------------------------------
(* Staging.                                                                *)
Start(r) ==
  /\ Step(r, "idle", "prepare")
  /\ \E q \in Requests : req' = [req EXCEPT ![r] = q]
  /\ before' = [before EXCEPT ![r] = canonical] /\ latest' = r
  /\ LET rivals == {o \in Runs : pc[o] \in Active}
     IN  overlapped' = overlapped \cup (IF rivals = {} THEN {} ELSE rivals \cup {r})
  /\ UNCHANGED <<disk, todo>>

\* The symlink assertion, rm and mkdir of the stage: all outside the try block.
Prepare(r) ==
  /\ Step(r, "prepare", "write")
  /\ stage' = [stage EXCEPT ![r] = EmptyTree]
  /\ todo' = [todo EXCEPT ![r] = req[r].members]
  /\ UNCHANGED <<canonical, backup, req, history>>

\* Mutant: the read-back comparison is dropped.
WriteMemberUnchecked(r) ==
  /\ At(r, "write")
  /\ \E f \in todo[r], b \in Written(req[r].body) :
       stage' = [stage EXCEPT ![r][f] = b] /\ Visit(r, f)
  /\ UNCHANGED <<canonical, backup, pc, req, history>>

\* One turn of the member loop: write, fsync, read back; other bytes than the
\* ones written make it throw.
WriteMember(r) ==
  /\ At(r, "write")
  /\ \E f \in todo[r], b \in Written(req[r].body) :
       /\ stage' = [stage EXCEPT ![r][f] = b]
       /\ IF b = req[r].body THEN Visit(r, f) /\ UNCHANGED pc
          ELSE Goto(r, "cleanStage") /\ UNCHANGED todo
  /\ UNCHANGED <<canonical, backup, req, history>>

\* One turn of the sidecar loop: write and fsync, but no reading back; a sidecar
\* named like a member throws.
WriteSidecar(r) ==
  /\ At(r, "sidecar")
  /\ \E f \in todo[r], b \in Written(req[r].body) :
       IF f \in req[r].members
       THEN Goto(r, "cleanStage") /\ UNCHANGED <<stage, todo>>
       ELSE /\ stage' = [stage EXCEPT ![r][f] = b]
            /\ Visit(r, f) /\ UNCHANGED pc
  /\ UNCHANGED <<canonical, backup, req, history>>

\* What the copy loop works from.  The sidecars to keep lie in the directory itself: a readdir of it
\* that rejects lists none of them, and nobody is told.
Listings(prior, q) == {Preserved(prior, q)} \cup (IF "list" \in FaultSites THEN {{}} ELSE {})

\* Mutant: the sidecars of the prior tree are copied over those written afresh.
ListAlsoFresh(r) ==
  /\ Step(r, "list", "copy")
  /\ \E seen \in Probes(canonical), names \in Listings(canonical, [req[r] EXCEPT !.sidecars = {}]) :
       todo' = [todo EXCEPT ![r] = IF seen THEN names ELSE {}]
  /\ UNCHANGED <<disk, req, history>>

\* pathExists(canonical), then listFilesRecursive of it.
ListPrior(r) ==
  /\ Step(r, "list", "copy")
  /\ \E seen \in Probes(canonical), names \in Listings(canonical, req[r]) :
       todo' = [todo EXCEPT ![r] = IF seen THEN names ELSE {}]
  /\ UNCHANGED <<disk, req, history>>

\* copyFile and fsync of a listed file, unread; it throws when the file has gone meanwhile.
CopyPrior(r) ==
  /\ At(r, "copy")
  /\ \E f \in todo[r] :
       IF canonical # NoDir /\ canonical[f] # NoFile
       THEN /\ \E b \in Written(canonical[f]) : stage' = [stage EXCEPT ![r][f] = b]
            /\ Visit(r, f) /\ UNCHANGED pc
       ELSE Goto(r, "cleanStage") /\ UNCHANGED <<stage, todo>>
  /\ UNCHANGED <<canonical, backup, req, history>>

\* A loop has visited all its files.
LoopDone(r) ==
  /\ todo[r] = {}
  /\ \/ /\ Step(r, "write", "sidecar")
        /\ todo' = [todo EXCEPT ![r] = req[r].sidecars]
     \/ Step(r, "sidecar", "list") /\ UNCHANGED todo
     \/ Step(r, "copy", "probe") /\ UNCHANGED todo
     \/ Step(r, "verify", "dropBackup") /\ UNCHANGED todo
  /\ UNCHANGED <<disk, req, history>>

-----------------------------------------------------------------------------
(* Swap and verification.                                                  *)
\* hadCanonical = pathExists(canonical).
ProbeCanonical(r) ==
  /\ At(r, "probe")
  /\ \E had \in Probes(canonical) : Goto(r, IF had THEN "swapOut" ELSE "swapIn")
  /\ UNCHANGED <<disk, req, todo, history>>

\* Mutant: the prior tree is removed instead of being moved to the backup.
SwapOutByRemoval(r) ==
  /\ Step(r, "swapOut", "swapIn") /\ canonical' = NoDir
  /\ UNCHANGED <<stage, backup, req, todo, history>>

SwapOut(r) ==
  /\ At(r, "swapOut")
  /\ IF canonical # NoDir
     THEN /\ backup' = [backup EXCEPT ![r] = canonical]
          /\ canonical' = NoDir /\ Goto(r, "swapIn")
     ELSE Goto(r, "cleanStage") /\ UNCHANGED <<canonical, backup>>
  /\ UNCHANGED <<stage, req, todo, history>>

SwapIn(r) ==
  /\ At(r, "swapIn")
  /\ IF CanLand(canonical)
     THEN /\ canonical' = stage[r] /\ stage' = [stage EXCEPT ![r] = NoDir]
          /\ todo' = [todo EXCEPT ![r] = req[r].members] /\ Goto(r, "verify")
     ELSE Goto(r, "restoreProbe") /\ UNCHANGED <<canonical, stage, todo>>
  /\ UNCHANGED <<backup, req, history>>

\* Mutant: the loop never advances past a file that verifies.
VerifyStuck(r) ==
  /\ At(r, "verify")
  /\ \E f \in todo[r] :
       IF canonical # NoDir /\ canonical[f] = req[r].body THEN UNCHANGED pc
       ELSE Goto(r, "restoreProbe")
  /\ UNCHANGED <<disk, req, todo, history>>

\* One turn of the verification loop: an unreadable member rejects, other bytes
\* start the restoration.
Verify(r) ==
  /\ At(r, "verify")
  /\ \E f \in todo[r] :
       CASE canonical = NoDir -> Goto(r, "cleanStage") /\ UNCHANGED todo
         [] canonical # NoDir /\ canonical[f] = NoFile -> Goto(r, "cleanStage") /\ UNCHANGED todo
         [] canonical # NoDir /\ canonical[f] = req[r].body -> Visit(r, f) /\ UNCHANGED pc
         [] OTHER -> Goto(r, "restoreProbe") /\ UNCHANGED todo
  /\ UNCHANGED <<disk, req, history>>

\* Restoration, after a failed swap or a failed comparison, on the way to the
\* outer catch.
RestoreProbe(r) ==
  /\ At(r, "restoreProbe")
  /\ \E found \in Probes(backup[r]) :
       Goto(r, IF found THEN "restoreRemove" ELSE "cleanStage")
  /\ UNCHANGED <<disk, req, todo, history>>

RestoreRemove(r) ==
  /\ At(r, "restoreRemove")
  /\ IF canonical = NoDir THEN Goto(r, "restoreRename") /\ UNCHANGED canonical
     ELSE canonical' \in Shrunk(canonical) /\ UNCHANGED pc
  /\ UNCHANGED <<stage, backup, req, todo, history>>

RenameBack(r, to) ==
  /\ IF CanLand(canonical)
     THEN canonical' = backup[r] /\ backup' = [backup EXCEPT ![r] = NoDir]
     ELSE UNCHANGED <<canonical, backup>>
  /\ Goto(r, to)
  /\ UNCHANGED <<stage, req, todo, history>>

RestoreRename(r) == At(r, "restoreRename") /\ RenameBack(r, "cleanStage")

\* rm of one of the run's own directories, d, on the way from l to next.
Drop(r, l, d, next) ==
  /\ At(r, l)
  /\ IF d[r] = NoDir THEN Goto(r, next) /\ UNCHANGED d
     ELSE /\ \E t \in Shrunk(d[r]) : d' = [d EXCEPT ![r] = t]
          /\ UNCHANGED pc
  /\ UNCHANGED <<canonical, req, todo, history>>

DropBackup(r) == Drop(r, "dropBackup", backup, "dropStage") /\ UNCHANGED stage
DropStage(r)  == Drop(r, "dropStage", stage, "done") /\ UNCHANGED backup

-----------------------------------------------------------------------------
(* The outer catch block; it ends by rethrowing.                           *)
CleanStage(r) == Drop(r, "cleanStage", stage, "cleanProbe") /\ UNCHANGED backup

\* Mutant: the backup is dropped without asking whether it is still needed.
CleanAlwaysDrops(r) ==
  /\ Step(r, "cleanProbe", "cleanDrop")
  /\ UNCHANGED <<disk, req, todo, history>>

CleanProbe(r) ==
  /\ At(r, "cleanProbe")
  /\ \E saved \in Probes(backup[r]), present \in Probes(canonical) :
       Goto(r, IF saved /\ ~present THEN "cleanRename" ELSE "cleanDrop")
  /\ UNCHANGED <<disk, req, todo, history>>

CleanRename(r) == At(r, "cleanRename") /\ RenameBack(r, "failed")
CleanDrop(r)   == Drop(r, "cleanDrop", backup, "failed") /\ UNCHANGED stage

-----------------------------------------------------------------------------
(* The environment.                                                        *)
\* The system calls that can reject at each label; what fails at "list" and the probes is swallowed.
CallsAt(l) ==
  CASE l \in {"prepare", "write", "sidecar", "copy"} -> {"write"}
    [] l = "verify" -> {"read"}
    [] l \in {"swapOut", "swapIn", "restoreRename", "cleanRename"} -> {"rename"}
    [] l \in {"restoreRemove", "dropBackup", "dropStage", "cleanStage", "cleanDrop"} -> {"remove"}
    [] OTHER -> {}

\* Mutant: a rejection inside the verification reaches no handler.
CallFailsUnhandled(r) ==
  /\ CallsAt(pc[r]) \cap FaultSites # {} /\ Goto(r, "rejected")
  /\ UNCHANGED <<disk, req, todo, history>>

\* The awaited call rejects: control moves to the enclosing handler.
CallFails(r) ==
  /\ CallsAt(pc[r]) \cap FaultSites # {}
  /\ Goto(r, CASE pc[r] = "swapIn" -> "restoreProbe"
               [] pc[r] \in {"prepare"} \cup Cleaning -> "failed"
               [] OTHER -> "cleanStage")
  /\ UNCHANGED <<disk, req, todo, history>>

\* The process is killed (a cancelled job, a lost runner).
Crash(r) ==
  /\ "crash" \in FaultSites /\ pc[r] \in Active /\ Goto(r, "crashed")
  /\ UNCHANGED <<disk, req, todo, history>>

Progress(r) ==
  \/ Prepare(r) \/ WriteMember(r) \/ WriteSidecar(r) \/ ListPrior(r) \/ CopyPrior(r)
  \/ LoopDone(r) \/ ProbeCanonical(r) \/ SwapOut(r) \/ SwapIn(r) \/ Verify(r)
  \/ RestoreProbe(r) \/ RestoreRemove(r) \/ RestoreRename(r)
  \/ DropBackup(r) \/ DropStage(r)
  \/ CleanStage(r) \/ CleanProbe(r) \/ CleanRename(r) \/ CleanDrop(r)

Next == \E r \in Runs : Start(r) \/ Progress(r) \/ CallFails(r) \/ Crash(r)

Spec == Init /\ [][Next]_vars

\* One export at a time, as in one job of one workflow.  Every awaited call
\* settles; nothing obliges a run to start.
SoloNext == \E r \in Runs :
  \/ Start(r) /\ \A o \in Runs : pc[o] \notin Active
  \/ Progress(r) \/ CallFails(r) \/ Crash(r)

SoloSpec == Init /\ [][SoloNext]_vars /\ \A r \in Runs : WF_vars(Progress(r))

-----------------------------------------------------------------------------
(* Properties.                                                             *)

\* The run that started last shared the directory with no other run.
Alone(r) == latest = r /\ r \notin overlapped

\* The directory is never mixed: whatever fails, crashes or runs concurrently,
\* its definition files are those of a single export, byte for byte.
NeverMixed == OneExport(canonical)

\* No failure or crash of a lone run costs a tree: at every instant the prior
\* tree is whole in place or whole in the backup, or a new one is in place with
\* all its members as asked.
TreeSurvives ==
  \A r \in Runs : Alone(r) =>
    \/ before[r] \in {canonical, backup[r]}
    \/ canonical \in Exports(req[r], before[r])

\* As long as the exporting run is alone, a reader of the directory sees nothing, the
\* prior tree or a new one: never some of the members, never those of one tree with a
\* stale definition of the other.  Of the sidecars it may miss the prior ones, or find
\* one torn, since the code neither reads them back nor reports a listing that failed.
CanonicalWhole ==
  \A r \in Runs : Alone(r) =>
    canonical \in {NoDir, before[r]} \cup Exports(req[r], before[r])

\* A lone run that reports success has replaced the tree: every member is as asked, no
\* definition is stale, a sidecar is the one written afresh, else the prior one, never
\* one for the other, and no stage or backup directory is left behind.  What a torn
\* write or a failed listing does to sidecars is all that may be wrong.
SuccessInstalls ==
  \A r \in Runs : Alone(r) /\ pc[r] = "done" =>
    /\ canonical \in Exports(req[r], before[r])
    /\ stage[r] = NoDir /\ backup[r] = NoDir

\* A run that has been called settles, whichever calls fail on the way.
EveryRunEnds == \A r \in Runs : pc[r] \in Active ~> pc[r] \in Ended

\* The tree a lone run answers for: in place, or in its backup until it has ended.
Visible == IF canonical = NoDir /\ latest # NoRun /\ pc[latest] \in Active
           THEN backup[latest] ELSE canonical

Phase(r) ==
  CASE pc[r] \in {"idle", "done", "failed"} -> pc[r]
    [] pc[r] = "crashed" -> "failed"
    [] \/ pc[r] \in Committed
       \/ pc[r] \in Cleaning /\ canonical \in Exports(req[r], before[r]) -> "installed"
    [] OTHER -> "open"

Atomic == INSTANCE AtomicExport WITH
  tree <- Visible, phase <- [r \in Runs |-> Phase(r)], asked <- req,
  Initial <- InitialTrees, Missing <- NoDir, Exports <- Exports

\* One export at a time: the two renames, the restorations and the clean-up
\* together are one atomic replacement, whatever call fails or crashes.
ReplacesAtomically == Atomic!Spec

\* "On staging failure, restores any prior tree" (the doc comment of the function).
FailureRestoresPrior ==
  \A r \in Runs : Alone(r) /\ pc[r] = "failed" /\ before[r] # NoDir => canonical = before[r]
=============================================================================
