------------------------ MODULE StagedExportProofs ------------------------
(* Theorems about StagedExport for all values of its constants.            *)
EXTENDS StagedExport, TLAPS

-----------------------------------------------------------------------------
(* The inductive invariants behind the safety properties.                  *)

Holding == {"write", "sidecar", "list", "copy", "probe", "swapOut", "swapIn"}

\* Any number of runs: the stage of a run holds definition files of its own
\* export only, and what a backup holds came from the directory.
MixInv ==
  \A r \in Runs :
    /\ pc[r] # "idle" => req[r] \in Requests
    /\ pc[r] = "sidecar" => todo[r] \subseteq req[r].sidecars
    /\ pc[r] = "copy" => todo[r] \subseteq Known
    /\ pc[r] \in Holding =>
         /\ stage[r] \in Tree
         /\ \A f \in Files \ Known : stage[r][f] \in {NoFile, req[r].body}
    /\ OneExport(backup[r])

\* t is what the stage of an export of q over prior may hold once its loops have visited the files of
\* done: read-back members are exact, the rest is as written or copied.
Partial(t, q, prior, done) ==
  /\ t \in Tree
  /\ \A f \in done \cap q.members : t[f] = q.body
  /\ \A f \in done \cap q.sidecars : t[f] \in Written(q.body)
  /\ \A f \in done \cap Preserved(prior, q) : t[f] \in Written(prior[f])
  /\ \A f \in Files \ (done \cap (q.members \cup q.sidecars \cup Preserved(prior, q))) : t[f] = NoFile

\* Which files the loops of r have visited, label by label.  A listing that failed leaves the copy
\* loop nothing to visit.
LoopsOf(r) ==
  LET holds(done) == Partial(stage[r], req[r], before[r], done)
      asked == req[r].members \cup req[r].sidecars
  IN  /\ pc[r] = "write" => todo[r] \subseteq req[r].members /\ holds(req[r].members \ todo[r])
      /\ pc[r] = "sidecar" => holds(req[r].members \cup (req[r].sidecars \ todo[r]))
      /\ pc[r] = "list" => holds(asked)
      /\ pc[r] = "copy" =>
           \/ todo[r] \subseteq Preserved(before[r], req[r]) /\ holds(Files \ todo[r])
           \/ "list" \in FaultSites /\ todo[r] = {} /\ holds(asked)
      /\ pc[r] \in {"probe", "swapOut", "swapIn"} => stage[r] \in Exports(req[r], before[r])
      /\ pc[r] = "verify" => todo[r] \subseteq req[r].members
      /\ pc[r] \in Committed \cup {"done"} => stage[r] = NoDir

\* Where the prior and the new tree of r are, label by label.
TreesOf(r) ==
  LET untouched == canonical = before[r] /\ backup[r] = NoDir
      displaced == canonical = NoDir /\ backup[r] = before[r]
      installed == canonical \in Exports(req[r], before[r])
  IN  /\ pc[r] \in Staging => untouched
      /\ pc[r] \in Restoring \cup {"swapIn", "cleanRename"} => displaced
      /\ pc[r] \in Committed \cup {"done"} => installed
      /\ pc[r] \in {"dropStage", "done"} => backup[r] = NoDir
      /\ pc[r] = "cleanDrop" => installed \/ untouched
      /\ installed \/ untouched \/ displaced

\* A run that shares the directory with no other is where its label says.
LoneInv ==
  \A r \in Runs :
    /\ pc[r] = "idle" => stage[r] = NoDir /\ backup[r] = NoDir /\ latest # r
    /\ Alone(r) => /\ \A o \in Runs \ {r} : pc[o] \notin Active
                   /\ LoopsOf(r) /\ TreesOf(r)

Inv == TypeOK /\ NeverMixed /\ MixInv /\ LoneInv
-----------------------------------------------------------------------------
USE StagedExportAssumption

\* What building and removing a directory file by file keeps true.
LEMMA EmptyIsTree == EmptyTree \in Tree
  BY DEF EmptyTree, Tree, Content

\* Writing one file of a tree gives a tree.
LEMMA PutIsTree ==
  ASSUME NEW t \in Tree, NEW f \in Files, NEW b \in Content
  PROVE  [t EXCEPT ![f] = b] \in Tree
  BY DEF Tree

\* One unlink of a recursive removal leaves a tree or nothing.
LEMMA ShrunkIsDir == ASSUME NEW t \in Tree PROVE Shrunk(t) \subseteq Dir
  BY DEF Shrunk, Tree, Content, Dir

\* One unlink mixes no exports.
LEMMA ShrunkIsOneExport ==
  ASSUME NEW t \in Tree, OneExport(t), NEW u \in Shrunk(t)
  PROVE  OneExport(u)
  BY DEF Shrunk, OneExport, Tree

\* Bodies of requests and what a torn write leaves are contents.
LEMMA BodiesAreContent ==
  /\ \A q \in Requests : q.members \subseteq Files /\ q.sidecars \subseteq Known /\ q.body \in Bodies
  /\ \A b \in Content : Written(b) \subseteq Content
  /\ Bodies \subseteq Content
  BY DEF Request, Written, Content

\* One file written into the stage of r.
LEMMA PutInStage ==
  ASSUME TypeOK, NEW r \in Runs, NEW f \in Files, NEW b \in Content, stage[r] \in Tree,
         stage' = [stage EXCEPT ![r][f] = b]
  PROVE  /\ stage' \in [Runs -> Dir] /\ stage'[r] \in Tree
         /\ stage'[r] = [stage[r] EXCEPT ![f] = b]
         /\ stage'[r][f] = b
         /\ \A g \in Files \ {f} : stage'[r][g] = stage[r][g]
         /\ \A o \in Runs \ {r} : stage'[o] = stage[o]
<1>1. [stage[r] EXCEPT ![f] = b] \in Tree
  BY PutIsTree
<1>2. stage'[r] = [stage[r] EXCEPT ![f] = b] /\ \A o \in Runs \ {r} : stage'[o] = stage[o]
  BY DEF TypeOK
<1>3. stage' \in [Runs -> Dir]
  BY <1>1 DEF TypeOK, Dir
<1>4. QED
  BY <1>1, <1>2, <1>3 DEF Tree

\* Every variable keeps its type through every interleaving, failure and crash.
LEMMA TypeStep == TypeOK /\ MixInv /\ [Next]_vars => TypeOK'
<1> SUFFICES ASSUME TypeOK, MixInv, [Next]_vars PROVE TypeOK'
  OBVIOUS
<1> USE DEF TypeOK, Step, At, Goto, Visit, disk, history
<1>0. CASE UNCHANGED vars
  BY <1>0 DEF vars
<1> SUFFICES ASSUME NEW r \in Runs,
                    Start(r) \/ Progress(r) \/ CallFails(r) \/ Crash(r)
             PROVE TypeOK'
  BY <1>0 DEF Next
<1>1. CASE Start(r)
  BY <1>1 DEF Start, Active, Staging
<1>2. CASE Prepare(r)
  BY <1>2, EmptyIsTree DEF Prepare, Active, Staging, Request, Unasked, Dir
<1>3. CASE WriteMember(r)
  <2>1. stage[r] \in Tree /\ req[r] \in Requests /\ Written(req[r].body) \subseteq Content
    BY <1>3, BodiesAreContent DEF WriteMember, MixInv, Holding
  <2>2. stage' \in [Runs -> Dir]
    BY <1>3, <2>1, PutInStage DEF WriteMember
  <2>3. QED
    BY <1>3, <2>2 DEF WriteMember, Active, Cleaning
<1>4. CASE WriteSidecar(r)
  <2>1. stage[r] \in Tree /\ req[r] \in Requests /\ Written(req[r].body) \subseteq Content
    BY <1>4, BodiesAreContent DEF WriteSidecar, MixInv, Holding
  <2>2. stage' \in [Runs -> Dir]
    BY <1>4, <2>1, PutInStage DEF WriteSidecar
  <2>3. QED
    BY <1>4, <2>2 DEF WriteSidecar, Active, Cleaning
<1>5. CASE ListPrior(r)
  BY <1>5 DEF ListPrior, Listings, Preserved, Active, Staging
<1>6. CASE CopyPrior(r)
  <2>1. stage[r] \in Tree
    BY <1>6 DEF CopyPrior, MixInv, Holding
  <2>2. \A f \in todo[r] : canonical # NoDir => Written(canonical[f]) \subseteq Content
    BY BodiesAreContent DEF Dir, Tree
  <2>3. stage' \in [Runs -> Dir]
    BY <1>6, <2>1, <2>2, PutInStage DEF CopyPrior
  <2>4. QED
    BY <1>6, <2>3 DEF CopyPrior, Active, Cleaning
<1>7. CASE LoopDone(r)
  BY <1>7 DEF LoopDone, Active, Staging, Committed, Request, Unasked
<1>8. CASE ProbeCanonical(r)
  BY <1>8 DEF ProbeCanonical, Active, Staging
<1>9. CASE SwapOut(r)
  BY <1>9 DEF SwapOut, Active, Cleaning, Dir
<1>10. CASE SwapIn(r)
  BY <1>10 DEF SwapIn, Active, Committed, Restoring, Dir, Request, Unasked
<1>11. CASE Verify(r)
  BY <1>11 DEF Verify, Active, Cleaning, Restoring
<1>12. CASE RestoreProbe(r)
  BY <1>12 DEF RestoreProbe, Active, Cleaning, Restoring
<1>13. CASE RestoreRemove(r)
  BY <1>13, ShrunkIsDir DEF RestoreRemove, Active, Restoring, Dir
<1>14. CASE RestoreRename(r)
  BY <1>14 DEF RestoreRename, RenameBack, Active, Cleaning, Dir
<1>15. CASE DropBackup(r)
  BY <1>15, ShrunkIsDir DEF DropBackup, Drop, Active, Committed, Dir
<1>16. CASE DropStage(r)
  BY <1>16, ShrunkIsDir DEF DropStage, Drop, Ended, Dir
<1>17. CASE CleanStage(r)
  BY <1>17, ShrunkIsDir DEF CleanStage, Drop, Active, Cleaning, Dir
<1>18. CASE CleanProbe(r)
  BY <1>18 DEF CleanProbe, Active, Cleaning
<1>19. CASE CleanRename(r)
  BY <1>19 DEF CleanRename, RenameBack, Ended, Dir
<1>20. CASE CleanDrop(r)
  BY <1>20, ShrunkIsDir DEF CleanDrop, Drop, Ended, Dir
<1>21. CASE CallFails(r)
  BY <1>21 DEF CallFails, Active, Cleaning, Restoring, Ended
<1>22. CASE Crash(r)
  BY <1>22 DEF Crash, Ended
<1>23. QED
  BY <1>1, <1>2, <1>3, <1>4, <1>5, <1>6, <1>7, <1>8, <1>9, <1>10, <1>11, <1>12,
     <1>13, <1>14, <1>15, <1>16, <1>17, <1>18, <1>19, <1>20, <1>21, <1>22
  DEF Progress

\* No stage, backup or directory ever holds definition files of two exports.
LEMMA MixStep == TypeOK /\ MixInv /\ NeverMixed /\ [Next]_vars => MixInv' /\ NeverMixed'
<1> SUFFICES ASSUME TypeOK, MixInv, NeverMixed, [Next]_vars PROVE MixInv' /\ NeverMixed'
  OBVIOUS
<1> USE DEF TypeOK, MixInv, NeverMixed, Step, At, Goto, Visit, disk, history, Holding
<1>0. CASE UNCHANGED vars
  BY <1>0 DEF vars, OneExport
<1> SUFFICES ASSUME NEW r \in Runs,
                    Start(r) \/ Progress(r) \/ CallFails(r) \/ Crash(r)
             PROVE MixInv' /\ NeverMixed'
  BY <1>0 DEF Next
<1>1. CASE Start(r)
  BY <1>1 DEF Start, OneExport
<1>2. CASE Prepare(r)
  BY <1>2, EmptyIsTree DEF Prepare, OneExport, EmptyTree
<1>3. CASE WriteMember(r)
  <2>1. stage[r] \in Tree /\ req[r] \in Requests /\ req[r].body \in Content
    BY <1>3, BodiesAreContent DEF WriteMember, Content
  <2>2. PICK f \in todo[r], b \in Written(req[r].body) :
          /\ stage' = [stage EXCEPT ![r][f] = b]
          /\ IF b = req[r].body THEN Visit(r, f) /\ UNCHANGED pc
             ELSE Goto(r, "cleanStage") /\ UNCHANGED todo
    BY <1>3 DEF WriteMember
  <2>3. CASE b = req[r].body
    <3>0. b \in Content /\ stage' = [stage EXCEPT ![r][f] = b] /\ f \in Files
      BY <2>1, <2>2, <2>3
    <3>1. /\ stage'[r] \in Tree /\ stage'[r][f] = b
          /\ \A g \in Files \ {f} : stage'[r][g] = stage[r][g]
          /\ \A o \in Runs \ {r} : stage'[o] = stage[o]
      <4>1. [stage[r] EXCEPT ![f] = b] \in Tree
        BY <2>1, <3>0, PutIsTree
      <4>2. stage'[r] = [stage[r] EXCEPT ![f] = b] /\ \A o \in Runs \ {r} : stage'[o] = stage[o]
        BY <3>0
      <4>3. QED
        BY <2>1, <3>0, <4>1, <4>2 DEF Tree
    <3>2. QED
      BY <1>3, <2>2, <2>3, <3>1 DEF WriteMember, OneExport
  <2>4. CASE b # req[r].body
    <3>1. \A o \in Runs \ {r} : stage'[o] = stage[o]
      BY <2>2
    <3>2. QED
      BY <1>3, <2>2, <2>4, <3>1 DEF WriteMember, OneExport
  <2>5. QED
    BY <2>3, <2>4
<1>4. CASE WriteSidecar(r)
  <2>1. stage[r] \in Tree /\ req[r] \in Requests /\ Written(req[r].body) \subseteq Content
        /\ todo[r] \subseteq Known
    BY <1>4, BodiesAreContent DEF WriteSidecar
  <2>2. PICK f \in todo[r], b \in Written(req[r].body) :
          IF f \in req[r].members
          THEN Goto(r, "cleanStage") /\ UNCHANGED <<stage, todo>>
          ELSE /\ stage' = [stage EXCEPT ![r][f] = b]
               /\ Visit(r, f) /\ UNCHANGED pc
    BY <1>4 DEF WriteSidecar
  <2>3. CASE f \in req[r].members
    BY <1>4, <2>2, <2>3 DEF WriteSidecar, OneExport
  <2>4. CASE f \notin req[r].members
    <3>1. /\ stage'[r] \in Tree /\ stage'[r][f] = b
          /\ \A g \in Files \ {f} : stage'[r][g] = stage[r][g]
          /\ \A o \in Runs \ {r} : stage'[o] = stage[o]
      BY <2>1, <2>2, <2>4, PutInStage
    <3>2. \A g \in Files \ Known : stage'[r][g] = stage[r][g]
      BY <2>1, <2>2, <3>1
    <3>3. /\ pc[r] = "sidecar" /\ todo' = [todo EXCEPT ![r] = @ \ {f}]
          /\ UNCHANGED <<canonical, backup, pc, req, history>>
      BY <1>4, <2>2, <2>4 DEF WriteSidecar
    <3>4. QED
      BY <3>1, <3>2, <3>3 DEF OneExport
  <2>5. QED
    BY <2>3, <2>4
<1>5. CASE ListPrior(r)
  BY <1>5 DEF ListPrior, Listings, Preserved, OneExport
<1>6. CASE CopyPrior(r)
  <2>1. PICK f \in todo[r] :
          IF canonical # NoDir /\ canonical[f] # NoFile
          THEN /\ \E b \in Written(canonical[f]) : stage' = [stage EXCEPT ![r][f] = b]
               /\ Visit(r, f) /\ UNCHANGED pc
          ELSE Goto(r, "cleanStage") /\ UNCHANGED <<stage, todo>>
    BY <1>6 DEF CopyPrior
  <2>2. CASE canonical # NoDir /\ canonical[f] # NoFile
    <3>1. stage[r] \in Tree /\ Written(canonical[f]) \subseteq Content /\ f \in Known
      BY <1>6, <2>2, BodiesAreContent DEF CopyPrior, Dir, Tree
    <3>2. PICK b \in Written(canonical[f]) : stage' = [stage EXCEPT ![r][f] = b]
      BY <2>1, <2>2
    <3>3. /\ stage'[r] \in Tree
          /\ \A g \in Files \ {f} : stage'[r][g] = stage[r][g]
          /\ \A o \in Runs \ {r} : stage'[o] = stage[o]
      BY <3>1, <3>2, PutInStage
    <3>4. QED
      BY <1>6, <2>1, <2>2, <3>1, <3>3 DEF CopyPrior, OneExport
  <2>3. CASE ~(canonical # NoDir /\ canonical[f] # NoFile)
    BY <1>6, <2>1, <2>3 DEF CopyPrior, OneExport
  <2>4. QED
    BY <2>2, <2>3
<1>7. CASE LoopDone(r)
  BY <1>7 DEF LoopDone, OneExport
<1>8. CASE ProbeCanonical(r)
  BY <1>8 DEF ProbeCanonical, OneExport
<1>9. CASE SwapOut(r)
  BY <1>9 DEF SwapOut, OneExport
<1>10. CASE SwapIn(r)
  BY <1>10, BodiesAreContent DEF SwapIn, OneExport
<1>11. CASE Verify(r)
  BY <1>11 DEF Verify, OneExport
<1>12. CASE RestoreProbe(r)
  BY <1>12 DEF RestoreProbe, OneExport
<1>13. CASE RestoreRemove(r)
  BY <1>13, ShrunkIsOneExport DEF RestoreRemove, Dir
<1>14. CASE RestoreRename(r)
  BY <1>14 DEF RestoreRename, RenameBack, OneExport
<1>15. CASE DropBackup(r)
  BY <1>15, ShrunkIsOneExport DEF DropBackup, Drop, Dir
<1>16. CASE DropStage(r)
  BY <1>16 DEF DropStage, Drop, OneExport
<1>17. CASE CleanStage(r)
  BY <1>17 DEF CleanStage, Drop, OneExport
<1>18. CASE CleanProbe(r)
  BY <1>18 DEF CleanProbe, OneExport
<1>19. CASE CleanRename(r)
  BY <1>19 DEF CleanRename, RenameBack, OneExport
<1>20. CASE CleanDrop(r)
  BY <1>20, ShrunkIsOneExport DEF CleanDrop, Drop, Dir
<1>21. CASE CallFails(r)
  BY <1>21 DEF CallFails, CallsAt, Cleaning, OneExport
<1>22. CASE Crash(r)
  BY <1>22 DEF Crash, Active, Staging, Restoring, Committed, Cleaning, OneExport
<1>23. QED
  BY <1>1, <1>2, <1>3, <1>4, <1>5, <1>6, <1>7, <1>8, <1>9, <1>10, <1>11, <1>12,
     <1>13, <1>14, <1>15, <1>16, <1>17, <1>18, <1>19, <1>20, <1>21, <1>22
  DEF Progress

\* A step of r other than its start leaves the other runs, the requests and the
\* history as they were.
LEMMA Frame ==
  ASSUME TypeOK, NEW r \in Runs, Progress(r) \/ CallFails(r) \/ Crash(r)
  PROVE  /\ pc[r] \in Active /\ pc'[r] # "idle"
         /\ UNCHANGED <<req, before, latest, overlapped>>
         /\ \A o \in Runs \ {r} : pc'[o] = pc[o] /\ stage'[o] = stage[o] /\ backup'[o] = backup[o]
<1> USE DEF TypeOK, Step, At, Goto, Visit, disk, history, Active, Staging, Restoring,
            Committed, Cleaning
<1>1. CASE CallFails(r)
  BY <1>1 DEF CallFails, CallsAt
<1>2. CASE Crash(r)
  BY <1>2 DEF Crash
<1>3. CASE Prepare(r) \/ WriteMember(r) \/ WriteSidecar(r) \/ ListPrior(r) \/ CopyPrior(r) \/ LoopDone(r)
  BY <1>3 DEF Prepare, WriteMember, WriteSidecar, ListPrior, CopyPrior, LoopDone
<1>4. CASE ProbeCanonical(r) \/ SwapOut(r) \/ SwapIn(r) \/ Verify(r)
  BY <1>4 DEF ProbeCanonical, SwapOut, SwapIn, Verify
<1>5. CASE RestoreProbe(r) \/ RestoreRemove(r) \/ RestoreRename(r) \/ CleanProbe(r) \/ CleanRename(r)
  BY <1>5 DEF RestoreProbe, RestoreRemove, RestoreRename, CleanProbe, CleanRename, RenameBack
<1>6. CASE DropBackup(r) \/ DropStage(r) \/ CleanStage(r) \/ CleanDrop(r)
  BY <1>6 DEF DropBackup, DropStage, CleanStage, CleanDrop, Drop
<1>7. QED
  BY <1>1, <1>2, <1>3, <1>4, <1>5, <1>6 DEF Progress

\* A complete export is a directory that exists.
LEMMA ExportsAreTrees ==
  ASSUME NEW q, NEW prior
  PROVE  Exports(q, prior) \subseteq Tree /\ NoDir \notin Exports(q, prior)
  BY DEF Exports

\* A member, sidecar or copy written into the stage brings it one file further.
LEMMA PutInPartial ==
  ASSUME NEW q \in Requests, NEW prior \in Dir, NEW done, NEW t, Partial(t, q, prior, done),
         NEW f \in Files, NEW b \in Content,
         f \in q.members \cup q.sidecars \cup Preserved(prior, q),
         f \in q.members => b = q.body,
         f \in q.sidecars => b \in Written(q.body),
         f \in Preserved(prior, q) => b \in Written(prior[f])
  PROVE  Partial([t EXCEPT ![f] = b], q, prior, done \cup {f})
<1> DEFINE u == [t EXCEPT ![f] = b]
<1>1. u \in Tree /\ u[f] = b /\ \A g \in Files \ {f} : u[g] = t[g]
  BY PutIsTree DEF Partial, Tree
<1>2. q.members \subseteq Files /\ q.sidecars \subseteq Files /\ Preserved(prior, q) \subseteq Files
  BY BodiesAreContent DEF Preserved
<1> HIDE DEF u
<1>3. Partial(u, q, prior, done \cup {f})
  BY <1>1, <1>2 DEF Partial
<1> QED BY <1>3 DEF u

\* Once all loops are done the stage is an export, with the sidecars of the prior tree or, when they
\* could not be listed, without.
LEMMA PartialIsExport ==
  ASSUME NEW q \in Requests, NEW prior \in Dir, NEW t,
         \/ Partial(t, q, prior, Files)
         \/ "list" \in FaultSites /\ Partial(t, q, prior, q.members \cup q.sidecars)
  PROVE  t \in Exports(q, prior)
<1>1. /\ q.members \subseteq Files /\ q.sidecars \subseteq Files
      /\ Preserved(prior, q) \subseteq Files \ (q.members \cup q.sidecars)
  BY BodiesAreContent DEF Preserved
<1>2. CASE Partial(t, q, prior, Files)
  BY <1>1, <1>2 DEF Partial, Exports
<1>3. CASE "list" \in FaultSites /\ Partial(t, q, prior, q.members \cup q.sidecars)
  BY <1>1, <1>3 DEF Partial, Exports
<1> QED BY <1>2, <1>3

\* With truthful existence probes, each step of a lone run takes its files and
\* trees where the next label says.
LEMMA LonePhase ==
  ASSUME "probe" \notin FaultSites, TypeOK, MixInv, NEW r \in Runs,
         LoopsOf(r), TreesOf(r),
         Progress(r) \/ CallFails(r) \/ Crash(r)
  PROVE  LoopsOf(r)' /\ TreesOf(r)'
<1>f. pc[r] \in Active /\ UNCHANGED <<req, before>>
  BY Frame
<1>q. /\ req[r] \in Requests /\ req[r].body \in Bodies /\ Written(req[r].body) \subseteq Content
      /\ req[r].members \subseteq Files /\ req[r].sidecars \subseteq Known
  BY <1>f, BodiesAreContent DEF MixInv, Active, Staging, Restoring, Committed, Cleaning
<1>d. NoDir \notin Exports(req[r], before[r])
  BY ExportsAreTrees
<1>e. Exports(req[r], before[r])' = Exports(req[r], before[r])
  BY <1>f DEF Exports, Preserved
<1> USE DEF TypeOK, Step, At, Goto, Visit, disk, history, LoopsOf, TreesOf, Staging,
            Restoring, Committed, Cleaning
<1>2. CASE Prepare(r)
  <2>1. stage'[r] = EmptyTree /\ todo'[r] = req[r].members /\ pc'[r] = "write"
        /\ UNCHANGED <<canonical, backup>>
    BY <1>2 DEF Prepare
  <2>2. Partial(EmptyTree, req[r], before[r], {})
    BY EmptyIsTree DEF Partial, EmptyTree
  <2>3. Partial(stage[r], req[r], before[r], req[r].members \ todo[r])'
    BY <1>f, <2>1, <2>2 DEF Partial, Preserved
  <2> QED BY <1>2, <1>f, <2>1, <2>3 DEF Prepare
<1>3. CASE WriteMember(r)
  <2>1. /\ stage[r] \in Tree /\ todo[r] \subseteq req[r].members
        /\ Partial(stage[r], req[r], before[r], req[r].members \ todo[r])
    BY <1>3 DEF WriteMember, MixInv, Holding
  <2>2. PICK f \in todo[r], b \in Written(req[r].body) :
          /\ stage' = [stage EXCEPT ![r][f] = b]
          /\ IF b = req[r].body THEN Visit(r, f) /\ UNCHANGED pc
             ELSE Goto(r, "cleanStage") /\ UNCHANGED todo
    BY <1>3 DEF WriteMember
  <2>3. CASE b # req[r].body
    BY <1>3, <2>2, <2>3 DEF WriteMember
  <2>4. CASE b = req[r].body
    <3>1. stage'[r] = [stage[r] EXCEPT ![f] = b] /\ todo'[r] = todo[r] \ {f}
      BY <2>2, <2>4
    <3>2. Partial([stage[r] EXCEPT ![f] = b], req[r], before[r], (req[r].members \ todo[r]) \cup {f})
      BY <1>q, <2>1, <2>2, <2>4, PutInPartial DEF Preserved
    <3>3. (req[r].members \ todo[r]) \cup {f} = req[r].members \ todo'[r]
      BY <2>1, <2>2, <3>1
    <3>4. Partial(stage[r], req[r], before[r], req[r].members \ todo[r])'
      BY <1>f, <3>1, <3>2, <3>3 DEF Partial, Preserved
    <3> QED BY <1>3, <1>f, <2>1, <2>2, <2>4, <3>1, <3>4 DEF WriteMember
  <2>5. QED
    BY <2>3, <2>4
<1>4. CASE WriteSidecar(r)
  <2>1. /\ stage[r] \in Tree /\ todo[r] \subseteq req[r].sidecars
        /\ Partial(stage[r], req[r], before[r], req[r].members \cup (req[r].sidecars \ todo[r]))
    BY <1>4 DEF WriteSidecar, MixInv, Holding
  <2>2. PICK f \in todo[r], b \in Written(req[r].body) :
          IF f \in req[r].members
          THEN Goto(r, "cleanStage") /\ UNCHANGED <<stage, todo>>
          ELSE /\ stage' = [stage EXCEPT ![r][f] = b]
               /\ Visit(r, f) /\ UNCHANGED pc
    BY <1>4 DEF WriteSidecar
  <2>3. CASE f \in req[r].members
    BY <1>4, <2>2, <2>3 DEF WriteSidecar
  <2>4. CASE f \notin req[r].members
    <3>1. stage'[r] = [stage[r] EXCEPT ![f] = b] /\ todo'[r] = todo[r] \ {f}
      BY <2>2, <2>4
    <3>2. Partial([stage[r] EXCEPT ![f] = b], req[r], before[r],
                  (req[r].members \cup (req[r].sidecars \ todo[r])) \cup {f})
      BY <1>q, <2>1, <2>2, <2>4, PutInPartial DEF Preserved
    <3>3. (req[r].members \cup (req[r].sidecars \ todo[r])) \cup {f}
            = req[r].members \cup (req[r].sidecars \ todo'[r])
      BY <2>1, <2>2, <3>1
    <3>4. Partial(stage[r], req[r], before[r], req[r].members \cup (req[r].sidecars \ todo[r]))'
      BY <1>f, <3>1, <3>2, <3>3 DEF Partial, Preserved
    <3> QED BY <1>4, <1>f, <2>1, <2>2, <2>4, <3>1, <3>4 DEF WriteSidecar
  <2>5. QED
    BY <2>3, <2>4
<1>5. CASE ListPrior(r)
  <2> DEFINE asked == req[r].members \cup req[r].sidecars
             kept  == Preserved(before[r], req[r])
  <2>1. canonical = before[r] /\ Partial(stage[r], req[r], before[r], asked)
    BY <1>5 DEF ListPrior
  <2>2. \/ todo'[r] = kept
        \/ "list" \in FaultSites /\ todo'[r] = {}
    <3>1. PICK seen \in Probes(canonical), names \in Listings(canonical, req[r]) :
            todo' = [todo EXCEPT ![r] = IF seen THEN names ELSE {}]
      BY <1>5 DEF ListPrior
    <3>2. seen \/ before[r] = NoDir
      BY <2>1, <3>1, Zenon DEF Probes
    <3>3. before[r] = NoDir => kept = {}
      BY DEF Preserved
    <3>4. names = kept \/ ("list" \in FaultSites /\ names = {})
      BY <2>1, <3>1 DEF Listings
    <3>5. todo'[r] = IF seen THEN names ELSE {}
      BY <3>1
    <3> QED BY <3>2, <3>3, <3>4, <3>5
  <2>3. Partial(stage[r], req[r], before[r], Files \ kept)
    BY <1>q, <2>1 DEF Partial, Preserved
  <2>4. pc'[r] = "copy" /\ UNCHANGED <<canonical, stage, backup>>
    BY <1>5 DEF ListPrior
  <2>5. \/ todo'[r] = kept /\ Partial(stage[r], req[r], before[r], Files \ todo[r])'
        \/ /\ "list" \in FaultSites /\ todo'[r] = {}
           /\ Partial(stage[r], req[r], before[r], asked)'
    BY <1>f, <2>1, <2>2, <2>3, <2>4 DEF Partial, Preserved
  <2>6. Preserved(before[r], req[r])' = kept
    BY <1>f DEF Preserved
  <2>7. LoopsOf(r)'
    BY <1>f, <2>4, <2>5, <2>6
  <2>8. TreesOf(r)'
    BY <1>5, <1>e, <1>f, <2>4 DEF ListPrior
  <2> QED BY <2>7, <2>8
<1>6. CASE CopyPrior(r)
  <2>1. PICK f \in todo[r] :
          IF canonical # NoDir /\ canonical[f] # NoFile
          THEN /\ \E b \in Written(canonical[f]) : stage' = [stage EXCEPT ![r][f] = b]
               /\ Visit(r, f) /\ UNCHANGED pc
          ELSE Goto(r, "cleanStage") /\ UNCHANGED <<stage, todo>>
    BY <1>6 DEF CopyPrior
  <2>2. /\ todo[r] \subseteq Preserved(before[r], req[r]) /\ canonical = before[r]
        /\ Partial(stage[r], req[r], before[r], Files \ todo[r])
    BY <1>6, <2>1 DEF CopyPrior
  <2>3. /\ f \in Files /\ f \notin req[r].members /\ f \notin req[r].sidecars
        /\ canonical # NoDir /\ canonical[f] # NoFile
    BY <2>1, <2>2 DEF Preserved
  <2>4. PICK b \in Written(canonical[f]) : stage' = [stage EXCEPT ![r][f] = b]
    BY <2>1, <2>3
  <2>5. stage[r] \in Tree /\ b \in Content
    BY <1>6, <2>3, <2>4, BodiesAreContent DEF CopyPrior, MixInv, Holding, Dir, Tree
  <2>6. stage'[r] = [stage[r] EXCEPT ![f] = b] /\ todo'[r] = todo[r] \ {f} /\ pc' = pc
    BY <2>1, <2>3, <2>4
  <2>7. Partial([stage[r] EXCEPT ![f] = b], req[r], before[r], (Files \ todo[r]) \cup {f})
    BY <1>q, <2>1, <2>2, <2>3, <2>4, <2>5, PutInPartial
  <2>8. (Files \ todo[r]) \cup {f} = Files \ todo'[r]
    BY <2>3, <2>6
  <2>9. Partial(stage[r], req[r], before[r], Files \ todo[r])'
    BY <1>f, <2>6, <2>7, <2>8 DEF Partial, Preserved
  <2>10. (todo[r] \subseteq Preserved(before[r], req[r]))'
    BY <1>f, <2>2, <2>6 DEF Preserved
  <2>11. pc'[r] = "copy" /\ UNCHANGED <<canonical, backup>>
    BY <1>6, <2>6 DEF CopyPrior
  <2>12. LoopsOf(r)'
    BY <2>9, <2>10, <2>11
  <2>13. TreesOf(r)'
    BY <1>6, <1>e, <1>f, <2>11 DEF CopyPrior
  <2> QED BY <2>12, <2>13
<1>7. CASE LoopDone(r)
  <2> DEFINE holds(done) == Partial(stage[r], req[r], before[r], done)
  <2>1. todo[r] = {} /\ UNCHANGED <<canonical, stage, backup>>
    BY <1>7 DEF LoopDone
  <2>3. CASE Step(r, "write", "sidecar") /\ todo' = [todo EXCEPT ![r] = req[r].sidecars]
    <3>1. pc[r] = "write" /\ pc'[r] = "sidecar" /\ todo'[r] = req[r].sidecars
      BY <2>3
    <3>2. holds(req[r].members)
      <4>1. req[r].members \ todo[r] = req[r].members
        BY <2>1
      <4> QED BY <3>1, <4>1
    <3>3. req[r].members \cup (req[r].sidecars \ req[r].sidecars) = req[r].members
      OBVIOUS
    <3>4. Partial(stage[r], req[r], before[r], req[r].members \cup (req[r].sidecars \ todo[r]))'
      BY <1>f, <2>1, <3>1, <3>2, <3>3 DEF Partial, Preserved
    <3>5. LoopsOf(r)'
      BY <3>1, <3>4
    <3>6. TreesOf(r)'
      BY <1>e, <1>f, <2>1, <3>1
    <3> QED BY <3>5, <3>6
  <2>4. CASE Step(r, "sidecar", "list") /\ UNCHANGED todo
    <3>1. pc[r] = "sidecar" /\ pc'[r] = "list"
      BY <2>4
    <3>2. holds(req[r].members \cup req[r].sidecars)
      <4>1. req[r].sidecars \ todo[r] = req[r].sidecars
        BY <2>1
      <4> QED BY <3>1, <4>1
    <3>3. Partial(stage[r], req[r], before[r], req[r].members \cup req[r].sidecars)'
      BY <1>f, <2>1, <3>2 DEF Partial, Preserved
    <3>4. LoopsOf(r)'
      BY <3>1, <3>3
    <3>5. TreesOf(r)'
      BY <1>e, <1>f, <2>1, <3>1
    <3> QED BY <3>4, <3>5
  <2>5. CASE Step(r, "copy", "probe") /\ UNCHANGED todo
    <3>1. pc[r] = "copy" /\ pc'[r] = "probe"
      BY <2>5
    <3>2. \/ holds(Files)
          \/ "list" \in FaultSites /\ holds(req[r].members \cup req[r].sidecars)
      <4>1. Files \ todo[r] = Files
        BY <2>1
      <4> QED BY <3>1, <4>1
    <3>3. stage[r] \in Exports(req[r], before[r])
      BY <1>q, <3>2, PartialIsExport
    <3>4. LoopsOf(r)'
      BY <1>e, <2>1, <3>1, <3>3
    <3>5. TreesOf(r)'
      BY <1>e, <1>f, <2>1, <3>1
    <3> QED BY <3>4, <3>5
  <2>6. CASE Step(r, "verify", "dropBackup") /\ UNCHANGED todo
    BY <1>e, <1>f, <2>1, <2>6
  <2> QED BY <1>7, <2>3, <2>4, <2>5, <2>6 DEF LoopDone
<1>8. CASE ProbeCanonical(r)
  BY <1>8, <1>e, <1>f, ZenonT(30) DEF ProbeCanonical, Probes
<1>9. CASE SwapOut(r)
  BY <1>9, <1>e, <1>f DEF SwapOut
<1>10. CASE SwapIn(r)
  BY <1>10, <1>e, <1>f DEF SwapIn, CanLand
<1>11. CASE Verify(r)
  BY <1>11, <1>d, <1>e, <1>f, <1>q DEF Verify, Exports
<1>12. CASE RestoreProbe(r)
  BY <1>12, <1>e, <1>f DEF RestoreProbe, Probes
<1>13. CASE RestoreRemove(r)
  BY <1>13, <1>e, <1>f DEF RestoreRemove
<1>14. CASE RestoreRename(r)
  BY <1>14, <1>e, <1>f DEF RestoreRename, RenameBack, CanLand
<1>15. CASE DropBackup(r)
  BY <1>15, <1>e, <1>f DEF DropBackup, Drop
<1>16. CASE DropStage(r)
  BY <1>16, <1>e, <1>f DEF DropStage, Drop
<1>17. CASE CleanStage(r)
  BY <1>17, <1>e, <1>f DEF CleanStage, Drop
<1>18. CASE CleanProbe(r)
  BY <1>18, <1>d, <1>e, <1>f, ZenonT(30) DEF CleanProbe, Probes
<1>19. CASE CleanRename(r)
  BY <1>19, <1>e, <1>f DEF CleanRename, RenameBack, CanLand
<1>20. CASE CleanDrop(r)
  BY <1>20, <1>e, <1>f DEF CleanDrop, Drop
<1>21. CASE CallFails(r)
  BY <1>21, <1>e, <1>f DEF CallFails, CallsAt
<1>22. CASE Crash(r)
  BY <1>22, <1>e, <1>f DEF Crash
<1>23. QED
  BY <1>2, <1>3, <1>4, <1>5, <1>6, <1>7, <1>8, <1>9, <1>10, <1>11, <1>12,
     <1>13, <1>14, <1>15, <1>16, <1>17, <1>18, <1>19, <1>20, <1>21, <1>22
  DEF Progress

\* Steps of other runs leave a lone run where it is: the others have all ended.
LEMMA LoneStep ==
  ASSUME "probe" \notin FaultSites
  PROVE  TypeOK /\ MixInv /\ LoneInv /\ [Next]_vars => LoneInv'
<1> SUFFICES ASSUME TypeOK, MixInv, LoneInv, [Next]_vars PROVE LoneInv'
  OBVIOUS
<1>0. CASE UNCHANGED vars
  <2>1. \A o \in Runs : (LoopsOf(o)' <=> LoopsOf(o)) /\ (TreesOf(o)' <=> TreesOf(o))
    BY <1>0 DEF vars, LoopsOf, TreesOf, Partial, Exports, Preserved
  <2>2. QED
    BY <1>0, <2>1 DEF vars, LoneInv, Alone
<1> SUFFICES ASSUME NEW r \in Runs,
                    Start(r) \/ Progress(r) \/ CallFails(r) \/ Crash(r)
             PROVE LoneInv'
  BY <1>0 DEF Next
<1>1. CASE Start(r)
  <2>1. /\ pc[r] = "idle" /\ pc' = [pc EXCEPT ![r] = "prepare"]
        /\ before'[r] = canonical /\ latest' = r
        /\ UNCHANGED <<canonical, stage, backup>>
    BY <1>1 DEF Start, Step, At, Goto, disk, TypeOK
  <2>2. \A o \in Runs \ {r} : ~Alone(o)'
    BY <2>1 DEF Alone
  <2>3. Alone(r)' => \A o \in Runs \ {r} : pc'[o] \notin Active
    BY <1>1, <2>1 DEF Alone, Start, TypeOK
  <2>4. stage[r] = NoDir /\ backup[r] = NoDir
    BY <2>1 DEF LoneInv
  <2>5. pc'[r] = "prepare"
    BY <2>1 DEF TypeOK
  <2>6. LoopsOf(r)' /\ TreesOf(r)'
    BY <2>1, <2>4, <2>5 DEF LoopsOf, TreesOf, Staging, Restoring, Committed
  <2>7. \A o \in Runs : pc'[o] = "idle" =>
          stage'[o] = NoDir /\ backup'[o] = NoDir /\ latest' # o
    BY <2>1, <2>5 DEF LoneInv, TypeOK
  <2>8. QED
    BY <2>2, <2>3, <2>6, <2>7 DEF LoneInv
<1>2. CASE Progress(r) \/ CallFails(r) \/ Crash(r)
  <2>1. /\ pc[r] \in Active /\ pc'[r] # "idle"
        /\ UNCHANGED <<req, before, latest, overlapped>>
        /\ \A o \in Runs \ {r} : pc'[o] = pc[o] /\ stage'[o] = stage[o] /\ backup'[o] = backup[o]
    BY <1>2, Frame
  <2>2. \A o \in Runs : Alone(o)' <=> Alone(o)
    BY <2>1 DEF Alone
  <2>3. \A o \in Runs \ {r} : ~Alone(o)
    BY <2>1 DEF LoneInv
  <2>4. Alone(r) => LoopsOf(r)' /\ TreesOf(r)'
    BY <1>2, LonePhase DEF LoneInv
  <2>5. Alone(r) => \A o \in Runs \ {r} : pc'[o] \notin Active
    BY <2>1 DEF LoneInv
  <2>6. \A o \in Runs : pc'[o] = "idle" =>
          stage'[o] = NoDir /\ backup'[o] = NoDir /\ latest' # o
    BY <2>1 DEF LoneInv
  <2>7. QED
    BY <2>2, <2>3, <2>4, <2>5, <2>6 DEF LoneInv
<1>3. QED
  BY <1>1, <1>2

-----------------------------------------------------------------------------
(* The theorems.                                                           *)

\* Every variable keeps its type.
THEOREM TypeCorrect == Spec => []TypeOK
<1>1. Init => TypeOK /\ MixInv /\ NeverMixed
  BY DEF Init, TypeOK, MixInv, NeverMixed, OneExport, Dir, Holding
<1>2. TypeOK /\ MixInv /\ NeverMixed /\ [Next]_vars => (TypeOK /\ MixInv /\ NeverMixed)'
  BY TypeStep, MixStep
<1>3. QED
  BY <1>1, <1>2, PTL DEF Spec

\* Whatever fails or crashes and however many runs export the same directory at
\* once, its definition files are those of one export.
THEOREM NeverMixedAlways == Spec => []NeverMixed
<1>1. Init => TypeOK /\ MixInv /\ NeverMixed
  BY DEF Init, TypeOK, MixInv, NeverMixed, OneExport, Dir, Holding
<1>2. TypeOK /\ MixInv /\ NeverMixed /\ [Next]_vars => (TypeOK /\ MixInv /\ NeverMixed)'
  BY TypeStep, MixStep
<1>3. QED
  BY <1>1, <1>2, PTL DEF Spec

\* With truthful existence probes the full invariant holds.
THEOREM Invariance == ASSUME "probe" \notin FaultSites PROVE Spec => []Inv
<1>1. Init => Inv
  BY DEF Init, Inv, TypeOK, MixInv, NeverMixed, LoneInv, Alone, OneExport, Dir, Holding
<1>2. Inv /\ [Next]_vars => Inv'
  BY TypeStep, MixStep, LoneStep DEF Inv
<1>3. QED
  BY <1>1, <1>2, PTL DEF Spec

\* No failure or crash of a lone run costs a tree.
THEOREM TreesSurvive == ASSUME "probe" \notin FaultSites PROVE Spec => []TreeSurvives
<1>1. Inv => TreeSurvives
  BY DEF Inv, LoneInv, TreesOf, TreeSurvives
<1>2. QED
  BY <1>1, Invariance, PTL

\* A reader of the directory of a lone run never sees part of a tree.
THEOREM NeverPartial == ASSUME "probe" \notin FaultSites PROVE Spec => []CanonicalWhole
<1>1. Inv => CanonicalWhole
  BY DEF Inv, LoneInv, TreesOf, CanonicalWhole
<1>2. QED
  BY <1>1, Invariance, PTL

\* A lone run that reports success has installed an export of its request over the prior tree, with
\* every member as asked and no stale definition, and left no stage or backup behind.
THEOREM SuccessIsExport == ASSUME "probe" \notin FaultSites PROVE Spec => []SuccessInstalls
<1>1. Inv => SuccessInstalls
  BY DEF Inv, LoneInv, LoopsOf, TreesOf, SuccessInstalls, Committed
<1>2. QED
  BY <1>1, Invariance, PTL

\* The one tree that holds what was asked, the known sidecars of the prior tree and nothing else.
Exact(q, prior) ==
  [f \in Files |-> IF f \in q.members \cup q.sidecars THEN q.body
                   ELSE IF f \in Preserved(prior, q) THEN prior[f]
                   ELSE NoFile]

\* A lone run that reports success has left exactly that tree, sidecars included.
SuccessExact ==
  \A r \in Runs : Alone(r) /\ pc[r] = "done" => canonical = Exact(req[r], before[r])

\* The two failures the code passes over in silence, a torn sidecar and a listing that rejects, are
\* the only ones that can spoil a success: where neither happens a lone run that reports success has
\* installed exactly its export, sidecars included, whatever else fails.
THEOREM SuccessIsExact ==
  ASSUME FaultSites \cap {"probe", "torn", "list"} = {} PROVE Spec => []SuccessExact
<1>1. ASSUME NEW q \in Requests, NEW prior \in Dir, NEW t \in Exports(q, prior)
      PROVE  t = Exact(q, prior)
  <2>1. \A b : Written(b) = {b}
    BY DEF Written
  <2>2. \A f \in Files : t[f] = Exact(q, prior)[f]
    BY <2>1, BodiesAreContent DEF Exports, Exact, Preserved
  <2>3. t = [f \in Files |-> t[f]]
    BY DEF Exports, Tree
  <2> QED BY <2>2, <2>3 DEF Exact
<1>2. Inv => SuccessExact
  <2> SUFFICES ASSUME Inv, NEW r \in Runs, Alone(r), pc[r] = "done"
               PROVE  canonical = Exact(req[r], before[r])
    BY DEF SuccessExact
  <2>1. canonical \in Exports(req[r], before[r])
    BY DEF Inv, LoneInv, TreesOf
  <2>2. req[r] \in Requests /\ before[r] \in Dir
    BY DEF Inv, MixInv, TypeOK
  <2> QED BY <1>1, <2>1, <2>2
<1>3. Spec => []Inv
  BY Invariance
<1>4. QED
  BY <1>2, <1>3, PTL

-----------------------------------------------------------------------------
(* One export at a time implements AtomicExport.                           *)

\* What only one export at a time keeps true: no run overlaps another, and the active one, if there
\* is one, is the last that started.
SoloInv ==
  /\ Inv
  /\ overlapped = {}
  /\ \A r \in Runs : pc[r] \in Active => latest = r

\* A run that starts when no other is active overlaps none.
LEMMA SoloStep ==
  ASSUME "probe" \notin FaultSites
  PROVE  SoloInv /\ [SoloNext]_vars => SoloInv' /\ [Next]_vars
<1> SUFFICES ASSUME SoloInv, [SoloNext]_vars PROVE SoloInv' /\ [Next]_vars
  OBVIOUS
<1>1. [Next]_vars
  BY DEF SoloNext, Next
<1>2. Inv'
  BY <1>1, TypeStep, MixStep, LoneStep DEF Inv, SoloInv
<1>3. CASE UNCHANGED vars
  BY <1>1, <1>2, <1>3 DEF vars, SoloInv
<1>4. ASSUME NEW r \in Runs, Start(r), \A o \in Runs : pc[o] \notin Active
      PROVE  overlapped' = {} /\ \A o \in Runs : pc'[o] \in Active => latest' = o
  BY <1>4 DEF Start, Step, At, Goto, SoloInv, Inv, TypeOK
<1>5. ASSUME NEW r \in Runs, Progress(r) \/ CallFails(r) \/ Crash(r)
      PROVE  overlapped' = {} /\ \A o \in Runs : pc'[o] \in Active => latest' = o
  BY <1>5, Frame DEF SoloInv, Inv
<1> QED BY <1>1, <1>2, <1>3, <1>4, <1>5 DEF SoloNext, SoloInv

\* While a lone run is active its tree is the prior one, or a new one once it counts as installed.
OldOrNew ==
  \A r \in Runs : pc[r] \in Active =>
    \/ Phase(r) = "open" /\ Visible = before[r]
    \/ Phase(r) = "installed" /\ Visible = canonical /\ canonical \in Exports(req[r], before[r])

LEMMA TreesAreOldOrNew == SoloInv => OldOrNew
<1> SUFFICES ASSUME SoloInv, NEW r \in Runs, pc[r] \in Active
             PROVE  \/ Phase(r) = "open" /\ Visible = before[r]
                    \/ /\ Phase(r) = "installed" /\ Visible = canonical
                       /\ canonical \in Exports(req[r], before[r])
  BY DEF OldOrNew
<1>1. Alone(r) /\ latest = r /\ r # NoRun
  BY DEF SoloInv, Alone
<1>2. TreesOf(r) /\ req[r] \in Requests
  BY <1>1 DEF SoloInv, Inv, LoneInv, MixInv, Active, Staging, Restoring, Committed, Cleaning
<1>3. NoDir \notin Exports(req[r], before[r])
  BY ExportsAreTrees
<1>4. Visible = IF canonical = NoDir THEN backup[r] ELSE canonical
  BY <1>1 DEF Visible
<1>5. CASE pc[r] \in Staging \cup Restoring \cup {"swapIn"}
  <2>1. Phase(r) = "open"
    BY <1>5 DEF Phase, Staging, Restoring, Committed, Cleaning
  <2> QED BY <1>2, <1>4, <1>5, <2>1 DEF TreesOf
<1>6. CASE pc[r] \in Committed
  <2>1. Phase(r) = "installed"
    BY <1>6 DEF Phase, Committed
  <2> QED BY <1>2, <1>3, <1>4, <1>6, <2>1 DEF TreesOf
<1>7. CASE pc[r] \in Cleaning
  <2>1. Phase(r) = IF canonical \in Exports(req[r], before[r]) THEN "installed" ELSE "open"
    BY <1>7 DEF Phase, Committed, Cleaning
  <2> QED BY <1>2, <1>3, <1>4, <2>1 DEF TreesOf
<1> QED BY <1>5, <1>6, <1>7 DEF Active

\* Which labels a step leads to, and what the last steps do to the directory.
LEMMA LabelStep ==
  ASSUME TypeOK, NEW r \in Runs, Progress(r) \/ CallFails(r) \/ Crash(r)
  PROVE  /\ pc[r] \in (Committed \cup Cleaning) \ {"cleanRename"} =>
              /\ canonical' = canonical
              /\ pc'[r] \in Committed \cup Cleaning \cup Ended \cup {"restoreProbe"}
         /\ pc'[r] = "done" => pc[r] = "dropStage"
         /\ pc'[r] \in Ended =>
              canonical' = canonical \/ (pc[r] = "cleanRename" /\ canonical' = backup[r])
         /\ pc'[r] \in Active \cup Ended
<1> USE DEF TypeOK, Step, At, Goto, Visit, disk, history, Active, Staging, Restoring,
            Committed, Cleaning, Ended
<1>1. CASE CallFails(r)
  BY <1>1 DEF CallFails, CallsAt
<1>2. CASE Crash(r)
  BY <1>2 DEF Crash
<1>3. CASE Prepare(r) \/ WriteMember(r) \/ WriteSidecar(r) \/ ListPrior(r) \/ CopyPrior(r) \/ LoopDone(r)
  BY <1>3 DEF Prepare, WriteMember, WriteSidecar, ListPrior, CopyPrior, LoopDone
<1>4. CASE ProbeCanonical(r) \/ SwapOut(r) \/ SwapIn(r) \/ Verify(r)
  BY <1>4 DEF ProbeCanonical, SwapOut, SwapIn, Verify
<1>5. CASE RestoreProbe(r) \/ RestoreRemove(r) \/ RestoreRename(r) \/ CleanProbe(r) \/ CleanRename(r)
  BY <1>5 DEF RestoreProbe, RestoreRemove, RestoreRename, CleanProbe, CleanRename, RenameBack
<1>6. CASE DropBackup(r) \/ DropStage(r) \/ CleanStage(r) \/ CleanDrop(r)
  BY <1>6 DEF DropBackup, DropStage, CleanStage, CleanDrop, Drop
<1>7. QED
  BY <1>1, <1>2, <1>3, <1>4, <1>5, <1>6 DEF Progress

\* The phase of a run that is not active does not depend on the directories.
LEMMA RestingPhase ==
  ASSUME TypeOK, NEW r \in Runs, pc[r] \notin Active
  PROVE  Phase(r) \in {"idle", "done", "failed"}
BY DEF TypeOK, Phase, Ended, Active, Committed, Cleaning, Staging, Restoring

\* Each step of a lone run is a step of AtomicExport, or changes nothing that it shows.
LEMMA SoloStepIsAtomic ==
  ASSUME SoloInv, SoloInv', NEW r \in Runs, Progress(r) \/ CallFails(r) \/ Crash(r)
  PROVE  \/ Atomic!Install(r) \/ Atomic!Report(r) \/ Atomic!Fail(r)
         \/ UNCHANGED <<Visible, [o \in Runs |-> Phase(o)], req>>
<1> DEFINE N == Exports(req[r], before[r])
           phase == [o \in Runs |-> Phase(o)]
<1>1. /\ pc[r] \in Active /\ UNCHANGED <<req, before, latest, overlapped>>
      /\ \A o \in Runs \ {r} : pc'[o] = pc[o]
  BY Frame DEF SoloInv, Inv
<1>2. TypeOK /\ TypeOK' /\ latest = r /\ Alone(r)
  BY <1>1 DEF SoloInv, Inv, Alone
<1>3. LoopsOf(r) /\ TreesOf(r) /\ TreesOf(r)'
  BY <1>1, <1>2 DEF SoloInv, Inv, LoneInv, Alone
<1>4. NoDir \notin N
  BY ExportsAreTrees
<1>5. N' = N
  BY <1>1 DEF Exports, Preserved
<1>6. \A o \in Runs \ {r} : Phase(o)' = Phase(o)
  <2> SUFFICES ASSUME NEW o \in Runs \ {r} PROVE Phase(o)' = Phase(o)
    OBVIOUS
  <2>1. pc[o] \notin Active /\ pc'[o] = pc[o]
    BY <1>1, <1>2 DEF SoloInv
  <2>2. pc[o] \notin Committed /\ pc[o] \notin Cleaning
    BY <2>1 DEF Active
  <2> QED BY <2>1, <2>2 DEF Phase
<1>7. \/ Phase(r) = "open" /\ Visible = before[r]
      \/ Phase(r) = "installed" /\ Visible = canonical /\ canonical \in N
  BY <1>1, TreesAreOldOrNew DEF OldOrNew
<1>8. phase' = [phase EXCEPT ![r] = Phase(r)']
  BY <1>6
<1>9. CASE pc'[r] \in Active
  <2>1. \/ Phase(r)' = "open" /\ Visible' = before[r]
        \/ Phase(r)' = "installed" /\ Visible' = canonical' /\ canonical' \in N
    <3>1. OldOrNew'
      BY TreesAreOldOrNew, PTL
    <3> QED BY <3>1, <1>1, <1>5, <1>9 DEF OldOrNew
  <2>2. ASSUME Phase(r) = "installed"
        PROVE  /\ canonical' = canonical
               /\ pc'[r] \in Committed \cup Cleaning \cup Ended \cup {"restoreProbe"}
    <3>1. canonical \in N /\ pc[r] \in Committed \cup Cleaning
      BY <1>7, <2>2 DEF Phase
    <3>2. pc[r] # "cleanRename"
      BY <1>3, <1>4, <3>1 DEF TreesOf
    <3> QED BY <1>2, <3>1, <3>2, LabelStep
  <2>3. CASE Phase(r)' = Phase(r)
    <3>1. phase' = phase
      BY <1>8, <2>3
    <3>2. Visible' = Visible
      BY <1>7, <2>1, <2>2, <2>3
    <3> QED BY <3>1, <3>2, <1>1
  <2>4. CASE Phase(r) = "open" /\ Phase(r)' = "installed"
    <3>1. Visible' \in Exports(req[r], Visible)
      BY <1>7, <2>1, <2>4
    <3>2. phase[r] = "open" /\ phase' = [phase EXCEPT ![r] = "installed"]
      BY <1>8, <2>4
    <3> QED BY <3>1, <3>2, <1>1 DEF Atomic!Install
  <2>5. CASE Phase(r) = "installed" /\ Phase(r)' = "open"
    <3>1. canonical' \in N /\ pc'[r] \in Committed \cup Cleaning \cup Ended \cup {"restoreProbe"}
      BY <1>7, <2>2, <2>5
    <3>2. pc'[r] = "restoreProbe"
      BY <1>5, <2>5, <3>1, <1>9 DEF Phase, Active, Ended, Staging, Restoring, Committed, Cleaning
    <3>3. canonical' = NoDir
      BY <1>3, <3>2 DEF TreesOf, Restoring
    <3> QED BY <3>1, <3>3, <1>4
  <2> QED BY <1>7, <2>1, <2>3, <2>4, <2>5
<1>10. CASE pc'[r] \in Ended
  <2>1. Visible' = canonical'
    BY <1>1, <1>2, <1>10 DEF Visible, Active, Ended, Staging, Restoring, Committed, Cleaning
  <2>2. canonical' = canonical \/ (pc[r] = "cleanRename" /\ canonical' = backup[r])
    BY <1>2, <1>10, LabelStep
  <2>3. CASE pc'[r] = "done"
    <3>1. pc[r] = "dropStage"
      BY <1>2, <2>3, LabelStep
    <3>2. Phase(r) = "installed" /\ Phase(r)' = "done"
      BY <2>3, <3>1 DEF Phase, Committed, Cleaning
    <3>3. Visible' = Visible
      BY <1>3, <1>7, <2>1, <2>2, <3>1, <3>2
    <3>4. phase[r] = "installed" /\ phase' = [phase EXCEPT ![r] = "done"]
      BY <1>8, <3>2
    <3> QED BY <3>3, <3>4, <1>1 DEF Atomic!Report
  <2>4. CASE pc'[r] \in {"failed", "crashed"}
    <3>1. Phase(r)' = "failed"
      BY <2>4 DEF Phase, Committed, Cleaning
    <3>2. phase' = [phase EXCEPT ![r] = "failed"]
      BY <1>8, <3>1
    <3>3. CASE Phase(r) = "installed"
      <4>1. pc[r] # "cleanRename"
        BY <1>3, <1>4, <1>7, <3>3 DEF TreesOf
      <4>2. Visible' = Visible /\ phase[r] = "installed"
        BY <1>7, <2>1, <2>2, <3>3, <4>1
      <4> QED BY <3>2, <4>2, <1>1 DEF Atomic!Fail
    <3>4. CASE Phase(r) = "open"
      <4>1. canonical \in {before[r], NoDir}
        BY <1>2, <1>7, <3>4 DEF Visible
      <4>2. pc[r] = "cleanRename" => backup[r] = before[r]
        BY <1>3 DEF TreesOf
      <4>3. Visible' \in {Visible, NoDir} /\ phase[r] = "open"
        BY <1>7, <2>1, <2>2, <3>4, <4>1, <4>2
      <4> QED BY <3>2, <4>3, <1>1 DEF Atomic!Fail
    <3> QED BY <1>7, <3>3, <3>4
  <2> QED BY <1>10, <2>3, <2>4 DEF Ended
<1> QED BY <1>2, <1>9, <1>10, LabelStep

\* A run opens the export when no other one is open.
LEMMA SoloStartIsAtomic ==
  ASSUME SoloInv, SoloInv', NEW r \in Runs, Start(r), \A o \in Runs : pc[o] \notin Active
  PROVE  \E q \in Requests : Atomic!Open(r, q)
<1>1. /\ pc[r] = "idle" /\ pc' = [pc EXCEPT ![r] = "prepare"] /\ latest' = r
      /\ UNCHANGED <<canonical, stage, backup>>
  BY DEF Start, Step, At, Goto, disk
<1>2. PICK q \in Requests : req' = [req EXCEPT ![r] = q]
  BY DEF Start
<1>3. TypeOK /\ backup[r] = NoDir
  BY <1>1 DEF SoloInv, Inv, LoneInv
<1>4. Visible = canonical
  BY <1>3 DEF Visible, TypeOK
<1>5. Visible' = canonical
  BY <1>1, <1>3 DEF Visible
<1>6. \A o \in Runs : Phase(o) \in {"idle", "done", "failed"}
  BY <1>3, RestingPhase
<1>7. \A o \in Runs \ {r} : Phase(o)' = Phase(o)
  <2> SUFFICES ASSUME NEW o \in Runs \ {r} PROVE Phase(o)' = Phase(o)
    OBVIOUS
  <2>1. pc'[o] = pc[o] /\ pc[o] \notin Committed /\ pc[o] \notin Cleaning
    BY <1>1, <1>3 DEF TypeOK, Active
  <2> QED BY <2>1 DEF Phase
<1>8. Phase(r) = "idle" /\ Phase(r)' = "open"
  BY <1>1, <1>3 DEF Phase, TypeOK, Committed, Cleaning
<1>9. [o \in Runs |-> Phase(o)]' = [[o \in Runs |-> Phase(o)] EXCEPT ![r] = "open"]
  BY <1>7, <1>8
<1> QED BY <1>2, <1>4, <1>5, <1>6, <1>8, <1>9 DEF Atomic!Open

\* One export at a time is one atomic replacement, whatever call fails or crashes on the way: the
\* two renames, the restorations and the clean-up of stageDefinitionExportTree together.
THEOREM ReplacementIsAtomic == ASSUME "probe" \notin FaultSites PROVE SoloSpec => ReplacesAtomically
<1>1. Init => SoloInv
  BY DEF Init, SoloInv, Inv, TypeOK, MixInv, NeverMixed, LoneInv, Alone, OneExport, Dir, Holding,
         Active, Staging, Restoring, Committed, Cleaning
<1>2. Init => Atomic!Init
  BY DEF Init, Atomic!Init, Visible, Phase, Committed, Cleaning
<1>3. SoloInv /\ [SoloNext]_vars => SoloInv'
  BY SoloStep
<1>4. ASSUME SoloInv, SoloInv', [SoloNext]_vars
      PROVE  [Atomic!Next]_<<Visible, [r \in Runs |-> Phase(r)], req>>
  <2>1. CASE UNCHANGED vars
    <3>1. \A r \in Runs : Phase(r)' = Phase(r)
      BY <2>1 DEF vars, Phase, Exports, Preserved
    <3> QED BY <2>1, <3>1 DEF vars, Visible
  <2>2. ASSUME NEW r \in Runs, Start(r), \A o \in Runs : pc[o] \notin Active
        PROVE  Atomic!Next
    BY <1>4, <2>2, SoloStartIsAtomic DEF Atomic!Next
  <2>3. ASSUME NEW r \in Runs, Progress(r) \/ CallFails(r) \/ Crash(r)
        PROVE  [Atomic!Next]_<<Visible, [o \in Runs |-> Phase(o)], req>>
    BY <1>4, <2>3, SoloStepIsAtomic DEF Atomic!Next
  <2> QED BY <1>4, <2>1, <2>2, <2>3 DEF SoloNext
<1> QED BY <1>1, <1>2, <1>3, <1>4, PTL DEF SoloSpec, ReplacesAtomically, Atomic!Spec
=============================================================================
