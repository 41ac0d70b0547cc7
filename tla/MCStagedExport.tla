-------------------------- MODULE MCStagedExport --------------------------
(* Small instances of StagedExport: two definition files, a known sidecar, *)
(* exports that differ in members, sidecars and bodies.                    *)
EXTENDS StagedExport, TLC

CONSTANTS r1, r2, d1, d2, s1, b0, b1, b2

MCFiles  == {d1, d2, s1}
MCKnown  == {s1}
MCBodies == {b0, b1, b2}

MCRequests == {
  [members |-> {d1, d2}, sidecars |-> {},   body |-> b1],
  [members |-> {d1},     sidecars |-> {s1}, body |-> b2],
  [members |-> {s1},     sidecars |-> {s1}, body |-> b2]}  \* collides

MCInitialTrees == {NoDir, [f \in MCFiles |-> b0]}

AnyRun == Permutations({r1, r2})

MCAllFaults == {"write", "torn", "list", "read", "rename", "remove", "crash"}
=============================================================================
