--------------------------- MODULE AtomicExport ---------------------------
(***************************************************************************)
(* What an export of a service directory promises its callers when no      *)
(* other run exports the same directory: the tree changes only to one an   *)
(* export of one request may make of the current tree, in one step.  A     *)
(* run that reports failure may have installed its tree, left the old one, *)
(* or, when the way back was cut off, left the directory missing.          *)
(***************************************************************************)
CONSTANTS Runs, Requests, Initial, Unasked, Missing,
          Exports(_, _)   \* Exports(q, t): the trees request q may make of tree t

VARIABLES tree, phase, asked

Open(r, q) ==
  /\ phase[r] = "idle" /\ \A o \in Runs : phase[o] \notin {"open", "installed"}
  /\ phase' = [phase EXCEPT ![r] = "open"]
  /\ asked' = [asked EXCEPT ![r] = q]
  /\ tree' = tree

Install(r) ==
  /\ phase[r] = "open" /\ phase' = [phase EXCEPT ![r] = "installed"]
  /\ tree' \in Exports(asked[r], tree)
  /\ asked' = asked

Report(r) ==
  /\ phase[r] = "installed" /\ phase' = [phase EXCEPT ![r] = "done"]
  /\ UNCHANGED <<tree, asked>>

Fail(r) ==
  /\ \/ phase[r] = "open" /\ tree' \in {tree, Missing}
     \/ phase[r] = "installed" /\ tree' = tree
  /\ phase' = [phase EXCEPT ![r] = "failed"]
  /\ asked' = asked

Init ==
  /\ tree \in Initial
  /\ phase = [r \in Runs |-> "idle"] /\ asked = [r \in Runs |-> Unasked]

Next == \E r \in Runs :
  (\E q \in Requests : Open(r, q)) \/ Install(r) \/ Report(r) \/ Fail(r)

Spec == Init /\ [][Next]_<<tree, phase, asked>>
=============================================================================
