---------------------------- MODULE Reachability ----------------------------
(* What roots lead to in any number of steps: the directories and files of *)
(* a walk, the configurations, directories and models of a project.        *)

\* The least set that holds the roots and, with a member, all that `leads' gives for it.  Only the
\* members that lead on are searched for.
Reached(roots, leads) ==
  LET inner  == {d \in DOMAIN leads : leads[d] # {}}
      closed == {S \in SUBSET inner :
                   \A d \in inner : (d \in roots \/ \E e \in S : d \in leads[e]) => d \in S}
  IN  roots \cup UNION {leads[d] : d \in {e \in inner : \A S \in closed : e \in S}}
=============================================================================
