------------------------ MODULE RepoInventoryProofs ------------------------
(* An inventory of a repository that reports no error is whole: what a     *)
(* walk that was not cut returns is all there is, a project without errors *)
(* has all its models, and of what both name nothing is dropped on the way *)
(* to the contracts.  Each part is shown for its own steps;                *)
(* ContractRunProofs carries it over to whole runs.                        *)
EXTENDS RepoInventory, FiniteSetTheorems, SequenceTheorems, WellFoundedInduction, TLAPS

-----------------------------------------------------------------------------
\* Of a sequence the head and the tail hold every element.
LEMMA HeadOrTail ==
  ASSUME NEW S, NEW s \in Seq(S), s # <<>>
  PROVE  /\ Head(s) \in S /\ Tail(s) \in Seq(S)
         /\ {s[i] : i \in 1 .. Len(s)} \subseteq {Head(s)} \cup {Tail(s)[i] : i \in 1 .. Len(Tail(s))}
         /\ {Tail(s)[i] : i \in 1 .. Len(Tail(s))} \subseteq {s[i] : i \in 1 .. Len(s)}
<1>1. Head(s) = s[1] /\ Head(s) \in S /\ Tail(s) \in Seq(S) /\ Len(Tail(s)) = Len(s) - 1 /\ Len(s) \in Nat
  OBVIOUS
<1>2. \A i \in 1 .. Len(Tail(s)) : Tail(s)[i] = s[i + 1] /\ i + 1 \in 1 .. Len(s)
  BY <1>1
<1>3. \A i \in 1 .. Len(s) : i = 1 \/ (i - 1 \in 1 .. Len(Tail(s)) /\ Tail(s)[i - 1] = s[i])
  BY <1>1, <1>2
<1>4. {s[i] : i \in 1 .. Len(s)} \subseteq {Head(s)} \cup {Tail(s)[i] : i \in 1 .. Len(Tail(s))}
  <2> SUFFICES ASSUME NEW i \in 1 .. Len(s)
               PROVE  s[i] = Head(s) \/ \E j \in 1 .. Len(Tail(s)) : s[i] = Tail(s)[j]
    OBVIOUS
  <2> QED BY <1>1, <1>3
<1>5. {Tail(s)[i] : i \in 1 .. Len(Tail(s))} \subseteq {s[i] : i \in 1 .. Len(s)}
  <2> SUFFICES ASSUME NEW i \in 1 .. Len(Tail(s)) PROVE \E j \in 1 .. Len(s) : Tail(s)[i] = s[j]
    OBVIOUS
  <2> QED BY <1>2
<1> QED BY <1>1, <1>4, <1>5

LEMMA LeastNatural ==
  ASSUME NEW S, S \subseteq Nat, S # {}
  PROVE  \E x \in S : \A y \in S : x <= y
<1> DEFINE R == OpToRel(<, Nat)
<1>1. IsWellFoundedOn(R, Nat)
  BY NatLessThanWellFounded
<1> HIDE DEF R
<1>2. PICK x \in S : \A y \in S : ~ (<<y, x>> \in R)
  BY <1>1, WFMin
<1>3. \A y \in S : ~ (y < x)
  BY <1>2 DEF R, OpToRel
<1> QED BY <1>3

(* What roots lead to, and what comes first.                               *)

\* The roots are in, what a member leads to is in, and nothing is in that a closed set can do without.
LEMMA ReachedFacts ==
  ASSUME NEW D, NEW roots \in SUBSET D, NEW leads \in [D -> SUBSET D]
  PROVE  /\ roots \subseteq Reached(roots, leads) /\ Reached(roots, leads) \subseteq D
         /\ \A d \in Reached(roots, leads) : leads[d] \subseteq Reached(roots, leads)
         /\ \A X \in SUBSET D :
              roots \subseteq X /\ (\A d \in X : leads[d] \subseteq X) => Reached(roots, leads) \subseteq X
<1> DEFINE inner  == {d \in D : leads[d] # {}}
           closed == {S \in SUBSET inner :
                        \A d \in inner : (d \in roots \/ \E e \in S : d \in leads[e]) => d \in S}
           least  == {e \in inner : \A S \in closed : e \in S}
           all    == roots \cup UNION {leads[d] : d \in least}
<1>1. Reached(roots, leads) = all
  BY DEF Reached
<1>2. all \subseteq D
  OBVIOUS
<1>3. ASSUME NEW d \in all PROVE leads[d] \subseteq all
  <2>1. CASE d \notin inner
    BY <1>2, <2>1
  <2>2. CASE d \in inner
    <3>1. ASSUME NEW S \in closed PROVE d \in S
      <4>1. d \in roots \/ \E e \in least : d \in leads[e]
        OBVIOUS
      <4>2. d \in roots \/ \E e \in S : d \in leads[e]
        BY <4>1, <3>1
      <4> QED BY <2>2, <4>2
    <3>2. d \in least
      BY <2>2, <3>1
    <3> HIDE DEF least
    <3> QED BY <3>2
  <2> QED BY <2>1, <2>2
<1>4. ASSUME NEW X \in SUBSET D, roots \subseteq X, \A d \in X : leads[d] \subseteq X
      PROVE  all \subseteq X
  <2> DEFINE S == X \cap inner
  <2>1. S \in closed
    <3>1. ASSUME NEW d \in inner, d \in roots \/ \E e \in S : d \in leads[e]
          PROVE  d \in S
      BY <1>4, <3>1
    <3> QED BY <3>1
  <2>2. least \subseteq X
    BY <2>1
  <2> HIDE DEF least
  <2> QED BY <1>4, <2>2
<1>5. \A X \in SUBSET D : roots \subseteq X /\ (\A d \in X : leads[d] \subseteq X) => all \subseteq X
  <2> HIDE DEF all
  <2> QED BY <1>4
<1>6. roots \subseteq all
  OBVIOUS
<1> HIDE DEF all
<1> QED BY <1>1, <1>2, <1>3, <1>5, <1>6, Zenon

\* Of paths there is a first one in the order of the repository.
LEMMA FirstIsThere ==
  ASSUME repo \in Repos, NEW S \in SUBSET Paths, S # {}
  PROVE  FirstOf(S) \in S
<1> DEFINE I == {i \in 1 .. Len(repo.order) : repo.order[i] \in S}
<1>1. repo.order \in Seq(Paths) /\ \A p \in Paths : \E i \in 1 .. Len(repo.order) : repo.order[i] = p
  BY ReposAssumption DEF TreeOK
<1>2. I \subseteq Nat /\ I # {}
  BY <1>1
<1>3. PICK i \in I : \A j \in I : i <= j
  <2> HIDE DEF I
  <2>1. \E i \in I : \A j \in I : i <= j
    BY <1>2, LeastNatural, Zenon
  <2> QED BY <2>1
<1>4. ASSUME NEW j \in 1 .. (i - 1), repo.order[j] \in S PROVE FALSE
  <2>1. Len(repo.order) \in Nat /\ i \in Int /\ 1 <= i /\ i <= Len(repo.order)
    BY <1>1
  <2>2. j \in 1 .. Len(repo.order) /\ j < i
    <3> HIDE DEF I
    <3> QED BY <2>1
  <2>3. j \in I
    BY <1>4, <2>2
  <2>4. ~ (j < i)
    <3> HIDE DEF I
    <3> QED BY <1>3, <2>1, <2>2, <2>3
  <2> QED BY <2>2, <2>4
<1> QED BY <1>3, <1>4 DEF FirstOf

-----------------------------------------------------------------------------
(* BoundedWalk: what a walk that was not cut returns is all there is.      *)

Frame == [left : SUBSET Paths, depth : Nat]

EntriesOf(t) == UNION {t[i].left : i \in 1 .. Len(t)}

\* What a walk has still to look at: the roots, and the entries of the directories it is in.
Starts == {rootsLeft[i] : i \in 1 .. Len(rootsLeft)}
Todo   == EntriesOf(trail) \ repo.skipped[walk]

Below(kind) == UNION {Leads(kind)[d] : d \in Seen(kind)}
Kept(p)     == p \in repo.wanted[walk] /\ IsFile(p)

\* The paths J are dealt with: what is listed in one of them is among the files found, not wanted or
\* still to be looked at.
Covers(J, starts, todo, files) ==
  /\ RootsOf(walk) \subseteq J \cup starts
  /\ \A d \in J : Leads(walk)[d] \subseteq todo \cup {e \in J : Kept(e) => e \in files}
  /\ walk = "specs" => \A r \in RootsOf(walk) \ starts : Kept(r) => r \in files

(* A walk keeps to what its roots lead to; unless it is cut, all of it is found, passed by or still *)
(* to be looked at.                                                                                 *)
WalkInv ==
  /\ WalkTypeOK
  /\ walk \in Walks =>
       /\ Starts \subseteq RootsOf(walk) /\ Todo \subseteq Below(walk)
       /\ found \subseteq Listed(walk)
       /\ cut \/ \E J \in SUBSET Paths : Covers(J, Starts, Todo, found)

LEMMA RepoTypes ==
  ASSUME repo \in Repos
  PROVE  /\ repo.content \in [Paths -> SUBSET Paths] /\ repo.kind \in [Paths -> PathKinds]
         /\ repo.skipped \in [Walks -> SUBSET Paths] /\ repo.wanted \in [Walks -> SUBSET Paths]
         /\ repo.closed \subseteq Paths
BY ReposAssumption DEF TreeOK

LEMMA SeenFacts ==
  ASSUME repo \in Repos, NEW kind \in Walks
  PROVE  /\ Leads(kind) \in [Paths -> SUBSET Paths] /\ RootsOf(kind) \subseteq Paths
         /\ RootsOf(kind) \subseteq Seen(kind) /\ Seen(kind) \subseteq Paths
         /\ \A d \in Seen(kind) : Leads(kind)[d] \subseteq Seen(kind)
         /\ \A X \in SUBSET Paths :
              RootsOf(kind) \subseteq X /\ (\A d \in X : Leads(kind)[d] \subseteq X) => Seen(kind) \subseteq X
<1>1. Leads(kind) \in [Paths -> SUBSET Paths]
  BY RepoTypes DEF Leads
<1>2. RootsOf(kind) \subseteq Paths
  BY WalkBoundsAssumption DEF RootsOf
<1> QED BY <1>1, <1>2, ReachedFacts DEF Seen

\* What a directory has on the trail.
LEMMA TrailFacts ==
  ASSUME NEW t \in Seq(Frame)
  PROVE  /\ \A f \in Frame : Append(t, f) \in Seq(Frame) /\ EntriesOf(Append(t, f)) = EntriesOf(t) \cup f.left
         /\ EntriesOf(t) \subseteq Paths
         /\ t # <<>> => /\ t[Len(t)] \in Frame /\ t[Len(t)].left \subseteq EntriesOf(t)
                        /\ t[Len(t)].left = {} =>
                             /\ SubSeq(t, 1, Len(t) - 1) \in Seq(Frame)
                             /\ EntriesOf(SubSeq(t, 1, Len(t) - 1)) = EntriesOf(t)
<1>1. ASSUME NEW f \in Frame
      PROVE  Append(t, f) \in Seq(Frame) /\ EntriesOf(Append(t, f)) = EntriesOf(t) \cup f.left
  <2> DEFINE u == Append(t, f)
  <2>1. u \in Seq(Frame) /\ Len(u) = Len(t) + 1 /\ Len(t) \in Nat
    OBVIOUS
  <2>2. \A i \in 1 .. Len(t) : u[i] = t[i] /\ i \in 1 .. Len(u)
    BY <2>1
  <2>3. u[Len(u)] = f /\ Len(u) \in 1 .. Len(u)
    BY <2>1
  <2>4. \A i \in 1 .. Len(u) : i = Len(u) \/ i \in 1 .. Len(t)
    BY <2>1
  <2> HIDE DEF u
  <2> QED BY <2>1, <2>2, <2>3, <2>4 DEF EntriesOf, u
<1>2. EntriesOf(t) \subseteq Paths
  <2>1. \A i \in 1 .. Len(t) : t[i] \in Frame
    OBVIOUS
  <2> QED BY <2>1 DEF EntriesOf, Frame
<1>3. ASSUME t # <<>> PROVE t[Len(t)] \in Frame /\ t[Len(t)].left \subseteq EntriesOf(t)
  <2>1. Len(t) \in 1 .. Len(t)
    BY <1>3
  <2> QED BY <2>1 DEF EntriesOf
<1>4. ASSUME t # <<>>, t[Len(t)].left = {}
      PROVE  /\ SubSeq(t, 1, Len(t) - 1) \in Seq(Frame)
             /\ EntriesOf(SubSeq(t, 1, Len(t) - 1)) = EntriesOf(t)
  <2> DEFINE u == SubSeq(t, 1, Len(t) - 1)
  <2>0. Len(t) \in Nat /\ Len(t) > 0 /\ \A i \in 1 .. Len(t) - 1 : t[i] \in Frame
    BY <1>4
  <2>1. u \in Seq(Frame) /\ Len(u) = Len(t) - 1
    <3>0. PICK n : n = Len(t) - 1
      OBVIOUS
    <3>1. n \in Nat /\ n = Len(t) - 1
      BY <2>0, <3>0
    <3>2. SubSeq(t, 1, n) \in Seq(Frame) /\ Len(SubSeq(t, 1, n)) = n
      BY <2>0, <3>1, SubSeqProperties
    <3> QED BY <3>1, <3>2
  <2>2. \A i \in 1 .. Len(u) : u[i] = t[i] /\ i \in 1 .. Len(t)
    BY <2>0, <2>1
  <2>3. \A i \in 1 .. Len(t) : i = Len(t) \/ i \in 1 .. Len(u)
    BY <2>0, <2>1
  <2> HIDE DEF u
  <2> QED BY <2>1, <2>2, <2>3, <1>4 DEF EntriesOf, u
<1> QED BY <1>1, <1>2, <1>3, <1>4

\* The innermost directory has one entry less.
LEMMA LessOne ==
  ASSUME NEW t \in Seq(Frame), t # <<>>, NEW e
  PROVE  LET below == [t EXCEPT ![Len(t)].left = @ \ {e}] IN
         /\ below \in Seq(Frame)
         /\ EntriesOf(below) \subseteq EntriesOf(t) /\ EntriesOf(t) \subseteq EntriesOf(below) \cup {e}
<1> DEFINE n == Len(t)
           below == [t EXCEPT ![n].left = @ \ {e}]
           less == [t[n] EXCEPT !.left = @ \ {e}]
<1>1. n \in Nat /\ n \in 1 .. n /\ t[n] \in Frame
  OBVIOUS
<1>2. less \in Frame /\ less.left = t[n].left \ {e}
  BY <1>1 DEF Frame
<1>3. below = [t EXCEPT ![n] = less]
  OBVIOUS
<1> HIDE DEF less, below
<1>4. below \in Seq(Frame) /\ Len(below) = n
  BY <1>1, <1>2, <1>3
<1>5. \A i \in 1 .. n : below[i] = IF i = n THEN less ELSE t[i]
  BY <1>1, <1>3
<1>6. EntriesOf(below) \subseteq EntriesOf(t)
  BY <1>1, <1>2, <1>4, <1>5 DEF EntriesOf
<1>7. EntriesOf(t) \subseteq EntriesOf(below) \cup {e}
  BY <1>1, <1>2, <1>4, <1>5 DEF EntriesOf
<1> QED BY <1>4, <1>6, <1>7 DEF below


\* Between the sequence of roots and the set of them.
LEMMA TailOfRoots ==
  ASSUME rootsLeft \in Seq(Paths), rootsLeft # <<>>
  PROVE  /\ Head(rootsLeft) \in Starts /\ Head(rootsLeft) \in Paths /\ Tail(rootsLeft) \in Seq(Paths)
         /\ {Tail(rootsLeft)[i] : i \in 1 .. Len(Tail(rootsLeft))} \subseteq Starts
         /\ Starts \subseteq {Head(rootsLeft)} \cup {Tail(rootsLeft)[i] : i \in 1 .. Len(Tail(rootsLeft))}
<1>1. 1 \in 1 .. Len(rootsLeft) /\ rootsLeft[1] = Head(rootsLeft)
  OBVIOUS
<1>2. Head(rootsLeft) \in Starts
  BY <1>1 DEF Starts
<1>3. rootsLeft \in Seq(Paths)
  OBVIOUS
<1> QED BY <1>2, <1>3, HeadOrTail DEF Starts

\* Going into a directory: unless that cuts the walk, all its entries are added to what is left to do.
LEMMA EnterFacts ==
  ASSUME WalkTypeOK, NEW d \in Paths, NEW depth \in Nat, NEW seen \in Nat,
         NEW below \in Seq(Frame), NEW roots \in Seq(Paths), Enter(d, depth, seen, below, roots),
         walk # "none"
  PROVE  LET content == IF d \in repo.closed THEN {} ELSE repo.content[d] IN
         /\ trail' \in Seq(Frame) /\ rootsLeft' \in Seq(Paths) /\ entries' \in Nat /\ cut' \in BOOLEAN
         /\ EntriesOf(trail') \subseteq EntriesOf(below) \cup content
         /\ rootsLeft' = <<>> \/ rootsLeft' = roots
         /\ ~cut' => ~cut /\ rootsLeft' = roots /\ EntriesOf(trail') = EntriesOf(below) \cup content
<1> DEFINE content == IF d \in repo.closed THEN {} ELSE repo.content[d]
           listed  == IF Wholesale /\ d \notin repo.closed THEN Cardinality(repo.content[d]) ELSE 0
           deep    == depth > Limits[walk].depth
           stop    == \/ seen >= Limits[walk].entries \/ seen + listed > Limits[walk].entries
                      \/ Timed /\ late
                      \/ deep /\ walk # "specs"
           frame   == [left |-> repo.content[d], depth |-> depth]
<1>1. /\ cut' = (cut \/ stop \/ deep)
      /\ rootsLeft' = (IF stop THEN <<>> ELSE roots)
      /\ entries' = seen + listed
      /\ trail' = (IF stop THEN <<>> ELSE IF deep \/ d \in repo.closed THEN below ELSE Append(below, frame))
  BY DEF Enter
<1>2. repo.content[d] \in SUBSET Paths /\ cut \in BOOLEAN
  BY RepoTypes DEF WalkTypeOK
<1>3. listed \in Nat
  <2>1. IsFiniteSet(repo.content[d])
    BY <1>2, ReposAssumption, FS_Subset
  <2> QED BY <2>1, FS_CardinalityType
<1>4. frame \in Frame /\ frame.left = repo.content[d]
  BY <1>2 DEF Frame
<1>5. EntriesOf(<<>>) = {}
  BY DEF EntriesOf
<1>6. <<>> \in Seq(Frame) /\ <<>> \in Seq(Paths)
  OBVIOUS
<1> HIDE DEF listed, deep, stop, frame
<1>7. entries' \in Nat /\ cut' \in BOOLEAN /\ rootsLeft' \in Seq(Paths)
  <2>1. stop \in BOOLEAN /\ deep \in BOOLEAN
    BY DEF stop, deep
  <2> QED BY <1>1, <1>2, <1>3, <1>6, <2>1
<1>8. CASE stop
  BY <1>1, <1>5, <1>6, <1>7, <1>8
<1>9. CASE ~stop /\ (deep \/ d \in repo.closed)
  BY <1>1, <1>7, <1>9
<1>10. CASE ~stop /\ ~(deep \/ d \in repo.closed)
  <2>1. trail' = Append(below, frame) /\ rootsLeft' = roots /\ cut' = cut
    BY <1>1, <1>2, <1>10
  <2>2. trail' \in Seq(Frame) /\ EntriesOf(trail') = EntriesOf(below) \cup repo.content[d]
    BY <2>1, <1>4, TrailFacts
  <2> QED BY <1>7, <1>10, <2>1, <2>2
<1> QED BY <1>8, <1>9, <1>10

\* A repository does not change under a walk.
LEMMA SameRepo ==
  ASSUME repo' = repo, NEW kind
  PROVE  /\ Leads(kind)' = Leads(kind) /\ Seen(kind)' = Seen(kind) /\ Below(kind)' = Below(kind)
         /\ RootsOf(kind)' = RootsOf(kind) /\ Listed(kind)' = Listed(kind)
<1>1. Leads(kind)' = Leads(kind) /\ RootsOf(kind)' = RootsOf(kind)
  BY DEF Leads, RootsOf
<1>2. Seen(kind)' = Seen(kind)
  BY <1>1 DEF Seen, Reached
<1> QED BY <1>1, <1>2 DEF Below, Listed

\* What a step has to keep.
LEMMA WalkKept ==
  ASSUME WalkTypeOK', UNCHANGED <<repo, walk>>,
         walk \in Walks =>
           /\ Starts' \subseteq RootsOf(walk) /\ Todo' \subseteq Below(walk) /\ found' \subseteq Listed(walk)
           /\ cut' \/ \E J \in SUBSET Paths : Covers(J, Starts', Todo', found')
  PROVE  WalkInv'
<1>1. PICK kind : kind = walk
  OBVIOUS
<1>2. kind = walk' /\ repo' = repo
  BY <1>1
<1>3. /\ Leads(kind)' = Leads(kind) /\ Below(kind)' = Below(kind)
      /\ RootsOf(kind)' = RootsOf(kind) /\ Listed(kind)' = Listed(kind)
  BY <1>2, SameRepo
<1>4. \A p : Kept(p)' <=> Kept(p)
  BY <1>1, <1>2 DEF Kept, IsFile, Follows
<1>5. ASSUME kind \in Walks
      PROVE  /\ Starts' \subseteq RootsOf(walk)' /\ Todo' \subseteq Below(walk)' /\ found' \subseteq Listed(walk)'
             /\ cut' \/ \E J \in SUBSET Paths : Covers(J, Starts, Todo, found)'
  <2>1. Starts' \subseteq RootsOf(kind) /\ Todo' \subseteq Below(kind) /\ found' \subseteq Listed(kind)
    BY <1>1, <1>5
  <2>2. RootsOf(walk)' = RootsOf(kind) /\ Below(walk)' = Below(kind) /\ Listed(walk)' = Listed(kind)
    BY <1>2, <1>3
  <2>3. ASSUME NEW J \in SUBSET Paths, Covers(J, Starts', Todo', found')
        PROVE  Covers(J, Starts, Todo, found)'
    <3>1. Leads(walk)' = Leads(walk) /\ RootsOf(walk)' = RootsOf(walk) /\ walk' = walk
      BY <1>1, <1>2, <1>3
    <3> QED BY <2>3, <3>1, <1>4 DEF Covers
  <2>4. cut' \/ \E J \in SUBSET Paths : Covers(J, Starts', Todo', found')
    BY <1>1, <1>5
  <2> QED BY <2>1, <2>2, <2>3, <2>4
<1> QED BY <1>1, <1>2, <1>5 DEF WalkInv, Walks

LEMMA BeginWalkInv ==
  ASSUME repo \in Repos, NEW kind \in Walks, BeginWalk(kind)
  PROVE  WalkInv'
<1>1. /\ walk' = kind /\ rootsLeft' = WalkRoots[kind] /\ trail' = <<>> /\ repo' = repo
      /\ entries' = 0 /\ counted' = 0 /\ found' = {} /\ cut' = FALSE /\ refused' = FALSE /\ late' = FALSE
  BY DEF BeginWalk
<1>2. WalkTypeOK'
  <2>1. WalkRoots[kind] \in Seq(Paths) /\ <<>> \in Seq([left : SUBSET Paths, depth : Nat])
    BY WalkBoundsAssumption
  <2> QED BY <1>1, <2>1 DEF WalkTypeOK
<1>3. Starts' = RootsOf(kind)
  BY <1>1 DEF Starts, RootsOf
<1>4. Todo' = {}
  BY <1>1 DEF Todo, EntriesOf
<1>5. RootsOf(walk)' = RootsOf(kind)
  BY <1>1 DEF RootsOf
<1>6. Covers({}, Starts, Todo, found)'
  BY <1>1, <1>3, <1>5 DEF Covers
<1> QED BY <1>1, <1>2, <1>3, <1>4, <1>5, <1>6 DEF WalkInv

\* A step that touches nothing of a walk, or only ends it.
LEMMA WalkIdleInv == WalkInv /\ (UNCHANGED walkVars \/ EndWalk) => WalkInv'
<1>1. ASSUME WalkInv, EndWalk PROVE WalkInv'
  <2>1. WalkTypeOK' /\ walk' = "none"
    BY <1>1 DEF WalkInv, WalkTypeOK, EndWalk
  <2> QED BY <2>1 DEF WalkInv, Walks
<1>2. ASSUME WalkInv, UNCHANGED walkVars PROVE WalkInv'
  <2>1. WalkTypeOK' /\ UNCHANGED <<repo, walk>> /\ UNCHANGED <<cut, found>>
    BY <1>2 DEF WalkInv, WalkTypeOK, walkVars
  <2>2. Starts' = Starts /\ Todo' = Todo
    BY <1>2 DEF Starts, Todo, EntriesOf, walkVars
  <2> QED BY <1>2, <2>1, <2>2, WalkKept DEF WalkInv, Walks
<1> QED BY <1>1, <1>2

LEMMA LeaveDirInv ==
  ASSUME WalkInv, LeaveDir
  PROVE  WalkInv'
<1>1. /\ trail # <<>> /\ trail[Len(trail)].left = {} /\ trail' = SubSeq(trail, 1, Len(trail) - 1)
      /\ UNCHANGED <<repo, walk, rootsLeft, entries, counted, found, cut, refused, late>>
  BY DEF LeaveDir
<1>2. trail \in Seq(Frame) /\ WalkTypeOK
  BY DEF WalkInv, WalkTypeOK, Frame
<1>3. trail' \in Seq(Frame) /\ EntriesOf(trail') = EntriesOf(trail)
  BY <1>1, <1>2, TrailFacts
<1>4. WalkTypeOK'
  BY <1>1, <1>2, <1>3 DEF WalkTypeOK, Frame
<1>5. Starts' = Starts /\ Todo' = Todo
  BY <1>1, <1>3 DEF Starts, Todo
<1> QED BY <1>1, <1>4, <1>5, WalkKept DEF WalkInv, Walks

LEMMA TimeIsUpInv ==
  ASSUME WalkInv, TimeIsUp
  PROVE  WalkInv'
<1>1. late' = TRUE /\ UNCHANGED <<repo, walk, rootsLeft, trail, entries, counted, found, cut, refused>>
  BY DEF TimeIsUp
<1>2. WalkTypeOK'
  BY <1>1 DEF WalkInv, WalkTypeOK
<1>3. Starts' = Starts /\ Todo' = Todo
  BY <1>1 DEF Starts, Todo, EntriesOf
<1> QED BY <1>1, <1>2, <1>3, WalkKept DEF WalkInv, Walks

LEMMA StopWalkInv ==
  ASSUME WalkInv, StopWalk, refused' \in BOOLEAN, UNCHANGED <<repo, walk, late>>
  PROVE  WalkInv'
<1>1. trail' = <<>> /\ rootsLeft' = <<>> /\ cut' = TRUE /\ UNCHANGED <<entries, counted, found>>
  BY DEF StopWalk
<1>2. WalkTypeOK'
  BY <1>1 DEF WalkInv, WalkTypeOK
<1>3. Starts' = {} /\ Todo' = {}
  BY <1>1 DEF Starts, Todo, EntriesOf
<1> QED BY <1>1, <1>2, <1>3, WalkKept DEF WalkInv, Walks

\* What a path leads to in a walk under way.
LEMMA LeadsHere ==
  ASSUME repo \in Repos, NEW d \in Paths, walk \in Walks
  PROVE  Leads(walk)[d] = IF IsDir(d) /\ d \notin repo.closed THEN repo.content[d] \ repo.skipped[walk] ELSE {}
BY DEF Leads, IsDir, Follows

\* A kept path under a root, or a root of the walk for contracts, is listed.
LEMMA KeptIsListed ==
  ASSUME repo \in Repos, walk \in Walks, NEW p, Kept(p),
         p \in Below(walk) \/ (walk = "specs" /\ p \in Seen(walk))
  PROVE  p \in Listed(walk)
<1>1. walk = "specs" => Below(walk) \subseteq Seen(walk)
  BY SeenFacts DEF Below, Walks
<1>2. p \in (IF walk = "specs" THEN Seen(walk) ELSE UNION {Leads(walk)[d] : d \in Seen(walk)})
  BY <1>1 DEF Below
<1>3. p \in repo.wanted[walk] /\ (repo.kind[p] = "file" \/ (walk = "scan" /\ repo.kind[p] = "filelink"))
  BY DEF Kept, IsFile, Follows
<1> QED BY <1>2, <1>3 DEF Listed

LEMMA VisitInv ==
  ASSUME WalkInv, NEW e \in Paths, Visit(e)
  PROVE  WalkInv'
<1> DEFINE below == [trail EXCEPT ![Len(trail)].left = @ \ {e}]
           seen  == IF Wholesale THEN entries ELSE entries + 1
           depth == trail[Len(trail)].depth + 1
<1>1. /\ walk # "none" /\ trail # <<>> /\ e \in trail[Len(trail)].left
      /\ UNCHANGED <<repo, walk, refused, late>>
  BY DEF Visit
<1>2. WalkTypeOK /\ trail \in Seq(Frame) /\ repo \in Repos /\ walk \in Walks /\ entries \in Nat
  BY <1>1 DEF WalkInv, WalkTypeOK, Frame
<1>3. /\ below \in Seq(Frame)
      /\ EntriesOf(below) \subseteq EntriesOf(trail) /\ EntriesOf(trail) \subseteq EntriesOf(below) \cup {e}
  BY <1>1, <1>2, LessOne
<1>4. seen \in Nat /\ depth \in Nat
  <2>1. trail[Len(trail)] \in Frame
    BY <1>1, <1>2, TrailFacts
  <2> QED BY <1>2, <2>1 DEF Frame
<1>5. e \in EntriesOf(trail) /\ (e \notin repo.skipped[walk] => e \in Todo)
  BY <1>1, <1>2, TrailFacts DEF Todo
<1>6. refused' \in BOOLEAN /\ late' \in BOOLEAN
  BY <1>1, <1>2 DEF WalkTypeOK
<1>7. \/ StopWalk
      \/ /\ e \notin repo.skipped[walk] /\ IsDir(e)
         /\ Enter(e, depth, seen, below, rootsLeft) /\ UNCHANGED <<counted, found>>
      \/ /\ ~(e \notin repo.skipped[walk] /\ IsDir(e))
         /\ trail' = below /\ entries' = seen /\ UNCHANGED <<rootsLeft, cut>>
         /\ IF e \notin repo.skipped[walk] /\ IsFile(e) /\ e \in repo.wanted[walk]
            THEN found' = found \cup {e} /\ counted' = counted + 1
            ELSE UNCHANGED <<found, counted>>
  BY DEF Visit
<1> HIDE DEF below, seen, depth
<1>8. CASE StopWalk
  BY <1>1, <1>6, <1>8, StopWalkInv
\* A directory: the entry is dealt with, what it holds is still to be looked at.
<1>9. CASE /\ e \notin repo.skipped[walk] /\ IsDir(e)
           /\ Enter(e, depth, seen, below, rootsLeft) /\ UNCHANGED <<counted, found>>
  <2> DEFINE content == IF e \in repo.closed THEN {} ELSE repo.content[e]
  <2>1. rootsLeft \in Seq(Paths)
    BY <1>2 DEF WalkTypeOK
  <2>2. /\ trail' \in Seq(Frame) /\ rootsLeft' \in Seq(Paths) /\ entries' \in Nat /\ cut' \in BOOLEAN
        /\ EntriesOf(trail') \subseteq EntriesOf(below) \cup content
        /\ rootsLeft' = <<>> \/ rootsLeft' = rootsLeft
        /\ ~cut' => ~cut /\ rootsLeft' = rootsLeft /\ EntriesOf(trail') = EntriesOf(below) \cup content
    BY <1>1, <1>2, <1>3, <1>4, <1>9, <2>1, EnterFacts
  <2>3. WalkTypeOK'
    BY <1>1, <1>2, <1>6, <1>9, <2>2 DEF WalkTypeOK, Frame
  <2> HIDE DEF content
  <2>4. ASSUME walk \in Walks
        PROVE  /\ Starts' \subseteq RootsOf(walk) /\ Todo' \subseteq Below(walk) /\ found' \subseteq Listed(walk)
               /\ cut' \/ \E J \in SUBSET Paths : Covers(J, Starts', Todo', found')
    <3>1. /\ Starts \subseteq RootsOf(walk) /\ Todo \subseteq Below(walk) /\ found \subseteq Listed(walk)
          /\ cut \/ \E J \in SUBSET Paths : Covers(J, Starts, Todo, found)
      BY <2>4 DEF WalkInv, Walks
    <3>2. Leads(walk)[e] = content \ repo.skipped[walk]
      BY <1>2, <1>9, LeadsHere DEF content
    <3>3. Starts' \subseteq Starts /\ (rootsLeft' = rootsLeft => Starts' = Starts)
      BY <2>2 DEF Starts
    <3>4. Todo' \subseteq Todo \cup Leads(walk)[e]
      BY <1>1, <1>3, <2>2, <3>2 DEF Todo
    <3>5. Leads(walk)[e] \subseteq Below(walk)
      <4>1. e \in Seen(walk)
        BY <1>2, <1>5, <1>9, <3>1, SeenFacts DEF Below
      <4> QED BY <4>1 DEF Below
    <3>6. ASSUME ~cut' PROVE \E J \in SUBSET Paths : Covers(J, Starts', Todo', found')
      <4>1. PICK J \in SUBSET Paths : Covers(J, Starts, Todo, found)
        BY <2>2, <3>1, <3>6
      <4>2. Todo \cup Leads(walk)[e] \subseteq Todo' \cup {e} /\ Leads(walk)[e] \subseteq Todo'
        BY <1>1, <1>3, <2>2, <3>2, <3>6 DEF Todo
      <4>3. Starts' = Starts /\ found' = found
        BY <1>9, <2>2, <3>3, <3>6
      <4>4. ~Kept(e)
        BY <1>9 DEF Kept, IsDir, IsFile, Follows
      <4>5. Covers(J \cup {e}, Starts', Todo', found')
        BY <4>1, <4>2, <4>3, <4>4 DEF Covers
      <4> QED BY <4>5
    <3> QED BY <1>9, <3>1, <3>3, <3>4, <3>5, <3>6
  <2> QED BY <1>1, <2>3, <2>4, WalkKept
\* Anything else: a file that is wanted is found.
<1>10. CASE /\ ~(e \notin repo.skipped[walk] /\ IsDir(e))
            /\ trail' = below /\ entries' = seen /\ UNCHANGED <<rootsLeft, cut>>
            /\ IF e \notin repo.skipped[walk] /\ IsFile(e) /\ e \in repo.wanted[walk]
               THEN found' = found \cup {e} /\ counted' = counted + 1
               ELSE UNCHANGED <<found, counted>>
  <2>1. /\ found \subseteq found' /\ found' \subseteq found \cup {e} /\ found' \subseteq Paths /\ counted' \in Nat
        /\ found' # found => e \notin repo.skipped[walk] /\ Kept(e)
        /\ e \notin repo.skipped[walk] /\ Kept(e) => e \in found'
    BY <1>2, <1>10 DEF WalkTypeOK, Kept
  <2>2. WalkTypeOK'
    BY <1>1, <1>2, <1>3, <1>4, <1>6, <1>10, <2>1 DEF WalkTypeOK, Frame
  <2>3. ASSUME walk \in Walks
        PROVE  /\ Starts' \subseteq RootsOf(walk) /\ Todo' \subseteq Below(walk) /\ found' \subseteq Listed(walk)
               /\ cut' \/ \E J \in SUBSET Paths : Covers(J, Starts', Todo', found')
    <3>1. /\ Starts \subseteq RootsOf(walk) /\ Todo \subseteq Below(walk) /\ found \subseteq Listed(walk)
          /\ cut \/ \E J \in SUBSET Paths : Covers(J, Starts, Todo, found)
      BY <2>3 DEF WalkInv, Walks
    <3>2. Starts' = Starts /\ cut' = cut /\ Todo' \subseteq Todo
      BY <1>1, <1>3, <1>10 DEF Starts, Todo
    <3>3. found' \subseteq Listed(walk)
      <4>1. CASE found' = found
        BY <3>1, <4>1
      <4>2. CASE found' # found
        <5>1. e \in Listed(walk)
          BY <1>2, <1>5, <2>1, <2>3, <3>1, <4>2, KeptIsListed
        <5> QED BY <2>1, <3>1, <5>1
      <4> QED BY <4>1, <4>2
    <3>4. ASSUME NEW J \in SUBSET Paths, Covers(J, Starts, Todo, found)
          PROVE  \E K \in SUBSET Paths : Covers(K, Starts', Todo', found')
      <4>1. Todo \subseteq Todo' \cup {e}
        BY <1>1, <1>3, <1>10 DEF Todo
      <4>2. CASE e \in repo.skipped[walk]
        <5>1. Todo \subseteq Todo' /\ found' = found
          BY <4>1, <4>2, <2>1 DEF Todo
        <5>2. Covers(J, Starts', Todo', found')
          BY <3>2, <3>4, <5>1 DEF Covers
        <5> QED BY <5>2
      <4>3. CASE e \notin repo.skipped[walk]
        <5>1. Leads(walk)[e] = {} /\ (Kept(e) => e \in found')
          BY <1>2, <1>10, <2>1, <4>3, LeadsHere
        <5>2. Covers(J \cup {e}, Starts', Todo', found')
          BY <3>2, <3>4, <4>1, <5>1, <2>1 DEF Covers
        <5> QED BY <5>2
      <4> QED BY <4>2, <4>3
    <3> QED BY <3>1, <3>2, <3>3, <3>4
  <2> QED BY <1>1, <2>2, <2>3, WalkKept
<1> QED BY <1>7, <1>8, <1>9, <1>10

LEMMA EnterRootInv ==
  ASSUME WalkInv, EnterRoot
  PROVE  WalkInv'
<1> DEFINE r    == Head(rootsLeft)
           seen == IF walk = "generated" THEN 0 ELSE entries
           rest == Tail(rootsLeft)
<1>1. walk # "none" /\ trail = <<>> /\ rootsLeft # <<>> /\ UNCHANGED <<repo, walk, late>>
  BY DEF EnterRoot
<1>2. WalkTypeOK /\ repo \in Repos /\ walk \in Walks /\ entries \in Nat /\ rootsLeft \in Seq(Paths)
  BY <1>1 DEF WalkInv, WalkTypeOK
<1>3. /\ r \in Starts /\ r \in Paths /\ rest \in Seq(Paths)
      /\ {rest[i] : i \in 1 .. Len(rest)} \subseteq Starts
      /\ Starts \subseteq {r} \cup {rest[i] : i \in 1 .. Len(rest)}
  BY <1>1, <1>2, TailOfRoots
<1>4. \/ StopWalk /\ UNCHANGED refused
      \/ /\ refused' = (refused \/ (walk = "specs" /\ repo.kind[r] \in {"dirlink", "filelink"}))
         /\ found' = (IF walk = "specs" /\ repo.kind[r] = "file" /\ r \in repo.wanted[walk]
                      THEN found \cup {r} ELSE found)
         /\ IF IsDir(r) THEN Enter(r, 0, seen, <<>>, rest)
            ELSE rootsLeft' = rest /\ UNCHANGED <<trail, entries, cut>>
         /\ UNCHANGED counted
  BY DEF EnterRoot
<1>5. refused \in BOOLEAN /\ seen \in Nat /\ 0 \in Nat /\ <<>> \in Seq(Frame) /\ EntriesOf(<<>>) = {}
  BY <1>2 DEF WalkTypeOK, EntriesOf
<1> HIDE DEF r, seen, rest
<1>6. CASE StopWalk /\ UNCHANGED refused
  BY <1>1, <1>5, <1>6, StopWalkInv
<1>7. CASE /\ refused' = (refused \/ (walk = "specs" /\ repo.kind[r] \in {"dirlink", "filelink"}))
           /\ found' = (IF walk = "specs" /\ repo.kind[r] = "file" /\ r \in repo.wanted[walk]
                        THEN found \cup {r} ELSE found)
           /\ IF IsDir(r) THEN Enter(r, 0, seen, <<>>, rest)
              ELSE rootsLeft' = rest /\ UNCHANGED <<trail, entries, cut>>
           /\ UNCHANGED counted
  <2> DEFINE content == IF IsDir(r) /\ r \notin repo.closed THEN repo.content[r] ELSE {}
  <2>1. /\ trail' \in Seq(Frame) /\ rootsLeft' \in Seq(Paths) /\ entries' \in Nat /\ cut' \in BOOLEAN
        /\ EntriesOf(trail') \subseteq content
        /\ rootsLeft' = <<>> \/ rootsLeft' = rest
        /\ ~cut' => ~cut /\ rootsLeft' = rest /\ EntriesOf(trail') = content
    <3>1. CASE IsDir(r)
      <4>1. Enter(r, 0, seen, <<>>, rest)
        BY <1>7, <3>1
      <4> DEFINE inside == IF r \in repo.closed THEN {} ELSE repo.content[r]
      <4>2. /\ trail' \in Seq(Frame) /\ rootsLeft' \in Seq(Paths) /\ entries' \in Nat /\ cut' \in BOOLEAN
            /\ EntriesOf(trail') \subseteq EntriesOf(<<>>) \cup inside
            /\ rootsLeft' = <<>> \/ rootsLeft' = rest
            /\ ~cut' => ~cut /\ rootsLeft' = rest /\ EntriesOf(trail') = EntriesOf(<<>>) \cup inside
        BY <1>1, <1>2, <1>3, <1>5, <4>1, EnterFacts
      <4>3. inside = content
        BY <3>1
      <4> HIDE DEF inside, content
      <4> QED BY <1>5, <4>2, <4>3
    <3>2. CASE ~IsDir(r)
      <4>1. trail' = <<>> /\ rootsLeft' = rest /\ entries' = entries /\ cut' = cut
        BY <1>1, <1>7, <3>2
      <4> QED BY <1>2, <1>3, <1>5, <3>2, <4>1 DEF WalkTypeOK
    <3> QED BY <3>1, <3>2
  <2>2. /\ found \subseteq found' /\ found' \subseteq found \cup {r} /\ found' \subseteq Paths
        /\ found' # found => walk = "specs" /\ Kept(r)
        /\ walk = "specs" /\ Kept(r) => r \in found'
    BY <1>2, <1>3, <1>7 DEF WalkTypeOK, Kept, IsFile, Follows
  <2>3. WalkTypeOK'
    <3>1. refused' \in BOOLEAN
      BY <1>5, <1>7
    <3>2. repo' = repo /\ walk' = walk /\ late' = late /\ counted' = counted
      BY <1>1, <1>7
    <3> QED BY <1>2, <2>1, <2>2, <3>1, <3>2 DEF WalkTypeOK, Frame
  <2> HIDE DEF content
  <2>4. ASSUME walk \in Walks
        PROVE  /\ Starts' \subseteq RootsOf(walk) /\ Todo' \subseteq Below(walk) /\ found' \subseteq Listed(walk)
               /\ cut' \/ \E J \in SUBSET Paths : Covers(J, Starts', Todo', found')
    <3>1. /\ Starts \subseteq RootsOf(walk) /\ Todo \subseteq Below(walk) /\ found \subseteq Listed(walk)
          /\ cut \/ \E J \in SUBSET Paths : Covers(J, Starts, Todo, found)
      BY <2>4 DEF WalkInv, Walks
    <3>2. Leads(walk)[r] = content \ repo.skipped[walk]
      BY <1>2, <1>3, LeadsHere DEF content
    <3>3. Starts' \subseteq Starts /\ (~cut' => Starts \subseteq Starts' \cup {r})
      <4>1. CASE rootsLeft' = <<>>
        <5>1. Starts' = {}
          BY <4>1 DEF Starts
        <5>2. ~cut' => rest = <<>> /\ {rest[i] : i \in 1 .. Len(rest)} = {}
          BY <2>1, <4>1
        <5> QED BY <1>3, <5>1, <5>2
      <4>2. CASE rootsLeft' = rest
        <5>1. Starts' = {rest[i] : i \in 1 .. Len(rest)}
          BY <4>2 DEF Starts
        <5> QED BY <1>3, <5>1
      <4> QED BY <2>1, <4>1, <4>2
    <3>4. r \in Seen(walk)
      BY <1>2, <1>3, <3>1, SeenFacts
    <3>5. Todo' \subseteq Leads(walk)[r] /\ (~cut' => Leads(walk)[r] \subseteq Todo')
      BY <1>1, <2>1, <3>2 DEF Todo
    <3>6. Leads(walk)[r] \subseteq Below(walk)
      BY <3>4 DEF Below
    <3>7. found' \subseteq Listed(walk)
      <4>1. CASE found' # found
        <5>1. r \in Listed(walk)
          BY <1>2, <2>2, <2>4, <3>4, <4>1, KeptIsListed
        <5> QED BY <2>2, <3>1, <5>1
      <4> QED BY <3>1, <4>1
    <3>8. ASSUME ~cut' PROVE \E J \in SUBSET Paths : Covers(J, Starts', Todo', found')
      <4>1. PICK J \in SUBSET Paths : Covers(J, Starts, Todo, found)
        BY <2>1, <3>1, <3>8
      <4>2. Todo = {}
        BY <1>1, <1>5 DEF Todo
      \* What is not a directory leads nowhere; it may be listed elsewhere, and is dealt with there.
      <4>3. CASE r \in J
        <5>1. Covers(J, Starts', Todo', found')
          BY <2>2, <3>3, <3>5, <3>8, <4>1, <4>2, <4>3 DEF Covers
        <5> QED BY <5>1
      <4>4. CASE r \notin J
        <5>1. Covers(J \cup {r}, Starts', Todo', found')
          BY <2>2, <3>3, <3>5, <3>8, <4>1, <4>2, <4>4 DEF Covers
        <5> QED BY <1>3, <5>1
      <4> QED BY <4>3, <4>4
    <3> QED BY <3>1, <3>3, <3>5, <3>6, <3>7, <3>8
  <2> QED BY <1>1, <2>3, <2>4, WalkKept
<1> QED BY <1>4, <1>6, <1>7

LEMMA WalkStepInv == WalkInv /\ WalkStep => WalkInv'
BY EnterRootInv, VisitInv, LeaveDirInv, TimeIsUpInv DEF WalkStep

\* A walk that is over and was not cut has found all there is.
LEMMA WholeWalk ==
  ASSUME WalkInv, WalkDone, walk \in Walks
  PROVE  found \subseteq Listed(walk) /\ (~cut => found = Listed(walk))
<1>1. /\ Starts = {} /\ Todo = {} /\ found \subseteq Listed(walk) /\ repo \in Repos /\ walk \in Walks
      /\ cut \/ \E J \in SUBSET Paths : Covers(J, Starts, Todo, found)
  <2>1. Starts = {} /\ Todo = {}
    BY DEF WalkDone, Starts, Todo, EntriesOf
  <2> QED BY <2>1 DEF WalkInv, WalkTypeOK, Walks
<1>2. ASSUME ~cut PROVE Listed(walk) \subseteq found
  <2>1. PICK J \in SUBSET Paths : Covers(J, Starts, Todo, found)
    BY <1>1, <1>2
  <2>2. RootsOf(walk) \subseteq J /\ \A d \in J : Leads(walk)[d] \subseteq {e \in J : Kept(e) => e \in found}
    BY <1>1, <2>1 DEF Covers
  <2>3. Seen(walk) \subseteq J
    <3>1. \A d \in J : Leads(walk)[d] \subseteq J
      BY <2>2
    <3> QED BY <1>1, <2>2, <3>1, SeenFacts
  <2> SUFFICES ASSUME NEW f \in Listed(walk) PROVE f \in found
    OBVIOUS
  <2>4. Kept(f) /\ f \in (IF walk = "specs" THEN Seen(walk) ELSE UNION {Leads(walk)[d] : d \in Seen(walk)})
    BY DEF Listed, Kept, IsFile, Follows
  <2>5. CASE \E d \in Seen(walk) : f \in Leads(walk)[d]
    BY <2>2, <2>3, <2>4, <2>5
  <2>6. CASE walk = "specs" /\ f \in RootsOf(walk)
    BY <1>1, <2>1, <2>4, <2>6 DEF Covers
  \* What is seen is a root or listed somewhere.
  <2>7. Seen(walk) \subseteq RootsOf(walk) \cup UNION {Leads(walk)[d] : d \in Seen(walk)}
    <3> DEFINE X == RootsOf(walk) \cup UNION {Leads(walk)[d] : d \in Seen(walk)}
    <3>1. X \subseteq Seen(walk) /\ X \in SUBSET Paths
      BY <1>1, SeenFacts
    <3>2. \A d \in X : Leads(walk)[d] \subseteq X
      BY <3>1
    <3> HIDE DEF X
    <3>3. Seen(walk) \subseteq X
      BY <1>1, <3>1, <3>2, SeenFacts DEF X
    <3> QED BY <3>3 DEF X
  <2> QED BY <2>4, <2>5, <2>6, <2>7
<1> QED BY <1>1, <1>2

-----------------------------------------------------------------------------
(* SmithyClosure: a project without errors has all its models.             *)

SmithyFrame == [node : Nodes, depth : Nat, plan : Seq(Nodes), left : SUBSET Nodes]

\* What a frame has still to look at, and what all of them have.
LeftIn(f)   == {f.plan[i] : i \in 1 .. Len(f.plan)} \cup {e \in f.left : project.kind[e] \in {"dir", "model"}}
Waiting(t)  == UNION {LeftIn(t[i]) : i \in 1 .. Len(t)}
Belonging   == Reached({project.root}, Refers(project))

\* The paths K are dealt with: what one of them names is in K or waits, and the models in K are read.
Gathers(K, waiting, taken, seen) ==
  /\ project.root \in K /\ seen \subseteq K
  /\ \A n \in K : Refers(project)[n] \subseteq K \cup waiting /\ (project.kind[n] = "model" => n \in taken)

(* A project keeps to what its configuration leads to; as long as nothing went wrong, all of it is  *)
(* dealt with or waits.                                                                             *)
SmithyInv ==
  /\ SmithyTypeOK
  /\ smithyStep = "root" => frames = <<>> /\ models = {} /\ problems = {} /\ walked = {}
  /\ smithyStep \in {"collect", "done"} /\ problems = {} =>
       /\ Waiting(frames) \subseteq Belonging /\ models \subseteq ModelsIn(project)
       /\ \E K \in SUBSET Nodes : Gathers(K, Waiting(frames), models, walked)
       /\ smithyStep = "done" => frames = <<>>

LEMMA ProjectTypes ==
  ASSUME project \in Projects
  PROVE  /\ project.root \in Nodes /\ project.kind \in [Nodes -> NodeKinds] /\ project.plan \in [Nodes -> Seq(Nodes)]
         /\ project.content \in [Nodes -> SUBSET Nodes] /\ project.size \in [Nodes -> Nat]
         /\ project.kind[project.root] = "config"
BY ProjectsAssumption DEF ProjectOK

LEMMA BelongingFacts ==
  ASSUME project \in Projects
  PROVE  /\ Refers(project) \in [Nodes -> SUBSET Nodes]
         /\ project.root \in Belonging /\ Belonging \subseteq Nodes
         /\ \A n \in Belonging : Refers(project)[n] \subseteq Belonging
         /\ \A X \in SUBSET Nodes :
              project.root \in X /\ (\A n \in X : Refers(project)[n] \subseteq X) => Belonging \subseteq X
<1>1. Refers(project) \in [Nodes -> SUBSET Nodes]
  <2>1. \A n \in Nodes : project.plan[n] \in Seq(Nodes) /\ project.content[n] \in SUBSET Nodes
    BY ProjectTypes
  <2>2. \A n \in Nodes : {project.plan[n][i] : i \in 1 .. Len(project.plan[n])} \subseteq Nodes
    BY <2>1
  <2> QED BY <2>1, <2>2 DEF Refers
<1>2. {project.root} \in SUBSET Nodes
  BY ProjectTypes
<1>3. /\ {project.root} \subseteq Belonging /\ Belonging \subseteq Nodes
      /\ \A n \in Belonging : Refers(project)[n] \subseteq Belonging
      /\ \A X \in SUBSET Nodes :
           {project.root} \subseteq X /\ (\A n \in X : Refers(project)[n] \subseteq X) => Belonging \subseteq X
  <2>1. PICK roots, leads : roots = {project.root} /\ leads = Refers(project)
    OBVIOUS
  <2>2. roots \in SUBSET Nodes /\ leads \in [Nodes -> SUBSET Nodes] /\ Belonging = Reached(roots, leads)
    BY <1>1, <1>2, <2>1 DEF Belonging
  <2>3. /\ roots \subseteq Belonging /\ Belonging \subseteq Nodes
        /\ \A n \in Belonging : leads[n] \subseteq Belonging
        /\ \A X \in SUBSET Nodes :
             roots \subseteq X /\ (\A n \in X : leads[n] \subseteq X) => Belonging \subseteq X
    BY <2>2, ReachedFacts
  <2> QED BY <2>1, <2>3
<1>4. \A X \in SUBSET Nodes : project.root \in X => {project.root} \subseteq X
  OBVIOUS
<1> QED BY <1>1, <1>3, <1>4

\* What waits in a stack of frames.
LEMMA WaitingFacts ==
  ASSUME NEW t \in Seq(SmithyFrame)
  PROVE  /\ \A f \in SmithyFrame : /\ Append(t, f) \in Seq(SmithyFrame)
                                   /\ Waiting(Append(t, f)) = Waiting(t) \cup LeftIn(f)
         /\ t # <<>> => /\ t[Len(t)] \in SmithyFrame /\ LeftIn(t[Len(t)]) \subseteq Waiting(t)
                        /\ SubSeq(t, 1, Len(t) - 1) \in Seq(SmithyFrame)
                        /\ LeftIn(t[Len(t)]) = {} => Waiting(SubSeq(t, 1, Len(t) - 1)) = Waiting(t)
<1>1. ASSUME NEW f \in SmithyFrame
      PROVE  Append(t, f) \in Seq(SmithyFrame) /\ Waiting(Append(t, f)) = Waiting(t) \cup LeftIn(f)
  <2> DEFINE u == Append(t, f)
  <2>1. u \in Seq(SmithyFrame) /\ Len(u) = Len(t) + 1 /\ Len(t) \in Nat
    OBVIOUS
  <2>2. \A i \in 1 .. Len(t) : u[i] = t[i] /\ i \in 1 .. Len(u)
    BY <2>1
  <2>3. u[Len(u)] = f /\ Len(u) \in 1 .. Len(u)
    BY <2>1
  <2>4. \A i \in 1 .. Len(u) : i = Len(u) \/ i \in 1 .. Len(t)
    BY <2>1
  <2> HIDE DEF u
  <2> QED BY <2>1, <2>2, <2>3, <2>4 DEF Waiting, u
<1>2. ASSUME t # <<>> PROVE t[Len(t)] \in SmithyFrame /\ LeftIn(t[Len(t)]) \subseteq Waiting(t)
  <2>1. Len(t) \in 1 .. Len(t)
    BY <1>2
  <2> QED BY <2>1 DEF Waiting
<1>3. ASSUME t # <<>>
      PROVE  /\ SubSeq(t, 1, Len(t) - 1) \in Seq(SmithyFrame)
             /\ LeftIn(t[Len(t)]) = {} => Waiting(SubSeq(t, 1, Len(t) - 1)) = Waiting(t)
  <2> DEFINE u == SubSeq(t, 1, Len(t) - 1)
  <2>0. Len(t) \in Nat /\ Len(t) > 0 /\ \A i \in 1 .. Len(t) - 1 : t[i] \in SmithyFrame
    BY <1>3
  <2>1. u \in Seq(SmithyFrame) /\ Len(u) = Len(t) - 1
    <3>0. PICK n : n = Len(t) - 1
      OBVIOUS
    <3>1. n \in Nat /\ n = Len(t) - 1
      BY <2>0, <3>0
    <3>2. SubSeq(t, 1, n) \in Seq(SmithyFrame) /\ Len(SubSeq(t, 1, n)) = n
      BY <2>0, <3>1, SubSeqProperties
    <3> QED BY <3>1, <3>2
  <2>2. \A i \in 1 .. Len(u) : u[i] = t[i] /\ i \in 1 .. Len(t)
    BY <2>0, <2>1
  <2>3. \A i \in 1 .. Len(t) : i = Len(t) \/ i \in 1 .. Len(u)
    BY <2>0, <2>1
  <2> HIDE DEF u
  <2> QED BY <2>1, <2>2, <2>3 DEF Waiting, u
<1> QED BY <1>1, <1>2, <1>3

\* The frame on top is replaced by one with less to look at.
LEMMA OneFrameLess ==
  ASSUME NEW t \in Seq(SmithyFrame), t # <<>>, NEW less \in SmithyFrame, NEW e,
         LeftIn(less) \subseteq LeftIn(t[Len(t)]), LeftIn(t[Len(t)]) \subseteq LeftIn(less) \cup {e}
  PROVE  LET below == [t EXCEPT ![Len(t)] = less] IN
         /\ below \in Seq(SmithyFrame)
         /\ Waiting(below) \subseteq Waiting(t) /\ Waiting(t) \subseteq Waiting(below) \cup {e}
         /\ LeftIn(less) = LeftIn(t[Len(t)]) => Waiting(below) = Waiting(t)
<1> DEFINE n == Len(t)
           below == [t EXCEPT ![n] = less]
<1>1. n \in Nat /\ n \in 1 .. n
  OBVIOUS
<1>2. below \in Seq(SmithyFrame) /\ Len(below) = n
  BY <1>1
<1>3. \A i \in 1 .. n : below[i] = IF i = n THEN less ELSE t[i]
  BY <1>1
<1> HIDE DEF below
<1>4. Waiting(below) \subseteq Waiting(t)
  BY <1>1, <1>2, <1>3 DEF Waiting
<1>5. Waiting(t) \subseteq Waiting(below) \cup {e}
  BY <1>1, <1>2, <1>3 DEF Waiting
<1>6. LeftIn(less) = LeftIn(t[n]) => Waiting(t) \subseteq Waiting(below)
  BY <1>1, <1>2, <1>3 DEF Waiting
<1> QED BY <1>2, <1>4, <1>5, <1>6 DEF below

\* What a step that collects has to keep.
LEMMA SmithyKept ==
  ASSUME SmithyTypeOK', project' = project, smithyStep' \in {"collect", "done"},
         problems' = {} =>
           /\ Waiting(frames') \subseteq Belonging /\ models' \subseteq ModelsIn(project)
           /\ \E K \in SUBSET Nodes : Gathers(K, Waiting(frames'), models', walked')
           /\ smithyStep' = "done" => frames' = <<>>
  PROVE  SmithyInv'
<1>1. Waiting(frames)' = Waiting(frames') /\ Belonging' = Belonging /\ ModelsIn(project)' = ModelsIn(project)
  BY DEF Waiting, LeftIn, Belonging
<1>2. ASSUME NEW K \in SUBSET Nodes, Gathers(K, Waiting(frames'), models', walked')
      PROVE  Gathers(K, Waiting(frames), models, walked)'
  <2>1. Refers(project)' = Refers(project)
    OBVIOUS
  <2> QED BY <1>1, <1>2, <2>1 DEF Gathers
<1>3. problems' = {} => \E K \in SUBSET Nodes : Gathers(K, Waiting(frames), models, walked)'
  BY <1>2
<1> QED BY <1>1, <1>3 DEF SmithyInv

LEMMA SmithyIdleInv == SmithyInv /\ UNCHANGED smithyVars => SmithyInv'
<1> SUFFICES ASSUME SmithyInv, UNCHANGED smithyVars PROVE SmithyInv'
  OBVIOUS
<1>1. /\ project' = project /\ smithyStep' = smithyStep /\ frames' = frames /\ models' = models
      /\ problems' = problems /\ walked' = walked /\ SmithyTypeOK'
  BY DEF smithyVars, SmithyInv, SmithyTypeOK
<1>2. CASE smithyStep \in {"collect", "done"}
  <2>1. Waiting(frames') = Waiting(frames)
    BY <1>1
  <2> QED BY <1>1, <1>2, <2>1, SmithyKept DEF SmithyInv
<1>3. CASE smithyStep \notin {"collect", "done"}
  BY <1>1, <1>3 DEF SmithyInv
<1> QED BY <1>2, <1>3

\* A project begins, or is put aside, with nothing collected.
LEMMA StartProjectInv ==
  ASSUME NEW p \in Projects, StartProject(p)
  PROVE  SmithyInv'
<1>1. /\ project' = p /\ smithyStep' = "root" /\ frames' = <<>> /\ models' = {} /\ problems' = {} /\ walked' = {}
      /\ entriesSeen' = 0 /\ filesRead' = 0 /\ modelBytes' = 0
  BY DEF StartProject
<1>2. <<>> \in Seq([node : Nodes, depth : Nat, plan : Seq(Nodes), left : SUBSET Nodes])
  OBVIOUS
<1>3. SmithyTypeOK'
  BY <1>1, <1>2 DEF SmithyTypeOK
<1> QED BY <1>1, <1>3 DEF SmithyInv

LEMMA PutAsideInv ==
  ASSUME SmithyInv, smithyStep' = "idle",
         UNCHANGED <<project, frames, models, problems, walked, entriesSeen, filesRead, modelBytes>>
  PROVE  SmithyInv'
<1>1. SmithyTypeOK'
  BY DEF SmithyInv, SmithyTypeOK
<1> QED BY <1>1 DEF SmithyInv

LEMMA ConfigFrameType ==
  ASSUME project \in Projects, NEW c \in Nodes
  PROVE  /\ ConfigFrame(c) \in SmithyFrame
         /\ project.kind[c] = "config" => LeftIn(ConfigFrame(c)) = Refers(project)[c]
<1>1. ConfigFrame(c) = [node |-> c, depth |-> 0, plan |-> project.plan[c], left |-> {}]
  BY DEF ConfigFrame
<1>2. project.plan[c] \in Seq(Nodes)
  BY ProjectTypes
<1> QED BY <1>1, <1>2 DEF SmithyFrame, LeftIn, Refers

LEMMA DirFrameType ==
  ASSUME project \in Projects, NEW d \in Nodes, NEW n \in Nat
  PROVE  /\ DirFrame(d, n) \in SmithyFrame
         /\ project.kind[d] = "dir" => LeftIn(DirFrame(d, n)) = Refers(project)[d]
<1> DEFINE inside == IF d \in project.closed THEN {} ELSE project.content[d]
<1>1. DirFrame(d, n) = [node |-> d, depth |-> n, plan |-> <<>>, left |-> inside]
  BY DEF DirFrame
<1>2. inside \in SUBSET Nodes /\ <<>> \in Seq(Nodes)
  BY ProjectTypes
<1>3. DirFrame(d, n) \in SmithyFrame
  BY <1>1, <1>2 DEF SmithyFrame
<1>4. LeftIn(DirFrame(d, n)) = {e \in inside : project.kind[e] \in {"dir", "model"}}
  <2> HIDE DEF inside
  <2>1. DirFrame(d, n).plan = <<>> /\ DirFrame(d, n).left = inside
    BY <1>1
  <2> QED BY <2>1 DEF LeftIn
<1> QED BY <1>3, <1>4 DEF Refers

LEMMA ReadRootInv ==
  ASSUME SmithyInv, ReadRoot
  PROVE  SmithyInv'
<1> DEFINE c == project.root
<1>1. /\ smithyStep = "root" /\ UNCHANGED <<project, models, walked, entriesSeen>>
      /\ \/ /\ ConfigProblem(c) # {} \/ c \in project.malformed
            /\ problems' = (IF ConfigProblem(c) # {} THEN ConfigProblem(c) ELSE {"malformed-config"})
            /\ smithyStep' = "done" /\ UNCHANGED <<frames, filesRead, modelBytes>>
         \/ /\ problems' \subseteq {"malformed-config"} /\ Charge(c)
            /\ frames' = <<ConfigFrame(c)>> /\ smithyStep' = "collect"
  BY DEF ReadRoot
<1>2. /\ SmithyTypeOK /\ project \in Projects /\ models = {} /\ walked = {} /\ frames = <<>>
      /\ filesRead \in Nat /\ modelBytes \in Nat
  BY <1>1 DEF SmithyInv, SmithyTypeOK
<1>3. c \in Nodes /\ project.kind[c] = "config" /\ project.size[c] \in Nat
  BY <1>2, ProjectTypes
<1>4. ConfigProblem(c) \subseteq Codes
  BY DEF ConfigProblem, Codes, Fatal
<1> HIDE DEF c
<1>5. CASE /\ ConfigProblem(c) # {} \/ c \in project.malformed
           /\ problems' = (IF ConfigProblem(c) # {} THEN ConfigProblem(c) ELSE {"malformed-config"})
           /\ smithyStep' = "done" /\ UNCHANGED <<frames, filesRead, modelBytes>>
  <2>1. problems' # {} /\ problems' \subseteq Codes
    BY <1>4, <1>5 DEF Codes
  <2>2. SmithyTypeOK'
    BY <1>1, <1>2, <1>5, <2>1 DEF SmithyTypeOK
  <2> QED BY <1>5, <2>1, <2>2 DEF SmithyInv
<1>6. CASE /\ problems' \subseteq {"malformed-config"} /\ Charge(c)
           /\ frames' = <<ConfigFrame(c)>> /\ smithyStep' = "collect"
  <2>1. ConfigFrame(c) \in SmithyFrame /\ LeftIn(ConfigFrame(c)) = Refers(project)[c]
    BY <1>2, <1>3, ConfigFrameType
  <2>2. frames' \in Seq(SmithyFrame) /\ Len(frames') = 1 /\ frames'[1] = ConfigFrame(c)
    BY <1>6, <2>1
  <2>3. Waiting(frames') = Refers(project)[c]
    BY <2>1, <2>2 DEF Waiting
  <2>4. filesRead' \in Nat /\ modelBytes' \in Nat
    BY <1>2, <1>3, <1>6 DEF Charge
  <2>5. SmithyTypeOK'
    BY <1>1, <1>2, <1>6, <2>2, <2>4 DEF SmithyTypeOK, SmithyFrame, Codes
  <2>6. Refers(project)[c] \subseteq Belonging
    BY <1>2, BelongingFacts DEF c
  <2>7. Gathers({c}, Waiting(frames'), models', walked')
    BY <1>1, <1>2, <1>3, <2>3 DEF Gathers, c
  <2>8. {c} \in SUBSET Nodes /\ models' \subseteq ModelsIn(project)
    BY <1>1, <1>2, <1>3
  <2> QED BY <1>1, <1>6, <2>3, <2>5, <2>6, <2>7, <2>8, SmithyKept
<1> QED BY <1>1, <1>5, <1>6

\* An error, or a step that leaves waiting what waits.
LEMMA ReportInv ==
  ASSUME SmithyInv, smithyStep = "collect", UNCHANGED <<project, smithyStep>>, entriesSeen' \in Nat,
         NEW codes \in SUBSET Codes, Report(codes), frames' \in Seq(SmithyFrame),
         codes # {} \/ Waiting(frames') = Waiting(frames)
  PROVE  SmithyInv'
<1>1. problems' = problems \cup codes /\ UNCHANGED <<models, walked, filesRead, modelBytes>>
  BY DEF Report
<1>2. SmithyTypeOK'
  BY <1>1 DEF SmithyInv, SmithyTypeOK, SmithyFrame
<1>3. CASE codes # {}
  BY <1>1, <1>2, <1>3, SmithyKept
<1>4. CASE codes = {} /\ Waiting(frames') = Waiting(frames)
  BY <1>1, <1>2, <1>4, SmithyKept DEF SmithyInv
<1> QED BY <1>3, <1>4

\* How a step deals with an entry e, `below' being what is left of the frames: with an error, as
\* nothing of interest, as a model or as something to go into.
LEMMA EntryDealt ==
  ASSUME SmithyInv, smithyStep = "collect", UNCHANGED <<project, smithyStep>>, entriesSeen' \in Nat,
         NEW e \in Nodes, NEW below \in Seq(SmithyFrame), e \in Waiting(frames),
         Waiting(below) \subseteq Waiting(frames), Waiting(frames) \subseteq Waiting(below) \cup {e},
         NEW deep \in Nat, NEW seen \in Nat,
         \/ \E codes \in SUBSET Codes : codes # {} /\ Report(codes) /\ frames' = below
         \/ project.kind[e] \in {"other", "blank", "outside", "link", "missing", "special"}
              /\ Report({}) /\ frames' = below
         \/ project.kind[e] = "model" /\ ReadModel(e) /\ frames' = below
         \/ project.kind[e] = "dir" /\ EnterDir(e, deep, seen, below)
         \/ project.kind[e] = "config" /\ EnterConfig(e, below)
  PROVE  SmithyInv'
<1>1. /\ SmithyTypeOK /\ project \in Projects /\ models \subseteq Nodes /\ problems \subseteq Codes
      /\ walked \subseteq Nodes /\ filesRead \in Nat /\ modelBytes \in Nat
  BY DEF SmithyInv, SmithyTypeOK
<1>2. /\ Refers(project) \in [Nodes -> SUBSET Nodes] /\ Belonging \subseteq Nodes
      /\ \A n \in Belonging : Refers(project)[n] \subseteq Belonging
  BY <1>1, BelongingFacts
<1>3. ASSUME problems = {}
      PROVE  /\ Waiting(frames) \subseteq Belonging /\ models \subseteq ModelsIn(project)
             /\ \E K \in SUBSET Nodes : Gathers(K, Waiting(frames), models, walked)
  BY <1>3 DEF SmithyInv
\* Whatever the case, it is enough to see what waits, what is read and what e leads to.
<1>4. ASSUME frames' \in Seq(SmithyFrame), models' \subseteq Nodes, problems' \subseteq Codes, walked' \subseteq Nodes,
             filesRead' \in Nat, modelBytes' \in Nat, problems' = {} => problems = {}
      PROVE  SmithyTypeOK'
  BY <1>1, <1>4 DEF SmithyTypeOK, SmithyFrame
<1>5. ASSUME SmithyTypeOK', problems' = {} => problems = {},
             problems' = {} =>
               /\ Refers(project)[e] = {} \/ Waiting(frames') = Waiting(below) \cup Refers(project)[e]
                    \/ (e \in walked /\ Waiting(frames') = Waiting(below))
               /\ Refers(project)[e] = {} => Waiting(frames') = Waiting(below)
               /\ models \subseteq models' /\ models' \subseteq models \cup {e}
               /\ e \in models' \/ project.kind[e] # "model"
               /\ e \in models' \ models => project.kind[e] = "model"
               /\ walked \subseteq walked' /\ walked' \subseteq walked \cup {e}
      PROVE  SmithyInv'
  <2>1. ASSUME problems' = {}
        PROVE  /\ Waiting(frames') \subseteq Belonging /\ models' \subseteq ModelsIn(project)
               /\ \E K \in SUBSET Nodes : Gathers(K, Waiting(frames'), models', walked')
    <3>1. PICK K \in SUBSET Nodes : Gathers(K, Waiting(frames), models, walked)
      BY <1>3, <1>5, <2>1
    <3>2. e \in Belonging /\ Refers(project)[e] \subseteq Belonging
      BY <1>2, <1>3, <1>5, <2>1
    <3>3. Waiting(frames') \subseteq Belonging
      BY <1>3, <1>5, <2>1, <3>2
    <3>4. models' \subseteq ModelsIn(project)
      <4>1. \A n \in Belonging : project.kind[n] = "model" => n \in ModelsIn(project)
        BY DEF Belonging, ModelsIn
      <4> QED BY <1>3, <1>5, <2>1, <3>2, <4>1
    <3>5. Gathers(K \cup {e}, Waiting(frames'), models', walked')
      <4>1. /\ project.root \in K /\ walked \subseteq K
            /\ \A n \in K : Refers(project)[n] \subseteq K \cup Waiting(frames)
                            /\ (project.kind[n] = "model" => n \in models)
        BY <3>1 DEF Gathers
      <4>2. Waiting(below) \subseteq Waiting(frames')
        BY <1>5, <2>1
      <4>3. \A n \in K : Refers(project)[n] \subseteq K \cup {e} \cup Waiting(frames')
        BY <4>1, <4>2
      <4>4. Refers(project)[e] \subseteq K \cup {e} \cup Waiting(frames')
        BY <1>5, <2>1, <4>1, <4>3
      <4> QED BY <1>5, <2>1, <4>1, <4>3, <4>4 DEF Gathers
    <3> QED BY <3>3, <3>4, <3>5
  <2> QED BY <1>5, <2>1, SmithyKept
<1>6. ASSUME NEW codes \in SUBSET Codes, codes # {}, Report(codes), frames' = below
      PROVE  SmithyInv'
  BY <1>6, ReportInv
<1>7. ASSUME Report({}), frames' = below, Refers(project)[e] = {} \/ e \in walked, project.kind[e] # "model"
      PROVE  SmithyInv'
  <2>1. problems' = problems /\ UNCHANGED <<models, walked, filesRead, modelBytes>>
    BY <1>7 DEF Report
  <2>2. SmithyTypeOK'
    BY <1>1, <1>4, <1>7, <2>1
  <2> QED BY <1>5, <1>7, <2>1, <2>2
<1>8. ASSUME project.kind[e] = "model", ReadModel(e), frames' = below
      PROVE  SmithyInv'
  <2>1. Refers(project)[e] = {}
    BY <1>8 DEF Refers
  <2>2. project.size[e] \in Nat
    BY <1>1, ProjectTypes
  <2>3. CASE e \in models
    <3>1. problems' = problems /\ UNCHANGED <<models, walked, filesRead, modelBytes>>
      BY <1>8, <2>3 DEF ReadModel, Report
    <3>2. SmithyTypeOK'
      BY <1>1, <1>4, <1>8, <3>1
    <3> QED BY <1>5, <1>8, <2>1, <2>3, <3>1, <3>2
  <2>4. CASE e \notin models /\ ModelProblem(e) # {}
    <3>1. ModelProblem(e) \in SUBSET Codes
      BY <2>4 DEF ModelProblem, Codes, Fatal
    <3>2. Report(ModelProblem(e))
      BY <1>8, <2>4 DEF ReadModel
    <3> QED BY <1>6, <1>8, <2>4, <3>1, <3>2
  <2>5. CASE e \notin models /\ ModelProblem(e) = {}
    <3>1. Charge(e) /\ models' = models \cup {e} /\ UNCHANGED <<problems, walked>>
      BY <1>8, <2>5 DEF ReadModel
    <3>2. filesRead' \in Nat /\ modelBytes' \in Nat
      BY <1>1, <2>2, <3>1 DEF Charge
    <3>3. SmithyTypeOK'
      BY <1>1, <1>4, <1>8, <3>1, <3>2
    <3> QED BY <1>5, <1>8, <2>1, <3>1, <3>3
  <2> QED BY <2>3, <2>4, <2>5
<1>9. ASSUME project.kind[e] = "dir", EnterDir(e, deep, seen, below)
      PROVE  SmithyInv'
  <2>1. CASE deep > MaxSmithyDepth \/ seen >= MaxSmithyFiles
    <3>1. Report({"bounds-exceeded"}) /\ frames' = below
      BY <1>9, <2>1 DEF EnterDir
    <3>2. {"bounds-exceeded"} \in SUBSET Codes /\ {"bounds-exceeded"} # {}
      BY DEF Codes, Fatal
    <3> QED BY <1>6, <3>1, <3>2
  <2>2. CASE ~(deep > MaxSmithyDepth \/ seen >= MaxSmithyFiles) /\ e \in walked
    <3>1. Report({}) /\ frames' = below
      BY <1>9, <2>2 DEF EnterDir
    <3> QED BY <1>7, <1>9, <2>2, <3>1
  <2>3. CASE ~(deep > MaxSmithyDepth \/ seen >= MaxSmithyFiles) /\ e \notin walked
    <3>1. /\ walked' = walked \cup {e} /\ frames' = Append(below, DirFrame(e, deep))
          /\ UNCHANGED <<problems, models, filesRead, modelBytes>>
      BY <1>9, <2>3 DEF EnterDir
    <3>2. DirFrame(e, deep) \in SmithyFrame /\ LeftIn(DirFrame(e, deep)) = Refers(project)[e]
      BY <1>1, <1>9, DirFrameType
    <3>3. frames' \in Seq(SmithyFrame) /\ Waiting(frames') = Waiting(below) \cup Refers(project)[e]
      BY <3>1, <3>2, WaitingFacts
    <3>4. SmithyTypeOK'
      BY <1>1, <1>4, <3>1, <3>3
    <3> QED BY <1>5, <1>9, <3>1, <3>3, <3>4
  <2> QED BY <2>1, <2>2, <2>3
<1>10. ASSUME project.kind[e] = "config", EnterConfig(e, below)
       PROVE  SmithyInv'
  <2>1. CASE ConfigProblem(e) # {}
    <3>1. ConfigProblem(e) \in SUBSET Codes
      BY <2>1 DEF ConfigProblem, Codes, Fatal
    <3>2. Report(ConfigProblem(e)) /\ frames' = below
      BY <1>10, <2>1 DEF EnterConfig
    <3> QED BY <1>6, <2>1, <3>1, <3>2
  <2>2. CASE ConfigProblem(e) = {}
    <3>1. /\ Charge(e) /\ UNCHANGED <<models, walked>>
          /\ \/ problems' = problems \cup {"malformed-config"} /\ frames' = below
             \/ problems' = problems /\ frames' = Append(below, ConfigFrame(e))
      BY <1>10, <2>2 DEF EnterConfig
    <3>2. filesRead' \in Nat /\ modelBytes' \in Nat
      <4>1. project.size[e] \in Nat
        BY <1>1, ProjectTypes
      <4> QED BY <1>1, <3>1, <4>1 DEF Charge
    <3>3. CASE problems' = problems \cup {"malformed-config"} /\ frames' = below
      <4>1. problems' # {} /\ problems' \subseteq Codes
        BY <1>1, <3>3 DEF Codes
      <4>2. SmithyTypeOK'
        BY <1>1, <1>4, <3>1, <3>2, <3>3, <4>1
      <4> QED BY <4>1, <4>2, SmithyKept
    <3>4. CASE problems' = problems /\ frames' = Append(below, ConfigFrame(e))
      <4>1. ConfigFrame(e) \in SmithyFrame /\ LeftIn(ConfigFrame(e)) = Refers(project)[e]
        BY <1>1, <1>10, ConfigFrameType
      <4>2. frames' \in Seq(SmithyFrame) /\ Waiting(frames') = Waiting(below) \cup Refers(project)[e]
        BY <3>4, <4>1, WaitingFacts
      <4>3. SmithyTypeOK'
        BY <1>1, <1>4, <3>1, <3>2, <3>4, <4>2
      <4> QED BY <1>5, <1>10, <3>1, <3>4, <4>2, <4>3
    <3> QED BY <3>1, <3>3, <3>4
  <2> QED BY <2>1, <2>2
<1>11. ASSUME project.kind[e] \in {"other", "blank", "outside", "link", "missing", "special"},
              Report({}), frames' = below
       PROVE  SmithyInv'
  <2>1. Refers(project)[e] = {}
    BY <1>11 DEF Refers
  <2> QED BY <1>7, <1>11, <2>1
<1> QED BY <1>6, <1>8, <1>9, <1>10, <1>11

LEMMA CollectEntryInv ==
  ASSUME SmithyInv, CollectEntry
  PROVE  SmithyInv'
<1> DEFINE top   == frames[Len(frames)]
           e     == Head(top.plan)
           less  == [top EXCEPT !.plan = Tail(@)]
           below == [frames EXCEPT ![Len(frames)] = less]
<1>1. /\ smithyStep = "collect" /\ frames # <<>> /\ top.plan # <<>>
      /\ UNCHANGED <<project, smithyStep, entriesSeen>>
      /\ \/ EntryProblem(e) # {} /\ Report(EntryProblem(e)) /\ frames' = below
         \/ project.kind[e] = "config" /\ EnterConfig(e, below)
         \/ project.kind[e] = "dir" /\ EnterDir(e, 0, entriesSeen, below)
         \/ project.kind[e] = "model" /\ ReadModel(e) /\ frames' = below
         \/ project.kind[e] = "other" /\ Report({}) /\ frames' = below
         \/ EntryProblem(e) = {} /\ project.kind[e] \notin {"config", "dir", "model", "other"}
  BY DEF CollectEntry, Current
<1>2. SmithyTypeOK /\ frames \in Seq(SmithyFrame) /\ project \in Projects /\ entriesSeen \in Nat
  BY DEF SmithyInv, SmithyTypeOK, SmithyFrame
<1>3. top \in SmithyFrame /\ LeftIn(top) \subseteq Waiting(frames)
  BY <1>1, <1>2, WaitingFacts
<1>4. top.plan \in Seq(Nodes)
  BY <1>3 DEF SmithyFrame
<1>5. /\ e \in Nodes /\ Tail(top.plan) \in Seq(Nodes) /\ e \in {top.plan[i] : i \in 1 .. Len(top.plan)}
      /\ {top.plan[i] : i \in 1 .. Len(top.plan)}
           \subseteq {e} \cup {Tail(top.plan)[i] : i \in 1 .. Len(Tail(top.plan))}
      /\ {Tail(top.plan)[i] : i \in 1 .. Len(Tail(top.plan))} \subseteq {top.plan[i] : i \in 1 .. Len(top.plan)}
  <2>1. PICK plan \in Seq(Nodes) : plan = top.plan
    BY <1>4
  <2>2. plan # <<>>
    BY <1>1, <2>1
  <2>3. Head(plan) = plan[1] /\ 1 \in 1 .. Len(plan)
    BY <2>2
  <2> QED BY <2>1, <2>2, <2>3, HeadOrTail
<1>6. less \in SmithyFrame /\ less.plan = Tail(top.plan) /\ less.left = top.left
  BY <1>3, <1>5 DEF SmithyFrame
<1> HIDE DEF top, e, less
<1>7. LeftIn(less) \subseteq LeftIn(top) /\ LeftIn(top) \subseteq LeftIn(less) \cup {e} /\ e \in LeftIn(top)
  BY <1>5, <1>6 DEF LeftIn
<1>8. /\ below \in Seq(SmithyFrame)
      /\ Waiting(below) \subseteq Waiting(frames) /\ Waiting(frames) \subseteq Waiting(below) \cup {e}
  BY <1>1, <1>2, <1>6, <1>7, OneFrameLess DEF top
<1> HIDE DEF below
<1>9. e \in Waiting(frames) /\ project.kind[e] \in NodeKinds
  BY <1>2, <1>3, <1>5, <1>7, ProjectTypes
<1>10. EntryProblem(e) \in SUBSET Codes
  BY <1>9 DEF EntryProblem, Codes, Fatal, NodeKinds
<1>11. EntryProblem(e) = {} => project.kind[e] \in {"config", "dir", "model", "other"}
  BY <1>9 DEF EntryProblem, NodeKinds
<1>12. 0 \in Nat /\ entriesSeen' \in Nat
  BY <1>1, <1>2
<1>13. CASE EntryProblem(e) # {} /\ Report(EntryProblem(e)) /\ frames' = below
  BY <1>1, <1>8, <1>10, <1>12, <1>13, ReportInv
<1>14. CASE \/ project.kind[e] = "config" /\ EnterConfig(e, below)
            \/ project.kind[e] = "dir" /\ EnterDir(e, 0, entriesSeen, below)
            \/ project.kind[e] = "model" /\ ReadModel(e) /\ frames' = below
            \/ project.kind[e] = "other" /\ Report({}) /\ frames' = below
  BY <1>1, <1>2, <1>5, <1>8, <1>9, <1>12, <1>14, EntryDealt
<1> QED BY <1>1, <1>11, <1>13, <1>14

LEMMA WalkEntryInv ==
  ASSUME SmithyInv, NEW e \in Nodes, WalkEntry(e)
  PROVE  SmithyInv'
<1> DEFINE top   == frames[Len(frames)]
           less  == [top EXCEPT !.left = @ \ {e}]
           below == [frames EXCEPT ![Len(frames)] = less]
<1>1. /\ smithyStep = "collect" /\ frames # <<>> /\ e \in top.left /\ UNCHANGED <<project, smithyStep>>
      /\ entriesSeen' = entriesSeen \/ entriesSeen' = entriesSeen + 1
      /\ \/ Report({"bounds-exceeded"}) /\ frames' = below
         \/ project.kind[e] = "dir" /\ EnterDir(e, top.depth + 1, entriesSeen', below)
         \/ project.kind[e] = "model" /\ ReadModel(e) /\ frames' = below
         \/ project.kind[e] \notin {"dir", "model"} /\ Report({}) /\ frames' = below
  BY DEF WalkEntry, Current
<1>2. SmithyTypeOK /\ frames \in Seq(SmithyFrame) /\ project \in Projects /\ entriesSeen \in Nat
  BY DEF SmithyInv, SmithyTypeOK, SmithyFrame
<1>3. top \in SmithyFrame /\ LeftIn(top) \subseteq Waiting(frames) /\ top.depth \in Nat
  <2>1. top \in SmithyFrame /\ LeftIn(top) \subseteq Waiting(frames)
    BY <1>1, <1>2, WaitingFacts
  <2> QED BY <2>1 DEF SmithyFrame
<1>4. less \in SmithyFrame /\ less.plan = top.plan /\ less.left = top.left \ {e}
  BY <1>3 DEF SmithyFrame
<1> HIDE DEF top, less
<1>5. /\ LeftIn(less) \subseteq LeftIn(top) /\ LeftIn(top) \subseteq LeftIn(less) \cup {e}
      /\ project.kind[e] \in {"dir", "model"} => e \in LeftIn(top)
      /\ project.kind[e] \notin {"dir", "model"} => LeftIn(less) = LeftIn(top)
  BY <1>1, <1>4 DEF LeftIn
<1>6. /\ below \in Seq(SmithyFrame)
      /\ Waiting(below) \subseteq Waiting(frames) /\ Waiting(frames) \subseteq Waiting(below) \cup {e}
  BY <1>1, <1>2, <1>4, <1>5, OneFrameLess DEF top
<1>7. entriesSeen' \in Nat /\ top.depth + 1 \in Nat
  BY <1>1, <1>2, <1>3
<1>8. ASSUME project.kind[e] \notin {"dir", "model"}
      PROVE  Waiting(below) = Waiting(frames)
  <2>1. LeftIn(less) = LeftIn(top)
    BY <1>5, <1>8
  <2> QED BY <1>1, <1>2, <1>4, <1>5, <2>1, OneFrameLess DEF top
<1> HIDE DEF below
<1>9. CASE Report({"bounds-exceeded"}) /\ frames' = below
  <2>1. {"bounds-exceeded"} \in SUBSET Codes /\ {"bounds-exceeded"} # {}
    BY DEF Codes, Fatal
  <2> QED BY <1>1, <1>6, <1>7, <1>9, <2>1, ReportInv
<1>10. CASE project.kind[e] \notin {"dir", "model"} /\ Report({}) /\ frames' = below
  <2>1. {} \in SUBSET Codes
    OBVIOUS
  <2> QED BY <1>1, <1>6, <1>7, <1>8, <1>10, <2>1, ReportInv
<1>11. CASE \/ project.kind[e] = "dir" /\ EnterDir(e, top.depth + 1, entriesSeen', below)
            \/ project.kind[e] = "model" /\ ReadModel(e) /\ frames' = below
  <2>1. e \in Waiting(frames)
    BY <1>3, <1>5, <1>11
  <2> QED BY <1>1, <1>6, <1>7, <1>11, <2>1, EntryDealt
<1> QED BY <1>1, <1>9, <1>10, <1>11

LEMMA LeaveFrameInv ==
  ASSUME SmithyInv, LeaveFrame
  PROVE  SmithyInv'
<1>1. /\ smithyStep = "collect" /\ frames # <<>> /\ frames' = SubSeq(frames, 1, Len(frames) - 1)
      /\ UNCHANGED <<project, smithyStep, models, problems, walked, entriesSeen, filesRead, modelBytes>>
      /\ frames[Len(frames)].plan = <<>> /\ frames[Len(frames)].left = {}
  BY DEF LeaveFrame, Current
<1>2. SmithyTypeOK /\ frames \in Seq(SmithyFrame) /\ entriesSeen \in Nat
  BY DEF SmithyInv, SmithyTypeOK, SmithyFrame
<1>3. LeftIn(frames[Len(frames)]) = {}
  BY <1>1 DEF LeftIn
<1>4. frames' \in Seq(SmithyFrame) /\ Waiting(frames') = Waiting(frames)
  BY <1>1, <1>2, <1>3, WaitingFacts
<1>5. Report({}) /\ {} \in SUBSET Codes
  BY <1>1, <1>2 DEF Report, SmithyTypeOK
<1> QED BY <1>1, <1>2, <1>4, <1>5, ReportInv

LEMMA ProjectEndsInv ==
  ASSUME SmithyInv, ProjectEnds
  PROVE  SmithyInv'
<1>1. /\ smithyStep = "collect" /\ smithyStep' = "done" /\ frames' = <<>> /\ (Halted \/ frames = <<>>)
      /\ UNCHANGED <<project, models, problems, walked, entriesSeen, filesRead, modelBytes>>
  BY DEF ProjectEnds
<1>2. SmithyTypeOK'
  <2>1. <<>> \in Seq([node : Nodes, depth : Nat, plan : Seq(Nodes), left : SUBSET Nodes])
    OBVIOUS
  <2> QED BY <1>1, <2>1 DEF SmithyInv, SmithyTypeOK
<1>3. problems' = {} => frames = <<>> /\ problems = {}
  BY <1>1 DEF Halted
<1>4. frames = <<>> => Waiting(frames') = Waiting(frames)
  BY <1>1
<1> QED BY <1>1, <1>2, <1>3, <1>4, SmithyKept DEF SmithyInv

LEMMA SmithyNextInv == SmithyInv /\ SmithyNext => SmithyInv'
BY ReadRootInv, CollectEntryInv, WalkEntryInv, LeaveFrameInv, ProjectEndsInv DEF SmithyNext

\* A project that is done without an error has all its models.
LEMMA WholeProject ==
  ASSUME SmithyInv, smithyStep = "done", problems = {}
  PROVE  models = ModelsIn(project)
<1>1. frames = <<>> /\ models \subseteq ModelsIn(project) /\ project \in Projects
  BY DEF SmithyInv, SmithyTypeOK
<1>2. PICK K \in SUBSET Nodes : Gathers(K, Waiting(frames), models, walked)
  BY DEF SmithyInv
<1>3. Waiting(frames) = {}
  BY <1>1 DEF Waiting
<1>4. /\ project.root \in K /\ \A n \in K : Refers(project)[n] \subseteq K
      /\ \A n \in K : project.kind[n] = "model" => n \in models
  BY <1>2, <1>3 DEF Gathers
<1>5. Belonging \subseteq K
  BY <1>1, <1>4, BelongingFacts
<1> QED BY <1>1, <1>4, <1>5 DEF ModelsIn, Belonging

-----------------------------------------------------------------------------
(* RepoInventory: an inventory without errors holds every contract.        *)

Quiet == invErrors = {} /\ ~truncated

\* The projects resolved so far, and the single files read.
Dealt   == Of("config") \ (builds \cup building)
ProjectsOf(S) == {Candidate(c, ModelsOf(c)) : c \in {d \in S : ModelsOf(d) # {}}}
FilesOf(S)    == {Candidate(p, {p}) : p \in S}
Others        == {p \in Named : repo.shape[p] # "config"}

\* One project at a time, with the budget it was given.
OneProject ==
  /\ \A c \in builds \cup building : repo.shape[c] = "config" /\ (c \in builds => c \notin building)
  /\ \/ building = {} /\ smithyStep = "idle"
     \/ invStep = "projects" /\ smithyStep # "idle" /\ \E c \in Paths : building = {c} /\ project = repo.project[c]

(* Static code: what is read can be read, and what can be read is read, waits in the account, or    *)
(* belongs to a source that has still to be resolved; unless a bound or an escape was noted.        *)
Codebases == {"cloudformation", "cdk", "terraform", "serverless"}
Told      == {"bounds-exceeded", "path-escape"}
Code      == UNION {InCode(s) : s \in Codebases}
InAll(sources) == UNION {InCode(sources[i]) : i \in 1 .. Len(sources)}
CodeAhead == InAll(iacLeft) \cup iacPaths \cup (IF walk = "terraform" THEN InCode("terraform") ELSE {})

CodeOK ==
  /\ iacRead \subseteq Code \ repo.broken
  /\ invStep \notin {"iac", "done"} => iacPaths = {} /\ iacRead = {}
  /\ invStep = "iac" =>
       /\ iacPaths \subseteq Code
       /\ walk = "terraform" => iacPaths = {}
       /\ iacCodes \cap Told = {} => Code \ repo.broken \subseteq iacRead \cup CodeAhead

(* What makes ContractsHeldOrReported inductive: at each step, what is held and what is still to be *)
(* looked at are together all that the repository holds, as long as nothing went wrong.             *)
InventoryInv ==
  /\ InventoryTypeOK
  /\ OneProject
  /\ CodeOK
  /\ invStep \in {"idle", "paths"} =>
       /\ truncated = FALSE /\ hidden = {} /\ sdl = {} /\ candidates = {} /\ invErrors = {}
       /\ invStep = "paths" => walk = "specs"
  /\ invStep = "projects" /\ Quiet =>
       /\ builds \cup building \subseteq Of("config") /\ left = Others /\ sdl = {}
       /\ hidden = UNION {ModelsOf(c) : c \in Dealt} /\ candidates = ProjectsOf(Dealt)
  /\ invStep = "files" /\ Quiet =>
       /\ left \subseteq Others \ Modelled /\ sdl = Graphql \ left
       /\ candidates = ProjectsOf(Of("config")) \cup FilesOf(Singles \ left)
  /\ invStep = "iac" /\ Quiet => Held = Whole
  /\ invStep = "done" => (truncated => invErrors # {}) /\ ContractsHeldOrReported

LEMMA InventoryRepoTypes ==
  ASSUME repo \in Repos
  PROVE  /\ repo.direct \subseteq Paths /\ repo.size \in [Paths -> Nat] /\ repo.preferred \subseteq Paths
         /\ \A c \in Paths : repo.shape[c] = "config" => repo.project[c] \in Projects
         /\ repo.iac \in [{"cloudformation", "cdk", "serverless"} -> SUBSET Paths]
BY InventoryAssumption DEF InventoryRepoOK

\* The names depend on the repository only.
LEMMA SameNames ==
  ASSUME repo' = repo
  PROVE  /\ Named' = Named /\ Others' = Others /\ Modelled' = Modelled /\ Graphql' = Graphql /\ Singles' = Singles
         /\ Whole' = Whole /\ Of("config")' = Of("config")
         /\ \A c : ModelsOf(c)' = ModelsOf(c)
<1>1. Named' = Named
  BY SameRepo DEF Named
<1>2. \A s : Of(s)' = Of(s)
  BY <1>1 DEF Of
<1>3. \A c : ModelsOf(c)' = ModelsOf(c)
  BY DEF ModelsOf
<1>4. Modelled' = Modelled
  BY <1>2, <1>3 DEF Modelled
<1>5. Graphql' = Graphql /\ Singles' = Singles /\ Others' = Others
  BY <1>1, <1>2, <1>4 DEF Graphql, Singles, Others
<1>6. Whole' = Whole
  BY <1>2, <1>3, <1>5 DEF Whole
<1> QED BY <1>1, <1>2, <1>3, <1>4, <1>5, <1>6

\* What code names depends on the repository only, too.
LEMMA SameCode ==
  ASSUME repo' = repo
  PROVE  Code' = Code /\ Static' = Static /\ \A s : InCode(s)' = InCode(s)
<1>1. Listed("terraform")' = Listed("terraform")
  BY SameRepo
<1>2. \A s : InCode(s)' = InCode(s)
  BY <1>1 DEF InCode
<1> QED BY <1>2 DEF Code, Static

\* What all sources name, the first and the others name.
LEMMA AheadOfTail ==
  ASSUME NEW s \in Seq(Codebases), s # <<>>
  PROVE  InAll(s) \subseteq InCode(Head(s)) \cup InAll(Tail(s))
<1>1. {s[i] : i \in 1 .. Len(s)} \subseteq {Head(s)} \cup {Tail(s)[i] : i \in 1 .. Len(Tail(s))}
  BY HeadOrTail
<1> SUFFICES ASSUME NEW i \in 1 .. Len(s)
             PROVE  InCode(s[i]) \subseteq InCode(Head(s)) \cup InAll(Tail(s))
  BY DEF InAll
<1>2. CASE s[i] = Head(s)
  BY <1>2
<1>3. CASE s[i] # Head(s)
  <2>1. PICK j \in 1 .. Len(Tail(s)) : s[i] = Tail(s)[j]
    BY <1>1, <1>3
  <2> QED BY <2>1 DEF InAll
<1> QED BY <1>2, <1>3

\* A step that leaves the account of the code alone.
LEMMA CodeKept ==
  ASSUME CodeOK, UNCHANGED <<repo, iacLeft, iacPaths, iacRead, iacCodes>>,
         invStep' = invStep \/ invStep \notin {"iac", "done"} \/ invStep' = "done",
         invStep' = "iac" => invStep = "iac" /\ walk' = walk,
         invStep = "done" => invStep' = "done"
  PROVE  CodeOK'
<1>1. Code' = Code /\ \A s : InCode(s)' = InCode(s)
  BY SameCode
<1>2. iacRead' \subseteq (Code \ repo.broken)'
  BY <1>1 DEF CodeOK
<1>3. invStep' \notin {"iac", "done"} => iacPaths' = {} /\ iacRead' = {}
  BY DEF CodeOK
<1>4. ASSUME invStep' = "iac"
      PROVE  /\ iacPaths' \subseteq Code'
             /\ walk' = "terraform" => iacPaths' = {}
             /\ (iacCodes \cap Told = {})' => (Code \ repo.broken)' \subseteq (iacRead \cup CodeAhead)'
  <2>1. CodeAhead' = CodeAhead
    BY <1>1, <1>4 DEF CodeAhead, InAll
  <2> QED BY <1>1, <1>4, <2>1 DEF CodeOK, Told
<1> QED BY <1>2, <1>3, <1>4 DEF CodeOK

LEMMA ModelTypes ==
  ASSUME repo \in Repos
  PROVE  Named \subseteq Paths /\ \A c \in Of("config") : ModelsOf(c) \subseteq Nodes
<1>1. Named \subseteq Paths
  <2>1. "specs" \in Walks
    BY DEF Walks
  <2>2. Listed("specs") \subseteq Paths
    BY <2>1, SeenFacts DEF Listed
  <2> QED BY <2>2, InventoryRepoTypes DEF Named
<1>2. ASSUME NEW p \in Projects PROVE ModelsIn(p) \subseteq Nodes
  <2>1. Refers(p) \in [Nodes -> SUBSET Nodes] /\ {p.root} \in SUBSET Nodes
    <3>1. ProjectOK(p)
      BY ProjectsAssumption
    <3>2. \A n \in Nodes : p.plan[n] \in Seq(Nodes) /\ p.content[n] \in SUBSET Nodes
      BY <3>1 DEF ProjectOK
    <3>3. \A n \in Nodes : {p.plan[n][i] : i \in 1 .. Len(p.plan[n])} \subseteq Nodes
      BY <3>2
    <3> QED BY <3>1, <3>2, <3>3 DEF Refers, ProjectOK
  <2> QED BY <2>1, ReachedFacts DEF ModelsIn
<1>3. \A c \in Of("config") : repo.project[c] \in Projects
  BY <1>1, InventoryRepoTypes DEF Of
<1> QED BY <1>1, <1>2, <1>3 DEF ModelsOf

\* A step of the walk or of a project leaves the inventory as it is.
LEMMA InventoryIdleInv ==
  ASSUME InventoryInv, UNCHANGED <<repo, invVars>>, walk' = walk \/ invStep \notin {"paths", "iac"},
         UNCHANGED <<project, smithyStep>> \/ (project' = project /\ smithyStep # "idle" /\ smithyStep' # "idle")
  PROVE  InventoryInv'
<1>1. /\ invStep' = invStep /\ builds' = builds /\ building' = building /\ left' = left /\ truncated' = truncated
      /\ charged' = charged /\ hidden' = hidden /\ sdl' = sdl /\ candidates' = candidates /\ invErrors' = invErrors
      /\ iacLeft' = iacLeft /\ iacPaths' = iacPaths /\ iacRead' = iacRead /\ iacBytes' = iacBytes
      /\ iacCodes' = iacCodes /\ repo' = repo
  BY DEF invVars
<1>2. InventoryTypeOK' /\ OneProject' /\ ContractsHeldOrReported' = ContractsHeldOrReported
  <2>1. InventoryTypeOK'
    BY <1>1 DEF InventoryInv, InventoryTypeOK
  <2>2. OneProject'
    BY <1>1 DEF InventoryInv, OneProject
  <2>3. Whole' = Whole /\ Held' = Held /\ Static' = Static
    BY <1>1, SameNames, SameCode DEF Held
  <2> QED BY <1>1, <2>1, <2>2, <2>3 DEF ContractsHeldOrReported
<1>3. /\ Others' = Others /\ Modelled' = Modelled /\ Graphql' = Graphql /\ Singles' = Singles /\ Whole' = Whole
      /\ Of("config")' = Of("config") /\ \A c : ModelsOf(c)' = ModelsOf(c)
  BY <1>1, SameNames
<1>4. Quiet' = Quiet /\ Dealt' = Dealt /\ Held' = Held
  BY <1>1, <1>3 DEF Quiet, Dealt, Held
<1>5. \A S : ProjectsOf(S)' = ProjectsOf(S) /\ FilesOf(S)' = FilesOf(S)
  BY <1>3 DEF ProjectsOf, FilesOf
<1>6. /\ ProjectsOf(Dealt)' = ProjectsOf(Dealt) /\ ProjectsOf(Of("config"))' = ProjectsOf(Of("config"))
      /\ FilesOf(Singles \ left)' = FilesOf(Singles \ left)
      /\ (UNION {ModelsOf(c) : c \in Dealt})' = UNION {ModelsOf(c) : c \in Dealt}
  BY <1>1, <1>3, <1>4 DEF ProjectsOf, FilesOf
<1>10. CodeOK'
  BY <1>1, CodeKept DEF InventoryInv
<1>7. CASE invStep = "projects"
  BY <1>1, <1>2, <1>3, <1>4, <1>6, <1>7, <1>10 DEF InventoryInv
<1>8. CASE invStep = "files"
  BY <1>1, <1>2, <1>3, <1>4, <1>6, <1>8, <1>10 DEF InventoryInv
<1>9. CASE invStep \notin {"projects", "files"}
  BY <1>1, <1>2, <1>4, <1>3, <1>9, <1>10 DEF InventoryInv
<1> QED BY <1>7, <1>8, <1>9

LEMMA StartInventoryInv ==
  ASSUME InventoryInv, StartInventory, UNCHANGED smithyVars
  PROVE  InventoryInv'
<1>1. /\ invStep = "idle" /\ invStep' = "paths" /\ walk' = "specs" /\ repo' = repo
      /\ UNCHANGED <<builds, building, left, truncated, charged, hidden, sdl, candidates, invErrors,
                     iacLeft, iacPaths, iacRead, iacBytes, iacCodes>>
      /\ UNCHANGED <<project, smithyStep>>
  BY DEF StartInventory, BeginWalk, smithyVars
<1>2. InventoryTypeOK'
  BY <1>1 DEF InventoryInv, InventoryTypeOK
<1>3. OneProject'
  BY <1>1 DEF InventoryInv, OneProject
<1>4. CodeOK'
  BY <1>1, CodeKept DEF InventoryInv
<1> QED BY <1>1, <1>2, <1>3, <1>4 DEF InventoryInv

LEMMA TakePathsInv ==
  ASSUME InventoryInv, WalkInv, TakePaths
  PROVE  InventoryInv'
<1> DEFINE all == (found \cup repo.direct) \cap repo.scope
<1>1. /\ invStep = "paths" /\ WalkDone /\ invStep' = "projects" /\ walk = "specs"
      /\ builds' = {p \in all : repo.shape[p] = "config"} /\ left' = {p \in all : repo.shape[p] # "config"}
      /\ truncated' = cut /\ invErrors' = (IF refused THEN {"path-escape"} ELSE {})
      /\ UNCHANGED <<building, charged, hidden, sdl, candidates, iacLeft, iacPaths, iacRead, iacBytes, iacCodes>>
      /\ repo' = repo /\ UNCHANGED <<project, smithyStep>>
  BY DEF TakePaths, InventoryInv, walkVars, smithyVars
<1>2. repo \in Repos /\ found \subseteq Paths /\ cut \in BOOLEAN
  BY DEF WalkInv, WalkTypeOK
<1>3. all \subseteq Paths
  BY <1>2, InventoryRepoTypes
<1>4. InventoryTypeOK'
  <2>1. builds' \subseteq Paths /\ left' \subseteq Paths /\ invErrors' \subseteq Codes /\ truncated' \in BOOLEAN
    BY <1>1, <1>2, <1>3 DEF Codes, Fatal
  <2> QED BY <1>1, <2>1 DEF InventoryInv, InventoryTypeOK
<1>5. building = {} /\ smithyStep = "idle" /\ hidden = {} /\ sdl = {} /\ candidates = {}
  BY <1>1 DEF InventoryInv, OneProject
<1>6. OneProject'
  BY <1>1, <1>5 DEF OneProject
<1>7. ASSUME ~cut PROVE all = Named
  BY <1>1, <1>7, WholeWalk DEF Walks, Named
<1>8. ASSUME Quiet'
      PROVE  /\ (builds \cup building)' \subseteq Of("config") /\ left' = Others /\ sdl' = {}
             /\ hidden' = {} /\ candidates' = {} /\ Dealt' = {}
  <2>1. all = Named
    BY <1>1, <1>7, <1>8 DEF Quiet
  <2>2. builds' = Of("config") /\ left' = Others
    BY <1>1, <2>1 DEF Of, Others
  <2> QED BY <1>1, <1>5, <2>2, SameNames DEF Dealt
<1>9. Quiet' => /\ Others' = Others /\ Of("config")' = Of("config")
                /\ hidden' = (UNION {ModelsOf(c) : c \in Dealt})' /\ candidates' = ProjectsOf(Dealt)'
  BY <1>1, <1>8, SameNames DEF ProjectsOf
<1>10. CodeOK'
  BY <1>1, CodeKept DEF InventoryInv
<1> QED BY <1>1, <1>4, <1>6, <1>8, <1>9, <1>10 DEF InventoryInv

LEMMA NextProjectInv ==
  ASSUME InventoryInv, WalkInv, NextProject
  PROVE  InventoryInv' /\ (SmithyInv => SmithyInv')
<1> DEFINE c == FirstOf(builds)
<1>1. /\ invStep = "projects" /\ building = {} /\ builds # {}
      /\ building' = {c} /\ builds' = builds \ {c}
      /\ StartProject(repo.project[c]) /\ repo' = repo
      /\ UNCHANGED <<invStep, left, truncated, charged, hidden, sdl, candidates, invErrors,
                     iacLeft, iacPaths, iacRead, iacBytes, iacCodes>>
  BY DEF NextProject, walkVars
<1>2. repo \in Repos /\ builds \subseteq Paths
  BY DEF WalkInv, WalkTypeOK, InventoryInv, InventoryTypeOK
<1>3. c \in builds
  BY <1>1, <1>2, FirstIsThere
<1> HIDE DEF c
<1>4. c \in Paths /\ repo.shape[c] = "config" /\ repo.project[c] \in Projects
  BY <1>2, <1>3, InventoryRepoTypes DEF InventoryInv, OneProject
<1>5. project' = repo.project[c] /\ smithyStep' = "root"
  BY <1>1 DEF StartProject
<1>6. InventoryTypeOK'
  BY <1>1, <1>4 DEF InventoryInv, InventoryTypeOK
<1>7. OneProject'
  BY <1>1, <1>3, <1>4, <1>5 DEF InventoryInv, OneProject
<1>8. /\ Others' = Others /\ Of("config")' = Of("config") /\ \A d : ModelsOf(d)' = ModelsOf(d)
  BY <1>1, SameNames
<1>9. builds' \cup building' = builds \cup building /\ Quiet' = Quiet
  BY <1>1, <1>3 DEF Quiet
<1>10. Dealt' = Dealt
  BY <1>8, <1>9 DEF Dealt
<1>11. /\ ProjectsOf(Dealt)' = ProjectsOf(Dealt)
       /\ (UNION {ModelsOf(d) : d \in Dealt})' = UNION {ModelsOf(d) : d \in Dealt}
  BY <1>8, <1>10 DEF ProjectsOf
<1>13. CodeOK'
  BY <1>1, CodeKept DEF InventoryInv
<1>12. InventoryInv'
  BY <1>1, <1>6, <1>7, <1>8, <1>9, <1>11, <1>13 DEF InventoryInv
<1> QED BY <1>1, <1>4, <1>12, StartProjectInv

LEMMA TakeProjectInv ==
  ASSUME InventoryInv, WalkInv, SmithyInv, TakeProject
  PROVE  InventoryInv' /\ SmithyInv'
<1>1. /\ invStep = "projects" /\ building # {} /\ smithyStep = "done"
      /\ invErrors' = invErrors \cup problems /\ hidden' = hidden \cup models
      /\ candidates' = candidates \cup (IF Usable THEN {Candidate(c, models) : c \in building} ELSE {})
      /\ building' = {} /\ smithyStep' = "idle" /\ repo' = repo
      /\ UNCHANGED <<project, frames, models, problems, walked, entriesSeen, filesRead, modelBytes>>
      /\ UNCHANGED <<invStep, builds, left, truncated, charged, sdl, iacLeft, iacPaths, iacRead, iacBytes, iacCodes>>
  BY DEF TakeProject, walkVars
<1>2. PICK b \in Paths : building = {b} /\ project = repo.project[b]
  BY <1>1 DEF InventoryInv, OneProject
<1>3. models \subseteq Nodes /\ problems \subseteq Codes /\ repo \in Repos
  BY DEF SmithyInv, SmithyTypeOK, WalkInv, WalkTypeOK
<1>4. InventoryTypeOK'
  <2>1. Candidate(b, models) \in [path : Paths, members : SUBSET (Paths \cup Nodes)]
    BY <1>2, <1>3 DEF Candidate
  <2>2. candidates' \subseteq [path : Paths, members : SUBSET (Paths \cup Nodes)]
    BY <1>1, <1>2, <2>1 DEF InventoryInv, InventoryTypeOK
  <2>3. hidden' \subseteq Nodes /\ invErrors' \subseteq Codes /\ building' \subseteq Paths
    BY <1>1, <1>3 DEF InventoryInv, InventoryTypeOK
  <2> QED BY <1>1, <2>2, <2>3 DEF InventoryInv, InventoryTypeOK
<1>5. OneProject'
  BY <1>1 DEF InventoryInv, OneProject
<1>6. /\ Others' = Others /\ Of("config")' = Of("config") /\ \A d : ModelsOf(d)' = ModelsOf(d)
  BY <1>1, SameNames
<1>7. ASSUME Quiet'
      PROVE  /\ builds' \cup building' \subseteq Of("config") /\ left' = Others /\ sdl' = {}
             /\ hidden' = UNION {ModelsOf(c) : c \in Dealt'}
             /\ candidates' = ProjectsOf(Dealt')
  <2>1. Quiet /\ problems = {}
    BY <1>1, <1>7 DEF Quiet
  <2>2. /\ builds \cup building \subseteq Of("config") /\ left = Others /\ sdl = {}
        /\ hidden = UNION {ModelsOf(c) : c \in Dealt} /\ candidates = ProjectsOf(Dealt)
    BY <1>1, <2>1 DEF InventoryInv
  <2>3. models = ModelsOf(b)
    BY <1>1, <1>2, <2>1, WholeProject DEF ModelsOf
  <2>4. Dealt' = Dealt \cup {b} \/ (Dealt' = Dealt /\ b \in builds)
    BY <1>1, <1>2, <1>6, <2>2 DEF Dealt
  <2>5. Dealt' = Dealt \cup {b}
    BY <1>2, <2>4 DEF InventoryInv, OneProject
  <2>6. hidden' = UNION {ModelsOf(c) : c \in Dealt'}
    BY <1>1, <2>2, <2>3, <2>5
  <2>7. candidates' = ProjectsOf(Dealt')
    <3>1. Usable <=> ModelsOf(b) # {}
      BY <1>1, <2>1, <2>3 DEF Usable
    <3>2. CASE ModelsOf(b) # {}
      <4>1. candidates' = candidates \cup {Candidate(b, ModelsOf(b))}
        BY <1>1, <1>2, <2>3, <3>1, <3>2
      <4> QED BY <2>2, <2>5, <3>2, <4>1 DEF ProjectsOf
    <3>3. CASE ModelsOf(b) = {}
      <4>1. candidates' = candidates
        BY <1>1, <3>1, <3>3
      <4> QED BY <2>2, <2>5, <3>3, <4>1 DEF ProjectsOf
    <3> QED BY <3>2, <3>3
  <2>8. left' = Others /\ sdl' = {} /\ builds' \cup building' \subseteq Of("config")
    BY <1>1, <2>2
  <2> QED BY <2>6, <2>7, <2>8
<1>8. /\ (UNION {ModelsOf(c) : c \in Dealt})' = UNION {ModelsOf(c) : c \in Dealt'}
      /\ ProjectsOf(Dealt)' = ProjectsOf(Dealt')
  BY <1>6 DEF ProjectsOf
<1>10. CodeOK'
  BY <1>1, CodeKept DEF InventoryInv
<1>9. InventoryInv'
  BY <1>1, <1>4, <1>5, <1>6, <1>7, <1>8, <1>10 DEF InventoryInv
<1> QED BY <1>1, <1>9, PutAsideInv

LEMMA ProjectsDoneInv ==
  ASSUME InventoryInv, ProjectsDone
  PROVE  InventoryInv'
<1>1. /\ invStep = "projects" /\ building = {} /\ builds = {} /\ invStep' = "files" /\ left' = left \ hidden
      /\ UNCHANGED <<builds, building, truncated, charged, hidden, sdl, candidates, invErrors,
                     iacLeft, iacPaths, iacRead, iacBytes, iacCodes>>
      /\ repo' = repo /\ UNCHANGED <<project, smithyStep>>
  BY DEF ProjectsDone, walkVars, smithyVars
<1>2. InventoryTypeOK'
  BY <1>1 DEF InventoryInv, InventoryTypeOK
<1>3. OneProject'
  BY <1>1 DEF InventoryInv, OneProject
<1>4. /\ Others' = Others /\ Of("config")' = Of("config") /\ Modelled' = Modelled /\ Graphql' = Graphql
      /\ Singles' = Singles /\ \A d : ModelsOf(d)' = ModelsOf(d)
  BY <1>1, SameNames
<1>5. ASSUME Quiet'
      PROVE  /\ left' \subseteq Others \ Modelled /\ sdl' = Graphql \ left'
             /\ candidates' = ProjectsOf(Of("config")) \cup FilesOf(Singles \ left')
  <2>1. /\ left = Others /\ sdl = {} /\ hidden = UNION {ModelsOf(c) : c \in Dealt}
        /\ candidates = ProjectsOf(Dealt) /\ Dealt = Of("config")
    BY <1>1, <1>5 DEF InventoryInv, Quiet, Dealt
  <2>2. left' = Others \ Modelled
    BY <1>1, <2>1 DEF Modelled
  <2>3. Graphql \subseteq left' /\ Singles \subseteq left'
    BY <2>2 DEF Graphql, Singles, Others, Of
  <2>4. FilesOf(Singles \ left') = {}
    BY <2>3 DEF FilesOf
  <2> QED BY <1>1, <2>1, <2>2, <2>3, <2>4
<1>6. /\ ProjectsOf(Of("config"))' = ProjectsOf(Of("config")) /\ FilesOf(Singles \ left)' = FilesOf(Singles \ left')
  BY <1>4 DEF ProjectsOf, FilesOf
<1>7. CodeOK'
  BY <1>1, CodeKept DEF InventoryInv
<1> QED BY <1>1, <1>2, <1>3, <1>4, <1>5, <1>6, <1>7 DEF InventoryInv

LEMMA NextFileInv ==
  ASSUME InventoryInv, WalkInv, NextFile
  PROVE  InventoryInv'
<1> DEFINE p     == FirstOf(left)
           unfit == p \in repo.broken \/ repo.size[p] > MaxFileBytes
           full  == charged + repo.size[p] > MaxCumulativeBytes
           read  == ~late /\ ~unfit /\ ~full
<1>1. /\ invStep = "files" /\ left # {} /\ left' = left \ {p}
      /\ truncated' = (truncated \/ late \/ (~unfit /\ full))
      /\ invErrors' = invErrors \cup (IF late \/ read THEN {}
                                      ELSE IF unfit THEN {"unreadable"} ELSE {"bounds-exceeded"})
      /\ charged' = (IF read THEN charged + repo.size[p] ELSE charged)
      /\ sdl' = (IF read /\ repo.shape[p] = "graphql" THEN sdl \cup {p} ELSE sdl)
      /\ candidates' = (IF read /\ repo.shape[p] = "single"
                        THEN candidates \cup {Candidate(p, {p})} ELSE candidates)
      /\ UNCHANGED <<invStep, builds, building, hidden, iacLeft, iacPaths, iacRead, iacBytes, iacCodes>>
      /\ repo' = repo /\ UNCHANGED <<project, smithyStep>>
  BY DEF NextFile, walkVars, smithyVars
<1>2. repo \in Repos /\ left \subseteq Paths /\ late \in BOOLEAN /\ truncated \in BOOLEAN /\ charged \in Nat
  BY DEF WalkInv, WalkTypeOK, InventoryInv, InventoryTypeOK
<1>3. p \in left /\ p \in Paths
  BY <1>1, <1>2, FirstIsThere
<1>4. repo.size[p] \in Nat
  BY <1>2, <1>3, InventoryRepoTypes
<1>5. unfit \in BOOLEAN /\ full \in BOOLEAN
  OBVIOUS
<1> HIDE DEF p, unfit, full
<1>6. InventoryTypeOK'
  <2>1. candidates' \subseteq [path : Paths, members : SUBSET (Paths \cup Nodes)]
    <3>1. Candidate(p, {p}) \in [path : Paths, members : SUBSET (Paths \cup Nodes)]
      BY <1>3 DEF Candidate
    <3> QED BY <1>1, <3>1 DEF InventoryInv, InventoryTypeOK
  <2>2. truncated' \in BOOLEAN
    BY <1>1, <1>2, <1>5
  <2>3. invErrors' \subseteq Codes
    BY <1>1 DEF InventoryInv, InventoryTypeOK, Codes, Fatal
  <2>4. charged' \in Nat /\ left' \subseteq Paths /\ sdl' \subseteq Paths
    BY <1>1, <1>2, <1>3, <1>4 DEF InventoryInv, InventoryTypeOK
  <2> QED BY <1>1, <2>1, <2>2, <2>3, <2>4 DEF InventoryInv, InventoryTypeOK
<1>7. OneProject'
  BY <1>1 DEF InventoryInv, OneProject
<1>8. /\ Others' = Others /\ Of("config")' = Of("config") /\ Modelled' = Modelled /\ Graphql' = Graphql
      /\ Singles' = Singles /\ \A d : ModelsOf(d)' = ModelsOf(d)
  BY <1>1, SameNames
<1>9. ASSUME Quiet'
      PROVE  /\ left' \subseteq Others \ Modelled /\ sdl' = Graphql \ left'
             /\ candidates' = ProjectsOf(Of("config")) \cup FilesOf(Singles \ left')
  <2>1. Quiet /\ ~late /\ read
    BY <1>1, <1>2, <1>5, <1>9 DEF Quiet
  <2>2. /\ left \subseteq Others \ Modelled /\ sdl = Graphql \ left
        /\ candidates = ProjectsOf(Of("config")) \cup FilesOf(Singles \ left)
    BY <1>1, <2>1 DEF InventoryInv
  <2>3. p \in Named \ Modelled
    BY <1>3, <2>2 DEF Others
  <2>4. (p \in Graphql <=> repo.shape[p] = "graphql") /\ (p \in Singles <=> repo.shape[p] = "single")
    BY <2>3 DEF Graphql, Singles, Of
  <2>5. sdl' = Graphql \ left'
    BY <1>1, <1>3, <2>1, <2>2, <2>4
  <2>6. candidates' = ProjectsOf(Of("config")) \cup FilesOf(Singles \ left')
    <3>1. CASE repo.shape[p] = "single"
      <4>1. Singles \ left' = (Singles \ left) \cup {p} /\ candidates' = candidates \cup {Candidate(p, {p})}
        BY <1>1, <1>3, <2>1, <2>4, <3>1
      <4> QED BY <2>2, <4>1 DEF FilesOf
    <3>2. CASE repo.shape[p] # "single"
      <4>1. Singles \ left' = Singles \ left /\ candidates' = candidates
        BY <1>1, <1>3, <2>4, <3>2
      <4> QED BY <2>2, <4>1
    <3> QED BY <3>1, <3>2
  <2> QED BY <1>1, <2>2, <2>5, <2>6
<1>10. /\ ProjectsOf(Of("config"))' = ProjectsOf(Of("config")) /\ FilesOf(Singles \ left)' = FilesOf(Singles \ left')
  BY <1>8 DEF ProjectsOf, FilesOf
<1>11. CodeOK'
  BY <1>1, CodeKept DEF InventoryInv
<1> QED BY <1>1, <1>6, <1>7, <1>8, <1>9, <1>10, <1>11 DEF InventoryInv

LEMMA GroupGraphqlInv ==
  ASSUME InventoryInv, WalkInv, GroupGraphql
  PROVE  InventoryInv'
<1>1. /\ invStep = "files" /\ left = {} /\ invStep' = "iac" /\ iacLeft' = Sources
      /\ candidates' = candidates \cup Groups
      /\ UNCHANGED <<builds, building, left, truncated, charged, hidden, sdl, invErrors,
                     iacPaths, iacRead, iacBytes, iacCodes>>
      /\ repo' = repo /\ walk' = "none" /\ UNCHANGED <<project, smithyStep>>
  BY DEF GroupGraphql, EndWalk, smithyVars
<1>2. repo \in Repos /\ sdl \subseteq Paths
  BY DEF WalkInv, WalkTypeOK, InventoryInv, InventoryTypeOK
<1>3. \A c \in Groups : c.path \in Paths /\ c.members \in SUBSET Paths /\ c = Candidate(c.path, c.members)
  <2> DEFINE group(x) == {f \in sdl : repo.service[f] = x}
             place(g) == IF g \cap repo.preferred # {} THEN FirstOf(g \cap repo.preferred) ELSE FirstOf(g)
  <2>1. ASSUME NEW g \in SUBSET sdl, g # {} PROVE place(g) \in Paths
    <3>1. CASE g \cap repo.preferred # {}
      <4>1. PICK h \in SUBSET Paths : h = g \cap repo.preferred
        BY <1>2, <2>1
      <4> QED BY <1>2, <3>1, <4>1, FirstIsThere
    <3>2. CASE g \cap repo.preferred = {}
      BY <1>2, <2>1, <3>2, FirstIsThere
    <3> QED BY <3>1, <3>2
  <2>2. \A x \in {repo.service[f] : f \in sdl} : group(x) \in SUBSET sdl /\ group(x) # {}
    OBVIOUS
  <2>3. Groups = {Candidate(place(group(x)), group(x)) : x \in {repo.service[f] : f \in sdl}}
    BY DEF Groups
  <2> HIDE DEF group, place
  <2>4. ASSUME NEW c \in Groups
        PROVE  c.path \in Paths /\ c.members \in SUBSET Paths /\ c = Candidate(c.path, c.members)
    <3>1. PICK x \in {repo.service[f] : f \in sdl} : c = Candidate(place(group(x)), group(x))
      BY <2>3
    <3>2. c.path = place(group(x)) /\ c.members = group(x)
      BY <3>1 DEF Candidate
    <3> QED BY <1>2, <2>1, <2>2, <3>1, <3>2
  <2> QED BY <2>4
<1>4. candidates' \subseteq [path : Paths, members : SUBSET (Paths \cup Nodes)]
  <2>1. \A c \in Groups : c \in [path : Paths, members : SUBSET (Paths \cup Nodes)]
    BY <1>3 DEF Candidate
  <2> QED BY <1>1, <2>1 DEF InventoryInv, InventoryTypeOK
<1>5. iacLeft' \in Seq(Codebases)
  BY <1>1 DEF Sources, Codebases
<1>6. InventoryTypeOK'
  BY <1>1, <1>4, <1>5 DEF InventoryInv, InventoryTypeOK, Codebases
<1>7. OneProject'
  BY <1>1 DEF InventoryInv, OneProject
<1>8. ASSUME Quiet'
      PROVE  Held' = Whole
  <2>1. sdl = Graphql /\ candidates = ProjectsOf(Of("config")) \cup FilesOf(Singles)
    BY <1>1, <1>8 DEF InventoryInv, Quiet
  <2>0. \A a, b : Candidate(a, b).members = b
    BY DEF Candidate
  <2>2. {c.members : c \in ProjectsOf(Of("config"))} = {ModelsOf(c) : c \in {d \in Of("config") : ModelsOf(d) # {}}}
    <3>1. {c.members : c \in ProjectsOf(Of("config"))}
            = {Candidate(d, ModelsOf(d)).members : d \in {e \in Of("config") : ModelsOf(e) # {}}}
      BY Zenon DEF ProjectsOf
    <3> QED BY <2>0, <3>1, Zenon
  <2>3. {c.members : c \in FilesOf(Singles)} = {{p} : p \in Singles}
    <3>1. {c.members : c \in FilesOf(Singles)} = {Candidate(p, {p}).members : p \in Singles}
      BY Zenon DEF FilesOf
    <3> QED BY <2>0, <3>1, Zenon
  <2>4. {c.members : c \in Groups} = {{q \in Graphql : repo.service[q] = repo.service[p]} : p \in Graphql}
    <3> DEFINE group(x) == {f \in sdl : repo.service[f] = x}
           place(g) == IF g \cap repo.preferred # {} THEN FirstOf(g \cap repo.preferred) ELSE FirstOf(g)
    <3>0. Groups = {Candidate(place(group(x)), group(x)) : x \in {repo.service[f] : f \in sdl}}
      BY DEF Groups
    <3>1. {c.members : c \in Groups} = {group(x) : x \in {repo.service[f] : f \in sdl}}
      <4> HIDE DEF group, place
      <4>1. {c.members : c \in Groups}
              = {Candidate(place(group(x)), group(x)).members : x \in {repo.service[f] : f \in sdl}}
        BY <3>0, Zenon
      <4> QED BY <2>0, <4>1, Zenon
    <3>2. {group(x) : x \in {repo.service[f] : f \in sdl}} = {group(repo.service[f]) : f \in sdl}
      BY SMTT(30)
    <3> QED BY <2>1, <3>1, <3>2
  <2>5. Held' = {c.members : c \in candidates} \cup {c.members : c \in Groups}
    BY <1>1 DEF Held
  <2>6. {c.members : c \in candidates} =
          {c.members : c \in ProjectsOf(Of("config"))} \cup {c.members : c \in FilesOf(Singles)}
    BY <2>1
  <2> QED BY <2>2, <2>3, <2>4, <2>5, <2>6 DEF Whole
<1>9. Whole' = Whole
  BY <1>1, SameNames
<1>10. CodeOK'
  <2>1. Code' = Code /\ iacPaths' = {} /\ iacRead' = {}
    BY <1>1, SameCode DEF InventoryInv, CodeOK
  <2>2. ASSUME NEW c \in Codebases PROVE \E i \in 1 .. Len(Sources) : Sources[i] = c
    <3>1. 1 \in 1 .. Len(Sources) /\ 2 \in 1 .. Len(Sources) /\ 3 \in 1 .. Len(Sources) /\ 4 \in 1 .. Len(Sources)
      BY DEF Sources
    <3> QED BY <3>1 DEF Sources, Codebases
  <2>3. Code \subseteq InAll(Sources)
    BY <2>2 DEF Code, InAll
  <2>4. InAll(iacLeft)' = InAll(Sources)
    BY <1>1, SameCode DEF InAll
  <2> QED BY <1>1, <2>1, <2>3, <2>4 DEF CodeOK, CodeAhead
<1> QED BY <1>1, <1>6, <1>7, <1>8, <1>9, <1>10 DEF InventoryInv

\* While the code is looked at, only the account of the code changes.
LEMMA IacInv ==
  ASSUME InventoryInv, invStep = "iac",
         UNCHANGED <<repo, invStep, builds, building, left, truncated, charged, hidden, sdl, candidates, invErrors,
                     project, smithyStep>>,
         iacLeft' \in Seq(Codebases), iacPaths' \subseteq Paths, iacRead' \subseteq Paths, iacBytes' \in Nat,
         iacCodes' \subseteq Codes, CodeOK'
  PROVE  InventoryInv'
<1>1. InventoryTypeOK'
  BY DEF InventoryInv, InventoryTypeOK, Codebases
<1>2. OneProject'
  BY DEF InventoryInv, OneProject
<1>3. Quiet' = Quiet /\ Held' = Held /\ Whole' = Whole
  BY SameNames DEF Quiet, Held
<1> QED BY <1>1, <1>2, <1>3 DEF InventoryInv

LEMMA CodeInv ==
  ASSUME InventoryInv, WalkInv, NextSource \/ TakeTerraform \/ NextIacFile
  PROVE  InventoryInv'
<1>1. /\ iacLeft \in Seq(Codebases) /\ iacPaths \subseteq Paths /\ iacRead \subseteq Paths /\ iacBytes \in Nat
      /\ iacCodes \subseteq Codes /\ repo \in Repos /\ found \subseteq Paths
  BY DEF InventoryInv, InventoryTypeOK, WalkInv, WalkTypeOK, Codebases
<1>5. /\ iacRead \subseteq Code \ repo.broken
      /\ invStep = "iac" =>
           /\ iacPaths \subseteq Code
           /\ walk = "terraform" => iacPaths = {}
           /\ iacCodes \cap Told = {} => Code \ repo.broken \subseteq iacRead \cup CodeAhead
  BY DEF InventoryInv, CodeOK
<1>2. CASE NextSource
  <2>0. \/ Head(iacLeft) = "terraform" /\ iacPaths' = iacPaths /\ repo' = repo /\ walk' = "terraform"
        \/ Head(iacLeft) # "terraform" /\ iacPaths' = repo.iac[Head(iacLeft)] /\ repo' = repo /\ walk' = walk
    <3>1. CASE Head(iacLeft) = "terraform"
      BY <1>2, <3>1 DEF NextSource, BeginWalk
    <3>2. CASE Head(iacLeft) # "terraform"
      BY <1>2, <3>2 DEF NextSource, walkVars
    <3> QED BY <3>1, <3>2
  <2>1. /\ invStep = "iac" /\ walk = "none" /\ iacPaths = {} /\ iacLeft # <<>> /\ iacLeft' = Tail(iacLeft)
        /\ UNCHANGED <<invStep, builds, building, left, truncated, charged, hidden, sdl, candidates, invErrors,
                       iacRead, iacBytes, iacCodes>>
        /\ UNCHANGED <<project, smithyStep>>
    BY <1>2 DEF NextSource, smithyVars
  <2>2. Head(iacLeft) \in Codebases /\ iacLeft' \in Seq(Codebases)
    BY <1>1, <2>1
  <2>3. iacPaths' \subseteq Paths
    BY <1>1, <2>0, <2>2, InventoryRepoTypes DEF Codebases
  <2>4. Code' = Code /\ \A s : InCode(s)' = InCode(s)
    BY <2>0, SameCode
  <2>5. CodeAhead = InAll(iacLeft) /\ InAll(iacLeft)' = InAll(Tail(iacLeft))
    BY <2>1, <2>4 DEF CodeAhead, InAll
  <2>6. CodeAhead \subseteq CodeAhead'
    <3>1. InAll(iacLeft) \subseteq InCode(Head(iacLeft)) \cup InAll(Tail(iacLeft))
      BY <1>1, <2>1, AheadOfTail
    <3>2. InCode(Head(iacLeft)) \subseteq iacPaths' \cup (IF walk' = "terraform" THEN InCode("terraform") ELSE {})
      BY <2>0, <2>1 DEF InCode
    <3> QED BY <2>4, <2>5, <3>1, <3>2 DEF CodeAhead
  <2>7. iacPaths' \subseteq Code
    BY <2>0, <2>1, <2>2 DEF Code, InCode
  <2>8. walk' = "terraform" => iacPaths' = {}
    BY <2>0, <2>1
  <2>9. CodeOK'
    BY <1>5, <2>0, <2>1, <2>4, <2>6, <2>7, <2>8 DEF CodeOK
  <2> QED BY <1>1, <2>0, <2>1, <2>2, <2>3, <2>9, IacInv
<1>3. CASE TakeTerraform
  <2>1. /\ invStep = "iac" /\ walk = "terraform" /\ WalkDone /\ walk' = "none" /\ iacPaths' = found /\ repo' = repo
        /\ iacCodes' = iacCodes \cup (IF cut THEN {"bounds-exceeded"} ELSE {})
        /\ UNCHANGED <<invStep, builds, building, left, truncated, charged, hidden, sdl, candidates, invErrors,
                       iacLeft, iacRead, iacBytes>>
        /\ UNCHANGED <<project, smithyStep>>
    BY <1>3 DEF TakeTerraform, EndWalk, smithyVars
  <2>2. iacCodes' \subseteq Codes
    BY <1>1, <2>1 DEF Codes, Fatal
  <2>3. found \subseteq InCode("terraform") /\ (~cut => found = InCode("terraform"))
    BY <2>1, WholeWalk DEF Walks, InCode
  <2>4. Code' = Code /\ InAll(iacLeft)' = InAll(iacLeft)
    BY <2>1, SameCode DEF InAll
  <2>5. found \subseteq Code
    BY <2>3 DEF Code, Codebases
  <2>6. (iacCodes \cap Told = {})' => CodeAhead' = CodeAhead /\ iacCodes \cap Told = {}
    <3>1. (iacCodes \cap Told = {})' => ~cut /\ iacCodes \cap Told = {}
      BY <2>1 DEF Told
    <3> QED BY <1>5, <2>1, <2>3, <2>4, <3>1 DEF CodeAhead
  <2>7. CodeOK'
    BY <1>5, <2>1, <2>4, <2>5, <2>6 DEF CodeOK
  <2> QED BY <1>1, <2>1, <2>2, <2>7, IacInv
<1>4. CASE NextIacFile
  <2> DEFINE p == FirstOf(iacPaths)
  <2>1. /\ invStep = "iac" /\ iacPaths # {} /\ iacPaths' = iacPaths \ {p} /\ repo' = repo
        /\ walk = "none" /\ walk' = walk
        /\ \/ IacProblem(p) # {} /\ iacCodes' = iacCodes \cup IacProblem(p) /\ UNCHANGED <<iacRead, iacBytes>>
           \/ /\ IacProblem(p) = {} /\ iacRead' = iacRead \cup {p} /\ iacBytes' = iacBytes + repo.size[p]
              /\ UNCHANGED iacCodes
        /\ UNCHANGED <<invStep, builds, building, left, truncated, charged, hidden, sdl, candidates, invErrors, iacLeft>>
        /\ UNCHANGED <<project, smithyStep>>
    BY <1>4 DEF NextIacFile, walkVars, smithyVars
  <2>2. p \in iacPaths /\ p \in Paths /\ repo.size[p] \in Nat
    <3>1. p \in iacPaths
      BY <1>1, <2>1, FirstIsThere
    <3> QED BY <1>1, <3>1, InventoryRepoTypes
  <2>3. IacProblem(p) \subseteq Codes
    BY DEF IacProblem, Codes, Fatal
  \* What is not read is broken, or a bound or an escape keeps it out.
  <2>5. IacProblem(p) = {} \/ IacProblem(p) = {"bounds-exceeded"} \/ IacProblem(p) = {"path-escape"}
          \/ (IacProblem(p) = {"unreadable"} /\ p \in repo.broken)
    BY DEF IacProblem
  <2>6. IacProblem(p) = {} => p \notin repo.broken
    BY DEF IacProblem
  <2> HIDE DEF p
  <2>7. Code' = Code /\ InAll(iacLeft)' = InAll(iacLeft)
    BY <2>1, SameCode DEF InAll
  <2>8. CodeOK'
    <3>1. CodeAhead \subseteq CodeAhead' \cup {p}
      BY <2>1, <2>7 DEF CodeAhead
    <3>2. iacPaths' \subseteq Code' /\ (walk' = "terraform" => iacPaths' = {})
      BY <1>5, <2>1, <2>7
    <3>3. iacRead' \subseteq (Code \ repo.broken)'
      BY <1>5, <2>1, <2>2, <2>6, <2>7
    <3>4. ASSUME (iacCodes \cap Told = {})'
          PROVE  iacCodes \cap Told = {} /\ (p \in repo.broken \/ p \in iacRead')
      <4>1. iacCodes \cap Told = {} /\ (IacProblem(p) \cap Told = {} \/ IacProblem(p) = {})
        BY <2>1, <3>4
      <4> QED BY <2>1, <2>5, <4>1 DEF Told
    <3>5. iacRead \subseteq iacRead'
      BY <2>1
    <3>6. (iacCodes \cap Told = {})' => (Code \ repo.broken)' \subseteq (iacRead \cup CodeAhead)'
      BY <1>5, <2>1, <2>7, <3>1, <3>4, <3>5
    <3> QED BY <2>1, <3>2, <3>3, <3>6 DEF CodeOK
  <2>4. iacPaths' \subseteq Paths /\ iacRead' \subseteq Paths /\ iacBytes' \in Nat /\ iacCodes' \subseteq Codes
    BY <1>1, <2>1, <2>2, <2>3
  <2> QED BY <1>1, <2>1, <2>4, <2>8, IacInv
<1> QED BY <1>2, <1>3, <1>4

(* The end: what static code adds are documents of its own, none of them or all that have no        *)
(* candidate yet, and what was cut off is an error.                                                 *)
LEMMA FinishInv ==
  ASSUME InventoryInv, invStep = "iac", NEW S \in SUBSET Paths, S \subseteq Static, NEW codes \in SUBSET Codes,
         S = {} \/ codes # {} \/ \A p \in Static : p \in S \/ \E c \in candidates : c.path = p,
         Finish({Candidate(p, {p}) : p \in S}, codes)
  PROVE  InventoryInv'
<1>1. /\ candidates' = candidates \cup {Candidate(p, {p}) : p \in S} /\ invStep' = "done"
      /\ invErrors' = invErrors \cup codes \cup (IF truncated THEN {"bounds-exceeded"} ELSE {})
      /\ UNCHANGED <<builds, building, left, truncated, charged, hidden, sdl, iacLeft, iacPaths, iacRead, iacBytes, iacCodes>>
      /\ repo' = repo /\ UNCHANGED <<project, smithyStep>>
  BY DEF Finish, walkVars, smithyVars
<1>2. InventoryTypeOK'
  <2>1. candidates' \subseteq [path : Paths, members : SUBSET (Paths \cup Nodes)]
    <3>1. \A p \in S : Candidate(p, {p}) \in [path : Paths, members : SUBSET (Paths \cup Nodes)]
      BY DEF Candidate
    <3>2. {Candidate(p, {p}) : p \in S} \subseteq [path : Paths, members : SUBSET (Paths \cup Nodes)]
      BY <3>1, Zenon
    <3>3. candidates \subseteq [path : Paths, members : SUBSET (Paths \cup Nodes)]
      BY DEF InventoryInv, InventoryTypeOK
    <3> QED BY <1>1, <3>2, <3>3, Zenon
  <2>2. invErrors' \subseteq Codes
    BY <1>1 DEF InventoryInv, InventoryTypeOK, Codes, Fatal
  <2> QED BY <1>1, <2>1, <2>2 DEF InventoryInv, InventoryTypeOK
<1>3. OneProject'
  BY <1>1 DEF InventoryInv, OneProject
<1>4. truncated' => invErrors' # {}
  BY <1>1
<1>5. ContractsHeldOrReported'
  <2>1. SUFFICES ASSUME invErrors' = {}
                 PROVE  /\ Whole' \subseteq Held' /\ Held' \ Whole' \subseteq {{p} : p \in Static'}
                        /\ Held' \subseteq Whole' \/ \A p \in Static' : \E c \in candidates' : c.path = p
    BY DEF ContractsHeldOrReported
  <2>2. Quiet
    BY <1>1, <2>1 DEF Quiet
  <2>3. Held = Whole /\ Whole' = Whole
    BY <1>1, <2>2, SameNames DEF InventoryInv
  <2>4. Held' = Held \cup {{p} : p \in S}
    <3>1. Held' = Held \cup {c.members : c \in {Candidate(p, {p}) : p \in S}}
      BY <1>1 DEF Held
    <3>2. {c.members : c \in {Candidate(p, {p}) : p \in S}} = {Candidate(p, {p}).members : p \in S}
      BY Zenon
    <3>3. \A a, b : Candidate(a, b).members = b
      BY DEF Candidate
    <3>4. {Candidate(p, {p}).members : p \in S} = {{p} : p \in S}
      BY <3>3, ZenonT(30)
    <3> QED BY <3>1, <3>2, <3>4
  <2>5. Static' = Static
    BY <1>1, SameCode
  <2>6. CASE S = {}
    BY <2>3, <2>4, <2>5, <2>6
  <2>7. CASE \A p \in Static : p \in S \/ \E c \in candidates : c.path = p
    <3>1. ASSUME NEW p \in Static PROVE \E c \in candidates' : c.path = p
      <4>1. CASE p \in S
        <5>1. Candidate(p, {p}) \in candidates' /\ Candidate(p, {p}).path = p
          BY <1>1, <4>1 DEF Candidate
        <5> QED BY <5>1
      <4>2. CASE \E c \in candidates : c.path = p
        BY <1>1, <4>2
      <4> QED BY <2>7, <4>1, <4>2
    <3> QED BY <2>3, <2>4, <2>5, <3>1
  <2>8. codes = {}
    BY <1>1, <2>1
  <2> QED BY <2>6, <2>7, <2>8
<1>6. CodeOK'
  BY <1>1, CodeKept DEF InventoryInv
<1> QED BY <1>1, <1>2, <1>3, <1>4, <1>5, <1>6 DEF InventoryInv

LEMMA MergeStaticIacInv ==
  ASSUME InventoryInv, MergeStaticIac \/ StaticIacThrows
  PROVE  InventoryInv'
<1>1. CASE MergeStaticIac
  <2> DEFINE S == {q \in iacRead \cap repo.authored \cap repo.scope : \A c \in candidates : c.path # q}
             codes == iacCodes \cap {"bounds-exceeded", "path-escape"}
  <2>1. /\ invStep = "iac" /\ walk = "none" /\ iacPaths = {} /\ iacLeft = <<>>
        /\ Finish({Candidate(p, {p}) : p \in S}, codes)
    BY <1>1 DEF MergeStaticIac
  <2>2. S \in SUBSET Paths /\ codes \in SUBSET Codes
    BY DEF InventoryInv, InventoryTypeOK
  <2>3. \A p : p \in Static <=> p \in (repo.authored \cap repo.scope) \ repo.broken /\ p \in Code
    BY DEF Static, Code, Codebases
  <2>4. CodeAhead = {}
    BY <2>1 DEF CodeAhead, InAll
  <2>5. iacRead \subseteq Code \ repo.broken /\ (codes = {} => Code \ repo.broken \subseteq iacRead)
    BY <2>1, <2>4 DEF InventoryInv, CodeOK, Told
  <2>6. S \subseteq Static
    BY <2>3, <2>5
  <2>7. codes = {} => \A p \in Static : p \in S \/ \E c \in candidates : c.path = p
    BY <2>3, <2>5
  <2> HIDE DEF S, codes
  <2> QED BY <2>1, <2>2, <2>6, <2>7, FinishInv
<1>2. CASE StaticIacThrows
  <2>1. invStep = "iac" /\ Finish({}, {}) /\ {} = {Candidate(p, {p}) : p \in {}}
    BY <1>2 DEF StaticIacThrows
  <2>2. PICK S \in SUBSET Paths : S = {} /\ S \subseteq Static /\ {} = {Candidate(p, {p}) : p \in S}
    BY <2>1
  <2>3. Finish({Candidate(p, {p}) : p \in S}, {}) /\ {} \in SUBSET Codes
    BY <2>1, <2>2
  <2> QED BY <2>1, <2>2, <2>3, FinishInv
<1> QED BY <1>1, <1>2

LEMMA InventoryInitInv ==
  ASSUME repo \in Repos, WalkInit, SmithyInit, InventoryInit
  PROVE  WalkInv /\ SmithyInv /\ InventoryInv
<1>1. WalkInv
  <2>1. /\ walk = "none" /\ rootsLeft = <<>> /\ trail = <<>> /\ entries = 0 /\ counted = 0 /\ found = {}
        /\ cut = FALSE /\ refused = FALSE /\ late = FALSE
    BY DEF WalkInit
  <2>2. WalkTypeOK
    <3>1. <<>> \in Seq(Paths) /\ <<>> \in Seq([left : SUBSET Paths, depth : Nat])
      OBVIOUS
    <3> QED BY <2>1, <3>1 DEF WalkTypeOK
  <2> QED BY <2>1, <2>2 DEF WalkInv, Walks
<1>2. /\ smithyStep = "idle" /\ frames = <<>> /\ models = {} /\ problems = {} /\ walked = {}
      /\ entriesSeen = 0 /\ filesRead = 0 /\ modelBytes = 0 /\ project \in Projects
  BY ProjectsAssumption DEF SmithyInit
<1>3. SmithyInv
  <2>1. SmithyTypeOK
    BY <1>2 DEF SmithyTypeOK
  <2> QED BY <1>2, <2>1 DEF SmithyInv
<1>4. InventoryInv
  <2>1. /\ invStep = "idle" /\ builds = {} /\ building = {} /\ left = {} /\ truncated = FALSE /\ charged = 0
        /\ hidden = {} /\ sdl = {} /\ candidates = {} /\ invErrors = {} /\ iacLeft = <<>> /\ iacPaths = {}
        /\ iacRead = {} /\ iacBytes = 0 /\ iacCodes = {}
    BY DEF InventoryInit
  <2>2. InventoryTypeOK
    <3>1. iacLeft \in Seq({"cloudformation", "cdk", "terraform", "serverless"})
      BY <2>1
    <3> QED BY <2>1, <3>1 DEF InventoryTypeOK
  <2>3. OneProject
    BY <1>2, <2>1 DEF OneProject
  <2>4. CodeOK
    BY <2>1 DEF CodeOK
  <2> QED BY <2>1, <2>2, <2>3, <2>4 DEF InventoryInv
<1> QED BY <1>1, <1>3, <1>4

LEMMA InventoryStepInv ==
  ASSUME WalkInv, SmithyInv, InventoryInv, InventoryStep
  PROVE  WalkInv' /\ SmithyInv' /\ InventoryInv'
<1>1. CASE TakePaths
  <2>1. UNCHANGED walkVars /\ UNCHANGED smithyVars
    BY <1>1 DEF TakePaths
  <2> QED BY <1>1, <2>1, WalkIdleInv, SmithyIdleInv, TakePathsInv
<1>2. CASE NextProject
  <2>1. UNCHANGED walkVars
    BY <1>2 DEF NextProject
  <2> QED BY <1>2, <2>1, WalkIdleInv, NextProjectInv
<1>3. CASE TakeProject
  <2>1. UNCHANGED walkVars
    BY <1>3 DEF TakeProject
  <2> QED BY <1>3, <2>1, WalkIdleInv, TakeProjectInv
<1>4. CASE ProjectsDone
  <2>1. UNCHANGED walkVars /\ UNCHANGED smithyVars
    BY <1>4 DEF ProjectsDone
  <2> QED BY <1>4, <2>1, WalkIdleInv, SmithyIdleInv, ProjectsDoneInv
<1>5. CASE NextFile
  <2>1. UNCHANGED walkVars /\ UNCHANGED smithyVars
    BY <1>5 DEF NextFile
  <2> QED BY <1>5, <2>1, WalkIdleInv, SmithyIdleInv, NextFileInv
<1>6. CASE GroupGraphql
  <2>1. EndWalk /\ UNCHANGED smithyVars
    BY <1>6 DEF GroupGraphql
  <2> QED BY <1>6, <2>1, WalkIdleInv, SmithyIdleInv, GroupGraphqlInv
<1>7. CASE NextSource
  <2>1. UNCHANGED smithyVars
    BY <1>7 DEF NextSource
  <2>2. UNCHANGED walkVars \/ BeginWalk("terraform")
    BY <1>7 DEF NextSource
  <2>3. repo \in Repos /\ "terraform" \in Walks
    BY DEF WalkInv, WalkTypeOK, Walks
  <2>4. WalkInv'
    BY <2>2, <2>3, WalkIdleInv, BeginWalkInv
  <2> QED BY <1>7, <2>1, <2>4, SmithyIdleInv, CodeInv
<1>8. CASE TakeTerraform
  <2>1. EndWalk /\ UNCHANGED smithyVars
    BY <1>8 DEF TakeTerraform
  <2> QED BY <1>8, <2>1, WalkIdleInv, SmithyIdleInv, CodeInv
<1>9. CASE NextIacFile
  <2>1. UNCHANGED walkVars /\ UNCHANGED smithyVars
    BY <1>9 DEF NextIacFile
  <2> QED BY <1>9, <2>1, WalkIdleInv, SmithyIdleInv, CodeInv
<1>10. CASE MergeStaticIac \/ StaticIacThrows
  <2>1. UNCHANGED walkVars /\ UNCHANGED smithyVars
    BY <1>10 DEF MergeStaticIac, StaticIacThrows, Finish
  <2> QED BY <1>10, <2>1, WalkIdleInv, SmithyIdleInv, MergeStaticIacInv
<1>11. CASE SmithyNext /\ UNCHANGED <<walkVars, invVars>>
  <2>1. project' = project /\ smithyStep # "idle" /\ smithyStep' # "idle"
    BY <1>11 DEF SmithyNext, ReadRoot, CollectEntry, WalkEntry, LeaveFrame, ProjectEnds
  <2>2. UNCHANGED walkVars /\ UNCHANGED <<repo, invVars>> /\ walk' = walk
    BY <1>11 DEF walkVars
  <2> QED BY <1>11, <2>1, <2>2, WalkIdleInv, SmithyNextInv, InventoryIdleInv
<1>12. CASE WalkStep /\ UNCHANGED <<smithyVars, invVars>>
  <2>1. repo' = repo /\ walk' = walk
    BY <1>12 DEF WalkStep, EnterRoot, Visit, LeaveDir, TimeIsUp
  <2>2. UNCHANGED smithyVars /\ UNCHANGED <<project, smithyStep>> /\ UNCHANGED <<repo, invVars>>
    BY <1>12, <2>1 DEF smithyVars
  <2> QED BY <1>12, <2>1, <2>2, WalkStepInv, SmithyIdleInv, InventoryIdleInv
<1> QED BY <1>1, <1>2, <1>3, <1>4, <1>5, <1>6, <1>7, <1>8, <1>9, <1>10, <1>11, <1>12 DEF InventoryStep
=============================================================================
