------------------------- MODULE DefinitionClosure -------------------------
(***************************************************************************)
(* resolveRepoDefinitionClosure: the files a WSDL or protobuf document of  *)
(* the repository imports, read breadth first below the directory of the   *)
(* document, within bounds on their number, depth and size.                *)
(***************************************************************************)
EXTENDS Integers, Sequences, FiniteSets

CONSTANTS
  Files,            \* the files of the repository below the directory of the root
  Bundles,          \* the documents to close: see BundleOK
  Outside,          \* a reference that is absolute, remote or leaves the directory
  WellKnown,        \* a reference into google/protobuf
  MaxClosureFiles, MaxClosureDepth, MaxMemberBytes, MaxClosureBytes

VARIABLES
  bundle,           \* the document being closed
  closing,          \* "reading", "single", "multi", "partial"
  members,          \* the files that belong to it
  bytes,            \* their size
  queue,            \* members not yet opened, with their depth
  reading,          \* the depth of the open member
  refs,             \* its references not yet followed
  missing           \* the references that could not be followed

closureVars == <<bundle, closing, members, bytes, queue, reading, refs, missing>>

References == Files \cup {Outside, WellKnown}

BundleOK(b) ==
  /\ b.root \in Files
  /\ b.format \in {"protobuf", "wsdl", "other"}
  /\ b.imports \in [Files -> Seq(References)]
  /\ b.readable \subseteq Files          \* regular files without a symlink on the way
  /\ b.size \in [Files -> Nat]

ASSUME BundlesAssumption == \A b \in Bundles : BundleOK(b)
ASSUME ClosureBoundsAssumption ==
  /\ MaxClosureFiles \in Nat \ {0} /\ MaxClosureDepth \in Nat
  /\ MaxMemberBytes \in Nat /\ MaxClosureBytes \in Nat
ASSUME ReferencesAssumption == Outside \notin Files /\ WellKnown \notin Files /\ Outside # WellKnown

-----------------------------------------------------------------------------
\* Only WSDL and protobuf documents are closed.
ClosureInit ==
  /\ bundle \in Bundles
  /\ closing = (IF bundle.format = "other" THEN "single" ELSE "reading")
  /\ members = {bundle.root} /\ bytes = bundle.size[bundle.root]
  /\ queue = (IF bundle.format = "other" THEN <<>> ELSE <<[file |-> bundle.root, depth |-> 0]>>)
  /\ reading = 0 /\ refs = <<>> /\ missing = {}

GiveUp == /\ closing' = "partial"
          /\ queue' = <<>> /\ refs' = <<>>
          /\ UNCHANGED <<bundle, members, bytes, reading, missing>>

Exceeded == Cardinality(members) > MaxClosureFiles \/ Head(queue).depth > MaxClosureDepth

OpenMember ==
  /\ closing = "reading" /\ refs = <<>> /\ queue # <<>>
  /\ IF Exceeded THEN GiveUp
     ELSE /\ refs' = bundle.imports[Head(queue).file]
          /\ reading' = Head(queue).depth
          /\ queue' = Tail(queue)
          /\ UNCHANGED <<bundle, closing, members, bytes, missing>>

\* Well-known imports of protobuf and members already read need nothing.
Settled(ref) == ref \in members \/ (ref = WellKnown /\ bundle.format = "protobuf")

Fits(ref) ==
  /\ ref \in bundle.readable
  /\ bundle.size[ref] <= MaxMemberBytes /\ bytes + bundle.size[ref] <= MaxClosureBytes

Join(ref) ==
  /\ members' = members \cup {ref}
  /\ bytes' = bytes + bundle.size[ref]
  /\ queue' = Append(queue, [file |-> ref, depth |-> reading + 1])
  /\ refs' = Tail(refs)
  /\ UNCHANGED <<bundle, closing, reading, missing>>

Lose(ref) ==
  /\ missing' = missing \cup {ref} /\ refs' = Tail(refs)
  /\ UNCHANGED <<bundle, closing, members, bytes, queue, reading>>

Skip == refs' = Tail(refs) /\ UNCHANGED <<bundle, closing, members, bytes, queue, reading, missing>>

\* Mutant: a member at the depth limit is taken for a leaf.
FollowShallow ==
  /\ closing = "reading" /\ refs # <<>>
  /\ LET ref == Head(refs) IN
     IF Settled(ref) \/ (ref \in Files /\ reading >= MaxClosureDepth) THEN Skip
     ELSE IF ref \notin Files THEN Lose(ref)
     ELSE IF Fits(ref) THEN Join(ref) ELSE Lose(ref)

\* normalizeRelativeDependencyRef and resolveLocalReadWithinRoot decide what is inside.
Follow ==
  /\ closing = "reading" /\ refs # <<>>
  /\ LET ref == Head(refs) IN
     IF Settled(ref) THEN Skip
     ELSE IF ref \notin Files THEN Lose(ref)
     ELSE IF reading >= MaxClosureDepth THEN GiveUp
     ELSE IF Fits(ref) THEN Join(ref) ELSE Lose(ref)

Close ==
  /\ closing = "reading" /\ refs = <<>> /\ queue = <<>>
  /\ closing' = (IF missing # {} THEN "partial"
                 ELSE IF members = {bundle.root} THEN "single" ELSE "multi")
  /\ UNCHANGED <<bundle, members, bytes, queue, reading, refs, missing>>

ClosureNext == OpenMember \/ Follow \/ Close

ClosureSpec == ClosureInit /\ [][ClosureNext]_closureVars /\ WF_closureVars(ClosureNext)

-----------------------------------------------------------------------------
ClosureTypeOK ==
  /\ bundle \in Bundles
  /\ closing \in {"reading", "single", "multi", "partial"}
  /\ members \subseteq Files /\ bytes \in Nat
  /\ queue \in Seq([file : Files, depth : Nat])
  /\ reading \in Nat /\ refs \in Seq(References) /\ missing \subseteq References

\* What a member needs besides itself.
Needs(f) == {bundle.imports[f][i] : i \in 1 .. Len(bundle.imports[f])}

(* A definition is called full only when it is: every reference of every member is a member or a    *)
(* well-known import, each member but the root could be read, and bounds on number and size hold.   *)
(* A full definition is what is published as the complete set of files of an API                   *)
(* (resolveRepoDefinitionClosure).                                                                  *)
FullIsClosed ==
  closing \in {"single", "multi"} /\ bundle.format # "other" =>
    /\ \A f \in members : Needs(f) \subseteq
         members \cup (IF bundle.format = "protobuf" THEN {WellKnown} ELSE {})
    /\ members \subseteq bundle.readable \cup {bundle.root}
    /\ bytes <= MaxClosureBytes \/ members = {bundle.root}
    /\ Cardinality(members) <= MaxClosureFiles
=============================================================================
