-------------------------- MODULE GatewayNarrowing --------------------------
(***************************************************************************)
(* How resolve-one reduces the API Gateways of an account to one answer:   *)
(* runResolution of src/runtime.ts from the custom-domain lookup to        *)
(* resolveServiceCandidate, with correlateExactRepoTags and the tiers of   *)
(* runNarrowingPipeline.  Every AWS call may be denied, and each denial is *)
(* swallowed at its own place.                                             *)
(*                                                                         *)
(* A gateway is a number, its profile what the calls and the repository    *)
(* say of it.  Gateway ids are compared as the numbers are.  A missing     *)
(* client, an absent repository slug or include-v2 = false show as denials.*)
(* runResolution wraps the tagging client so that the pipeline's tag tier  *)
(* never matches an exact contract: its mode is "narrow" in every tier.    *)
(***************************************************************************)
EXTENDS Integers, FiniteSets, Subsequences

CONSTANTS
  Ids,            \* the gateways of the account
  Profiles,       \* what may be true of a gateway
  Orders,         \* orders in which the account may be listed
  Inputs,         \* values of expected-gateway-ids
  MaxCandidates,  \* max-candidates
  NoGateway

Answer    == [id : Ids, confidence : Nat, ambiguous : BOOLEAN]
Kinds     == {"REST", "HTTP"}
TagValues == {"canonical", "mixedCase", "split", "generic", "none"}

Profile == [kind    : Kinds,
            shown   : BOOLEAN,    \* the name passes api-filter
            domain  : BOOLEAN,    \* a custom domain found in the repository maps to it
            iac     : BOOLEAN,    \* its id appears in the repository's files
            stack   : BOOLEAN,    \* a stack named after the repository holds it
            tag     : TagValues,  \* repository tags; mixedCase: postman:repo, other letter case
            slug    : BOOLEAN,    \* the name contains the repository name
            service : BOOLEAN,    \* the name contains a service hint
            mark    : BOOLEAN]    \* some tag value contains a service hint

ASSUME GatewayNarrowingAssumption ==
  /\ Ids \subseteq Nat /\ IsFiniteSet(Ids)
  /\ NoGateway \notin Answer
  /\ Profiles \subseteq Profile
  /\ Orders \subseteq SetToSeqs(Ids)
  /\ Inputs \subseteq Seq(Ids) /\ MaxCandidates \in Nat \ {0}

VARIABLES
  gw,         \* the profile of each gateway (never changes)
  order,      \* the listing order (never changes)
  expected,   \* expected-gateway-ids (never changes)
  pc,
  inferred,   \* inferredGatewayIdHints, domain matches included
  cands,      \* finalCandidates
  exact,      \* gatewayIds of the exact correlation
  known,      \* gateways whose tags could be read
  answer,     \* what resolveServiceCandidate returns
  \* history
  listed,     \* the candidates before anything narrowed them
  hits,       \* what the tier that narrowed had found
  truncated   \* the cap dropped candidates

world == <<gw, order, expected>>
vars  == <<gw, order, expected, pc, inferred, cands, exact, known, answer, listed, hits, truncated>>

Tiers == {"iac", "cfn", "tags", "naming"}

TypeOK ==
  /\ gw \in [Ids -> Profiles] /\ order \in Orders /\ expected \in Inputs
  /\ pc \in {"domains", "list", "canonical", "keyOnly", "split", "restrict"} \cup Tiers
              \cup {"cap", "read", "resolve", "done"}
  /\ cands \in Seq(Ids) /\ Len(cands) = Cardinality(ToSet(cands))
  /\ {inferred, exact, known, hits} \subseteq SUBSET Ids
  /\ answer \in Answer \cup {NoGateway}
  /\ listed \in Seq(Ids) /\ truncated \in BOOLEAN

Init ==
  /\ gw \in [Ids -> Profiles] /\ order \in Orders /\ expected \in Inputs
  /\ pc = "domains" /\ inferred = {g \in Ids : gw[g].iac}
  /\ cands = <<>> /\ exact = {} /\ known = {} /\ answer = NoGateway
  /\ listed = <<>> /\ hits = {} /\ truncated = FALSE

-----------------------------------------------------------------------------
With(P(_)) == {g \in Ids : P(gw[g])}
OfKinds(K) == With(LAMBDA p : p.kind \in K)

\* uniqueSortedIds: the set in the order of the ids (there is one such sequence).
Sorted(S) == {s \in SetToSeqs(S) : \A i, j \in DOMAIN s : i < j => s[i] < s[j]}

\* Mutant: a gateway found twice is a candidate twice.
KeepDuplicates(s) == s

\* The first occurrence of each element.
uniqueGatewayCandidates(s) == Picked(s, {i \in DOMAIN s : \A j \in 1 .. i - 1 : s[j] # s[i]})

\* matchExactRepoTagContract: the values are compared without regard to case.
Contract(g) == gw[g].tag \in {"canonical", "mixedCase", "split"}

\* Gateways mapped to a custom domain the repository names; REST and HTTP
\* mappings are read separately and either read may be denied.
MatchDomains ==
  /\ pc = "domains" /\ pc' = "list"
  /\ \E K \in SUBSET Kinds :
       LET found == OfKinds(K) \cap With(LAMBDA p : p.domain)
       IN  /\ cands' = Only(order, found)
           /\ inferred' = inferred \cup found
  /\ UNCHANGED <<world, exact, known, answer, listed, hits, truncated>>

\* Direct lookups of the expected ids, or the REST list followed by the HTTP
\* list; a denied lookup or list contributes nothing.
List ==
  /\ pc = "list" /\ pc' = "canonical"
  /\ \E found \in IF expected # <<>>
                  THEN {Only(expected, S) : S \in SUBSET ToSet(expected)}
                  ELSE LET Of(k) == Only(order, With(LAMBDA p : p.shown /\ p.kind = k))
                       IN  {Of("REST") \o Of("HTTP"), Of("REST"), Of("HTTP"), <<>>} :
       cands' = uniqueGatewayCandidates(cands \o found)
  /\ listed' = cands'
  /\ UNCHANGED <<world, inferred, exact, known, answer, hits, truncated>>

-----------------------------------------------------------------------------
(* correlateExactRepoTags: three queries of the tagging service; AWS       *)
(* compares the value filter of the first one case by case.                *)
Query(from, found, otherwise) ==
  /\ pc = from
  /\ exact' = found /\ pc' = IF found = {} THEN otherwise ELSE "restrict"
  /\ UNCHANGED <<world, inferred, cands, known, answer, listed, hits, truncated>>

QueryCanonical == Query("canonical", With(LAMBDA p : p.tag = "canonical"), "keyOnly")
QueryKeyOnly   == Query("keyOnly", With(LAMBDA p : p.tag \in {"canonical", "mixedCase"}), "split")
QuerySplit     == Query("split", With(LAMBDA p : p.tag = "split"), "restrict")
QueryDenied    ==
  \/ Query("canonical", {}, "split") \/ Query("keyOnly", {}, "split")
  \/ Query("split", {}, "restrict")

\* Mutant: the exact matches are narrowed further like any other candidates.
KeepExactUnlessOverCap ==
  /\ pc = "restrict"
  /\ \E s \in Sorted(exact) :
       cands' = IF Only(s, ToSet(cands)) # <<>> THEN Only(s, ToSet(cands)) ELSE cands
  /\ pc' = IF Len(cands') > MaxCandidates THEN "iac" ELSE "read"
  /\ UNCHANGED <<world, inferred, exact, known, answer, listed, hits, truncated>>

\* Enumerated exact matches become the candidates, whatever their number;
\* otherwise only an account over the cap is narrowed.
KeepExact ==
  /\ pc = "restrict"
  /\ \E s \in Sorted(exact) :
       LET matched == Only(s, ToSet(cands))
       IN  IF matched # <<>> THEN cands' = matched /\ pc' = "read"
           ELSE /\ pc' = IF Len(cands) > MaxCandidates THEN "iac" ELSE "read"
                /\ UNCHANGED cands
  /\ UNCHANGED <<world, inferred, exact, known, answer, listed, hits, truncated>>

-----------------------------------------------------------------------------
(* runNarrowingPipeline: the first tier that names a candidate decides.    *)

\* Mutant: the candidates no tier named are kept in front.
PromoteLast(s) == Only(cands, Ids \ ToSet(s)) \o s

\* The candidates a tier named come first, in the tier's order; the others
\* stay behind them.
Promote(s) == s \o Only(cands, Ids \ ToSet(s))

\* What a tier names counts once, and only if it is a candidate.
Tier(from, s, next) ==
  LET named == uniqueGatewayCandidates(Only(s, ToSet(cands)))
  IN  /\ pc = from
      /\ IF named = <<>> THEN pc' = next /\ UNCHANGED <<cands, hits>>
         ELSE pc' = "cap" /\ cands' = Promote(named) /\ hits' = ToSet(named)
      /\ UNCHANGED <<world, inferred, exact, known, answer, listed, truncated>>

\* Ids found in the repository: the expected ones, then the inferred ones.
TierIac ==
  \E s \in SetToSeqs(inferred \ ToSet(expected)) : Tier("iac", expected \o s, "cfn")

\* Resources of the stacks named after the repository; the stack list and the
\* resources of each stack may be denied.
TierCfn ==
  \E S \in SUBSET With(LAMBDA p : p.stack) : \E s \in SetToSeqs(S) : Tier("cfn", s, "tags")

\* The generic repository tag keys one after the other, until one is carried by
\* some gateway; a key's query may be denied.
TierTags ==
  \E S \in SUBSET With(LAMBDA p : p.tag = "generic") :
    \E s \in Sorted(S) : Tier("tags", s, "naming")

TierNaming == Tier("naming", Only(cands, With(LAMBDA p : p.slug)), "cap")

\* What still exceeds the cap is cut off.
Cap ==
  /\ pc = "cap" /\ pc' = "read"
  /\ cands' = SubSeq(cands, 1, IF Len(cands) > MaxCandidates THEN MaxCandidates ELSE Len(cands))
  /\ truncated' = (Len(cands) > MaxCandidates)
  /\ UNCHANGED <<world, inferred, exact, known, answer, listed, hits>>

-----------------------------------------------------------------------------
(* Scoring.                                                                *)

\* The tags of every candidate are read one by one; a denied read leaves none.
ReadTags ==
  /\ pc = "read" /\ pc' = "resolve"
  /\ known' \in SUBSET ToSet(cands)
  /\ UNCHANGED <<world, inferred, cands, exact, answer, listed, hits, truncated>>

\* Mutant: a name that contains a service hint is worth as much as a tag.
ScoreNameHigh(g) ==
  (IF Contains(expected, g) THEN 100 ELSE IF g \in inferred THEN 25 ELSE 0)
  + (IF g \in known /\ Contract(g) THEN 100 ELSE 0)
  + (IF gw[g].service THEN 40 ELSE 0) + (IF g \in known /\ gw[g].mark THEN 40 ELSE 0)

Score(g) ==
  (IF Contains(expected, g) THEN 100 ELSE IF g \in inferred THEN 25 ELSE 0)
  + (IF g \in known /\ Contract(g) THEN 100 ELSE 0)
  + (IF gw[g].service THEN 30 ELSE 0) + (IF g \in known /\ gw[g].mark THEN 40 ELSE 0)

\* Mutant: the first of several equal candidates wins.
TiedNever(g) == FALSE

\* Equal top confidence of another candidate makes the match ambiguous.
Tied(g) == Score(g) > 0 /\ \E h \in ToSet(cands) \ {g} : Score(h) = Score(g)

\* Highest confidence, then lowest id.
Resolve ==
  /\ pc = "resolve" /\ pc' = "done"
  /\ LET Before(g, h) == Score(g) > Score(h) \/ (Score(g) = Score(h) /\ g < h)
     IN  IF cands = <<>> THEN answer' = NoGateway
         ELSE \E g \in ToSet(cands) :
                /\ \A h \in ToSet(cands) \ {g} : Before(g, h)
                /\ answer' = [id |-> g, confidence |-> Score(g), ambiguous |-> Tied(g)]
  /\ UNCHANGED <<world, inferred, cands, exact, known, listed, hits, truncated>>

Next ==
  \/ MatchDomains \/ List
  \/ QueryCanonical \/ QueryKeyOnly \/ QuerySplit \/ QueryDenied \/ KeepExact
  \/ TierIac \/ TierCfn \/ TierTags \/ TierNaming \/ Cap
  \/ ReadTags \/ Resolve

Spec == Init /\ [][Next]_vars

-----------------------------------------------------------------------------
(* Properties.                                                             *)

\* isResolvedGatewayCandidate of the source selector.
Selected(g) ==
  /\ pc = "done" /\ answer # NoGateway /\ answer.id = g
  /\ ~answer.ambiguous /\ answer.confidence >= 40

\* What the repository alone says of two gateways is the same.
SameHints(g, h) ==
  /\ Contains(expected, g) <=> Contains(expected, h)
  /\ g \in inferred <=> h \in inferred
  /\ gw[g].service = gw[h].service /\ gw[g].mark = gw[h].mark

\* Enumerated gateways that carry the exact repository tags survive every later
\* step, and no other gateway does: neither the tiers nor the cap touch them.
ExactMatchesSurvive ==
  LET matched == exact \cap ToSet(listed)
  IN  pc \in {"read", "resolve", "done"} /\ matched # {} => ToSet(cands) = matched

\* Narrowing demotes and never deletes: only the cap drops candidates, and it
\* never keeps one no tier named while it drops one that a tier named.
DemotedNotDeleted ==
  pc \in {"read", "resolve", "done"} /\ exact \cap ToSet(listed) = {} =>
    IF truncated
    THEN ToSet(cands) \subseteq hits \/ hits \subseteq ToSet(cands)
    ELSE ToSet(cands) = ToSet(listed)

\* A gateway is never selected on its name alone: the repository or its own tags
\* must speak for it as well.
NeverByNameAlone ==
  \A g \in Ids : Selected(g) =>
    \/ Contains(expected, g) \/ g \in inferred
    \/ g \in known /\ (Contract(g) \/ gw[g].mark)

\* Two candidates that correlate exactly and that the hints do not tell apart
\* leave the choice to a reviewer, as long as the tags of both could be read.
TwinsStayForReview ==
  \A g, h \in exact \cap ToSet(listed) :
    g # h /\ SameHints(g, h) /\ {g, h} \subseteq known => ~Selected(g)

\* "Multiple exact tag matches (for example per-environment duplicates) remain
\* ambiguity-safe ranked manual-review unless explicit stage/environment/gateway
\* evidence selects one" (docs/providers.md).
ExactTwinsNeverSelected ==
  \A g, h \in ToSet(listed) :
    g # h /\ Contract(g) /\ Contract(h) /\ SameHints(g, h) => ~Selected(g)
=============================================================================
