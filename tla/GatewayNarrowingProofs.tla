----------------------- MODULE GatewayNarrowingProofs -----------------------
(* What narrowing may select, for every account, profile and cap.          *)
EXTENDS GatewayNarrowing, SubsequencesProofs

-----------------------------------------------------------------------------
(* Sequences.                                                              *)

\* Every element is kept once.
LEMMA UniqueFacts ==
  ASSUME NEW E, NEW s \in Seq(E)
  PROVE  /\ uniqueGatewayCandidates(s) \in Seq(E)
         /\ ToSet(uniqueGatewayCandidates(s)) = ToSet(s)
         /\ NoRepeats(uniqueGatewayCandidates(s))
<1> DEFINE I == {i \in DOMAIN s : \A j \in 1 .. i - 1 : s[j] # s[i]}
<1>1. ASSUME NEW i \in DOMAIN s
      PROVE  \E j \in DOMAIN s \cap I : s[j] = s[i]
  <2> DEFINE Same == {j \in DOMAIN s : s[j] = s[i]}
  <2>1. Same \subseteq Nat /\ Same # {}
    OBVIOUS
  <2>2. PICK j \in Same : \A k \in Same : j <= k
    <3> HIDE DEF Same
    <3> QED BY <2>1, LeastNumber
  <2>3. j \in I
    BY <2>2
  <2> QED BY <2>3
<1>2. {s[i] : i \in DOMAIN s \cap I} = ToSet(s)
  BY <1>1 DEF ToSet
<1>3. \A i, j \in DOMAIN s \cap I : i # j => s[i] # s[j]
  <2> SUFFICES ASSUME NEW i \in DOMAIN s \cap I, NEW j \in DOMAIN s \cap I, i < j
               PROVE  s[i] # s[j]
    OBVIOUS
  <2> QED OBVIOUS
<1>4. uniqueGatewayCandidates(s) = Picked(s, I)
  BY DEF uniqueGatewayCandidates
<1> HIDE DEF I
<1>5. /\ Picked(s, I) \in Seq(E) /\ ToSet(Picked(s, I)) = {s[i] : i \in DOMAIN s \cap I}
      /\ (\A i, j \in DOMAIN s \cap I : i # j => s[i] # s[j]) => NoRepeats(Picked(s, I))
  BY PickedFacts
<1> QED BY <1>2, <1>3, <1>4, <1>5

\* A sequence of a finite set's elements, each once, has no repeats and no gaps.
LEMMA OrderingFacts ==
  ASSUME NEW S, IsFiniteSet(S), NEW s \in SetToSeqs(S)
  PROVE  s \in Seq(S) /\ ToSet(s) = S /\ NoRepeats(s)
<1> DEFINE D == 1 .. Cardinality(S)
<1>1. /\ s \in [D -> S] /\ Cardinality(S) \in Nat
      /\ \A i, j \in D : i # j => s[i] # s[j]
  BY FS_CardinalityType DEF SetToSeqs
<1>2. IsFiniteSet(D) /\ Cardinality(D) = Cardinality(S)
  BY <1>1, FS_Interval
<1>3. s \in Injection(D, S)
  BY <1>1, Fun_IsInj
<1>4. s \in Surjection(D, S)
  BY <1>2, <1>3, FS_Injection
<1>5. \A x \in S : \E i \in D : s[i] = x
  BY <1>4 DEF Surjection
<1>6. s \in Seq(S) /\ DOMAIN s = D
  BY <1>1
<1> QED BY <1>1, <1>5, <1>6 DEF ToSet, NoRepeats

-----------------------------------------------------------------------------
(* The invariant.                                                          *)

TypeInv == TypeOK /\ NoRepeats(cands)

Whole == {"canonical", "keyOnly", "split", "restrict", "cap"} \cup Tiers

\* Until the cap nothing is lost, no gateway is demoted before the exact matches had their chance, and
\* what a tier named stands in front.
FlowInv ==
  /\ pc \in {"read", "resolve", "done"} \/ ~truncated
  /\ pc \in {"cap", "read", "resolve", "done"} \/ hits = {}
  /\ pc \in Whole => ToSet(cands) = ToSet(listed)
  /\ pc \in Tiers \cup {"cap"} => exact \cap ToSet(listed) = {}
  /\ pc = "cap" => \E k \in 0 .. Len(cands) : hits = {cands[i] : i \in 1 .. k}
  /\ ExactMatchesSurvive
  /\ DemotedNotDeleted

\* Correlated gateways carry the contract, tags are known of candidates only, and the answer is
\* scored with what is known at the end.
AnswerInv ==
  /\ \A g \in exact : Contract(g)
  /\ known \subseteq ToSet(cands)
  /\ pc \in {"resolve", "done"} \/ known = {}
  /\ answer # NoGateway => /\ pc = "done" /\ answer \in Answer
                           /\ answer.confidence = Score(answer.id)
                           /\ answer.ambiguous = Tied(answer.id)

NarrowingInv == TypeInv /\ FlowInv /\ AnswerInv

LEMMA InitInv == Init => NarrowingInv
<1> SUFFICES ASSUME Init PROVE NarrowingInv
  OBVIOUS
<1> USE GatewayNarrowingAssumption
<1>1. cands \in Seq(Ids) /\ NoRepeats(cands) /\ listed \in Seq(Ids) /\ ToSet(cands) = {}
  BY DEF Init, NoRepeats, ToSet
<1>2. Len(cands) = Cardinality(ToSet(cands))
  BY <1>1, LengthIsCardinality
<1>3. TypeInv
  BY <1>1, <1>2 DEF Init, TypeInv, TypeOK
<1>4. FlowInv
  BY DEF Init, FlowInv, Whole, Tiers, ExactMatchesSurvive, DemotedNotDeleted
<1>5. AnswerInv
  BY DEF Init, AnswerInv
<1> QED BY <1>3, <1>4, <1>5 DEF NarrowingInv

\* A step that takes new candidates: the type invariant asks of it no more than this.
LEMMA CandidatesInv ==
  ASSUME TypeInv, cands' \in Seq(Ids), NoRepeats(cands'), UNCHANGED world,
         pc' \in {"list"} \cup Whole \cup {"read"},
         inferred' \subseteq Ids, hits' \subseteq Ids, listed' \in Seq(Ids), truncated' \in BOOLEAN,
         UNCHANGED <<exact, known, answer>>
  PROVE  TypeInv'
<1>1. Len(cands') = Cardinality(ToSet(cands'))
  BY LengthIsCardinality
<1>2. Len(cands)' = Len(cands') /\ Cardinality(ToSet(cands))' = Cardinality(ToSet(cands'))
  OBVIOUS
<1> QED BY <1>1, <1>2 DEF TypeInv, TypeOK, world, Whole, Tiers

LEMMA MatchDomainsInv == NarrowingInv /\ MatchDomains => NarrowingInv'
<1> SUFFICES ASSUME NarrowingInv, MatchDomains PROVE NarrowingInv'
  OBVIOUS
<1> USE GatewayNarrowingAssumption
<1>1. order \in Seq(Ids) /\ NoRepeats(order)
  <2>1. order \in SetToSeqs(Ids)
    BY DEF NarrowingInv, TypeInv, TypeOK
  <2> QED BY <2>1, OrderingFacts
<1>2. PICK found \in SUBSET Ids : cands' = Only(order, found) /\ inferred' = inferred \cup found
  BY DEF MatchDomains, With, OfKinds
<1>3. cands' \in Seq(Ids) /\ NoRepeats(cands')
  BY <1>1, <1>2, OnlyFacts
<1>4. inferred' \subseteq Ids
  BY <1>2 DEF NarrowingInv, TypeInv, TypeOK
<1>5. TypeInv'
  BY <1>3, <1>4, CandidatesInv DEF NarrowingInv, TypeInv, TypeOK, MatchDomains
<1>6. FlowInv'
  BY DEF NarrowingInv, FlowInv, MatchDomains, Whole, Tiers, ExactMatchesSurvive, DemotedNotDeleted
<1>7. AnswerInv'
  BY DEF NarrowingInv, AnswerInv, MatchDomains, world, Contract
<1> QED BY <1>5, <1>6, <1>7 DEF NarrowingInv

LEMMA ListInv == NarrowingInv /\ List => NarrowingInv'
<1> SUFFICES ASSUME NarrowingInv, List PROVE NarrowingInv'
  OBVIOUS
<1> USE GatewayNarrowingAssumption
<1>1. order \in Seq(Ids) /\ expected \in Seq(Ids) /\ cands \in Seq(Ids)
  <2>1. order \in SetToSeqs(Ids)
    BY DEF NarrowingInv, TypeInv, TypeOK
  <2> QED BY <2>1, OrderingFacts DEF NarrowingInv, TypeInv, TypeOK
<1>2. PICK found \in Seq(Ids) : cands' = uniqueGatewayCandidates(cands \o found)
  <2>1. \A S : Only(expected, S) \in Seq(Ids) /\ Only(order, S) \in Seq(Ids)
    BY <1>1, OnlyFacts
  <2>2. \A S, T : Only(order, S) \o Only(order, T) \in Seq(Ids)
    BY <2>1
  <2>3. <<>> \in Seq(Ids)
    OBVIOUS
  <2> QED BY <2>1, <2>2, <2>3 DEF List
<1>3. cands \o found \in Seq(Ids)
  BY <1>1
<1>4. cands' \in Seq(Ids) /\ NoRepeats(cands')
  BY <1>2, <1>3, UniqueFacts
<1>5. TypeInv'
  BY <1>4, CandidatesInv DEF NarrowingInv, TypeInv, TypeOK, List, Whole
<1>6. FlowInv'
  BY DEF NarrowingInv, FlowInv, List, Whole, Tiers, ExactMatchesSurvive, DemotedNotDeleted
<1>7. AnswerInv'
  BY DEF NarrowingInv, AnswerInv, List, world, Contract
<1> QED BY <1>5, <1>6, <1>7 DEF NarrowingInv

LEMMA QueryInv ==
  ASSUME NarrowingInv, NEW from \in Whole \ (Tiers \cup {"cap"}), NEW found \in SUBSET Ids,
         NEW otherwise \in {"keyOnly", "split", "restrict"},
         \A g \in found : Contract(g), Query(from, found, otherwise)
  PROVE  NarrowingInv'
<1>1. TypeInv'
  BY DEF NarrowingInv, TypeInv, TypeOK, Query, world
<1>2. FlowInv'
  BY DEF NarrowingInv, FlowInv, Query, Whole, Tiers, ExactMatchesSurvive, DemotedNotDeleted
<1>3. AnswerInv'
  <2>1. pc \notin {"resolve", "done"} /\ known = {} /\ answer = NoGateway
    BY DEF NarrowingInv, AnswerInv, Query, Whole
  <2> QED BY <2>1 DEF AnswerInv, Query, world, Contract
<1> QED BY <1>1, <1>2, <1>3 DEF NarrowingInv

LEMMA QueriesInv ==
  NarrowingInv /\ (QueryCanonical \/ QueryKeyOnly \/ QuerySplit \/ QueryDenied) => NarrowingInv'
<1> SUFFICES ASSUME NarrowingInv, QueryCanonical \/ QueryKeyOnly \/ QuerySplit \/ QueryDenied
             PROVE  NarrowingInv'
  OBVIOUS
<1> {"canonical", "keyOnly", "split"} \subseteq Whole \ (Tiers \cup {"cap"})
  BY DEF Whole, Tiers
<1>1. CASE QueryCanonical
  BY <1>1, QueryInv DEF QueryCanonical, With, Contract
<1>2. CASE QueryKeyOnly
  BY <1>2, QueryInv DEF QueryKeyOnly, With, Contract
<1>3. CASE QuerySplit
  BY <1>3, QueryInv DEF QuerySplit, With, Contract
<1>4. CASE QueryDenied
  BY <1>4, QueryInv DEF QueryDenied
<1> QED BY <1>1, <1>2, <1>3, <1>4

LEMMA KeepExactInv == NarrowingInv /\ KeepExact => NarrowingInv'
<1> SUFFICES ASSUME NarrowingInv, KeepExact PROVE NarrowingInv'
  OBVIOUS
<1> USE GatewayNarrowingAssumption
<1>0. /\ cands \in Seq(Ids) /\ exact \subseteq Ids /\ ToSet(cands) = ToSet(listed)
      /\ hits = {} /\ ~truncated /\ known = {} /\ pc = "restrict"
  BY DEF NarrowingInv, TypeInv, TypeOK, FlowInv, AnswerInv, KeepExact, Whole
<1>1. PICK s \in Sorted(exact) :
        IF Only(s, ToSet(cands)) # <<>> THEN cands' = Only(s, ToSet(cands)) /\ pc' = "read"
        ELSE /\ pc' = IF Len(cands) > MaxCandidates THEN "iac" ELSE "read"
             /\ UNCHANGED cands
  BY DEF KeepExact
<1> DEFINE matched == Only(s, ToSet(cands))
<1>2. s \in Seq(exact) /\ ToSet(s) = exact /\ NoRepeats(s)
  <2>1. IsFiniteSet(exact)
    BY <1>0, FS_Subset
  <2>2. s \in SetToSeqs(exact)
    BY DEF Sorted
  <2> QED BY <2>1, <2>2, OrderingFacts
<1>3. matched \in Seq(exact) /\ ToSet(matched) = exact \cap ToSet(listed) /\ NoRepeats(matched)
  BY <1>0, <1>2, OnlyFacts
<1>4. matched = <<>> <=> exact \cap ToSet(listed) = {}
  <2> HIDE DEF matched
  <2>1. matched = <<>> <=> ToSet(matched) = {}
    BY <1>3 DEF ToSet
  <2> QED BY <2>1, <1>3
<1>5. cands' = (IF matched # <<>> THEN matched ELSE cands) /\ pc' \in {"iac", "read"}
  BY <1>1
<1>6. cands' \in Seq(Ids) /\ NoRepeats(cands')
  <2>1. matched \in Seq(Ids)
    <3> HIDE DEF matched
    <3> QED BY <1>0, <1>3, SeqOfSubset
  <2> QED BY <2>1, <1>0, <1>3, <1>5 DEF NarrowingInv, TypeInv
<1>7. TypeInv'
  BY <1>5, <1>6, CandidatesInv DEF NarrowingInv, TypeInv, TypeOK, KeepExact, Whole, Tiers
<1>8. FlowInv'
  <2>1. CASE matched # <<>>
    <3>1. ToSet(cands)' = exact \cap ToSet(listed) /\ pc' = "read" /\ exact \cap ToSet(listed) # {}
      BY <2>1, <1>1, <1>3, <1>4
    <3> QED BY <3>1, <1>0 DEF FlowInv, KeepExact, Whole, Tiers, ExactMatchesSurvive, DemotedNotDeleted
  <2>2. CASE matched = <<>>
    <3>1. cands' = cands /\ pc' \in {"iac", "read"} /\ exact \cap ToSet(listed) = {}
      BY <2>2, <1>1, <1>4
    <3> QED BY <3>1, <1>0 DEF FlowInv, KeepExact, Whole, Tiers, ExactMatchesSurvive, DemotedNotDeleted
  <2> QED BY <2>1, <2>2
<1>9. AnswerInv'
  BY <1>0 DEF NarrowingInv, AnswerInv, KeepExact, world, Contract
<1> QED BY <1>7, <1>8, <1>9 DEF NarrowingInv

\* Promoting some of the candidates permutes the candidates, the promoted ones first.
LEMMA PromoteFacts ==
  ASSUME cands \in Seq(Ids), NoRepeats(cands), NEW s \in Seq(Ids), NoRepeats(s), ToSet(s) \subseteq ToSet(cands)
  PROVE  /\ Promote(s) \in Seq(Ids) /\ NoRepeats(Promote(s)) /\ ToSet(Promote(s)) = ToSet(cands)
         /\ \E k \in 0 .. Len(Promote(s)) : ToSet(s) = {Promote(s)[i] : i \in 1 .. k}
<1> DEFINE rest == Only(cands, Ids \ ToSet(s))
<1>1. ToSet(cands) \subseteq Ids
  BY DEF ToSet
<1>2. rest \in Seq(Ids) /\ NoRepeats(rest) /\ ToSet(rest) = ToSet(cands) \ ToSet(s)
  BY <1>1, OnlyFacts
<1> DEFINE u == s \o rest
<1> SUFFICES /\ u \in Seq(Ids) /\ NoRepeats(u) /\ ToSet(u) = ToSet(cands)
             /\ \E k \in 0 .. Len(u) : ToSet(s) = {u[i] : i \in 1 .. k}
  BY Zenon DEF Promote
<1> HIDE DEF rest
<1>4. ToSet(s) \cap ToSet(rest) = {} /\ ToSet(s) \cup ToSet(rest) = ToSet(cands)
  BY <1>2
<1>5. u \in Seq(Ids) /\ ToSet(u) = ToSet(s) \cup ToSet(rest)
  BY <1>2, ConcatFacts
<1>6. NoRepeats(u)
  BY <1>2, <1>4, ConcatFacts
<1>7. Len(s) \in 0 .. Len(u) /\ ToSet(s) = {u[i] : i \in 1 .. Len(s)}
  BY <1>2, ConcatFacts
<1> HIDE DEF u
<1> QED BY <1>4, <1>5, <1>6, <1>7

LEMMA TierInv ==
  ASSUME NarrowingInv, NEW from \in Tiers, NEW s \in Seq(Ids), NEW next \in Tiers \cup {"cap"},
         Tier(from, s, next)
  PROVE  NarrowingInv'
<1> DEFINE named == uniqueGatewayCandidates(Only(s, ToSet(cands)))
<1>1. /\ cands \in Seq(Ids) /\ NoRepeats(cands) /\ ToSet(cands) = ToSet(listed) /\ ToSet(cands) \subseteq Ids
      /\ exact \cap ToSet(listed) = {} /\ hits = {} /\ ~truncated /\ known = {} /\ answer = NoGateway
      /\ pc \notin {"resolve", "done"}
  <2>1. pc \in Tiers
    BY DEF Tier
  <2>2. cands \in Seq(Ids) /\ NoRepeats(cands)
    BY DEF NarrowingInv, TypeInv, TypeOK
  <2>3. ToSet(cands) \subseteq Ids
    BY <2>2 DEF ToSet
  <2>4. /\ ToSet(cands) = ToSet(listed) /\ exact \cap ToSet(listed) = {} /\ hits = {} /\ ~truncated
        /\ pc \notin {"resolve", "done"}
    BY <2>1 DEF NarrowingInv, FlowInv, Whole, Tiers
  <2>5. known = {} /\ answer = NoGateway
    BY <2>4 DEF NarrowingInv, AnswerInv
  <2> QED BY <2>2, <2>3, <2>4, <2>5
<1>2. named \in Seq(Ids) /\ NoRepeats(named) /\ ToSet(named) = ToSet(s) \cap ToSet(cands)
  <2>1. Only(s, ToSet(cands)) \in Seq(Ids)
    BY OnlyFacts
  <2> QED BY <2>1, OnlyFacts, UniqueFacts
<1>3. IF named = <<>> THEN pc' = next /\ UNCHANGED <<cands, hits>>
      ELSE pc' = "cap" /\ cands' = Promote(named) /\ hits' = ToSet(named)
  BY DEF Tier
<1> HIDE DEF named
<1>4. /\ cands' \in Seq(Ids) /\ NoRepeats(cands') /\ ToSet(cands') = ToSet(listed) /\ hits' \subseteq Ids
      /\ pc' = "cap" => \E k \in 0 .. Len(cands') : hits' = {cands'[i] : i \in 1 .. k}
      /\ pc' # "cap" => hits' = {}
  <2>1. CASE named = <<>>
    <3>1. cands' = cands /\ hits' = {} /\ 0 \in 0 .. Len(cands) /\ {cands[i] : i \in 1 .. 0} = {}
      BY <2>1, <1>1, <1>3
    <3> QED BY <3>1, <1>1
  <2>2. CASE named # <<>>
    <3>1. cands' = Promote(named) /\ hits' = ToSet(named) /\ pc' = "cap"
      BY <2>2, <1>3
    <3>2. ToSet(named) \subseteq ToSet(cands)
      BY <1>2
    <3>3. /\ Promote(named) \in Seq(Ids) /\ NoRepeats(Promote(named))
          /\ ToSet(Promote(named)) = ToSet(cands)
          /\ \E k \in 0 .. Len(Promote(named)) : ToSet(named) = {Promote(named)[i] : i \in 1 .. k}
      BY <3>2, <1>1, <1>2, PromoteFacts
    <3>4. ToSet(named) \subseteq Ids
      BY <3>2, <1>1
    <3> QED BY <3>1, <3>3, <3>4, <1>1
  <2> QED BY <2>1, <2>2
<1>5. pc' \in Tiers \cup {"cap"}
  BY <1>3
<1>6. TypeInv'
  BY <1>4, <1>5, CandidatesInv DEF NarrowingInv, TypeInv, TypeOK, Tier, Whole
<1>7. FlowInv'
  <2>1. UNCHANGED <<exact, listed, truncated>>
    BY DEF Tier
  <2> QED BY <2>1, <1>1, <1>4, <1>5 DEF FlowInv, Whole, Tiers, ExactMatchesSurvive, DemotedNotDeleted
<1>8. AnswerInv'
  BY <1>1 DEF NarrowingInv, AnswerInv, Tier, world, Contract
<1> QED BY <1>6, <1>7, <1>8 DEF NarrowingInv

LEMMA TiersInv == NarrowingInv /\ (TierIac \/ TierCfn \/ TierTags \/ TierNaming) => NarrowingInv'
<1> SUFFICES ASSUME NarrowingInv, TierIac \/ TierCfn \/ TierTags \/ TierNaming PROVE NarrowingInv'
  OBVIOUS
<1> USE GatewayNarrowingAssumption
<1>1. /\ expected \in Seq(Ids) /\ cands \in Seq(Ids) /\ inferred \subseteq Ids
      /\ {"iac", "cfn", "tags", "naming"} = Tiers
  BY DEF NarrowingInv, TypeInv, TypeOK, Tiers
<1>2. ASSUME NEW S \in SUBSET Ids, NEW s \in SetToSeqs(S) PROVE s \in Seq(Ids)
  <2>1. IsFiniteSet(S)
    BY FS_Subset
  <2>2. s \in Seq(S)
    BY <2>1, OrderingFacts
  <2> QED BY <2>2, SeqOfSubset
<1>3. CASE TierIac
  <2>1. PICK s \in SetToSeqs(inferred \ ToSet(expected)) : Tier("iac", expected \o s, "cfn")
    BY <1>3 DEF TierIac
  <2>2. s \in Seq(Ids)
    BY <1>1, <1>2
  <2>3. expected \o s \in Seq(Ids)
    BY <1>1, <2>2
  <2> QED BY <1>1, <2>1, <2>3, TierInv
<1>4. CASE TierCfn
  <2>1. PICK S \in SUBSET Ids : \E s \in SetToSeqs(S) : Tier("cfn", s, "tags")
    BY <1>4 DEF TierCfn, With
  <2> QED BY <1>1, <1>2, <2>1, TierInv
<1>5. CASE TierTags
  <2>1. PICK S \in SUBSET Ids : \E s \in Sorted(S) : Tier("tags", s, "naming")
    BY <1>5 DEF TierTags, With
  <2> QED BY <1>1, <1>2, <2>1, TierInv DEF Sorted
<1>6. CASE TierNaming
  <2>1. PICK S \in SUBSET Ids : Tier("naming", Only(cands, S), "cap")
    BY <1>6 DEF TierNaming, With
  <2>2. Only(cands, S) \in Seq(Ids)
    BY <1>1, OnlyFacts
  <2> QED BY <1>1, <2>1, <2>2, TierInv
<1> QED BY <1>3, <1>4, <1>5, <1>6

LEMMA CapInv == NarrowingInv /\ Cap => NarrowingInv'
<1> SUFFICES ASSUME NarrowingInv, Cap PROVE NarrowingInv'
  OBVIOUS
<1> USE GatewayNarrowingAssumption
<1> DEFINE n == IF Len(cands) > MaxCandidates THEN MaxCandidates ELSE Len(cands)
<1>1. /\ cands \in Seq(Ids) /\ NoRepeats(cands) /\ ToSet(cands) = ToSet(listed)
      /\ exact \cap ToSet(listed) = {} /\ pc = "cap"
      /\ \E k \in 0 .. Len(cands) : hits = {cands[i] : i \in 1 .. k}
  BY DEF NarrowingInv, TypeInv, TypeOK, FlowInv, Cap, Whole
<1>2. /\ cands' = SubSeq(cands, 1, n) /\ n \in 0 .. Len(cands) /\ Len(cands) \in Nat
      /\ truncated' = (n < Len(cands))
  BY <1>1 DEF Cap
<1> HIDE DEF n
<1>3. /\ cands' \in Seq(Ids) /\ Len(cands') = n /\ DOMAIN cands' = 1 .. n
      /\ \A i \in 1 .. n : cands'[i] = cands[i]
  BY <1>1, <1>2
<1>4. NoRepeats(cands') /\ ToSet(cands') = {cands[i] : i \in 1 .. n}
  <2>1. 1 .. n \subseteq DOMAIN cands /\ DOMAIN cands = 1 .. Len(cands)
    BY <1>1, <1>2
  <2>2. NoRepeats(cands')
    BY <1>1, <1>3, <2>1 DEF NoRepeats
  <2>3. ToSet(cands') = {cands'[i] : i \in 1 .. n}
    BY <1>3 DEF ToSet
  <2> QED BY <1>3, <2>2, <2>3
<1>5. TypeInv'
  BY <1>2, <1>3, <1>4, CandidatesInv DEF NarrowingInv, TypeInv, TypeOK, Cap
<1>6. FlowInv'
  <2>1. ToSet(cands') \subseteq hits \/ hits \subseteq ToSet(cands')
    <3>1. PICK k \in 0 .. Len(cands) : hits = {cands[i] : i \in 1 .. k}
      BY <1>1
    <3>2. CASE k <= n
      BY <3>1, <3>2, <1>4, <1>2
    <3>3. CASE n <= k
      BY <3>1, <3>3, <1>4, <1>2
    <3> QED BY <3>1, <3>2, <3>3, <1>2
  <2>2. n = Len(cands) => ToSet(cands') = ToSet(listed)
    <3>1. ToSet(cands) = {cands[i] : i \in 1 .. Len(cands)}
      BY <1>1 DEF ToSet
    <3> QED BY <3>1, <1>1, <1>4
  <2>3. truncated' \/ n = Len(cands)
    <3>1. n < Len(cands) \/ n = Len(cands)
      BY <1>2
    <3> QED BY <3>1, <1>2
  <2>4. ToSet(cands)' = ToSet(cands') /\ ToSet(listed)' = ToSet(listed)
    BY DEF Cap
  <2>5. pc' = "read" /\ UNCHANGED <<exact, listed, hits>>
    BY DEF Cap
  <2> QED BY <2>1, <2>2, <2>3, <2>4, <2>5, <1>1
          DEF FlowInv, Whole, Tiers, ExactMatchesSurvive, DemotedNotDeleted
<1>7. AnswerInv'
  <2>1. pc \notin {"resolve", "done"} /\ known = {} /\ answer = NoGateway
    BY <1>1 DEF NarrowingInv, AnswerInv
  <2> QED BY <2>1 DEF NarrowingInv, AnswerInv, Cap, world, Contract
<1> QED BY <1>5, <1>6, <1>7 DEF NarrowingInv

LEMMA ReadTagsInv == NarrowingInv /\ ReadTags => NarrowingInv'
<1> SUFFICES ASSUME NarrowingInv, ReadTags PROVE NarrowingInv'
  OBVIOUS
<1>1. cands \in Seq(Ids) /\ known' \subseteq Ids /\ known' \subseteq ToSet(cands)
  BY DEF NarrowingInv, TypeInv, TypeOK, ReadTags, ToSet
<1>2. TypeInv'
  BY <1>1 DEF NarrowingInv, TypeInv, TypeOK, ReadTags, world
<1>3. FlowInv'
  BY DEF NarrowingInv, FlowInv, ReadTags, Whole, Tiers, ExactMatchesSurvive, DemotedNotDeleted
<1>4. AnswerInv'
  <2>1. answer = NoGateway
    BY DEF NarrowingInv, AnswerInv, ReadTags
  <2> QED BY <2>1, <1>1 DEF NarrowingInv, AnswerInv, ReadTags, world, Contract
<1> QED BY <1>2, <1>3, <1>4 DEF NarrowingInv

LEMMA ResolveInv == NarrowingInv /\ Resolve => NarrowingInv'
<1> SUFFICES ASSUME NarrowingInv, Resolve PROVE NarrowingInv'
  OBVIOUS
<1>1. answer' = NoGateway \/ \E g \in ToSet(cands) :
        answer' = [id |-> g, confidence |-> Score(g), ambiguous |-> Tied(g)]
  BY DEF Resolve
<1>2. UNCHANGED <<gw, expected, inferred, known, cands>> /\ pc' = "done"
  BY DEF Resolve, world
<1>3. \A g : Score(g) \in Nat /\ Tied(g) \in BOOLEAN
  BY DEF Score, Tied
<1>4. cands \in Seq(Ids) /\ ToSet(cands) \subseteq Ids
  BY DEF NarrowingInv, TypeInv, TypeOK, ToSet
<1>5. \A g : (Score(g))' = Score(g) /\ Tied(g)' = Tied(g)
  BY <1>2 DEF Score, Tied, Contract
<1>6. answer' # NoGateway =>
        answer' \in Answer /\ answer'.confidence = Score(answer'.id) /\ answer'.ambiguous = Tied(answer'.id)
  BY <1>1, <1>3, <1>4 DEF Answer
<1>7. TypeInv'
  BY <1>6 DEF NarrowingInv, TypeInv, TypeOK, Resolve, world
<1>8. FlowInv'
  BY DEF NarrowingInv, FlowInv, Resolve, Whole, Tiers, ExactMatchesSurvive, DemotedNotDeleted
<1>9. AnswerInv'
  <2>1. /\ \A g \in exact' : Contract(g)'
        /\ known' \subseteq ToSet(cands)' /\ pc' = "done"
    BY <1>2 DEF NarrowingInv, AnswerInv, Resolve, Contract
  <2> QED BY <2>1, <1>5, <1>6 DEF AnswerInv
<1> QED BY <1>7, <1>8, <1>9 DEF NarrowingInv

LEMMA NextInv == NarrowingInv /\ [Next]_vars => NarrowingInv'
<1> SUFFICES ASSUME NarrowingInv, [Next]_vars PROVE NarrowingInv'
  OBVIOUS
<1>1. CASE UNCHANGED vars
  BY <1>1 DEF vars, world, NarrowingInv, TypeInv, TypeOK, FlowInv, AnswerInv, ExactMatchesSurvive,
              DemotedNotDeleted, Contract, Score, Tied
<1>2. CASE Next
  BY <1>2, MatchDomainsInv, ListInv, QueriesInv, KeepExactInv, TiersInv, CapInv, ReadTagsInv, ResolveInv
     DEF Next
<1> QED BY <1>1, <1>2

LEMMA NarrowingInvAlways == Spec => []NarrowingInv
BY InitInv, NextInv, PTL DEF Spec

-----------------------------------------------------------------------------
(* Theorems.                                                               *)

(* Every reachable state of the narrowing is well typed, and no gateway is a candidate twice          *)
(* (runResolution).                                                                                 *)
THEOREM TypeCorrect == Spec => []TypeOK
<1>1. NarrowingInv => TypeOK
  BY DEF NarrowingInv, TypeInv
<1> QED BY <1>1, NarrowingInvAlways, PTL

(* In every account, gateways that carry the exact tags of the repository and were enumerated are    *)
(* the candidates until the end, under any cap and any denial (correlateExactRepoTags).             *)
THEOREM ExactAlwaysSurvives == Spec => []ExactMatchesSurvive
<1>1. NarrowingInv => ExactMatchesSurvive
  BY DEF NarrowingInv, FlowInv
<1> QED BY <1>1, NarrowingInvAlways, PTL

(* In every account, narrowing reorders: what is lost is lost to the cap, and never a gateway a tier *)
(* named while one it did not name is kept (runNarrowingPipeline, runResolution).                   *)
THEOREM NothingIsDeleted == Spec => []DemotedNotDeleted
<1>1. NarrowingInv => DemotedNotDeleted
  BY DEF NarrowingInv, FlowInv
<1> QED BY <1>1, NarrowingInvAlways, PTL

(* In every account, a gateway that is selected is spoken for by the repository or its own tags      *)
(* (scoreCandidate, resolveServiceCandidate).                                                       *)
THEOREM NamesNeverDecide == Spec => []NeverByNameAlone
<1>1. NarrowingInv => NeverByNameAlone
  <2> SUFFICES ASSUME NarrowingInv, NEW g \in Ids, Selected(g)
               PROVE  \/ Contains(expected, g) \/ g \in inferred
                      \/ g \in known /\ (Contract(g) \/ gw[g].mark)
    BY DEF NeverByNameAlone
  <2>1. Score(g) >= 40
    BY DEF NarrowingInv, AnswerInv, Selected
  <2> QED BY <2>1 DEF Score
<1> QED BY <1>1, NarrowingInvAlways, PTL

(* In every account, of two gateways that correlate exactly, that the hints do not tell apart and    *)
(* whose tags could be read, neither is selected (resolveServiceCandidate).                         *)
THEOREM TwinsAreReviewed == Spec => []TwinsStayForReview
<1>1. NarrowingInv => TwinsStayForReview
  <2> SUFFICES ASSUME NarrowingInv, NEW g \in exact, NEW h \in exact, g # h, SameHints(g, h),
                      g \in known, h \in known, Selected(g)
               PROVE  FALSE
    BY DEF TwinsStayForReview
  <2>1. Contract(g) /\ Contract(h) /\ h \in ToSet(cands)
    BY DEF NarrowingInv, AnswerInv
  <2>2. Score(g) = Score(h)
    BY <2>1 DEF Score, SameHints
  <2>3. Score(g) >= 40 /\ ~ Tied(g) /\ Score(g) \in Nat
    BY DEF NarrowingInv, AnswerInv, Selected, Answer
  <2> QED BY <2>1, <2>2, <2>3 DEF Tied
<1> QED BY <1>1, NarrowingInvAlways, PTL
=============================================================================
