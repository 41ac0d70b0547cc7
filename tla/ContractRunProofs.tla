------------------------- MODULE ContractRunProofs -------------------------
(* What a run does beside AWS's own gateways: the credentials are asked    *)
(* for within their bounds, fetches stay in theirs, a definition that is   *)
(* called full is closed, a topic gets the contract of its strongest       *)
(* source.  Each part is shown for its own steps first, then for the steps *)
(* of a run, each of which is one part's and leaves the others as they     *)
(* are.                                                                    *)
EXTENDS ContractRun, RepoInventoryProofs

-----------------------------------------------------------------------------
(* Credentials: retries, for every number of attempts.                     *)

\* All of these are worth a retry.
AllOf(answers, retried) == \A i \in 1 .. Len(answers) : answers[i] \in retried

(* What makes RefusalsAreFinal inductive: a request that is still to be made has attempts left and  *)
(* only failures behind it, and it has the key or the token it needs.                               *)
CredInv ==
  /\ CredTypeOK
  /\ RefusalsAreFinal
  /\ credStep = "mint" => /\ held = {"key"} /\ probes = <<>>
                          /\ AllOf(mints, {"mute", "down"}) /\ Len(mints) < MaxMints
  /\ credStep = "probe" => /\ "token" \in held \/ (mints # <<>> /\ mints[Len(mints)] = "token")
                           /\ AllOf(probes, Transient) /\ Len(probes) < MaxProbes

-----------------------------------------------------------------------------
\* An answer after failures only: the sequence is final, and still fit for a retry if the answer is.
LEMMA OneMore ==
  ASSUME NEW S, NEW answers \in Seq(S), NEW answer \in S, NEW retried, NEW most \in Nat,
         AllOf(answers, retried), Len(answers) < most
  PROVE  LET longer == Append(answers, answer) IN
         /\ longer \in Seq(S) /\ longer # <<>>
         /\ Final(longer, retried, most)
         /\ longer[Len(longer)] = answer
         /\ Len(longer) = Len(answers) + 1
         /\ answer \in retried => AllOf(longer, retried)
<1> DEFINE longer == Append(answers, answer)
<1>1. longer \in Seq(S) /\ Len(longer) = Len(answers) + 1 /\ Len(answers) \in Nat
  OBVIOUS
<1>2. longer[Len(longer)] = answer /\ longer # <<>>
  OBVIOUS
<1>3. \A i \in 1 .. Len(longer) : i < Len(longer) => longer[i] \in retried
  <2>1. TAKE i \in 1 .. Len(longer)
  <2>2. HAVE i < Len(longer)
  <2>3. i \in 1 .. Len(answers)
    BY <1>1, <2>2
  <2>4. longer[i] = answers[i]
    BY <2>3
  <2> QED BY <2>3, <2>4 DEF AllOf
<1>4. ASSUME answer \in retried
      PROVE  AllOf(longer, retried)
  <2>1. SUFFICES ASSUME NEW i \in 1 .. Len(longer) PROVE longer[i] \in retried
    BY DEF AllOf
  <2>2. i < Len(longer) \/ i = Len(longer)
    BY <1>1
  <2> QED BY <1>2, <1>3, <1>4, <2>2
<1> QED BY <1>1, <1>2, <1>3, <1>4 DEF Final

LEMMA CredInitInv == CredInit => CredInv
<1> SUFFICES ASSUME CredInit PROVE CredInv
  OBVIOUS
<1>1. CredTypeOK
  <2>1. held \subseteq {"key", "token"} /\ credStep \in {"mint", "diagnose", "probe", "ready"}
    BY DEF CredInit, FirstStep
  <2>2. mints \in Seq(MintAnswers) /\ probes \in Seq(ProbeAnswers)
    BY DEF CredInit
  <2> QED BY <2>1, <2>2 DEF CredInit, CredTypeOK
<1>2. RefusalsAreFinal
  BY AttemptsAssumption DEF CredInit, RefusalsAreFinal, Final
<1>3. AllOf(mints, {"mute", "down"}) /\ AllOf(probes, Transient) /\ Len(mints) = 0 /\ Len(probes) = 0
  BY DEF CredInit, AllOf
<1>4. /\ credStep = "mint" => held = {"key"}
      /\ credStep = "probe" => "token" \in held
  BY DEF CredInit, FirstStep
<1>5. mints = <<>> /\ probes = <<>>
  BY DEF CredInit
<1>6. 0 < MaxMints /\ 0 < MaxProbes
  BY AttemptsAssumption
<1> QED BY <1>1, <1>2, <1>3, <1>4, <1>5, <1>6 DEF CredInv

LEMMA MintInv ==
  ASSUME CredInv, NEW a \in MintAnswers, Mint(a)
  PROVE  CredInv'
<1> USE AttemptsAssumption
<1>1. /\ credStep = "mint" /\ held = {"key"} /\ probes = <<>> /\ mints \in Seq(MintAnswers)
      /\ AllOf(mints, {"mute", "down"}) /\ Len(mints) < MaxMints
  BY DEF CredInv, CredTypeOK, Mint
<1>2. /\ mints' = Append(mints, a) /\ mints' \in Seq(MintAnswers) /\ mints' # <<>>
      /\ Final(mints, {"mute", "down"}, MaxMints)'
      /\ mints'[Len(mints')] = a /\ Len(mints') = Len(mints) + 1
      /\ a \in {"mute", "down"} => AllOf(mints, {"mute", "down"})'
  BY <1>1, OneMore DEF Mint, Final, AllOf
<1>3. /\ held' = held /\ probes' = probes /\ diagnosis' = diagnosis /\ account' = account
      /\ credStep' = AfterMint(a)
  BY DEF Mint
<1>4. /\ credStep' \in {"mint", "diagnose", "probe", "ready"}
      /\ credStep' = "probe" => a = "token"
      /\ credStep' = "mint" => a \in {"mute", "down"} /\ Len(mints) + 1 < MaxMints
  BY <1>3 DEF AfterMint, MintAnswers
<1>5. CredTypeOK'
  BY <1>2, <1>3, <1>4 DEF CredInv, CredTypeOK
<1>6. RefusalsAreFinal'
  BY <1>1, <1>2, <1>3 DEF CredInv, RefusalsAreFinal, Final
<1>7. AllOf(probes, Transient)' /\ Len(probes') = 0
  BY <1>1, <1>3 DEF AllOf
<1> QED BY <1>1, <1>2, <1>3, <1>4, <1>5, <1>6, <1>7 DEF CredInv

LEMMA DiagnoseInv ==
  ASSUME CredInv, NEW d \in Diagnoses, Diagnose(d)
  PROVE  CredInv'
<1>1. CredTypeOK'
  BY DEF CredInv, CredTypeOK, Diagnose
<1>2. RefusalsAreFinal'
  BY DEF CredInv, RefusalsAreFinal, Diagnose, Final
<1> QED BY <1>1, <1>2 DEF CredInv, Diagnose

LEMMA ProbeInv ==
  ASSUME CredInv, NEW a \in ProbeAnswers, ProbeSession(a)
  PROVE  CredInv'
<1> USE AttemptsAssumption
<1>1. /\ credStep = "probe"
      /\ "token" \in held \/ (mints # <<>> /\ mints[Len(mints)] = "token")
      /\ probes \in Seq(ProbeAnswers) /\ AllOf(probes, Transient) /\ Len(probes) < MaxProbes
  BY DEF CredInv, CredTypeOK, ProbeSession
<1>2. /\ probes' = Append(probes, a) /\ probes' \in Seq(ProbeAnswers)
      /\ Final(probes, Transient, MaxProbes)' /\ Len(probes') = Len(probes) + 1
      /\ a \in Transient => AllOf(probes, Transient)'
  BY <1>1, OneMore DEF ProbeSession, Final, AllOf
<1>3. /\ held' = held /\ mints' = mints /\ diagnosis' = diagnosis /\ account' \in BOOLEAN
      /\ credStep' = AfterProbe(a)
  BY DEF ProbeSession
<1>4. /\ credStep' \in {"probe", "ready"}
      /\ credStep' = "probe" => a \in Transient /\ Len(probes) + 1 < MaxProbes
  BY <1>3 DEF AfterProbe
<1>5. CredTypeOK'
  BY <1>2, <1>3, <1>4 DEF CredInv, CredTypeOK
<1>6. RefusalsAreFinal'
  BY <1>1, <1>2, <1>3 DEF CredInv, RefusalsAreFinal, Final, Transient
<1> QED BY <1>1, <1>2, <1>3, <1>4, <1>5, <1>6 DEF CredInv

\* Every step of the credentials keeps the invariant, and so does every step of another component.
LEMMA CredNextInv == CredInv /\ [CredNext]_credVars => CredInv'
<1> SUFFICES ASSUME CredInv, [CredNext]_credVars PROVE CredInv'
  OBVIOUS
<1>1. CASE \E a \in MintAnswers : Mint(a)
  BY <1>1, MintInv
<1>2. CASE \E d \in Diagnoses : Diagnose(d)
  BY <1>2, DiagnoseInv
<1>3. CASE \E a \in ProbeAnswers : ProbeSession(a)
  BY <1>3, ProbeInv
<1>4. CASE UNCHANGED credVars
  BY <1>4 DEF credVars, CredInv, CredTypeOK, RefusalsAreFinal, Final, AllOf
<1> QED BY <1>1, <1>2, <1>3, <1>4 DEF CredNext

-----------------------------------------------------------------------------
(* RemoteFetch: what a fetch may ask and keep, for every set of locations  *)
(* and addresses and for all limits.                                       *)

(* What makes FetchesStayInBounds inductive: a location is looked up only when it was checked, a    *)
(* request is made only to addresses that were, each redirect is one request, and what a body may   *)
(* still have is left in the budget.                                                                *)
FetchInv ==
  /\ FetchTypeOK
  /\ FetchesStayInBounds
  /\ fetching \in {"check", "lookup", "request"} => url \in Https /\ url # NoUrl /\ Len(requested) = hop
  /\ fetching \in {"lookup", "request"} => url \in Allowed \ LocalNames
  /\ fetching = "request" => lookedUp # <<>> /\ \A i \in 1 .. Len(lookedUp) : lookedUp[i] \in Global
  /\ fetching = "body" => received <= limit /\ spent + limit <= MaxTotalBytes
  /\ fetching \in {"body", "fetched"} => requested # <<>>

-----------------------------------------------------------------------------
\* The address a connection is pinned to is one of those that were looked up.
LEMMA PinnedIsGlobal ==
  ASSUME NEW answer \in Seq(Addresses), answer # <<>>,
         \A i \in 1 .. Len(answer) : answer[i] \in Global
  PROVE  Pinned(answer) \in Global
<1>1. CASE \E i \in 1 .. Len(answer) : answer[i] \in V4
  <2> DEFINE S == {i \in 1 .. Len(answer) : answer[i] \in V4}
  <2>0. S \subseteq Nat /\ S # {}
    BY <1>1
  <2>1. PICK i \in S : \A j \in S : i <= j
    <3> HIDE DEF S
    <3> QED BY <2>0, LeastNatural
  <2>2. \E k \in 1 .. Len(answer) :
          /\ answer[k] \in V4
          /\ \A j \in 1 .. Len(answer) : answer[j] \in V4 => k <= j
    BY <2>1
  <2> QED BY <1>1, <2>2 DEF Pinned
<1>2. CASE ~ \E i \in 1 .. Len(answer) : answer[i] \in V4
  <2>1. 1 \in 1 .. Len(answer)
    OBVIOUS
  <2> QED BY <1>2, <2>1 DEF Pinned
<1> QED BY <1>1, <1>2

LEMMA FetchInitInv == FetchInit => FetchInv
<1> SUFFICES ASSUME FetchInit PROVE FetchInv
  OBVIOUS
<1>1. lookedUp \in Seq(Addresses) /\ requested \in Seq([url : Urls, address : Addresses])
  BY DEF FetchInit
<1>2. Len(requested) = 0
  BY DEF FetchInit
<1>3. FetchTypeOK
  <2>1. /\ fetching = "idle" /\ url = NoUrl /\ hop = 0 /\ expired = FALSE
        /\ limit = 0 /\ received = 0 /\ spent = 0 /\ kept = 0
    BY DEF FetchInit
  <2>2. hop \in 0 .. MaxRedirects
    BY <2>1, FetchBoundsAssumption
  <2> QED BY <1>1, <2>1, <2>2 DEF FetchTypeOK
<1>4. FetchesStayInBounds
  BY <1>2, FetchBoundsAssumption DEF FetchInit, FetchesStayInBounds
<1> QED BY <1>3, <1>4 DEF FetchInv, FetchInit

\* A failed fetch leaves the history as it is.
LEMMA FailInv ==
  ASSUME FetchInv, Fail
  PROVE  FetchInv'
<1>1. FetchTypeOK' /\ FetchesStayInBounds'
  BY DEF FetchInv, Fail, FetchTypeOK, FetchesStayInBounds
<1> QED BY <1>1 DEF FetchInv, Fail

LEMMA StartFetchInv ==
  ASSUME FetchInv, NEW u \in Urls, StartFetch(u)
  PROVE  FetchInv'
<1>1. lookedUp' \in Seq(Addresses) /\ requested' \in Seq([url : Urls, address : Addresses])
  BY DEF StartFetch
<1>2. Len(requested') = 0
  BY DEF StartFetch
<1>3. FetchTypeOK'
  <2>1. /\ fetching' \in {"check", "failed"} /\ url' = u /\ hop' = 0 /\ expired' = FALSE
        /\ limit' = 0 /\ received' = 0 /\ spent' = spent /\ kept' = kept
    BY DEF StartFetch
  <2>2. hop' \in 0 .. MaxRedirects
    BY <2>1, FetchBoundsAssumption
  <2>3. spent \in Nat /\ kept \in Nat
    BY DEF FetchInv, FetchTypeOK
  <2> QED BY <1>1, <2>1, <2>2, <2>3 DEF FetchTypeOK
<1>4. FetchesStayInBounds'
  BY <1>2, FetchBoundsAssumption DEF FetchInv, FetchesStayInBounds, StartFetch
<1>5. fetching' \in {"check", "failed"} /\ (fetching' = "check" => url' \in Https /\ url' # NoUrl /\ hop' = 0)
  BY LocationsAssumption DEF StartFetch
<1> QED BY <1>2, <1>3, <1>4, <1>5 DEF FetchInv

LEMMA CheckLocationInv ==
  ASSUME FetchInv, CheckLocation
  PROVE  FetchInv'
<1>1. CASE url \in Allowed /\ url \notin LocalNames
  <2>1. /\ fetching = "check" /\ fetching' = "lookup"
        /\ UNCHANGED <<url, hop, lookedUp, expired, limit, received, spent, requested, kept>>
    BY <1>1 DEF CheckLocation
  <2>2. FetchTypeOK' /\ FetchesStayInBounds'
    BY <2>1 DEF FetchInv, FetchTypeOK, FetchesStayInBounds
  <2> QED BY <1>1, <2>1, <2>2 DEF FetchInv
<1>2. CASE ~(url \in Allowed /\ url \notin LocalNames)
  BY <1>2, FailInv DEF CheckLocation
<1> QED BY <1>1, <1>2

LEMMA LookUpInv ==
  ASSUME FetchInv, NEW a \in Seq(Addresses), LookUp(a)
  PROVE  FetchInv'
<1> DEFINE good == a # <<>> /\ \A i \in 1 .. Len(a) : a[i] \in Global
<1>1. CASE good
  <2>1. /\ fetching = "lookup" /\ fetching' = "request" /\ lookedUp' = a
        /\ UNCHANGED <<url, hop, expired, limit, received, spent, requested, kept>>
    BY <1>1 DEF LookUp
  <2>2. FetchTypeOK' /\ FetchesStayInBounds'
    BY <2>1 DEF FetchInv, FetchTypeOK, FetchesStayInBounds
  <2> QED BY <1>1, <2>1, <2>2 DEF FetchInv
<1>2. CASE ~good
  BY <1>2, FailInv DEF LookUp
<1> QED BY <1>1, <1>2

\* A request goes to a checked location and a checked address, and is one more than there were.
LEMMA RequestedInv ==
  ASSUME FetchInv, fetching = "request", Requested
  PROVE  /\ requested' \in Seq([url : Urls, address : Addresses])
         /\ Len(requested') = hop + 1
         /\ \A i \in 1 .. Len(requested') : /\ requested'[i].url \in (Https \cap Allowed) \ LocalNames
                                            /\ requested'[i].address \in Global
<1> DEFINE new == [url |-> url, address |-> Pinned(lookedUp)]
<1>1. /\ url \in (Https \cap Allowed) \ LocalNames /\ url \in Urls
      /\ Len(requested) = hop /\ hop \in Nat
      /\ requested \in Seq([url : Urls, address : Addresses])
  BY LocationsAssumption, FetchBoundsAssumption DEF FetchInv, FetchTypeOK
<1>2. Pinned(lookedUp) \in Global /\ Pinned(lookedUp) \in Addresses
  BY PinnedIsGlobal, AddressesAssumption DEF FetchInv, FetchTypeOK
<1>3. new \in [url : Urls, address : Addresses]
  BY <1>1, <1>2
<1>4. requested' = Append(requested, new)
  BY DEF Requested
<1> HIDE DEF new
<1>5. /\ requested' \in Seq([url : Urls, address : Addresses]) /\ Len(requested') = hop + 1
      /\ \A i \in 1 .. Len(requested') :
           requested'[i] = new \/ (i \in 1 .. Len(requested) /\ requested'[i] = requested[i])
  BY <1>1, <1>3, <1>4
<1>6. new.url = url /\ new.address = Pinned(lookedUp)
  BY DEF new
<1> QED BY <1>1, <1>2, <1>5, <1>6 DEF FetchInv, FetchesStayInBounds

LEMMA RequestRefusedInv ==
  ASSUME FetchInv, RequestRefused
  PROVE  FetchInv'
<1>1. /\ fetching = "request" /\ fetching' = "failed" /\ Requested
      /\ UNCHANGED <<url, hop, lookedUp, expired, limit, received, spent, kept>>
  BY DEF RequestRefused
<1>2. FetchTypeOK'
  BY <1>1, RequestedInv DEF FetchInv, FetchTypeOK
<1>3. hop <= MaxRedirects /\ hop \in Nat
  BY FetchBoundsAssumption DEF FetchInv, FetchTypeOK
<1>4. FetchesStayInBounds'
  BY <1>1, <1>3, RequestedInv, FetchBoundsAssumption DEF FetchInv, FetchesStayInBounds
<1> QED BY <1>1, <1>2, <1>4 DEF FetchInv

LEMMA RedirectedInv ==
  ASSUME FetchInv, NEW u \in Urls, Redirected(u)
  PROVE  FetchInv'
<1>1. /\ fetching = "request" /\ Requested
      /\ UNCHANGED <<lookedUp, expired, limit, received, spent, kept>>
  BY DEF Redirected
<1>2. hop <= MaxRedirects /\ hop \in Nat
  BY FetchBoundsAssumption DEF FetchInv, FetchTypeOK
<1>3. FetchesStayInBounds'
  BY <1>1, <1>2, RequestedInv, FetchBoundsAssumption DEF FetchInv, FetchesStayInBounds
<1>4. CASE hop < MaxRedirects /\ u \in Https
  <2>1. fetching' = "check" /\ url' = u /\ hop' = hop + 1
    BY <1>4 DEF Redirected
  <2>2. hop' \in 0 .. MaxRedirects
    BY <1>2, <1>4, <2>1, FetchBoundsAssumption
  <2>3. FetchTypeOK'
    BY <1>1, <2>1, <2>2, RequestedInv DEF FetchInv, FetchTypeOK
  <2> QED BY <1>1, <1>3, <1>4, <2>1, <2>3, RequestedInv, LocationsAssumption DEF FetchInv
<1>5. CASE ~(hop < MaxRedirects /\ u \in Https)
  <2>1. fetching' = "failed" /\ url' = url /\ hop' = hop
    BY <1>5 DEF Redirected
  <2>2. FetchTypeOK'
    BY <1>1, <2>1, RequestedInv DEF FetchInv, FetchTypeOK
  <2> QED BY <1>3, <2>1, <2>2 DEF FetchInv
<1> QED BY <1>4, <1>5

LEMMA AnsweredInv ==
  ASSUME FetchInv, NEW d \in 0 .. MaxBody, Answered(d)
  PROVE  FetchInv'
<1>1. /\ fetching = "request" /\ Requested
      /\ limit' = Smaller(MaxBytes, MaxTotalBytes - spent) /\ received' = 0
      /\ fetching' = (IF spent >= MaxTotalBytes \/ d > limit' THEN "failed" ELSE "body")
      /\ UNCHANGED <<url, hop, lookedUp, expired, spent, kept>>
  BY DEF Answered
<1>2. hop <= MaxRedirects /\ hop \in Nat /\ spent \in Nat /\ kept = spent /\ kept <= MaxTotalBytes
  BY FetchBoundsAssumption DEF FetchInv, FetchTypeOK, FetchesStayInBounds
<1>3. limit' \in Nat /\ spent + limit' <= MaxTotalBytes
  BY <1>1, <1>2, FetchBoundsAssumption DEF Smaller
<1>4. FetchesStayInBounds'
  BY <1>1, <1>2, RequestedInv, FetchBoundsAssumption DEF FetchesStayInBounds
<1>5. fetching' \in {"failed", "body"}
  BY <1>1
<1>6. FetchTypeOK'
  BY <1>1, <1>3, <1>5, RequestedInv DEF FetchInv, FetchTypeOK
<1>7. received' <= limit' /\ spent' + limit' <= MaxTotalBytes
  BY <1>1, <1>3
<1>8. requested' # <<>>
  BY <1>1, <1>2, RequestedInv
<1> QED BY <1>4, <1>5, <1>6, <1>7, <1>8 DEF FetchInv

LEMMA ReadMoreInv ==
  ASSUME FetchInv, ReadMore
  PROVE  FetchInv'
<1>1. /\ fetching = "body" /\ received' = received + 1
      /\ fetching' = (IF received' > limit THEN "failed" ELSE "body")
      /\ UNCHANGED <<url, hop, lookedUp, expired, limit, spent, requested, kept>>
  BY DEF ReadMore
<1>2. FetchTypeOK' /\ fetching' \in {"failed", "body"}
  BY <1>1 DEF FetchInv, FetchTypeOK
<1>3. FetchesStayInBounds'
  BY <1>1 DEF FetchInv, FetchesStayInBounds
<1>4. fetching' = "body" => received' <= limit' /\ spent' + limit' <= MaxTotalBytes
  BY <1>1 DEF FetchInv, FetchTypeOK
<1>5. requested' # <<>>
  BY <1>1 DEF FetchInv
<1> QED BY <1>2, <1>3, <1>4, <1>5 DEF FetchInv

LEMMA BodyEndsInv ==
  ASSUME FetchInv, BodyEnds
  PROVE  FetchInv'
<1>1. /\ fetching = "body" /\ fetching' = "fetched" /\ spent' = spent + received /\ kept' = kept + received
      /\ UNCHANGED <<url, hop, lookedUp, expired, limit, received, requested>>
  BY DEF BodyEnds
<1>2. /\ received \in Nat /\ limit \in Nat /\ spent \in Nat /\ kept = spent
      /\ received <= limit /\ spent + limit <= MaxTotalBytes
  BY <1>1 DEF FetchInv, FetchTypeOK, FetchesStayInBounds
<1>3. FetchTypeOK'
  BY <1>1, <1>2 DEF FetchInv, FetchTypeOK
<1>4. kept' = spent' /\ kept' <= MaxTotalBytes
  BY <1>1, <1>2, FetchBoundsAssumption
<1>5. FetchesStayInBounds'
  BY <1>1, <1>4 DEF FetchInv, FetchesStayInBounds
<1> QED BY <1>1, <1>3, <1>5 DEF FetchInv

LEMMA ExpireInv ==
  ASSUME FetchInv, Expire
  PROVE  FetchInv'
<1>1. FetchTypeOK' /\ FetchesStayInBounds'
  BY DEF FetchInv, Expire, FetchTypeOK, FetchesStayInBounds
<1> QED BY <1>1 DEF FetchInv, Expire

\* A step of a fetch keeps the invariant, whatever the name is looked up as.
LEMMA FetchStepInv ==
  ASSUME FetchInv, NEW answers, \A a \in answers : a \in Seq(Addresses), FetchStep(answers)
  PROVE  FetchInv'
<1>1. CASE CheckLocation
  BY <1>1, CheckLocationInv
<1>2. CASE \E a \in answers : LookUp(a)
  BY <1>2, LookUpInv
<1>3. CASE RequestAborted
  BY <1>3, FailInv DEF RequestAborted
<1>4. CASE RequestRefused
  BY <1>4, RequestRefusedInv
<1>5. CASE \E u \in Urls : Redirected(u)
  BY <1>5, RedirectedInv
<1>6. CASE \E d \in 0 .. MaxBody : Answered(d)
  BY <1>6, AnsweredInv
<1>7. CASE ReadMore
  BY <1>7, ReadMoreInv
<1>8. CASE BodyBroken
  BY <1>8, FailInv DEF BodyBroken
<1>9. CASE BodyEnds
  BY <1>9, BodyEndsInv
<1>10. CASE Expire
  BY <1>10, ExpireInv
<1> QED BY <1>1, <1>2, <1>3, <1>4, <1>5, <1>6, <1>7, <1>8, <1>9, <1>10 DEF FetchStep

\* Between two fetches nothing is asked.
LEMMA FetchIdleInv ==
  ASSUME FetchInv, fetching' = "idle" \/ fetching' = fetching,
         UNCHANGED <<url, hop, lookedUp, expired, limit, received, spent, requested, kept>>
  PROVE  FetchInv'
<1>1. FetchTypeOK' /\ FetchesStayInBounds'
  BY DEF FetchInv, FetchTypeOK, FetchesStayInBounds
<1> QED BY <1>1 DEF FetchInv

-----------------------------------------------------------------------------
(* DefinitionClosure: a full definition is closed, for every repository    *)
(* and all bounds.                                                         *)

\* Where a reference of an opened member is accounted for.
Covered == members \cup missing \cup {refs[i] : i \in 1 .. Len(refs)}
             \cup (IF bundle.format = "protobuf" THEN {WellKnown} ELSE {})

Queued(f) == \E i \in 1 .. Len(queue) : queue[i].file = f

(* What makes FullIsClosed inductive: a member is waiting to be opened or each of its references is *)
(* followed, missing or still to be followed; and too many members leave one of them in the queue,  *)
(* where the next look at it gives up.                                                              *)
ClosureInv ==
  /\ ClosureTypeOK
  /\ FullIsClosed
  /\ IsFiniteSet(members)
  /\ closing = "reading" =>
       /\ \A f \in members : Queued(f) \/ Needs(f) \subseteq Covered
       /\ members \subseteq bundle.readable \cup {bundle.root}
       /\ bytes <= MaxClosureBytes \/ members = {bundle.root}
       /\ Cardinality(members) <= MaxClosureFiles \/ queue # <<>>

-----------------------------------------------------------------------------
LEMMA BundleTypes ==
  ASSUME bundle \in Bundles
  PROVE  /\ bundle.root \in Files /\ bundle.readable \subseteq Files
         /\ bundle.imports \in [Files -> Seq(References)]
         /\ bundle.size \in [Files -> Nat]
BY BundlesAssumption DEF BundleOK

LEMMA ClosureInitInv == ClosureInit => ClosureInv
<1> SUFFICES ASSUME ClosureInit PROVE ClosureInv
  OBVIOUS
<1>1. bundle \in Bundles /\ bundle.root \in Files /\ bundle.size \in [Files -> Nat]
  BY BundleTypes DEF ClosureInit
<1>2. ClosureTypeOK
  <2>1. queue \in Seq([file : Files, depth : Nat])
    <3>1. [file |-> bundle.root, depth |-> 0] \in [file : Files, depth : Nat]
      BY <1>1
    <3>2. queue = <<>> \/ queue = <<[file |-> bundle.root, depth |-> 0]>>
      BY DEF ClosureInit
    <3>3. \A S, e : e \in S => <<>> \in Seq(S) /\ <<e>> \in Seq(S)
      OBVIOUS
    <3> QED BY <3>1, <3>2, <3>3
  <2>2. refs \in Seq(References)
    BY DEF ClosureInit
  <2> QED BY <1>1, <2>1, <2>2 DEF ClosureInit, ClosureTypeOK
<1>3. IsFiniteSet(members)
  BY FS_Singleton DEF ClosureInit
<1>4. CASE bundle.format = "other"
  BY <1>2, <1>3, <1>4 DEF ClosureInit, ClosureInv, FullIsClosed
<1>5. CASE bundle.format # "other"
  <2>1. /\ closing = "reading" /\ members = {bundle.root}
        /\ queue = <<[file |-> bundle.root, depth |-> 0]>>
    BY <1>5 DEF ClosureInit
  <2>2. Queued(bundle.root) /\ queue # <<>>
    BY <2>1 DEF Queued
  <2> QED BY <1>2, <1>3, <2>1, <2>2 DEF ClosureInv, FullIsClosed
<1> QED BY <1>4, <1>5

LEMMA GiveUpInv ==
  ASSUME ClosureInv, GiveUp
  PROVE  ClosureInv'
<1>1. queue' \in Seq([file : Files, depth : Nat]) /\ refs' \in Seq(References)
  BY DEF GiveUp
<1>2. closing' = "partial"
  BY DEF GiveUp
<1>3. ClosureTypeOK'
  BY <1>1, <1>2 DEF ClosureInv, ClosureTypeOK, GiveUp
<1>4. FullIsClosed'
  BY <1>2 DEF FullIsClosed
<1>5. IsFiniteSet(members')
  BY DEF ClosureInv, GiveUp
<1> QED BY <1>2, <1>3, <1>4, <1>5 DEF ClosureInv

LEMMA OpenMemberInv ==
  ASSUME ClosureInv, OpenMember
  PROVE  ClosureInv'
<1>1. CASE Exceeded
  BY <1>1, GiveUpInv DEF OpenMember
<1>2. CASE ~Exceeded
  <2> DEFINE first == Head(queue)
  <2>1. /\ closing = "reading" /\ refs = <<>> /\ queue # <<>>
        /\ refs' = bundle.imports[first.file] /\ reading' = first.depth /\ queue' = Tail(queue)
        /\ bundle' = bundle /\ closing' = closing /\ members' = members /\ bytes' = bytes
        /\ missing' = missing
    BY <1>2 DEF OpenMember
  <2>2. queue \in Seq([file : Files, depth : Nat]) /\ bundle \in Bundles
    BY DEF ClosureInv, ClosureTypeOK
  <2>3. first \in [file : Files, depth : Nat] /\ queue' \in Seq([file : Files, depth : Nat])
    BY <2>1, <2>2, HeadOrTail
  <2>4. refs' \in Seq(References) /\ reading' \in Nat
    BY <2>1, <2>2, <2>3, BundleTypes
  <2>5. ClosureTypeOK'
    BY <2>1, <2>3, <2>4 DEF ClosureInv, ClosureTypeOK
  <2>6. FullIsClosed'
    BY <2>1 DEF FullIsClosed
  <2>7. Cardinality(members') <= MaxClosureFiles
    <3>1. Cardinality(members) \in Nat
      BY FS_CardinalityType DEF ClosureInv
    <3> QED BY <1>2, <2>1, <3>1, ClosureBoundsAssumption DEF Exceeded
  <2>8. Covered \subseteq Covered'
    BY <2>1 DEF Covered
  <2>9. ASSUME NEW f \in members'
        PROVE  Queued(f)' \/ Needs(f)' \subseteq Covered'
    <3>1. Needs(f)' = Needs(f)
      BY <2>1 DEF Needs
    <3>2. CASE f = first.file
      <4>1. Needs(f)' \subseteq {refs'[i] : i \in 1 .. Len(refs')}
        BY <2>1, <3>2 DEF Needs
      <4> QED BY <4>1 DEF Covered
    <3>3. CASE f # first.file /\ Queued(f)
      <4>1. PICK i \in 1 .. Len(queue) : queue[i].file = f
        BY <3>3 DEF Queued
      <4>2. {queue[k] : k \in 1 .. Len(queue)} \subseteq
              {Head(queue)} \cup {Tail(queue)[j] : j \in 1 .. Len(Tail(queue))}
        BY <2>1, <2>2, HeadOrTail
      <4>3. \E j \in 1 .. Len(queue') : queue'[j].file = f
        BY <2>1, <3>3, <4>1, <4>2
      <4> QED BY <4>3 DEF Queued
    <3>4. CASE ~Queued(f)
      <4>1. Needs(f) \subseteq Covered
        BY <2>1, <3>4 DEF ClosureInv
      <4> QED BY <2>8, <3>1, <4>1
    <3> QED BY <3>2, <3>3, <3>4
  <2>10. /\ members' \subseteq bundle'.readable \cup {bundle'.root}
         /\ bytes' <= MaxClosureBytes \/ members' = {bundle'.root}
         /\ IsFiniteSet(members')
    BY <2>1 DEF ClosureInv
  <2> QED BY <2>5, <2>6, <2>7, <2>9, <2>10 DEF ClosureInv
<1> QED BY <1>1, <1>2

\* Following a reference moves it from refs into another part of Covered, which never shrinks.
LEMMA StillCovered ==
  ASSUME refs \in Seq(References), refs # <<>>, refs' = Tail(refs), bundle' = bundle,
         members \subseteq members', missing \subseteq missing',
         Head(refs) \in members' \cup missing' \cup (IF bundle.format = "protobuf" THEN {WellKnown} ELSE {})
  PROVE  Covered \subseteq Covered' /\ refs' \in Seq(References)
<1>1. /\ {refs[i] : i \in 1 .. Len(refs)} \subseteq {Head(refs)} \cup {refs'[i] : i \in 1 .. Len(refs')}
      /\ refs' \in Seq(References)
  BY HeadOrTail
<1> QED BY <1>1 DEF Covered

LEMMA FollowInv ==
  ASSUME ClosureInv, Follow
  PROVE  ClosureInv'
<1> DEFINE ref == Head(refs)
<1>1. closing = "reading" /\ refs # <<>> /\ refs \in Seq(References) /\ bundle \in Bundles
  BY DEF Follow, ClosureInv, ClosureTypeOK
<1>2. ref \in References
  BY <1>1, HeadOrTail
<1>3. ASSUME UNCHANGED <<bundle, closing, members, bytes, queue, reading>>, refs' = Tail(refs),
             missing' = missing \/ missing' = missing \cup {ref},
             ref \in members \cup missing' \cup (IF bundle.format = "protobuf" THEN {WellKnown} ELSE {})
      PROVE  ClosureInv'
  <2>1. Covered \subseteq Covered' /\ refs' \in Seq(References)
    BY <1>1, <1>3, StillCovered
  <2>2. ClosureTypeOK'
    BY <1>2, <1>3, <2>1 DEF ClosureInv, ClosureTypeOK
  <2>3. FullIsClosed'
    BY <1>1, <1>3 DEF FullIsClosed
  <2>4. \A f \in members' : Queued(f)' \/ Needs(f)' \subseteq Covered'
    <3>1. \A f \in members : (Queued(f) => Queued(f)') /\ Needs(f)' = Needs(f)
      BY <1>3 DEF Queued, Needs
    <3> QED BY <1>1, <1>3, <2>1, <3>1 DEF ClosureInv
  <2> QED BY <1>1, <1>3, <2>2, <2>3, <2>4 DEF ClosureInv
<1>4. CASE Settled(ref)
  <2>1. Skip
    BY <1>1, <1>4 DEF Follow
  <2> QED BY <1>3, <1>4, <2>1 DEF Skip, Settled
<1>5. CASE Lose(ref)
  BY <1>3, <1>5 DEF Lose
<1>6. CASE GiveUp
  BY <1>6, GiveUpInv
<1>7. CASE Fits(ref) /\ Join(ref) /\ ref \in Files
  <2>1. /\ members' = members \cup {ref} /\ bytes' = bytes + bundle.size[ref]
        /\ queue' = Append(queue, [file |-> ref, depth |-> reading + 1]) /\ refs' = Tail(refs)
        /\ bundle' = bundle /\ closing' = closing /\ reading' = reading /\ missing' = missing
    BY <1>7 DEF Join
  <2>2. Covered \subseteq Covered' /\ refs' \in Seq(References)
    BY <1>1, <2>1, StillCovered
  <2>3. /\ queue \in Seq([file : Files, depth : Nat]) /\ reading \in Nat /\ bytes \in Nat
        /\ members \subseteq Files /\ missing \subseteq References
    BY DEF ClosureInv, ClosureTypeOK
  <2>4. /\ queue' \in Seq([file : Files, depth : Nat]) /\ Len(queue') = Len(queue) + 1
        /\ \A i \in 1 .. Len(queue) : queue'[i] = queue[i]
        /\ queue'[Len(queue) + 1].file = ref
    BY <1>7, <2>1, <2>3
  <2>5. bytes' \in Nat
    BY <1>1, <1>7, <2>1, <2>3, BundleTypes, SMTT(30)
  <2>6. ClosureTypeOK'
    BY <1>1, <1>7, <2>1, <2>2, <2>3, <2>4, <2>5 DEF ClosureTypeOK
  <2>7. FullIsClosed'
    BY <1>1, <2>1 DEF FullIsClosed
  <2>8. IsFiniteSet(members')
    BY <2>1, FS_AddElement DEF ClosureInv
  <2>9. ASSUME NEW f \in members'
        PROVE  Queued(f)' \/ Needs(f)' \subseteq Covered'
    <3>1. Needs(f)' = Needs(f)
      BY <2>1 DEF Needs
    <3>2. CASE f = ref
      <4>1. Len(queue) + 1 \in 1 .. Len(queue')
        BY <2>3, <2>4
      <4> QED BY <2>4, <3>2, <4>1 DEF Queued
    <3>3. CASE f # ref /\ Queued(f)
      <4>1. PICK i \in 1 .. Len(queue) : queue[i].file = f
        BY <3>3 DEF Queued
      <4>2. i \in 1 .. Len(queue') /\ queue'[i].file = f
        BY <2>3, <2>4, <4>1
      <4> QED BY <4>2 DEF Queued
    <3>4. CASE f # ref /\ ~Queued(f)
      BY <1>1, <2>1, <2>2, <3>1, <3>4 DEF ClosureInv
    <3> QED BY <3>2, <3>3, <3>4
  <2>10. members' \subseteq bundle'.readable \cup {bundle'.root}
    BY <1>1, <1>7, <2>1 DEF ClosureInv, Fits
  <2>11. bytes' <= MaxClosureBytes
    BY <1>7, <2>1 DEF Fits
  <2>12. queue' # <<>>
    BY <2>3, <2>4
  <2> QED BY <2>6, <2>7, <2>8, <2>9, <2>10, <2>11, <2>12 DEF ClosureInv
<1> QED BY <1>1, <1>4, <1>5, <1>6, <1>7 DEF Follow

LEMMA CloseInv ==
  ASSUME ClosureInv, Close
  PROVE  ClosureInv'
<1>1. /\ closing = "reading" /\ refs = <<>> /\ queue = <<>>
      /\ bundle' = bundle /\ members' = members /\ bytes' = bytes /\ queue' = queue
      /\ reading' = reading /\ refs' = refs /\ missing' = missing
  BY DEF Close
<1>2. closing' \in {"partial", "single", "multi"} /\ (closing' # "partial" => missing = {})
  BY DEF Close
<1>3. ClosureTypeOK'
  BY <1>1, <1>2 DEF ClosureInv, ClosureTypeOK
<1>4. ASSUME missing = {}
      PROVE  \A f \in members :
               Needs(f) \subseteq members \cup (IF bundle.format = "protobuf" THEN {WellKnown} ELSE {})
  <2>1. Len(queue) = 0 /\ Len(refs) = 0
    BY <1>1
  <2>2. \A f \in members : ~Queued(f)
    BY <2>1 DEF Queued
  <2>3. Covered = members \cup (IF bundle.format = "protobuf" THEN {WellKnown} ELSE {})
    BY <1>4, <2>1 DEF Covered
  <2> QED BY <1>1, <2>2, <2>3 DEF ClosureInv
<1>5. FullIsClosed'
  <2>1. \A f : Needs(f)' = Needs(f)
    BY <1>1 DEF Needs
  <2> QED BY <1>1, <1>2, <1>4, <2>1 DEF ClosureInv, FullIsClosed
<1> QED BY <1>1, <1>2, <1>3, <1>5 DEF ClosureInv

\* Every step of the closure keeps the invariant, and so does every step of another component.
LEMMA ClosureNextInv == ClosureInv /\ [ClosureNext]_closureVars => ClosureInv'
<1> SUFFICES ASSUME ClosureInv, [ClosureNext]_closureVars PROVE ClosureInv'
  OBVIOUS
<1>1. CASE OpenMember
  BY <1>1, OpenMemberInv
<1>2. CASE Follow
  BY <1>2, FollowInv
<1>3. CASE Close
  BY <1>3, CloseInv
<1>4. CASE UNCHANGED closureVars
  BY <1>4, SMTT(30) DEF closureVars, ClosureInv, ClosureTypeOK, FullIsClosed, Covered, Queued, Needs
<1> QED BY <1>1, <1>2, <1>3, <1>4 DEF ClosureNext

-----------------------------------------------------------------------------
(* SnsContracts: the strongest source that has a contract wins.            *)

Remote == [url : Urls, affinity : {30, 60, 100}]
Record == [protocol : {"http", "lambda", "sqs"}, raw : BOOLEAN, attributes : SUBSET Attributes]

\* The sources by name, what each had to offer, and how many have been asked at a rung.
Titles == <<"repo-asyncapi", "repo-json-schema", "generated-asyncapi", "ssm-content", "ssm-url", "catalog-url",
            "eventbridge-derived", "code-derived">>
Source(i) == Ladder[i][2]
Asked == [asyncapi |-> 0, schema |-> 1, generated |-> 2, ssm |-> 3, ssmUrl |-> 4, remote |-> 6, bridge |-> 6, code |-> 7]

NoneOf(n) == \A i \in 1 .. n : Source(i) = {}
Picked(i) == chosen \in Source(i) /\ (Source(i) \cap repo.mentions # {} => chosen \in repo.mentions)
Strongest ==
  IF NoneOf(8) THEN origin = "none"
  ELSE \E i \in 1 .. 8 : origin = Titles[i] /\ Source(i) # {} /\ NoneOf(i - 1) /\ (i <= 3 => Picked(i))

\* The first n subscriptions were looked at.
CountedTo(n) ==
  /\ Len(unseen) = Len(topic.subscriptions) - n
  /\ \A i \in 1 .. Len(unseen) : unseen[i] = topic.subscriptions[n + i]
  /\ Len(inspected) = Cardinality({i \in 1 .. n : topic.subscriptions[i].confirmed})
Counted ==
  \/ \E n \in 0 .. Len(topic.subscriptions) : CountedTo(n)
  \/ unseen = <<>> /\ inspected = <<>> /\ subErrors = 1

(* What makes StrongestOrigin inductive: at each rung the sources before it are known to be empty,  *)
(* the scan is whole or known to be cut, and nothing was fetched yet that belongs to a later one.   *)
SnsInv ==
  /\ SnsTypeOK /\ unseen \in Seq(Subscription) /\ inspected \in Seq(Record)
  /\ (rung = "scan" => walk = "scan") /\ (rung = "generated" => walk = "generated")
  /\ rung \notin {"idle", "scan"} => scanned \subseteq Listed("scan") /\ (~scanCut => scanned = Listed("scan"))
  /\ rung = "scan" => origin = "none"
  /\ rung \in DOMAIN Asked => origin = "none" /\ NoneOf(Asked[rung])
  /\ rung \in {"scan", "asyncapi", "schema", "generated", "ssm", "ssmUrl"} => got = {} /\ ~pointer
  /\ rung = "ssmUrl" => topic.url # NoUrl
  /\ pointer => topic.url # NoUrl /\ \A g \in got : g[1] = "catalog-url"
  /\ rung \notin {"inspect", "done"} => inspected = <<>>
  /\ rung \in {"subscriptions", "inspect", "done"} => Strongest
  /\ rung \in {"inspect", "done"} => Counted
  /\ rung = "done" =>
       /\ unseen = <<>> /\ result.origin = (IF origin = "none" THEN "manual-review" ELSE origin)
       /\ origin # "none" => result.chosen = chosen
       /\ result.pointer = pointer /\ result.total = Len(inspected) /\ result.failed = subErrors

-----------------------------------------------------------------------------
ScannedFiles == IF scanCut THEN scanned ELSE Listed("scan")
KeptOutputs == IF outputCut THEN {} ELSE Listed("generated") \ repo.ignored
GeneratedFiles == {p \in ScannedFiles : IsGenerated(p) /\ ~IsOutput(p)} \cup
              {p \in KeptOutputs \cup ScannedFiles : IsGenerated(p) /\ IsOutput(p) /\ ~outputCut /\ p \notin repo.ignored}

\* The ladder, source by source.
LadderFacts ==
  /\ DOMAIN Ladder = 1 .. 8 /\ \A i \in 1 .. 8 : Ladder[i][1] = Titles[i]
  /\ Source(1) = {p \in Readable(ScannedFiles, "asyncapi") : IsRepoAsyncApi(p)}
  /\ Source(2) = {p \in Readable(ScannedFiles, "json-schema") : IsJsonSchema(p)}
  /\ Source(3) = Readable(GeneratedFiles, "asyncapi")
  /\ Source(4) = {d \in Documents : d = topic.content /\ FormatOf(d) \in Usables}
  /\ Source(5) = {g \in got : g[1] = "ssm-url" /\ FormatOf(Served[g[2]]) \in Usables}
  /\ Source(6) = {g \in got : g[1] = "catalog-url" /\ Served[g[2]] \in Usables}
  /\ Source(7) = (IF topic.bridge = "listed" THEN SnsShaped ELSE {})
  /\ Source(8) = (IF Cardinality(Derivations) = 1 THEN Derivations ELSE {})

LEMMA LadderIs == LadderFacts
BY DEF LadderFacts, Ladder, Titles, Source, ScannedFiles, KeptOutputs, GeneratedFiles

\* A source has what it had, as long as what it is made of stays.
LEMMA SourcesKept ==
  ASSUME repo' = repo
  PROVE  /\ UNCHANGED <<scanned, scanCut>> => Source(1)' = Source(1) /\ Source(2)' = Source(2)
         /\ UNCHANGED <<scanned, scanCut, outputCut>> => Source(3)' = Source(3)
         /\ topic' = topic => Source(4)' = Source(4) /\ Source(7)' = Source(7) /\ Source(8)' = Source(8)
         /\ UNCHANGED <<topic, got>> => Source(5)' = Source(5) /\ Source(6)' = Source(6)
<1>0. LadderFacts /\ LadderFacts'
  BY LadderIs, PTL
<1>1. \A p : IsRepoAsyncApi(p)' = IsRepoAsyncApi(p) /\ IsJsonSchema(p)' = IsJsonSchema(p)
             /\ IsOutput(p)' = IsOutput(p) /\ IsGenerated(p)' = IsGenerated(p)
  BY DEF IsRepoAsyncApi, IsJsonSchema, IsGenerated, IsOutput
<1>2. ASSUME UNCHANGED <<scanned, scanCut>>
      PROVE  ScannedFiles' = ScannedFiles /\ Source(1)' = Source(1) /\ Source(2)' = Source(2)
  <2>1. ScannedFiles' = ScannedFiles
    BY <1>2, SameRepo DEF ScannedFiles
  <2>2. Readable(ScannedFiles, "asyncapi")' = Readable(ScannedFiles, "asyncapi")
    BY <2>1 DEF Readable
  <2>3. Readable(ScannedFiles, "json-schema")' = Readable(ScannedFiles, "json-schema")
    BY <2>1 DEF Readable
  <2>4. /\ {p \in Readable(ScannedFiles, "asyncapi") : IsRepoAsyncApi(p)}'
               = {p \in Readable(ScannedFiles, "asyncapi") : IsRepoAsyncApi(p)}
        /\ {p \in Readable(ScannedFiles, "json-schema") : IsJsonSchema(p)}'
               = {p \in Readable(ScannedFiles, "json-schema") : IsJsonSchema(p)}
    BY <2>2, <2>3 DEF IsRepoAsyncApi, IsJsonSchema
  <2>5. Source(1)' = Source(1) /\ Source(2)' = Source(2)
    BY <1>0, <2>4 DEF LadderFacts
  <2> QED BY <2>1, <2>5
<1>3. ASSUME UNCHANGED <<scanned, scanCut, outputCut>>
      PROVE  Source(3)' = Source(3)
  <2>1. GeneratedFiles' = GeneratedFiles
    BY <1>1, <1>2, <1>3, SameRepo DEF GeneratedFiles, KeptOutputs
  <2> QED BY <1>0, <2>1 DEF LadderFacts, Readable
<1>4. ASSUME topic' = topic
      PROVE  Source(4)' = Source(4) /\ Source(7)' = Source(7) /\ Source(8)' = Source(8)
  <2>1. Derivations' = Derivations /\ SnsShaped' = SnsShaped
    BY <1>4 DEF Derivations, SnsShaped, FromDocuments, FromReferences, FromDeclarations
  <2> QED BY <1>0, <1>4, <2>1 DEF LadderFacts, FormatOf
<1>5. ASSUME UNCHANGED <<topic, got>>
      PROVE  Source(5)' = Source(5) /\ Source(6)' = Source(6)
  BY <1>0, <1>5 DEF LadderFacts, FormatOf
<1> QED BY <1>2, <1>3, <1>4, <1>5

\* Of files the nearest is one of them, and one that names the topic when there is one.
LEMMA NearestIs ==
  ASSUME repo \in Repos, NEW S \in SUBSET Paths, S # {}
  PROVE  Nearest(S) \in S /\ (S \cap repo.mentions # {} => Nearest(S) \in repo.mentions)
<1>1. CASE S \cap repo.mentions # {}
  <2>1. PICK T \in SUBSET Paths : T = S \cap repo.mentions
    BY <1>1
  <2> QED BY <1>1, <2>1, FirstIsThere DEF Nearest
<1>2. CASE S \cap repo.mentions = {}
  BY <1>2, FirstIsThere DEF Nearest
<1> QED BY <1>1, <1>2

\* All that a walk of the output directories lists lies in them.
LEMMA ListedOutputs ==
  ASSUME repo \in Repos, NEW p \in Listed("generated")
  PROVE  IsOutput(p)
<1> DEFINE X == {d \in Paths : repo.area[d] = "output"}
<1>1. SnsRepoOK(repo)
  BY TopicsAssumption
<1>2. RootsOf("generated") \subseteq X
  BY <1>1, SeenFacts DEF SnsRepoOK, Walks
<1>3. \A d \in X : Leads("generated")[d] \subseteq X
  <2>1. ASSUME NEW d \in X, NEW e \in Leads("generated")[d] PROVE e \in X
    <3>1. repo.kind[d] = "dir" /\ e \in repo.content[d]
      BY <2>1 DEF Leads
    <3>2. e \in Paths
      BY <3>1, RepoTypes
    <3> QED BY <1>1, <3>1, <3>2 DEF SnsRepoOK
  <2> QED BY <2>1
<1>4. Seen("generated") \subseteq X
  BY <1>2, <1>3, SeenFacts DEF Walks
<1>5. p \in X
  BY <1>3, <1>4 DEF Listed
<1> QED BY <1>5 DEF IsOutput

LEMMA TopicTypes ==
  ASSUME topic \in Topics
  PROVE  /\ topic.url \in Urls \cup {NoUrl} /\ topic.remotes \in Seq(Remote)
         /\ topic.content \in Documents \cup {"none"} /\ topic.declared \in Usables \cup {"none"}
         /\ topic.subscriptions \in Seq(Subscription)
BY TopicsAssumption DEF TopicOK, Remote

-----------------------------------------------------------------------------
\* The first source with a contract is the strongest.
LEMMA TakenIs ==
  ASSUME NEW n \in 1 .. 8, NoneOf(n - 1)', Source(n)' # {}, origin' = Titles[n], n <= 3 => Picked(n)'
  PROVE  Strongest'
<1>1. ~NoneOf(8)'
  BY DEF NoneOf
<1> QED BY <1>1 DEF Strongest

\* A source is asked, or left behind, and all that it does not know of is left alone.
LEMMA AskedInv ==
  ASSUME SnsInv, SnsTypeOK', repo' = repo, rung \in DOMAIN Asked,
         UNCHANGED <<topic, scanned, scanCut, unseen, inspected, subErrors>>,
         rung' \notin {"idle", "scan", "inspect", "done"},
         rung' = "generated" => walk' = "generated",
         rung' \in DOMAIN Asked => origin' = "none" /\ NoneOf(Asked[rung])',
         rung' = "subscriptions" => Strongest',
         rung' \in {"asyncapi", "schema", "generated", "ssm", "ssmUrl"} => got' = {} /\ ~pointer',
         rung' = "ssmUrl" => topic.url # NoUrl,
         pointer' => topic.url # NoUrl /\ \A g \in got' : g[1] = "catalog-url"
  PROVE  SnsInv'
<1>1. rung \notin {"idle", "scan", "inspect", "done"}
  BY DEF Asked
<1>2. Listed("scan")' = Listed("scan")
  BY SameRepo
<1>3. scanned' \subseteq Listed("scan")' /\ (~scanCut' => scanned' = Listed("scan")')
  BY <1>1, <1>2 DEF SnsInv
<1>4. inspected' = <<>> /\ unseen' \in Seq(Subscription) /\ inspected' \in Seq(Record)
  BY <1>1 DEF SnsInv
<1> QED BY <1>3, <1>4 DEF SnsInv

\* While the sources of the repository are asked, nothing else is.
LEMMA FileTypes ==
  ASSUME SnsInv, WalkInv, rung \notin {"idle", "scan"}
  PROVE  ScannedFiles = scanned /\ scanned \subseteq Paths /\ repo \in Repos
BY DEF SnsInv, SnsTypeOK, WalkInv, WalkTypeOK, ScannedFiles

LEMMA NoneGrows ==
  ASSUME NEW n \in Nat, NoneOf(n), Source(n + 1) = {}
  PROVE  NoneOf(n + 1)
BY DEF NoneOf

LEMMA TakeScanInv ==
  ASSUME SnsInv, WalkInv, TakeScan
  PROVE  SnsInv'
<1>1. /\ rung = "scan" /\ WalkDone /\ scanned' = found /\ scanCut' = cut /\ repo' = repo
      /\ rung' = "asyncapi" /\ UNCHANGED <<origin, chosen, format>>
      /\ UNCHANGED <<outputCut, transformed, topic, remotes, got, pointer, unseen, inspected, subErrors, result>>
  BY DEF TakeScan, EndWalk, GoOn, Aside
<1>2. walk = "scan" /\ found \subseteq Paths /\ cut \in BOOLEAN
  BY <1>1 DEF SnsInv, WalkInv, WalkTypeOK
<1>3. found \subseteq Listed("scan") /\ (~cut => found = Listed("scan"))
  BY <1>1, <1>2, WholeWalk DEF Walks
<1>4. SnsTypeOK'
  BY <1>1, <1>2 DEF SnsInv, SnsTypeOK
<1>5. NoneOf(0)
  BY DEF NoneOf
<1>6. origin' = "none" /\ NoneOf(Asked[rung])'
  BY <1>1 DEF SnsInv, Asked, NoneOf
<1>7. Listed("scan")' = Listed("scan")
  BY <1>1, SameRepo
<1> QED BY <1>1, <1>3, <1>4, <1>6, <1>7 DEF SnsInv

\* A file of the repository is taken, or the next source is asked.
LEMMA RepoAsyncApiInv ==
  ASSUME SnsInv, WalkInv, RepoAsyncApi
  PROVE  SnsInv'
<1> DEFINE usable == {p \in Readable(scanned, "asyncapi") : IsRepoAsyncApi(p)}
<1>1. /\ rung = "asyncapi" /\ UNCHANGED <<repo, walk>>
      /\ UNCHANGED <<scanned, scanCut, outputCut, transformed>>
      /\ UNCHANGED <<topic, remotes, got, pointer, unseen, inspected, subErrors, result>>
      /\ IF usable # {} THEN Take("repo-asyncapi", "asyncapi", Nearest(usable)) ELSE GoOn("schema")
  BY DEF RepoAsyncApi, Aside, walkVars
<1>2. ScannedFiles = scanned /\ scanned \subseteq Paths /\ repo \in Repos
  BY <1>1, FileTypes
<1>3. usable = Source(1) /\ usable \subseteq Paths
  BY <1>2, LadderIs DEF LadderFacts, Readable
<1>4. Source(1)' = Source(1)
  BY <1>1, SourcesKept
<1>5. got = {} /\ ~pointer /\ origin = "none" /\ rung \in DOMAIN Asked
  BY <1>1 DEF SnsInv, Asked
<1> HIDE DEF usable
<1>6. CASE usable # {}
  <2>1. rung' = "subscriptions" /\ origin' = "repo-asyncapi" /\ format' = "asyncapi" /\ chosen' = Nearest(usable)
    BY <1>1, <1>6 DEF Take
  <2>2. Nearest(usable) \in usable /\ (usable \cap repo.mentions # {} => Nearest(usable) \in repo.mentions)
    BY <1>2, <1>3, <1>6, NearestIs
  <2>3. Picked(1)' /\ NoneOf(0)' /\ Source(1)' # {} /\ origin' = Titles[1]
    BY <1>1, <1>3, <1>4, <1>6, <2>1, <2>2 DEF Picked, NoneOf, Titles
  <2>4. Strongest'
    BY <2>3, TakenIs
  <2>5. SnsTypeOK'
    BY <1>1, <1>3, <2>1, <2>2 DEF SnsInv, SnsTypeOK, Usables
  <2> QED BY <1>1, <1>5, <2>1, <2>4, <2>5, AskedInv DEF Asked
<1>7. CASE usable = {}
  <2>1. rung' = "schema" /\ UNCHANGED <<origin, chosen, format>>
    BY <1>1, <1>7 DEF GoOn
  <2>2. NoneOf(Asked[rung])'
    BY <1>3, <1>4, <1>7, <2>1 DEF NoneOf, Asked
  <2>3. SnsTypeOK'
    BY <1>1, <2>1 DEF SnsInv, SnsTypeOK
  <2> QED BY <1>1, <1>5, <2>1, <2>2, <2>3, AskedInv DEF Asked
<1> QED BY <1>6, <1>7

LEMMA RepoJsonSchemaInv ==
  ASSUME SnsInv, WalkInv, RepoJsonSchema
  PROVE  SnsInv'
<1> DEFINE usable == {p \in Readable(scanned, "json-schema") : IsJsonSchema(p)}
<1>1. /\ rung = "schema"
      /\ UNCHANGED <<scanned, scanCut, outputCut, transformed>>
      /\ UNCHANGED <<topic, remotes, got, pointer, unseen, inspected, subErrors, result>>
      /\ IF usable # {} THEN Take("repo-json-schema", "json-schema", Nearest(usable)) /\ UNCHANGED walkVars
         ELSE GoOn("generated") /\ BeginWalk("generated")
  BY DEF RepoJsonSchema, Aside
<1>2. ScannedFiles = scanned /\ scanned \subseteq Paths /\ repo \in Repos
  BY <1>1, FileTypes
<1>3. usable = Source(2) /\ usable \subseteq Paths
  BY <1>2, LadderIs DEF LadderFacts, Readable
<1> HIDE DEF usable
<1>4. repo' = repo
  BY <1>1 DEF BeginWalk, walkVars
<1>5. Source(1)' = Source(1) /\ Source(2)' = Source(2)
  BY <1>1, <1>4, SourcesKept
<1>6. got = {} /\ ~pointer /\ origin = "none" /\ rung \in DOMAIN Asked /\ Source(1) = {}
  BY <1>1 DEF SnsInv, Asked, NoneOf
<1>7. CASE usable # {}
  <2>1. rung' = "subscriptions" /\ origin' = "repo-json-schema" /\ format' = "json-schema" /\ chosen' = Nearest(usable)
    BY <1>1, <1>7 DEF Take
  <2>2. Nearest(usable) \in usable /\ (usable \cap repo.mentions # {} => Nearest(usable) \in repo.mentions)
    BY <1>2, <1>3, <1>7, NearestIs
  <2>3. Picked(2)' /\ NoneOf(1)' /\ Source(2)' # {} /\ origin' = Titles[2]
    BY <1>3, <1>4, <1>5, <1>6, <1>7, <2>1, <2>2 DEF Picked, NoneOf, Titles
  <2>4. Strongest'
    BY <2>3, TakenIs
  <2>5. SnsTypeOK'
    BY <1>1, <1>3, <2>1, <2>2 DEF SnsInv, SnsTypeOK, Usables
  <2> QED BY <1>1, <1>4, <1>6, <2>1, <2>4, <2>5, AskedInv DEF Asked
<1>8. CASE usable = {}
  <2>1. rung' = "generated" /\ walk' = "generated" /\ UNCHANGED <<origin, chosen, format>>
    BY <1>1, <1>8 DEF GoOn, BeginWalk
  <2>2. \A i \in 1 .. 2 : Source(i)' = {}
    BY <1>3, <1>5, <1>6, <1>8
  <2>3. NoneOf(Asked[rung])'
    BY <2>1, <2>2 DEF NoneOf, Asked
  <2>4. SnsTypeOK'
    BY <1>1, <2>1 DEF SnsInv, SnsTypeOK
  <2> QED BY <1>1, <1>4, <1>6, <2>1, <2>3, <2>4, AskedInv DEF Asked
<1> QED BY <1>7, <1>8

\* Of the generated files those count that this source accepts, cut off or not.
LEMMA AcceptedIs ==
  ASSUME SnsInv, WalkInv, rung = "generated", WalkDone, UNCHANGED <<repo, scanned, scanCut>>, outputCut' = cut
  PROVE  Source(3)' = Readable(Accepted(scanned \cup found), "asyncapi")
<1>1. LadderFacts'
  BY LadderIs, PTL
<1>2. walk = "generated" /\ repo \in Repos
  BY DEF SnsInv, WalkInv, WalkTypeOK
<1>3. found \subseteq Listed("generated") /\ (~cut => found = Listed("generated"))
  BY <1>2, WholeWalk DEF Walks
<1>4. ScannedFiles' = scanned /\ Listed("generated")' = Listed("generated")
  BY SameRepo DEF SnsInv, ScannedFiles
<1>5. GeneratedFiles' = {p \in scanned : IsGenerated(p) /\ ~IsOutput(p)} \cup
                    {p \in (IF cut THEN {} ELSE Listed("generated") \ repo.ignored) \cup scanned :
                       IsGenerated(p) /\ IsOutput(p) /\ ~cut /\ p \notin repo.ignored}
  BY <1>4 DEF GeneratedFiles, KeptOutputs, IsGenerated, IsOutput
<1>6. GeneratedFiles' = Accepted(scanned \cup found)
  <2>1. \A p \in found : IsOutput(p)
    BY <1>2, <1>3, ListedOutputs
  <2> QED BY <1>3, <1>5, <2>1 DEF Accepted, KeptByGit
<1>7. Source(3)' = Readable(GeneratedFiles, "asyncapi")'
  BY <1>1 DEF LadderFacts
<1> QED BY <1>6, <1>7 DEF Readable

LEMMA GeneratedAsyncApiInv ==
  ASSUME SnsInv, WalkInv, GeneratedAsyncApi
  PROVE  SnsInv'
<1> DEFINE usable == Readable(Accepted(scanned \cup found), "asyncapi")
<1>1. /\ rung = "generated" /\ WalkDone /\ outputCut' = cut /\ repo' = repo
      /\ UNCHANGED <<scanned, scanCut, transformed>>
      /\ UNCHANGED <<topic, remotes, got, pointer, unseen, inspected, subErrors, result>>
      /\ IF usable # {} THEN Take("generated-asyncapi", "asyncapi", Nearest(usable)) ELSE GoOn("ssm")
  BY DEF GeneratedAsyncApi, Aside, EndWalk
<1>2. scanned \subseteq Paths /\ repo \in Repos /\ found \subseteq Paths /\ cut \in BOOLEAN
  BY <1>1 DEF SnsInv, SnsTypeOK, WalkInv, WalkTypeOK
<1>3. usable \subseteq Paths
  BY <1>2 DEF Readable, Accepted
<1>4. Source(3)' = usable
  BY <1>1, AcceptedIs
<1> HIDE DEF usable
<1>5. Source(1)' = Source(1) /\ Source(2)' = Source(2)
  BY <1>1, SourcesKept
<1>6. got = {} /\ ~pointer /\ origin = "none" /\ rung \in DOMAIN Asked /\ NoneOf(2)
  BY <1>1 DEF SnsInv, Asked
<1>7. Source(1)' = {} /\ Source(2)' = {}
  BY <1>5, <1>6 DEF NoneOf
<1>8. CASE usable # {}
  <2>1. rung' = "subscriptions" /\ origin' = "generated-asyncapi" /\ format' = "asyncapi" /\ chosen' = Nearest(usable)
    BY <1>1, <1>8 DEF Take
  <2>2. Nearest(usable) \in usable /\ (usable \cap repo.mentions # {} => Nearest(usable) \in repo.mentions)
    BY <1>2, <1>3, <1>8, NearestIs
  <2>3. \A i \in 1 .. 2 : Source(i)' = {}
    BY <1>7
  <2>4. Picked(3)' /\ NoneOf(2)' /\ Source(3)' # {} /\ origin' = Titles[3]
    BY <1>1, <1>4, <1>8, <2>1, <2>2, <2>3 DEF Picked, NoneOf, Titles
  <2>5. Strongest'
    BY <2>4, TakenIs
  <2>6. SnsTypeOK'
    BY <1>1, <1>2, <1>3, <2>1, <2>2 DEF SnsInv, SnsTypeOK, Usables
  <2> QED BY <1>1, <1>6, <2>1, <2>5, <2>6, AskedInv DEF Asked
<1>9. CASE usable = {}
  <2>1. rung' = "ssm" /\ UNCHANGED <<origin, chosen, format>>
    BY <1>1, <1>9 DEF GoOn
  <2>2. \A i \in 1 .. 3 : Source(i)' = {}
    BY <1>4, <1>7, <1>9
  <2>3. NoneOf(Asked[rung])'
    BY <2>1, <2>2 DEF NoneOf, Asked
  <2>4. SnsTypeOK'
    BY <1>1, <1>2, <2>1 DEF SnsInv, SnsTypeOK
  <2> QED BY <1>1, <1>6, <2>1, <2>3, <2>4, AskedInv DEF Asked
<1> QED BY <1>8, <1>9

\* Nothing was fetched, so no location has a contract.
LEMMA NothingFetched == got = {} => Source(5) = {} /\ Source(6) = {}
BY LadderIs DEF LadderFacts

LEMMA SsmParametersInv ==
  ASSUME SnsInv, WalkInv, NEW answers \in BOOLEAN, SsmParameters(answers)
  PROVE  SnsInv'
<1> DEFINE good == topic.content # "none" /\ FormatOf(topic.content) \in Usables
<1>1. /\ rung = "ssm" /\ repo' = repo
      /\ UNCHANGED <<scanned, scanCut, outputCut, transformed>>
      /\ UNCHANGED <<topic, got, pointer, unseen, inspected, subErrors, result>>
  BY DEF SsmParameters, walkVars
<1>2. got = {} /\ ~pointer /\ origin = "none" /\ rung \in DOMAIN Asked /\ NoneOf(3) /\ topic \in Topics
  BY <1>1 DEF SnsInv, SnsTypeOK, Asked
<1>3. \A i \in 1 .. 6 : Source(i)' = Source(i)
  <2>1. /\ Source(1)' = Source(1) /\ Source(2)' = Source(2) /\ Source(3)' = Source(3)
        /\ Source(4)' = Source(4) /\ Source(5)' = Source(5) /\ Source(6)' = Source(6)
    BY <1>1, SourcesKept
  <2> QED BY <2>1
<1>4. Source(5) = {} /\ Source(6) = {}
  BY <1>2, NothingFetched
<1>5. Source(4) # {} <=> good
  <2>1. Source(4) = {d \in Documents : d = topic.content /\ FormatOf(d) \in Usables}
    BY LadderIs DEF LadderFacts
  <2>2. topic.content \in Documents <=> topic.content # "none"
    BY <1>2, TopicTypes DEF Documents
  <2> QED BY <2>1, <2>2
<1>6. CASE rung' = "thrown" /\ UNCHANGED <<origin, chosen, format>>
  <2>1. SnsTypeOK'
    BY <1>1, <1>6 DEF SnsInv, SnsTypeOK
  <2> QED BY <1>1, <1>2, <1>6, <2>1, AskedInv DEF Asked
<1>7. CASE good /\ Take("ssm-content", FormatOf(topic.content), NoUrl)
  <2>1. /\ rung' = "subscriptions" /\ origin' = "ssm-content" /\ chosen' = NoUrl
        /\ format' = FormatOf(topic.content) /\ format' \in Usables
    BY <1>7 DEF Take
  <2>2. NoneOf(3)' /\ Source(4)' # {} /\ origin' = Titles[4]
    BY <1>2, <1>3, <1>5, <1>7, <2>1 DEF NoneOf, Titles
  <2>3. Strongest'
    BY <2>2, TakenIs
  <2>4. SnsTypeOK'
    BY <1>1, <2>1 DEF SnsInv, SnsTypeOK, Usables
  <2> QED BY <1>1, <1>2, <2>1, <2>3, <2>4, AskedInv DEF Asked
<1>8. CASE ~good /\ UNCHANGED <<origin, chosen, format>>
              /\ ((rung' = "ssmUrl" /\ topic.url # NoUrl) \/ rung' = "remote")
  <2>1. \A i \in 1 .. 6 : Source(i)' = {}
    BY <1>2, <1>3, <1>4, <1>5, <1>8 DEF NoneOf
  <2>2. NoneOf(Asked[rung])'
    BY <1>8, <2>1 DEF NoneOf, Asked
  <2>3. SnsTypeOK'
    BY <1>1, <1>8 DEF SnsInv, SnsTypeOK
  <2> QED BY <1>1, <1>2, <1>8, <2>2, <2>3, AskedInv DEF Asked
<1>9. \/ rung' = "thrown" /\ UNCHANGED <<origin, chosen, format>>
      \/ good /\ Take("ssm-content", FormatOf(topic.content), NoUrl)
      \/ /\ ~good /\ UNCHANGED <<origin, chosen, format>>
         /\ (rung' = "ssmUrl" /\ topic.url # NoUrl) \/ rung' = "remote"
  BY DEF SsmParameters, GoOn
<1> QED BY <1>6, <1>7, <1>8, <1>9

LEMMA SsmFetchedInv ==
  ASSUME SnsInv, WalkInv, SsmFetched
  PROVE  SnsInv'
<1> DEFINE good == fetching = "fetched" /\ FormatOf(Served[topic.url]) \in Usables
           one  == <<"ssm-url", topic.url>>
<1>1. /\ rung = "ssmUrl" /\ repo' = repo /\ fetching \in {"fetched", "failed"}
      /\ pointer' = (fetching = "failed")
      /\ got' = (IF fetching = "fetched" THEN got \cup {one} ELSE got)
      /\ IF good THEN Take("ssm-url", FormatOf(Served[topic.url]), topic.url) ELSE GoOn("remote")
      /\ UNCHANGED <<scanned, scanCut, outputCut, transformed>>
      /\ UNCHANGED <<topic, remotes, unseen, inspected, subErrors, result>>
  BY DEF SsmFetched, walkVars
<1>2. /\ got = {} /\ origin = "none" /\ rung \in DOMAIN Asked /\ NoneOf(4)
      /\ topic \in Topics /\ topic.url # NoUrl
  BY <1>1 DEF SnsInv, SnsTypeOK, Asked
<1>3. topic.url \in Urls /\ one \in {"ssm-url", "catalog-url"} \X Urls /\ one[1] = "ssm-url" /\ one[2] = topic.url
  BY <1>2, TopicTypes
<1>4. \A i \in 1 .. 4 : Source(i)' = {}
  <2>1. /\ Source(1)' = Source(1) /\ Source(2)' = Source(2) /\ Source(3)' = Source(3) /\ Source(4)' = Source(4)
    BY <1>1, SourcesKept
  <2> QED BY <1>2, <2>1 DEF NoneOf
<1> HIDE DEF one
<1>5. (Source(5)' # {} <=> good) /\ Source(6)' = {}
  <2>1. LadderFacts'
    BY LadderIs, PTL
  <2>2. /\ Source(5)' = {g \in got' : g[1] = "ssm-url" /\ FormatOf(Served[g[2]])' \in Usables}
        /\ Source(6)' = {g \in got' : g[1] = "catalog-url" /\ Served[g[2]] \in Usables}
    BY <2>1 DEF LadderFacts
  <2>3. \A x : FormatOf(x)' = FormatOf(x)
    BY <1>1 DEF FormatOf
  <2>4. got' = {} \/ (fetching = "fetched" /\ got' = {one})
    BY <1>1, <1>2
  <2>5. fetching = "fetched" => got' = {one}
    BY <1>1, <1>2
  <2> QED BY <1>1, <1>3, <2>2, <2>3, <2>4, <2>5
<1>6. got' \in SUBSET ({"ssm-url", "catalog-url"} \X Urls) /\ pointer' \in BOOLEAN
      /\ (pointer' => got' = {})
  BY <1>1, <1>2, <1>3
<1>7. CASE good
  <2>1. /\ rung' = "subscriptions" /\ origin' = "ssm-url" /\ chosen' = topic.url
        /\ format' = FormatOf(Served[topic.url]) /\ format' \in Usables
    BY <1>1, <1>7 DEF Take
  <2>2. NoneOf(4)' /\ Source(5)' # {} /\ origin' = Titles[5]
    BY <1>4, <1>5, <1>7, <2>1 DEF NoneOf, Titles
  <2>3. Strongest'
    BY <2>2, TakenIs
  <2>4. SnsTypeOK'
    BY <1>1, <1>3, <1>6, <2>1 DEF SnsInv, SnsTypeOK, Usables
  <2> QED BY <1>1, <1>2, <1>6, <2>1, <2>3, <2>4, AskedInv DEF Asked
<1>8. CASE ~good
  <2>1. rung' = "remote" /\ UNCHANGED <<origin, chosen, format>>
    BY <1>1, <1>8 DEF GoOn
  <2>2. \A i \in 1 .. 6 : Source(i)' = {}
    BY <1>4, <1>5, <1>8
  <2>3. NoneOf(Asked[rung])'
    BY <2>1, <2>2 DEF NoneOf, Asked
  <2>4. SnsTypeOK'
    BY <1>1, <1>6, <2>1 DEF SnsInv, SnsTypeOK
  <2> QED BY <1>1, <1>2, <1>6, <2>1, <2>3, <2>4, AskedInv DEF Asked
<1> QED BY <1>7, <1>8

LEMMA TryRemoteInv ==
  ASSUME SnsInv, WalkInv, TryRemote
  PROVE  SnsInv'
<1>1. /\ rung = "remote" /\ repo' = repo /\ (rung' = "remote" \/ rung' = "bridge")
      /\ UNCHANGED <<origin, chosen, format>>
      /\ UNCHANGED <<scanned, scanCut, outputCut, transformed>>
      /\ UNCHANGED <<topic, got, pointer, unseen, inspected, subErrors, result>>
  BY DEF TryRemote, GoOn, walkVars
<1>2. origin = "none" /\ rung \in DOMAIN Asked /\ NoneOf(6)
  BY <1>1 DEF SnsInv, Asked
<1>3. \A i \in 1 .. 6 : Source(i)' = Source(i)
  <2>1. /\ Source(1)' = Source(1) /\ Source(2)' = Source(2) /\ Source(3)' = Source(3)
        /\ Source(4)' = Source(4) /\ Source(5)' = Source(5) /\ Source(6)' = Source(6)
    BY <1>1, SourcesKept
  <2> QED BY <2>1
<1>4. NoneOf(Asked[rung])'
  BY <1>1, <1>2, <1>3 DEF NoneOf, Asked
<1>5. SnsTypeOK'
  BY <1>1 DEF SnsInv, SnsTypeOK
<1>6. pointer' => topic.url # NoUrl /\ \A g \in got' : g[1] = "catalog-url"
  BY <1>1 DEF SnsInv
<1> QED BY <1>1, <1>2, <1>4, <1>5, <1>6, AskedInv DEF Asked

LEMMA RemoteFetchedInv ==
  ASSUME SnsInv, WalkInv, FetchInv, RemoteFetched
  PROVE  SnsInv'
<1> DEFINE at   == requested[1].url
           good == fetching = "fetched" /\ Served[at] \in Usables
           one  == <<"catalog-url", at>>
<1>1. /\ rung = "remote" /\ repo' = repo
      /\ got' = (IF fetching = "fetched" THEN got \cup {one} ELSE got)
      /\ IF good THEN Take("catalog-url", Served[at], at) ELSE UNCHANGED <<rung, origin, chosen, format>>
      /\ UNCHANGED <<scanned, scanCut, outputCut, transformed>>
      /\ UNCHANGED <<topic, remotes, pointer, unseen, inspected, subErrors, result>>
  BY DEF RemoteFetched, walkVars
<1>2. origin = "none" /\ rung \in DOMAIN Asked /\ NoneOf(6)
  BY <1>1 DEF SnsInv, Asked
<1>3. fetching = "fetched" => at \in Urls
  <2>1. fetching = "fetched" => requested # <<>> /\ requested \in Seq([url : Urls, address : Addresses])
    BY DEF FetchInv, FetchTypeOK
  <2>2. \A R : \A t \in Seq(R) : t # <<>> => t[1] \in R
    OBVIOUS
  <2>3. fetching = "fetched" => requested[1] \in [url : Urls, address : Addresses]
    BY <2>1, <2>2
  <2> QED BY <2>3
<1>4. one[1] = "catalog-url" /\ one[2] = at /\ (fetching = "fetched" => one \in {"ssm-url", "catalog-url"} \X Urls)
  BY <1>3
<1>5. \A i \in 1 .. 4 : Source(i)' = {}
  <2>1. /\ Source(1)' = Source(1) /\ Source(2)' = Source(2) /\ Source(3)' = Source(3) /\ Source(4)' = Source(4)
    BY <1>1, SourcesKept
  <2> QED BY <1>2, <2>1 DEF NoneOf
<1> HIDE DEF one, at
<1>6. Source(5)' = {} /\ (Source(6)' # {} <=> good)
  <2>1. LadderFacts'
    BY LadderIs, PTL
  <2>2. /\ Source(5)' = {g \in got' : g[1] = "ssm-url" /\ FormatOf(Served[g[2]])' \in Usables}
        /\ Source(6)' = {g \in got' : g[1] = "catalog-url" /\ Served[g[2]] \in Usables}
    BY <2>1 DEF LadderFacts
  <2>3. /\ Source(5) = {g \in got : g[1] = "ssm-url" /\ FormatOf(Served[g[2]]) \in Usables}
        /\ Source(6) = {g \in got : g[1] = "catalog-url" /\ Served[g[2]] \in Usables}
    BY LadderIs DEF LadderFacts
  <2>4. Source(5) = {} /\ Source(6) = {}
    BY <1>2 DEF NoneOf
  <2>5. \A x : FormatOf(x)' = FormatOf(x)
    BY <1>1 DEF FormatOf
  <2>6. Source(5)' = {}
    BY <1>1, <1>4, <2>2, <2>3, <2>4, <2>5
  <2>7. Source(6)' # {} <=> good
    BY <1>1, <1>4, <2>2, <2>3, <2>4
  <2> QED BY <2>6, <2>7
<1>7. /\ got' \in SUBSET ({"ssm-url", "catalog-url"} \X Urls)
      /\ pointer' => topic.url # NoUrl /\ \A g \in got' : g[1] = "catalog-url"
  BY <1>1, <1>4 DEF SnsInv, SnsTypeOK
<1>8. CASE good
  <2>1. /\ rung' = "subscriptions" /\ origin' = "catalog-url" /\ chosen' = at /\ at \in Urls
        /\ format' = Served[at] /\ format' \in Usables
    BY <1>1, <1>3, <1>8 DEF Take
  <2>2. \A i \in 1 .. 5 : Source(i)' = {}
    BY <1>5, <1>6
  <2>3. NoneOf(5)' /\ Source(6)' # {} /\ origin' = Titles[6]
    BY <1>6, <1>8, <2>1, <2>2 DEF NoneOf, Titles
  <2>4. Strongest'
    BY <2>3, TakenIs
  <2>5. SnsTypeOK'
    BY <1>1, <1>7, <2>1 DEF SnsInv, SnsTypeOK, Usables
  <2> QED BY <1>1, <1>2, <1>7, <2>1, <2>4, <2>5, AskedInv DEF Asked
<1>9. CASE ~good
  <2>1. rung' = "remote" /\ UNCHANGED <<origin, chosen, format>>
    BY <1>1, <1>9
  <2>2. \A i \in 1 .. 6 : Source(i)' = {}
    BY <1>5, <1>6, <1>9
  <2>3. NoneOf(Asked[rung])'
    BY <2>1, <2>2 DEF NoneOf, Asked
  <2>4. SnsTypeOK'
    BY <1>1, <1>7, <2>1 DEF SnsInv, SnsTypeOK
  <2> QED BY <1>1, <1>2, <1>7, <2>1, <2>3, <2>4, AskedInv DEF Asked
<1> QED BY <1>8, <1>9

LEMMA EventBridgeSchemaInv ==
  ASSUME SnsInv, WalkInv, EventBridgeSchema
  PROVE  SnsInv'
<1> DEFINE good == topic.bridge = "listed" /\ SnsShaped # {}
<1>1. /\ rung = "bridge" /\ repo' = repo /\ transformed' \in BOOLEAN
      /\ IF good THEN Take("eventbridge-derived", "json-schema", NoUrl) ELSE GoOn("code")
      /\ UNCHANGED <<scanned, scanCut, outputCut>>
      /\ UNCHANGED <<topic, remotes, got, pointer, unseen, inspected, subErrors, result>>
  BY DEF EventBridgeSchema, walkVars, SnsInv, SnsTypeOK
<1>2. origin = "none" /\ rung \in DOMAIN Asked /\ NoneOf(6)
  BY <1>1 DEF SnsInv, Asked
<1>3. (\A i \in 1 .. 6 : Source(i)' = {}) /\ Source(7)' = Source(7)
  <2>1. /\ Source(1)' = Source(1) /\ Source(2)' = Source(2) /\ Source(3)' = Source(3)
        /\ Source(4)' = Source(4) /\ Source(5)' = Source(5) /\ Source(6)' = Source(6) /\ Source(7)' = Source(7)
    BY <1>1, SourcesKept
  <2> QED BY <1>2, <2>1 DEF NoneOf
<1>4. Source(7) # {} <=> good
  BY LadderIs DEF LadderFacts
<1>5. pointer' => topic.url # NoUrl /\ \A g \in got' : g[1] = "catalog-url"
  BY <1>1 DEF SnsInv
<1>6. CASE good
  <2>1. /\ rung' = "subscriptions" /\ origin' = "eventbridge-derived" /\ chosen' = NoUrl
        /\ format' = "json-schema"
    BY <1>1, <1>6 DEF Take
  <2>2. NoneOf(6)' /\ Source(7)' # {} /\ origin' = Titles[7]
    BY <1>3, <1>4, <1>6, <2>1 DEF NoneOf, Titles
  <2>3. Strongest'
    BY <2>2, TakenIs
  <2>4. SnsTypeOK'
    BY <1>1, <2>1 DEF SnsInv, SnsTypeOK, Usables
  <2> QED BY <1>1, <1>2, <1>5, <2>1, <2>3, <2>4, AskedInv DEF Asked
<1>7. CASE ~good
  <2>1. rung' = "code" /\ UNCHANGED <<origin, chosen, format>>
    BY <1>1, <1>7 DEF GoOn
  <2>2. \A i \in 1 .. 7 : Source(i)' = {}
    BY <1>3, <1>4, <1>7
  <2>3. NoneOf(Asked[rung])'
    BY <2>1, <2>2 DEF NoneOf, Asked
  <2>4. SnsTypeOK'
    BY <1>1, <2>1 DEF SnsInv, SnsTypeOK
  <2> QED BY <1>1, <1>2, <1>5, <2>1, <2>3, <2>4, AskedInv DEF Asked
<1> QED BY <1>6, <1>7

LEMMA CodeDerivedInv ==
  ASSUME SnsInv, WalkInv, CodeDerived
  PROVE  SnsInv'
<1> DEFINE one == Cardinality(Derivations) = 1
<1>1. /\ rung = "code" /\ repo' = repo
      /\ IF one THEN \E d \in Derivations : Take("code-derived", d.format, NoUrl) ELSE GoOn("subscriptions")
      /\ UNCHANGED <<scanned, scanCut, outputCut, transformed>>
      /\ UNCHANGED <<topic, remotes, got, pointer, unseen, inspected, subErrors, result>>
  BY DEF CodeDerived, Aside, walkVars
<1>2. origin = "none" /\ rung \in DOMAIN Asked /\ NoneOf(7)
  BY <1>1 DEF SnsInv, Asked
<1>3. (\A i \in 1 .. 7 : Source(i)' = {}) /\ Source(8)' = Source(8)
  <2>1. /\ Source(1)' = Source(1) /\ Source(2)' = Source(2) /\ Source(3)' = Source(3)
        /\ Source(4)' = Source(4) /\ Source(5)' = Source(5) /\ Source(6)' = Source(6)
        /\ Source(7)' = Source(7) /\ Source(8)' = Source(8)
    BY <1>1, SourcesKept
  <2> QED BY <1>2, <2>1 DEF NoneOf
<1>4. Source(8) = (IF one THEN Derivations ELSE {})
  BY LadderIs DEF LadderFacts
<1>5. pointer' => topic.url # NoUrl /\ \A g \in got' : g[1] = "catalog-url"
  BY <1>1 DEF SnsInv
<1>6. \A d \in Derivations : d.format \in Usables
  BY DEF Derivations, Usables
<1> HIDE DEF one
<1>7. CASE one
  <2>1. PICK d \in Derivations : Take("code-derived", d.format, NoUrl)
    BY <1>1, <1>7
  <2>2. /\ rung' = "subscriptions" /\ origin' = "code-derived" /\ chosen' = NoUrl
        /\ format' \in Usables
    BY <1>6, <2>1 DEF Take
  <2>3. NoneOf(7)' /\ Source(8)' # {} /\ origin' = Titles[8]
    BY <1>3, <1>4, <1>7, <2>1, <2>2 DEF NoneOf, Titles
  <2>4. Strongest'
    BY <2>3, TakenIs
  <2>5. SnsTypeOK'
    BY <1>1, <2>2 DEF SnsInv, SnsTypeOK, Usables
  <2> QED BY <1>1, <1>2, <1>5, <2>2, <2>4, <2>5, AskedInv DEF Asked
<1>8. CASE ~one
  <2>1. rung' = "subscriptions" /\ UNCHANGED <<origin, chosen, format>>
    BY <1>1, <1>8 DEF GoOn
  <2>2. \A i \in 1 .. 8 : Source(i)' = {}
    BY <1>3, <1>4, <1>8
  <2>3. Strongest'
    BY <1>2, <2>1, <2>2 DEF Strongest, NoneOf
  <2>4. SnsTypeOK'
    BY <1>1, <2>1 DEF SnsInv, SnsTypeOK
  <2> QED BY <1>1, <1>2, <1>5, <2>1, <2>3, <2>4, AskedInv DEF Asked
<1> QED BY <1>7, <1>8

-----------------------------------------------------------------------------
(* The subscriptions, whatever the sources had. *)

\* Once a contract is chosen, or none is, nothing that it depends on changes.
LEMMA StrongestStays ==
  ASSUME Strongest, UNCHANGED <<repo, topic, scanned, scanCut, outputCut, got, origin, chosen>>
  PROVE  Strongest'
<1>1. \A i \in 1 .. 8 : Source(i)' = Source(i)
  <2>1. /\ Source(1)' = Source(1) /\ Source(2)' = Source(2) /\ Source(3)' = Source(3)
        /\ Source(4)' = Source(4) /\ Source(5)' = Source(5) /\ Source(6)' = Source(6)
        /\ Source(7)' = Source(7) /\ Source(8)' = Source(8)
    BY SourcesKept
  <2> QED BY <2>1
<1>2. \A n \in 0 .. 8 : NoneOf(n)' <=> NoneOf(n)
  BY <1>1 DEF NoneOf
<1>3. \A i \in 1 .. 8 : Picked(i)' <=> Picked(i)
  BY <1>1 DEF Picked
<1>4. CASE NoneOf(8)
  BY <1>2, <1>4 DEF Strongest
<1>5. CASE ~NoneOf(8)
  <2>1. PICK i \in 1 .. 8 : origin = Titles[i] /\ Source(i) # {} /\ NoneOf(i - 1) /\ (i <= 3 => Picked(i))
    BY <1>5 DEF Strongest
  <2>2. i - 1 \in 0 .. 8
    OBVIOUS
  <2>3. origin' = Titles[i] /\ Source(i)' # {} /\ NoneOf(i - 1)' /\ (i <= 3 => Picked(i)')
    BY <1>1, <1>2, <1>3, <2>1, <2>2
  <2> QED BY <2>3, TakenIs
<1> QED BY <1>4, <1>5

\* What the steps on subscriptions and the end of a topic have in common.
LEMMA AfterwardsInv ==
  ASSUME SnsInv, rung \in {"subscriptions", "inspect"}, rung' \in {"inspect", "done"},
         UNCHANGED <<repo, topic, scanned, scanCut, outputCut, got, pointer, origin, chosen, format, transformed>>,
         subErrors' \in Nat, unseen' \in Seq(Subscription), inspected' \in Seq(Record), Counted',
         rung' = "done" =>
           /\ unseen' = <<>> /\ result'.origin = (IF origin = "none" THEN "manual-review" ELSE origin)
           /\ origin # "none" => result'.chosen = chosen
           /\ result'.pointer = pointer /\ result'.total = Len(inspected') /\ result'.failed = subErrors'
  PROVE  SnsInv'
<1>1. Strongest'
  BY StrongestStays DEF SnsInv
<1>2. Listed("scan")' = Listed("scan")
  BY SameRepo
<1>3. SnsTypeOK'
  BY DEF SnsInv, SnsTypeOK
<1>4. rung' \notin DOMAIN Asked /\ rung' \notin {"scan", "asyncapi", "schema", "generated", "ssm", "ssmUrl"}
  BY DEF Asked
<1>5. scanned' \subseteq Listed("scan")' /\ (~scanCut' => scanned' = Listed("scan")')
  BY <1>2 DEF SnsInv
<1>6. pointer' => topic'.url # NoUrl /\ \A g \in got' : g[1] = "catalog-url"
  BY DEF SnsInv
<1> QED BY <1>1, <1>3, <1>4, <1>5, <1>6 DEF SnsInv

LEMMA ListSubscriptionsInv ==
  ASSUME SnsInv, NEW answers \in BOOLEAN, ListSubscriptions(answers)
  PROVE  SnsInv'
<1>1. /\ rung = "subscriptions" /\ rung' = "inspect" /\ repo' = repo /\ inspected' = inspected
      /\ unseen' = (IF answers THEN topic.subscriptions ELSE <<>>)
      /\ subErrors' = (IF answers THEN 0 ELSE 1)
      /\ UNCHANGED <<topic, scanned, scanCut, outputCut, got, pointer, origin, chosen, format, transformed>>
  BY DEF ListSubscriptions, walkVars
<1>2. inspected = <<>> /\ topic \in Topics
  BY <1>1 DEF SnsInv, SnsTypeOK
<1>3. topic.subscriptions \in Seq(Subscription)
  BY <1>2, TopicTypes
<1>4. unseen' \in Seq(Subscription) /\ inspected' \in Seq(Record) /\ subErrors' \in Nat
  BY <1>1, <1>2, <1>3
<1>5. Counted'
  <2>1. CASE answers
    <3>1. {i \in 1 .. 0 : topic.subscriptions[i].confirmed} = {}
      OBVIOUS
    <3>2. CountedTo(0)'
      BY <1>1, <1>2, <1>3, <2>1, <3>1, FS_EmptySet DEF CountedTo
    <3> QED BY <1>1, <1>3, <3>2 DEF Counted
  <2>2. CASE ~answers
    BY <1>1, <1>2, <2>2 DEF Counted
  <2> QED BY <2>1, <2>2
<1> QED BY <1>1, <1>4, <1>5, AfterwardsInv

LEMMA InspectSubscriptionInv ==
  ASSUME SnsInv, NEW answers \in BOOLEAN, InspectSubscription(answers)
  PROVE  SnsInv'
<1>1. PICK s : s = Head(unseen)
  OBVIOUS
<1>2. /\ rung = "inspect" /\ rung' = "inspect" /\ repo' = repo /\ unseen # <<>> /\ unseen' = Tail(unseen)
      /\ inspected' = (IF s.confirmed THEN inspected \o RecordOf(s, answers) ELSE inspected)
      /\ subErrors' = (IF s.confirmed /\ ~answers THEN subErrors + 1 ELSE subErrors)
      /\ UNCHANGED <<topic, scanned, scanCut, outputCut, got, pointer, origin, chosen, format, transformed>>
  BY <1>1 DEF InspectSubscription, walkVars
<1>3. topic \in Topics /\ unseen \in Seq(Subscription) /\ inspected \in Seq(Record) /\ subErrors \in Nat /\ Counted
  BY <1>2 DEF SnsInv, SnsTypeOK
<1>4. s \in Subscription /\ unseen' \in Seq(Subscription) /\ Len(unseen') = Len(unseen) - 1 /\ s = unseen[1]
      /\ \A i \in 1 .. Len(unseen') : unseen'[i] = unseen[i + 1]
  <2>1. \A R : \A t \in Seq(R) : t # <<>> =>
          /\ Head(t) \in R /\ Tail(t) \in Seq(R) /\ Len(Tail(t)) = Len(t) - 1 /\ Head(t) = t[1]
          /\ \A i \in 1 .. Len(Tail(t)) : Tail(t)[i] = t[i + 1]
    OBVIOUS
  <2> QED BY <1>1, <1>2, <1>3, <2>1
<1>5. s.confirmed \in BOOLEAN /\ s.protocol \in {"http", "lambda", "sqs"} /\ s.raw \in BOOLEAN
      /\ s.attributes \in SUBSET Attributes
  BY <1>4 DEF Subscription
<1>6. inspected' \in Seq(Record) /\ Len(inspected') = Len(inspected) + (IF s.confirmed THEN 1 ELSE 0)
  <2>1. PICK r \in Record : RecordOf(s, answers) = <<r>>
    <3>1. PICK b \in BOOLEAN : b = (answers /\ s.raw /\ s.protocol # "lambda")
      OBVIOUS
    <3>2. PICK a \in SUBSET Attributes : a = IF answers THEN s.attributes ELSE {}
      BY <1>5
    <3>3. RecordOf(s, answers) = <<[protocol |-> s.protocol, raw |-> b, attributes |-> a]>>
      BY <3>1, <3>2 DEF RecordOf
    <3>4. [protocol |-> s.protocol, raw |-> b, attributes |-> a] \in Record
      BY <1>5 DEF Record
    <3> QED BY <3>3, <3>4
  <2>2. \A R : \A t \in Seq(R) : \A x \in R : t \o <<x>> \in Seq(R) /\ Len(t \o <<x>>) = Len(t) + 1
    OBVIOUS
  <2> QED BY <1>2, <1>3, <1>5, <2>1, <2>2
<1>7. subErrors' \in Nat
  BY <1>2, <1>3
<1>8. Counted'
  <2>1. PICK n \in 0 .. Len(topic.subscriptions) : CountedTo(n)
    BY <1>2, <1>3 DEF Counted
  <2>2. topic.subscriptions \in Seq(Subscription)
    BY <1>3, TopicTypes
  <2>3. Len(unseen) \in Nat /\ Len(unseen) > 0 /\ Len(topic.subscriptions) \in Nat /\ n \in Nat
    BY <1>2, <1>3, <2>2
  <2>4. n + 1 \in 0 .. Len(topic.subscriptions) /\ s = topic.subscriptions[n + 1]
    BY <1>4, <2>1, <2>3 DEF CountedTo
  <2>5. PICK C : C = {i \in 1 .. n : topic.subscriptions[i].confirmed}
    OBVIOUS
  <2>6. IsFiniteSet(C) /\ n + 1 \notin C
    <3>1. IsFiniteSet(1 .. n)
      BY <2>3, FS_Interval
    <3> QED BY <2>3, <2>5, <3>1, FS_Subset
  <2>7. {i \in 1 .. (n + 1) : topic.subscriptions[i].confirmed} = (IF s.confirmed THEN C \cup {n + 1} ELSE C)
    BY <2>3, <2>4, <2>5
  <2>8. Cardinality({i \in 1 .. (n + 1) : topic.subscriptions[i].confirmed})
          = Cardinality(C) + (IF s.confirmed THEN 1 ELSE 0)
    <3>1. Cardinality(C) \in Nat /\ Cardinality(C \cup {n + 1}) = Cardinality(C) + 1
      <4>1. PICK m : m = n + 1
        OBVIOUS
      <4>2. m \notin C
        BY <2>6, <4>1
      <4> QED BY <2>6, <4>1, <4>2, FS_AddElement, FS_CardinalityType
    <3>2. CASE s.confirmed
      BY <2>7, <3>1, <3>2
    <3>3. CASE ~s.confirmed
      <4>1. {i \in 1 .. (n + 1) : topic.subscriptions[i].confirmed} = C
        BY <2>7, <3>3
      <4>2. Cardinality({i \in 1 .. (n + 1) : topic.subscriptions[i].confirmed}) = Cardinality(C)
        BY <4>1, Zenon
      <4>3. Cardinality(C) + (IF s.confirmed THEN 1 ELSE 0) = Cardinality(C)
        BY <3>1, <3>3
      <4> QED BY <4>2, <4>3, Zenon
    <3> QED BY <3>2, <3>3
  <2>9. Len(unseen') = Len(topic.subscriptions) - (n + 1)
    BY <1>4, <2>1, <2>3 DEF CountedTo
  <2>10. \A i \in 1 .. Len(unseen') : unseen'[i] = topic.subscriptions[(n + 1) + i]
    <3>1. TAKE i \in 1 .. Len(unseen')
    <3>2. i + 1 \in 1 .. Len(unseen) /\ n + (i + 1) = (n + 1) + i
      BY <1>4, <2>3
    <3> QED BY <1>4, <2>1, <3>2 DEF CountedTo
  <2>11. CountedTo(n + 1)'
    BY <1>2, <1>6, <2>1, <2>5, <2>8, <2>9, <2>10 DEF CountedTo
  <2> QED BY <1>2, <2>4, <2>11 DEF Counted
<1> QED BY <1>2, <1>4, <1>6, <1>7, <1>8, AfterwardsInv

LEMMA FinishTopicInv ==
  ASSUME SnsInv, FinishTopic
  PROVE  SnsInv'
<1>1. /\ rung = "inspect" /\ unseen = <<>> /\ rung' = "done" /\ repo' = repo
      /\ UNCHANGED <<topic, scanned, scanCut, outputCut, got, pointer, origin, chosen, format, transformed,
                     unseen, inspected, subErrors>>
  BY DEF FinishTopic, walkVars
<1>2. /\ result'.origin = (IF origin = "none" THEN "manual-review" ELSE origin)
      /\ origin # "none" => result'.chosen = chosen
      /\ result'.pointer = pointer /\ result'.total = Len(inspected) /\ result'.failed = subErrors
  <2>1. CASE origin = "none"
    BY <2>1 DEF FinishTopic
  <2>2. CASE origin # "none"
    BY <2>2 DEF FinishTopic
  <2> QED BY <2>1, <2>2
<1>3. subErrors' \in Nat /\ unseen' \in Seq(Subscription) /\ inspected' \in Seq(Record)
  BY <1>1 DEF SnsInv, SnsTypeOK
<1>4. Counted'
  <2>1. Counted
    BY <1>1 DEF SnsInv
  <2> QED BY <1>1, <2>1 DEF Counted, CountedTo
<1> QED BY <1>1, <1>2, <1>3, <1>4, AfterwardsInv

\* Every topic is resolved from nothing.
LEMMA StartTopicInv ==
  ASSUME NEW t \in Topics, StartTopic(t)
  PROVE  SnsInv'
<1>1. /\ rung' = "scan" /\ topic' = t /\ walk' = "scan"
      /\ scanned' = {} /\ scanCut' = FALSE /\ outputCut' = FALSE /\ remotes' = <<>> /\ got' = {}
      /\ pointer' = FALSE /\ origin' = "none" /\ chosen' = NoUrl /\ format' = "none" /\ transformed' = FALSE
      /\ unseen' = <<>> /\ inspected' = <<>> /\ subErrors' = 0
  BY DEF StartTopic, BeginWalk
<1>2. SnsTypeOK' /\ unseen' \in Seq(Subscription) /\ inspected' \in Seq(Record)
  <2>1. <<>> \in Seq(Subscription) /\ <<>> \in Seq(Record)
    OBVIOUS
  <2>2. SnsTypeOK'
    BY <1>1 DEF SnsTypeOK
  <2> QED BY <1>1, <2>1, <2>2
<1>3. rung' \notin DOMAIN Asked
  BY <1>1 DEF Asked
<1> QED BY <1>1, <1>2, <1>3 DEF SnsInv

LEMMA SnsInitInv ==
  ASSUME SnsInit, topic \in Topics
  PROVE  SnsInv
<1>1. /\ rung = "idle" /\ scanned = {} /\ scanCut = FALSE /\ outputCut = FALSE
      /\ got = {} /\ pointer = FALSE /\ origin = "none" /\ chosen = NoUrl /\ format = "none"
      /\ transformed = FALSE /\ unseen = <<>> /\ inspected = <<>> /\ subErrors = 0
  BY DEF SnsInit
<1>2. SnsTypeOK /\ unseen \in Seq(Subscription) /\ inspected \in Seq(Record)
  <2>1. <<>> \in Seq(Subscription) /\ <<>> \in Seq(Record)
    OBVIOUS
  <2>2. SnsTypeOK
    BY <1>1 DEF SnsTypeOK
  <2> QED BY <1>1, <2>1, <2>2
<1>3. rung \notin DOMAIN Asked
  BY <1>1 DEF Asked
<1> QED BY <1>1, <1>2, <1>3 DEF SnsInv

\* A step of the walk or of a fetch leaves the topic as it is.
LEMMA SnsIdleInv ==
  ASSUME SnsInv, UNCHANGED <<repo, snsVars>>, walk' = walk \/ rung = "idle"
  PROVE  SnsInv'
<1>1. /\ UNCHANGED <<repo, topic, rung, scanned, scanCut, outputCut, remotes, got, pointer, origin, chosen, format,
                     transformed, unseen, inspected, subErrors, result>>
  BY DEF snsVars
<1>2. Listed("scan")' = Listed("scan")
  BY SameRepo
<1>3. SnsTypeOK' /\ unseen' \in Seq(Subscription) /\ inspected' \in Seq(Record)
  BY <1>1 DEF SnsInv, SnsTypeOK
<1>4. rung' \in DOMAIN Asked => NoneOf(Asked[rung])'
  <2>1. \A i \in 1 .. 8 : Source(i)' = Source(i)
    <3>1. /\ Source(1)' = Source(1) /\ Source(2)' = Source(2) /\ Source(3)' = Source(3)
          /\ Source(4)' = Source(4) /\ Source(5)' = Source(5) /\ Source(6)' = Source(6)
          /\ Source(7)' = Source(7) /\ Source(8)' = Source(8)
      BY <1>1, SourcesKept
    <3> QED BY <3>1
  <2>2. ASSUME rung \in DOMAIN Asked PROVE NoneOf(Asked[rung])'
    <3>1. PICK n \in 0 .. 8 : n = Asked[rung] /\ n = Asked[rung']
      BY <1>1, <2>2 DEF Asked
    <3>2. NoneOf(n)
      BY <2>2, <3>1 DEF SnsInv
    <3>3. \A i \in 1 .. n : Source(i)' = {}
      BY <2>1, <3>2 DEF NoneOf
    <3> QED BY <3>1, <3>3 DEF NoneOf
  <2> QED BY <1>1, <2>2
<1>5. rung' \in {"subscriptions", "inspect", "done"} => Strongest'
  BY <1>1, StrongestStays DEF SnsInv
<1>6. rung' \in {"inspect", "done"} => Counted'
  BY <1>1 DEF SnsInv, Counted, CountedTo
<1>7. /\ rung' \notin {"idle", "scan"} => scanned' \subseteq Listed("scan")' /\ (~scanCut' => scanned' = Listed("scan")')
      /\ (rung' = "scan" => walk' = "scan") /\ (rung' = "generated" => walk' = "generated")
  BY <1>1, <1>2 DEF SnsInv
<1> QED BY <1>1, <1>3, <1>4, <1>5, <1>6, <1>7 DEF SnsInv

LEMMA SnsInvImplies == SnsInv => StrongestOrigin
<1> SUFFICES ASSUME SnsInv, rung = "done" PROVE StrongestOrigin
  BY DEF StrongestOrigin
<1>1. /\ Strongest /\ Counted /\ unseen = <<>> /\ topic \in Topics
      /\ result.origin = (IF origin = "none" THEN "manual-review" ELSE origin)
      /\ origin # "none" => result.chosen = chosen
      /\ result.pointer = pointer /\ result.total = Len(inspected) /\ result.failed = subErrors
      /\ pointer => topic.url # NoUrl /\ \A g \in got : g[1] = "catalog-url"
  BY DEF SnsInv, SnsTypeOK
<1>2. DOMAIN Ladder = 1 .. 8 /\ (\A i \in 1 .. 8 : Ladder[i][1] = Titles[i]) /\ (\A i : Ladder[i][2] = Source(i))
  BY LadderIs DEF LadderFacts, Source
<1>3. result.total = Cardinality({i \in 1 .. Len(topic.subscriptions) : topic.subscriptions[i].confirmed})
        \/ (result.total = 0 /\ result.failed = 1)
  <2>1. CASE \E n \in 0 .. Len(topic.subscriptions) : CountedTo(n)
    <3>1. PICK n \in 0 .. Len(topic.subscriptions) : CountedTo(n)
      BY <2>1
    <3>2. Len(unseen) = 0 /\ Len(topic.subscriptions) \in Nat
      BY <1>1, TopicTypes
    <3>3. n = Len(topic.subscriptions)
      BY <3>1, <3>2 DEF CountedTo
    <3> QED BY <1>1, <3>1, <3>3 DEF CountedTo
  <2>2. CASE inspected = <<>> /\ subErrors = 1
    BY <1>1, <2>2
  <2> QED BY <1>1, <2>1, <2>2 DEF Counted
<1>4. CASE NoneOf(8)
  <2>1. result.origin = "manual-review" /\ \A i \in DOMAIN Ladder : Ladder[i][2] = {}
    BY <1>1, <1>2, <1>4 DEF Strongest, NoneOf
  <2> QED BY <1>1, <1>3, <2>1 DEF StrongestOrigin
<1>5. CASE ~NoneOf(8)
  <2>1. PICK i \in 1 .. 8 : origin = Titles[i] /\ Source(i) # {} /\ NoneOf(i - 1) /\ (i <= 3 => Picked(i))
    BY <1>1, <1>5 DEF Strongest
  <2>2. Titles[i] # "none"
    BY DEF Titles
  <2>3. result.origin = Ladder[i][1] /\ Ladder[i][2] # {} /\ \A j \in 1 .. (i - 1) : Ladder[j][2] = {}
    BY <1>1, <1>2, <2>1, <2>2 DEF NoneOf
  <2>4. i <= 3 => /\ result.chosen \in Ladder[i][2]
                  /\ Ladder[i][2] \cap repo.mentions # {} => result.chosen \in repo.mentions
    BY <1>1, <1>2, <2>1, <2>2 DEF Picked
  <2>5. ~\A j \in DOMAIN Ladder : Ladder[j][2] = {}
    BY <1>2, <2>3
  <2> QED BY <1>1, <1>2, <1>3, <2>3, <2>4, <2>5 DEF StrongestOrigin
<1> QED BY <1>4, <1>5

\* The locations that the topics hand to the fetcher.
TopicInv ==
  /\ toTry \in Seq(Topics)
  /\ rung # "idle" => topic \in Topics
  /\ remotes \in Seq(Remote)

-----------------------------------------------------------------------------
(* Credentials and the closure have steps of their own. *)

LEMMA CredOfRun == [RunNext]_runVars => [CredNext]_credVars
BY DEF runVars, RunNext, Preparing, Prepared, Looking, Looked, NextTopic, Resolving, TopicsEnd, Closing, Closed

LEMMA ClosureOfRun == [RunNext]_runVars => [ClosureNext]_closureVars
BY DEF runVars, RunNext, Preparing, Prepared, Looking, Looked, NextTopic, Resolving, TopicsEnd, Closing, Closed

(* A service that refused the credentials is not asked again in a run, whatever the numbers of      *)
(* attempts (prepareTelemetryCredentials).                                                          *)
THEOREM RefusalsStayFinal == RunSpec => []RefusalsAreFinal
<1>1. RunInit => CredInv
  BY CredInitInv DEF RunInit
<1>2. CredInv /\ [RunNext]_runVars => CredInv'
  BY CredOfRun, CredNextInv
<1>3. CredInv => RefusalsAreFinal
  BY DEF CredInv
<1> QED BY <1>1, <1>2, <1>3, PTL DEF RunSpec

(* A definition that a run calls full is closed under its references, within every bound on files,  *)
(* depth and size (resolveRepoDefinitionClosure).                                                   *)
THEOREM FullMeansClosed == RunSpec => []FullIsClosed
<1>1. RunInit => ClosureInv
  BY ClosureInitInv DEF RunInit
<1>2. ClosureInv /\ [RunNext]_runVars => ClosureInv'
  BY ClosureOfRun, ClosureNextInv
<1>3. ClosureInv => FullIsClosed
  BY DEF ClosureInv
<1> QED BY <1>1, <1>2, <1>3, PTL DEF RunSpec

-----------------------------------------------------------------------------
(* Fetches are started by the topics. *)

\* Of a list of locations there is a closest one: the first of the highest affinity there is.
LEMMA ClosestIsThere ==
  ASSUME NEW list \in Seq(Remote), list # <<>>
  PROVE  Closest(list, 1 .. Len(list)) \in 1 .. Len(list)
<1> DEFINE I == 1 .. Len(list)
           best(i) == \A j \in I :
                        list[j].affinity < list[i].affinity \/ (list[j].affinity = list[i].affinity /\ i <= j)
<1>1. \A i \in I : list[i].affinity \in {30, 60, 100}
  <2>1. \A i \in I : list[i] \in Remote
    OBVIOUS
  <2> QED BY <2>1 DEF Remote
<1>2. 1 \in I /\ I \subseteq Nat
  OBVIOUS
<1> HIDE DEF I
<1>3. ASSUME NEW n \in {30, 60, 100}, NEW k \in I, list[k].affinity = n,
             \A j \in I : list[j].affinity <= n
      PROVE  \E i \in I : best(i)
  <2> DEFINE Rated == {i \in I : list[i].affinity = n}
  <2>1. Rated \subseteq Nat /\ Rated # {}
    BY <1>2, <1>3
  <2>2. PICK i \in Rated : \A j \in Rated : i <= j
    <3> HIDE DEF Rated
    <3> QED BY <2>1, LeastNatural
  <2>3. \A j \in I : list[j].affinity < n \/ (list[j].affinity = n /\ i <= j)
    BY <1>1, <1>3, <2>2
  <2> QED BY <2>2, <2>3
<1>4. \E i \in I : best(i)
  <2>1. CASE \E k \in I : list[k].affinity = 100
    <3>1. \A k \in I : list[k].affinity <= 100
      BY <1>1
    <3> QED BY <1>3, <2>1, <3>1
  <2>2. CASE (\A k \in I : list[k].affinity # 100) /\ \E k \in I : list[k].affinity = 60
    <3>1. \A k \in I : list[k].affinity <= 60
      BY <1>1, <2>2
    <3> QED BY <1>3, <2>2, <3>1
  <2>3. CASE \A k \in I : list[k].affinity # 100 /\ list[k].affinity # 60
    <3>1. \A k \in I : list[k].affinity = 30
      BY <1>1, <2>3
    <3>2. list[1].affinity = 30 /\ \A j \in I : list[j].affinity <= 30
      BY <1>2, <3>1
    <3> QED BY <1>2, <1>3, <3>2
  <2> QED BY <2>1, <2>2, <2>3
<1> QED BY <1>4 DEF Closest, I

LEMMA RunInitInv == RunInit => TopicInv /\ FetchInv
<1> SUFFICES ASSUME RunInit PROVE TopicInv /\ FetchInv
  OBVIOUS
<1>1. FetchInv
  BY FetchInitInv DEF RunInit
<1>2. toTry \in Seq(Topics)
  BY ScenariosAssumption DEF RunInit
<1>3. remotes \in Seq(Remote) /\ rung = "idle"
  <2>1. remotes = <<>> /\ rung = "idle"
    BY DEF RunInit, SnsInit
  <2> QED BY <2>1
<1> QED BY <1>1, <1>2, <1>3 DEF TopicInv

\* A topic is started with nothing to fetch.
LEMMA NextTopicInv ==
  ASSUME TopicInv, FetchInv, NextTopic
  PROVE  TopicInv' /\ FetchInv'
<1>1. /\ toTry # <<>> /\ toTry' = Tail(toTry) /\ topic' = Head(toTry)
      /\ remotes' = <<>> /\ UNCHANGED fetchVars
  BY DEF NextTopic, StartTopic
<1>2. toTry' \in Seq(Topics) /\ topic' \in Topics
  BY <1>1, HeadOrTail DEF TopicInv
<1>3. remotes' \in Seq(Remote)
  BY <1>1
<1>4. FetchInv'
  BY <1>1, FetchIdleInv DEF fetchVars
<1> QED BY <1>2, <1>3, <1>4 DEF TopicInv

\* What the fetcher is handed is a location, and a fetch is left alone or taken when it is over.
LEMMA SnsStepInv ==
  ASSUME TopicInv, FetchInv, SnsStep(Answers), UNCHANGED run
  PROVE  TopicInv' /\ FetchInv'
<1>0. toTry' = toTry
  BY DEF run
<1>1. ASSUME UNCHANGED fetchVars, topic' = topic, remotes' = remotes, rung # "idle" \/ rung' = rung
      PROVE  TopicInv' /\ FetchInv'
  BY <1>0, <1>1, FetchIdleInv DEF TopicInv, fetchVars
<1>2. CASE TakeScan \/ RepoAsyncApi \/ RepoJsonSchema \/ GeneratedAsyncApi \/ EventBridgeSchema \/ CodeDerived
  BY <1>1, <1>2 DEF TakeScan, RepoAsyncApi, RepoJsonSchema, GeneratedAsyncApi, EventBridgeSchema, CodeDerived,
                    Aside
<1>3. CASE FinishTopic \/ \E a \in BOOLEAN : ListSubscriptions(a) \/ InspectSubscription(a)
  BY <1>1, <1>3 DEF FinishTopic, ListSubscriptions, InspectSubscription
<1>4. ASSUME NEW a \in BOOLEAN, SsmParameters(a)
      PROVE  TopicInv' /\ FetchInv'
  <2>1. topic \in Topics /\ topic' = topic /\ remotes' = topic.remotes
    BY <1>4 DEF TopicInv, SsmParameters
  <2>2. UNCHANGED fetchVars \/ (topic.url # NoUrl /\ StartFetch(topic.url))
    BY <1>4 DEF SsmParameters
  <2>3. FetchInv'
    BY <2>1, <2>2, TopicTypes, StartFetchInv, FetchIdleInv DEF fetchVars
  <2> QED BY <1>0, <2>1, <2>3, TopicTypes DEF TopicInv
<1>5. CASE SsmFetched
  <2>1. rung # "idle" /\ FetchTaken /\ topic' = topic /\ remotes' = remotes
    BY <1>5 DEF SsmFetched
  <2> QED BY <1>0, <2>1, FetchIdleInv DEF TopicInv, FetchTaken
<1>6. CASE RemoteFetched
  <2>1. rung # "idle" /\ FetchTaken /\ topic' = topic /\ remotes' = remotes
    BY <1>6 DEF RemoteFetched
  <2> QED BY <1>0, <2>1, FetchIdleInv DEF TopicInv, FetchTaken
<1>7. CASE TryRemote
  <2>1. rung # "idle" /\ topic' = topic
    BY <1>7 DEF TryRemote
  <2>2. CASE remotes = <<>>
    <3>1. UNCHANGED fetchVars /\ remotes' = remotes
      BY <1>7, <2>2 DEF TryRemote
    <3> QED BY <1>1, <2>1, <3>1
  <2>3. CASE remotes # <<>>
    <3> DEFINE i == Closest(remotes, 1 .. Len(remotes))
    <3>1. /\ StartFetch(remotes[i].url)
          /\ remotes' = SubSeq(remotes, 1, i - 1) \o SubSeq(remotes, i + 1, Len(remotes))
      BY <1>7, <2>3 DEF TryRemote
    <3>2. remotes \in Seq(Remote) /\ i \in 1 .. Len(remotes)
      BY <2>3, ClosestIsThere DEF TopicInv
    <3> HIDE DEF i
    <3>3. remotes[i] \in Remote
      BY <3>2
    <3>4. FetchInv'
      BY <3>1, <3>3, StartFetchInv DEF Remote
    <3>5. remotes' \in Seq(Remote)
      BY <3>1, <3>2
    <3> QED BY <1>0, <2>1, <3>4, <3>5 DEF TopicInv
  <2> QED BY <2>2, <2>3
<1>8. CASE WalkStep /\ UNCHANGED <<snsVars, fetchVars>>
  BY <1>1, <1>8 DEF snsVars
<1>9. CASE FetchStep(Answers) /\ UNCHANGED <<snsVars, walkVars>>
  <2>1. FetchInv'
    BY <1>9, FetchStepInv, AnswersAssumption
  <2> QED BY <1>0, <1>9, <2>1 DEF TopicInv, snsVars
<1> QED BY <1>2, <1>3, <1>4, <1>5, <1>6, <1>7, <1>8, <1>9 DEF SnsStep

LEMMA RunNextInv == TopicInv /\ FetchInv /\ [RunNext]_runVars => TopicInv' /\ FetchInv'
<1> SUFFICES ASSUME TopicInv, FetchInv, [RunNext]_runVars PROVE TopicInv' /\ FetchInv'
  OBVIOUS
<1>1. ASSUME UNCHANGED <<toTry, snsVars, fetchVars>>
      PROVE  TopicInv' /\ FetchInv'
  BY <1>1, FetchIdleInv DEF TopicInv, snsVars, fetchVars
<1>2. CASE NextTopic
  BY <1>2, NextTopicInv
<1>3. CASE Resolving
  BY <1>3, SnsStepInv DEF Resolving
<1>4. CASE Preparing \/ Prepared \/ Looking \/ Looked \/ TopicsEnd \/ Closing \/ Closed \/ UNCHANGED runVars
  BY <1>1, <1>4 DEF Preparing, Prepared, Looking, Looked, TopicsEnd, Closing, Closed, runVars, run
<1> QED BY <1>2, <1>3, <1>4 DEF RunNext

(* Every fetch of a run stays within the policy, the redirects and the shared budget, for all       *)
(* locations, addresses and limits, and whatever the topics name (fetchSpecFromUrl).                *)
THEOREM FetchesAreBounded == RunSpec => []FetchesStayInBounds
<1>1. RunInit => TopicInv /\ FetchInv
  BY RunInitInv
<1>2. TopicInv /\ FetchInv /\ [RunNext]_runVars => TopicInv' /\ FetchInv'
  BY RunNextInv
<1>3. FetchInv => FetchesStayInBounds
  BY DEF FetchInv
<1> QED BY <1>1, <1>2, <1>3, PTL DEF RunSpec

-----------------------------------------------------------------------------
(* The inventory and the topics share the walk: each has it for itself.    *)

\* What the parts of a run that look at the repository keep, and which of them is at work.
PartsInv ==
  /\ phase \in {"credentials", "inventory", "topics", "closure", "done"}
  /\ WalkInv /\ SmithyInv /\ InventoryInv /\ SnsInv
  /\ phase = "credentials" => invStep = "idle"
  /\ phase \in {"credentials", "inventory"} => rung = "idle"
  /\ phase \notin {"credentials", "inventory"} => invStep = "done"

LEMMA PartsInitInv == RunInit => PartsInv
<1> SUFFICES ASSUME RunInit PROVE PartsInv
  OBVIOUS
<1>1. repo \in Repos
  BY ScenariosAssumption DEF RunInit
<1>2. WalkInv /\ SmithyInv /\ InventoryInv
  BY <1>1, InventoryInitInv DEF RunInit
<1>3. topic \in Topics
  BY TopicsAssumption DEF RunInit
<1>4. SnsInv
  BY <1>3, SnsInitInv DEF RunInit
<1>5. phase = "credentials" /\ invStep = "idle" /\ rung = "idle"
  BY DEF RunInit, InventoryInit, SnsInit
<1> QED BY <1>2, <1>4, <1>5 DEF PartsInv

\* A step on topics walks, fetches or moves on, and finds its walk as it left it.
LEMMA ResolvingInv ==
  ASSUME WalkInv, SnsInv, FetchInv, SnsStep(Answers)
  PROVE  WalkInv' /\ SnsInv' /\ repo' = repo
<1>1. CASE TakeScan
  <2>1. EndWalk /\ repo' = repo
    BY <1>1 DEF TakeScan, EndWalk
  <2> QED BY <1>1, <2>1, WalkIdleInv, TakeScanInv
<1>2. CASE RepoAsyncApi
  <2>1. UNCHANGED walkVars /\ repo' = repo
    BY <1>2 DEF RepoAsyncApi, walkVars
  <2> QED BY <1>2, <2>1, WalkIdleInv, RepoAsyncApiInv
<1>3. CASE RepoJsonSchema
  <2>1. UNCHANGED walkVars \/ BeginWalk("generated")
    BY <1>3 DEF RepoJsonSchema
  <2>2. repo' = repo
    BY <2>1 DEF BeginWalk, walkVars
  <2>3. repo \in Repos /\ "generated" \in Walks
    BY DEF WalkInv, WalkTypeOK, Walks
  <2>4. WalkInv'
    BY <2>1, <2>3, WalkIdleInv, BeginWalkInv
  <2> QED BY <1>3, <2>2, <2>4, RepoJsonSchemaInv
<1>4. CASE GeneratedAsyncApi
  <2>1. EndWalk /\ repo' = repo
    BY <1>4 DEF GeneratedAsyncApi, EndWalk
  <2> QED BY <1>4, <2>1, WalkIdleInv, GeneratedAsyncApiInv
<1>5. ASSUME NEW a \in BOOLEAN, SsmParameters(a) PROVE WalkInv' /\ SnsInv' /\ repo' = repo
  <2>1. UNCHANGED walkVars /\ repo' = repo
    BY <1>5 DEF SsmParameters, walkVars
  <2> QED BY <1>5, <2>1, WalkIdleInv, SsmParametersInv
<1>6. CASE SsmFetched \/ TryRemote \/ RemoteFetched
  <2>1. UNCHANGED walkVars /\ repo' = repo
    BY <1>6 DEF SsmFetched, TryRemote, RemoteFetched, walkVars
  <2> QED BY <1>6, <2>1, WalkIdleInv, SsmFetchedInv, TryRemoteInv, RemoteFetchedInv
<1>7. CASE EventBridgeSchema \/ CodeDerived
  <2>1. UNCHANGED walkVars /\ repo' = repo
    BY <1>7 DEF EventBridgeSchema, CodeDerived, walkVars
  <2> QED BY <1>7, <2>1, WalkIdleInv, EventBridgeSchemaInv, CodeDerivedInv
<1>8. ASSUME NEW a \in BOOLEAN, ListSubscriptions(a) \/ InspectSubscription(a)
      PROVE  WalkInv' /\ SnsInv' /\ repo' = repo
  <2>1. UNCHANGED walkVars /\ repo' = repo
    BY <1>8 DEF ListSubscriptions, InspectSubscription, walkVars
  <2> QED BY <1>8, <2>1, WalkIdleInv, ListSubscriptionsInv, InspectSubscriptionInv
<1>9. CASE FinishTopic
  <2>1. UNCHANGED walkVars /\ repo' = repo
    BY <1>9 DEF FinishTopic, walkVars
  <2> QED BY <1>9, <2>1, WalkIdleInv, FinishTopicInv
<1>10. CASE WalkStep /\ UNCHANGED <<snsVars, fetchVars>>
  <2>1. repo' = repo /\ walk' = walk
    BY <1>10 DEF WalkStep, EnterRoot, Visit, LeaveDir, TimeIsUp
  <2> QED BY <1>10, <2>1, WalkStepInv, SnsIdleInv
<1>11. CASE FetchStep(Answers) /\ UNCHANGED <<snsVars, walkVars>>
  <2>1. UNCHANGED walkVars /\ repo' = repo /\ walk' = walk
    BY <1>11 DEF walkVars
  <2> QED BY <1>11, <2>1, WalkIdleInv, SnsIdleInv
<1> QED BY <1>1, <1>2, <1>3, <1>4, <1>5, <1>6, <1>7, <1>8, <1>9, <1>10, <1>11 DEF SnsStep

LEMMA PartsNextInv == PartsInv /\ TopicInv /\ FetchInv /\ [RunNext]_runVars => PartsInv'
<1> SUFFICES ASSUME PartsInv, TopicInv, FetchInv, [RunNext]_runVars PROVE PartsInv'
  OBVIOUS
<1>1. ASSUME UNCHANGED <<walkVars, smithyVars, invVars, snsVars>>,
             UNCHANGED phase \/ (phase = "inventory" /\ invStep = "done" /\ phase' = "topics")
               \/ (phase = "topics" /\ phase' = "closure") \/ (phase = "closure" /\ phase' = "done")
      PROVE  PartsInv'
  <2>1. UNCHANGED <<repo, invVars>> /\ UNCHANGED <<repo, snsVars>> /\ UNCHANGED <<project, smithyStep>>
        /\ UNCHANGED <<walk, invStep, rung>>
    BY <1>1 DEF walkVars, smithyVars, invVars, snsVars
  <2>2. WalkInv' /\ SmithyInv' /\ InventoryInv' /\ SnsInv'
    BY <1>1, <2>1, WalkIdleInv, SmithyIdleInv, InventoryIdleInv, SnsIdleInv DEF PartsInv
  <2> QED BY <1>1, <2>1, <2>2 DEF PartsInv
<1>2. CASE Preparing \/ Looked \/ TopicsEnd \/ Closing \/ Closed \/ UNCHANGED runVars
  BY <1>1, <1>2 DEF Preparing, Looked, TopicsEnd, Closing, Closed, runVars, run
<1>3. CASE Prepared
  <2>1. /\ phase = "credentials" /\ phase' = "inventory" /\ StartInventory /\ UNCHANGED smithyVars /\ UNCHANGED snsVars
    BY <1>3 DEF Prepared
  <2>2. BeginWalk("specs") /\ repo' = repo /\ repo \in Repos /\ "specs" \in Walks
    BY <2>1 DEF StartInventory, BeginWalk, PartsInv, WalkInv, WalkTypeOK, Walks
  <2>3. rung = "idle" /\ rung' = "idle"
    BY <2>1 DEF PartsInv, snsVars
  <2>4. WalkInv' /\ SmithyInv' /\ InventoryInv' /\ SnsInv'
    BY <2>1, <2>2, <2>3, BeginWalkInv, SmithyIdleInv, StartInventoryInv, SnsIdleInv DEF PartsInv
  <2> QED BY <2>1, <2>3, <2>4 DEF PartsInv
<1>4. CASE Looking
  <2>1. phase = "inventory" /\ phase' = phase /\ InventoryStep /\ UNCHANGED snsVars
    BY <1>4 DEF Looking, run
  <2>2. repo' = repo
    BY <2>1 DEF InventoryStep, TakePaths, NextProject, TakeProject, ProjectsDone, NextFile, GroupGraphql,
                NextSource, TakeTerraform, NextIacFile, MergeStaticIac, StaticIacThrows, Finish,
                BeginWalk, EndWalk, WalkStep, EnterRoot, Visit, LeaveDir, TimeIsUp, walkVars
  <2>3. rung = "idle" /\ rung' = "idle"
    BY <2>1 DEF PartsInv, snsVars
  <2>4. WalkInv' /\ SmithyInv' /\ InventoryInv' /\ SnsInv'
    BY <2>1, <2>2, <2>3, InventoryStepInv, SnsIdleInv DEF PartsInv
  <2> QED BY <2>1, <2>3, <2>4 DEF PartsInv
<1>5. CASE NextTopic
  <2>1. /\ phase = "topics" /\ phase' = phase /\ toTry # <<>> /\ StartTopic(Head(toTry))
        /\ UNCHANGED smithyVars /\ UNCHANGED invVars
    BY <1>5 DEF NextTopic
  <2>2. BeginWalk("scan") /\ repo' = repo /\ repo \in Repos /\ "scan" \in Walks
    BY <2>1 DEF StartTopic, BeginWalk, PartsInv, WalkInv, WalkTypeOK, Walks
  <2>3. PICK t \in Topics : t = Head(toTry)
    BY <2>1, HeadOrTail DEF TopicInv
  <2>4. SnsInv'
    BY <2>1, <2>3, StartTopicInv
  <2>5. UNCHANGED <<repo, invVars>> /\ UNCHANGED <<project, smithyStep>> /\ invStep = "done" /\ invStep' = "done"
    BY <2>1, <2>2 DEF PartsInv, smithyVars, invVars
  <2>6. WalkInv' /\ SmithyInv' /\ InventoryInv'
    BY <2>1, <2>2, <2>5, BeginWalkInv, SmithyIdleInv, InventoryIdleInv DEF PartsInv
  <2> QED BY <2>1, <2>4, <2>5, <2>6 DEF PartsInv
<1>6. CASE Resolving
  <2>1. /\ phase = "topics" /\ phase' = phase /\ SnsStep(Answers) /\ UNCHANGED smithyVars /\ UNCHANGED invVars
    BY <1>6 DEF Resolving, run
  <2>2. WalkInv' /\ SnsInv' /\ repo' = repo
    BY <2>1, ResolvingInv DEF PartsInv
  <2>3. UNCHANGED <<repo, invVars>> /\ UNCHANGED <<project, smithyStep>> /\ invStep = "done" /\ invStep' = "done"
    BY <2>1, <2>2 DEF PartsInv, smithyVars, invVars
  <2>4. SmithyInv' /\ InventoryInv'
    BY <2>1, <2>3, SmithyIdleInv, InventoryIdleInv DEF PartsInv
  <2> QED BY <2>1, <2>2, <2>3, <2>4 DEF PartsInv
<1> QED BY <1>2, <1>3, <1>4, <1>5, <1>6 DEF RunNext

\* The invariant of a whole run.
RunInv == PartsInv /\ TopicInv /\ FetchInv /\ CredInv /\ ClosureInv

LEMMA RunInvAlways == RunSpec => []RunInv
<1>1. RunInit => RunInv
  BY PartsInitInv, RunInitInv, CredInitInv, ClosureInitInv DEF RunInit, RunInv
<1>2. RunInv /\ [RunNext]_runVars => RunInv'
  BY PartsNextInv, RunNextInv, CredOfRun, CredNextInv, ClosureOfRun, ClosureNextInv DEF RunInv
<1> QED BY <1>1, <1>2, PTL DEF RunSpec

(* Every variable of a run keeps its type, and redirects and attempts their bounds.                 *)
THEOREM ContractTypesHold == RunSpec => []ContractTypeOK
<1>1. RunInv => ContractTypeOK
  BY DEF RunInv, PartsInv, TopicInv, FetchInv, CredInv, ClosureInv, WalkInv, SmithyInv, InventoryInv, SnsInv,
         ContractTypeOK
<1> QED BY <1>1, RunInvAlways, PTL

(* Contracts are held or reported, for all repositories, roots, projects and bounds: without an     *)
(* error, all that the directories that can be opened list is held, for neither a walk nor a        *)
(* project that is cut off goes by unnoticed, and the time may run out at any step; of the          *)
(* documents of static code that can be read there are all or, when their resolution threw, none    *)
(* (inventoryRepoSpecs, walkSpecCandidates, readBoundedFile, resolveSmithyProject,                  *)
(* groupGraphqlByServiceRoot, resolveInventoryStaticIac).                                           *)
THEOREM ContractsAreHeldOrReported == RunSpec => []ContractsHeldOrReported
<1>1. InventoryInv => ContractsHeldOrReported
  BY DEF InventoryInv, ContractsHeldOrReported
<1>2. RunInv => ContractsHeldOrReported
  BY <1>1 DEF RunInv, PartsInv
<1> QED BY <1>2, RunInvAlways, PTL

(* Each topic gets the contract of its strongest source, for all repositories, topics, services and *)
(* limits, after any number of topics that threw or were left to a person (resolveContract,         *)
(* findGeneratedAsyncApiFiles, inspectSubscriptions).                                               *)
THEOREM TheStrongestWins == RunSpec => []StrongestOrigin
<1>1. RunInv => StrongestOrigin
  BY SnsInvImplies DEF RunInv, PartsInv
<1> QED BY <1>1, RunInvAlways, PTL
=============================================================================
