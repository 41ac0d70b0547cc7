---------------------------- MODULE RemoteFetch ----------------------------
(***************************************************************************)
(* fetchSpecFromUrl: a document is fetched from an allowed https location, *)
(* over redirects that are each checked again, from an address that was    *)
(* looked up and pinned, within a time limit, a size limit per response    *)
(* and a size limit that all fetches of a run share.                       *)
(***************************************************************************)
EXTENDS Integers, Sequences

CONSTANTS
  Urls, NoUrl, Https, Allowed,   \* locations; those of https; those the policy lists (none when disabled)
  LocalNames,               \* locations whose host name is local, whatever it resolves to
  Addresses, Global, V4,    \* addresses; those that are not private or reserved; those of IPv4
  MaxRedirects, MaxBytes, MaxTotalBytes,
  MaxBody                   \* bound: the bytes a server sends

ASSUME LocationsAssumption ==
  NoUrl \notin Urls /\ Https \subseteq Urls /\ Allowed \subseteq Urls /\ LocalNames \subseteq Urls
ASSUME AddressesAssumption == Global \subseteq Addresses /\ V4 \subseteq Addresses
ASSUME FetchBoundsAssumption ==
  MaxRedirects \in Nat /\ MaxBytes \in Nat /\ MaxTotalBytes \in Nat /\ MaxBody \in Nat

VARIABLES
  fetching,     \* "idle", "check", "lookup", "request", "body", "fetched", "failed"
  url,          \* currentUrl
  hop,          \* redirects followed
  lookedUp,     \* what the lookup answered, the literal address included
  expired,      \* the timer aborted the fetch
  limit,        \* the bytes this response may have
  received,     \* the bytes read of it
  spent,        \* budget.totalBytes, shared by the fetches of a run
  requested,    \* history: the requests of this fetch, as [url, address]
  kept          \* history: the bytes of the documents fetched so far

fetchVars == <<fetching, url, hop, lookedUp, expired, limit, received, spent, requested, kept>>

Smaller(a, b) == IF a <= b THEN a ELSE b

FetchInit ==
  /\ fetching = "idle" /\ url = NoUrl /\ hop = 0 /\ lookedUp = <<>> /\ expired = FALSE
  /\ limit = 0 /\ received = 0 /\ spent = 0 /\ requested = <<>> /\ kept = 0

\* The error is thrown to the caller and the timer cleared.
Fail == /\ fetching' = "failed"
        /\ UNCHANGED <<url, hop, lookedUp, expired, limit, received, spent, requested, kept>>

\* A location that is not https is refused before anything else.
StartFetch(u) ==
  /\ fetching' = (IF u \in Https THEN "check" ELSE "failed")
  /\ url' = u /\ hop' = 0 /\ lookedUp' = <<>> /\ expired' = FALSE
  /\ limit' = 0 /\ received' = 0 /\ requested' = <<>>
  /\ UNCHANGED <<spent, kept>>

\* assertUrlAllowedByPolicy, then the host name; every hop passes here.
CheckLocation ==
  /\ fetching = "check"
  /\ IF url \in Allowed /\ url \notin LocalNames
     THEN /\ fetching' = "lookup"
          /\ UNCHANGED <<url, hop, lookedUp, expired, limit, received, spent, requested, kept>>
     ELSE Fail

\* resolvePublicAddress: one address that is not global refuses all of them.
LookUp(answer) ==
  /\ fetching = "lookup"
  /\ IF answer # <<>> /\ \A i \in 1 .. Len(answer) : answer[i] \in Global
     THEN /\ lookedUp' = answer /\ fetching' = "request"
          /\ UNCHANGED <<url, hop, expired, limit, received, spent, requested, kept>>
     ELSE Fail

\* The first IPv4 address, else the first: the connection goes there whatever the name says by then.
Pinned(answer) ==
  IF \E i \in 1 .. Len(answer) : answer[i] \in V4
  THEN answer[CHOOSE i \in 1 .. Len(answer) :
                /\ answer[i] \in V4
                /\ \A j \in 1 .. Len(answer) : answer[j] \in V4 => i <= j]
  ELSE answer[1]

Requested == requested' = Append(requested, [url |-> url, address |-> Pinned(lookedUp)])

\* The signal is checked when the request is made and until the answer is there.
RequestAborted ==
  /\ fetching = "request" /\ expired /\ Fail

RequestRefused ==
  /\ fetching = "request" /\ ~expired
  /\ Requested /\ fetching' = "failed"
  /\ UNCHANGED <<url, hop, lookedUp, expired, limit, received, spent, kept>>

\* Mutant: the redirects are counted one too few.
RedirectedOften(next) ==
  /\ fetching = "request" /\ ~expired /\ Requested
  /\ IF hop <= MaxRedirects /\ next \in Https
     THEN fetching' = "check" /\ url' = next /\ hop' = hop + 1
     ELSE fetching' = "failed" /\ UNCHANGED <<url, hop>>
  /\ UNCHANGED <<lookedUp, expired, limit, received, spent, kept>>

\* Redirects are followed by hand; the target is checked like the first location.
Redirected(next) ==
  /\ fetching = "request" /\ ~expired /\ Requested
  /\ IF hop < MaxRedirects /\ next \in Https
     THEN fetching' = "check" /\ url' = next /\ hop' = hop + 1
     ELSE fetching' = "failed" /\ UNCHANGED <<url, hop>>
  /\ UNCHANGED <<lookedUp, expired, limit, received, spent, kept>>

\* Mutant: the limit of one response does not look at what is left of the budget.
AnsweredAlone(declared) ==
  /\ fetching = "request" /\ ~expired /\ Requested
  /\ limit' = MaxBytes /\ received' = 0
  /\ fetching' = (IF spent >= MaxTotalBytes \/ declared > MaxBytes THEN "failed" ELSE "body")
  /\ UNCHANGED <<url, hop, lookedUp, expired, spent, kept>>

\* A good response: what it declares is compared with the limit, 0 when it declares nothing.
Answered(declared) ==
  /\ fetching = "request" /\ ~expired /\ Requested
  /\ limit' = Smaller(MaxBytes, MaxTotalBytes - spent) /\ received' = 0
  /\ fetching' = (IF spent >= MaxTotalBytes \/ declared > limit' THEN "failed" ELSE "body")
  /\ UNCHANGED <<url, hop, lookedUp, expired, spent, kept>>

\* readBodyWithLimit: one more byte, declared or not.
ReadMore ==
  /\ fetching = "body" /\ ~expired /\ received < MaxBody
  /\ received' = received + 1
  /\ fetching' = (IF received' > limit THEN "failed" ELSE "body")
  /\ UNCHANGED <<url, hop, lookedUp, expired, limit, spent, requested, kept>>

BodyBroken == fetching = "body" /\ Fail

\* The body counts against the budget only once all of it is there.
BodyEnds ==
  /\ fetching = "body" /\ ~expired
  /\ spent' = spent + received /\ kept' = kept + received
  /\ fetching' = "fetched"
  /\ UNCHANGED <<url, hop, lookedUp, expired, limit, received, requested>>

\* The timer of fifteen seconds; a lookup does not hear it, the request after it does.
Expire ==
  /\ fetching \in {"check", "lookup", "request", "body"} /\ ~expired
  /\ expired' = TRUE
  /\ UNCHANGED <<fetching, url, hop, lookedUp, limit, received, spent, requested, kept>>

FetchStep(answers) ==
  \/ CheckLocation
  \/ \E a \in answers : LookUp(a)
  \/ RequestAborted \/ RequestRefused
  \/ \E u \in Urls : Redirected(u)
  \/ \E d \in 0 .. MaxBody : Answered(d)
  \/ ReadMore \/ BodyBroken \/ BodyEnds
  \/ Expire

-----------------------------------------------------------------------------
FetchTypeOK ==
  /\ fetching \in {"idle", "check", "lookup", "request", "body", "fetched", "failed"}
  /\ url \in Urls \cup {NoUrl} /\ hop \in 0 .. MaxRedirects
  /\ lookedUp \in Seq(Addresses) /\ expired \in BOOLEAN
  /\ limit \in Nat /\ received \in Nat /\ spent \in Nat /\ kept \in Nat
  /\ requested \in Seq([url : Urls, address : Addresses])

(* Nothing is requested that the policy does not list, over anything but https, from a local name   *)
(* or from an address that is not global, on the first request and after every redirect; a fetch    *)
(* makes a bounded number of requests; and the documents of a run together never exceed the budget  *)
(* they share (fetchSpecFromUrl, resolvePublicAddress, readBodyWithLimit).                          *)
FetchesStayInBounds ==
  /\ \A i \in 1 .. Len(requested) :
       /\ requested[i].url \in (Https \cap Allowed) \ LocalNames
       /\ requested[i].address \in Global
  /\ Len(requested) <= MaxRedirects + 1
  /\ kept = spent /\ kept <= MaxTotalBytes
=============================================================================
