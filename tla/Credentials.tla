---------------------------- MODULE Credentials ----------------------------
(***************************************************************************)
(* prepareTelemetryCredentials: before a run discovers anything, an API    *)
(* key is exchanged for an access token (AccessTokenProvider.refresh) and  *)
(* the token for the type of the account (probeSessionIdentity).  Both     *)
(* services may refuse, fail or answer nonsense; discovery goes on.        *)
(***************************************************************************)
EXTENDS Naturals, Sequences

CONSTANTS
  MaxMints,    \* AccessTokenProvider.maxAttempts
  MaxProbes    \* SESSION_MAX_ATTEMPTS

ASSUME AttemptsAssumption == MaxMints \in Nat \ {0} /\ MaxProbes \in Nat \ {0}

VARIABLES
  held,        \* which of "key" and "token" the run was given
  credStep,    \* "mint", "diagnose", "probe", "ready"
  mints,       \* what POST /service-account-tokens answered so far
  probes,      \* what GET /api/sessions/current answered so far
  diagnosis,   \* what GET /me told of a key that was refused
  account      \* the account type is known

credVars == <<held, credStep, mints, probes, diagnosis, account>>

\* "mute" is a success without a token; "down" is a network error or any other status.
MintAnswers  == {"token", "unauthorized", "notEnabled", "mute", "down"}
\* "mute" is a success that cannot be read; "limited" is a 429 or a 5xx.
ProbeAnswers == {"identity", "anonymous", "unauthorized", "mute", "limited", "unreachable", "other"}
Diagnoses    == {"personal", "service-account", "invalid", "inconclusive"}

Transient == {"limited", "unreachable"}

-----------------------------------------------------------------------------
(* prepareTelemetryCredentials: a token that was given is used as it is. *)

FirstStep == IF "token" \in held THEN "probe" ELSE IF "key" \in held THEN "mint" ELSE "ready"

CredInit ==
  /\ held \in SUBSET {"key", "token"}
  /\ credStep = FirstStep
  /\ mints = <<>> /\ probes = <<>>
  /\ diagnosis = "none" /\ account = FALSE

\* Mutant: a key that is refused is tried again like any failure.
AfterMintStubborn(answer) ==
  IF answer = "token" THEN "probe" ELSE IF Len(mints) + 1 < MaxMints THEN "mint" ELSE "ready"

\* refresh: a mint that fails for good is not tried again, and ends in a warning.
AfterMint(answer) ==
  CASE answer = "token"             -> "probe"
    [] answer = "unauthorized"      -> "diagnose"
    [] answer = "notEnabled"        -> "ready"
    [] answer \in {"mute", "down"}  -> IF Len(mints) + 1 < MaxMints THEN "mint" ELSE "ready"

Mint(answer) ==
  /\ credStep = "mint"
  /\ mints' = Append(mints, answer)
  /\ credStep' = AfterMint(answer)
  /\ UNCHANGED <<held, probes, diagnosis, account>>

\* inspectPmakIdentity: one GET /me, two seconds at most; it only words the warning.
Diagnose(kind) ==
  /\ credStep = "diagnose"
  /\ diagnosis' = kind /\ credStep' = "ready"
  /\ UNCHANGED <<held, mints, probes, account>>

AfterProbe(answer) ==
  IF answer \in Transient /\ Len(probes) + 1 < MaxProbes THEN "probe" ELSE "ready"

ProbeSession(answer) ==
  /\ credStep = "probe"
  /\ probes' = Append(probes, answer)
  /\ credStep' = AfterProbe(answer)
  /\ account' = (answer = "identity")
  /\ UNCHANGED <<held, mints, diagnosis>>

CredNext ==
  \/ \E a \in MintAnswers : Mint(a)
  \/ \E d \in Diagnoses : Diagnose(d)
  \/ \E a \in ProbeAnswers : ProbeSession(a)

\* Every request ends, if only by its own time limit.
CredSpec == CredInit /\ [][CredNext]_credVars /\ WF_credVars(CredNext)

-----------------------------------------------------------------------------
CredTypeOK ==
  /\ held \subseteq {"key", "token"}
  /\ credStep \in {"mint", "diagnose", "probe", "ready"}
  /\ mints \in Seq(MintAnswers) /\ probes \in Seq(ProbeAnswers)
  /\ diagnosis \in Diagnoses \cup {"none"} /\ account \in BOOLEAN

Final(answers, retried, limit) ==
  /\ Len(answers) <= limit
  /\ \A i \in 1 .. Len(answers) : i < Len(answers) => answers[i] \in retried

(* A service that refused is not asked again: of the answers of one service only the last can be    *)
(* a refusal or a success, the others are failures worth a retry, and no service is asked more      *)
(* often than its limit.  A token that was given is never replaced, and the session is asked        *)
(* with a token only (prepareTelemetryCredentials, mintWithRetry, probeSessionIdentity).            *)
RefusalsAreFinal ==
  /\ Final(mints, {"mute", "down"}, MaxMints)
  /\ Final(probes, {"limited", "unreachable"}, MaxProbes)
  /\ mints # <<>> => held = {"key"}
  /\ probes # <<>> => "token" \in held \/ mints[Len(mints)] = "token"
=============================================================================
