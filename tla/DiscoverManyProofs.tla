-------------------------- MODULE DiscoverManyProofs --------------------------
(* One discover-many run, for every repository, account and cap.           *)
EXTENDS DiscoverMany, SubsequencesProofs

Loops    == {"gateway", "provider"}
Outcomes == {"attempted", "exported", "failed", "skipped"}

-----------------------------------------------------------------------------
(* The state keeps its types.                                              *)

LEMMA AssumedTypes ==
  /\ GroupOf \in [Groups -> Group] /\ Attr \in [Services -> Service]
  /\ \A g \in Groups : GroupOf[g].peers \in Nat /\ GroupOf[g].source \in Paths /\ GroupOf[g].path \in Paths
  /\ \A s \in Services : /\ Attr[s].phase \in Loops /\ Attr[s].base \in Folders
                         /\ Attr[s].suffixed \in Folders /\ Attr[s].files \in Seq(Names) /\ Attr[s].files # <<>>
BY DiscoverManyAssumption DEF Group, Service, Loops

LEMMA CommittedTypes == Committed \in [Paths -> Groups \cup Services \cup {"absent", "torn"}]
BY DEF Committed

\* The cap keeps the first few candidates.
LEMMA CappedFacts ==
  ASSUME NEW E, NEW s \in Seq(E)
  PROVE  /\ Capped(s) \in Seq(E) /\ ToSet(Capped(s)) \subseteq ToSet(s)
         /\ Len(s) \in Nat /\ Len(Capped(s)) \in Nat /\ Len(Capped(s)) <= Len(s)
         /\ NoRepeats(s) => NoRepeats(Capped(s))
<1>1. Len(s) \in Nat /\ MaxCandidates \in Nat
  BY DiscoverManyAssumption
<1>2. CASE MaxCandidates > 0 /\ Len(s) > MaxCandidates
  <2>1. MaxCandidates \in 0 .. Len(s)
    BY <1>1, <1>2
  <2> QED BY <1>1, <1>2, <2>1, PrefixFacts DEF Capped
<1>3. CASE ~(MaxCandidates > 0 /\ Len(s) > MaxCandidates)
  BY <1>1, <1>3 DEF Capped
<1> QED BY <1>2, <1>3

LEMMA Numbers ==
  ASSUME NEW c \in [Phases -> Counts]
  PROVE  \A q \in Phases, what \in Outcomes : c[q][what] \in Nat
<1>1. \A q \in Phases : c[q] \in Counts
  OBVIOUS
<1> QED BY <1>1 DEF Counts, Outcomes

LEMMA CountTypes ==
  ASSUME NEW c \in [Phases -> Counts], NEW ph \in Phases, NEW n \in Nat, NEW what \in Outcomes
  PROVE  [c EXCEPT ![ph][what] = n] \in [Phases -> Counts]
<1>1. c[ph] \in Counts
  OBVIOUS
<1>2. [c[ph] EXCEPT ![what] = n] \in Counts
  BY <1>1 DEF Counts, Outcomes
<1> QED BY <1>2

LEMMA InitTypes == Init => TypeOK
<1> SUFFICES ASSUME Init PROVE TypeOK
  OBVIOUS
<1> USE DiscoverManyAssumption
<1>1. None \in Counts
  BY DEF None, Counts
<1>2. \A S : <<>> \in Seq(S)
  OBVIOUS
<1>3. /\ found \in [Phases -> Seq(Groups \cup Services)]
      /\ sums \in [Phases -> Counts]
  BY <1>1, <1>2 DEF Init
<1>4. disk \in [Paths -> Groups \cup Services \cup {"absent", "torn"}]
  BY CommittedTypes DEF Init
<1>5. /\ groups \in Seq(Groups) /\ queue \in Seq(Services) /\ providers \in Seq(DOMAIN Listing)
      /\ reported \in Seq(Groups \cup Services)
  BY <1>2 DEF Init
<1> QED BY <1>3, <1>4, <1>5 DEF Init, TypeOK

LEMMA ProbeTypes == TypeOK /\ Probe => TypeOK'
<1> SUFFICES ASSUME TypeOK, Probe PROVE TypeOK'
  OBVIOUS
<1>1. providers' \in Seq(DOMAIN Listing)
  <2>1. Extra \in Seq(DOMAIN Listing)
    BY DiscoverManyAssumption
  <2> QED BY <2>1, OnlyFacts DEF Probe
<1>2. pc' = "inventory" /\ pc = "probe"
  BY DEF Probe, Goto
<1> QED BY <1>1, <1>2 DEF TypeOK, Probe, ledger, output

LEMMA RejectsTypes == TypeOK /\ Rejects => TypeOK'
BY DEF TypeOK, Rejects, Goto, loops, ledger, output

LEMMA InventoryTypes == TypeOK /\ Inventory => TypeOK'
BY DiscoverManyAssumption DEF TypeOK, Inventory, Goto, ledger, output

LEMMA AttemptTypes ==
  ASSUME TypeOK, NEW outcome \in Outcomes \ {"attempted"}, Attempt(outcome)
  PROVE  sums' \in [Phases -> Counts]
<1>1. sums \in [Phases -> Counts] /\ "repo" \in Phases /\ "attempted" \in Outcomes
  BY DEF TypeOK, Phases, Outcomes
<1> DEFINE c == [sums EXCEPT !["repo"].attempted = @ + 1]
<1>2. c \in [Phases -> Counts]
  <2>1. sums["repo"]["attempted"] + 1 \in Nat
    BY <1>1, Numbers
  <2> QED BY <1>1, <2>1, CountTypes
<1>3. sums' = [c EXCEPT !["repo"][outcome] = c["repo"][outcome] + 1]
  BY DEF Attempt
<1>4. c["repo"][outcome] + 1 \in Nat
  <2> HIDE DEF c
  <2>1. c["repo"][outcome] \in Nat
    BY <1>1, <1>2, Numbers
  <2> QED BY <2>1
<1> HIDE DEF c
<1> QED BY <1>1, <1>2, <1>3, <1>4, CountTypes

LEMMA SkipGroupTypes == TypeOK /\ SkipGroup => TypeOK'
<1> SUFFICES ASSUME TypeOK, SkipGroup PROVE TypeOK'
  OBVIOUS
<1>1. groups' \in Seq(Groups)
  BY TailFacts DEF TypeOK, SkipGroup
<1>2. sums' \in [Phases -> Counts]
  BY AttemptTypes DEF SkipGroup, Outcomes
<1> QED BY <1>1, <1>2 DEF TypeOK, SkipGroup, GroupFrame

LEMMA VisitGroupTypes == TypeOK /\ VisitGroup => TypeOK'
<1> SUFFICES ASSUME TypeOK, VisitGroup PROVE TypeOK'
  OBVIOUS
<1> DEFINE g == Head(groups)
<1>1. groups' \in Seq(Groups) /\ g \in Groups
  BY TailFacts DEF TypeOK, VisitGroup
<1>2. sums' \in [Phases -> Counts]
  BY AttemptTypes DEF VisitGroup, Outcomes
<1>3. native' \subseteq Paths
  BY <1>1, AssumedTypes DEF VisitGroup, TypeOK
<1>4. disk' \in [Paths -> Groups \cup Services \cup {"absent", "torn"}]
  BY <1>1 DEF VisitGroup, TypeOK
<1>5. found' \in [Phases -> Seq(Groups \cup Services)]
  <2>1. found' = found \/ found' = [found EXCEPT !["repo"] = Append(found["repo"], g)]
    BY DEF VisitGroup
  <2>2. found \in [Phases -> Seq(Groups \cup Services)] /\ "repo" \in Phases
    BY DEF TypeOK, Phases
  <2>3. Append(found["repo"], g) \in Seq(Groups \cup Services)
    BY <1>1, <2>2
  <2> QED BY <2>1, <2>2, <2>3
<1>6. troubles' \subseteq Groups \cup Services \cup DOMAIN Listing
  BY <1>1 DEF VisitGroup, TypeOK, Blame
<1> QED BY <1>1, <1>2, <1>3, <1>4, <1>5, <1>6 DEF TypeOK, VisitGroup, GroupFrame

LEMMA GroupsDoneTypes == TypeOK /\ GroupsDone => TypeOK'
BY DEF TypeOK, GroupsDone, Goto, loops, ledger, output

\* Lists that could be read, as far as the cap lets them through.
LEMMA GatewayQueue ==
  ASSUME NEW rest \in {<<>>, Rest}, NEW http \in {<<>>, Http}
  PROVE  /\ rest \o http \in Seq(Services)
         /\ ToSet(rest \o http) \subseteq ToSet(Rest \o Http)
         /\ NoRepeats(rest \o http)
<1>1. Rest \in Seq(Services) /\ Http \in Seq(Services) /\ IsInjective(Rest \o Http)
  BY DiscoverManyAssumption
<1>2. <<>> \in Seq(Services) /\ ToSet(<<>>) = {} /\ NoRepeats(<<>>)
  BY DEF ToSet, NoRepeats
<1>3. NoRepeats(Rest \o Http)
  BY <1>1 DEF IsInjective, NoRepeats
<1>4. NoRepeats(Rest) /\ NoRepeats(Http)
  <2>1. /\ Len(Rest) \in Nat /\ Len(Http) \in Nat /\ Len(Rest \o Http) = Len(Rest) + Len(Http)
        /\ DOMAIN (Rest \o Http) = 1 .. Len(Rest) + Len(Http)
        /\ DOMAIN Rest = 1 .. Len(Rest) /\ DOMAIN Http = 1 .. Len(Http)
    BY <1>1
  <2>2. \A i \in DOMAIN Rest : (Rest \o Http)[i] = Rest[i]
    BY <1>1
  <2>3. \A i \in DOMAIN Http : (Rest \o Http)[Len(Rest) + i] = Http[i]
    BY <1>1
  <2> DEFINE u == Rest \o Http
  <2> HIDE DEF u
  <2>4. \A i \in DOMAIN Rest : i \in DOMAIN u /\ u[i] = Rest[i]
    BY <2>1, <2>2 DEF u
  <2>5. \A i \in DOMAIN Http : Len(Rest) + i \in DOMAIN u /\ u[Len(Rest) + i] = Http[i]
    BY <2>1, <2>3 DEF u
  <2>6. \A i, j \in DOMAIN Http : i # j => Len(Rest) + i # Len(Rest) + j
    BY <2>1
  <2>7. \A i, j \in DOMAIN u : i # j => u[i] # u[j]
    BY <1>3 DEF NoRepeats, u
  <2> QED BY <2>4, <2>5, <2>6, <2>7 DEF NoRepeats
<1>5. ToSet(Rest \o Http) = ToSet(Rest) \cup ToSet(Http)
  BY <1>1, ConcatFacts
<1>6. rest \in Seq(Services) /\ http \in Seq(Services)
  BY <1>1, <1>2
<1>7. ToSet(rest \o http) = ToSet(rest) \cup ToSet(http) /\ rest \o http \in Seq(Services)
  BY <1>6, ConcatFacts
<1>8. ToSet(rest \o http) \subseteq ToSet(Rest \o Http)
  BY <1>2, <1>5, <1>7
<1>9. NoRepeats(rest \o http)
  <2>1. CASE rest = Rest /\ http = Http
    BY <1>3, <2>1
  <2>2. CASE rest = <<>> \/ http = <<>>
    BY <1>2, <1>4, <1>6, <2>2, ConcatFacts
  <2> QED BY <2>1, <2>2
<1> QED BY <1>7, <1>8, <1>9

LEMMA ListGatewaysTypes == TypeOK /\ ListGateways => TypeOK'
<1> SUFFICES ASSUME TypeOK, ListGateways PROVE TypeOK'
  OBVIOUS
<1>1. queue' \in Seq(Services)
  <2>1. PICK rest \in {<<>>, Rest}, http \in {<<>>, Http} : queue' = Capped(rest \o http)
    BY DEF ListGateways
  <2>2. rest \o http \in Seq(Services)
    BY GatewayQueue
  <2> QED BY <2>1, <2>2, CappedFacts
<1>2. sums' = [sums EXCEPT !["gateway"]["attempted"] = Len(queue')]
  BY DEF ListGateways
<1>3. sums' \in [Phases -> Counts]
  <2>1. Len(queue') \in Nat
    BY <1>1
  <2> HIDE DEF ListGateways
  <2> QED BY <1>2, <2>1, CountTypes DEF TypeOK, Phases, Outcomes
<1> QED BY <1>1, <1>3 DEF TypeOK, ListGateways, Goto, output

LEMMA AllocateTypes ==
  ASSUME TypeOK, NEW s \in Services, Allocate(s)
  PROVE  usage' \in [Folders -> Nat] /\ folder' \in [Services -> Folders \cup {NoFolder}]
<1>1. Attr[s].base \in Folders /\ Attr[s].suffixed \in Folders
  BY AssumedTypes
<1>2. usage[Attr[s].base] + 1 \in Nat
  BY <1>1 DEF TypeOK
<1> QED BY <1>1, <1>2 DEF Allocate, TypeOK

LEMMA CountsTypes ==
  ASSUME TypeOK, NEW ph \in Phases, NEW what \in Outcomes, Count(ph, what)
  PROVE  sums' \in [Phases -> Counts]
<1>1. sums' = [sums EXCEPT ![ph][what] = sums[ph][what] + 1]
  BY DEF Count
<1>2. sums[ph][what] \in Nat
  BY Numbers DEF TypeOK
<1>3. sums[ph][what] + 1 \in Nat
  BY <1>2
<1> QED BY <1>1, <1>3, CountTypes DEF TypeOK

\* A loop takes its first candidate.
LEMMA TakeTypes ==
  ASSUME TypeOK, NEW ph, Take(ph)
  PROVE  Head(queue) \in Services /\ queue' \in Seq(Services)
BY TailFacts DEF TypeOK, Take

LEMMA SkipGatewayTypes == TypeOK /\ SkipGateway => TypeOK'
<1> SUFFICES ASSUME TypeOK, SkipGateway PROVE TypeOK'
  OBVIOUS
<1>1. queue' \in Seq(Services)
  BY TakeTypes DEF SkipGateway
<1>2. sums' \in [Phases -> Counts]
  BY CountsTypes DEF SkipGateway, Phases, Outcomes
<1> QED BY <1>1, <1>2 DEF TypeOK, SkipGateway, CandidateFrame

LEMMA CandidateFailsTypes ==
  ASSUME TypeOK, NEW ph \in Loops, CandidateFails(ph)
  PROVE  TypeOK'
<1>1. queue' \in Seq(Services) /\ Head(queue) \in Services
  BY TakeTypes DEF CandidateFails
<1>2. sums' \in [Phases -> Counts]
  BY CountsTypes DEF CandidateFails, Phases, Outcomes, Loops
<1>3. usage' \in [Folders -> Nat] /\ folder' \in [Services -> Folders \cup {NoFolder}]
  <2>1. UNCHANGED <<usage, folder>> \/ Allocate(Head(queue))
    BY DEF CandidateFails
  <2> QED BY <1>1, <2>1, AllocateTypes DEF TypeOK
<1>4. troubles' \subseteq Groups \cup Services \cup DOMAIN Listing
  BY <1>1 DEF CandidateFails, TypeOK, Blame
<1> QED BY <1>1, <1>2, <1>3, <1>4 DEF TypeOK, CandidateFails, CandidateFrame

LEMMA DryRunTypes ==
  ASSUME TypeOK, NEW ph \in Loops, DryRun(ph)
  PROVE  TypeOK'
<1>1. queue' \in Seq(Services) /\ Head(queue) \in Services
  BY TakeTypes DEF DryRun
<1>2. sums' \in [Phases -> Counts]
  BY CountsTypes DEF DryRun, Phases, Outcomes, Loops
<1>3. usage' \in [Folders -> Nat] /\ folder' \in [Services -> Folders \cup {NoFolder}]
  <2>1. UNCHANGED <<usage, folder>> \/ Allocate(Head(queue))
    BY DEF DryRun
  <2> QED BY <1>1, <2>1, AllocateTypes DEF TypeOK
<1> QED BY <1>1, <1>2, <1>3 DEF TypeOK, DryRun, CandidateFrame

LEMMA ExportsTypes ==
  ASSUME TypeOK, NEW ph \in Loops, Exports(ph)
  PROVE  TypeOK'
<1>1. queue' \in Seq(Services) /\ Head(queue) \in Services
  BY TakeTypes DEF Exports
<1>2. usage' \in [Folders -> Nat] /\ folder' \in [Services -> Folders \cup {NoFolder}]
  BY <1>1, AllocateTypes DEF Exports
<1>3. job' \in [by : Services, todo : Seq(Names)] /\ pc' = "write"
  BY <1>1, AssumedTypes DEF Exports, Goto
<1>4. job' # NoJob
  BY <1>3, DiscoverManyAssumption
<1> QED BY <1>1, <1>2, <1>3, <1>4 DEF TypeOK, Exports, CandidateFrame

\* What the writer is busy with.
LEMMA JobTypes ==
  ASSUME TypeOK, pc = "write"
  PROVE  /\ job \in [by : Services, todo : Seq(Names)] /\ job.by \in Services /\ job.todo \in Seq(Names)
         /\ Attr[job.by].phase \in Loops /\ Attr[job.by].phase \in Phases
<1>1. job \in [by : Services, todo : Seq(Names)]
  BY DEF TypeOK
<1>2. job.by \in Services /\ job.todo \in Seq(Names)
  BY <1>1
<1>3. Attr[job.by].phase \in Loops
  BY <1>2, AssumedTypes
<1> QED BY <1>1, <1>2, <1>3 DEF Loops, Phases

LEMMA WriteFileTypes == TypeOK /\ WriteFile => TypeOK'
<1> SUFFICES ASSUME TypeOK, WriteFile PROVE TypeOK'
  OBVIOUS
<1>1. pc = "write" /\ pc' = "write"
  BY DEF WriteFile
<1>2. job.by \in Services /\ Tail(job.todo) \in Seq(Names) /\ job \in [by : Services, todo : Seq(Names)]
  BY <1>1, JobTypes, TailFacts DEF WriteFile
<1>3. job' = [job EXCEPT !.todo = Tail(job.todo)]
  BY DEF WriteFile
<1>4. job' \in [by : Services, todo : Seq(Names)]
  BY <1>2, <1>3
<1>5. job' # NoJob
  BY <1>4, DiscoverManyAssumption
<1>6. disk' \in [Paths -> Groups \cup Services \cup {"absent", "torn"}]
  BY <1>2 DEF WriteFile, TypeOK
<1> QED BY <1>1, <1>4, <1>5, <1>6 DEF TypeOK, WriteFile, WriteFrame, loops

LEMMA WriteFailsTypes == TypeOK /\ WriteFails => TypeOK'
<1> SUFFICES ASSUME TypeOK, WriteFails PROVE TypeOK'
  OBVIOUS
<1>1. pc = "write" /\ pc' = Attr[job.by].phase /\ job' = NoJob
  BY DEF WriteFails, Goto
<1>2. job.by \in Services /\ pc' \in Loops /\ Attr[job.by].phase \in Phases
  BY <1>1, JobTypes
<1>3. sums' \in [Phases -> Counts]
  BY <1>2, CountsTypes DEF WriteFails, Outcomes
<1>4. disk' \in [Paths -> Groups \cup Services \cup {"absent", "torn"}]
  BY DEF WriteFails, TypeOK
<1>5. troubles' \subseteq Groups \cup Services \cup DOMAIN Listing
  BY <1>2 DEF WriteFails, TypeOK, Blame
<1> QED BY <1>1, <1>2, <1>3, <1>4, <1>5 DEF TypeOK, WriteFails, WriteFrame, loops, Loops

LEMMA WriteDoneTypes == TypeOK /\ WriteDone => TypeOK'
<1> SUFFICES ASSUME TypeOK, WriteDone PROVE TypeOK'
  OBVIOUS
<1> DEFINE ph == Attr[job.by].phase
<1>1. /\ pc = "write" /\ pc' = ph /\ job' = NoJob
      /\ found' = [found EXCEPT ![ph] = Append(found[ph], job.by)]
      /\ Count(ph, "exported")
  BY DEF WriteDone, Goto
<1>2. job.by \in Services /\ pc' \in Loops /\ ph \in Phases
  BY <1>1, JobTypes
<1>3. sums' \in [Phases -> Counts]
  BY <1>1, <1>2, CountsTypes DEF Outcomes
<1>4. found' \in [Phases -> Seq(Groups \cup Services)]
  <2>1. found \in [Phases -> Seq(Groups \cup Services)]
    BY DEF TypeOK
  <2>2. Append(found[ph], job.by) \in Seq(Groups \cup Services)
    BY <1>2, <2>1
  <2> QED BY <1>1, <2>1, <2>2
<1> QED BY <1>1, <1>2, <1>3, <1>4 DEF TypeOK, WriteDone, WriteFrame, loops, Loops

LEMMA GatewaysDoneTypes == TypeOK /\ GatewaysDone => TypeOK'
BY DEF TypeOK, GatewaysDone, Goto, loops, ledger, output

LEMMA ListProviderTypes == TypeOK /\ ListProvider => TypeOK'
<1> SUFFICES ASSUME TypeOK, ListProvider PROVE TypeOK'
  OBVIOUS
<1> DEFINE all == Listing[Head(providers)]
           kept == Capped(all)
<1>1. Head(providers) \in DOMAIN Listing
  BY TailFacts DEF TypeOK, ListProvider
<1>2. all \in Seq(Services)
  BY <1>1, DiscoverManyAssumption
<1>3. kept \in Seq(Services) /\ Len(all) \in Nat /\ Len(kept) \in Nat /\ Len(kept) <= Len(all)
  BY <1>2, CappedFacts
<1>4. /\ queue' = kept /\ omitted' = omitted + Len(all) - Len(kept) /\ pc' = "provider" /\ pc = "listProvider"
      /\ sums' = [sums EXCEPT !["provider"].attempted = @ + Len(kept),
                              !["provider"].skipped = @ + Len(all) - Len(kept)]
  BY DEF ListProvider, Goto
<1> HIDE DEF all, kept
<1>5. omitted' \in Nat
  BY <1>3, <1>4 DEF TypeOK
<1>6. sums' \in [Phases -> Counts]
  <2> DEFINE c == [sums EXCEPT !["provider"]["attempted"] = sums["provider"]["attempted"] + Len(kept)]
  <2>1. sums \in [Phases -> Counts] /\ "provider" \in Phases
    BY DEF TypeOK, Phases
  <2>2. c \in [Phases -> Counts]
    <3>0. sums["provider"]["attempted"] \in Nat
      BY <2>1, Numbers DEF Outcomes
    <3>1. sums["provider"]["attempted"] + Len(kept) \in Nat
      BY <3>0, <1>3
    <3> QED BY <2>1, <3>1, CountTypes DEF Outcomes
  <2>3. sums' = [c EXCEPT !["provider"]["skipped"] = c["provider"]["skipped"] + Len(all) - Len(kept)]
    BY <1>4
  <2>4. c["provider"]["skipped"] + Len(all) - Len(kept) \in Nat
    <3> HIDE DEF c
    <3>1. c["provider"]["skipped"] \in Nat
      BY <2>1, <2>2, Numbers DEF Outcomes
    <3> QED BY <1>3, <3>1
  <2> HIDE DEF c
  <2> QED BY <2>1, <2>2, <2>3, <2>4, CountTypes DEF Outcomes
<1> QED BY <1>3, <1>4, <1>5, <1>6 DEF TypeOK, ListProvider, output

LEMMA ListFailsTypes == TypeOK /\ ListFails => TypeOK'
<1> SUFFICES ASSUME TypeOK, ListFails PROVE TypeOK'
  OBVIOUS
<1>1. Head(providers) \in DOMAIN Listing /\ providers' \in Seq(DOMAIN Listing)
  BY TailFacts DEF TypeOK, ListFails
<1>2. sums' \in [Phases -> Counts]
  BY CountsTypes DEF ListFails, Phases, Outcomes
<1>3. troubles' \subseteq Groups \cup Services \cup DOMAIN Listing
  BY <1>1 DEF ListFails, TypeOK, Blame
<1> QED BY <1>1, <1>2, <1>3 DEF TypeOK, ListFails, output

LEMMA ProviderDoneTypes == TypeOK /\ ProviderDone => TypeOK'
<1> SUFFICES ASSUME TypeOK, ProviderDone PROVE TypeOK'
  OBVIOUS
<1>1. providers' \in Seq(DOMAIN Listing)
  <2>1. providers \in Seq(DOMAIN Listing)
    BY DEF TypeOK
  <2>2. CASE providers = <<>>
    <3>1. Tail(<<>>) = <<>>
      OBVIOUS
    <3> QED BY <3>1, <2>2 DEF ProviderDone
  <2> QED BY <2>1, <2>2, TailFacts DEF ProviderDone
<1> QED BY <1>1 DEF TypeOK, ProviderDone, Goto, ledger, output

LEMMA FinishTypes == TypeOK /\ Finish => TypeOK'
<1> SUFFICES ASSUME TypeOK, Finish PROVE TypeOK'
  OBVIOUS
<1> DEFINE E == Groups \cup Services
           S == {s \in Services : SpecPath(s) \notin native}
           later == found["gateway"] \o found["provider"]
<1>1. found["repo"] \in Seq(E) /\ later \in Seq(E)
  BY DEF TypeOK, Phases
<1>2. Only(later, S) \in Seq(E)
  BY <1>1, OnlyFacts
<1>3. reported' = found["repo"] \o Only(later, S)
  BY DEF Finish
<1>4. reported' \in Seq(E)
  <2> HIDE DEF S, later, E
  <2> QED BY <1>1, <1>2, <1>3
<1> QED BY <1>4 DEF TypeOK, Finish, Goto, loops, ledger

\* Every step keeps the types.
LEMMA NextTypes == TypeOK /\ [Next]_vars => TypeOK'
<1> SUFFICES ASSUME TypeOK, [Next]_vars PROVE TypeOK'
  OBVIOUS
<1>1. CASE Probe \/ Rejects \/ Inventory \/ SkipGroup \/ VisitGroup \/ GroupsDone
  BY <1>1, ProbeTypes, RejectsTypes, InventoryTypes, SkipGroupTypes, VisitGroupTypes, GroupsDoneTypes
<1>2. CASE ListGateways \/ SkipGateway \/ GatewaysDone \/ ListProvider \/ ListFails \/ ProviderDone
  BY <1>2, ListGatewaysTypes, SkipGatewayTypes, GatewaysDoneTypes, ListProviderTypes, ListFailsTypes,
     ProviderDoneTypes
<1>3. CASE \E ph \in {"gateway", "provider"} : CandidateFails(ph) \/ DryRun(ph) \/ Exports(ph)
  BY <1>3, CandidateFailsTypes, DryRunTypes, ExportsTypes DEF Loops
<1>4. CASE WriteFile \/ WriteFails \/ WriteDone \/ Finish
  BY <1>4, WriteFileTypes, WriteFailsTypes, WriteDoneTypes, FinishTypes
<1>5. CASE UNCHANGED vars
  BY <1>5 DEF vars, TypeOK
<1> QED BY <1>1, <1>2, <1>3, <1>4, <1>5 DEF Next

\* Every reachable state of execute in discover-many mode is well typed, and an artifact is under way
\* exactly while the writer writes.
THEOREM TypeCorrect == Spec => []TypeOK
BY InitTypes, NextTypes, PTL DEF Spec

-----------------------------------------------------------------------------
(* Dry runs.                                                               *)

\* The writer is never reached, and a group's contract is written only by a run that writes.
DryInv == dry => disk = Committed /\ pc # "write"

\* A dry run of discover-many leaves the repository and the output directory as they were, whatever
\* is found and whatever fails: VisitGroup and the two export loops stop before the first write.
THEOREM DryRunsWriteNothing == Spec => []DryRunWritesNothing
<1>1. Init => DryInv
  BY DEF Init, DryInv
<1>2. DryInv /\ [Next]_vars => DryInv'
  <2> SUFFICES ASSUME DryInv, [Next]_vars PROVE DryInv'
    OBVIOUS
  <2>1. CASE Probe \/ Rejects \/ Inventory \/ SkipGroup \/ GroupsDone
    BY <2>1 DEF DryInv, Probe, Rejects, Inventory, SkipGroup, GroupsDone, Goto, GroupFrame, output
  <2>2. CASE VisitGroup
    BY <2>2 DEF DryInv, VisitGroup, GroupFrame
  <2>3. CASE ListGateways \/ GatewaysDone \/ ListProvider \/ ListFails \/ ProviderDone \/ Finish
    BY <2>3 DEF DryInv, ListGateways, GatewaysDone, ListProvider, ListFails, ProviderDone, Finish, Goto, output
  <2>4. CASE SkipGateway
    BY <2>4 DEF DryInv, SkipGateway, CandidateFrame
  <2>5. ASSUME NEW ph \in Loops, CandidateFails(ph) \/ DryRun(ph) \/ Exports(ph)
        PROVE  DryInv'
    BY <2>5 DEF DryInv, CandidateFails, DryRun, Exports, CandidateFrame
  <2>6. CASE WriteFile \/ WriteFails \/ WriteDone
    BY <2>6 DEF DryInv, WriteFile, WriteFails, WriteDone, WriteFrame
  <2>7. CASE UNCHANGED vars
    BY <2>7 DEF DryInv, vars
  <2> QED BY <2>1, <2>2, <2>3, <2>4, <2>5, <2>6, <2>7 DEF Next, Loops
<1>3. DryInv => DryRunWritesNothing
  BY DEF DryInv, DryRunWritesNothing
<1> QED BY <1>1, <1>2, <1>3, PTL DEF Spec

-----------------------------------------------------------------------------
(* The repository comes first.                                             *)

\* Each contract has claimed its path, no two the same one, and services follow them.
ReportInv ==
  /\ found["repo"] \in Seq(Groups)
  /\ found["gateway"] \in Seq(Services) /\ found["provider"] \in Seq(Services)
  /\ \A i \in DOMAIN found["repo"] : GroupOf[found["repo"][i]].path \in native
  /\ \A i, j \in DOMAIN found["repo"] :
       i < j => GroupOf[found["repo"][i]].path # GroupOf[found["repo"][j]].path
  /\ RepoFirst

LEMMA VisitGroupReport == TypeOK /\ ReportInv /\ VisitGroup => ReportInv'
<1> SUFFICES ASSUME TypeOK, ReportInv, VisitGroup PROVE ReportInv'
  OBVIOUS
<1> DEFINE g == Head(groups)
           old == found["repo"]
           new == Append(old, g)
<1>1. /\ g \in Groups /\ old \in Seq(Groups)
      /\ native' = native \cup {GroupOf[g].source, GroupOf[g].path}
      /\ GroupOf[g].path \notin native
      /\ found' = found \/ found' = [found EXCEPT !["repo"] = new]
      /\ pc = "repo" /\ pc' = pc
  BY TailFacts DEF VisitGroup, GroupFrame, TypeOK, ReportInv
<1>2. found \in [Phases -> Seq(Groups \cup Services)] /\ "repo" \in Phases
  BY DEF TypeOK, Phases
<1>3. RepoFirst'
  BY <1>1 DEF RepoFirst, Done
<1>4. CASE found' = found
  BY <1>1, <1>3, <1>4 DEF ReportInv
<1>5. CASE found' = [found EXCEPT !["repo"] = new]
  <2>1. found'["repo"] = new /\ found'["gateway"] = found["gateway"] /\ found'["provider"] = found["provider"]
    BY <1>2, <1>5
  <2>2. /\ new \in Seq(Groups) /\ DOMAIN new = 1 .. Len(old) + 1 /\ DOMAIN old = 1 .. Len(old)
        /\ Len(old) \in Nat /\ new[Len(old) + 1] = g /\ \A i \in 1 .. Len(old) : new[i] = old[i]
    <3> HIDE DEF g
    <3> QED BY <1>1
  <2> HIDE DEF new, g
  <2>3. \A i \in DOMAIN old : GroupOf[old[i]].path \in native
    BY DEF ReportInv
  <2>4. \A i \in DOMAIN new : i \in DOMAIN old \/ i = Len(old) + 1
    BY <2>2
  <2>5. \A i \in DOMAIN new : GroupOf[new[i]].path \in native'
    BY <1>1, <2>2, <2>3, <2>4
  <2>6. ASSUME NEW i \in DOMAIN new, NEW j \in DOMAIN new, i < j
        PROVE  GroupOf[new[i]].path # GroupOf[new[j]].path
    <3>1. i \in DOMAIN old
      BY <2>2, <2>6
    <3>2. CASE j \in DOMAIN old
      BY <2>2, <2>6, <3>1, <3>2 DEF ReportInv
    <3>3. CASE j = Len(old) + 1
      BY <1>1, <2>2, <2>3, <3>1, <3>3
    <3> QED BY <2>4, <3>2, <3>3
  <2> QED BY <1>3, <2>1, <2>2, <2>5, <2>6 DEF ReportInv
<1> QED BY <1>1, <1>4, <1>5

LEMMA WriteDoneReport == TypeOK /\ ReportInv /\ WriteDone => ReportInv'
<1> SUFFICES ASSUME TypeOK, ReportInv, WriteDone PROVE ReportInv'
  OBVIOUS
<1> DEFINE ph == Attr[job.by].phase
<1>1. pc = "write" /\ pc' = ph /\ found' = [found EXCEPT ![ph] = Append(found[ph], job.by)] /\ native' = native
  BY DEF WriteDone, WriteFrame, Goto
<1>2. job.by \in Services /\ ph \in Loops
  BY <1>1, JobTypes
<1>3. found \in [Phases -> Seq(Groups \cup Services)] /\ ph \in Phases /\ ph # "repo"
  BY <1>2 DEF TypeOK, Loops, Phases
<1>4. found[ph] \in Seq(Services)
  BY <1>2 DEF ReportInv, Loops
<1>5. Append(found[ph], job.by) \in Seq(Services)
  BY <1>2, <1>4
<1> HIDE DEF ph
<1>6. found'["repo"] = found["repo"] /\ \A q \in Loops : found'[q] \in Seq(Services)
  BY <1>1, <1>2, <1>3, <1>5 DEF ReportInv, Loops, Phases
<1>7. RepoFirst'
  BY <1>1, <1>2 DEF RepoFirst, Done, Loops
<1>8. found'["gateway"] \in Seq(Services) /\ found'["provider"] \in Seq(Services)
  BY <1>6 DEF Loops
<1>9. native' = native
  BY <1>1
<1> QED BY <1>6, <1>7, <1>8, <1>9 DEF ReportInv

LEMMA FinishReport == TypeOK /\ ReportInv /\ Finish => ReportInv'
<1> SUFFICES ASSUME TypeOK, ReportInv, Finish PROVE ReportInv'
  OBVIOUS
<1> DEFINE S == {s \in Services : SpecPath(s) \notin native}
           later == found["gateway"] \o found["provider"]
           repo == found["repo"]
           kept == Only(later, S)
<1>1. reported' = repo \o kept /\ UNCHANGED <<found, native, folder>>
  BY DEF Finish, loops, ledger
<1>2. repo \in Seq(Groups) /\ later \in Seq(Services)
  BY DEF ReportInv
<1>3. kept \in Seq(Services) /\ ToSet(kept) \subseteq S
  <2> HIDE DEF later, S
  <2>1. kept \in Seq(Services) /\ ToSet(kept) = ToSet(later) \cap S
    BY <1>2, OnlyFacts
  <2> QED BY <2>1
<1> HIDE DEF kept, later
<1>4. \A i \in DOMAIN kept : kept[i] \in S
  BY <1>3 DEF ToSet
<1> HIDE DEF S
<1> DEFINE u == repo \o kept
<1>5. /\ Len(repo) \in Nat /\ Len(kept) \in Nat /\ DOMAIN u = 1 .. Len(repo) + Len(kept)
      /\ DOMAIN repo = 1 .. Len(repo) /\ DOMAIN kept = 1 .. Len(kept)
  BY <1>2, <1>3
<1>6. \A i \in DOMAIN repo : u[i] = repo[i] /\ repo[i] \in Groups
  BY <1>2, <1>3
<1>7. \A i \in DOMAIN kept : u[Len(repo) + i] = kept[i]
  BY <1>2, <1>3
<1> HIDE DEF u
<1>8. \A i \in DOMAIN u : i \in DOMAIN repo \/ (i > Len(repo) /\ u[i] \in S)
  <2> TAKE i \in DOMAIN u
  <2> SUFFICES ASSUME i \notin DOMAIN repo PROVE i > Len(repo) /\ u[i] \in S
    OBVIOUS
  <2>1. i > Len(repo) /\ i - Len(repo) \in DOMAIN kept /\ Len(repo) + (i - Len(repo)) = i
    BY <1>5
  <2> QED BY <2>1, <1>4, <1>7
<1>9. Groups \cap Services = {}
  BY DiscoverManyAssumption
<1>10. \A s \in S : s \in Services /\ s \notin Groups /\ SpecPath(s) \notin native
  BY <1>9 DEF S
<1>11. \A i \in DOMAIN repo : SpecPath(repo[i]) = GroupOf[repo[i]].path /\ SpecPath(repo[i]) \in native
  BY <1>6 DEF SpecPath, ReportInv
<1>12. ASSUME NEW i \in DOMAIN u, NEW j \in DOMAIN u, i < j
       PROVE  /\ u[j] \in Groups => u[i] \in Groups
              /\ u[i] \in Groups => SpecPath(u[i]) # SpecPath(u[j])
  <2>1. CASE i \in DOMAIN repo /\ j \in DOMAIN repo
    BY <1>6, <1>11, <1>12, <2>1 DEF ReportInv
  <2>2. CASE i \in DOMAIN repo /\ j \notin DOMAIN repo
    BY <1>6, <1>8, <1>10, <1>11, <2>2
  <2>3. CASE i \notin DOMAIN repo
    <3>1. j \notin DOMAIN repo
      BY <1>5, <1>8, <1>12, <2>3
    <3> QED BY <1>8, <1>10, <2>3, <3>1
  <2> QED BY <2>1, <2>2, <2>3
<1>13. \A x : SpecPath(x)' = SpecPath(x)
  BY <1>1 DEF SpecPath
<1>14. reported' = u
  BY <1>1 DEF u
<1>15. RepoFirst'
  BY <1>12, <1>13, <1>14 DEF RepoFirst
<1> QED BY <1>1, <1>15 DEF ReportInv

LEMMA InitReport == Init => ReportInv
<1> SUFFICES ASSUME Init PROVE ReportInv
  OBVIOUS
<1>1. found["repo"] = <<>> /\ found["gateway"] = <<>> /\ found["provider"] = <<>> /\ pc = "probe"
  BY DEF Init, Phases
<1>2. \A S : <<>> \in Seq(S)
  OBVIOUS
<1>3. DOMAIN <<>> = {}
  OBVIOUS
<1> QED BY <1>1, <1>2, <1>3 DEF ReportInv, RepoFirst, Done

LEMMA NextReport == TypeOK /\ ReportInv /\ [Next]_vars => ReportInv'
<1> SUFFICES ASSUME TypeOK, ReportInv, [Next]_vars PROVE ReportInv'
  OBVIOUS
<1>0. ASSUME UNCHANGED <<found, native>>, pc' # "done" PROVE ReportInv'
  BY <1>0 DEF ReportInv, RepoFirst, Done
<1>1. CASE Probe \/ Rejects \/ Inventory \/ SkipGroup \/ GroupsDone
  BY <1>0, <1>1 DEF Probe, Rejects, Inventory, SkipGroup, GroupsDone, Goto, GroupFrame, ledger
<1>2. CASE ListGateways \/ GatewaysDone \/ ListProvider \/ ListFails \/ ProviderDone
  BY <1>0, <1>2 DEF ListGateways, GatewaysDone, ListProvider, ListFails, ProviderDone, Goto, ledger
<1>3. CASE SkipGateway
  BY <1>0, <1>3 DEF SkipGateway, Take, CandidateFrame
<1>4. ASSUME NEW ph \in Loops, CandidateFails(ph) \/ DryRun(ph) \/ Exports(ph)
      PROVE  ReportInv'
  BY <1>0, <1>4 DEF CandidateFails, DryRun, Exports, Take, Goto, CandidateFrame, Loops
<1>5. CASE WriteFile
  BY <1>0, <1>5 DEF WriteFile, WriteFrame
<1>6. CASE WriteFails
  <2>1. pc' \in Loops
    BY <1>6, JobTypes DEF WriteFails, Goto
  <2> QED BY <1>0, <1>6, <2>1 DEF WriteFails, WriteFrame, Loops
<1>7. CASE UNCHANGED vars
  BY <1>7 DEF ReportInv, RepoFirst, Done, SpecPath, vars
<1> QED BY <1>1, <1>2, <1>3, <1>4, <1>5, <1>6, <1>7, VisitGroupReport, WriteDoneReport, FinishReport
        DEF Next, Loops

\* Contracts of the repository are reported first, no two at one path, and no service of the account
\* at the path of one, whatever fails in any phase (execute).
THEOREM RepositoryFirst == Spec => []RepoFirst
<1>1. ReportInv => RepoFirst
  BY DEF ReportInv
<1> QED BY <1>1, InitReport, NextReport, TypeCorrect, PTL DEF Spec

-----------------------------------------------------------------------------
(* Nobody is visited twice.                                                *)

OfPhase(ph) == {s \in Services : Attr[s].phase = ph}
Turn(ph)    == pc = ph \/ (pc = "write" /\ Attr[job.by].phase = ph)
Placed      == {s \in Services : folder[s] # NoFolder}
Past        == troubles \cup Placed

Untouched(ps) == \A p \in ToSet(ps) : p \notin troubles /\ ToSet(Listing[p]) \cap Past = {}

\* What is still to be visited has neither failed nor been given a folder: the rest of the current
\* loop, and everything of the providers that were not listed yet.
VisitInv ==
  /\ NoRepeats(groups) /\ NoRepeats(queue) /\ NoRepeats(providers)
  /\ Past \cap ToSet(groups) = {} /\ Past \cap ToSet(queue) = {}
  /\ pc \in {"probe", "inventory"} => Past = {}
  /\ pc \in {"repo", "list"} => Past \subseteq Groups
  /\ \A ph \in Loops : Turn(ph) => ToSet(queue) \subseteq OfPhase(ph)
  /\ Turn("gateway") => Past \subseteq Groups \cup OfPhase("gateway")
  /\ pc = "listProvider" => Untouched(providers)
  /\ Turn("provider") => /\ providers # <<>> /\ Untouched(Tail(providers))
                         /\ ToSet(queue) \subseteq ToSet(Listing[Head(providers)])
  /\ pc = "write" => folder[job.by] # NoFolder /\ job.by \notin troubles

\* The kinds of things that can fail are told apart, and so are the listings.
LEMMA Apart ==
  /\ Groups \cap Services = {} /\ (Groups \cup Services) \cap DOMAIN Listing = {}
  /\ \A p \in DOMAIN Listing : /\ Listing[p] \in Seq(Services) /\ NoRepeats(Listing[p])
                               /\ ToSet(Listing[p]) \subseteq OfPhase("provider")
  /\ \A p, q \in DOMAIN Listing : p # q => ToSet(Listing[p]) \cap ToSet(Listing[q]) = {}
  /\ ToSet(Rest \o Http) \subseteq OfPhase("gateway")
  /\ Extra \in Seq(DOMAIN Listing) /\ NoRepeats(Extra)
  /\ \A s \in Inventories : s \in Seq(Groups) /\ NoRepeats(s)
<1>1. \A E, s : s \in Seq(E) => ToSet(s) \subseteq E
  BY DEF ToSet
<1>2. /\ \A p \in DOMAIN Listing : Listing[p] \in Seq(Services) /\ IsInjective(Listing[p])
      /\ Extra \in Seq(DOMAIN Listing) /\ IsInjective(Extra)
      /\ \A s \in Inventories : s \in Seq(Groups) /\ IsInjective(s)
  BY DiscoverManyAssumption
<1>3. \A s : IsInjective(s) => NoRepeats(s)
  BY DEF IsInjective, NoRepeats
<1>4. Rest \o Http \in Seq(Services)
  BY GatewayQueue
<1>5. ToSet(Rest \o Http) \subseteq OfPhase("gateway")
  BY <1>1, <1>4, DiscoverManyAssumption DEF OfPhase
<1>6. \A p \in DOMAIN Listing : ToSet(Listing[p]) \subseteq OfPhase("provider")
  BY <1>1, <1>2, DiscoverManyAssumption DEF OfPhase
<1> QED BY <1>2, <1>3, <1>5, <1>6, DiscoverManyAssumption

\* Giving a candidate a folder places it and nobody else.
LEMMA AllocatePlaces ==
  ASSUME TypeOK, NEW s \in Services, Allocate(s)
  PROVE  /\ Placed' = Placed \cup {s}
         /\ folder'[s] \in {Attr[s].base, Attr[s].suffixed} /\ folder'[s] \in Folders
         /\ \A t \in Services \ {s} : folder'[t] = folder[t]
<1>1. /\ folder \in [Services -> Folders \cup {NoFolder}] /\ NoFolder \notin Folders
      /\ Attr[s].base \in Folders /\ Attr[s].suffixed \in Folders
  BY AssumedTypes, DiscoverManyAssumption DEF TypeOK
<1>2. /\ folder'[s] \in {Attr[s].base, Attr[s].suffixed}
      /\ \A t \in Services \ {s} : folder'[t] = folder[t]
  BY <1>1 DEF Allocate
<1> QED BY <1>1, <1>2 DEF Placed

\* A step of a loop that is done with its first candidate, or hands it to the writer.
LEMMA VisitOne ==
  ASSUME TypeOK, TypeOK', VisitInv, NEW ph \in Loops, Take(ph), UNCHANGED <<groups, providers>>,
         Past' \subseteq Past \cup {Head(queue)},
         \/ pc' = ph
         \/ /\ pc' = "write" /\ job'.by = Head(queue)
            /\ folder'[job'.by] # NoFolder /\ troubles' = troubles
  PROVE  VisitInv'
<1> DEFINE s == Head(queue)
<1>1. /\ pc = ph /\ s \in Services /\ ToSet(queue) = {s} \cup ToSet(queue') /\ NoRepeats(queue')
      /\ s \notin ToSet(queue')
  BY TailFacts DEF TypeOK, Take, VisitInv
<1> HIDE DEF s
<1>2. Turn(ph) /\ ToSet(queue) \subseteq OfPhase(ph) /\ s \in OfPhase(ph)
  BY <1>1 DEF Turn, VisitInv
<1>3. \A q \in Loops : Turn(q)' => q = ph
  BY <1>1, <1>2 DEF Turn, OfPhase, Loops, s
<1>4. Past' \cap ToSet(queue') = {}
  BY <1>1 DEF VisitInv, s
<1>5. Past' \cap ToSet(groups') = {}
  <2>1. ToSet(groups) \subseteq Groups
    BY DEF TypeOK, ToSet
  <2> QED BY <1>1, <2>1, Apart DEF VisitInv, s
<1>6. \A q \in Loops : Turn(q)' => ToSet(queue') \subseteq OfPhase(q)
  BY <1>1, <1>2, <1>3
<1>7. Turn("gateway")' => Past' \subseteq Groups \cup OfPhase("gateway")
  BY <1>2, <1>3 DEF VisitInv, s, Loops
<1>8. ASSUME Turn("provider")'
      PROVE  /\ providers' # <<>> /\ Untouched(Tail(providers))'
             /\ ToSet(queue') \subseteq ToSet(Listing[Head(providers')])
  <2>1. /\ Turn("provider") /\ providers # <<>> /\ Untouched(Tail(providers))
        /\ ToSet(queue) \subseteq ToSet(Listing[Head(providers)])
    BY <1>2, <1>3, <1>8 DEF VisitInv, Loops
  <2>2. /\ Head(providers) \in DOMAIN Listing /\ Tail(providers) \in Seq(DOMAIN Listing)
        /\ Head(providers) \notin ToSet(Tail(providers))
    BY <2>1, TailFacts DEF TypeOK, VisitInv
  <2>3. ToSet(Tail(providers)) \subseteq DOMAIN Listing
    BY <2>2 DEF ToSet
  <2>4. \A p \in ToSet(Tail(providers)) : s \notin ToSet(Listing[p]) /\ s # p
    BY <1>1, <2>1, <2>2, <2>3, Apart
  <2>5. \A p \in ToSet(Tail(providers)) : p \notin Past'
    <3>1. \A p \in DOMAIN Listing : p \notin Placed
      BY Apart DEF Placed
    <3>2. \A p \in ToSet(Tail(providers)) : p \notin Past
      BY <2>1, <2>3, <3>1 DEF Untouched, Past
    <3> QED BY <2>4, <3>2 DEF s
  <2>6. \A p \in ToSet(Tail(providers)) : ToSet(Listing[p]) \cap Past' = {}
    BY <2>1, <2>4 DEF Untouched, s
  <2>7. providers' = providers /\ troubles' \subseteq Past'
    BY DEF Past
  <2>8. Untouched(Tail(providers))'
    BY <2>5, <2>6, <2>7 DEF Untouched
  <2> QED BY <1>1, <2>1, <2>7, <2>8
<1>9. pc' = "write" => folder'[job'.by] # NoFolder /\ job'.by \notin troubles'
  BY <1>1 DEF VisitInv, Past, Loops, s
<1>10. pc' \notin {"probe", "inventory", "repo", "list", "listProvider"}
  BY DEF Loops
<1>11. NoRepeats(groups') /\ NoRepeats(providers')
  BY DEF VisitInv
<1> QED BY <1>1, <1>4, <1>5, <1>6, <1>7, <1>8, <1>9, <1>10, <1>11 DEF VisitInv

\* A step of the writer that goes on, or returns to the loop it serves.
LEMMA VisitWriting ==
  ASSUME TypeOK, VisitInv, pc = "write", UNCHANGED <<groups, queue, providers, folder>>,
         \/ pc' = "write" /\ job'.by = job.by /\ troubles' = troubles
         \/ pc' = Attr[job.by].phase /\ troubles' \subseteq troubles \cup {job.by}
  PROVE  VisitInv'
<1>1. job.by \in Services /\ Attr[job.by].phase \in Loops
  BY JobTypes
<1>2. Placed' = Placed /\ job.by \in Placed
  BY <1>1 DEF Placed, VisitInv
<1>3. Past' \subseteq Past
  BY <1>2 DEF Past
<1>4. \A q \in Loops : Turn(q)' => Turn(q)
  BY <1>1 DEF Turn, Loops
<1>5. \A p \in ToSet(providers) : p \notin troubles => p \notin troubles'
  <2>1. ToSet(providers) \subseteq DOMAIN Listing
    BY DEF TypeOK, ToSet
  <2> QED BY <1>1, <2>1, Apart
<1>6. ASSUME Turn("provider")'
      PROVE  /\ providers' # <<>> /\ Untouched(Tail(providers))'
             /\ ToSet(queue') \subseteq ToSet(Listing[Head(providers')])
  <2>1. /\ providers # <<>> /\ Untouched(Tail(providers))
        /\ ToSet(queue) \subseteq ToSet(Listing[Head(providers)])
    BY <1>4, <1>6 DEF VisitInv, Loops
  <2>2. ToSet(Tail(providers)) \subseteq ToSet(providers)
    BY <2>1, TailFacts DEF TypeOK
  <2> QED BY <1>3, <1>5, <2>1, <2>2 DEF Untouched
<1>7. pc' = "write" => folder'[job'.by] # NoFolder /\ job'.by \notin troubles'
  BY <1>1 DEF VisitInv, Loops
<1>8. pc' \notin {"probe", "inventory", "repo", "list", "listProvider"}
  BY <1>1 DEF Loops
<1>9. \A q \in Loops : Turn(q)' => ToSet(queue') \subseteq OfPhase(q)
  BY <1>4 DEF VisitInv
<1>10. Turn("gateway")' => Past' \subseteq Groups \cup OfPhase("gateway")
  BY <1>3, <1>4 DEF VisitInv, Loops
<1>11. /\ NoRepeats(groups') /\ NoRepeats(queue') /\ NoRepeats(providers')
       /\ Past' \cap ToSet(groups') = {} /\ Past' \cap ToSet(queue') = {}
  BY <1>3 DEF VisitInv
<1> QED BY <1>6, <1>7, <1>8, <1>9, <1>10, <1>11 DEF VisitInv

LEMMA InitVisit == Init => VisitInv
<1> SUFFICES ASSUME Init PROVE VisitInv
  OBVIOUS
<1>1. groups = <<>> /\ queue = <<>> /\ providers = <<>> /\ pc = "probe" /\ troubles = {}
  BY DEF Init
<1>2. ToSet(<<>>) = {} /\ NoRepeats(<<>>)
  BY DEF ToSet, NoRepeats
<1>3. Placed = {}
  BY DEF Init, Placed
<1> QED BY <1>1, <1>2, <1>3 DEF VisitInv, Turn, Past, Loops

\* The steps before the first gateway.
LEMMA EarlyVisit ==
  TypeOK /\ VisitInv /\ (Probe \/ Rejects \/ Inventory \/ SkipGroup \/ VisitGroup \/ GroupsDone) => VisitInv'
<1> SUFFICES ASSUME TypeOK, VisitInv,
                    Probe \/ Rejects \/ Inventory \/ SkipGroup \/ VisitGroup \/ GroupsDone
             PROVE  VisitInv'
  OBVIOUS
<1> USE DEF Goto
<1>1. CASE Probe
  <2>1. /\ pc = "probe" /\ pc' = "inventory" /\ UNCHANGED <<groups, queue, job, troubles, folder>>
    BY <1>1 DEF Probe, ledger, output
  <2>2. NoRepeats(providers')
    <3>1. PICK S : providers' = Only(Extra, S)
      BY <1>1 DEF Probe
    <3> QED BY <3>1, Apart, OnlyFacts
  <2>3. Past' = Past
    BY <2>1 DEF Past, Placed
  <2> QED BY <2>1, <2>2, <2>3 DEF VisitInv, Turn, Loops
<1>2. CASE Rejects \/ GroupsDone
  <2>1. /\ UNCHANGED <<groups, queue, providers, job, troubles, folder>>
        /\ pc' = "threw" \/ (pc = "repo" /\ pc' = "list")
    BY <1>2 DEF Rejects, GroupsDone, loops, ledger, output
  <2>2. Past' = Past
    BY <2>1 DEF Past, Placed
  <2> QED BY <2>1, <2>2 DEF VisitInv, Turn, Loops
<1>3. CASE Inventory
  <2>1. /\ pc = "inventory" /\ pc' = "repo" /\ groups' \in Inventories
        /\ UNCHANGED <<queue, providers, job, troubles, folder>>
    BY <1>3 DEF Inventory, ledger, output
  <2>2. Past' = Past /\ Past = {}
    BY <2>1 DEF Past, Placed, VisitInv
  <2>3. NoRepeats(groups')
    BY <2>1, Apart
  <2> QED BY <2>1, <2>2, <2>3 DEF VisitInv, Turn, Loops
<1>4. CASE SkipGroup \/ VisitGroup
  <2>1. /\ pc = "repo" /\ pc' = pc /\ groups # <<>> /\ groups' = Tail(groups)
        /\ UNCHANGED <<queue, providers, job, folder>>
        /\ troubles' \subseteq troubles \cup {Head(groups)}
    BY <1>4 DEF SkipGroup, VisitGroup, GroupFrame, Blame
  <2>2. /\ Head(groups) \in Groups /\ NoRepeats(groups') /\ Head(groups) \notin ToSet(groups')
        /\ ToSet(groups) = {Head(groups)} \cup ToSet(groups')
    BY <2>1, TailFacts DEF TypeOK, VisitInv
  <2>3. Past' \subseteq Past \cup {Head(groups)}
    BY <2>1 DEF Past, Placed
  <2>4. Past' \subseteq Groups /\ Past' \cap ToSet(groups') = {}
    BY <2>1, <2>2, <2>3 DEF VisitInv
  <2>5. ToSet(queue) \subseteq Services
    BY DEF TypeOK, ToSet
  <2>6. Past' \cap ToSet(queue') = {}
    BY <2>1, <2>4, <2>5, Apart
  <2> QED BY <2>1, <2>2, <2>4, <2>6 DEF VisitInv, Turn, Loops
<1> QED BY <1>1, <1>2, <1>3, <1>4

\* The steps between the loops.
LEMMA BetweenVisit ==
  TypeOK /\ VisitInv /\ (ListGateways \/ GatewaysDone \/ ListProvider \/ ListFails \/ ProviderDone \/ Finish)
    => VisitInv'
<1> SUFFICES ASSUME TypeOK, VisitInv,
                    ListGateways \/ GatewaysDone \/ ListProvider \/ ListFails \/ ProviderDone \/ Finish
             PROVE  VisitInv'
  OBVIOUS
<1> USE DEF Goto
<1>0. /\ ToSet(groups) \subseteq Groups /\ ToSet(queue) \subseteq Services
      /\ ToSet(providers) \subseteq DOMAIN Listing
  BY DEF TypeOK, ToSet
<1>1. CASE ListGateways
  <2>1. PICK rest \in {<<>>, Rest}, http \in {<<>>, Http} : queue' = Capped(rest \o http)
    BY <1>1 DEF ListGateways
  <2>2. NoRepeats(queue') /\ ToSet(queue') \subseteq OfPhase("gateway")
    <3>1. /\ rest \o http \in Seq(Services) /\ NoRepeats(rest \o http)
          /\ ToSet(rest \o http) \subseteq OfPhase("gateway")
      BY GatewayQueue, Apart
    <3> QED BY <2>1, <3>1, CappedFacts
  <2>3. pc = "list" /\ pc' = "gateway" /\ UNCHANGED <<groups, providers, job, troubles, folder>>
    BY <1>1 DEF ListGateways, output
  <2>4. Past' = Past /\ Past \subseteq Groups
    BY <2>3 DEF Past, Placed, VisitInv
  <2>5. Past \cap ToSet(queue') = {}
    BY <2>2, <2>4, Apart DEF OfPhase
  <2> QED BY <2>2, <2>3, <2>4, <2>5 DEF VisitInv, Turn, Loops
<1>2. CASE GatewaysDone
  <2>1. pc = "gateway" /\ pc' = "listProvider" /\ UNCHANGED <<groups, queue, providers, job, troubles, folder>>
    BY <1>2 DEF GatewaysDone, loops, ledger, output
  <2>2. Past' = Past /\ Past \subseteq Groups \cup OfPhase("gateway")
    BY <2>1 DEF Past, Placed, VisitInv, Turn
  <2>3. \A p \in DOMAIN Listing : p \notin Past /\ ToSet(Listing[p]) \cap Past = {}
    <3> SUFFICES ASSUME NEW p \in DOMAIN Listing PROVE p \notin Past /\ ToSet(Listing[p]) \cap Past = {}
      OBVIOUS
    <3>1. OfPhase("gateway") \cap OfPhase("provider") = {} /\ OfPhase("gateway") \subseteq Services
          /\ OfPhase("provider") \subseteq Services
      BY DEF OfPhase
    <3> QED BY <2>2, <3>1, Apart
  <2>4. Untouched(providers)'
    BY <1>0, <2>1, <2>2, <2>3 DEF Untouched, Past
  <2> QED BY <2>1, <2>2, <2>4 DEF VisitInv, Turn, Loops
<1>3. CASE ListProvider
  <2>1. /\ pc = "listProvider" /\ pc' = "provider" /\ providers # <<>>
        /\ queue' = Capped(Listing[Head(providers)])
        /\ UNCHANGED <<groups, providers, job, troubles, folder>>
    BY <1>3 DEF ListProvider, output
  <2>2. /\ Head(providers) \in DOMAIN Listing /\ Head(providers) \in ToSet(providers)
        /\ ToSet(Tail(providers)) \subseteq ToSet(providers)
    BY <2>1, TailFacts DEF TypeOK
  <2>3. NoRepeats(queue') /\ ToSet(queue') \subseteq ToSet(Listing[Head(providers)])
    BY <2>1, <2>2, Apart, CappedFacts
  <2>4. Past' = Past
    BY <2>1 DEF Past, Placed
  <2>5. Untouched(Tail(providers))' /\ Past \cap ToSet(queue') = {}
    BY <2>1, <2>2, <2>3, <2>4 DEF VisitInv, Untouched
  <2>6. ToSet(queue') \subseteq OfPhase("provider")
    BY <2>2, <2>3, Apart
  <2> QED BY <2>1, <2>3, <2>4, <2>5, <2>6 DEF VisitInv, Turn, Loops
<1>4. CASE ListFails
  <2>1. /\ pc = "listProvider" /\ pc' = pc /\ providers # <<>> /\ providers' = Tail(providers)
        /\ UNCHANGED <<groups, queue, job, folder>> /\ troubles' = troubles \cup {Head(providers)}
    BY <1>4 DEF ListFails, output, Blame
  <2>2. /\ Head(providers) \in DOMAIN Listing /\ NoRepeats(providers')
        /\ ToSet(providers) = {Head(providers)} \cup ToSet(providers') /\ Head(providers) \notin ToSet(providers')
    BY <2>1, TailFacts DEF TypeOK, VisitInv
  <2>3. Past' = Past \cup {Head(providers)}
    BY <2>1 DEF Past, Placed
  <2>4. Past' \cap ToSet(groups') = {} /\ Past' \cap ToSet(queue') = {}
    BY <1>0, <2>1, <2>2, <2>3, Apart DEF VisitInv
  <2>5. Untouched(providers)'
    <3> SUFFICES ASSUME NEW p \in ToSet(providers')
                 PROVE  p \notin troubles' /\ ToSet(Listing[p]) \cap Past' = {}
      BY DEF Untouched
    <3>1. p \notin troubles /\ ToSet(Listing[p]) \cap Past = {} /\ p # Head(providers) /\ p \in DOMAIN Listing
      BY <1>0, <2>1, <2>2 DEF VisitInv, Untouched
    <3>2. Head(providers) \notin ToSet(Listing[p])
      BY <2>2, <3>1, Apart DEF OfPhase
    <3> QED BY <2>1, <2>3, <3>1, <3>2
  <2> QED BY <2>1, <2>2, <2>4, <2>5 DEF VisitInv, Turn, Loops
<1>5. CASE ProviderDone
  <2>1. /\ pc = "provider" /\ pc' = "listProvider" /\ providers' = Tail(providers)
        /\ UNCHANGED <<groups, queue, job, troubles, folder>>
    BY <1>5 DEF ProviderDone, ledger, output
  <2>2. providers # <<>> /\ Untouched(Tail(providers))
    BY <2>1 DEF VisitInv, Turn
  <2>3. NoRepeats(providers')
    BY <2>1, <2>2, TailFacts DEF TypeOK, VisitInv
  <2>4. Past' = Past
    BY <2>1 DEF Past, Placed
  <2>5. Untouched(providers)'
    BY <2>1, <2>2, <2>4 DEF Untouched
  <2> QED BY <2>1, <2>3, <2>4, <2>5 DEF VisitInv, Turn, Loops
<1>6. CASE Finish
  <2>1. pc' = "done" /\ UNCHANGED <<groups, queue, providers, job, troubles, folder>>
    BY <1>6 DEF Finish, loops, ledger
  <2>2. Past' = Past
    BY <2>1 DEF Past, Placed
  <2> QED BY <2>1, <2>2 DEF VisitInv, Turn, Loops
<1> QED BY <1>1, <1>2, <1>3, <1>4, <1>5, <1>6

\* The steps of the two loops.
LEMMA LoopVisit ==
  ASSUME TypeOK, TypeOK', VisitInv,
         SkipGateway \/ \E ph \in Loops : CandidateFails(ph) \/ DryRun(ph) \/ Exports(ph)
  PROVE  VisitInv'
<1>1. CASE SkipGateway
  <2>1. /\ Take("gateway") /\ pc' = pc /\ UNCHANGED <<groups, providers, troubles, folder>>
    BY <1>1 DEF SkipGateway, CandidateFrame
  <2>2. Past' = Past /\ pc' = "gateway"
    BY <2>1 DEF Past, Placed, Take
  <2> QED BY <2>1, <2>2, VisitOne DEF Loops
<1>2. ASSUME NEW ph \in Loops, CandidateFails(ph) \/ DryRun(ph) \/ Exports(ph)
      PROVE  VisitInv'
  <2>1. /\ Take(ph) /\ UNCHANGED <<groups, providers>> /\ Head(queue) \in Services
        /\ UNCHANGED folder \/ Allocate(Head(queue))
    BY <1>2, TakeTypes DEF CandidateFails, DryRun, Exports, CandidateFrame
  <2>2. Placed' \subseteq Placed \cup {Head(queue)}
    BY <2>1, AllocatePlaces DEF Placed
  <2>3. CASE CandidateFails(ph) \/ DryRun(ph)
    <3>1. pc' = ph /\ troubles' \subseteq troubles \cup {Head(queue)}
      BY <2>3 DEF CandidateFails, DryRun, Take, CandidateFrame, Blame
    <3>2. Past' \subseteq Past \cup {Head(queue)}
      BY <2>2, <3>1 DEF Past
    <3> QED BY <2>1, <3>1, <3>2, VisitOne
  <2>4. CASE Exports(ph)
    <3>1. /\ Allocate(Head(queue)) /\ pc' = "write" /\ troubles' = troubles
          /\ job' = [by |-> Head(queue), todo |-> Attr[Head(queue)].files]
      BY <2>4 DEF Exports, Goto, CandidateFrame
    <3>2. job'.by = Head(queue)
      BY <3>1
    <3>3. folder'[Head(queue)] # NoFolder
      BY <2>1, <3>1, AllocatePlaces, DiscoverManyAssumption
    <3>4. Past' \subseteq Past \cup {Head(queue)}
      BY <2>2, <3>1 DEF Past
    <3> QED BY <2>1, <3>1, <3>2, <3>3, <3>4, VisitOne
  <2> QED BY <1>2, <2>3, <2>4
<1> QED BY <1>1, <1>2

LEMMA WriterVisit == TypeOK /\ VisitInv /\ (WriteFile \/ WriteFails \/ WriteDone) => VisitInv'
<1> SUFFICES ASSUME TypeOK, VisitInv, WriteFile \/ WriteFails \/ WriteDone PROVE VisitInv'
  OBVIOUS
<1>1. pc = "write" /\ UNCHANGED <<groups, queue, providers, folder>>
  BY DEF WriteFile, WriteFails, WriteDone, WriteFrame, loops
<1>2. \/ pc' = "write" /\ job'.by = job.by /\ troubles' = troubles
      \/ pc' = Attr[job.by].phase /\ troubles' \subseteq troubles \cup {job.by}
  <2>1. job \in [by : Services, todo : Seq(Names)]
    BY <1>1, JobTypes
  <2>2. CASE WriteFile
    BY <1>1, <2>1, <2>2 DEF WriteFile
  <2>3. CASE WriteFails \/ WriteDone
    BY <2>3 DEF WriteFails, WriteDone, Goto, Blame
  <2> QED BY <2>2, <2>3
<1> QED BY <1>1, <1>2, VisitWriting

LEMMA NextVisit == TypeOK /\ TypeOK' /\ VisitInv /\ [Next]_vars => VisitInv'
<1> SUFFICES ASSUME TypeOK, TypeOK', VisitInv, [Next]_vars PROVE VisitInv'
  OBVIOUS
<1>1. CASE UNCHANGED vars
  BY <1>1 DEF vars, VisitInv, Turn, Past, Placed, Untouched
<1> QED BY <1>1, EarlyVisit, BetweenVisit, LoopVisit, WriterVisit DEF Next, Loops

LEMMA AlwaysVisit == Spec => [](TypeOK /\ VisitInv)
BY InitTypes, NextTypes, InitVisit, NextVisit, PTL DEF Spec

-----------------------------------------------------------------------------
(* Everyone is counted.                                                    *)

Early == {"probe", "inventory", "repo", "list"}

\* Candidates a loop was given and has not counted yet, the one with the writer included.
Waiting(ph) == IF pc = ph THEN Len(queue)
               ELSE IF pc = "write" /\ Attr[job.by].phase = ph THEN Len(queue) + 1 ELSE 0

\* Each phase balances what it attempted with what became of it and what still waits; what failed is
\* who is blamed.
CountInv ==
  /\ IsFiniteSet(troubles) /\ Sum("failed") = Cardinality(troubles)
  /\ pc \in Early => \A what \in Outcomes : sums["gateway"][what] = 0
  /\ sums["repo"]["attempted"]
       = sums["repo"]["exported"] + sums["repo"]["failed"] + sums["repo"]["skipped"]
  /\ sums["gateway"]["attempted"]
       = sums["gateway"]["exported"] + sums["gateway"]["failed"] + sums["gateway"]["skipped"] + Waiting("gateway")
  /\ sums["provider"]["attempted"] + omitted + Cardinality(troubles \cap DOMAIN Listing)
       = sums["provider"]["exported"] + sums["provider"]["failed"] + sums["provider"]["skipped"]
         + Waiting("provider")

\* What an update of one counter does to all of them.
Set(c, d, ph, what, n) ==
  \A q \in Phases, w \in Outcomes : d[q][w] = IF q = ph /\ w = what THEN n ELSE c[q][w]

LEMMA SetOnce ==
  ASSUME NEW c \in [Phases -> Counts], NEW ph \in Phases, NEW what \in Outcomes, NEW n, NEW d,
         d = [c EXCEPT ![ph][what] = n]
  PROVE  Set(c, d, ph, what, n)
<1>1. c[ph] \in Counts
  OBVIOUS
<1>2. \A w \in Outcomes : [c[ph] EXCEPT ![what] = n][w] = IF w = what THEN n ELSE c[ph][w]
  BY <1>1 DEF Counts, Outcomes
<1>3. \A q \in Phases : d[q] = IF q = ph THEN [c[ph] EXCEPT ![what] = n] ELSE c[q]
  OBVIOUS
<1> QED BY <1>2, <1>3 DEF Set

\* So does counting.
LEMMA CountSets ==
  ASSUME sums \in [Phases -> Counts], NEW ph \in Phases, NEW what \in Outcomes, Count(ph, what)
  PROVE  Set(sums, sums', ph, what, sums[ph][what] + 1)
<1>1. sums' = [sums EXCEPT ![ph][what] = sums[ph][what] + 1]
  BY DEF Count
<1>2. \A d, n : d = [sums EXCEPT ![ph][what] = n] => Set(sums, d, ph, what, n)
  BY SetOnce
<1> QED BY <1>1, <1>2

\* One more to blame.
LEMMA BlamedOnce ==
  ASSUME IsFiniteSet(troubles), NEW x, x \notin troubles, Blame(x)
  PROVE  /\ IsFiniteSet(troubles') /\ Cardinality(troubles) \in Nat
         /\ Cardinality(troubles') = Cardinality(troubles) + 1
         /\ Cardinality(troubles \cap DOMAIN Listing) \in Nat
         /\ x \in DOMAIN Listing => Cardinality(troubles' \cap DOMAIN Listing)
                                     = Cardinality(troubles \cap DOMAIN Listing) + 1
         /\ x \notin DOMAIN Listing => troubles' \cap DOMAIN Listing = troubles \cap DOMAIN Listing
<1> DEFINE T == troubles \cap DOMAIN Listing
<1>1. troubles' = troubles \cup {x}
  BY DEF Blame
<1>2. IsFiniteSet(T)
  BY FS_Subset
<1>3. /\ IsFiniteSet(troubles') /\ Cardinality(troubles') = Cardinality(troubles) + 1
      /\ Cardinality(troubles) \in Nat /\ Cardinality(T) \in Nat
  BY <1>1, <1>2, FS_AddElement, FS_CardinalityType
<1>4. x \in DOMAIN Listing => Cardinality(troubles' \cap DOMAIN Listing) = Cardinality(T) + 1
  <2> SUFFICES ASSUME x \in DOMAIN Listing
               PROVE  Cardinality(troubles' \cap DOMAIN Listing) = Cardinality(T) + 1
    OBVIOUS
  <2>1. troubles' \cap DOMAIN Listing = T \cup {x} /\ x \notin T
    BY <1>1
  <2>2. Cardinality(T \cup {x}) = Cardinality(T) + 1
    <3> HIDE DEF T
    <3> QED BY <1>2, <2>1, FS_AddElement
  <2> QED BY <2>1, <2>2
<1>5. x \notin DOMAIN Listing => troubles' \cap DOMAIN Listing = T
  BY <1>1
<1> QED BY <1>3, <1>4, <1>5

LEMMA InitCount == Init => CountInv
<1> SUFFICES ASSUME Init PROVE CountInv
  OBVIOUS
<1>1. /\ troubles = {} /\ troubles \cap DOMAIN Listing = {} /\ pc = "probe" /\ omitted = 0
      /\ \A ph \in Phases : sums[ph] = None
  BY DEF Init
<1>2. \A what \in Outcomes : None[what] = 0
  BY DEF None, Outcomes
<1>3. \A ph \in Phases, what \in Outcomes : sums[ph][what] = 0
  BY <1>1, <1>2
<1>4. IsFiniteSet({}) /\ Cardinality({}) = 0
  BY FS_EmptySet
<1> QED BY <1>1, <1>3, <1>4 DEF CountInv, Sum, Waiting, Phases, Outcomes

\* A step that counts nothing and leaves as many waiting as before.
LEMMA CountNothing ==
  ASSUME CountInv, UNCHANGED <<sums, troubles, omitted>>, pc' \in Early => pc \in Early,
         \A ph \in Loops : Waiting(ph)' = Waiting(ph)
  PROVE  CountInv'
BY DEF CountInv, Sum, Loops

\* The lengths that wait are numbers.
LEMMA WaitingTypes ==
  ASSUME TypeOK, NEW ph
  PROVE  Waiting(ph) \in Nat /\ Len(queue) \in Nat
<1>1. Len(queue) \in Nat
  BY DEF TypeOK
<1> QED BY <1>1 DEF Waiting

\* A candidate, or the artifact of one, is counted once: it no longer waits, and is blamed if it failed.
LEMMA CountOne ==
  ASSUME TypeOK, CountInv, NEW ph \in Loops, NEW what \in {"exported", "failed", "skipped"},
         Count(ph, what), UNCHANGED omitted, pc' \notin Early,
         Waiting(ph) \in Nat, Waiting(ph)' \in Nat, Waiting(ph) = Waiting(ph)' + 1,
         \A q \in Loops \ {ph} : Waiting(q)' = Waiting(q),
         IF what = "failed" THEN \E x \in Services \ troubles : Blame(x) ELSE UNCHANGED troubles
  PROVE  CountInv'
<1> DEFINE C == Cardinality(troubles)
           L == Cardinality(troubles \cap DOMAIN Listing)
<1>1. /\ IsFiniteSet(troubles') /\ L' = L
      /\ C' = C + (IF what = "failed" THEN 1 ELSE 0)
      /\ C \in Nat
  <2>1. CASE what = "failed"
    <3>1. PICK x : x \in Services \ troubles /\ Blame(x)
      BY <2>1
    <3>2. x \notin DOMAIN Listing
      BY <3>1, Apart
    <3>3. IsFiniteSet(troubles)
      BY DEF CountInv
    <3>4. /\ IsFiniteSet(troubles') /\ Cardinality(troubles) \in Nat
          /\ Cardinality(troubles') = Cardinality(troubles) + 1
          /\ troubles' \cap DOMAIN Listing = troubles \cap DOMAIN Listing
      BY <3>1, <3>2, <3>3, BlamedOnce
    <3> QED BY <2>1, <3>4
  <2>2. CASE what # "failed"
    <3>1. IsFiniteSet(troubles) /\ troubles' = troubles
      BY <2>2 DEF CountInv
    <3> QED BY <2>2, <3>1, FS_CardinalityType
  <2> QED BY <2>1, <2>2
<1>2. sums \in [Phases -> Counts] /\ ph \in Phases /\ what \in Outcomes /\ "failed" \in Outcomes
  BY DEF TypeOK, Loops, Phases, Outcomes
<1>3. \A q \in Phases, w \in Outcomes :
        /\ sums[q][w] \in Nat
        /\ sums'[q][w] = IF q = ph /\ w = what THEN sums[ph][what] + 1 ELSE sums[q][w]
  <2>1. \A q \in Phases, w \in Outcomes : sums[q][w] \in Nat
    BY <1>2, Numbers
  <2>2. Set(sums, sums', ph, what, sums[ph][what] + 1)
    BY <1>2, CountSets
  <2> QED BY <2>1, <2>2 DEF Set
<1> HIDE DEF C, L
<1>5. Sum("failed")' = C'
  BY <1>1, <1>2, <1>3 DEF CountInv, Sum, C, Phases, Loops, Outcomes
<1>6. sums'["repo"]["attempted"]
        = sums'["repo"]["exported"] + sums'["repo"]["failed"] + sums'["repo"]["skipped"]
  BY <1>2, <1>3 DEF CountInv, Phases, Loops, Outcomes
<1>7. sums'["gateway"]["attempted"]
       = sums'["gateway"]["exported"] + sums'["gateway"]["failed"] + sums'["gateway"]["skipped"]
         + Waiting("gateway")'
  <2>1. /\ Waiting("gateway") \in Nat /\ Waiting("gateway")' \in Nat
        /\ Waiting("gateway") = Waiting("gateway")' + (IF ph = "gateway" THEN 1 ELSE 0)
    <3>1. Waiting("gateway") \in Nat
      BY WaitingTypes
    <3> QED BY <3>1 DEF Loops
  <2>2. /\ sums["gateway"]["attempted"] \in Nat /\ sums["gateway"]["exported"] \in Nat
        /\ sums["gateway"]["failed"] \in Nat /\ sums["gateway"]["skipped"] \in Nat
    BY <1>3 DEF Phases, Outcomes
  <2>3. /\ sums'["gateway"]["attempted"] = sums["gateway"]["attempted"]
        /\ \A w \in {"exported", "failed", "skipped"} :
             sums'["gateway"][w]
               = sums["gateway"][w] + (IF ph = "gateway" /\ w = what THEN 1 ELSE 0)
    BY <1>3, <2>2 DEF Phases, Outcomes
  <2>4. sums["gateway"]["attempted"]
          = sums["gateway"]["exported"] + sums["gateway"]["failed"] + sums["gateway"]["skipped"]
            + Waiting("gateway")
    BY DEF CountInv
  <2> QED BY <2>1, <2>2, <2>3, <2>4
<1>8. sums'["provider"]["attempted"] + omitted' + L'
       = sums'["provider"]["exported"] + sums'["provider"]["failed"] + sums'["provider"]["skipped"]
         + Waiting("provider")'
  <2>1. /\ Waiting("provider") \in Nat /\ Waiting("provider")' \in Nat
        /\ Waiting("provider") = Waiting("provider")' + (IF ph = "provider" THEN 1 ELSE 0)
    <3>1. Waiting("provider") \in Nat
      BY WaitingTypes
    <3> QED BY <3>1 DEF Loops
  <2>2. /\ sums["provider"]["attempted"] \in Nat /\ sums["provider"]["exported"] \in Nat
        /\ sums["provider"]["failed"] \in Nat /\ sums["provider"]["skipped"] \in Nat
    BY <1>3 DEF Phases, Outcomes
  <2>3. /\ sums'["provider"]["attempted"] = sums["provider"]["attempted"]
        /\ \A w \in {"exported", "failed", "skipped"} :
             sums'["provider"][w]
               = sums["provider"][w] + (IF ph = "provider" /\ w = what THEN 1 ELSE 0)
    BY <1>3, <2>2 DEF Phases, Outcomes
  <2>4. sums["provider"]["attempted"] + omitted + L
          = sums["provider"]["exported"] + sums["provider"]["failed"] + sums["provider"]["skipped"]
            + Waiting("provider")
    BY DEF CountInv, L
  <2>5. omitted \in Nat /\ omitted' = omitted /\ L \in Nat
    <3>1. IsFiniteSet(troubles \cap DOMAIN Listing)
      BY FS_Subset DEF CountInv
    <3> QED BY <3>1, FS_CardinalityType DEF TypeOK, L
  <2> QED BY <1>1, <2>1, <2>2, <2>3, <2>4, <2>5
<1> QED BY <1>1, <1>5, <1>6, <1>7, <1>8 DEF CountInv, C, L

\* A group counts as attempted and as what became of it.
LEMMA CountGroup ==
  ASSUME TypeOK, CountInv, NEW what \in {"exported", "failed", "skipped"},
         Attempt(what), UNCHANGED <<pc, queue, job, omitted>>, pc = "repo",
         IF what = "failed" THEN \E x \in Groups \ troubles : Blame(x) ELSE UNCHANGED troubles
  PROVE  CountInv'
<1> DEFINE C == Cardinality(troubles)
           L == Cardinality(troubles \cap DOMAIN Listing)
<1>1. /\ IsFiniteSet(troubles') /\ L' = L
      /\ C' = C + (IF what = "failed" THEN 1 ELSE 0)
      /\ C \in Nat
  <2>1. CASE what = "failed"
    <3>1. PICK x : x \in Groups \ troubles /\ Blame(x)
      BY <2>1
    <3>2. x \notin DOMAIN Listing
      BY <3>1, Apart
    <3>3. IsFiniteSet(troubles)
      BY DEF CountInv
    <3>4. /\ IsFiniteSet(troubles') /\ Cardinality(troubles) \in Nat
          /\ Cardinality(troubles') = Cardinality(troubles) + 1
          /\ troubles' \cap DOMAIN Listing = troubles \cap DOMAIN Listing
      BY <3>1, <3>2, <3>3, BlamedOnce
    <3> QED BY <2>1, <3>4
  <2>2. CASE what # "failed"
    <3>1. IsFiniteSet(troubles) /\ troubles' = troubles
      BY <2>2 DEF CountInv
    <3> QED BY <2>2, <3>1, FS_CardinalityType
  <2> QED BY <2>1, <2>2
<1> DEFINE c == [sums EXCEPT !["repo"]["attempted"] = sums["repo"]["attempted"] + 1]
<1>2. sums \in [Phases -> Counts] /\ "repo" \in Phases /\ what \in Outcomes /\ "attempted" \in Outcomes
  BY DEF TypeOK, Phases, Outcomes
<1>3. \A q \in Phases, w \in Outcomes :
        /\ sums[q][w] \in Nat
        /\ c[q][w] = IF q = "repo" /\ w = "attempted" THEN sums["repo"]["attempted"] + 1 ELSE sums[q][w]
  <2>1. \A q \in Phases, w \in Outcomes : sums[q][w] \in Nat
    BY <1>2, Numbers
  <2>2. \A d : d = c => Set(sums, d, "repo", "attempted", sums["repo"]["attempted"] + 1)
    BY <1>2, SetOnce
  <2>3. Set(sums, c, "repo", "attempted", sums["repo"]["attempted"] + 1)
    <3> HIDE DEF c
    <3> QED BY <2>2
  <2> HIDE DEF c
  <2> QED BY <2>1, <2>3 DEF Set
<1>4. c \in [Phases -> Counts]
  <2>1. sums["repo"]["attempted"] + 1 \in Nat
    BY <1>2, <1>3
  <2> QED BY <1>2, <2>1, CountTypes
<1>5. sums' = [c EXCEPT !["repo"][what] = c["repo"][what] + 1]
  BY DEF Attempt
<1> HIDE DEF c, C, L
<1>6. \A q \in Phases, w \in Outcomes :
        sums'[q][w] = IF q = "repo" /\ w = what THEN c["repo"][what] + 1 ELSE c[q][w]
  <2>1. Set(c, sums', "repo", what, c["repo"][what] + 1)
    BY <1>2, <1>4, <1>5, SetOnce
  <2> QED BY <2>1 DEF Set
<1>7. /\ sums'["repo"]["attempted"] = sums["repo"]["attempted"] + 1
      /\ \A w \in {"exported", "failed", "skipped"} :
           sums'["repo"][w] = sums["repo"][w] + (IF w = what THEN 1 ELSE 0)
      /\ \A q \in Loops, w \in Outcomes : sums'[q][w] = sums[q][w]
  BY <1>2, <1>3, <1>6 DEF Phases, Outcomes, Loops
<1>8. \A q \in Phases, w \in Outcomes : sums[q][w] \in Nat
  BY <1>3
<1>9. Sum("failed")' = C'
  BY <1>1, <1>7, <1>8 DEF CountInv, Sum, C, Phases, Loops, Outcomes
<1>10. sums'["repo"]["attempted"]
        = sums'["repo"]["exported"] + sums'["repo"]["failed"] + sums'["repo"]["skipped"]
  BY <1>7, <1>8 DEF CountInv, Phases, Outcomes
<1>11. \A ph \in Loops : Waiting(ph)' = Waiting(ph)
  BY DEF Waiting, Loops
<1>12. /\ pc' \in Early => \A w \in Outcomes : sums'["gateway"][w] = 0
       /\ sums'["gateway"]["attempted"]
            = sums'["gateway"]["exported"] + sums'["gateway"]["failed"] + sums'["gateway"]["skipped"]
              + Waiting("gateway")'
       /\ sums'["provider"]["attempted"] + omitted' + L'
            = sums'["provider"]["exported"] + sums'["provider"]["failed"] + sums'["provider"]["skipped"]
              + Waiting("provider")'
  BY <1>1, <1>7, <1>11 DEF CountInv, L, Loops, Outcomes
<1> QED BY <1>1, <1>9, <1>10, <1>12 DEF CountInv, C, L

LEMMA EarlyCount ==
  TypeOK /\ VisitInv /\ CountInv /\ (Probe \/ Rejects \/ Inventory \/ SkipGroup \/ VisitGroup \/ GroupsDone)
    => CountInv'
<1> SUFFICES ASSUME TypeOK, VisitInv, CountInv,
                    Probe \/ Rejects \/ Inventory \/ SkipGroup \/ VisitGroup \/ GroupsDone
             PROVE  CountInv'
  OBVIOUS
<1>1. CASE Probe \/ Inventory \/ GroupsDone
  <2>1. UNCHANGED <<sums, troubles, omitted>> /\ pc \in Early /\ pc' \in Early
    BY <1>1 DEF Probe, Inventory, GroupsDone, Goto, ledger, Early
  <2>2. \A ph \in Loops : Waiting(ph)' = 0 /\ Waiting(ph) = 0
    BY <2>1 DEF Waiting, Loops, Early
  <2> QED BY <2>1, <2>2, CountNothing
<1>2. CASE Rejects
  <2>1. UNCHANGED <<sums, troubles, omitted>> /\ pc' = "threw"
        /\ (pc \in Early \/ (pc = "gateway" /\ queue = <<>>))
    BY <1>2 DEF Rejects, Goto, ledger, Early
  <2>2. \A ph \in Loops : Waiting(ph)' = 0 /\ Waiting(ph) = 0
    BY <2>1 DEF Waiting, Loops, Early
  <2> QED BY <2>1, <2>2, CountNothing DEF Early
<1>3. CASE SkipGroup
  BY <1>3, CountGroup DEF SkipGroup, GroupFrame
<1>4. CASE VisitGroup
  <2>1. Head(groups) \in Groups \ troubles
    <3>1. Head(groups) \in ToSet(groups) /\ Head(groups) \in Groups
      BY <1>4, TailFacts DEF TypeOK, VisitGroup
    <3> QED BY <3>1 DEF VisitInv, Past
  <2>2. \/ Attempt("exported") /\ UNCHANGED troubles
        \/ Attempt("failed") /\ Blame(Head(groups))
    BY <1>4 DEF VisitGroup
  <2>3. pc = "repo" /\ UNCHANGED <<pc, queue, job, omitted>>
    BY <1>4 DEF VisitGroup, GroupFrame
  <2>4. CASE Attempt("exported") /\ UNCHANGED troubles
    BY <2>3, <2>4, CountGroup
  <2>5. CASE Attempt("failed") /\ Blame(Head(groups))
    BY <2>1, <2>3, <2>5, CountGroup
  <2> QED BY <2>2, <2>4, <2>5
<1> QED BY <1>1, <1>2, <1>3, <1>4

LEMMA BetweenCount ==
  TypeOK /\ VisitInv /\ CountInv
    /\ (ListGateways \/ GatewaysDone \/ ListProvider \/ ListFails \/ ProviderDone \/ Finish)
    => CountInv'
<1> SUFFICES ASSUME TypeOK, VisitInv, CountInv,
                    ListGateways \/ GatewaysDone \/ ListProvider \/ ListFails \/ ProviderDone \/ Finish
             PROVE  CountInv'
  OBVIOUS
<1>0. sums \in [Phases -> Counts] /\ \A q \in Phases, w \in Outcomes : sums[q][w] \in Nat
  BY Numbers DEF TypeOK
<1>1. CASE ListGateways
  <2>1. /\ pc = "list" /\ pc' = "gateway" /\ UNCHANGED <<troubles, omitted>>
        /\ sums' = [sums EXCEPT !["gateway"]["attempted"] = Len(queue')]
    BY <1>1 DEF ListGateways, Goto
  <2>2. \A q \in Phases, w \in Outcomes :
          sums'[q][w] = IF q = "gateway" /\ w = "attempted" THEN Len(queue') ELSE sums[q][w]
    <3>1. "gateway" \in Phases /\ "attempted" \in Outcomes
      BY DEF Phases, Outcomes
    <3>2. Set(sums, sums', "gateway", "attempted", Len(queue'))
      BY <1>0, <2>1, <3>1, SetOnce
    <3> QED BY <3>2 DEF Set
  <2>3. Len(queue') \in Nat
    <3>1. TypeOK'
      BY <1>1, ListGatewaysTypes
    <3> QED BY <3>1 DEF TypeOK
  <2>4. /\ Waiting("gateway")' = Len(queue') /\ Waiting("gateway") = 0
        /\ Waiting("provider")' = 0 /\ Waiting("provider") = 0
    BY <2>1 DEF Waiting
  <2>5. \A w \in Outcomes : sums["gateway"][w] = 0
    BY <2>1 DEF CountInv, Early
  <2>6. pc' \notin Early
    BY <2>1 DEF Early
  <2>7. Sum("failed")' = Cardinality(troubles')
    BY <2>1, <2>2 DEF CountInv, Sum, Phases, Outcomes
  <2>8. /\ sums'["repo"]["attempted"]
            = sums'["repo"]["exported"] + sums'["repo"]["failed"] + sums'["repo"]["skipped"]
        /\ sums'["gateway"]["attempted"]
            = sums'["gateway"]["exported"] + sums'["gateway"]["failed"] + sums'["gateway"]["skipped"]
              + Waiting("gateway")'
    BY <2>2, <2>3, <2>4, <2>5 DEF CountInv, Phases, Outcomes
  <2>9. sums'["provider"]["attempted"] + omitted' + Cardinality(troubles' \cap DOMAIN Listing)
          = sums'["provider"]["exported"] + sums'["provider"]["failed"] + sums'["provider"]["skipped"]
            + Waiting("provider")'
    BY <2>1, <2>2, <2>4 DEF CountInv, Phases, Outcomes
  <2> QED BY <2>1, <2>6, <2>7, <2>8, <2>9 DEF CountInv
<1>2. CASE GatewaysDone \/ ProviderDone \/ Finish
  <2>1. UNCHANGED <<sums, troubles, omitted>> /\ pc' \in {"listProvider", "done"}
        /\ (pc = "listProvider" \/ (pc \in Loops /\ queue = <<>>))
    BY <1>2 DEF GatewaysDone, ProviderDone, Finish, Goto, ledger, Loops
  <2>2. \A ph \in Loops : Waiting(ph)' = 0 /\ Waiting(ph) = 0
    BY <2>1 DEF Waiting, Loops
  <2>3. pc' \notin Early
    BY <2>1 DEF Early
  <2> QED BY <2>1, <2>2, <2>3, CountNothing
<1>3. CASE ListProvider
  <2> DEFINE all == Listing[Head(providers)]
             kept == Capped(all)
             c == [sums EXCEPT !["provider"]["attempted"] = sums["provider"]["attempted"] + Len(kept)]
  <2>1. /\ pc = "listProvider" /\ pc' = "provider" /\ troubles' = troubles /\ queue' = kept
        /\ omitted' = omitted + Len(all) - Len(kept)
        /\ sums' = [c EXCEPT !["provider"]["skipped"] = c["provider"]["skipped"] + Len(all) - Len(kept)]
    BY <1>3 DEF ListProvider, Goto
  <2>2. Len(all) \in Nat /\ Len(kept) \in Nat /\ Len(kept) <= Len(all)
    <3>1. Head(providers) \in DOMAIN Listing
      BY <1>3, TailFacts DEF TypeOK, ListProvider
    <3>2. all \in Seq(Services)
      BY <3>1, Apart
    <3> QED BY <3>2, CappedFacts
  <2> HIDE DEF all, kept
  <2>3. \A q \in Phases, w \in Outcomes :
          c[q][w] = IF q = "provider" /\ w = "attempted" THEN sums["provider"]["attempted"] + Len(kept) ELSE sums[q][w]
    <3>1. "provider" \in Phases /\ "attempted" \in Outcomes
      BY DEF Phases, Outcomes
    <3>2. \A d : d = c => Set(sums, d, "provider", "attempted", sums["provider"]["attempted"] + Len(kept))
      BY <1>0, <3>1, SetOnce
    <3>3. Set(sums, c, "provider", "attempted", sums["provider"]["attempted"] + Len(kept))
      <4> HIDE DEF c
      <4> QED BY <3>2
    <3> HIDE DEF c
    <3> QED BY <3>3 DEF Set
  <2>4. c \in [Phases -> Counts]
    <3>1. sums["provider"]["attempted"] + Len(kept) \in Nat
      BY <1>0, <2>2, SMTT(30) DEF Phases, Outcomes
    <3> QED BY <1>0, <3>1, CountTypes DEF Phases, Outcomes
  <2> HIDE DEF c
  <2>5. \A q \in Phases, w \in Outcomes :
          sums'[q][w] = IF q = "provider" /\ w = "skipped" THEN c["provider"]["skipped"] + Len(all) - Len(kept)
                        ELSE c[q][w]
    <3>1. "provider" \in Phases /\ "skipped" \in Outcomes
      BY DEF Phases, Outcomes
    <3>2. Set(c, sums', "provider", "skipped", c["provider"]["skipped"] + Len(all) - Len(kept))
      BY <2>1, <2>4, <3>1, SetOnce
    <3> QED BY <3>2 DEF Set
  <2>6. /\ sums'["provider"]["attempted"] = sums["provider"]["attempted"] + Len(kept)
        /\ sums'["provider"]["skipped"] = sums["provider"]["skipped"] + Len(all) - Len(kept)
        /\ \A w \in {"exported", "failed"} : sums'["provider"][w] = sums["provider"][w]
        /\ \A q \in {"repo", "gateway"}, w \in Outcomes : sums'[q][w] = sums[q][w]
    BY <2>3, <2>5 DEF Phases, Outcomes
  <2>7. /\ Waiting("provider")' = Len(kept) /\ Waiting("provider") = 0
        /\ Waiting("gateway")' = 0 /\ Waiting("gateway") = 0
    BY <2>1 DEF Waiting
  <2>8. pc' \notin Early
    BY <2>1 DEF Early
  <2>9. Sum("failed")' = Cardinality(troubles')
    BY <2>1, <2>6 DEF CountInv, Sum, Outcomes
  <2>10. /\ sums'["repo"]["attempted"]
             = sums'["repo"]["exported"] + sums'["repo"]["failed"] + sums'["repo"]["skipped"]
         /\ sums'["gateway"]["attempted"]
             = sums'["gateway"]["exported"] + sums'["gateway"]["failed"] + sums'["gateway"]["skipped"]
               + Waiting("gateway")'
    BY <2>6, <2>7 DEF CountInv, Outcomes
  <2>11. sums'["provider"]["attempted"] + omitted' + Cardinality(troubles' \cap DOMAIN Listing)
           = sums'["provider"]["exported"] + sums'["provider"]["failed"] + sums'["provider"]["skipped"]
             + Waiting("provider")'
    <3>1. IsFiniteSet(troubles \cap DOMAIN Listing) /\ omitted \in Nat
      BY FS_Subset DEF CountInv, TypeOK
    <3>2. Cardinality(troubles \cap DOMAIN Listing) \in Nat
      BY <3>1, FS_CardinalityType
    <3>3. \A w \in Outcomes : sums["provider"][w] \in Nat
      BY <1>0 DEF Phases
    <3>4. sums["provider"]["attempted"] + omitted + Cardinality(troubles \cap DOMAIN Listing)
            = sums["provider"]["exported"] + sums["provider"]["failed"] + sums["provider"]["skipped"]
      BY <2>7, <3>3 DEF CountInv, Outcomes
    <3>5. /\ sums'["provider"]["exported"] = sums["provider"]["exported"]
          /\ sums'["provider"]["failed"] = sums["provider"]["failed"]
          /\ Cardinality(troubles' \cap DOMAIN Listing) = Cardinality(troubles \cap DOMAIN Listing)
      BY <2>1, <2>6
    <3>6. /\ sums["provider"]["attempted"] \in Nat /\ sums["provider"]["exported"] \in Nat
          /\ sums["provider"]["failed"] \in Nat /\ sums["provider"]["skipped"] \in Nat
      BY <3>3 DEF Outcomes
    <3> DEFINE l == Cardinality(troubles \cap DOMAIN Listing)
               m == Cardinality(troubles' \cap DOMAIN Listing)
    <3>7. l \in Nat /\ m = l
      BY <3>2, <3>5
    <3>8. sums["provider"]["attempted"] + omitted + l
            = sums["provider"]["exported"] + sums["provider"]["failed"] + sums["provider"]["skipped"]
      BY <3>4
    <3> HIDE DEF l, m
    <3>9. sums'["provider"]["attempted"] + omitted' + m
           = sums'["provider"]["exported"] + sums'["provider"]["failed"] + sums'["provider"]["skipped"]
             + Len(kept)
      <4> DEFINE a == sums["provider"]["attempted"]
                 e == sums["provider"]["exported"]
                 f == sums["provider"]["failed"]
                 s == sums["provider"]["skipped"]
                 n == Len(all)
                 k == Len(kept)
      <4>1. a \in Nat /\ e \in Nat /\ f \in Nat /\ s \in Nat /\ n \in Nat /\ k \in Nat
        BY <2>2, <3>6
      <4>2. a + omitted + l = e + f + s /\ omitted' = omitted + n - k
        BY <2>1, <3>8
      <4>3. /\ sums'["provider"]["attempted"] = a + k /\ sums'["provider"]["exported"] = e
            /\ sums'["provider"]["failed"] = f /\ sums'["provider"]["skipped"] = s + n - k
        BY <2>6, <3>5
      <4> HIDE DEF a, e, f, s, n, k
      <4>4. (a + k) + (omitted + n - k) + l = e + f + (s + n - k) + k
        BY <3>1, <3>7, <4>1, <4>2
      <4> QED BY <3>7, <4>2, <4>3, <4>4 DEF k
    <3> QED BY <2>7, <3>9 DEF m
  <2> QED BY <2>1, <2>8, <2>9, <2>10, <2>11 DEF CountInv
<1>4. CASE ListFails
  <2> DEFINE p == Head(providers)
  <2>1. /\ pc = "listProvider" /\ pc' = pc /\ Count("provider", "failed") /\ Blame(p)
        /\ UNCHANGED <<queue, job, omitted>>
    BY <1>4 DEF ListFails, output
  <2>2. p \in DOMAIN Listing /\ p \notin troubles
    <3>1. p \in ToSet(providers) /\ p \in DOMAIN Listing
      BY <1>4, TailFacts DEF TypeOK, ListFails
    <3> QED BY <2>1, <3>1 DEF VisitInv, Untouched
  <2> HIDE DEF p
  <2>3. /\ IsFiniteSet(troubles') /\ Cardinality(troubles) \in Nat
        /\ Cardinality(troubles') = Cardinality(troubles) + 1
        /\ Cardinality(troubles \cap DOMAIN Listing) \in Nat
        /\ Cardinality(troubles' \cap DOMAIN Listing) = Cardinality(troubles \cap DOMAIN Listing) + 1
    BY <2>1, <2>2, BlamedOnce DEF CountInv
  <2>4. \A q \in Phases, w \in Outcomes :
          sums'[q][w] = IF q = "provider" /\ w = "failed" THEN sums["provider"]["failed"] + 1 ELSE sums[q][w]
    <3>1. "provider" \in Phases /\ "failed" \in Outcomes
      BY DEF Phases, Outcomes
    <3>2. Set(sums, sums', "provider", "failed", sums["provider"]["failed"] + 1)
      BY <1>0, <2>1, <3>1, CountSets
    <3> QED BY <3>2 DEF Set
  <2>5. \A ph \in Loops : Waiting(ph)' = 0 /\ Waiting(ph) = 0
    BY <2>1 DEF Waiting, Loops
  <2>6. pc' \notin Early
    BY <2>1 DEF Early
  <2>7. Sum("failed")' = Cardinality(troubles')
    BY <1>0, <2>3, <2>4 DEF CountInv, Sum, Phases, Outcomes
  <2>8. /\ sums'["repo"]["attempted"]
             = sums'["repo"]["exported"] + sums'["repo"]["failed"] + sums'["repo"]["skipped"]
        /\ sums'["gateway"]["attempted"]
             = sums'["gateway"]["exported"] + sums'["gateway"]["failed"] + sums'["gateway"]["skipped"]
               + Waiting("gateway")'
    BY <2>4, <2>5 DEF CountInv, Phases, Outcomes, Loops
  <2>9. sums'["provider"]["attempted"] + omitted' + Cardinality(troubles' \cap DOMAIN Listing)
           = sums'["provider"]["exported"] + sums'["provider"]["failed"] + sums'["provider"]["skipped"]
             + Waiting("provider")'
    <3>1. omitted \in Nat /\ \A w \in Outcomes : sums["provider"][w] \in Nat
      BY <1>0 DEF Phases, TypeOK
    <3> QED BY <2>1, <2>3, <2>4, <2>5, <3>1 DEF CountInv, Phases, Outcomes, Loops
  <2> QED BY <2>3, <2>6, <2>7, <2>8, <2>9 DEF CountInv
<1> QED BY <1>1, <1>2, <1>3, <1>4

LEMMA LoopCount ==
  ASSUME TypeOK, TypeOK', VisitInv, CountInv,
         SkipGateway \/ \E ph \in Loops : CandidateFails(ph) \/ DryRun(ph) \/ Exports(ph)
  PROVE  CountInv'
<1>1. ASSUME NEW ph \in Loops, Take(ph)
      PROVE  /\ Head(queue) \in Services \ troubles /\ Head(queue) \in OfPhase(ph)
             /\ Len(queue) \in Nat /\ Len(queue') \in Nat /\ Len(queue) = Len(queue') + 1
             /\ Waiting(ph) = Len(queue) /\ \A q \in Loops \ {ph} : Waiting(q) = 0
             /\ pc' = ph => Waiting(ph)' = Len(queue') /\ \A q \in Loops \ {ph} : Waiting(q)' = 0
  <2>1. /\ pc = ph /\ Head(queue) \in Services /\ ToSet(queue) = {Head(queue)} \cup ToSet(queue')
        /\ Len(queue) \in Nat /\ Len(queue') \in Nat /\ Len(queue) = Len(queue') + 1
    BY <1>1, TailFacts DEF TypeOK, Take
  <2>2. Head(queue) \notin troubles /\ Head(queue) \in OfPhase(ph)
    BY <2>1 DEF VisitInv, Past, Turn
  <2> QED BY <2>1, <2>2 DEF Waiting, Loops
<1>2. ASSUME NEW ph \in Loops, CandidateFails(ph) \/ DryRun(ph) \/ (ph = "gateway" /\ SkipGateway)
      PROVE  CountInv'
  <2>1. Take(ph) /\ pc' = ph /\ omitted' = omitted
    BY <1>2 DEF CandidateFails, DryRun, SkipGateway, CandidateFrame, Take
  <2>2. /\ Waiting(ph) \in Nat /\ Waiting(ph)' \in Nat /\ Waiting(ph) = Waiting(ph)' + 1
        /\ \A q \in Loops \ {ph} : Waiting(q)' = Waiting(q)
    BY <1>1, <2>1
  <2>3. pc' \notin Early
    BY <2>1 DEF Loops, Early
  <2>4. CASE CandidateFails(ph)
    <3>1. Count(ph, "failed") /\ Blame(Head(queue)) /\ Head(queue) \in Services \ troubles
      BY <1>1, <2>1, <2>4 DEF CandidateFails
    <3> QED BY <2>1, <2>2, <2>3, <3>1, CountOne
  <2>5. CASE DryRun(ph) \/ (ph = "gateway" /\ SkipGateway)
    <3>1. Count(ph, "skipped") /\ UNCHANGED troubles
      BY <2>5 DEF DryRun, SkipGateway
    <3> QED BY <2>1, <2>2, <2>3, <3>1, CountOne
  <2> QED BY <1>2, <2>4, <2>5
<1>3. ASSUME NEW ph \in Loops, Exports(ph)
      PROVE  CountInv'
  <2>1. /\ Take(ph) /\ pc' = "write" /\ UNCHANGED <<sums, troubles, omitted>>
        /\ job' = [by |-> Head(queue), todo |-> Attr[Head(queue)].files]
    BY <1>3 DEF Exports, Goto, CandidateFrame
  <2>2. job'.by = Head(queue) /\ Attr[job'.by].phase = ph
    BY <1>1, <2>1 DEF OfPhase
  <2>3. \A q \in Loops : Waiting(q)' = Waiting(q)
    <3>1. Waiting(ph)' = Len(queue') + 1 /\ \A q \in Loops \ {ph} : Waiting(q)' = 0
      BY <2>1, <2>2 DEF Waiting, Loops
    <3> QED BY <1>1, <2>1, <3>1
  <2>4. pc' \notin Early
    BY <2>1 DEF Early
  <2> QED BY <2>1, <2>3, <2>4, CountNothing
<1>4. CASE SkipGateway
  BY <1>2, <1>4 DEF Loops
<1> QED BY <1>2, <1>3, <1>4

LEMMA WriterCount ==
  TypeOK /\ VisitInv /\ CountInv /\ (WriteFile \/ WriteFails \/ WriteDone) => CountInv'
<1> SUFFICES ASSUME TypeOK, VisitInv, CountInv, WriteFile \/ WriteFails \/ WriteDone PROVE CountInv'
  OBVIOUS
<1> PICK ph : ph = Attr[job.by].phase
  OBVIOUS
<1>1. pc = "write" /\ UNCHANGED <<queue, omitted>>
  BY DEF WriteFile, WriteFails, WriteDone, WriteFrame, loops
<1>2. /\ job \in [by : Services, todo : Seq(Names)] /\ job.by \in Services /\ ph \in Loops
      /\ Len(queue) \in Nat /\ job.by \notin troubles
  BY <1>1, JobTypes, WaitingTypes DEF VisitInv
<1>3. Waiting(ph) = Len(queue) + 1 /\ \A q \in Loops \ {ph} : Waiting(q) = 0
  BY <1>1, <1>2 DEF Waiting, Loops
<1>4. CASE WriteFile
  <2>1. pc' = "write" /\ job'.by = job.by /\ UNCHANGED <<sums, troubles>>
    BY <1>1, <1>2, <1>4 DEF WriteFile
  <2>2. \A q \in Loops : Waiting(q)' = Waiting(q)
    BY <1>1, <2>1 DEF Waiting
  <2>3. pc' \notin Early
    BY <2>1 DEF Early
  <2> QED BY <1>1, <2>1, <2>2, <2>3, CountNothing
<1>5. CASE WriteFails \/ WriteDone
  <2>1. pc' = ph
    BY <1>5 DEF WriteFails, WriteDone, Goto
  <2>2. Waiting(ph)' = Len(queue) /\ \A q \in Loops \ {ph} : Waiting(q)' = 0
    BY <1>1, <1>2, <2>1 DEF Waiting, Loops
  <2>3. pc' \notin Early
    BY <1>2, <2>1 DEF Loops, Early
  <2>4. CASE WriteFails
    <3>1. Count(ph, "failed") /\ Blame(job.by)
      BY <2>4 DEF WriteFails
    <3> QED BY <1>1, <1>2, <1>3, <2>2, <2>3, <3>1, CountOne
  <2>5. CASE WriteDone
    <3>1. Count(ph, "exported") /\ UNCHANGED troubles
      BY <2>5 DEF WriteDone
    <3> QED BY <1>1, <1>2, <1>3, <2>2, <2>3, <3>1, CountOne
  <2> QED BY <1>5, <2>4, <2>5
<1> QED BY <1>4, <1>5

\* Whatever fails in whatever phase, every group and every candidate is counted once, every provider
\* that cannot list is one failure, and the run is unresolved exactly when something failed.
THEOREM AllAreCounted == Spec => []EveryoneIsCounted
<1>1. TypeOK /\ TypeOK' /\ VisitInv /\ CountInv /\ [Next]_vars => CountInv'
  <2> SUFFICES ASSUME TypeOK, TypeOK', VisitInv, CountInv, [Next]_vars PROVE CountInv'
    OBVIOUS
  <2>1. CASE UNCHANGED vars
    BY <2>1 DEF vars, CountInv, Sum, Waiting
  <2> QED BY <2>1, EarlyCount, BetweenCount, LoopCount, WriterCount DEF Next, Loops
<1>2. TypeOK /\ CountInv => EveryoneIsCounted
  <2> SUFFICES ASSUME TypeOK, CountInv, pc = "done" PROVE EveryoneIsCounted
    BY DEF EveryoneIsCounted, Done
  <2>1. Waiting("gateway") = 0 /\ Waiting("provider") = 0
    BY DEF Waiting
  <2>2. \A q \in Phases, w \in Outcomes : sums[q][w] \in Nat
    BY Numbers DEF TypeOK
  <2>3. IsFiniteSet(troubles) /\ IsFiniteSet(troubles \cap DOMAIN Listing)
    BY FS_Subset DEF CountInv
  <2>4. /\ Cardinality(troubles) \in Nat /\ Cardinality(troubles \cap DOMAIN Listing) \in Nat
        /\ Cardinality(troubles) = 0 <=> troubles = {}
    BY <2>3, FS_CardinalityType, FS_EmptySet
  <2>5. omitted \in Nat
    BY DEF TypeOK
  <2>6. Sum("attempted") + omitted + Cardinality(troubles \cap DOMAIN Listing)
          = Sum("exported") + Sum("failed") + Sum("skipped")
    <3>1. \A w \in Outcomes :
            sums["repo"][w] \in Nat /\ sums["gateway"][w] \in Nat /\ sums["provider"][w] \in Nat
      BY <2>2 DEF Phases
    <3>2. /\ sums["gateway"]["attempted"]
               = sums["gateway"]["exported"] + sums["gateway"]["failed"] + sums["gateway"]["skipped"]
          /\ sums["provider"]["attempted"] + omitted + Cardinality(troubles \cap DOMAIN Listing)
               = sums["provider"]["exported"] + sums["provider"]["failed"] + sums["provider"]["skipped"]
      BY <2>1, <3>1 DEF CountInv, Outcomes
    <3>3. sums["repo"]["attempted"]
            = sums["repo"]["exported"] + sums["repo"]["failed"] + sums["repo"]["skipped"]
      BY DEF CountInv
    <3>4. /\ sums["repo"]["attempted"] \in Nat /\ sums["repo"]["exported"] \in Nat
          /\ sums["repo"]["failed"] \in Nat /\ sums["repo"]["skipped"] \in Nat
          /\ sums["gateway"]["attempted"] \in Nat /\ sums["gateway"]["exported"] \in Nat
          /\ sums["gateway"]["failed"] \in Nat /\ sums["gateway"]["skipped"] \in Nat
          /\ sums["provider"]["attempted"] \in Nat /\ sums["provider"]["exported"] \in Nat
          /\ sums["provider"]["failed"] \in Nat /\ sums["provider"]["skipped"] \in Nat
      BY <3>1 DEF Outcomes
    <3> DEFINE l == Cardinality(troubles \cap DOMAIN Listing)
    <3>5. l \in Nat
      BY <2>4
    <3>6. sums["provider"]["attempted"] + omitted + l
            = sums["provider"]["exported"] + sums["provider"]["failed"] + sums["provider"]["skipped"]
      BY <3>2
    <3> HIDE DEF l
    <3>7. sums["gateway"]["attempted"]
            = sums["gateway"]["exported"] + sums["gateway"]["failed"] + sums["gateway"]["skipped"]
      BY <3>2
    <3>8. Sum("attempted") + omitted + l = Sum("exported") + Sum("failed") + Sum("skipped")
      <4> DEFINE ra == sums["repo"]["attempted"]
                 re == sums["repo"]["exported"]
                 rf == sums["repo"]["failed"]
                 rs == sums["repo"]["skipped"]
                 ga == sums["gateway"]["attempted"]
                 ge == sums["gateway"]["exported"]
                 gf == sums["gateway"]["failed"]
                 gs == sums["gateway"]["skipped"]
                 pa == sums["provider"]["attempted"]
                 pe == sums["provider"]["exported"]
                 pf == sums["provider"]["failed"]
                 ps == sums["provider"]["skipped"]
      <4>1. ra = re + rf + rs /\ ga = ge + gf + gs /\ pa + omitted + l = pe + pf + ps
        BY <3>3, <3>6, <3>7
      <4>2. /\ ra \in Nat /\ re \in Nat /\ rf \in Nat /\ rs \in Nat
            /\ ga \in Nat /\ ge \in Nat /\ gf \in Nat /\ gs \in Nat
            /\ pa \in Nat /\ pe \in Nat /\ pf \in Nat /\ ps \in Nat
        BY <3>4
      <4>3. /\ Sum("attempted") = ra + ga + pa /\ Sum("exported") = re + ge + pe
            /\ Sum("failed") = rf + gf + pf /\ Sum("skipped") = rs + gs + ps
        BY DEF Sum
      <4> HIDE DEF ra, re, rf, rs, ga, ge, gf, gs, pa, pe, pf, ps
      <4>4. (ra + ga + pa) + omitted + l = (re + ge + pe) + (rf + gf + pf) + (rs + gs + ps)
        BY <2>5, <3>5, <4>1, <4>2
      <4> QED BY <4>3, <4>4
    <3> QED BY <3>8 DEF l
  <2>7. Sum("failed") = Cardinality(troubles)
    BY DEF CountInv
  <2>8. resolutionStatus = "unresolved" <=> troubles # {}
    BY <2>4, <2>7 DEF resolutionStatus
  <2> QED BY <2>6, <2>7, <2>8 DEF EveryoneIsCounted
<1> QED BY <1>1, <1>2, InitCount, AlwaysVisit, PTL DEF Spec

-----------------------------------------------------------------------------
(* Folders, and what is found in them.                                     *)

\* The phase whose folder names are being counted.
Counting(ph) == Turn(ph) \/ (pc = "listProvider" /\ ph = "provider")
Stored       == ToSet(found["gateway"]) \cup ToSet(found["provider"])

\* Services of one name and one phase are in folders of their own: whoever has a folder of the
\* phase at hand has been counted under its name.
FolderInv ==
  /\ \A s \in Placed : folder[s] \in {Attr[s].base, Attr[s].suffixed}
  /\ \A s, t \in Placed :
       s # t /\ Attr[s].phase = Attr[t].phase /\ Attr[s].base = Attr[t].base => folder[s] # folder[t]
  /\ \A s \in Placed : Counting(Attr[s].phase) => usage[Attr[s].base] > 0

\* A path of a stored service holds its file, or what another service of the folder left there;
\* the writer has written whatever it no longer has to do.
FileInv ==
  /\ Stored \subseteq Placed
  /\ \A s \in Stored : \A p \in PathsOf(s) :
       disk[p] = s \/ \E t \in Services \ {s} : folder[t] = folder[s] /\ disk[p] \in {t, "torn"}
  /\ pc = "write" =>
       /\ job.by \notin Stored
       /\ \A n \in ToSet(Attr[job.by].files) :
            n \in ToSet(job.todo) \/ disk[<<folder[job.by], n>>] = job.by
  /\ Done => ToSet(reported) \cap Services \subseteq Stored

\* A step that gives no folder away.
LEMMA KeepFolders ==
  ASSUME FolderInv, UNCHANGED folder,
         \A s \in Placed : Counting(Attr[s].phase)' => Counting(Attr[s].phase) /\ usage' = usage
  PROVE  FolderInv'
<1>1. Placed' = Placed
  BY DEF Placed
<1>2. \A s \in Placed : Counting(Attr[s].phase)' => usage'[Attr[s].base] > 0
  BY DEF FolderInv
<1> QED BY <1>1, <1>2 DEF FolderInv

\* The first of a name takes the name, and no later one can collide with it or with another.
LEMMA GiveFolder ==
  ASSUME TypeOK, VisitInv, FolderInv, NEW ph \in Loops, Take(ph), Allocate(Head(queue)),
         pc' = ph \/ (pc' = "write" /\ job'.by = Head(queue))
  PROVE  FolderInv'
<1> DEFINE s == Head(queue)
<1>1. s \in Services /\ s \in ToSet(queue) /\ Turn(ph) /\ s \notin Placed /\ Attr[s].phase = ph
  <2>1. s \in Services /\ s \in ToSet(queue) /\ Turn(ph)
    BY TailFacts DEF TypeOK, Take, Turn
  <2> QED BY <2>1 DEF VisitInv, Past, OfPhase
<1>2. /\ Placed' = Placed \cup {s}
      /\ folder'[s] = IF usage[Attr[s].base] = 0 THEN Attr[s].base ELSE Attr[s].suffixed
      /\ \A t \in Services \ {s} : folder'[t] = folder[t]
  <2>1. folder \in [Services -> Folders \cup {NoFolder}]
    BY DEF TypeOK
  <2> QED BY <1>1, <2>1, AllocatePlaces DEF Allocate
<1>3. /\ usage' = [usage EXCEPT ![Attr[s].base] = @ + 1] /\ usage \in [Folders -> Nat]
      /\ \A t \in Services : Attr[t].base \in Folders
  BY AssumedTypes DEF Allocate, TypeOK
<1>4. Placed \subseteq Services
  BY DEF Placed
<1>5. \A t \in Placed : Attr[t].phase = ph => usage[Attr[t].base] > 0
  BY <1>1 DEF FolderInv, Counting
<1>6. \A q \in Loops : Counting(q)' => q = ph
  BY <1>1 DEF Counting, Turn, Loops
<1>7. \A t \in Services : Attr[t].phase \in Loops
  BY AssumedTypes
<1> HIDE DEF s
<1>8. ASSUME NEW t \in Placed, Attr[t].phase = ph, Attr[t].base = Attr[s].base
      PROVE  folder'[t] # folder'[s]
  <2>1. usage[Attr[s].base] # 0 /\ folder'[s] = Attr[s].suffixed
    BY <1>2, <1>5, <1>8
  <2>2. t \in Services /\ t # s /\ folder'[t] = folder[t] /\ folder[t] \in {Attr[t].base, Attr[t].suffixed}
    BY <1>1, <1>2, <1>4, <1>8 DEF FolderInv
  <2>3. Attr[s].suffixed # Attr[t].base /\ Attr[s].suffixed # Attr[t].suffixed
    BY <1>1, <1>8, <2>2, DiscoverManyAssumption
  <2> QED BY <2>1, <2>2, <2>3
<1>9. \A t \in Placed' : folder'[t] \in {Attr[t].base, Attr[t].suffixed}
  BY <1>1, <1>2, <1>4 DEF FolderInv
<1>10. ASSUME NEW t \in Placed', NEW u \in Placed', t # u, Attr[t].phase = Attr[u].phase,
              Attr[t].base = Attr[u].base
       PROVE  folder'[t] # folder'[u]
  <2>1. CASE t = s
    BY <1>1, <1>2, <1>8, <1>10, <2>1
  <2>2. CASE u = s
    BY <1>1, <1>2, <1>8, <1>10, <2>2
  <2>3. CASE t # s /\ u # s
    BY <1>2, <1>4, <1>10, <2>3 DEF FolderInv
  <2> QED BY <2>1, <2>2, <2>3
<1>11. ASSUME NEW t \in Placed', Counting(Attr[t].phase)'
       PROVE  usage'[Attr[t].base] > 0
  <2>1. t \in Services /\ Attr[t].phase = ph
    BY <1>1, <1>2, <1>4, <1>6, <1>7, <1>11
  <2>2. CASE t = s
    BY <1>3, <2>1, <2>2
  <2>3. CASE t # s
    <3>1. usage[Attr[t].base] > 0 /\ usage[Attr[t].base] \in Nat
      BY <1>2, <1>3, <1>5, <2>1, <2>3
    <3> QED BY <1>1, <1>3, <2>1, <3>1
  <2> QED BY <2>2, <2>3
<1> QED BY <1>9, <1>10, <1>11 DEF FolderInv

LEMMA NextFolders == TypeOK /\ VisitInv /\ FolderInv /\ [Next]_vars => FolderInv'
<1> SUFFICES ASSUME TypeOK, VisitInv, FolderInv, [Next]_vars PROVE FolderInv'
  OBVIOUS
<1>0. \A s \in Placed : s \in Services /\ Attr[s].phase \in Loops
  BY AssumedTypes DEF Placed
<1>1. CASE Probe \/ Rejects \/ Inventory \/ SkipGroup \/ VisitGroup \/ GroupsDone \/ Finish
  <2>1. UNCHANGED folder /\ pc' \notin Loops \cup {"write", "listProvider"}
    BY <1>1 DEF Probe, Rejects, Inventory, SkipGroup, VisitGroup, GroupsDone, Finish, Goto, GroupFrame,
                output, Loops
  <2>2. \A q \in Loops : ~Counting(q)'
    BY <2>1 DEF Counting, Turn
  <2> QED BY <1>0, <2>1, <2>2, KeepFolders
<1>2. CASE ListGateways
  <2>1. UNCHANGED folder /\ pc = "list"
    BY <1>2 DEF ListGateways, output
  <2>2. Placed = {}
    BY <1>0, <2>1, Apart DEF VisitInv, Past
  <2> QED BY <2>1, <2>2, KeepFolders
<1>3. CASE GatewaysDone
  <2>1. UNCHANGED folder /\ pc = "gateway" /\ pc' = "listProvider"
    BY <1>3 DEF GatewaysDone, output, Goto
  <2>2. \A s \in Placed : Attr[s].phase = "gateway"
    BY <1>0, <2>1, Apart DEF VisitInv, Past, Turn, OfPhase
  <2>3. ~Counting("gateway")'
    BY <2>1 DEF Counting, Turn
  <2> QED BY <2>1, <2>2, <2>3, KeepFolders
<1>4. CASE ListProvider \/ ListFails \/ ProviderDone
  <2>1. /\ UNCHANGED <<usage, folder>> /\ pc \in {"listProvider", "provider"}
        /\ pc' \in {"listProvider", "provider"}
    BY <1>4 DEF ListProvider, ListFails, ProviderDone, Goto, output
  <2>2. \A q \in Loops : Counting(q)' => Counting(q)
    BY <2>1 DEF Counting, Turn, Loops
  <2> QED BY <1>0, <2>1, <2>2, KeepFolders
<1>5. CASE SkipGateway
  <2>1. UNCHANGED <<pc, usage, folder, job>>
    BY <1>5 DEF SkipGateway
  <2> QED BY <2>1, KeepFolders DEF Counting, Turn
<1>6. ASSUME NEW ph \in Loops, CandidateFails(ph) \/ DryRun(ph)
      PROVE  FolderInv'
  <2>1. Take(ph) /\ pc' = pc /\ pc = ph /\ UNCHANGED job
    BY <1>6 DEF CandidateFails, DryRun, Take
  <2>2. UNCHANGED <<usage, folder>> \/ Allocate(Head(queue))
    BY <1>6 DEF CandidateFails, DryRun
  <2>3. CASE UNCHANGED <<usage, folder>>
    BY <2>1, <2>3, KeepFolders DEF Counting, Turn
  <2> QED BY <2>1, <2>2, <2>3, GiveFolder
<1>7. ASSUME NEW ph \in Loops, Exports(ph)
      PROVE  FolderInv'
  <2>1. Take(ph) /\ Allocate(Head(queue)) /\ pc' = "write" /\ job'.by = Head(queue)
    BY <1>7 DEF Exports, Goto
  <2> QED BY <2>1, GiveFolder
<1>8. CASE WriteFile \/ WriteFails \/ WriteDone
  <2>1. pc = "write" /\ UNCHANGED <<usage, folder>>
    BY <1>8 DEF WriteFile, WriteFails, WriteDone, WriteFrame
  <2>2. Attr[job.by].phase \in Loops
    BY <2>1, JobTypes
  <2>3. (pc' = "write" /\ job'.by = job.by) \/ pc' = Attr[job.by].phase
    <3>1. job \in [by : Services, todo : Seq(Names)]
      BY <2>1, JobTypes
    <3> QED BY <1>8, <2>1, <3>1 DEF WriteFile, WriteFails, WriteDone, Goto
  <2>4. \A q \in Loops : Counting(q)' => Counting(q)
    BY <2>1, <2>2, <2>3 DEF Counting, Turn, Loops
  <2> QED BY <1>0, <2>1, <2>4, KeepFolders
<1>9. CASE UNCHANGED vars
  BY <1>9, KeepFolders DEF vars, Counting, Turn
<1> QED BY <1>1, <1>2, <1>3, <1>4, <1>5, <1>6, <1>7, <1>8, <1>9 DEF Next, Loops

\* A step that writes nothing and finishes nothing.
LEMMA KeepFiles ==
  ASSUME FileInv, UNCHANGED <<folder, disk, found>>, pc' \notin {"write", "done"}
  PROVE  FileInv'
<1>1. Placed' = Placed /\ Stored' = Stored /\ \A s : PathsOf(s)' = PathsOf(s)
  BY DEF Placed, Stored, PathsOf
<1> QED BY <1>1 DEF FileInv, Done

\* A folder given to somebody new changes nothing for those who are stored.
LEMMA NewFolder ==
  ASSUME TypeOK, VisitInv, FileInv, NEW ph \in Loops, Take(ph), Allocate(Head(queue)),
         UNCHANGED <<disk, found>>
  PROVE  /\ Head(queue) \notin Stored' /\ Stored' \subseteq Placed'
         /\ \A s \in Stored' : \A p \in PathsOf(s)' :
              disk'[p] = s \/ \E t \in Services \ {s} : folder'[t] = folder'[s] /\ disk'[p] \in {t, "torn"}
<1> DEFINE h == Head(queue)
<1>1. h \in Services /\ h \notin Placed
  <2>1. h \in Services /\ h \in ToSet(queue)
    BY TailFacts DEF TypeOK, Take
  <2> QED BY <2>1 DEF VisitInv, Past
<1>2. Placed' = Placed \cup {h} /\ \A t \in Services \ {h} : folder'[t] = folder[t]
  BY <1>1, AllocatePlaces
<1>3. Stored' = Stored /\ Stored \subseteq Placed /\ Placed \subseteq Services
  BY DEF Stored, FileInv, Placed
<1> HIDE DEF h
<1>4. ASSUME NEW s \in Stored, NEW p \in PathsOf(s)'
      PROVE  disk'[p] = s \/ \E t \in Services \ {s} : folder'[t] = folder'[s] /\ disk'[p] \in {t, "torn"}
  <2>1. s \in Services /\ s # h /\ folder'[s] = folder[s] /\ folder[s] # NoFolder
    BY <1>1, <1>2, <1>3 DEF Placed
  <2>2. p \in PathsOf(s)
    BY <2>1, <1>4 DEF PathsOf
  <2>3. disk[p] = s \/ \E t \in Services \ {s} : folder[t] = folder[s] /\ disk[p] \in {t, "torn"}
    BY <2>2 DEF FileInv
  <2>4. ASSUME NEW t \in Services \ {s}, folder[t] = folder[s], disk[p] \in {t, "torn"}
        PROVE  \E v \in Services \ {s} : folder'[v] = folder'[s] /\ disk'[p] \in {v, "torn"}
    <3>1. t # h
      BY <1>1, <2>1, <2>4 DEF Placed
    <3> QED BY <1>2, <2>1, <2>4, <3>1
  <2> QED BY <2>3, <2>4
<1> QED BY <1>1, <1>2, <1>3, <1>4 DEF h

\* A file written, or torn, is one of the writer's folder.
LEMMA DiskTouched ==
  ASSUME TypeOK, FileInv, pc = "write", NEW n \in Names, NEW by \in {job.by, "torn"},
         disk' = [disk EXCEPT ![<<folder[job.by], n>>] = by], UNCHANGED <<folder, found>>
  PROVE  /\ Stored' = Stored /\ Stored' \subseteq Placed'
         /\ \A s \in Stored' : \A p \in PathsOf(s)' :
              disk'[p] = s \/ \E t \in Services \ {s} : folder'[t] = folder'[s] /\ disk'[p] \in {t, "torn"}
<1>1. Placed' = Placed /\ Stored' = Stored /\ \A s : PathsOf(s)' = PathsOf(s)
  BY DEF Placed, Stored, PathsOf
<1>2. job.by \in Services /\ job.by \notin Stored /\ Stored \subseteq Placed
  BY JobTypes DEF FileInv
<1>3. ASSUME NEW s \in Stored, NEW p \in PathsOf(s)
      PROVE  disk'[p] = s \/ \E t \in Services \ {s} : folder[t] = folder[s] /\ disk'[p] \in {t, "torn"}
  <2>1. disk \in [Paths -> Groups \cup Services \cup {"absent", "torn"}]
    BY DEF TypeOK
  <2>2. s \in Services /\ s # job.by /\ Attr[s].files \in Seq(Names) /\ folder[s] \in Folders
    BY <1>2, AssumedTypes DEF Placed, TypeOK
  <2>3. PICK m \in ToSet(Attr[s].files) : p = <<folder[s], m>>
    BY DEF PathsOf
  <2>4. p \in Paths
    <3>1. m \in Names
      BY <2>2, <2>3 DEF ToSet
    <3> QED BY <2>2, <2>3, <3>1 DEF Paths
  <2>5. CASE p = <<folder[job.by], n>>
    <3>1. folder[job.by] = folder[s] /\ disk'[p] \in {job.by, "torn"}
      BY <2>1, <2>3, <2>4, <2>5
    <3> QED BY <1>2, <2>2, <3>1
  <2>6. CASE p # <<folder[job.by], n>>
    <3>1. disk'[p] = disk[p]
      BY <2>1, <2>4, <2>6
    <3> QED BY <3>1 DEF FileInv
  <2> QED BY <2>5, <2>6
<1> QED BY <1>1, <1>2, <1>3

LEMMA WriterFiles ==
  TypeOK /\ VisitInv /\ ReportInv /\ FileInv /\ (WriteFile \/ WriteFails \/ WriteDone) => FileInv'
<1> SUFFICES ASSUME TypeOK, VisitInv, ReportInv, FileInv, WriteFile \/ WriteFails \/ WriteDone
             PROVE  FileInv'
  OBVIOUS
<1>1. pc = "write" /\ UNCHANGED folder
  BY DEF WriteFile, WriteFails, WriteDone, WriteFrame
<1>2. /\ job \in [by : Services, todo : Seq(Names)] /\ job.by \in Services /\ job.todo \in Seq(Names)
      /\ Attr[job.by].phase \in Loops /\ job.by \in Placed /\ folder[job.by] \in Folders
      /\ disk \in [Paths -> Groups \cup Services \cup {"absent", "torn"}]
      /\ Attr[job.by].files \in Seq(Names)
  BY <1>1, JobTypes, AssumedTypes DEF VisitInv, Placed, TypeOK
<1> DEFINE n == Head(job.todo)
           path == <<folder[job.by], n>>
<1>3. job.todo # <<>> => /\ n \in Names /\ path \in Paths
                         /\ ToSet(job.todo) = {n} \cup ToSet(Tail(job.todo))
  BY <1>2, TailFacts DEF Paths
<1>4. CASE WriteFile
  <2>1. /\ job.todo # <<>> /\ disk' = [disk EXCEPT ![path] = job.by] /\ UNCHANGED <<pc, found>>
        /\ job' = [job EXCEPT !.todo = Tail(job.todo)]
    BY <1>4 DEF WriteFile
  <2>2. job'.by = job.by /\ job'.todo = Tail(job.todo)
    BY <1>2, <2>1
  <2>3. /\ Stored' = Stored /\ Stored' \subseteq Placed'
        /\ \A s \in Stored' : \A p \in PathsOf(s)' :
             disk'[p] = s \/ \E t \in Services \ {s} : folder'[t] = folder'[s] /\ disk'[p] \in {t, "torn"}
    BY <1>1, <1>3, <2>1, DiskTouched
  <2>4. disk'[path] = job.by
    BY <1>2, <1>3, <2>1
  <2>5. ASSUME NEW m \in ToSet(Attr[job.by].files)
        PROVE  m \in ToSet(Tail(job.todo)) \/ disk'[<<folder[job.by], m>>] = job.by
    <3>1. CASE m = n
      BY <2>4, <3>1
    <3>2. CASE m # n
      <4>1. m \in ToSet(Tail(job.todo)) \/ disk[<<folder[job.by], m>>] = job.by
        BY <1>1, <1>3, <2>1, <3>2 DEF FileInv
      <4>2. m \in Names /\ <<folder[job.by], m>> \in Paths /\ <<folder[job.by], m>> # path
        BY <1>2, <3>2 DEF ToSet, Paths
      <4>3. disk'[<<folder[job.by], m>>] = disk[<<folder[job.by], m>>]
        BY <1>2, <2>1, <4>2
      <4> QED BY <4>1, <4>3
    <3> QED BY <3>1, <3>2
  <2>6. job'.by \notin Stored'
    BY <1>1, <2>2, <2>3 DEF FileInv
  <2>7. pc' = "write"
    BY <1>1, <2>1
  <2> HIDE DEF n, path
  <2>8. \A m \in ToSet(Attr[job'.by].files) :
          m \in ToSet(job'.todo) \/ disk'[<<folder'[job'.by], m>>] = job'.by
    BY <1>1, <2>2, <2>5
  <2>9. ~Done'
    BY <2>7 DEF Done
  <2> QED BY <2>3, <2>6, <2>8, <2>9 DEF FileInv
<1>5. CASE WriteFails
  <2>1. /\ job.todo # <<>> /\ (disk' = disk \/ disk' = [disk EXCEPT ![path] = "torn"])
        /\ UNCHANGED found /\ pc' = Attr[job.by].phase
    BY <1>5 DEF WriteFails, Goto
  <2>2. pc' \notin {"write", "done"}
    BY <1>2, <2>1 DEF Loops
  <2>3. CASE disk' = disk
    BY <1>1, <2>1, <2>2, <2>3, KeepFiles
  <2>4. CASE disk' = [disk EXCEPT ![path] = "torn"]
    <3>0. n \in Names /\ "torn" \in {job.by, "torn"} /\ UNCHANGED <<folder, found>>
          /\ disk' = [disk EXCEPT ![<<folder[job.by], n>>] = "torn"]
      BY <1>1, <1>3, <2>1, <2>4
    <3> HIDE DEF n, path
    <3>1. /\ Stored' = Stored /\ Stored' \subseteq Placed'
          /\ \A s \in Stored' : \A p \in PathsOf(s)' :
               disk'[p] = s \/ \E t \in Services \ {s} : folder'[t] = folder'[s] /\ disk'[p] \in {t, "torn"}
      BY <1>1, <3>0, DiskTouched
    <3> QED BY <2>2, <3>1 DEF FileInv, Done
  <2> QED BY <2>1, <2>3, <2>4
<1>6. CASE WriteDone
  <2> DEFINE ph == Attr[job.by].phase
  <2>1. /\ job.todo = <<>> /\ found' = [found EXCEPT ![ph] = Append(found[ph], job.by)]
        /\ UNCHANGED disk /\ pc' = ph
    BY <1>6 DEF WriteDone, Goto
  <2>2. pc' \notin {"write", "done"}
    BY <1>2, <2>1 DEF Loops
  <2>3. Placed' = Placed /\ \A s : PathsOf(s)' = PathsOf(s)
    BY <1>1 DEF Placed, PathsOf
  <2>4. Stored' = Stored \cup {job.by}
    <3>1. found \in [Phases -> Seq(Groups \cup Services)] /\ Loops \subseteq Phases /\ ph \in Loops
      BY <1>2 DEF TypeOK, Loops, Phases
    <3>2. ToSet(Append(found[ph], job.by)) = ToSet(found[ph]) \cup {job.by}
      <4>1. found[ph] \in Seq(Groups \cup Services)
        BY <3>1
      <4> QED BY <1>2, <4>1, AppendFacts
    <3>3. ToSet(found'[ph]) = ToSet(found[ph]) \cup {job.by} /\ \A q \in Loops \ {ph} : found'[q] = found[q]
      BY <2>1, <3>1, <3>2
    <3> HIDE DEF ph
    <3> QED BY <3>1, <3>3 DEF Stored, Loops
  <2>5. \A p \in PathsOf(job.by) : disk[p] = job.by
    <3>1. ToSet(job.todo) = {}
      BY <2>1 DEF ToSet
    <3> QED BY <1>1, <3>1 DEF FileInv, PathsOf
  <2>6. Stored \subseteq Placed /\ \A s \in Stored : \A p \in PathsOf(s) :
          disk[p] = s \/ \E t \in Services \ {s} : folder[t] = folder[s] /\ disk[p] \in {t, "torn"}
    BY DEF FileInv
  <2>7. Stored' \subseteq Placed' /\ \A s \in Stored' : \A p \in PathsOf(s)' :
          disk'[p] = s \/ \E t \in Services \ {s} : folder'[t] = folder'[s] /\ disk'[p] \in {t, "torn"}
    <3>1. disk' = disk /\ folder' = folder
      BY <1>1, <2>1
    <3> HIDE DEF ph
    <3> QED BY <1>2, <2>3, <2>4, <2>5, <2>6, <3>1
  <2> QED BY <2>2, <2>7 DEF FileInv, Done
<1> QED BY <1>4, <1>5, <1>6

LEMMA FinishFiles == TypeOK /\ ReportInv /\ FileInv /\ Finish => FileInv'
<1> SUFFICES ASSUME TypeOK, ReportInv, FileInv, Finish PROVE FileInv'
  OBVIOUS
<1> DEFINE S == {s \in Services : SpecPath(s) \notin native}
           later == found["gateway"] \o found["provider"]
           kept == Only(later, S)
<1>1. reported' = found["repo"] \o kept /\ UNCHANGED <<found, disk, folder>> /\ pc' = "done"
  BY DEF Finish, loops, ledger, Goto
<1>2. /\ found["repo"] \in Seq(Groups) /\ found["gateway"] \in Seq(Services)
      /\ found["provider"] \in Seq(Services)
  BY DEF ReportInv
<1>3. later \in Seq(Services) /\ ToSet(later) = Stored
  BY <1>2, ConcatFacts DEF Stored
<1> HIDE DEF later, S
<1>4. kept \in Seq(Services) /\ ToSet(kept) \subseteq Stored
  BY <1>3, OnlyFacts
<1> HIDE DEF kept
<1>5. ToSet(reported') = ToSet(found["repo"]) \cup ToSet(kept)
  <2>1. found["repo"] \in Seq(Groups \cup Services) /\ kept \in Seq(Groups \cup Services)
    BY <1>2, <1>4, SeqOfSubset
  <2> QED BY <1>1, <2>1, ConcatFacts
<1>6. ToSet(found["repo"]) \cap Services = {}
  <2>1. ToSet(found["repo"]) \subseteq Groups
    BY <1>2 DEF ToSet
  <2> QED BY <2>1, Apart
<1>7. Placed' = Placed /\ Stored' = Stored /\ \A s : PathsOf(s)' = PathsOf(s)
  BY <1>1 DEF Placed, Stored, PathsOf
<1>8. ToSet(reported') \cap Services \subseteq Stored'
  BY <1>4, <1>5, <1>6, <1>7
<1> QED BY <1>1, <1>7, <1>8 DEF FileInv

LEMMA NextFiles ==
  TypeOK /\ VisitInv /\ ReportInv /\ FileInv /\ [Next]_vars => FileInv'
<1> SUFFICES ASSUME TypeOK, VisitInv, ReportInv, FileInv, [Next]_vars PROVE FileInv'
  OBVIOUS
<1>1. CASE Probe \/ Rejects \/ Inventory \/ SkipGroup \/ GroupsDone
  BY <1>1, KeepFiles DEF Probe, Rejects, Inventory, SkipGroup, GroupsDone, Goto, GroupFrame, ledger, output
<1>2. CASE ListGateways \/ GatewaysDone \/ ListProvider \/ ListFails \/ ProviderDone
  BY <1>2, KeepFiles
     DEF ListGateways, GatewaysDone, ListProvider, ListFails, ProviderDone, Goto, ledger, output
<1>3. CASE VisitGroup
  <2>1. /\ pc = "repo" /\ pc' = pc /\ UNCHANGED folder
        /\ found' = found \/ \E g : found' = [found EXCEPT !["repo"] = g]
    BY <1>3 DEF VisitGroup, GroupFrame
  <2>2. Placed = {}
    BY <2>1, Apart DEF VisitInv, Past, Placed
  <2>3. Stored' = Stored /\ Stored = {}
    BY <2>1, <2>2 DEF Stored, FileInv, TypeOK, Phases
  <2> QED BY <2>1, <2>3 DEF FileInv, Done
<1>4. CASE SkipGateway
  <2>1. UNCHANGED <<folder, disk, found>> /\ pc' = "gateway"
    BY <1>4 DEF SkipGateway, CandidateFrame, Take
  <2> QED BY <2>1, KeepFiles
<1>5. ASSUME NEW ph \in Loops, CandidateFails(ph) \/ DryRun(ph)
      PROVE  FileInv'
  <2>1. Take(ph) /\ pc' = ph /\ UNCHANGED <<disk, found>>
    BY <1>5 DEF CandidateFails, DryRun, Take, CandidateFrame
  <2>2. UNCHANGED folder \/ Allocate(Head(queue))
    BY <1>5 DEF CandidateFails, DryRun
  <2>3. pc' \notin {"write", "done"}
    BY <2>1 DEF Loops
  <2>4. CASE UNCHANGED folder
    BY <2>1, <2>3, <2>4, KeepFiles
  <2>5. CASE Allocate(Head(queue))
    BY <2>1, <2>3, <2>5, NewFolder DEF FileInv, Done
  <2> QED BY <2>2, <2>4, <2>5
<1>6. ASSUME NEW ph \in Loops, Exports(ph)
      PROVE  FileInv'
  <2>1. /\ Take(ph) /\ Allocate(Head(queue)) /\ UNCHANGED <<disk, found>> /\ pc' = "write"
        /\ job' = [by |-> Head(queue), todo |-> Attr[Head(queue)].files]
    BY <1>6 DEF Exports, Goto, CandidateFrame
  <2>2. job'.by = Head(queue) /\ job'.todo = Attr[job'.by].files
    BY <2>1
  <2>3. /\ Head(queue) \notin Stored' /\ Stored' \subseteq Placed'
        /\ \A s \in Stored' : \A p \in PathsOf(s)' :
             disk'[p] = s \/ \E t \in Services \ {s} : folder'[t] = folder'[s] /\ disk'[p] \in {t, "torn"}
    BY <2>1, NewFolder
  <2>4. ~Done'
    BY <2>1 DEF Done
  <2> QED BY <2>2, <2>3, <2>4 DEF FileInv
<1>7. CASE UNCHANGED vars
  <2>1. /\ Placed' = Placed /\ Stored' = Stored /\ Done' = Done /\ \A s : PathsOf(s)' = PathsOf(s)
        /\ UNCHANGED <<pc, job, disk, folder, reported>>
    BY <1>7 DEF vars, Placed, Stored, PathsOf, Done
  <2> QED BY <2>1 DEF FileInv
<1> QED BY <1>1, <1>2, <1>3, <1>4, <1>5, <1>6, <1>7, WriterFiles, FinishFiles DEF Next, Loops

\* A reported service loses a file only to a service of another phase in the same folder, or to one
\* whose own name is the other's name and id (uniqueProjectFolder, writeResolvedArtifact).
THEOREM FilesGoToNamesakes == Spec => []LostOnlyToNamesakes
<1>1. Init => FolderInv /\ FileInv
  <2> SUFFICES ASSUME Init PROVE FolderInv /\ FileInv
    OBVIOUS
  <2>1. Placed = {} /\ pc = "probe" /\ \A ph \in Phases : found[ph] = <<>>
    BY DEF Init, Placed
  <2>2. Stored = {} /\ ToSet(<<>>) = {}
    BY <2>1 DEF Stored, ToSet, Phases
  <2> QED BY <2>1, <2>2 DEF FolderInv, FileInv, Done
<1>2. FolderInv /\ FileInv => LostOnlyToNamesakes
  <2> SUFFICES ASSUME FolderInv, FileInv, Done, NEW s \in ToSet(reported) \cap Services,
                      NEW p \in PathsOf(s), disk[p] # s
               PROVE  \E t \in Services \ {s} :
                        /\ folder[t] = folder[s] /\ disk[p] \in {t, "torn"}
                        /\ Attr[t].phase # Attr[s].phase \/ Attr[t].base # Attr[s].base
    BY DEF LostOnlyToNamesakes
  <2>1. s \in Stored /\ s \in Placed
    BY DEF FileInv
  <2>2. PICK t \in Services \ {s} : folder[t] = folder[s] /\ disk[p] \in {t, "torn"}
    BY <2>1 DEF FileInv
  <2>3. t \in Placed
    BY <2>1, <2>2 DEF Placed
  <2>4. Attr[t].phase # Attr[s].phase \/ Attr[t].base # Attr[s].base
    BY <2>1, <2>2, <2>3 DEF FolderInv
  <2> QED BY <2>2, <2>4
<1> QED BY <1>1, <1>2, NextFolders, NextFiles, InitReport, NextReport, AlwaysVisit, PTL DEF Spec
=============================================================================
