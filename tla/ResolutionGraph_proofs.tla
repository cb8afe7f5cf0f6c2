----------------------- MODULE ResolutionGraph_proofs -------------------------
(***************************************************************************)
(* Proofs about the resolution graph, for every catalogue, every answer of *)
(* the ports and every request: what is selectable at the end is clean,    *)
(* proxies and external evidence keep their place, a missing mass is never *)
(* forgotten, and the recommendation agrees with itself.  WorkInv says     *)
(* what each node finds when its turn comes; the recommendation is read    *)
(* off the ranking in one step (TopKNode), from which EndInv follows.      *)
(***************************************************************************)
EXTENDS ResolutionGraph, FiniteSetTheorems, TLAPS

Late == {"re_evaluate", "rank", "top_k", "terminal"}
Resolving == {"gap_analysis", "unit_scale_resolution", "reference_flow_resolution",
              "technical_resolution", "resolved"}
Early == {"normalize", "local_retrieval", "local_evaluate"}

\* Every candidate the state holds comes from a qualified record.
Qualified == {r \in Records : qualify_record(r)}

SourcesInv ==
    \A c \in candidates \cup kept \cup external \cup proxies \cup ranked : c.source \in Qualified

\* After the reference flow node no candidate has an open reference flow.
FlowClosed(C) == \A c \in C : "REFERENCE_FLOW" \notin c.gaps

FlowInv ==
    /\ stage \in Late \cup {"technical_resolution", "resolved", "material_resolution", "proxy_evaluate"}
          => FlowClosed(candidates)
    /\ FlowClosed(kept \cup proxies \cup ranked)

\* The loop over the candidates has one to work on.
TurnInv == stage = "technical_resolution" => \E c \in candidates : c.routers # <<>>

\* What each stage has before it.
StageInv ==
    /\ stage \notin Late => proxies = {}
    /\ stage \notin {"top_k", "terminal"} => ranked = {}
    /\ ranked \subseteq candidates \cup proxies
    /\ stage \in Early => /\ candidates = {} /\ external = {} /\ required_fields = {}
                          /\ phase = "local"
    /\ stage = "external_discovery" =>
          /\ phase = "local"
          /\ request_gaps = {} => candidates = {}
          /\ request_gaps # {} => required_fields = {}
    /\ stage \in Resolving \cup Late \cup {"material_resolution", "proxy_evaluate"} =>
          (request_gaps # {} => required_fields # {})

\* Candidates for which class proxies may be sought.
NeedProxy(C) ==
    /\ \A c \in C : c.origin = "local"
    /\ C = {} \/ \E c \in C : "MATERIAL_ABSENT" \in c.gaps

Origin(C, o) == \A c \in C : c.origin = o

LocalPhase ==
    phase = "local" =>
        /\ Origin(candidates, "local")
        /\ kept = {} /\ proxies = {}
        /\ stage \in {"material_resolution", "proxy_evaluate"} =>
              /\ NeedProxy(candidates)
              /\ request_gaps = {} /\ external = {}

ExternalPhase ==
    phase = "external" =>
        /\ stage \in Resolving \cup Late \cup {"raised"}
        /\ external # {} /\ kept = {} /\ proxies = {}
        /\ Origin(candidates, "external")
        /\ \A c \in candidates : \E e \in external : Id(e) = <<"external", c.base, 0>>
        /\ \A c, d \in candidates : Id(c) = Id(d) => c = d
        /\ stage \in {"gap_analysis", "unit_scale_resolution", "reference_flow_resolution"} =>
              \A c \in candidates : c.scenario = 0

ProxyPhase ==
    phase = "proxy" =>
        /\ stage \in Resolving \cup Late \cup {"raised"}
        /\ request_gaps = {} /\ external = {}
        /\ stage \in Late => NeedProxy(candidates) /\ Origin(proxies, "proxy")
        /\ stage \notin Late => NeedProxy(kept) /\ Origin(candidates, "proxy")

\* After the re-evaluation a tier above REFERENCE_ONLY is earned.
Earned(c) ==
    c.tier # "REFERENCE_ONLY" =>
        ~c.incomplete /\ c.source.formal = "complete" /\ ~c.low /\ ~c.source.capped

TierInv ==
    stage \in {"rank", "top_k", "terminal"} =>
        \A c \in candidates \cup proxies :
            /\ Earned(c)
            /\ request_gaps # {} => c.tier = "REFERENCE_ONLY"

PoolInv == \A c, d \in ranked : Id(c) = Id(d) => c = d

\* What the terminal state shows.
EndInv == SelectableIsClean /\ EveryCandidateIsShown /\ StatusHasItsCause

WorkInv ==
    /\ TypeOK /\ SourcesInv /\ FlowInv /\ TurnInv /\ StageInv
    /\ LocalPhase /\ ExternalPhase /\ ProxyPhase /\ TierInv /\ PoolInv

-----------------------------------------------------------------------------
(* The helpers on candidates.                                              *)

\* A derivation keeps the identity of a candidate.
SameItem(c, d) == d.base = c.base /\ d.origin = c.origin /\ d.scenario = c.scenario

\* What a finalised candidate has in common with the candidate.
SameButTier(c, d) ==
    /\ SameItem(c, d)
    /\ d.source = c.source /\ d.type = c.type /\ d.gaps = c.gaps
    /\ d.incomplete = c.incomplete /\ d.low = c.low /\ d.routers = c.routers

\* A tier above reference only is for complete candidates of complete sources.
LEMMA TierType ==
  ASSUME NEW c \in Candidate
  PROVE  /\ tier_for(c) \in ResultTier
         /\ tier_for(c) # "REFERENCE_ONLY" => ~c.incomplete /\ c.source.formal = "complete"
BY DEF tier_for, Candidate, ResultTier, ResolutionType, DirectTypes, AdjustedTypes, ReferenceTypes

\* Finalising a candidate changes its tier only.
LEMMA Finalized ==
  ASSUME NEW c \in Candidate, NEW t \in BOOLEAN
  PROVE  /\ finalize_candidate(c, t) \in Candidate
         /\ SameButTier(c, finalize_candidate(c, t))
         /\ t => Earned(finalize_candidate(c, t))
<1> DEFINE x == IF (t /\ c.low) \/ c.source.capped THEN "REFERENCE_ONLY" ELSE tier_for(c)
           d == [c EXCEPT !.tier = x]
<1>1. x \in ResultTier
  BY TierType DEF ResultTier
<1>2. x # "REFERENCE_ONLY" =>
        ~(t /\ c.low) /\ ~c.source.capped /\ ~c.incomplete /\ c.source.formal = "complete"
  BY TierType
<1>3. finalize_candidate(c, t) = d
  BY DEF finalize_candidate
<1> HIDE DEF x
<1>4. d \in Candidate /\ SameButTier(c, d) /\ d.tier = x
  BY <1>1 DEF Candidate, SameButTier, SameItem
<1> HIDE DEF d
<1>5. t => Earned(d)
  BY <1>2, <1>4 DEF Earned, SameButTier
<1> QED
  BY <1>3, <1>4, <1>5

\* A new candidate is its record's, without gaps.
LEMMA NewCandidate ==
  ASSUME NEW r \in Records, NEW o \in {"local", "external", "proxy"}
  PROVE  /\ new_candidate(r, o) \in Candidate
         /\ new_candidate(r, o).source = r /\ new_candidate(r, o).base = r.id
         /\ new_candidate(r, o).origin = o /\ new_candidate(r, o).scenario = 0
         /\ new_candidate(r, o).gaps = {}
<1> DEFINE c == [base |-> r.id, source |-> r, origin |-> o, scenario |-> 0, type |-> InitialType(r, o),
                 gaps |-> {}, incomplete |-> r.formal = "incomplete", low |-> r.low,
                 tier |-> "REFERENCE_ONLY", routers |-> <<>>]
<1>1. InitialType(r, o) \in ResolutionType
  BY GraphAssumption DEF InitialType, ResolutionType, DirectTypes, AdjustedTypes, ReferenceTypes
<1>2. c \in Candidate
  BY <1>1, GraphAssumption DEF Candidate, ResultTier
<1>3. c.source = r /\ c.base = r.id /\ c.origin = o /\ c.scenario = 0 /\ c.gaps = {}
  OBVIOUS
<1>4. new_candidate(r, o) = finalize_candidate(c, FALSE)
  BY DEF new_candidate
<1> HIDE DEF c
<1> DEFINE d == new_candidate(r, o)
<1>5. d \in Candidate /\ SameButTier(c, d)
  BY <1>2, <1>4, Finalized
<1> QED
  BY <1>3, <1>5 DEF SameButTier, SameItem

\* Evaluation makes new candidates of qualified records.
LEMMA Evaluated ==
  ASSUME NEW R \in SUBSET Records, NEW refused, NEW o \in {"local", "external", "proxy"},
         NEW c \in evaluate_records(R, refused, o)
  PROVE  /\ c \in Candidate /\ c.source \in Qualified
         /\ c.source \in R /\ c.base = c.source.id /\ c = new_candidate(c.source, o)
         /\ c.origin = o /\ c.scenario = 0 /\ c.gaps = {}
<1>1. PICK r \in R : qualify_record(r) /\ c = new_candidate(r, o)
  BY DEF evaluate_records
<1>2. r \in Records
  OBVIOUS
<1> QED
  BY <1>1, <1>2, NewCandidate DEF Qualified

\* What the gap analysis makes of a candidate.
Analysed(c) == finalize_candidate([c EXCEPT !.gaps = analyze_candidate_gaps(c)], FALSE)

\* The analysis changes gaps and tier.
LEMMA GapsAnalysed ==
  ASSUME NEW c \in Candidate
  PROVE  /\ Analysed(c) \in Candidate
         /\ SameItem(c, Analysed(c)) /\ Analysed(c).source = c.source
<1> DEFINE G == analyze_candidate_gaps(c)
           e == [c EXCEPT !.gaps = G]
           d == finalize_candidate(e, FALSE)
<1>1. G \in SUBSET GapType
  BY DEF analyze_candidate_gaps, GradeGap, GapType
<1> HIDE DEF G
<1>2. e \in Candidate /\ SameItem(c, e) /\ e.source = c.source
  BY <1>1 DEF Candidate, SameItem
<1> HIDE DEF e
<1>3. d \in Candidate /\ SameButTier(e, d)
  BY <1>2, Finalized
<1> HIDE DEF d
<1>4. d \in Candidate /\ SameItem(c, d) /\ d.source = c.source
  BY <1>2, <1>3 DEF SameButTier, SameItem
<1> QED
  BY <1>4 DEF d, e, G, Analysed

\* Another resolution type leaves the rest of a candidate alone.
LEMMA WithType ==
  ASSUME NEW c \in Candidate, NEW t \in ResolutionType
  PROVE  /\ [c EXCEPT !.type = t] \in Candidate
         /\ SameItem(c, [c EXCEPT !.type = t])
         /\ [c EXCEPT !.type = t].source = c.source
         /\ [c EXCEPT !.type = t].gaps = c.gaps
         /\ [c EXCEPT !.type = t].routers = c.routers
BY DEF Candidate, SameItem

\* A derivation that keeps the source and the scenario.
LEMMA Retyped ==
  ASSUME NEW c \in Candidate, NEW t \in ResolutionType
  PROVE  /\ finalize_candidate([c EXCEPT !.type = t], FALSE) \in Candidate
         /\ SameItem(c, finalize_candidate([c EXCEPT !.type = t], FALSE))
         /\ finalize_candidate([c EXCEPT !.type = t], FALSE).source = c.source
         /\ finalize_candidate([c EXCEPT !.type = t], FALSE).gaps = c.gaps
         /\ finalize_candidate([c EXCEPT !.type = t], FALSE).routers = c.routers
<1> DEFINE b == [c EXCEPT !.type = t]
<1>1. /\ b \in Candidate /\ SameItem(c, b)
      /\ b.source = c.source /\ b.gaps = c.gaps /\ b.routers = c.routers
  BY WithType
<1> HIDE DEF b
<1> DEFINE e == finalize_candidate(b, FALSE)
<1>2. e \in Candidate /\ SameButTier(b, e)
  BY <1>1, Finalized
<1> HIDE DEF e
<1>3. /\ e \in Candidate /\ SameItem(c, e)
      /\ e.source = c.source /\ e.gaps = c.gaps /\ e.routers = c.routers
  BY <1>1, <1>2 DEF SameButTier, SameItem
<1> QED
  BY <1>3 DEF e, b

\* Another source, as a grade anchor has.
LEMMA Resourced ==
  ASSUME NEW c \in Candidate, NEW r \in Records, NEW t \in ResolutionType
  PROVE  /\ finalize_candidate([c EXCEPT !.source = r, !.type = t], FALSE) \in Candidate
         /\ SameItem(c, finalize_candidate([c EXCEPT !.source = r, !.type = t], FALSE))
         /\ finalize_candidate([c EXCEPT !.source = r, !.type = t], FALSE).source = r
         /\ finalize_candidate([c EXCEPT !.source = r, !.type = t], FALSE).gaps = c.gaps
<1> DEFINE a == [c EXCEPT !.source = r]
<1>1. a \in Candidate /\ SameItem(c, a) /\ a.source = r /\ a.gaps = c.gaps
  BY DEF Candidate, SameItem
<1>2. [c EXCEPT !.source = r, !.type = t] = [a EXCEPT !.type = t]
  BY DEF Candidate
<1> HIDE DEF a
<1> DEFINE e == finalize_candidate([a EXCEPT !.type = t], FALSE)
<1>3. e \in Candidate /\ SameItem(a, e) /\ e.source = a.source /\ e.gaps = a.gaps
  BY <1>1, Retyped
<1>4. finalize_candidate([c EXCEPT !.source = r, !.type = t], FALSE) = e
  BY <1>2
<1> HIDE DEF e
<1> QED
  BY <1>1, <1>3, <1>4 DEF SameItem

\* The unit step keeps the gaps.
LEMMA UnitScaled ==
  ASSUME NEW c \in Candidate
  PROVE  /\ resolve_unit_scale(c) \in Candidate
         /\ SameItem(c, resolve_unit_scale(c))
         /\ resolve_unit_scale(c).source = c.source
         /\ resolve_unit_scale(c).gaps = c.gaps
<1>1. "UNIT_CONVERTED" \in ResolutionType
  BY DEF ResolutionType, DirectTypes
<1>2. SameItem(c, c)
  BY DEF SameItem
<1> QED
  BY <1>1, <1>2, Retyped DEF resolve_unit_scale

\* The reference-flow step closes its gap under a scenario.
LEMMA FlowResolved ==
  ASSUME NEW c \in Candidate, NEW s \in Scenarios
  PROVE  /\ resolve_reference_flow(c, s) \in Candidate
         /\ resolve_reference_flow(c, s).base = c.base
         /\ resolve_reference_flow(c, s).origin = c.origin
         /\ resolve_reference_flow(c, s).scenario = s
         /\ resolve_reference_flow(c, s).source = c.source
         /\ resolve_reference_flow(c, s).gaps = c.gaps \ {"REFERENCE_FLOW"}
<1> DEFINE t == "REFERENCE_FLOW_CONVERTED"
           a == [c EXCEPT !.type = t]
           b == [a EXCEPT !.scenario = s]
           e == finalize_candidate(b, FALSE)
           d == [e EXCEPT !.gaps = e.gaps \ {"REFERENCE_FLOW"}]
<1>0. t \in ResolutionType
  BY DEF ResolutionType, AdjustedTypes
<1>1. a \in Candidate /\ SameItem(c, a) /\ a.source = c.source /\ a.gaps = c.gaps
  BY <1>0, WithType
<1>2. [c EXCEPT !.type = t, !.scenario = s] = b
  BY DEF Candidate
<1>3. resolve_reference_flow(c, s) = d
  BY <1>2 DEF resolve_reference_flow
<1> HIDE DEF t, a
<1>4. b \in Candidate /\ b.base = c.base /\ b.origin = c.origin /\ b.scenario = s
      /\ b.source = c.source /\ b.gaps = c.gaps
  BY <1>1 DEF Candidate, SameItem
<1> HIDE DEF b
<1>5. e \in Candidate /\ SameButTier(b, e)
  BY <1>4, Finalized
<1> HIDE DEF e
<1>6. /\ d \in Candidate /\ d.base = e.base /\ d.origin = e.origin /\ d.scenario = e.scenario
      /\ d.source = e.source /\ d.gaps = e.gaps \ {"REFERENCE_FLOW"}
  BY <1>5 DEF Candidate
<1> HIDE DEF d
<1> QED
  BY <1>3, <1>4, <1>5, <1>6 DEF SameButTier, SameItem

\* What a technical resolution keeps: the identity, and no new gap.
Follows(c, d) ==
    /\ d \in Candidate /\ SameItem(c, d) /\ d.gaps \subseteq c.gaps
    /\ c.source \in Qualified => d.source \in Qualified

\* A candidate follows itself.
LEMMA FollowsItself ==
  ASSUME NEW c \in Candidate
  PROVE  Follows(c, c)
BY DEF Follows, SameItem

\* Closing gaps gives one that follows.
LEMMA WithoutGaps ==
  ASSUME NEW c \in Candidate, NEW G
  PROVE  /\ Follows(c, [c EXCEPT !.gaps = c.gaps \ G])
         /\ [c EXCEPT !.gaps = c.gaps \ G].low = c.low
BY DEF Follows, SameItem, Candidate

\* What follows one that follows, follows.
LEMMA FollowsTransitive ==
  ASSUME NEW c, NEW d, NEW e, Follows(c, d), Follows(d, e)
  PROVE  Follows(c, e)
BY DEF Follows, SameItem

\* The process step's outcomes follow the candidate.
LEMMA ProcessResolved ==
  ASSUME NEW c \in Candidate, NEW d \in ProcessOutcomes(c)
  PROVE  Follows(c, d)
<1>1. "UNADJUSTED_PROCESS_PROXY" \in ResolutionType /\ "PROCESS_ADJUSTED" \in ResolutionType
  BY DEF ResolutionType, AdjustedTypes, ReferenceTypes
<1>2. ASSUME NEW t \in ResolutionType
      PROVE  Follows(c, finalize_candidate([c EXCEPT !.type = t], FALSE))
  BY Retyped DEF Follows
<1>3. CASE d = c
  BY <1>3, FollowsItself
<1>4. CASE d = finalize_candidate([c EXCEPT !.type = "UNADJUSTED_PROCESS_PROXY"], FALSE)
  BY <1>1, <1>2, <1>4
<1>5. ASSUME NEW l \in {c.low, FALSE},
             d = [finalize_candidate([c EXCEPT !.type = "PROCESS_ADJUSTED"], FALSE)
                    EXCEPT !.gaps = @ \ {"PROCESS_VARIANT"}, !.low = l]
      PROVE  Follows(c, d)
  <2> DEFINE e == finalize_candidate([c EXCEPT !.type = "PROCESS_ADJUSTED"], FALSE)
             g == [e EXCEPT !.gaps = e.gaps \ {"PROCESS_VARIANT"}]
             h == [g EXCEPT !.low = l]
  <2>1. Follows(c, e) /\ e \in Candidate
    BY <1>1, <1>2 DEF Follows
  <2>2. d = h
    BY <1>5, <2>1 DEF Candidate
  <2>a. c.low \in BOOLEAN
    BY DEF Candidate
  <2>3. l \in BOOLEAN
    BY <1>5, <2>a, Zenon
  <2> HIDE DEF e
  <2>4. Follows(e, g) /\ g \in Candidate
    BY <2>1, WithoutGaps DEF Follows
  <2> HIDE DEF g
  <2>5. Follows(g, h)
    BY <2>3, <2>4 DEF Follows, SameItem, Candidate
  <2> HIDE DEF h
  <2> QED
    BY <2>1, <2>2, <2>4, <2>5, FollowsTransitive
<1> QED
  BY <1>3, <1>4, <1>5 DEF ProcessOutcomes, resolve_process_variant

\* So do the grade step's, whatever anchors it was given.
LEMMA GradeResolved ==
  ASSUME NEW c \in Candidate, c.source \in Qualified, NEW answer \in SUBSET Records,
         NEW d \in GradeOutcomes(c, answer)
  PROVE  Follows(c, d)
<1> DEFINE series == {r \in answer : grade_anchor(r, c.source)}
           Derived(r, type) == finalize_candidate([c EXCEPT !.source = r, !.type = type], FALSE)
           Closed(e) == [e EXCEPT !.gaps = @ \ GradeGaps]
           T == {"GRADE_EXACT_ANCHOR", "GRADE_INTERPOLATED", "GRADE_PROXY"}
<1>1. T \subseteq ResolutionType
  BY DEF ResolutionType, AdjustedTypes, ReferenceTypes
<1>2. ASSUME NEW r \in series \cup {c.source}, NEW t \in T
      PROVE  Follows(c, Derived(r, t)) /\ Follows(c, Closed(Derived(r, t)))
  <2> DEFINE e == Derived(r, t)
  <2>1. r \in Records /\ r \in Qualified
    BY DEF Candidate, grade_anchor, Qualified
  <2>2. t \in ResolutionType
    BY <1>1
  <2>3. e \in Candidate /\ SameItem(c, e) /\ e.source = r /\ e.gaps = c.gaps
    BY <2>1, <2>2, Resourced
  <2> HIDE DEF e
  <2>4. Follows(c, e)
    BY <2>1, <2>3 DEF Follows
  <2>5. Follows(e, Closed(e))
    BY <2>3, WithoutGaps
  <2>6. Follows(c, e) /\ Follows(c, Closed(e))
    BY <2>4, <2>5, FollowsTransitive
  <2> QED
    BY <2>6 DEF e
<1>3. CASE d = c
  BY <1>3, FollowsItself
<1>4. CASE d \in resolve_grade(c, series)
  <2>1. \E r \in series \cup {c.source}, t \in T : d = Derived(r, t) \/ d = Closed(Derived(r, t))
    BY <1>4 DEF resolve_grade
  <2> QED
    BY <1>2, <2>1
<1> QED
  BY <1>3, <1>4 DEF GradeOutcomes

\* The next turn of a candidate.
LEMMA NextTurn ==
  ASSUME NEW c \in Candidate, c.routers # <<>>, NEW d, Follows(c, d)
  PROVE  /\ [d EXCEPT !.routers = Tail(c.routers)] \in Candidate
         /\ Follows(c, [d EXCEPT !.routers = Tail(c.routers)])
<1>1. \/ \E a \in Router : c.routers = <<a>>
      \/ \E a, b \in Router : c.routers = <<a, b>>
  BY DEF Candidate
<1>a. ASSUME NEW a, NEW b
      PROVE  Tail(<<a>>) = <<>> /\ Tail(<<a, b>>) = <<b>>
  OBVIOUS
<1>2. \/ Tail(c.routers) = <<>>
      \/ \E b \in Router : Tail(c.routers) = <<b>>
  BY <1>1, <1>a, Zenon
<1> DEFINE R == Tail(c.routers)
<1>3. R \in {<<>>} \cup {<<a>> : a \in Router} \cup {<<a, b>> : a \in Router, b \in Router}
  BY <1>2
<1> HIDE DEF R
<1> DEFINE e == [d EXCEPT !.routers = R]
<1>4. e \in Candidate /\ SameItem(d, e) /\ e.gaps = d.gaps /\ e.source = d.source
  BY <1>3 DEF Candidate, Follows, SameItem
<1> HIDE DEF e
<1>5. Follows(c, e)
  BY <1>4 DEF Follows, SameItem
<1> QED
  BY <1>4, <1>5 DEF e, R

\* A candidate starts its turns.
LEMMA FirstTurn ==
  ASSUME NEW c \in Candidate
  PROVE  /\ Follows(c, [c EXCEPT !.routers = technical_order(c)])
         /\ [c EXCEPT !.routers = technical_order(c)].routers # <<>>
         /\ [c EXCEPT !.routers = technical_order(c)].source = c.source
<1> DEFINE R == technical_order(c)
<1>1. \E a, b \in Router : R = <<a, b>>
  BY DEF technical_order, Router
<1>2. R # <<>> /\ R \in {<<a, b>> : a \in Router, b \in Router}
  BY <1>1
<1> HIDE DEF R
<1> DEFINE e == [c EXCEPT !.routers = R]
<1>3. e \in Candidate /\ SameItem(c, e) /\ e.gaps = c.gaps /\ e.source = c.source /\ e.routers = R
  BY <1>2 DEF Candidate, SameItem
<1> HIDE DEF e
<1>4. Follows(c, e)
  BY <1>3 DEF Follows
<1> QED
  BY <1>2, <1>3, <1>4 DEF e, R

-----------------------------------------------------------------------------
(* There are finitely many candidates, and what a list of them shows.      *)

\* Two elements are finitely many.
LEMMA FinitePair ==
  ASSUME NEW a, NEW b
  PROVE  IsFiniteSet({a, b})
<1>1. IsFiniteSet({a}) /\ IsFiniteSet({b})
  BY FS_Singleton
<1>2. {a, b} = {a} \cup {b}
  OBVIOUS
<1> QED
  BY <1>1, <1>2, FS_Union

\* So are those of two finite sets.
LEMMA FiniteUnion ==
  ASSUME NEW S, NEW T, IsFiniteSet(S), IsFiniteSet(T)
  PROVE  IsFiniteSet(S \cup T)
BY FS_Union

\* A record is determined by the pairs of its fields and values.
LEMMA CandidateFinite == IsFiniteSet(Candidate)
<1> DEFINE F1 == {"base", "source"} \cup {"origin", "scenario"}
           F2 == {"type", "gaps"} \cup {"incomplete", "low"}
           F3 == {"tier", "routers"}
           Fields == F1 \cup (F2 \cup F3)
           Bases == {r.id : r \in Records}
           Origins == {"local", "external"} \cup {"proxy", "proxy"}
           Routes == {<<>>} \cup {<<a>> : a \in Router} \cup {<<a, b>> : a \in Router, b \in Router}
           Values == ((Bases \cup Records) \cup (Origins \cup (Scenarios \cup {0})))
                     \cup ((ResolutionType \cup SUBSET GapType) \cup (BOOLEAN \cup (ResultTier \cup Routes)))
           graph == [c \in Candidate |-> {<<x, c[x]>> : x \in Fields}]
<1>1. IsFiniteSet(Fields)
  BY FinitePair, FiniteUnion, Zenon
<1>2. IsFiniteSet(Values)
  <2>1. IsFiniteSet(Bases)
    <3> DEFINE f == [r \in Records |-> r.id]
    <3>1. f \in Surjection(Records, Bases)
      BY DEF Surjection
    <3> QED
      BY <3>1, FS_Surjection, GraphAssumption
  <2>2. IsFiniteSet(Origins) /\ IsFiniteSet(BOOLEAN)
    <3>1. BOOLEAN = {TRUE, FALSE}
      OBVIOUS
    <3> QED
      BY <3>1, FinitePair, FiniteUnion, Zenon
  <2>3. IsFiniteSet(Scenarios \cup {0}) /\ IsFiniteSet(Records)
    BY FS_Singleton, FiniteUnion, GraphAssumption
  <2>4. IsFiniteSet(ResolutionType)
    <3>1. ResolutionType =
            ((DirectTypes \cup {"GRADE_EXACT_ANCHOR", "GRADE_PROXY"})
             \cup {"UNADJUSTED_PROCESS_PROXY", "CLASS_GENERIC_PROXY"})
            \cup ({"REFERENCE_FLOW_CONVERTED", "PROCESS_ADJUSTED"}
                  \cup {"GRADE_INTERPOLATED", "CLASS_TECHNICAL_PROXY"})
      BY DEF ResolutionType, AdjustedTypes, ReferenceTypes
    <3>2. DirectTypes = {"DIRECT_EXACT", "DIRECT_ALIAS"} \cup {"UNIT_CONVERTED", "UNIT_CONVERTED"}
      BY DEF DirectTypes
    <3>3. IsFiniteSet(DirectTypes)
      BY <3>2, FinitePair, FiniteUnion
    <3> QED
      BY <3>1, <3>3, FinitePair, FiniteUnion, Zenon
  <2>5. IsFiniteSet(SUBSET GapType)
    <3>1. GapType = ({"UNIT_SCALE", "REFERENCE_FLOW"} \cup {"PROCESS_VARIANT", "GRADE_COMPOSITION"})
                    \cup ({"GRADE_CONFLICT", "MATERIAL_ABSENT"} \cup {"OTHER", "OTHER"})
      BY DEF GapType
    <3>2. IsFiniteSet(GapType)
      BY <3>1, FinitePair, FiniteUnion, Zenon
    <3> QED
      BY <3>2, FS_SUBSET
  <2>6. IsFiniteSet(ResultTier)
    <3>1. ResultTier = {"PRIMARY_RECOMMENDATION", "USABLE_WITH_ASSUMPTIONS"}
                       \cup {"REFERENCE_ONLY", "REFERENCE_ONLY"}
      BY DEF ResultTier
    <3> QED
      BY <3>1, FinitePair, FiniteUnion, Zenon
  <2>7. IsFiniteSet(Routes)
    <3> DEFINE p == "PROCESS_VARIANT"
               g == "GRADE_COMPOSITION"
    <3>1. {<<a>> : a \in Router} = {<<p>>, <<g>>}
      BY DEF Router
    <3>2. {<<a, b>> : a \in Router, b \in Router} = {<<p, p>>, <<p, g>>} \cup {<<g, p>>, <<g, g>>}
      BY DEF Router
    <3> DEFINE Ones == {<<a>> : a \in Router}
               Twos == {<<a, b>> : a \in Router, b \in Router}
    <3>3. IsFiniteSet({<<>>})
      BY FS_Singleton
    <3>4. IsFiniteSet(Ones)
      BY <3>1, FinitePair
    <3>5. IsFiniteSet({<<p, p>>, <<p, g>>}) /\ IsFiniteSet({<<g, p>>, <<g, g>>})
      BY FinitePair, Zenon
    <3>6. Twos = {<<p, p>>, <<p, g>>} \cup {<<g, p>>, <<g, g>>}
      BY <3>2
    <3>7. Routes = ({<<>>} \cup Ones) \cup Twos
      OBVIOUS
    <3> HIDE DEF Ones, Twos, Routes
    <3>8. IsFiniteSet(Twos)
      BY <3>5, <3>6, FiniteUnion, Zenon
    <3>9. IsFiniteSet({<<>>} \cup Ones)
      BY <3>3, <3>4, FiniteUnion, Zenon
    <3> QED
      BY <3>7, <3>8, <3>9, FiniteUnion, Zenon
  <2> HIDE DEF Bases, Origins, Routes
  <2> QED
    BY <2>1, <2>2, <2>3, <2>4, <2>5, <2>6, <2>7, FiniteUnion, Zenon
<1>3. \A c \in Candidate : \A x \in Fields : c[x] \in Values
  BY DEF Candidate
<1>4. \A c, d \in Candidate : (\A x \in Fields : c[x] = d[x]) => c = d
  BY DEF Candidate
<1> HIDE DEF Fields, Values
<1>5. graph \in Injection(Candidate, SUBSET (Fields \X Values))
  <2>1. graph \in [Candidate -> SUBSET (Fields \X Values)]
    BY <1>3
  <2>2. ASSUME NEW c \in Candidate, NEW d \in Candidate, graph[c] = graph[d]
        PROVE  c = d
    <3>1. {<<x, c[x]>> : x \in Fields} = {<<x, d[x]>> : x \in Fields}
      BY <2>2
    <3>2. \A x \in Fields : <<x, c[x]>> \in {<<y, d[y]>> : y \in Fields}
      BY <3>1
    <3>3. \A x \in Fields : c[x] = d[x]
      BY <3>2
    <3> QED
      BY <3>3, <1>4
  <2> QED
    BY <2>1, <2>2 DEF Injection, IsInjective
<1>6. IsFiniteSet(SUBSET (Fields \X Values))
  BY <1>1, <1>2, FS_Product, FS_SUBSET
<1> QED
  BY <1>5, <1>6, FS_Injection

\* A list is the whole ranking or holds TopK of it, and is empty for nothing only.
LEMMA LeadingShows ==
  ASSUME NEW S, IsFiniteSet(S), NEW T \in Leading(S)
  PROVE  /\ T \subseteq S
         /\ T = S \/ Cardinality(T) = TopK
         /\ S # {} => T # {}
<1>1. T \in SUBSET S /\ Cardinality(T) = IF Cardinality(S) <= TopK THEN Cardinality(S) ELSE TopK
  BY DEF Leading
<1>2. IsFiniteSet(T) /\ (Cardinality(S) = Cardinality(T) => S = T)
  BY <1>1, FS_Subset
<1>3. T = S \/ Cardinality(T) = TopK
  BY <1>1, <1>2
<1>4. Cardinality(T) = TopK => T # {}
  BY FS_EmptySet, GraphAssumption
<1> QED
  BY <1>1, <1>3, <1>4

-----------------------------------------------------------------------------
(* The inductive invariant: the nodes that change no candidate.            *)

\* Qualification depends on the request only.
LEMMA QualifiedStays ==
  ASSUME request' = request
  PROVE  Qualified' = Qualified
BY DEF Qualified, qualify_record, SubjectUnstated, PlaceConflict, UnitMismatch

\* What a node notes of records are reason codes.
LEMMA NotedType ==
  ASSUME NEW R \in SUBSET Records
  PROVE  Noted(R) \subseteq UnitCodes \cup {Conflict, HashRequired}
<1>1. \A r : UnitMismatch(r) \subseteq UnitCodes
  BY DEF UnitMismatch, UnitCodes
<1> DEFINE A == UNION {UnitMismatch(r) : r \in R}
           B == {h \in {HashRequired} : \E r \in R : ~r.hashed}
<1>2. A \subseteq UnitCodes
  BY <1>1, Zenon
<1>3. B \subseteq {HashRequired}
  OBVIOUS
<1>4. Noted(R) = A \cup B
  BY Zenon DEF Noted
<1> HIDE DEF A, B
<1> QED
  BY <1>2, <1>3, <1>4

\* Qualifications are Boolean.
LEMMA QualifyType ==
  ASSUME NEW R
  PROVE  /\ {qualify_record(r) : r \in R} \subseteq BOOLEAN
         /\ \A c : {grade_anchor(r, c) : r \in R} \subseteq BOOLEAN
BY DEF qualify_record, grade_anchor

\* The invariant holds initially.
LEMMA InitHolds ==
  ASSUME Init
  PROVE  WorkInv /\ EndInv
<1>1. TypeOK
  BY DEF Init, TypeOK, PortStages, Lists, NoRecommendation
<1>2. SourcesInv /\ FlowInv /\ TurnInv /\ StageInv /\ LocalPhase /\ ExternalPhase /\ ProxyPhase
      /\ TierInv /\ PoolInv
  BY DEF Init, SourcesInv, FlowInv, FlowClosed, TurnInv, StageInv, LocalPhase, ExternalPhase,
         ProxyPhase, TierInv, PoolInv, Late, Resolving, Early, NeedProxy, Origin
<1>3. EndInv
  BY DEF Init, EndInv, SelectableIsClean, EveryCandidateIsShown, StatusHasItsCause, Ended
<1> QED
  BY <1>1, <1>2, <1>3 DEF WorkInv

\* Stuttering keeps it.
LEMMA StutterKeeps ==
  ASSUME WorkInv, EndInv, UNCHANGED vars
  PROVE  WorkInv' /\ EndInv'
<1> USE DEF WorkInv, vars, results, findings, asks
<1>1. TypeOK'
  BY DEF TypeOK, Lists
<1>2. SourcesInv'
  BY QualifiedStays DEF SourcesInv
<1>3. FlowInv' /\ TurnInv' /\ StageInv' /\ TierInv' /\ PoolInv'
  BY DEF FlowInv, FlowClosed, TurnInv, StageInv, TierInv, PoolInv
<1>4. LocalPhase' /\ ExternalPhase' /\ ProxyPhase'
  BY DEF LocalPhase, ExternalPhase, ProxyPhase
<1>5. SelectableIsClean'
  BY DEF EndInv, SelectableIsClean, Ended, unit_reason_codes, qualify_record, SubjectUnstated,
         PlaceConflict, UnitMismatch
<1>6. EveryCandidateIsShown'
  BY DEF EndInv, EveryCandidateIsShown, Ended, unit_reason_codes, Lists
<1>7. StatusHasItsCause'
  BY DEF EndInv, StatusHasItsCause, Ended
<1> QED
  BY <1>1, <1>2, <1>3, <1>4, <1>5, <1>6, <1>7 DEF EndInv

\* Until the recommendation is made there is nothing to say of it.
LEMMA NotEnded ==
  ASSUME stage' # "terminal"
  PROVE  EndInv'
BY DEF EndInv, SelectableIsClean, EveryCandidateIsShown, StatusHasItsCause, Ended

\* Normalisation makes no candidates.
LEMMA NormalizeKeeps ==
  ASSUME WorkInv, Normalize
  PROVE  WorkInv'
<1> USE DEF WorkInv, Normalize, results, findings
<1>1. TypeOK'
  BY DEF TypeOK, PortStages, Lists
<1>2. SourcesInv'
  BY QualifiedStays DEF SourcesInv
<1>3. FlowInv' /\ TurnInv' /\ StageInv' /\ TierInv' /\ PoolInv'
  BY DEF FlowInv, FlowClosed, TurnInv, StageInv, TierInv, PoolInv, Late, Resolving, Early
<1>4. LocalPhase' /\ ExternalPhase' /\ ProxyPhase'
  BY DEF LocalPhase, ExternalPhase, ProxyPhase, StageInv, Late, Resolving, Early
<1> QED
  BY <1>1, <1>2, <1>3, <1>4

\* Local retrieval brings records only.
LEMMA LocalRetrievalKeeps ==
  ASSUME WorkInv, LocalRetrieval
  PROVE  WorkInv'
<1> USE DEF WorkInv, LocalRetrieval, results, asks
<1>1. TypeOK'
  <2>1. records' \subseteq Records
    BY DEF Answers, Records
  <2>2. observed' \subseteq UnitCodes \cup {Conflict, HashRequired}
    BY DEF TypeOK
  <2> QED
    BY <2>1, <2>2 DEF TypeOK, PortStages, Lists
<1>2. SourcesInv'
  BY QualifiedStays DEF SourcesInv
<1>3. FlowInv' /\ TurnInv' /\ StageInv' /\ TierInv' /\ PoolInv'
  BY DEF FlowInv, FlowClosed, TurnInv, StageInv, TierInv, PoolInv, Late, Resolving, Early
<1>4. LocalPhase' /\ ExternalPhase' /\ ProxyPhase'
  BY DEF LocalPhase, ExternalPhase, ProxyPhase, StageInv, Late, Resolving, Early
<1> QED
  BY <1>1, <1>2, <1>3, <1>4

\* A port that fails ends the resolution.
LEMMA PortFailsKeeps ==
  ASSUME WorkInv, PortFails
  PROVE  WorkInv'
<1> USE DEF WorkInv, PortFails, results, findings, asks
<1>1. TypeOK'
  BY DEF TypeOK, Lists
<1>2. SourcesInv'
  BY QualifiedStays DEF SourcesInv
<1>3. FlowInv' /\ TurnInv' /\ StageInv' /\ TierInv' /\ PoolInv'
  BY DEF FlowInv, FlowClosed, TurnInv, StageInv, TierInv, PoolInv, Late, Resolving, Early, PortStages
<1>4. LocalPhase' /\ ExternalPhase' /\ ProxyPhase'
  BY DEF LocalPhase, ExternalPhase, ProxyPhase, StageInv, Late, Resolving, Early, PortStages
<1> QED
  BY <1>1, <1>2, <1>3, <1>4

\* Local records become candidates without proxies or external evidence beside them.
LEMMA LocalEvaluateKeeps ==
  ASSUME WorkInv, LocalEvaluate
  PROVE  WorkInv'
<1> USE DEF WorkInv, LocalEvaluate, results
<1>1. PICK refused \in SUBSET records : candidates' = evaluate_records(records, refused, "local")
  OBVIOUS
<1>2. \A c \in candidates' : c \in Candidate /\ c.source \in Qualified /\ c.origin = "local"
  <2>1. records \in SUBSET Records
    BY DEF TypeOK
  <2> QED
    BY <1>1, <2>1, Evaluated
<1>3. stage' \in {"external_discovery", "gap_analysis"}
  OBVIOUS
<1>4. phase' = "local" /\ external' = {} /\ required_fields' = {}
  BY DEF StageInv, Early
<1>5. TypeOK'
  <2>1. qualifications' \subseteq BOOLEAN
    BY QualifyType
  <2>2. observed' \subseteq UnitCodes \cup {Conflict, HashRequired}
    BY NotedType DEF TypeOK
  <2>3. request_gaps' \subseteq {"specification", "subject_type", "route"}
    BY DEF TypeOK, SubjectGap, RouteGap
  <2> QED
    BY <1>2, <1>3, <2>1, <2>2, <2>3 DEF TypeOK, PortStages, Lists
<1>6. SourcesInv'
  BY <1>2, QualifiedStays DEF SourcesInv
<1>7. FlowInv' /\ TurnInv' /\ TierInv' /\ PoolInv'
  BY <1>3 DEF FlowInv, FlowClosed, TurnInv, TierInv, PoolInv, Late
<1>8. StageInv'
  BY <1>3, <1>4 DEF StageInv, Late, Resolving, Early
<1>9. LocalPhase' /\ ExternalPhase' /\ ProxyPhase'
  BY <1>2, <1>3, <1>4 DEF LocalPhase, ExternalPhase, ProxyPhase, Origin
<1> QED
  BY <1>5, <1>6, <1>7, <1>8, <1>9

-----------------------------------------------------------------------------
(* Discovery and the nodes of the resolution.                              *)

\* What a discovery yields: external candidates of distinct records.
LEMMA Discovered ==
  ASSUME TypeOK, Discover
  PROVE  /\ records' \subseteq Records
         /\ qualifications' \subseteq BOOLEAN
         /\ observed' \subseteq UnitCodes \cup {Conflict, HashRequired}
         /\ request_gaps \subseteq request_gaps'
         /\ request_gaps' \subseteq {"specification", "subject_type", "route"}
         /\ \A c \in external' : c \in Candidate /\ c.source \in Qualified /\ c.origin = "external"
                                 /\ c.scenario = 0
         /\ \A c, d \in external' : Id(c) = Id(d) => c = d
<1> DEFINE unique(R) == R \ Duplicated(R)
<1>1. PICK R \in Answers(ExternalRecords) :
        /\ records' = unique(R)
        /\ \E refused \in SUBSET unique(R) : external' = evaluate_records(unique(R), refused, "external")
        /\ qualifications' = qualifications \cup {qualify_record(r) : r \in unique(R)}
        /\ observed' = observed \cup Noted(unique(R)) \cup {x \in {Conflict} : Duplicated(R) # {}}
        /\ request_gaps' = request_gaps \cup SubjectGap(unique(R))
                                        \cup RouteGap(external', {"open", "unidentified"})
  BY DEF Discover
<1>2. PICK refused : external' = evaluate_records(unique(R), refused, "external")
  BY <1>1
<1>3. unique(R) \in SUBSET Records
  BY <1>1 DEF Answers, Records
<1>4. \A c \in external' :
        /\ c \in Candidate /\ c.source \in Qualified /\ c.origin = "external" /\ c.scenario = 0
        /\ c.source \in unique(R) /\ c.base = c.source.id /\ c = new_candidate(c.source, "external")
  <2> DEFINE U == unique(R)
  <2>1. U \in SUBSET Records /\ external' = evaluate_records(U, refused, "external")
    BY <1>2, <1>3
  <2> HIDE DEF U
  <2>2. \A c \in external' :
          /\ c \in Candidate /\ c.source \in Qualified /\ c.origin = "external" /\ c.scenario = 0
          /\ c.source \in U /\ c.base = c.source.id /\ c = new_candidate(c.source, "external")
    BY <2>1, Evaluated
  <2> QED
    BY <2>2 DEF U
<1>5. \A r, s \in unique(R) : r.id = s.id => r = s
  BY DEF Duplicated
<1>6. \A c, d \in external' : Id(c) = Id(d) => c = d
  BY <1>4, <1>5 DEF Id
<1>7. qualifications' \subseteq BOOLEAN
  BY <1>1, QualifyType DEF TypeOK
<1>8. observed' \subseteq UnitCodes \cup {Conflict, HashRequired}
  BY <1>1, <1>3, NotedType DEF TypeOK
<1>9. request_gaps \subseteq request_gaps' /\ request_gaps' \subseteq {"specification", "subject_type", "route"}
  BY <1>1 DEF TypeOK, SubjectGap, RouteGap
<1> QED
  BY <1>1, <1>3, <1>4, <1>6, <1>7, <1>8, <1>9

\* Discovery for gaps asks before there are external candidates.
LEMMA DiscoverForGapsKeeps ==
  ASSUME WorkInv, DiscoverForGaps
  PROVE  WorkInv'
<1> USE DEF WorkInv, DiscoverForGaps
<1>1. TypeOK' /\ request_gaps' # {}
  BY Discovered DEF TypeOK, PortStages, Lists
<1>2. SourcesInv'
  BY Discovered, QualifiedStays DEF SourcesInv
<1>3. FlowInv' /\ TurnInv' /\ StageInv' /\ TierInv' /\ PoolInv'
  BY <1>1 DEF FlowInv, FlowClosed, TurnInv, StageInv, TierInv, PoolInv, Late, Resolving, Early
<1>4. LocalPhase' /\ ExternalPhase' /\ ProxyPhase'
  BY DEF LocalPhase, ExternalPhase, ProxyPhase, StageInv
<1> QED
  BY <1>1, <1>2, <1>3, <1>4

\* Discovery for want of candidates has no local ones beside it.
LEMMA DiscoverForLackKeeps ==
  ASSUME WorkInv, DiscoverForLack
  PROVE  WorkInv'
<1> USE DEF WorkInv, DiscoverForLack
<1>1. TypeOK /\ Discover /\ candidates = {} /\ phase = "local" /\ kept = {} /\ proxies = {}
  BY DEF StageInv, LocalPhase
<1>2. required_fields' = required_fields \cup request_gaps'
  BY DEF AskAlso
<1>3. CASE external' # {}
  <2>1. candidates' = external' /\ phase' = "external" /\ stage' = "gap_analysis"
    BY <1>3
  <2>2. TypeOK'
    BY <1>1, <1>2, <2>1, Discovered DEF TypeOK, PortStages, Lists
  <2>3. SourcesInv'
    BY <1>1, <2>1, Discovered, QualifiedStays DEF SourcesInv
  <2>4. FlowInv' /\ TurnInv' /\ StageInv' /\ TierInv' /\ PoolInv'
    BY <1>1, <1>2, <2>1 DEF FlowInv, FlowClosed, TurnInv, StageInv, TierInv, PoolInv, Late,
                            Resolving, Early
  <2>5. ExternalPhase'
    BY <1>1, <1>3, <2>1, Discovered DEF ExternalPhase, Origin, Id, Resolving
  <2>6. LocalPhase' /\ ProxyPhase'
    BY <2>1 DEF LocalPhase, ProxyPhase
  <2> QED
    BY <2>2, <2>3, <2>4, <2>5, <2>6
<1>4. CASE external' = {}
  <2>1. candidates' = {} /\ phase' = "local" /\ stage' \in {"material_resolution", "re_evaluate"}
    BY <1>1, <1>4 DEF NextAfterMaterial
  <2>2. stage' = "material_resolution" => required_fields' = {}
    BY <1>4 DEF NextAfterMaterial
  <2>3. TypeOK'
    BY <1>1, <1>2, <2>1, Discovered DEF TypeOK, PortStages, Lists
  <2>4. SourcesInv'
    BY <1>1, <1>4, <2>1, QualifiedStays DEF SourcesInv
  <2>5. FlowInv' /\ TurnInv' /\ StageInv' /\ TierInv' /\ PoolInv'
    BY <1>1, <1>2, <2>1 DEF FlowInv, FlowClosed, TurnInv, StageInv, TierInv, PoolInv, Late,
                            Resolving, Early
  <2>6. LocalPhase'
    BY <1>1, <1>2, <1>4, <2>1, <2>2 DEF LocalPhase, Origin, NeedProxy
  <2>7. ExternalPhase' /\ ProxyPhase'
    BY <2>1 DEF ExternalPhase, ProxyPhase
  <2> QED
    BY <2>3, <2>4, <2>5, <2>6, <2>7
<1> QED
  BY <1>3, <1>4

\* The analysis gives each candidate its gaps and its steps.
LEMMA GapAnalysisKeeps ==
  ASSUME WorkInv, GapAnalysis
  PROVE  WorkInv'
<1> USE DEF WorkInv, results, findings, asks
<1>0. /\ stage = "gap_analysis"
      /\ UNCHANGED <<request, phase, records, kept, results, findings, asks>>
      /\ stage' \in {"resolved", "unit_scale_resolution"} /\ (stage' = "resolved" => candidates' = {})
  BY DEF GapAnalysis
<1>1. candidates' = {Analysed(c) : c \in candidates}
  BY DEF Analysed, GapAnalysis
<1>2. \A c \in candidates : /\ Analysed(c) \in Candidate /\ SameItem(c, Analysed(c))
                            /\ Analysed(c).source = c.source
  BY GapsAnalysed DEF TypeOK
<1>3. \A d \in candidates' : \E c \in candidates :
         d \in Candidate /\ SameItem(c, d) /\ d.source = c.source /\ d = Analysed(c)
  BY <1>1, <1>2
<1>4. TypeOK'
  BY <1>0, <1>3 DEF TypeOK, PortStages, Lists
<1>5. SourcesInv'
  BY <1>0, <1>3, QualifiedStays DEF SourcesInv
<1>6. FlowInv' /\ TurnInv' /\ StageInv' /\ TierInv' /\ PoolInv'
  BY <1>0 DEF FlowInv, FlowClosed, TurnInv, StageInv, TierInv, PoolInv, Late, Resolving, Early
<1>7. LocalPhase' /\ ProxyPhase'
  BY <1>0, <1>3 DEF LocalPhase, ProxyPhase, Origin, SameItem, Late, Resolving
<1>8. ExternalPhase'
  <2>1. phase = "external" => \A c, d \in candidates' : Id(c) = Id(d) => c = d
    BY <1>0, <1>3 DEF ExternalPhase, SameItem, Id
  <2>2. phase = "external" => \A c \in candidates' : c.scenario = 0
    BY <1>0, <1>3 DEF ExternalPhase, SameItem
  <2> QED
    BY <1>0, <1>3, <2>1, <2>2 DEF ExternalPhase, Origin, SameItem, Id, Resolving
<1> QED
  BY <1>4, <1>5, <1>6, <1>7, <1>8

\* The unit step keeps every candidate.
LEMMA UnitScaleKeeps ==
  ASSUME WorkInv, UnitScale
  PROVE  WorkInv'
<1> USE DEF WorkInv, UnitScale, results, findings, asks
<1>1. \A c \in candidates : /\ resolve_unit_scale(c) \in Candidate /\ SameItem(c, resolve_unit_scale(c))
                            /\ resolve_unit_scale(c).source = c.source
  BY UnitScaled DEF TypeOK
<1>2. \A d \in candidates' : \E c \in candidates :
         d \in Candidate /\ SameItem(c, d) /\ d.source = c.source /\ d = resolve_unit_scale(c)
  BY <1>1
<1>3. TypeOK'
  BY <1>2 DEF TypeOK, PortStages, Lists
<1>4. SourcesInv'
  BY <1>2, QualifiedStays DEF SourcesInv
<1>5. FlowInv' /\ TurnInv' /\ StageInv' /\ TierInv' /\ PoolInv'
  BY DEF FlowInv, FlowClosed, TurnInv, StageInv, TierInv, PoolInv, Late, Resolving, Early
<1>6. LocalPhase' /\ ProxyPhase'
  BY <1>2 DEF LocalPhase, ProxyPhase, Origin, SameItem, Late, Resolving
<1>7. ExternalPhase'
  BY <1>2 DEF ExternalPhase, Origin, SameItem, Id, Late, Resolving
<1> QED
  BY <1>3, <1>4, <1>5, <1>6, <1>7

\* A candidate that needs no reference flow keeps scenario 0 and the others take one
\* each, so external candidates stay apart.
LEMMA ReferenceFlowKeeps ==
  ASSUME WorkInv, ReferenceFlow
  PROVE  WorkInv'
<1> USE DEF WorkInv, results, findings
<1> DEFINE needing == {c \in candidates : "REFERENCE_FLOW" \in c.gaps}
           flows(c, k) == {resolve_reference_flow(c, s) : s \in k[c]}
           output(k) == (candidates \ needing) \cup UNION {flows(c, k) : c \in needing}
           first(c) == [c EXCEPT !.routers = technical_order(c)]
<1>1. PICK compatible \in [needing -> SUBSET Scenarios] :
        /\ candidates' = {first(c) : c \in output(compatible)}
        /\ required_fields' = IF \E c \in needing : compatible[c] = {} THEN {"mass"} ELSE required_fields
        /\ stage' = IF output(compatible) = {} THEN "resolved" ELSE "technical_resolution"
  BY DEF ReferenceFlow
<1>2. /\ stage = "reference_flow_resolution"
      /\ UNCHANGED <<request, phase, records, kept, results, findings, request_gaps>>
  BY DEF ReferenceFlow
<1>3. ASSUME NEW e \in output(compatible)
      PROVE  \E c \in candidates :
                /\ e \in Candidate /\ e.base = c.base /\ e.origin = c.origin /\ e.source = c.source
                /\ "REFERENCE_FLOW" \notin e.gaps
                /\ \/ c \notin needing /\ e = c
                   \/ c \in needing /\ e.scenario \in Scenarios /\ e = resolve_reference_flow(c, e.scenario)
  <2>1. CASE e \in candidates \ needing
    BY <2>1 DEF TypeOK
  <2>2. CASE e \in UNION {flows(c, compatible) : c \in needing}
    <3>1. PICK c \in needing : e \in flows(c, compatible)
      BY <2>2
    <3>2. PICK s \in Scenarios : e = resolve_reference_flow(c, s)
      BY <3>1
    <3>3. c \in Candidate /\ c \in candidates
      BY DEF TypeOK
    <3> QED
      BY <3>2, <3>3, FlowResolved
  <2> QED
    BY <1>3, <2>1, <2>2
<1>4. ASSUME NEW d \in candidates'
      PROVE  \E e \in output(compatible) :
                d = first(e) /\ d \in Candidate /\ SameItem(e, d) /\ d.source = e.source
                /\ "REFERENCE_FLOW" \notin d.gaps /\ d.routers # <<>>
  <2>1. PICK e \in output(compatible) : d = first(e)
    BY <1>1, <1>4
  <2>2. e \in Candidate /\ "REFERENCE_FLOW" \notin e.gaps
    BY <1>3
  <2>3. Follows(e, d) /\ d.routers # <<>> /\ d.source = e.source
    BY <2>1, <2>2, FirstTurn
  <2> QED
    BY <2>1, <2>2, <2>3 DEF Follows
<1>5. stage' \in {"resolved", "technical_resolution"}
      /\ (stage' = "technical_resolution" => \E e \in output(compatible) : TRUE)
  BY <1>1
<1> HIDE DEF needing
<1>6. \A d \in candidates' : \E c \in candidates :
         d \in Candidate /\ d.base = c.base /\ d.origin = c.origin /\ d.source = c.source
  BY <1>3, <1>4 DEF SameItem
<1>7. TypeOK'
  BY <1>1, <1>2, <1>5, <1>6 DEF TypeOK, PortStages, Lists
<1>8. SourcesInv'
  BY <1>2, <1>6, QualifiedStays DEF SourcesInv
<1>9. FlowInv'
  BY <1>2, <1>4 DEF FlowInv, FlowClosed
<1>10. TurnInv'
  <2>1. stage' = "technical_resolution" => \E d \in candidates' : TRUE
    <3>1. \A e \in output(compatible) : first(e) \in candidates'
      BY <1>1
    <3> HIDE DEF output, first
    <3> QED
      BY <1>5, <3>1
  <2> QED
    BY <1>4, <2>1 DEF TurnInv
<1>11. StageInv'
  BY <1>1, <1>2, <1>5 DEF StageInv, Late, Resolving, Early
<1>12. TierInv' /\ PoolInv'
  BY <1>2, <1>5 DEF TierInv, PoolInv, StageInv, Late
<1>13. LocalPhase' /\ ProxyPhase'
  BY <1>2, <1>5, <1>6 DEF LocalPhase, ProxyPhase, Origin, Late, Resolving
<1>14. ExternalPhase'
  <2> SUFFICES ASSUME phase = "external"
      PROVE  ExternalPhase'
    BY <1>2 DEF ExternalPhase
  <2>1. \A c, d \in candidates : c.base = d.base => c = d
    BY <1>2 DEF ExternalPhase, Origin, Id
  <2>2. \A c, d \in candidates' : Id(c) = Id(d) => c = d
    <3> SUFFICES ASSUME NEW c \in candidates', NEW d \in candidates', Id(c) = Id(d)
        PROVE  c = d
      OBVIOUS
    <3>1. PICK e \in output(compatible) : c = first(e) /\ SameItem(e, c)
      BY <1>4
    <3>2. PICK f \in output(compatible) : d = first(f) /\ SameItem(f, d)
      BY <1>4
    <3>3. e.base = f.base /\ e.scenario = f.scenario
      BY <3>1, <3>2 DEF Id, SameItem
    <3>4. PICK a \in candidates :
             /\ e.base = a.base
             /\ \/ a \notin needing /\ e = a
                \/ a \in needing /\ e = resolve_reference_flow(a, e.scenario)
      BY <1>3
    <3>5. PICK b \in candidates :
             /\ f.base = b.base
             /\ \/ b \notin needing /\ f = b
                \/ b \in needing /\ f = resolve_reference_flow(b, f.scenario)
      BY <1>3
    <3>6. a = b
      BY <2>1, <3>3, <3>4, <3>5
    <3>7. e = f
      BY <3>3, <3>4, <3>5, <3>6
    <3> QED
      BY <3>1, <3>2, <3>7
  <2>3. \A c \in candidates' : c.origin = "external"
                               /\ \E e \in external : Id(e) = <<"external", c.base, 0>>
    BY <1>6 DEF ExternalPhase, Origin
  <2> QED
    BY <1>2, <1>5, <2>2, <2>3 DEF ExternalPhase, Origin, Resolving
<1> QED
  BY <1>7, <1>8, <1>9, <1>10, <1>11, <1>12, <1>13, <1>14

\* One turn of the technical loop: the current candidate is replaced by a successor.
TurnTaken ==
    /\ stage = "technical_resolution"
    /\ \E d : Follows(Current, d) /\ candidates' = Replace(Current, d)
    /\ stage' = AfterTechnical
    /\ UNCHANGED <<request, phase, records, kept, results, asks>>
    /\ observed' \subseteq UnitCodes \cup {Conflict, HashRequired}
    /\ qualifications' \subseteq BOOLEAN

\* The candidate whose turn it is has steps left and a qualified source.
LEMMA CurrentIs ==
  ASSUME WorkInv, stage = "technical_resolution"
  PROVE  /\ Current \in candidates /\ Current.routers # <<>> /\ Current \in Candidate
         /\ Current.source \in Qualified
<1>1. \E c \in candidates : c.routers # <<>>
  BY DEF WorkInv, TurnInv
<1>2. Current \in candidates /\ Current.routers # <<>>
  BY <1>1 DEF Current
<1> QED
  BY <1>2 DEF WorkInv, TypeOK, SourcesInv

\* A turn replaces one candidate by those that follow it.
LEMMA TurnTakenKeeps ==
  ASSUME WorkInv, TurnTaken
  PROVE  WorkInv'
<1> USE DEF WorkInv, results, asks
<1> DEFINE c0 == Current
<1>1. PICK d0 : Follows(c0, d0) /\ candidates' = Replace(c0, d0)
  BY DEF TurnTaken
<1>2. /\ stage = "technical_resolution"
      /\ UNCHANGED <<request, phase, records, kept, results, asks>>
      /\ stage' \in {"resolved", "technical_resolution"}
      /\ stage' = "technical_resolution" => \E c \in candidates' : c.routers # <<>>
  BY DEF TurnTaken, AfterTechnical
<1>3. c0 \in candidates /\ c0.routers # <<>> /\ c0 \in Candidate /\ c0.source \in Qualified
  BY <1>2, CurrentIs
<1> DEFINE e0 == [d0 EXCEPT !.routers = Tail(c0.routers)]
<1>4. e0 \in Candidate /\ Follows(c0, e0)
  BY <1>1, <1>3, NextTurn
<1>5. candidates' = (candidates \ {c0}) \cup {e0}
  BY <1>1 DEF Replace
<1> HIDE DEF c0, e0
<1>6. ASSUME NEW d \in candidates'
      PROVE  /\ d \in Candidate /\ d.source \in Qualified /\ "REFERENCE_FLOW" \notin d.gaps
             /\ \E c \in candidates : SameItem(c, d) /\ ((d = c /\ c # c0) \/ (c = c0 /\ d = e0))
  <2>1. CASE d \in candidates /\ d # c0
    BY <1>2, <2>1 DEF TypeOK, SourcesInv, FlowInv, FlowClosed, SameItem
  <2>2. CASE d = e0
    BY <1>2, <1>3, <1>4, <2>2 DEF Follows, FlowInv, FlowClosed
  <2> QED
    BY <1>5, <1>6, <2>1, <2>2
<1>7. TypeOK'
  BY <1>2, <1>6 DEF TypeOK, PortStages, Lists, TurnTaken
<1>8. SourcesInv'
  BY <1>2, <1>6, QualifiedStays DEF SourcesInv
<1>9. FlowInv' /\ TurnInv'
  BY <1>2, <1>6 DEF FlowInv, FlowClosed, TurnInv
<1>10. StageInv' /\ TierInv' /\ PoolInv'
  BY <1>2 DEF StageInv, TierInv, PoolInv, Late, Resolving, Early
<1>11. LocalPhase' /\ ProxyPhase'
  BY <1>2, <1>6 DEF LocalPhase, ProxyPhase, Origin, SameItem, Late, Resolving
<1>12. ExternalPhase'
  <2>1. phase = "external" => \A c, d \in candidates' : Id(c) = Id(d) => c = d
    BY <1>6 DEF ExternalPhase, SameItem, Id
  <2>2. phase = "external" => \A d \in candidates' : d.origin = "external"
                                 /\ \E e \in external : Id(e) = <<"external", d.base, 0>>
    BY <1>6 DEF ExternalPhase, SameItem, Origin
  <2> QED
    BY <1>2, <2>1, <2>2 DEF ExternalPhase, Origin, Resolving
<1> QED
  BY <1>7, <1>8, <1>9, <1>10, <1>11, <1>12

\* The process step is such a turn.
LEMMA ProcessVariantKeeps ==
  ASSUME WorkInv, ProcessVariant
  PROVE  WorkInv'
<1>1. stage = "technical_resolution"
  BY DEF ProcessVariant
<1>2. \E d : Follows(Current, d) /\ candidates' = Replace(Current, d)
  BY <1>1, CurrentIs, ProcessResolved DEF ProcessVariant
<1>3. TurnTaken
  BY <1>1, <1>2 DEF TurnTaken, ProcessVariant, findings, WorkInv, TypeOK
<1> QED
  BY <1>3, TurnTakenKeeps

\* So is the grade step.
LEMMA GradeCompositionKeeps ==
  ASSUME WorkInv, GradeComposition
  PROVE  WorkInv'
<1>1. stage = "technical_resolution" /\ Current \in Candidate /\ Current.source \in Qualified
  BY CurrentIs DEF GradeComposition
<1> DEFINE recalled(A) == IF Current.gaps \cap GradeGaps # {} THEN {Current.source} \cup A ELSE {}
<1>2. PICK A \in SUBSET SeriesRecords :
        /\ \E d \in GradeOutcomes(Current, recalled(A)) : candidates' = Replace(Current, d)
        /\ qualifications' = qualifications \cup {grade_anchor(r, Current.source) : r \in recalled(A)}
        /\ observed' = observed \cup Noted(recalled(A))
  BY DEF GradeComposition
<1>3. recalled(A) \in SUBSET Records
  BY <1>1 DEF Candidate, Records
<1> HIDE DEF recalled
<1>4. \E d : Follows(Current, d) /\ candidates' = Replace(Current, d)
  BY <1>1, <1>2, <1>3, GradeResolved
<1>5. qualifications' \subseteq BOOLEAN
  BY <1>2, QualifyType DEF WorkInv, TypeOK
<1>6. observed' \subseteq UnitCodes \cup {Conflict, HashRequired}
  BY <1>2, <1>3, NotedType DEF WorkInv, TypeOK
<1>7. TurnTaken
  BY <1>1, <1>4, <1>5, <1>6 DEF TurnTaken, GradeComposition
<1> QED
  BY <1>7, TurnTakenKeeps

\* The steps end when no candidate has any left.
LEMMA LeaveResolutionKeeps ==
  ASSUME WorkInv, LeaveResolution
  PROVE  WorkInv'
<1> USE DEF WorkInv, results, findings, asks
<1>1. /\ stage = "resolved"
      /\ UNCHANGED <<request, phase, records, external, ranked, recommendation, findings, asks>>
      /\ ranked = {}
  BY DEF LeaveResolution, StageInv
<1>2. CASE phase = "proxy" /\ proxies' = candidates /\ candidates' = kept /\ kept' = {}
           /\ stage' = "re_evaluate"
  <2>1. TypeOK'
    BY <1>1, <1>2 DEF TypeOK, PortStages, Lists
  <2>2. SourcesInv'
    BY <1>1, <1>2, QualifiedStays DEF SourcesInv
  <2>3. FlowInv' /\ TurnInv' /\ StageInv' /\ TierInv' /\ PoolInv'
    BY <1>1, <1>2 DEF FlowInv, FlowClosed, TurnInv, StageInv, TierInv, PoolInv, Late, Resolving, Early
  <2>4. LocalPhase' /\ ExternalPhase' /\ ProxyPhase'
    BY <1>1, <1>2 DEF LocalPhase, ExternalPhase, ProxyPhase, Late, Resolving, Origin
  <2> QED
    BY <2>1, <2>2, <2>3, <2>4
<1>3. CASE NeedsDiscovery /\ stage' = "external_discovery" /\ UNCHANGED <<proxies, candidates, kept>>
  <2>1. TypeOK'
    BY <1>1, <1>3 DEF TypeOK, PortStages, Lists
  <2>2. SourcesInv'
    BY <1>1, <1>3, QualifiedStays DEF SourcesInv
  <2>3. FlowInv' /\ TurnInv' /\ StageInv' /\ TierInv' /\ PoolInv'
    BY <1>1, <1>3 DEF FlowInv, FlowClosed, TurnInv, StageInv, TierInv, PoolInv, Late, Resolving,
                      Early, NeedsDiscovery
  <2>4. LocalPhase' /\ ExternalPhase' /\ ProxyPhase'
    BY <1>1, <1>3 DEF LocalPhase, ExternalPhase, ProxyPhase, NeedsDiscovery
  <2> QED
    BY <2>1, <2>2, <2>3, <2>4
<1>4. CASE /\ phase # "proxy"
           /\ stage' = NextAfterMaterial(candidates, external, required_fields)
           /\ UNCHANGED <<proxies, candidates, kept>>
  <2>1. /\ stage' \in {"material_resolution", "re_evaluate"}
        /\ stage' = "material_resolution" =>
              /\ required_fields = {} /\ external = {}
              /\ candidates = {} \/ \E c \in candidates : "MATERIAL_ABSENT" \in c.gaps
    BY <1>4 DEF NextAfterMaterial
  <2>2. TypeOK'
    BY <1>1, <1>4, <2>1 DEF TypeOK, PortStages, Lists
  <2>3. SourcesInv'
    BY <1>1, <1>4, QualifiedStays DEF SourcesInv
  <2>4. FlowInv' /\ TurnInv' /\ StageInv' /\ TierInv' /\ PoolInv'
    BY <1>1, <1>4, <2>1 DEF FlowInv, FlowClosed, TurnInv, StageInv, TierInv, PoolInv, Late, Resolving,
                            Early
  <2>5. stage' = "material_resolution" => request_gaps = {} /\ phase = "local"
    BY <1>1, <1>4, <2>1 DEF StageInv, Resolving, TypeOK, ExternalPhase
  <2>6. LocalPhase' /\ ProxyPhase'
    BY <1>1, <1>4, <2>1, <2>5 DEF LocalPhase, ProxyPhase, NeedProxy, Origin
  <2>7. ExternalPhase'
    BY <1>1, <1>4, <2>1, <2>5 DEF ExternalPhase, Late, Resolving
  <2> QED
    BY <2>2, <2>3, <2>4, <2>6, <2>7
<1> QED
  BY <1>2, <1>3, <1>4 DEF LeaveResolution

-----------------------------------------------------------------------------
(* Class proxies, re-evaluation and the pool.                              *)

\* Proxies are asked for only if nothing better was found.
LEMMA ProxyResolutionKeeps ==
  ASSUME WorkInv, ProxyResolution
  PROVE  WorkInv'
<1> USE DEF WorkInv, ProxyResolution, results, findings, asks
<1>1. TypeOK'
  BY DEF TypeOK, PortStages, Lists, Answers, Records
<1>2. SourcesInv'
  BY QualifiedStays DEF SourcesInv
<1>3. FlowInv' /\ TurnInv' /\ StageInv' /\ TierInv' /\ PoolInv'
  BY DEF FlowInv, FlowClosed, TurnInv, StageInv, TierInv, PoolInv, Late, Resolving, Early
<1>4. LocalPhase' /\ ExternalPhase' /\ ProxyPhase'
  BY DEF LocalPhase, ExternalPhase, ProxyPhase, Late, Resolving
<1> QED
  BY <1>1, <1>2, <1>3, <1>4

\* They are evaluated like other records.
LEMMA ProxyEvaluateKeeps ==
  ASSUME WorkInv, ProxyEvaluate
  PROVE  WorkInv'
<1> USE DEF WorkInv, results, asks
<1>1. PICK refused \in SUBSET records :
        LET found == evaluate_records(records, refused, "proxy") IN
          IF found # {}
          THEN /\ kept' = candidates /\ candidates' = found
               /\ phase' = "proxy" /\ stage' = "gap_analysis"
          ELSE /\ stage' = "re_evaluate"
               /\ UNCHANGED <<kept, candidates, phase>>
  BY DEF ProxyEvaluate
<1> DEFINE found == evaluate_records(records, refused, "proxy")
<1>2. /\ stage = "proxy_evaluate" /\ UNCHANGED <<request, records, results, asks>>
      /\ phase = "local" /\ kept = {} /\ proxies = {} /\ ranked = {} /\ external = {}
      /\ request_gaps = {} /\ NeedProxy(candidates)
  BY DEF ProxyEvaluate, LocalPhase, ExternalPhase, ProxyPhase, StageInv, Resolving, Late, TypeOK
<1>3. \A c \in found : c \in Candidate /\ c.source \in Qualified /\ c.origin = "proxy"
  BY Evaluated DEF TypeOK
<1>4. qualifications' \subseteq BOOLEAN
  BY QualifyType DEF ProxyEvaluate, TypeOK
<1>5. observed' \subseteq UnitCodes \cup {Conflict, HashRequired}
  BY NotedType DEF ProxyEvaluate, TypeOK
<1> HIDE DEF found
<1>6. CASE kept' = candidates /\ candidates' = found /\ phase' = "proxy" /\ stage' = "gap_analysis"
  <2>1. TypeOK'
    BY <1>2, <1>3, <1>4, <1>5, <1>6 DEF TypeOK, PortStages, Lists
  <2>2. SourcesInv'
    BY <1>2, <1>3, <1>6, QualifiedStays DEF SourcesInv
  <2>3. FlowInv' /\ TurnInv' /\ StageInv' /\ TierInv' /\ PoolInv'
    BY <1>2, <1>6 DEF FlowInv, FlowClosed, TurnInv, StageInv, TierInv, PoolInv, Late, Resolving, Early
  <2>4. LocalPhase' /\ ExternalPhase' /\ ProxyPhase'
    BY <1>2, <1>3, <1>6 DEF LocalPhase, ExternalPhase, ProxyPhase, Origin, Late, Resolving
  <2> QED
    BY <2>1, <2>2, <2>3, <2>4
<1>7. CASE stage' = "re_evaluate" /\ UNCHANGED <<kept, candidates, phase>>
  <2>1. TypeOK'
    BY <1>2, <1>4, <1>5, <1>7 DEF TypeOK, PortStages, Lists
  <2>2. SourcesInv'
    BY <1>2, <1>7, QualifiedStays DEF SourcesInv
  <2>3. FlowInv' /\ TurnInv' /\ StageInv' /\ TierInv' /\ PoolInv'
    BY <1>2, <1>7 DEF FlowInv, FlowClosed, TurnInv, StageInv, TierInv, PoolInv, Late, Resolving, Early
  <2>4. LocalPhase' /\ ExternalPhase' /\ ProxyPhase'
    BY <1>2, <1>7 DEF LocalPhase, ExternalPhase, ProxyPhase
  <2> QED
    BY <2>1, <2>2, <2>3, <2>4
<1> QED
  BY <1>1, <1>6, <1>7 DEF found

\* Re-evaluation gives every candidate the tier it has earned.
LEMMA ReEvaluateKeeps ==
  ASSUME WorkInv, ReEvaluate
  PROVE  WorkInv'
<1> USE DEF WorkInv, results, findings, asks
<1> DEFINE fin(c) == finalize_candidate(c, TRUE)
<1>1. /\ stage = "re_evaluate" /\ stage' = "rank" /\ ranked = {}
      /\ UNCHANGED <<request, phase, records, kept, external, ranked, recommendation, findings, asks>>
      /\ candidates' = {CapUnderGaps(fin(c)) : c \in candidates}
      /\ proxies' = {fin(c) : c \in proxies}
  BY DEF ReEvaluate, StageInv
<1>2. \A c \in Candidate : fin(c) \in Candidate /\ SameButTier(c, fin(c)) /\ Earned(fin(c))
  BY Finalized
<1> HIDE DEF fin
<1>3. ASSUME NEW c \in Candidate
      PROVE  /\ CapUnderGaps(fin(c)) \in Candidate /\ SameButTier(c, CapUnderGaps(fin(c)))
             /\ Earned(CapUnderGaps(fin(c)))
             /\ request_gaps # {} => CapUnderGaps(fin(c)).tier = "REFERENCE_ONLY"
  <2> DEFINE e == fin(c)
             d == [e EXCEPT !.tier = "REFERENCE_ONLY"]
  <2>1. e \in Candidate /\ SameButTier(c, e) /\ Earned(e)
    BY <1>2
  <2> HIDE DEF e
  <2>2. d \in Candidate /\ SameButTier(e, d) /\ d.tier = "REFERENCE_ONLY"
    BY <2>1 DEF Candidate, ResultTier, SameButTier, SameItem
  <2>3. CapUnderGaps(e) = IF request_gaps # {} THEN d ELSE e
    BY DEF CapUnderGaps
  <2> HIDE DEF d
  <2>4. /\ CapUnderGaps(e) \in Candidate /\ SameButTier(c, CapUnderGaps(e))
        /\ Earned(CapUnderGaps(e))
        /\ request_gaps # {} => CapUnderGaps(e).tier = "REFERENCE_ONLY"
    BY <2>1, <2>2, <2>3 DEF SameButTier, SameItem, Earned
  <2> QED
    BY <2>4 DEF e
<1> DEFINE capped(c) == CapUnderGaps(fin(c))
<1>4. \A d \in candidates' : \E c \in candidates :
         /\ d = capped(c) /\ d \in Candidate /\ SameButTier(c, d) /\ Earned(d)
         /\ request_gaps # {} => d.tier = "REFERENCE_ONLY"
  BY <1>1, <1>3 DEF TypeOK
<1>5. \A c \in candidates : capped(c) \in candidates' /\ SameButTier(c, capped(c))
  BY <1>1, <1>3 DEF TypeOK
<1>6. \A d \in proxies' : \E c \in proxies : d \in Candidate /\ SameButTier(c, d) /\ Earned(d)
  BY <1>1, <1>2 DEF TypeOK
<1>7. proxies = {} => proxies' = {}
  BY <1>1
<1> HIDE DEF capped
<1>8. TypeOK'
  BY <1>1, <1>4, <1>6 DEF TypeOK, PortStages, Lists
<1>9. SourcesInv'
  BY <1>1, <1>4, <1>6, QualifiedStays DEF SourcesInv, SameButTier
<1>10. FlowInv' /\ TurnInv' /\ PoolInv'
  BY <1>1, <1>4, <1>6 DEF FlowInv, FlowClosed, TurnInv, PoolInv, Late, SameButTier
<1>11. StageInv'
  BY <1>1 DEF StageInv, Late, Resolving, Early
<1>12. LocalPhase'
  BY <1>1, <1>4, <1>7 DEF LocalPhase, Origin, SameButTier, SameItem
<1>13. ExternalPhase'
  <2>1. phase = "external" => \A c, d \in candidates' : Id(c) = Id(d) => c = d
    BY <1>4 DEF ExternalPhase, SameButTier, SameItem, Id
  <2>2. phase = "external" => \A d \in candidates' : d.origin = "external"
                                 /\ \E e \in external : Id(e) = <<"external", d.base, 0>>
    BY <1>4 DEF ExternalPhase, SameButTier, SameItem, Origin
  <2> QED
    BY <1>1, <1>7, <2>1, <2>2 DEF ExternalPhase, Origin, Late, Resolving
<1>14. ProxyPhase'
  <2> SUFFICES ASSUME phase = "proxy"
      PROVE  ProxyPhase'
    BY <1>1 DEF ProxyPhase
  <2>1. NeedProxy(candidates)
    BY <1>1 DEF ProxyPhase, Late
  <2>2. NeedProxy(candidates')
    <3>1. \A d \in candidates' : d.origin = "local"
      BY <1>4, <2>1 DEF NeedProxy, SameButTier, SameItem
    <3>2. candidates = {} => candidates' = {}
      BY <1>4
    <3>3. (\E c \in candidates : "MATERIAL_ABSENT" \in c.gaps)
             => \E d \in candidates' : "MATERIAL_ABSENT" \in d.gaps
      BY <1>5 DEF SameButTier
    <3> QED
      BY <2>1, <3>1, <3>2, <3>3 DEF NeedProxy
  <2>3. Origin(proxies', "proxy")
    BY <1>1, <1>6 DEF ProxyPhase, Late, Origin, SameButTier, SameItem
  <2> QED
    BY <1>1, <2>2, <2>3 DEF ProxyPhase, Late, Resolving
<1>15. TierInv'
  <2>1. request_gaps # {} => proxies' = {}
    BY <1>1, <1>7 DEF ProxyPhase, LocalPhase, ExternalPhase, TypeOK
  <2> QED
    BY <1>1, <1>4, <1>6, <2>1 DEF TierInv
<1> QED
  BY <1>8, <1>9, <1>10, <1>11, <1>12, <1>13, <1>14, <1>15

\* The pool is ranked whole, external evidence alone and once per id.
LEMMA PoolAndRankKeeps ==
  ASSUME WorkInv, PoolAndRank
  PROVE  WorkInv'
<1> USE DEF WorkInv, PoolAndRank, findings, asks
<1>1. ranked' \subseteq candidates \cup proxies /\ \A c, d \in ranked' : Id(c) = Id(d) => c = d
  BY DEF Pools
<1>2. TypeOK'
  BY <1>1 DEF TypeOK, PortStages, Lists
<1>3. SourcesInv'
  BY <1>1, QualifiedStays DEF SourcesInv
<1>4. FlowInv' /\ TurnInv' /\ StageInv' /\ TierInv' /\ PoolInv'
  BY <1>1 DEF FlowInv, FlowClosed, TurnInv, StageInv, TierInv, PoolInv, Late, Resolving, Early
<1>5. LocalPhase' /\ ExternalPhase' /\ ProxyPhase'
  BY DEF LocalPhase, ExternalPhase, ProxyPhase, Late, Resolving
<1> QED
  BY <1>1, <1>2, <1>3, <1>4, <1>5

-----------------------------------------------------------------------------
(* The recommendation.                                                     *)

\* A qualified source is so at the end.
LEMMA QualifiedNow ==
  ASSUME request' = request
  PROVE  \A r \in Qualified : qualify_record(r)'
BY DEF Qualified, qualify_record, SubjectUnstated, PlaceConflict, UnitMismatch

\* Reason codes of units depend on the request only.
LEMMA UnitCodesNow ==
  /\ request \in Requests => unit_reason_codes \subseteq UnitCodes
  /\ request' = request => unit_reason_codes' = unit_reason_codes
<1>1. request \in Requests => unit_reason_codes \subseteq UnitCodes
  BY GraphAssumption DEF unit_reason_codes, UnitCodes
<1>2. request' = request => unit_reason_codes' = unit_reason_codes
  BY DEF unit_reason_codes
<1> QED
  BY <1>1, <1>2

\* A candidate shown for review under an ambiguity loses its tier only.
Demoted(c) == [c EXCEPT !.tier = "REFERENCE_ONLY"]

\* Demotion changes the tier only.
LEMMA DemotedIs ==
  ASSUME NEW c \in Candidate
  PROVE  /\ Demoted(c) \in Candidate /\ SameButTier(c, Demoted(c)) /\ Id(Demoted(c)) = Id(c)
         /\ Demoted(c).tier = "REFERENCE_ONLY" /\ (hard(Demoted(c)) <=> hard(c))
<1>1. /\ Demoted(c) \in Candidate /\ SameButTier(c, Demoted(c))
      /\ Demoted(c).tier = "REFERENCE_ONLY"
  BY DEF Demoted, Candidate, ResultTier, SameButTier, SameItem
<1> QED
  BY <1>1 DEF SameButTier, SameItem, Id, hard, process_conflict, grade_conflict

\* The pools the lists are taken from.
LEMMA Pooled ==
  ASSUME WorkInv, stage = "top_k"
  PROVE  /\ ranked \subseteq Candidate
         /\ eligible \subseteq Candidate /\ reviewable \subseteq Candidate /\ diagnostic \subseteq Candidate
         /\ IsFiniteSet(eligible) /\ IsFiniteSet(reviewable) /\ IsFiniteSet(diagnostic)
         /\ request_gaps # {} => sufficient = {}
         /\ \A c \in ranked : c.source \in Qualified /\ Earned(c) /\ "REFERENCE_FLOW" \notin c.gaps
         /\ \A c \in reviewable : /\ ~hard(c) /\ c.tier = "REFERENCE_ONLY"
                                  /\ \E d \in sufficient \cup soft : Id(c) = Id(d)
                                                                    /\ (c = d \/ c = Demoted(d))
<1>1. ranked \subseteq Candidate
  BY DEF WorkInv, TypeOK
<1>2. eligible \subseteq sufficient
  BY DEF eligible
<1>3. sufficient \subseteq ranked /\ soft \subseteq ranked /\ diagnostic \subseteq ranked
  BY DEF sufficient, soft, diagnostic
<1>4. \A c \in reviewable :
         /\ c \in Candidate /\ ~hard(c) /\ c.tier = "REFERENCE_ONLY"
         /\ \E d \in sufficient \cup soft : Id(c) = Id(d) /\ (c = d \/ c = Demoted(d))
  <2>1. \A c \in reviewable : c \in soft \/ \E d \in sufficient \cup soft : c = Demoted(d)
    BY DEF reviewable, Demoted
  <2>2. \A d \in sufficient \cup soft : d \in Candidate /\ ~hard(d)
    BY <1>1 DEF sufficient, soft
  <2>3. \A d \in soft : d.tier = "REFERENCE_ONLY"
    BY DEF soft
  <2> QED
    BY <2>1, <2>2, <2>3, DemotedIs
<1>5. \A S : S \subseteq Candidate => IsFiniteSet(S)
  BY CandidateFinite, FS_Subset
<1>6. \A c \in ranked : c.source \in Qualified /\ Earned(c) /\ "REFERENCE_FLOW" \notin c.gaps
                        /\ (request_gaps # {} => c.tier = "REFERENCE_ONLY")
  BY DEF WorkInv, StageInv, SourcesInv, TierInv, FlowInv, FlowClosed
<1>7. request_gaps # {} => sufficient = {}
  BY <1>6 DEF sufficient
<1> QED
  BY <1>1, <1>2, <1>3, <1>4, <1>5, <1>6, <1>7

\* What the node has before it and leaves behind.
LEMMA Recommended ==
  ASSUME TopKNode
  PROVE  /\ stage = "top_k" /\ stage' = "terminal" /\ required_fields' = required
         /\ UNCHANGED <<request, phase, records, candidates, kept, external, proxies, ranked,
                        findings, request_gaps>>
         /\ recommendation'.candidates \in Leading(eligible)
         /\ recommendation'.reviewable \in Leading(reviewable)
         /\ recommendation'.diagnostics \in Leading(diagnostic)
         /\ recommendation'.status = IF eligible # {} THEN "recommendation_ready" ELSE follow_up_status
         /\ recommendation'.reason_codes = reason_codes
         /\ recommendation'.exhausted = (eligible = {} /\ required = {} /\ reviewable = {})
BY DEF TopKNode

\* The last node changes no candidate.
LEMMA TopKNodeKeeps ==
  ASSUME WorkInv, TopKNode
  PROVE  WorkInv'
<1> USE DEF WorkInv, findings
<1>1. UNION Lists' \subseteq Candidate
  <2>1. recommendation'.candidates \subseteq Candidate /\ recommendation'.reviewable \subseteq Candidate
        /\ recommendation'.diagnostics \subseteq Candidate
    BY Recommended, Pooled, LeadingShows
  <2> QED
    BY <2>1 DEF Lists
<1>2. required_fields' \subseteq {"specification", "subject_type", "route", "mass",
                                  "unit_conversion_evidence", "geography"}
  BY Recommended DEF required, TypeOK
<1>3. TypeOK'
  BY <1>1, <1>2, Recommended DEF TypeOK
<1>4. SourcesInv'
  BY Recommended, QualifiedStays DEF SourcesInv
<1>5. FlowInv' /\ TurnInv' /\ TierInv' /\ PoolInv'
  BY Recommended DEF FlowInv, FlowClosed, TurnInv, TierInv, PoolInv, Late
<1>6. StageInv'
  <2>1. required_fields \subseteq required
    BY DEF required
  <2> QED
    BY <2>1, Recommended DEF StageInv, Late, Resolving, Early
<1>7. LocalPhase' /\ ExternalPhase' /\ ProxyPhase'
  BY Recommended DEF LocalPhase, ExternalPhase, ProxyPhase, Late, Resolving
<1> QED
  BY <1>3, <1>4, <1>5, <1>6, <1>7

\* What it makes selectable is clean.
LEMMA TopKNodeIsClean ==
  ASSUME WorkInv, TopKNode
  PROVE  SelectableIsClean'
<1> SUFFICES ASSUME NEW c \in recommendation'.candidates
    PROVE  /\ request_gaps' = {} /\ unit_reason_codes' = {}
           /\ qualify_record(c.source)'
           /\ c.gaps \cap {"REFERENCE_FLOW", "PROCESS_VARIANT", "GRADE_CONFLICT"} = {}
           /\ ~c.incomplete /\ c.source.formal = "complete" /\ ~c.low /\ ~c.source.capped
  BY DEF SelectableIsClean
<1>1. c \in eligible
  BY Recommended, Pooled, LeadingShows
<1>2. request_gaps = {} /\ unit_reason_codes = {} /\ c \in sufficient
  BY <1>1 DEF eligible
<1>3. c \in ranked /\ ~hard(c) /\ c.tier # "REFERENCE_ONLY"
  BY <1>2 DEF sufficient
<1>4. c.source \in Qualified /\ Earned(c) /\ "REFERENCE_FLOW" \notin c.gaps
  BY <1>3, Recommended, Pooled
<1>5. request' = request /\ request_gaps' = request_gaps
  BY Recommended
<1> QED
  BY <1>2, <1>3, <1>4, <1>5, QualifiedNow, UnitCodesNow DEF Earned, hard, process_conflict, grade_conflict

\* Whatever is ranked reaches the pool of a list, or the list of the pool is full.
LEMMA TopKNodeShows ==
  ASSUME WorkInv, TopKNode
  PROVE  EveryCandidateIsShown'
<1> DEFINE E == recommendation'.candidates
           R == recommendation'.reviewable
           D == recommendation'.diagnostics
<1> SUFFICES ASSUME unit_reason_codes = {}
    PROVE  /\ \A c \in ranked : \E L \in {E, R, D} :
                  (\E d \in L : Id(d) = Id(c)) \/ Cardinality(L) = TopK
           /\ \A K, L \in {E, R, D} : K # L => {Id(c) : c \in K} \cap {Id(c) : c \in L} = {}
           /\ \A c \in R : ~hard(c) /\ c.tier = "REFERENCE_ONLY"
  <2>1. unit_reason_codes' = unit_reason_codes /\ ranked' = ranked
    BY Recommended, UnitCodesNow
  <2>2. Lists' = {E, R, D}
    BY DEF Lists
  <2> QED
    BY <2>1, <2>2 DEF EveryCandidateIsShown
<1>1. /\ E \in Leading(eligible) /\ R \in Leading(reviewable) /\ D \in Leading(diagnostic)
      /\ stage = "top_k"
  BY Recommended
<1> HIDE DEF E, R, D
<1>2. /\ E \subseteq eligible /\ (E = eligible \/ Cardinality(E) = TopK)
      /\ R \subseteq reviewable /\ (R = reviewable \/ Cardinality(R) = TopK)
      /\ D \subseteq diagnostic /\ (D = diagnostic \/ Cardinality(D) = TopK)
  BY <1>1, Pooled, LeadingShows
<1>3. ranked = sufficient \cup soft \cup diagnostic
  BY DEF sufficient, soft, diagnostic
<1>4. ranked \subseteq Candidate
  BY <1>1, Pooled
<1>5. \A c \in ranked : \/ \E d \in eligible : Id(d) = Id(c)
                        \/ \E d \in reviewable : Id(d) = Id(c)
                        \/ c \in diagnostic
  <2>1. CASE ambiguous
    <3>1. \A c \in sufficient \cup soft : Demoted(c) \in reviewable
      BY <2>1 DEF reviewable, Demoted
    <3>2. \A c \in sufficient \cup soft : Id(Demoted(c)) = Id(c)
      BY <1>3, <1>4, DemotedIs
    <3> QED
      BY <1>3, <3>1, <3>2
  <2>2. CASE ~ambiguous
    <3>1. reviewable = soft
      BY <2>2 DEF reviewable
    <3>2. sufficient = {} \/ eligible = sufficient
      BY <1>1, <2>2, Pooled DEF eligible
    <3> QED
      BY <1>3, <3>1, <3>2
  <2> QED
    BY <2>1, <2>2
<1>6. \A c \in ranked : \E L \in {E, R, D} :
         (\E d \in L : Id(d) = Id(c)) \/ Cardinality(L) = TopK
  <2> SUFFICES ASSUME NEW c \in ranked
      PROVE  \E L \in {E, R, D} : (\E d \in L : Id(d) = Id(c)) \/ Cardinality(L) = TopK
    OBVIOUS
  <2>1. CASE \E d \in eligible : Id(d) = Id(c)
    BY <1>2, <2>1
  <2>2. CASE \E d \in reviewable : Id(d) = Id(c)
    BY <1>2, <2>2
  <2>3. CASE c \in diagnostic
    BY <1>2, <2>3
  <2> QED
    BY <1>5, <2>1, <2>2, <2>3
<1>7. \A c, d \in ranked : Id(c) = Id(d) => c = d
  BY DEF WorkInv, PoolInv
<1>8. \A c \in E : c \in ranked /\ ~hard(c) /\ c.tier # "REFERENCE_ONLY" /\ ~ambiguous
  BY <1>2 DEF eligible, sufficient
<1>9. \A c \in R : /\ ~hard(c) /\ c.tier = "REFERENCE_ONLY"
                   /\ \E d \in ranked : /\ Id(c) = Id(d) /\ ~hard(d)
                                        /\ ambiguous \/ d.tier = "REFERENCE_ONLY"
  <2>1. \A c \in reviewable : /\ ~hard(c) /\ c.tier = "REFERENCE_ONLY"
                              /\ \E d \in sufficient \cup soft : Id(c) = Id(d)
    BY <1>1, Pooled
  <2>2. \A d \in sufficient \cup soft : d \in ranked /\ ~hard(d)
    BY DEF sufficient, soft
  <2>3. ~ambiguous => reviewable \subseteq soft
    BY DEF reviewable
  <2>4. \A d \in soft : d.tier = "REFERENCE_ONLY"
    BY DEF soft
  <2> QED
    BY <1>2, <2>1, <2>2, <2>3, <2>4
<1>10. \A c \in D : c \in ranked /\ hard(c)
  BY <1>2 DEF diagnostic
<1>11. /\ \A c \in E, d \in R : Id(c) # Id(d)
       /\ \A c \in E, d \in D : Id(c) # Id(d)
       /\ \A c \in R, d \in D : Id(c) # Id(d)
  <2>1. \A c \in E, d \in R : Id(c) # Id(d)
    BY <1>7, <1>8, <1>9
  <2>2. \A c \in E, d \in D : Id(c) # Id(d)
    BY <1>7, <1>8, <1>10
  <2>3. \A c \in R, d \in D : Id(c) # Id(d)
    BY <1>7, <1>9, <1>10
  <2> QED
    BY <2>1, <2>2, <2>3
<1>12. \A K, L \in {E, R, D} : K # L => {Id(c) : c \in K} \cap {Id(c) : c \in L} = {}
  <2> SUFFICES ASSUME NEW K \in {E, R, D}, NEW L \in {E, R, D}, K # L,
                      NEW c \in K, NEW d \in L, Id(c) = Id(d)
      PROVE  FALSE
    OBVIOUS
  <2> QED
    BY <1>11
<1> QED
  BY <1>6, <1>9, <1>12

\* The status it sets has its cause.
LEMMA TopKNodeHasCause ==
  ASSUME WorkInv, TopKNode
  PROVE  StatusHasItsCause'
<1> DEFINE E == recommendation'.candidates
           R == recommendation'.reviewable
           D == recommendation'.diagnostics
           s == recommendation'.status
<1>1. /\ E \in Leading(eligible) /\ R \in Leading(reviewable) /\ D \in Leading(diagnostic)
      /\ stage = "top_k" /\ required_fields' = required /\ ranked' = ranked
      /\ s = IF eligible # {} THEN "recommendation_ready" ELSE follow_up_status
      /\ recommendation'.reason_codes = reason_codes
      /\ recommendation'.exhausted = (eligible = {} /\ required = {} /\ reviewable = {})
  BY Recommended
<1>2. (E # {} <=> eligible # {}) /\ (R # {} <=> reviewable # {}) /\ (D # {} <=> diagnostic # {})
  BY <1>1, Pooled, LeadingShows
<1> HIDE DEF E, R, D, s
<1>3. request_gaps # {} => required # {}
  BY <1>1 DEF WorkInv, StageInv, Late, required
<1>4. follow_up_status # "recommendation_ready"
  BY DEF follow_up_status
<1>5. s = "recommendation_ready" <=> E # {}
  BY <1>1, <1>2, <1>4
<1>6. s = "more_input_needed" => required # {}
  BY <1>1 DEF follow_up_status, required
<1>7. s = "reference_review_required" => R # {} /\ required = {}
  BY <1>1, <1>2 DEF follow_up_status
<1>8. s = "process_model_required" => /\ R = {} /\ D # {}
                                      /\ \E c \in ranked : process_conflict(c)
  <2>1. (\E c \in ranked : process_conflict(c)) => diagnostic # {}
    BY DEF diagnostic, hard
  <2> QED
    BY <1>1, <1>2, <2>1 DEF follow_up_status
<1>9. s = "unresolved" => reason_codes # {}
  <2> SUFFICES ASSUME s = "unresolved", reason_codes = {}
      PROVE  FALSE
    OBVIOUS
  <2>1. unit_codes = {} /\ HashRequired \notin observed /\ Conflict \notin observed
        /\ ~(admission_rejected /\ request_gaps = {})
        /\ ~(\E c \in ranked : grade_conflict(c))
    BY DEF reason_codes
  <2> QED
    BY <1>1, <1>3, <2>1 DEF follow_up_status
<1>10. s = "supplier_data_required" => ranked = {} /\ reason_codes \subseteq {HashRequired}
  <2> SUFFICES ASSUME s = "supplier_data_required"
      PROVE  ranked = {} /\ reason_codes \subseteq {HashRequired}
    OBVIOUS
  <2>1. /\ eligible = {} /\ unit_codes = {} /\ Conflict \notin observed /\ required = {}
        /\ reviewable = {} /\ ~admission_rejected
        /\ ~(\E c \in ranked : process_conflict(c)) /\ ~(\E c \in ranked : grade_conflict(c))
    BY <1>1 DEF follow_up_status
  <2>2. request_gaps = {} /\ ~ambiguous /\ unit_reason_codes = {}
    BY <1>3, <2>1 DEF required, unit_codes
  <2>3. sufficient = {} /\ soft = {}
    BY <2>1, <2>2 DEF eligible, reviewable
  <2>4. ranked = {}
    BY <2>1, <2>3 DEF sufficient, soft, hard
  <2>5. reason_codes \subseteq {HashRequired}
    BY <2>1, <2>2 DEF reason_codes
  <2> QED
    BY <2>4, <2>5
<1>11. recommendation'.exhausted => s \in {"process_model_required", "unresolved", "supplier_data_required"}
  BY <1>1 DEF follow_up_status, required
<1> QED
  BY <1>1, <1>5, <1>6, <1>7, <1>8, <1>9, <1>10, <1>11 DEF StatusHasItsCause, E, R, D, s

-----------------------------------------------------------------------------
(* The theorems.                                                           *)

\* Every step keeps the invariant.
LEMMA StepKeeps ==
  ASSUME WorkInv, EndInv, [Next]_vars
  PROVE  WorkInv' /\ EndInv'
<1>1. CASE UNCHANGED vars
  BY <1>1, StutterKeeps
<1>2. CASE TopKNode
  BY <1>2, TopKNodeKeeps, TopKNodeIsClean, TopKNodeShows, TopKNodeHasCause DEF EndInv
<1>3. CASE PortFails
  BY <1>3, PortFailsKeeps, NotEnded DEF PortFails
<1>4. CASE Normalize \/ LocalRetrieval
  BY <1>4, NormalizeKeeps, LocalRetrievalKeeps, NotEnded DEF Normalize, LocalRetrieval
<1>5. CASE LocalEvaluate
  BY <1>5, LocalEvaluateKeeps, NotEnded DEF LocalEvaluate
<1>6. CASE DiscoverForGaps
  BY <1>6, DiscoverForGapsKeeps, NotEnded DEF DiscoverForGaps
<1>7. CASE DiscoverForLack
  BY <1>7, DiscoverForLackKeeps, NotEnded DEF DiscoverForLack, NextAfterMaterial
<1>8. CASE GapAnalysis
  BY <1>8, GapAnalysisKeeps, NotEnded DEF GapAnalysis
<1>9. CASE UnitScale
  BY <1>9, UnitScaleKeeps, NotEnded DEF UnitScale
<1>10. CASE ReferenceFlow
  <2>1. stage' \in {"resolved", "technical_resolution"}
    BY <1>10 DEF ReferenceFlow
  <2> QED
    BY <1>10, <2>1, ReferenceFlowKeeps, NotEnded
<1>11. CASE ProcessVariant
  BY <1>11, ProcessVariantKeeps, NotEnded DEF ProcessVariant, AfterTechnical
<1>12. CASE GradeComposition
  <2>1. stage' # "terminal"
    BY <1>12 DEF GradeComposition, AfterTechnical
  <2> QED
    BY <1>12, <2>1, GradeCompositionKeeps, NotEnded
<1>13. CASE LeaveResolution
  BY <1>13, LeaveResolutionKeeps, NotEnded DEF LeaveResolution, NextAfterMaterial
<1>14. CASE ProxyResolution
  BY <1>14, ProxyResolutionKeeps, NotEnded DEF ProxyResolution
<1>15. CASE ProxyEvaluate
  <2>1. stage' \in {"gap_analysis", "re_evaluate"}
    BY <1>15 DEF ProxyEvaluate
  <2> QED
    BY <1>15, <2>1, ProxyEvaluateKeeps, NotEnded
<1>16. CASE ReEvaluate
  BY <1>16, ReEvaluateKeeps, NotEnded DEF ReEvaluate
<1>17. CASE PoolAndRank
  BY <1>17, PoolAndRankKeeps, NotEnded DEF PoolAndRank
<1> QED
  BY <1>1, <1>2, <1>3, <1>4, <1>5, <1>6, <1>7, <1>8, <1>9, <1>10, <1>11, <1>12, <1>13, <1>14,
     <1>15, <1>16, <1>17 DEF Next, Step

\* So it holds in every state.
LEMMA Invariance == Spec => [](WorkInv /\ EndInv)
<1>1. Init => WorkInv /\ EndInv
  BY InitHolds
<1>2. (WorkInv /\ EndInv) /\ [Next]_vars => (WorkInv /\ EndInv)'
  BY StepKeeps
<1> QED
  BY <1>1, <1>2, PTL DEF Spec

\* A selectable candidate answers a complete request, comes from a qualified source and
\* has no open flow, process or grade conflict, missing evidence or low score
\* (TopKNode, candidate_is_sufficient).
THEOREM SelectableCandidatesAreClean == Spec => []SelectableIsClean
<1>1. WorkInv /\ EndInv => SelectableIsClean
  BY DEF EndInv
<1> QED
  BY <1>1, Invariance, PTL

\* The state is well-typed; every ranked candidate is in one list, unless that is full;
\* and the status has its cause in the lists and the reason codes (TopKNode.run).
THEOREM RecommendationAgrees == Spec => []ResultIsConsistent
<1>1. WorkInv /\ EndInv => ResultIsConsistent
  BY DEF WorkInv, EndInv, ResultIsConsistent
<1> QED
  BY <1>1, Invariance, PTL

\* Proxies are ranked for a complete request with no external evidence only, and external
\* evidence is ranked alone, once per id, and only if there was no local candidate
\* (A1ResolutionGraph.run).
THEOREM OriginsAreSeparate == Spec => []OriginsStayApart
<1>1. ASSUME WorkInv
      PROVE  OriginsStayApart
  <2> USE <1>1 DEF WorkInv
  <2>1. ProxiesComeLast
    <3> SUFFICES ASSUME proxies # {}
        PROVE  ProxiesComeLast
      BY DEF ProxiesComeLast
    <3>1. stage \in Late /\ phase = "proxy"
      BY DEF StageInv, LocalPhase, ExternalPhase, TypeOK
    <3> QED
      BY <3>1 DEF ProxyPhase, ProxiesComeLast, NeedProxy, Origin
  <2>2. ExternalEvidenceIsSeparate
    <3> SUFFICES ASSUME stage \in {"rank", "top_k", "terminal"},
                        NEW c \in candidates \cup ranked, c.origin = "external"
        PROVE  /\ phase = "external"
               /\ \A d \in candidates \cup ranked : d.origin = "external" /\ (Id(d) = Id(c) => d = c)
               /\ \E e \in external : Id(e) = <<"external", c.base, 0>>
      BY DEF ExternalEvidenceIsSeparate
    <3>1. ranked \subseteq candidates \cup proxies /\ stage \in Late
      BY DEF StageInv, Late
    <3>2. phase = "external"
      BY <3>1 DEF TypeOK, LocalPhase, ProxyPhase, NeedProxy, Origin
    <3>3. candidates \cup ranked \subseteq candidates
      BY <3>1, <3>2 DEF ExternalPhase
    <3> QED
      BY <3>2, <3>3 DEF ExternalPhase, Origin
  <2> QED
    BY <2>1, <2>2 DEF OriginsStayApart
<1>2. WorkInv /\ EndInv => OriginsStayApart
  BY <1>1
<1> QED
  BY <1>2, Invariance, PTL

\* No step forgets a mass that a reference flow lacks, and unless a candidate can be
\* selected or units or a conflict refuse it, the answer is a question (ReferenceFlow, TopKNode).
THEOREM MissingMassStaysAsked == Spec => MissingMassIsAsked
<1> DEFINE Kept == "mass" \in required_fields => "mass" \in required_fields'
           Asked == (stage' = "terminal" /\ "mass" \in required_fields)
              => recommendation'.status \in {"recommendation_ready", "more_input_needed", "unresolved"}
<1>1. ASSUME WorkInv, [Next]_vars
      PROVE  [Kept /\ Asked]_vars
  <2> SUFFICES ASSUME Next
      PROVE  Kept /\ Asked
    BY <1>1
  <2>1. CASE TopKNode
    <3>1. required_fields \subseteq required
      BY DEF required
    <3>2. Kept
      BY <2>1, <3>1, Recommended
    <3>3. "mass" \in required_fields => follow_up_status \in {"more_input_needed", "unresolved"}
      BY <3>1 DEF follow_up_status
    <3> QED
      BY <2>1, <3>2, <3>3, Recommended
  <2>2. CASE DiscoverForGaps
    BY <1>1, <2>2 DEF DiscoverForGaps, WorkInv, StageInv
  <2>3. CASE DiscoverForLack
    BY <2>3 DEF DiscoverForLack, AskAlso, NextAfterMaterial
  <2>4. CASE ReferenceFlow
    <3>1. required_fields' \in {{"mass"}, required_fields} /\ stage' \in {"resolved", "technical_resolution"}
      BY <2>4 DEF ReferenceFlow
    <3> QED
      BY <3>1
  <2>5. CASE PortFails \/ Normalize \/ LocalRetrieval \/ GapAnalysis \/ UnitScale \/ ProxyResolution
             \/ ReEvaluate \/ PoolAndRank
    BY <2>5 DEF PortFails, Normalize, LocalRetrieval, GapAnalysis, UnitScale, ProxyResolution,
                ReEvaluate, PoolAndRank, asks
  <2>6. CASE LocalEvaluate
    BY <2>6 DEF LocalEvaluate
  <2>7. CASE ProcessVariant
    BY <2>7 DEF ProcessVariant, AfterTechnical, asks
  <2>8. CASE GradeComposition
    BY <2>8 DEF GradeComposition, AfterTechnical, asks
  <2>9. CASE LeaveResolution
    BY <2>9 DEF LeaveResolution, NextAfterMaterial, asks
  <2>10. CASE ProxyEvaluate
    BY <2>10 DEF ProxyEvaluate, asks
  <2> QED
    BY <2>1, <2>2, <2>3, <2>4, <2>5, <2>6, <2>7, <2>8, <2>9, <2>10 DEF Next, Step
<1>2. WorkInv /\ EndInv /\ [Next]_vars => [Kept /\ Asked]_vars
  BY <1>1
<1> QED
  BY <1>2, Invariance, PTL DEF Spec, MissingMassIsAsked

=============================================================================
