---------------------------- MODULE InsightsProofs ----------------------------
(***************************************************************************)
(* Proofs about Insights, for any taxonomy, any threshold and any number   *)
(* of polls and boots.                                                     *)
(*                                                                         *)
(* BulletinIsHonest speaks of bulletins that were built earlier, some      *)
(* under an earlier boot.  It is inductive together with what the tallies  *)
(* themselves satisfy (TallyInv): a safety facet has met refusals only, a  *)
(* benign one none.  That rests on classify, whose two CHOOSEs are shown   *)
(* to find a winner (EarliestBest).  Everything outside the enclave only   *)
(* copies bulletins around (Copies).                                       *)
(*                                                                         *)
(* BulletinAddsUp is about two sums taken in different ways: one folds the *)
(* tallies over the facets that are hidden, the other adds up a bulletin's *)
(* entries.  Each takes elements in an order nobody fixes, so what is      *)
(* proved first, by induction over the size of the set, is that a sum over *)
(* a finite set exists, is unique, does not depend on the order, survives  *)
(* a renaming of the elements and splits over disjoint parts.  The         *)
(* invariant is then that the total is the sum of all tallies (AddsInv).   *)
(***************************************************************************)
EXTENDS Insights, FiniteSetTheorems, WellFoundedInduction, TLAPS

\* A refusal is counted in a safety facet or in "other", an allowed request in a benign one or
\* in "other".
TallyInv ==
  /\ \A f \in SafetyFacets : counts[f].allow = 0
  /\ \A f \in BenignFacets : counts[f].deny = 0

InsightsInv ==
  /\ TypeOK
  /\ TallyInv
  /\ BulletinIsHonest

USE InsightsAssumption

--------------------------------------------------------------------------------
(* The classifier *)

LEMMA Least ==
  ASSUME NEW T, T \subseteq Nat, T # {}
  PROVE  \E x \in T : \A y \in T : x <= y
<1>1. PICK x \in T : \A y \in T : ~ (<<y, x>> \in OpToRel(<, Nat))
  BY WFMin, NatLessThanWellFounded
<1>2. \A y \in T : ~ (y < x)
  BY <1>1 DEF OpToRel
<1>3. QED
  BY <1>2

\* Candidates with bounded values and a place each.
Graded(S, v, o) ==
  /\ S # {}
  /\ \E N \in Nat : v \in [S -> 0..N]
  /\ o \in [S -> Nat]

\* One of them has the best value, and the earliest place among its equals.
LEMMA EarliestBest ==
  ASSUME NEW S, NEW v, NEW o, Graded(S, v, o)
  PROVE  \E c \in S : \A d \in S : v[d] < v[c] \/ (v[d] = v[c] /\ o[c] <= o[d])
<1>0. PICK N \in Nat : v \in [S -> 0..N] /\ o \in [S -> Nat] /\ S # {}
  BY DEF Graded
<1> DEFINE Gap == {N - v[c] : c \in S}
<1>1. Gap \subseteq Nat /\ Gap # {}
  BY <1>0
<1>2. PICK g \in Gap : \A h \in Gap : g <= h
  <2> HIDE DEF Gap
  <2> QED BY <1>1, Least
<1>3. PICK b \in S : g = N - v[b]
  BY <1>2
<1>4. \A d \in S : v[d] <= v[b]
  <2> TAKE d \in S
  <2>1. g <= N - v[d]
    BY <1>2
  <2>2. QED
    BY <2>1, <1>0, <1>3
<1> DEFINE Best == {c \in S : v[c] = v[b]}
<1> DEFINE At == {o[c] : c \in Best}
<1>5. At \subseteq Nat /\ At # {}
  <2>1. b \in Best /\ Best \subseteq S
    BY <1>3
  <2> HIDE DEF Best
  <2>2. \A c \in Best : o[c] \in Nat
    BY <1>0, <2>1
  <2>3. QED
    BY <2>1, <2>2
<1>6. PICK x \in At : \A y \in At : x <= y
  <2> HIDE DEF At
  <2> QED BY <1>5, Least
<1>7. PICK c \in Best : x = o[c]
  OBVIOUS
<1>8. \A d \in S : v[d] = v[c] => o[c] <= o[d]
  BY <1>0, <1>6, <1>7
<1>9. \A d \in S : v[d] < v[c] \/ v[d] = v[c]
  BY <1>0, <1>4, <1>7
<1>10. QED
  BY <1>7, <1>8, <1>9

LEMMA SafetyFacetType ==
  ASSUME NEW x \in Prompt
  PROVE  safetyFacet(x.score, x.threshold) \in SafetyFacets \cup {"other"}
<1> DEFINE score == x.score
           over == {c \in Category : score[c] >= x.threshold[c]}
           P(c) == \A d \in over : score[d] < score[c] \/ (score[d] = score[c] /\ c <= d)
<1>1. CASE over = {}
  BY <1>1 DEF safetyFacet
<1>2. CASE over # {}
  <2>1. score \in [Category -> 0..MaxScore]
    BY DEF Prompt
  <2> HIDE DEF score
  <2> DEFINE v == [c \in over |-> score[c]]
             o == [c \in over |-> c]
  <2>2. Graded(over, v, o)
    BY <1>2, <2>1 DEF Graded
  <2>3. \E c \in over : \A d \in over : v[d] < v[c] \/ (v[d] = v[c] /\ o[c] <= o[d])
    <3> HIDE DEF v, o, over
    <3> QED BY <2>2, EarliestBest
  <2>4. \E c \in over : P(c)
    BY <2>3
  <2>5. (CHOOSE c \in over : P(c)) \in over
    BY <2>4
  <2>6. CATEGORY_FACET[CHOOSE c \in over : P(c)] \in SafetyFacets
    BY <2>5
  <2>7. QED
    BY <1>2, <2>6 DEF safetyFacet, score
<1>3. QED
  BY <1>1, <1>2

LEMMA BenignFacetType ==
  ASSUME NEW x \in Prompt
  PROVE  benignFacet(x.hits) \in BenignFacets \cup {"other"}
<1> DEFINE hits == x.hits
           hit == {f \in BenignFacets : hits[f] > 0}
           P(f) == \A g \in hit : \/ hits[g] < hits[f]
                                  \/ hits[g] = hits[f] /\ FacetOrder[f] <= FacetOrder[g]
<1>1. CASE hit = {}
  BY <1>1 DEF benignFacet
<1>2. CASE hit # {}
  <2>1. hits \in [BenignFacets -> 0..MaxHits]
    BY DEF Prompt
  <2> HIDE DEF hits
  <2> DEFINE v == [f \in hit |-> hits[f]]
             o == [f \in hit |-> FacetOrder[f]]
  <2>2. Graded(hit, v, o)
    BY <1>2, <2>1 DEF Graded
  <2>3. \E f \in hit : \A g \in hit : v[g] < v[f] \/ (v[g] = v[f] /\ o[f] <= o[g])
    <3> HIDE DEF v, o, hit
    <3> QED BY <2>2, EarliestBest
  <2>4. \E f \in hit : P(f)
    BY <2>3
  <2>5. (CHOOSE f \in hit : P(f)) \in hit
    BY <2>4
  <2>6. QED
    BY <1>2, <2>5 DEF benignFacet, hits
<1>3. QED
  BY <1>1, <1>2

\* The decision and the facet agree.
LEMMA ClassifyType ==
  ASSUME NEW x \in Prompt
  PROVE  /\ x.decision = "DENY" => classify(x) \in SafetyFacets \cup {"other"}
         /\ x.decision = "ALLOW" => classify(x) \in BenignFacets \cup {"other"}
BY SafetyFacetType, BenignFacetType DEF classify

--------------------------------------------------------------------------------
(* The bulletin *)

Typed(b) ==
  /\ b.by \in 1..MaxBoots
  /\ b.windowRequests \in Nat
  /\ b.facets \subseteq Facet \X Tally
  /\ b.suppressedFacets \in Nat

\* A bulletin is typed and honest when it leaves the enclave.
LEMMA BuildIsHonest ==
  ASSUME InsightsInv
  PROVE  Typed(Build) /\ Honest(Build)
<1>1. TypeOK /\ TallyInv
  BY DEF InsightsInv
<1>2. \A f \in Facet : counts[f] \in Tally
  BY <1>1 DEF TypeOK
<1>3. Build.by = boot /\ Build.windowRequests = total
      /\ Build.facets = {<<f, counts[f]>> : f \in Listed}
      /\ Build.suppressedFacets = Cardinality(Suppressed)
  BY DEF Build
<1>4. IsFiniteSet(Suppressed)
  BY FS_Subset DEF Suppressed
<1>5. Build.suppressedFacets \in Nat
  BY <1>3, <1>4, FS_CardinalityType
<1>6. Listed \subseteq Facet
  BY DEF Listed
<1>7. Build.facets \subseteq Facet \X Tally
  BY <1>2, <1>3, <1>6
<1>8. Typed(Build)
  BY <1>1, <1>3, <1>5, <1>7 DEF Typed, TypeOK
<1>9. ASSUME NEW e \in Build.facets
      PROVE  /\ e[1] # "other" /\ Sum(e[2]) >= kMin
             /\ e[1] \in SafetyFacets => e[2].allow = 0
             /\ e[1] \in BenignFacets => e[2].deny = 0
             /\ e[2].allow <= counts[e[1]].allow /\ e[2].deny <= counts[e[1]].deny
  <2>1. PICK f \in Listed : e = <<f, counts[f]>>
    BY <1>3
  <2>2. e[1] = f /\ e[2] = counts[f] /\ f \in Facet
    BY <2>1, <1>6
  <2>3. f # "other" /\ Sum(counts[f]) >= kMin
    BY DEF Listed
  <2>4. counts[f].allow \in Nat /\ counts[f].deny \in Nat
    BY <1>2, <2>2 DEF Tally
  <2>5. QED
    BY <1>1, <2>2, <2>3, <2>4 DEF TallyInv
<1>10. Honest(Build)
  BY <1>1, <1>3, <1>9 DEF Honest, TypeOK
<1>11. QED
  BY <1>8, <1>10

--------------------------------------------------------------------------------
(* Steps of the enclave: the bulletins outside are the ones there were. *)

LEMMA RecordKeeps ==
  ASSUME InsightsInv, NEW x \in Prompts, Record(x)
  PROVE  InsightsInv'
<1> DEFINE f == classify(x)
<1>1. TypeOK /\ TallyInv /\ BulletinIsHonest /\ x \in Prompt
  BY DEF InsightsInv
<1>2. f \in Facet
  BY <1>1, ClassifyType DEF Prompt, Facet
<1>3. /\ x.decision = "ALLOW" => f \notin SafetyFacets
      /\ x.decision # "ALLOW" => f \notin BenignFacets
  BY <1>1, ClassifyType DEF Prompt
<1> HIDE DEF f
<1>4. counts[f] \in Tally /\ counts \in [Facet -> Tally]
  BY <1>1, <1>2 DEF TypeOK
<1> DEFINE t == Counted(counts[f], x.decision)
<1>5. counts' = [counts EXCEPT ![f] = t]
  BY DEF Record, f
<1>6. /\ t \in Tally
      /\ t.allow >= counts[f].allow /\ t.deny >= counts[f].deny
      /\ x.decision = "ALLOW" => t.deny = counts[f].deny
      /\ x.decision # "ALLOW" => t.allow = counts[f].allow
  BY <1>4 DEF Tally, Counted
<1> HIDE DEF t
<1>7. counts' \in [Facet -> Tally]
  BY <1>4, <1>5, <1>6
<1>8. \A g \in Facet : counts'[g].allow >= counts[g].allow /\ counts'[g].deny >= counts[g].deny
  <2> TAKE g \in Facet
  <2>1. CASE g = f
    BY <2>1, <1>2, <1>4, <1>5, <1>6
  <2>2. CASE g # f
    <3>1. counts'[g] = counts[g] /\ counts[g] \in Tally
      BY <2>2, <1>4, <1>5
    <3>2. QED
      BY <3>1 DEF Tally
  <2>3. QED
    BY <2>1, <2>2
<1>9. total' = total + 1 /\ boot' = boot /\ requests' = requests + 1 /\ requests < MaxRequests
      /\ UNCHANGED <<cache, poll, shown, key>>
  BY DEF Record
<1>10. Bulletins' = Bulletins
  BY <1>9 DEF Bulletins
<1>11. TypeOK'
  BY <1>1, <1>7, <1>9, <1>10 DEF TypeOK
<1>12. TallyInv'
  <2>1. ASSUME NEW g \in SafetyFacets PROVE counts'[g].allow = 0
    <3>1. CASE g = f
      BY <3>1, <1>1, <1>2, <1>3, <1>4, <1>5, <1>6 DEF TallyInv
    <3>2. CASE g # f
      BY <3>2, <1>1, <1>4, <1>5 DEF TallyInv, Facet
    <3>3. QED
      BY <3>1, <3>2
  <2>2. ASSUME NEW g \in BenignFacets PROVE counts'[g].deny = 0
    <3>1. CASE g = f
      BY <3>1, <1>1, <1>2, <1>3, <1>4, <1>5, <1>6 DEF TallyInv
    <3>2. CASE g # f
      BY <3>2, <1>1, <1>4, <1>5 DEF TallyInv, Facet
    <3>3. QED
      BY <3>1, <3>2
  <2>3. QED
    BY <2>1, <2>2 DEF TallyInv
<1>13. BulletinIsHonest'
  <2> SUFFICES ASSUME NEW b \in Bulletins PROVE Honest(b)'
    BY <1>10 DEF BulletinIsHonest
  <2>1. Honest(b) /\ b.windowRequests \in Nat /\ total \in Nat /\ b.facets \subseteq Facet \X Tally
    BY <1>1 DEF BulletinIsHonest, TypeOK
  <2>2. ASSUME NEW e \in b.facets, b.by = boot
        PROVE  e[2].allow <= counts'[e[1]].allow /\ e[2].deny <= counts'[e[1]].deny
    <3>1. e[1] \in Facet /\ e[2] \in Tally
      BY <2>1
    <3>2. e[2].allow <= counts[e[1]].allow /\ e[2].deny <= counts[e[1]].deny
      BY <2>1, <2>2 DEF Honest
    <3>3. counts[e[1]] \in Tally /\ counts'[e[1]] \in Tally
      BY <3>1, <1>4, <1>7
    <3>4. QED
      BY <3>1, <3>2, <3>3, <1>8 DEF Tally
  <2>3. QED
    BY <2>1, <2>2, <1>9 DEF Honest
<1>14. QED
  BY <1>11, <1>12, <1>13 DEF InsightsInv

LEMMA RestartKeeps ==
  ASSUME InsightsInv, Restart
  PROVE  InsightsInv'
<1>1. TypeOK /\ TallyInv /\ BulletinIsHonest
  BY DEF InsightsInv
<1>2. /\ boot < MaxBoots /\ boot' = boot + 1
      /\ counts' = [f \in Facet |-> Zero] /\ total' = 0
      /\ UNCHANGED <<requests, cache, poll, shown, key>>
  BY DEF Restart
<1>3. Bulletins' = Bulletins
  BY <1>2 DEF Bulletins
<1>4. Zero \in Tally /\ Zero.allow = 0 /\ Zero.deny = 0
  BY DEF Zero, Tally
<1>5. TypeOK'
  BY <1>1, <1>2, <1>3, <1>4 DEF TypeOK
<1>6. TallyInv'
  BY <1>2, <1>4 DEF TallyInv, Facet
<1>7. BulletinIsHonest'
  <2> SUFFICES ASSUME NEW b \in Bulletins PROVE Honest(b)'
    BY <1>3 DEF BulletinIsHonest
  <2>1. Honest(b) /\ b.by \in Nat /\ boot \in Nat
    BY <1>1 DEF BulletinIsHonest, TypeOK
  <2>2. b.by # boot' /\ b.by <= boot'
    BY <2>1, <1>2 DEF Honest
  <2>3. QED
    BY <2>1, <2>2 DEF Honest
<1>8. QED
  BY <1>5, <1>6, <1>7 DEF InsightsInv

--------------------------------------------------------------------------------
(* Steps outside the enclave *)

\* A step that leaves the enclave alone and at most adds the bulletin of this moment.
Copies ==
  /\ UNCHANGED enclave
  /\ Bulletins' \subseteq Bulletins \cup {Build}
  /\ poll' = [p \in Polls |-> Place(poll[p].state, poll[p].bulletin)']
  /\ \A p \in Polls : poll'[p].state \in {"none", "asked", "built", "relayed"}
  /\ key' \in 0..MaxBoots

LEMMA CopiesKeep ==
  ASSUME InsightsInv, Copies
  PROVE  InsightsInv'
<1>1. TypeOK /\ TallyInv /\ BulletinIsHonest
  BY DEF InsightsInv
<1>2. UNCHANGED <<boot, counts, total, requests>>
  BY DEF Copies, enclave
<1>3. \A b \in Bulletins' : Typed(b) /\ Honest(b)
  <2>1. \A b \in Bulletins : Typed(b) /\ Honest(b)
    BY <1>1 DEF TypeOK, Typed, BulletinIsHonest
  <2>2. QED
    BY <2>1, BuildIsHonest DEF Copies
<1>4. TypeOK'
  BY <1>1, <1>2, <1>3 DEF TypeOK, Copies, Typed
<1>5. TallyInv'
  BY <1>1, <1>2 DEF TallyInv
<1>6. BulletinIsHonest'
  BY <1>2, <1>3 DEF BulletinIsHonest, Honest
<1>7. QED
  BY <1>4, <1>5, <1>6 DEF InsightsInv

\* A step of one poll that puts a bulletin of the system, or a new one, into its place.
LEMMA PollCopies ==
  ASSUME InsightsInv, NEW p \in Polls, NEW st \in {"none", "asked", "built", "relayed"}, NEW B,
         poll' = [poll EXCEPT ![p] = Place(st, B)],
         B \subseteq Bulletins \cup {Build},
         cache' \subseteq Bulletins, shown' \subseteq Bulletins,
         UNCHANGED <<enclave, key>>
  PROVE  Copies
<1>1. poll = [q \in Polls |-> Place(poll[q].state, poll[q].bulletin)]
      /\ \A q \in Polls : poll[q].state \in {"none", "asked", "built", "relayed"}
  BY DEF InsightsInv, TypeOK
<1>2. poll'[p].state = st /\ poll'[p].bulletin = B /\ poll'[p] = Place(st, B)
  BY <1>1 DEF Place
<1>3. \A q \in Polls : q # p => poll'[q] = poll[q]
  BY <1>1
<1>4. \A q \in Polls : poll'[q].state \in {"none", "asked", "built", "relayed"}
  BY <1>1, <1>2, <1>3
<1>5. \A q \in Polls : poll'[q] = Place(poll'[q].state, poll'[q].bulletin)
  BY <1>1, <1>2, <1>3
<1>6. poll' = [q \in Polls |-> Place(poll'[q].state, poll'[q].bulletin)]
  BY <1>1, <1>5
<1>7. \A q \in Polls : poll'[q].bulletin \subseteq Bulletins \cup {Build}
  BY <1>2, <1>3 DEF Bulletins
<1>8. Bulletins' \subseteq Bulletins \cup {Build}
  BY <1>7 DEF Bulletins
<1>9. key' \in 0..MaxBoots
  BY DEF InsightsInv, TypeOK
<1>10. QED
  BY <1>4, <1>6, <1>8, <1>9 DEF Copies

LEMMA PollsCopy ==
  ASSUME InsightsInv, NEW p \in Polls,
         Ask(p) \/ Answer(p) \/ Relay(p) \/ RelayCached(p) \/ Show(p)
  PROVE  Copies
<1>1. poll = [q \in Polls |-> Place(poll[q].state, poll[q].bulletin)]
  BY DEF InsightsInv, TypeOK
<1>2. poll[p] = Place(poll[p].state, poll[p].bulletin)
  BY <1>1
<1>3. cache \subseteq Bulletins /\ shown \subseteq Bulletins /\ poll[p].bulletin \subseteq Bulletins
  BY DEF Bulletins
<1>4. \A st : [poll EXCEPT ![p].state = st] = [poll EXCEPT ![p] = Place(st, poll[p].bulletin)]
  <2> TAKE st
  <2>1. [poll[p] EXCEPT !.state = st] = Place(st, poll[p].bulletin)
    BY <1>2 DEF Place
  <2>2. QED
    BY <2>1
<1>5. CASE Ask(p)
  BY <1>3, <1>4, <1>5, PollCopies DEF Ask
<1>6. CASE Answer(p)
  <2>1. {Build} \subseteq Bulletins \cup {Build}
    OBVIOUS
  <2>2. QED
    BY <1>3, <1>6, <2>1, PollCopies DEF Answer
<1>7. CASE Relay(p)
  BY <1>3, <1>4, <1>7, PollCopies DEF Relay
<1>8. CASE RelayCached(p)
  BY <1>3, <1>8, PollCopies DEF RelayCached
<1>9. CASE Show(p)
  <2>1. Empty = Place("none", {}) /\ {} \subseteq Bulletins \cup {Build}
    BY DEF Empty, Place
  <2>2. shown' \subseteq Bulletins
    BY <1>3, <1>9 DEF Show
  <2>3. QED
    BY <1>3, <1>9, <2>1, <2>2, PollCopies DEF Show
<1>10. QED
  BY <1>5, <1>6, <1>7, <1>8, <1>9

LEMMA FetchKeyCopies ==
  ASSUME InsightsInv, FetchKey
  PROVE  Copies
<1>1. TypeOK
  BY DEF InsightsInv
<1>2. UNCHANGED <<boot, counts, total, requests, cache, poll, shown>> /\ key' = boot
  BY DEF FetchKey, enclave
<1>3. Bulletins' = Bulletins
  BY <1>2 DEF Bulletins
<1>4. QED
  BY <1>1, <1>2, <1>3 DEF Copies, TypeOK, enclave

LEMMA StutterCopies ==
  ASSUME InsightsInv, UNCHANGED vars
  PROVE  Copies
<1>1. TypeOK
  BY DEF InsightsInv
<1>2. UNCHANGED <<boot, counts, total, requests, cache, poll, shown, key>>
  BY DEF vars
<1>3. Bulletins' = Bulletins
  BY <1>2 DEF Bulletins
<1>4. QED
  BY <1>1, <1>2, <1>3 DEF Copies, TypeOK, enclave

--------------------------------------------------------------------------------
LEMMA InitInv == Init => InsightsInv
<1> SUFFICES ASSUME Init PROVE InsightsInv
  OBVIOUS
<1>1. Zero \in Tally /\ Zero.allow = 0 /\ Zero.deny = 0
  BY DEF Zero, Tally
<1>2. Empty = Place("none", {}) /\ Empty.bulletin = {} /\ Empty.state = "none"
  BY DEF Empty, Place
<1>3. Bulletins = {}
  BY <1>2 DEF Init, Bulletins
<1>4. TypeOK
  BY <1>1, <1>2, <1>3 DEF Init, TypeOK
<1>5. TallyInv
  BY <1>1 DEF Init, TallyInv, Facet
<1>6. QED
  BY <1>3, <1>4, <1>5 DEF InsightsInv, BulletinIsHonest

LEMMA NextKeeps == InsightsInv /\ [Next]_vars => InsightsInv'
<1> SUFFICES ASSUME InsightsInv, [Next]_vars PROVE InsightsInv'
  OBVIOUS
<1>1. ASSUME NEW x \in Prompts, Record(x) PROVE InsightsInv'
  BY <1>1, RecordKeeps
<1>2. CASE Restart
  BY <1>2, RestartKeeps
<1>3. ASSUME NEW p \in Polls, Ask(p) \/ Answer(p) \/ Relay(p) \/ RelayCached(p) \/ Show(p)
      PROVE  InsightsInv'
  BY <1>3, PollsCopy, CopiesKeep
<1>4. CASE FetchKey
  BY <1>4, FetchKeyCopies, CopiesKeep
<1>5. CASE UNCHANGED vars
  BY <1>5, StutterCopies, CopiesKeep
<1>6. QED
  BY <1>1, <1>2, <1>3, <1>4, <1>5 DEF Next

LEMMA Invariance == Spec => []InsightsInv
BY InitInv, NextKeeps, PTL DEF Spec

\* Every variable keeps its type; what otherCount comes to is BulletinsAddUp's.
THEOREM TypeCorrect == Spec => []TypeOK
<1>1. InsightsInv => TypeOK
  BY DEF InsightsInv
<1>2. QED
  BY <1>1, Invariance, PTL

\* No bulletin outside the enclave names a facet with fewer than kMin requests, mixes up refusals
\* and allowed requests, or claims more than its boot has classified.
THEOREM BulletinsAreHonest == Spec => []BulletinIsHonest
<1>1. InsightsInv => BulletinIsHonest
  BY DEF InsightsInv
<1>2. QED
  BY <1>1, Invariance, PTL
--------------------------------------------------------------------------------
(* Sums over finite sets *)

HIDE InsightsAssumption

\* Induction, for a set of naturals.
LEMMA NatInd ==
  ASSUME NEW T, 0 \in T, \A n \in Nat : n \in T => n + 1 \in T
  PROVE  \A n \in Nat : n \in T
<1> DEFINE R == {ss \in Nat \X Nat : ss[1] < ss[2]}
           U == Nat \ T
<1> SUFFICES ASSUME U # {} PROVE FALSE
  OBVIOUS
<1>1. IsWellFoundedOn(R, Nat)
  BY NatLessThanWellFounded DEF OpToRel
<1>2. PICK i \in U : \A j \in U : <<j, i>> \notin R
  BY <1>1, WFMin
<1>3. i \in Nat /\ i # 0 /\ i - 1 \in Nat
  OBVIOUS
<1>4. i - 1 \notin U
  <2>1. <<i - 1, i>> \in R
    BY <1>3
  <2> QED
    BY <1>2, <2>1
<1> QED
  BY <1>3, <1>4

\* The element a fold takes next.
Pick(s) == CHOOSE x \in s : TRUE

\* g adds up the weights w over the sets of a family closed under Pick.
AddsUp(g, w, F) ==
  \A s \in F : g[s] = IF s = {} THEN 0 ELSE w[Pick(s)] + g[s \ {Pick(s)}]

Sums(g, w, F) == g \in [F -> Nat] /\ AddsUp(g, w, F)

\* The element taken is one of the set, and one fewer is left.
LEMMA PickOne ==
  ASSUME NEW s, s # {}, IsFiniteSet(s)
  PROVE  /\ Pick(s) \in s
         /\ \A x \in s : IsFiniteSet(s \ {x}) /\ Cardinality(s \ {x}) = Cardinality(s) - 1
         /\ Cardinality(s) \in Nat \ {0}
<1>1. Pick(s) \in s
  BY DEF Pick
<1>2. \A x \in s : IsFiniteSet(s \ {x}) /\ Cardinality(s \ {x}) = Cardinality(s) - 1
  BY FS_RemoveElement
<1>3. Cardinality(s) \in Nat /\ Cardinality(s) # 0
  BY FS_CardinalityType, FS_EmptySet
<1> QED
  BY <1>1, <1>2, <1>3

\* The subsets of X with at most n elements.
Upto(X, n) == {s \in SUBSET X : Cardinality(s) <= n}

\* A finite set has a sum.
LEMMA SumExists ==
  ASSUME NEW X, IsFiniteSet(X), NEW w \in [X -> Nat]
  PROVE  \E g : Sums(g, w, SUBSET X)
<1> DEFINE T == {n \in Nat : \E g : Sums(g, w, Upto(X, n))}
<1>0. \A s \in SUBSET X : IsFiniteSet(s) /\ Cardinality(s) \in Nat /\ Cardinality(s) <= Cardinality(X)
  BY FS_Subset, FS_CardinalityType
<1>1. 0 \in T
  <2> DEFINE g == [s \in Upto(X, 0) |-> 0]
  <2>1. \A s \in Upto(X, 0) : s = {}
    BY <1>0, FS_EmptySet DEF Upto
  <2>2. Sums(g, w, Upto(X, 0))
    BY <2>1 DEF Sums, AddsUp
  <2> QED
    BY <2>2
<1>2. ASSUME NEW n \in Nat, n \in T PROVE n + 1 \in T
  <2>1. PICK g : Sums(g, w, Upto(X, n))
    BY <1>2
  <2> DEFINE h == [s \in Upto(X, n + 1) |->
                     IF s \in Upto(X, n) THEN g[s] ELSE w[Pick(s)] + g[s \ {Pick(s)}]]
  <2>2. ASSUME NEW s \in Upto(X, n + 1)
        PROVE  /\ h[s] \in Nat
               /\ h[s] = IF s = {} THEN 0 ELSE w[Pick(s)] + h[s \ {Pick(s)}]
    <3>0. s \in SUBSET X /\ IsFiniteSet(s) /\ Cardinality(s) <= n + 1 /\ Cardinality(s) \in Nat
      BY <1>0 DEF Upto
    <3>1. CASE s = {}
      <4>1. s \in Upto(X, n)
        BY <3>1, FS_EmptySet DEF Upto
      <4> QED
        BY <2>1, <3>1, <4>1 DEF Sums, AddsUp
    <3>2. CASE s # {}
      <4> DEFINE p == Pick(s)
                 r == s \ {p}
      <4>1. p \in s /\ Cardinality(r) = Cardinality(s) - 1
        BY <3>0, <3>2, PickOne
      <4>2. r \in Upto(X, n) /\ r \in Upto(X, n + 1)
        BY <3>0, <4>1 DEF Upto
      <4>3. h[r] = g[r] /\ g[r] \in Nat /\ w[p] \in Nat
        BY <2>1, <3>0, <4>1, <4>2 DEF Sums, AddsUp
      <4>4. h[s] = w[p] + g[r]
        BY <2>1, <3>2 DEF Sums, AddsUp
      <4> QED
        BY <3>2, <4>3, <4>4
    <3> QED
      BY <3>1, <3>2
  <2>3. Sums(h, w, Upto(X, n + 1))
    BY <2>2 DEF Sums, AddsUp
  <2> QED
    BY <2>3
<1>3. Cardinality(X) \in Nat /\ Upto(X, Cardinality(X)) = SUBSET X
  BY <1>0 DEF Upto
<1>4. Cardinality(X) \in T
  <2> HIDE DEF T
  <2> QED
    BY <1>1, <1>2, <1>3, NatInd
<1> QED
  BY <1>3, <1>4

\* Any element may be taken out first.
AnyFirst(g, w, X) == \A s \in SUBSET X : \A x \in s : g[s] = w[x] + g[s \ {x}]

\* A sum does not depend on the order.
LEMMA SumRemove ==
  ASSUME NEW X, IsFiniteSet(X), NEW w \in [X -> Nat], NEW g, Sums(g, w, SUBSET X)
  PROVE  AnyFirst(g, w, X)
<1> DEFINE T == {n \in Nat : \A t \in SUBSET X : \A y \in t :
                   Cardinality(t) = n => g[t] = w[y] + g[t \ {y}]}
<1>0. \A t \in SUBSET X : IsFiniteSet(t) /\ Cardinality(t) \in Nat
  BY FS_Subset, FS_CardinalityType
<1>1. 0 \in T
  BY <1>0, FS_EmptySet
<1>2. ASSUME NEW n \in Nat, n \in T PROVE n + 1 \in T
  <2> SUFFICES ASSUME NEW t \in SUBSET X, NEW y \in t, Cardinality(t) = n + 1
               PROVE  g[t] = w[y] + g[t \ {y}]
    OBVIOUS
  <2> DEFINE p == Pick(t)
             a == t \ {p}
             b == t \ {y}
             c == a \ {y}
  <2>1. p \in t /\ Cardinality(a) = n /\ Cardinality(b) = n
    BY <1>0, PickOne
  <2>2. g[t] = w[p] + g[a]
    BY DEF Sums, AddsUp
  <2>3. CASE y = p
    BY <2>2, <2>3
  <2>4. CASE y # p
    <3>1. y \in a /\ p \in b /\ b \ {p} = c /\ a \in SUBSET X /\ b \in SUBSET X /\ c \in SUBSET X
      BY <2>1, <2>4
    <3>2. g[a] = w[y] + g[c]
      BY <1>2, <2>1, <3>1
    <3>3. g[b] = w[p] + g[c]
      BY <1>2, <2>1, <3>1
    <3>4. w[p] \in Nat /\ w[y] \in Nat /\ g[c] \in Nat
      BY <2>1, <3>1 DEF Sums, AddsUp
    <3> HIDE DEF a, b, c, p
    <3> QED
      BY <2>2, <3>2, <3>3, <3>4 DEF b
  <2> QED
    BY <2>3, <2>4
<1>3. \A n \in Nat : n \in T
  <2> HIDE DEF T
  <2> QED
    BY <1>1, <1>2, NatInd
<1> QED
  BY <1>0, <1>3 DEF AnyFirst

\* The elements of X have other names in Y, with the same weights.
Renames(phi, X, w, Y, v) ==
  /\ phi \in [X -> Y]
  /\ \A x, y \in X : phi[x] = phi[y] => x = y
  /\ \A x \in X : v[phi[x]] = w[x]

Image(phi, X) == {phi[x] : x \in X}

SameSum(g, X, h, Y) == g[X] = h[Y]

\* The same weights under other names have the same sum.
LEMMA SumRenamed ==
  ASSUME NEW X, IsFiniteSet(X), NEW w \in [X -> Nat], NEW g, Sums(g, w, SUBSET X),
         NEW Y, IsFiniteSet(Y), NEW v \in [Y -> Nat], NEW h, Sums(h, v, SUBSET Y),
         NEW phi, Renames(phi, X, w, Y, v)
  PROVE  SameSum(g, X, h, Image(phi, X))
<1> USE DEF Renames
<1> DEFINE Img(s) == {phi[x] : x \in s}
           T == {n \in Nat : \A s \in SUBSET X : Cardinality(s) = n => g[s] = h[Img(s)]}
<1>0. \A t \in SUBSET X : IsFiniteSet(t) /\ Cardinality(t) \in Nat
  BY FS_Subset, FS_CardinalityType
<1>R. AnyFirst(g, w, X) /\ AnyFirst(h, v, Y)
  BY SumRemove
<1>1. 0 \in T
  <2> SUFFICES ASSUME NEW s \in SUBSET X, Cardinality(s) = 0 PROVE g[s] = h[Img(s)]
    OBVIOUS
  <2>1. s = {} /\ Img(s) = {} /\ {} \in SUBSET Y
    BY <1>0, FS_EmptySet
  <2> HIDE DEF Img
  <2> QED
    BY <2>1 DEF Sums, AddsUp
<1>2. ASSUME NEW n \in Nat, n \in T PROVE n + 1 \in T
  <2> SUFFICES ASSUME NEW s \in SUBSET X, Cardinality(s) = n + 1 PROVE g[s] = h[Img(s)]
    OBVIOUS
  <2>0. s # {}
    BY <1>0, FS_EmptySet
  <2>1. PICK x \in s : TRUE
    BY <2>0
  <2> DEFINE r == s \ {x}
  <2>2. Cardinality(r) = n /\ r \in SUBSET X
    BY <1>0, <2>0, <2>1, PickOne
  <2>3. Img(s) \ {phi[x]} = Img(r) /\ phi[x] \in Img(s) /\ Img(s) \in SUBSET Y
    BY <2>1
  <2>4. g[s] = w[x] + g[r]
    BY <2>1, <1>R DEF AnyFirst
  <2>5. g[r] = h[Img(r)]
    BY <1>2, <2>2
  <2> DEFINE u == Img(s)
             y == phi[x]
  <2>6. u \in SUBSET Y /\ y \in u /\ u \ {y} = Img(r)
    BY <2>3
  <2> HIDE DEF u, y, Img
  <2>7. h[u] = v[y] + h[u \ {y}]
    BY <2>6, <1>R DEF AnyFirst
  <2> QED
    BY <2>1, <2>4, <2>5, <2>6, <2>7 DEF u, y
<1>3. \A n \in Nat : n \in T
  <2> HIDE DEF T
  <2> QED
    BY <1>1, <1>2, NatInd
<1> QED
  BY <1>0, <1>3 DEF Image, SameSum

\* The sum over two sets apart is the sum of their sums.
Splits(g, X) == \A a, b \in SUBSET X : a \cap b = {} => g[a \cup b] = g[a] + g[b]

\* Sums split.
LEMMA SumSplit ==
  ASSUME NEW X, IsFiniteSet(X), NEW w \in [X -> Nat], NEW g, Sums(g, w, SUBSET X)
  PROVE  Splits(g, X)
<1> SUFFICES ASSUME NEW a \in SUBSET X, NEW b \in SUBSET X, a \cap b = {}
             PROVE  g[a \cup b] = g[a] + g[b]
  BY DEF Splits
<1> DEFINE T == {n \in Nat : \A s \in SUBSET X : Cardinality(s) = n /\ a \cap s = {} =>
                   g[a \cup s] = g[a] + g[s]}
<1>0. \A t \in SUBSET X : IsFiniteSet(t) /\ Cardinality(t) \in Nat /\ g[t] \in Nat
  BY FS_Subset, FS_CardinalityType DEF Sums, AddsUp
<1>R. AnyFirst(g, w, X)
  BY SumRemove
<1>1. 0 \in T
  <2> SUFFICES ASSUME NEW s \in SUBSET X, Cardinality(s) = 0 PROVE g[a \cup s] = g[a] + g[s]
    OBVIOUS
  <2>1. s = {} /\ a \cup s = a
    BY <1>0, FS_EmptySet
  <2>2. g[s] = 0
    BY <2>1 DEF Sums, AddsUp
  <2> QED
    BY <1>0, <2>1, <2>2
<1>2. ASSUME NEW n \in Nat, n \in T PROVE n + 1 \in T
  <2> SUFFICES ASSUME NEW s \in SUBSET X, Cardinality(s) = n + 1, a \cap s = {}
               PROVE  g[a \cup s] = g[a] + g[s]
    OBVIOUS
  <2>0. s # {}
    BY <1>0, FS_EmptySet
  <2>1. PICK x \in s : TRUE
    BY <2>0
  <2> DEFINE r == s \ {x}
  <2>2. Cardinality(r) = n /\ r \in SUBSET X /\ a \cap r = {} /\ w[x] \in Nat
    BY <1>0, <2>0, <2>1, PickOne
  <2>3. (a \cup s) \ {x} = a \cup r /\ a \cup s \in SUBSET X /\ x \in a \cup s
    BY <2>1
  <2>4. g[s] = w[x] + g[r]
    BY <2>1, <1>R DEF AnyFirst
  <2> DEFINE u == a \cup s
  <2>5. u \in SUBSET X /\ x \in u /\ u \ {x} = a \cup r
    BY <2>3
  <2>6. g[a \cup r] = g[a] + g[r]
    BY <1>2, <2>2
  <2>7. g[r] \in Nat /\ g[a] \in Nat
    BY <1>0, <2>2
  <2> HIDE DEF u, r
  <2>8. g[u] = w[x] + g[u \ {x}]
    BY <2>5, <1>R DEF AnyFirst
  <2>9. g[u] = w[x] + g[a \cup r]
    BY <2>5, <2>8
  <2>10. g[u] = g[a] + g[s]
    BY <2>2, <2>4, <2>6, <2>7, <2>9
  <2> QED
    BY <2>10 DEF u
<1>3. \A n \in Nat : n \in T
  <2> HIDE DEF T
  <2> QED
    BY <1>1, <1>2, NatInd
<1> QED
  BY <1>0, <1>3

\* There is one sum.
LEMMA SumUnique ==
  ASSUME NEW X, IsFiniteSet(X), NEW w, NEW g, Sums(g, w, SUBSET X),
         NEW h, AddsUp(h, w, SUBSET X)
  PROVE  SameSum(h, X, g, X)
<1> DEFINE T == {n \in Nat : \A s \in SUBSET X : Cardinality(s) = n => h[s] = g[s]}
<1>1. \A s \in SUBSET X : IsFiniteSet(s) /\ Cardinality(s) \in Nat
  BY FS_Subset, FS_CardinalityType
<1>2. 0 \in T
  BY <1>1, FS_EmptySet DEF Sums, AddsUp
<1>3. ASSUME NEW n \in Nat, n \in T PROVE n + 1 \in T
  <2> SUFFICES ASSUME NEW s \in SUBSET X, Cardinality(s) = n + 1 PROVE h[s] = g[s]
    OBVIOUS
  <2>1. s # {}
    BY <1>1, FS_EmptySet
  <2>2. Pick(s) \in s /\ Cardinality(s \ {Pick(s)}) = n
    BY <1>1, <2>1, PickOne
  <2> QED
    BY <1>3, <2>1, <2>2 DEF Sums, AddsUp
<1>4. \A n \in Nat : n \in T
  <2> HIDE DEF T
  <2> QED
    BY <1>2, <1>3, NatInd
<1> QED
  BY <1>1, <1>4 DEF SameSum

\* The sum behind otherCount, for any tallies and any facets.
TallySum(u, X) == FoldFunctionOnSet(LAMBDA t, n : Sum(t) + n, 0, u, X)

\* The sum over the entries of a bulletin.
EntrySum(X) == MapThenSumSet(LAMBDA e : Sum(e[2]), X)

\* The fold over facets is the sum of their tallies.
LEMMA TallySumIs ==
  ASSUME NEW u \in [Facet -> Tally], NEW X \in SUBSET Facet
  PROVE  \E g : Sums(g, [f \in X |-> Sum(u[f])], SUBSET X) /\ TallySum(u, X) = g[X]
<1> DEFINE w == [f \in X |-> Sum(u[f])]
           Is(h) == h = [s \in SUBSET X |-> IF s = {} THEN 0
                                            ELSE Sum(u[Pick(s)]) + h[s \ {Pick(s)}]]
           iter == CHOOSE h : Is(h)
<1>1. w \in [X -> Nat]
  BY DEF Sum, Tally
<1>2. IsFiniteSet(X)
  BY FS_Subset, InsightsAssumption
<1>3. TallySum(u, X) = iter[X]
  BY DEF TallySum, FoldFunctionOnSet, MapThenFoldSet, Pick
<1>4. \A s \in SUBSET X : s # {} => Pick(s) \in X /\ w[Pick(s)] = Sum(u[Pick(s)])
  <2> SUFFICES ASSUME NEW s \in SUBSET X, s # {} PROVE Pick(s) \in X
    OBVIOUS
  <2>1. Pick(s) \in s
    BY DEF Pick
  <2> QED
    BY <2>1
<1> HIDE DEF w
<1>5. PICK g : Sums(g, w, SUBSET X)
  BY <1>1, <1>2, SumExists
<1>6. Is(g)
  BY <1>4, <1>5 DEF Sums, AddsUp
<1>7. Is(iter)
  BY <1>6
<1> HIDE DEF iter
<1> DEFINE rhs == [s \in SUBSET X |-> IF s = {} THEN 0 ELSE Sum(u[Pick(s)]) + iter[s \ {Pick(s)}]]
<1>8. iter = rhs
  BY <1>7
<1>9. \A s \in SUBSET X : rhs[s] = IF s = {} THEN 0 ELSE w[Pick(s)] + iter[s \ {Pick(s)}]
  BY <1>4
<1> HIDE DEF rhs, Is
<1>10. AddsUp(iter, w, SUBSET X)
  BY <1>8, <1>9 DEF AddsUp
<1>11. SameSum(iter, X, g, X)
  BY <1>2, <1>5, <1>10, SumUnique
<1> QED
  BY <1>3, <1>5, <1>11 DEF w, SameSum

\* The fold over a bulletin's entries is the sum of what they say.
LEMMA EntrySumIs ==
  ASSUME NEW X \in SUBSET (Facet \X Tally), IsFiniteSet(X)
  PROVE  \E g : Sums(g, [e \in X |-> Sum(e[2])], SUBSET X) /\ EntrySum(X) = g[X]
<1> DEFINE w == [e \in X |-> Sum(e[2])]
           Is(h) == h = [s \in SUBSET X |-> IF s = {} THEN 0
                                            ELSE Sum(Pick(s)[2]) + h[s \ {Pick(s)}]]
           iter == CHOOSE h : Is(h)
<1>1. w \in [X -> Nat]
  BY DEF Sum, Tally
<1>3. EntrySum(X) = iter[X]
  BY DEF EntrySum, MapThenSumSet, MapThenFoldSet, Pick
<1>4. \A s \in SUBSET X : s # {} => Pick(s) \in X /\ w[Pick(s)] = Sum(Pick(s)[2])
  <2> SUFFICES ASSUME NEW s \in SUBSET X, s # {} PROVE Pick(s) \in X
    OBVIOUS
  <2>1. Pick(s) \in s
    BY DEF Pick
  <2> QED
    BY <2>1
<1> HIDE DEF w
<1>5. PICK g : Sums(g, w, SUBSET X)
  BY <1>1, SumExists
<1>6. Is(g)
  BY <1>4, <1>5 DEF Sums, AddsUp
<1>7. Is(iter)
  BY <1>6
<1> HIDE DEF iter
<1> DEFINE rhs == [s \in SUBSET X |-> IF s = {} THEN 0 ELSE Sum(Pick(s)[2]) + iter[s \ {Pick(s)}]]
<1>8. iter = rhs
  BY <1>7
<1>9. \A s \in SUBSET X : rhs[s] = IF s = {} THEN 0 ELSE w[Pick(s)] + iter[s \ {Pick(s)}]
  BY <1>4
<1> HIDE DEF rhs, Is
<1>10. AddsUp(iter, w, SUBSET X)
  BY <1>8, <1>9 DEF AddsUp
<1>11. SameSum(iter, X, g, X)
  BY <1>5, <1>10, SumUnique
<1> QED
  BY <1>3, <1>5, <1>11 DEF w, SameSum

\* The tallies of a set of facets and of a part of it.
LEMMA TallyPart ==
  ASSUME NEW u \in [Facet -> Tally], NEW w, w = [f \in Facet |-> Sum(u[f])],
         NEW g, Sums(g, w, SUBSET Facet), NEW X \in SUBSET Facet
  PROVE  TallySum(u, X) = g[X]
<1> DEFINE Y == Facet
           W == w
<1>0. IsFiniteSet(Facet) /\ IsFiniteSet(X)
  BY FS_Subset, InsightsAssumption
<1> DEFINE v == [f \in X |-> Sum(u[f])]
           phi == [f \in X |-> f]
<1>1. PICK h : Sums(h, v, SUBSET X) /\ TallySum(u, X) = h[X]
  BY TallySumIs
<1>2. w \in [Facet -> Nat] /\ v \in [X -> Nat]
  BY DEF Sum, Tally
<1>3. Renames(phi, X, v, Facet, w) /\ Image(phi, X) = X
  BY DEF Renames, Image
<1>5. /\ IsFiniteSet(X) /\ IsFiniteSet(Y) /\ W \in [Y -> Nat] /\ v \in [X -> Nat]
      /\ Sums(h, v, SUBSET X) /\ Sums(g, W, SUBSET Y) /\ Renames(phi, X, v, Y, W)
  BY <1>0, <1>1, <1>2, <1>3
<1> HIDE DEF phi, v, Y, W
<1>4. SameSum(h, X, g, Image(phi, X))
  BY <1>5, SumRenamed
<1> QED
  BY <1>1, <1>3, <1>4 DEF SameSum
--------------------------------------------------------------------------------
(* What a bulletin adds up to *)

\* Facets that were not met add nothing.
LEMMA ZeroTally ==
  ASSUME NEW u \in [Facet -> Tally], NEW X \in SUBSET Facet, \A f \in X : Sum(u[f]) = 0
  PROVE  TallySum(u, X) = 0
<1> DEFINE w == [f \in X |-> Sum(u[f])]
           h == [s \in SUBSET X |-> 0]
<1>1. PICK g : Sums(g, w, SUBSET X) /\ TallySum(u, X) = g[X]
  BY TallySumIs
<1>2. AddsUp(h, w, SUBSET X)
  <2> SUFFICES ASSUME NEW s \in SUBSET X, s # {} PROVE w[Pick(s)] = 0
    BY DEF AddsUp
  <2>1. Pick(s) \in s
    BY DEF Pick
  <2> QED
    BY <2>1
<1>3. IsFiniteSet(X) /\ h[X] = 0
  BY FS_Subset, InsightsAssumption
<1> HIDE DEF w, h
<1>4. SameSum(h, X, g, X)
  BY <1>1, <1>2, <1>3, SumUnique
<1> QED
  BY <1>1, <1>3, <1>4 DEF SameSum

\* Tallies that agree on X have the same sum over X.
LEMMA SameTally ==
  ASSUME NEW u \in [Facet -> Tally], NEW v \in [Facet -> Tally], NEW X \in SUBSET Facet,
         \A f \in X : u[f] = v[f]
  PROVE  TallySum(u, X) = TallySum(v, X)
<1> DEFINE w == [f \in X |-> Sum(u[f])]
<1>1. w = [f \in X |-> Sum(v[f])]
  OBVIOUS
<1>2. PICK g : Sums(g, w, SUBSET X) /\ TallySum(u, X) = g[X]
  BY TallySumIs
<1>3. PICK h : Sums(h, w, SUBSET X) /\ TallySum(v, X) = h[X]
  BY <1>1, TallySumIs
<1>4. IsFiniteSet(X)
  BY FS_Subset, InsightsAssumption
<1> HIDE DEF w
<1>5. AddsUp(h, w, SUBSET X)
  BY <1>3 DEF Sums
<1>6. SameSum(h, X, g, X)
  BY <1>2, <1>4, <1>5, SumUnique
<1> QED
  BY <1>2, <1>3, <1>6 DEF SameSum

\* All tallies together, seen as sums over their parts.
LEMMA TallyParts ==
  ASSUME NEW u \in [Facet -> Tally]
  PROVE  /\ \A X \in SUBSET Facet : TallySum(u, X) \in Nat
         /\ \A X, Y \in SUBSET Facet : X \cap Y = {} =>
              TallySum(u, X \cup Y) = TallySum(u, X) + TallySum(u, Y)
         /\ \A f \in Facet : TallySum(u, {f}) = Sum(u[f])
<1> DEFINE w == [f \in Facet |-> Sum(u[f])]
<1>0. IsFiniteSet(Facet) /\ w \in [Facet -> Nat]
  BY InsightsAssumption DEF Sum, Tally
<1>1. PICK g : Sums(g, w, SUBSET Facet)
  BY <1>0, SumExists
<1>2. \A X \in SUBSET Facet : TallySum(u, X) = g[X]
  BY <1>1, TallyPart
<1>3. Splits(g, Facet)
  <2> HIDE DEF w
  <2> QED
    BY <1>0, <1>1, SumSplit
<1>4. \A X \in SUBSET Facet : g[X] \in Nat
  BY <1>1 DEF Sums
<1>5. ASSUME NEW f \in Facet PROVE g[{f}] = Sum(u[f])
  <2>1. Pick({f}) = f /\ {f} \ {f} = {} /\ {f} # {}
    BY DEF Pick
  <2>2. {f} \in SUBSET Facet /\ {} \in SUBSET Facet
    OBVIOUS
  <2>3. g[{}] = 0 /\ g[{f}] = w[f] + g[{}]
    BY <1>1, <2>1, <2>2 DEF Sums, AddsUp
  <2>4. w[f] = Sum(u[f]) /\ w[f] \in Nat
    BY <1>0
  <2> QED
    BY <2>3, <2>4
<1> QED
  BY <1>2, <1>3, <1>4, <1>5 DEF Splits

\* A bulletin adds up.
Adds(b) == EntrySum(b.facets) + b.otherCount = b.windowRequests

\* n is the sum of the tallies u.
Totals(n, u) == n = TallySum(u, Facet)

\* The enclave's total is the sum of its tallies.
TotalIsTally == Totals(total, counts)

\* What assemble publishes and what it hides are all that was counted.
LEMMA BuildAdds ==
  ASSUME TypeOK, TotalIsTally
  PROVE  Adds(Build)
<1> DEFINE E == {<<f, counts[f]>> : f \in Listed}
           Hidden == Suppressed \cup {"other"}
           Rest == Facet \ (Listed \cup Hidden)
           L == Listed
<1>1. counts \in [Facet -> Tally]
  BY DEF TypeOK
<1>2. Build.facets = E /\ Build.otherCount = TallySum(counts, Hidden) /\ Build.windowRequests = total
  BY DEF Build, OtherCount, TallySum
<1>3. /\ L \in SUBSET Facet /\ Hidden \in SUBSET Facet /\ Rest \in SUBSET Facet
      /\ L \cap Hidden = {} /\ (L \cup Hidden) \cap Rest = {} /\ (L \cup Hidden) \cup Rest = Facet
      /\ L \cup Hidden \in SUBSET Facet
  BY DEF Listed, Suppressed, Facet
<1>4. \A f \in Rest : Sum(counts[f]) = 0
  <2> SUFFICES ASSUME NEW f \in Rest PROVE Sum(counts[f]) = 0
    OBVIOUS
  <2>1. f \in Facet /\ f # "other" /\ f \notin Listed /\ f \notin Suppressed
    OBVIOUS
  <2>2. ~(Sum(counts[f]) > 0)
    BY <2>1 DEF Suppressed
  <2>3. Sum(counts[f]) \in Nat
    BY <1>1, <2>1 DEF Sum, Tally
  <2> QED
    BY <2>2, <2>3
<1>5. EntrySum(E) = TallySum(counts, L)
  <2> DEFINE w == [f \in L |-> Sum(counts[f])]
             v == [e \in E |-> Sum(e[2])]
             phi == [f \in L |-> <<f, counts[f]>>]
  <2>1. IsFiniteSet(L) /\ w \in [L -> Nat]
    BY <1>1, <1>3, FS_Subset, InsightsAssumption DEF Sum, Tally
  <2>2. E \in SUBSET (Facet \X Tally)
    BY <1>1, <1>3
  <2>3. phi \in Surjection(L, E)
    BY DEF Surjection
  <2>4. IsFiniteSet(E)
    BY <2>1, <2>3, FS_Surjection
  <2>5. v \in [E -> Nat]
    BY <2>2 DEF Sum, Tally
  <2>6. Renames(phi, L, w, E, v) /\ Image(phi, L) = E
    BY DEF Renames, Image
  <2>7. PICK g : Sums(g, w, SUBSET L) /\ TallySum(counts, L) = g[L]
    BY <1>1, <1>3, TallySumIs
  <2>8. PICK h : Sums(h, v, SUBSET E) /\ EntrySum(E) = h[E]
    BY <2>2, <2>4, EntrySumIs
  <2> HIDE DEF w, v, phi, E, L
  <2>9. SameSum(g, L, h, Image(phi, L))
    BY <2>1, <2>4, <2>5, <2>6, <2>7, <2>8, SumRenamed
  <2> QED
    BY <2>6, <2>7, <2>8, <2>9 DEF SameSum
<1> HIDE DEF E, L, Hidden, Rest
<1> DEFINE S(X) == TallySum(counts, X)
<1>6. S(L \cup Hidden) = S(L) + S(Hidden) /\ S((L \cup Hidden) \cup Rest) = S(L \cup Hidden) + S(Rest)
        /\ S(L) \in Nat /\ S(Hidden) \in Nat
  BY <1>1, <1>3, TallyParts
<1>7. S(Rest) = 0
  BY <1>1, <1>3, <1>4, ZeroTally
<1>8. total = S((L \cup Hidden) \cup Rest)
  BY <1>3 DEF TotalIsTally, Totals
<1> QED
  BY <1>2, <1>5, <1>6, <1>7, <1>8 DEF Adds

\* One request more is one more in the sum of the tallies.
LEMMA RecordAdds ==
  ASSUME InsightsInv, InsightsInv', TotalIsTally, NEW x \in Prompts, Record(x)
  PROVE  TotalIsTally'
<1> DEFINE f == classify(x)
           R == Facet \ {f}
<1>1. counts \in [Facet -> Tally] /\ counts' \in [Facet -> Tally] /\ x \in Prompt
  BY InsightsAssumption DEF InsightsInv, TypeOK
<1>2. f \in Facet
  BY <1>1, ClassifyType DEF Prompt, Facet
<1>3. /\ total' = total + 1
      /\ counts' = [counts EXCEPT ![f] = Counted(counts[f], x.decision)]
  BY DEF Record
<1> HIDE DEF f
<1>4. Sum(counts'[f]) = Sum(counts[f]) + 1 /\ Sum(counts[f]) \in Nat
  <2> DEFINE t == counts[f]
  <2>1. t \in Tally /\ counts'[f] = Counted(t, x.decision)
    BY <1>1, <1>2, <1>3
  <2> HIDE DEF t
  <2>2. Sum(Counted(t, x.decision)) = Sum(t) + 1 /\ Sum(t) \in Nat
    BY <2>1 DEF Counted, Sum, Tally
  <2> QED
    BY <2>1, <2>2 DEF t
<1>5. R \in SUBSET Facet /\ {f} \in SUBSET Facet /\ R \cap {f} = {} /\ R \cup {f} = Facet
        /\ \A g \in R : counts[g] = counts'[g]
  BY <1>1, <1>2, <1>3
<1> HIDE DEF R
<1>6. TallySum(counts, R) = TallySum(counts', R)
  BY <1>1, <1>5, SameTally
<1>7. /\ TallySum(counts, R \cup {f}) = TallySum(counts, R) + TallySum(counts, {f})
      /\ TallySum(counts, {f}) = Sum(counts[f]) /\ TallySum(counts, R) \in Nat
  BY <1>1, <1>2, <1>5, TallyParts
<1>8. /\ TallySum(counts', R \cup {f}) = TallySum(counts', R) + TallySum(counts', {f})
      /\ TallySum(counts', {f}) = Sum(counts'[f])
  BY <1>1, <1>2, <1>5, TallyParts
<1>9. total = TallySum(counts, Facet)
  BY DEF TotalIsTally, Totals
<1>10. Totals(total', counts')
  BY <1>3, <1>4, <1>5, <1>6, <1>7, <1>8, <1>9 DEF Totals
<1> QED
  BY <1>10 DEF TotalIsTally

\* A boot starts with nothing counted.
LEMMA FreshAdds ==
  ASSUME NEW u, u = [f \in Facet |-> Zero]
  PROVE  TallySum(u, Facet) = 0
<1>1. u \in [Facet -> Tally] /\ \A f \in Facet : Sum(u[f]) = 0
  BY DEF Zero, Tally, Sum
<1> QED
  BY <1>1, ZeroTally

\* The inductive invariant: the total is the sum of the tallies, and every bulletin that is
\* out adds up.
AddsInv == TotalIsTally /\ \A b \in Bulletins : Adds(b)

\* It holds at boot.
LEMMA AddsInit == Init => AddsInv
<1> SUFFICES ASSUME Init PROVE AddsInv
  OBVIOUS
<1>1. Bulletins = {}
  BY DEF Init, Bulletins, Empty
<1>2. total = 0 /\ counts = [f \in Facet |-> Zero]
  BY DEF Init
<1> QED
  BY <1>1, <1>2, FreshAdds DEF AddsInv, TotalIsTally, Totals

\* Every step keeps it: record adds one to both sides, a restart empties them, and a poll copies
\* a bulletin or builds one.
LEMMA AddsStep == InsightsInv /\ InsightsInv' /\ AddsInv /\ [Next]_vars => AddsInv'
<1> SUFFICES ASSUME InsightsInv, InsightsInv', AddsInv, [Next]_vars PROVE AddsInv'
  OBVIOUS
<1>0. TotalIsTally /\ (\A b \in Bulletins : Adds(b)) /\ TypeOK
  BY DEF AddsInv, InsightsInv
<1>1. ASSUME NEW x \in Prompts, Record(x) PROVE AddsInv'
  <2>1. TotalIsTally'
    BY <1>0, <1>1, RecordAdds
  <2>2. Bulletins' = Bulletins
    BY <1>1 DEF Record, Bulletins
  <2> QED
    BY <1>0, <2>1, <2>2 DEF AddsInv, Adds
<1>2. CASE Restart
  <2>1. total' = 0 /\ counts' = [f \in Facet |-> Zero] /\ UNCHANGED <<cache, poll, shown>>
    BY <1>2 DEF Restart
  <2>2. Bulletins' = Bulletins
    BY <2>1 DEF Bulletins
  <2>3. TallySum(counts', Facet) = 0
    BY <2>1, FreshAdds
  <2>4. Totals(total', counts')
    BY <2>1, <2>3 DEF Totals
  <2>5. TotalIsTally'
    BY <2>4 DEF TotalIsTally
  <2> QED
    BY <1>0, <2>2, <2>5 DEF AddsInv, Adds
<1>3. ASSUME Copies PROVE AddsInv'
  <2>1. UNCHANGED <<boot, counts, total, requests>> /\ Bulletins' \subseteq Bulletins \cup {Build}
    BY <1>3 DEF Copies, enclave
  <2>2. Adds(Build)
    BY <1>0, BuildAdds
  <2>3. \A b \in Bulletins' : Adds(b)
    BY <1>0, <2>1, <2>2
  <2>4. TotalIsTally'
    BY <1>0, <2>1 DEF TotalIsTally
  <2> QED
    BY <2>3, <2>4 DEF AddsInv, Adds
<1>4. ASSUME NEW p \in Polls, Ask(p) \/ Answer(p) \/ Relay(p) \/ RelayCached(p) \/ Show(p)
      PROVE  AddsInv'
  BY <1>3, <1>4, PollsCopy
<1>5. CASE FetchKey
  BY <1>3, <1>5, FetchKeyCopies
<1>6. CASE UNCHANGED vars
  BY <1>3, <1>6, StutterCopies
<1> QED
  BY <1>1, <1>2, <1>4, <1>5, <1>6 DEF Next

\* "The sum over facets + otherCount == windowRequests": no request is lost or counted twice
\* between the tallies and a bulletin, whatever the threshold (assemble).
THEOREM BulletinsAddUp == Spec => []BulletinAddsUp
<1>1. AddsInv => BulletinAddsUp
  BY DEF AddsInv, BulletinAddsUp, Adds, EntrySum
<1>2. InsightsInv /\ AddsInv /\ [Next]_vars => (InsightsInv /\ AddsInv)'
  BY NextKeeps, AddsStep
<1>3. Init => InsightsInv /\ AddsInv
  BY InitInv, AddsInit
<1>4. Spec => [](InsightsInv /\ AddsInv)
  BY <1>2, <1>3, PTL DEF Spec
<1> QED
  BY <1>1, <1>4, PTL
================================================================================
