------------------------------- MODULE Insights -------------------------------
(***************************************************************************)
(* Usage insights: the enclave's classifier and accumulator                *)
(* (services/tee-sim/src/insights), the signed bulletin of GET /insights,  *)
(* the coordinator's relay with its cache, and the page that polls it and  *)
(* checks the signature (app/insights/page.tsx).                           *)
(*                                                                         *)
(* The counters live in the enclave's memory: a restart starts from zero   *)
(* under a new signing key, while the relay and the page may still hold    *)
(* bulletins of the old boot.  The page polls by interval and waits for no *)
(* answer, so two of its polls may overlap and arrive in either order, and *)
(* the key it verifies with is polled on its own.                          *)
(*                                                                         *)
(* A signature is the boot whose key made it.  A prompt is what the        *)
(* classifier sees of it: the scores of the policy's categories for a      *)
(* refusal, the number of keywords it contains per benign facet else.      *)
(***************************************************************************)
EXTENDS Integers, FiniteSets, FiniteSetsExt, Functions

CONSTANTS
  SafetyFacets, BenignFacets,   \* the closed enumeration, "other" aside
  Category,      \* CATEGORY_ORDER: the categories, by their place in it
  CATEGORY_FACET,
  FacetOrder,    \* the order of BENIGN_KEYWORDS
  Prompts,       \* [decision, score, threshold, hits]: what the gate leaves to the classifier
  MaxScore,      \* the total weight of the rules
  MaxHits,       \* the length of the longest list of keywords
  kMin,          \* INSIGHTS_K_MIN
  Polls,         \* polls of the page that may overlap
  MaxRequests,   \* bound of the model: requests classified
  MaxBoots       \* bound of the model: boots of the enclave

Facet == SafetyFacets \cup BenignFacets \cup {"other"}

Prompt == [decision : {"ALLOW", "DENY"}, score : [Category -> 0..MaxScore],
           threshold : [Category -> Int], hits : [BenignFacets -> 0..MaxHits]]

ASSUME InsightsAssumption ==
  /\ SafetyFacets \cap BenignFacets = {} /\ "other" \notin SafetyFacets \cup BenignFacets
  /\ IsFiniteSet(Facet)
  /\ Category \subseteq Nat
  /\ CATEGORY_FACET \in [Category -> SafetyFacets]
  /\ FacetOrder \in [BenignFacets -> Nat]
  /\ MaxScore \in Nat /\ MaxHits \in Nat /\ Prompts \subseteq Prompt
  /\ kMin \in Int /\ MaxRequests \in Nat /\ MaxBoots \in Nat \ {0}

VARIABLES
  boot,      \* the enclave: which boot, and so which signing key
  counts,    \* the enclave: allowed and denied requests by facet
  total,     \* the enclave: requests classified since boot
  requests,  \* requests so far, of all boots
  cache,     \* the coordinator: lastInsightsBulletin
  poll,      \* the page's polls: idle, asked, or with a bulletin on its way
  shown,     \* the page: the bulletin, if any
  key        \* the page: the boot of the attestation it holds, 0 for none

enclave == <<boot, counts, total, requests>>
vars == <<boot, counts, total, requests, cache, poll, shown, key>>

Tally == [allow : Nat, deny : Nat]
Zero == [allow |-> 0, deny |-> 0]
Sum(t) == t.allow + t.deny

\* A place for a bulletin: empty, asked for, or holding one.
Place(state, b) == [state |-> state, bulletin |-> b]
Empty == [state |-> "none", bulletin |-> {}]

Init ==
  /\ boot = 1
  /\ counts = [f \in Facet |-> Zero]
  /\ total = 0
  /\ requests = 0
  /\ cache = {}
  /\ poll = [p \in Polls |-> Empty]
  /\ shown = {}
  /\ key = 0
--------------------------------------------------------------------------------
(* The classifier *)

\* The category over its threshold with the highest score, the earlier one of two equals.
safetyFacet(score, threshold) ==
  LET over == {c \in Category : score[c] >= threshold[c]}
  IN  IF over = {} THEN "other"
      ELSE CATEGORY_FACET[CHOOSE c \in over : \A d \in over :
             score[d] < score[c] \/ (score[d] = score[c] /\ c <= d)]

\* The facet with the most keywords in the prompt, the earlier one of two equals.
benignFacet(hits) ==
  LET hit == {f \in BenignFacets : hits[f] > 0}
  IN  IF hit = {} THEN "other"
      ELSE CHOOSE f \in hit : \A g \in hit :
             hits[g] < hits[f] \/ (hits[g] = hits[f] /\ FacetOrder[f] <= FacetOrder[g])

classify(x) ==
  IF x.decision = "DENY" THEN safetyFacet(x.score, x.threshold) ELSE benignFacet(x.hits)

Counted(tally, decision) ==
  IF decision = "ALLOW" THEN [tally EXCEPT !.allow = @ + 1] ELSE [tally EXCEPT !.deny = @ + 1]

\* BulletinAccumulator.record, at the end of the gate.
Record(x) ==
  /\ requests < MaxRequests
  /\ requests' = requests + 1
  /\ counts' = [counts EXCEPT ![classify(x)] = Counted(@, x.decision)]
  /\ total' = total + 1
  /\ UNCHANGED <<boot, cache, poll, shown, key>>

\* A restart forgets the counters and makes new keys; calls in progress fail.
Restart ==
  /\ boot < MaxBoots
  /\ boot' = boot + 1
  /\ counts' = [f \in Facet |-> Zero]
  /\ total' = 0
  /\ UNCHANGED <<requests, cache, poll, shown, key>>
--------------------------------------------------------------------------------
(* The bulletin *)

\* Bug: the threshold is taken for the last count that is suppressed.
ListedAbove == {f \in Facet \ {"other"} : Sum(counts[f]) >= kMin - 1 /\ Sum(counts[f]) > 0}

\* The facets that reach the threshold, "other" never.
Listed == {f \in Facet \ {"other"} : Sum(counts[f]) >= kMin /\ Sum(counts[f]) > 0}

\* The facets that were met and do not.
Suppressed == {f \in Facet \ {"other"} : Sum(counts[f]) > 0} \ Listed

\* Bug: what is suppressed is counted as a facet and its requests are dropped.
OtherCountDropping == Sum(counts["other"])

OtherCount == FoldFunctionOnSet(LAMBDA t, n : Sum(t) + n, 0, counts, Suppressed \cup {"other"})

\* buildBulletin: assembled and signed in one stroke.  facets[] is the set of its entries, which
\* are signed in sorted order.
Build ==
  [by |-> boot, windowRequests |-> total,
   facets |-> {<<f, counts[f]>> : f \in Listed},
   suppressedFacets |-> Cardinality(Suppressed), otherCount |-> OtherCount]
--------------------------------------------------------------------------------
(* The relay and the page *)

\* The page's interval fires, and the coordinator asks the enclave.
Ask(p) ==
  /\ poll[p].state = "none"
  /\ poll' = [poll EXCEPT ![p].state = "asked"]
  /\ UNCHANGED <<enclave, cache, shown, key>>

\* The enclave answers.
Answer(p) ==
  /\ poll[p].state = "asked"
  /\ poll' = [poll EXCEPT ![p] = Place("built", {Build})]
  /\ UNCHANGED <<enclave, cache, shown, key>>

\* The coordinator caches the answer and passes it on.
Relay(p) ==
  /\ poll[p].state = "built"
  /\ cache' = poll[p].bulletin
  /\ poll' = [poll EXCEPT ![p].state = "relayed"]
  /\ UNCHANGED <<enclave, shown, key>>

\* The enclave does not answer, or its answer is lost: what the cache holds is passed on.
RelayCached(p) ==
  /\ poll[p].state \in {"asked", "built"}
  /\ poll' = [poll EXCEPT ![p] = Place("relayed", cache)]
  /\ UNCHANGED <<enclave, cache, shown, key>>

\* Bug: an answer is shown only if it counts more than the one on the page.
ShowNewer(p) ==
  /\ poll[p].state = "relayed"
  /\ shown' = IF \A b \in poll[p].bulletin, c \in shown : b.windowRequests > c.windowRequests
              THEN poll[p].bulletin \cup {c \in shown : poll[p].bulletin = {}} ELSE shown
  /\ poll' = [poll EXCEPT ![p] = Empty]
  /\ UNCHANGED <<enclave, cache, key>>

\* usePolled: an answer is shown whenever it arrives; a 503 leaves the page as it is.
Show(p) ==
  /\ poll[p].state = "relayed"
  /\ shown' = IF poll[p].bulletin = {} THEN shown ELSE poll[p].bulletin
  /\ poll' = [poll EXCEPT ![p] = Empty]
  /\ UNCHANGED <<enclave, cache, key>>

\* The page's own poll of the attestation.
FetchKey ==
  /\ key # boot
  /\ key' = boot
  /\ UNCHANGED <<enclave, cache, poll, shown>>

\* signatureOk: the bulletin on the page verifies under the key the page holds; while either is
\* missing there is no verdict.
signatureOk ==
  IF shown = {} \/ key = 0 THEN "pending"
  ELSE IF \A b \in shown : b.by = key THEN "verified" ELSE "invalid"
--------------------------------------------------------------------------------
Next ==
  \/ \E x \in Prompts : Record(x)
  \/ Restart
  \/ \E p \in Polls : Ask(p) \/ Answer(p) \/ Relay(p) \/ RelayCached(p) \/ Show(p)
  \/ FetchKey

Spec == Init /\ [][Next]_vars

\* The intervals fire and answers arrive; the enclave may fail to answer any number of times,
\* but not for ever.
Fairness ==
  /\ \A p \in Polls : /\ WF_vars(Ask(p)) /\ WF_vars(Show(p))
                      /\ SF_vars(Answer(p)) /\ SF_vars(Relay(p))
  /\ WF_vars(FetchKey)

FairSpec == Spec /\ Fairness
--------------------------------------------------------------------------------
Bulletins == cache \cup shown \cup UNION {poll[p].bulletin : p \in Polls}

TypeOK ==
  /\ boot \in 1..MaxBoots
  /\ counts \in [Facet -> Tally]
  /\ total \in Nat
  /\ requests \in 0..MaxRequests
  /\ poll = [p \in Polls |-> Place(poll[p].state, poll[p].bulletin)]
  /\ \A p \in Polls : poll[p].state \in {"none", "asked", "built", "relayed"}
  /\ key \in 0..MaxBoots
  /\ \A b \in Bulletins : /\ b.by \in 1..MaxBoots
                          /\ b.windowRequests \in Nat
                          /\ b.facets \subseteq Facet \X Tally
                          /\ b.suppressedFacets \in Nat

\* What a bulletin may say once it has left the enclave.
Honest(b) ==
  /\ b.by <= boot
  /\ b.by = boot => b.windowRequests <= total
  /\ \A e \in b.facets :
       /\ e[1] # "other" /\ Sum(e[2]) >= kMin
       /\ e[1] \in SafetyFacets => e[2].allow = 0
       /\ e[1] \in BenignFacets => e[2].deny = 0
       /\ b.by = boot => /\ e[2].allow <= counts[e[1]].allow
                        /\ e[2].deny <= counts[e[1]].deny

\* Every bulletin that has left the enclave lists only facets with at least kMin requests and
\* never "other"; a safety facet counts refusals only and a benign one none; and a boot's
\* bulletin never counts more than that boot has classified: also after restarts, overlapping
\* polls and answers from the cache (assemble, classify, GET /v1/insights).
BulletinIsHonest == \A b \in Bulletins : Honest(b)

\* "This keeps the invariant: the sum over facets + otherCount == windowRequests": no request is
\* lost or counted twice between the tallies and the bulletin (assemble of bulletin.ts).
BulletinAddsUp ==
  \A b \in Bulletins :
    MapThenSumSet(LAMBDA e : Sum(e[2]), b.facets) + b.otherCount = b.windowRequests

\* Once requests and restarts come to rest the page shows the enclave's present bulletin under a
\* signature that verifies, and goes back to no older one (usePolled, lastInsightsBulletin).
PageCatchesUp ==
  <>[](shown = {Build} /\ signatureOk = "verified")
================================================================================
