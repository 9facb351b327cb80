------------------------- MODULE ContributionProofs -------------------------
(***************************************************************************)
(* Proofs about Contribution for every catalog and every number of         *)
(* envelopes, contributors, deliveries and boots: types, that keys are     *)
(* sealed to an enclave's ingress key only, that an authorized candidate   *)
(* is what a browser sealed, and that a contribution shown as live is.     *)
(***************************************************************************)
EXTENDS Contribution, SequenceTheorems, FiniteSetTheorems, WellFoundedInduction, TLAPS

Call == [env : 0 .. MaxEnvelopes, id : 0 .. MaxEnvelopes, contributor : 0 .. MaxContributors,
         phase : Phase, alive : BOOLEAN, minted : SUBSET Signature]

\* Where a handler has not been answered by the enclave.
Unanswered == {"posted", "ingest", "opened"}

\* The row that stores a signed capability as it is.
RowOf(s) == [contributor |-> s.over.contributor, blob |-> s.over.blob,
             capability |-> s.over, signature |-> s]

Stored(s) ==
    /\ s \in signed
    /\ s.over.id \in DOMAIN credentials
    /\ credentials[s.over.id] = RowOf(s)

Shapes ==
    /\ calls \in Seq(Call) /\ Len(calls) <= MaxCalls
    /\ sealed \in Seq(Intent) /\ Len(sealed) <= MaxEnvelopes
    /\ contributors \in 0 .. MaxContributors
    /\ enclave \in [boot : 1 .. MaxBoots, up : BOOLEAN,
                    consumed : SUBSET (1 .. MaxEnvelopes), health : {0, 1, 2}]
    /\ guest \in {1, 2}
    /\ signed \in SUBSET Signature /\ IsFiniteSet(signed)

PageShape ==
    page \in [step : {"capability", "attest", "key", "done"}, bundle : SUBSET Bundle,
              busy : {"no", "attestation", "sealing", "posting"},
              owner : 0 .. MaxContributors, chosen : SUBSET Models, call : 0 .. MaxCalls,
              created : SUBSET Signature]

\* What the page holds is verified, and what it shows as created is stored.
PageInv ==
    /\ PageShape
    /\ Cardinality(page.bundle) <= 1
    /\ page.busy = "sealing" => page.owner \in 1 .. contributors
    /\ page.call \in 0 .. Len(calls)
    /\ \A s \in page.created : Stored(s)

\* A signed capability repeats the intent sealed under its id, for the boot that signed.
FromSeal(s) ==
    /\ s.over.id \in 1 .. Len(sealed)
    /\ s.over.models = sealed[s.over.id].models
    /\ s.over.contributor = sealed[s.over.id].contributor
    /\ s.over.blob.secret = s.over.id
    /\ sealed[s.over.id].key = s.by

\* A handler past the enclave's checks is about an intent for the boot it runs in, and
\* what it was answered is signed, under its id.
CallInv(c) ==
    /\ calls[c].phase \in Unanswered => calls[c].env \in 1 .. Len(sealed)
    /\ calls[c].phase = "opened" =>
         calls[c].env = calls[c].id /\ sealed[calls[c].env].key = enclave.boot
    /\ calls[c].phase = "minted" =>
         \E s \in signed : calls[c].minted = {s} /\ s.over.id = calls[c].id
    /\ calls[c].phase = "stored" => \E s \in signed : calls[c].minted = {s} /\ Stored(s)
    /\ calls[c].phase \notin {"minted", "stored"} => calls[c].minted = {}

Answered == {c \in 1 .. Len(calls) : calls[c].phase \notin Unanswered}

\* The inductive invariant.
ContributionInv ==
    /\ Shapes
    /\ PageInv
    /\ \A s \in signed : FromSeal(s)
    /\ \A c \in 1 .. Len(calls) : CallInv(c)
    /\ \A i \in DOMAIN credentials : i \in 1 .. Len(sealed) /\ credentials[i] \in Row
    /\ Cardinality(signed) <= Cardinality(Answered)
    /\ enclave.consumed \subseteq {s.over.id : s \in signed}
-----------------------------------------------------------------------------
\* A step of the page alone has only the page to answer for.
LEMMA PageStep ==
    ASSUME ContributionInv, PageOnly,
           PageShape', Cardinality(page'.bundle) <= 1,
           page'.busy = "sealing" => page'.owner \in 1 .. contributors,
           page'.call \in 0 .. Len(calls),
           \A s \in page'.created : Stored(s)
    PROVE  ContributionInv'
<1>1. UNCHANGED <<calls, contributors, credentials, enclave, guest, sealed, signed>>
  BY DEF PageOnly
<1>2. Shapes'
  BY <1>1 DEF ContributionInv, Shapes
<1>3. PageInv'
  BY <1>1 DEF PageInv, Stored
<1>4. (\A s \in signed : FromSeal(s))' /\ (\A c \in 1 .. Len(calls) : CallInv(c))'
  BY <1>1 DEF ContributionInv, FromSeal, CallInv, Stored
<1>5. (Cardinality(signed) <= Cardinality(Answered))'
  BY <1>1 DEF ContributionInv, Answered
<1> QED
  BY <1>1, <1>2, <1>3, <1>4, <1>5 DEF ContributionInv

PageAction ==
    \/ Continue \/ verifyEnclave \/ AttestationArrives \/ AttestationFails
    \/ PageAnswered \/ AnswerLost \/ ContributeAnother

\* The page's own steps.
LEMMA PageKeeps == ContributionInv /\ PageAction => ContributionInv'
<1> SUFFICES ASSUME ContributionInv, PageAction PROVE ContributionInv'
  OBVIOUS
<1> USE DEF PageShape
<1>1. PageInv /\ PageShape
  BY DEF ContributionInv, PageInv
<1>2. CASE Continue
  BY <1>1, <1>2, PageStep DEF Continue, PageInv
<1>3. CASE verifyEnclave
  BY <1>1, <1>3, PageStep DEF verifyEnclave, PageInv
<1>4. CASE AttestationArrives
  <2>1. PICK b \in Bundle : page' = [page EXCEPT !.busy = "no", !.step = "key", !.bundle = {b}]
    BY <1>4 DEF AttestationArrives, Verified
  <2>2. Cardinality({b}) <= 1 /\ {b} \in SUBSET Bundle
    BY FS_Singleton
  <2> QED
    BY <1>1, <1>4, <2>1, <2>2, PageStep DEF AttestationArrives, PageInv
<1>5. CASE AttestationFails
  BY <1>1, <1>5, PageStep DEF AttestationFails, PageInv
<1>6. CASE PageAnswered
  <2> DEFINE c == page.call
  <2>1. c \in 1 .. Len(calls) /\ CallInv(c) /\ calls[c] \in Call /\ PageOnly
    <3>1. c \in 1 .. Len(calls)
      BY <1>1, <1>6, LenProperties DEF PageAnswered, PageInv, ContributionInv, Shapes
    <3> QED
      BY <1>6, <3>1, ElementOfSeq DEF PageAnswered, ContributionInv, Shapes
  <2>2. CASE calls[c].phase = "stored"
    <3>1. page' = [page EXCEPT !.step = "done", !.busy = "no", !.call = 0, !.created = calls[c].minted]
      BY <1>6, <2>2 DEF PageAnswered
    <3>2. calls[c].minted \in SUBSET Signature /\ \A s \in calls[c].minted : Stored(s)
      BY <2>1, <2>2 DEF CallInv, Call
    <3>3. 0 \in 0 .. Len(calls) /\ 0 \in 0 .. MaxCalls
      BY ContributionAssumption, LenProperties DEF ContributionInv, Shapes
    <3> QED
      BY <1>1, <2>1, <3>1, <3>2, <3>3, PageStep DEF PageInv
  <2>3. CASE calls[c].phase # "stored"
    <3>1. page' = [page EXCEPT !.busy = "no", !.call = 0]
      BY <1>6, <2>3 DEF PageAnswered
    <3>2. 0 \in 0 .. Len(calls) /\ 0 \in 0 .. MaxCalls
      BY ContributionAssumption, LenProperties DEF ContributionInv, Shapes
    <3> QED
      BY <1>1, <2>1, <3>1, <3>2, PageStep DEF PageInv
  <2> QED
    BY <2>2, <2>3
<1>7. CASE AnswerLost
  <2>1. 0 \in 0 .. Len(calls) /\ 0 \in 0 .. MaxCalls
    BY ContributionAssumption, LenProperties DEF ContributionInv, Shapes
  <2> QED
    BY <1>1, <1>7, <2>1, PageStep DEF AnswerLost, PageInv
<1>8. CASE ContributeAnother
  <2>1. Cardinality({}) <= 1
    BY FS_EmptySet
  <2> QED
    BY <1>1, <1>8, <2>1, PageStep DEF ContributeAnother, PageInv
<1> QED
  BY <1>2, <1>3, <1>4, <1>5, <1>6, <1>7, <1>8 DEF PageAction
-----------------------------------------------------------------------------
\* Submitting may add a contributor, and the owner named is one there is.
LEMMA SubmitKeeps == ContributionInv /\ Submit => ContributionInv'
<1> SUFFICES ASSUME ContributionInv, Submit PROVE ContributionInv'
  OBVIOUS
<1>1. UNCHANGED <<calls, credentials, enclave, guest, sealed, signed>>
  BY DEF Submit
<1>2. PageInv /\ PageShape /\ contributors \in 0 .. MaxContributors
  BY DEF ContributionInv, PageInv, Shapes
<1>3. PICK models \in Selections :
        \/ /\ UNCHANGED contributors
           /\ \E who \in 1 .. contributors :
                page' = [page EXCEPT !.busy = "sealing", !.owner = who, !.chosen = models]
        \/ /\ contributors < MaxContributors /\ contributors' = contributors + 1
           /\ \/ page' = page
              \/ page' = [page EXCEPT !.busy = "sealing", !.owner = contributors', !.chosen = models]
  BY DEF Submit
<1>4. models \in SUBSET Models
  BY ContributionAssumption
<1>5. contributors' \in 0 .. MaxContributors /\ contributors <= contributors'
  <2>1. contributors' = contributors
        \/ (contributors < MaxContributors /\ contributors' = contributors + 1)
    BY <1>3
  <2> QED
    BY ONLY <1>2, <2>1, ContributionAssumption
<1>6. \/ page' = page
      \/ \E who \in 1 .. contributors' :
           page' = [page EXCEPT !.busy = "sealing", !.owner = who, !.chosen = models]
  <2>1. contributors' = contributors + 1 => contributors' \in 1 .. contributors'
    BY <1>2
  <2> QED
    BY <1>3, <2>1
<1>7. PageInv'
  <2>1. CASE page' = page
    <3>1. page.busy = "sealing" => page.owner \in 1 .. contributors'
      BY <1>2, <1>5 DEF PageInv
    <3> QED
      BY <1>1, <1>2, <2>1, <3>1 DEF PageInv, PageShape, Stored
  <2>2. ASSUME NEW who \in 1 .. contributors',
               page' = [page EXCEPT !.busy = "sealing", !.owner = who, !.chosen = models]
        PROVE  PageInv'
    <3>1. who \in 0 .. MaxContributors
      BY ONLY <1>5, <2>2, ContributionAssumption
    <3>2. PageShape'
      BY <1>2, <1>4, <2>2, <3>1 DEF PageShape
    <3>3. /\ page'.bundle = page.bundle /\ page'.call = page.call /\ page'.created = page.created
          /\ page'.owner = who
      BY <1>2, <2>2 DEF PageShape
    <3> QED
      BY <1>1, <1>2, <3>2, <3>3 DEF PageInv, Stored
  <2> QED
    BY <1>6, <2>1, <2>2
<1>8. Shapes'
  BY <1>1, <1>5 DEF ContributionInv, Shapes
<1>9. (\A s \in signed : FromSeal(s))' /\ (\A c \in 1 .. Len(calls) : CallInv(c))'
  BY <1>1 DEF ContributionInv, FromSeal, CallInv, Stored
<1>10. (Cardinality(signed) <= Cardinality(Answered))'
  BY <1>1 DEF ContributionInv, Answered
<1> QED
  BY <1>1, <1>7, <1>8, <1>9, <1>10 DEF ContributionInv

\* One more handler, about an intent there is, disturbs no other.
LEMMA CallAdded ==
    ASSUME ContributionInv, NEW x \in Call, x.phase = "posted", x.minted = {},
           x.env \in 1 .. Len(sealed'),
           calls' = Append(calls, x), Len(calls) < MaxCalls,
           sealed' \in Seq(Intent), Len(sealed') <= MaxEnvelopes, Len(sealed) <= Len(sealed'),
           \A i \in 1 .. Len(sealed) : sealed'[i] = sealed[i],
           UNCHANGED <<contributors, credentials, enclave, guest, signed>>
    PROVE  PageInv' => ContributionInv'
<1>1. /\ calls \in Seq(Call) /\ Len(calls) \in Nat
      /\ calls' \in Seq(Call) /\ Len(calls') = Len(calls) + 1
      /\ calls'[Len(calls) + 1] = x
      /\ \A c \in 1 .. Len(calls) : calls'[c] = calls[c]
  BY AppendProperties, LenProperties DEF ContributionInv, Shapes
<1>2. Len(sealed) \in Nat /\ Len(sealed') \in Nat
  BY LenProperties DEF ContributionInv, Shapes
<1>3. Shapes'
  BY <1>1, ContributionAssumption DEF ContributionInv, Shapes
<1>4. (\A s \in signed : FromSeal(s))'
  BY <1>2 DEF ContributionInv, FromSeal
<1>5. \A c \in 1 .. Len(calls') : c = Len(calls) + 1 \/ c \in 1 .. Len(calls)
  BY <1>1
<1>6. ASSUME NEW c \in 1 .. Len(calls') PROVE CallInv(c)'
  <2>1. CASE c = Len(calls) + 1
    BY <1>1, <2>1 DEF CallInv
  <2>2. CASE c \in 1 .. Len(calls)
    <3>1. CallInv(c) /\ calls'[c] = calls[c]
      BY <1>1, <2>2 DEF ContributionInv
    <3>2. \A i \in 1 .. Len(sealed) : i \in 1 .. Len(sealed')
      BY <1>2
    <3> QED
      BY <3>1, <3>2 DEF CallInv, Unanswered, Stored
  <2> QED
    BY <1>5, <2>1, <2>2
<1>7. \A i \in DOMAIN credentials' : i \in 1 .. Len(sealed') /\ credentials'[i] \in Row
  BY <1>2 DEF ContributionInv
<1>8. (Cardinality(signed) <= Cardinality(Answered))'
  <2>1. Answered' = Answered
    BY <1>1, <1>5 DEF Answered, Unanswered
  <2> QED
    BY <2>1 DEF ContributionInv
<1> QED
  BY <1>3, <1>4, <1>6, <1>7, <1>8 DEF ContributionInv

\* A handler as it arrives has its type.
LEMMA NewCallType ==
    ASSUME NEW env \in 0 .. MaxEnvelopes, NEW id \in 0 .. MaxEnvelopes,
           NEW who \in 0 .. MaxContributors
    PROVE  /\ NewCall(env, id, who) \in Call
           /\ NewCall(env, id, who).phase = "posted" /\ NewCall(env, id, who).minted = {}
           /\ NewCall(env, id, who).env = env
BY DEF NewCall, Call, Phase

\* A key is sealed to the verified bundle's ingress key, and posted.
LEMMA SealKeeps == ContributionInv /\ contributeCredential => ContributionInv'
<1> SUFFICES ASSUME ContributionInv, contributeCredential PROVE ContributionInv'
  OBVIOUS
<1>1. PageInv /\ PageShape /\ contributors \in 0 .. MaxContributors
      /\ sealed \in Seq(Intent) /\ Len(sealed) \in Nat /\ calls \in Seq(Call) /\ Len(calls) \in Nat
  BY LenProperties DEF ContributionInv, PageInv, Shapes
<1>2. page.busy = "sealing" /\ UNCHANGED <<contributors, credentials, enclave, guest, signed>>
  BY DEF contributeCredential
<1>3. PICK b \in page.bundle :
         IF verifyAttestationBundle(b, FALSE) /\ Len(sealed) < MaxEnvelopes /\ Len(calls) < MaxCalls
         THEN /\ sealed' = Append(sealed, [key |-> b.ingress, models |-> page.chosen,
                                           contributor |-> page.owner])
              /\ \E id \in DOMAIN sealed', who \in 1 .. contributors :
                   calls' = Append(calls, NewCall(Len(sealed'), id, who))
              /\ page' = [page EXCEPT !.busy = "posting", !.owner = 0, !.chosen = {},
                                      !.call = Len(calls')]
         ELSE /\ page' = [page EXCEPT !.busy = "no", !.owner = 0, !.chosen = {}]
              /\ UNCHANGED <<sealed, calls>>
  BY DEF contributeCredential
<1>4. 0 \in 0 .. MaxContributors /\ {} \in SUBSET Models
  BY ContributionAssumption
<1>5. CASE verifyAttestationBundle(b, FALSE) /\ Len(sealed) < MaxEnvelopes /\ Len(calls) < MaxCalls
  <2> DEFINE x == [key |-> b.ingress, models |-> page.chosen, contributor |-> page.owner]
  <2>1. x \in Intent
    <3>1. b \in Bundle /\ page.owner \in 1 .. contributors
          /\ page.chosen \in SUBSET Models
      BY <1>1, <1>2 DEF PageInv, PageShape
    <3>2. b.ingress \in Key
      BY <3>1 DEF Bundle
    <3>3. page.owner \in 1 .. MaxContributors
      BY <1>1, <3>1, ContributionAssumption
    <3> QED
      BY <3>1, <3>2, <3>3 DEF Intent
  <2>2. sealed' = Append(sealed, x)
    BY <1>3, <1>5
  <2> HIDE DEF x
  <2>3. /\ sealed' \in Seq(Intent) /\ Len(sealed') = Len(sealed) + 1
        /\ sealed'[Len(sealed) + 1] = x
        /\ \A i \in 1 .. Len(sealed) : sealed'[i] = sealed[i]
        /\ DOMAIN sealed' = 1 .. Len(sealed') /\ DOMAIN sealed = 1 .. Len(sealed)
    BY <1>1, <2>1, <2>2, AppendProperties, LenProperties
  <2>4. PICK id \in 1 .. Len(sealed'), who \in 1 .. contributors :
          calls' = Append(calls, NewCall(Len(sealed'), id, who))
    BY <1>3, <1>5, <2>3
  <2>5. /\ Len(sealed') \in 0 .. MaxEnvelopes /\ id \in 0 .. MaxEnvelopes
        /\ who \in 0 .. MaxContributors
    BY <1>1, <1>5, <2>3, ContributionAssumption
  <2> DEFINE call == NewCall(Len(sealed'), id, who)
  <2>6. call \in Call /\ call.phase = "posted" /\ call.minted = {} /\ call.env = Len(sealed')
    BY <2>5, NewCallType
  <2> HIDE DEF call
  <2>7. Len(calls') = Len(calls) + 1
    BY <1>1, <2>4, <2>6, AppendProperties DEF call
  <2>9. PageInv'
    <3>1. Len(calls') \in 0 .. MaxCalls
      BY <1>1, <1>5, <2>7, ContributionAssumption
    <3>2. page' = [page EXCEPT !.busy = "posting", !.owner = 0, !.chosen = {}, !.call = Len(calls')]
      BY <1>3, <1>5
    <3>3. PageShape'
      BY <1>1, <1>4, <3>1, <3>2 DEF PageShape
    <3>4. /\ page'.bundle = page.bundle /\ page'.created = page.created
          /\ page'.busy = "posting" /\ page'.call = Len(calls')
      BY <1>1, <3>2 DEF PageShape
    <3> QED
      BY <1>1, <1>2, <2>7, <3>3, <3>4 DEF PageInv, Stored
  <2>10. Len(sealed') \in 1 .. Len(sealed') /\ Len(sealed) <= Len(sealed') /\ Len(sealed') <= MaxEnvelopes
    BY <1>1, <1>5, <2>3, ContributionAssumption
  <2>11. calls' = Append(calls, call)
    BY <2>4 DEF call
  <2> QED
    BY <1>2, <1>5, <2>3, <2>6, <2>9, <2>10, <2>11, CallAdded
<1>6. CASE ~(verifyAttestationBundle(b, FALSE) /\ Len(sealed) < MaxEnvelopes /\ Len(calls) < MaxCalls)
  <2>1. page' = [page EXCEPT !.busy = "no", !.owner = 0, !.chosen = {}] /\ UNCHANGED <<sealed, calls>>
    BY <1>3, <1>6
  <2> QED
    BY <1>1, <1>2, <1>4, <2>1, PageStep DEF PageInv, PageShape, PageOnly
<1> QED
  BY <1>5, <1>6

\* A repeated delivery is one more handler about an old intent.
LEMMA RepeatKeeps == ContributionInv /\ Repeat => ContributionInv'
<1> SUFFICES ASSUME ContributionInv, Repeat PROVE ContributionInv'
  OBVIOUS
<1>1. /\ sealed \in Seq(Intent) /\ Len(sealed) \in Nat /\ DOMAIN sealed = 1 .. Len(sealed)
      /\ Len(sealed) <= MaxEnvelopes /\ contributors \in 0 .. MaxContributors
      /\ calls \in Seq(Call) /\ Len(calls) \in Nat
  BY LenProperties DEF ContributionInv, Shapes
<1>2. PICK e \in 1 .. Len(sealed), who \in 1 .. contributors :
        calls' = Append(calls, NewCall(e, e, who))
  BY <1>1 DEF Repeat
<1>3. e \in 0 .. MaxEnvelopes /\ who \in 0 .. MaxContributors
  BY <1>1, <1>2, ContributionAssumption
<1> DEFINE call == NewCall(e, e, who)
<1>4. call \in Call /\ call.phase = "posted" /\ call.minted = {} /\ call.env = e
  BY <1>3, NewCallType
<1>5. calls' = Append(calls, call)
  BY <1>2
<1> HIDE DEF call
<1>6. UNCHANGED <<page, contributors, credentials, enclave, guest, sealed, signed>> /\ Len(calls) < MaxCalls
  BY DEF Repeat
<1>7. Len(calls') = Len(calls) + 1
  BY <1>1, <1>4, <1>5, AppendProperties
<1>8. PageInv'
  <2>1. PageInv /\ page.call \in 0 .. Len(calls')
    BY <1>1, <1>7 DEF ContributionInv, PageInv
  <2> QED
    BY <1>6, <2>1 DEF PageInv, PageShape, Stored
<1> QED
  BY <1>1, <1>4, <1>5, <1>6, <1>8, CallAdded
-----------------------------------------------------------------------------
\* What To does to a handler: its phase, and nothing else that matters while it runs.
LEMMA ToShape ==
    ASSUME ContributionInv, NEW c \in 1 .. Len(calls), NEW phase \in Phase, To(c, phase)
    PROVE  \E x \in Call :
             /\ calls' = [calls EXCEPT ![c] = x]
             /\ x.phase = phase
             /\ phase \notin Ended =>
                  x.env = calls[c].env /\ x.id = calls[c].id /\ x.minted = calls[c].minted
             /\ phase = "stored" => x.minted = calls[c].minted
             /\ phase \in {"refused", "dead"} => x.minted = {}
<1>1. calls \in Seq(Call) /\ calls[c] \in Call /\ DOMAIN calls = 1 .. Len(calls)
  BY ElementOfSeq, LenProperties DEF ContributionInv, Shapes
<1>2. CASE phase \in Ended
  <2> DEFINE m == IF phase = "stored" THEN calls[c].minted ELSE {}
             x == [NewCall(0, 0, 0) EXCEPT !.phase = phase, !.minted = m]
  <2>1. m \in SUBSET Signature
    BY <1>1 DEF Call
  <2>2. phase = "stored" => m = calls[c].minted
    OBVIOUS
  <2>3. phase \in {"refused", "dead"} => m = {}
    OBVIOUS
  <2>4. calls' = [calls EXCEPT ![c] = x]
    BY <1>2 DEF To
  <2> HIDE DEF m
  <2>5. NewCall(0, 0, 0) \in Call
    BY ContributionAssumption, NewCallType
  <2>6. x \in Call /\ x.phase = phase /\ x.minted = m
    BY <2>1, <2>5 DEF Call
  <2> HIDE DEF x
  <2> QED
    BY <1>2, <2>2, <2>3, <2>4, <2>6
<1>3. CASE phase \notin Ended
  <2> DEFINE x == [calls[c] EXCEPT !.phase = phase]
  <2>1. calls' = [calls EXCEPT ![c] = x]
    BY <1>3 DEF To
  <2>2. x \in Call /\ x.phase = phase /\ x.env = calls[c].env /\ x.id = calls[c].id
        /\ x.minted = calls[c].minted
    BY <1>1 DEF Call
  <2> HIDE DEF x
  <2> QED
    BY <1>3, <2>1, <2>2 DEF Ended
<1> QED
  BY <1>2, <1>3

\* A step of one handler leaves the page and the other handlers as they were, as long as
\* no row is changed and no capability forgotten.
LEMMA OthersKept ==
    ASSUME ContributionInv, NEW c \in 1 .. Len(calls), NEW x \in Call,
           calls' = [calls EXCEPT ![c] = x],
           UNCHANGED <<page, contributors, sealed>>, enclave'.boot = enclave.boot,
           \A i \in DOMAIN credentials : i \in DOMAIN credentials' /\ credentials'[i] = credentials[i],
           signed \subseteq signed'
    PROVE  /\ calls' \in Seq(Call) /\ Len(calls') = Len(calls) /\ calls'[c] = x
           /\ \A k \in 1 .. Len(calls) : k # c => calls'[k] = calls[k]
           /\ PageInv'
           /\ \A k \in 1 .. Len(calls) : k # c => CallInv(k)'
<1>1. calls \in Seq(Call) /\ Len(calls) \in Nat /\ DOMAIN calls = 1 .. Len(calls)
  BY LenProperties DEF ContributionInv, Shapes
<1>2. calls' \in Seq(Call) /\ Len(calls') = Len(calls)
  BY <1>1, ExceptSeq
<1>3. calls'[c] = x /\ \A k \in 1 .. Len(calls) : k # c => calls'[k] = calls[k]
  BY <1>1
<1>4. \A s : Stored(s) => Stored(s)'
  BY DEF Stored
<1>5. PageInv'
  BY <1>2, <1>4 DEF ContributionInv, PageInv, PageShape
<1>6. ASSUME NEW k \in 1 .. Len(calls), k # c PROVE CallInv(k)'
  <2>1. CallInv(k) /\ calls'[k] = calls[k]
    BY <1>3, <1>6 DEF ContributionInv
  <2> QED
    BY <1>4, <2>1 DEF CallInv
<1> QED
  BY <1>2, <1>3, <1>5, <1>6

\* The number of answered handlers only grows.
LEMMA AnsweredGrows ==
    ASSUME ContributionInv, Len(calls') = Len(calls),
           \A k \in 1 .. Len(calls) : calls[k].phase \notin Unanswered => calls'[k].phase \notin Unanswered
    PROVE  /\ IsFiniteSet(Answered) /\ IsFiniteSet(Answered') /\ Answered \subseteq Answered'
           /\ Cardinality(Answered) <= Cardinality(Answered')
           /\ Cardinality(Answered) \in Nat /\ Cardinality(Answered') \in Nat
           /\ Cardinality(Answered') <= MaxCalls
<1>1. Len(calls) \in Nat /\ Len(calls) <= MaxCalls
  BY LenProperties DEF ContributionInv, Shapes
<1>2. IsFiniteSet(1 .. Len(calls)) /\ Cardinality(1 .. Len(calls)) = Len(calls)
  <2>1. /\ IsFiniteSet(1 .. Len(calls))
        /\ Cardinality(1 .. Len(calls)) = IF 1 > Len(calls) THEN 0 ELSE Len(calls) - 1 + 1
    BY <1>1, FS_Interval, 1 \in Int, Len(calls) \in Int
  <2> QED
    BY <1>1, <2>1
<1>3. Answered \subseteq Answered' /\ Answered' \subseteq 1 .. Len(calls) /\ Answered \subseteq 1 .. Len(calls)
  BY DEF Answered
<1>4. /\ IsFiniteSet(Answered) /\ IsFiniteSet(Answered')
      /\ Cardinality(Answered') <= Cardinality(1 .. Len(calls))
  BY <1>2, <1>3, FS_Subset
<1>5. Cardinality(Answered) <= Cardinality(Answered')
  BY <1>3, <1>4, FS_Subset
<1>6. Cardinality(Answered) \in Nat /\ Cardinality(Answered') \in Nat
  BY <1>4, FS_CardinalityType
<1> QED
  BY <1>1, <1>2, <1>3, <1>4, <1>5, <1>6, ContributionAssumption

\* A handler that only moves on has its own part of the invariant to answer for.
LEMMA HandlerMoves ==
    ASSUME ContributionInv, NEW c \in 1 .. Len(calls), NEW x \in Call,
           calls' = [calls EXCEPT ![c] = x],
           UNCHANGED <<page, contributors, credentials, enclave, guest, sealed, signed>>,
           calls[c].phase \in Unanswered \/ x.phase \notin Unanswered,
           CallInv(c)'
    PROVE  ContributionInv'
<1>1. /\ calls' \in Seq(Call) /\ Len(calls') = Len(calls) /\ calls'[c] = x
      /\ \A k \in 1 .. Len(calls) : k # c => calls'[k] = calls[k]
      /\ PageInv'
      /\ \A k \in 1 .. Len(calls) : k # c => CallInv(k)'
  BY OthersKept
<1>2. Shapes' /\ (\A s \in signed : FromSeal(s))'
  BY <1>1 DEF ContributionInv, Shapes, FromSeal
<1>3. (\A k \in 1 .. Len(calls) : CallInv(k))'
  BY <1>1
<1>4. Cardinality(Answered) <= Cardinality(Answered') /\ Cardinality(Answered) \in Nat
      /\ Cardinality(Answered') \in Nat
  <2>1. \A k \in 1 .. Len(calls) : calls[k].phase \notin Unanswered => calls'[k].phase \notin Unanswered
    BY <1>1
  <2> QED
    BY <1>1, <2>1, AnsweredGrows
<1>5. Cardinality(signed) \in Nat
  BY FS_CardinalityType DEF ContributionInv, Shapes
<1>6. Cardinality(signed') <= Cardinality(Answered')
  BY <1>4, <1>5 DEF ContributionInv
<1> QED
  BY <1>1, <1>2, <1>3, <1>6 DEF ContributionInv

\* The handler's steps that change nothing but the handler.
LEMMA QuietKeeps ==
    ASSUME ContributionInv, NEW c \in 1 .. Len(calls),
           CheckCall(c) \/ Open(c) \/ MintUnavailable(c) \/ MintedLost(c)
    PROVE  ContributionInv'
<1>1. UNCHANGED <<page, contributors, credentials, enclave, guest, sealed, signed>>
  BY DEF CheckCall, Open, MintUnavailable, MintedLost
<1>2. CallInv(c)
  BY DEF ContributionInv
<1>3. CASE To(c, "refused")
  <2>1. PICK x \in Call : calls' = [calls EXCEPT ![c] = x] /\ x.phase = "refused" /\ x.minted = {}
    BY <1>3, ToShape DEF Phase, Ended
  <2>2. calls'[c] = x
    BY <1>1, <2>1, OthersKept
  <2>3. CallInv(c)'
    BY <2>1, <2>2 DEF CallInv, Unanswered
  <2> QED
    BY <1>1, <2>1, <2>3, HandlerMoves DEF Unanswered
<1>4. CASE calls[c].phase = "posted" /\ To(c, "ingest")
  <2>1. PICK x \in Call : /\ calls' = [calls EXCEPT ![c] = x] /\ x.phase = "ingest"
                          /\ x.env = calls[c].env /\ x.id = calls[c].id /\ x.minted = calls[c].minted
    BY <1>4, ToShape DEF Phase, Ended
  <2>2. calls'[c] = x
    BY <1>1, <2>1, OthersKept
  <2>3. CallInv(c)'
    BY <1>1, <1>2, <1>4, <2>1, <2>2 DEF CallInv, Unanswered
  <2> QED
    BY <1>1, <1>4, <2>1, <2>3, HandlerMoves DEF Unanswered
<1>5. CASE calls[c].phase = "ingest" /\ To(c, "opened") /\ Opens(c)
  <2>1. PICK x \in Call : /\ calls' = [calls EXCEPT ![c] = x] /\ x.phase = "opened"
                          /\ x.env = calls[c].env /\ x.id = calls[c].id /\ x.minted = calls[c].minted
    BY <1>5, ToShape DEF Phase, Ended
  <2>2. calls'[c] = x
    BY <1>1, <2>1, OthersKept
  <2>3. CallInv(c)'
    BY <1>1, <1>2, <1>5, <2>1, <2>2 DEF CallInv, Unanswered, Opens
  <2> QED
    BY <1>1, <1>5, <2>1, <2>3, HandlerMoves DEF Unanswered
<1> QED
  BY <1>3, <1>4, <1>5 DEF CheckCall, Open, MintUnavailable, MintedLost

\* The enclave signs what was sealed under the handler's id for its own boot.
LEMMA MintKeeps ==
    ASSUME ContributionInv, NEW c \in 1 .. Len(calls), Mint(c)
    PROVE  ContributionInv'
<1> DEFINE policy == IF enclave.health = 0 THEN guest ELSE enclave.health
           iv     == Cardinality(signed) + 1
           e      == calls[c].env
           cap    == deriveCapability(e, sealed[e], [secret |-> e, iv |-> iv], policy)
           answer == [by |-> enclave.boot, over |-> cap]
<1>1. /\ calls \in Seq(Call) /\ calls[c] \in Call /\ CallInv(c) /\ Shapes
      /\ sealed \in Seq(Intent) /\ Len(sealed) \in Nat /\ Len(sealed) <= MaxEnvelopes
      /\ IsFiniteSet(signed) /\ Cardinality(signed) \in Nat
  BY ElementOfSeq, LenProperties, FS_CardinalityType DEF ContributionInv, Shapes
<1>2. /\ calls[c].phase = "opened"
      /\ enclave' = [enclave EXCEPT !.health = policy, !.consumed = @ \cup {e}]
      /\ signed' = signed \cup {answer}
      /\ IF calls[c].alive
         THEN calls' = [calls EXCEPT ![c].phase = "minted", ![c].minted = {answer}]
         ELSE To(c, "dead")
      /\ UNCHANGED <<page, contributors, credentials, guest, sealed>>
  BY DEF Mint
<1>3. e \in 1 .. Len(sealed) /\ e = calls[c].id /\ sealed[e].key = enclave.boot
      /\ sealed[e] \in Intent /\ e \in 1 .. MaxEnvelopes
  <2>1. e \in 1 .. Len(sealed) /\ e = calls[c].id /\ sealed[e].key = enclave.boot
    BY <1>1, <1>2 DEF CallInv, Unanswered
  <2> QED
    BY <1>1, <2>1, ElementOfSeq, ContributionAssumption
<1>4. policy \in {1, 2}
  BY <1>1 DEF Shapes
<1> DEFINE x == IF calls[c].alive
                THEN [calls[c] EXCEPT !.phase = "minted", !.minted = {answer}]
                ELSE [NewCall(0, 0, 0) EXCEPT !.phase = "dead", !.minted = {}]
<1>5. calls' = [calls EXCEPT ![c] = x]
  <2>1. CASE calls[c].alive
    BY <1>1, <1>2, <2>1
  <2>2. CASE ~calls[c].alive
    BY <1>2, <2>2 DEF To, Ended
  <2> QED
    BY <2>1, <2>2
<1> HIDE DEF policy
\* Before this answer there were fewer answers than answered handlers there may be.
<1>6. Cardinality(Answered \cup {c}) = Cardinality(Answered) + 1 /\ IsFiniteSet(Answered)
      /\ Cardinality(Answered) \in Nat /\ Cardinality(Answered \cup {c}) <= MaxCalls
  <2>1. IsFiniteSet(1 .. Len(calls)) /\ Cardinality(1 .. Len(calls)) = Len(calls)
        /\ Len(calls) \in Nat /\ Len(calls) <= MaxCalls
    <3>1. Len(calls) \in Nat /\ Len(calls) <= MaxCalls
      BY LenProperties DEF ContributionInv, Shapes
    <3>2. /\ IsFiniteSet(1 .. Len(calls))
          /\ Cardinality(1 .. Len(calls)) = IF 1 > Len(calls) THEN 0 ELSE Len(calls) - 1 + 1
      BY <3>1, FS_Interval, 1 \in Int, Len(calls) \in Int
    <3> QED
      BY <3>1, <3>2
  <2>2. Answered \subseteq 1 .. Len(calls) /\ Answered \cup {c} \subseteq 1 .. Len(calls) /\ c \notin Answered
    BY <1>2 DEF Answered, Unanswered
  <2>3. IsFiniteSet(Answered) /\ Cardinality(Answered \cup {c}) <= Cardinality(1 .. Len(calls))
        /\ IsFiniteSet(Answered \cup {c})
    BY <2>1, <2>2, FS_Subset
  <2>4. Cardinality(Answered \cup {c}) = Cardinality(Answered) + 1
    BY <2>2, <2>3, FS_AddElement
  <2>5. Cardinality(Answered) \in Nat /\ Cardinality(Answered \cup {c}) \in Nat
    BY <2>3, FS_CardinalityType
  <2> QED
    BY <2>1, <2>3, <2>4, <2>5, ContributionAssumption
<1>7. iv \in 1 .. MaxCalls
  BY <1>1, <1>6, ContributionAssumption DEF ContributionInv
<1> HIDE DEF iv
<1>8. cap \in Capability
  <2>1. [secret |-> e, iv |-> iv] \in Blob
    BY <1>3, <1>7, ContributionAssumption DEF Blob
  <2>2. sealed[e].models \in SUBSET Models /\ sealed[e].contributor \in 1 .. MaxContributors
    BY <1>3 DEF Intent
  <2> QED
    BY <1>3, <1>4, <2>1, <2>2 DEF deriveCapability, Capability
<1>9. cap.id = e /\ cap.models = sealed[e].models /\ cap.contributor = sealed[e].contributor
      /\ cap.blob.secret = e
  BY DEF deriveCapability
<1> HIDE DEF cap
<1>10. answer \in Signature /\ answer.over = cap /\ answer.by = enclave.boot
  <2>1. enclave.boot \in 1 .. MaxBoots
    BY <1>1 DEF Shapes
  <2> QED
    BY <1>8, <2>1 DEF Signature
<1>11. FromSeal(answer)
  BY <1>3, <1>9, <1>10 DEF FromSeal
<1>12. answer.over.id = e
  BY <1>9, <1>10
<1> HIDE DEF answer
<1>13. x \in Call /\ x.phase \in {"minted", "dead"}
       /\ (x.phase = "minted" => x.minted = {answer} /\ x.id = calls[c].id)
       /\ (x.phase = "dead" => x.minted = {})
  <2>1. CASE calls[c].alive
    BY <1>1, <1>10, <2>1 DEF Call, Phase
  <2>2. CASE ~calls[c].alive
    <3>1. NewCall(0, 0, 0) \in Call
      BY ContributionAssumption, NewCallType
    <3> QED
      BY <2>2, <3>1 DEF Call, Phase, Ended
  <2> QED
    BY <2>1, <2>2
<1> HIDE DEF x
<1>14. /\ enclave' \in [boot : 1 .. MaxBoots, up : BOOLEAN,
                        consumed : SUBSET (1 .. MaxEnvelopes), health : {0, 1, 2}]
       /\ enclave'.boot = enclave.boot /\ enclave'.consumed = enclave.consumed \cup {e}
  <2> HIDE DEF e
  <2>1. enclave.consumed \cup {e} \in SUBSET (1 .. MaxEnvelopes)
    BY <1>1, <1>3 DEF Shapes
  <2> QED
    BY <1>1, <1>2, <1>4, <2>1 DEF Shapes
<1>15. /\ calls' \in Seq(Call) /\ Len(calls') = Len(calls) /\ calls'[c] = x
       /\ \A k \in 1 .. Len(calls) : k # c => calls'[k] = calls[k]
       /\ PageInv'
       /\ \A k \in 1 .. Len(calls) : k # c => CallInv(k)'
  BY <1>2, <1>5, <1>13, <1>14, OthersKept
<1>16. CallInv(c)'
  BY <1>2, <1>3, <1>12, <1>13, <1>15 DEF CallInv, Unanswered
<1>17. signed' \in SUBSET Signature /\ IsFiniteSet(signed')
       /\ Cardinality(signed') <= Cardinality(signed) + 1
  <2>1. IsFiniteSet(signed') /\ Cardinality(signed') = IF answer \in signed THEN Cardinality(signed)
                                                       ELSE Cardinality(signed) + 1
    BY <1>1, <1>2, FS_AddElement
  <2> QED
    BY <1>1, <1>2, <1>10, <2>1 DEF Shapes
<1>18. Shapes'
  BY <1>1, <1>2, <1>14, <1>15, <1>17 DEF ContributionInv, Shapes
<1>19. (\A s \in signed : FromSeal(s))'
  <2>1. \A s \in signed' : FromSeal(s)
    BY <1>2, <1>11 DEF ContributionInv
  <2> QED
    BY <1>2, <2>1 DEF FromSeal
<1>20. Cardinality(signed') <= Cardinality(Answered')
  <2>1. Answered' = Answered \cup {c}
    BY <1>13, <1>15 DEF Answered, Unanswered
  <2>2. Cardinality(signed') \in Nat
    BY <1>17, FS_CardinalityType
  <2> QED
    BY <1>1, <1>6, <1>17, <2>1, <2>2 DEF ContributionInv
<1>21. enclave'.consumed \subseteq {s.over.id : s \in signed'}
  BY <1>2, <1>12, <1>14 DEF ContributionInv
<1>22. (\A k \in 1 .. Len(calls) : CallInv(k))'
  BY <1>15, <1>16
<1>23. \A i \in DOMAIN credentials' : i \in 1 .. Len(sealed') /\ credentials'[i] \in Row
  BY <1>2 DEF ContributionInv
<1> QED
  BY <1>15, <1>18, <1>19, <1>20, <1>21, <1>22, <1>23 DEF ContributionInv

\* A row is stored only under an id that has none, and as it was signed.
LEMMA StoreKeeps ==
    ASSUME ContributionInv, NEW c \in 1 .. Len(calls), Store(c)
    PROVE  ContributionInv'
<1>1. /\ calls \in Seq(Call) /\ calls[c] \in Call /\ CallInv(c) /\ calls[c].phase = "minted"
      /\ UNCHANGED <<page, contributors, enclave, guest, sealed, signed>>
  BY ElementOfSeq DEF ContributionInv, Shapes, Store
<1>2. PICK s \in signed : calls[c].minted = {s} /\ s.over.id = calls[c].id
  BY <1>1 DEF CallInv
<1>3. CASE Named(c) /\ calls[c].id \notin DOMAIN credentials
  <2> DEFINE id == calls[c].id
  <2>1. /\ To(c, "stored")
        /\ credentials' = [i \in DOMAIN credentials \cup {id} |->
                             IF i = id THEN NewRow(c) ELSE credentials[i]]
    BY <1>3 DEF Store
  <2>2. NewRow(c) = RowOf(s)
    <3>1. (CHOOSE t \in calls[c].minted : TRUE) = s
      BY <1>2
    <3>2. s.over.contributor = calls[c].contributor
      BY <1>2, <1>3 DEF Named
    <3> QED
      BY <3>1, <3>2 DEF NewRow, RowOf
  <2>3. /\ DOMAIN credentials' = DOMAIN credentials \cup {id}
        /\ credentials'[id] = RowOf(s)
        /\ \A i \in DOMAIN credentials : i \in DOMAIN credentials' /\ credentials'[i] = credentials[i]
    BY <1>3, <2>1, <2>2
  <2>4. PICK x \in Call : /\ calls' = [calls EXCEPT ![c] = x] /\ x.phase = "stored"
                          /\ x.minted = calls[c].minted
    BY <2>1, ToShape DEF Phase, Ended
  <2>5. /\ calls' \in Seq(Call) /\ Len(calls') = Len(calls) /\ calls'[c] = x
        /\ \A k \in 1 .. Len(calls) : k # c => calls'[k] = calls[k]
        /\ PageInv'
        /\ \A k \in 1 .. Len(calls) : k # c => CallInv(k)'
    BY <1>1, <2>3, <2>4, OthersKept
  <2>6. Stored(s)' /\ s \in Signature
    BY <1>1, <1>2, <2>3 DEF Stored, ContributionInv, Shapes, RowOf
  <2>7. CallInv(c)'
    BY <1>1, <1>2, <2>4, <2>5, <2>6 DEF CallInv, Unanswered
  <2>8. Shapes' /\ (\A t \in signed : FromSeal(t))'
    BY <1>1, <2>5 DEF ContributionInv, Shapes, FromSeal
  <2>9. RowOf(s) \in Row
    <3>1. s.over \in Capability
      BY <2>6 DEF Signature
    <3>2. s.over.blob \in Blob /\ s.over.contributor \in 1 .. MaxContributors
      BY <3>1 DEF Capability
    <3> QED
      BY <2>6, <3>1, <3>2 DEF RowOf, Row
  <2>10. id \in 1 .. Len(sealed)
    BY <1>2 DEF ContributionInv, FromSeal
  <2>11. \A i \in DOMAIN credentials' : i \in 1 .. Len(sealed') /\ credentials'[i] \in Row
    BY <1>1, <2>3, <2>9, <2>10 DEF ContributionInv
  <2>12. Cardinality(signed') <= Cardinality(Answered')
    <3>1. Answered' = Answered
      BY <1>1, <2>4, <2>5 DEF Answered, Unanswered
    <3> QED
      BY <1>1, <3>1 DEF ContributionInv
  <2>13. (\A k \in 1 .. Len(calls) : CallInv(k))'
    BY <2>5, <2>7
  <2> QED
    BY <1>1, <2>5, <2>8, <2>11, <2>12, <2>13 DEF ContributionInv
<1>4. CASE ~(Named(c) /\ calls[c].id \notin DOMAIN credentials)
  <2>1. To(c, "refused") /\ UNCHANGED credentials
    BY <1>4 DEF Store
  <2>2. PICK x \in Call : calls' = [calls EXCEPT ![c] = x] /\ x.phase = "refused" /\ x.minted = {}
    BY <2>1, ToShape DEF Phase, Ended
  <2>3. calls'[c] = x
    BY <1>1, <2>1, <2>2, OthersKept
  <2>4. CallInv(c)'
    BY <2>2, <2>3 DEF CallInv, Unanswered
  <2> QED
    BY <1>1, <2>1, <2>2, <2>4, HandlerMoves DEF Unanswered
<1> QED
  BY <1>3, <1>4
-----------------------------------------------------------------------------
\* A process ends and takes handlers with it: the others are as they were, and none of
\* those that are left ran in the enclave if it was the enclave.
LEMMA HandlersEnd ==
    ASSUME ContributionInv,
           UNCHANGED <<page, contributors, credentials, guest, sealed, signed>>,
           enclave' \in [boot : 1 .. MaxBoots, up : BOOLEAN,
                         consumed : SUBSET (1 .. MaxEnvelopes), health : {0, 1, 2}],
           enclave'.consumed \subseteq enclave.consumed,
           DOMAIN calls' = 1 .. Len(calls),
           calls' = [c \in 1 .. Len(calls) |-> calls'[c]],
           \A c \in 1 .. Len(calls) :
             \/ calls'[c] = calls[c] /\ (calls[c].phase = "opened" => enclave'.boot = enclave.boot)
             \/ /\ calls'[c] \in Call /\ calls'[c].phase = calls[c].phase
                /\ calls'[c].env = calls[c].env /\ calls'[c].id = calls[c].id
                /\ calls'[c].minted = calls[c].minted
                /\ enclave'.boot = enclave.boot
             \/ calls'[c] \in Call /\ calls'[c].phase \in {"refused", "dead"} /\ calls'[c].minted = {}
    PROVE  ContributionInv'
<1>1. calls \in Seq(Call) /\ Len(calls) \in Nat /\ \A c \in 1 .. Len(calls) : calls[c] \in Call
  BY ElementOfSeq, LenProperties DEF ContributionInv, Shapes
<1>2. \A c \in 1 .. Len(calls) : calls'[c] \in Call
  BY <1>1
<1>3. calls' \in Seq(Call) /\ Len(calls') = Len(calls)
  <2> DEFINE f == [c \in 1 .. Len(calls) |-> calls'[c]]
  <2>1. f \in Seq(Call)
    BY <1>1, <1>2, IsASeq
  <2>2. Len(f) = Len(calls)
    BY <1>1, <2>1, LenProperties
  <2> QED
    BY <2>1, <2>2
<1>4. PageInv'
  BY <1>3 DEF ContributionInv, PageInv, PageShape, Stored
<1>5. Shapes' /\ (\A s \in signed : FromSeal(s))'
  BY <1>3 DEF ContributionInv, Shapes, FromSeal
<1>6. ASSUME NEW c \in 1 .. Len(calls) PROVE CallInv(c)'
  <2>1. CallInv(c)
    BY DEF ContributionInv
  <2>2. \A s : Stored(s) => Stored(s)'
    BY DEF Stored
  <2>3. CASE calls'[c].phase \in {"refused", "dead"} /\ calls'[c].minted = {}
    BY <2>3 DEF CallInv, Unanswered
  <2>4. CASE /\ calls'[c].phase = calls[c].phase /\ calls'[c].env = calls[c].env
             /\ calls'[c].id = calls[c].id /\ calls'[c].minted = calls[c].minted
             /\ (calls[c].phase = "opened" => enclave'.boot = enclave.boot)
    BY <2>1, <2>2, <2>4 DEF CallInv
  <2> QED
    BY <2>3, <2>4
<1>7. Cardinality(Answered) <= Cardinality(Answered') /\ Cardinality(Answered) \in Nat
      /\ Cardinality(Answered') \in Nat
  <2>1. \A c \in 1 .. Len(calls) : calls[c].phase \notin Unanswered => calls'[c].phase \notin Unanswered
    BY DEF Unanswered
  <2> QED
    BY <1>3, <2>1, AnsweredGrows
<1>8. Cardinality(signed) \in Nat
  BY FS_CardinalityType DEF ContributionInv, Shapes
<1>9. Cardinality(signed') <= Cardinality(Answered')
  BY <1>7, <1>8 DEF ContributionInv
<1>10. (\A c \in 1 .. Len(calls) : CallInv(c))'
  BY <1>3, <1>6
<1>11. enclave'.consumed \subseteq {s.over.id : s \in signed'}
  BY DEF ContributionInv
<1>12. \A i \in DOMAIN credentials' : i \in 1 .. Len(sealed') /\ credentials'[i] \in Row
  BY DEF ContributionInv
<1> QED
  BY <1>4, <1>5, <1>9, <1>10, <1>11, <1>12 DEF ContributionInv

\* A handler that a restart has ended.
LEMMA EndedCall ==
    ASSUME NEW phase \in {"refused", "dead"}
    PROVE  /\ [NewCall(0, 0, 0) EXCEPT !.phase = phase] \in Call
           /\ [NewCall(0, 0, 0) EXCEPT !.phase = phase].phase = phase
           /\ [NewCall(0, 0, 0) EXCEPT !.phase = phase].minted = {}
<1>1. NewCall(0, 0, 0) \in Call /\ NewCall(0, 0, 0).minted = {}
  BY ContributionAssumption, NewCallType
<1>2. phase \in Phase
  BY DEF Phase, Ended
<1> QED
  BY <1>1, <1>2 DEF Call

\* The enclave ends: no handler is left in it.
LEMMA EnclaveEnds ==
    ASSUME ContributionInv, EnclaveGone
    PROVE  /\ DOMAIN calls' = 1 .. Len(calls)
           /\ calls' = [c \in 1 .. Len(calls) |-> calls'[c]]
           /\ \A c \in 1 .. Len(calls) :
                \/ calls'[c] = calls[c] /\ calls[c].phase # "opened"
                \/ calls'[c] \in Call /\ calls'[c].phase \in {"refused", "dead"} /\ calls'[c].minted = {}
<1>1. DOMAIN calls = 1 .. Len(calls)
  BY LenProperties DEF ContributionInv, Shapes
<1>2. DOMAIN calls' = 1 .. Len(calls) /\ calls' = [c \in 1 .. Len(calls) |-> calls'[c]]
  BY <1>1 DEF EnclaveGone
<1>3. ASSUME NEW c \in 1 .. Len(calls)
      PROVE  \/ calls'[c] = calls[c] /\ calls[c].phase # "opened"
             \/ calls'[c] \in Call /\ calls'[c].phase \in {"refused", "dead"} /\ calls'[c].minted = {}
  <2> DEFINE phase == IF calls[c].alive THEN "refused" ELSE "dead"
  <2>1. phase \in {"refused", "dead"}
    OBVIOUS
  <2>2. CASE calls[c].phase \in {"ingest", "opened"}
    <3>1. calls'[c] = [NewCall(0, 0, 0) EXCEPT !.phase = phase]
      BY <1>1, <2>2 DEF EnclaveGone
    <3> HIDE DEF phase
    <3> QED
      BY <2>1, <3>1, EndedCall
  <2>3. CASE calls[c].phase \notin {"ingest", "opened"}
    BY <1>1, <2>3 DEF EnclaveGone
  <2> QED
    BY <2>2, <2>3
<1> QED
  BY <1>2, <1>3

\* Restarts of either process, and a new guest image.
LEMMA RestartKeeps ==
    ContributionInv /\ (EnclaveRestart \/ EnclaveRefused \/ CoordinatorCrash \/ GuestRedeployed)
      => ContributionInv'
<1> SUFFICES ASSUME ContributionInv,
                    EnclaveRestart \/ EnclaveRefused \/ CoordinatorCrash \/ GuestRedeployed
             PROVE  ContributionInv'
  OBVIOUS
<1>1. enclave \in [boot : 1 .. MaxBoots, up : BOOLEAN,
                   consumed : SUBSET (1 .. MaxEnvelopes), health : {0, 1, 2}]
  BY DEF ContributionInv, Shapes
<1>2. CASE EnclaveRestart
  <2>1. enclave' = [enclave EXCEPT !.boot = enclave.boot + 1, !.consumed = {}, !.health = 0]
        /\ enclave.boot < MaxBoots /\ EnclaveGone
        /\ UNCHANGED <<page, contributors, credentials, guest, sealed, signed>>
    BY <1>2 DEF EnclaveRestart
  <2>2. enclave.boot + 1 \in 1 .. MaxBoots
    BY <1>1, <2>1, ContributionAssumption
  <2>3. /\ enclave' \in [boot : 1 .. MaxBoots, up : BOOLEAN,
                         consumed : SUBSET (1 .. MaxEnvelopes), health : {0, 1, 2}]
        /\ enclave'.consumed = {}
    BY <1>1, <2>1, <2>2
  <2> QED
    BY <2>1, <2>3, EnclaveEnds, HandlersEnd
<1>3. CASE EnclaveRefused
  <2>1. enclave' = [enclave EXCEPT !.up = FALSE] /\ EnclaveGone
        /\ UNCHANGED <<page, contributors, credentials, guest, sealed, signed>>
    BY <1>3 DEF EnclaveRefused
  <2>2. /\ enclave' \in [boot : 1 .. MaxBoots, up : BOOLEAN,
                         consumed : SUBSET (1 .. MaxEnvelopes), health : {0, 1, 2}]
        /\ enclave'.consumed = enclave.consumed
    BY <1>1, <2>1
  <2> QED
    BY <2>1, <2>2, EnclaveEnds, HandlersEnd
<1>4. CASE CoordinatorCrash
  <2>1. calls \in Seq(Call) /\ DOMAIN calls = 1 .. Len(calls) /\ \A c \in 1 .. Len(calls) : calls[c] \in Call
    BY ElementOfSeq, LenProperties DEF ContributionInv, Shapes
  <2>2. /\ DOMAIN calls' = 1 .. Len(calls)
        /\ calls' = [c \in 1 .. Len(calls) |-> calls'[c]]
        /\ UNCHANGED <<page, contributors, credentials, enclave, guest, sealed, signed>>
    BY <1>4, <2>1 DEF CoordinatorCrash
  <2>3. ASSUME NEW c \in 1 .. Len(calls)
        PROVE  \/ /\ calls'[c] \in Call /\ calls'[c].phase = calls[c].phase
                  /\ calls'[c].env = calls[c].env /\ calls'[c].id = calls[c].id
                  /\ calls'[c].minted = calls[c].minted
               \/ calls'[c] \in Call /\ calls'[c].phase \in {"refused", "dead"} /\ calls'[c].minted = {}
    <3>1. CASE calls[c].phase \in {"posted", "minted"}
      <4>1. calls'[c] = [NewCall(0, 0, 0) EXCEPT !.phase = "dead"]
        BY <1>4, <2>1, <3>1 DEF CoordinatorCrash
      <4> QED
        BY <4>1, EndedCall
    <3>2. CASE calls[c].phase \notin {"posted", "minted"}
      <4> DEFINE alive == calls[c].phase \in Ended
      <4>1. calls'[c] = [calls[c] EXCEPT !.alive = alive] /\ alive \in BOOLEAN
        BY <1>4, <2>1, <3>2 DEF CoordinatorCrash
      <4> HIDE DEF alive
      <4> QED
        BY <2>1, <4>1 DEF Call
    <3> QED
      BY <3>1, <3>2
  <2> QED
    BY <1>1, <2>2, <2>3, HandlersEnd
<1>5. CASE GuestRedeployed
  <2>1. guest' = 2 /\ UNCHANGED <<page, calls, contributors, credentials, enclave, sealed, signed>>
    BY <1>5 DEF GuestRedeployed
  <2>2. Shapes'
    BY <2>1 DEF ContributionInv, Shapes
  <2>3. PageInv'
    BY <2>1 DEF ContributionInv, PageInv, PageShape, Stored
  <2>4. (\A s \in signed : FromSeal(s))' /\ (\A c \in 1 .. Len(calls) : CallInv(c))'
    BY <2>1 DEF ContributionInv, FromSeal, CallInv, Stored
  <2>5. (Cardinality(signed) <= Cardinality(Answered))'
    BY <2>1 DEF ContributionInv, Answered
  <2> QED
    BY <2>1, <2>2, <2>3, <2>4, <2>5 DEF ContributionInv
<1> QED
  BY <1>2, <1>3, <1>4, <1>5

\* Nothing is sealed, called, signed or stored at the start.
LEMMA ContributionInit == Init => ContributionInv
<1> SUFFICES ASSUME Init PROVE ContributionInv
  OBVIOUS
<1>1. /\ page = [step |-> "capability", bundle |-> {}, busy |-> "no",
                 owner |-> 0, chosen |-> {}, call |-> 0, created |-> {}]
      /\ calls = <<>> /\ contributors = 0 /\ DOMAIN credentials = {}
      /\ enclave = [boot |-> 1, up |-> TRUE, consumed |-> {}, health |-> 0]
      /\ guest = 1 /\ sealed = <<>> /\ signed = {}
  BY DEF Init
<1>2. calls \in Seq(Call) /\ sealed \in Seq(Intent) /\ Len(calls) = 0 /\ Len(sealed) = 0
  BY <1>1
<1>3. IsFiniteSet({}) /\ Cardinality({}) = 0
  BY FS_EmptySet
<1>4. Shapes
  BY <1>1, <1>2, <1>3, ContributionAssumption DEF Shapes
<1>5. PageInv
  <2>1. PageShape
    BY <1>1, ContributionAssumption DEF PageShape
  <2>2. page.call \in 0 .. Len(calls)
    BY <1>1, <1>2
  <2> QED
    BY <1>1, <1>3, <2>1, <2>2 DEF PageInv
<1>6. Answered = {}
  BY <1>2 DEF Answered
<1> QED
  BY <1>1, <1>2, <1>3, <1>4, <1>5, <1>6 DEF ContributionInv

\* The inductive invariant holds in every state.
LEMMA ContributionInductive == Spec => []ContributionInv
<1>1. ContributionInv /\ [Next]_vars => ContributionInv'
  <2> SUFFICES ASSUME ContributionInv, [Next]_vars PROVE ContributionInv'
    OBVIOUS
  <2>1. ASSUME NEW c \in DOMAIN calls, Handler(c) \/ MintedLost(c) PROVE ContributionInv'
    <3>1. c \in 1 .. Len(calls)
      BY LenProperties DEF ContributionInv, Shapes
    <3> QED
      BY <2>1, <3>1, QuietKeeps, MintKeeps, StoreKeeps DEF Handler
  <2>2. CASE UNCHANGED vars
    <3>1. PageOnly /\ page' = page
      BY <2>2 DEF vars, PageOnly
    <3> QED
      BY <3>1, PageStep DEF ContributionInv, PageInv, PageShape
  <2> QED
    BY <2>1, <2>2, PageKeeps, SubmitKeeps, SealKeeps, RepeatKeeps, RestartKeeps DEF Next, PageAction
<1> QED
  BY <1>1, ContributionInit, PTL DEF Spec
-----------------------------------------------------------------------------
\* The state of a contribution is always of its type, and an intent is consumed only with
\* a capability to show for it.
THEOREM TypeCorrect == Spec => []TypeOK
<1>1. ContributionInv => TypeOK
  <2> SUFFICES ASSUME ContributionInv PROVE TypeOK
    OBVIOUS
  <2>1. /\ DOMAIN calls = 1 .. Len(calls) /\ DOMAIN sealed = 1 .. Len(sealed)
        /\ \A c \in 1 .. Len(calls) : calls[c] \in Call
        /\ \A i \in 1 .. Len(sealed) : sealed[i] \in Intent
    BY ElementOfSeq, LenProperties DEF ContributionInv, Shapes
  <2>2. page.created \in SUBSET signed
    BY DEF ContributionInv, PageInv, Stored
  <2>3. page \in [step : {"capability", "attest", "key", "done"}, bundle : SUBSET Bundle,
                 busy : {"no", "attestation", "sealing", "posting"},
                 owner : 0 .. MaxContributors, chosen : SUBSET Models, call : 0 .. MaxCalls,
                 created : SUBSET signed]
    BY <2>2 DEF ContributionInv, PageInv, PageShape
  <2>4. ASSUME NEW c \in 1 .. Len(calls)
        PROVE  /\ calls[c].phase \in Phase
               /\ calls[c].phase \in {"minted", "stored"} <=> calls[c].minted # {}
    <3>1. CallInv(c)
      BY DEF ContributionInv
    <3>2. calls[c].phase \in Phase
      BY <2>1 DEF Call
    <3> QED
      BY <3>1, <3>2 DEF CallInv
  <2> QED
    BY <2>1, <2>3, <2>4 DEF ContributionInv, PageInv, Shapes, TypeOK
<1> QED
  BY <1>1, ContributionInductive, PTL

\* When none of the checks is named as the first to fail, each of them holds.
LEMMA NoneFails ==
    ASSUME NEW n \in Nat, NEW checks, DOMAIN checks = 1 .. n,
           \A i \in 1 .. n : checks[i][1] # None,
           FirstFailing(checks) = None
    PROVE  \A i \in 1 .. n : ~(~checks[i][2])
<1> DEFINE F == {i \in DOMAIN checks : ~checks[i][2]}
<1> SUFFICES ASSUME F # {} PROVE FALSE
  OBVIOUS
<1>1. F \in SUBSET Nat
  OBVIOUS
<1> DEFINE R == {ss \in Nat \X Nat : ss[1] < ss[2]}
<1>2. IsWellFoundedOn(R, Nat)
  BY NatLessThanWellFounded DEF OpToRel
<1>3. PICK i \in F : \A k \in F : <<k, i>> \notin R
  BY <1>1, <1>2, WFMin
<1> HIDE DEF F
<1>4. ASSUME NEW k \in F PROVE i <= k
  <2>1. i \in Nat /\ k \in Nat
    BY <1>1
  <2>2. k < i => <<k, i>> \in R
    BY <2>1
  <2> QED
    BY <1>3, <2>1, <2>2
<1> USE DEF F
<1>5. (CHOOSE j \in F : \A k \in F : j <= k) \in 1 .. n
  BY <1>4
<1> QED
  BY <1>5 DEF FirstFailing

\* authorizeCandidate refuses a candidate exactly when one of its checks fails.
LEMMA Authorized ==
    ASSUME NEW id, NEW row, NEW m, NEW policy, NEW boot
    PROVE  authorizeCandidate(id, row, m, policy, boot) = None <=>
             /\ row.signature = [by |-> boot, over |-> row.capability]
             /\ row.capability.id = id /\ row.capability.contributor = row.contributor
             /\ row.capability.blob = row.blob
             /\ m \in row.capability.models
             /\ row.capability.policy = policy
             /\ row.blob.secret # 0
<1>1. PICK p1 \in BOOLEAN : p1 = (row.signature = [by |-> boot, over |-> row.capability])
  BY (row.signature = [by |-> boot, over |-> row.capability]) \in BOOLEAN, Zenon
<1>2. PICK p2 \in BOOLEAN : p2 = (row.capability.id = id /\ row.capability.contributor = row.contributor)
  BY (row.capability.id = id /\ row.capability.contributor = row.contributor) \in BOOLEAN, Zenon
<1>3. PICK p3 \in BOOLEAN : p3 = (row.capability.blob = row.blob)
  BY (row.capability.blob = row.blob) \in BOOLEAN, Zenon
<1>4. PICK p4 \in BOOLEAN : p4 = (m \in row.capability.models)
  BY (m \in row.capability.models) \in BOOLEAN, Zenon
<1>5. PICK p5 \in BOOLEAN : p5 = (row.capability.policy = policy)
  BY (row.capability.policy = policy) \in BOOLEAN, Zenon
<1>6. PICK p6 \in BOOLEAN : p6 = (row.blob.secret # 0)
  BY (row.blob.secret # 0) \in BOOLEAN, Zenon
<1> DEFINE checks == << <<"capability_signature_invalid", p1>>, <<"capability_id_mismatch", p2>>,
                        <<"blob_digest_mismatch", p3>>, <<"model_not_allowed", p4>>,
                        <<"policy_not_allowed", p5>>, <<"blob_decrypt_failed", p6>> >>
<1>7. authorizeCandidate(id, row, m, policy, boot) = FirstFailing(checks)
  BY <1>1, <1>2, <1>3, <1>4, <1>5, <1>6, Zenon DEF authorizeCandidate
<1>8. DOMAIN checks = 1 .. 6 /\ \A i \in 1 .. 6 : checks[i][1] # None
  BY DEF None
<1>9. FirstFailing(checks) = None => p1 /\ p2 /\ p3 /\ p4 /\ p5 /\ p6
  <2> SUFFICES ASSUME FirstFailing(checks) = None PROVE p1 /\ p2 /\ p3 /\ p4 /\ p5 /\ p6
    OBVIOUS
  <2>1. \A i \in 1 .. 6 : ~(~checks[i][2])
    BY ONLY FirstFailing(checks) = None, <1>8, NoneFails, 6 \in Nat
  <2> QED
    BY <2>1
<1>10. p1 /\ p2 /\ p3 /\ p4 /\ p5 /\ p6 => FirstFailing(checks) = None
  <2> SUFFICES ASSUME p1, p2, p3, p4, p5, p6 PROVE FirstFailing(checks) = None
    OBVIOUS
  <2>1. \A i \in 1 .. 6 : checks[i][2] = TRUE
    <3>1. p1 = TRUE /\ p2 = TRUE /\ p3 = TRUE /\ p4 = TRUE /\ p5 = TRUE /\ p6 = TRUE
      OBVIOUS
    <3>2. /\ checks[1][2] = p1 /\ checks[2][2] = p2 /\ checks[3][2] = p3
          /\ checks[4][2] = p4 /\ checks[5][2] = p5 /\ checks[6][2] = p6
      BY Zenon
    <3>3. /\ checks[1][2] = TRUE /\ checks[2][2] = TRUE /\ checks[3][2] = TRUE
          /\ checks[4][2] = TRUE /\ checks[5][2] = TRUE /\ checks[6][2] = TRUE
      BY <3>1, <3>2, Zenon
    <3> HIDE DEF checks
    <3> QED
      BY <3>3
  <2> HIDE DEF checks
  <2>2. {i \in DOMAIN checks : ~checks[i][2]} = {}
    BY <1>8, <2>1
  <2> QED
    BY <2>2 DEF FirstFailing
<1> QED
  BY <1>1, <1>2, <1>3, <1>4, <1>5, <1>6, <1>7, <1>9, <1>10

\* A candidate that the enclave accepts is, in owner, model and key, what a browser sealed
\* under its id for that boot (authorize.ts).
THEOREM AuthorizedSealed == Spec => []AuthorizedIsSealed
<1>1. ContributionInv => AuthorizedIsSealed
  <2> SUFFICES ASSUME ContributionInv, NEW id \in 1 .. MaxEnvelopes, NEW row \in Presented,
                      NEW m \in Models, NEW policy \in {1, 2},
                      authorizeCandidate(id, row, m, policy, enclave.boot) = None
               PROVE  /\ id \in DOMAIN sealed
                      /\ row.contributor = sealed[id].contributor
                      /\ m \in sealed[id].models
                      /\ row.blob.secret = id
                      /\ sealed[id].key = enclave.boot
    BY DEF AuthorizedIsSealed
  <2>1. row.signature \in signed
    BY DEF Presented
  <2>2. /\ row.signature = [by |-> enclave.boot, over |-> row.capability]
        /\ row.capability.id = id /\ row.capability.contributor = row.contributor
        /\ row.capability.blob = row.blob
        /\ m \in row.capability.models
    BY Authorized
  <2>3. row.signature.over = row.capability /\ row.signature.by = enclave.boot
    BY <2>2
  <2>4. FromSeal(row.signature)
    BY <2>1 DEF ContributionInv
  <2>5. DOMAIN sealed = 1 .. Len(sealed)
    BY LenProperties DEF ContributionInv, Shapes
  <2> QED
    BY <2>2, <2>3, <2>4, <2>5 DEF FromSeal
<1> QED
  BY <1>1, ContributionInductive, PTL

\* What the page shows as live has a row that the boot which signed it accepts for every
\* model the contributor chose, whatever other deliveries of the envelope have done.
THEOREM LiveIsUsable == Spec => []DoneIsUsable
<1>1. ContributionInv => DoneIsUsable
  <2> SUFFICES ASSUME ContributionInv, NEW s \in page.created
               PROVE  /\ sealed[s.over.id].key = s.by
                      /\ s.over.id \in DOMAIN credentials
                      /\ \A m \in sealed[s.over.id].models :
                           authorizeCandidate(s.over.id, credentials[s.over.id], m,
                                              s.over.policy, s.by) = None
    BY DEF DoneIsUsable
  <2>1. Stored(s) /\ s \in signed /\ FromSeal(s) /\ s \in Signature
    BY DEF ContributionInv, PageInv, Stored, Shapes
  <2> DEFINE row == credentials[s.over.id]
  <2>2. s = [by |-> s.by, over |-> s.over]
    BY <2>1 DEF Signature
  <2>3. /\ row.signature = s /\ row.capability = s.over
        /\ row.contributor = s.over.contributor /\ row.blob = s.over.blob
    BY <2>1 DEF Stored, RowOf
  <2>4. row.blob.secret # 0
    BY <2>1, <2>3 DEF FromSeal
  <2> HIDE DEF row
  <2>5. ASSUME NEW m \in sealed[s.over.id].models
        PROVE  authorizeCandidate(s.over.id, row, m, s.over.policy, s.by) = None
    <3>1. m \in row.capability.models
      BY <2>1, <2>3, <2>5 DEF FromSeal
    <3>2. row.signature = [by |-> s.by, over |-> row.capability]
      BY <2>2, <2>3
    <3> QED
      BY <2>3, <2>4, <3>1, <3>2, Authorized
  <2> QED
    BY <2>1, <2>5 DEF Stored, FromSeal, row
<1> QED
  BY <1>1, ContributionInductive, PTL
=============================================================================
