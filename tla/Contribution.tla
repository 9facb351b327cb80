---------------------------- MODULE Contribution ----------------------------
(***************************************************************************)
(* A contributor's key on its way into the network: the contribute page    *)
(* asks for an attestation, verifies it, seals the key with its            *)
(* constraints to the attested ingress key and posts it; the coordinator   *)
(* relays it; the enclave opens it, encrypts the key under the vault key   *)
(* and signs a capability; the coordinator stores both.  Later the enclave *)
(* authorizes the stored row as a candidate.                               *)
(*                                                                         *)
(* Calls overlap: every await of the two handlers is a step boundary.  An  *)
(* envelope may be posted again by whoever relays it, an answer may be     *)
(* lost, either process may restart, and neither the ingress key that is   *)
(* relayed nor the rows that come back as candidates are trusted.  The     *)
(* relay may also sign a document of its own with a key of its own: a      *)
(* simulated enclave has no root of trust, so the client accepts it, and   *)
(* what is then sealed to the relay's key the enclave cannot open.  What   *)
(* the relay would do with a key it has read is outside the model.         *)
(***************************************************************************)
EXTENDS Integers, Sequences, FiniteSets

CONSTANTS
    Models,         \* the provider's catalog
    Selections,     \* the models that may be selected when the form is submitted
    MaxEnvelopes,   \* times the page seals a key
    MaxContributors,
    MaxCalls,       \* POST /v1/credentials calls, repeated deliveries included
    MaxBoots        \* boots of the enclave

ASSUME ContributionAssumption ==
    /\ Selections \subseteq SUBSET Models
    /\ {MaxEnvelopes, MaxContributors, MaxCalls} \subseteq Nat
    /\ MaxBoots \in Nat \ {0}

VARIABLES
    page,           \* the contribute page's state
    calls,          \* handlers of POST /v1/credentials, in order of arrival
    contributors,   \* number of rows of `contributors`
    credentials,    \* rows of `credentials`, by credential id
    enclave,        \* its boot, whether it runs, consumed intents, cached policy id
    guest,          \* the policy id that the prove daemon runs
    sealed,         \* every intent ever sealed, in order
    signed          \* every signed capability the enclave has answered with

vars == <<page, calls, contributors, credentials, enclave, guest, sealed, signed>>

None == "none"

\* Ingress and signing keys by the boot they belong to; 0 are the relay's own.
Key == 0 .. MaxBoots

\* What platformSignature signs: the document's keys and the bundle's nonce.
Document == [ingress : Key, signing : Key, nonce : {"asked", "other"}]

\* An attestation bundle: the document with its signature, and the keys presented
\* beside it.  The nonce is the one the page asked with, or any other.
Bundle == [document : Document, signature : [by : Key, over : Document],
           ingress : Key, signing : Key]

\* A sealed CredentialIntentV1.  Its place in `sealed` stands for its credential
\* id, its nonce and its secret.
Intent == [key : Key, models : SUBSET Models, contributor : 1 .. MaxContributors]

\* The vault's ciphertext of a secret; every encryption draws a fresh IV.
Blob == [secret : 0 .. MaxEnvelopes, iv : 1 .. MaxCalls]

Capability == [id : 1 .. MaxEnvelopes, models : SUBSET Models,
               contributor : 1 .. MaxContributors, policy : {1, 2}, blob : Blob]

Signature == [by : 1 .. MaxBoots, over : Capability]

Row == [contributor : 1 .. MaxContributors, blob : Blob, capability : Capability,
        signature : Signature]

\* Where a handler is.  posted: in the coordinator, before its checks; ingest and
\* opened: in the enclave, before and after the test for a consumed intent;
\* minted: back in the coordinator.
Ended == {"stored", "refused", "dead"}

Phase == {"posted", "ingest", "opened", "minted"} \cup Ended
-----------------------------------------------------------------------------
(* The client's and the enclave's checks.                                  *)

\* documentSignatureValid by the presented key, keyBindingValid, and nonceFresh when
\* the caller expects a nonce.  The signing key itself is not compared with anything.
verifyAttestationBundle(b, expected) ==
    /\ b.signature = [by |-> b.signing, over |-> b.document]
    /\ b.document.ingress = b.ingress /\ b.document.signing = b.signing
    /\ expected => b.document.nonce = "asked"

Verified == {b \in Bundle : verifyAttestationBundle(b, TRUE)}

\* What a relay can have: signatures of its own over anything, and those of the
\* boots so far, over their own keys and, if it is the running one, any nonce.
Obtainable(b) ==
    /\ {b.ingress, b.signing, b.document.ingress, b.document.signing} \subseteq 0 .. enclave.boot
    /\ LET s == b.signature
       IN  s.by # 0 => /\ s.by <= enclave.boot
                       /\ s.over.ingress = s.by /\ s.over.signing = s.by
                       /\ s.over.nonce = "asked" => enclave.up /\ s.by = enclave.boot

parseIntent(i) == i.models # {} /\ i.models \subseteq Models

deriveCapability(id, i, blob, policy) ==
    [id |-> id, models |-> i.models, contributor |-> i.contributor,
     policy |-> policy, blob |-> blob]

\* The first check that fails, or None; the checks in the order of the code.
FirstFailing(checks) ==
    LET failed == {n \in DOMAIN checks : ~checks[n][2]}
    IN  IF failed = {} THEN None ELSE checks[CHOOSE n \in failed : \A k \in failed : n <= k][1]

authorizeCandidateAnyBlob(id, row, model, policy, boot) ==
    FirstFailing(<<
        <<"capability_signature_invalid", row.signature = [by |-> boot, over |-> row.capability]>>,
        <<"capability_id_mismatch", /\ row.capability.id = id
                                    /\ row.capability.contributor = row.contributor>>,
        <<"model_not_allowed",      model \in row.capability.models>>,
        <<"policy_not_allowed",     row.capability.policy = policy>>,
        <<"blob_decrypt_failed",    row.blob.secret # 0>> >>)

\* May the row serve a request for the model, gated under the policy, in this
\* boot?  The status is the router's and the provider the catalog's.
authorizeCandidate(id, row, model, policy, boot) ==
    FirstFailing(<<
        <<"capability_signature_invalid", row.signature = [by |-> boot, over |-> row.capability]>>,
        <<"capability_id_mismatch", /\ row.capability.id = id
                                    /\ row.capability.contributor = row.contributor>>,
        <<"blob_digest_mismatch",   row.capability.blob = row.blob>>,
        <<"model_not_allowed",      model \in row.capability.models>>,
        <<"policy_not_allowed",     row.capability.policy = policy>>,
        <<"blob_decrypt_failed",    row.blob.secret # 0>> >>)
-----------------------------------------------------------------------------
Init ==
    /\ page = [step |-> "capability", bundle |-> {}, busy |-> "no",
               owner |-> 0, chosen |-> {}, call |-> 0, created |-> {}]
    /\ calls = <<>> /\ contributors = 0 /\ credentials = [c \in {} |-> <<>>]
    /\ enclave = [boot |-> 1, up |-> TRUE, consumed |-> {}, health |-> 0]
    /\ guest = 1 /\ sealed = <<>> /\ signed = {}

(* The page.                                                               *)

PageOnly == UNCHANGED <<calls, contributors, credentials, enclave, guest, sealed, signed>>

Continue ==
    /\ page.step = "capability"
    /\ page' = [page EXCEPT !.step = "attest"]
    /\ PageOnly

verifyEnclave ==
    /\ page.step = "attest" /\ page.busy = "no"
    /\ page' = [page EXCEPT !.busy = "attestation"]
    /\ PageOnly

\* The relay answers with the running enclave's bundle, or with one it has put
\* together, and the page's checks pass.
AttestationArrives ==
    /\ page.busy = "attestation"
    /\ \E b \in Verified :
         /\ Obtainable(b)
         /\ page' = [page EXCEPT !.busy = "no", !.step = "key", !.bundle = {b}]
    /\ PageOnly

\* No answer, or one that a check refuses: it is shown on the page, and nothing else
\* is done with it.
AttestationFails ==
    /\ page.busy = "attestation"
    /\ page' = [page EXCEPT !.busy = "no"]
    /\ PageOnly

\* Whether the key field's bundle still verifies, as submit asks again.
attestationVerified == \E b \in page.bundle : verifyAttestationBundle(b, TRUE)

\* submit, up to contributeCredential.  The models are those selected at this
\* click: any, since they can be toggled in every step, and every answer of the
\* catalog poll is a new array that resets them to the first.  A new contributor
\* has a row even when the answer with its id is lost.
Submit ==
    /\ page.step = "key" /\ page.busy = "no" /\ attestationVerified
    /\ \E models \in Selections :
         LET Sealing(who) == [page EXCEPT !.busy = "sealing", !.owner = who, !.chosen = models]
         IN  \/ page' \in {Sealing(who) : who \in 1 .. contributors} /\ UNCHANGED contributors
             \/ /\ contributors < MaxContributors
                /\ contributors' = contributors + 1
                /\ page' \in {page, Sealing(contributors')}
    /\ UNCHANGED <<calls, credentials, enclave, guest, sealed, signed>>

NewCall(env, id, contributor) ==
    [env |-> env, id |-> id, contributor |-> contributor, phase |-> "posted",
     alive |-> TRUE, minted |-> {}]

\* A fresh id, nonce and secret, sealed to the bundle's ingress key, and posted;
\* the relay may name another credential or contributor in the body.  The bundle
\* is verified again, this time without the nonce.
contributeCredential ==
    /\ page.busy = "sealing"
    /\ \E b \in page.bundle :
         IF verifyAttestationBundle(b, FALSE) /\ Len(sealed) < MaxEnvelopes /\ Len(calls) < MaxCalls
         THEN /\ sealed' = Append(sealed, [key |-> b.ingress, models |-> page.chosen,
                                           contributor |-> page.owner])
              /\ \E id \in DOMAIN sealed', who \in 1 .. contributors :
                   calls' = Append(calls, NewCall(Len(sealed'), id, who))
              /\ page' = [page EXCEPT !.busy = "posting", !.owner = 0, !.chosen = {},
                                      !.call = Len(calls')]
         ELSE /\ page' = [page EXCEPT !.busy = "no", !.owner = 0, !.chosen = {}]
              /\ UNCHANGED <<sealed, calls>>
    /\ UNCHANGED <<contributors, credentials, enclave, guest, signed>>

\* The relay posts an envelope again.
Repeat ==
    /\ Len(calls) < MaxCalls
    /\ \E e \in DOMAIN sealed, who \in 1 .. contributors :
         calls' = Append(calls, NewCall(e, e, who))
    /\ UNCHANGED <<page, contributors, credentials, enclave, guest, sealed, signed>>

PageAnsweredStillBusy ==
    /\ page.call # 0
    /\ LET c == calls[page.call]
       IN  \/ /\ c.phase = "stored"
              /\ page' = [page EXCEPT !.step = "done", !.busy = "no", !.call = 0,
                                      !.created = c.minted]
           \/ /\ c.phase \in {"refused", "dead"}
              /\ page' = [page EXCEPT !.call = 0]
    /\ PageOnly

\* The post ends: step 4 with the capability, or an error.
PageAnswered ==
    /\ page.call # 0
    /\ LET c == calls[page.call]
       IN  \/ /\ c.phase = "stored"
              /\ page' = [page EXCEPT !.step = "done", !.busy = "no", !.call = 0,
                                      !.created = c.minted]
           \/ /\ c.phase \in {"refused", "dead"}
              /\ page' = [page EXCEPT !.busy = "no", !.call = 0]
    /\ PageOnly

AnswerLost ==
    /\ page.call # 0
    /\ page' = [page EXCEPT !.busy = "no", !.call = 0]
    /\ PageOnly

\* Step 3 is reached again only with a new bundle.
ContributeAnother ==
    /\ page.step = "done"
    /\ page' = [page EXCEPT !.step = "capability", !.created = {}, !.bundle = {}]
    /\ PageOnly
-----------------------------------------------------------------------------
(* POST /v1/credentials and POST /credentials/ingest.                      *)

\* A handler that has ended keeps nothing but its answer.
To(c, phase) ==
    calls' = [calls EXCEPT ![c] =
      IF phase \in Ended
      THEN [NewCall(0, 0, 0) EXCEPT !.phase = phase,
                                    !.minted = IF phase = "stored" THEN calls[c].minted ELSE {}]
      ELSE [@ EXCEPT !.phase = phase]]

\* Up to the await of ingestCredential.
CheckCall(c) ==
    /\ calls[c].phase = "posted"
    /\ To(c, IF calls[c].contributor <= contributors /\ calls[c].id \notin DOMAIN credentials
             THEN "ingest" ELSE "refused")
    /\ UNCHANGED <<page, contributors, credentials, enclave, guest, sealed, signed>>

\* The enclave's handler up to the await of getGuestHealth.
Opens(c) ==
    LET e == sealed[calls[c].env]
    IN  /\ e.key = enclave.boot
        /\ parseIntent(e)
        /\ calls[c].env = calls[c].id
        /\ calls[c].env \notin enclave.consumed

Open(c) ==
    /\ calls[c].phase = "ingest"
    /\ To(c, IF enclave.up /\ Opens(c) THEN "opened" ELSE "refused")
    /\ UNCHANGED <<page, contributors, credentials, enclave, guest, sealed, signed>>

\* The policy id is known (asked for once, then cached): the secret is encrypted,
\* the capability derived and signed, the intent consumed.  The coordinator that
\* asked may be gone.
Mint(c) ==
    /\ calls[c].phase = "opened"
    /\ LET policy == IF enclave.health = 0 THEN guest ELSE enclave.health
           blob   == [secret |-> calls[c].env, iv |-> Cardinality(signed) + 1]
           answer == [by |-> enclave.boot, over |->
                        deriveCapability(calls[c].env, sealed[calls[c].env], blob, policy)]
       IN  /\ enclave' = [enclave EXCEPT !.health = policy, !.consumed = @ \cup {calls[c].env}]
           /\ signed' = signed \cup {answer}
           /\ IF calls[c].alive
              THEN calls' = [calls EXCEPT ![c].phase = "minted", ![c].minted = {answer}]
              ELSE To(c, "dead")
    /\ UNCHANGED <<page, contributors, credentials, guest, sealed>>

\* The daemon cannot be reached and nothing is cached: 503, nothing is consumed.
MintUnavailable(c) ==
    /\ calls[c].phase = "opened" /\ enclave.health = 0
    /\ To(c, "refused")
    /\ UNCHANGED <<page, contributors, credentials, enclave, guest, sealed, signed>>

\* The enclave's answer is lost on its way: 503, and the intent stays consumed.
MintedLost(c) ==
    /\ calls[c].phase = "minted"
    /\ To(c, "refused")
    /\ UNCHANGED <<page, contributors, credentials, enclave, guest, sealed, signed>>

NewRow(c) ==
    LET s == CHOOSE s \in calls[c].minted : TRUE
    IN  [contributor |-> calls[c].contributor, blob |-> s.over.blob,
         capability |-> s.over, signature |-> s]

Named(c) == \A s \in calls[c].minted : s.over.contributor = calls[c].contributor

StoreBlobOverKnown(c) ==
    /\ calls[c].phase = "minted"
    /\ IF Named(c)
       THEN /\ To(c, "stored")
            /\ credentials' = [i \in DOMAIN credentials \cup {calls[c].id} |->
                 IF i # calls[c].id THEN credentials[i]
                 ELSE IF i \notin DOMAIN credentials THEN NewRow(c)
                 ELSE [credentials[i] EXCEPT !.blob = NewRow(c).blob]]
       ELSE To(c, "refused") /\ UNCHANGED credentials
    /\ UNCHANGED <<page, contributors, enclave, guest, sealed, signed>>

\* Another contributor inside is refused, and a row that has appeared meanwhile
\* makes the INSERT throw; in both cases the intent stays consumed.
Store(c) ==
    /\ calls[c].phase = "minted"
    /\ IF Named(c) /\ calls[c].id \notin DOMAIN credentials
       THEN /\ To(c, "stored")
            /\ credentials' = [i \in DOMAIN credentials \cup {calls[c].id} |->
                 IF i = calls[c].id THEN NewRow(c) ELSE credentials[i]]
       ELSE To(c, "refused") /\ UNCHANGED credentials
    /\ UNCHANGED <<page, contributors, enclave, guest, sealed, signed>>
-----------------------------------------------------------------------------
(* Restarts, a new guest image, and what a coordinator may present.        *)

\* The enclave's handlers end with it, and the coordinator answers 503.
EnclaveGone == calls' = [c \in DOMAIN calls |->
    IF calls[c].phase \in {"ingest", "opened"}
    THEN [NewCall(0, 0, 0) EXCEPT !.phase = IF calls[c].alive THEN "refused" ELSE "dead"]
    ELSE calls[c]]

\* boot(): new ingress and signing keys and an empty memory; the vault's key is on
\* disk and released to the same measurement.
EnclaveRestart ==
    /\ enclave.up /\ enclave.boot < MaxBoots
    /\ enclave' = [enclave EXCEPT !.boot = @ + 1, !.consumed = {}, !.health = 0]
    /\ EnclaveGone
    /\ UNCHANGED <<page, contributors, credentials, guest, sealed, signed>>

\* A build with another measurement is refused the vault's key and does not start.
EnclaveRefused ==
    /\ enclave.up
    /\ enclave' = [enclave EXCEPT !.up = FALSE]
    /\ EnclaveGone
    /\ UNCHANGED <<page, contributors, credentials, guest, sealed, signed>>

\* What the enclave is doing for the coordinator goes on without it.
CoordinatorCrash ==
    /\ \E c \in DOMAIN calls : calls[c].alive /\ calls[c].phase \notin Ended
    /\ calls' = [c \in DOMAIN calls |->
         IF calls[c].phase \in {"posted", "minted"}
         THEN [NewCall(0, 0, 0) EXCEPT !.phase = "dead"]
         ELSE [calls[c] EXCEPT !.alive = calls[c].phase \in Ended]]
    /\ UNCHANGED <<page, contributors, credentials, enclave, guest, sealed, signed>>

\* The prove daemon is deployed with another policy.
GuestRedeployed ==
    /\ guest = 1
    /\ guest' = 2
    /\ UNCHANGED <<page, calls, contributors, credentials, enclave, sealed, signed>>

\* The rows that the coordinator may send to /execute as candidates: parts of all
\* it was ever answered, put together at will, and capabilities of its own making.
Presented ==
    LET known == {s.over : s \in signed}
    IN  [contributor : 1 .. contributors,
         blob : {c.blob : c \in known} \cup {[secret |-> 0, iv |-> 1]},
         capability : known \cup {[c EXCEPT !.models = Models] : c \in known},
         signature : signed]

Handler(c) ==
    c \in DOMAIN calls /\ (CheckCall(c) \/ Open(c) \/ Mint(c) \/ MintUnavailable(c) \/ Store(c))

Next ==
    \/ Continue \/ verifyEnclave
    \/ AttestationArrives \/ AttestationFails \/ Submit \/ contributeCredential
    \/ Repeat \/ PageAnswered \/ AnswerLost \/ ContributeAnother
    \/ \E c \in DOMAIN calls : Handler(c) \/ MintedLost(c)
    \/ EnclaveRestart \/ EnclaveRefused \/ CoordinatorCrash \/ GuestRedeployed

\* Handlers run to their end, as the fetches in them do, and the page's
\* continuations run.  Nobody has to click, to lose a message or to restart.
Fairness ==
    /\ WF_vars(AttestationArrives \/ AttestationFails)
    /\ WF_vars(contributeCredential)
    /\ WF_vars(PageAnswered)
    /\ \A c \in 1 .. MaxCalls : WF_vars(Handler(c))

Spec == Init /\ [][Next]_vars /\ Fairness
-----------------------------------------------------------------------------
(* Properties.                                                             *)

\* Types, and that an intent is consumed only with an answer to show for it: the 503
\* of an unreachable daemon must not spend it (tee-sim index.ts:327).
TypeOK ==
    /\ page \in [step : {"capability", "attest", "key", "done"}, bundle : SUBSET Bundle,
                 busy : {"no", "attestation", "sealing", "posting"},
                 owner : 0 .. MaxContributors, chosen : SUBSET Models, call : 0 .. MaxCalls,
                 created : SUBSET signed]
    /\ Cardinality(page.bundle) <= 1
    /\ \A c \in DOMAIN calls :
         /\ calls[c].phase \in Phase
         /\ calls[c].phase \in {"minted", "stored"} <=> calls[c].minted # {}
    /\ DOMAIN credentials \subseteq DOMAIN sealed
    /\ \A i \in DOMAIN credentials : credentials[i] \in Row
    /\ \A i \in DOMAIN sealed : sealed[i] \in Intent
    /\ signed \subseteq Signature
    /\ enclave.consumed \subseteq {s.over.id : s \in signed}

\* authorize.ts:199 "an untrusted coordinator cannot widen allowedModels, swap the
\* provider, or reassign ownership undetected".  A candidate that the enclave accepts
\* is, in owner, model and key, what a browser sealed under its id for that boot,
\* whatever the coordinator puts together from overlapping and repeated ingests of
\* all boots.
AuthorizedIsSealed ==
    \A id \in 1 .. MaxEnvelopes, row \in Presented, m \in Models, policy \in {1, 2} :
      authorizeCandidate(id, row, m, policy, enclave.boot) = None =>
        /\ id \in DOMAIN sealed
        /\ row.contributor = sealed[id].contributor
        /\ m \in sealed[id].models
        /\ row.blob.secret = id
        /\ sealed[id].key = enclave.boot

\* contribute/page.tsx:438 "Your capacity is live on the network": when the page says
\* so, there is a row with the capability it shows, and in the boot that signed it the
\* enclave accepts that row for every model the contributor chose; also when another
\* delivery of the same envelope was minted in between, with another blob.  It says so
\* of no key that was sealed to a relay's key or to one of another boot.
DoneIsUsable ==
    \A s \in page.created :
      /\ sealed[s.over.id].key = s.by
      /\ s.over.id \in DOMAIN credentials
      /\ \A m \in sealed[s.over.id].models :
           authorizeCandidate(s.over.id, credentials[s.over.id], m, s.over.policy, s.by) = None

\* page.tsx:115 and :161 (finally): whatever fails on the way, restarts of both
\* processes included, a page that is busy with a contribution becomes usable again.
SubmitEnds == page.busy # "no" ~> page.busy = "no"
=============================================================================
