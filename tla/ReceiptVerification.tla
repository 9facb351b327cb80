------------------------ MODULE ReceiptVerification ------------------------
(***************************************************************************)
(* Who checks a policy receipt, and what each of them checks, in its own   *)
(* order: the reference verifier prover/verify, the TypeScript verifier    *)
(* packages/verify, the enclave's use of the first as a subprocess, its    *)
(* check of a compute receipt, and the verify-receipt script that combines *)
(* them.  Pure operators over a file that may be damaged, mixed up or      *)
(* produced by another image.                                              *)
(*                                                                         *)
(* Identities are relative to one release and one request: "pinned" is the *)
(* value of the release, "own" the value of the request.  A digest or a    *)
(* signature is modelled by what it covers.                                *)
(***************************************************************************)
EXTENDS Integers, Sequences, FiniteSets, SequencesExt

\* prover/release.json: every field, and how it may be wrong.
ManifestField ==
    [form        : {"good", "unknown field", "empty builtAt"},
     imageIdHex  : {"pinned", "malformed"},
     manifestPolicy : {"pinned", "other", "malformed"},
     rulesDigest : {"pinned", "other", "malformed"},
     journalVersion : {"1", "2", "absent"},
     receiptCodec   : {"bincode-v1", "other", "absent"}]

\* The journal inside the receipt.
JournalField ==
    [object      : {"yes", "no"},
     keys        : {"exact", "extra", "missing"},
     protocolVersion : {"1", "2"},
     decision    : {"ALLOW", "DENY", "neither"},
     requestCommitment : {"own", "other", "malformed"},
     proofNonce  : {"own", "other", "malformed"},
     policyId    : {"pinned", "other", "malformed"}]

\* The receipt file: its frame at the end, the STARK body, what follows it, its
\* kind, the image its claim names and the claim and journal its seal covers.
FileField ==
    [frame    : {"intact", "broken"},
     body     : {"intact", "garbled"},
     trailing : {"none", "bytes"},
     inner    : {"composite", "groth16", "fake"},
     claim    : {"pinned", "other", "unreadable"}]

\* What the verifier finds on its machine: the policy files and its own binary.
HostField ==
    [policyDir : {"match", "other manifest", "other rules", "unreadable", "uncanonical"},
     binary    : {"present", "missing", "killed"},
     release   : {"readable", "unreadable"}]

Manifest == [form |-> "good", imageIdHex |-> "pinned", manifestPolicy |-> "pinned",
             rulesDigest |-> "pinned", journalVersion |-> "1",
             receiptCodec |-> "bincode-v1"]

GoodHost == [policyDir |-> "match", binary |-> "present", release |-> "readable"]

\* What the image commits for a request (PolicyJournalV1).
Journal(decision, commitment, nonce) ==
    [object |-> "yes", keys |-> "exact", protocolVersion |-> "1", decision |-> decision,
     requestCommitment |-> commitment, proofNonce |-> nonce, policyId |-> "pinned"]

\* A receipt as an image produces it.
Receipt(journal, claim, inner) ==
    [file   |-> [frame |-> "intact", body |-> "intact", trailing |-> "none",
                 inner |-> inner, claim |-> claim],
     journal |-> journal,
     sealed |-> [claim |-> claim, journal |-> journal]]

\* Receipt::verify: the seal covers this claim and this journal, and is real.
SealValid(r) ==
    /\ r.file.inner # "fake"
    /\ r.file.claim = "pinned"
    /\ r.sealed = [claim |-> r.file.claim, journal |-> r.journal]

None == "none"

NoExpectations == [commitment |-> None, decision |-> None, proofNonce |-> None]

Meets(expected, actual) == expected = None \/ expected = actual

\* The name of the first check that does not hold.
FirstFailure(checks) ==
    LET failed == {i \in DOMAIN checks : ~checks[i][2]}
    IN  IF failed = {} THEN None
        ELSE checks[CHOOSE i \in failed : \A j \in failed : i <= j][1]
-----------------------------------------------------------------------------
(* prover/verify *)

check_manifest(m) ==
    /\ m.form = "good"
    /\ m.imageIdHex # "malformed" /\ m.manifestPolicy # "malformed"
    /\ m.rulesDigest # "malformed"
    /\ m.journalVersion = "1"
    /\ m.receiptCodec # "absent"

check_receipt(m, r) ==
    << <<"receipt-codec", m.receiptCodec = "bincode-v1">>,
       <<"receipt-decodes", /\ r.file.frame = "intact" /\ r.file.body = "intact"
                            /\ r.file.trailing = "none">>,
       <<"image-id", r.file.claim = m.imageIdHex>>,
       <<"seal", SealValid(r)>> >>

check_journal(m, j) ==
    << <<"journal-parses", j.object = "yes">>,
       <<"journal-key-set", j.keys = "exact">>,
       <<"journal-protocol-version", j.protocolVersion = m.journalVersion>>,
       <<"journal-decision", j.decision \in {"ALLOW", "DENY"}>>,
       <<"journal-request-commitment", j.requestCommitment # "malformed">>,
       <<"journal-proof-nonce", j.proofNonce # "malformed">>,
       <<"policy-id", j.policyId # "malformed" /\ j.policyId = m.manifestPolicy>> >>

\* A directory that cannot be read or canonicalised is a failure.  The files of
\* another manifest derive another policyId, other rules both identities.
check_rules_digest(m, dir) ==
    \/ dir = "match" /\ m.manifestPolicy = "pinned" /\ m.rulesDigest = "pinned"
    \/ dir = "other manifest" /\ m.manifestPolicy = "other" /\ m.rulesDigest = "pinned"
    \/ dir = "other rules" /\ m.manifestPolicy = "other" /\ m.rulesDigest = "other"

check_expectations(j, e) ==
    << <<"expect-commitment", Meets(e.commitment, j.requestCommitment)>>,
       <<"expect-decision", Meets(e.decision, j.decision)>>,
       <<"expect-proof-nonce", Meets(e.proofNonce, j.proofNonce)>> >>

\* run_checks, up to its first failure.
run_checks(m, r, host, e) ==
    FirstFailure(<< <<"manifest", check_manifest(m)>> >>
                   \o check_receipt(m, r) \o check_journal(m, r.journal)
                   \o << <<"rules-digest", check_rules_digest(m, host.policyDir)>> >>
                   \o check_expectations(r.journal, e))

\* main of prover-verify, as runReferenceVerify and the script spawn it: with
\* --policy-dir, and RISC0_DEV_MODE removed from its environment.
prover_verify(m, r, host, e) ==
    CASE host.release = "unreadable"          -> 2
      [] host.release = "readable"
           /\ run_checks(m, r, host, e) = None -> 0
      [] OTHER                                -> 1

runReferenceVerifyUnbound(m, r, host, e) ==
    host.binary = "present" /\ prover_verify(m, r, host, NoExpectations) = 0

\* tee-sim's runReferenceVerify: every way not to get an exit code is a failure.
runReferenceVerify(m, r, host, e) ==
    host.binary = "present" /\ prover_verify(m, r, host, e) = 0
-----------------------------------------------------------------------------
(* packages/verify: the same names in the same order.  It frames the        *)
(* journal from the end of the file and cannot see the body, the claim or   *)
(* the seal; those are delegated and never fail here.                       *)

\* frameJournal finds a JSON object directly before the metadata trailer.
frameJournal(r) == /\ r.file.frame = "intact" /\ r.file.trailing = "none"
                   /\ r.journal.object = "yes"

VersionOrDefault(m) == IF m.journalVersion = "absent" THEN "1" ELSE m.journalVersion

verifyReceiptUnexpecting(m, r, e) ==
    FirstFailure(
      << <<"manifest", /\ m.imageIdHex # "malformed" /\ m.manifestPolicy # "malformed"
                       /\ m.rulesDigest # "malformed" /\ VersionOrDefault(m) = "1">>,
         <<"receipt-codec", m.receiptCodec # "other">>,
         <<"receipt-decodes", frameJournal(r)>>,
         <<"seal", r.file.inner # "fake">> >>
      \o check_journal([m EXCEPT !.journalVersion = VersionOrDefault(m)], r.journal))

verifyReceipt(m, r, e) ==
    FirstFailure(
      << <<"manifest", /\ m.imageIdHex # "malformed" /\ m.manifestPolicy # "malformed"
                       /\ m.rulesDigest # "malformed" /\ VersionOrDefault(m) = "1">>,
         <<"receipt-codec", m.receiptCodec # "other">>,
         <<"receipt-decodes", frameJournal(r)>>,
         <<"seal", r.file.inner # "fake">> >>
      \o check_journal([m EXCEPT !.journalVersion = VersionOrDefault(m)], r.journal)
      \o check_expectations(r.journal, e))

\* decodeJournal: the journal, or nothing when any of its fields is off.
decodeJournal(r) ==
    IF /\ frameJournal(r)
       /\ r.journal.keys = "exact" /\ r.journal.protocolVersion = "1"
       /\ r.journal.decision \in {"ALLOW", "DENY"}
       /\ "malformed" \notin {r.journal.requestCommitment, r.journal.policyId,
                              r.journal.proofNonce}
    THEN {r.journal} ELSE {}
-----------------------------------------------------------------------------
(* Signed documents.  A signature is the key's boot and what it covers.     *)

zkArtifactDigest(r) == r

Sign(boot, content) == [by |-> boot, over |-> content]

verifyCanonical(content, signature, boot) == signature = Sign(boot, content)

\* The compute receipt's part that the checks read; the route names a
\* credential, a contributor and an attempt.
ComputeReceipt(decision, digest) ==
    [version |-> "ctn-receipt-1", requestCommitment |-> "own", policyId |-> "pinned",
     decision |-> decision, zkReceiptDigest |-> digest, route |-> "named"]

ProofBinding(decision, r) ==
    [decisionReceiptDigest |-> "own", artifactDigest |-> zkArtifactDigest(r), policyId |-> "pinned",
     decision |-> decision, proofVerified |-> TRUE]

DecodedJournalFreshNonce(decision) ==
    [commitment |-> "own", decision |-> decision, proofNonce |-> "other"]

\* decodedJournal of the artifact: what the enclave expected, not what it read.
DecodedJournal(decision) ==
    [commitment |-> "own", decision |-> decision, proofNonce |-> "own"]

\* tee-sim's verifyComputeReceipt over a stored bundle.
verifyComputeReceipt(b, boot) ==
    /\ verifyCanonical(b.receipt, b.receiptSignature, boot)
    /\ b.receipt.decision = "ALLOW"
    /\ b.artifact # {} =>
         /\ \A d \in b.decoded : d.commitment = b.receipt.requestCommitment
         /\ b.receipt.policyId = "pinned"
         /\ \/ b.receipt.zkReceiptDigest = {}
            \/ b.receipt.zkReceiptDigest = b.artifact
         /\ \A s \in b.binding :
              /\ verifyCanonical(s.binding, s.signature, boot)
              /\ {s.binding.artifactDigest} = b.artifact
              /\ s.binding.policyId = b.receipt.policyId
              /\ s.binding.decisionReceiptDigest # ""
              /\ s.binding.proofVerified /\ s.binding.decision = "ALLOW"

\* POST /verify of the enclave: the artifact is held against its own claims.
verifyEndpoint(m, b, host) ==
    \A r \in b.artifact : \A d \in b.decoded : runReferenceVerify(m, r, host, d)

\* runProverVerify of the script: without the binary the seal is unconfirmed.
runProverVerify(m, r, host, e) ==
    host.binary = "present" /\ prover_verify(m, r, host, e) = 0

verifyProofArtifactTsOnly(m, r, host, e) == verifyReceipt(m, r, e) = None

verifyProofArtifact(m, r, host, e) ==
    verifyReceipt(m, r, e) = None /\ runProverVerify(m, r, host, e)

\* --receipt: a raw file, held against the release alone.
verifyRawReceipt(m, r, host) ==
    /\ host.release = "readable"
    /\ verifyReceipt(m, r, NoExpectations) = None
    /\ runProverVerify(m, r, host, NoExpectations)

BindingAccepted(s, r, policyId, boot) ==
    /\ verifyCanonical(s.binding, s.signature, boot)
    /\ s.binding.artifactDigest = zkArtifactDigest(r)
    /\ s.binding.policyId = policyId
    /\ s.binding.proofVerified

\* The policy id that GET /attestation reports: loadPolicyPackage's, which hashes
\* a guest image id as well, and never the guest's.
AttestedPolicyId == "package"

\* scripts/verify-receipt.ts on a bundle: what it checks of the receipt, of the
\* proof, and of the route and the words.  `boot` is the enclave's current key, which it fetches.  The
\* decision and the nonce it expects of the proof are the artifact's own; the
\* commitment is the signed receipt's.
ScriptReceipt(b, boot) ==
    /\ verifyCanonical(b.receipt, b.receiptSignature, boot)
    /\ b.receipt.version = "ctn-receipt-1"
    /\ b.receipt.decision = "ALLOW"
    /\ b.receipt.policyId = AttestedPolicyId
    /\ b.receipt.requestCommitment # "malformed"

ScriptProof(m, b, host, boot) ==
    /\ host.release = "readable"
    /\ \A r \in b.artifact : \A d \in b.decoded :
         /\ verifyProofArtifact(m, r, host, [d EXCEPT !.commitment = b.receipt.requestCommitment])
         /\ \A s \in b.binding : BindingAccepted(s, r, b.receipt.policyId, boot)

\* A credential and a contributor are named, and no forbidden word is in the
\* receipt, the artifact or the binding.
ScriptRoute(b) == b.receipt.route = "named" /\ b.words = {}

\* Its exit code is 0.
verifyReceiptScript(m, b, host, boot) ==
    ScriptReceipt(b, boot) /\ ScriptProof(m, b, host, boot) /\ ScriptRoute(b)
=============================================================================
