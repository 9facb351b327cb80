--------------------------- MODULE ProofPipeline ---------------------------
(***************************************************************************)
(* One prompt on its way from the browser to a verified proof: the policy  *)
(* identity is baked into the image, the text is evaluated by the engines, *)
(* the daemon's three doors (POST /execute, --execute-stdin, POST /prove)  *)
(* run the guest on a body, the enclave gates on the journal, a receipt    *)
(* comes back, the enclave has it verified before it signs a binding, and  *)
(* the stored bundle is checked by whoever asks.  Files, manifests and     *)
(* bundles may be damaged or exchanged on the way (at most MaxFaults       *)
(* times), and the enclave may restart with new keys.                      *)
(*                                                                         *)
(* Values that later stages do not read are dropped between the stages.    *)
(***************************************************************************)
EXTENDS PolicyEngine, ReceiptVerification

CONSTANTS
    MaxText,    \* longest prompt
    MaxFaults   \* damages and exchanges in one behaviour

ASSUME PipelineAssumption == MaxText \in Nat /\ MaxFaults \in Nat

VARIABLES
    stage,      \* where the prompt is, see Stage
    manifest,   \* policy/v1/manifest.json as a set: {} once it is baked in
    text,       \* the prompt being composed
    decision,   \* the guest's verdict on the prompt
    body,       \* the body posted to the daemon, as a set
    release,    \* prover/release.json on the verifier's disk
    host,       \* the rest of the verifier's machine
    file,       \* the receipt file the daemon produced, as a set
    bundle,     \* what the coordinator stores and serves
    boot,       \* the enclave's boot, which names its signing key
    faults

vars == <<stage, manifest, text, decision, body, release, host, file, bundle, boot, faults>>

Stage == {"build", "nobuild", "compose", "submitted", "posted", "refused", "gated",
          "generated", "failed", "settled"}
-----------------------------------------------------------------------------
(* The daemon's bodies and doors.  A request nonce with a "+" has a digit  *)
(* pair such as "+f", which u8::from_str_radix reads as 0f.                *)

Body == [form         : {"json", "no content type", "not json", "schema",
                         "unknown field", "too large"},
         version      : {"1", "2"},
         proofNonce   : {"own", "malformed"},
         requestNonce : {"own", "other", "own +", "other +", "malformed"},
         b64          : {"ok", "malformed"},
         request      : {"own", "other", "unparsable", "no messages", "bad role"},
         scores       : BOOLEAN,
         executor     : {"ok", "fails"}]

Refuse(status, reason) == [status |-> status, reason |-> reason, journal |-> {}, scores |-> FALSE]

request_commitment(b) ==
    IF b.request = "own" /\ b.requestNonce \in {"own", "own +"} THEN "own" ELSE "other"

\* parse_nonce of server.rs: whatever from_str_radix takes, pair by pair ...
parse_nonce(b) == b.requestNonce # "malformed"

\* ... and that of main.rs: ASCII hex digits only.
parse_nonce_stdin(b) == b.requestNonce \in {"own", "other"}

from_json_bytes(b) ==
    CASE b.request = "unparsable"  -> "request does not parse"
      [] b.request = "no messages" -> "no messages"
      [] b.request = "bad role"    -> "bad role"
      [] OTHER                     -> None

\* The guest, on a frame a host built: its journal, or the reason it panics with.
GuestUnboundedNonce(b, emit, verdict) ==
    LET rejection == FirstFailure(<< <<"version", b.version = "1">>,
                                     <<from_json_bytes(b), from_json_bytes(b) = None>> >>)
    IN  [reason |-> rejection, scores |-> emit,
         journal |-> IF rejection # None THEN {}
                     ELSE {Journal(verdict, request_commitment(b), b.proofNonce)}]

Guest(b, emit, verdict) ==
    LET rejection == FirstFailure(<< <<"version", b.version = "1">>,
                                     <<"proof nonce", b.proofNonce # "malformed">>,
                                     <<from_json_bytes(b), from_json_bytes(b) = None>> >>)
    IN  [reason |-> rejection, scores |-> emit,
         journal |-> IF rejection # None THEN {}
                     ELSE {Journal(verdict, request_commitment(b), b.proofNonce)}]

\* execute_frame_with: a failure of the executor itself has no reason of its own.
execute_frame_with(b, emit, verdict) ==
    IF b.executor = "fails"
    THEN [reason |-> "unclassified", scores |-> FALSE, journal |-> {}]
    ELSE Guest(b, emit, verdict)

json_rejection(b) ==
    CASE b.form \in {"schema", "unknown field"} -> "body schema"
      [] OTHER                                  -> b.form

validate(b) ==
    FirstFailure(<< <<"version", b.version = "1">>,
                    <<"proof nonce", b.proofNonce # "malformed">>,
                    <<"request nonce", parse_nonce(b)>>,
                    <<"base64", b.b64 = "ok">> >>)

\* shape_response re-checks the key set and that scores came iff asked for.
shape_response(out, emit) ==
    IF /\ \A j \in out.journal : j.keys = "exact" /\ j.object = "yes"
       /\ out.scores = emit
    THEN [status |-> 200, reason |-> None, journal |-> out.journal, scores |-> out.scores]
    ELSE Refuse(500, "journal")

\* POST /execute
execute(b, verdict) ==
    LET out == execute_frame_with(b, b.scores, verdict)
    IN  CASE b.form # "json"           -> Refuse(400, json_rejection(b))
          [] b.form = "json" /\ validate(b) # None -> Refuse(400, validate(b))
          [] b.form = "json" /\ validate(b) = None /\ out.reason # None ->
               Refuse(IF out.reason = "unclassified" THEN 500 ELSE 400, out.reason)
          [] OTHER                     -> shape_response(out, b.scores)

\* One line of --execute-stdin: an unknown field is ignored, size and content
\* type do not exist, and nothing is checked before the guest but the decoding.
handle_stdin(b, verdict) ==
    LET decoded == FirstFailure(<< <<"line", b.form \notin {"not json", "schema"}>>,
                                   <<"base64", b.b64 = "ok">>,
                                   <<"request nonce", parse_nonce_stdin(b)>> >>)
        out     == execute_frame_with(b, b.scores, verdict)
    IN  CASE decoded # None                      -> Refuse(0, decoded)
          [] decoded = None /\ out.reason # None -> Refuse(0, out.reason)
          [] OTHER -> [status |-> 0, reason |-> None, journal |-> out.journal,
                       scores |-> out.scores]

\* POST /prove: accepted or not, and the journal of the job's receipt.
prove(b, verdict) ==
    CASE b.form # "json"                       -> Refuse(400, json_rejection(b))
      [] b.form = "json" /\ validate(b) # None -> Refuse(400, validate(b))
      [] OTHER -> [status |-> 202, reason |-> None, scores |-> FALSE,
                   journal |-> execute_frame_with(b, FALSE, verdict).journal]
-----------------------------------------------------------------------------
(* Damage: a record of the set S that differs from v in one field.         *)

OneOff(S, v) == {x \in S : Cardinality({f \in DOMAIN v : x[f] # v[f]}) = 1}

EmptyBundle == [receipt |-> ComputeReceipt("ALLOW", {}), receiptSignature |-> Sign(0, {}),
                artifact |-> {}, decoded |-> {}, binding |-> {}, words |-> {}]

\* What the daemon may hand over: the receipt of this job; one that the pinned
\* image made for another request, or for this one under another nonce; or one
\* that another image made about this request.  A dev-mode daemon makes fakes.
Delivered ==
    {Receipt(Journal(decision, "own", "own"), "pinned", inner) :
       inner \in {"composite", "groth16", "fake"}}
    \cup {Receipt(Journal(d, "other", "other"), "pinned", "composite") : d \in {"ALLOW", "DENY"}}
    \cup {Receipt(Journal(decision, "own", "other"), "pinned", "composite")}
    \cup {Receipt(Journal(d, "own", "own"), "other", "composite") : d \in {"ALLOW", "DENY"}}

\* The expectations of the prover: the gate's journal.
GateExpectations == [commitment |-> "own", decision |-> decision, proofNonce |-> "own"]
-----------------------------------------------------------------------------
Init ==
    /\ stage = "build" /\ manifest = {} /\ text = <<>> /\ decision = None
    /\ body = {} /\ release = Manifest /\ host = GoodHost /\ file = {}
    /\ bundle = EmptyBundle /\ boot = 1 /\ faults = 0

\* methods/guest/build.rs on some manifest: a value that is not portable stops
\* the build.
Build ==
    /\ stage = "build"
    /\ \E m \in Manifests :
         /\ manifest' = {m}
         /\ stage' = IF policy_identity(m) = {} THEN "nobuild" ELSE "build"
    /\ manifest = {}
    /\ UNCHANGED <<text, decision, body, release, host, file, bundle, boot, faults>>

\* The image is built: the service starts.
Release ==
    /\ stage = "build" /\ manifest # {}
    /\ stage' = "compose" /\ manifest' = {}
    /\ UNCHANGED <<text, decision, body, release, host, file, bundle, boot, faults>>

Type ==
    /\ stage = "compose" /\ Len(text) < MaxText
    /\ \E c \in Char : text' = Append(text, c)
    /\ UNCHANGED <<stage, manifest, decision, body, release, host, file, bundle, boot, faults>>

Submit ==
    /\ stage = "compose"
    /\ decision' = evaluate_prepared(text).decision
    /\ stage' = "submitted" /\ text' = <<>>
    /\ UNCHANGED <<manifest, body, release, host, file, bundle, boot, faults>>

\* Someone on the daemon's port posts a body; the enclave's own is the honest one.
Post ==
    /\ stage = "submitted"
    /\ \E b \in Body : body' = {b}
    /\ stage' = "posted"
    /\ UNCHANGED <<manifest, text, decision, release, host, file, bundle, boot, faults>>

\* gateRequest on the answer: fromGuestJournal fails closed on a journal about
\* other bytes, and a refusal is no verdict.
fromGuestJournal ==
    /\ stage = "posted"
    /\ \E b \in body :
         stage' = IF \E j \in execute(b, decision).journal : j.requestCommitment = "own"
                  THEN "gated" ELSE "refused"
    /\ body' = {}
    /\ UNCHANGED <<manifest, text, decision, release, host, file, bundle, boot, faults>>

\* Dispatch signs the compute receipt, with the digest if the proof is there.
ComputeReceiptSigned ==
    /\ stage \in {"gated", "generated", "settled"}
    /\ decision = "ALLOW" /\ bundle.receiptSignature = Sign(0, {}) /\ boot = 1
    /\ LET r == ComputeReceipt("ALLOW", file)
       IN  bundle' = [bundle EXCEPT !.receipt = r, !.receiptSignature = Sign(boot, r)]
    /\ UNCHANGED <<stage, manifest, text, decision, body, release, host, file, boot, faults>>

\* The poll finds a finished job: GENERATED, artifact and decoded journal set.
Generated ==
    /\ stage = "gated"
    /\ \E r \in Delivered : file' = {r}
    /\ stage' = "generated"
    /\ UNCHANGED <<manifest, text, decision, body, release, host, bundle, boot, faults>>

\* runVerify, and the binding only after it: VERIFIED or FAILED.
Bind ==
    /\ stage = "generated"
    /\ \E r \in file :
         IF runReferenceVerify(release, r, host, GateExpectations)
         THEN LET p == ProofBinding(decision, r)
              IN  /\ stage' = "settled"
                  /\ bundle' = [bundle EXCEPT
                       !.artifact = file, !.decoded = {DecodedJournal(decision)},
                       !.binding = {[binding |-> p, signature |-> Sign(boot, p)]}]
         ELSE stage' = "failed" /\ UNCHANGED bundle
    /\ UNCHANGED <<manifest, text, decision, body, release, host, file, boot, faults>>
-----------------------------------------------------------------------------
(* Faults. *)

Damaged == /\ faults < MaxFaults
           /\ faults' = faults + 1
           /\ UNCHANGED <<stage, manifest, text, decision, body, boot>>

DamageFile ==
    /\ stage = "generated" /\ Damaged
    /\ \E r \in file : \/ \E f \in OneOff(FileField, r.file) : file' = {[r EXCEPT !.file = f]}
                       \/ \E j \in OneOff(JournalField, r.journal) :
                            file' = {[r EXCEPT !.journal = j]}
    /\ UNCHANGED <<release, host, bundle>>

DamageRelease ==
    /\ stage = "generated" /\ Damaged
    /\ release' \in OneOff(ManifestField, release)
    /\ UNCHANGED <<host, file, bundle>>

DamageHost ==
    /\ stage \in {"generated", "settled"} /\ Damaged
    /\ host' \in OneOff(HostField, host)
    /\ UNCHANGED <<release, file, bundle>>

\* The stored bundle is edited, or put together from parts of another request.
DamageBundle ==
    /\ stage = "settled" /\ Damaged
    /\ \/ \E r \in Delivered : bundle' = [bundle EXCEPT !.artifact = {r}]
       \/ \E c \in {"own", "other"}, n \in {"own", "other"}, d \in {"ALLOW", "DENY"} :
            bundle' = [bundle EXCEPT !.decoded =
                         {[commitment |-> c, decision |-> d, proofNonce |-> n]}]
       \/ bundle' = [bundle EXCEPT !.binding = {}]
       \/ bundle' = [bundle EXCEPT !.artifact = {}]
       \/ bundle' = [bundle EXCEPT !.words = {"prompt"}]
       \/ \E f \in {"requestCommitment", "version", "route"} :
            bundle' = [bundle EXCEPT !.receipt[f] = "other"]
    /\ UNCHANGED <<release, host, file>>

\* A restart makes new keys; a proof that is not settled is lost with the memory.
EnclaveRestart ==
    /\ stage \in {"gated", "generated", "settled"} /\ boot = 1
    /\ boot' = boot + 1
    /\ stage' = IF stage = "settled" THEN "settled" ELSE "failed"
    /\ UNCHANGED <<manifest, text, decision, body, release, host, file, bundle, faults>>

Next ==
    \/ Build \/ Release \/ Type \/ Submit \/ Post \/ fromGuestJournal
    \/ ComputeReceiptSigned \/ Generated \/ Bind
    \/ DamageFile \/ DamageRelease \/ DamageHost \/ DamageBundle \/ EnclaveRestart

Spec == Init /\ [][Next]_vars
-----------------------------------------------------------------------------
(* Properties. *)

Serving == stage \in {"generated", "settled"}

Inserted(t, i, c) == SubSeq(t, 1, i) \o <<c>> \o SubSeq(t, i + 1, Len(t))

Genuine(r) ==
    /\ r.sealed = [claim |-> "pinned", journal |-> Journal(decision, "own", "own")]
    /\ r.journal = r.sealed.journal /\ r.file.inner # "fake"

\* The type of the state; once the guest has decided, the verdict is all that is
\* left of the prompt, and of the body once the gate has answered.
TypeOK ==
    /\ stage \in Stage
    /\ manifest \in SUBSET Manifests /\ Cardinality(manifest) <= 1
    /\ text \in Phrase /\ Len(text) <= MaxText /\ (text # <<>> => stage = "compose")
    /\ decision \in {None, "ALLOW", "DENY"}
    /\ body \in SUBSET Body /\ Cardinality(body) <= 1
    /\ body # {} => stage = "posted"
    /\ release \in ManifestField /\ host \in HostField
    /\ \A r \in file : r.file \in FileField /\ r.journal \in JournalField
    /\ boot \in {1, 2} /\ faults \in 0 .. MaxFaults

\* How the tables of Unicode 17 have a character: a separator where those of
\* Unicode 16 have nothing.
AsUnicode17(c) == IF c = "u17" THEN " " ELSE c

\* policy-core's prepared engine (proof) gives the decision, scores and matched
\* rules that engine.ts (preview) gives, on every prompt that both versions of
\* the Unicode tables read alike; on any other prompt the version is the whole
\* difference: it decides as engine.ts does once each character that only
\* Unicode 17 knows is written as the separator it folds to.  (VALIDATION.md
\* lines 747-830: the disagreement there runs both ways.)
EnginesAgree ==
    stage = "compose" =>
        /\ VersionStable(text) => evaluate_prepared(text) = evaluate(text)
        /\ evaluate_prepared(text) = evaluate(Mapped(AsUnicode17, text))

\* Writing a prompt with zero-width characters, its letters as capitals or in
\* leetspeak does not change what the guest decides on it, as long as that does
\* not part a letter from the combining mark it is composed with: NFKC runs over
\* the text before the zero-width characters go (normalize.rs:93).
ObfuscationIsFutile ==
    stage = "compose" =>
        LET v == evaluate_prepared(text)
        IN  /\ \A i \in 0 .. Len(text) : ~ComposesAt(text, i + 1) =>
                 evaluate_prepared(Inserted(text, i, "zw")) = v
            /\ \A i \in DOMAIN text :
                 /\ text[i] = "b" => evaluate_prepared([text EXCEPT ![i] = "B"]) = v
                 /\ text[i] = "s" /\ ~ComposesAt(text, i + 1) =>
                      evaluate_prepared([text EXCEPT ![i] = "$"]) = v

\* The Rust build hashes the bytes that TypeScript hashes for the same manifest
\* (there followed by a guest image id), whenever it does not refuse the build.
IdentitiesAgree ==
    \A m \in manifest : policy_identity(m) \subseteq {SubSeq(loadPolicyPackage(m), 1, 2)}

\* The doors answer alike: what /execute answers with a journal, /prove proves
\* and stdin answers with the same journal, and what stdin answers /execute
\* answers, except that only the HTTP doors take a nonce whose digit pairs have
\* a sign (server.rs:265-275 against main.rs:882-892), which stdin refuses; the
\* daemon's early checks give the reason that the guest would have given;
\* nothing malformed reaches a journal.
DoorsAgree ==
    \A b \in body :
        LET e == execute(b, decision)
            s == handle_stdin(b, decision)
            p == prove(b, decision)
        IN  /\ e.journal = p.journal
            /\ (b.form = "json" /\ b.requestNonce \notin {"own +", "other +"}) =>
                 s.journal = e.journal
            /\ (e.journal # {} /\ s.journal = {}) => s.reason = "request nonce"
            /\ (b.form = "json" /\ b.b64 = "ok" /\ b.requestNonce \in {"own", "other"}
                 /\ b.executor = "ok") => e.reason = s.reason
            /\ \A j \in e.journal \cup s.journal \cup p.journal : j.proofNonce # "malformed"

\* The TypeScript verifier accepts whatever the reference verifier accepts, and
\* decodes the same journal; where it accepts more, the difference is one of the
\* checks it leaves to the reference verifier or of the verifier's own disk.
VerifiersAgree ==
    Serving => \A r \in file \cup bundle.artifact :
        LET rs == run_checks(release, r, host, GateExpectations)
            ts == verifyReceipt(release, r, GateExpectations)
        IN  /\ rs = None => ts = None /\ decodeJournal(r) = {r.journal}
            /\ (ts = None /\ rs # None) =>
                 rs \in {"manifest", "receipt-decodes", "image-id", "seal", "rules-digest"}

\* A signed binding speaks of a receipt that the pinned image really made about
\* this request with the decision of the gate, whatever the daemon delivered.
BoundIsGenuine == \A s \in bundle.binding : Genuine(s.binding.artifactDigest)

\* verify-receipt accepts a raw receipt only if the pinned image really made it,
\* and the proof of a signed bundle only if it made it about this request and
\* decision, whatever was damaged or exchanged.
AcceptedIsGenuine ==
    /\ \A r \in file : verifyRawReceipt(release, r, host) =>
         r.file.inner # "fake" /\ r.sealed = [claim |-> "pinned", journal |-> r.journal]
    /\ (/\ stage = "settled"
        /\ verifyCanonical(bundle.receipt, bundle.receiptSignature, boot)
        /\ ScriptProof(release, bundle, host, boot)) =>
         \A r \in bundle.artifact :
            /\ r.file.inner # "fake" /\ r.sealed.claim = "pinned"
            /\ r.sealed.journal = r.journal
            /\ r.journal.requestCommitment = "own" /\ r.journal.decision = decision

\* An undamaged bundle of an allowed request: what the enclave's verifiers and
\* the script's proof checks are to accept.
Honest == stage = "settled" /\ faults = 0 /\ bundle.receiptSignature # Sign(0, {})

\* The enclave's receipt check and the script's proof checks accept an undamaged
\* bundle as long as the enclave that signed it lives, and reject it once a
\* restart has made new keys; POST /verify accepts its proof in any case.
HonestVerifies ==
    Honest => /\ verifyComputeReceipt(bundle, boot) <=> boot = 1
              /\ ScriptProof(release, bundle, host, boot) <=> boot = 1
              /\ verifyEndpoint(release, bundle, host)

\* VALIDATION.md: everything "passes and is reproducible with ... pnpm
\* verify-receipt".  The script compares the receipt's policy id, which is the
\* guest's, with the attested one, which is the TypeScript package's.
VerifyReceiptPasses ==
    (Honest /\ boot = 1) => verifyReceiptScript(release, bundle, host, boot)
=============================================================================
