--------------------------- MODULE RequestLifecycle ---------------------------
(***************************************************************************)
(* One inference request from the HTTP call to its last database write.    *)
(* Five parties act concurrently:                                          *)
(*                                                                         *)
(*   - the coordinator's handler of the request (runSecureRequest), which  *)
(*     awaits the enclave twice and writes the request's row;              *)
(*   - the coordinator's proof watcher (watchProof), which polls the       *)
(*     enclave and writes the SAME row;                                    *)
(*   - the enclave (tee-sim): /gate, /execute, its nonce memory and the    *)
(*     gates it has parked; a restart forgets all of it, keys included;    *)
(*   - the enclave's prover (Prover.run), one asynchronous run per gated   *)
(*     request;                                                            *)
(*   - the prove daemon, seen through JobBoard.                            *)
(*                                                                         *)
(* Between two awaits a JavaScript handler runs alone, so the code between *)
(* two awaits is one action.  The database outlives a crash of the         *)
(* coordinator; handlers and watchers do not.                              *)
(*                                                                         *)
(* The module assumes fewer live nonces than NONCE_MAX: rememberNonce      *)
(* never has to drop one.                                                  *)
(***************************************************************************)
EXTENDS Integers

CONSTANTS
  Requests,       \* request ids posted to the coordinator
  Direct,         \* request ids posted straight to the enclave's /execute
  Envelopes,      \* sealed envelopes, each with its nonce
  MaxCandidates,  \* bound of the model: candidates that discovery returns
  MaxBoots,       \* bound of the model: starts of the enclave
  MaxCrashes      \* bound of the model: crashes of the coordinator

ASSUME IdsAssumption == Requests \cap Direct = {}

ASSUME BoundsAssumption ==
  MaxCandidates \in Nat /\ MaxBoots \in Nat \ {0} /\ MaxCrashes \in Nat

Ids == Requests \cup Direct

VARIABLES
  env, mode, verdict, sealed,       \* the callers' choices, never changed
  row,                              \* the coordinator's tables, by request
  pc, watch,                        \* the coordinator's handlers and watchers
  rpc, left,                        \* calls to the enclave; candidates to try
  seen, parked, record, run, boot,  \* the enclave
  board,                            \* the prove daemon
  sends, attempted,                 \* history: upstream calls, attempts begun,
  threw,                            \*   requests whose accounting threw,
  checked, crashes                  \*   passed checks, crashes

world == <<env, mode, verdict, sealed>>
enclave == <<seen, parked, record, run, boot>>
history == <<sends, attempted, threw, checked, crashes>>
vars == <<env, mode, verdict, sealed, row, pc, watch, rpc, left, seen, parked,
          record, run, boot, board, sends, attempted, threw, checked, crashes>>

Daemon == INSTANCE JobBoard WITH Jobs <- Ids

Settled == {"DENIED", "FAILED", "COMPLETE"}
ProofStatus == {"QUEUED", "PROVING", "GENERATED", "VERIFIED", "FAILED"}
ProofFinal == {"VERIFIED", "FAILED"}

\* Where a call is inside the enclave, and what the enclave answered.
InEnclave == {"gate_in", "gate_eval", "exec_in", "exec_eval", "exec_run", "exec_wait"}
Answer == {"ALLOW", "DENY", "DENIED", "COMPLETE", "FAILED", "UNKNOWN",
           "REJECTED", "UNAVAILABLE", "DOWN"}

RowStatus == {"NONE", "RECEIVED"} \cup Settled
RowProof == {"NOT_REQUIRED"} \cup ProofStatus
TrustStatus == {"NONE", "SIMULATED", "COMPATIBILITY", "CONFIDENTIAL_PROOF_PENDING",
                "CONFIDENTIAL_PROOF_FAILED", "CONFIDENTIAL_VERIFIED"}

Row == [status   : RowStatus,
        proof    : RowProof,
        trust    : TrustStatus,
        decision : {"NONE", "ALLOW", "DENY"},
        attempts : BOOLEAN,
        usage    : {0, 1},
        receipt  : BOOLEAN]

NoRow == [status |-> "NONE", proof |-> "NOT_REQUIRED", trust |-> "NONE",
          decision |-> "NONE", attempts |-> FALSE, usage |-> 0, receipt |-> FALSE]

TypeOK ==
  /\ env \in [Ids -> Envelopes]
  /\ mode \in [Requests -> {"secure", "compatibility"}]
  /\ verdict \in [Envelopes -> {"ALLOW", "DENY", "BAD"}]
  /\ sealed \in [Envelopes -> 1..MaxBoots]
  /\ row \in [Requests -> Row]
  /\ pc \in [Requests -> {"idle", "gating", "allowed", "denied", "executing", "done"}]
  /\ watch \in [Requests -> {"off", "sleep", "UNAVAILABLE"} \cup ProofStatus]
  /\ rpc \in [Ids -> {"none"} \cup InEnclave \cup Answer]
  /\ left \in [Ids -> 0..MaxCandidates]
  /\ seen \in SUBSET Envelopes
  /\ parked \in SUBSET Requests
  /\ record \in [Ids -> {"NONE"} \cup ProofStatus]
  /\ run \in [Ids -> {"none", "enqueue", "poll", "verify"}]
  /\ boot \in 1..MaxBoots
  /\ board \in [Ids -> Daemon!BoardStatus]
  /\ sends \in [Ids -> Nat]
  /\ attempted \in SUBSET Ids
  /\ threw \in SUBSET Requests
  /\ checked \in SUBSET Ids
  /\ crashes \in 0..MaxCrashes

\* Two ids may carry one envelope (a replay), except that the compatibility
\* endpoint seals a fresh envelope of its own.  An envelope is sealed to the
\* key of one boot of the enclave; a BAD one does not decrypt.
Init ==
  /\ env \in [Ids -> Envelopes]
  /\ mode \in [Requests -> {"secure", "compatibility"}]
  /\ \A r \in Requests, i \in Ids :
       mode[r] = "compatibility" /\ env[i] = env[r] => i = r
  /\ verdict \in [Envelopes -> {"ALLOW", "DENY", "BAD"}]
  /\ sealed \in [Envelopes -> 1..MaxBoots]
  /\ row = [r \in Requests |-> NoRow]
  /\ pc = [r \in Requests |-> "idle"]
  /\ watch = [r \in Requests |-> "off"]
  /\ rpc = [i \in Ids |-> "none"]
  /\ left = [i \in Ids |-> 0]
  /\ seen = {}
  /\ parked = {}
  /\ record = [i \in Ids |-> "NONE"]
  /\ run = [i \in Ids |-> "none"]
  /\ boot = 1
  /\ Daemon!BoardInit
  /\ sends = [i \in Ids |-> 0]
  /\ attempted = {}
  /\ threw = {}
  /\ checked = {}
  /\ crashes = 0
--------------------------------------------------------------------------------
(* The coordinator's handler: runSecureRequest. *)

\* The endpoint refuses an id that has a row; otherwise the row is inserted and
\* the gate is called.  The client has sealed to a key the enclave has had.
Submit(r) ==
  /\ row[r].status = "NONE"
  /\ sealed[env[r]] <= boot
  /\ row' = [row EXCEPT ![r].status = "RECEIVED"]
  /\ pc' = [pc EXCEPT ![r] = "gating"]
  /\ rpc' = [rpc EXCEPT ![r] = "gate_in"]
  /\ UNCHANGED <<world, watch, left, enclave, board, history>>

\* Bug: only an enclave that answers is handled; a connection that breaks leaves
\* the handler.
GateFailedUncaught(r) ==
  /\ pc[r] = "gating"
  /\ rpc[r] \in {"UNAVAILABLE", "REJECTED"}
  /\ row' = [row EXCEPT ![r].status = "FAILED"]
  /\ pc' = [pc EXCEPT ![r] = "done"]
  /\ UNCHANGED <<world, watch, rpc, left, enclave, board, history>>

\* gate threw: PROVER_UNAVAILABLE, a rejection, or no enclave at all.  Each of
\* the three branches ends in FAILED and writes no decision receipt.
GateFailed(r) ==
  /\ pc[r] = "gating"
  /\ rpc[r] \in {"UNAVAILABLE", "REJECTED", "DOWN"}
  /\ row' = [row EXCEPT ![r].status = "FAILED"]
  /\ pc' = [pc EXCEPT ![r] = "done"]
  /\ UNCHANGED <<world, watch, rpc, left, enclave, board, history>>

\* Bug: the signed receipt of the verdict is kept for the end of the request.
GateVerdictUnstored(r) ==
  /\ pc[r] = "gating"
  /\ rpc[r] \in {"ALLOW", "DENY"}
  /\ pc' = [pc EXCEPT ![r] = IF rpc[r] = "ALLOW" THEN "allowed" ELSE "denied"]
  /\ rpc' = [rpc EXCEPT ![r] = "none"]
  /\ UNCHANGED <<world, row, watch, left, enclave, board, history>>

\* The verdict's signed receipt is stored; then the attestation is awaited.
GateVerdict(r) ==
  /\ pc[r] = "gating"
  /\ rpc[r] \in {"ALLOW", "DENY"}
  /\ row' = [row EXCEPT ![r].decision = rpc[r]]
  /\ pc' = [pc EXCEPT ![r] = IF rpc[r] = "ALLOW" THEN "allowed" ELSE "denied"]
  /\ rpc' = [rpc EXCEPT ![r] = "none"]
  /\ UNCHANGED <<world, watch, left, enclave, board, history>>

\* The proof's job is recorded and its watcher started, for either verdict.
\* A denied request then ends.
Denied(r) ==
  /\ pc[r] = "denied"
  /\ row' = [row EXCEPT ![r].proof = "QUEUED", ![r].status = "DENIED",
               ![r].trust = IF mode[r] = "secure" THEN "SIMULATED" ELSE "COMPATIBILITY"]
  /\ watch' = [watch EXCEPT ![r] = "sleep"]
  /\ pc' = [pc EXCEPT ![r] = "done"]
  /\ UNCHANGED <<world, rpc, left, enclave, board, history>>

NoCapacity(r) ==
  /\ pc[r] = "allowed"
  /\ row' = [row EXCEPT ![r].proof = "QUEUED", ![r].status = "FAILED"]
  /\ watch' = [watch EXCEPT ![r] = "sleep"]
  /\ pc' = [pc EXCEPT ![r] = "done"]
  /\ UNCHANGED <<world, rpc, left, enclave, board, history>>

Dispatch(r) ==
  /\ pc[r] = "allowed"
  /\ row' = [row EXCEPT ![r].proof = "QUEUED"]
  /\ watch' = [watch EXCEPT ![r] = "sleep"]
  /\ pc' = [pc EXCEPT ![r] = "executing"]
  /\ rpc' = [rpc EXCEPT ![r] = "exec_in"]
  /\ \E n \in 1..MaxCandidates : left' = [left EXCEPT ![r] = n]
  /\ UNCHANGED <<world, enclave, board, history>>

\* execute threw, or its result is neither COMPLETE nor FAILED (CTN_INTERNAL).
ExecuteFailed(r) ==
  /\ pc[r] = "executing"
  /\ rpc[r] \in {"REJECTED", "UNAVAILABLE", "DOWN", "DENIED"}
  /\ row' = [row EXCEPT ![r].status = "FAILED"]
  /\ pc' = [pc EXCEPT ![r] = "done"]
  /\ UNCHANGED <<world, watch, rpc, left, enclave, board, history>>

\* The row after the first k writes of the failure path, in the code's order:
\* the attempts the enclave reports, if there were any; for an unknown upstream
\* outcome the enclave's upper bound (recordAssumedUsage); FAILED.
FailedRow(r, k) ==
  [row[r] EXCEPT
     !.attempts = IF r \in attempted THEN TRUE ELSE @,
     !.usage    = IF k >= 2 /\ rpc[r] = "UNKNOWN" THEN 1 ELSE @,
     !.status   = IF k >= 3 THEN "FAILED" ELSE @]

AttemptsFailed(r) ==
  /\ pc[r] = "executing"
  /\ rpc[r] \in {"FAILED", "UNKNOWN"}
  /\ row' = [row EXCEPT ![r] = FailedRow(r, 3)]
  /\ pc' = [pc EXCEPT ![r] = "done"]
  /\ UNCHANGED <<world, watch, rpc, left, enclave, board, history>>

\* "Accounting is allowed to fail; it is not allowed to decide the request's
\* outcome": what recordAssumedUsage throws is logged and the request is FAILED.
AssumedUsageThrows(r) ==
  /\ pc[r] = "executing"
  /\ rpc[r] = "UNKNOWN"
  /\ row' = [row EXCEPT ![r] = [FailedRow(r, 3) EXCEPT !.usage = row[r].usage]]
  /\ pc' = [pc EXCEPT ![r] = "done"]
  /\ threw' = threw \cup {r}
  /\ UNCHANGED <<world, watch, rpc, left, enclave, board, sends, attempted, checked, crashes>>

\* Bug: the request is marked COMPLETE before its usage is booked.
CompletedRowUnbooked(r, k) ==
  [row[r] EXCEPT
     !.attempts = TRUE,
     !.usage    = IF k >= 3 THEN 1 ELSE @,
     !.status   = IF k >= 2 THEN "COMPLETE" ELSE @,
     !.trust    = IF k < 2 THEN @
                  ELSE IF mode[r] = "secure" THEN "CONFIDENTIAL_PROOF_PENDING"
                  ELSE "COMPATIBILITY",
     !.receipt  = IF k >= 4 THEN TRUE ELSE @]

\* The row after the first k writes of the success path, in the code's order:
\* attempts, recordUsage, COMPLETE with the trust status, compute receipt.
CompletedRow(r, k) ==
  [row[r] EXCEPT
     !.attempts = TRUE,
     !.usage    = IF k >= 2 THEN 1 ELSE @,
     !.status   = IF k >= 3 THEN "COMPLETE" ELSE @,
     !.trust    = IF k < 3 THEN @
                  ELSE IF mode[r] = "secure" THEN "CONFIDENTIAL_PROOF_PENDING"
                  ELSE "COMPATIBILITY",
     !.receipt  = IF k >= 4 THEN TRUE ELSE @]

Complete(r) ==
  /\ pc[r] = "executing"
  /\ rpc[r] = "COMPLETE"
  /\ row' = [row EXCEPT ![r] = CompletedRow(r, 4)]
  /\ pc' = [pc EXCEPT ![r] = "done"]
  /\ UNCHANGED <<world, watch, rpc, left, enclave, board, history>>

\* Nothing catches what recordUsage throws: at its usage row (k = 1) or at the
\* credential's counter (k = 2) it ends the handler, and the row stays RECEIVED.
RecordUsageThrows(r) ==
  /\ pc[r] = "executing"
  /\ rpc[r] = "COMPLETE"
  /\ \E k \in 1..2 : row' = [row EXCEPT ![r] = CompletedRow(r, k)]
  /\ pc' = [pc EXCEPT ![r] = "done"]
  /\ threw' = threw \cup {r}
  /\ UNCHANGED <<world, watch, rpc, left, enclave, board, sends, attempted, checked, crashes>>

\* The process dies, perhaps between two writes of a settlement, and comes back
\* with its database.  No handler and no watcher is resumed.
CoordinatorCrash ==
  /\ crashes < MaxCrashes
  /\ crashes' = crashes + 1
  /\ \/ UNCHANGED row
     \/ \E r \in Requests, k \in 1..3 :
          /\ pc[r] = "executing"
          /\ rpc[r] = "COMPLETE"
          /\ row' = [row EXCEPT ![r] = CompletedRow(r, k)]
     \/ \E r \in Requests, k \in 1..2 :
          /\ pc[r] = "executing"
          /\ rpc[r] \in {"FAILED", "UNKNOWN"}
          /\ row' = [row EXCEPT ![r] = FailedRow(r, k)]
  /\ pc' = [r \in Requests |-> IF pc[r] = "idle" THEN "idle" ELSE "done"]
  /\ watch' = [r \in Requests |-> "off"]
  /\ UNCHANGED <<world, rpc, left, enclave, board, sends, attempted, threw, checked>>
--------------------------------------------------------------------------------
(* The coordinator's watcher: watchProof.  "sleep" is the setTimeout between  *)
(* two polls; any other value is the answer poll() holds after its await.     *)

MarkFailed(r) ==
  row' = [row EXCEPT ![r].proof = "FAILED",
            ![r].trust = IF mode[r] = "secure" THEN "CONFIDENTIAL_PROOF_FAILED" ELSE @]

\* The 15-minute ceiling.  It cannot pass while the handler awaits /execute,
\* which ends within the provider's timeout of 20 seconds.
WatchCeiling(r) ==
  /\ watch[r] = "sleep"
  /\ pc[r] # "executing"
  /\ MarkFailed(r)
  /\ watch' = [watch EXCEPT ![r] = "off"]
  /\ UNCHANGED <<world, pc, rpc, left, enclave, board, history>>

\* GET /proofs/:id reads the enclave's record.  The 404 of an unknown id has no
\* error body, so the client reports it like a transport failure.
WatchPoll(r) ==
  /\ watch[r] = "sleep"
  /\ \/ record[r] # "NONE" /\ watch' = [watch EXCEPT ![r] = record[r]]
     \/ watch' = [watch EXCEPT ![r] = "UNAVAILABLE"]
  /\ UNCHANGED <<world, row, pc, rpc, left, enclave, board, history>>

\* Bug: a failed poll ends the watch instead of being tried again.
WatchHiccupGivesUp(r) ==
  /\ watch[r] = "UNAVAILABLE"
  /\ watch' = [watch EXCEPT ![r] = "off"]
  /\ UNCHANGED <<world, row, pc, rpc, left, enclave, board, history>>

WatchHiccup(r) ==
  /\ watch[r] = "UNAVAILABLE"
  /\ watch' = [watch EXCEPT ![r] = "sleep"]
  /\ UNCHANGED <<world, row, pc, rpc, left, enclave, board, history>>

\* Bug: a generated proof counts as a verified one (decoding is verification).
WatchMidFlightTrusting(r) ==
  /\ watch[r] \in ProofStatus \ ProofFinal
  /\ row' = [row EXCEPT ![r].proof = IF watch[r] = "GENERATED" THEN "VERIFIED" ELSE watch[r]]
  /\ watch' = [watch EXCEPT ![r] = "sleep"]
  /\ UNCHANGED <<world, pc, rpc, left, enclave, board, history>>

WatchMidFlight(r) ==
  /\ watch[r] \in ProofStatus \ ProofFinal
  /\ row' = [row EXCEPT ![r].proof = watch[r]]
  /\ watch' = [watch EXCEPT ![r] = "sleep"]
  /\ UNCHANGED <<world, pc, rpc, left, enclave, board, history>>

WatchFailed(r) ==
  /\ watch[r] = "FAILED"
  /\ MarkFailed(r)
  /\ watch' = [watch EXCEPT ![r] = "off"]
  /\ UNCHANGED <<world, pc, rpc, left, enclave, board, history>>

\* Bug: the trust status is raised whatever became of the request.
WatchVerifiedBlindly(r) ==
  /\ watch[r] = "VERIFIED"
  /\ row' = [row EXCEPT ![r].proof = "VERIFIED", ![r].trust = "CONFIDENTIAL_VERIFIED"]
  /\ watch' = [watch EXCEPT ![r] = "off"]
  /\ UNCHANGED <<world, pc, rpc, left, enclave, board, history>>

WatchVerified(r) ==
  /\ watch[r] = "VERIFIED"
  /\ row' = [row EXCEPT ![r].proof = "VERIFIED",
               ![r].trust = IF mode[r] = "secure" /\ row[r].status = "COMPLETE"
                            THEN "CONFIDENTIAL_VERIFIED" ELSE @]
  /\ watch' = [watch EXCEPT ![r] = "off"]
  /\ UNCHANGED <<world, pc, rpc, left, enclave, board, history>>
--------------------------------------------------------------------------------
(* The enclave: gateRequest, /gate, /execute, runDispatch.                    *)

\* Bug: the nonce is not looked up.
OpensReplayed(e) == sealed[e] = boot /\ verdict[e] # "BAD"

\* The key id, the authenticated decryption and the nonce.
Opens(e) == sealed[e] = boot /\ verdict[e] # "BAD" /\ e \notin seen

\* Prover.start and the synchronous head of Prover.run: the TypeScript engine
\* agrees with the guest, or the proof fails at once.
StartProof(i) ==
  \/ /\ record' = [record EXCEPT ![i] = "QUEUED"]
     /\ run' = [run EXCEPT ![i] = "enqueue"]
  \/ /\ record' = [record EXCEPT ![i] = "FAILED"]
     /\ UNCHANGED run

GateOpen(i) ==
  /\ rpc[i] = "gate_in"
  /\ \/ /\ Opens(env[i])
        /\ seen' = seen \cup {env[i]}
        /\ rpc' = [rpc EXCEPT ![i] = "gate_eval"]
     \/ /\ ~Opens(env[i])
        /\ rpc' = [rpc EXCEPT ![i] = "REJECTED"]
        /\ UNCHANGED seen
  /\ UNCHANGED <<world, row, pc, watch, left, parked, record, run, boot, board,
                 history>>

\* The guest answered: sign, start the proof, park an ALLOW.
GateDecide(i) ==
  /\ rpc[i] = "gate_eval"
  /\ rpc' = [rpc EXCEPT ![i] = verdict[env[i]]]
  /\ StartProof(i)
  /\ parked' = IF verdict[env[i]] = "ALLOW" THEN parked \cup {i} ELSE parked
  /\ UNCHANGED <<world, row, pc, watch, left, seen, boot, board, history>>

\* The guest is unreachable, faults, or commits to other bytes; a request that
\* cannot be canonicalised or whose routing header lies.  The nonce is spent.
GateFault(i) ==
  /\ rpc[i] \in {"gate_eval", "exec_eval"}
  /\ \E a \in {"UNAVAILABLE", "REJECTED"} : rpc' = [rpc EXCEPT ![i] = a]
  /\ UNCHANGED <<world, row, pc, watch, left, enclave, board, history>>

\* A caller that skips /gate and posts to /execute.
DirectExecute(d) ==
  /\ rpc[d] = "none"
  /\ sealed[env[d]] <= boot
  /\ rpc' = [rpc EXCEPT ![d] = "exec_in"]
  /\ \E n \in 0..MaxCandidates : left' = [left EXCEPT ![d] = n]
  /\ UNCHANGED <<world, row, pc, watch, enclave, board, history>>

\* /execute consumes the parked gate, or gates inline when there is none.
ExecOpen(i) ==
  /\ rpc[i] = "exec_in"
  /\ \/ /\ i \in parked
        /\ parked' = parked \ {i}
        /\ rpc' = [rpc EXCEPT ![i] = "exec_run"]
        /\ UNCHANGED seen
     \/ /\ i \notin parked
        /\ Opens(env[i])
        /\ seen' = seen \cup {env[i]}
        /\ rpc' = [rpc EXCEPT ![i] = "exec_eval"]
        /\ UNCHANGED parked
     \/ /\ i \notin parked
        /\ ~Opens(env[i])
        /\ rpc' = [rpc EXCEPT ![i] = "REJECTED"]
        /\ UNCHANGED <<seen, parked>>
  /\ UNCHANGED <<world, row, pc, watch, left, record, run, boot, board, history>>

ExecDecide(i) ==
  /\ rpc[i] = "exec_eval"
  /\ rpc' = [rpc EXCEPT ![i] = IF verdict[env[i]] = "ALLOW" THEN "exec_run" ELSE "DENIED"]
  /\ StartProof(i)
  /\ UNCHANGED <<world, row, pc, watch, left, seen, parked, boot, board, history>>

\* authorizeCandidate or the registry refuses the candidate: no attempt.
SkipCandidate(i) ==
  /\ rpc[i] = "exec_run"
  /\ left[i] > 0
  /\ left' = [left EXCEPT ![i] = @ - 1]
  /\ UNCHANGED <<world, row, pc, watch, rpc, enclave, board, history>>

\* adapter.complete returns before fetch (unpriced_model, egress_denied): the
\* only failures after which the loop goes on.
FailBeforeSend(i) ==
  /\ rpc[i] = "exec_run"
  /\ left[i] > 0
  /\ left' = [left EXCEPT ![i] = @ - 1]
  /\ attempted' = attempted \cup {i}
  /\ UNCHANGED <<world, row, pc, watch, rpc, enclave, board, sends, threw, checked, crashes>>

NoCandidateLeft(i) ==
  /\ rpc[i] = "exec_run"
  /\ left[i] = 0
  /\ rpc' = [rpc EXCEPT ![i] = "FAILED"]
  /\ UNCHANGED <<world, row, pc, watch, left, enclave, board, history>>

\* adapter.complete reaches fetch: prompt and key leave for the provider.
SendUpstream(i) ==
  /\ rpc[i] = "exec_run"
  /\ left[i] > 0
  /\ left' = [left EXCEPT ![i] = @ - 1]
  /\ sends' = [sends EXCEPT ![i] = @ + 1]
  /\ attempted' = attempted \cup {i}
  /\ rpc' = [rpc EXCEPT ![i] = "exec_wait"]
  /\ UNCHANGED <<world, row, pc, watch, enclave, board, threw, checked, crashes>>

\* What became of the fetch: a success, a definite failure (a redirect, an error
\* status), or an unknown outcome (an abort, a broken connection, a 200 that
\* cannot be accounted for).  Each of them ends the loop.
ProviderAnswer(i) ==
  /\ rpc[i] = "exec_wait"
  /\ \E a \in {"COMPLETE", "FAILED", "UNKNOWN"} : rpc' = [rpc EXCEPT ![i] = a]
  /\ UNCHANGED <<world, row, pc, watch, left, enclave, board, history>>

\* The provider answered, but the response cannot be sealed to the key that the
\* client put into its envelope: hpkeSeal throws into the error handler.  The
\* compatibility endpoint generates that key itself.
SealFailed(i) ==
  /\ rpc[i] = "exec_wait"
  /\ i \in Requests => mode[i] = "secure"
  /\ rpc' = [rpc EXCEPT ![i] = "REJECTED"]
  /\ UNCHANGED <<world, row, pc, watch, left, enclave, board, history>>

\* A parked gate outlives PENDING_TTL_MS: swept, reaped by an insert, dropped
\* by the count bound, or found expired by consume.
Expire(r) ==
  /\ r \in parked
  /\ parked' = parked \ {r}
  /\ UNCHANGED <<world, row, pc, watch, rpc, left, seen, record, run, boot, board,
                 history>>

\* The enclave's process restarts: new keys, empty maps, no call survives.
EnclaveRestart ==
  /\ boot < MaxBoots
  /\ boot' = boot + 1
  /\ seen' = {}
  /\ parked' = {}
  /\ record' = [i \in Ids |-> "NONE"]
  /\ run' = [i \in Ids |-> "none"]
  /\ rpc' = [i \in Ids |-> IF rpc[i] \in InEnclave THEN "DOWN" ELSE rpc[i]]
  /\ UNCHANGED <<world, row, pc, watch, left, board, history>>
--------------------------------------------------------------------------------
(* Prover.run, after its synchronous head, and the daemon it talks to.        *)

\* POST /prove: accepted, perhaps making room for it.
RunEnqueue(i) ==
  /\ run[i] = "enqueue"
  /\ Daemon!Accept(i) \/ \E k \in Ids : Daemon!AcceptForgetting(i, k)
  /\ run' = [run EXCEPT ![i] = "poll"]
  /\ UNCHANGED <<world, row, pc, watch, rpc, left, seen, parked, record, boot,
                 history>>

\* POST /prove is accepted and the answer is lost or late: the client gives up
\* after its timeout, without a retry, and the daemon proves for nobody.
RunEnqueueLost(i) ==
  /\ run[i] = "enqueue"
  /\ Daemon!Accept(i)
  /\ record' = [record EXCEPT ![i] = "FAILED"]
  /\ run' = [run EXCEPT ![i] = "none"]
  /\ UNCHANGED <<world, row, pc, watch, rpc, left, seen, parked, boot, history>>

\* GET /jobs/:id while the job is unfinished.
RunPoll(i) ==
  /\ run[i] = "poll"
  /\ board[i] \in {"QUEUED", "PROVING"}
  /\ record' = [record EXCEPT ![i] = board[i]]
  /\ UNCHANGED <<world, row, pc, watch, rpc, left, seen, parked, run, boot, board,
                 history>>

\* GET /jobs/:id answers a receipt: GENERATED, and the verifier is spawned.
RunCollect(i) ==
  /\ run[i] = "poll"
  /\ board[i] = "GENERATED"
  /\ record' = [record EXCEPT ![i] = "GENERATED"]
  /\ run' = [run EXCEPT ![i] = "verify"]
  /\ UNCHANGED <<world, row, pc, watch, rpc, left, seen, parked, boot, board,
                 history>>

\* The reference verifier exits 0.
RunVerified(i) ==
  /\ run[i] = "verify"
  /\ record' = [record EXCEPT ![i] = "VERIFIED"]
  /\ run' = [run EXCEPT ![i] = "none"]
  /\ checked' = checked \cup {i}
  /\ UNCHANGED <<world, row, pc, watch, rpc, left, seen, parked, boot, board,
                 sends, attempted, threw, crashes>>

\* fail(): a job refused, lost or failed, a daemon out of reach or in dev mode,
\* the ceiling, a receipt the verifier rejects, any exception.
RunFail(i) ==
  /\ run[i] # "none"
  /\ record' = [record EXCEPT ![i] = "FAILED"]
  /\ run' = [run EXCEPT ![i] = "none"]
  /\ UNCHANGED <<world, row, pc, watch, rpc, left, seen, parked, boot, board,
                 history>>

DaemonStep ==
  /\ (\E i \in Ids : Daemon!StartProving(i) \/ Daemon!Finish(i)) \/ Daemon!LoseAll
  /\ UNCHANGED <<world, row, pc, watch, rpc, left, enclave, history>>
--------------------------------------------------------------------------------
Handler(r) ==
  \/ GateFailed(r) \/ GateVerdict(r) \/ Denied(r) \/ NoCapacity(r) \/ Dispatch(r)
  \/ ExecuteFailed(r) \/ AttemptsFailed(r) \/ AssumedUsageThrows(r) \/ Complete(r)
  \/ RecordUsageThrows(r)

Watcher(r) ==
  WatchPoll(r) \/ WatchHiccup(r) \/ WatchMidFlight(r) \/ WatchFailed(r) \/ WatchVerified(r)

Enclave(i) ==
  \/ GateOpen(i) \/ GateDecide(i) \/ GateFault(i) \/ ExecOpen(i) \/ ExecDecide(i)
  \/ SkipCandidate(i) \/ FailBeforeSend(i) \/ NoCandidateLeft(i)
  \/ SendUpstream(i) \/ ProviderAnswer(i) \/ SealFailed(i)

Run(i) ==
  \/ RunEnqueue(i) \/ RunEnqueueLost(i) \/ RunPoll(i) \/ RunCollect(i)
  \/ RunVerified(i) \/ RunFail(i)

Next ==
  \/ \E r \in Requests : Submit(r) \/ Handler(r) \/ Watcher(r) \/ WatchCeiling(r) \/ Expire(r)
  \/ \E d \in Direct : DirectExecute(d)
  \/ \E i \in Ids : Enclave(i) \/ Run(i)
  \/ CoordinatorCrash
  \/ EnclaveRestart
  \/ DaemonStep

Spec == Init /\ [][Next]_vars

\* Event loops run what is ready; every await of the enclave ends, because its
\* own calls have timeouts (prover-client.ts, providers.ts); a watch that keeps
\* polling meets its wall-clock ceiling.
Fairness ==
  /\ \A r \in Requests :
       WF_vars(Handler(r)) /\ WF_vars(Watcher(r)) /\ SF_vars(WatchCeiling(r))
  /\ \A i \in Ids : WF_vars(Enclave(i))

FairSpec == Spec /\ Fairness
--------------------------------------------------------------------------------
(* Safety. *)

\* One envelope is sent upstream at most once, over replays under several ids,
\* callers that skip /gate, expired parks, failed attempts and restarts of the
\* enclave (which forget the nonces, but also the key): rule 5.1 of runDispatch.
SingleDispatch ==
  \A i, k \in Ids :
    /\ sends[i] <= 1
    /\ env[i] = env[k] /\ sends[i] > 0 /\ sends[k] > 0 => i = k

\* Nothing is sent without an ALLOW of the guest, and what the coordinator had
\* sent has its signed decision in the database, crashes included; a request
\* that no gate has decided is FAILED, never DENIED.
DispatchIsDecided ==
  /\ \A i \in Ids : sends[i] > 0 => verdict[env[i]] = "ALLOW"
  /\ \A r \in Requests :
       /\ sends[r] > 0 => row[r].decision = "ALLOW"
       /\ row[r].status = "DENIED" => row[r].decision = "DENY"
       /\ row[r].decision # "NONE" => row[r].decision = verdict[env[r]]

\* The books, whatever write a crash or a throw falls between: a COMPLETE request
\* was sent and is booked with its attempts; a compute receipt belongs to a
\* COMPLETE request; usage is booked for what was sent and attempts are recorded
\* for what the enclave tried.  A request that failed in the enclave has exactly
\* its attempts and, if its outcome is unknown, is booked unless the booking threw.
BooksAgree ==
  \A r \in Requests :
    /\ row[r].status = "COMPLETE" => row[r].usage = 1 /\ row[r].attempts /\ sends[r] = 1
    /\ row[r].receipt => row[r].status = "COMPLETE"
    /\ row[r].usage = 1 => row[r].attempts /\ sends[r] = 1
    /\ row[r].attempts => r \in attempted
    /\ row[r].status = "FAILED" /\ rpc[r] \in {"FAILED", "UNKNOWN"} =>
         /\ r \in attempted => row[r].attempts
         /\ rpc[r] = "UNKNOWN" => row[r].usage = 1 \/ r \in threw

\* A row says VERIFIED only after the reference verifier has passed, and claims
\* CONFIDENTIAL_VERIFIED only for a COMPLETE request of the secure endpoint; a
\* request of the compatibility endpoint never claims confidentiality.
TrustIsEarned ==
  \A r \in Requests :
    /\ row[r].proof = "VERIFIED" => r \in checked
    /\ row[r].trust = "CONFIDENTIAL_VERIFIED" =>
         row[r].proof = "VERIFIED" /\ row[r].status = "COMPLETE"
    /\ mode[r] = "compatibility" => row[r].trust \in {"NONE", "COMPATIBILITY"}

\* The handler and the watcher write one row, and neither undoes a final state
\* that the row has reached: its status, its proof status, its decision.
FinalIsFinal ==
  [][\A r \in Requests :
       /\ row[r].status \in Settled => row'[r].status = row[r].status
       /\ row[r].proof \in ProofFinal => row'[r].proof = row[r].proof
       /\ row[r].decision # "NONE" => row'[r].decision = row[r].decision]_vars

\* What the comments of runSecureRequest and watchProof say of the trust status
\* of a secure COMPLETE request: pending until the proof is verified, and a
\* failed proof is "recorded, not hidden".
TrustFollowsProof ==
  \A r \in Requests :
    mode[r] = "secure" /\ row[r].status = "COMPLETE" =>
      /\ row[r].proof = "VERIFIED" => row[r].trust = "CONFIDENTIAL_VERIFIED"
      /\ row[r].proof = "FAILED" => row[r].trust = "CONFIDENTIAL_PROOF_FAILED"
--------------------------------------------------------------------------------
(* Liveness. *)

\* While the coordinator lives, every request it accepted reaches a final
\* status, whatever the enclave does; only a recordUsage that throws leaves one
\* at RECEIVED.
RequestSettles ==
  \A r \in Requests :
    (row[r].status = "RECEIVED" /\ crashes = 0) ~>
      \/ row[r].status \in Settled
      \/ crashes > 0
      \/ r \in threw /\ rpc[r] = "COMPLETE"

\* While the coordinator lives, every proof it queued is VERIFIED or FAILED in
\* the end, though the enclave may have forgotten it.
ProofSettles ==
  \A r \in Requests :
    (row[r].proof = "QUEUED" /\ crashes = 0) ~>
      (row[r].proof \in ProofFinal \/ crashes > 0)
================================================================================
