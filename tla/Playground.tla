------------------------------ MODULE Playground ------------------------------
(***************************************************************************)
(* The request playground of the web application (app/playground/page.tsx, *)
(* ProofBeat.tsx) over the client library and the coordinator's read       *)
(* endpoints.                                                              *)
(*                                                                         *)
(* One tab sends requests one after the other.  Every press of the button  *)
(* starts an activation of send() with its own continuations: the awaited  *)
(* attestation, the awaited completion and pollProof.  They all write the  *)
(* same React state, and none of them is cancelled when the next send      *)
(* starts: the button is only disabled while a send is attesting,          *)
(* encrypting or in flight, so the pollers of earlier requests go on under *)
(* a later one.                                                            *)
(*                                                                         *)
(* A request is named by the number of its send.  State that only feeds a  *)
(* label (attestation, timings, proofElapsed, the gate's cost that         *)
(* loadGateWall asks for, the text of an error) is left out.  The          *)
(* coordinator's rows are what RequestLifecycle makes of them: a gate that *)
(* decides and queues the proof in one stroke, and a proof that moves      *)
(* forward to VERIFIED or FAILED while the process lives that queued it:   *)
(* after a restart the rows are there, and nobody watches them.            *)
(***************************************************************************)
EXTENDS Naturals

CONSTANTS
  MaxSends,   \* bound of the model: presses of the button
  MaxCrashes  \* bound of the model: restarts of the coordinator

ASSUME PlaygroundAssumption == MaxSends \in Nat /\ MaxCrashes \in Nat

VARIABLES
  sent,      \* how often the button has been pressed
  mode,      \* privacyMode as the closure of each send captured it
  call,      \* where each activation of send() is suspended
  poll,      \* where its pollProof is; a status is an answer on its way back
  stage, result, denied, verdict, failure, proof,   \* the page's state
  decision,  \* the coordinator: the gate's verdict on each request
  proofs,    \* the coordinator: the proofs table
  alive,     \* the requests whose handler and watcher belong to the running coordinator
  crashes    \* how often it has been restarted

page == <<stage, result, denied, verdict, failure, proof>>
tasks == <<mode, call, poll>>
rows == <<decision, proofs>>
process == <<alive, crashes>>
vars == <<sent, tasks, page, rows, process>>

Sends == 1..MaxSends
Stage == {"idle", "attesting", "encrypting", "inflight", "proving", "done", "denied", "error"}
InFlight == {"QUEUED", "PROVING", "GENERATED"}
Final == {"VERIFIED", "FAILED", "NOT_REQUIRED"}
ProofPoll == [of : Sends, proof_status : InFlight \cup Final, proof_verified : BOOLEAN]
NoProof == [of |-> 0, proof_status |-> "none", proof_verified |-> FALSE]

TypeOK ==
  /\ sent \in 0..MaxSends
  /\ mode \in [Sends -> {"secure", "compatibility"}]
  /\ call \in [Sends -> {"none", "attestation", "paint", "completion", "returned"}]
  /\ poll \in [Sends -> {"none", "asking", "sleeping", "over"} \cup InFlight \cup Final]
  /\ stage \in Stage
  /\ result \in 0..MaxSends
  /\ denied \in 0..MaxSends
  /\ verdict \in {"none", "ALLOW", "DENY"}
  /\ failure \in {"none", "error", "system"}
  /\ proof \in ProofPoll \cup {NoProof}
  /\ decision \in [Sends -> {"none", "open", "ALLOW", "DENY", "UNAVAILABLE"}]
  /\ proofs \in [Sends -> {"none"} \cup InFlight \cup {"VERIFIED", "FAILED"}]
  /\ alive \in SUBSET Sends
  /\ crashes \in 0..MaxCrashes

Init ==
  /\ sent = 0
  /\ mode = [k \in Sends |-> "secure"]
  /\ call = [k \in Sends |-> "none"]
  /\ poll = [k \in Sends |-> "none"]
  /\ stage = "idle"
  /\ result = 0 /\ denied = 0 /\ verdict = "none" /\ failure = "none"
  /\ proof = NoProof
  /\ decision = [k \in Sends |-> "none"]
  /\ proofs = [k \in Sends |-> "none"]
  /\ alive = {} /\ crashes = 0
--------------------------------------------------------------------------------
(* send() *)

\* Bug: the button comes back as soon as the prompt has been sealed.
BusySealing == stage \in {"attesting", "encrypting"}

\* While this holds the button is disabled.
Busy == stage \in {"attesting", "encrypting", "inflight"}

\* The button is pressed: the page is cleared and the attestation asked for.
Send(m) ==
  /\ ~Busy /\ sent < MaxSends
  /\ sent' = sent + 1
  /\ mode' = [mode EXCEPT ![sent + 1] = m]
  /\ call' = [call EXCEPT ![sent + 1] = "attestation"]
  /\ stage' = "attesting"
  /\ result' = 0 /\ denied' = 0 /\ verdict' = "none" /\ failure' = "none"
  /\ proof' = NoProof
  /\ UNCHANGED <<poll, rows, process>>

\* The attestation arrives and verifies for this send's nonce.
Attested(k) ==
  /\ call[k] = "attestation"
  /\ stage' = "encrypting"
  /\ call' = [call EXCEPT ![k] = "paint"]
  /\ UNCHANGED <<sent, mode, poll, result, denied, verdict, failure, proof, rows, process>>

\* After the pause the request is sealed, here or by the coordinator, and posted.
Painted(k) ==
  /\ call[k] = "paint"
  /\ stage' = "inflight"
  /\ call' = [call EXCEPT ![k] = "completion"]
  /\ decision' = [decision EXCEPT ![k] = "open"]
  /\ alive' = alive \cup {k}
  /\ UNCHANGED <<sent, mode, poll, result, denied, verdict, failure, proof, proofs, crashes>>

\* The request was allowed and completed.
Completed(k) ==
  /\ call[k] = "completion" /\ k \in alive /\ decision[k] = "ALLOW"
  /\ call' = [call EXCEPT ![k] = "returned"]
  /\ result' = k
  /\ verdict' = "ALLOW"
  /\ stage' = "proving"
  /\ poll' = [poll EXCEPT ![k] = "asking"]
  /\ UNCHANGED <<sent, mode, denied, failure, proof, rows, process>>

\* handleDenial.  The client library knows the id it has sealed the request under.  The
\* page reads the other endpoint's from the top of the body, where a denial has none:
\* runSecureRequest puts it inside the error.
Denied(k) ==
  /\ call[k] = "completion" /\ k \in alive /\ decision[k] = "DENY"
  /\ call' = [call EXCEPT ![k] = "returned"]
  /\ denied' = k
  /\ verdict' = "DENY"
  /\ stage' = "denied"
  /\ poll' = [poll EXCEPT ![k] = IF mode[k] = "secure" THEN "asking" ELSE @]
  /\ UNCHANGED <<sent, mode, result, failure, proof, rows, process>>

\* 503 CTN_PROVER_UNAVAILABLE: the gate could not run, and nothing was decided.
Unavailable(k) ==
  /\ call[k] = "completion" /\ k \in alive /\ decision[k] = "UNAVAILABLE"
  /\ call' = [call EXCEPT ![k] = "returned"]
  /\ failure' = "system"
  /\ stage' = "error"
  /\ UNCHANGED <<sent, mode, poll, result, denied, verdict, proof, rows, process>>

\* Everything else ends in the catch block: an attestation that does not come or does not
\* verify, a rejected envelope, no capacity, a provider's failure, a connection that broke.
Failed(k) ==
  /\ call[k] \in {"attestation", "completion"}
  /\ call' = [call EXCEPT ![k] = "returned"]
  /\ failure' = "error"
  /\ stage' = "error"
  /\ UNCHANGED <<sent, mode, poll, result, denied, verdict, proof, rows, process>>
--------------------------------------------------------------------------------
(* pollProof *)

\* GET /v1/requests/:id/proof reads the row, and only then awaits the enclave's
\* re-verification: the answer may be older than the row when it arrives.
ReadProof(k) ==
  /\ poll[k] = "asking"
  /\ poll' = [poll EXCEPT ![k] = IF proofs[k] = "none" THEN "NOT_REQUIRED" ELSE proofs[k]]
  /\ UNCHANGED <<sent, mode, call, page, rows, process>>

\* Bug: only a verified proof ends the loop.
TerminalVerified == {"VERIFIED"}

\* The statuses that end the loop of pollProof.
Terminal == Final

\* The updater in the finally block, whoever's poller runs it.
Settled == IF stage = "proving" THEN "done" ELSE stage

\* An answer is shown, and the loop ends or sleeps.
Polled(k) ==
  /\ poll[k] \in InFlight \cup Final
  /\ proof' = [of |-> k, proof_status |-> poll[k], proof_verified |-> poll[k] = "VERIFIED"]
  /\ poll' = [poll EXCEPT ![k] = IF poll[k] \in Terminal THEN "over" ELSE "sleeping"]
  /\ stage' = IF poll[k] \in Terminal THEN Settled ELSE stage
  /\ UNCHANGED <<sent, mode, call, result, denied, verdict, failure, rows, process>>

PollAgain(k) ==
  /\ poll[k] = "sleeping"
  /\ poll' = [poll EXCEPT ![k] = "asking"]
  /\ UNCHANGED <<sent, mode, call, page, rows, process>>

\* The call throws: the loop ends, and nothing starts it again.
PollFailed(k) ==
  /\ poll[k] \in {"asking"} \cup InFlight \cup Final
  /\ poll' = [poll EXCEPT ![k] = "over"]
  /\ stage' = Settled
  /\ UNCHANGED <<sent, mode, call, result, denied, verdict, failure, proof, rows, process>>
--------------------------------------------------------------------------------
(* The coordinator *)

\* The gate decides, and the proof of the decision is queued before anything else happens.
\* The browser may have given up on the request by then.
Gate(k, d) ==
  /\ k \in alive /\ decision[k] = "open"
  /\ decision' = [decision EXCEPT ![k] = d]
  /\ proofs' = [proofs EXCEPT ![k] = IF d = "UNAVAILABLE" THEN @ ELSE "QUEUED"]
  /\ UNCHANGED <<sent, tasks, page, process>>

\* The statuses the watcher may write next: it may miss some of the steps in between.
Later(s) ==
  CASE s = "QUEUED"    -> {"PROVING", "GENERATED", "VERIFIED", "FAILED"}
    [] s = "PROVING"   -> {"GENERATED", "VERIFIED", "FAILED"}
    [] s = "GENERATED" -> {"VERIFIED", "FAILED"}
    [] OTHER           -> {}

WatchProof(k) ==
  /\ k \in alive
  /\ \E s \in Later(proofs[k]) : proofs' = [proofs EXCEPT ![k] = s]
  /\ UNCHANGED <<sent, tasks, page, decision, process>>

\* The coordinator is restarted: its handlers and watchers are gone, its rows are not, and
\* nothing starts a watcher for the proofs that are still on their way.  A completion that it
\* was about to answer fails in the browser; a poll may fail, or fall before or after it.
CoordinatorRestart ==
  /\ crashes < MaxCrashes
  /\ crashes' = crashes + 1
  /\ alive' = {}
  /\ UNCHANGED <<sent, tasks, page, rows>>
--------------------------------------------------------------------------------
(* What the page shows *)

\* Bug: a receipt that exists counts as one that has been verified.
sealVerifiedByStatus(p) == p.proof_status \in {"GENERATED", "VERIFIED"}

\* The one source of "VERIFIED" on the page.
sealVerifiedByCoordinator(p) == p.proof_status = "VERIFIED" /\ p.proof_verified

\* The panel of ProofBeat.
Beat ==
  CASE failure = "system"                    -> "unavailable"
    [] failure # "system" /\ verdict = "none" -> "nothing"
    [] OTHER ->
         CASE proof.proof_status = "FAILED"         -> "failed"
           [] sealVerifiedByCoordinator(proof)      -> "verified"
           [] proof.proof_status = "GENERATED" /\ ~sealVerifiedByCoordinator(proof) -> "generated"
           [] proof.proof_status = "PROVING"        -> "proving"
           [] OTHER                                 -> "queued"

\* The phase of the policy proof in the timeline.
ProofPhase ==
  CASE proof.proof_status = "VERIFIED" -> "done"
    [] proof.proof_status = "FAILED"   -> "failed"
    [] proof.proof_status \in InFlight -> "active"
    [] proof.proof_status \in {"none", "NOT_REQUIRED"} ->
         IF stage \in {"proving", "denied"} \/ (stage = "done" /\ proof = NoProof) THEN "active"
         ELSE IF stage = "done" THEN "done" ELSE "idle"

\* The phases of the route and of the provider.
ServicePhase ==
  CASE stage = "denied"              -> "skipped"
    [] stage \in {"proving", "done"} -> "done"
    [] stage = "inflight"            -> "active"
    [] OTHER                         -> "idle"
--------------------------------------------------------------------------------
AttestStep(k) == Attested(k) \/ Failed(k)
AnswerStep(k) == Completed(k) \/ Denied(k) \/ Unavailable(k) \/ Failed(k)
PollStep(k) == ReadProof(k) \/ Polled(k) \/ PollAgain(k) \/ PollFailed(k)

Next ==
  \/ \E m \in {"secure", "compatibility"} : Send(m)
  \/ \E k \in Sends :
       \/ Attested(k) \/ Painted(k)
       \/ Completed(k) \/ Denied(k) \/ Unavailable(k) \/ Failed(k)
       \/ ReadProof(k) \/ Polled(k) \/ PollAgain(k) \/ PollFailed(k)
       \/ \E d \in {"ALLOW", "DENY", "UNAVAILABLE"} : Gate(k, d)
       \/ WatchProof(k)
  \/ CoordinatorRestart

Spec == Init /\ [][Next]_vars

\* Awaited calls return or throw, timers fire, and a watcher that is not killed brings its
\* proof to an end (RequestLifecycle's ProofSettles, which is about a coordinator that has not
\* crashed).
Fairness ==
  \A k \in Sends : /\ WF_vars(AttestStep(k)) /\ WF_vars(Painted(k)) /\ WF_vars(AnswerStep(k))
                   /\ WF_vars(PollStep(k)) /\ WF_vars(WatchProof(k))

FairSpec == Spec /\ Fairness
--------------------------------------------------------------------------------
(* What holds of the page *)

\* Whatever the page calls verified, in the proof panel or in the timeline, is a proof the
\* coordinator has recorded as VERIFIED, of a request of this tab that the gate has decided:
\* however late the answer of the proof endpoint arrives, and whoever's poller shows it
\* (sealVerifiedByCoordinator, pollProof, the phases of page.tsx).
VerifiedIsRecorded ==
  Beat = "verified" \/ ProofPhase = "done" =>
    /\ proof.of \in 1..sent
    /\ proofs[proof.of] = "VERIFIED"
    /\ decision[proof.of] \in {"ALLOW", "DENY"}

\* The answer, the denial, the verdict and the system failure on the page are those of the last
\* request sent, as the gate has decided it: no continuation of an earlier send writes them over
\* (send, handleDenial and the guard of the button in page.tsx).
AnswerIsCurrent ==
  /\ result # 0 => result = sent
  /\ denied # 0 => denied = sent
  /\ verdict = "ALLOW" <=> result # 0
  /\ verdict = "DENY" <=> denied # 0
  /\ verdict # "none" => decision[sent] = verdict /\ failure = "none"
  /\ failure = "system" => decision[sent] = "UNAVAILABLE"
  /\ ServicePhase = "done" => result = sent

\* A proof on its way that no watcher of the running coordinator will bring to its end.
Orphaned(k) == k \notin alive /\ proofs[k] \in InFlight

\* Every poller comes to its end, and the page leaves every stage in which it waits, unless a
\* restart of the coordinator has left the proof without a watcher: pollProof has no time limit
\* and then asks for ever.  The button comes back in any case (send, pollProof of page.tsx).
PollersEnd ==
  /\ \A k \in Sends : poll[k] # "none" ~> poll[k] = "over" \/ Orphaned(k)
  /\ Busy ~> ~Busy
  /\ stage = "proving" ~> stage # "proving" \/ Orphaned(sent)

\* "... and the journal is bound to your request commitment": the verified proof under a verdict is
\* the one of the request that got the verdict (ProofVerified of ProofBeat.tsx).
VerifiedIsBound ==
  Beat = "verified" => proof.of = sent
================================================================================
