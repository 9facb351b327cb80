--------------------------- MODULE PlaygroundProofs ---------------------------
(***************************************************************************)
(* Proofs about Playground, for any number of requests of a tab and of     *)
(* restarts of the coordinator.                                            *)
(*                                                                         *)
(* The inductive invariant PageInv says which of the overlapping           *)
(* activations may still write the page: only the last send has a call     *)
(* outstanding, and while it has, the page is blank and its stage names    *)
(* the call (CallInv).  That is what the button's guard buys.  The pollers *)
(* of all earlier sends go on, so what they carry is tied to the           *)
(* coordinator's rows and not to the page (PollInv, ProofInv).             *)
(***************************************************************************)
EXTENDS Playground, TLAPS

Decided(k) == decision[k] \in {"ALLOW", "DENY"}

\* Nothing has happened to a request that was not sent.
UnsentInv ==
  \A k \in Sends : k > sent =>
    call[k] = "none" /\ poll[k] = "none" /\ decision[k] = "none" /\ proofs[k] = "none"

\* Only the last send awaits anything, the page is blank meanwhile, and the gate has not seen
\* a request that was not posted.
CallInv ==
  \A k \in Sends :
    /\ call[k] \in {"attestation", "paint", "completion"} =>
         /\ k = sent
         /\ result = 0 /\ denied = 0 /\ verdict = "none" /\ failure = "none"
    /\ call[k] = "attestation" => stage = "attesting"
    /\ call[k] = "paint" => stage = "encrypting"
    /\ call[k] = "completion" => stage = "inflight"
    /\ call[k] \in {"none", "attestation", "paint"} => decision[k] = "none"

\* Exactly the decided requests have a proof.
RowInv == \A k \in Sends : proofs[k] # "none" <=> Decided(k)

\* A poller polls for a decided request, and VERIFIED on its way back is VERIFIED in the row.
PollInv ==
  \A k \in Sends : poll[k] # "none" =>
    /\ Decided(k)
    /\ poll[k] # "NOT_REQUIRED"
    /\ poll[k] = "VERIFIED" => proofs[k] = "VERIFIED"

\* The same for the answer on the page.
ProofInv ==
  proof # NoProof =>
    /\ proof.of <= sent
    /\ Decided(proof.of)
    /\ proof.proof_status # "NOT_REQUIRED"
    /\ proof.proof_status = "VERIFIED" => proofs[proof.of] = "VERIFIED"

StageInv ==
  /\ stage \in {"proving", "done"} => result # 0
  /\ stage = "denied" => denied # 0

\* The page never waits for a proof that nobody polls for: while it says "proving", the poller
\* of the last request is alive (pollProof of page.tsx).
ProvingIsWatched ==
  stage = "proving" => poll[sent] \notin {"none", "over"}

PageInv ==
  /\ TypeOK
  /\ UnsentInv
  /\ CallInv
  /\ RowInv
  /\ PollInv
  /\ ProofInv
  /\ StageInv
  /\ AnswerIsCurrent
  /\ ProvingIsWatched

USE PlaygroundAssumption

--------------------------------------------------------------------------------
(* What the page shows *)

LEMMA ServiceDone ==
  ASSUME TypeOK
  PROVE  ServicePhase = "done" <=> stage \in {"proving", "done"}
BY DEF ServicePhase, TypeOK, Stage

LEMMA ServiceDoneNext ==
  ASSUME TypeOK'
  PROVE  ServicePhase' = "done" <=> stage' \in {"proving", "done"}
BY DEF ServicePhase, TypeOK, Stage

LEMMA BeatVerified ==
  ASSUME TypeOK, Beat = "verified"
  PROVE  proof.proof_status = "VERIFIED"
BY DEF Beat, sealVerifiedByCoordinator

LEMMA PhaseDone ==
  ASSUME TypeOK, ProofPhase = "done"
  PROVE  \/ proof.proof_status = "VERIFIED"
         \/ proof # NoProof /\ proof.proof_status = "NOT_REQUIRED"
BY DEF ProofPhase, TypeOK, ProofPoll, NoProof, InFlight, Final

\* What PageInv says of the two displays that claim a verified proof.
LEMMA InvShowsRecorded == PageInv => VerifiedIsRecorded
<1> SUFFICES ASSUME PageInv, Beat = "verified" \/ ProofPhase = "done"
             PROVE  proof.of \in 1..sent /\ proofs[proof.of] = "VERIFIED"
                    /\ decision[proof.of] \in {"ALLOW", "DENY"}
  BY DEF VerifiedIsRecorded
<1>1. TypeOK /\ ProofInv
  BY DEF PageInv
<1>2. proof.proof_status = "VERIFIED" \/ (proof # NoProof /\ proof.proof_status = "NOT_REQUIRED")
  BY <1>1, BeatVerified, PhaseDone
<1>3. proof # NoProof
  BY <1>2 DEF NoProof
<1>4. proof \in ProofPoll /\ sent \in Nat
  BY <1>1, <1>3 DEF TypeOK
<1>5. proof.of \in 1..MaxSends
  BY <1>4 DEF ProofPoll, Sends
<1>6. QED
  BY <1>1, <1>2, <1>3, <1>4, <1>5 DEF ProofInv, Decided

--------------------------------------------------------------------------------
(* Initial states and steps *)

LEMMA InitInv == Init => PageInv
<1> SUFFICES ASSUME Init PROVE PageInv
  OBVIOUS
<1>1. TypeOK
  BY DEF Init, TypeOK, Sends, Stage, InFlight, Final
<1>2. UnsentInv /\ CallInv /\ RowInv /\ PollInv
  BY DEF Init, UnsentInv, CallInv, RowInv, PollInv, Decided
<1>3. ProofInv /\ StageInv /\ ProvingIsWatched
  BY DEF Init, ProofInv, StageInv, ProvingIsWatched
<1>4. AnswerIsCurrent
  BY DEF Init, AnswerIsCurrent, ServicePhase
<1>5. QED
  BY <1>1, <1>2, <1>3, <1>4 DEF PageInv

LEMMA SendKeeps ==
  ASSUME PageInv, NEW m \in {"secure", "compatibility"}, Send(m)
  PROVE  PageInv'
<1> USE DEF PageInv, Send, Busy, page, rows, tasks, process
<1>1. TypeOK'
  BY DEF TypeOK, Sends, Stage, InFlight, Final
<1>2. UnsentInv'
  BY DEF UnsentInv, TypeOK, Sends
<1>3. CallInv'
  BY DEF CallInv, UnsentInv, TypeOK, Sends
<1>4. RowInv'
  BY DEF RowInv, UnsentInv, Decided, TypeOK, Sends, InFlight
<1>5. PollInv'
  BY DEF PollInv, Decided, RowInv, TypeOK, Sends, InFlight, Final
<1>6. ProofInv'
  BY DEF ProofInv, PollInv, Decided, TypeOK, Sends, ProofPoll, NoProof
<1>7. StageInv'
  BY DEF StageInv, CallInv, TypeOK, Sends
<1>8. AnswerIsCurrent'
  BY <1>1, <1>7, ServiceDone, ServiceDoneNext DEF AnswerIsCurrent, CallInv, StageInv, TypeOK, Sends
<1>9. ProvingIsWatched'
  BY DEF ProvingIsWatched, TypeOK, Sends, InFlight, Final
<1>10. QED
  BY <1>1, <1>2, <1>3, <1>4, <1>5, <1>6, <1>7, <1>8, <1>9

LEMMA AttestedKeeps ==
  ASSUME PageInv, NEW k \in Sends, Attested(k)
  PROVE  PageInv'
<1> USE DEF PageInv, Attested, page, rows, tasks, process
<1>1. TypeOK'
  BY DEF TypeOK, Sends, Stage, InFlight, Final
<1>2. UnsentInv'
  BY DEF UnsentInv, TypeOK, Sends
<1>3. CallInv'
  BY DEF CallInv, UnsentInv, TypeOK, Sends
<1>4. RowInv'
  BY DEF RowInv, UnsentInv, Decided, TypeOK, Sends, InFlight
<1>5. PollInv'
  BY DEF PollInv, Decided, RowInv, TypeOK, Sends, InFlight, Final
<1>6. ProofInv'
  BY DEF ProofInv, PollInv, Decided, TypeOK, Sends, ProofPoll, NoProof
<1>7. StageInv'
  BY DEF StageInv, CallInv, TypeOK, Sends
<1>8. AnswerIsCurrent'
  BY <1>1, <1>7, ServiceDone, ServiceDoneNext DEF AnswerIsCurrent, CallInv, StageInv, TypeOK, Sends
<1>9. ProvingIsWatched'
  BY DEF ProvingIsWatched, TypeOK, Sends, InFlight, Final
<1>10. QED
  BY <1>1, <1>2, <1>3, <1>4, <1>5, <1>6, <1>7, <1>8, <1>9

LEMMA PaintedKeeps ==
  ASSUME PageInv, NEW k \in Sends, Painted(k)
  PROVE  PageInv'
<1> USE DEF PageInv, Painted, page, rows, tasks, process
<1>1. TypeOK'
  BY DEF TypeOK, Sends, Stage, InFlight, Final
<1>2. UnsentInv'
  BY DEF UnsentInv, TypeOK, Sends
<1>3. CallInv'
  BY DEF CallInv, UnsentInv, TypeOK, Sends
<1>4. RowInv'
  BY DEF CallInv, RowInv, UnsentInv, Decided, TypeOK, Sends, InFlight
<1>5. PollInv'
  BY DEF CallInv, PollInv, Decided, RowInv, TypeOK, Sends, InFlight, Final
<1>6. ProofInv'
  BY DEF CallInv, ProofInv, PollInv, Decided, TypeOK, Sends, ProofPoll, NoProof
<1>7. StageInv'
  BY DEF StageInv, CallInv, TypeOK, Sends
<1>8. AnswerIsCurrent'
  BY <1>1, <1>7, ServiceDone, ServiceDoneNext DEF AnswerIsCurrent, CallInv, StageInv, TypeOK, Sends
<1>9. ProvingIsWatched'
  BY DEF ProvingIsWatched, TypeOK, Sends, InFlight, Final
<1>10. QED
  BY <1>1, <1>2, <1>3, <1>4, <1>5, <1>6, <1>7, <1>8, <1>9

LEMMA CompletedKeeps ==
  ASSUME PageInv, NEW k \in Sends, Completed(k)
  PROVE  PageInv'
<1> USE DEF PageInv, Completed, page, rows, tasks, process
<1>1. TypeOK'
  BY DEF TypeOK, Sends, Stage, InFlight, Final
<1>2. UnsentInv'
  BY DEF UnsentInv, TypeOK, Sends
<1>3. CallInv'
  BY DEF CallInv, UnsentInv, TypeOK, Sends
<1>4. RowInv'
  BY DEF RowInv, UnsentInv, Decided, TypeOK, Sends, InFlight
<1>5. PollInv'
  BY DEF PollInv, Decided, RowInv, TypeOK, Sends, InFlight, Final
<1>6. ProofInv'
  BY DEF ProofInv, PollInv, Decided, TypeOK, Sends, ProofPoll, NoProof
<1>7. StageInv'
  BY DEF StageInv, CallInv, TypeOK, Sends
<1>8. AnswerIsCurrent'
  BY <1>1, <1>7, ServiceDone, ServiceDoneNext DEF AnswerIsCurrent, CallInv, StageInv, TypeOK, Sends
<1>9. ProvingIsWatched'
  BY DEF ProvingIsWatched, CallInv, TypeOK, Sends, InFlight, Final
<1>10. QED
  BY <1>1, <1>2, <1>3, <1>4, <1>5, <1>6, <1>7, <1>8, <1>9

LEMMA DeniedKeeps ==
  ASSUME PageInv, NEW k \in Sends, Denied(k)
  PROVE  PageInv'
<1> USE DEF PageInv, Denied, page, rows, tasks, process
<1>1. TypeOK'
  BY DEF TypeOK, Sends, Stage, InFlight, Final
<1>2. UnsentInv'
  BY DEF UnsentInv, TypeOK, Sends
<1>3. CallInv'
  BY DEF CallInv, UnsentInv, TypeOK, Sends
<1>4. RowInv'
  BY DEF RowInv, UnsentInv, Decided, TypeOK, Sends, InFlight
<1>5. PollInv'
  BY DEF PollInv, Decided, RowInv, TypeOK, Sends, InFlight, Final
<1>6. ProofInv'
  BY DEF ProofInv, PollInv, Decided, TypeOK, Sends, ProofPoll, NoProof
<1>7. StageInv'
  BY DEF StageInv, CallInv, TypeOK, Sends
<1>8. AnswerIsCurrent'
  BY <1>1, <1>7, ServiceDone, ServiceDoneNext DEF AnswerIsCurrent, CallInv, StageInv, TypeOK, Sends
<1>9. ProvingIsWatched'
  BY DEF ProvingIsWatched, TypeOK, Sends, InFlight, Final
<1>10. QED
  BY <1>1, <1>2, <1>3, <1>4, <1>5, <1>6, <1>7, <1>8, <1>9

LEMMA UnavailableKeeps ==
  ASSUME PageInv, NEW k \in Sends, Unavailable(k)
  PROVE  PageInv'
<1> USE DEF PageInv, Unavailable, page, rows, tasks, process
<1>1. TypeOK'
  BY DEF TypeOK, Sends, Stage, InFlight, Final
<1>2. UnsentInv'
  BY DEF UnsentInv, TypeOK, Sends
<1>3. CallInv'
  BY DEF CallInv, UnsentInv, TypeOK, Sends
<1>4. RowInv'
  BY DEF RowInv, UnsentInv, Decided, TypeOK, Sends, InFlight
<1>5. PollInv'
  BY DEF PollInv, Decided, RowInv, TypeOK, Sends, InFlight, Final
<1>6. ProofInv'
  BY DEF ProofInv, PollInv, Decided, TypeOK, Sends, ProofPoll, NoProof
<1>7. StageInv'
  BY DEF StageInv, CallInv, TypeOK, Sends
<1>8. AnswerIsCurrent'
  BY <1>1, <1>7, ServiceDone, ServiceDoneNext DEF AnswerIsCurrent, CallInv, StageInv, TypeOK, Sends
<1>9. ProvingIsWatched'
  BY DEF ProvingIsWatched, TypeOK, Sends, InFlight, Final
<1>10. QED
  BY <1>1, <1>2, <1>3, <1>4, <1>5, <1>6, <1>7, <1>8, <1>9

LEMMA FailedKeeps ==
  ASSUME PageInv, NEW k \in Sends, Failed(k)
  PROVE  PageInv'
<1> USE DEF PageInv, Failed, page, rows, tasks, process
<1>1. TypeOK'
  BY DEF TypeOK, Sends, Stage, InFlight, Final
<1>2. UnsentInv'
  BY DEF UnsentInv, TypeOK, Sends
<1>3. CallInv'
  BY DEF CallInv, UnsentInv, TypeOK, Sends
<1>4. RowInv'
  BY DEF RowInv, UnsentInv, Decided, TypeOK, Sends, InFlight
<1>5. PollInv'
  BY DEF PollInv, Decided, RowInv, TypeOK, Sends, InFlight, Final
<1>6. ProofInv'
  BY DEF ProofInv, PollInv, Decided, TypeOK, Sends, ProofPoll, NoProof
<1>7. StageInv'
  BY DEF StageInv, CallInv, TypeOK, Sends
<1>8. AnswerIsCurrent'
  BY <1>1, <1>7, ServiceDone, ServiceDoneNext DEF AnswerIsCurrent, CallInv, StageInv, TypeOK, Sends
<1>9. ProvingIsWatched'
  BY DEF ProvingIsWatched, TypeOK, Sends, InFlight, Final
<1>10. QED
  BY <1>1, <1>2, <1>3, <1>4, <1>5, <1>6, <1>7, <1>8, <1>9

LEMMA ReadProofKeeps ==
  ASSUME PageInv, NEW k \in Sends, ReadProof(k)
  PROVE  PageInv'
<1> USE DEF PageInv, ReadProof, page, rows, tasks, process
<1>1. TypeOK'
  BY DEF TypeOK, Sends, Stage, InFlight, Final
<1>2. UnsentInv'
  BY DEF UnsentInv, TypeOK, Sends
<1>3. CallInv'
  BY DEF CallInv, UnsentInv, TypeOK, Sends
<1>4. RowInv'
  BY DEF RowInv, UnsentInv, Decided, TypeOK, Sends, InFlight
<1>5. PollInv'
  BY DEF PollInv, Decided, RowInv, TypeOK, Sends, InFlight, Final
<1>6. ProofInv'
  BY DEF ProofInv, PollInv, Decided, TypeOK, Sends, ProofPoll, NoProof
<1>7. StageInv'
  BY DEF StageInv, CallInv, TypeOK, Sends
<1>8. AnswerIsCurrent'
  BY <1>1, <1>7, ServiceDone, ServiceDoneNext DEF AnswerIsCurrent, CallInv, StageInv, TypeOK, Sends
<1>9. ProvingIsWatched'
  <2>1. poll'[k] \notin {"none", "over"}
    BY DEF TypeOK, InFlight
  <2>2. \A j \in Sends : j # k => poll'[j] = poll[j]
    BY DEF TypeOK
  <2>3. stage = "proving" => sent \in Sends
    BY DEF StageInv, AnswerIsCurrent, TypeOK, Sends
  <2>4. QED
    BY <2>1, <2>2, <2>3 DEF ProvingIsWatched
<1>10. QED
  BY <1>1, <1>2, <1>3, <1>4, <1>5, <1>6, <1>7, <1>8, <1>9

LEMMA PolledKeeps ==
  ASSUME PageInv, NEW k \in Sends, Polled(k)
  PROVE  PageInv'
<1> USE DEF PageInv, Polled, Settled, Terminal, page, rows, tasks, process
<1>1. TypeOK'
  <2>1. proof' \in ProofPoll
    BY DEF ProofPoll
  <2>2. poll' \in [Sends -> {"none", "asking", "sleeping", "over"} \cup InFlight \cup Final]
    BY DEF TypeOK
  <2>3. stage' \in Stage
    BY DEF TypeOK, Stage
  <2>4. QED
    BY <2>1, <2>2, <2>3 DEF TypeOK
<1>2. UnsentInv'
  BY DEF UnsentInv, TypeOK, Sends, InFlight, Final
<1>3. CallInv'
  BY DEF CallInv, UnsentInv, TypeOK, Sends
<1>4. RowInv'
  BY DEF RowInv, UnsentInv, Decided, TypeOK, Sends, InFlight
<1>5. PollInv'
  BY DEF PollInv, Decided, RowInv, TypeOK, Sends, InFlight, Final
<1>6. ProofInv'
  BY DEF ProofInv, PollInv, UnsentInv, Decided, TypeOK, Sends, NoProof, InFlight, Final
<1>7. StageInv'
  BY DEF StageInv, CallInv, TypeOK, Sends
<1>8. AnswerIsCurrent'
  BY <1>1, <1>7, ServiceDone, ServiceDoneNext DEF AnswerIsCurrent, CallInv, StageInv, TypeOK, Sends
<1>9. ProvingIsWatched'
  BY DEF ProvingIsWatched, TypeOK, Sends, InFlight, Final
<1>10. QED
  BY <1>1, <1>2, <1>3, <1>4, <1>5, <1>6, <1>7, <1>8, <1>9

LEMMA PollAgainKeeps ==
  ASSUME PageInv, NEW k \in Sends, PollAgain(k)
  PROVE  PageInv'
<1> USE DEF PageInv, PollAgain, page, rows, tasks, process
<1>1. TypeOK'
  BY DEF TypeOK, Sends, Stage, InFlight, Final
<1>2. UnsentInv'
  BY DEF UnsentInv, TypeOK, Sends
<1>3. CallInv'
  BY DEF CallInv, UnsentInv, TypeOK, Sends
<1>4. RowInv'
  BY DEF RowInv, UnsentInv, Decided, TypeOK, Sends, InFlight
<1>5. PollInv'
  BY DEF PollInv, Decided, RowInv, TypeOK, Sends, InFlight, Final
<1>6. ProofInv'
  BY DEF ProofInv, PollInv, Decided, TypeOK, Sends, ProofPoll, NoProof
<1>7. StageInv'
  BY DEF StageInv, CallInv, TypeOK, Sends
<1>8. AnswerIsCurrent'
  BY <1>1, <1>7, ServiceDone, ServiceDoneNext DEF AnswerIsCurrent, CallInv, StageInv, TypeOK, Sends
<1>9. ProvingIsWatched'
  BY DEF ProvingIsWatched, TypeOK, Sends, InFlight, Final
<1>10. QED
  BY <1>1, <1>2, <1>3, <1>4, <1>5, <1>6, <1>7, <1>8, <1>9

LEMMA PollFailedKeeps ==
  ASSUME PageInv, NEW k \in Sends, PollFailed(k)
  PROVE  PageInv'
<1> USE DEF PageInv, PollFailed, Settled, page, rows, tasks, process
<1>1. TypeOK'
  BY DEF TypeOK, Sends, Stage, InFlight, Final
<1>2. UnsentInv'
  BY DEF UnsentInv, TypeOK, Sends, InFlight, Final
<1>3. CallInv'
  BY DEF CallInv, UnsentInv, TypeOK, Sends
<1>4. RowInv'
  BY DEF RowInv, UnsentInv, Decided, TypeOK, Sends, InFlight
<1>5. PollInv'
  BY DEF PollInv, Decided, RowInv, TypeOK, Sends, InFlight, Final
<1>6. ProofInv'
  BY DEF ProofInv, PollInv, Decided, TypeOK, Sends, ProofPoll, NoProof
<1>7. StageInv'
  BY DEF StageInv, CallInv, TypeOK, Sends
<1>8. AnswerIsCurrent'
  BY <1>1, <1>7, ServiceDone, ServiceDoneNext DEF AnswerIsCurrent, CallInv, StageInv, TypeOK, Sends
<1>9. ProvingIsWatched'
  BY DEF ProvingIsWatched, TypeOK, Sends, InFlight, Final
<1>10. QED
  BY <1>1, <1>2, <1>3, <1>4, <1>5, <1>6, <1>7, <1>8, <1>9

LEMMA GateKeeps ==
  ASSUME PageInv, NEW k \in Sends, NEW d \in {"ALLOW", "DENY", "UNAVAILABLE"}, Gate(k, d)
  PROVE  PageInv'
<1> USE DEF PageInv, Gate, page, rows, tasks, process
<1>1. TypeOK'
  BY DEF TypeOK, Sends, Stage, InFlight, Final
<1>2. UnsentInv'
  BY DEF UnsentInv, TypeOK, Sends
<1>3. CallInv'
  BY DEF CallInv, UnsentInv, TypeOK, Sends
<1>4. RowInv'
  BY DEF RowInv, UnsentInv, Decided, TypeOK, Sends, InFlight
<1>5. PollInv'
  BY DEF PollInv, Decided, RowInv, TypeOK, Sends, InFlight, Final
<1>6. ProofInv'
  BY DEF ProofInv, PollInv, Decided, TypeOK, Sends, ProofPoll, NoProof
<1>7. StageInv'
  BY DEF StageInv, CallInv, TypeOK, Sends
<1>8. AnswerIsCurrent'
  BY <1>1, <1>7, ServiceDone, ServiceDoneNext DEF AnswerIsCurrent, CallInv, StageInv, TypeOK, Sends
<1>9. ProvingIsWatched'
  BY DEF ProvingIsWatched, TypeOK, Sends, InFlight, Final
<1>10. QED
  BY <1>1, <1>2, <1>3, <1>4, <1>5, <1>6, <1>7, <1>8, <1>9

LEMMA WatchProofKeeps ==
  ASSUME PageInv, NEW k \in Sends, WatchProof(k)
  PROVE  PageInv'
<1> USE DEF PageInv, WatchProof, Later, page, rows, tasks, process
<1>1. TypeOK'
  BY DEF TypeOK, Sends, Stage, InFlight, Final
<1>2. UnsentInv'
  BY DEF UnsentInv, TypeOK, Sends
<1>3. CallInv'
  BY DEF CallInv, UnsentInv, TypeOK, Sends
<1>4. RowInv'
  BY DEF RowInv, UnsentInv, Decided, TypeOK, Sends, InFlight
<1>5. PollInv'
  BY DEF PollInv, Decided, RowInv, TypeOK, Sends, InFlight, Final
<1>6. ProofInv'
  BY DEF ProofInv, PollInv, Decided, TypeOK, Sends, ProofPoll, NoProof
<1>7. StageInv'
  BY DEF StageInv, CallInv, TypeOK, Sends
<1>8. AnswerIsCurrent'
  BY <1>1, <1>7, ServiceDone, ServiceDoneNext DEF AnswerIsCurrent, CallInv, StageInv, TypeOK, Sends
<1>9. ProvingIsWatched'
  BY DEF ProvingIsWatched, TypeOK, Sends, InFlight, Final
<1>10. QED
  BY <1>1, <1>2, <1>3, <1>4, <1>5, <1>6, <1>7, <1>8, <1>9

LEMMA RestartKeeps ==
  ASSUME PageInv, CoordinatorRestart
  PROVE  PageInv'
<1> USE DEF CoordinatorRestart, page, rows, tasks
<1>1. TypeOK'
  BY DEF PageInv, TypeOK
<1>2. UnsentInv' /\ CallInv' /\ RowInv' /\ PollInv'
  BY DEF PageInv, UnsentInv, CallInv, RowInv, PollInv, Decided
<1>3. ProofInv' /\ StageInv' /\ ProvingIsWatched'
  BY DEF PageInv, ProofInv, StageInv, ProvingIsWatched, Decided
<1>4. AnswerIsCurrent'
  BY DEF PageInv, AnswerIsCurrent, ServicePhase
<1>5. QED
  BY <1>1, <1>2, <1>3, <1>4 DEF PageInv

LEMMA StutterKeeps ==
  ASSUME PageInv, UNCHANGED vars
  PROVE  PageInv'
BY DEF PageInv, vars, page, tasks, rows, process, TypeOK, UnsentInv, CallInv, RowInv, PollInv, ProofInv, StageInv,
       AnswerIsCurrent, ServicePhase, ProvingIsWatched, Decided

LEMMA NextKeeps == PageInv /\ [Next]_vars => PageInv'
<1> SUFFICES ASSUME PageInv, [Next]_vars PROVE PageInv'
  OBVIOUS
<1>1. ASSUME NEW m \in {"secure", "compatibility"}, Send(m) PROVE PageInv'
  BY <1>1, SendKeeps
<1>2. ASSUME NEW k \in Sends, Attested(k) \/ Painted(k) PROVE PageInv'
  BY <1>2, AttestedKeeps, PaintedKeeps
<1>3. ASSUME NEW k \in Sends, Completed(k) \/ Denied(k) \/ Unavailable(k) \/ Failed(k) PROVE PageInv'
  BY <1>3, CompletedKeeps, DeniedKeeps, UnavailableKeeps, FailedKeeps
<1>4. ASSUME NEW k \in Sends, ReadProof(k) \/ Polled(k) \/ PollAgain(k) \/ PollFailed(k) PROVE PageInv'
  BY <1>4, ReadProofKeeps, PolledKeeps, PollAgainKeeps, PollFailedKeeps
<1>5. ASSUME NEW k \in Sends, NEW d \in {"ALLOW", "DENY", "UNAVAILABLE"}, Gate(k, d) PROVE PageInv'
  BY <1>5, GateKeeps
<1>6. ASSUME NEW k \in Sends, WatchProof(k) PROVE PageInv'
  BY <1>6, WatchProofKeeps
<1>7. CASE CoordinatorRestart
  BY <1>7, RestartKeeps
<1>8. CASE UNCHANGED vars
  BY <1>8, StutterKeeps
<1>9. QED
  BY <1>1, <1>2, <1>3, <1>4, <1>5, <1>6, <1>7, <1>8 DEF Next

LEMMA Invariance == Spec => []PageInv
BY InitInv, NextKeeps, PTL DEF Spec

--------------------------------------------------------------------------------
(* Theorems *)

\* Every variable keeps its type.
THEOREM TypeCorrect == Spec => []TypeOK
<1>1. PageInv => TypeOK
  BY DEF PageInv
<1>2. QED
  BY <1>1, Invariance, PTL

\* Whatever the page calls verified is a proof that the coordinator has recorded as VERIFIED, of
\* a decided request of this tab, however many pollers of however many sends are alive.
THEOREM VerifiedWasRecorded == Spec => []VerifiedIsRecorded
BY InvShowsRecorded, Invariance, PTL

\* No continuation of an earlier send writes the answer, the verdict or the failure of a later one.
THEOREM AnswersAreCurrent == Spec => []AnswerIsCurrent
<1>1. PageInv => AnswerIsCurrent
  BY DEF PageInv
<1>2. QED
  BY <1>1, Invariance, PTL

\* While the page says "proving" somebody is polling for that proof.
THEOREM ProvingWatched == Spec => []ProvingIsWatched
<1>1. PageInv => ProvingIsWatched
  BY DEF PageInv
<1>2. QED
  BY <1>1, Invariance, PTL
================================================================================
