------------------------ MODULE RequestLifecycleProofs ------------------------
(***************************************************************************)
(* Proofs about RequestLifecycle for every set of requests, of callers     *)
(* that go straight to the enclave and of envelopes, and for every number  *)
(* of candidates, boots and crashes: types, one upstream call per          *)
(* envelope, no call without a recorded ALLOW, the books, the trust        *)
(* status, and that no final state is undone.                              *)
(***************************************************************************)
EXTENDS RequestLifecycle, TLAPS

\* Answers and stages that only a call of /gate has, and only one of /execute.
GateCall == {"gate_in", "gate_eval", "ALLOW", "DENY"}
ExecCall == {"exec_in", "exec_eval", "exec_run", "exec_wait",
             "DENIED", "COMPLETE", "FAILED", "UNKNOWN"}

\* The handler is where its row and its open call say it is, a crash included:
\* what it awaits, and what it has written so far.
HandlerInv ==
  \A r \in Requests :
    /\ pc[r] = "idle" <=> row[r].status = "NONE"
    /\ pc[r] \in {"idle", "allowed", "denied"} => rpc[r] = "none"
    /\ pc[r] = "gating" => rpc[r] \notin ExecCall \cup {"none"}
    /\ pc[r] = "executing" => rpc[r] \notin GateCall \cup {"none"}
    /\ pc[r] \in {"idle", "gating"} => row[r].decision = "NONE"
    /\ pc[r] = "allowed" => row[r].decision = "ALLOW"
    /\ pc[r] = "denied" => row[r].decision = "DENY"
    /\ rpc[r] \in ExecCall => row[r].decision = "ALLOW"
    /\ pc[r] # "done" => row[r].status \notin Settled /\ ~row[r].receipt
    /\ row[r].status = "FAILED" => rpc[r] \notin InEnclave

\* What an open call, a parked gate and an upstream call say of one another and
\* of the guest's verdict.
CallInv ==
  /\ \A d \in Direct : rpc[d] \notin GateCall
  /\ \A i \in Ids :
       /\ sends[i] # 0 => /\ sends[i] = 1
                          /\ rpc[i] \in {"exec_wait", "COMPLETE", "FAILED", "UNKNOWN",
                                         "REJECTED", "DOWN"}
       /\ rpc[i] \in {"exec_wait", "COMPLETE", "UNKNOWN"} => sends[i] = 1
       /\ sends[i] # 0 => i \in attempted
       /\ i \in parked => rpc[i] \in {"ALLOW", "none", "exec_in"} /\ verdict[env[i]] = "ALLOW"
       /\ rpc[i] \in {"gate_eval", "exec_eval"} => verdict[env[i]] # "BAD"
       /\ rpc[i] \in {"ALLOW", "DENY"} => rpc[i] = verdict[env[i]]
       /\ rpc[i] = "exec_run" => verdict[env[i]] = "ALLOW"
  /\ \A r \in Requests : r \in parked => pc[r] # "idle"

\* An id has a claim on its envelope from the moment the enclave has opened it
\* until nothing can be sent for it any more; one that has sent keeps it.
Claims(i) ==
  rpc[i] \in {"gate_eval", "exec_eval", "exec_run"} \/ i \in parked \/ sends[i] # 0

\* A claimed envelope cannot be opened again, in this boot because its nonce is
\* remembered and in a later one because the key is gone: one claim per envelope.
ClaimInv ==
  /\ \A e \in seen : sealed[e] = boot
  /\ \A i \in Ids : Claims(i) => env[i] \in seen \/ sealed[env[i]] < boot
  /\ \A i, k \in Ids : env[i] = env[k] /\ Claims(i) /\ Claims(k) => i = k

\* A status that says VERIFIED stands for a verifier that passed, wherever it is on
\* its way to the row; the watcher starts with the row's QUEUED and ends with a
\* final status.
WatchInv ==
  /\ \A i \in Ids : record[i] = "VERIFIED" => i \in checked
  /\ \A r \in Requests :
       /\ watch[r] = "VERIFIED" => r \in checked
       /\ watch[r] # "off" => pc[r] \in {"executing", "done"}
       /\ row[r].proof \in ProofFinal => watch[r] = "off" /\ pc[r] \in {"executing", "done"}

\* The inductive invariant.
LifecycleInv ==
  /\ TypeOK
  /\ HandlerInv
  /\ CallInv
  /\ ClaimInv
  /\ WatchInv
  /\ DispatchIsDecided
  /\ BooksAgree
  /\ TrustIsEarned
--------------------------------------------------------------------------------
\* The row after any number of the success path's writes is a row.
LEMMA CompletedRowType ==
  ASSUME row \in [Requests -> Row], NEW r \in Requests, NEW k \in 1..4
  PROVE  CompletedRow(r, k) \in Row
<1> DEFINE u == IF k >= 2 THEN 1 ELSE row[r].usage
           s == IF k >= 3 THEN "COMPLETE" ELSE row[r].status
           t == IF k < 3 THEN row[r].trust
                ELSE IF mode[r] = "secure" THEN "CONFIDENTIAL_PROOF_PENDING"
                ELSE "COMPATIBILITY"
           c == IF k >= 4 THEN TRUE ELSE row[r].receipt
<1>1. row[r] \in Row
  OBVIOUS
<1>2. u \in {0, 1} /\ s \in RowStatus /\ t \in TrustStatus /\ c \in BOOLEAN
  BY <1>1 DEF Row, RowStatus, TrustStatus, Settled
<1>3. CompletedRow(r, k) = [row[r] EXCEPT !.attempts = TRUE, !.usage = u, !.status = s,
                                     !.trust = t, !.receipt = c]
  BY DEF CompletedRow
<1> HIDE DEF u, s, t, c
<1> QED
  BY ONLY <1>1, <1>2, <1>3 DEF Row

\* So is the row after any number of the failure path's.
LEMMA FailedRowType ==
  ASSUME row \in [Requests -> Row], NEW r \in Requests, NEW k \in 1..3
  PROVE  FailedRow(r, k) \in Row
<1> DEFINE a == IF r \in attempted THEN TRUE ELSE row[r].attempts
           u == IF k >= 2 /\ rpc[r] = "UNKNOWN" THEN 1 ELSE row[r].usage
           s == IF k >= 3 THEN "FAILED" ELSE row[r].status
<1>1. row[r] \in Row
  OBVIOUS
<1>2. a \in BOOLEAN /\ u \in {0, 1} /\ s \in RowStatus
  BY <1>1 DEF Row, RowStatus, TrustStatus, Settled
<1>3. FailedRow(r, k) = [row[r] EXCEPT !.attempts = a, !.usage = u, !.status = s]
  BY DEF FailedRow
<1> HIDE DEF a, u, s
<1> QED
  BY ONLY <1>1, <1>2, <1>3 DEF Row

\* MarkFailed writes a row.
LEMMA MarkFailedType ==
  ASSUME row \in [Requests -> Row], NEW r \in Requests, MarkFailed(r)
  PROVE  row' \in [Requests -> Row]
<1> DEFINE t == IF mode[r] = "secure" THEN "CONFIDENTIAL_PROOF_FAILED" ELSE row[r].trust
<1>1. row[r] \in Row
  OBVIOUS
<1>2. t \in TrustStatus
  BY <1>1 DEF Row, TrustStatus
<1>3. row' = [row EXCEPT ![r] = [row[r] EXCEPT !.proof = "FAILED", !.trust = t]]
  BY DEF MarkFailed
<1> HIDE DEF t
<1>4. [row[r] EXCEPT !.proof = "FAILED", !.trust = t] \in Row
  BY ONLY <1>1, <1>2 DEF Row, RowProof, ProofStatus
<1> QED
  BY <1>3, <1>4

\* What /gate decides is a request of the coordinator, and its envelope decrypts.
LEMMA Decidable ==
  ASSUME LifecycleInv, NEW i \in Ids, rpc[i] = "gate_eval"
  PROVE  i \in Requests /\ verdict[env[i]] \in {"ALLOW", "DENY"}
  BY DEF LifecycleInv, TypeOK, CallInv, GateCall, Ids

\* Every step keeps the types.
LEMMA TypeStep == LifecycleInv /\ [Next]_vars => TypeOK'
<1> SUFFICES ASSUME LifecycleInv, [Next]_vars PROVE TypeOK'
  OBVIOUS
<1> USE DEF LifecycleInv, TypeOK, Ids, world, enclave, history
<1>1. ASSUME NEW r \in Requests, Submit(r) PROVE TypeOK'
  <2>1. row[r] \in Row
    OBVIOUS
  <2>2. [row[r] EXCEPT !.status = "RECEIVED"] \in Row
    BY <1>1, <2>1 DEF Submit, Row, RowStatus
  <2>3. row' \in [Requests -> Row]
    BY <1>1, <2>2 DEF Submit
  <2> QED
    BY <1>1, <2>3 DEF Submit, InEnclave
<1>2. ASSUME NEW r \in Requests, GateFailed(r) PROVE TypeOK'
  <2>1. row[r] \in Row
    OBVIOUS
  <2>2. [row[r] EXCEPT !.status = "FAILED"] \in Row
    BY <1>2, <2>1 DEF GateFailed, Row, RowStatus, Settled
  <2>3. row' \in [Requests -> Row]
    BY <1>2, <2>2 DEF GateFailed
  <2> QED
    BY <1>2, <2>3 DEF GateFailed
<1>3. ASSUME NEW r \in Requests, GateVerdict(r) PROVE TypeOK'
  <2>1. row[r] \in Row
    OBVIOUS
  <2>2. [row[r] EXCEPT !.decision = rpc[r]] \in Row
    BY <1>3, <2>1 DEF GateVerdict, Row
  <2>3. row' \in [Requests -> Row]
    BY <1>3, <2>2 DEF GateVerdict
  <2> QED
    BY <1>3, <2>3 DEF GateVerdict
<1>4. ASSUME NEW r \in Requests, Denied(r) PROVE TypeOK'
  <2>1. row[r] \in Row
    OBVIOUS
  <2>2. [row[r] EXCEPT !.proof = "QUEUED", !.status = "DENIED",
                        !.trust = IF mode[r] = "secure" THEN "SIMULATED" ELSE "COMPATIBILITY"] \in Row
    BY <1>4, <2>1 DEF Denied, Row, RowStatus, Settled, RowProof, ProofStatus, TrustStatus
  <2>3. row' \in [Requests -> Row]
    BY <1>4, <2>2 DEF Denied
  <2> QED
    BY <1>4, <2>3 DEF Denied
<1>5. ASSUME NEW r \in Requests, NoCapacity(r) PROVE TypeOK'
  <2>1. row[r] \in Row
    OBVIOUS
  <2>2. [row[r] EXCEPT !.proof = "QUEUED", !.status = "FAILED"] \in Row
    BY <1>5, <2>1 DEF NoCapacity, Row, RowStatus, Settled, RowProof, ProofStatus
  <2>3. row' \in [Requests -> Row]
    BY <1>5, <2>2 DEF NoCapacity
  <2> QED
    BY <1>5, <2>3 DEF NoCapacity
<1>6. ASSUME NEW r \in Requests, Dispatch(r) PROVE TypeOK'
  <2>1. row[r] \in Row
    OBVIOUS
  <2>2. [row[r] EXCEPT !.proof = "QUEUED"] \in Row
    BY <1>6, <2>1 DEF Dispatch, Row, RowProof, ProofStatus
  <2>3. row' \in [Requests -> Row]
    BY <1>6, <2>2 DEF Dispatch
  <2> QED
    BY <1>6, <2>3, BoundsAssumption DEF Dispatch, InEnclave
<1>7. ASSUME NEW r \in Requests, ExecuteFailed(r) PROVE TypeOK'
  <2>1. row[r] \in Row
    OBVIOUS
  <2>2. [row[r] EXCEPT !.status = "FAILED"] \in Row
    BY <1>7, <2>1 DEF ExecuteFailed, Row, RowStatus, Settled
  <2>3. row' \in [Requests -> Row]
    BY <1>7, <2>2 DEF ExecuteFailed
  <2> QED
    BY <1>7, <2>3 DEF ExecuteFailed
<1>8. ASSUME NEW r \in Requests, AttemptsFailed(r) PROVE TypeOK'
  <2>1. row' \in [Requests -> Row]
    BY <1>8, FailedRowType DEF AttemptsFailed
  <2> QED
    BY <1>8, <2>1 DEF AttemptsFailed
<1>9. ASSUME NEW r \in Requests, Complete(r) PROVE TypeOK'
  <2>1. row' \in [Requests -> Row]
    BY <1>9, CompletedRowType DEF Complete
  <2> QED
    BY <1>9, <2>1 DEF Complete
<1>10. ASSUME NEW r \in Requests, AssumedUsageThrows(r) PROVE TypeOK'
  <2>1. FailedRow(r, 3) \in Row /\ row[r] \in Row
    BY FailedRowType
  <2>2. [FailedRow(r, 3) EXCEPT !.usage = row[r].usage] \in Row
    BY <2>1 DEF Row
  <2>3. row' \in [Requests -> Row]
    BY <1>10, <2>2 DEF AssumedUsageThrows
  <2> QED
    BY <1>10, <2>3 DEF AssumedUsageThrows
<1>11. ASSUME NEW r \in Requests, RecordUsageThrows(r) PROVE TypeOK'
  <2>1. row' \in [Requests -> Row]
    BY <1>11, CompletedRowType DEF RecordUsageThrows
  <2> QED
    BY <1>11, <2>1 DEF RecordUsageThrows
<1>12. ASSUME NEW r \in Requests, WatchPoll(r) PROVE TypeOK'
  BY <1>12 DEF WatchPoll, ProofStatus
<1>13. ASSUME NEW r \in Requests, WatchHiccup(r) PROVE TypeOK'
  BY <1>13 DEF WatchHiccup
<1>14. ASSUME NEW r \in Requests, WatchMidFlight(r) PROVE TypeOK'
  <2>1. row[r] \in Row
    OBVIOUS
  <2>2. [row[r] EXCEPT !.proof = watch[r]] \in Row
    BY <1>14, <2>1 DEF WatchMidFlight, Row, RowProof, ProofStatus
  <2>3. row' \in [Requests -> Row]
    BY <1>14, <2>2 DEF WatchMidFlight
  <2> QED
    BY <1>14, <2>3 DEF WatchMidFlight
<1>15. ASSUME NEW r \in Requests, WatchFailed(r) PROVE TypeOK'
  <2>1. row' \in [Requests -> Row]
    BY <1>15, MarkFailedType DEF WatchFailed
  <2> QED
    BY <1>15, <2>1 DEF WatchFailed
<1>16. ASSUME NEW r \in Requests, WatchVerified(r) PROVE TypeOK'
  <2> DEFINE t == IF mode[r] = "secure" /\ row[r].status = "COMPLETE"
                  THEN "CONFIDENTIAL_VERIFIED" ELSE row[r].trust
  <2>1. row[r] \in Row
    OBVIOUS
  <2>2. t \in TrustStatus
    BY <2>1 DEF Row, TrustStatus
  <2>3. row' = [row EXCEPT ![r] = [row[r] EXCEPT !.proof = "VERIFIED", !.trust = t]]
    BY <1>16 DEF WatchVerified
  <2> HIDE DEF t
  <2>4. [row[r] EXCEPT !.proof = "VERIFIED", !.trust = t] \in Row
    BY ONLY <2>1, <2>2 DEF Row, RowProof, ProofStatus
  <2>5. row' \in [Requests -> Row]
    BY <2>3, <2>4
  <2> QED
    BY <1>16, <2>5 DEF WatchVerified
<1>17. ASSUME NEW r \in Requests, WatchCeiling(r) PROVE TypeOK'
  <2>1. row' \in [Requests -> Row]
    BY <1>17, MarkFailedType DEF WatchCeiling
  <2> QED
    BY <1>17, <2>1 DEF WatchCeiling
<1>18. ASSUME NEW r \in Requests, Expire(r) PROVE TypeOK'
  BY <1>18 DEF Expire
<1>19. ASSUME NEW d \in Direct, DirectExecute(d) PROVE TypeOK'
  BY <1>19 DEF DirectExecute, InEnclave
<1>20. ASSUME NEW i \in Ids, GateOpen(i) PROVE TypeOK'
  BY <1>20 DEF GateOpen, InEnclave, Answer
<1>21. ASSUME NEW i \in Ids, GateDecide(i) PROVE TypeOK'
  <2>1. verdict[env[i]] \in {"ALLOW", "DENY"} /\ i \in Requests
    BY <1>21, Decidable DEF GateDecide
  <2>2. rpc' \in [Ids -> {"none"} \cup InEnclave \cup Answer]
    BY <1>21, <2>1 DEF GateDecide, Answer
  <2>3. record' \in [Ids -> {"NONE"} \cup ProofStatus] /\ run' \in [Ids -> {"none", "enqueue", "poll", "verify"}]
    BY <1>21 DEF GateDecide, StartProof, ProofStatus
  <2>4. parked' \in SUBSET Requests
    BY <1>21, <2>1 DEF GateDecide
  <2> QED
    BY <1>21, <2>2, <2>3, <2>4 DEF GateDecide
<1>22. ASSUME NEW i \in Ids, GateFault(i) PROVE TypeOK'
  BY <1>22 DEF GateFault, Answer
<1>23. ASSUME NEW i \in Ids, ExecOpen(i) PROVE TypeOK'
  BY <1>23 DEF ExecOpen, InEnclave, Answer
<1>24. ASSUME NEW i \in Ids, ExecDecide(i) PROVE TypeOK'
  <2>1. record' \in [Ids -> {"NONE"} \cup ProofStatus] /\ run' \in [Ids -> {"none", "enqueue", "poll", "verify"}]
    BY <1>24 DEF ExecDecide, StartProof, ProofStatus
  <2> QED
    BY <1>24, <2>1 DEF ExecDecide, InEnclave, Answer
<1>25. ASSUME NEW i \in Ids, SkipCandidate(i) PROVE TypeOK'
  BY <1>25, BoundsAssumption DEF SkipCandidate
<1>26. ASSUME NEW i \in Ids, FailBeforeSend(i) PROVE TypeOK'
  BY <1>26, BoundsAssumption DEF FailBeforeSend
<1>27. ASSUME NEW i \in Ids, NoCandidateLeft(i) PROVE TypeOK'
  BY <1>27 DEF NoCandidateLeft, Answer
<1>28. ASSUME NEW i \in Ids, SendUpstream(i) PROVE TypeOK'
  BY <1>28, BoundsAssumption DEF SendUpstream, InEnclave
<1>29. ASSUME NEW i \in Ids, ProviderAnswer(i) PROVE TypeOK'
  BY <1>29 DEF ProviderAnswer, Answer
<1>30. ASSUME NEW i \in Ids, SealFailed(i) PROVE TypeOK'
  BY <1>30 DEF SealFailed, Answer
<1>31. ASSUME NEW i \in Ids, RunEnqueue(i) PROVE TypeOK'
  BY <1>31 DEF RunEnqueue, Daemon!Accept, Daemon!AcceptForgetting, Daemon!Move, Daemon!BoardStatus, Daemon!Finished
<1>32. ASSUME NEW i \in Ids, RunEnqueueLost(i) PROVE TypeOK'
  BY <1>32 DEF RunEnqueueLost, Daemon!Accept, Daemon!Move, Daemon!BoardStatus, Daemon!Finished, ProofStatus
<1>33. ASSUME NEW i \in Ids, RunPoll(i) PROVE TypeOK'
  BY <1>33 DEF RunPoll, ProofStatus
<1>34. ASSUME NEW i \in Ids, RunCollect(i) PROVE TypeOK'
  BY <1>34 DEF RunCollect, ProofStatus
<1>35. ASSUME NEW i \in Ids, RunVerified(i) PROVE TypeOK'
  BY <1>35 DEF RunVerified, ProofStatus
<1>36. ASSUME NEW i \in Ids, RunFail(i) PROVE TypeOK'
  BY <1>36 DEF RunFail, ProofStatus
<1>37. ASSUME CoordinatorCrash PROVE TypeOK'
  <2>1. row' \in [Requests -> Row]
    BY <1>37, FailedRowType, CompletedRowType DEF CoordinatorCrash
  <2>2. crashes' \in 0..MaxCrashes
    BY <1>37, BoundsAssumption DEF CoordinatorCrash
  <2> QED
    BY <1>37, <2>1, <2>2 DEF CoordinatorCrash
<1>38. ASSUME EnclaveRestart PROVE TypeOK'
  BY <1>38, BoundsAssumption DEF EnclaveRestart, InEnclave, Answer
<1>39. ASSUME DaemonStep PROVE TypeOK'
  BY <1>39 DEF DaemonStep, Daemon!StartProving, Daemon!Finish, Daemon!LoseAll, Daemon!Move, Daemon!BoardStatus, Daemon!Finished
<1>40. ASSUME UNCHANGED vars PROVE TypeOK'
  BY <1>40 DEF vars
<1> QED
  BY <1>1, <1>2, <1>3, <1>4, <1>5, <1>6, <1>7, <1>8, <1>9, <1>10, <1>11, <1>12,
     <1>13, <1>14, <1>15, <1>16, <1>17, <1>18, <1>19, <1>20, <1>21, <1>22, <1>23,
     <1>24, <1>25, <1>26, <1>27, <1>28, <1>29, <1>30, <1>31, <1>32, <1>33, <1>34,
     <1>35, <1>36, <1>37, <1>38, <1>39, <1>40
     DEF Next, Handler, Watcher, Enclave, Run

\* What settlements write.  Of the failure path: attempts that the enclave made, the
\* bound of an unknown outcome, and FAILED once all is written.
FailureWrites(r) ==
  /\ row'[r].proof = row[r].proof
  /\ row'[r].decision = row[r].decision
  /\ row'[r].trust = row[r].trust
  /\ row'[r].receipt => row[r].receipt
  /\ row[r].attempts => row'[r].attempts
  /\ row'[r].attempts => row[r].attempts \/ r \in attempted
  /\ r \in attempted => row'[r].attempts
  /\ row'[r].usage = row[r].usage \/ (rpc[r] = "UNKNOWN" /\ row'[r].usage = 1)
  /\ row'[r].status \in {row[r].status, "FAILED"}

\* Of the success path: the attempts, the usage, COMPLETE with its trust status, and
\* the receipt last.
SuccessWrites(r) ==
  /\ row'[r].proof = row[r].proof
  /\ row'[r].decision = row[r].decision
  /\ row'[r].attempts
  /\ row'[r].usage = row[r].usage \/ row'[r].usage = 1
  /\ row'[r].receipt => row[r].receipt \/ row'[r].status = "COMPLETE"
  /\ \/ row'[r].status = row[r].status /\ row'[r].trust = row[r].trust
     \/ /\ row'[r].status = "COMPLETE"
        /\ row'[r].usage = 1
        /\ row'[r].trust = IF mode[r] = "secure" THEN "CONFIDENTIAL_PROOF_PENDING"
                           ELSE "COMPATIBILITY"

\* The first k writes of the failure path, where n is booked or not.
LEMMA FailedRowWrites ==
  ASSUME row \in [Requests -> Row], NEW r \in Requests, NEW k \in 1..3, NEW n \in {0, 1},
         n = row[r].usage \/ (rpc[r] = "UNKNOWN" /\ n = 1),
         row'[r] = [FailedRow(r, k) EXCEPT !.usage = n]
  PROVE  /\ FailureWrites(r)
         /\ row'[r].usage = n
         /\ row'[r].status = IF k = 3 THEN "FAILED" ELSE row[r].status
<1> DEFINE a == IF r \in attempted THEN TRUE ELSE row[r].attempts
           u == IF k >= 2 /\ rpc[r] = "UNKNOWN" THEN 1 ELSE row[r].usage
           s == IF k >= 3 THEN "FAILED" ELSE row[r].status
<1>1. row[r] \in Row
  OBVIOUS
<1>2. FailedRow(r, k) = [row[r] EXCEPT !.attempts = a, !.usage = u, !.status = s]
  BY DEF FailedRow
<1>3. (r \in attempted => a) /\ (r \notin attempted => a = row[r].attempts)
  OBVIOUS
<1>4. s = IF k = 3 THEN "FAILED" ELSE row[r].status
  OBVIOUS
<1> HIDE DEF a, u, s
<1>5. row'[r] = [row[r] EXCEPT !.attempts = a, !.usage = n, !.status = s]
  BY ONLY <1>1, <1>2, row'[r] = [FailedRow(r, k) EXCEPT !.usage = n] DEF Row
<1>6. /\ row'[r].proof = row[r].proof
      /\ row'[r].decision = row[r].decision
      /\ row'[r].trust = row[r].trust
      /\ row'[r].receipt = row[r].receipt
      /\ row'[r].attempts = a
      /\ row'[r].usage = n
      /\ row'[r].status = s
  BY ONLY <1>1, <1>5 DEF Row
<1> QED
  BY <1>3, <1>4, <1>6 DEF FailureWrites

\* The first k writes of the success path.
LEMMA CompletedRowWrites ==
  ASSUME row \in [Requests -> Row], NEW r \in Requests, NEW k \in 1..4,
         row'[r] = CompletedRow(r, k)
  PROVE  SuccessWrites(r) /\ (k < 4 => row'[r].receipt = row[r].receipt)
<1> DEFINE u == IF k >= 2 THEN 1 ELSE row[r].usage
           s == IF k >= 3 THEN "COMPLETE" ELSE row[r].status
           t == IF k < 3 THEN row[r].trust
                ELSE IF mode[r] = "secure" THEN "CONFIDENTIAL_PROOF_PENDING"
                ELSE "COMPATIBILITY"
           c == IF k >= 4 THEN TRUE ELSE row[r].receipt
<1>1. row[r] \in Row
  OBVIOUS
<1>2. CompletedRow(r, k) = [row[r] EXCEPT !.attempts = TRUE, !.usage = u, !.status = s,
                                     !.trust = t, !.receipt = c]
  BY DEF CompletedRow
<1>3. ASSUME k < 4 PROVE c = row[r].receipt
  <2>1. ~(k >= 4)
    BY <1>3
  <2> QED
    BY ONLY <2>1
<1>4. k >= 4 => s = "COMPLETE"
  OBVIOUS
<1>5. u = row[r].usage \/ u = 1
  OBVIOUS
<1>6. k < 3 => s = row[r].status /\ t = row[r].trust
  OBVIOUS
<1>7. k >= 3 =>
        /\ s = "COMPLETE"
        /\ u = 1
        /\ t = IF mode[r] = "secure" THEN "CONFIDENTIAL_PROOF_PENDING" ELSE "COMPATIBILITY"
  OBVIOUS
<1> HIDE DEF u, s, t, c
<1>8. /\ row'[r].proof = row[r].proof
      /\ row'[r].decision = row[r].decision
      /\ row'[r].attempts
      /\ row'[r].usage = u
      /\ row'[r].status = s
      /\ row'[r].trust = t
      /\ row'[r].receipt = c
  BY ONLY <1>1, <1>2, row'[r] = CompletedRow(r, k) DEF Row
<1>9. row'[r].receipt => row[r].receipt \/ row'[r].status = "COMPLETE"
  <2>1. k < 4 \/ k >= 4
    OBVIOUS
  <2> QED
    BY ONLY <2>1, <1>3, <1>4, <1>8
<1>10. \/ row'[r].status = row[r].status /\ row'[r].trust = row[r].trust
       \/ /\ row'[r].status = "COMPLETE"
          /\ row'[r].usage = 1
          /\ row'[r].trust = IF mode[r] = "secure" THEN "CONFIDENTIAL_PROOF_PENDING"
                             ELSE "COMPATIBILITY"
  <2>1. k < 3 \/ k >= 3
    OBVIOUS
  <2> QED
    BY ONLY <2>1, <1>6, <1>7, <1>8
<1>11. row'[r].usage = row[r].usage \/ row'[r].usage = 1
  BY ONLY <1>5, <1>8
<1>12. k < 4 => row'[r].receipt = row[r].receipt
  BY ONLY <1>3, <1>8
<1> QED
  BY ONLY <1>8, <1>9, <1>10, <1>11, <1>12 DEF SuccessWrites

\* A handler that ends on the failure path.
FailedEnd(r) ==
  /\ pc[r] = "executing"
  /\ rpc[r] \in {"FAILED", "UNKNOWN"}
  /\ FailureWrites(r)
  /\ row'[r].status = "FAILED"
  /\ rpc[r] = "UNKNOWN" => row'[r].usage = 1 \/ r \in threw'
  /\ \A q \in Requests : q # r => row'[q] = row[q]
  /\ pc' = [pc EXCEPT ![r] = "done"]
  /\ threw \subseteq threw'
  /\ UNCHANGED <<world, watch, rpc, left, enclave, board, sends, attempted, checked, crashes>>

\* AttemptsFailed and AssumedUsageThrows are such ends.
LEMMA FailedEnds ==
  ASSUME LifecycleInv, NEW r \in Requests, AttemptsFailed(r) \/ AssumedUsageThrows(r)
  PROVE  FailedEnd(r)
<1> DEFINE f == FailedRow(r, 3)
<1>1. row \in [Requests -> Row] /\ row[r] \in Row
  BY DEF LifecycleInv, TypeOK
<1>2. f \in Row
  BY <1>1, FailedRowType
<1>3. f.usage = IF rpc[r] = "UNKNOWN" THEN 1 ELSE row[r].usage
  BY <1>1 DEF FailedRow, Row
<1> HIDE DEF f
<1>4. f = [f EXCEPT !.usage = f.usage] /\ f.usage \in {0, 1} /\ row[r].usage \in {0, 1}
  BY ONLY <1>1, <1>2 DEF Row
<1>5. CASE AttemptsFailed(r)
  <2>1. row'[r] = f
    BY <1>1, <1>5 DEF AttemptsFailed, f
  <2>2. f.usage = row[r].usage \/ (rpc[r] = "UNKNOWN" /\ f.usage = 1)
    BY ONLY <1>3
  <2>3. row'[r] = [FailedRow(r, 3) EXCEPT !.usage = f.usage]
    BY ONLY <1>4, <2>1 DEF f
  <2>4. FailureWrites(r) /\ row'[r].usage = f.usage /\ row'[r].status = "FAILED"
    <3>1. 3 \in 1..3 /\ f.usage \in {0, 1}
      BY ONLY <1>4
    <3> QED
      BY ONLY <3>1, <1>1, <2>2, <2>3, r \in Requests, FailedRowWrites
  <2>5. rpc[r] = "UNKNOWN" => row'[r].usage = 1
    BY ONLY <1>3, <2>4
  <2>6. \A q \in Requests : q # r => row'[q] = row[q]
    BY <1>1, <1>5 DEF AttemptsFailed
  <2> QED
    BY ONLY <1>5, <2>4, <2>5, <2>6 DEF AttemptsFailed, FailedEnd, history
<1>6. CASE AssumedUsageThrows(r)
  <2>1. row'[r] = [FailedRow(r, 3) EXCEPT !.usage = row[r].usage]
    BY <1>1, <1>6 DEF AssumedUsageThrows
  <2>2. FailureWrites(r) /\ row'[r].status = "FAILED"
    <3>1. 3 \in 1..3 /\ row[r].usage \in {0, 1}
      BY ONLY <1>4
    <3> QED
      BY ONLY <3>1, <1>1, <2>1, r \in Requests, FailedRowWrites
  <2>3. \A q \in Requests : q # r => row'[q] = row[q]
    BY <1>1, <1>6 DEF AssumedUsageThrows
  <2> QED
    BY ONLY <1>6, <2>2, <2>3 DEF AssumedUsageThrows, FailedEnd
<1> QED
  BY <1>5, <1>6

\* A handler that ends on the success path, or whose recordUsage throws.
CompletedEnd(r) ==
  /\ pc[r] = "executing"
  /\ rpc[r] = "COMPLETE"
  /\ SuccessWrites(r)
  /\ \A q \in Requests : q # r => row'[q] = row[q]
  /\ pc' = [pc EXCEPT ![r] = "done"]
  /\ threw \subseteq threw'
  /\ UNCHANGED <<world, watch, rpc, left, enclave, board, sends, attempted, checked, crashes>>

\* Complete and RecordUsageThrows are such ends.
LEMMA CompletedEnds ==
  ASSUME LifecycleInv, NEW r \in Requests, Complete(r) \/ RecordUsageThrows(r)
  PROVE  CompletedEnd(r)
<1>1. row \in [Requests -> Row]
  BY DEF LifecycleInv, TypeOK
<1>2. PICK k \in 1..4 : row' = [row EXCEPT ![r] = CompletedRow(r, k)]
  BY DEF Complete, RecordUsageThrows
<1>3. row'[r] = CompletedRow(r, k) /\ \A q \in Requests : q # r => row'[q] = row[q]
  BY <1>1, <1>2
<1>4. SuccessWrites(r)
  BY <1>1, <1>3, CompletedRowWrites
<1> QED
  BY <1>3, <1>4 DEF Complete, RecordUsageThrows, CompletedEnd, history

\* What a crash leaves of a row: the row, or the row after the first writes of a
\* settlement, which end neither in FAILED nor with a receipt.
RowSurvives(r) ==
  \/ row'[r] = row[r]
  \/ /\ pc[r] = "executing"
     /\ rpc[r] = "COMPLETE"
     /\ SuccessWrites(r)
     /\ row'[r].receipt = row[r].receipt
  \/ /\ pc[r] = "executing"
     /\ rpc[r] \in {"FAILED", "UNKNOWN"}
     /\ FailureWrites(r)
     /\ row'[r].status = row[r].status

\* A crash, wherever it falls, leaves every row so.
LEMMA CrashRow ==
  ASSUME LifecycleInv, CoordinatorCrash, NEW r \in Requests
  PROVE  RowSurvives(r)
<1>1. row \in [Requests -> Row] /\ row[r] \in Row
  BY DEF LifecycleInv, TypeOK
<1>2. CASE UNCHANGED row
  BY <1>2 DEF RowSurvives
<1>3. ASSUME NEW q \in Requests, NEW k \in 1..3, pc[q] = "executing", rpc[q] = "COMPLETE",
             row' = [row EXCEPT ![q] = CompletedRow(q, k)]
      PROVE  RowSurvives(r)
  <2>1. CASE q # r
    BY <1>1, <1>3, <2>1 DEF RowSurvives
  <2>2. CASE q = r
    <3>1. row'[r] = CompletedRow(r, k)
      BY <1>1, <1>3, <2>2
    <3>2. SuccessWrites(r) /\ row'[r].receipt = row[r].receipt
      BY <1>1, <3>1, CompletedRowWrites
    <3> QED
      BY <1>3, <2>2, <3>2 DEF RowSurvives
  <2> QED
    BY <2>1, <2>2
<1>4. ASSUME NEW q \in Requests, NEW k \in 1..2, pc[q] = "executing",
             rpc[q] \in {"FAILED", "UNKNOWN"},
             row' = [row EXCEPT ![q] = FailedRow(q, k)]
      PROVE  RowSurvives(r)
  <2>1. CASE q # r
    BY <1>1, <1>4, <2>1 DEF RowSurvives
  <2>2. CASE q = r
    <3> DEFINE f == FailedRow(r, k)
    <3>1. row'[r] = f /\ f \in Row
      BY <1>1, <1>4, <2>2, FailedRowType
    <3>2. f.usage = row[r].usage \/ (rpc[r] = "UNKNOWN" /\ f.usage = 1)
      BY <1>1 DEF FailedRow, Row
    <3> HIDE DEF f
    <3>3. f = [f EXCEPT !.usage = f.usage] /\ f.usage \in {0, 1}
      BY ONLY <3>1 DEF Row
    <3>4. row'[r] = [FailedRow(r, k) EXCEPT !.usage = f.usage]
      BY ONLY <3>1, <3>3 DEF f
    <3>5. k \in 1..3 /\ k # 3
      OBVIOUS
    <3>6. FailureWrites(r) /\ row'[r].status = row[r].status
      BY ONLY <1>1, <3>2, <3>3, <3>4, <3>5, r \in Requests, FailedRowWrites, ZenonT(60)
    <3> QED
      BY <1>4, <2>2, <3>6 DEF RowSurvives
  <2> QED
    BY <2>1, <2>2
<1> QED
  BY <1>2, <1>3, <1>4 DEF CoordinatorCrash

\* Every step keeps the handler where its row and its call say it is.
LEMMA HandlerStep == LifecycleInv /\ [Next]_vars => HandlerInv'
<1> SUFFICES ASSUME LifecycleInv, [Next]_vars PROVE HandlerInv'
  OBVIOUS
<1> USE DEF LifecycleInv, TypeOK, world, enclave, history, Ids, HandlerInv, GateCall,
            ExecCall, Settled, Row, InEnclave
<1>1. ASSUME NEW r \in Requests, Submit(r) PROVE HandlerInv'
  BY <1>1 DEF Submit
<1>2. ASSUME NEW r \in Requests, GateFailed(r) PROVE HandlerInv'
  BY <1>2 DEF GateFailed
<1>3. ASSUME NEW r \in Requests, GateVerdict(r) PROVE HandlerInv'
  BY <1>3 DEF GateVerdict
<1>4. ASSUME NEW r \in Requests, Denied(r) PROVE HandlerInv'
  BY <1>4 DEF Denied
<1>5. ASSUME NEW r \in Requests, NoCapacity(r) PROVE HandlerInv'
  BY <1>5 DEF NoCapacity
<1>6. ASSUME NEW r \in Requests, Dispatch(r) PROVE HandlerInv'
  BY <1>6 DEF Dispatch
<1>7. ASSUME NEW r \in Requests, ExecuteFailed(r) PROVE HandlerInv'
  BY <1>7 DEF ExecuteFailed
<1>8. ASSUME NEW r \in Requests, AttemptsFailed(r) \/ AssumedUsageThrows(r) PROVE HandlerInv'
  BY <1>8, FailedEnds DEF FailedEnd, FailureWrites
<1>9. ASSUME NEW r \in Requests, Complete(r) \/ RecordUsageThrows(r) PROVE HandlerInv'
  BY <1>9, CompletedEnds DEF CompletedEnd, SuccessWrites
<1>10. ASSUME NEW r \in Requests, WatchMidFlight(r) PROVE HandlerInv'
  BY <1>10 DEF WatchMidFlight
<1>11. ASSUME NEW r \in Requests, WatchFailed(r) PROVE HandlerInv'
  BY <1>11 DEF WatchFailed, MarkFailed
<1>12. ASSUME NEW r \in Requests, WatchVerified(r) PROVE HandlerInv'
  BY <1>12 DEF WatchVerified
<1>13. ASSUME NEW r \in Requests, WatchCeiling(r) PROVE HandlerInv'
  BY <1>13 DEF WatchCeiling, MarkFailed
<1>14. ASSUME NEW r \in Requests, WatchPoll(r) \/ WatchHiccup(r) \/ Expire(r)
       PROVE  HandlerInv'
  BY <1>14 DEF WatchPoll, WatchHiccup, Expire
<1>15. ASSUME NEW d \in Direct, DirectExecute(d) PROVE HandlerInv'
  BY <1>15, IdsAssumption DEF DirectExecute
<1>16. ASSUME NEW i \in Ids, GateOpen(i) PROVE HandlerInv'
  BY <1>16 DEF GateOpen, Opens
<1>17. ASSUME NEW i \in Ids, GateDecide(i) PROVE HandlerInv'
  BY <1>17 DEF GateDecide, StartProof
<1>18. ASSUME NEW i \in Ids, GateFault(i) PROVE HandlerInv'
  BY <1>18 DEF GateFault
<1>19. ASSUME NEW i \in Ids, ExecOpen(i) PROVE HandlerInv'
  BY <1>19 DEF ExecOpen, Opens
<1>20. ASSUME NEW i \in Ids, ExecDecide(i) PROVE HandlerInv'
  BY <1>20 DEF ExecDecide, StartProof
<1>21. ASSUME NEW i \in Ids, NoCandidateLeft(i) PROVE HandlerInv'
  BY <1>21 DEF NoCandidateLeft
<1>22. ASSUME NEW i \in Ids, SendUpstream(i) PROVE HandlerInv'
  BY <1>22 DEF SendUpstream
<1>23. ASSUME NEW i \in Ids, ProviderAnswer(i) PROVE HandlerInv'
  BY <1>23 DEF ProviderAnswer
<1>24. ASSUME NEW i \in Ids, SealFailed(i) PROVE HandlerInv'
  BY <1>24 DEF SealFailed
<1>25. ASSUME NEW i \in Ids, SkipCandidate(i) \/ FailBeforeSend(i)
                             \/ RunEnqueue(i) \/ RunEnqueueLost(i)
                             \/ RunPoll(i) \/ RunCollect(i) \/ RunVerified(i)
                             \/ RunFail(i)
       PROVE  HandlerInv'
  BY <1>25 DEF SkipCandidate, FailBeforeSend, RunEnqueue, RunEnqueueLost,
     RunPoll, RunCollect, RunVerified, RunFail
<1>26. ASSUME CoordinatorCrash PROVE HandlerInv'
  BY <1>26, CrashRow DEF CoordinatorCrash, RowSurvives, SuccessWrites, FailureWrites
<1>27. ASSUME EnclaveRestart PROVE HandlerInv'
  BY <1>27 DEF EnclaveRestart, InEnclave
<1>28. ASSUME DaemonStep PROVE HandlerInv'
  BY <1>28 DEF DaemonStep
<1>29. ASSUME UNCHANGED vars PROVE HandlerInv'
  BY <1>29 DEF vars
<1> QED
  BY <1>1, <1>2, <1>3, <1>4, <1>5, <1>6, <1>7, <1>8, <1>9, <1>10, <1>11, <1>12,
     <1>13, <1>14, <1>15, <1>16, <1>17, <1>18, <1>19, <1>20, <1>21, <1>22, <1>23,
     <1>24, <1>25, <1>26, <1>27, <1>28, <1>29
     DEF Next, Handler, Watcher, Enclave, Run

\* Every step keeps open calls, parked gates and upstream calls in agreement.
LEMMA CallStep == LifecycleInv /\ [Next]_vars => CallInv'
<1> SUFFICES ASSUME LifecycleInv, [Next]_vars PROVE CallInv'
  OBVIOUS
<1> USE DEF LifecycleInv, TypeOK, world, enclave, history, Ids, CallInv, HandlerInv, GateCall
<1>1. ASSUME NEW r \in Requests, Submit(r) PROVE CallInv'
  BY <1>1, IdsAssumption DEF Submit
<1>2. ASSUME NEW r \in Requests, GateVerdict(r) PROVE CallInv'
  BY <1>2, IdsAssumption DEF GateVerdict
<1>3. ASSUME NEW r \in Requests, Dispatch(r) PROVE CallInv'
  BY <1>3, IdsAssumption DEF Dispatch
<1>4. ASSUME NEW r \in Requests, Expire(r) PROVE CallInv'
  BY <1>4 DEF Expire
<1>5. ASSUME NEW r \in Requests, GateFailed(r) \/ Denied(r) \/ NoCapacity(r)
                                 \/ ExecuteFailed(r) \/ AttemptsFailed(r)
                                 \/ AssumedUsageThrows(r) \/ RecordUsageThrows(r)
                                 \/ Complete(r) \/ WatchPoll(r) \/ WatchHiccup(r)
                                 \/ WatchMidFlight(r) \/ WatchFailed(r)
                                 \/ WatchVerified(r) \/ WatchCeiling(r)
      PROVE  CallInv'
  BY <1>5 DEF GateFailed, Denied, NoCapacity, ExecuteFailed, AttemptsFailed, FailedRow,
     AssumedUsageThrows, RecordUsageThrows, Complete, CompletedRow, WatchPoll,
     WatchHiccup, WatchMidFlight, WatchFailed, MarkFailed, WatchVerified, WatchCeiling
<1>6. ASSUME NEW d \in Direct, DirectExecute(d) PROVE CallInv'
  BY <1>6, IdsAssumption DEF DirectExecute
<1>7. ASSUME NEW i \in Ids, GateOpen(i) PROVE CallInv'
  BY <1>7 DEF GateOpen, Opens
<1>8. ASSUME NEW i \in Ids, GateDecide(i) PROVE CallInv'
  BY <1>8 DEF GateDecide, StartProof
<1>9. ASSUME NEW i \in Ids, GateFault(i) PROVE CallInv'
  BY <1>9 DEF GateFault
<1>10. ASSUME NEW i \in Ids, ExecOpen(i) PROVE CallInv'
  BY <1>10 DEF ExecOpen, Opens
<1>11. ASSUME NEW i \in Ids, ExecDecide(i) PROVE CallInv'
  BY <1>11 DEF ExecDecide, StartProof
<1>12. ASSUME NEW i \in Ids, NoCandidateLeft(i) PROVE CallInv'
  BY <1>12 DEF NoCandidateLeft
<1>13. ASSUME NEW i \in Ids, SendUpstream(i) PROVE CallInv'
  BY <1>13 DEF SendUpstream
<1>14. ASSUME NEW i \in Ids, ProviderAnswer(i) PROVE CallInv'
  BY <1>14 DEF ProviderAnswer
<1>15. ASSUME NEW i \in Ids, SealFailed(i) PROVE CallInv'
  BY <1>15 DEF SealFailed
<1>16. ASSUME NEW i \in Ids, SkipCandidate(i) \/ FailBeforeSend(i)
                             \/ RunEnqueue(i) \/ RunEnqueueLost(i)
                             \/ RunPoll(i) \/ RunCollect(i) \/ RunVerified(i)
                             \/ RunFail(i)
       PROVE  CallInv'
  BY <1>16 DEF SkipCandidate, FailBeforeSend, RunEnqueue, RunEnqueueLost,
     RunPoll, RunCollect, RunVerified, RunFail
<1>17. ASSUME CoordinatorCrash PROVE CallInv'
  BY <1>17, CrashRow DEF CoordinatorCrash, RowSurvives, SuccessWrites, FailureWrites
<1>18. ASSUME EnclaveRestart PROVE CallInv'
  BY <1>18 DEF EnclaveRestart, InEnclave
<1>19. ASSUME DaemonStep PROVE CallInv'
  BY <1>19 DEF DaemonStep
<1>20. ASSUME UNCHANGED vars PROVE CallInv'
  BY <1>20 DEF vars
<1> QED
  BY <1>1, <1>2, <1>3, <1>4, <1>5, <1>6, <1>7, <1>8, <1>9, <1>10, <1>11, <1>12,
     <1>13, <1>14, <1>15, <1>16, <1>17, <1>18, <1>19, <1>20
     DEF Next, Handler, Watcher, Enclave, Run

\* No step gives a second id a claim on an envelope.
LEMMA ClaimStep == LifecycleInv /\ [Next]_vars => ClaimInv'
<1> SUFFICES ASSUME LifecycleInv, [Next]_vars PROVE ClaimInv'
  OBVIOUS
<1> USE DEF LifecycleInv, TypeOK, world, enclave, history, Ids, ClaimInv, Claims, CallInv,
            HandlerInv
<1>1. ASSUME NEW r \in Requests, Submit(r) PROVE ClaimInv'
  BY <1>1 DEF Submit
<1>2. ASSUME NEW r \in Requests, GateVerdict(r) PROVE ClaimInv'
  BY <1>2 DEF GateVerdict
<1>3. ASSUME NEW r \in Requests, Dispatch(r) PROVE ClaimInv'
  BY <1>3 DEF Dispatch
<1>4. ASSUME NEW r \in Requests, Expire(r) PROVE ClaimInv'
  BY <1>4 DEF Expire
<1>5. ASSUME NEW r \in Requests, GateFailed(r) \/ Denied(r) \/ NoCapacity(r)
                                 \/ ExecuteFailed(r) \/ AttemptsFailed(r)
                                 \/ AssumedUsageThrows(r) \/ RecordUsageThrows(r)
                                 \/ Complete(r) \/ WatchPoll(r) \/ WatchHiccup(r)
                                 \/ WatchMidFlight(r) \/ WatchFailed(r)
                                 \/ WatchVerified(r) \/ WatchCeiling(r)
      PROVE  ClaimInv'
  BY <1>5 DEF GateFailed, Denied, NoCapacity, ExecuteFailed, AttemptsFailed, FailedRow,
     AssumedUsageThrows, RecordUsageThrows, Complete, CompletedRow, WatchPoll,
     WatchHiccup, WatchMidFlight, WatchFailed, MarkFailed, WatchVerified, WatchCeiling
<1>6. ASSUME NEW d \in Direct, DirectExecute(d) PROVE ClaimInv'
  BY <1>6 DEF DirectExecute
<1>7. ASSUME NEW i \in Ids, GateOpen(i) PROVE ClaimInv'
  BY <1>7 DEF GateOpen, Opens
<1>8. ASSUME NEW i \in Ids, GateDecide(i) PROVE ClaimInv'
  BY <1>8 DEF GateDecide, StartProof
<1>9. ASSUME NEW i \in Ids, GateFault(i) PROVE ClaimInv'
  BY <1>9 DEF GateFault
<1>10. ASSUME NEW i \in Ids, ExecOpen(i) PROVE ClaimInv'
  BY <1>10 DEF ExecOpen, Opens
<1>11. ASSUME NEW i \in Ids, ExecDecide(i) PROVE ClaimInv'
  BY <1>11 DEF ExecDecide, StartProof
<1>12. ASSUME NEW i \in Ids, NoCandidateLeft(i) PROVE ClaimInv'
  BY <1>12 DEF NoCandidateLeft
<1>13. ASSUME NEW i \in Ids, SendUpstream(i) PROVE ClaimInv'
  BY <1>13 DEF SendUpstream
<1>14. ASSUME NEW i \in Ids, ProviderAnswer(i) PROVE ClaimInv'
  BY <1>14 DEF ProviderAnswer
<1>15. ASSUME NEW i \in Ids, SealFailed(i) PROVE ClaimInv'
  BY <1>15 DEF SealFailed
<1>16. ASSUME NEW i \in Ids, SkipCandidate(i) \/ FailBeforeSend(i)
                             \/ RunEnqueue(i) \/ RunEnqueueLost(i)
                             \/ RunPoll(i) \/ RunCollect(i) \/ RunVerified(i)
                             \/ RunFail(i)
       PROVE  ClaimInv'
  BY <1>16 DEF SkipCandidate, FailBeforeSend, RunEnqueue, RunEnqueueLost,
     RunPoll, RunCollect, RunVerified, RunFail
<1>17. ASSUME CoordinatorCrash PROVE ClaimInv'
  BY <1>17, CrashRow DEF CoordinatorCrash, RowSurvives, SuccessWrites, FailureWrites
<1>18. ASSUME EnclaveRestart PROVE ClaimInv'
  BY <1>18 DEF EnclaveRestart, InEnclave
<1>19. ASSUME DaemonStep PROVE ClaimInv'
  BY <1>19 DEF DaemonStep
<1>20. ASSUME UNCHANGED vars PROVE ClaimInv'
  BY <1>20 DEF vars
<1> QED
  BY <1>1, <1>2, <1>3, <1>4, <1>5, <1>6, <1>7, <1>8, <1>9, <1>10, <1>11, <1>12,
     <1>13, <1>14, <1>15, <1>16, <1>17, <1>18, <1>19, <1>20
     DEF Next, Handler, Watcher, Enclave, Run

\* Every step keeps VERIFIED behind the verifier, and the watcher inside its request.
LEMMA WatchStep == LifecycleInv /\ [Next]_vars => WatchInv'
<1> SUFFICES ASSUME LifecycleInv, [Next]_vars PROVE WatchInv'
  OBVIOUS
<1> USE DEF LifecycleInv, TypeOK, world, enclave, history, Ids, WatchInv, HandlerInv,
            ProofStatus, ProofFinal, Row
<1>1. ASSUME NEW r \in Requests, Submit(r) PROVE WatchInv'
  BY <1>1 DEF Submit
<1>2. ASSUME NEW r \in Requests, GateFailed(r) PROVE WatchInv'
  BY <1>2 DEF GateFailed
<1>3. ASSUME NEW r \in Requests, GateVerdict(r) PROVE WatchInv'
  BY <1>3 DEF GateVerdict
<1>4. ASSUME NEW r \in Requests, Denied(r) PROVE WatchInv'
  BY <1>4 DEF Denied
<1>5. ASSUME NEW r \in Requests, NoCapacity(r) PROVE WatchInv'
  BY <1>5 DEF NoCapacity
<1>6. ASSUME NEW r \in Requests, Dispatch(r) PROVE WatchInv'
  BY <1>6 DEF Dispatch
<1>7. ASSUME NEW r \in Requests, ExecuteFailed(r) PROVE WatchInv'
  BY <1>7 DEF ExecuteFailed
<1>8. ASSUME NEW r \in Requests, AttemptsFailed(r) \/ AssumedUsageThrows(r) PROVE WatchInv'
  BY <1>8, FailedEnds, SMTT(30) DEF FailedEnd, FailureWrites
<1>9. ASSUME NEW r \in Requests, Complete(r) \/ RecordUsageThrows(r) PROVE WatchInv'
  BY <1>9, CompletedEnds DEF CompletedEnd, SuccessWrites
<1>10. ASSUME NEW r \in Requests, WatchPoll(r) PROVE WatchInv'
  BY <1>10 DEF WatchPoll
<1>11. ASSUME NEW r \in Requests, WatchHiccup(r) PROVE WatchInv'
  BY <1>11 DEF WatchHiccup
<1>12. ASSUME NEW r \in Requests, WatchMidFlight(r) PROVE WatchInv'
  BY <1>12 DEF WatchMidFlight
<1>13. ASSUME NEW r \in Requests, WatchFailed(r) PROVE WatchInv'
  BY <1>13 DEF WatchFailed, MarkFailed
<1>14. ASSUME NEW r \in Requests, WatchVerified(r) PROVE WatchInv'
  BY <1>14 DEF WatchVerified
<1>15. ASSUME NEW r \in Requests, WatchCeiling(r) PROVE WatchInv'
  BY <1>15 DEF WatchCeiling, MarkFailed
<1>16. ASSUME NEW r \in Requests, Expire(r) PROVE WatchInv'
  BY <1>16 DEF Expire
<1>17. ASSUME NEW d \in Direct, DirectExecute(d) PROVE WatchInv'
  BY <1>17 DEF DirectExecute
<1>18. ASSUME NEW i \in Ids, GateDecide(i) PROVE WatchInv'
  BY <1>18 DEF GateDecide, StartProof
<1>19. ASSUME NEW i \in Ids, ExecDecide(i) PROVE WatchInv'
  BY <1>19 DEF ExecDecide, StartProof
<1>20. ASSUME NEW i \in Ids, RunEnqueueLost(i) PROVE WatchInv'
  BY <1>20 DEF RunEnqueueLost
<1>21. ASSUME NEW i \in Ids, RunPoll(i) PROVE WatchInv'
  BY <1>21 DEF RunPoll
<1>22. ASSUME NEW i \in Ids, RunCollect(i) PROVE WatchInv'
  BY <1>22 DEF RunCollect
<1>23. ASSUME NEW i \in Ids, RunVerified(i) PROVE WatchInv'
  BY <1>23 DEF RunVerified
<1>24. ASSUME NEW i \in Ids, RunFail(i) PROVE WatchInv'
  BY <1>24 DEF RunFail
<1>25. ASSUME NEW i \in Ids, GateOpen(i) \/ GateFault(i) \/ ExecOpen(i)
                             \/ SkipCandidate(i) \/ FailBeforeSend(i) \/ NoCandidateLeft(i)
                             \/ SendUpstream(i) \/ ProviderAnswer(i)
                             \/ SealFailed(i) \/ RunEnqueue(i)
       PROVE  WatchInv'
  BY <1>25 DEF GateOpen, Opens, GateFault, ExecOpen, SkipCandidate, FailBeforeSend,
     NoCandidateLeft, SendUpstream, ProviderAnswer, SealFailed, RunEnqueue
<1>26. ASSUME CoordinatorCrash PROVE WatchInv'
  BY <1>26, CrashRow DEF CoordinatorCrash, RowSurvives, SuccessWrites, FailureWrites
<1>27. ASSUME EnclaveRestart PROVE WatchInv'
  BY <1>27 DEF EnclaveRestart, InEnclave
<1>28. ASSUME DaemonStep PROVE WatchInv'
  BY <1>28 DEF DaemonStep
<1>29. ASSUME UNCHANGED vars PROVE WatchInv'
  BY <1>29 DEF vars
<1> QED
  BY <1>1, <1>2, <1>3, <1>4, <1>5, <1>6, <1>7, <1>8, <1>9, <1>10, <1>11, <1>12,
     <1>13, <1>14, <1>15, <1>16, <1>17, <1>18, <1>19, <1>20, <1>21, <1>22, <1>23,
     <1>24, <1>25, <1>26, <1>27, <1>28, <1>29
     DEF Next, Handler, Watcher, Enclave, Run

\* No step sends without a recorded ALLOW.
LEMMA DecidedStep == LifecycleInv /\ [Next]_vars => DispatchIsDecided'
<1> SUFFICES ASSUME LifecycleInv, [Next]_vars PROVE DispatchIsDecided'
  OBVIOUS
<1> USE DEF LifecycleInv, TypeOK, world, enclave, history, Ids, DispatchIsDecided, HandlerInv,
            CallInv, ExecCall, Settled, Row
<1>1. ASSUME NEW r \in Requests, Submit(r) PROVE DispatchIsDecided'
  BY <1>1 DEF Submit
<1>2. ASSUME NEW r \in Requests, GateFailed(r) PROVE DispatchIsDecided'
  BY <1>2 DEF GateFailed
<1>3. ASSUME NEW r \in Requests, GateVerdict(r) PROVE DispatchIsDecided'
  BY <1>3 DEF GateVerdict
<1>4. ASSUME NEW r \in Requests, Denied(r) PROVE DispatchIsDecided'
  BY <1>4 DEF Denied
<1>5. ASSUME NEW r \in Requests, NoCapacity(r) PROVE DispatchIsDecided'
  BY <1>5 DEF NoCapacity
<1>6. ASSUME NEW r \in Requests, Dispatch(r) PROVE DispatchIsDecided'
  BY <1>6 DEF Dispatch
<1>7. ASSUME NEW r \in Requests, ExecuteFailed(r) PROVE DispatchIsDecided'
  BY <1>7 DEF ExecuteFailed
<1>8. ASSUME NEW r \in Requests, AttemptsFailed(r) \/ AssumedUsageThrows(r)
      PROVE  DispatchIsDecided'
  <2>1. \A q \in Requests : /\ row'[q].decision = row[q].decision
                            /\ row'[q].status \in {row[q].status, "FAILED"}
    BY <1>8, FailedEnds, SMTT(30) DEF FailedEnd, FailureWrites
  <2>2. UNCHANGED <<world, sends>>
    BY <1>8, FailedEnds DEF FailedEnd
  <2> QED
    BY <2>1, <2>2
<1>9. ASSUME NEW r \in Requests, Complete(r) \/ RecordUsageThrows(r) PROVE DispatchIsDecided'
  <2>1. \A q \in Requests : /\ row'[q].decision = row[q].decision
                            /\ row'[q].status \in {row[q].status, "COMPLETE"}
    BY <1>9, CompletedEnds DEF CompletedEnd, SuccessWrites
  <2>2. UNCHANGED <<world, sends>>
    BY <1>9, CompletedEnds DEF CompletedEnd
  <2> QED
    BY <2>1, <2>2
<1>10. ASSUME NEW r \in Requests, WatchMidFlight(r) PROVE DispatchIsDecided'
  BY <1>10 DEF WatchMidFlight
<1>11. ASSUME NEW r \in Requests, WatchFailed(r) PROVE DispatchIsDecided'
  BY <1>11 DEF WatchFailed, MarkFailed
<1>12. ASSUME NEW r \in Requests, WatchVerified(r) PROVE DispatchIsDecided'
  BY <1>12 DEF WatchVerified
<1>13. ASSUME NEW r \in Requests, WatchCeiling(r) PROVE DispatchIsDecided'
  BY <1>13 DEF WatchCeiling, MarkFailed
<1>14. ASSUME NEW r \in Requests, WatchPoll(r) \/ WatchHiccup(r) \/ Expire(r)
       PROVE  DispatchIsDecided'
  BY <1>14 DEF WatchPoll, WatchHiccup, Expire
<1>15. ASSUME NEW d \in Direct, DirectExecute(d) PROVE DispatchIsDecided'
  BY <1>15 DEF DirectExecute
<1>16. ASSUME NEW i \in Ids, SendUpstream(i) PROVE DispatchIsDecided'
  BY <1>16 DEF SendUpstream
<1>17. ASSUME NEW i \in Ids, GateOpen(i) \/ GateDecide(i) \/ GateFault(i)
                             \/ ExecOpen(i) \/ ExecDecide(i) \/ SkipCandidate(i)
                             \/ FailBeforeSend(i)
                             \/ NoCandidateLeft(i) \/ ProviderAnswer(i)
                             \/ SealFailed(i) \/ RunEnqueue(i) \/ RunEnqueueLost(i)
                             \/ RunPoll(i) \/ RunCollect(i) \/ RunVerified(i)
                             \/ RunFail(i)
       PROVE  DispatchIsDecided'
  BY <1>17 DEF GateOpen, Opens, GateDecide, StartProof, GateFault, ExecOpen, ExecDecide,
     SkipCandidate, FailBeforeSend, NoCandidateLeft, ProviderAnswer, SealFailed, RunEnqueue,
     RunEnqueueLost, RunPoll, RunCollect, RunVerified, RunFail
<1>18. ASSUME CoordinatorCrash PROVE DispatchIsDecided'
  <2>1. \A r \in Requests :
           /\ row'[r].decision = row[r].decision
           /\ row'[r].status = row[r].status \/ row'[r].status = "COMPLETE"
    BY <1>18, CrashRow DEF RowSurvives, SuccessWrites, FailureWrites
  <2>2. UNCHANGED <<world, rpc, sends>>
    BY <1>18 DEF CoordinatorCrash
  <2> QED
    BY <2>1, <2>2, SMTT(30)
<1>19. ASSUME EnclaveRestart PROVE DispatchIsDecided'
  BY <1>19 DEF EnclaveRestart, InEnclave
<1>20. ASSUME DaemonStep PROVE DispatchIsDecided'
  BY <1>20 DEF DaemonStep
<1>21. ASSUME UNCHANGED vars PROVE DispatchIsDecided'
  BY <1>21 DEF vars
<1> QED
  BY <1>1, <1>2, <1>3, <1>4, <1>5, <1>6, <1>7, <1>8, <1>9, <1>10, <1>11, <1>12,
     <1>13, <1>14, <1>15, <1>16, <1>17, <1>18, <1>19, <1>20, <1>21
     DEF Next, Handler, Watcher, Enclave, Run

\* Every write of a settlement keeps the books.
LEMMA BooksStep == LifecycleInv /\ [Next]_vars => BooksAgree'
<1> SUFFICES ASSUME LifecycleInv, [Next]_vars PROVE BooksAgree'
  OBVIOUS
<1> USE DEF LifecycleInv, TypeOK, world, enclave, history, Ids, BooksAgree, HandlerInv,
            CallInv, Settled, Row
<1>1. ASSUME NEW r \in Requests, Submit(r) PROVE BooksAgree'
  BY <1>1 DEF Submit
<1>2. ASSUME NEW r \in Requests, GateFailed(r) PROVE BooksAgree'
  BY <1>2 DEF GateFailed
<1>3. ASSUME NEW r \in Requests, GateVerdict(r) PROVE BooksAgree'
  BY <1>3 DEF GateVerdict
<1>4. ASSUME NEW r \in Requests, Denied(r) PROVE BooksAgree'
  BY <1>4 DEF Denied
<1>5. ASSUME NEW r \in Requests, NoCapacity(r) PROVE BooksAgree'
  BY <1>5 DEF NoCapacity
<1>6. ASSUME NEW r \in Requests, Dispatch(r) PROVE BooksAgree'
  BY <1>6 DEF Dispatch
<1>7. ASSUME NEW r \in Requests, ExecuteFailed(r) PROVE BooksAgree'
  BY <1>7 DEF ExecuteFailed
<1>8. ASSUME NEW r \in Requests, AttemptsFailed(r) \/ AssumedUsageThrows(r) PROVE BooksAgree'
  <2>1. FailedEnd(r) /\ FailureWrites(r)
    BY <1>8, FailedEnds DEF FailedEnd
  <2>2. row[r].status # "COMPLETE" /\ ~row'[r].receipt /\ sends[r] \in {0, 1}
    BY <2>1 DEF FailedEnd, FailureWrites
  <2>3. rpc[r] = "UNKNOWN" => sends[r] = 1 /\ r \in attempted
    OBVIOUS
  <2>4. row'[r].usage = 1 => row'[r].attempts /\ sends[r] = 1
    BY <2>1, <2>3 DEF FailureWrites
  <2>5. row'[r].attempts => r \in attempted
    BY <2>1 DEF FailureWrites
  <2>6. r \in attempted => row'[r].attempts
    BY <2>1 DEF FailureWrites
  <2>7. row'[r].status = "FAILED" /\ (rpc[r] = "UNKNOWN" => row'[r].usage = 1 \/ r \in threw')
    BY <2>1 DEF FailedEnd
  <2>8. /\ \A q \in Requests : q # r => row'[q] = row[q]
        /\ threw \subseteq threw'
        /\ UNCHANGED <<sends, attempted, rpc>>
    BY <2>1 DEF FailedEnd
  <2> QED
    BY <2>2, <2>4, <2>5, <2>6, <2>7, <2>8
<1>9. ASSUME NEW r \in Requests, Complete(r) \/ RecordUsageThrows(r) PROVE BooksAgree'
  BY <1>9, CompletedEnds DEF CompletedEnd, SuccessWrites
<1>10. ASSUME NEW r \in Requests, WatchMidFlight(r) PROVE BooksAgree'
  BY <1>10 DEF WatchMidFlight
<1>11. ASSUME NEW r \in Requests, WatchFailed(r) PROVE BooksAgree'
  BY <1>11 DEF WatchFailed, MarkFailed
<1>12. ASSUME NEW r \in Requests, WatchVerified(r) PROVE BooksAgree'
  BY <1>12 DEF WatchVerified
<1>13. ASSUME NEW r \in Requests, WatchCeiling(r) PROVE BooksAgree'
  BY <1>13 DEF WatchCeiling, MarkFailed
<1>14. ASSUME NEW r \in Requests, WatchPoll(r) \/ WatchHiccup(r) \/ Expire(r)
       PROVE  BooksAgree'
  BY <1>14 DEF WatchPoll, WatchHiccup, Expire
<1>15. ASSUME NEW d \in Direct, DirectExecute(d) PROVE BooksAgree'
  BY <1>15 DEF DirectExecute
<1>16. ASSUME NEW i \in Ids, SendUpstream(i) PROVE BooksAgree'
  BY <1>16 DEF SendUpstream
<1>17. ASSUME NEW i \in Ids, GateOpen(i) \/ GateDecide(i) \/ GateFault(i)
                             \/ ExecOpen(i) \/ ExecDecide(i) \/ SealFailed(i)
       PROVE  BooksAgree'
  <2>1. rpc[i] \in InEnclave /\ UNCHANGED <<row, sends, attempted, threw>>
    BY <1>17 DEF GateOpen, GateDecide, GateFault, ExecOpen, ExecDecide, SealFailed, InEnclave
  <2>2. \A q \in Ids : q # i => rpc'[q] = rpc[q]
    BY <1>17 DEF GateOpen, GateDecide, GateFault, ExecOpen, ExecDecide, SealFailed
  <2> QED
    BY <2>1, <2>2
<1>18. ASSUME NEW i \in Ids, NoCandidateLeft(i) \/ ProviderAnswer(i)
       PROVE  BooksAgree'
  <2>1. rpc[i] \in InEnclave /\ UNCHANGED <<row, sends, attempted, threw>>
    BY <1>18 DEF NoCandidateLeft, ProviderAnswer, InEnclave
  <2>2. \A q \in Ids : q # i => rpc'[q] = rpc[q]
    BY <1>18 DEF NoCandidateLeft, ProviderAnswer
  <2> QED
    BY <2>1, <2>2
<1>19. ASSUME NEW i \in Ids, FailBeforeSend(i) PROVE BooksAgree'
  <2>1. /\ rpc[i] \in InEnclave
        /\ attempted' = attempted \cup {i}
        /\ UNCHANGED <<row, rpc, sends, threw>>
    BY <1>19 DEF FailBeforeSend, InEnclave
  <2> QED
    BY <2>1
<1>20. ASSUME NEW i \in Ids, SkipCandidate(i) \/ RunEnqueue(i) \/ RunEnqueueLost(i)
                             \/ RunPoll(i) \/ RunCollect(i) \/ RunVerified(i)
                             \/ RunFail(i)
       PROVE  BooksAgree'
  BY <1>20 DEF SkipCandidate, RunEnqueue, RunEnqueueLost, RunPoll, RunCollect, RunVerified,
     RunFail
<1>21. ASSUME CoordinatorCrash PROVE BooksAgree'
  BY <1>21, CrashRow DEF CoordinatorCrash, RowSurvives, SuccessWrites, FailureWrites
<1>22. ASSUME EnclaveRestart PROVE BooksAgree'
  BY <1>22 DEF EnclaveRestart, InEnclave
<1>23. ASSUME DaemonStep PROVE BooksAgree'
  BY <1>23 DEF DaemonStep
<1>24. ASSUME UNCHANGED vars PROVE BooksAgree'
  BY <1>24 DEF vars
<1> QED
  BY <1>1, <1>2, <1>3, <1>4, <1>5, <1>6, <1>7, <1>8, <1>9, <1>10, <1>11, <1>12,
     <1>13, <1>14, <1>15, <1>16, <1>17, <1>18, <1>19, <1>20, <1>21, <1>22, <1>23,
     <1>24
     DEF Next, Handler, Watcher, Enclave, Run

\* No step claims trust that was not earned.
LEMMA TrustStep == LifecycleInv /\ [Next]_vars => TrustIsEarned'
<1> SUFFICES ASSUME LifecycleInv, [Next]_vars PROVE TrustIsEarned'
  OBVIOUS
<1> USE DEF LifecycleInv, TypeOK, world, enclave, history, Ids, TrustIsEarned, WatchInv,
            HandlerInv, ProofFinal, Settled, Row
<1>1. ASSUME NEW r \in Requests, Submit(r) PROVE TrustIsEarned'
  BY <1>1 DEF Submit
<1>2. ASSUME NEW r \in Requests, GateFailed(r) PROVE TrustIsEarned'
  BY <1>2 DEF GateFailed
<1>3. ASSUME NEW r \in Requests, GateVerdict(r) PROVE TrustIsEarned'
  BY <1>3 DEF GateVerdict
<1>4. ASSUME NEW r \in Requests, Denied(r) PROVE TrustIsEarned'
  BY <1>4 DEF Denied
<1>5. ASSUME NEW r \in Requests, NoCapacity(r) PROVE TrustIsEarned'
  BY <1>5 DEF NoCapacity
<1>6. ASSUME NEW r \in Requests, Dispatch(r) PROVE TrustIsEarned'
  BY <1>6 DEF Dispatch
<1>7. ASSUME NEW r \in Requests, ExecuteFailed(r) PROVE TrustIsEarned'
  BY <1>7 DEF ExecuteFailed
<1>8. ASSUME NEW r \in Requests, AttemptsFailed(r) \/ AssumedUsageThrows(r) PROVE TrustIsEarned'
  BY <1>8, FailedEnds DEF FailedEnd, FailureWrites
<1>9. ASSUME NEW r \in Requests, Complete(r) \/ RecordUsageThrows(r) PROVE TrustIsEarned'
  <2>1. CompletedEnd(r) /\ SuccessWrites(r)
    BY <1>9, CompletedEnds DEF CompletedEnd
  <2>2. row'[r].proof = row[r].proof
    BY <2>1 DEF SuccessWrites
  <2>3. \/ row'[r].status = row[r].status /\ row'[r].trust = row[r].trust
        \/ row'[r].trust = IF mode[r] = "secure" THEN "CONFIDENTIAL_PROOF_PENDING"
                           ELSE "COMPATIBILITY"
    BY <2>1 DEF SuccessWrites
  <2>4. /\ \A q \in Requests : q # r => row'[q] = row[q]
        /\ UNCHANGED <<mode, checked>>
    BY <2>1 DEF CompletedEnd
  <2> QED
    BY <2>2, <2>3, <2>4
<1>10. ASSUME NEW r \in Requests, WatchMidFlight(r) PROVE TrustIsEarned'
  BY <1>10 DEF WatchMidFlight, ProofStatus
<1>11. ASSUME NEW r \in Requests, WatchFailed(r) PROVE TrustIsEarned'
  BY <1>11 DEF WatchFailed, MarkFailed
<1>12. ASSUME NEW r \in Requests, WatchVerified(r) PROVE TrustIsEarned'
  BY <1>12 DEF WatchVerified
<1>13. ASSUME NEW r \in Requests, WatchCeiling(r) PROVE TrustIsEarned'
  BY <1>13 DEF WatchCeiling, MarkFailed
<1>14. ASSUME NEW r \in Requests, WatchPoll(r) \/ WatchHiccup(r) \/ Expire(r)
       PROVE  TrustIsEarned'
  BY <1>14 DEF WatchPoll, WatchHiccup, Expire
<1>15. ASSUME NEW d \in Direct, DirectExecute(d) PROVE TrustIsEarned'
  BY <1>15 DEF DirectExecute
<1>16. ASSUME NEW i \in Ids, GateOpen(i) \/ GateDecide(i) \/ GateFault(i)
                             \/ ExecOpen(i) \/ ExecDecide(i) \/ SkipCandidate(i)
                             \/ FailBeforeSend(i)
                             \/ NoCandidateLeft(i) \/ SendUpstream(i)
                             \/ ProviderAnswer(i) \/ SealFailed(i) \/ RunEnqueue(i)
                             \/ RunEnqueueLost(i) \/ RunPoll(i) \/ RunCollect(i)
                             \/ RunVerified(i) \/ RunFail(i)
       PROVE  TrustIsEarned'
  BY <1>16 DEF GateOpen, Opens, GateDecide, StartProof, GateFault, ExecOpen, ExecDecide,
     SkipCandidate, FailBeforeSend, NoCandidateLeft, SendUpstream, ProviderAnswer, SealFailed,
     RunEnqueue, RunEnqueueLost, RunPoll, RunCollect, RunVerified, RunFail
<1>17. ASSUME CoordinatorCrash PROVE TrustIsEarned'
  <2>1. UNCHANGED <<mode, checked>>
    BY <1>17 DEF CoordinatorCrash
  <2>2. ASSUME NEW r \in Requests
        PROVE  /\ row'[r].proof = row[r].proof
               /\ \/ row'[r].status = row[r].status /\ row'[r].trust = row[r].trust
                  \/ row'[r].trust = IF mode[r] = "secure" THEN "CONFIDENTIAL_PROOF_PENDING"
                                     ELSE "COMPATIBILITY"
    <3>1. RowSurvives(r)
      BY <1>17, CrashRow
    <3> QED
      BY ONLY <3>1 DEF RowSurvives, SuccessWrites, FailureWrites
  <2> QED
    BY <2>1, <2>2
<1>18. ASSUME EnclaveRestart PROVE TrustIsEarned'
  BY <1>18 DEF EnclaveRestart, InEnclave
<1>19. ASSUME DaemonStep PROVE TrustIsEarned'
  BY <1>19 DEF DaemonStep
<1>20. ASSUME UNCHANGED vars PROVE TrustIsEarned'
  BY <1>20 DEF vars
<1> QED
  BY <1>1, <1>2, <1>3, <1>4, <1>5, <1>6, <1>7, <1>8, <1>9, <1>10, <1>11, <1>12,
     <1>13, <1>14, <1>15, <1>16, <1>17, <1>18, <1>19, <1>20
     DEF Next, Handler, Watcher, Enclave, Run

--------------------------------------------------------------------------------
\* The initial states satisfy the inductive invariant.
LEMMA LifecycleInit == Init => LifecycleInv
<1> SUFFICES ASSUME Init PROVE LifecycleInv
  OBVIOUS
<1> USE DEF Init, NoRow, Ids
<1>1. TypeOK
  BY BoundsAssumption DEF TypeOK, Row, RowStatus, RowProof, TrustStatus, Daemon!BoardInit,
     Daemon!BoardStatus
<1>2. HandlerInv
  BY DEF HandlerInv, Settled, ExecCall, InEnclave
<1>3. CallInv
  BY DEF CallInv, GateCall
<1>4. ClaimInv
  BY DEF ClaimInv, Claims
<1>5. WatchInv
  BY DEF WatchInv, ProofFinal
<1>6. DispatchIsDecided /\ BooksAgree /\ TrustIsEarned
  BY DEF DispatchIsDecided, BooksAgree, TrustIsEarned
<1> QED
  BY <1>1, <1>2, <1>3, <1>4, <1>5, <1>6 DEF LifecycleInv

\* The invariant is inductive: every reachable state satisfies it.
LEMMA LifecycleInductive == Spec => []LifecycleInv
<1>1. LifecycleInv /\ [Next]_vars => LifecycleInv'
  BY TypeStep, HandlerStep, CallStep, ClaimStep, WatchStep, DecidedStep, BooksStep, TrustStep
     DEF LifecycleInv
<1> QED
  BY <1>1, LifecycleInit, PTL DEF Spec

\* The tables, handlers, watchers, calls and the enclave's memory keep their types.
THEOREM TypeCorrect == Spec => []TypeOK
<1>1. LifecycleInv => TypeOK
  BY DEF LifecycleInv
<1> QED
  BY <1>1, LifecycleInductive, PTL

\* Rule 5.1 of runDispatch: however often an envelope is replayed, parked, retried or
\* carried over a restart of the enclave, it is sent upstream at most once.
THEOREM OneDispatch == Spec => []SingleDispatch
<1>1. LifecycleInv => SingleDispatch
  <2> SUFFICES ASSUME LifecycleInv, NEW i \in Ids, NEW k \in Ids
               PROVE  /\ sends[i] <= 1
                      /\ env[i] = env[k] /\ sends[i] > 0 /\ sends[k] > 0 => i = k
    BY DEF SingleDispatch
  <2>1. sends[i] \in Nat /\ sends[k] \in Nat
    BY DEF LifecycleInv, TypeOK
  <2>2. sends[i] # 0 => sends[i] = 1
    BY DEF LifecycleInv, CallInv
  <2>3. env[i] = env[k] /\ sends[i] # 0 /\ sends[k] # 0 => i = k
    BY DEF LifecycleInv, ClaimInv, Claims
  <2> QED
    BY <2>1, <2>2, <2>3
<1> QED
  BY <1>1, LifecycleInductive, PTL

\* Nothing goes upstream without the guest's ALLOW, and the coordinator's own calls not
\* before GateVerdict has stored the signed decision.
THEOREM NoDispatchUndecided == Spec => []DispatchIsDecided
<1>1. LifecycleInv => DispatchIsDecided
  BY DEF LifecycleInv
<1> QED
  BY <1>1, LifecycleInductive, PTL

\* Attempts, usage, status and receipt agree after every prefix of a settlement's writes.
THEOREM BooksHold == Spec => []BooksAgree
<1>1. LifecycleInv => BooksAgree
  BY DEF LifecycleInv
<1> QED
  BY <1>1, LifecycleInductive, PTL

\* watchProof and the handler never let a row claim more than the verifier has shown.
THEOREM TrustHolds == Spec => []TrustIsEarned
<1>1. LifecycleInv => TrustIsEarned
  BY DEF LifecycleInv
<1> QED
  BY <1>1, LifecycleInductive, PTL

\* What FinalIsFinal asks of one step.
FinalKept ==
  \A r \in Requests :
    /\ row[r].status \in Settled => row'[r].status = row[r].status
    /\ row[r].proof \in ProofFinal => row'[r].proof = row[r].proof
    /\ row[r].decision # "NONE" => row'[r].decision = row[r].decision

\* No step of the handler, of the watcher or of a crash undoes a final state of a row.
LEMMA FinalStep == LifecycleInv /\ [Next]_vars => FinalKept
<1> SUFFICES ASSUME LifecycleInv, [Next]_vars PROVE FinalKept
  OBVIOUS
<1> USE DEF FinalKept, LifecycleInv, TypeOK, world, enclave, history, Ids, WatchInv, HandlerInv,
            ProofFinal, Settled, Row
<1>1. ASSUME NEW r \in Requests, Submit(r) PROVE FinalKept
  BY <1>1 DEF Submit
<1>2. ASSUME NEW r \in Requests, GateFailed(r) PROVE FinalKept
  BY <1>2 DEF GateFailed
<1>3. ASSUME NEW r \in Requests, GateVerdict(r) PROVE FinalKept
  BY <1>3 DEF GateVerdict
<1>4. ASSUME NEW r \in Requests, Denied(r) PROVE FinalKept
  BY <1>4 DEF Denied
<1>5. ASSUME NEW r \in Requests, NoCapacity(r) PROVE FinalKept
  BY <1>5 DEF NoCapacity
<1>6. ASSUME NEW r \in Requests, Dispatch(r) PROVE FinalKept
  BY <1>6 DEF Dispatch
<1>7. ASSUME NEW r \in Requests, ExecuteFailed(r) PROVE FinalKept
  BY <1>7 DEF ExecuteFailed
<1>8. ASSUME NEW r \in Requests, AttemptsFailed(r) \/ AssumedUsageThrows(r) PROVE FinalKept
  <2>1. FailedEnd(r)
    BY ONLY LifecycleInv, <1>8, FailedEnds
  <2>2. row[r].status \notin Settled
    BY ONLY LifecycleInv, <2>1 DEF FailedEnd, LifecycleInv, HandlerInv
  <2> QED
    BY ONLY <2>1, <2>2 DEF FinalKept, FailedEnd, FailureWrites
<1>9. ASSUME NEW r \in Requests, Complete(r) \/ RecordUsageThrows(r) PROVE FinalKept
  <2>1. CompletedEnd(r)
    BY ONLY LifecycleInv, <1>9, CompletedEnds
  <2>2. row[r].status \notin Settled
    BY ONLY LifecycleInv, <2>1 DEF CompletedEnd, LifecycleInv, HandlerInv
  <2> QED
    BY ONLY <2>1, <2>2 DEF FinalKept, CompletedEnd, SuccessWrites
<1>10. ASSUME NEW r \in Requests, WatchMidFlight(r) PROVE FinalKept
  BY <1>10 DEF WatchMidFlight, ProofStatus
<1>11. ASSUME NEW r \in Requests, WatchFailed(r) PROVE FinalKept
  BY <1>11 DEF WatchFailed, MarkFailed
<1>12. ASSUME NEW r \in Requests, WatchVerified(r) PROVE FinalKept
  BY <1>12 DEF WatchVerified
<1>13. ASSUME NEW r \in Requests, WatchCeiling(r) PROVE FinalKept
  BY <1>13 DEF WatchCeiling, MarkFailed
<1>14. ASSUME NEW r \in Requests, WatchPoll(r) \/ WatchHiccup(r) \/ Expire(r)
       PROVE  FinalKept
  BY <1>14 DEF WatchPoll, WatchHiccup, Expire
<1>15. ASSUME NEW d \in Direct, DirectExecute(d) PROVE FinalKept
  BY <1>15 DEF DirectExecute
<1>16. ASSUME NEW i \in Ids, GateOpen(i) \/ GateDecide(i) \/ GateFault(i)
                             \/ ExecOpen(i) \/ ExecDecide(i) \/ SkipCandidate(i)
                             \/ FailBeforeSend(i)
                             \/ NoCandidateLeft(i) \/ SendUpstream(i)
                             \/ ProviderAnswer(i) \/ SealFailed(i) \/ RunEnqueue(i)
                             \/ RunEnqueueLost(i) \/ RunPoll(i) \/ RunCollect(i)
                             \/ RunVerified(i) \/ RunFail(i)
       PROVE  FinalKept
  BY <1>16 DEF GateOpen, Opens, GateDecide, StartProof, GateFault, ExecOpen, ExecDecide,
     SkipCandidate, FailBeforeSend, NoCandidateLeft, SendUpstream, ProviderAnswer, SealFailed,
     RunEnqueue, RunEnqueueLost, RunPoll, RunCollect, RunVerified, RunFail
<1>17. ASSUME CoordinatorCrash PROVE FinalKept
  BY <1>17, CrashRow DEF CoordinatorCrash, RowSurvives, SuccessWrites, FailureWrites
<1>18. ASSUME EnclaveRestart PROVE FinalKept
  BY <1>18 DEF EnclaveRestart, InEnclave
<1>19. ASSUME DaemonStep PROVE FinalKept
  BY <1>19 DEF DaemonStep
<1>20. ASSUME UNCHANGED vars PROVE FinalKept
  BY <1>20 DEF vars
<1> QED
  BY <1>1, <1>2, <1>3, <1>4, <1>5, <1>6, <1>7, <1>8, <1>9, <1>10, <1>11, <1>12,
     <1>13, <1>14, <1>15, <1>16, <1>17, <1>18, <1>19, <1>20
     DEF Next, Handler, Watcher, Enclave, Run

\* Two writers share a row, runSecureRequest and watchProof, and no interleaving of
\* them with crashes takes back a settled status, a final proof status or a decision.
THEOREM FinalStatesHold == Spec => FinalIsFinal
<1>1. LifecycleInv /\ [Next]_vars => [FinalKept]_vars
  BY FinalStep
<1> QED
  BY <1>1, LifecycleInductive, PTL DEF Spec, FinalIsFinal, FinalKept
================================================================================
