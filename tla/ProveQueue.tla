------------------------------ MODULE ProveQueue ------------------------------
(***************************************************************************)
(* The prove daemon's queue (prover/host/src/queue.rs).  Callers of        *)
(* /prove (axum tasks, several at a time) and one worker thread share a    *)
(* job table under one lock and an mpsc channel under another:             *)
(*                                                                         *)
(*   caller:  lock jobs { Full? | insert QUEUED, evict }                   *)
(*            lock tx   { send | WorkerGone }                              *)
(*   worker:  recv; lock jobs { PROVING }; prove;                          *)
(*            lock jobs { GENERATED | FAILED }                             *)
(*                                                                         *)
(* Each critical section is one action, so a caller that has inserted its  *)
(* row and not yet sent its frame interleaves with everything else.  A     *)
(* panic in the prover kills the worker and, with its receiver, every      *)
(* frame still in the channel.  A restart of the daemon forgets it all.    *)
(***************************************************************************)
EXTENDS Naturals, Sequences, FiniteSets

CONSTANTS
  Jobs,               \* job ids: new_job_id draws 16 random bytes, so no reuse
  MAX_QUEUED,         \* queue.rs: 32
  MAX_JOBS_RETAINED,  \* queue.rs: 64
  MaxBoots            \* bound of the model: starts of the daemon

\* The two limits as the code relates them (32 and 64): the table has room for
\* every job that may be waiting and for the one that is being proved.
ASSUME LimitsAssumption ==
  /\ MAX_QUEUED \in Nat
  /\ MAX_JOBS_RETAINED \in Nat
  /\ MAX_QUEUED < MAX_JOBS_RETAINED

ASSUME BootsAssumption == MaxBoots \in Nat \ {0}

ASSUME JobsAssumption == IsFiniteSet(Jobs)

VARIABLES
  table,    \* Jobs.table: status of each id, ABSENT when it has no row
  order,    \* Jobs.order: ids, the next candidate for eviction first
  reply,    \* where the caller that asked for an id is
  channel,  \* the mpsc channel of frames
  worker,   \* the worker thread's program counter
  current,  \* the set of jobs (one at most) the worker has received
  boots     \* how often the process has started

vars == <<table, order, reply, channel, worker, current, boots>>

Terminal == {"GENERATED", "FAILED"}
JobStatus == {"QUEUED", "PROVING"} \cup Terminal

\* IDLE: the id was never drawn; SENDING: the row is inserted, the frame is not
\* sent; OK: /prove answered the id; FULL and WORKER_GONE: /prove answered 503;
\* LOST: the daemon restarted under the call.
Reply == {"IDLE", "SENDING", "OK", "FULL", "WORKER_GONE", "LOST"}

TypeOK ==
  /\ table \in [Jobs -> JobStatus \cup {"ABSENT"}]
  /\ order \in Seq(Jobs)
  /\ reply \in [Jobs -> Reply]
  /\ channel \in Seq(Jobs)
  /\ worker \in {"WAITING", "RECEIVED", "PROVING", "GONE"}
  /\ current \in SUBSET Jobs
  /\ boots \in 1..MaxBoots

Rows == {j \in Jobs : table[j] # "ABSENT"}
Queued == {j \in Jobs : table[j] = "QUEUED"}
queued_count == Cardinality(Queued)

Init ==
  /\ table = [j \in Jobs |-> "ABSENT"]
  /\ order = <<>>
  /\ reply = [j \in Jobs |-> "IDLE"]
  /\ channel = <<>>
  /\ worker = "WAITING"
  /\ current = {}
  /\ boots = 1
--------------------------------------------------------------------------------
\* The places in the order of jobs that evict may remove.
FinishedPlaces(ord, tab) == {i \in 1..Len(ord) : tab[ord[i]] \in Terminal}

\* Bug: jobs are dropped from the front whatever their status.
EvictPlaceIgnoringStatus(ord, tab) == 1

\* evict's loop: unfinished jobs at the front rotate to the back until a
\* finished one is popped.  The loop removes one job at most, since insert is
\* its only caller and the table was within the limit before (TableBounded);
\* with no finished job in it, a full turn leaves the order as it was.
EvictPlace(ord, tab) ==
  CHOOSE i \in FinishedPlaces(ord, tab) :
    \A k \in FinishedPlaces(ord, tab) : i <= k

\* Bug: the limit is tested off by one, so one job too many is retained.
MustEvictLate(ord, tab) ==
  Len(ord) > MAX_JOBS_RETAINED + 1 /\ FinishedPlaces(ord, tab) # {}

MustEvict(ord, tab) ==
  Len(ord) > MAX_JOBS_RETAINED /\ FinishedPlaces(ord, tab) # {}

\* Bug: the row that is evicted keeps its place in the order.
InsertLeavingPlace(j) ==
  LET tab == [table EXCEPT ![j] = "QUEUED"]
      ord == Append(order, j)
      at  == EvictPlace(ord, tab)
  IN  \/ /\ ~MustEvict(ord, tab)
         /\ table' = tab
         /\ order' = ord
      \/ /\ MustEvict(ord, tab)
         /\ table' = [tab EXCEPT ![ord[at]] = "ABSENT"]
         /\ order' = ord

\* Jobs.insert: push the row and its place, then evict.
Insert(j) ==
  LET tab == [table EXCEPT ![j] = "QUEUED"]
      ord == Append(order, j)
      at  == EvictPlace(ord, tab)
  IN  \/ /\ ~MustEvict(ord, tab)
         /\ table' = tab
         /\ order' = ord
      \/ /\ MustEvict(ord, tab)
         /\ table' = [tab EXCEPT ![ord[at]] = "ABSENT"]
         /\ order' = SubSeq(ord, at + 1, Len(ord)) \o SubSeq(ord, 1, at - 1)

\* enqueue, first critical section: an id is drawn and a row inserted.
EnqueueInsert(j) ==
  /\ reply[j] = "IDLE"
  /\ queued_count < MAX_QUEUED
  /\ Insert(j)
  /\ reply' = [reply EXCEPT ![j] = "SENDING"]
  /\ UNCHANGED <<channel, worker, current, boots>>

\* enqueue, first critical section: EnqueueError::Full.
EnqueueFull(j) ==
  /\ reply[j] = "IDLE"
  /\ queued_count >= MAX_QUEUED
  /\ reply' = [reply EXCEPT ![j] = "FULL"]
  /\ UNCHANGED <<table, order, channel, worker, current, boots>>

\* enqueue, second critical section: the frame is sent and the id returned.
EnqueueSend(j) ==
  /\ reply[j] = "SENDING"
  /\ worker # "GONE"
  /\ channel' = Append(channel, j)
  /\ reply' = [reply EXCEPT ![j] = "OK"]
  /\ UNCHANGED <<table, order, worker, current, boots>>

\* enqueue, second critical section: EnqueueError::WorkerGone.  The row that
\* was inserted stays in the table.
EnqueueWorkerGone(j) ==
  /\ reply[j] = "SENDING"
  /\ worker = "GONE"
  /\ reply' = [reply EXCEPT ![j] = "WORKER_GONE"]
  /\ UNCHANGED <<table, order, channel, worker, current, boots>>
--------------------------------------------------------------------------------
\* update: the row is changed if it is still there.
Update(j, s) ==
  table' = [table EXCEPT ![j] = IF @ = "ABSENT" THEN "ABSENT" ELSE s]

\* Bug: the frame received is dropped when its job cannot start at once.
WorkerRecvDropping ==
  /\ worker = "WAITING"
  /\ channel # <<>>
  /\ worker' = "WAITING"
  /\ channel' = Tail(channel)
  /\ UNCHANGED <<table, order, reply, current, boots>>

WorkerRecv ==
  /\ worker = "WAITING"
  /\ channel # <<>>
  /\ worker' = "RECEIVED"
  /\ current' = {Head(channel)}
  /\ channel' = Tail(channel)
  /\ UNCHANGED <<table, order, reply, boots>>

\* Bug: the job is proved without being marked.
WorkerStartUnmarked(j) ==
  /\ worker = "RECEIVED"
  /\ j \in current
  /\ worker' = "PROVING"
  /\ UNCHANGED <<table, order, reply, channel, current, boots>>

WorkerStart(j) ==
  /\ worker = "RECEIVED"
  /\ j \in current
  /\ Update(j, "PROVING")
  /\ worker' = "PROVING"
  /\ UNCHANGED <<order, reply, channel, current, boots>>

\* Bug: the worker goes back to recv without reporting what became of the job.
WorkerFinishSilently(j, s) ==
  /\ worker = "PROVING"
  /\ j \in current
  /\ worker' = "WAITING"
  /\ current' = {}
  /\ UNCHANGED <<table, order, reply, channel, boots>>

\* prove_frame returns: a receipt, or one of the fixed failure reasons.
WorkerFinish(j, s) ==
  /\ worker = "PROVING"
  /\ j \in current
  /\ Update(j, s)
  /\ worker' = "WAITING"
  /\ current' = {}
  /\ UNCHANGED <<order, reply, channel, boots>>

\* The prover panics.  No lock is held, so the table stays usable; the
\* receiver is dropped with every frame in the channel.
WorkerPanic ==
  /\ worker = "PROVING"
  /\ worker' = "GONE"
  /\ channel' = <<>>
  /\ UNCHANGED <<table, order, reply, current, boots>>

\* The daemon dies and is started again: ProveQueue::start.
Restart ==
  /\ boots < MaxBoots
  /\ boots' = boots + 1
  /\ table' = [j \in Jobs |-> "ABSENT"]
  /\ order' = <<>>
  /\ reply' = [j \in Jobs |-> IF reply[j] = "SENDING" THEN "LOST" ELSE reply[j]]
  /\ channel' = <<>>
  /\ worker' = "WAITING"
  /\ current' = {}

Next ==
  \/ \E j \in Jobs : EnqueueInsert(j) \/ EnqueueFull(j)
  \/ \E j \in Jobs : EnqueueSend(j) \/ EnqueueWorkerGone(j)
  \/ WorkerRecv
  \/ \E j \in Jobs : WorkerStart(j)
  \/ \E j \in Jobs, s \in Terminal : WorkerFinish(j, s)
  \/ WorkerPanic
  \/ Restart

Spec == Init /\ [][Next]_vars

\* A runnable caller and the worker thread are scheduled; a prove ends
\* (the guest is bounded).  Nothing makes a panic or a restart happen.
Fairness ==
  /\ \A j \in Jobs : WF_vars(EnqueueSend(j) \/ EnqueueWorkerGone(j))
  /\ WF_vars(WorkerRecv)
  /\ \A j \in Jobs : WF_vars(WorkerStart(j))
  /\ \A j \in Jobs : WF_vars(\E s \in Terminal : WorkerFinish(j, s))

FairSpec == Spec /\ Fairness
--------------------------------------------------------------------------------
\* The row count and the backlog stay within MAX_JOBS_RETAINED and MAX_QUEUED.
\* Eviction skips unfinished jobs, so the first bound needs the second one and
\* that one job at most is being proved, panics and stalled callers included.
TableBounded ==
  /\ Len(order) <= MAX_JOBS_RETAINED
  /\ queued_count <= MAX_QUEUED
  /\ Cardinality({j \in Jobs : table[j] = "PROVING"}) <= 1

\* The table and the eviction order hold the same ids, each once: evict's
\* rotation neither loses a row (it would never be evicted) nor doubles one.
OrderMatchesTable ==
  /\ {order[i] : i \in 1..Len(order)} = Rows
  /\ \A i, k \in 1..Len(order) : order[i] = order[k] => i = k

\* "Forgetting a job that is about to produce a receipt would strand the
\* caller polling for it": while the process lives, only a finished row goes.
OnlyFinishedEvicted ==
  [][boots' = boots =>
       \A j \in Jobs : table'[j] = "ABSENT" => table[j] \in Terminal \cup {"ABSENT"}]_vars

\* A frame is where a live worker will find it: a queued row belongs to a
\* caller that is about to send, or to one place of the channel, or to the
\* worker, and to one of these only.
QueuedIsReachable ==
  worker # "GONE" =>
    \A j \in Queued :
      \/ reply[j] = "SENDING" /\ j \notin current
           /\ \A i \in 1..Len(channel) : channel[i] # j
      \/ reply[j] = "OK" /\ j \in current /\ worker = "RECEIVED"
           /\ \A i \in 1..Len(channel) : channel[i] # j
      \/ /\ reply[j] = "OK" /\ j \notin current
         /\ \E i \in 1..Len(channel) :
              /\ channel[i] = j
              /\ \A k \in 1..Len(channel) : channel[k] = j => k = i

\* Every id that /prove returned comes to an end a poll can see, unless the
\* worker panics or the daemon restarts.
AcceptedIsFinished ==
  \A j \in Jobs :
    (reply[j] = "OK" /\ boots = 1) ~>
      (table[j] \in Terminal \cup {"ABSENT"} \/ worker = "GONE" \/ boots > 1)

\* What a poll sees of a row, for the refinement of JobBoard.
BoardView ==
  [j \in Jobs |->
     IF table[j] # "ABSENT" THEN table[j]
     ELSE IF reply[j] \in {"IDLE", "FULL"} THEN "NONE" ELSE "GONE"]

Board == INSTANCE JobBoard WITH board <- BoardView

\* The queue, with its two locks, its eviction order and its worker, implements
\* the lifecycle JobBoard promises to whoever polls.
ImplementsJobBoard == Board!BoardSpec
================================================================================
