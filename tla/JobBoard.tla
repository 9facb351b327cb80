------------------------------- MODULE JobBoard -------------------------------
(***************************************************************************)
(* What the prove daemon promises to the enclave that polls it: the        *)
(* lifecycle of one job as GET /jobs/:id shows it.  A job that was         *)
(* accepted is QUEUED, then PROVING, then GENERATED or FAILED; only a      *)
(* finished job is ever forgotten while the daemon lives; a daemon that    *)
(* restarts forgets everything, because nothing is persisted.              *)
(*                                                                         *)
(* ProveQueue implements this specification; RequestLifecycle uses it as   *)
(* its model of the daemon.                                                *)
(***************************************************************************)
CONSTANT Jobs        \* job identifiers (new_job_id: random, never reused)

VARIABLE board       \* board[j]: what a poll for j answers

\* JobStatus::is_terminal.
Finished == {"GENERATED", "FAILED"}

\* JobStatus, with NONE for an id not yet handed out and GONE for one whose
\* poll answers 404.
BoardStatus == {"NONE", "QUEUED", "PROVING", "GONE"} \cup Finished

BoardInit == board = [j \in Jobs |-> "NONE"]

Move(j, from, to) ==
  /\ board[j] \in from
  /\ board' = [board EXCEPT ![j] = to]

Accept(j) == Move(j, {"NONE"}, "QUEUED")

StartProving(j) == Move(j, {"QUEUED"}, "PROVING")

Finish(j) == \E s \in Finished : Move(j, {"PROVING"}, s)

\* A finished job is dropped to make room for an accepted one: the two
\* happen under one lock, in ProveQueue::enqueue.
AcceptForgetting(j, k) ==
  /\ j # k
  /\ board[j] = "NONE"
  /\ board[k] \in Finished
  /\ board' = [board EXCEPT ![j] = "QUEUED", ![k] = "GONE"]

\* The process restarts with an empty table.
LoseAll ==
  board' = [j \in Jobs |-> IF board[j] = "NONE" THEN "NONE" ELSE "GONE"]

BoardNext ==
  \/ \E j \in Jobs : Accept(j) \/ StartProving(j) \/ Finish(j)
  \/ \E j, k \in Jobs : AcceptForgetting(j, k)
  \/ LoseAll

BoardSpec == BoardInit /\ [][BoardNext]_board
================================================================================
