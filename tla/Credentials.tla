----------------------------- MODULE Credentials -----------------------------
(***************************************************************************)
(* The pool of contributed credentials (services/coordinator/src/          *)
(* routing.ts and the PATCH and DELETE handlers of index.ts): discovery,   *)
(* the daily request cap, cooldown, revocation, and the settlement of what *)
(* the enclave reports.                                                    *)
(*                                                                         *)
(* A slot is a request the coordinator is serving.  Discovery takes a      *)
(* snapshot of the table; the enclave works through it while other slots,  *)
(* contributors and the clock change the table; the settlement then writes *)
(* to rows that may have moved on.  A slot is reused, so a run holds       *)
(* arbitrarily many requests, Slots of them at a time.                     *)
(*                                                                         *)
(* The dollar counter is moved by the same statements as the request       *)
(* counter and tested the same way; only the latter is modelled, and a     *)
(* limit of null is the greatest, one that is never reached.               *)
(* Credentials are those whose capability covers the model and the policy  *)
(* asked for: discovery drops the others for good.                         *)
(***************************************************************************)
EXTENDS Integers, Sequences, SequencesExt

CONSTANTS
  Creds,       \* credential ids, naturals so that localeCompare has an order
  Slots,       \* requests in progress at a time
  Weights,     \* the weights a contributor may set
  Limits,      \* the daily request limits a contributor may set
  MaxDay,      \* bound of the model: days
  MaxIncidents \* bound of the model: PATCH calls, crashes of the coordinator, lost
               \* answers and errors of the accounting, together

ASSUME PoolAssumption ==
  /\ IsFiniteSet(Creds) /\ Creds \subseteq Nat
  /\ IsFiniteSet(Slots) /\ Slots # {}
  /\ Weights \subseteq Int /\ Weights # {}
  /\ Limits \subseteq Nat /\ \E n \in Limits : \A m \in Limits : m <= n

ASSUME BoundsAssumption ==
  MaxDay \in Nat /\ MaxIncidents \in Nat

VARIABLES
  cred,     \* the credentials table
  used,     \* last_used_at, as a rank: 0 is null, higher is more recent
  booked,   \* usage rows created today, by credential
  today,    \* the current UTC day
  phase,    \* where the request of a slot is
  list,     \* its candidates not yet tried
  tried,    \* its attempts, all failed before dispatch but perhaps the last
  final,    \* the outcome of its one dispatched attempt
  debt,     \* history: calls that may have cost money, less their usage rows
  patches, crashes, faults

vars == <<cred, used, booked, today, phase, list, tried, final, debt, patches, crashes, faults>>

\* Outcomes of the dispatched attempt: applyAttemptOutcome tells the first three
\* apart; "unknown" is a failure whose upstream outcome was never learned.
Outcome == {"success", "auth_failed", "rate_limited", "server_error", "unknown"}

\* The outcomes of a call that the provider has billed, or may have.
Costly == {"success", "unknown"}

Row == [status : {"ACTIVE", "DISABLED", "DELETED"}, weight : Weights, limit : Limits,
        cooling : BOOLEAN, requests_today : Nat, usage_day : 0..MaxDay]

TypeOK ==
  /\ cred \in [Creds -> Row]
  /\ used \in [Creds -> 0..Cardinality(Creds)]
  /\ booked \in [Creds -> Nat]
  /\ today \in 0..MaxDay
  /\ phase \in [Slots -> {"idle", "dispatching", "answered"}]
  /\ list \in [Slots -> Seq(Creds)]
  /\ tried \in [Slots -> Seq(Creds)]
  /\ final \in [Slots -> Outcome \cup {"none"}]
  /\ debt \in [Creds -> Int]
  /\ patches \in 0..MaxIncidents
  /\ crashes \in 0..MaxIncidents
  /\ faults \in 0..MaxIncidents

\* The pool as POST /v1/credentials leaves it.
Init ==
  /\ \E w \in [Creds -> Weights], n \in [Creds -> Limits] :
       cred = [c \in Creds |->
                [status |-> "ACTIVE", weight |-> w[c], limit |-> n[c], cooling |-> FALSE,
                 requests_today |-> 0, usage_day |-> 0]]
  /\ used = [c \in Creds |-> 0]
  /\ booked = [c \in Creds |-> 0]
  /\ today = 0
  /\ phase = [s \in Slots |-> "idle"]
  /\ list = [s \in Slots |-> <<>>]
  /\ tried = [s \in Slots |-> <<>>]
  /\ final = [s \in Slots |-> "none"]
  /\ debt = [c \in Creds |-> 0]
  /\ patches = 0
  /\ crashes = 0
  /\ faults = 0
--------------------------------------------------------------------------------
(* Discovery. *)

\* rollUsageDay: the counter of an earlier day is reset when the row is read.
Rolled(r) ==
  IF r.usage_day = today THEN r ELSE [r EXCEPT !.requests_today = 0, !.usage_day = today]

\* Bug: the cap is tested off by one.
EligibleAtLimit(r) ==
  /\ r.status = "ACTIVE"
  /\ ~r.cooling
  /\ r.requests_today <= r.limit

\* The tests of discoverCandidates that the table can pass or fail.
Eligible(r) ==
  /\ r.status = "ACTIVE"
  /\ ~r.cooling
  /\ r.requests_today < r.limit

\* Bug: the heaviest row is tried first.
BeforeByWeight(c, d) ==
  \/ cred[c].weight > cred[d].weight
  \/ cred[c].weight = cred[d].weight /\ c < d

\* routingOrder: least recently used, then heavier, then by id.
Before(c, d) ==
  \/ used[c] < used[d]
  \/ used[c] = used[d] /\ cred[c].weight > cred[d].weight
  \/ used[c] = used[d] /\ cred[c].weight = cred[d].weight /\ c < d

\* eligible.sort(routingOrder); ids are unique, so the order is total.
Sorted(rows) ==
  CHOOSE q \in [1..Cardinality(rows) -> rows] :
    \A i, k \in DOMAIN q : i < k => Before(q[i], q[k])

\* The weight expansion: maxWeight passes over the sorted rows.  The k-th turn of
\* the two loops together pushes its row, or does not.
Expanded(rows) ==
  LET n == Len(rows)
      maxWeight == Max({1} \cup {cred[c].weight : c \in ToSet(rows)})
      ordered[k \in 0..maxWeight * n] ==
        IF k = 0 THEN <<>>
        ELSE LET pass == (k - 1) \div n
                 row  == rows[((k - 1) % n) + 1]
             IN  ordered[k - 1] \o (IF cred[row].weight > pass THEN <<row>> ELSE <<>>)
  IN  ordered[maxWeight * n]

\* The seen set: every credential keeps its first place.
Deduped(ordered) ==
  LET candidates[k \in 0..Len(ordered)] ==
        IF k = 0 THEN <<>>
        ELSE LET seen == candidates[k - 1]
             IN  IF ordered[k] \in ToSet(seen) THEN seen ELSE Append(seen, ordered[k])
  IN  candidates[Len(ordered)]

Candidates == Deduped(Expanded(Sorted({c \in Creds : Eligible(Rolled(cred[c]))})))

\* discoverCandidates rolls every row, then the request is dispatched or ends
\* with CTN_NO_CAPACITY.
Discover(s) ==
  /\ phase[s] = "idle"
  /\ list' = [list EXCEPT ![s] = Candidates]
  /\ phase' = [phase EXCEPT ![s] = IF list'[s] = <<>> THEN "idle" ELSE "dispatching"]
  /\ cred' = [c \in Creds |-> Rolled(cred[c])]
  /\ UNCHANGED <<used, booked, today, tried, final, debt, patches, crashes, faults>>
--------------------------------------------------------------------------------
(* The enclave's loop over the candidates (runDispatch). *)

\* authorizeCandidate or the registry refuses the candidate: no attempt.
Refuse(s) ==
  /\ phase[s] = "dispatching"
  /\ list[s] # <<>>
  /\ list' = [list EXCEPT ![s] = Tail(@)]
  /\ UNCHANGED <<cred, used, booked, today, phase, tried, final, debt, patches, crashes, faults>>

\* An attempt that fails before anything was sent: the next candidate is tried.
FailEarly(s) ==
  /\ phase[s] = "dispatching"
  /\ list[s] # <<>>
  /\ list' = [list EXCEPT ![s] = Tail(@)]
  /\ tried' = [tried EXCEPT ![s] = Append(@, Head(list[s]))]
  /\ UNCHANGED <<cred, used, booked, today, phase, final, debt, patches, crashes, faults>>

\* The attempt that is dispatched: the last one, whatever it brings.
Call(s) ==
  /\ phase[s] = "dispatching"
  /\ list[s] # <<>>
  /\ tried' = [tried EXCEPT ![s] = Append(@, Head(list[s]))]
  /\ \E o \in Outcome :
       /\ final' = [final EXCEPT ![s] = o]
       /\ debt' = [debt EXCEPT ![Head(list[s])] = IF o \in Costly THEN @ + 1 ELSE @]
  /\ list' = [list EXCEPT ![s] = <<>>]
  /\ phase' = [phase EXCEPT ![s] = "answered"]
  /\ UNCHANGED <<cred, used, booked, today, patches, crashes, faults>>

Exhaust(s) ==
  /\ phase[s] = "dispatching"
  /\ list[s] = <<>>
  /\ phase' = [phase EXCEPT ![s] = "answered"]
  /\ UNCHANGED <<cred, used, booked, today, list, tried, final, debt, patches, crashes, faults>>

\* The enclave refuses the call, or dies before it sent anything: nothing is settled.
Lose(s) ==
  /\ phase[s] = "dispatching"
  /\ phase' = [phase EXCEPT ![s] = "idle"]
  /\ list' = [list EXCEPT ![s] = <<>>]
  /\ tried' = [tried EXCEPT ![s] = <<>>]
  /\ UNCHANGED <<cred, used, booked, today, final, debt, patches, crashes, faults>>

\* The enclave's answer never arrives, or is not one the handler knows: the request
\* fails, and the attempt that was dispatched is settled nowhere.
LoseAnswer(s) ==
  /\ patches + crashes + faults < MaxIncidents
  /\ phase[s] = "answered"
  /\ faults' = faults + 1
  /\ phase' = [phase EXCEPT ![s] = "idle"]
  /\ tried' = [tried EXCEPT ![s] = <<>>]
  /\ final' = [final EXCEPT ![s] = "none"]
  /\ UNCHANGED <<cred, used, booked, today, list, debt, patches, crashes>>
--------------------------------------------------------------------------------
(* Settlement: applyAttemptOutcome for every attempt, then the books. *)

\* The credential whose attempt was dispatched, if one was.
Dispatched(s) == {c \in Creds : final[s] # "none" /\ c = Last(tried[s])}

\* Bug: a rejected credential is disabled even when it was revoked meanwhile.
AfterOutcomeReviving(r, o) ==
  [r EXCEPT
     !.status  = IF o = "auth_failed" THEN "DISABLED" ELSE @,
     !.cooling = IF o = "success" THEN FALSE ELSE IF o = "rate_limited" THEN TRUE ELSE @]

\* applyAttemptOutcome, without last_used_at.
AfterOutcome(r, o) ==
  [r EXCEPT
     !.status  = IF o = "auth_failed" /\ r.status # "DELETED" THEN "DISABLED" ELSE @,
     !.cooling = IF o = "success" THEN FALSE ELSE IF o = "rate_limited" THEN TRUE ELSE @]

\* Bug: the day is stamped at discovery only.
CountedUnstamped(r) == [r EXCEPT !.requests_today = @ + 1]

\* The counter's half of recordUsage and recordAssumedUsage.
Counted(r) == [r EXCEPT !.requests_today = @ + 1, !.usage_day = today]

\* Bug: an unknown outcome is free.
BookedIfKnown(s) == final[s] = "success"

\* recordUsage runs for a success, recordAssumedUsage for an unknown outcome.
Booked(s) == final[s] \in Costly

\* The write of last_used_at: the credential becomes the most recent one.
Touch(u, c) ==
  [d \in Creds |->
     IF d = c THEN Cardinality({e \in Creds : u[e] > 0} \cup {c})
     ELSE IF u[c] > 0 /\ u[d] > u[c] THEN u[d] - 1 ELSE u[d]]

\* last_used_at of every credential tried, in the order of the attempts.
Touched(s) ==
  LET after[k \in 0..Len(tried[s])] ==
        IF k = 0 THEN used ELSE Touch(after[k - 1], tried[s][k])
  IN  after[Len(tried[s])]

Settle(s) ==
  /\ phase[s] = "answered"
  /\ cred' = [c \in Creds |->
                LET r == AfterOutcome(cred[c], final[s])
                IN  IF c \notin Dispatched(s) THEN cred[c]
                    ELSE IF Booked(s) THEN Counted(r) ELSE r]
  /\ booked' = [c \in Creds |-> IF c \in Dispatched(s) /\ Booked(s) THEN booked[c] + 1 ELSE booked[c]]
  /\ debt' = [c \in Creds |-> IF c \in Dispatched(s) /\ Booked(s) THEN debt[c] - 1 ELSE debt[c]]
  /\ used' = Touched(s)
  /\ phase' = [phase EXCEPT ![s] = "idle"]
  /\ tried' = [tried EXCEPT ![s] = <<>>]
  /\ final' = [final EXCEPT ![s] = "none"]
  /\ UNCHANGED <<today, list, patches, crashes, faults>>

\* What a settlement cut short has written: the attempts' outcomes and, inside the
\* recordUsage of a success, b usage rows, but not the counter.  recordAssumedUsage is
\* a transaction.
HalfSettled(s, b) ==
  /\ phase[s] = "answered"
  /\ b = 1 => final[s] = "success"
  /\ cred' = [c \in Creds |->
                IF c \in Dispatched(s) THEN AfterOutcome(cred[c], final[s]) ELSE cred[c]]
  /\ booked' = [c \in Creds |-> IF c \in Dispatched(s) THEN booked[c] + b ELSE booked[c]]
  /\ used' = Touched(s)

\* "Accounting is allowed to fail": a recordAssumedUsage that throws is logged and
\* dropped; a recordUsage that throws, at its first or its second statement, ends
\* the handler.
SettleUnbooked(s) ==
  /\ patches + crashes + faults < MaxIncidents
  /\ Booked(s)
  /\ \E b \in {0, 1} :
       /\ HalfSettled(s, b)
       /\ debt' = [c \in Creds |-> IF c \in Dispatched(s) THEN debt[c] - b ELSE debt[c]]
  /\ faults' = faults + 1
  /\ phase' = [phase EXCEPT ![s] = "idle"]
  /\ tried' = [tried EXCEPT ![s] = <<>>]
  /\ final' = [final EXCEPT ![s] = "none"]
  /\ UNCHANGED <<today, list, patches, crashes>>

\* The coordinator dies, perhaps while settling.  Every request in progress is gone.
Crash ==
  /\ patches + crashes + faults < MaxIncidents
  /\ crashes' = crashes + 1
  /\ \/ UNCHANGED <<cred, used, booked>>
     \/ \E s \in Slots, b \in {0, 1} : HalfSettled(s, b)
  /\ phase' = [s \in Slots |-> "idle"]
  /\ list' = [s \in Slots |-> <<>>]
  /\ tried' = [s \in Slots |-> <<>>]
  /\ final' = [s \in Slots |-> "none"]
  /\ debt' = [c \in Creds |-> 0]
  /\ UNCHANGED <<today, patches, faults>>
--------------------------------------------------------------------------------
(* The contributor and the clock. *)

\* PATCH with any of its three fields: a status, ACTIVE or DISABLED only, which
\* also ends a cooldown and is refused on a revoked row (409); a weight; a limit.
\* A field the body leaves out keeps its value (KEEP, the same weight or limit).
Patch(c, st, w, n) ==
  /\ patches + crashes + faults < MaxIncidents
  /\ st = "KEEP" \/ cred[c].status # "DELETED"
  /\ cred' = [cred EXCEPT ![c].status  = IF st = "KEEP" THEN @ ELSE st,
                         ![c].cooling = @ /\ st = "KEEP",
                         ![c].weight  = w,
                         ![c].limit   = n]
  /\ patches' = patches + 1
  /\ UNCHANGED <<used, booked, today, phase, list, tried, final, debt, crashes, faults>>

Delete(c) ==
  /\ cred' = [cred EXCEPT ![c].status = "DELETED"]
  /\ UNCHANGED <<used, booked, today, phase, list, tried, final, debt, patches, crashes, faults>>

CooldownEnds(c) ==
  /\ cred[c].cooling
  /\ cred' = [cred EXCEPT ![c].cooling = FALSE]
  /\ UNCHANGED <<used, booked, today, phase, list, tried, final, debt, patches, crashes, faults>>

Midnight ==
  /\ today < MaxDay
  /\ today' = today + 1
  /\ booked' = [c \in Creds |-> 0]
  /\ UNCHANGED <<cred, used, phase, list, tried, final, debt, patches, crashes, faults>>

Next ==
  \/ \E s \in Slots : Discover(s) \/ Refuse(s) \/ FailEarly(s) \/ Call(s) \/ Exhaust(s)
                        \/ Lose(s) \/ LoseAnswer(s) \/ Settle(s) \/ SettleUnbooked(s)
  \/ \E c \in Creds, st \in {"ACTIVE", "DISABLED", "KEEP"}, w \in Weights, n \in Limits :
       Patch(c, st, w, n)
  \/ \E c \in Creds : Delete(c) \/ CooldownEnds(c)
  \/ Midnight
  \/ Crash

Spec == Init /\ [][Next]_vars
--------------------------------------------------------------------------------
(* Properties. *)

\* Requests that may still book credential c.
Flying(c) ==
  {s \in Slots : c \in ToSet(list[s]) \/ (c \in Dispatched(s) /\ Booked(s))}

\* The cap is tested against a snapshot, so requests in flight can overshoot it,
\* by one less than their number and never by more, settlements after midnight
\* and lost answers included.
OvershootBounded ==
  \A c \in Creds :
    cred[c].requests_today + Cardinality(Flying(c)) <= Max(Limits) + Cardinality(Slots) - 1

\* The counter that enforces the cap misses none of today's usage rows, except
\* one for each time that recordUsage stops between its two statements, by a crash
\* or by an error.
CounterCoversLedger ==
  \A c \in Creds :
    booked[c] <= crashes + faults
                   + (IF cred[c].usage_day = today THEN cred[c].requests_today ELSE 0)

\* Calls on credential c that may have cost money and are not settled yet.
Unsettled(c) == {s \in Slots : c \in Dispatched(s) /\ final[s] \in Costly}

\* A call that may have cost money has one usage row in the end and never two, whether
\* its outcome is known or not and whatever happened to the credential meanwhile.
\* What has none is in flight, was in flight at a crash, or lost it to a fault: an
\* answer that never came, or accounting that threw (index.ts:815-847).
EveryCallIsBookedOnce ==
  \A c \in Creds :
    LET n == Cardinality(Unsettled(c))
    IN  /\ n <= debt[c]
        /\ debt[c] <= n + faults

\* "Revocation is terminal": no handler, no failure handler of a request that
\* was in flight and no PATCH moves a DELETED row, and no later discovery
\* offers it to the enclave.
RevocationIsTerminal ==
  [][\A c \in Creds : cred[c].status = "DELETED" =>
       /\ cred'[c].status = "DELETED"
       /\ \A s \in Slots : c \in ToSet(list'[s]) => c \in ToSet(list[s])]_vars

\* What the weight expansion and the de-duplication come to: the eligible
\* credentials of positive weight, each once, least recently used first.  A weight
\* breaks ties of last use and does nothing else: the comment
\* that a weight-2 credential "appears twice as often in the fallback order"
\* (routing.ts:130-131) is about a list that no caller sees.
RoutingIsLeastRecentlyUsed ==
  LET routable == {c \in Creds : Eligible(Rolled(cred[c])) /\ cred[c].weight > 0}
      order == Candidates
  IN  /\ ToSet(order) = routable
      /\ Len(order) = Cardinality(routable)
      /\ \A i, k \in 1..Len(order) : i < k =>
           \/ used[order[i]] < used[order[k]]
           \/ used[order[i]] = used[order[k]] /\ cred[order[i]].weight >= cred[order[k]].weight

\* What the comment on rollUsageDay says: the counters are "reset per day", so
\* that a row stamped today counts today's usage only.
CounterIsTodays ==
  \A c \in Creds : cred[c].usage_day = today => cred[c].requests_today = booked[c]
================================================================================
