-------------------------- MODULE CredentialsProofs --------------------------
(***************************************************************************)
(* Proofs about Credentials for every pool, every number of requests in    *)
(* progress and every number of days, changes and crashes: the counter     *)
(* covers the ledger, a call that may have cost money is booked once,      *)
(* revocation is terminal, the overshoot of a cap is bounded, and what     *)
(* discovery returns is the eligible credentials, least recently used      *)
(* first.                                                                  *)
(*                                                                         *)
(* The sort, the weight expansion, the seen set and the writes of          *)
(* last_used_at are loops, defined in Credentials by recursive functions;  *)
(* what they compute is proved by induction over the turns of the loop,    *)
(* stated for a set of naturals (NatInd).                                  *)
(***************************************************************************)
EXTENDS Credentials, FiniteSetTheorems, SequenceTheorems, WellFoundedInduction, TLAPS

\* The part of the types that the books rest on.
BooksType ==
  /\ cred \in [Creds -> Row]
  /\ booked \in [Creds -> Nat]
  /\ today \in 0..MaxDay
  /\ crashes \in Nat /\ faults \in Nat
  /\ phase \in [Slots -> {"idle", "dispatching", "answered"}]
  /\ final \in [Slots -> Outcome \cup {"none"}]

\* No row is stamped with a day to come.
StampedByNow == \A c \in Creds : cred[c].usage_day <= today

\* The inductive invariant.
LedgerInv == BooksType /\ StampedByNow /\ CounterCoversLedger
--------------------------------------------------------------------------------
\* What rolling the day of a row changes.
LEMMA RolledRow ==
  ASSUME NEW r \in Row, today \in 0..MaxDay
  PROVE  /\ Rolled(r) \in Row
         /\ Rolled(r).usage_day = today /\ Rolled(r).status = r.status
         /\ Rolled(r).requests_today = IF r.usage_day = today THEN r.requests_today ELSE 0
<1>1. CASE r.usage_day = today
  BY <1>1 DEF Rolled
<1>2. CASE r.usage_day # today
  BY <1>2 DEF Rolled, Row
<1> QED
  BY <1>1, <1>2

\* What the outcome of an attempt changes: never the counter, never a revoked status.
LEMMA OutcomeRow ==
  ASSUME NEW r \in Row, NEW o
  PROVE  /\ AfterOutcome(r, o) \in Row
         /\ AfterOutcome(r, o).usage_day = r.usage_day
         /\ AfterOutcome(r, o).requests_today = r.requests_today
         /\ r.status = "DELETED" => AfterOutcome(r, o).status = "DELETED"
<1> DEFINE st == IF o = "auth_failed" /\ r.status # "DELETED" THEN "DISABLED" ELSE r.status
           co == IF o = "success" THEN FALSE ELSE IF o = "rate_limited" THEN TRUE ELSE r.cooling
<1>1. st \in {"ACTIVE", "DISABLED", "DELETED"} /\ (r.status = "DELETED" => st = "DELETED")
  BY DEF Row
<1>2. co \in BOOLEAN
  <2>1. r.cooling \in BOOLEAN
    BY DEF Row
  <2> QED
    BY <2>1
<1>3. AfterOutcome(r, o) = [r EXCEPT !.status = st, !.cooling = co]
  BY DEF AfterOutcome
<1> HIDE DEF st, co
<1> QED
  BY <1>1, <1>2, <1>3 DEF Row

\* What booking changes: one more request, stamped today.
LEMMA CountedRow ==
  ASSUME NEW r \in Row, today \in 0..MaxDay
  PROVE  /\ Counted(r) \in Row
         /\ Counted(r).usage_day = today /\ Counted(r).status = r.status
         /\ Counted(r).requests_today = r.requests_today + 1
<1>1. r.requests_today + 1 \in Nat
  BY DEF Row
<1> QED
  BY <1>1 DEF Counted, Row

\* A step that leaves the books alone.
LEMMA BooksUntouched ==
  ASSUME LedgerInv, UNCHANGED <<cred, booked, today, crashes>>, faults' \in {faults, faults + 1},
         phase' \in [Slots -> {"idle", "dispatching", "answered"}],
         final' \in [Slots -> Outcome \cup {"none"}]
  PROVE  LedgerInv'
<1>1. faults' \in Nat /\ faults' >= faults
  BY DEF LedgerInv, BooksType
<1>2. CounterCoversLedger'
  <2> SUFFICES ASSUME NEW c \in Creds
               PROVE  booked[c] <= crashes + faults'
                        + (IF cred[c].usage_day = today THEN cred[c].requests_today ELSE 0)
    BY DEF CounterCoversLedger
  <2>1. cred[c] \in Row /\ cred[c].requests_today \in Nat /\ booked[c] \in Nat
          /\ crashes \in Nat /\ faults \in Nat
    BY DEF LedgerInv, BooksType, Row
  <2> QED
    BY <1>1, <2>1 DEF LedgerInv, CounterCoversLedger
<1> QED
  BY <1>1, <1>2 DEF LedgerInv, BooksType, StampedByNow

\* The rows of the credentials a slot has dispatched, settled.
LEMMA SettledRow ==
  ASSUME LedgerInv, NEW s \in Slots, NEW c \in Creds, Settle(s)
  PROVE  /\ cred'[c] \in Row
         /\ c \in Dispatched(s) /\ Booked(s) =>
              /\ cred'[c].usage_day = today
              /\ cred'[c].requests_today = cred[c].requests_today + 1
              /\ booked'[c] = booked[c] + 1
         /\ ~(c \in Dispatched(s) /\ Booked(s)) =>
              /\ cred'[c].usage_day = cred[c].usage_day
              /\ cred'[c].requests_today = cred[c].requests_today
              /\ booked'[c] = booked[c]
         /\ cred[c].status = "DELETED" => cred'[c].status = "DELETED"
<1> DEFINE r == AfterOutcome(cred[c], final[s])
<1>1. /\ cred[c] \in Row /\ today \in 0..MaxDay
      /\ r \in Row /\ r.usage_day = cred[c].usage_day
      /\ r.requests_today = cred[c].requests_today
      /\ cred[c].status = "DELETED" => r.status = "DELETED"
  BY OutcomeRow DEF LedgerInv, BooksType
<1>2. /\ cred'[c] = IF c \notin Dispatched(s) THEN cred[c]
                    ELSE IF Booked(s) THEN Counted(r) ELSE r
      /\ booked'[c] = IF c \in Dispatched(s) /\ Booked(s) THEN booked[c] + 1 ELSE booked[c]
  BY DEF Settle
<1> HIDE DEF r
<1> QED
  BY <1>1, <1>2, CountedRow

\* The rows after a settlement that was cut short: the counter is where it was.
LEMMA HalfSettledRow ==
  ASSUME LedgerInv, NEW s \in Slots, NEW b \in {0, 1}, HalfSettled(s, b), NEW c \in Creds
  PROVE  /\ cred'[c] \in Row /\ cred'[c].usage_day = cred[c].usage_day
         /\ cred'[c].requests_today = cred[c].requests_today
         /\ booked'[c] \in Nat /\ booked'[c] <= booked[c] + 1
         /\ cred[c].status = "DELETED" => cred'[c].status = "DELETED"
<1>1. cred[c] \in Row /\ booked[c] \in Nat
  BY DEF LedgerInv, BooksType
<1>2. cred'[c] = IF c \in Dispatched(s) THEN AfterOutcome(cred[c], final[s]) ELSE cred[c]
  BY DEF HalfSettled
<1>3. booked'[c] \in Nat /\ booked'[c] <= booked[c] + 1
  BY <1>1 DEF HalfSettled
<1> QED
  BY <1>1, <1>2, <1>3, OutcomeRow

\* Rewriting a row without its counter and its stamp keeps the books.
LEMMA RewrittenRow ==
  ASSUME LedgerInv, NEW c \in Creds, NEW r \in Row, cred' = [cred EXCEPT ![c] = r],
         r.usage_day = cred[c].usage_day, r.requests_today = cred[c].requests_today,
         UNCHANGED <<booked, today, phase, final, crashes, faults>>
  PROVE  LedgerInv'
<1>1. cred \in [Creds -> Row]
  BY DEF LedgerInv, BooksType
<1>2. /\ cred' \in [Creds -> Row]
      /\ \A d \in Creds : cred'[d].usage_day = cred[d].usage_day
                          /\ cred'[d].requests_today = cred[d].requests_today
  BY <1>1
<1> QED
  BY <1>2 DEF LedgerInv, BooksType, CounterCoversLedger, StampedByNow

\* Every handler's statements, the clock and a crash inside a settlement keep the books.
LEMMA LedgerStep == LedgerInv /\ [Next]_vars => LedgerInv'
<1> SUFFICES ASSUME LedgerInv, [Next]_vars
             PROVE  LedgerInv'
  OBVIOUS
<1>0. /\ cred \in [Creds -> Row] /\ booked \in [Creds -> Nat] /\ today \in Nat /\ today \in 0..MaxDay
      /\ crashes \in Nat /\ faults \in Nat
      /\ \A c \in Creds : cred[c] \in Row /\ cred[c].requests_today \in Nat /\ cred[c].usage_day \in Nat
  BY BoundsAssumption DEF LedgerInv, BooksType, Row
<1>1. ASSUME NEW s \in Slots, Discover(s)
      PROVE  LedgerInv'
  <2>1. /\ cred' = [c \in Creds |-> Rolled(cred[c])]
        /\ UNCHANGED <<booked, today, final, crashes, faults>>
        /\ phase' \in [Slots -> {"idle", "dispatching", "answered"}]
    BY <1>1 DEF Discover, LedgerInv, BooksType
  <2>2. ASSUME NEW c \in Creds
        PROVE  /\ cred'[c] \in Row /\ cred'[c].usage_day = today
               /\ cred'[c].requests_today = IF cred[c].usage_day = today
                                            THEN cred[c].requests_today ELSE 0
    BY <1>0, <2>1, RolledRow
  <2>3. cred' \in [Creds -> Row]
    BY <2>1, <2>2
  <2>4. CounterCoversLedger' /\ StampedByNow'
    BY <1>0, <2>1, <2>2 DEF LedgerInv, CounterCoversLedger, StampedByNow
  <2> QED
    BY <2>1, <2>3, <2>4 DEF LedgerInv, BooksType
<1>2. ASSUME NEW s \in Slots, Refuse(s) \/ FailEarly(s) \/ Call(s) \/ Exhaust(s) \/ Lose(s) \/ LoseAnswer(s)
      PROVE  LedgerInv'
  <2>1. /\ UNCHANGED <<cred, booked, today, crashes>>
        /\ phase' \in [Slots -> {"idle", "dispatching", "answered"}]
        /\ faults' \in {faults, faults + 1}
    BY <1>2 DEF Refuse, FailEarly, Call, Exhaust, Lose, LoseAnswer, LedgerInv, BooksType
  <2>2. final' \in [Slots -> Outcome \cup {"none"}]
    BY <1>2 DEF Refuse, FailEarly, Call, Exhaust, Lose, LoseAnswer, LedgerInv, BooksType
  <2> QED
    BY <2>1, <2>2, BooksUntouched
<1>3. ASSUME NEW s \in Slots, Settle(s)
      PROVE  LedgerInv'
  <2>1. /\ UNCHANGED <<today, crashes, faults>>
        /\ phase' \in [Slots -> {"idle", "dispatching", "answered"}]
        /\ final' \in [Slots -> Outcome \cup {"none"}]
        /\ cred' = [c \in Creds |-> cred'[c]] /\ booked' = [c \in Creds |-> booked'[c]]
    BY <1>3 DEF Settle, LedgerInv, BooksType
  <2>2. ASSUME NEW c \in Creds
        PROVE  /\ cred'[c] \in Row /\ booked'[c] \in Nat
               /\ cred'[c].usage_day <= today
               /\ booked'[c] <= crashes + faults + (IF cred'[c].usage_day = today
                                                    THEN cred'[c].requests_today ELSE 0)
    <3>1. CASE c \in Dispatched(s) /\ Booked(s)
      <4>1. /\ cred'[c] \in Row /\ cred'[c].usage_day = today
            /\ cred'[c].requests_today = cred[c].requests_today + 1
            /\ booked'[c] = booked[c] + 1
        BY <1>3, <3>1, SettledRow
      <4>2. booked[c] \in Nat /\ booked[c] <= crashes + faults + cred[c].requests_today
        BY <1>0 DEF LedgerInv, CounterCoversLedger
      <4> QED
        BY <1>0, <4>1, <4>2
    <3>2. CASE ~(c \in Dispatched(s) /\ Booked(s))
      <4>1. /\ cred'[c] \in Row /\ cred'[c].usage_day = cred[c].usage_day
            /\ cred'[c].requests_today = cred[c].requests_today
            /\ booked'[c] = booked[c]
        BY <1>3, <3>2, SettledRow
      <4> QED
        BY <1>0, <4>1 DEF LedgerInv, CounterCoversLedger, StampedByNow
    <3> QED
      BY <3>1, <3>2
  <2>3. cred' \in [Creds -> Row] /\ booked' \in [Creds -> Nat]
    BY <2>1, <2>2
  <2>4. CounterCoversLedger' /\ StampedByNow'
    BY <2>1, <2>2 DEF CounterCoversLedger, StampedByNow
  <2> QED
    BY <2>1, <2>3, <2>4 DEF LedgerInv, BooksType
<1>11. ASSUME today' = today, crashes' \in Nat, faults' \in Nat,
              crashes' + faults' = crashes + faults + 1,
              \A c \in Creds : /\ booked'[c] \in Nat /\ booked'[c] <= booked[c] + 1
                               /\ cred'[c].usage_day = cred[c].usage_day
                               /\ cred'[c].requests_today = cred[c].requests_today
       PROVE  CounterCoversLedger' /\ StampedByNow'
  <2>1. ASSUME NEW c \in Creds
        PROVE  booked'[c] <= crashes' + faults'
                 + (IF cred'[c].usage_day = today' THEN cred'[c].requests_today ELSE 0)
    <3>1. booked[c] <= crashes + faults
            + (IF cred[c].usage_day = today THEN cred[c].requests_today ELSE 0)
      BY DEF LedgerInv, CounterCoversLedger
    <3> DEFINE k == IF cred[c].usage_day = today THEN cred[c].requests_today ELSE 0
    <3>2. k \in Nat /\ booked[c] \in Nat /\ booked'[c] \in Nat /\ booked'[c] <= booked[c] + 1
      BY <1>0, <1>11
    <3>3. (IF cred'[c].usage_day = today' THEN cred'[c].requests_today ELSE 0) = k
      BY <1>11
    <3> HIDE DEF k
    <3>4. booked[c] <= crashes + faults + k
      BY <3>1 DEF k
    <3>5. booked'[c] <= crashes' + faults' + k
      <4> DEFINE old == crashes + faults
                 new == crashes' + faults'
      <4>1. old \in Nat
        BY <1>0
      <4>2. new = old + 1
        BY <1>11
      <4>3. booked[c] <= old + k
        BY <3>4
      <4> HIDE DEF old, new
      <4>4. booked'[c] <= new + k
        BY <3>2, <4>1, <4>2, <4>3
      <4> QED
        BY <4>4 DEF new
    <3> QED
      BY <3>3, <3>5
  <2>2. StampedByNow'
    BY <1>11 DEF LedgerInv, StampedByNow
  <2> QED
    BY <2>1, <2>2 DEF CounterCoversLedger
<1>4. ASSUME today' = today, crashes' \in Nat, faults' \in Nat,
             crashes' + faults' = crashes + faults + 1,
             phase' \in [Slots -> {"idle", "dispatching", "answered"}],
             final' \in [Slots -> Outcome \cup {"none"}],
             UNCHANGED <<cred, booked>> \/ \E s \in Slots, b \in {0, 1} : HalfSettled(s, b)
      PROVE  LedgerInv'
  <2>2. CASE UNCHANGED <<cred, booked>>
    <3>1. \A c \in Creds : booked'[c] \in Nat /\ booked'[c] <= booked[c] + 1
                               /\ cred'[c].usage_day = cred[c].usage_day
                               /\ cred'[c].requests_today = cred[c].requests_today
      BY <1>0, <2>2
    <3> QED
      BY <1>0, <1>4, <1>11, <2>2, <3>1 DEF LedgerInv, BooksType
  <2>3. ASSUME NEW s \in Slots, NEW b \in {0, 1}, HalfSettled(s, b)
        PROVE  LedgerInv'
    <3>1. ASSUME NEW c \in Creds
          PROVE  /\ cred'[c] \in Row /\ cred'[c].usage_day = cred[c].usage_day
                 /\ cred'[c].requests_today = cred[c].requests_today
                 /\ booked'[c] \in Nat /\ booked'[c] <= booked[c] + 1
      BY <1>0, <2>3, HalfSettledRow
    <3>2. cred' \in [Creds -> Row] /\ booked' \in [Creds -> Nat]
      BY <2>3, <3>1 DEF HalfSettled
    <3>3. CounterCoversLedger' /\ StampedByNow'
      BY <1>4, <1>11, <3>1
    <3> QED
      BY <1>0, <1>4, <3>2, <3>3 DEF LedgerInv, BooksType
  <2> QED
    BY <1>4, <2>2, <2>3
<1>9. CASE Crash
  <2>1. /\ today' = today /\ crashes' = crashes + 1 /\ faults' = faults
        /\ phase' \in [Slots -> {"idle", "dispatching", "answered"}]
        /\ final' \in [Slots -> Outcome \cup {"none"}]
        /\ UNCHANGED <<cred, booked>> \/ \E s \in Slots, b \in {0, 1} : HalfSettled(s, b)
    BY <1>9 DEF Crash
  <2> QED
    BY <1>0, <1>4, <2>1
<1>10. ASSUME NEW s \in Slots, SettleUnbooked(s)
       PROVE  LedgerInv'
  <2>1. /\ today' = today /\ crashes' = crashes /\ faults' = faults + 1
        /\ phase' \in [Slots -> {"idle", "dispatching", "answered"}]
        /\ final' \in [Slots -> Outcome \cup {"none"}]
        /\ \E b \in {0, 1} : HalfSettled(s, b)
    BY <1>10 DEF SettleUnbooked, LedgerInv, BooksType
  <2> QED
    BY <1>0, <1>4, <2>1
<1>5. ASSUME NEW c \in Creds, NEW st \in {"ACTIVE", "DISABLED", "KEEP"}, NEW w \in Weights,
             NEW n \in Limits, Patch(c, st, w, n)
      PROVE  LedgerInv'
  <2> DEFINE status == IF st = "KEEP" THEN cred[c].status ELSE st
             cooling == cred[c].cooling /\ st = "KEEP"
  <2>1. UNCHANGED <<booked, today, phase, final, crashes, faults>>
        /\ cred' = [cred EXCEPT ![c].status = status, ![c].cooling = cooling,
                                ![c].weight = w, ![c].limit = n]
    BY <1>5 DEF Patch
  <2>2. status \in {"ACTIVE", "DISABLED", "DELETED"} /\ cooling \in BOOLEAN
    BY <1>0 DEF Row
  <2> HIDE DEF status, cooling
  <2> DEFINE r == [cred[c] EXCEPT !.status = status, !.cooling = cooling, !.weight = w, !.limit = n]
  <2>3. r \in Row /\ r.usage_day = cred[c].usage_day /\ r.requests_today = cred[c].requests_today
    BY <1>0, <2>2 DEF Row
  <2>4. cred' = [cred EXCEPT ![c] = r]
    BY <1>0, <2>1
  <2> HIDE DEF r
  <2> QED
    BY <1>0, <2>1, <2>3, <2>4, RewrittenRow
<1>6. ASSUME NEW c \in Creds, Delete(c) \/ CooldownEnds(c)
      PROVE  LedgerInv'
  <2>1. UNCHANGED <<booked, today, phase, final, crashes, faults>>
    BY <1>6 DEF Delete, CooldownEnds
  <2>2. PICK r \in {[cred[c] EXCEPT !.status = "DELETED"], [cred[c] EXCEPT !.cooling = FALSE]} :
          cred' = [cred EXCEPT ![c] = r]
    BY <1>0, <1>6 DEF Delete, CooldownEnds
  <2>3. r \in Row /\ r.usage_day = cred[c].usage_day /\ r.requests_today = cred[c].requests_today
    <3>1. CASE r = [cred[c] EXCEPT !.status = "DELETED"]
      BY <1>0, <3>1 DEF Row
    <3>2. CASE r = [cred[c] EXCEPT !.cooling = FALSE]
      BY <1>0, <3>2 DEF Row
    <3> QED
      BY <2>2, <3>1, <3>2
  <2> QED
    BY <1>0, <2>1, <2>2, <2>3, RewrittenRow
<1>7. CASE Midnight
  <2>1. today' = today + 1 /\ today' \in 0..MaxDay /\ booked' = [c \in Creds |-> 0]
        /\ UNCHANGED <<cred, phase, final, crashes, faults>>
    BY <1>0, <1>7, BoundsAssumption DEF Midnight
  <2> QED
    BY <1>0, <2>1 DEF LedgerInv, BooksType, CounterCoversLedger, StampedByNow
<1>8. CASE UNCHANGED vars
  BY <1>8 DEF vars, LedgerInv, BooksType, CounterCoversLedger, StampedByNow
<1> QED
  BY <1>1, <1>2, <1>3, <1>4, <1>5, <1>6, <1>7, <1>8, <1>9, <1>10 DEF Next

\* A fresh pool owes nothing.
LEMMA LedgerInit == Init => LedgerInv
<1> SUFFICES ASSUME Init
             PROVE  LedgerInv
  OBVIOUS
<1>1. PICK w \in [Creds -> Weights], n \in [Creds -> Limits] :
        cred = [c \in Creds |->
                 [status |-> "ACTIVE", weight |-> w[c], limit |-> n[c], cooling |-> FALSE,
                  requests_today |-> 0, usage_day |-> 0]]
  BY DEF Init
<1>2. cred \in [Creds -> Row]
  BY <1>1, BoundsAssumption DEF Row
<1>3. \A c \in Creds : cred[c].usage_day = 0 /\ cred[c].requests_today = 0
  BY <1>1
<1> QED
  BY <1>2, <1>3, BoundsAssumption DEF Init, LedgerInv, BooksType, CounterCoversLedger, StampedByNow

\* The inductive invariant holds in every state.
LEMMA LedgerInductive == Spec => []LedgerInv
BY LedgerInit, LedgerStep, PTL DEF Spec
--------------------------------------------------------------------------------
\* The counter that enforces the daily cap covers the usage rows of the day, up to one for
\* every recordUsage that stops half way, settlements after midnight included (routing.ts).
THEOREM CapCoversLedger == Spec => []CounterCoversLedger
<1>1. LedgerInv => CounterCoversLedger
  BY DEF LedgerInv
<1> QED
  BY <1>1, LedgerInductive, PTL

\* "Revocation is terminal", the row's half: no settlement of a request that was in flight,
\* no crash inside one, no PATCH and no roll of the day takes DELETED back.
RevokedStays == [][\A c \in Creds : cred[c].status = "DELETED" => cred'[c].status = "DELETED"]_vars

LEMMA RevokedRowsStay == Spec => RevokedStays
<1> DEFINE P == \A c \in Creds : cred[c].status = "DELETED" => cred'[c].status = "DELETED"
<1>1. LedgerInv /\ [Next]_vars => [P]_vars
  <2> SUFFICES ASSUME LedgerInv, Next, NEW c \in Creds, cred[c].status = "DELETED"
               PROVE  cred'[c].status = "DELETED"
    OBVIOUS
  <2>0. cred \in [Creds -> Row] /\ cred[c] \in Row /\ today \in 0..MaxDay
    BY DEF LedgerInv, BooksType
  <2>1. ASSUME NEW s \in Slots, Discover(s)
        PROVE  cred'[c].status = "DELETED"
    <3>1. cred'[c] = Rolled(cred[c])
      BY <2>1 DEF Discover
    <3> QED
      BY <2>0, <3>1, RolledRow
  <2>2. ASSUME NEW s \in Slots, Settle(s)
        PROVE  cred'[c].status = "DELETED"
    BY <2>2, SettledRow
  <2>3. CASE Crash
    <3>1. CASE cred' = cred
      BY <3>1
    <3>2. ASSUME NEW s \in Slots, NEW b \in {0, 1}, HalfSettled(s, b)
          PROVE  cred'[c].status = "DELETED"
      BY <3>2, HalfSettledRow
    <3> QED
      BY <2>3, <3>1, <3>2 DEF Crash
  <2>7. ASSUME NEW s \in Slots, SettleUnbooked(s)
        PROVE  cred'[c].status = "DELETED"
    <3>1. PICK b \in {0, 1} : HalfSettled(s, b)
      BY <2>7 DEF SettleUnbooked
    <3> QED
      BY <3>1, HalfSettledRow
  <2>4. ASSUME NEW d \in Creds, NEW st \in {"ACTIVE", "DISABLED", "KEEP"}, NEW w \in Weights,
               NEW n \in Limits, Patch(d, st, w, n)
        PROVE  cred'[c].status = "DELETED"
    <3> DEFINE status == IF st = "KEEP" THEN cred[d].status ELSE st
               cooling == cred[d].cooling /\ st = "KEEP"
    <3>1. /\ cred' = [cred EXCEPT ![d].status = status, ![d].cooling = cooling,
                                  ![d].weight = w, ![d].limit = n]
          /\ d = c => status = "DELETED"
      BY <2>4 DEF Patch
    <3> HIDE DEF status, cooling
    <3> QED
      BY <2>0, <3>1 DEF Row
  <2>5. ASSUME NEW d \in Creds, Delete(d) \/ CooldownEnds(d)
        PROVE  cred'[c].status = "DELETED"
    BY <2>0, <2>5 DEF Delete, CooldownEnds, Row
  <2>6. CASE cred' = cred
    BY <2>6
  <2> QED
    BY <2>1, <2>2, <2>3, <2>4, <2>5, <2>6, <2>7
       DEF Next, Refuse, FailEarly, Call, Exhaust, Lose, LoseAnswer, Midnight
<1> QED
  BY <1>1, LedgerInductive, PTL DEF Spec, RevokedStays
--------------------------------------------------------------------------------
(* Induction, and sorting. *)

\* Induction, for a set of naturals.
LEMMA NatInd ==
  ASSUME NEW T, 0 \in T, \A n \in Nat : n \in T => n + 1 \in T
  PROVE  \A n \in Nat : n \in T
<1> DEFINE R == {ss \in Nat \X Nat : ss[1] < ss[2]}
           U == Nat \ T
<1> SUFFICES ASSUME U # {} PROVE FALSE
  OBVIOUS
<1>1. IsWellFoundedOn(R, Nat)
  BY NatLessThanWellFounded DEF OpToRel
<1>2. PICK i \in U : \A j \in U : <<j, i>> \notin R
  BY <1>1, WFMin
<1>3. i \in Nat /\ i # 0 /\ i - 1 \in Nat
  OBVIOUS
<1>4. i - 1 \notin U
  <2>1. <<i - 1, i>> \in R
    BY <1>3
  <2> QED
    BY <1>2, <2>1
<1> QED
  BY <1>3, <1>4

\* f goes from its first value by the steps.
Unfolds(f, n, a, step) == f[0] = a /\ \A k \in 1..n : f[k] = step[<<k, f[k - 1]>>]

\* A function defined by its first value and by the step from one value to the next.
LEMMA Recursion ==
  ASSUME NEW n \in Nat, NEW A, NEW a \in A, NEW step \in [(1..n) \X A -> A]
  PROVE  \E f \in [0..n -> A] : Unfolds(f, n, a, step)
<1> DEFINE Good(m, f) == f[0] = a /\ \A k \in 1..m : f[k] = step[<<k, f[k - 1]>>]
           T == {m \in Nat : m <= n => \E f \in [0..m -> A] : Good(m, f)}
<1>1. 0 \in T
  <2>1. [i \in 0..0 |-> a] \in [0..0 -> A] /\ Good(0, [i \in 0..0 |-> a])
    OBVIOUS
  <2> QED
    BY <2>1
<1>2. ASSUME NEW m \in Nat, m \in T
      PROVE  m + 1 \in T
  <2> SUFFICES ASSUME m + 1 <= n
               PROVE  \E f \in [0..m + 1 -> A] : Good(m + 1, f)
    OBVIOUS
  <2>1. PICK f \in [0..m -> A] : Good(m, f)
    BY <1>2
  <2> DEFINE v == step[<<m + 1, f[m]>>]
             g == [i \in 0..m + 1 |-> IF i <= m THEN f[i] ELSE v]
  <2>2. v \in A
    OBVIOUS
  <2>3. g \in [0..m + 1 -> A]
    BY <2>2
  <2>4. g[m + 1] = v /\ \A i \in 0..m : g[i] = f[i]
    OBVIOUS
  <2> HIDE DEF g
  <2>5. \A k \in 1..m + 1 : g[k] = step[<<k, g[k - 1]>>]
    <3> SUFFICES ASSUME NEW k \in 1..m + 1 PROVE g[k] = step[<<k, g[k - 1]>>]
      OBVIOUS
    <3>1. CASE k = m + 1
      BY <2>4, <3>1
    <3>2. CASE k \in 1..m
      BY <2>1, <2>4, <3>2
    <3> QED
      BY <3>1, <3>2
  <2> QED
    BY <2>1, <2>3, <2>4, <2>5
<1>3. n \in T
  <2> HIDE DEF T
  <2> QED
    BY <1>1, <1>2, NatInd
<1> QED
  BY <1>3 DEF Unfolds

\* A set of places has a last one.
LEMMA LastPlace ==
  ASSUME NEW n \in Nat, NEW S \in SUBSET (1..n), S # {}
  PROVE  \E k \in S : \A l \in S : l <= k
<1> DEFINE T == {n - k : k \in S}
           R == {ss \in Nat \X Nat : ss[1] < ss[2]}
<1>1. T \in SUBSET Nat /\ T # {}
  <2>1. \A k \in S : n - k \in Nat
    OBVIOUS
  <2>2. PICK k \in S : TRUE
    OBVIOUS
  <2>3. n - k \in T
    OBVIOUS
  <2> QED
    BY <2>1, <2>3
<1>2. IsWellFoundedOn(R, Nat)
  BY NatLessThanWellFounded DEF OpToRel
<1>3. PICK i \in T : \A j \in T : <<j, i>> \notin R
  BY <1>1, <1>2, WFMin
<1>4. PICK k \in S : i = n - k
  OBVIOUS
<1>5. ASSUME NEW l \in S, l > k
      PROVE  FALSE
  <2>1. n - l \in T /\ n - l < i /\ n - l \in Nat /\ i \in Nat
    BY <1>1, <1>4, <1>5
  <2>2. <<n - l, i>> \in R
    BY <2>1
  <2> QED
    BY <1>3, <2>1, <2>2
<1> QED
  BY <1>5

\* A strict total order, as a set of pairs.
StrictOrder(R, C) ==
  /\ \A c \in C : <<c, c>> \notin R
  /\ \A c, d, e \in C : <<c, d>> \in R /\ <<d, e>> \in R => <<c, e>> \in R
  /\ \A c, d \in C : c # d => <<c, d>> \in R \/ <<d, c>> \in R

\* The places of a sequence go up in the order.
Ascending(q, n, R) == \A i, k \in 1..n : i < k => <<q[i], q[k]>> \in R

\* A sorted sequence takes one element more.
LEMMA Insertion ==
  ASSUME NEW C, NEW R, StrictOrder(R, C), NEW S \in SUBSET C, NEW c \in C \ S, NEW n \in Nat,
         NEW q \in [1..n -> S], Ascending(q, n, R)
  PROVE  \E g \in [1..n + 1 -> S \cup {c}] : Ascending(g, n + 1, R)
<1> DEFINE I == {i \in 1..n : <<q[i], c>> \in R}
<1>1. PICK m \in 0..n : /\ \A i \in 1..m : <<q[i], c>> \in R
                        /\ \A i \in m + 1..n : <<c, q[i]>> \in R
  <2>1. CASE I = {}
    <3>1. \A i \in 1..n : <<c, q[i]>> \in R
      <4> SUFFICES ASSUME NEW i \in 1..n PROVE <<c, q[i]>> \in R
        OBVIOUS
      <4>1. i \notin I /\ q[i] \in C /\ q[i] # c /\ c \in C
        BY <2>1
      <4>2. <<q[i], c>> \notin R
        BY <4>1
      <4> QED
        BY <4>1, <4>2 DEF StrictOrder
    <3>2. 0 \in 0..n /\ 1..0 = {} /\ 0 + 1..n = 1..n
      OBVIOUS
    <3> QED
      BY <3>1, <3>2
  <2>2. CASE I # {}
    <3>1. PICK m \in I : \A l \in I : l <= m
      BY <2>2, LastPlace
    <3>2. \A i \in 1..m : <<q[i], c>> \in R
      <4> SUFFICES ASSUME NEW i \in 1..m PROVE <<q[i], c>> \in R
        OBVIOUS
      <4>1. i = m \/ <<q[i], q[m]>> \in R
        BY DEF Ascending
      <4>2. <<q[m], c>> \in R /\ q[i] \in C /\ q[m] \in C
        OBVIOUS
      <4> QED
        BY <4>1, <4>2 DEF StrictOrder
    <3>3. \A i \in m + 1..n : <<c, q[i]>> \in R
      <4> SUFFICES ASSUME NEW i \in m + 1..n PROVE <<c, q[i]>> \in R
        OBVIOUS
      <4>1. i \in 1..n /\ i \notin I /\ q[i] \in C /\ q[i] # c
        BY <3>1
      <4> QED
        BY <4>1 DEF StrictOrder
    <3>4. m \in 0..n
      OBVIOUS
    <3> HIDE DEF I
    <3> QED
      BY <3>2, <3>3, <3>4
  <2> QED
    BY <2>1, <2>2
<1> DEFINE g == [i \in 1..n + 1 |-> IF i <= m THEN q[i] ELSE IF i = m + 1 THEN c ELSE q[i - 1]]
<1>2. g \in [1..n + 1 -> S \cup {c}]
  OBVIOUS
<1>3. /\ \A i \in 1..m : g[i] = q[i]
      /\ g[m + 1] = c
      /\ \A i \in m + 2..n + 1 : g[i] = q[i - 1] /\ i - 1 \in m + 1..n
  OBVIOUS
<1> HIDE DEF g
<1>4. ASSUME NEW i \in 1..n + 1, NEW k \in 1..n + 1, i < k
      PROVE  <<g[i], g[k]>> \in R
  <2>1. CASE i \in 1..m /\ k \in 1..m
    BY <1>3, <1>4, <2>1 DEF Ascending
  <2>2. CASE i \in 1..m /\ k = m + 1
    BY <1>1, <1>3, <2>2
  <2>3. CASE i \in 1..m /\ k \in m + 2..n + 1
    <3>1. i \in 1..n /\ k - 1 \in 1..n /\ i < k - 1
      BY <2>3
    <3> QED
      BY <1>3, <2>3, <3>1 DEF Ascending
  <2>4. CASE i = m + 1 /\ k \in m + 2..n + 1
    BY <1>1, <1>3, <2>4
  <2>5. CASE i \in m + 2..n + 1 /\ k \in m + 2..n + 1
    <3>1. i - 1 \in 1..n /\ k - 1 \in 1..n /\ i - 1 < k - 1
      BY <1>4, <2>5
    <3> QED
      BY <1>3, <2>5, <3>1 DEF Ascending
  <2> QED
    BY <1>4, <2>1, <2>2, <2>3, <2>4, <2>5
<1> QED
  BY <1>2, <1>4 DEF Ascending

\* Every finite set can be sorted.
LEMMA CanSort ==
  ASSUME NEW C, NEW R, StrictOrder(R, C), NEW S \in SUBSET C, IsFiniteSet(S)
  PROVE  /\ Cardinality(S) \in Nat
         /\ \E q \in [1..Cardinality(S) -> S] : Ascending(q, Cardinality(S), R)
<1> DEFINE T == {n \in Nat : \A X \in SUBSET C : IsFiniteSet(X) /\ Cardinality(X) = n =>
                   \E q \in [1..n -> X] : Ascending(q, n, R)}
<1>1. 0 \in T
  <2> SUFFICES ASSUME NEW X \in SUBSET C PROVE \E q \in [1..0 -> X] : Ascending(q, 0, R)
    OBVIOUS
  <2>1. [i \in 1..0 |-> i] \in [1..0 -> X] /\ Ascending([i \in 1..0 |-> i], 0, R)
    BY DEF Ascending
  <2> QED
    BY <2>1
<1>2. ASSUME NEW n \in Nat, n \in T
      PROVE  n + 1 \in T
  <2> SUFFICES ASSUME NEW X \in SUBSET C, IsFiniteSet(X), Cardinality(X) = n + 1
               PROVE  \E q \in [1..n + 1 -> X] : Ascending(q, n + 1, R)
    OBVIOUS
  <2>1. PICK c \in X : TRUE
    BY FS_EmptySet
  <2>2. IsFiniteSet(X \ {c}) /\ Cardinality(X \ {c}) = n
    <3>1. Cardinality(X \ {c}) = Cardinality(X) - 1 /\ IsFiniteSet(X \ {c})
      BY <2>1, FS_RemoveElement
    <3> QED
      BY <3>1
  <2>3. PICK q \in [1..n -> X \ {c}] : Ascending(q, n, R)
    BY <1>2, <2>2
  <2>4. X \ {c} \in SUBSET C /\ c \in C \ (X \ {c}) /\ (X \ {c}) \cup {c} = X
    OBVIOUS
  <2> QED
    BY <2>3, <2>4, Insertion
<1>3. Cardinality(S) \in Nat
  BY FS_CardinalityType
<1>4. Cardinality(S) \in T
  <2> HIDE DEF T
  <2> QED
    BY <1>1, <1>2, <1>3, NatInd
<1> QED
  BY <1>3, <1>4

\* Every element of a set has a place.
Onto(q, n, S) == \A c \in S : \E i \in 1..n : q[i] = c

\* A sorted sequence as long as a finite set has all its elements.
LEMMA SortIsOnto ==
  ASSUME NEW C, NEW R, StrictOrder(R, C), NEW S \in SUBSET C, IsFiniteSet(S),
         NEW n, n = Cardinality(S), NEW q \in [1..n -> S], Ascending(q, n, R)
  PROVE  Onto(q, n, S)
<1>1. n \in Nat /\ IsFiniteSet(1..n) /\ Cardinality(1..n) = n
  BY FS_CardinalityType, FS_Interval
<1>2. \A i, k \in 1..n : q[i] = q[k] => i = k
  <2> SUFFICES ASSUME NEW i \in 1..n, NEW k \in 1..n, q[i] = q[k], i # k PROVE FALSE
    OBVIOUS
  <2>1. <<q[i], q[k]>> \in R \/ <<q[k], q[i]>> \in R
    BY <1>1 DEF Ascending
  <2>2. q[i] \in C
    OBVIOUS
  <2> QED
    BY <2>1, <2>2 DEF StrictOrder
<1>3. q \in Injection(1..n, S)
  BY <1>2 DEF Injection, IsInjective
<1>4. q \in Surjection(1..n, S)
  BY <1>1, <1>3, FS_Injection
<1> QED
  BY <1>4 DEF Surjection, Onto

\* A finite set of integers has a greatest element.
LEMMA HasMax ==
  ASSUME NEW S \in SUBSET Int, IsFiniteSet(S), S # {}
  PROVE  Max(S) \in S /\ \A x \in S : x <= Max(S)
<1> DEFINE R == {p \in Int \X Int : p[1] < p[2]}
           n == Cardinality(S)
<1>1. StrictOrder(R, Int)
  BY DEF StrictOrder
<1> HIDE DEF R
<1>2. n \in Nat /\ n # 0
  BY FS_CardinalityType, FS_EmptySet
<1>3. PICK q \in [1..n -> S] : Ascending(q, n, R)
  BY <1>1, CanSort
<1>4. Onto(q, n, S)
  BY <1>1, <1>3, SortIsOnto
<1> HIDE DEF n
<1>5. q[n] \in S /\ \A x \in S : q[n] >= x
  <2> SUFFICES ASSUME NEW x \in S PROVE q[n] >= x
    BY <1>2, <1>3
  <2>1. PICK i \in 1..n : q[i] = x
    BY <1>4 DEF Onto
  <2>2. i = n \/ <<q[i], q[n]>> \in R
    BY <1>2, <1>3 DEF Ascending
  <2> QED
    BY <1>2, <1>3, <2>1, <2>2 DEF R
<1>6. Max(S) \in S /\ \A x \in S : Max(S) >= x
  BY <1>5 DEF Max
<1> QED
  BY <1>6

\* routingOrder as a set of pairs.
Order == {p \in Creds \X Creds : Before(p[1], p[2])}

\* routingOrder is a strict total order: ids settle what use and weight leave open.
LEMMA OrderIsTotal ==
  ASSUME cred \in [Creds -> Row], used \in [Creds -> Nat]
  PROVE  StrictOrder(Order, Creds)
<1>1. \A c \in Creds : used[c] \in Nat /\ cred[c].weight \in Int /\ c \in Nat
  BY PoolAssumption DEF Row
<1>2. \A c, d \in Creds : <<c, d>> \in Order <=> Before(c, d)
  BY DEF Order
<1>3. \A c, d \in Creds : c # d => c < d \/ d < c
  BY <1>1
<1>4. /\ \A c \in Creds : ~Before(c, c)
      /\ \A c, d \in Creds : c # d => Before(c, d) \/ Before(d, c)
  BY <1>1, <1>3 DEF Before
<1>5. ASSUME NEW c \in Creds, NEW d \in Creds, NEW e \in Creds, Before(c, d), Before(d, e)
      PROVE  Before(c, e)
  BY <1>1, <1>5 DEF Before
<1> HIDE DEF Order
<1> QED
  BY <1>2, <1>4, <1>5 DEF StrictOrder

\* What the sort returns: the rows, each once, in routingOrder.
LEMMA SortedRows ==
  ASSUME cred \in [Creds -> Row], used \in [Creds -> Nat], NEW S \in SUBSET Creds
  PROVE  /\ Sorted(S) \in Seq(Creds) /\ Len(Sorted(S)) = Cardinality(S)
         /\ ToSet(Sorted(S)) = S
         /\ Ascending(Sorted(S), Len(Sorted(S)), Order)
<1> DEFINE n == Cardinality(S)
           Fits(q) == \A i, k \in DOMAIN q : i < k => Before(q[i], q[k])
<1>1. StrictOrder(Order, Creds) /\ IsFiniteSet(S)
  BY OrderIsTotal, PoolAssumption, FS_Subset
<1>2. n \in Nat /\ \E q \in [1..n -> S] : Ascending(q, n, Order)
  BY <1>1, CanSort
<1> HIDE DEF n
<1>3. \E q \in [1..n -> S] : Fits(q)
  <2>1. PICK q \in [1..n -> S] : Ascending(q, n, Order)
    BY <1>2
  <2>2. Fits(q)
    BY <2>1 DEF Ascending, Order
  <2> QED
    BY <2>2
<1>4. Sorted(S) = CHOOSE q \in [1..n -> S] : Fits(q)
  BY DEF Sorted, n
<1> HIDE DEF Fits
<1>5. Sorted(S) \in [1..n -> S] /\ Fits(Sorted(S))
  BY <1>3, <1>4
<1>6. Ascending(Sorted(S), n, Order)
  BY <1>5 DEF Fits, Ascending, Order
<1>7. Onto(Sorted(S), n, S)
  BY <1>1, <1>5, <1>6, SortIsOnto DEF n
<1>8. Sorted(S) \in Seq(Creds) /\ Len(Sorted(S)) = n /\ DOMAIN Sorted(S) = 1..n
  BY <1>2, <1>5
<1>9. ToSet(Sorted(S)) = S
  BY <1>5, <1>7, <1>8 DEF ToSet, Onto
<1> QED
  BY <1>6, <1>8, <1>9 DEF n
--------------------------------------------------------------------------------
(* The loops of discoverCandidates. *)

\* What the k-th turn of the two loops pushes.
Turn(rows, k) ==
  LET pass == (k - 1) \div Len(rows)
      row  == rows[((k - 1) % Len(rows)) + 1]
  IN  IF cred[row].weight > pass THEN <<row>> ELSE <<>>

\* maxWeight is at least one, whatever the weights.
LEMMA MaxWeight ==
  ASSUME cred \in [Creds -> Row], NEW rows \in Seq(Creds)
  PROVE  Max({1} \cup {cred[c].weight : c \in ToSet(rows)}) \in Nat \ {0}
<1> DEFINE S == ToSet(rows)
           W == {cred[c].weight : c \in S}
           f == [c \in S |-> cred[c].weight]
<1>1. S \in SUBSET Creds
  BY DEF ToSet
<1>2. IsFiniteSet(S)
  BY <1>1, FS_Subset, PoolAssumption
<1> HIDE DEF S
<1>3. W \in SUBSET Int
  BY <1>1, PoolAssumption DEF Row
<1>4. f \in Surjection(S, W)
  BY DEF Surjection
<1>5. IsFiniteSet(W)
  BY <1>2, <1>4, FS_Surjection
<1> HIDE DEF W, f
<1>6. IsFiniteSet({1} \cup W)
  <2>1. IsFiniteSet(W \cup {1}) /\ W \cup {1} = {1} \cup W
    BY <1>5, FS_AddElement
  <2> QED
    BY <2>1
<1>7. {1} \cup W \in SUBSET Int /\ {1} \cup W # {} /\ 1 \in {1} \cup W
  BY <1>3
<1>8. Max({1} \cup W) \in {1} \cup W /\ \A x \in {1} \cup W : x <= Max({1} \cup W)
  BY <1>6, <1>7, HasMax
<1>9. Max({1} \cup W) \in Int /\ 1 <= Max({1} \cup W)
  BY <1>7, <1>8
<1> QED
  BY <1>9 DEF W, S

\* The expansion as a course of turns, at least one pass of them.
LEMMA ExpandedIs ==
  ASSUME cred \in [Creds -> Row], NEW rows \in Seq(Creds)
  PROVE  \E N \in Nat : \E f :
           /\ N >= Len(rows)
           /\ Len(rows) = 0 => N = 0
           /\ f \in [0..N -> Seq(Creds)]
           /\ f[0] = <<>>
           /\ \A k \in 1..N : f[k] = f[k - 1] \o Turn(rows, k)
           /\ Expanded(rows) = f[N]
<1> DEFINE n == Len(rows)
           M == Max({1} \cup {cred[c].weight : c \in ToSet(rows)})
           N == M * n
<1>1. M \in Nat \ {0}
  BY MaxWeight
<1>2. n \in Nat /\ rows \in [1..n -> Creds]
  OBVIOUS
<1> HIDE DEF M, n
<1>3. N \in Nat /\ N >= n /\ (n = 0 => N = 0)
  <2>1. CASE n = 0
    BY <1>1, <2>1
  <2>2. CASE n # 0
    BY <1>1, <1>2, <2>2
  <2> QED
    BY <2>1, <2>2
<1> HIDE DEF N
<1> DEFINE A == Seq(Creds)
           step == [p \in (1..N) \X A |-> p[2] \o Turn(rows, p[1])]
<1>4. ASSUME NEW k \in 1..N
      PROVE  Turn(rows, k) \in A
  <2>1. n \in Nat \ {0} /\ k - 1 \in Nat
    BY <1>2, <1>3
  <2>2. (k - 1) % n \in 0..n - 1
    BY <2>1
  <2>3. ((k - 1) % n) + 1 \in 1..n
    BY <2>1, <2>2
  <2>4. rows[((k - 1) % n) + 1] \in Creds
    BY <1>2, <2>3
  <2> QED
    BY <2>4 DEF Turn, n
<1>5. step \in [(1..N) \X A -> A]
  <2> SUFFICES ASSUME NEW p \in (1..N) \X A PROVE p[2] \o Turn(rows, p[1]) \in A
    OBVIOUS
  <2>1. p[1] \in 1..N /\ p[2] \in A
    OBVIOUS
  <2>2. Turn(rows, p[1]) \in A
    BY <1>4, <2>1
  <2> QED
    BY <2>1, <2>2, ConcatProperties
<1>6. \A k \in 1..N, q \in A : step[<<k, q>>] = q \o Turn(rows, k)
  OBVIOUS
<1> DEFINE none == <<>>
<1>7. none \in A
  OBVIOUS
<1> HIDE DEF step, A, none
<1>8. PICK f \in [0..N -> A] : Unfolds(f, N, none, step)
  BY <1>3, <1>5, <1>7, Recursion
<1>9. \A k \in 1..N : f[k] = f[k - 1] \o Turn(rows, k)
  <2> SUFFICES ASSUME NEW k \in 1..N PROVE f[k] = f[k - 1] \o Turn(rows, k)
    OBVIOUS
  <2>1. k - 1 \in 0..N
    BY <1>3
  <2> QED
    BY <1>6, <1>8, <2>1 DEF Unfolds
<1> DEFINE Is(g) == g = [k \in 0..N |-> IF k = 0 THEN <<>> ELSE g[k - 1] \o Turn(rows, k)]
           ordered == CHOOSE g : Is(g)
<1>10. Is(f)
  BY <1>3, <1>8, <1>9, SMTT(30) DEF none, Unfolds
<1>11. Is(ordered)
  BY <1>10
<1>12. Expanded(rows) = ordered[N]
  BY DEF Expanded, Turn, N, M, n
<1> HIDE DEF ordered
<1>13. /\ ordered[0] = <<>>
       /\ \A k \in 1..N : ordered[k] = ordered[k - 1] \o Turn(rows, k)
  <2> DEFINE rhs == [k \in 0..N |-> IF k = 0 THEN <<>> ELSE ordered[k - 1] \o Turn(rows, k)]
  <2>1. ordered = rhs
    BY <1>11
  <2>2. rhs[0] = <<>> /\ \A k \in 1..N : rhs[k] = ordered[k - 1] \o Turn(rows, k)
    BY <1>3
  <2> HIDE DEF rhs, Is
  <2> QED
    BY <2>1, <2>2
<1>14. \A k \in 0..N : ordered[k] = f[k]
  <2> DEFINE T == {k \in Nat : k <= N => ordered[k] = f[k]}
  <2>1. 0 \in T
    BY <1>8, <1>13 DEF none, Unfolds
  <2>2. ASSUME NEW k \in Nat, k \in T PROVE k + 1 \in T
    <3> SUFFICES ASSUME k + 1 <= N PROVE ordered[k + 1] = f[k + 1]
      OBVIOUS
    <3>1. k + 1 \in 1..N /\ (k + 1) - 1 = k /\ ordered[k] = f[k]
      BY <1>3, <2>2
    <3> QED
      BY <1>9, <1>13, <3>1
  <2>3. \A k \in Nat : k \in T
    <3> HIDE DEF T
    <3> QED
      BY <2>1, <2>2, NatInd
  <2> QED
    BY <1>3, <2>3
<1>15. Expanded(rows) = f[N]
  BY <1>3, <1>12, <1>14
<1> QED
  BY <1>2, <1>3, <1>8, <1>9, <1>15 DEF A, n, none, Unfolds

\* One element pushed at the end of a sequence.
LEMMA Pushed ==
  ASSUME NEW C, NEW q \in Seq(C), NEW c \in C
  PROVE  /\ q \o <<c>> \in Seq(C) /\ Len(q \o <<c>>) = Len(q) + 1
         /\ \A i \in 1..Len(q) : (q \o <<c>>)[i] = q[i]
         /\ (q \o <<c>>)[Len(q) + 1] = c
         /\ ToSet(q \o <<c>>) = ToSet(q) \cup {c}
<1> DEFINE g == q \o <<c>>
<1>1. <<c>> \in Seq(C) /\ Len(<<c>>) = 1 /\ <<c>>[1] = c /\ Len(q) \in Nat
  OBVIOUS
<1>2. /\ g \in Seq(C) /\ Len(g) = Len(q) + 1
      /\ \A i \in 1..Len(q) + 1 : g[i] = IF i <= Len(q) THEN q[i] ELSE <<c>>[i - Len(q)]
  BY <1>1, ConcatProperties
<1>3. g[Len(q) + 1] = c /\ \A i \in 1..Len(q) : g[i] = q[i]
  BY <1>1, <1>2
<1> HIDE DEF g
<1>4. DOMAIN g = 1..Len(q) + 1 /\ DOMAIN q = 1..Len(q)
  BY <1>2
<1>5. ToSet(g) = ToSet(q) \cup {c}
  <2>1. ASSUME NEW d \in ToSet(g) PROVE d \in ToSet(q) \cup {c}
    <3>1. PICK i \in 1..Len(q) + 1 : d = g[i]
      BY <1>4 DEF ToSet
    <3>2. i \in 1..Len(q) \/ i = Len(q) + 1
      BY <1>1
    <3> QED
      BY <1>3, <1>4, <3>1, <3>2 DEF ToSet
  <2>2. ASSUME NEW d \in ToSet(q) PROVE d \in ToSet(g)
    <3>1. PICK i \in 1..Len(q) : d = q[i]
      BY <1>4 DEF ToSet
    <3>2. i \in 1..Len(q) + 1
      BY <1>1
    <3> QED
      BY <1>3, <1>4, <3>1, <3>2 DEF ToSet
  <2>3. c \in ToSet(g)
    BY <1>1, <1>3, <1>4 DEF ToSet
  <2> QED
    BY <2>1, <2>2, <2>3
<1> QED
  BY <1>2, <1>3, <1>5 DEF g

\* Division, as the two loops share a counter.
LEMMA DivMod ==
  ASSUME NEW n \in Nat \ {0}, NEW j \in Nat
  PROVE  /\ j % n \in 0..n - 1 /\ j \div n \in Nat
         /\ j < n => j % n = j /\ j \div n = 0
<1>1. j % n \in 0..n - 1
  OBVIOUS
<1>2. j \div n \in Nat
  OBVIOUS
<1>3. j < n => j % n = j /\ j \div n = 0
  OBVIOUS
<1> QED
  BY <1>1, <1>2, <1>3

\* The row of a turn and its pass.
LEMMA TurnIs ==
  ASSUME cred \in [Creds -> Row], NEW rows \in Seq(Creds), Len(rows) # 0, NEW k \in Nat \ {0}
  PROVE  \E i \in 1..Len(rows), p \in Nat :
           /\ rows[i] \in Creds /\ cred[rows[i]].weight \in Int
           /\ k <= Len(rows) => i = k /\ p = 0
           /\ Turn(rows, k) = IF cred[rows[i]].weight > p THEN <<rows[i]>> ELSE <<>>
<1>1. Len(rows) \in Nat \ {0} /\ rows \in [1..Len(rows) -> Creds] /\ k - 1 \in Nat
  OBVIOUS
<1> DEFINE j == k - 1
           n == Len(rows)
           r == j % n
           p == j \div n
<1>2. r \in 0..n - 1 /\ p \in Nat /\ (j < n => r = j /\ p = 0)
  BY <1>1, DivMod
<1>3. Turn(rows, k) = IF cred[rows[r + 1]].weight > p THEN <<rows[r + 1]>> ELSE <<>>
  BY DEF Turn
<1> HIDE DEF r, p, n
<1>4. r + 1 \in 1..n /\ (k <= n => r + 1 = k /\ p = 0)
  BY <1>1, <1>2 DEF n
<1>5. rows[r + 1] \in Creds
  BY <1>1, <1>4 DEF n
<1>6. cred[rows[r + 1]].weight \in Int
  BY <1>5, PoolAssumption DEF Row
<1> QED
  BY <1>2, <1>3, <1>4, <1>5, <1>6 DEF n

\* The first k rows that have a positive weight.
Heavy(rows, k) == {i \in 1..k : cred[rows[i]].weight > 0}

\* The rows of positive weight among the first k, in routingOrder.
FirstPass(q, rows, k) ==
  /\ q \in Seq(Creds) /\ Ascending(q, Len(q), Order)
  /\ ToSet(q) = {rows[i] : i \in Heavy(rows, k)}

\* A turn of the first pass takes its row, unless its weight is zero or less.
LEMMA FirstPassTurn ==
  ASSUME cred \in [Creds -> Row], NEW rows \in Seq(Creds), Ascending(rows, Len(rows), Order),
         NEW k \in 1..Len(rows), NEW q, FirstPass(q, rows, k - 1)
  PROVE  FirstPass(q \o Turn(rows, k), rows, k)
<1>0. Len(rows) \in Nat \ {0} /\ k \in Nat \ {0} /\ k <= Len(rows)
  OBVIOUS
<1>1. /\ rows[k] \in Creds /\ cred[rows[k]].weight \in Int
      /\ Turn(rows, k) = IF cred[rows[k]].weight > 0 THEN <<rows[k]>> ELSE <<>>
  BY <1>0, TurnIs
<1>2. q \in Seq(Creds) /\ Len(q) \in Nat /\ DOMAIN q = 1..Len(q) /\ Ascending(q, Len(q), Order)
        /\ ToSet(q) = {rows[i] : i \in Heavy(rows, k - 1)}
  BY DEF FirstPass
<1>3. 1..k = (1..k - 1) \cup {k}
  BY <1>0
<1>4. CASE cred[rows[k]].weight > 0
  <2> DEFINE g == q \o <<rows[k]>>
             m == Len(q)
  <2>1. /\ g \in Seq(Creds) /\ Len(g) = m + 1
        /\ \A i \in 1..m : g[i] = q[i]
        /\ g[m + 1] = rows[k]
        /\ ToSet(g) = ToSet(q) \cup {rows[k]}
    BY <1>1, <1>2, Pushed
  <2> HIDE DEF g, m
  <2>2. ASSUME NEW i \in 1..m PROVE <<q[i], rows[k]>> \in Order
    <3>1. q[i] \in ToSet(q)
      BY <1>2 DEF ToSet, m
    <3>2. PICK l \in Heavy(rows, k - 1) : q[i] = rows[l]
      BY <1>2, <3>1
    <3>3. l \in 1..Len(rows) /\ l < k
      BY <1>0 DEF Heavy
    <3> QED
      BY <3>2, <3>3 DEF Ascending
  <2>3. Ascending(g, Len(g), Order)
    <3> SUFFICES ASSUME NEW i \in 1..m + 1, NEW l \in 1..m + 1, i < l
                 PROVE  <<g[i], g[l]>> \in Order
      BY <2>1 DEF Ascending
    <3>0. m \in Nat
      BY <1>2 DEF m
    <3>1. CASE l = m + 1
      <4>1. i \in 1..m
        BY <3>0, <3>1
      <4> QED
        BY <2>1, <2>2, <3>1, <4>1
    <3>2. CASE l # m + 1
      <4>1. i \in 1..m /\ l \in 1..m
        BY <3>0, <3>2
      <4>2. <<q[i], q[l]>> \in Order
        BY <1>2, <4>1 DEF Ascending, m
      <4> QED
        BY <2>1, <4>1, <4>2
    <3> QED
      BY <3>1, <3>2
  <2>4. Heavy(rows, k) = Heavy(rows, k - 1) \cup {k}
    BY <1>3, <1>4 DEF Heavy
  <2>5. ToSet(g) = {rows[i] : i \in Heavy(rows, k)}
    BY <1>2, <2>1, <2>4
  <2> QED
    BY <1>1, <1>4, <2>1, <2>3, <2>5 DEF FirstPass, g
<1>5. CASE ~(cred[rows[k]].weight > 0)
  <2>1. q \o Turn(rows, k) = q
    BY <1>1, <1>2, <1>5, ConcatEmptySeq
  <2>2. Heavy(rows, k) = Heavy(rows, k - 1)
    BY <1>3, <1>5 DEF Heavy
  <2> QED
    BY <1>2, <2>1, <2>2 DEF FirstPass
<1> QED
  BY <1>4, <1>5

\* x starts with g and has no element that g does not have.
Repeats(x, g) ==
  /\ x \in Seq(Creds) /\ Len(g) <= Len(x)
  /\ \A i \in 1..Len(g) : x[i] = g[i]
  /\ \A i \in 1..Len(x) : x[i] \in ToSet(g)

\* A turn of a later pass pushes only what the first pass pushed.
LEMMA LaterTurn ==
  ASSUME cred \in [Creds -> Row], NEW rows \in Seq(Creds), Len(rows) # 0,
         NEW g, FirstPass(g, rows, Len(rows)), NEW k \in Nat \ {0}, NEW q, Repeats(q, g)
  PROVE  Repeats(q \o Turn(rows, k), g)
<1>1. PICK i \in 1..Len(rows), p \in Nat :
        /\ rows[i] \in Creds /\ cred[rows[i]].weight \in Int
        /\ Turn(rows, k) = IF cred[rows[i]].weight > p THEN <<rows[i]>> ELSE <<>>
  BY TurnIs
<1>2. q \in Seq(Creds) /\ Len(q) \in Nat /\ g \in Seq(Creds) /\ Len(g) \in Nat /\ Len(g) <= Len(q)
  BY DEF Repeats, FirstPass
<1>3. CASE cred[rows[i]].weight > p
  <2> DEFINE c == rows[i]
             h == q \o <<c>>
  <2>1. c \in ToSet(g) /\ c \in Creds
    BY <1>1, <1>3 DEF FirstPass, Heavy
  <2> HIDE DEF c
  <2>2. /\ h \in Seq(Creds) /\ Len(h) = Len(q) + 1
        /\ \A l \in 1..Len(q) : h[l] = q[l]
        /\ h[Len(q) + 1] = c
    BY <1>2, <2>1, Pushed
  <2> HIDE DEF h
  <2>3. \A l \in 1..Len(h) : h[l] \in ToSet(g)
    <3> SUFFICES ASSUME NEW l \in 1..Len(h) PROVE h[l] \in ToSet(g)
      OBVIOUS
    <3>1. l \in 1..Len(q) \/ l = Len(q) + 1
      BY <1>2, <2>2
    <3> QED
      BY <2>1, <2>2, <3>1 DEF Repeats
  <2>4. Len(g) <= Len(h) /\ \A l \in 1..Len(g) : h[l] = g[l]
    <3>1. \A l \in 1..Len(g) : l \in 1..Len(q)
      BY <1>2
    <3> QED
      BY <1>2, <2>2, <3>1 DEF Repeats
  <2>5. Repeats(h, g)
    BY <2>2, <2>3, <2>4 DEF Repeats
  <2> QED
    BY <1>1, <1>3, <2>5 DEF h, c
<1>4. CASE ~(cred[rows[i]].weight > p)
  <2>1. q \o Turn(rows, k) = q
    BY <1>1, <1>2, <1>4, ConcatEmptySeq
  <2> QED
    BY <2>1
<1> QED
  BY <1>3, <1>4

\* What the expansion comes to: the rows of positive weight in their order, then
\* nothing that is not among them.
LEMMA ExpandedRows ==
  ASSUME cred \in [Creds -> Row], NEW rows \in Seq(Creds), Ascending(rows, Len(rows), Order)
  PROVE  \E g : FirstPass(g, rows, Len(rows)) /\ Repeats(Expanded(rows), g)
<1>1. PICK N \in Nat : \E f :
           /\ N >= Len(rows)
           /\ Len(rows) = 0 => N = 0
           /\ f \in [0..N -> Seq(Creds)]
           /\ f[0] = <<>>
           /\ \A k \in 1..N : f[k] = f[k - 1] \o Turn(rows, k)
           /\ Expanded(rows) = f[N]
  BY ExpandedIs
<1>2. PICK f : /\ N >= Len(rows)
               /\ Len(rows) = 0 => N = 0
               /\ f \in [0..N -> Seq(Creds)]
               /\ f[0] = <<>>
               /\ \A k \in 1..N : f[k] = f[k - 1] \o Turn(rows, k)
               /\ Expanded(rows) = f[N]
  BY <1>1
<1> DEFINE n == Len(rows)
<1>3. n \in Nat /\ n <= N
  BY <1>2
<1> DEFINE T == {k \in Nat : k <= n => FirstPass(f[k], rows, k)}
<1>4. 0 \in T
  <2>1. FirstPass(<<>>, rows, 0)
    BY DEF FirstPass, Ascending, ToSet, Heavy
  <2> QED
    BY <1>2, <2>1
<1>5. ASSUME NEW j \in Nat, j \in T PROVE j + 1 \in T
  <2> SUFFICES ASSUME j + 1 <= n PROVE FirstPass(f[j + 1], rows, j + 1)
    OBVIOUS
  <2>1. j + 1 \in 1..n /\ j + 1 \in 1..N /\ (j + 1) - 1 = j /\ FirstPass(f[j], rows, (j + 1) - 1)
    BY <1>3, <1>5
  <2>2. f[j + 1] = f[j] \o Turn(rows, j + 1)
    BY <1>2, <2>1
  <2> QED
    BY <2>1, <2>2, FirstPassTurn
<1>6. FirstPass(f[n], rows, n)
  <2>1. \A k \in Nat : k \in T
    <3> HIDE DEF T
    <3> QED
      BY <1>4, <1>5, NatInd
  <2> QED
    BY <1>3, <2>1
<1> DEFINE U == {i \in Nat : n + i <= N => Repeats(f[n + i], f[n])}
<1>7. 0 \in U
  <2> DEFINE g == f[n]
  <2>1. g \in Seq(Creds) /\ DOMAIN g = 1..Len(g) /\ Len(g) \in Nat
    BY <1>6 DEF FirstPass
  <2> HIDE DEF g
  <2>2. Repeats(g, g)
    BY <2>1 DEF Repeats, ToSet
  <2>3. n + 0 = n
    BY <1>3
  <2> QED
    BY <2>2, <2>3 DEF g
<1>8. ASSUME NEW j \in Nat, j \in U PROVE j + 1 \in U
  <2> SUFFICES ASSUME n + (j + 1) <= N PROVE Repeats(f[n + (j + 1)], f[n])
    OBVIOUS
  <2> DEFINE k == n + (j + 1)
  <2>1. k \in 1..N /\ k \in Nat \ {0} /\ k - 1 = n + j /\ Repeats(f[k - 1], f[n]) /\ n # 0
    <3> HIDE DEF n
    <3>1. k \in 1..N /\ k \in Nat \ {0} /\ k - 1 = n + j /\ n + j <= N
      BY <1>3
    <3>2. Repeats(f[n + j], f[n])
      BY <1>8, <3>1
    <3>3. n # 0
      BY <1>2, <3>1 DEF n
    <3> QED
      BY <3>1, <3>2, <3>3
  <2>2. f[k] = f[k - 1] \o Turn(rows, k)
    BY <1>2, <2>1
  <2> HIDE DEF k
  <2>3. Repeats(f[k], f[n])
    BY <1>6, <2>1, <2>2, LaterTurn
  <2> QED
    BY <2>3 DEF k
<1>9. Repeats(f[N], f[n])
  <2>1. \A i \in Nat : i \in U
    <3> HIDE DEF U
    <3> QED
      BY <1>7, <1>8, NatInd
  <2> DEFINE i == N - n
  <2> HIDE DEF n
  <2>2. i \in Nat /\ n + i = N
    BY <1>3
  <2> HIDE DEF i
  <2>3. i \in U
    <3> HIDE DEF U
    <3> QED
      BY <2>1, <2>2
  <2>4. Repeats(f[n + i], f[n])
    BY <1>3, <2>2, <2>3
  <2> QED
    BY <2>2, <2>4
<1> QED
  BY <1>2, <1>6, <1>9

\* The first k elements of g.
Prefix(g, k) == [i \in 1..k |-> g[i]]

\* The seen set keeps the first place of every element.
LEMMA DedupedIs ==
  ASSUME NEW g \in Seq(Creds), \A i, k \in 1..Len(g) : g[i] = g[k] => i = k,
         NEW x, Repeats(x, g)
  PROVE  Deduped(x) = g
<1> DEFINE m == Len(g)
           n == Len(x)
           Take(seen, c) == IF c \in ToSet(seen) THEN seen ELSE Append(seen, c)
           Upto(k) == Prefix(g, IF k <= m THEN k ELSE m)
           Is(h) == h = [k \in 0..n |-> IF k = 0 THEN <<>> ELSE Take(h[k - 1], x[k])]
           candidates == CHOOSE h : Is(h)
<1>1. /\ m \in Nat /\ n \in Nat /\ m <= n /\ g \in [1..m -> Creds]
      /\ \A i \in 1..m : x[i] = g[i]
      /\ \A i \in 1..n : x[i] \in ToSet(g)
  BY DEF Repeats
<1>2. Deduped(x) = candidates[n]
  BY DEF Deduped
<1> HIDE DEF m, n
<1>3. Upto(0) = <<>> /\ Upto(n) = g
  <2>1. Prefix(g, m) = g /\ Prefix(g, 0) = <<>>
    BY <1>1 DEF Prefix
  <2> QED
    BY <1>1, <2>1
<1>4. ASSUME NEW k \in 1..n PROVE Upto(k) = Take(Upto(k - 1), x[k])
  <2>1. CASE k <= m
    <3> DEFINE p == Prefix(g, k - 1)
    <3>1. k \in 1..m /\ k - 1 \in Nat /\ k - 1 <= m /\ x[k] = g[k] /\ g[k] \in Creds
      BY <1>1, <2>1
    <3>2. p \in Seq(Creds) /\ Len(p) = k - 1 /\ DOMAIN p = 1..k - 1 /\ \A i \in 1..k - 1 : p[i] = g[i]
      BY <1>1, <3>1 DEF Prefix
    <3> HIDE DEF p
    <3>3. g[k] \notin ToSet(p)
      BY <1>1, <3>1, <3>2 DEF ToSet, m
    <3>4. Append(p, g[k]) = Prefix(g, k)
      BY <1>1, <3>1, <3>2 DEF Prefix
    <3> QED
      BY <2>1, <3>1, <3>3, <3>4 DEF p
  <2>2. CASE ~(k <= m)
    <3>1. Upto(k) = g /\ Upto(k - 1) = g
      <4>1. Prefix(g, m) = g
        BY <1>1 DEF Prefix
      <4>2. k - 1 >= m
        BY <1>1, <2>2
      <4> QED
        BY <1>1, <2>2, <4>1, <4>2
    <3> HIDE DEF Upto
    <3> QED
      BY <1>1, <3>1
  <2> QED
    BY <2>1, <2>2
<1> HIDE DEF Upto, Take
<1>5. Is([k \in 0..n |-> Upto(k)])
  <2> DEFINE h == [k \in 0..n |-> Upto(k)]
  <2>1. \A k \in 0..n : h[k] = IF k = 0 THEN <<>> ELSE Take(h[k - 1], x[k])
    <3> SUFFICES ASSUME NEW k \in 0..n PROVE h[k] = IF k = 0 THEN <<>> ELSE Take(h[k - 1], x[k])
      OBVIOUS
    <3>1. CASE k = 0
      BY <1>3, <3>1
    <3>2. CASE k # 0
      <4>1. k \in 1..n /\ k - 1 \in 0..n
        BY <1>1, <3>2
      <4> QED
        BY <1>4, <3>2, <4>1
    <3> QED
      BY <3>1, <3>2
  <2> QED
    BY <2>1
<1>6. Is(candidates)
  BY <1>5
<1> HIDE DEF candidates
<1>7. candidates[0] = <<>> /\ \A k \in 1..n : candidates[k] = Take(candidates[k - 1], x[k])
  <2> DEFINE rhs == [k \in 0..n |-> IF k = 0 THEN <<>> ELSE Take(candidates[k - 1], x[k])]
  <2>1. candidates = rhs
    BY <1>6
  <2>2. rhs[0] = <<>> /\ \A k \in 1..n : rhs[k] = Take(candidates[k - 1], x[k])
    BY <1>1
  <2> HIDE DEF rhs, Is
  <2> QED
    BY <2>1, <2>2
<1> DEFINE T == {k \in Nat : k <= n => candidates[k] = Upto(k)}
<1>8. 0 \in T
  BY <1>3, <1>7
<1>9. ASSUME NEW j \in Nat, j \in T PROVE j + 1 \in T
  <2> SUFFICES ASSUME j + 1 <= n PROVE candidates[j + 1] = Upto(j + 1)
    OBVIOUS
  <2>1. j + 1 \in 1..n /\ (j + 1) - 1 = j /\ candidates[j] = Upto(j)
    BY <1>1, <1>9
  <2> QED
    BY <1>4, <1>7, <2>1
<1>10. \A k \in Nat : k \in T
  <2> HIDE DEF T
  <2> QED
    BY <1>8, <1>9, NatInd
<1> QED
  BY <1>1, <1>2, <1>3, <1>10

\* The credentials a discovery may offer.
Routable == {c \in Creds : Eligible(Rolled(cred[c])) /\ cred[c].weight > 0}

\* What discoverCandidates returns, through the sort, the expansion and the seen set.
LEMMA CandidatesAre ==
  ASSUME cred \in [Creds -> Row], used \in [Creds -> Nat]
  PROVE  /\ Candidates \in Seq(Creds)
         /\ ToSet(Candidates) = Routable
         /\ Len(Candidates) = Cardinality(Routable)
         /\ Ascending(Candidates, Len(Candidates), Order)
<1> DEFINE S == {c \in Creds : Eligible(Rolled(cred[c]))}
           rows == Sorted(S)
<1>1. S \in SUBSET Creds
  OBVIOUS
<1>2. Candidates = Deduped(Expanded(rows))
  BY DEF Candidates
<1>3. \A c \in Creds : c \in S <=> Eligible(Rolled(cred[c]))
  OBVIOUS
<1> HIDE DEF S
<1>4. rows \in Seq(Creds) /\ ToSet(rows) = S /\ Ascending(rows, Len(rows), Order)
  BY <1>1, SortedRows
<1> HIDE DEF rows
<1>5. PICK g : FirstPass(g, rows, Len(rows)) /\ Repeats(Expanded(rows), g)
  BY <1>4, ExpandedRows
<1>6. g \in Seq(Creds) /\ Len(g) \in Nat /\ g \in [1..Len(g) -> Creds] /\ DOMAIN g = 1..Len(g)
        /\ Ascending(g, Len(g), Order)
  BY <1>5 DEF FirstPass
<1>7. StrictOrder(Order, Creds)
  BY OrderIsTotal
<1>8. ASSUME NEW i \in 1..Len(g), NEW k \in 1..Len(g), g[i] = g[k], i # k
      PROVE  FALSE
  <2>1. i < k \/ k < i
    BY <1>6, <1>8
  <2>2. <<g[i], g[k]>> \in Order \/ <<g[k], g[i]>> \in Order
    BY <1>6, <2>1 DEF Ascending
  <2>3. g[i] \in Creds
    BY <1>6
  <2> QED
    BY <1>7, <1>8, <2>2, <2>3 DEF StrictOrder
<1>9. Candidates = g
  <2>1. \A i, k \in 1..Len(g) : g[i] = g[k] => i = k
    BY <1>8
  <2> QED
    BY <1>2, <1>5, <1>6, <2>1, DedupedIs
<1>10. ToSet(g) = Routable
  <2>1. ToSet(g) = {rows[i] : i \in Heavy(rows, Len(rows))}
    BY <1>5 DEF FirstPass
  <2>2. S = {rows[i] : i \in 1..Len(rows)} /\ \A i \in 1..Len(rows) : rows[i] \in Creds
    BY <1>4 DEF ToSet
  <2>3. ASSUME NEW c \in Routable PROVE c \in ToSet(g)
    <3>1. c \in S /\ cred[c].weight > 0
      BY <1>3 DEF Routable
    <3>2. PICK i \in 1..Len(rows) : c = rows[i]
      BY <2>2, <3>1
    <3> QED
      BY <2>1, <3>1, <3>2 DEF Heavy
  <2>4. ASSUME NEW c \in ToSet(g) PROVE c \in Routable
    <3>1. PICK i \in 1..Len(rows) : c = rows[i] /\ cred[rows[i]].weight > 0
      BY <2>1 DEF Heavy
    <3>2. c \in S /\ c \in Creds
      BY <2>2, <3>1
    <3> QED
      BY <1>3, <3>1, <3>2 DEF Routable
  <2> QED
    BY <2>3, <2>4
<1>11. Len(g) = Cardinality(Routable)
  <2> DEFINE X == 1..Len(g)
  <2>1. IsFiniteSet(X) /\ Cardinality(X) = Len(g)
    <3>1. IsFiniteSet(X) /\ Cardinality(X) = IF 1 > Len(g) THEN 0 ELSE Len(g) - 1 + 1
      BY <1>6, FS_Interval
    <3> QED
      BY <1>6, <3>1
  <2>2. g \in Surjection(X, Routable) /\ g \in Injection(X, Routable)
    <3>1. Routable = {g[i] : i \in X}
      BY <1>6, <1>10 DEF ToSet
    <3>2. g \in [X -> Routable]
      BY <1>6, <3>1
    <3> QED
      BY <1>8, <3>1, <3>2 DEF Surjection, Injection, IsInjective
  <2> HIDE DEF X
  <2> QED
    BY <2>1, <2>2, FS_Surjection
<1> QED
  BY <1>6, <1>9, <1>10, <1>11

\* A write of last_used_at keeps the ranks.
LEMMA TouchRanks ==
  ASSUME NEW u \in [Creds -> 0..Cardinality(Creds)], NEW c \in Creds
  PROVE  Touch(u, c) \in [Creds -> 0..Cardinality(Creds)]
<1> DEFINE K == Cardinality(Creds)
           X == {e \in Creds : u[e] > 0} \cup {c}
<1>1. K \in Nat /\ Cardinality(X) \in Nat /\ Cardinality(X) <= K
  <2>1. X \in SUBSET Creds
    OBVIOUS
  <2> HIDE DEF X
  <2> QED
    BY <2>1, PoolAssumption, FS_Subset, FS_CardinalityType
<1>2. Touch(u, c) = [d \in Creds |-> IF d = c THEN Cardinality(X)
                                     ELSE IF u[c] > 0 /\ u[d] > u[c] THEN u[d] - 1 ELSE u[d]]
  BY DEF Touch
<1> HIDE DEF X, K
<1>3. \A d \in Creds : u[d] \in 0..K
  BY DEF K
<1>4. \A d \in Creds : u[c] > 0 /\ u[d] > u[c] => u[d] - 1 \in 0..K
  BY <1>1, <1>3
<1>5. Cardinality(X) \in 0..K
  BY <1>1
<1>6. Touch(u, c) \in [Creds -> 0..K]
  BY <1>2, <1>3, <1>4, <1>5
<1> QED
  BY <1>6 DEF K

\* The ranks after all the attempts of a request.
LEMMA TouchedRanks ==
  ASSUME used \in [Creds -> 0..Cardinality(Creds)], NEW s, tried[s] \in Seq(Creds)
  PROVE  Touched(s) \in [Creds -> 0..Cardinality(Creds)]
<1> DEFINE n == Len(tried[s])
           A == [Creds -> 0..Cardinality(Creds)]
           step == [p \in (1..n) \X A |-> Touch(p[2], tried[s][p[1]])]
           Is(h) == h = [k \in 0..n |-> IF k = 0 THEN used ELSE Touch(h[k - 1], tried[s][k])]
           after == CHOOSE h : Is(h)
<1>1. n \in Nat /\ \A k \in 1..n : tried[s][k] \in Creds
  OBVIOUS
<1>2. Touched(s) = after[n]
  BY DEF Touched
<1>3. \A u \in A, k \in 1..n : Touch(u, tried[s][k]) \in A
  BY <1>1, TouchRanks
<1>4. used \in A
  OBVIOUS
<1> HIDE DEF n, A
<1>5. step \in [(1..n) \X A -> A]
  BY <1>3
<1>6. \A k \in 1..n, u \in A : step[<<k, u>>] = Touch(u, tried[s][k])
  OBVIOUS
<1> HIDE DEF step
<1>7. PICK f \in [0..n -> A] : Unfolds(f, n, used, step)
  BY <1>1, <1>4, <1>5, Recursion
<1>8. Is(f)
  <2>1. \A k \in 1..n : f[k] = Touch(f[k - 1], tried[s][k])
    <3> SUFFICES ASSUME NEW k \in 1..n PROVE f[k] = Touch(f[k - 1], tried[s][k])
      OBVIOUS
    <3>1. k - 1 \in 0..n
      BY <1>1
    <3> QED
      BY <1>6, <1>7, <3>1 DEF Unfolds
  <2> QED
    BY <1>1, <1>7, <2>1 DEF Unfolds
<1>9. Is(after)
  BY <1>8
<1> HIDE DEF after
<1>10. after[0] = used /\ \A k \in 1..n : after[k] = Touch(after[k - 1], tried[s][k])
  <2> DEFINE rhs == [k \in 0..n |-> IF k = 0 THEN used ELSE Touch(after[k - 1], tried[s][k])]
  <2>1. after = rhs
    BY <1>9
  <2>2. rhs[0] = used /\ \A k \in 1..n : rhs[k] = Touch(after[k - 1], tried[s][k])
    BY <1>1
  <2> HIDE DEF rhs, Is
  <2> QED
    BY <2>1, <2>2
<1> DEFINE T == {k \in Nat : k <= n => after[k] \in A}
<1>11. 0 \in T
  BY <1>4, <1>10
<1>12. ASSUME NEW j \in Nat, j \in T PROVE j + 1 \in T
  <2> SUFFICES ASSUME j + 1 <= n PROVE after[j + 1] \in A
    OBVIOUS
  <2>1. j + 1 \in 1..n /\ (j + 1) - 1 = j /\ after[j] \in A
    BY <1>1, <1>12
  <2> QED
    BY <1>3, <1>10, <2>1
<1>13. \A k \in Nat : k \in T
  <2> HIDE DEF T
  <2> QED
    BY <1>11, <1>12, NatInd
<1>14. after[n] \in A
  BY <1>1, <1>13
<1> QED
  BY <1>2, <1>14 DEF A
--------------------------------------------------------------------------------
(* The slots. *)

\* An answer is on its slot from the dispatch to the settlement, and ends the list.
AnswerEndsList ==
  \A s \in Slots : /\ phase[s] # "answered" => final[s] = "none"
                   /\ phase[s] = "answered" => list[s] = <<>>

\* The ranks and the candidates, and where they are.
SlotsInv == TypeOK /\ AnswerEndsList

\* A fresh pool has no candidates, no attempts and no answers.
LEMMA SlotsInit == Init => SlotsInv
<1> SUFFICES ASSUME Init PROVE SlotsInv
  OBVIOUS
<1>1. LedgerInv
  BY LedgerInit
<1>2. Cardinality(Creds) \in Nat
  BY PoolAssumption, FS_CardinalityType
<1>3. used \in [Creds -> 0..Cardinality(Creds)]
  BY <1>2 DEF Init
<1>4. <<>> \in Seq(Creds)
  OBVIOUS
<1>5. list \in [Slots -> Seq(Creds)] /\ tried \in [Slots -> Seq(Creds)]
  BY <1>4 DEF Init
<1>6. /\ patches \in 0..MaxIncidents /\ crashes \in 0..MaxIncidents /\ faults \in 0..MaxIncidents
      /\ debt \in [Creds -> Int]
  BY BoundsAssumption DEF Init
<1>7. AnswerEndsList
  BY DEF Init, AnswerEndsList
<1> QED
  BY <1>1, <1>3, <1>5, <1>6, <1>7 DEF SlotsInv, TypeOK, LedgerInv, BooksType

\* The candidates, the attempts, the ranks and the answers keep their shape.
LEMMA SlotsStep == LedgerInv /\ SlotsInv /\ [Next]_vars => SlotsInv'
<1> SUFFICES ASSUME LedgerInv, SlotsInv, [Next]_vars PROVE SlotsInv'
  OBVIOUS
<1>0. LedgerInv'
  BY LedgerStep
<1>1. /\ used \in [Creds -> 0..Cardinality(Creds)] /\ used \in [Creds -> Nat]
      /\ cred \in [Creds -> Row]
      /\ list \in [Slots -> Seq(Creds)] /\ tried \in [Slots -> Seq(Creds)]
      /\ patches \in 0..MaxIncidents /\ crashes \in 0..MaxIncidents /\ faults \in 0..MaxIncidents
      /\ debt \in [Creds -> Int]
      /\ phase \in [Slots -> {"idle", "dispatching", "answered"}]
      /\ final \in [Slots -> Outcome \cup {"none"}]
      /\ AnswerEndsList
  BY DEF SlotsInv, TypeOK
<1> DEFINE Goal == /\ (used \in [Creds -> 0..Cardinality(Creds)])'
                   /\ (list \in [Slots -> Seq(Creds)])' /\ (tried \in [Slots -> Seq(Creds)])'
                   /\ (patches \in 0..MaxIncidents)' /\ (crashes \in 0..MaxIncidents)'
                   /\ (faults \in 0..MaxIncidents)' /\ (debt \in [Creds -> Int])'
                   /\ AnswerEndsList'
<1>2. ASSUME NEW s \in Slots, Discover(s)
      PROVE  Goal
  <2>1. Candidates \in Seq(Creds)
    BY <1>1, CandidatesAre
  <2>2. /\ phase[s] = "idle" /\ list' = [list EXCEPT ![s] = Candidates]
        /\ phase'[s] # "answered" /\ \A t \in Slots : t # s => phase'[t] = phase[t]
        /\ UNCHANGED <<used, tried, final, debt, patches, crashes, faults>>
    BY <1>1, <1>2 DEF Discover
  <2>3. AnswerEndsList'
    BY <1>1, <2>2 DEF AnswerEndsList
  <2> QED
    BY <1>1, <2>1, <2>2, <2>3
<1>3. ASSUME NEW s \in Slots, Refuse(s)
      PROVE  Goal
  BY <1>1, <1>3 DEF Refuse, AnswerEndsList
<1>4. ASSUME NEW s \in Slots, FailEarly(s)
      PROVE  Goal
  BY <1>1, <1>4 DEF FailEarly, AnswerEndsList
<1>5. ASSUME NEW s \in Slots, Call(s)
      PROVE  Goal
  BY <1>1, <1>5 DEF Call, AnswerEndsList
<1>6. ASSUME NEW s \in Slots, Exhaust(s) \/ Lose(s) \/ LoseAnswer(s)
      PROVE  Goal
  <2>1. CASE Exhaust(s)
    BY <1>1, <2>1 DEF Exhaust, AnswerEndsList
  <2>2. CASE Lose(s)
    BY <1>1, <2>2 DEF Lose, AnswerEndsList
  <2>3. CASE LoseAnswer(s)
    <3>1. /\ faults' = faults + 1 /\ faults < MaxIncidents
          /\ phase' = [phase EXCEPT ![s] = "idle"]
          /\ tried' = [tried EXCEPT ![s] = <<>>] /\ final' = [final EXCEPT ![s] = "none"]
          /\ UNCHANGED <<used, list, debt, patches, crashes>>
      BY <1>1, <2>3, BoundsAssumption DEF LoseAnswer
    <3>2. AnswerEndsList'
      BY <1>1, <3>1 DEF AnswerEndsList
    <3>3. faults' \in 0..MaxIncidents
      BY <1>1, <3>1, BoundsAssumption
    <3> QED
      BY <1>1, <3>1, <3>2, <3>3
  <2> QED
    BY <1>6, <2>1, <2>2, <2>3
<1>7. ASSUME NEW s \in Slots, Settle(s)
      PROVE  Goal
  <2>1. Touched(s) \in [Creds -> 0..Cardinality(Creds)]
    BY <1>1, TouchedRanks
  <2>2. /\ used' = Touched(s) /\ phase' = [phase EXCEPT ![s] = "idle"]
        /\ tried' = [tried EXCEPT ![s] = <<>>] /\ final' = [final EXCEPT ![s] = "none"]
        /\ UNCHANGED <<list, patches, crashes, faults>>
    BY <1>7 DEF Settle
  <2>3. AnswerEndsList'
    BY <1>1, <2>2 DEF AnswerEndsList
  <2>4. debt' \in [Creds -> Int]
    BY <1>1, <1>7 DEF Settle
  <2> QED
    BY <1>1, <2>1, <2>2, <2>3, <2>4
<1>12. ASSUME NEW s \in Slots, SettleUnbooked(s)
       PROVE  Goal
  <2>1. Touched(s) \in [Creds -> 0..Cardinality(Creds)]
    BY <1>1, TouchedRanks
  <2>2. /\ used' = Touched(s) /\ phase' = [phase EXCEPT ![s] = "idle"]
        /\ tried' = [tried EXCEPT ![s] = <<>>] /\ final' = [final EXCEPT ![s] = "none"]
        /\ UNCHANGED <<list, patches, crashes>>
        /\ faults' = faults + 1 /\ faults < MaxIncidents
    BY <1>1, <1>12, BoundsAssumption DEF SettleUnbooked, HalfSettled
  <2>3. AnswerEndsList'
    BY <1>1, <2>2 DEF AnswerEndsList
  <2>4. debt' \in [Creds -> Int]
    BY <1>1, <1>12 DEF SettleUnbooked
  <2>5. faults' \in 0..MaxIncidents
    BY <1>1, <2>2, BoundsAssumption
  <2> QED
    BY <1>1, <2>1, <2>2, <2>3, <2>4, <2>5
<1>8. ASSUME Crash PROVE Goal
  <2>1. used' \in [Creds -> 0..Cardinality(Creds)]
    <3>1. used' = used \/ \E s \in Slots : used' = Touched(s)
      BY <1>8 DEF Crash, HalfSettled
    <3> QED
      BY <1>1, <3>1, TouchedRanks
  <2>2. /\ crashes < MaxIncidents /\ crashes' = crashes + 1 /\ UNCHANGED <<patches, faults>>
        /\ debt' = [c \in Creds |-> 0]
        /\ phase' = [s \in Slots |-> "idle"]
        /\ list' = [s \in Slots |-> <<>>] /\ tried' = [s \in Slots |-> <<>>]
        /\ final' = [s \in Slots |-> "none"]
    BY <1>1, <1>8, BoundsAssumption DEF Crash
  <2>3. AnswerEndsList'
    BY <2>2 DEF AnswerEndsList
  <2>4. crashes' \in 0..MaxIncidents
    BY <1>1, <2>2, BoundsAssumption
  <2>5. list' \in [Slots -> Seq(Creds)] /\ tried' \in [Slots -> Seq(Creds)]
    <3>1. <<>> \in Seq(Creds)
      OBVIOUS
    <3> QED
      BY <2>2, <3>1
  <2> QED
    BY <1>1, <2>1, <2>2, <2>3, <2>4, <2>5
<1>9. ASSUME NEW c \in Creds, NEW st \in {"ACTIVE", "DISABLED", "KEEP"}, NEW w \in Weights,
             NEW n \in Limits, Patch(c, st, w, n)
      PROVE  Goal
  <2>1. /\ patches < MaxIncidents /\ patches' = patches + 1
        /\ UNCHANGED <<used, phase, list, tried, final, debt, crashes, faults>>
    BY <1>1, <1>9, BoundsAssumption DEF Patch
  <2>2. patches' \in 0..MaxIncidents
    BY <1>1, <2>1, BoundsAssumption
  <2> QED
    BY <1>1, <2>1, <2>2 DEF AnswerEndsList
<1>10. ASSUME UNCHANGED <<used, phase, list, tried, final, debt, patches, crashes, faults>> PROVE Goal
  <2>1. AnswerEndsList'
    BY <1>1, <1>10 DEF AnswerEndsList
  <2> QED
    BY <1>1, <1>10, <2>1
<1>11. Goal
  <2>1. ASSUME NEW c \in Creds, Delete(c) \/ CooldownEnds(c)
        PROVE  UNCHANGED <<used, phase, list, tried, final, debt, patches, crashes, faults>>
    BY <2>1 DEF Delete, CooldownEnds
  <2>2. Midnight \/ UNCHANGED vars => UNCHANGED <<used, phase, list, tried, final, debt, patches, crashes, faults>>
    BY DEF Midnight, vars
  <2> HIDE DEF Goal
  <2>3. CASE UNCHANGED vars \/ Midnight
    BY <1>10, <2>2, <2>3
  <2>4. CASE \E c \in Creds : Delete(c) \/ CooldownEnds(c)
    BY <1>10, <2>1, <2>4
  <2> QED
    BY <1>2, <1>3, <1>4, <1>5, <1>6, <1>7, <1>8, <1>9, <1>12, <2>3, <2>4 DEF Next
<1> QED
  BY <1>0, <1>11 DEF SlotsInv, TypeOK, LedgerInv, BooksType

\* The shape holds in every state.
LEMMA SlotsInductive == Spec => [](LedgerInv /\ SlotsInv)
<1>1. LedgerInv /\ SlotsInv /\ [Next]_vars => (LedgerInv /\ SlotsInv)'
  BY LedgerStep, SlotsStep
<1>2. Init => LedgerInv /\ SlotsInv
  BY LedgerInit, SlotsInit
<1> QED
  BY <1>1, <1>2, PTL DEF Spec

\* Every value has its type, the ranks of last use and the lists of candidates included.
THEOREM PoolTypes == Spec => []TypeOK
<1>1. SlotsInv => TypeOK
  BY DEF SlotsInv
<1> QED
  BY <1>1, SlotsInductive, PTL

\* What discoverCandidates returns in any state: the eligible credentials of positive
\* weight, each once, least recently used first, the heavier first among equally
\* recent ones and no oftener than that (routing.ts).
THEOREM RoutingIsByLastUse == Spec => []RoutingIsLeastRecentlyUsed
<1>1. LedgerInv /\ SlotsInv => RoutingIsLeastRecentlyUsed
  <2> SUFFICES ASSUME SlotsInv PROVE RoutingIsLeastRecentlyUsed
    OBVIOUS
  <2>1. cred \in [Creds -> Row] /\ used \in [Creds -> Nat]
    BY DEF SlotsInv, TypeOK
  <2>2. /\ Candidates \in Seq(Creds)
        /\ ToSet(Candidates) = Routable
        /\ Len(Candidates) = Cardinality(Routable)
        /\ Ascending(Candidates, Len(Candidates), Order)
    BY <2>1, CandidatesAre
  <2>3. ASSUME NEW i \in 1..Len(Candidates), NEW k \in 1..Len(Candidates), i < k
        PROVE  \/ used[Candidates[i]] < used[Candidates[k]]
               \/ /\ used[Candidates[i]] = used[Candidates[k]]
                  /\ cred[Candidates[i]].weight >= cred[Candidates[k]].weight
    <3>1. Candidates[i] \in Creds /\ Candidates[k] \in Creds
      BY <2>2
    <3>2. Before(Candidates[i], Candidates[k])
      BY <2>2, <2>3 DEF Ascending, Order
    <3>3. cred[Candidates[i]].weight \in Int /\ cred[Candidates[k]].weight \in Int
      BY <2>1, <3>1, PoolAssumption DEF Row
    <3> QED
      BY <2>1, <3>1, <3>2, <3>3 DEF Before
  <2> QED
    BY <2>2, <2>3 DEF RoutingIsLeastRecentlyUsed, Routable
<1> QED
  BY <1>1, SlotsInductive, PTL

\* A list tried further, or dropped, offers nothing new.
LEMMA ListShrinks ==
  ASSUME NEW q \in Seq(Creds)
  PROVE  /\ ToSet(<<>>) = {}
         /\ q # <<>> => ToSet(Tail(q)) \subseteq ToSet(q) /\ Head(q) \in ToSet(q) /\ Head(q) \in Creds
<1>1. ToSet(<<>>) = {}
  BY DEF ToSet
<1>2. ASSUME q # <<>>
      PROVE  ToSet(Tail(q)) \subseteq ToSet(q) /\ Head(q) \in ToSet(q) /\ Head(q) \in Creds
  <2>1. Len(q) \in Nat \ {0} /\ DOMAIN q = 1..Len(q) /\ q \in [1..Len(q) -> Creds]
    BY <1>2
  <2>2. Head(q) = q[1] /\ 1 \in 1..Len(q)
    BY <2>1
  <2>3. Tail(q) \in Seq(Creds) /\ Len(Tail(q)) = Len(q) - 1
          /\ \A i \in 1..Len(Tail(q)) : Tail(q)[i] = q[i + 1]
    BY <1>2, HeadTailProperties
  <2>4. DOMAIN Tail(q) = 1..Len(Tail(q)) /\ \A i \in 1..Len(Tail(q)) : i + 1 \in 1..Len(q)
    BY <2>1, <2>3
  <2> QED
    BY <2>1, <2>2, <2>3, <2>4 DEF ToSet
<1> QED
  BY <1>1, <1>2

\* What a step may do to the lists: a discovery fills one, with what is routable.
LEMMA ListStep ==
  ASSUME LedgerInv, SlotsInv, [Next]_vars, NEW s \in Slots
  PROVE  \/ phase[s] = "idle" /\ ToSet(list'[s]) = Routable
         \/ ToSet(list'[s]) \subseteq ToSet(list[s])
<1>1. /\ list \in [Slots -> Seq(Creds)] /\ cred \in [Creds -> Row] /\ used \in [Creds -> Nat]
      /\ list[s] \in Seq(Creds)
  BY DEF SlotsInv, TypeOK
<1>2. /\ ToSet(<<>>) = {}
      /\ list[s] # <<>> => ToSet(Tail(list[s])) \subseteq ToSet(list[s])
  BY <1>1, ListShrinks
<1>3. ASSUME NEW t \in Slots, Discover(t)
      PROVE  (phase[s] = "idle" /\ list'[s] = Candidates) \/ list'[s] = list[s]
  BY <1>1, <1>3 DEF Discover
<1>4. ASSUME NEW t \in Slots, \/ Refuse(t) \/ FailEarly(t) \/ Call(t) \/ Exhaust(t) \/ Lose(t)
                              \/ LoseAnswer(t) \/ Settle(t) \/ SettleUnbooked(t)
      PROVE  list'[s] \in {list[s], <<>>} \/ (list[s] # <<>> /\ list'[s] = Tail(list[s]))
  BY <1>1, <1>4 DEF Refuse, FailEarly, Call, Exhaust, Lose, LoseAnswer, Settle, SettleUnbooked
<1>5. ASSUME Crash PROVE list'[s] = <<>>
  BY <1>5 DEF Crash
<1>6. ASSUME NEW c \in Creds, NEW st \in {"ACTIVE", "DISABLED", "KEEP"}, NEW w \in Weights,
             NEW n \in Limits, Patch(c, st, w, n)
      PROVE  list' = list
  BY <1>6 DEF Patch
<1>7. ASSUME NEW c \in Creds, Delete(c) \/ CooldownEnds(c)
      PROVE  list' = list
  BY <1>7 DEF Delete, CooldownEnds
<1>8. Midnight \/ UNCHANGED vars => list' = list
  BY DEF Midnight, vars
<1>9. ToSet(Candidates) = Routable
  BY <1>1, CandidatesAre
<1>10. CASE \E t \in Slots : Discover(t)
  BY <1>3, <1>9, <1>10
<1>11. CASE \E t \in Slots : \/ Refuse(t) \/ FailEarly(t) \/ Call(t) \/ Exhaust(t) \/ Lose(t)
                            \/ LoseAnswer(t) \/ Settle(t) \/ SettleUnbooked(t)
  BY <1>2, <1>4, <1>11
<1>12. CASE list' = list
  BY <1>12
<1>13. CASE Crash
  BY <1>2, <1>5, <1>13
<1> QED
  BY <1>6, <1>7, <1>8, <1>10, <1>11, <1>12, <1>13 DEF Next

\* What is routable is active and below its limit.
LEMMA RoutableRow ==
  ASSUME cred \in [Creds -> Row], today \in 0..MaxDay, NEW c \in Routable
  PROVE  /\ c \in Creds /\ cred[c].status = "ACTIVE"
         /\ Rolled(cred[c]).requests_today < Rolled(cred[c]).limit
         /\ Rolled(cred[c]).limit \in Limits
<1>1. c \in Creds /\ cred[c] \in Row /\ Eligible(Rolled(cred[c]))
  BY DEF Routable
<1>2. Rolled(cred[c]) \in Row /\ Rolled(cred[c]).status = cred[c].status
  BY <1>1, RolledRow
<1> QED
  BY <1>1, <1>2 DEF Eligible, Row

\* "Revocation is terminal" (README): no handler, no settlement of a request that was in
\* flight, no crash and no PATCH moves a DELETED row, and no later discovery offers it.
THEOREM RevocationHolds == Spec => RevocationIsTerminal
<1> DEFINE P == \A c \in Creds : cred[c].status = "DELETED" => cred'[c].status = "DELETED"
           Q == \A c \in Creds : cred[c].status = "DELETED" =>
                  /\ cred'[c].status = "DELETED"
                  /\ \A s \in Slots : c \in ToSet(list'[s]) => c \in ToSet(list[s])
<1>1. LedgerInv /\ SlotsInv /\ [Next]_vars /\ [P]_vars => [Q]_vars
  <2> SUFFICES ASSUME LedgerInv, SlotsInv, [Next]_vars, [P]_vars, ~UNCHANGED vars,
                      NEW c \in Creds, cred[c].status = "DELETED"
               PROVE  /\ cred'[c].status = "DELETED"
                      /\ \A s \in Slots : c \in ToSet(list'[s]) => c \in ToSet(list[s])
    OBVIOUS
  <2>1. cred'[c].status = "DELETED"
    OBVIOUS
  <2>2. c \notin Routable
    BY RoutableRow DEF SlotsInv, TypeOK
  <2>3. ASSUME NEW s \in Slots, c \in ToSet(list'[s])
        PROVE  c \in ToSet(list[s])
    BY <2>2, <2>3, ListStep
  <2> QED
    BY <2>1, <2>3
<1>2. Spec => [][P]_vars
  BY RevokedRowsStay DEF RevokedStays
<1> QED
  BY <1>1, <1>2, SlotsInductive, PTL DEF Spec, RevocationIsTerminal
--------------------------------------------------------------------------------
(* The overshoot of the cap. *)

\* The largest limit is one of the limits and none is larger.
LEMMA MaxLimit == Max(Limits) \in Nat /\ \A n \in Limits : n <= Max(Limits)
<1>1. PICK n \in Limits : \A m \in Limits : m <= n
  BY PoolAssumption
<1>2. Max(Limits) \in Limits /\ \A m \in Limits : Max(Limits) >= m
  BY <1>1, PoolAssumption DEF Max
<1> QED
  BY <1>2, PoolAssumption

\* Requests in flight are counted in a natural number, at most the number of slots.
LEMMA FlyingCount ==
  ASSUME NEW S \in SUBSET Slots
  PROVE  IsFiniteSet(S) /\ Cardinality(S) \in Nat /\ Cardinality(S) <= Cardinality(Slots)
           /\ Cardinality(Slots) \in Nat /\ Cardinality(Slots) >= 1
<1>1. IsFiniteSet(S) /\ Cardinality(S) <= Cardinality(Slots)
  BY PoolAssumption, FS_Subset
<1>2. Cardinality(S) \in Nat /\ Cardinality(Slots) \in Nat /\ Cardinality(Slots) # 0
  BY <1>1, PoolAssumption, FS_CardinalityType, FS_EmptySet
<1> QED
  BY <1>1, <1>2

\* Fewer requests in flight and no more on the counter keep the bound.
LEMMA BoundKept ==
  ASSUME NEW B \in Int, NEW S \in SUBSET Slots, NEW T \in SUBSET S, NEW m \in Nat, NEW n \in Nat,
         n <= m, m + Cardinality(S) <= B
  PROVE  n + Cardinality(T) <= B
<1>1. IsFiniteSet(S) /\ Cardinality(S) \in Nat /\ Cardinality(T) \in Nat
  BY FlyingCount
<1>2. Cardinality(T) <= Cardinality(S)
  BY <1>1, FS_Subset
<1> QED
  BY <1>1, <1>2

\* A request that is booked is no longer in flight.
LEMMA BoundMoved ==
  ASSUME NEW B \in Int, NEW S \in SUBSET Slots, NEW s \in S, NEW T \in SUBSET (S \ {s}), NEW m \in Nat,
         m + Cardinality(S) <= B
  PROVE  m + 1 + Cardinality(T) <= B
<1>1. IsFiniteSet(S) /\ Cardinality(S) \in Nat /\ Cardinality(T) \in Nat
  BY FlyingCount
<1>2. IsFiniteSet(S \ {s}) /\ Cardinality(S \ {s}) = Cardinality(S) - 1
  BY <1>1, FS_RemoveElement
<1>3. Cardinality(T) <= Cardinality(S \ {s})
  BY <1>2, FS_Subset
<1> QED
  BY <1>1, <1>2, <1>3

\* The bound, as one number.
Bound == Max(Limits) + Cardinality(Slots) - 1

\* The overshoot bound holds of a row that a discovery finds below its limit.
LEMMA BoundMet ==
  ASSUME NEW r \in Nat, NEW l \in Limits, r < l, NEW S \in SUBSET Slots
  PROVE  r + Cardinality(S) <= Bound
<1>1. Max(Limits) \in Nat /\ l <= Max(Limits) /\ l \in Nat
  BY MaxLimit, PoolAssumption
<1>2. Cardinality(S) \in Nat /\ Cardinality(S) <= Cardinality(Slots) /\ Cardinality(Slots) \in Nat
  BY FlyingCount
<1> QED
  BY <1>1, <1>2 DEF Bound

\* A step of the enclave's loop or of its loss puts no request in flight.
LEMMA LoopFlying ==
  ASSUME LedgerInv, SlotsInv, NEW s \in Slots, NEW c \in Creds,
         Refuse(s) \/ FailEarly(s) \/ Call(s) \/ Exhaust(s) \/ Lose(s)
  PROVE  cred' = cred /\ Flying(c)' \subseteq Flying(c)
<1>1. /\ list \in [Slots -> Seq(Creds)] /\ tried \in [Slots -> Seq(Creds)]
      /\ final \in [Slots -> Outcome \cup {"none"}]
      /\ list[s] \in Seq(Creds) /\ tried[s] \in Seq(Creds)
      /\ phase[s] = "dispatching" /\ final[s] = "none"
  BY DEF SlotsInv, TypeOK, AnswerEndsList, Refuse, FailEarly, Call, Exhaust, Lose
<1>2. \A t \in Slots : t # s => list'[t] = list[t] /\ tried'[t] = tried[t] /\ final'[t] = final[t]
  BY <1>1 DEF Refuse, FailEarly, Call, Exhaust, Lose
<1>3. cred' = cred
  BY DEF Refuse, FailEarly, Call, Exhaust, Lose
<1>4. /\ ToSet(<<>>) = {}
      /\ list[s] # <<>> => /\ ToSet(Tail(list[s])) \subseteq ToSet(list[s])
                           /\ Head(list[s]) \in ToSet(list[s]) /\ Head(list[s]) \in Creds
  BY <1>1, ListShrinks
<1>5. ASSUME s \in Flying(c)' PROVE s \in Flying(c)
  <2>1. c \in ToSet(list'[s]) \/ (final'[s] # "none" /\ c = Last(tried'[s]))
    BY <1>5 DEF Flying, Dispatched
  <2>2. CASE Call(s)
    <3>1. list[s] # <<>> /\ list'[s] = <<>> /\ tried'[s] = Append(tried[s], Head(list[s]))
      BY <1>1, <2>2 DEF Call
    <3>2. Last(tried'[s]) = Head(list[s])
      BY <1>1, <1>4, <3>1 DEF Last
    <3> QED
      BY <1>4, <2>1, <3>1, <3>2 DEF Flying
  <2>3. CASE ~Call(s)
    <3>1. /\ final'[s] = "none"
          /\ \/ list'[s] \in {list[s], <<>>}
             \/ list[s] # <<>> /\ list'[s] = Tail(list[s])
      BY <1>1, <2>3 DEF Refuse, FailEarly, Exhaust, Lose
    <3>2. c \in ToSet(list[s])
      BY <1>4, <2>1, <3>1
    <3> QED
      BY <3>2 DEF Flying
  <2> QED
    BY <2>2, <2>3
<1>6. ASSUME NEW t \in Slots, t # s, t \in Flying(c)' PROVE t \in Flying(c)
  BY <1>2, <1>6 DEF Flying, Dispatched, Booked
<1>7. \A t \in Flying(c)' : t \in Slots
  BY DEF Flying
<1> QED
  BY <1>3, <1>5, <1>6, <1>7

\* Every statement keeps the overshoot within the requests in progress.
LEMMA OvershootStep == LedgerInv /\ SlotsInv /\ OvershootBounded /\ [Next]_vars => OvershootBounded'
<1> SUFFICES ASSUME LedgerInv, SlotsInv, OvershootBounded, [Next]_vars, NEW c \in Creds
             PROVE  cred'[c].requests_today + Cardinality(Flying(c)') <= Bound
  BY DEF OvershootBounded, Bound
<1> DEFINE m == cred[c].requests_today
           F == Flying(c)
<1>1. /\ m \in Nat /\ F \in SUBSET Slots /\ m + Cardinality(F) <= Bound /\ Bound \in Int
      /\ cred \in [Creds -> Row] /\ cred[c] \in Row /\ today \in 0..MaxDay
      /\ list \in [Slots -> Seq(Creds)] /\ tried \in [Slots -> Seq(Creds)]
      /\ final \in [Slots -> Outcome \cup {"none"}] /\ AnswerEndsList
  <2>1. Bound \in Int
    BY MaxLimit, FlyingCount DEF Bound
  <2>2. F \in SUBSET Slots
    BY DEF Flying
  <2>3. m + Cardinality(F) <= Bound
    BY DEF OvershootBounded, Bound
  <2>4. cred[c] \in Row /\ m \in Nat
    BY DEF SlotsInv, TypeOK, Row
  <2> QED
    BY <2>1, <2>2, <2>3, <2>4 DEF SlotsInv, TypeOK
<1>2. Flying(c)' \in SUBSET Slots
  BY DEF Flying
<1> DEFINE Kept == /\ cred'[c].requests_today \in Nat /\ cred'[c].requests_today <= m
                   /\ Flying(c)' \subseteq F
<1>3. ASSUME Kept
      PROVE  cred'[c].requests_today + Cardinality(Flying(c)') <= Bound
  <2> DEFINE n == cred'[c].requests_today
             T == Flying(c)'
  <2>1. T \in SUBSET F /\ n \in Nat /\ n <= m
    BY <1>3
  <2> HIDE DEF n, T, m, F
  <2>2. n + Cardinality(T) <= Bound
    BY <1>1, <2>1, BoundKept
  <2> QED
    BY <2>2 DEF n, T
<1> HIDE DEF F
<1>4. ASSUME UNCHANGED <<list, tried, final>>
      PROVE  Flying(c)' = F
  BY <1>4 DEF Flying, Dispatched, Booked, F
<1>5. ASSUME NEW s \in Slots, Discover(s)
      PROVE  cred'[c].requests_today + Cardinality(Flying(c)') <= Bound
  <2>1. cred'[c] = Rolled(cred[c]) /\ tried' = tried /\ final' = final
          /\ \A t \in Slots : t # s => list'[t] = list[t]
    BY <1>1, <1>5 DEF Discover
  <2>2. /\ Rolled(cred[c]) \in Row
        /\ Rolled(cred[c]).requests_today = IF cred[c].usage_day = today THEN m ELSE 0
    BY <1>1, RolledRow
  <2>3. cred'[c].requests_today \in Nat /\ cred'[c].requests_today <= m
    BY <1>1, <2>1, <2>2
  <2>4. CASE c \in Routable
    <3> DEFINE r == Rolled(cred[c]).requests_today
               l == Rolled(cred[c]).limit
    <3>1. r < l /\ l \in Limits /\ r \in Nat /\ cred'[c].requests_today = r
      BY <1>1, <2>1, <2>3, <2>4, RoutableRow
    <3> HIDE DEF r, l
    <3> DEFINE T == Flying(c)'
    <3>2. T \in SUBSET Slots
      BY <1>2
    <3> HIDE DEF T
    <3>3. r + Cardinality(T) <= Bound
      BY <3>1, <3>2, BoundMet
    <3> QED
      BY <3>1, <3>3 DEF T
  <2>5. CASE c \notin Routable
    <3>1. ASSUME NEW t \in Slots, t \in Flying(c)'
          PROVE  t \in F
      <4>1. c \in ToSet(list'[t]) => c \in ToSet(list[t])
        BY <2>5, ListStep
      <4> QED
        BY <2>1, <3>1, <4>1 DEF Flying, Dispatched, Booked, F
    <3>2. Flying(c)' \subseteq F
      BY <1>2, <3>1
    <3> QED
      BY <1>3, <2>3, <3>2
  <2> QED
    BY <2>4, <2>5
<1>6. ASSUME NEW s \in Slots, Refuse(s) \/ FailEarly(s) \/ Call(s) \/ Exhaust(s) \/ Lose(s)
      PROVE  Kept
  BY <1>1, <1>6, LoopFlying DEF F
<1>7. ASSUME NEW s \in Slots, Settle(s)
      PROVE  cred'[c].requests_today + Cardinality(Flying(c)') <= Bound
  <2>1. /\ phase[s] = "answered" /\ list[s] = <<>> /\ list' = list /\ final'[s] = "none"
        /\ \A t \in Slots : t # s => tried'[t] = tried[t] /\ final'[t] = final[t]
    BY <1>1, <1>7 DEF Settle, AnswerEndsList
  <2>2. ToSet(list'[s]) = {}
    BY <2>1 DEF ToSet
  <2>3. Flying(c)' \subseteq F \ {s}
    <3>1. s \notin Flying(c)'
      BY <2>1, <2>2 DEF Flying, Dispatched, Booked
    <3>2. ASSUME NEW t \in Slots, t # s, t \in Flying(c)' PROVE t \in F
      BY <2>1, <3>2 DEF Flying, Dispatched, Booked, F
    <3> QED
      BY <1>2, <3>1, <3>2
  <2>4. CASE c \in Dispatched(s) /\ Booked(s)
    <3>1. cred'[c].requests_today = m + 1
      BY <1>7, <2>4, SettledRow
    <3>2. s \in F
      BY <2>4 DEF Flying, F
    <3> DEFINE T == Flying(c)'
    <3>3. T \in SUBSET (F \ {s})
      BY <2>3
    <3> HIDE DEF T, m
    <3>4. m + 1 + Cardinality(T) <= Bound
      BY <1>1, <3>2, <3>3, BoundMoved
    <3> QED
      BY <3>1, <3>4 DEF T
  <2>5. CASE ~(c \in Dispatched(s) /\ Booked(s))
    <3>1. cred'[c].requests_today = m
      BY <1>7, <2>5, SettledRow
    <3> QED
      BY <1>1, <1>3, <2>3, <3>1
  <2> QED
    BY <2>4, <2>5
<1>13. ASSUME NEW s \in Slots, LoseAnswer(s) \/ SettleUnbooked(s)
       PROVE  Kept
  <2>1. /\ list' = list /\ final'[s] = "none" /\ list[s] = <<>>
        /\ \A t \in Slots : t # s => tried'[t] = tried[t] /\ final'[t] = final[t]
    BY <1>1, <1>13 DEF LoseAnswer, SettleUnbooked, HalfSettled, AnswerEndsList
  <2>2. ToSet(list'[s]) = {}
    BY <2>1 DEF ToSet
  <2>3. s \notin Flying(c)'
    BY <2>1, <2>2 DEF Flying, Dispatched, Booked
  <2>4. ASSUME NEW t \in Slots, t # s, t \in Flying(c)' PROVE t \in F
    BY <2>1, <2>4 DEF Flying, Dispatched, Booked, F
  <2>5. Flying(c)' \subseteq F
    BY <1>2, <2>3, <2>4
  <2>6. cred'[c].requests_today = m
    <3>1. CASE LoseAnswer(s)
      BY <3>1 DEF LoseAnswer
    <3>2. CASE SettleUnbooked(s)
      <4>1. PICK b \in {0, 1} : HalfSettled(s, b)
        BY <3>2 DEF SettleUnbooked
      <4> QED
        BY <4>1, HalfSettledRow
    <3> QED
      BY <1>13, <3>1, <3>2
  <2> QED
    BY <1>1, <2>5, <2>6
<1>8. ASSUME Crash PROVE Kept
  <2>1. Flying(c)' = {}
    <3>1. \A t \in Slots : list'[t] = <<>> /\ final'[t] = "none"
      BY <1>8 DEF Crash
    <3>2. ToSet(<<>>) = {}
      BY DEF ToSet
    <3> QED
      BY <3>1, <3>2 DEF Flying, Dispatched
  <2>2. cred'[c] = cred[c] \/ \E s \in Slots : cred'[c] = AfterOutcome(cred[c], final[s])
    BY <1>8 DEF Crash, HalfSettled
  <2>3. cred'[c].requests_today = m
    BY <1>1, <2>2, OutcomeRow
  <2> QED
    BY <1>1, <2>1, <2>3
<1>9. ASSUME NEW d \in Creds, NEW st \in {"ACTIVE", "DISABLED", "KEEP"}, NEW w \in Weights,
             NEW n \in Limits, Patch(d, st, w, n)
      PROVE  Kept
  <2> DEFINE status == IF st = "KEEP" THEN cred[d].status ELSE st
             cooling == cred[d].cooling /\ st = "KEEP"
  <2>1. /\ cred' = [cred EXCEPT ![d].status = status, ![d].cooling = cooling,
                                ![d].weight = w, ![d].limit = n]
        /\ UNCHANGED <<list, tried, final>>
    BY <1>9 DEF Patch
  <2> HIDE DEF status, cooling
  <2>2. cred'[c].requests_today = m
    BY <1>1, <2>1 DEF Row
  <2> QED
    BY <1>1, <1>4, <2>1, <2>2
<1>10. ASSUME NEW d \in Creds, Delete(d) \/ CooldownEnds(d)
       PROVE  Kept
  <2>1. UNCHANGED <<list, tried, final>>
    BY <1>10 DEF Delete, CooldownEnds
  <2>2. cred'[c].requests_today = m
    <3>1. CASE Delete(d)
      BY <1>1, <3>1 DEF Delete, Row
    <3>2. CASE CooldownEnds(d)
      BY <1>1, <3>2 DEF CooldownEnds, Row
    <3> QED
      BY <1>10, <3>1, <3>2
  <2> QED
    BY <1>1, <1>4, <2>1, <2>2
<1>11. ASSUME Midnight \/ UNCHANGED vars PROVE Kept
  <2>1. UNCHANGED <<cred, list, tried, final>>
    BY <1>11 DEF Midnight, vars
  <2> QED
    BY <1>1, <1>4, <2>1
<1> HIDE DEF Kept, m
<1>12. CASE Kept
  BY <1>3, <1>12
<1> QED
  BY <1>5, <1>6, <1>7, <1>8, <1>9, <1>10, <1>11, <1>12, <1>13 DEF Next

\* A fresh pool has nothing in flight and nothing counted.
LEMMA OvershootInit == Init => OvershootBounded
<1> SUFFICES ASSUME Init, NEW c \in Creds
             PROVE  cred[c].requests_today + Cardinality(Flying(c)) <= Bound
  BY DEF OvershootBounded, Bound
<1>1. cred[c].requests_today = 0
  BY DEF Init
<1>2. Flying(c) = {}
  <2>1. ToSet(<<>>) = {}
    BY DEF ToSet
  <2> QED
    BY <2>1 DEF Init, Flying, Dispatched
<1>3. Cardinality({}) = 0 /\ Cardinality(Slots) \in Nat /\ Cardinality(Slots) >= 1
  BY FS_EmptySet, FlyingCount
<1> QED
  BY <1>1, <1>2, <1>3, MaxLimit DEF Bound

\* The cap is tested against a snapshot, so requests in flight can overshoot it, by one less
\* than their number and never by more (discoverCandidates, recordUsage).
THEOREM CapOvershootIsBounded == Spec => []OvershootBounded
<1>1. LedgerInv /\ SlotsInv /\ OvershootBounded /\ [Next]_vars => OvershootBounded'
  BY OvershootStep
<1> QED
  BY <1>1, OvershootInit, SlotsInductive, PTL DEF Spec
--------------------------------------------------------------------------------
(* The ledger against the calls. *)

\* What one call settled, or one call made, does to the number of unsettled ones.
LEMMA UnsettledCount ==
  ASSUME NEW S \in SUBSET Slots, NEW s \in Slots
  PROVE  /\ Cardinality(S) \in Nat
         /\ s \in S => Cardinality(S \ {s}) = Cardinality(S) - 1
         /\ s \notin S => Cardinality(S \ {s}) = Cardinality(S)
         /\ s \notin S => Cardinality(S \cup {s}) = Cardinality(S) + 1
<1>1. IsFiniteSet(S) /\ Cardinality(S) \in Nat
  BY FlyingCount
<1>2. s \notin S => S \ {s} = S
  OBVIOUS
<1> QED
  BY <1>1, <1>2, FS_RemoveElement, FS_AddElement

\* The end of a slot's request takes its call from the unsettled ones, and no other.
LEMMA UnsettledEnds ==
  ASSUME SlotsInv, NEW s \in Slots, NEW c \in Creds,
         LoseAnswer(s) \/ Settle(s) \/ SettleUnbooked(s)
  PROVE  Unsettled(c)' = Unsettled(c) \ {s}
<1>1. /\ tried \in [Slots -> Seq(Creds)] /\ final \in [Slots -> Outcome \cup {"none"}]
      /\ tried' = [tried EXCEPT ![s] = <<>>] /\ final' = [final EXCEPT ![s] = "none"]
  BY DEF SlotsInv, TypeOK, LoseAnswer, Settle, SettleUnbooked
<1>2. s \notin Unsettled(c)'
  BY <1>1 DEF Unsettled, Costly
<1>3. ASSUME NEW t \in Slots, t # s
      PROVE  t \in Unsettled(c)' <=> t \in Unsettled(c)
  BY <1>1, <1>3 DEF Unsettled, Dispatched
<1> QED
  BY <1>2, <1>3 DEF Unsettled

\* A slot whose call is unsettled for c has dispatched c, and the reverse.
LEMMA UnsettledIs ==
  ASSUME NEW s \in Slots, NEW c \in Creds
  PROVE  s \in Unsettled(c) <=> c \in Dispatched(s) /\ Booked(s)
BY DEF Unsettled, Booked

\* Every statement keeps the ledger and the calls together.
LEMMA BookedOnceStep ==
  LedgerInv /\ SlotsInv /\ EveryCallIsBookedOnce /\ [Next]_vars => EveryCallIsBookedOnce'
<1> SUFFICES ASSUME LedgerInv, SlotsInv, EveryCallIsBookedOnce, [Next]_vars, NEW c \in Creds
             PROVE  /\ Cardinality(Unsettled(c)') <= debt'[c]
                    /\ debt'[c] <= Cardinality(Unsettled(c)') + faults'
  BY DEF EveryCallIsBookedOnce
<1> DEFINE U == Unsettled(c)
           V == Unsettled(c)'
<1>1. /\ tried \in [Slots -> Seq(Creds)] /\ final \in [Slots -> Outcome \cup {"none"}]
      /\ list \in [Slots -> Seq(Creds)]
      /\ debt \in [Creds -> Int] /\ debt[c] \in Int /\ faults \in Nat /\ AnswerEndsList
      /\ phase \in [Slots -> {"idle", "dispatching", "answered"}]
  BY DEF SlotsInv, TypeOK, LedgerInv, BooksType
<1>2. U \in SUBSET Slots /\ V \in SUBSET Slots
  BY DEF Unsettled
<1>3. Cardinality(U) <= debt[c] /\ debt[c] <= Cardinality(U) + faults
  BY DEF EveryCallIsBookedOnce
<1> HIDE DEF U, V
<1>4. Cardinality(U) \in Nat
  BY <1>2, FlyingCount
<1>5. \A s \in Slots :
        /\ s \in U /\ V = U \ {s} => Cardinality(V) = Cardinality(U) - 1
        /\ s \notin U /\ V = U \ {s} => Cardinality(V) = Cardinality(U)
        /\ s \notin U /\ V = U \cup {s} => Cardinality(V) = Cardinality(U) + 1
  BY <1>2, UnsettledCount
<1>6. \A s \in Slots : s \in U <=> c \in Dispatched(s) /\ Booked(s)
  BY UnsettledIs DEF U
<1>7. \A s \in Slots : LoseAnswer(s) \/ Settle(s) \/ SettleUnbooked(s) => V = U \ {s}
  BY UnsettledEnds DEF U, V
<1> DEFINE Goal == Cardinality(V) <= debt'[c] /\ debt'[c] <= Cardinality(V) + faults'
<1>8. ASSUME V = U, debt' = debt, faults' = faults
      PROVE  Goal
  BY <1>3, <1>8
<1>9. ASSUME NEW s \in Slots, Discover(s) \/ Refuse(s) \/ FailEarly(s) \/ Exhaust(s) \/ Lose(s)
      PROVE  V = U /\ debt' = debt /\ faults' = faults
  <2>1. /\ final' = final /\ debt' = debt /\ faults' = faults /\ phase[s] # "answered"
        /\ \A t \in Slots : t # s => tried'[t] = tried[t]
    BY <1>1, <1>9 DEF Discover, Refuse, FailEarly, Exhaust, Lose
  <2>2. final[s] = "none" /\ final'[s] = "none"
    BY <1>1, <2>1 DEF AnswerEndsList
  <2>3. ASSUME NEW t \in Slots PROVE t \in V <=> t \in U
    BY <2>1, <2>2 DEF Unsettled, Dispatched, Costly, U, V
  <2> QED
    BY <1>2, <2>1, <2>3
<1>10. ASSUME NEW s \in Slots, Call(s)
       PROVE  Goal
  <2>1. PICK o \in Outcome :
          /\ final' = [final EXCEPT ![s] = o]
          /\ debt' = [debt EXCEPT ![Head(list[s])] = IF o \in Costly THEN @ + 1 ELSE @]
    BY <1>10 DEF Call
  <2>2. /\ phase[s] = "dispatching" /\ list[s] # <<>> /\ faults' = faults
        /\ tried' = [tried EXCEPT ![s] = Append(@, Head(list[s]))]
    BY <1>10 DEF Call
  <2>3. final[s] = "none"
    BY <1>1, <2>2 DEF AnswerEndsList
  <2>4. Head(list[s]) \in Creds /\ Last(tried'[s]) = Head(list[s])
    <3>1. list[s] \in Seq(Creds) /\ tried[s] \in Seq(Creds)
      BY <1>1
    <3>2. Head(list[s]) \in Creds
      BY <2>2, <3>1
    <3>3. tried'[s] = Append(tried[s], Head(list[s]))
      BY <1>1, <2>2
    <3> QED
      BY <3>1, <3>2, <3>3 DEF Last
  <2>5. s \notin U
    BY <2>3 DEF Unsettled, Costly, U
  <2>6. ASSUME NEW t \in Slots, t # s PROVE t \in V <=> t \in U
    BY <1>1, <2>1, <2>2, <2>6 DEF Unsettled, Dispatched, U, V
  <2>7. s \in V <=> o \in Costly /\ c = Head(list[s])
    <3>1. final'[s] = o /\ o # "none"
      BY <1>1, <2>1 DEF Outcome
    <3> QED
      BY <2>4, <3>1 DEF Unsettled, Dispatched, V
  <2>8. CASE o \in Costly /\ c = Head(list[s])
    <3>1. V = U \cup {s}
      BY <1>2, <2>6, <2>7, <2>8
    <3>2. debt'[c] = debt[c] + 1
      BY <1>1, <2>1, <2>8
    <3>3. Cardinality(V) = Cardinality(U) + 1
      BY <1>5, <2>5, <3>1
    <3> QED
      BY <1>1, <1>3, <1>4, <2>2, <3>2, <3>3
  <2>9. CASE ~(o \in Costly /\ c = Head(list[s]))
    <3>1. V = U
      BY <1>2, <2>5, <2>6, <2>7, <2>9
    <3>2. debt'[c] = debt[c]
      BY <1>1, <2>1, <2>4, <2>9
    <3> QED
      BY <1>3, <2>2, <3>1, <3>2
  <2> QED
    BY <2>8, <2>9
<1>11. ASSUME NEW s \in Slots, LoseAnswer(s)
       PROVE  Goal
  <2>1. V = U \ {s} /\ debt' = debt /\ faults' = faults + 1
    BY <1>7, <1>11 DEF LoseAnswer
  <2>2. Cardinality(V) \in {Cardinality(U), Cardinality(U) - 1}
    BY <1>5, <2>1
  <2> QED
    BY <1>1, <1>3, <1>4, <2>1, <2>2
<1>12. ASSUME NEW s \in Slots, Settle(s)
       PROVE  Goal
  <2>1. V = U \ {s} /\ faults' = faults
          /\ debt'[c] = IF c \in Dispatched(s) /\ Booked(s) THEN debt[c] - 1 ELSE debt[c]
    BY <1>7, <1>12 DEF Settle
  <2>2. CASE s \in U
    <3>1. Cardinality(V) = Cardinality(U) - 1 /\ debt'[c] = debt[c] - 1
      BY <1>5, <1>6, <2>1, <2>2
    <3> QED
      BY <1>1, <1>3, <1>4, <2>1, <3>1
  <2>3. CASE s \notin U
    <3>1. Cardinality(V) = Cardinality(U) /\ debt'[c] = debt[c]
      BY <1>5, <1>6, <2>1, <2>3
    <3> QED
      BY <1>1, <1>3, <1>4, <2>1, <3>1
  <2> QED
    BY <2>2, <2>3
<1>13. ASSUME NEW s \in Slots, SettleUnbooked(s)
       PROVE  Goal
  <2>1. V = U \ {s} /\ faults' = faults + 1 /\ Booked(s)
    BY <1>7, <1>13 DEF SettleUnbooked
  <2>2. PICK b \in {0, 1} : debt'[c] = IF c \in Dispatched(s) THEN debt[c] - b ELSE debt[c]
    BY <1>13 DEF SettleUnbooked
  <2>3. CASE s \in U
    <3>1. Cardinality(V) = Cardinality(U) - 1 /\ debt'[c] = debt[c] - b
      BY <1>5, <1>6, <2>1, <2>2, <2>3
    <3> QED
      BY <1>1, <1>3, <1>4, <2>1, <2>2, <3>1
  <2>4. CASE s \notin U
    <3>1. Cardinality(V) = Cardinality(U) /\ debt'[c] = debt[c]
      BY <1>5, <1>6, <2>1, <2>2, <2>4
    <3> QED
      BY <1>1, <1>3, <1>4, <2>1, <3>1
  <2> QED
    BY <2>3, <2>4
<1>14. ASSUME Crash PROVE Goal
  <2>1. debt'[c] = 0 /\ faults' = faults /\ \A s \in Slots : final'[s] = "none"
    BY <1>14 DEF Crash
  <2>2. V = {}
    BY <2>1 DEF Unsettled, Costly, V
  <2>3. Cardinality({}) = 0
    BY FS_EmptySet
  <2>4. Cardinality(V) = 0
    BY <2>2, <2>3
  <2> QED
    BY <1>1, <2>1, <2>4
<1>15. ASSUME UNCHANGED <<tried, final, debt, faults>>
       PROVE  V = U /\ debt' = debt /\ faults' = faults
  BY <1>15 DEF Unsettled, Dispatched, U, V
<1>16. ASSUME NEW d \in Creds, NEW st \in {"ACTIVE", "DISABLED", "KEEP"}, NEW w \in Weights,
              NEW n \in Limits, Patch(d, st, w, n)
       PROVE  UNCHANGED <<tried, final, debt, faults>>
  BY <1>16 DEF Patch
<1>17. ASSUME NEW d \in Creds, Delete(d) \/ CooldownEnds(d)
       PROVE  UNCHANGED <<tried, final, debt, faults>>
  BY <1>17 DEF Delete, CooldownEnds
<1>18. Midnight \/ UNCHANGED vars => UNCHANGED <<tried, final, debt, faults>>
  BY DEF Midnight, vars
<1> HIDE DEF Goal
<1>19. Goal
  <2>1. CASE UNCHANGED <<tried, final, debt, faults>>
    BY <1>8, <1>15, <2>1
  <2>2. CASE \E s \in Slots : Discover(s) \/ Refuse(s) \/ FailEarly(s) \/ Exhaust(s) \/ Lose(s)
    BY <1>8, <1>9, <2>2
  <2>3. CASE \E d \in Creds : Delete(d) \/ CooldownEnds(d)
    BY <1>8, <1>15, <1>17, <2>3
  <2>4. CASE \E d \in Creds, st \in {"ACTIVE", "DISABLED", "KEEP"}, w \in Weights, n \in Limits :
               Patch(d, st, w, n)
    BY <1>8, <1>15, <1>16, <2>4
  <2>5. CASE Midnight \/ UNCHANGED vars
    BY <1>8, <1>15, <1>18, <2>5
  <2>6. CASE \E s \in Slots : Call(s) \/ LoseAnswer(s) \/ Settle(s) \/ SettleUnbooked(s)
    BY <1>10, <1>11, <1>12, <1>13, <2>6
  <2> QED
    BY <1>14, <2>2, <2>3, <2>4, <2>5, <2>6 DEF Next
<1> QED
  BY <1>19 DEF Goal, U, V

\* Every call that may have cost money has one usage row in the end and never two; what
\* has none is in flight, or is one of the faults (recordUsage, recordAssumedUsage, and
\* the try around the latter).
THEOREM CallsAreBookedOnce == Spec => []EveryCallIsBookedOnce
<1>1. Init => EveryCallIsBookedOnce
  <2> SUFFICES ASSUME Init, NEW c \in Creds
               PROVE  /\ Cardinality(Unsettled(c)) <= debt[c]
                      /\ debt[c] <= Cardinality(Unsettled(c)) + faults
    BY DEF EveryCallIsBookedOnce
  <2>1. debt[c] = 0 /\ faults = 0
    BY DEF Init
  <2>2. Unsettled(c) = {}
    BY DEF Init, Unsettled, Costly
  <2>3. Cardinality({}) = 0
    BY FS_EmptySet
  <2> QED
    BY <2>1, <2>2, <2>3
<1>2. LedgerInv /\ SlotsInv /\ EveryCallIsBookedOnce /\ [Next]_vars => EveryCallIsBookedOnce'
  BY BookedOnceStep
<1> QED
  BY <1>1, <1>2, SlotsInductive, PTL DEF Spec
================================================================================
