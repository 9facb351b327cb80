--------------------------- MODULE GraphFeedProofs ---------------------------
(***************************************************************************)
(* Proofs about GraphFeed for every set of requests and every number of    *)
(* crashes and of projections that throw: types, that the graph follows    *)
(* the outbox, that what a browser was told is what it shows, and that the *)
(* graph agrees with the rows.                                             *)
(***************************************************************************)
EXTENDS GraphFeed, SequenceTheorems, WellFoundedInduction, TLAPS

\* What the graph shows of an element is the work of an event about it.
ShownIsEvent ==
    \A x \in Element : graph[x] # Absent =>
      graph[x].at \in 1 .. Len(outbox) /\ Touches(graph[x].at, x)
        /\ graph[x].status = Gives(graph[x].at, x)

\* Every event that is marked and did not throw is in the graph, or a later one is.
MarkedIsShown ==
    \A x \in Element, n \in (1 .. marked) \ faulted : Touches(n, x) =>
      graph[x] # Absent /\ (x[2] \in Node => n <= graph[x].at)

\* The event that is being projected has left the writes it has made.
HalfDone ==
    Draining => \A k \in 1 .. done :
      LET x == <<Current.req, Writes[k][1]>>
      IN  graph[x] # Absent /\ (x[2] \in Node => graph[x].at = marked + 1)

\* A browser with an open stream has its snapshot behind it, and lags behind the graph
\* by its buffer alone.
BufferBridges ==
    browser.open => browser.fetch = "over" /\ \A x \in browser.since :
      LET About == {k \in 1 .. Len(browser.buffer) : browser.buffer[k][1] = x}
      IN  /\ About = {} => browser.shown[x] = graph[x]
          /\ \A k \in About : (\A l \in About : l <= k) => browser.buffer[k][2] = graph[x]

\* The inductive invariant.
FeedInv ==
    /\ TypeOK
    /\ ShownIsEvent
    /\ MarkedIsShown
    /\ HalfDone
    /\ BufferBridges
-----------------------------------------------------------------------------
\* The writes of an event: each names an element and a status, and no element twice.
LEMMA ProjectShape ==
    ASSUME NEW type \in EventType
    PROVE  /\ Len(project[type]) \in Nat
           /\ \A k \in 1 .. Len(project[type]) :
                project[type][k][1] \in Node \cup Link /\ project[type][k][2] \in Status
           /\ \A k, l \in 1 .. Len(project[type]) :
                project[type][k][1] = project[type][l][1] => k = l
<1>1. ASSUME type \in RequestEvent
      PROVE  /\ Len(projectRequest(type)) \in {1, 2, 5}
             /\ \A k \in 1 .. Len(projectRequest(type)) :
                  projectRequest(type)[k][1] \in Node \cup Link /\ projectRequest(type)[k][2] \in Status
             /\ \A k, l \in 1 .. Len(projectRequest(type)) :
                  projectRequest(type)[k][1] = projectRequest(type)[l][1] => k = l
  <2>1. Len(projectRequest(type)) \in {1, 2, 5}
    BY <1>1 DEF RequestEvent, projectRequest
  <2>2. \A k \in 1 .. Len(projectRequest(type)) : projectRequest(type)[k][1] \in Node \cup Link
    BY <1>1 DEF RequestEvent, projectRequest, Node, Link
  <2>3. \A k \in 1 .. Len(projectRequest(type)) : projectRequest(type)[k][2] \in Status
    BY <1>1 DEF RequestEvent, projectRequest, Status
  <2>4. \A k, l \in 1 .. Len(projectRequest(type)) : projectRequest(type)[k][1] = projectRequest(type)[l][1] => k = l
    BY <1>1 DEF RequestEvent, projectRequest
  <2> QED
    BY <2>1, <2>2, <2>3, <2>4
<1>2. ASSUME type \in ProofEvent
      PROVE  /\ Len(projectProof(type)) \in {1, 2, 5}
             /\ \A k \in 1 .. Len(projectProof(type)) :
                  projectProof(type)[k][1] \in Node \cup Link /\ projectProof(type)[k][2] \in Status
             /\ \A k, l \in 1 .. Len(projectProof(type)) :
                  projectProof(type)[k][1] = projectProof(type)[l][1] => k = l
  <2>1. Len(projectProof(type)) \in {1, 2, 5}
    BY <1>2 DEF ProofEvent, projectProof
  <2>2. \A k \in 1 .. Len(projectProof(type)) : projectProof(type)[k][1] \in Node \cup Link
    BY <1>2 DEF ProofEvent, projectProof, Node, Link
  <2>3. \A k \in 1 .. Len(projectProof(type)) : projectProof(type)[k][2] \in Status
    BY <1>2 DEF ProofEvent, projectProof, Status
  <2>4. \A k, l \in 1 .. Len(projectProof(type)) : projectProof(type)[k][1] = projectProof(type)[l][1] => k = l
    BY <1>2 DEF ProofEvent, projectProof
  <2> QED
    BY <2>1, <2>2, <2>3, <2>4
<1>3. ASSUME type \in ProviderEvent
      PROVE  /\ Len(projectProvider(type)) \in {1, 2, 5}
             /\ \A k \in 1 .. Len(projectProvider(type)) :
                  projectProvider(type)[k][1] \in Node \cup Link /\ projectProvider(type)[k][2] \in Status
             /\ \A k, l \in 1 .. Len(projectProvider(type)) :
                  projectProvider(type)[k][1] = projectProvider(type)[l][1] => k = l
  <2>1. Len(projectProvider(type)) \in {1, 2, 5}
    BY <1>3 DEF ProviderEvent, projectProvider
  <2>2. \A k \in 1 .. Len(projectProvider(type)) : projectProvider(type)[k][1] \in Node \cup Link
    BY <1>3 DEF ProviderEvent, projectProvider, Node, Link
  <2>3. \A k \in 1 .. Len(projectProvider(type)) : projectProvider(type)[k][2] \in Status
    BY <1>3 DEF ProviderEvent, projectProvider, Status
  <2>4. \A k, l \in 1 .. Len(projectProvider(type)) : projectProvider(type)[k][1] = projectProvider(type)[l][1] => k = l
    BY <1>3 DEF ProviderEvent, projectProvider
  <2> QED
    BY <2>1, <2>2, <2>3, <2>4
<1>4. {1, 2, 5} \subseteq Nat
  OBVIOUS
<1>5. CASE type \in RequestEvent
  BY <1>1, <1>4, <1>5 DEF project
<1>6. CASE type \in ProofEvent \ RequestEvent
  BY <1>2, <1>4, <1>6 DEF project
<1>7. CASE type \in ProviderEvent \ (ProofEvent \cup RequestEvent)
  BY <1>3, <1>4, <1>7 DEF project
<1> QED
  BY <1>5, <1>6, <1>7 DEF EventType

\* The steps that turns are made of.
LEMMA StepTypes ==
    ASSUME NEW r \in Requests
    PROVE  /\ \A c \in {"status", "proof"}, s \in Status : Write(r, c, s) \in Step
           /\ \A t \in EventType : Emit(r, t) \in Step
  BY DEF Write, Emit, Step

\* Short sequences of steps.
LEMMA ShortSeq ==
    ASSUME NEW S, NEW a \in S, NEW b \in S, NEW c \in S, NEW d \in S, NEW e \in S
    PROVE  {<<>>, <<a>>, <<a, b>>, <<a, b, c, d, e>>} \subseteq Seq(S)
  OBVIOUS

\* A write leaves a table of rows.
LEMMA RowsWritten ==
    ASSUME rows \in [Requests -> [status : Status \cup {None}, proof : Status \cup {None}]],
           NEW r \in Requests, NEW c \in {"status", "proof"}, NEW s \in Status
    PROVE  [rows EXCEPT ![r][c] = s]
             \in [Requests -> [status : Status \cup {None}, proof : Status \cup {None}]]
<1>1. CASE c = "status"
  BY <1>1
<1>2. CASE c = "proof"
  BY <1>2
<1> QED
  BY <1>1, <1>2

\* A turn queues its steps and moves its handler; nothing that FeedInv relates changes.
LEMMA TurnStep ==
    ASSUME FeedInv, NEW r \in Requests, NEW await \in {"new", "gate", "execute", "over"},
           NEW steps \in Seq(Step), Turn(r, await, steps),
           watcher' \in [Requests -> {"off", "QUEUED", "PROVING", "GENERATED", "VERIFIED", "FAILED"}]
    PROVE  FeedInv'
<1> USE DEF FeedInv, Turn
<1>1. TypeOK'
  BY DEF TypeOK, Value, Draining, Writes, Current
<1>2. ShownIsEvent' /\ MarkedIsShown'
  BY DEF ShownIsEvent, MarkedIsShown, Touches, Gives
<1>3. HalfDone' /\ BufferBridges'
  BY DEF HalfDone, BufferBridges, Draining, Writes, Current
<1> QED
  BY <1>1, <1>2, <1>3

\* Every turn of a handler and of a watcher.
LEMMA HandlersStep ==
    ASSUME FeedInv, NEW r \in Requests,
           \/ Receive(r) \/ GateFailed(r) \/ Verdict(r) \/ ExecuteFailed(r)
           \/ AttemptsFailed(r) \/ Complete(r) \/ Watch(r)
    PROVE  FeedInv'
<1> DEFINE WS == {"off", "QUEUED", "PROVING", "GENERATED", "VERIFIED", "FAILED"}
<1>1. /\ \A c \in {"status", "proof"}, s \in Status : Write(r, c, s) \in Step
      /\ \A t \in EventType : Emit(r, t) \in Step
  BY StepTypes
<1>2. /\ Write(r, "status", "RECEIVED") \in Step /\ Write(r, "status", "FAILED") \in Step
      /\ Write(r, "status", "DENIED") \in Step /\ Write(r, "status", "COMPLETE") \in Step
      /\ \A s \in Status : Write(r, "proof", s) \in Step
  BY <1>1 DEF Status
<1>3. /\ Emit(r, "request.received") \in Step /\ Emit(r, "request.failed") \in Step
      /\ Emit(r, "policy.allowed") \in Step /\ Emit(r, "policy.denied") \in Step
      /\ Emit(r, "provider.failed") \in Step /\ Emit(r, "provider.started") \in Step
      /\ Emit(r, "provider.completed") \in Step /\ Emit(r, "receipt.created") \in Step
      /\ Emit(r, "route.selected") \in Step
      /\ \A t \in ProofEvent : Emit(r, t) \in Step
  BY <1>1 DEF EventType, RequestEvent, ProofEvent, ProviderEvent
<1>4. {"QUEUED", "PROVING", "GENERATED", "VERIFIED", "FAILED"} \subseteq Status \cap WS
  BY DEF Status
<1>5. {"proof.queued", "proof.started", "proof.generated", "proof.completed", "proof.failed"}
        \subseteq ProofEvent
  BY DEF ProofEvent
<1>6. Failed(r) \in Seq(Step)
  BY <1>2, <1>3, ShortSeq DEF Failed
<1>7. <<Write(r, "proof", "QUEUED"), Emit(r, "proof.queued")>> \in Seq(Step)
  BY <1>2, <1>3, <1>4, <1>5, ShortSeq
<1>8. handler[r] \in {"new", "gate", "execute", "over"} /\ watcher \in [Requests -> WS]
  BY DEF FeedInv, TypeOK
<1>9. \A s, t \in Seq(Step) : s \o t \in Seq(Step)
  BY ConcatProperties
<1>10. CASE Receive(r)
  <2>1. <<Write(r, "status", "RECEIVED"), Emit(r, "request.received")>> \in Seq(Step)
    BY <1>2, <1>3, ShortSeq
  <2> QED
    BY <1>8, <1>10, <2>1, TurnStep DEF Receive
<1>11. CASE GateFailed(r)
  BY <1>6, <1>8, <1>11, TurnStep DEF GateFailed
<1>12. CASE Verdict(r)
  <2> DEFINE proved == <<Write(r, "proof", "QUEUED"), Emit(r, "proof.queued")>>
             denied == <<Write(r, "status", "DENIED"), Emit(r, "policy.denied")>>
             allowed == <<Emit(r, "policy.allowed")>>
  <2>1. denied \in Seq(Step) /\ allowed \in Seq(Step)
    BY <1>2, <1>3, ShortSeq
  <2>2. watcher' \in [Requests -> WS]
    BY <1>4, <1>8, <1>12 DEF Verdict
  <2>3. \/ Turn(r, "over", proved \o denied)
        \/ Turn(r, "over", proved \o allowed \o Failed(r))
        \/ Turn(r, "execute", proved \o allowed)
    BY <1>12 DEF Verdict
  <2> HIDE DEF proved, denied, allowed
  <2>4. /\ proved \o denied \in Seq(Step) /\ proved \o allowed \in Seq(Step)
        /\ proved \o allowed \o Failed(r) \in Seq(Step)
    BY <1>6, <1>7, <1>9, <2>1 DEF proved
  <2> QED
    BY <2>2, <2>3, <2>4, TurnStep
<1>13. CASE ExecuteFailed(r)
  BY <1>6, <1>8, <1>13, TurnStep DEF ExecuteFailed
<1>14. \A f \in FailedAttempts(r) : f \in Seq(Step)
  <2>1. <<>> \in Seq(Step) /\ <<Emit(r, "provider.failed")>> \in Seq(Step)
    BY <1>3, ShortSeq
  <2> QED
    BY <2>1 DEF FailedAttempts
<1>15. CASE AttemptsFailed(r)
  <2>1. PICK f \in FailedAttempts(r) : Turn(r, "over", f \o Failed(r))
    BY <1>15 DEF AttemptsFailed
  <2>2. f \o Failed(r) \in Seq(Step)
    BY <1>6, <1>9, <1>14
  <2> QED
    BY <1>8, <1>15, <2>1, <2>2, TurnStep DEF AttemptsFailed
<1>16. CASE Complete(r)
  <2> DEFINE path == <<Emit(r, "route.selected"), Emit(r, "provider.started"),
                       Write(r, "status", "COMPLETE"), Emit(r, "provider.completed"),
                       Emit(r, "receipt.created")>>
  <2>1. PICK f \in FailedAttempts(r) : Turn(r, "over", f \o path)
    BY <1>16 DEF Complete
  <2>2. path \in Seq(Step)
    BY <1>2, <1>3, ShortSeq
  <2> HIDE DEF path
  <2>3. f \o path \in Seq(Step)
    BY <1>9, <1>14, <2>2
  <2> QED
    BY <1>8, <1>16, <2>1, <2>3, TurnStep DEF Complete
<1>17. CASE Watch(r)
  <2>1. PICK s \in {"PROVING", "GENERATED", "VERIFIED", "FAILED"}, t \in ProofEvent :
          /\ watcher' = [watcher EXCEPT ![r] = s]
          /\ Turn(r, handler[r], <<Write(r, "proof", s), Emit(r, t)>>)
    BY <1>5, <1>17 DEF Watch
  <2>2. <<Write(r, "proof", s), Emit(r, t)>> \in Seq(Step) /\ watcher' \in [Requests -> WS]
    BY <1>2, <1>3, <1>4, <1>8, <2>1, ShortSeq
  <2> QED
    BY <1>8, <2>1, <2>2, TurnStep
<1> QED
  BY <1>10, <1>11, <1>12, <1>13, <1>15, <1>16, <1>17

\* The event that is being projected and its next write are well typed.
LEMMA DrainingTypes ==
    ASSUME TypeOK, Draining
    PROVE  /\ marked + 1 = Len(outbox) /\ Len(outbox) \in Nat
           /\ Current \in Event /\ Writes = project[Current.type] /\ Current.type \in EventType
           /\ Current.req \in Requests
<1>1. Len(outbox) \in Nat /\ marked + 1 = Len(outbox)
  BY DEF TypeOK, Draining
<1>2. Current \in Event
  BY <1>1, ElementOfSeq DEF TypeOK, Current
<1> QED
  BY <1>1, <1>2 DEF Event, Writes

\* A statement of a turn: a row is written, or an event is put into the outbox, which
\* the drain then finds untouched.
LEMMA StatementStep == FeedInv /\ Statement => FeedInv'
<1> SUFFICES ASSUME FeedInv, Statement PROVE FeedInv'
  OBVIOUS
<1> DEFINE s == Head(todo)
<1>1. todo \in Seq(Step) /\ s \in Step /\ Tail(todo) \in Seq(Step)
  BY HeadTailProperties DEF FeedInv, TypeOK, Statement
<1>2. outbox \in Seq(Event) /\ marked = Len(outbox) /\ Len(outbox) \in Nat /\ done = 0
  BY DEF FeedInv, TypeOK, Statement, Draining
<1>3. CASE s.do # "emit"
  <2>1. s.req \in Requests /\ s.column \in {"status", "proof"} /\ s.status \in Status
    BY <1>1, <1>3 DEF Step
  <2>2. rows' \in [Requests -> [status : Status \cup {None}, proof : Status \cup {None}]]
    <3>1. rows \in [Requests -> [status : Status \cup {None}, proof : Status \cup {None}]]
      BY DEF FeedInv, TypeOK
    <3>2. rows' = [rows EXCEPT ![s.req][s.column] = s.status]
      BY <1>3 DEF Statement
    <3> HIDE DEF s
    <3> QED
      BY ONLY <2>1, <3>1, <3>2, RowsWritten
  <2>3. UNCHANGED <<up, crashes, handler, watcher, outbox, marked, done, faulted, graph, browser>>
        /\ todo' = Tail(todo)
    BY <1>3 DEF Statement
  <2>4. TypeOK'
    BY <1>1, <2>2, <2>3 DEF FeedInv, TypeOK, Value, Draining, Writes, Current
  <2>5. ShownIsEvent' /\ MarkedIsShown'
    BY <2>3 DEF FeedInv, ShownIsEvent, MarkedIsShown, Touches, Gives
  <2>6. HalfDone' /\ BufferBridges'
    BY <2>3 DEF FeedInv, HalfDone, BufferBridges, Draining, Writes, Current
  <2> QED
    BY <2>4, <2>5, <2>6 DEF FeedInv
<1>4. CASE s.do = "emit"
  <2> DEFINE e == [type |-> s.type, req |-> s.req]
  <2>1. e \in Event
    BY <1>1, <1>4 DEF Step, Event
  <2>2. outbox' = Append(outbox, e) /\ todo' = Tail(todo)
        /\ UNCHANGED <<up, crashes, handler, watcher, rows, marked, done, faulted, graph, browser>>
    BY <1>4 DEF Statement
  <2> HIDE DEF e
  <2>3. /\ outbox' \in Seq(Event) /\ Len(outbox') = Len(outbox) + 1
        /\ \A n \in 1 .. Len(outbox) : outbox'[n] = outbox[n]
    BY <1>2, <2>1, <2>2, AppendProperties
  <2>4. Draining' /\ Len(Writes') \in Nat /\ done' = 0
    <3>1. outbox'[Len(outbox) + 1] = e
      BY <1>2, <2>1, <2>2, AppendProperties
    <3>2. Current' = e
      BY <1>2, <2>2, <3>1 DEF Current
    <3> QED
      BY <1>2, <2>1, <2>2, <2>3, <3>2, ProjectShape DEF Draining, Writes, Event
  <2>5. TypeOK'
    <3>1. \A v : v \in Value => v \in Value'
      BY <1>2, <2>3 DEF Value
    <3>2. \A f : f \in [Element -> Value] => f \in [Element -> Value']
      BY <3>1
    <3>3. \A b : b \in Seq(Element \X Value) => b \in Seq(Element \X Value')
      BY <3>1
    <3>4. browser' \in [fetch : {"sent", "answered", "over"},
                    snapshot : [Element -> Value'] \cup {[x \in {} |-> Absent]},
                    open : BOOLEAN, buffer : Seq(Element \X Value'), since : SUBSET Element,
                    shown : [Element -> Value']]
      BY <2>2, <3>2, <3>3 DEF FeedInv, TypeOK
    <3>5. /\ marked' \in 0 .. Len(outbox') /\ faulted' \subseteq 1 .. marked'
          /\ Len(outbox') <= marked' + 1
          /\ done' \in 0 .. (IF Draining' THEN Len(Writes') ELSE 0)
      BY <1>2, <2>2, <2>3, <2>4 DEF FeedInv, TypeOK
    <3>6. graph' \in [Element -> Value']
      BY <2>2, <3>2 DEF FeedInv, TypeOK
    <3>7. browser.fetch = "answered" => browser.snapshot \in [Element -> Value']
      BY <3>2 DEF FeedInv, TypeOK
    <3> QED
      BY <1>1, <2>2, <2>3, <3>4, <3>5, <3>6, <3>7 DEF FeedInv, TypeOK
  <2>6. \A x \in Element, n \in 1 .. Len(outbox) :
          (Touches(n, x)' <=> Touches(n, x)) /\ Gives(n, x)' = Gives(n, x)
    BY <2>3 DEF Touches, Gives
  <2>7. ShownIsEvent'
    BY <1>2, <2>2, <2>3, <2>6 DEF FeedInv, ShownIsEvent
  <2>8. MarkedIsShown'
    BY <1>2, <2>2, <2>3, <2>6 DEF FeedInv, MarkedIsShown
  <2>9. HalfDone' /\ BufferBridges'
    BY <2>2, <2>4 DEF FeedInv, HalfDone, BufferBridges
  <2> QED
    BY <2>5, <2>7, <2>8, <2>9 DEF FeedInv
<1> QED
  BY <1>3, <1>4

\* The next write of the event, and why it agrees with Touches and Gives.
LEMMA NextWrite ==
    ASSUME FeedInv, Draining, done < Len(Writes)
    PROVE  LET x == <<Current.req, Writes[done + 1][1]>>
               v == [status |-> Writes[done + 1][2], at |-> marked + 1]
           IN  /\ done + 1 \in 1 .. Len(Writes) /\ Len(Writes) \in Nat
               /\ x \in Element /\ v \in Value /\ v # Absent
               /\ Touches(marked + 1, x) /\ Gives(marked + 1, x) = v.status
<1> DEFINE w == Writes[done + 1]
<1>1. /\ marked + 1 = Len(outbox) /\ Len(outbox) \in Nat
      /\ Writes = project[Current.type] /\ Current.type \in EventType
      /\ Current.req \in Requests
  BY DrainingTypes DEF FeedInv
<1>2. /\ Len(Writes) \in Nat
      /\ \A k \in 1 .. Len(Writes) : Writes[k][1] \in Node \cup Link /\ Writes[k][2] \in Status
      /\ \A k, l \in 1 .. Len(Writes) : Writes[k][1] = Writes[l][1] => k = l
  BY <1>1, ProjectShape
<1>3. done + 1 \in 1 .. Len(Writes)
  BY <1>2 DEF FeedInv, TypeOK
<1>4. w[1] \in Node \cup Link /\ w[2] \in Status
  BY <1>2, <1>3
<1>5. <<Current.req, w[1]>> \in Element
  BY <1>1, <1>4 DEF Element
<1>6. marked + 1 \in 0 .. Len(outbox) /\ marked + 1 # 0
  BY <1>1 DEF FeedInv, TypeOK
<1>7. [status |-> w[2], at |-> marked + 1] \in Value
  BY <1>4, <1>6 DEF Value
<1>8. [status |-> w[2], at |-> marked + 1] # Absent
  BY <1>6 DEF Absent
<1>9. (CHOOSE k \in 1 .. Len(Writes) : Writes[k][1] = w[1]) = done + 1
  BY <1>2, <1>3
<1>10. Touches(marked + 1, <<Current.req, w[1]>>) /\ Gives(marked + 1, <<Current.req, w[1]>>) = w[2]
  BY <1>3, <1>9 DEF Touches, Gives, Writes, Current
<1> QED
  BY <1>2, <1>3, <1>5, <1>7, <1>8, <1>10

\* A write of the projection.
LEMMA UpsertStep == FeedInv /\ Upsert => FeedInv'
<1> SUFFICES ASSUME FeedInv, Upsert PROVE FeedInv'
  OBVIOUS
<1> DEFINE x == <<Current.req, Writes[done + 1][1]>>
           v == [status |-> Writes[done + 1][2], at |-> marked + 1]
<1>1. /\ Draining /\ done < Len(Writes) /\ done' = done + 1
      /\ UNCHANGED <<up, crashes, handler, watcher, rows, todo, outbox, marked, faulted>>
  BY DEF Upsert, Unserved
<1>2. /\ done + 1 \in 1 .. Len(Writes) /\ Len(Writes) \in Nat
      /\ x \in Element /\ v \in Value /\ v # Absent
      /\ Touches(marked + 1, x) /\ Gives(marked + 1, x) = v.status
  BY <1>1, NextWrite
<1>3. marked + 1 = Len(outbox) /\ Len(outbox) \in Nat /\ marked \in Nat /\ done \in Nat
  BY <1>1, DrainingTypes DEF FeedInv, TypeOK
<1>4. v.at = marked + 1
  OBVIOUS
<1>5. Draining' /\ Current' = Current /\ Writes' = Writes /\ Value' = Value
  BY <1>1 DEF Draining, Current, Writes, Value
<1>6. \/ /\ x[2] \in Link /\ graph[x] # Absent /\ UNCHANGED <<graph, browser>>
      \/ graph' = [graph EXCEPT ![x] = v] /\ Broadcast(x, v)
  BY DEF Upsert
<1>7. x[2] = Writes[done + 1][1] /\ x[1] = Current.req
  OBVIOUS
<1> HIDE DEF x, v
<1>8. CASE x[2] \in Link /\ graph[x] # Absent /\ UNCHANGED <<graph, browser>>
  <2>1. TypeOK'
    BY <1>1, <1>2, <1>3, <1>5, <1>8 DEF FeedInv, TypeOK
  <2>2. ShownIsEvent' /\ MarkedIsShown'
    BY <1>1, <1>8 DEF FeedInv, ShownIsEvent, MarkedIsShown, Touches, Gives
  <2>3. HalfDone'
    <3>1. \A k \in 1 .. (done + 1) : k \in 1 .. done \/ k = done + 1
      BY <1>3
    <3>2. x[2] \notin Node
      BY <1>8 DEF Node, Link
    <3> QED
      BY <1>1, <1>3, <1>5, <1>8, <3>1, <3>2 DEF FeedInv, HalfDone, x
  <2>4. BufferBridges'
    BY <1>8 DEF FeedInv, BufferBridges
  <2> QED
    BY <2>1, <2>2, <2>3, <2>4 DEF FeedInv
<1>9. CASE graph' = [graph EXCEPT ![x] = v] /\ Broadcast(x, v)
  <2>1. graph \in [Element -> Value] /\ graph' \in [Element -> Value]
        /\ graph'[x] = v /\ \A y \in Element : y # x => graph'[y] = graph[y]
    BY <1>2, <1>9 DEF FeedInv, TypeOK
  <2>2. <<x, v>> \in Element \X Value
    BY <1>2
  <2>3. browser.buffer \in Seq(Element \X Value) /\ browser.since \in SUBSET Element
        /\ browser.open \in BOOLEAN
    BY DEF FeedInv, TypeOK
  <2>4. Append(browser.buffer, <<x, v>>) \in Seq(Element \X Value)
    BY <2>2, <2>3, AppendProperties
  <2>5. TypeOK'
    <3>1. CASE ~browser.open
      <4>1. browser' = browser
        BY <1>9, <3>1 DEF Broadcast
      <4> QED
        BY <1>1, <1>2, <1>3, <1>5, <2>1, <4>1 DEF FeedInv, TypeOK
    <3>2. CASE browser.open
      <4>1. browser' = [browser EXCEPT !.buffer = Append(browser.buffer, <<x, v>>),
                                       !.since = browser.since \cup {x}]
        BY <1>9, <3>2 DEF Broadcast
      <4>2. browser.since \cup {x} \in SUBSET Element
        BY <1>2, <2>3
      <4>3. browser' \in [fetch : {"sent", "answered", "over"},
                    snapshot : [Element -> Value] \cup {[y \in {} |-> Absent]},
                    open : BOOLEAN, buffer : Seq(Element \X Value), since : SUBSET Element,
                    shown : [Element -> Value]]
        BY <2>4, <4>1, <4>2 DEF FeedInv, TypeOK
      <4>4. browser'.fetch = browser.fetch /\ browser'.snapshot = browser.snapshot
            /\ browser'.open = browser.open
        BY <4>1 DEF FeedInv, TypeOK
      <4> QED
        BY <1>1, <1>2, <1>3, <1>5, <2>1, <3>2, <4>3, <4>4 DEF FeedInv, TypeOK
    <3> QED
      BY <3>1, <3>2
  <2>6. \A n, y : (Touches(n, y)' <=> Touches(n, y)) /\ Gives(n, y)' = Gives(n, y)
    BY <1>1 DEF Touches, Gives
  <2>7. ShownIsEvent'
    BY <1>1, <1>2, <1>3, <1>4, <2>1, <2>6 DEF FeedInv, ShownIsEvent
  <2>8. MarkedIsShown'
    BY <1>1, <1>2, <1>3, <1>4, <2>1, <2>6 DEF FeedInv, MarkedIsShown
  <2>9. HalfDone'
    <3> SUFFICES ASSUME NEW k \in 1 .. (done + 1)
                 PROVE  LET y == <<Current.req, Writes[k][1]>>
                        IN  graph'[y] # Absent /\ (y[2] \in Node => graph'[y].at = marked + 1)
      BY <1>1, <1>5 DEF HalfDone
    <3> DEFINE y == <<Current.req, Writes[k][1]>>
    <3>1. CASE y = x
      BY <1>2, <1>4, <2>1, <3>1
    <3>2. CASE y # x
      <4>1. k \in 1 .. done
        BY <1>3, <3>2 DEF x
      <4>2. y \in Element
        <5>1. Writes[k][1] \in Node \cup Link
          BY <1>1, <1>2, <1>3, <4>1, DrainingTypes, ProjectShape DEF FeedInv
        <5> QED
          BY <1>1, <5>1, DrainingTypes DEF FeedInv, Element
      <4> QED
        BY <1>1, <2>1, <3>2, <4>1, <4>2 DEF FeedInv, HalfDone
    <3> QED
      BY <3>1, <3>2
  <2>10. BufferBridges'
    <3> SUFFICES ASSUME browser'.open, NEW y \in browser'.since
                 PROVE  LET About == {k \in 1 .. Len(browser'.buffer) : browser'.buffer[k][1] = y}
                        IN  /\ About = {} => browser'.shown[y] = graph'[y]
                            /\ \A k \in About :
                                 (\A l \in About : l <= k) => browser'.buffer[k][2] = graph'[y]
      <4>1. browser'.open = browser.open /\ browser'.fetch = browser.fetch
        BY <1>9 DEF FeedInv, TypeOK, Broadcast
      <4> QED
        BY <4>1 DEF FeedInv, BufferBridges
    <3> DEFINE b == browser.buffer
               b2 == browser'.buffer
               About == {k \in 1 .. Len(b) : b[k][1] = y}
               About2 == {k \in 1 .. Len(b2) : b2[k][1] = y}
    <3>1. browser.open
      BY <1>9, <2>3 DEF Broadcast
    <3>2. /\ b2 = Append(b, <<x, v>>) /\ browser'.since = browser.since \cup {x}
          /\ browser'.shown = browser.shown
      BY <1>9, <3>1 DEF Broadcast, FeedInv, TypeOK
    <3>3. /\ Len(b) \in Nat /\ Len(b2) = Len(b) + 1
          /\ \A k \in 1 .. Len(b) : b2[k] = b[k]
          /\ b2[Len(b) + 1] = <<x, v>>
      BY <2>2, <2>3, <3>2, AppendProperties, LenProperties
    <3>4. CASE y = x
      <4>1. b2[Len(b) + 1][1] = y /\ b2[Len(b) + 1][2] = v
        BY <3>3, <3>4
      <4>2. Len(b) + 1 \in About2
        BY <3>3, <4>1
      <4>3. \A k \in About2 : (\A l \in About2 : l <= k) => k = Len(b) + 1
        BY <3>3, <4>2
      <4> QED
        BY <2>1, <3>4, <4>1, <4>2, <4>3
    <3>5. CASE y # x
      <4>1. About2 = About
        BY <3>3, <3>5
      <4>2. y \in browser.since /\ y \in Element
        BY <2>3, <3>2, <3>5
      <4>3. /\ About = {} => browser.shown[y] = graph[y]
            /\ \A k \in About : (\A l \in About : l <= k) => b[k][2] = graph[y]
        BY <3>1, <4>2 DEF FeedInv, BufferBridges
      <4> QED
        BY <2>1, <3>2, <3>3, <3>5, <4>1, <4>2, <4>3
    <3> QED
      BY <3>4, <3>5
  <2> QED
    BY <2>5, <2>7, <2>8, <2>9, <2>10 DEF FeedInv
<1> QED
  BY <1>6, <1>8, <1>9

\* The end of a projection: Mark, when all is written, and ProjectionFails.
LEMMA MarkStep == FeedInv /\ (Mark \/ ProjectionFails) => FeedInv'
<1> SUFFICES ASSUME FeedInv, Mark \/ ProjectionFails PROVE FeedInv'
  OBVIOUS
<1>1. /\ Draining /\ marked' = marked + 1 /\ done' = 0
      /\ UNCHANGED <<up, crashes, handler, watcher, rows, todo, outbox, graph, browser>>
  BY DEF Mark, ProjectionFails, Unserved
<1>2. /\ marked + 1 = Len(outbox) /\ Len(outbox) \in Nat /\ marked \in Nat
      /\ Current.req \in Requests /\ Writes = project[Current.type]
  BY <1>1, DrainingTypes DEF FeedInv, TypeOK
<1>3. faulted' \subseteq faulted \cup {marked + 1} /\ faulted \subseteq faulted'
  BY DEF Mark, ProjectionFails
<1>4. ~Draining' /\ Value' = Value
  BY <1>1, <1>2 DEF Draining, Value
<1>5. TypeOK'
  BY <1>1, <1>2, <1>3, <1>4 DEF FeedInv, TypeOK
<1>6. \A n, y : (Touches(n, y)' <=> Touches(n, y)) /\ Gives(n, y)' = Gives(n, y)
  BY <1>1 DEF Touches, Gives
<1>7. ShownIsEvent'
  BY <1>1, <1>6 DEF FeedInv, ShownIsEvent
<1>8. MarkedIsShown'
  <2> SUFFICES ASSUME NEW x \in Element, NEW n \in (1 .. (marked + 1)) \ faulted', Touches(n, x)
               PROVE  graph[x] # Absent /\ (x[2] \in Node => n <= graph[x].at)
    BY <1>1, <1>6 DEF MarkedIsShown
  <2>1. CASE n \in 1 .. marked
    BY <1>3, <2>1 DEF FeedInv, MarkedIsShown
  <2>2. CASE n = marked + 1
    <3>1. Mark
      BY <2>2 DEF ProjectionFails
    <3>2. PICK k \in 1 .. Len(Writes) : Writes[k][1] = x[2] /\ Current.req = x[1]
      BY <2>2 DEF Touches, Writes, Current
    <3>3. x = <<Current.req, Writes[k][1]>>
      BY <3>2 DEF Element
    <3>4. k \in 1 .. done
      BY <3>1 DEF Mark
    <3> QED
      BY <1>1, <1>2, <2>2, <3>3, <3>4 DEF FeedInv, HalfDone
  <2> QED
    BY <1>2, <2>1, <2>2
<1>9. HalfDone' /\ BufferBridges'
  BY <1>1, <1>4 DEF FeedInv, HalfDone, BufferBridges
<1> QED
  BY <1>5, <1>7, <1>8, <1>9 DEF FeedInv

\* A crash cuts the projection anywhere and ends the stream; a restart projects again.
LEMMA CrashStep == FeedInv /\ (Crash \/ Restart) => FeedInv'
<1> SUFFICES ASSUME FeedInv, Crash \/ Restart PROVE FeedInv'
  OBVIOUS
<1>1. /\ UNCHANGED <<rows, outbox, marked, faulted, graph>>
      /\ Value' = Value /\ (Draining' <=> Draining) /\ Writes' = Writes /\ Current' = Current
  BY DEF Crash, Restart, Value, Draining, Writes, Current
<1>2. ShownIsEvent' /\ MarkedIsShown'
  BY <1>1 DEF FeedInv, ShownIsEvent, MarkedIsShown, Touches, Gives
<1>3. CASE Restart
  <2>1. TypeOK'
    BY <1>1, <1>3 DEF FeedInv, TypeOK, Restart
  <2>2. HalfDone' /\ BufferBridges'
    BY <1>1, <1>3 DEF FeedInv, HalfDone, BufferBridges, Restart
  <2> QED
    BY <1>2, <2>1, <2>2 DEF FeedInv
<1>4. CASE Crash
  <2>1. browser' = [browser EXCEPT !.open = FALSE, !.buffer = <<>>, !.since = {}] /\ done' = 0
    BY <1>4 DEF Crash, Disconnected
  <2>2. /\ browser' \in [fetch : {"sent", "answered", "over"},
                    snapshot : [Element -> Value] \cup {[x \in {} |-> Absent]},
                    open : BOOLEAN, buffer : Seq(Element \X Value), since : SUBSET Element,
                    shown : [Element -> Value]]
        /\ ~browser'.open /\ browser'.buffer = <<>> /\ browser'.since = {}
        /\ browser'.fetch = browser.fetch /\ browser'.snapshot = browser.snapshot
    <3>1. <<>> \in Seq(Element \X Value)
      OBVIOUS
    <3> QED
      BY <2>1, <3>1 DEF FeedInv, TypeOK
  <2>3. done' \in 0 .. (IF Draining THEN Len(Writes) ELSE 0)
    BY <2>1, DrainingTypes, ProjectShape DEF FeedInv, TypeOK
  <2>4. crashes' \in 0 .. MaxCrashes
    BY <1>4, GraphFeedAssumption DEF FeedInv, TypeOK, Crash
  <2>5. /\ handler' \in [Requests -> {"new", "gate", "execute", "over"}]
        /\ watcher' \in [Requests -> {"off", "QUEUED", "PROVING", "GENERATED", "VERIFIED", "FAILED"}]
        /\ todo' \in Seq(Step) /\ up' \in BOOLEAN
    <3>1. handler' = [r \in Requests |-> IF handler[r] = "new" THEN "new" ELSE "over"]
          /\ watcher' = [r \in Requests |-> "off"] /\ todo' = <<>> /\ up' = FALSE
      BY <1>4 DEF Crash
    <3>2. <<>> \in Seq(Step)
      OBVIOUS
    <3> QED
      BY <3>1, <3>2
  <2>6. TypeOK'
    BY <1>1, <2>2, <2>3, <2>4, <2>5 DEF FeedInv, TypeOK
  <2>7. HalfDone' /\ BufferBridges'
    BY <2>1, <2>2 DEF HalfDone, BufferBridges
  <2> QED
    BY <1>2, <2>6, <2>7 DEF FeedInv
<1> QED
  BY <1>3, <1>4

\* A set of places in a sequence has a last one.
LEMMA LastPlace ==
    ASSUME NEW n \in Nat, NEW S \in SUBSET (1 .. n), S # {}
    PROVE  \E k \in S : \A l \in S : l <= k
<1> DEFINE T == {n - k : k \in S}
           R == {ss \in Nat \X Nat : ss[1] < ss[2]}
<1>1. T \in SUBSET Nat /\ T # {}
  <2>1. \A k \in S : n - k \in Nat
    OBVIOUS
  <2>2. PICK k \in S : TRUE
    OBVIOUS
  <2>3. n - k \in T
    OBVIOUS
  <2> QED
    BY <2>1, <2>3
<1>2. IsWellFoundedOn(R, Nat)
  BY NatLessThanWellFounded DEF OpToRel
<1>3. PICK i \in T : \A j \in T : <<j, i>> \notin R
  BY <1>1, <1>2, WFMin
<1>4. PICK k \in S : i = n - k
  OBVIOUS
<1>5. ASSUME NEW l \in S, l > k
      PROVE  FALSE
  <2>1. n - l \in T /\ n - l < i /\ n - l \in Nat /\ i \in Nat
    BY <1>1, <1>4, <1>5
  <2>2. <<n - l, i>> \in R
    BY <2>1
  <2> QED
    BY <1>3, <2>1, <2>2
<1> QED
  BY <1>5

\* What the browser does leaves the server alone.
BrowserStep ==
    \/ graphSnapshot \/ SnapshotArrives \/ SnapshotFails
    \/ OpenStream \/ onNode \/ StreamBreaks

\* The browser's part of the types.
BrowserType ==
    /\ browser \in [fetch : {"sent", "answered", "over"},
                    snapshot : [Element -> Value] \cup {[x \in {} |-> Absent]},
                    open : BOOLEAN, buffer : Seq(Element \X Value), since : SUBSET Element,
                    shown : [Element -> Value]]
    /\ browser.fetch = "answered" => browser.snapshot \in [Element -> Value]
    /\ browser.open => browser.fetch = "over"
    /\ ~browser.open => browser.buffer = <<>> /\ browser.since = {}

\* Before a stream is open nothing has changed since it was opened.
LEMMA BrowserKeeps == FeedInv /\ BrowserStep => FeedInv'
<1> SUFFICES ASSUME FeedInv, BrowserStep PROVE FeedInv'
  OBVIOUS
<1>1. /\ UNCHANGED <<up, crashes, handler, watcher, todo, rows, outbox, marked, done, faulted, graph>>
      /\ Value' = Value /\ (Draining' <=> Draining) /\ Writes' = Writes /\ Current' = Current
  BY DEF BrowserStep, Server, graphSnapshot, SnapshotArrives, SnapshotFails, OpenStream, onNode,
         StreamBreaks, Value, Draining, Writes, Current
<1>2. ShownIsEvent' /\ MarkedIsShown' /\ HalfDone'
  BY <1>1 DEF FeedInv, ShownIsEvent, MarkedIsShown, HalfDone, Touches, Gives
<1>3. BrowserType /\ BufferBridges /\ graph \in [Element -> Value]
  BY DEF FeedInv, TypeOK, BrowserType, BufferBridges
<1>4. BrowserType' => TypeOK'
  BY <1>1 DEF FeedInv, TypeOK, BrowserType
<1>5. BrowserType' /\ BufferBridges' => FeedInv'
  BY <1>2, <1>4 DEF FeedInv
<1>6. CASE graphSnapshot
  BY <1>1, <1>3, <1>5, <1>6 DEF graphSnapshot, BrowserType, BufferBridges
<1>7. CASE SnapshotArrives
  BY <1>1, <1>3, <1>5, <1>7 DEF SnapshotArrives, BrowserType, BufferBridges
<1>8. CASE SnapshotFails
  BY <1>1, <1>3, <1>5, <1>8 DEF SnapshotFails, BrowserType, BufferBridges
<1>9. CASE OpenStream
  <2>1. BrowserType'
    BY <1>1, <1>3, <1>9 DEF OpenStream, BrowserType
  <2>2. browser'.since = {}
    BY <1>3, <1>9 DEF OpenStream, BrowserType
  <2> QED
    BY <1>5, <2>1, <2>2 DEF BufferBridges, BrowserType
<1>10. CASE StreamBreaks
  <2>1. browser' = [browser EXCEPT !.open = FALSE, !.buffer = <<>>, !.since = {}]
    BY <1>10 DEF StreamBreaks, Disconnected
  <2>2. <<>> \in Seq(Element \X Value) /\ {} \in SUBSET Element
    OBVIOUS
  <2>3. BrowserType' /\ ~browser'.open
    BY <1>1, <1>3, <2>1, <2>2 DEF BrowserType
  <2> QED
    BY <1>5, <2>3 DEF BufferBridges
<1>11. CASE onNode
  <2> DEFINE b == browser.buffer
             About(x) == {k \in DOMAIN b : b[k][1] = x}
             Top(x) == CHOOSE k \in About(x) : \A l \in About(x) : l <= k
             shown == [x \in Element |-> IF About(x) = {} THEN browser.shown[x] ELSE b[Top(x)][2]]
  <2>1. browser' = [browser EXCEPT !.buffer = <<>>, !.shown = shown]
    BY <1>11 DEF onNode
  <2>2. b \in Seq(Element \X Value) /\ Len(b) \in Nat /\ DOMAIN b = 1 .. Len(b)
    BY <1>3, LenProperties DEF BrowserType
  <2>3. ASSUME NEW x \in Element, About(x) # {}
        PROVE  Top(x) \in About(x) /\ \A l \in About(x) : l <= Top(x)
    <3>1. About(x) \in SUBSET (1 .. Len(b))
      BY <2>2
    <3>2. \E k \in About(x) : \A l \in About(x) : l <= k
      BY <2>2, <2>3, <3>1, LastPlace
    <3> QED
      BY <3>2
  <2>4. \A x \in Element : About(x) # {} => b[Top(x)][2] \in Value
    <3> SUFFICES ASSUME NEW x \in Element, About(x) # {} PROVE b[Top(x)][2] \in Value
      OBVIOUS
    <3>1. Top(x) \in 1 .. Len(b)
      BY <2>2, <2>3
    <3>2. \A k \in 1 .. Len(b) : b[k] \in Element \X Value
      BY <2>2, ElementOfSeq
    <3> HIDE DEF Top, b
    <3>3. b[Top(x)] \in Element \X Value
      BY <3>1, <3>2
    <3> QED
      BY <3>3
  <2>5. shown \in [Element -> Value]
    BY <1>3, <2>4 DEF BrowserType
  <2>6. \A x \in browser.since : browser.open => shown[x] = graph[x]
    <3> SUFFICES ASSUME NEW x \in browser.since, browser.open PROVE shown[x] = graph[x]
      OBVIOUS
    <3>1. x \in Element
      BY <1>3 DEF BrowserType
    <3>2. About(x) = {k \in 1 .. Len(b) : b[k][1] = x}
      BY <2>2
    <3>3. /\ About(x) = {} => browser.shown[x] = graph[x]
          /\ \A k \in About(x) : (\A l \in About(x) : l <= k) => b[k][2] = graph[x]
      BY <1>3, <3>2 DEF BufferBridges
    <3> QED
      BY <2>3, <3>1, <3>3
  <2> HIDE DEF shown
  <2>7. BrowserType'
    <3>1. <<>> \in Seq(Element \X Value)
      OBVIOUS
    <3> QED
      BY <1>1, <1>3, <2>1, <2>5, <3>1 DEF BrowserType
  <2>8. /\ browser'.buffer = <<>> /\ browser'.shown = shown /\ browser'.since = browser.since
        /\ browser'.open = browser.open /\ Len(browser'.buffer) = 0
    BY <1>3, <2>1 DEF BrowserType
  <2>9. BufferBridges'
    BY <1>1, <2>6, <2>7, <2>8 DEF BufferBridges, BrowserType
  <2> QED
    BY <1>5, <2>7, <2>9
<1> QED
  BY <1>6, <1>7, <1>8, <1>9, <1>10, <1>11 DEF BrowserStep
-----------------------------------------------------------------------------
\* The invariant is inductive.
LEMMA FeedInductive == Spec => []FeedInv
<1>1. Init => FeedInv
  <2> SUFFICES ASSUME Init PROVE FeedInv
    OBVIOUS
  <2>1. graph = [x \in Element |-> Absent] /\ outbox = <<>> /\ marked = 0 /\ done = 0
        /\ ~Draining /\ Absent \in Value
    BY DEF Init, Draining, Value, Absent, None
  <2>2. BrowserType
    BY <2>1 DEF Init, BrowserType
  <2>3. TypeOK
    BY <2>1, <2>2, GraphFeedAssumption DEF Init, TypeOK, BrowserType
  <2>4. ShownIsEvent /\ MarkedIsShown /\ HalfDone
    BY <2>1 DEF ShownIsEvent, MarkedIsShown, HalfDone
  <2>5. BufferBridges
    BY DEF Init, BufferBridges
  <2> QED
    BY <2>3, <2>4, <2>5 DEF FeedInv
<1>2. FeedInv /\ [Next]_vars => FeedInv'
  <2> SUFFICES ASSUME FeedInv, [Next]_vars PROVE FeedInv'
    OBVIOUS
  <2>1. CASE Next
    BY <2>1, StatementStep, UpsertStep, MarkStep, HandlersStep, CrashStep, BrowserKeeps
       DEF Next, BrowserStep
  <2>2. CASE UNCHANGED vars
    <3>1. TypeOK'
      BY <2>2 DEF vars, FeedInv, TypeOK, Value, Draining, Writes, Current
    <3>2. ShownIsEvent' /\ MarkedIsShown'
      BY <2>2 DEF vars, FeedInv, ShownIsEvent, MarkedIsShown, Touches, Gives
    <3>3. HalfDone' /\ BufferBridges'
      BY <2>2 DEF vars, FeedInv, HalfDone, BufferBridges, Draining, Writes, Current
    <3> QED
      BY <3>1, <3>2, <3>3 DEF FeedInv
  <2> QED
    BY <2>1, <2>2
<1> QED
  BY <1>1, <1>2, PTL DEF Spec

\* The rows, the outbox, the graph and the browser keep their types; the outbox is
\* never more than one event ahead of its drain.
THEOREM TypeCorrect == Spec => []TypeOK
<1>1. FeedInv => TypeOK
  BY DEF FeedInv
<1> QED
  BY <1>1, FeedInductive, PTL

\* drainOutbox may be cut anywhere by a crash and run again: once it has caught up, each
\* element shows the last event about it whose projection did not throw, or a later one.
THEOREM OutboxIsFollowed == Spec => []GraphFollowsOutbox
<1>1. FeedInv => GraphFollowsOutbox
  <2> SUFFICES ASSUME FeedInv, ~Draining, NEW x \in Element
               PROVE  /\ graph[x] # Absent =>
                           Touches(graph[x].at, x) /\ graph[x].status = Gives(graph[x].at, x)
                      /\ \A n \in 1 .. Len(outbox) \ faulted :
                           Touches(n, x) => graph[x] # Absent /\ (x[2] \in Node => n <= graph[x].at)
    BY DEF GraphFollowsOutbox
  <2>1. marked = Len(outbox)
    BY DEF FeedInv, TypeOK, Draining
  <2> QED
    BY <2>1 DEF FeedInv, ShownIsEvent, MarkedIsShown
<1> QED
  BY <1>1, FeedInductive, PTL

\* useLiveGraph: whatever has changed since the stream was opened is shown as it is in
\* the graph as soon as the buffer is read.
THEOREM BrowserConverges == Spec => []LiveNodesAreCurrent
<1>1. FeedInv => LiveNodesAreCurrent
  <2> SUFFICES ASSUME FeedInv, browser.open, browser.buffer = <<>>, NEW x \in browser.since
               PROVE  browser.shown[x] = graph[x]
    BY DEF LiveNodesAreCurrent
  <2>1. {k \in 1 .. Len(browser.buffer) : browser.buffer[k][1] = x} = {}
    OBVIOUS
  <2> QED
    BY <2>1 DEF FeedInv, BufferBridges
<1> QED
  BY <1>1, FeedInductive, PTL
-----------------------------------------------------------------------------
(* The rows and the graph.                                                 *)

\* The columns of a row that the graph shows, and the node that shows each.
Column == {"status", "proof"}
NodeOf(c) == IF c = "status" THEN "req" ELSE "proof"
RowOf(r, c) == IF c = "status" THEN rows[r].status ELSE rows[r].proof

\* The status that an event gives to a column's node; None when it leaves the node alone.
Shows(type, c) ==
    IF c = "status"
    THEN CASE type = "request.received"   -> "RECEIVED"
           [] type = "policy.allowed"     -> "AUTHORIZED"
           [] type = "policy.denied"      -> "DENIED"
           [] type = "request.failed"     -> "FAILED"
           [] type = "route.selected"     -> "ROUTING"
           [] type = "provider.started"   -> "PROVIDER_RUNNING"
           [] type = "provider.completed" -> "COMPLETE"
           [] OTHER                       -> None
    ELSE CASE type = "proof.queued"       -> "QUEUED"
           [] type = "proof.started"      -> "PROVING"
           [] type = "proof.generated"    -> "GENERATED"
           [] type = "proof.completed"    -> "VERIFIED"
           [] type = "proof.failed"       -> "FAILED"
           [] OTHER                       -> None

\* The statuses that the graph may claim of a row only when the row has them.
Ends(c) == IF c = "status" THEN {"COMPLETE", "DENIED", "FAILED"} ELSE {"VERIFIED"}

\* A step writes a column of a row; a step emits an event that shows the column.
Sets(s, r, c) == s.do = "write" /\ s.req = r /\ s.column = c
Tells(s, r, c) == s.do = "emit" /\ s.req = r /\ Shows(s.type, c) # None

\* No step of a turn writes the column; none after the k-th shows it.
NotSet(steps, r, c) == \A k \in 1 .. Len(steps) : ~Sets(steps[k], r, c)
LastTold(steps, k, r, c) == \A l \in 1 .. Len(steps) : l > k => ~Tells(steps[l], r, c)

\* A turn writes a column at most once, and the last event about it shows what it wrote.
ToldAfterWrite(steps) ==
    \A r \in Requests, c \in Column, k \in 1 .. Len(steps) : Sets(steps[k], r, c) =>
      /\ \A l \in 1 .. Len(steps) : Sets(steps[l], r, c) => k = l
      /\ \E j \in 1 .. Len(steps) :
           /\ k < j /\ Tells(steps[j], r, c) /\ Shows(steps[j].type, c) = steps[k].status
           /\ LastTold(steps, j, r, c)

\* An end that a turn shows, it has written before.
EndWritten(steps, k, r, c) ==
    \E j \in 1 .. Len(steps) :
      j < k /\ Sets(steps[j], r, c) /\ steps[j].status = Shows(steps[k].type, c)

\* The row has the end that an event still to be emitted, the one being projected, or
\* the graph tells of it; an end that is written is final.
EndsAreWritten ==
    /\ \A r \in Requests, c \in Column, k \in 1 .. Len(todo) :
         Tells(todo[k], r, c) /\ Shows(todo[k].type, c) \in Ends(c) =>
           EndWritten(todo, k, r, c) \/ RowOf(r, c) = Shows(todo[k].type, c)
    /\ \A c \in Column : Draining /\ Shows(Current.type, c) \in Ends(c) =>
         RowOf(Current.req, c) = Shows(Current.type, c)
    /\ \A r \in Requests, c \in Column : graph[<<r, NodeOf(c)>>].status \in Ends(c) =>
         RowOf(r, c) = graph[<<r, NodeOf(c)>>].status
    /\ \A r \in Requests, c \in Column : RowOf(r, c) \in Ends(c) => NotSet(todo, r, c)

\* May a later turn still write the column.
MayWrite(r, c) ==
    IF c = "status" THEN handler[r] # "over"
    ELSE watcher[r] \in {"QUEUED", "PROVING", "GENERATED"} \/ handler[r] \in {"new", "gate"}

\* A column that may still be written has no end, and none is on its way to it.
OpenIsUnended ==
    \A r \in Requests :
      /\ watcher[r] # "off" => handler[r] \in {"execute", "over"}
      /\ \A c \in Column : MayWrite(r, c) =>
           /\ RowOf(r, c) \notin Ends(c)
           /\ \A k \in 1 .. Len(todo) : Sets(todo[k], r, c) => todo[k].status \notin Ends(c)

\* While the process has not crashed, a handler that is over has written an end, or will.
OverIsEnded ==
    crashes = 0 => \A r \in Requests : handler[r] = "over" =>
      \/ RowOf(r, "status") \in Ends("status")
      \/ \E k \in 1 .. Len(todo) :
           Sets(todo[k], r, "status") /\ todo[k].status \in Ends("status")

\* The graph shows the row, or the last event about it that is on its way does.
Catches(r, c) ==
    \/ /\ LastTold(todo, 0, r, c)
       /\ IF Draining /\ Current.req = r /\ Shows(Current.type, c) # None
          THEN Shows(Current.type, c) = RowOf(r, c)
          ELSE graph[<<r, NodeOf(c)>>].status = RowOf(r, c)
    \/ \E k \in 1 .. Len(todo) :
         /\ Tells(todo[k], r, c) /\ Shows(todo[k].type, c) = RowOf(r, c)
         /\ LastTold(todo, k, r, c)

\* Without crashes and faults, the graph catches up with every column that no step left
\* will write; of the statuses only the ends are in both.
GraphCatchesUp ==
    crashes = 0 /\ faulted = {} => \A r \in Requests, c \in Column :
      NotSet(todo, r, c) /\ (c = "status" => RowOf(r, c) \in Ends(c)) => Catches(r, c)

\* What the turns, the rows and the graph have in common.
RowsInv ==
    /\ ToldAfterWrite(todo)
    /\ EndsAreWritten
    /\ OpenIsUnended
    /\ OverIsEnded
    /\ GraphCatchesUp
-----------------------------------------------------------------------------
\* project gives a column's node the status that Shows says, and leaves it alone otherwise.
LEMMA ProjectShows ==
    ASSUME NEW type \in EventType, NEW c \in Column
    PROVE  /\ \A k \in 1 .. Len(project[type]) :
                project[type][k][1] = NodeOf(c) =>
                  project[type][k][2] = Shows(type, c) /\ Shows(type, c) # None
           /\ Shows(type, c) # None => \E k \in 1 .. Len(project[type]) : project[type][k][1] = NodeOf(c)
<1>1. ASSUME NEW k \in 1 .. Len(project[type]), project[type][k][1] = NodeOf(c)
      PROVE  project[type][k][2] = Shows(type, c)
  BY <1>1 DEF project, projectRequest, projectProof, projectProvider, NodeOf, Column, Shows,
              EventType, RequestEvent, ProofEvent, ProviderEvent
<1>2. ASSUME NEW k \in 1 .. Len(project[type])
      PROVE  project[type][k][2] # None
  BY <1>2, ProjectShape DEF Status, None
<1>3. ASSUME Shows(type, c) # None
      PROVE  \E k \in 1 .. Len(project[type]) : project[type][k][1] = NodeOf(c)
  <2>1. CASE type = "provider.completed"
    <3>1. c = "status"
      BY <1>3, <2>1 DEF Shows, Column, None
    <3>2. Len(project[type]) = 5 /\ project[type][5][1] = "req"
      BY <2>1 DEF project, projectProvider, EventType, RequestEvent, ProofEvent, ProviderEvent
    <3> QED
      BY <3>1, <3>2 DEF NodeOf
  <2>2. CASE type # "provider.completed"
    <3>1. Len(project[type]) >= 1 /\ project[type][1][1] = NodeOf(c)
      BY <1>3, <2>2 DEF project, projectRequest, projectProof, projectProvider, NodeOf, Column, Shows,
              EventType, RequestEvent, ProofEvent, ProviderEvent, None
    <3>2. Len(project[type]) \in Nat
      BY ProjectShape
    <3> QED
      BY <3>1, <3>2
  <2> QED
    BY <2>1, <2>2
<1> QED
  BY <1>1, <1>2, <1>3

\* A row has a column for each node; an end is not None.
LEMMA ColumnTypes ==
    ASSUME NEW c \in Column, NEW r \in Requests
    PROVE  <<r, NodeOf(c)>> \in Element /\ None \notin Ends(c)
  BY DEF Column, NodeOf, Element, Node, Ends, None

\* The steps left after the first one.
LEMMA TailPlaces ==
    ASSUME NEW S, NEW s \in Seq(S), s # <<>>
    PROVE  /\ Len(s) \in Nat \ {0} /\ Len(Tail(s)) = Len(s) - 1 /\ Head(s) = s[1]
           /\ \A k \in 1 .. Len(Tail(s)) : k + 1 \in 1 .. Len(s) /\ Tail(s)[k] = s[k + 1]
           /\ \A k \in 1 .. Len(s) : k # 1 => k - 1 \in 1 .. Len(Tail(s)) /\ Tail(s)[k - 1] = s[k]
  BY HeadTailProperties

\* The first step done, the others still are a turn's.
LEMMA TailTold ==
    ASSUME NEW s \in Seq(Step), s # <<>>, ToldAfterWrite(s)
    PROVE  ToldAfterWrite(Tail(s))
<1> DEFINE t == Tail(s)
<1> USE TailPlaces
<1> SUFFICES ASSUME NEW r \in Requests, NEW c \in Column, NEW k \in 1 .. Len(t), Sets(t[k], r, c)
             PROVE  /\ \A l \in 1 .. Len(t) : Sets(t[l], r, c) => k = l
                    /\ \E j \in 1 .. Len(t) :
                         /\ k < j /\ Tells(t[j], r, c) /\ Shows(t[j].type, c) = t[k].status
                         /\ LastTold(t, j, r, c)
  BY DEF ToldAfterWrite
<1>1. k + 1 \in 1 .. Len(s) /\ t[k] = s[k + 1]
  OBVIOUS
<1>2. \A l \in 1 .. Len(t) : Sets(t[l], r, c) => k = l
  <2> SUFFICES ASSUME NEW l \in 1 .. Len(t), Sets(t[l], r, c) PROVE k = l
    OBVIOUS
  <2>1. l + 1 \in 1 .. Len(s) /\ t[l] = s[l + 1]
    OBVIOUS
  <2>2. k + 1 = l + 1
    BY <1>1, <2>1 DEF ToldAfterWrite
  <2> QED
    BY <2>2
<1>3. PICK j \in 1 .. Len(s) :
        /\ k + 1 < j /\ Tells(s[j], r, c) /\ Shows(s[j].type, c) = s[k + 1].status
        /\ LastTold(s, j, r, c)
  BY <1>1 DEF ToldAfterWrite
<1>4. j - 1 \in 1 .. Len(t) /\ t[j - 1] = s[j] /\ k < j - 1
  BY <1>1, <1>3
<1>5. LastTold(t, j - 1, r, c)
  BY <1>3, <1>4 DEF LastTold
<1> QED
  BY <1>1, <1>2, <1>3, <1>4, <1>5

\* What is left after a step that does not show the column tells the same about it.
LEMMA TailTells ==
    ASSUME NEW s \in Seq(Step), s # <<>>, NEW r, NEW c
    PROVE  /\ NotSet(Tail(s), r, c) /\ ~Sets(Head(s), r, c) => NotSet(s, r, c)
           /\ NotSet(s, r, c) => NotSet(Tail(s), r, c)
           /\ LastTold(s, 1, r, c) => LastTold(Tail(s), 0, r, c)
           /\ LastTold(s, 0, r, c) => LastTold(Tail(s), 0, r, c)
           /\ \A k \in 1 .. Len(s) : LastTold(s, k, r, c) => LastTold(Tail(s), k - 1, r, c)
<1> USE TailPlaces
<1>1. NotSet(Tail(s), r, c) /\ ~Sets(Head(s), r, c) => NotSet(s, r, c)
  <2> SUFFICES ASSUME NotSet(Tail(s), r, c), ~Sets(Head(s), r, c), NEW k \in 1 .. Len(s)
               PROVE  ~Sets(s[k], r, c)
    BY DEF NotSet
  <2>1. CASE k = 1
    BY <2>1
  <2>2. CASE k # 1
    BY <2>2 DEF NotSet
  <2> QED
    BY <2>1, <2>2
<1>2. NotSet(s, r, c) => NotSet(Tail(s), r, c)
  BY DEF NotSet
<1>3. \A k \in {0, 1} : LastTold(s, k, r, c) => LastTold(Tail(s), 0, r, c)
  BY DEF LastTold
<1>4. \A k \in 1 .. Len(s) : LastTold(s, k, r, c) => LastTold(Tail(s), k - 1, r, c)
  BY DEF LastTold
<1> QED
  BY <1>1, <1>2, <1>3, <1>4

\* A statement writes its column: the events that are left tell what it wrote.
LEMMA WriteKeepsRows ==
    ASSUME FeedInv, RowsInv, Statement, Head(todo).do # "emit"
    PROVE  RowsInv'
<1> DEFINE s == Head(todo)
<1>1. /\ todo \in Seq(Step) /\ todo # <<>> /\ s \in Step /\ s = todo[1] /\ todo' = Tail(todo)
      /\ Len(todo) \in Nat \ {0} /\ 1 \in 1 .. Len(todo)
  <2>1. todo \in Seq(Step) /\ todo # <<>> /\ todo' = Tail(todo)
    BY DEF FeedInv, TypeOK, Statement
  <2> QED
    BY <2>1, HeadTailProperties, TailPlaces
<1>2. s.do = "write" /\ s.req \in Requests /\ s.column \in Column /\ s.status \in Status
  BY <1>1 DEF Step, Column
<1>3. /\ rows' = [rows EXCEPT ![s.req][s.column] = s.status]
      /\ UNCHANGED <<crashes, handler, watcher, outbox, marked, faulted, graph>>
      /\ ~Draining /\ ~Draining'
  BY DEF Statement, Draining
<1>4. ASSUME NEW r \in Requests, NEW c \in Column
      PROVE  /\ Sets(s, r, c) => RowOf(r, c)' = s.status
             /\ ~Sets(s, r, c) => RowOf(r, c)' = RowOf(r, c)
  <2> DEFINE q == s.req
             d == s.column
             v == s.status
  <2>1. q \in Requests /\ d \in {"status", "proof"} /\ rows' = [rows EXCEPT ![q][d] = v]
    BY <1>2, <1>3 DEF Column
  <2>2. rows \in [Requests -> [status : Status \cup {None}, proof : Status \cup {None}]]
    BY DEF FeedInv, TypeOK
  <2>3. Sets(s, r, c) <=> r = q /\ c = d
    BY <1>2 DEF Sets
  <2> HIDE DEF q, d, v, s
  <2>4. CASE r # q
    BY <2>1, <2>2, <2>3, <2>4 DEF RowOf
  <2>5. CASE r = q /\ d = "status"
    BY <2>1, <2>2, <2>3, <2>5 DEF RowOf, Column, s, v
  <2>6. CASE r = q /\ d = "proof"
    BY <2>1, <2>2, <2>3, <2>6 DEF RowOf, Column, s, v
  <2> QED
    BY <2>1, <2>4, <2>5, <2>6
<1>5. ASSUME NEW r \in Requests, NEW c \in Column, Sets(s, r, c)
      PROVE  /\ RowOf(r, c)' = s.status /\ NotSet(todo', r, c)
             /\ \E j \in 1 .. Len(todo') :
                  /\ Tells(todo'[j], r, c) /\ Shows(todo'[j].type, c) = s.status
                  /\ LastTold(todo', j, r, c)
  <2>1. \A l \in 1 .. Len(todo) : Sets(todo[l], r, c) => 1 = l
    BY <1>1, <1>5 DEF RowsInv, ToldAfterWrite
  <2>2. NotSet(todo', r, c)
    BY <1>1, <2>1, TailPlaces DEF NotSet
  <2>3. PICK j \in 1 .. Len(todo) :
          /\ 1 < j /\ Tells(todo[j], r, c) /\ Shows(todo[j].type, c) = s.status
          /\ LastTold(todo, j, r, c)
    BY <1>1, <1>5 DEF RowsInv, ToldAfterWrite
  <2>4. j - 1 \in 1 .. Len(todo') /\ todo'[j - 1] = todo[j]
    BY <1>1, <2>3, TailPlaces
  <2>5. LastTold(todo', j - 1, r, c)
    BY <1>1, <2>3, TailTells
  <2> QED
    BY <1>4, <1>5, <2>2, <2>3, <2>4, <2>5
<1>6. \A r, c : ~Tells(s, r, c)
  BY <1>2 DEF Tells
<1>7. \A k \in 1 .. Len(todo') : k + 1 \in 1 .. Len(todo) /\ todo'[k] = todo[k + 1]
  BY <1>1, TailPlaces
<1> HIDE DEF s
<1>8. ToldAfterWrite(todo)'
  BY <1>1, TailTold DEF RowsInv
<1>9. EndsAreWritten'
  <2>1. ASSUME NEW r \in Requests, NEW c \in Column, RowOf(r, c) \in Ends(c)
        PROVE  RowOf(r, c)' = RowOf(r, c) /\ NotSet(todo', r, c) /\ ~Sets(s, r, c)
    <3>1. NotSet(todo, r, c)
      BY <2>1 DEF RowsInv, EndsAreWritten
    <3>2. ~Sets(s, r, c)
      BY <1>1, <3>1 DEF NotSet
    <3> QED
      BY <1>1, <1>4, <3>1, <3>2, TailTells
  <2>2. ASSUME NEW r \in Requests, NEW c \in Column, NEW k \in 1 .. Len(todo'),
               Tells(todo'[k], r, c), Shows(todo'[k].type, c) \in Ends(c)
        PROVE  EndWritten(todo', k, r, c) \/ RowOf(r, c)' = Shows(todo'[k].type, c)
    <3>1. k + 1 \in 1 .. Len(todo) /\ todo'[k] = todo[k + 1]
      BY <1>7
    <3>2. EndWritten(todo, k + 1, r, c) \/ RowOf(r, c) = Shows(todo'[k].type, c)
      BY <2>2, <3>1 DEF RowsInv, EndsAreWritten
    <3>3. CASE RowOf(r, c) = Shows(todo'[k].type, c)
      BY <2>1, <2>2, <3>3
    <3>4. CASE EndWritten(todo, k + 1, r, c)
      <4>1. PICK j \in 1 .. Len(todo) :
              j < k + 1 /\ Sets(todo[j], r, c) /\ todo[j].status = Shows(todo'[k].type, c)
        BY <3>1, <3>4 DEF EndWritten
      <4>2. CASE j = 1
        BY <1>1, <1>4, <4>1, <4>2
      <4>3. CASE j # 1
        <5>1. j - 1 \in 1 .. Len(todo') /\ todo'[j - 1] = todo[j] /\ j - 1 < k
          BY <1>1, <4>1, <4>3, TailPlaces
        <5> QED
          BY <4>1, <5>1 DEF EndWritten
      <4> QED
        BY <4>2, <4>3
    <3> QED
      BY <3>2, <3>3, <3>4
  <2>3. ASSUME NEW r \in Requests, NEW c \in Column, graph[<<r, NodeOf(c)>>].status \in Ends(c)
        PROVE  RowOf(r, c)' = graph[<<r, NodeOf(c)>>].status
    <3>1. RowOf(r, c) = graph[<<r, NodeOf(c)>>].status
      BY <2>3 DEF RowsInv, EndsAreWritten
    <3> QED
      BY <2>1, <2>3, <3>1
  <2>4. ASSUME NEW r \in Requests, NEW c \in Column, RowOf(r, c)' \in Ends(c)
        PROVE  NotSet(todo', r, c)
    <3>1. CASE Sets(s, r, c)
      BY <1>5, <3>1
    <3>2. CASE ~Sets(s, r, c)
      BY <1>4, <2>1, <2>4, <3>2
    <3> QED
      BY <3>1, <3>2
  <2> QED
    BY <1>3, <2>2, <2>3, <2>4 DEF EndsAreWritten, EndWritten, NotSet
<1>10. OpenIsUnended'
  <2>1. ASSUME NEW r \in Requests
        PROVE  watcher'[r] # "off" => handler'[r] \in {"execute", "over"}
    BY <1>3 DEF RowsInv, OpenIsUnended
  <2>2. ASSUME NEW r \in Requests, NEW c \in Column, MayWrite(r, c)'
        PROVE  /\ RowOf(r, c)' \notin Ends(c)
               /\ \A k \in 1 .. Len(todo') : Sets(todo'[k], r, c) => todo'[k].status \notin Ends(c)
    <3>1. MayWrite(r, c)
      BY <1>3, <2>2 DEF MayWrite
    <3>2. /\ RowOf(r, c) \notin Ends(c)
          /\ \A k \in 1 .. Len(todo) : Sets(todo[k], r, c) => todo[k].status \notin Ends(c)
      BY <3>1 DEF RowsInv, OpenIsUnended
    <3> QED
      BY <1>1, <1>4, <1>7, <3>2
  <2> QED
    BY <2>1, <2>2 DEF OpenIsUnended
<1>11. OverIsEnded'
  <2> SUFFICES ASSUME crashes = 0, NEW r \in Requests, handler[r] = "over"
               PROVE  \/ RowOf(r, "status")' \in Ends("status")
                      \/ \E k \in 1 .. Len(todo') :
                           Sets(todo'[k], r, "status") /\ todo'[k].status \in Ends("status")
    BY <1>3 DEF OverIsEnded
  <2>1. "status" \in Column
    BY DEF Column
  <2>2. CASE RowOf(r, "status") \in Ends("status")
    <3>1. ~Sets(s, r, "status")
      BY <1>1, <2>1, <2>2 DEF RowsInv, EndsAreWritten, NotSet
    <3> QED
      BY <1>4, <2>1, <2>2, <3>1
  <2>3. CASE RowOf(r, "status") \notin Ends("status")
    <3>1. PICK k \in 1 .. Len(todo) :
            Sets(todo[k], r, "status") /\ todo[k].status \in Ends("status")
      BY <2>3 DEF RowsInv, OverIsEnded
    <3>2. CASE k = 1
      BY <1>1, <1>4, <2>1, <3>1, <3>2
    <3>3. CASE k # 1
      <4>1. k - 1 \in 1 .. Len(todo') /\ todo'[k - 1] = todo[k]
        BY <1>1, <3>1, <3>3, TailPlaces
      <4> QED
        BY <3>1, <4>1
    <3> QED
      BY <3>2, <3>3
  <2> QED
    BY <2>2, <2>3
<1>12. GraphCatchesUp'
  <2> SUFFICES ASSUME crashes = 0, faulted = {}, NEW r \in Requests, NEW c \in Column,
                      NotSet(todo', r, c), c = "status" => RowOf(r, c)' \in Ends(c)
               PROVE  Catches(r, c)'
    BY <1>3 DEF GraphCatchesUp, NotSet
  <2>1. CASE Sets(s, r, c)
    BY <1>5, <2>1 DEF Catches, LastTold
  <2>2. CASE ~Sets(s, r, c)
    <3>1. NotSet(todo, r, c) /\ RowOf(r, c)' = RowOf(r, c)
      BY <1>1, <1>4, <2>2, TailTells DEF s
    <3>2. Catches(r, c)
      BY <3>1 DEF RowsInv, GraphCatchesUp
    <3>3. CASE LastTold(todo, 0, r, c) /\ graph[<<r, NodeOf(c)>>].status = RowOf(r, c)
      <4>1. LastTold(todo', 0, r, c)
        BY <1>1, <3>3, TailTells
      <4> QED
        BY <1>3, <3>1, <3>3, <4>1 DEF Catches, LastTold
    <3>4. CASE \E k \in 1 .. Len(todo) :
                 /\ Tells(todo[k], r, c) /\ Shows(todo[k].type, c) = RowOf(r, c)
                 /\ LastTold(todo, k, r, c)
      <4>1. PICK k \in 1 .. Len(todo) :
                 /\ Tells(todo[k], r, c) /\ Shows(todo[k].type, c) = RowOf(r, c)
                 /\ LastTold(todo, k, r, c)
        BY <3>4
      <4>2. k # 1
        BY <1>1, <1>6, <4>1
      <4>3. k - 1 \in 1 .. Len(todo') /\ todo'[k - 1] = todo[k]
        BY <1>1, <4>1, <4>2, TailPlaces
      <4>4. LastTold(todo', k - 1, r, c)
        BY <1>1, <4>1, TailTells
      <4> QED
        BY <3>1, <4>1, <4>3, <4>4 DEF Catches, LastTold
    <3> QED
      BY <1>3, <3>2, <3>3, <3>4 DEF Catches
  <2> QED
    BY <2>1, <2>2
<1> QED
  BY <1>8, <1>9, <1>10, <1>11, <1>12 DEF RowsInv

\* A statement emits its event: what the event tells is now on its way through the outbox.
LEMMA EmitKeepsRows ==
    ASSUME FeedInv, RowsInv, Statement, Head(todo).do = "emit"
    PROVE  RowsInv'
<1> DEFINE s == Head(todo)
<1>1. /\ todo \in Seq(Step) /\ todo # <<>> /\ s \in Step /\ s = todo[1] /\ todo' = Tail(todo)
      /\ Len(todo) \in Nat \ {0} /\ 1 \in 1 .. Len(todo)
  <2>1. todo \in Seq(Step) /\ todo # <<>> /\ todo' = Tail(todo)
    BY DEF FeedInv, TypeOK, Statement
  <2> QED
    BY <2>1, HeadTailProperties, TailPlaces
<1>2. s.do = "emit" /\ s.req \in Requests /\ s.type \in EventType
  BY <1>1 DEF Step
<1>3. UNCHANGED <<crashes, handler, watcher, rows, marked, faulted, graph>> /\ ~Draining
  BY DEF Statement
<1>4. Draining' /\ Current'.type = s.type /\ Current'.req = s.req
  <2> DEFINE e == [type |-> s.type, req |-> s.req]
  <2>1. outbox \in Seq(Event) /\ marked = Len(outbox) /\ Len(outbox) \in Nat /\ e \in Event
    BY <1>2 DEF FeedInv, TypeOK, Statement, Draining, Event
  <2>2. outbox' = Append(outbox, e) /\ marked' = marked
    BY DEF Statement
  <2> HIDE DEF e
  <2>3. Len(outbox') = Len(outbox) + 1 /\ outbox'[Len(outbox) + 1] = e
    BY <2>1, <2>2, AppendProperties
  <2>4. Draining' /\ Current' = e
    BY <2>1, <2>2, <2>3 DEF Draining, Current
  <2> QED
    BY <2>4 DEF e
<1>5. \A r, c : ~Sets(s, r, c)
  BY <1>2 DEF Sets
<1>6. \A k \in 1 .. Len(todo') : k + 1 \in 1 .. Len(todo) /\ todo'[k] = todo[k + 1]
  BY <1>1, TailPlaces
<1>7. \A r, c : RowOf(r, c)' = RowOf(r, c) /\ (MayWrite(r, c)' <=> MayWrite(r, c))
  BY <1>3 DEF RowOf, MayWrite
<1>8. \A r \in Requests, c \in Column : NotSet(todo', r, c) <=> NotSet(todo, r, c)
  BY <1>1, <1>5, TailTells
<1> HIDE DEF s
<1>9. ToldAfterWrite(todo)'
  BY <1>1, TailTold DEF RowsInv
<1>10. EndsAreWritten'
  <2>1. ASSUME NEW r \in Requests, NEW c \in Column, NEW k \in 1 .. Len(todo'),
               Tells(todo'[k], r, c), Shows(todo'[k].type, c) \in Ends(c)
        PROVE  EndWritten(todo', k, r, c) \/ RowOf(r, c)' = Shows(todo'[k].type, c)
    <3>1. k + 1 \in 1 .. Len(todo) /\ todo'[k] = todo[k + 1]
      BY <1>6
    <3>2. EndWritten(todo, k + 1, r, c) \/ RowOf(r, c) = Shows(todo'[k].type, c)
      BY <2>1, <3>1 DEF RowsInv, EndsAreWritten
    <3>3. CASE EndWritten(todo, k + 1, r, c)
      <4>1. PICK j \in 1 .. Len(todo) :
              j < k + 1 /\ Sets(todo[j], r, c) /\ todo[j].status = Shows(todo'[k].type, c)
        BY <3>1, <3>3 DEF EndWritten
      <4>2. j # 1
        BY <1>1, <1>5, <4>1
      <4>3. j - 1 \in 1 .. Len(todo') /\ todo'[j - 1] = todo[j] /\ j - 1 < k
        BY <1>1, <4>1, <4>2, TailPlaces
      <4> QED
        BY <4>1, <4>3 DEF EndWritten
    <3> QED
      BY <1>7, <3>2, <3>3
  <2>2. ASSUME NEW c \in Column, Shows(s.type, c) \in Ends(c)
        PROVE  RowOf(s.req, c) = Shows(s.type, c)
    <3>1. Tells(todo[1], s.req, c)
      BY <1>1, <1>2, <2>2, ColumnTypes DEF Tells
    <3>2. ~EndWritten(todo, 1, s.req, c)
      BY DEF EndWritten
    <3> QED
      BY <1>1, <1>2, <2>2, <3>1, <3>2 DEF RowsInv, EndsAreWritten
  <2>3. ASSUME NEW c \in Column, Shows(Current'.type, c) \in Ends(c)
        PROVE  RowOf(Current.req, c)' = Shows(Current'.type, c)
    BY <1>3, <1>4, <2>2, <2>3 DEF RowOf
  <2>4. \A r \in Requests, c \in Column : graph'[<<r, NodeOf(c)>>].status \in Ends(c) =>
          RowOf(r, c)' = graph'[<<r, NodeOf(c)>>].status
    BY <1>3, <1>7 DEF RowsInv, EndsAreWritten
  <2>5. \A r \in Requests, c \in Column : RowOf(r, c)' \in Ends(c) => NotSet(todo', r, c)
    BY <1>7, <1>8 DEF RowsInv, EndsAreWritten
  <2> QED
    BY <2>1, <2>3, <2>4, <2>5 DEF EndsAreWritten, EndWritten, NotSet, RowOf
<1>11. OpenIsUnended'
  <2>1. \A r \in Requests, c \in Column : MayWrite(r, c) =>
          /\ RowOf(r, c) \notin Ends(c)
          /\ \A k \in 1 .. Len(todo') : Sets(todo'[k], r, c) => todo'[k].status \notin Ends(c)
    BY <1>6 DEF RowsInv, OpenIsUnended
  <2> QED
    BY <1>3, <1>7, <2>1 DEF RowsInv, OpenIsUnended
<1>12. OverIsEnded'
  <2> SUFFICES ASSUME crashes = 0, NEW r \in Requests, handler[r] = "over",
                      RowOf(r, "status") \notin Ends("status")
               PROVE  \E k \in 1 .. Len(todo') :
                           Sets(todo'[k], r, "status") /\ todo'[k].status \in Ends("status")
    BY <1>3, <1>7 DEF OverIsEnded
  <2>1. PICK k \in 1 .. Len(todo) : Sets(todo[k], r, "status") /\ todo[k].status \in Ends("status")
    BY DEF RowsInv, OverIsEnded
  <2>2. k # 1
    BY <1>1, <1>5, <2>1
  <2>3. k - 1 \in 1 .. Len(todo') /\ todo'[k - 1] = todo[k]
    BY <1>1, <2>1, <2>2, TailPlaces
  <2> QED
    BY <2>1, <2>3
<1>13. GraphCatchesUp'
  <2> SUFFICES ASSUME crashes = 0, faulted = {}, NEW r \in Requests, NEW c \in Column,
                      NotSet(todo', r, c), c = "status" => RowOf(r, c) \in Ends(c)
               PROVE  Catches(r, c)'
    BY <1>3, <1>7 DEF GraphCatchesUp, NotSet
  <2>1. Catches(r, c)
    BY <1>8 DEF RowsInv, GraphCatchesUp
  <2>2. CASE LastTold(todo, 0, r, c) /\ graph[<<r, NodeOf(c)>>].status = RowOf(r, c)
    <3>1. LastTold(todo', 0, r, c) /\ ~Tells(todo[1], r, c)
      BY <1>1, <2>2, TailTells DEF LastTold
    <3>2. ~(Current'.req = r /\ Shows(Current'.type, c) # None)
      BY <1>1, <1>2, <1>4, <3>1 DEF Tells
    <3> QED
      BY <1>3, <1>7, <2>2, <3>1, <3>2 DEF Catches, LastTold
  <2>3. CASE \E k \in 1 .. Len(todo) :
               /\ Tells(todo[k], r, c) /\ Shows(todo[k].type, c) = RowOf(r, c)
               /\ LastTold(todo, k, r, c)
    <3>1. PICK k \in 1 .. Len(todo) :
               /\ Tells(todo[k], r, c) /\ Shows(todo[k].type, c) = RowOf(r, c)
               /\ LastTold(todo, k, r, c)
      BY <2>3
    <3>2. LastTold(todo', k - 1, r, c)
      BY <1>1, <3>1, TailTells
    <3>3. CASE k = 1
      <4>1. Current'.req = r /\ Shows(Current'.type, c) # None /\ Shows(Current'.type, c) = RowOf(r, c)
        BY <1>1, <1>4, <3>1, <3>3 DEF Tells
      <4>2. LastTold(todo', 0, r, c)
        BY <3>2, <3>3
      <4> QED
        BY <1>4, <1>7, <4>1, <4>2 DEF Catches, LastTold
    <3>4. CASE k # 1
      <4>1. k - 1 \in 1 .. Len(todo') /\ todo'[k - 1] = todo[k]
        BY <1>1, <3>1, <3>4, TailPlaces
      <4> QED
        BY <1>7, <3>1, <3>2, <4>1 DEF Catches, LastTold
    <3> QED
      BY <3>3, <3>4
  <2> QED
    BY <1>3, <2>1, <2>2, <2>3 DEF Catches
<1> QED
  BY <1>9, <1>10, <1>11, <1>12, <1>13 DEF RowsInv

\* The steps that leave the handlers, the rows and what is to do alone.
LEMMA TurnsKept ==
    ASSUME RowsInv, UNCHANGED <<crashes, handler, watcher, todo, rows>>
    PROVE  /\ ToldAfterWrite(todo)' /\ OpenIsUnended' /\ OverIsEnded'
           /\ \A r, c : RowOf(r, c)' = RowOf(r, c)
           /\ \A r \in Requests, c \in Column, k \in 1 .. Len(todo) :
                Tells(todo[k], r, c) /\ Shows(todo[k].type, c) \in Ends(c) =>
                  EndWritten(todo, k, r, c) \/ RowOf(r, c) = Shows(todo[k].type, c)
<1>1. ToldAfterWrite(todo)'
  BY DEF RowsInv, ToldAfterWrite, LastTold
<1>2. OpenIsUnended' /\ OverIsEnded'
  BY DEF RowsInv, OpenIsUnended, OverIsEnded, RowOf, MayWrite
<1> QED
  BY <1>1, <1>2 DEF RowsInv, EndsAreWritten, RowOf

\* A write of the graph shows what the event tells, of its own node only.
LEMMA UpsertKeepsRows ==
    ASSUME FeedInv, RowsInv, Upsert
    PROVE  RowsInv'
<1>1. UNCHANGED <<crashes, handler, watcher, todo, rows, outbox, marked, faulted>>
      /\ Draining /\ Draining' /\ Current' = Current
  BY DEF Upsert, Unserved, Draining, Current
<1> DEFINE w == Writes[done + 1]
           x == <<Current.req, w[1]>>
<1>2. /\ done + 1 \in 1 .. Len(project[Current.type]) /\ w = project[Current.type][done + 1]
      /\ Current.type \in EventType /\ Current.req \in Requests
  BY <1>1, DrainingTypes, ProjectShape DEF Upsert, FeedInv, TypeOK
<1>3. ASSUME NEW r \in Requests, NEW c \in Column
      PROVE  \/ graph'[<<r, NodeOf(c)>>].status = graph[<<r, NodeOf(c)>>].status
             \/ /\ graph'[<<r, NodeOf(c)>>].status = Shows(Current.type, c)
                /\ Current.req = r /\ Shows(Current.type, c) # None
  <2> DEFINE y == <<r, NodeOf(c)>>
             value == [status |-> w[2], at |-> marked + 1]
  <2>1. y \in Element /\ graph \in [Element -> Value]
    BY ColumnTypes DEF FeedInv, TypeOK
  <2>2. graph' = graph \/ graph' = [graph EXCEPT ![x] = value]
    BY DEF Upsert
  <2> HIDE DEF x, value, w
  <2>3. CASE x = y
    <3>1. Current.req = r /\ w[1] = NodeOf(c)
      BY <2>3 DEF x
    <3>2. w[2] = Shows(Current.type, c) /\ Shows(Current.type, c) # None
      BY <1>2, <3>1, ProjectShows
    <3> QED
      BY <2>1, <2>2, <2>3, <3>1, <3>2 DEF value
  <2>4. CASE x # y
    BY <2>1, <2>2, <2>4
  <2> QED
    BY <2>3, <2>4
<1> HIDE DEF w, x
<1>4. EndsAreWritten'
  <2>1. \A c \in Column : Shows(Current.type, c) \in Ends(c) => RowOf(Current.req, c) = Shows(Current.type, c)
    BY <1>1 DEF RowsInv, EndsAreWritten
  <2>2. \A r \in Requests, c \in Column : graph'[<<r, NodeOf(c)>>].status \in Ends(c) =>
          RowOf(r, c) = graph'[<<r, NodeOf(c)>>].status
    BY <1>3, <2>1 DEF RowsInv, EndsAreWritten
  <2>3. \A r \in Requests, c \in Column : RowOf(r, c) \in Ends(c) => NotSet(todo, r, c)
    BY DEF RowsInv, EndsAreWritten
  <2> QED
    BY <1>1, <2>1, <2>2, <2>3, TurnsKept DEF EndsAreWritten, EndWritten, NotSet, RowOf
<1>5. GraphCatchesUp'
  <2> SUFFICES ASSUME crashes = 0, faulted = {}, NEW r \in Requests, NEW c \in Column,
                      NotSet(todo, r, c), c = "status" => RowOf(r, c) \in Ends(c)
               PROVE  Catches(r, c)'
    BY <1>1 DEF GraphCatchesUp, NotSet, RowOf
  <2>1. Catches(r, c)
    BY DEF RowsInv, GraphCatchesUp
  <2> QED
    BY <1>1, <1>3, <2>1 DEF Catches, LastTold, RowOf
<1> QED
  BY <1>1, <1>4, <1>5, TurnsKept DEF RowsInv

\* An event is marked when all its writes are made: the graph shows what it told.
LEMMA MarkKeepsRows ==
    ASSUME FeedInv, RowsInv, Mark \/ ProjectionFails
    PROVE  RowsInv'
<1>1. /\ UNCHANGED <<crashes, handler, watcher, todo, rows, outbox, graph>>
      /\ Draining /\ marked + 1 = Len(outbox) /\ Len(outbox) \in Nat /\ ~Draining'
      /\ Current.type \in EventType /\ Current.req \in Requests /\ Writes = project[Current.type]
  BY DrainingTypes DEF Mark, ProjectionFails, Unserved, Draining, FeedInv
<1>2. EndsAreWritten'
  BY <1>1, TurnsKept DEF RowsInv, EndsAreWritten, EndWritten, NotSet, RowOf
<1>3. CASE ProjectionFails
  <2>1. faulted' # {}
    BY <1>3 DEF ProjectionFails
  <2>2. GraphCatchesUp'
    BY <2>1 DEF GraphCatchesUp
  <2> QED
    BY <1>1, <1>2, <2>2, TurnsKept DEF RowsInv
<1>4. CASE Mark
  <2>1. ASSUME NEW c \in Column, Shows(Current.type, c) # None
        PROVE  graph[<<Current.req, NodeOf(c)>>].status = Shows(Current.type, c)
    <3> DEFINE x == <<Current.req, NodeOf(c)>>
    <3>1. PICK k \in 1 .. Len(Writes) : Writes[k][1] = NodeOf(c)
      BY <1>1, <2>1, ProjectShows
    <3>2. x \in Element /\ x[2] \in Node
      BY <1>1, ColumnTypes DEF NodeOf, Node
    <3>3. done = Len(Writes)
      BY <1>4 DEF Mark
    <3>4. graph[x] # Absent /\ graph[x].at = marked + 1
      BY <1>1, <3>1, <3>2, <3>3 DEF FeedInv, HalfDone
    <3>5. graph[x].status = Gives(marked + 1, x)
      BY <3>2, <3>4 DEF FeedInv, ShownIsEvent
    <3> DEFINE i == CHOOSE l \in 1 .. Len(Writes) : Writes[l][1] = x[2]
    <3>6. i \in 1 .. Len(Writes) /\ Writes[i][1] = NodeOf(c)
      BY <3>1
    <3>7. Gives(marked + 1, x) = Writes[i][2]
      BY DEF Gives, Writes, Current
    <3> HIDE DEF i, x
    <3>8. Writes[i][2] = Shows(Current.type, c)
      BY <1>1, <3>6, ProjectShows
    <3> QED
      BY <3>5, <3>7, <3>8 DEF x
  <2>2. GraphCatchesUp'
    <3> SUFFICES ASSUME crashes = 0, faulted = {}, NEW r \in Requests, NEW c \in Column,
                        NotSet(todo, r, c), c = "status" => RowOf(r, c) \in Ends(c)
                 PROVE  Catches(r, c)'
      BY <1>1, <1>4 DEF Mark, GraphCatchesUp, NotSet, RowOf
    <3>1. Catches(r, c)
      BY DEF RowsInv, GraphCatchesUp
    <3> QED
      BY <1>1, <2>1, <3>1 DEF Catches, LastTold, RowOf
  <2> QED
    BY <1>1, <1>2, <2>2, TurnsKept DEF RowsInv
<1> QED
  BY <1>3, <1>4

\* The course of a turn: its steps are about its request, write the columns and statuses W,
\* show at most the columns T, and show no end that was not written before.
Course(steps, r, W, T) ==
    /\ steps \in Seq(Step) /\ \A k \in 1 .. Len(steps) : steps[k].req = r
    /\ ToldAfterWrite(steps)
    /\ \A c \in Column, k \in 1 .. Len(steps) :
         Tells(steps[k], r, c) /\ Shows(steps[k].type, c) \in Ends(c) => EndWritten(steps, k, r, c)
    /\ \A c \in Column, k \in 1 .. Len(steps) :
         (Sets(steps[k], r, c) => <<c, steps[k].status>> \in W) /\ (Tells(steps[k], r, c) => c \in T)
    /\ \A w \in W : \E k \in 1 .. Len(steps) : Sets(steps[k], r, w[1]) /\ steps[k].status = w[2]

\* A turn keeps the rows and the graph together if it writes only what may still be
\* written, leaves open only what was open and gets no end, ends a handler with an end, and
\* shows a column that it does not write only while the request is under way.
LEMMA TurnKeepsRows ==
    ASSUME FeedInv, RowsInv, NEW r \in Requests, NEW await, NEW steps, NEW W, NEW T,
           Turn(r, await, steps), Course(steps, r, W, T),
           \A w \in W : MayWrite(r, w[1]),
           await = "over" => handler[r] = "over" \/ \E w \in W : w[1] = "status" /\ w[2] \in Ends("status"),
           \A c \in T : (c = "status" /\ handler[r] # "over") \/ \E w \in W : w[1] = c,
           \A q \in Requests \ {r} : watcher'[q] = watcher[q],
           watcher'[r] # "off" => await \in {"execute", "over"},
           \A c \in Column : MayWrite(r, c)' =>
             MayWrite(r, c) /\ \A w \in W : w[1] = c => w[2] \notin Ends(c)
    PROVE  RowsInv'
<1>1. /\ todo = <<>> /\ Len(todo) = 0 /\ todo' = steps /\ ~Draining /\ ~Draining'
      /\ UNCHANGED <<crashes, rows, outbox, marked, faulted, graph>>
  BY DEF Turn, Idle, Draining
<1>2. /\ handler \in [Requests -> {"new", "gate", "execute", "over"}]
      /\ handler'[r] = await /\ \A q \in Requests \ {r} : handler'[q] = handler[q]
  BY DEF Turn, FeedInv, TypeOK
<1>3. \A q, c : RowOf(q, c)' = RowOf(q, c)
  BY <1>1 DEF RowOf
<1>4. \A q \in Requests, k \in 1 .. Len(steps) : q # r => \A c : ~Sets(steps[k], q, c) /\ ~Tells(steps[k], q, c)
  BY DEF Course, Sets, Tells
<1>5. \A q \in Requests \ {r}, c \in Column : MayWrite(q, c)' <=> MayWrite(q, c)
  BY <1>2 DEF MayWrite
<1>6. ToldAfterWrite(todo)'
  BY <1>1 DEF Course
<1>7. EndsAreWritten'
  <2>1. ASSUME NEW q \in Requests, NEW c \in Column, NEW k \in 1 .. Len(steps),
               Tells(steps[k], q, c), Shows(steps[k].type, c) \in Ends(c)
        PROVE  EndWritten(steps, k, q, c)
    <3>1. q = r
      BY <1>4, <2>1
    <3> QED
      BY <2>1, <3>1 DEF Course
  <2>2. \A q \in Requests, c \in Column : graph[<<q, NodeOf(c)>>].status \in Ends(c) =>
          RowOf(q, c) = graph[<<q, NodeOf(c)>>].status
    BY DEF RowsInv, EndsAreWritten
  <2>3. ASSUME NEW q \in Requests, NEW c \in Column, RowOf(q, c) \in Ends(c)
        PROVE  NotSet(steps, q, c)
    <3>1. CASE q # r
      BY <1>4, <3>1 DEF NotSet
    <3>2. CASE q = r
      <4>1. ~MayWrite(r, c)
        BY <2>3, <3>2 DEF RowsInv, OpenIsUnended
      <4> QED
        BY <3>2, <4>1 DEF Course, NotSet
    <3> QED
      BY <3>1, <3>2
  <2> QED
    BY <1>1, <1>3, <2>1, <2>2, <2>3 DEF EndsAreWritten, EndWritten, NotSet
<1>8. OpenIsUnended'
  <2>1. ASSUME NEW q \in Requests
        PROVE  watcher'[q] # "off" => handler'[q] \in {"execute", "over"}
    BY <1>2 DEF RowsInv, OpenIsUnended
  <2>2. ASSUME NEW q \in Requests, NEW c \in Column, MayWrite(q, c)'
        PROVE  /\ RowOf(q, c) \notin Ends(c)
               /\ \A k \in 1 .. Len(steps) : Sets(steps[k], q, c) => steps[k].status \notin Ends(c)
    <3>1. MayWrite(q, c)
      BY <1>5, <2>2
    <3>2. RowOf(q, c) \notin Ends(c)
      BY <3>1 DEF RowsInv, OpenIsUnended
    <3>3. ASSUME NEW k \in 1 .. Len(steps), Sets(steps[k], q, c)
          PROVE  steps[k].status \notin Ends(c)
      <4>1. q = r
        BY <1>4, <3>3
      <4>2. <<c, steps[k].status>> \in W
        BY <3>3, <4>1 DEF Course
      <4> QED
        BY <2>2, <4>1, <4>2
    <3> QED
      BY <3>2, <3>3
  <2> QED
    BY <1>1, <1>3, <2>1, <2>2 DEF OpenIsUnended
<1>9. OverIsEnded'
  <2> SUFFICES ASSUME crashes = 0, NEW q \in Requests, handler'[q] = "over",
                      RowOf(q, "status") \notin Ends("status")
               PROVE  \E k \in 1 .. Len(steps) :
                        Sets(steps[k], q, "status") /\ steps[k].status \in Ends("status")
    BY <1>1, <1>3 DEF OverIsEnded
  <2>1. handler[q] # "over"
    BY <1>1 DEF RowsInv, OverIsEnded
  <2> QED
    BY <1>2, <2>1 DEF Course
<1>10. GraphCatchesUp'
  <2> SUFFICES ASSUME crashes = 0, faulted = {}, NEW q \in Requests, NEW c \in Column,
                      NotSet(steps, q, c), c = "status" => RowOf(q, c) \in Ends(c)
               PROVE  Catches(q, c)'
    BY <1>1, <1>3 DEF GraphCatchesUp, NotSet
  <2>1. NotSet(todo, q, c)
    BY <1>1 DEF NotSet
  <2>2. Catches(q, c)
    BY <2>1 DEF RowsInv, GraphCatchesUp
  <2>3. graph[<<q, NodeOf(c)>>].status = RowOf(q, c)
    BY <1>1, <2>2 DEF Catches
  <2>4. LastTold(steps, 0, q, c)
    <3> SUFFICES ASSUME NEW l \in 1 .. Len(steps), Tells(steps[l], q, c) PROVE FALSE
      BY DEF LastTold
    <3>1. q = r
      BY <1>4
    <3>2. c = "status" /\ handler[r] # "over"
      <4>1. c \in T
        BY <3>1 DEF Course
      <4>2. \A w \in W : w[1] # c
        BY <3>1 DEF Course, NotSet
      <4> QED
        BY <4>1, <4>2
    <3>3. MayWrite(r, c)
      BY <3>2 DEF MayWrite
    <3> QED
      BY <3>1, <3>2, <3>3 DEF RowsInv, OpenIsUnended
  <2> QED
    BY <1>1, <1>3, <2>3, <2>4 DEF Catches, LastTold
<1> QED
  BY <1>6, <1>7, <1>8, <1>9, <1>10 DEF RowsInv

\* When a sequence is two others joined.
LEMMA JoinIs ==
    ASSUME NEW S, NEW s \in Seq(S), NEW t \in Seq(S), NEW u \in Seq(S), Len(u) = Len(s) + Len(t),
           \A i \in 1 .. Len(u) : u[i] = IF i <= Len(s) THEN s[i] ELSE t[i - Len(s)]
    PROVE  s \o t = u
<1>1. /\ s \o t \in Seq(S) /\ Len(s \o t) = Len(u)
      /\ \A i \in 1 .. Len(s \o t) : (s \o t)[i] = u[i]
  BY ConcatProperties
<1> QED
  BY <1>1, SeqEqual

\* Two and two joined.
LEMMA Join22 ==
    ASSUME NEW a, NEW b, NEW c, NEW d
    PROVE  <<a, b>> \o <<c, d>> = <<a, b, c, d>>
<1> DEFINE S == {a, b, c, d}
           s == <<a, b>>
           t == <<c, d>>
           u == <<a, b, c, d>>
<1>1. s \in Seq(S) /\ t \in Seq(S) /\ u \in Seq(S)
  OBVIOUS
<1>2. Len(u) = Len(s) + Len(t) /\ \A i \in 1 .. Len(u) : u[i] = IF i <= Len(s) THEN s[i] ELSE t[i - Len(s)]
  OBVIOUS
<1> HIDE DEF S, s, t, u
<1>3. s \o t = u
  BY <1>1, <1>2, JoinIs
<1> QED
  BY <1>3 DEF s, t, u

\* Two and one joined.
LEMMA Join21 ==
    ASSUME NEW a, NEW b, NEW c
    PROVE  <<a, b>> \o <<c>> = <<a, b, c>>
<1> DEFINE S == {a, b, c}
           s == <<a, b>>
           t == <<c>>
           u == <<a, b, c>>
<1>1. s \in Seq(S) /\ t \in Seq(S) /\ u \in Seq(S)
  OBVIOUS
<1>2. Len(u) = Len(s) + Len(t) /\ \A i \in 1 .. Len(u) : u[i] = IF i <= Len(s) THEN s[i] ELSE t[i - Len(s)]
  OBVIOUS
<1> HIDE DEF S, s, t, u
<1>3. s \o t = u
  BY <1>1, <1>2, JoinIs
<1> QED
  BY <1>3 DEF s, t, u

\* Three and two joined.
LEMMA Join32 ==
    ASSUME NEW a, NEW b, NEW c, NEW d, NEW e
    PROVE  <<a, b, c>> \o <<d, e>> = <<a, b, c, d, e>>
<1> DEFINE S == {a, b, c, d, e}
           s == <<a, b, c>>
           t == <<d, e>>
           u == <<a, b, c, d, e>>
<1>1. s \in Seq(S) /\ t \in Seq(S) /\ u \in Seq(S)
  OBVIOUS
<1>2. Len(u) = Len(s) + Len(t) /\ \A i \in 1 .. Len(u) : u[i] = IF i <= Len(s) THEN s[i] ELSE t[i - Len(s)]
  OBVIOUS
<1> HIDE DEF S, s, t, u
<1>3. s \o t = u
  BY <1>1, <1>2, JoinIs
<1> QED
  BY <1>3 DEF s, t, u

\* One and two joined.
LEMMA Join12 ==
    ASSUME NEW a, NEW b, NEW c
    PROVE  <<a>> \o <<b, c>> = <<a, b, c>>
<1> DEFINE S == {a, b, c}
           s == <<a>>
           t == <<b, c>>
           u == <<a, b, c>>
<1>1. s \in Seq(S) /\ t \in Seq(S) /\ u \in Seq(S)
  OBVIOUS
<1>2. Len(u) = Len(s) + Len(t) /\ \A i \in 1 .. Len(u) : u[i] = IF i <= Len(s) THEN s[i] ELSE t[i - Len(s)]
  OBVIOUS
<1> HIDE DEF S, s, t, u
<1>3. s \o t = u
  BY <1>1, <1>2, JoinIs
<1> QED
  BY <1>3 DEF s, t, u

\* One and five joined.
LEMMA Join15 ==
    ASSUME NEW a, NEW b, NEW c, NEW d, NEW e, NEW f
    PROVE  <<a>> \o <<b, c, d, e, f>> = <<a, b, c, d, e, f>>
<1> DEFINE S == {a, b, c, d, e, f}
           s == <<a>>
           t == <<b, c, d, e, f>>
           u == <<a, b, c, d, e, f>>
<1>1. s \in Seq(S) /\ t \in Seq(S) /\ u \in Seq(S)
  OBVIOUS
<1>2. Len(u) = Len(s) + Len(t) /\ \A i \in 1 .. Len(u) : u[i] = IF i <= Len(s) THEN s[i] ELSE t[i - Len(s)]
  OBVIOUS
<1> HIDE DEF S, s, t, u
<1>3. s \o t = u
  BY <1>1, <1>2, JoinIs
<1> QED
  BY <1>3 DEF s, t, u

\* The statuses that the events of the turns show.
LEMMA ShowsTable ==
    /\ Shows("request.received", "status") = "RECEIVED" /\ Shows("request.received", "proof") = None
    /\ Shows("policy.allowed", "status") = "AUTHORIZED" /\ Shows("policy.allowed", "proof") = None
    /\ Shows("policy.denied", "status") = "DENIED" /\ Shows("policy.denied", "proof") = None
    /\ Shows("request.failed", "status") = "FAILED" /\ Shows("request.failed", "proof") = None
    /\ Shows("route.selected", "status") = "ROUTING" /\ Shows("route.selected", "proof") = None
    /\ Shows("provider.started", "status") = "PROVIDER_RUNNING" /\ Shows("provider.started", "proof") = None
    /\ Shows("provider.failed", "status") = None /\ Shows("provider.failed", "proof") = None
    /\ Shows("provider.completed", "status") = "COMPLETE" /\ Shows("provider.completed", "proof") = None
    /\ Shows("receipt.created", "status") = None /\ Shows("receipt.created", "proof") = None
    /\ Shows("proof.queued", "status") = None /\ Shows("proof.queued", "proof") = "QUEUED"
    /\ Shows("proof.started", "status") = None /\ Shows("proof.started", "proof") = "PROVING"
    /\ Shows("proof.generated", "status") = None /\ Shows("proof.generated", "proof") = "GENERATED"
    /\ Shows("proof.completed", "status") = None /\ Shows("proof.completed", "proof") = "VERIFIED"
    /\ Shows("proof.failed", "status") = None /\ Shows("proof.failed", "proof") = "FAILED"
  BY DEF Shows

\* What a write does.
LEMMA WriteDoes ==
    ASSUME NEW r, NEW d, NEW v
    PROVE  /\ Write(r, d, v).req = r /\ Write(r, d, v).status = v
           /\ \A q, c : (Sets(Write(r, d, v), q, c) <=> q = r /\ c = d) /\ ~Tells(Write(r, d, v), q, c)
  BY DEF Write, Sets, Tells

\* What an emit does.
LEMMA EmitDoes ==
    ASSUME NEW r, NEW t
    PROVE  /\ Emit(r, t).req = r /\ Emit(r, t).type = t
           /\ \A q, c : ~Sets(Emit(r, t), q, c) /\ (Tells(Emit(r, t), q, c) <=> q = r /\ Shows(t, c) # None)
  BY DEF Emit, Sets, Tells

\* A write and the event that shows it.
LEMMA PairCourse ==
    ASSUME NEW r \in Requests, NEW d \in Column, NEW v \in Status, NEW t \in EventType,
           Shows(t, d) = v, \A c \in Column : c # d => Shows(t, c) = None
    PROVE  Course(<<Write(r, d, v), Emit(r, t)>>, r, {<<d, v>>}, {d})
<1> DEFINE s == <<Write(r, d, v), Emit(r, t)>>
<1>1. Len(s) = 2 /\ s[1] = Write(r, d, v) /\ s[2] = Emit(r, t)
  OBVIOUS
<1>2. s \in Seq(Step)
  <2>1. Write(r, d, v) \in Step /\ Emit(r, t) \in Step
    BY StepTypes DEF Column
  <2> QED
    BY <2>1
<1> HIDE DEF s
<1>3. \A k \in 1 .. 2 : s[k].req = r
  BY <1>1, WriteDoes, EmitDoes
<1>4. \A k \in 1 .. 2 : \A q, c : Sets(s[k], q, c) <=> q = r /\ k = 1 /\ c = d
  <2>1. \A q, c : Sets(s[1], q, c) <=> q = r /\ c = d
    BY <1>1, WriteDoes
  <2>2. \A q, c : ~Sets(s[2], q, c)
    BY <1>1, EmitDoes
  <2> QED
    BY <2>1, <2>2
<1>5. \A k \in 1 .. 2 : \A q : \A c \in Column : Tells(s[k], q, c) <=> q = r /\ k = 2 /\ c = d
  <2>1. v # None
    BY DEF Status, None
  <2>2. \A q : \A c \in Column : ~Tells(s[1], q, c)
    BY <1>1, WriteDoes
  <2>3. \A q : \A c \in Column : Tells(s[2], q, c) <=> q = r /\ c = d
    BY <1>1, <2>1, EmitDoes
  <2> QED
    BY <2>2, <2>3
<1>6. s[1].status = v /\ Shows(s[2].type, d) = v
  BY <1>1, WriteDoes, EmitDoes
<1>7. ToldAfterWrite(s)
  BY <1>1, <1>4, <1>5, <1>6 DEF ToldAfterWrite, LastTold
<1>8. \A c \in Column, k \in 1 .. 2 :
        Tells(s[k], r, c) /\ Shows(s[k].type, c) \in Ends(c) => EndWritten(s, k, r, c)
  BY <1>1, <1>4, <1>5, <1>6 DEF EndWritten
<1>9. Course(s, r, {<<d, v>>}, {d})
  BY <1>1, <1>2, <1>3, <1>4, <1>5, <1>6, <1>7, <1>8 DEF Course
<1> QED
  BY <1>9 DEF s

\* A verdict that denies.
LEMMA DeniedCourse ==
    ASSUME NEW r \in Requests
    PROVE  Course(<<Write(r, "proof", "QUEUED"), Emit(r, "proof.queued"),
                    Write(r, "status", "DENIED"), Emit(r, "policy.denied")>>,
                  r, {<<"proof", "QUEUED">>, <<"status", "DENIED">>}, {"proof", "status"})
<1> DEFINE s == <<Write(r, "proof", "QUEUED"), Emit(r, "proof.queued"),
                  Write(r, "status", "DENIED"), Emit(r, "policy.denied")>>
<1>1. /\ Len(s) = 4
      /\ s[1] = Write(r, "proof", "QUEUED")
      /\ s[2] = Emit(r, "proof.queued")
      /\ s[3] = Write(r, "status", "DENIED")
      /\ s[4] = Emit(r, "policy.denied")
  OBVIOUS
<1>2. s \in Seq(Step)
  <2>1. /\ Write(r, "proof", "QUEUED") \in Step
        /\ Emit(r, "proof.queued") \in Step
        /\ Write(r, "status", "DENIED") \in Step
        /\ Emit(r, "policy.denied") \in Step
    BY StepTypes DEF Status, EventType, RequestEvent, ProofEvent, ProviderEvent
  <2> QED
    BY <2>1
<1> HIDE DEF s
<1>3. \A k \in 1 .. 4 : s[k].req = r
  BY <1>1, WriteDoes, EmitDoes
<1>4. \A k \in 1 .. 4 : \A q, c : Sets(s[k], q, c) <=> q = r /\ ((k = 1 /\ c = "proof") \/ (k = 3 /\ c = "status"))
  BY <1>1, WriteDoes, EmitDoes
<1>5. \A k \in 1 .. 4 : \A q : \A c \in Column : Tells(s[k], q, c) <=> q = r /\ ((k = 2 /\ c = "proof") \/ (k = 4 /\ c = "status"))
  <2>1. \A q : \A c \in Column : ~Tells(s[1], q, c)
    BY <1>1, WriteDoes
  <2>2. \A q : \A c \in Column : Tells(s[2], q, c) <=> q = r /\ c = "proof"
    BY <1>1, EmitDoes, ShowsTable DEF Column, None
  <2>3. \A q : \A c \in Column : ~Tells(s[3], q, c)
    BY <1>1, WriteDoes
  <2>4. \A q : \A c \in Column : Tells(s[4], q, c) <=> q = r /\ c = "status"
    BY <1>1, EmitDoes, ShowsTable DEF Column, None
  <2> QED
    BY <2>1, <2>2, <2>3, <2>4
<1>6. s[1].status = "QUEUED" /\ s[3].status = "DENIED"
      /\ Shows(s[2].type, "proof") = "QUEUED"
      /\ Shows(s[4].type, "status") = "DENIED"
  BY <1>1, WriteDoes, EmitDoes, ShowsTable
<1>7. ToldAfterWrite(s)
  BY <1>1, <1>4, <1>5, <1>6 DEF ToldAfterWrite, LastTold, Column
<1>8. \A c \in Column, k \in 1 .. 4 :
        Tells(s[k], r, c) /\ Shows(s[k].type, c) \in Ends(c) => EndWritten(s, k, r, c)
  BY <1>1, <1>4, <1>5, <1>6 DEF EndWritten, Ends, Column
<1>9. Course(s, r, {<<"proof", "QUEUED">>, <<"status", "DENIED">>}, {"proof", "status"})
  BY <1>1, <1>2, <1>3, <1>4, <1>5, <1>6, <1>7, <1>8 DEF Course, Column
<1> QED
  BY <1>9 DEF s

\* A verdict that allows.
LEMMA AllowedCourse ==
    ASSUME NEW r \in Requests
    PROVE  Course(<<Write(r, "proof", "QUEUED"), Emit(r, "proof.queued"),
                    Emit(r, "policy.allowed")>>,
                  r, {<<"proof", "QUEUED">>}, {"proof", "status"})
<1> DEFINE s == <<Write(r, "proof", "QUEUED"), Emit(r, "proof.queued"),
                  Emit(r, "policy.allowed")>>
<1>1. /\ Len(s) = 3
      /\ s[1] = Write(r, "proof", "QUEUED")
      /\ s[2] = Emit(r, "proof.queued")
      /\ s[3] = Emit(r, "policy.allowed")
  OBVIOUS
<1>2. s \in Seq(Step)
  <2>1. /\ Write(r, "proof", "QUEUED") \in Step
        /\ Emit(r, "proof.queued") \in Step
        /\ Emit(r, "policy.allowed") \in Step
    BY StepTypes DEF Status, EventType, RequestEvent, ProofEvent, ProviderEvent
  <2> QED
    BY <2>1
<1> HIDE DEF s
<1>3. \A k \in 1 .. 3 : s[k].req = r
  BY <1>1, WriteDoes, EmitDoes
<1>4. \A k \in 1 .. 3 : \A q, c : Sets(s[k], q, c) <=> q = r /\ k = 1 /\ c = "proof"
  BY <1>1, WriteDoes, EmitDoes
<1>5. \A k \in 1 .. 3 : \A q : \A c \in Column : Tells(s[k], q, c) <=> q = r /\ ((k = 2 /\ c = "proof") \/ (k = 3 /\ c = "status"))
  <2>1. \A q : \A c \in Column : ~Tells(s[1], q, c)
    BY <1>1, WriteDoes
  <2>2. \A q : \A c \in Column : Tells(s[2], q, c) <=> q = r /\ c = "proof"
    BY <1>1, EmitDoes, ShowsTable DEF Column, None
  <2>3. \A q : \A c \in Column : Tells(s[3], q, c) <=> q = r /\ c = "status"
    BY <1>1, EmitDoes, ShowsTable DEF Column, None
  <2> QED
    BY <2>1, <2>2, <2>3
<1>6. s[1].status = "QUEUED"
      /\ Shows(s[2].type, "proof") = "QUEUED"
      /\ Shows(s[3].type, "status") = "AUTHORIZED"
  BY <1>1, WriteDoes, EmitDoes, ShowsTable
<1>7. ToldAfterWrite(s)
  BY <1>1, <1>4, <1>5, <1>6 DEF ToldAfterWrite, LastTold, Column
<1>8. \A c \in Column, k \in 1 .. 3 :
        Tells(s[k], r, c) /\ Shows(s[k].type, c) \in Ends(c) => EndWritten(s, k, r, c)
  BY <1>1, <1>4, <1>5, <1>6 DEF EndWritten, Ends, Column
<1>9. Course(s, r, {<<"proof", "QUEUED">>}, {"proof", "status"})
  BY <1>1, <1>2, <1>3, <1>4, <1>5, <1>6, <1>7, <1>8 DEF Course, Column
<1> QED
  BY <1>9 DEF s

\* A verdict that allows, and no credential to execute with.
LEMMA AllowedFailedCourse ==
    ASSUME NEW r \in Requests
    PROVE  Course(<<Write(r, "proof", "QUEUED"), Emit(r, "proof.queued"),
                    Emit(r, "policy.allowed"), Write(r, "status", "FAILED"),
                    Emit(r, "request.failed")>>,
                  r, {<<"proof", "QUEUED">>, <<"status", "FAILED">>}, {"proof", "status"})
<1> DEFINE s == <<Write(r, "proof", "QUEUED"), Emit(r, "proof.queued"),
                  Emit(r, "policy.allowed"), Write(r, "status", "FAILED"),
                  Emit(r, "request.failed")>>
<1>1. /\ Len(s) = 5
      /\ s[1] = Write(r, "proof", "QUEUED")
      /\ s[2] = Emit(r, "proof.queued")
      /\ s[3] = Emit(r, "policy.allowed")
      /\ s[4] = Write(r, "status", "FAILED")
      /\ s[5] = Emit(r, "request.failed")
  OBVIOUS
<1>2. s \in Seq(Step)
  <2>1. /\ Write(r, "proof", "QUEUED") \in Step
        /\ Emit(r, "proof.queued") \in Step
        /\ Emit(r, "policy.allowed") \in Step
        /\ Write(r, "status", "FAILED") \in Step
        /\ Emit(r, "request.failed") \in Step
    BY StepTypes DEF Status, EventType, RequestEvent, ProofEvent, ProviderEvent
  <2> QED
    BY <2>1
<1> HIDE DEF s
<1>3. \A k \in 1 .. 5 : s[k].req = r
  BY <1>1, WriteDoes, EmitDoes
<1>4. \A k \in 1 .. 5 : \A q, c : Sets(s[k], q, c) <=> q = r /\ ((k = 1 /\ c = "proof") \/ (k = 4 /\ c = "status"))
  BY <1>1, WriteDoes, EmitDoes
<1>5. \A k \in 1 .. 5 : \A q : \A c \in Column : Tells(s[k], q, c) <=> q = r /\ ((k = 2 /\ c = "proof") \/ (k = 3 /\ c = "status") \/ (k = 5 /\ c = "status"))
  <2>1. \A q : \A c \in Column : ~Tells(s[1], q, c)
    BY <1>1, WriteDoes
  <2>2. \A q : \A c \in Column : Tells(s[2], q, c) <=> q = r /\ c = "proof"
    BY <1>1, EmitDoes, ShowsTable DEF Column, None
  <2>3. \A q : \A c \in Column : Tells(s[3], q, c) <=> q = r /\ c = "status"
    BY <1>1, EmitDoes, ShowsTable DEF Column, None
  <2>4. \A q : \A c \in Column : ~Tells(s[4], q, c)
    BY <1>1, WriteDoes
  <2>5. \A q : \A c \in Column : Tells(s[5], q, c) <=> q = r /\ c = "status"
    BY <1>1, EmitDoes, ShowsTable DEF Column, None
  <2> QED
    BY <2>1, <2>2, <2>3, <2>4, <2>5
<1>6. s[1].status = "QUEUED" /\ s[4].status = "FAILED"
      /\ Shows(s[2].type, "proof") = "QUEUED"
      /\ Shows(s[3].type, "status") = "AUTHORIZED"
      /\ Shows(s[5].type, "status") = "FAILED"
  BY <1>1, WriteDoes, EmitDoes, ShowsTable
<1>7. ToldAfterWrite(s)
  BY <1>1, <1>4, <1>5, <1>6 DEF ToldAfterWrite, LastTold, Column
<1>8. \A c \in Column, k \in 1 .. 5 :
        Tells(s[k], r, c) /\ Shows(s[k].type, c) \in Ends(c) => EndWritten(s, k, r, c)
  BY <1>1, <1>4, <1>5, <1>6 DEF EndWritten, Ends, Column
<1>9. Course(s, r, {<<"proof", "QUEUED">>, <<"status", "FAILED">>}, {"proof", "status"})
  BY <1>1, <1>2, <1>3, <1>4, <1>5, <1>6, <1>7, <1>8 DEF Course, Column
<1> QED
  BY <1>9 DEF s

\* Attempts that failed.
LEMMA AttemptsFailedCourse ==
    ASSUME NEW r \in Requests
    PROVE  Course(<<Emit(r, "provider.failed"), Write(r, "status", "FAILED"),
                    Emit(r, "request.failed")>>,
                  r, {<<"status", "FAILED">>}, {"status"})
<1> DEFINE s == <<Emit(r, "provider.failed"), Write(r, "status", "FAILED"),
                  Emit(r, "request.failed")>>
<1>1. /\ Len(s) = 3
      /\ s[1] = Emit(r, "provider.failed")
      /\ s[2] = Write(r, "status", "FAILED")
      /\ s[3] = Emit(r, "request.failed")
  OBVIOUS
<1>2. s \in Seq(Step)
  <2>1. /\ Emit(r, "provider.failed") \in Step
        /\ Write(r, "status", "FAILED") \in Step
        /\ Emit(r, "request.failed") \in Step
    BY StepTypes DEF Status, EventType, RequestEvent, ProofEvent, ProviderEvent
  <2> QED
    BY <2>1
<1> HIDE DEF s
<1>3. \A k \in 1 .. 3 : s[k].req = r
  BY <1>1, WriteDoes, EmitDoes
<1>4. \A k \in 1 .. 3 : \A q, c : Sets(s[k], q, c) <=> q = r /\ k = 2 /\ c = "status"
  BY <1>1, WriteDoes, EmitDoes
<1>5. \A k \in 1 .. 3 : \A q : \A c \in Column : Tells(s[k], q, c) <=> q = r /\ k = 3 /\ c = "status"
  <2>1. \A q : \A c \in Column : ~Tells(s[1], q, c)
    BY <1>1, EmitDoes, ShowsTable DEF Column, None
  <2>2. \A q : \A c \in Column : ~Tells(s[2], q, c)
    BY <1>1, WriteDoes
  <2>3. \A q : \A c \in Column : Tells(s[3], q, c) <=> q = r /\ c = "status"
    BY <1>1, EmitDoes, ShowsTable DEF Column, None
  <2> QED
    BY <2>1, <2>2, <2>3
<1>6. s[2].status = "FAILED"
      /\ Shows(s[3].type, "status") = "FAILED"
  BY <1>1, WriteDoes, EmitDoes, ShowsTable
<1>7. ToldAfterWrite(s)
  BY <1>1, <1>4, <1>5, <1>6 DEF ToldAfterWrite, LastTold, Column
<1>8. \A c \in Column, k \in 1 .. 3 :
        Tells(s[k], r, c) /\ Shows(s[k].type, c) \in Ends(c) => EndWritten(s, k, r, c)
  BY <1>1, <1>4, <1>5, <1>6 DEF EndWritten, Ends, Column
<1>9. Course(s, r, {<<"status", "FAILED">>}, {"status"})
  BY <1>1, <1>2, <1>3, <1>4, <1>5, <1>6, <1>7, <1>8 DEF Course, Column
<1> QED
  BY <1>9 DEF s

\* An attempt that succeeded.
LEMMA CompleteCourse ==
    ASSUME NEW r \in Requests
    PROVE  Course(<<Emit(r, "route.selected"), Emit(r, "provider.started"),
                    Write(r, "status", "COMPLETE"), Emit(r, "provider.completed"),
                    Emit(r, "receipt.created")>>,
                  r, {<<"status", "COMPLETE">>}, {"status"})
<1> DEFINE s == <<Emit(r, "route.selected"), Emit(r, "provider.started"),
                  Write(r, "status", "COMPLETE"), Emit(r, "provider.completed"),
                  Emit(r, "receipt.created")>>
<1>1. /\ Len(s) = 5
      /\ s[1] = Emit(r, "route.selected")
      /\ s[2] = Emit(r, "provider.started")
      /\ s[3] = Write(r, "status", "COMPLETE")
      /\ s[4] = Emit(r, "provider.completed")
      /\ s[5] = Emit(r, "receipt.created")
  OBVIOUS
<1>2. s \in Seq(Step)
  <2>1. /\ Emit(r, "route.selected") \in Step
        /\ Emit(r, "provider.started") \in Step
        /\ Write(r, "status", "COMPLETE") \in Step
        /\ Emit(r, "provider.completed") \in Step
        /\ Emit(r, "receipt.created") \in Step
    BY StepTypes DEF Status, EventType, RequestEvent, ProofEvent, ProviderEvent
  <2> QED
    BY <2>1
<1> HIDE DEF s
<1>3. \A k \in 1 .. 5 : s[k].req = r
  BY <1>1, WriteDoes, EmitDoes
<1>4. \A k \in 1 .. 5 : \A q, c : Sets(s[k], q, c) <=> q = r /\ k = 3 /\ c = "status"
  BY <1>1, WriteDoes, EmitDoes
<1>5. \A k \in 1 .. 5 : \A q : \A c \in Column : Tells(s[k], q, c) <=> q = r /\ ((k = 1 /\ c = "status") \/ (k = 2 /\ c = "status") \/ (k = 4 /\ c = "status"))
  <2>1. \A q : \A c \in Column : Tells(s[1], q, c) <=> q = r /\ c = "status"
    BY <1>1, EmitDoes, ShowsTable DEF Column, None
  <2>2. \A q : \A c \in Column : Tells(s[2], q, c) <=> q = r /\ c = "status"
    BY <1>1, EmitDoes, ShowsTable DEF Column, None
  <2>3. \A q : \A c \in Column : ~Tells(s[3], q, c)
    BY <1>1, WriteDoes
  <2>4. \A q : \A c \in Column : Tells(s[4], q, c) <=> q = r /\ c = "status"
    BY <1>1, EmitDoes, ShowsTable DEF Column, None
  <2>5. \A q : \A c \in Column : ~Tells(s[5], q, c)
    BY <1>1, EmitDoes, ShowsTable DEF Column, None
  <2> QED
    BY <2>1, <2>2, <2>3, <2>4, <2>5
<1>6. s[3].status = "COMPLETE"
      /\ Shows(s[1].type, "status") = "ROUTING"
      /\ Shows(s[2].type, "status") = "PROVIDER_RUNNING"
      /\ Shows(s[4].type, "status") = "COMPLETE"
  BY <1>1, WriteDoes, EmitDoes, ShowsTable
<1>7. ToldAfterWrite(s)
  BY <1>1, <1>4, <1>5, <1>6 DEF ToldAfterWrite, LastTold, Column
<1>8. \A c \in Column, k \in 1 .. 5 :
        Tells(s[k], r, c) /\ Shows(s[k].type, c) \in Ends(c) => EndWritten(s, k, r, c)
  BY <1>1, <1>4, <1>5, <1>6 DEF EndWritten, Ends, Column
<1>9. Course(s, r, {<<"status", "COMPLETE">>}, {"status"})
  BY <1>1, <1>2, <1>3, <1>4, <1>5, <1>6, <1>7, <1>8 DEF Course, Column
<1> QED
  BY <1>9 DEF s

\* An attempt that succeeded after others that failed.
LEMMA RetriedCourse ==
    ASSUME NEW r \in Requests
    PROVE  Course(<<Emit(r, "provider.failed"), Emit(r, "route.selected"),
                    Emit(r, "provider.started"), Write(r, "status", "COMPLETE"),
                    Emit(r, "provider.completed"), Emit(r, "receipt.created")>>,
                  r, {<<"status", "COMPLETE">>}, {"status"})
<1> DEFINE s == <<Emit(r, "provider.failed"), Emit(r, "route.selected"),
                  Emit(r, "provider.started"), Write(r, "status", "COMPLETE"),
                  Emit(r, "provider.completed"), Emit(r, "receipt.created")>>
<1>1. /\ Len(s) = 6
      /\ s[1] = Emit(r, "provider.failed")
      /\ s[2] = Emit(r, "route.selected")
      /\ s[3] = Emit(r, "provider.started")
      /\ s[4] = Write(r, "status", "COMPLETE")
      /\ s[5] = Emit(r, "provider.completed")
      /\ s[6] = Emit(r, "receipt.created")
  OBVIOUS
<1>2. s \in Seq(Step)
  <2>1. /\ Emit(r, "provider.failed") \in Step
        /\ Emit(r, "route.selected") \in Step
        /\ Emit(r, "provider.started") \in Step
        /\ Write(r, "status", "COMPLETE") \in Step
        /\ Emit(r, "provider.completed") \in Step
        /\ Emit(r, "receipt.created") \in Step
    BY StepTypes DEF Status, EventType, RequestEvent, ProofEvent, ProviderEvent
  <2> QED
    BY <2>1
<1> HIDE DEF s
<1>3. \A k \in 1 .. 6 : s[k].req = r
  BY <1>1, WriteDoes, EmitDoes
<1>4. \A k \in 1 .. 6 : \A q, c : Sets(s[k], q, c) <=> q = r /\ k = 4 /\ c = "status"
  BY <1>1, WriteDoes, EmitDoes
<1>5. \A k \in 1 .. 6 : \A q : \A c \in Column : Tells(s[k], q, c) <=> q = r /\ ((k = 2 /\ c = "status") \/ (k = 3 /\ c = "status") \/ (k = 5 /\ c = "status"))
  <2>1. \A q : \A c \in Column : ~Tells(s[1], q, c)
    BY <1>1, EmitDoes, ShowsTable DEF Column, None
  <2>2. \A q : \A c \in Column : Tells(s[2], q, c) <=> q = r /\ c = "status"
    BY <1>1, EmitDoes, ShowsTable DEF Column, None
  <2>3. \A q : \A c \in Column : Tells(s[3], q, c) <=> q = r /\ c = "status"
    BY <1>1, EmitDoes, ShowsTable DEF Column, None
  <2>4. \A q : \A c \in Column : ~Tells(s[4], q, c)
    BY <1>1, WriteDoes
  <2>5. \A q : \A c \in Column : Tells(s[5], q, c) <=> q = r /\ c = "status"
    BY <1>1, EmitDoes, ShowsTable DEF Column, None
  <2>6. \A q : \A c \in Column : ~Tells(s[6], q, c)
    BY <1>1, EmitDoes, ShowsTable DEF Column, None
  <2> QED
    BY <2>1, <2>2, <2>3, <2>4, <2>5, <2>6
<1>6. s[4].status = "COMPLETE"
      /\ Shows(s[2].type, "status") = "ROUTING"
      /\ Shows(s[3].type, "status") = "PROVIDER_RUNNING"
      /\ Shows(s[5].type, "status") = "COMPLETE"
  BY <1>1, WriteDoes, EmitDoes, ShowsTable
<1>7. ToldAfterWrite(s)
  BY <1>1, <1>4, <1>5, <1>6 DEF ToldAfterWrite, LastTold, Column
<1>8. \A c \in Column, k \in 1 .. 6 :
        Tells(s[k], r, c) /\ Shows(s[k].type, c) \in Ends(c) => EndWritten(s, k, r, c)
  BY <1>1, <1>4, <1>5, <1>6 DEF EndWritten, Ends, Column
<1>9. Course(s, r, {<<"status", "COMPLETE">>}, {"status"})
  BY <1>1, <1>2, <1>3, <1>4, <1>5, <1>6, <1>7, <1>8 DEF Course, Column
<1> QED
  BY <1>9 DEF s

\* Every turn of a handler and of a watcher keeps the rows and the graph together.
LEMMA HandlersKeepRows ==
    ASSUME FeedInv, RowsInv, NEW r \in Requests,
           \/ Receive(r) \/ GateFailed(r) \/ Verdict(r) \/ ExecuteFailed(r)
           \/ AttemptsFailed(r) \/ Complete(r) \/ Watch(r)
    PROVE  RowsInv'
<1>1. /\ handler \in [Requests -> {"new", "gate", "execute", "over"}]
      /\ watcher \in [Requests -> {"off", "QUEUED", "PROVING", "GENERATED", "VERIFIED", "FAILED"}]
  BY DEF FeedInv, TypeOK
<1>2. watcher[r] # "off" => handler[r] \in {"execute", "over"}
  BY DEF RowsInv, OpenIsUnended
<1>3. ASSUME NEW await, NEW steps, Turn(r, await, steps)
      PROVE  handler'[r] = await
  BY <1>1, <1>3 DEF Turn
<1>4. Column = {"status", "proof"} /\ {"FAILED", "RECEIVED"} \subseteq Status
      /\ {"request.failed", "request.received"} \subseteq EventType
  BY DEF Column, Status, EventType, RequestEvent
<1>5. ASSUME NEW v \in {"FAILED", "COMPLETE"}, NEW s, Turn(r, "over", s),
             handler[r] \in {"gate", "execute"}, watcher' = watcher,
             Course(s, r, {<<"status", v>>}, {"status"})
      PROVE  RowsInv'
  <2> DEFINE W == {<<"status", v>>}
  <2>1. MayWrite(r, "status") /\ v \in Ends("status") /\ handler'[r] = "over"
    BY <1>3, <1>5 DEF MayWrite, Ends
  <2>2. ~MayWrite(r, "status")' /\ (MayWrite(r, "proof")' => MayWrite(r, "proof"))
    BY <1>5, <2>1 DEF MayWrite
  <2>3. \A c \in Column : MayWrite(r, c)' => MayWrite(r, c) /\ \A w \in W : w[1] = c => w[2] \notin Ends(c)
    BY <1>4, <2>2
  <2>4. (\A w \in W : MayWrite(r, w[1])) /\ \E w \in W : w[1] = "status" /\ w[2] \in Ends("status")
    BY <2>1
  <2>5. \A c \in {"status"} : \E w \in W : w[1] = c
    OBVIOUS
  <2>6. Course(s, r, W, {"status"})
    BY <1>5
  <2> HIDE DEF W
  <2> QED
    BY <1>5, <2>3, <2>4, <2>5, <2>6, TurnKeepsRows
<1>6. Course(Failed(r), r, {<<"status", "FAILED">>}, {"status"})
  BY <1>4, PairCourse, ShowsTable DEF Failed
<1>7. CASE Receive(r)
  <2> DEFINE s == <<Write(r, "status", "RECEIVED"), Emit(r, "request.received")>>
             W == {<<"status", "RECEIVED">>}
  <2>1. Course(s, r, W, {"status"})
    BY <1>4, PairCourse, ShowsTable
  <2>2. Turn(r, "gate", s) /\ handler[r] = "new" /\ watcher' = watcher /\ handler'[r] = "gate"
    BY <1>3, <1>7 DEF Receive
  <2>3. MayWrite(r, "status") /\ MayWrite(r, "proof") /\ "RECEIVED" \notin Ends("status")
    BY <2>2 DEF MayWrite, Ends
  <2>4. \A c \in Column : MayWrite(r, c)' => MayWrite(r, c) /\ \A w \in W : w[1] = c => w[2] \notin Ends(c)
    BY <1>4, <2>3
  <2>5. \A w \in W : MayWrite(r, w[1])
    BY <2>3
  <2>6. \A c \in {"status"} : (c = "status" /\ handler[r] # "over") \/ \E w \in W : w[1] = c
    BY <2>2
  <2> HIDE DEF s, W
  <2> QED
    BY <1>2, <2>1, <2>2, <2>4, <2>5, <2>6, TurnKeepsRows
<1>8. CASE GateFailed(r)
  BY <1>5, <1>8, <1>6 DEF GateFailed
<1>9. CASE Verdict(r)
  <2> DEFINE queued == <<Write(r, "proof", "QUEUED"), Emit(r, "proof.queued")>>
             allowed == <<Emit(r, "policy.allowed")>>
             denied == <<Write(r, "status", "DENIED"), Emit(r, "policy.denied")>>
  <2>1. /\ handler[r] = "gate" /\ watcher'[r] = "QUEUED"
        /\ \A q \in Requests \ {r} : watcher'[q] = watcher[q]
        /\ \/ Turn(r, "over", queued \o denied)
           \/ Turn(r, "over", queued \o allowed \o Failed(r))
           \/ Turn(r, "execute", queued \o allowed)
    BY <1>1, <1>9 DEF Verdict
  <2>2. MayWrite(r, "status") /\ MayWrite(r, "proof")
    BY <2>1 DEF MayWrite
  <2>3. "QUEUED" \notin Ends("proof") /\ "DENIED" \in Ends("status") /\ "FAILED" \in Ends("status")
    BY DEF Ends
  <2>4. ASSUME handler'[r] = "over"
        PROVE  ~MayWrite(r, "status")'
    BY <2>4 DEF MayWrite
  <2>5. ASSUME NEW v \in {"DENIED", "FAILED"}, NEW s, Turn(r, "over", s),
               Course(s, r, {<<"proof", "QUEUED">>, <<"status", v>>}, {"proof", "status"})
        PROVE  RowsInv'
    <3> DEFINE W == {<<"proof", "QUEUED">>, <<"status", v>>}
    <3>1. handler'[r] = "over"
      BY <1>3, <2>5
    <3>2. \A c \in Column : MayWrite(r, c)' => MayWrite(r, c) /\ \A w \in W : w[1] = c => w[2] \notin Ends(c)
      BY <1>4, <2>2, <2>3, <2>4, <3>1
    <3>3. (\A w \in W : MayWrite(r, w[1])) /\ \E w \in W : w[1] = "status" /\ w[2] \in Ends("status")
      BY <2>2, <2>3
    <3>4. \A c \in {"proof", "status"} : \E w \in W : w[1] = c
      OBVIOUS
    <3>5. Course(s, r, W, {"proof", "status"})
      BY <2>5
    <3> HIDE DEF W
    <3> QED
      BY <2>1, <2>5, <3>2, <3>3, <3>4, <3>5, TurnKeepsRows
  <2>6. CASE Turn(r, "over", queued \o denied)
    <3>1. Course(queued \o denied, r, {<<"proof", "QUEUED">>, <<"status", "DENIED">>}, {"proof", "status"})
      <4>1. queued \o denied = <<Write(r, "proof", "QUEUED"), Emit(r, "proof.queued"),
                                 Write(r, "status", "DENIED"), Emit(r, "policy.denied")>>
        BY Join22
      <4> HIDE DEF queued, denied
      <4> QED
        BY <4>1, DeniedCourse
    <3> QED
      BY <2>5, <2>6, <3>1
  <2>7. CASE Turn(r, "over", queued \o allowed \o Failed(r))
    <3>1. Course(queued \o allowed \o Failed(r), r,
                 {<<"proof", "QUEUED">>, <<"status", "FAILED">>}, {"proof", "status"})
      <4>1. queued \o allowed =
              <<Write(r, "proof", "QUEUED"), Emit(r, "proof.queued"), Emit(r, "policy.allowed")>>
        BY Join21
      <4>2. <<Write(r, "proof", "QUEUED"), Emit(r, "proof.queued"), Emit(r, "policy.allowed")>> \o Failed(r) =
              <<Write(r, "proof", "QUEUED"), Emit(r, "proof.queued"), Emit(r, "policy.allowed"),
                Write(r, "status", "FAILED"), Emit(r, "request.failed")>>
        BY Join32 DEF Failed
      <4> HIDE DEF queued, allowed
      <4> QED
        BY <4>1, <4>2, AllowedFailedCourse
    <3> QED
      BY <2>5, <2>7, <3>1
  <2>8. CASE Turn(r, "execute", queued \o allowed)
    <3> DEFINE s == queued \o allowed
               W == {<<"proof", "QUEUED">>}
    <3>1. Course(s, r, W, {"proof", "status"})
      <4>1. queued \o allowed =
              <<Write(r, "proof", "QUEUED"), Emit(r, "proof.queued"), Emit(r, "policy.allowed")>>
        BY Join21
      <4> HIDE DEF queued, allowed
      <4> QED
        BY <4>1, AllowedCourse
    <3>2. \A c \in Column : MayWrite(r, c)' => MayWrite(r, c) /\ \A w \in W : w[1] = c => w[2] \notin Ends(c)
      BY <1>4, <2>2, <2>3
    <3>3. \A w \in W : MayWrite(r, w[1])
      BY <2>2
    <3>4. \A c \in {"proof", "status"} : (c = "status" /\ handler[r] # "over") \/ \E w \in W : w[1] = c
      BY <2>1
    <3> HIDE DEF s, W
    <3>5. Turn(r, "execute", s)
      BY <2>8 DEF s
    <3> QED
      BY <2>1, <3>1, <3>2, <3>3, <3>4, <3>5, TurnKeepsRows
  <2> QED
    BY <2>1, <2>6, <2>7, <2>8
<1>10. CASE ExecuteFailed(r)
  BY <1>5, <1>10, <1>6 DEF ExecuteFailed
<1>11. CASE AttemptsFailed(r)
  <2>1. PICK f \in FailedAttempts(r) : Turn(r, "over", f \o Failed(r))
    BY <1>11 DEF AttemptsFailed
  <2>2. handler[r] = "execute" /\ watcher' = watcher
    BY <1>11 DEF AttemptsFailed
  <2>3. CASE f = <<>>
    <3>1. Failed(r) \in Seq(Step)
      <4>1. Write(r, "status", "FAILED") \in Step /\ Emit(r, "request.failed") \in Step
        BY <1>4, StepTypes
      <4> QED
        BY <4>1 DEF Failed
    <3>2. f \o Failed(r) = Failed(r)
      BY <2>3, <3>1, ConcatEmptySeq
    <3> QED
      BY <1>5, <1>6, <2>1, <2>2, <3>2
  <2>4. CASE f = <<Emit(r, "provider.failed")>>
    <3>1. f \o Failed(r) =
            <<Emit(r, "provider.failed"), Write(r, "status", "FAILED"), Emit(r, "request.failed")>>
      BY <2>4, Join12 DEF Failed
    <3>2. Course(f \o Failed(r), r, {<<"status", "FAILED">>}, {"status"})
      BY <3>1, AttemptsFailedCourse
    <3> QED
      BY <1>5, <2>1, <2>2, <3>2
  <2> QED
    BY <2>3, <2>4 DEF FailedAttempts
<1>12. CASE Complete(r)
  <2> DEFINE path == <<Emit(r, "route.selected"), Emit(r, "provider.started"),
                       Write(r, "status", "COMPLETE"), Emit(r, "provider.completed"),
                       Emit(r, "receipt.created")>>
  <2>1. PICK f \in FailedAttempts(r) : Turn(r, "over", f \o path)
    BY <1>12 DEF Complete
  <2>2. handler[r] = "execute" /\ watcher' = watcher
    BY <1>12 DEF Complete
  <2>3. Course(path, r, {<<"status", "COMPLETE">>}, {"status"})
    BY CompleteCourse
  <2>4. CASE f = <<>>
    <3>1. path \in Seq(Step)
      BY <2>3 DEF Course
    <3> HIDE DEF path
    <3>2. f \o path = path
      BY <2>4, <3>1, ConcatEmptySeq
    <3> QED
      BY <1>5, <2>1, <2>2, <2>3, <3>2
  <2>5. CASE f = <<Emit(r, "provider.failed")>>
    <3>1. Course(f \o path, r, {<<"status", "COMPLETE">>}, {"status"})
      <4>1. f \o path = <<Emit(r, "provider.failed"), Emit(r, "route.selected"),
                          Emit(r, "provider.started"), Write(r, "status", "COMPLETE"),
                          Emit(r, "provider.completed"), Emit(r, "receipt.created")>>
        BY <2>5, Join15
      <4> HIDE DEF path
      <4> QED
        BY <4>1, RetriedCourse
    <3> HIDE DEF path
    <3> QED
      BY <1>5, <2>1, <2>2, <3>1
  <2> QED
    BY <2>4, <2>5 DEF FailedAttempts
<1>13. CASE Watch(r)
  <2>1. PICK v \in {"PROVING", "GENERATED", "VERIFIED", "FAILED"}, t \in ProofEvent :
          /\ watcher' = [watcher EXCEPT ![r] = v]
          /\ Turn(r, handler[r], <<Write(r, "proof", v), Emit(r, t)>>)
          /\ watcher[r] \in {"QUEUED", "PROVING", "GENERATED"}
          /\ Shows(t, "proof") = v /\ Shows(t, "status") = None
    BY <1>13, ShowsTable DEF Watch, ProofEvent
  <2> DEFINE s == <<Write(r, "proof", v), Emit(r, t)>>
             W == {<<"proof", v>>}
  <2>2. Course(s, r, W, {"proof"})
    <3>1. v \in Status /\ t \in EventType /\ "proof" \in Column
          /\ \A c \in Column : c # "proof" => Shows(t, c) = None
      BY <1>4, <2>1 DEF Status, EventType
    <3> QED
      BY <2>1, <3>1, PairCourse
  <2>3. /\ watcher'[r] = v /\ \A q \in Requests \ {r} : watcher'[q] = watcher[q]
        /\ handler'[r] = handler[r] /\ handler[r] \in {"execute", "over"}
    BY <1>1, <1>2, <1>3, <2>1
  <2>4. MayWrite(r, "proof") /\ (MayWrite(r, "status")' => MayWrite(r, "status"))
    BY <2>1, <2>3 DEF MayWrite
  <2>5. MayWrite(r, "proof")' => v \notin Ends("proof")
    BY <2>3 DEF MayWrite, Ends
  <2>6. \A c \in Column : MayWrite(r, c)' => MayWrite(r, c) /\ \A w \in W : w[1] = c => w[2] \notin Ends(c)
    BY <1>4, <2>4, <2>5
  <2>7. (\A w \in W : MayWrite(r, w[1])) /\ \A c \in {"proof"} : \E w \in W : w[1] = c
    BY <2>4
  <2> HIDE DEF s, W
  <2>8. Turn(r, handler[r], s)
    BY <2>1 DEF s
  <2> QED
    BY <2>2, <2>3, <2>6, <2>7, <2>8, TurnKeepsRows
<1> QED
  BY <1>7, <1>8, <1>9, <1>10, <1>11, <1>12, <1>13

\* A crash forgets what was to do: the graph may stay behind and still claims no end.
LEMMA CrashKeepsRows ==
    ASSUME FeedInv, RowsInv, Crash
    PROVE  RowsInv'
<1>1. /\ todo' = <<>> /\ Len(todo') = 0 /\ crashes' # 0
      /\ UNCHANGED <<rows, outbox, marked, faulted, graph>>
      /\ (Draining' <=> Draining) /\ Current' = Current
  BY DEF Crash, FeedInv, TypeOK, Draining, Current
<1>2. /\ \A r \in Requests : watcher'[r] = "off"
      /\ \A r \in Requests : handler'[r] # "over" => handler'[r] = "new" /\ handler[r] = "new"
      /\ \A r \in Requests : handler'[r] \in {"new", "over"}
  BY DEF Crash
<1>3. ToldAfterWrite(todo)'
  BY <1>1 DEF ToldAfterWrite
<1>4. EndsAreWritten'
  BY <1>1 DEF RowsInv, EndsAreWritten, NotSet, RowOf
<1>5. \A r \in Requests, c \in Column : MayWrite(r, c)' => MayWrite(r, c)
  BY <1>2 DEF MayWrite
<1>6. OpenIsUnended'
  BY <1>1, <1>2, <1>5 DEF RowsInv, OpenIsUnended, RowOf
<1>7. OverIsEnded' /\ GraphCatchesUp'
  BY <1>1 DEF OverIsEnded, GraphCatchesUp
<1> QED
  BY <1>3, <1>4, <1>6, <1>7 DEF RowsInv

\* A restart, and what the browser does, touch nothing that the rows and the graph share.
LEMMA RestKeepsRows ==
    ASSUME RowsInv, UNCHANGED <<crashes, handler, watcher, todo, rows, outbox, marked, faulted, graph>>
    PROVE  RowsInv'
<1>1. (Draining' <=> Draining) /\ Current' = Current
  BY DEF Draining, Current
<1>2. EndsAreWritten'
  BY <1>1 DEF RowsInv, EndsAreWritten, EndWritten, NotSet, RowOf
<1>3. GraphCatchesUp'
  BY <1>1 DEF RowsInv, GraphCatchesUp, Catches, NotSet, LastTold, RowOf
<1> QED
  BY <1>2, <1>3, TurnsKept DEF RowsInv

\* The invariant is inductive, with FeedInv.
LEMMA RowsInductive == Spec => []RowsInv
<1>1. Init => RowsInv
  <2> SUFFICES ASSUME Init PROVE RowsInv
    OBVIOUS
  <2>1. /\ todo = <<>> /\ Len(todo) = 0 /\ ~Draining
        /\ \A r \in Requests, c \in Column :
             RowOf(r, c) = None /\ graph[<<r, NodeOf(c)>>].status = None /\ None \notin Ends(c)
    <3>1. \A r \in Requests, c \in Column : graph[<<r, NodeOf(c)>>] = Absent /\ None \notin Ends(c)
      BY ColumnTypes DEF Init
    <3> QED
      BY <3>1 DEF Init, Draining, RowOf, Absent
  <2>2. ToldAfterWrite(todo) /\ EndsAreWritten
    BY <2>1 DEF ToldAfterWrite, EndsAreWritten, NotSet
  <2>3. OpenIsUnended /\ OverIsEnded
    <3>1. \A r \in Requests : handler[r] = "new" /\ watcher[r] = "off"
      BY DEF Init
    <3>2. OverIsEnded
      BY <3>1 DEF OverIsEnded
    <3>3. OpenIsUnended
      <4> SUFFICES ASSUME NEW r \in Requests, NEW c \in Column
                   PROVE  /\ RowOf(r, c) \notin Ends(c)
                          /\ \A k \in 1 .. Len(todo) : Sets(todo[k], r, c) => todo[k].status \notin Ends(c)
        BY <3>1 DEF OpenIsUnended
      <4>1. RowOf(r, c) = None /\ None \notin Ends(c)
        BY <2>1
      <4>2. 1 .. Len(todo) = {}
        BY <2>1
      <4> QED
        BY <4>1, <4>2
    <3> QED
      BY <3>2, <3>3
  <2>4. GraphCatchesUp
    BY <2>1 DEF GraphCatchesUp, Catches, LastTold
  <2> QED
    BY <2>2, <2>3, <2>4 DEF RowsInv
<1>2. FeedInv /\ RowsInv /\ [Next]_vars => RowsInv'
  <2> SUFFICES ASSUME FeedInv, RowsInv, [Next]_vars PROVE RowsInv'
    OBVIOUS
  <2>1. CASE Statement
    BY <2>1, WriteKeepsRows, EmitKeepsRows
  <2>2. CASE Upsert
    BY <2>2, UpsertKeepsRows
  <2>3. CASE Mark \/ ProjectionFails
    BY <2>3, MarkKeepsRows
  <2>4. CASE \E r \in Requests :
               \/ Receive(r) \/ GateFailed(r) \/ Verdict(r) \/ ExecuteFailed(r)
               \/ AttemptsFailed(r) \/ Complete(r) \/ Watch(r)
    BY <2>4, HandlersKeepRows
  <2>5. CASE Crash
    BY <2>5, CrashKeepsRows
  <2>6. CASE Restart \/ BrowserStep \/ UNCHANGED vars
    <3>1. UNCHANGED <<crashes, handler, watcher, todo, rows, outbox, marked, faulted, graph>>
      BY <2>6 DEF Restart, BrowserStep, Server, graphSnapshot, SnapshotArrives, SnapshotFails,
                  OpenStream, onNode, StreamBreaks, vars
    <3> QED
      BY <3>1, RestKeepsRows
  <2> QED
    BY <2>1, <2>2, <2>3, <2>4, <2>5, <2>6 DEF Next, BrowserStep
<1> QED
  BY <1>1, <1>2, FeedInductive, PTL DEF Spec

\* A request that is over and a proof have, in a process that has not crashed, the status
\* of their row in the graph; and the graph never claims an end that the row does not
\* have, wherever a crash cut the turn or the projection.
THEOREM GraphShowsRows == Spec => []GraphAgreesWithRows
<1>1. FeedInv /\ RowsInv => GraphAgreesWithRows
  <2> SUFFICES ASSUME FeedInv, RowsInv, NEW r \in Requests
               PROVE  /\ Idle /\ crashes = 0 /\ faulted = {} =>
                           /\ handler[r] = "over" => graph[<<r, "req">>].status = rows[r].status
                           /\ graph[<<r, "proof">>].status = rows[r].proof
                      /\ graph[<<r, "req">>].status \in {"COMPLETE", "DENIED", "FAILED"} =>
                           graph[<<r, "req">>].status = rows[r].status
                      /\ graph[<<r, "proof">>].status = "VERIFIED" => rows[r].proof = "VERIFIED"
    BY DEF GraphAgreesWithRows
  <2>1. /\ Column = {"status", "proof"} /\ NodeOf("status") = "req" /\ NodeOf("proof") = "proof"
        /\ RowOf(r, "status") = rows[r].status /\ RowOf(r, "proof") = rows[r].proof
        /\ Ends("status") = {"COMPLETE", "DENIED", "FAILED"} /\ Ends("proof") = {"VERIFIED"}
    BY DEF Column, NodeOf, RowOf, Ends
  <2>2. ASSUME Idle, crashes = 0, faulted = {}, NEW c \in Column, c = "status" => handler[r] = "over"
        PROVE  graph[<<r, NodeOf(c)>>].status = RowOf(r, c)
    <3>1. todo = <<>> /\ Len(todo) = 0 /\ ~Draining
      BY <2>2 DEF Idle
    <3>2. c = "status" => RowOf(r, c) \in Ends(c)
      BY <2>2, <3>1 DEF RowsInv, OverIsEnded
    <3>3. Catches(r, c)
      BY <2>2, <3>1, <3>2 DEF RowsInv, GraphCatchesUp, NotSet
    <3> QED
      BY <3>1, <3>3 DEF Catches
  <2>3. \A c \in Column : graph[<<r, NodeOf(c)>>].status \in Ends(c) =>
          RowOf(r, c) = graph[<<r, NodeOf(c)>>].status
    BY DEF RowsInv, EndsAreWritten
  <2> QED
    BY <2>1, <2>2, <2>3
<1> QED
  BY <1>1, FeedInductive, RowsInductive, PTL
=============================================================================
