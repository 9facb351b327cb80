------------------------------ MODULE GraphFeed ------------------------------
(***************************************************************************)
(* The coordinator's events on their way to the picture of the network: a  *)
(* handler or a proof watcher writes its row and emits an event; emitEvent *)
(* inserts it into the outbox, and the projector drains the outbox into    *)
(* the graph's tables in the same turn of the event loop; every write of   *)
(* the graph goes out on the open event streams; a browser takes one       *)
(* snapshot and then follows the stream.                                   *)
(*                                                                         *)
(* One process, one thread: what a handler does between two awaits is not  *)
(* interleaved with anything in the process, but it is several statements, *)
(* each durable on its own, and a crash may fall between any two of them.  *)
(* Nodes that all requests share (the enclave, the policy, models and      *)
(* providers) never change their status and are left out.                  *)
(***************************************************************************)
EXTENDS Integers, Sequences, FiniteSets

CONSTANTS
    Requests,
    MaxCrashes,     \* crashes of the coordinator
    MaxFaults       \* events whose projection throws

ASSUME GraphFeedAssumption == {MaxCrashes, MaxFaults} \subseteq Nat

VARIABLES
    up,             \* does the process run
    crashes,
    handler,        \* per request, the await its handler is in
    watcher,        \* per request, the status its proof watcher saw last
    todo,           \* statements and events left to do before the next await
    rows,           \* requests.status and requests.proof_status
    outbox,         \* outbox_events
    marked,         \* how many of them have processed_at
    done,           \* writes made for the first event that has not
    faulted,        \* events whose projection threw
    graph,          \* graph_nodes and graph_links
    browser         \* useLiveGraph

vars == <<up, crashes, handler, watcher, todo, rows, outbox, marked, done, faulted, graph, browser>>

None == "none"

\* What a request adds to the graph: nodes, and links from its node to them.  The
\* attempts are numbered: one that failed and the one that succeeded are two nodes.
Node == {"req", "proof", "failure", "success", "resp", "receipt"}
Link == {"HAS_PROOF", "HAS_FAILURE", "HAS_SUCCESS", "PRODUCED", "HAS_RECEIPT"}
Element == Requests \X (Node \cup Link)

\* The statuses of nodes, of rows, and the presence of a link.
Status == {"RECEIVED", "AUTHORIZED", "DENIED", "FAILED", "ROUTING", "PROVIDER_RUNNING",
           "COMPLETE", "QUEUED", "PROVING", "GENERATED", "VERIFIED", "SUCCESS", "SIGNED", "link"}

\* An element that is not there.  Otherwise `at` is the event that wrote it last.
Absent == [status |-> None, at |-> 0]

\* The types of event: a request's verdict and its end, its proof, and its way through
\* a provider.
RequestEvent == {"request.received", "policy.allowed", "policy.denied", "request.failed"}
ProofEvent == {"proof.queued", "proof.started", "proof.generated", "proof.completed",
               "proof.failed"}
ProviderEvent == {"route.selected", "provider.started", "provider.failed",
                  "provider.completed", "receipt.created"}
EventType == RequestEvent \cup ProofEvent \cup ProviderEvent

\* The writes of project for each type of event, in order.
projectRequest(type) ==
    CASE type = "request.received"   -> << <<"req", "RECEIVED">> >>
      [] type = "policy.allowed"     -> << <<"req", "AUTHORIZED">> >>
      [] type = "policy.denied"      -> << <<"req", "DENIED">> >>
      [] type = "request.failed"     -> << <<"req", "FAILED">> >>

projectProof(type) ==
    CASE type = "proof.queued"       -> << <<"proof", "QUEUED">>, <<"HAS_PROOF", "link">> >>
      [] type = "proof.started"      -> << <<"proof", "PROVING">>, <<"HAS_PROOF", "link">> >>
      [] type = "proof.generated"    -> << <<"proof", "GENERATED">> >>
      [] type = "proof.completed"    -> << <<"proof", "VERIFIED">> >>
      [] type = "proof.failed"       -> << <<"proof", "FAILED">> >>

projectProvider(type) ==
    CASE type = "route.selected"     -> << <<"req", "ROUTING">> >>
      [] type = "provider.started"   -> << <<"req", "PROVIDER_RUNNING">> >>
      [] type = "provider.failed"    -> << <<"failure", "FAILED">>, <<"HAS_FAILURE", "link">> >>
      [] type = "provider.completed" -> << <<"success", "SUCCESS">>, <<"HAS_SUCCESS", "link">>,
                                           <<"resp", "COMPLETE">>, <<"PRODUCED", "link">>,
                                           <<"req", "COMPLETE">> >>
      [] type = "receipt.created"    -> << <<"receipt", "SIGNED">>, <<"HAS_RECEIPT", "link">> >>

project == [type \in EventType |->
    IF type \in RequestEvent THEN projectRequest(type)
    ELSE IF type \in ProofEvent THEN projectProof(type) ELSE projectProvider(type)]

Event == [type : EventType, req : Requests]

\* The steps of a turn: an UPDATE of a row's column, or an emitEvent.
Write(r, column, status) == [do |-> "write", req |-> r, column |-> column, status |-> status]
Emit(r, type) == [do |-> "emit", req |-> r, type |-> type]

Init ==
    /\ up = TRUE /\ crashes = 0
    /\ handler = [r \in Requests |-> "new"] /\ watcher = [r \in Requests |-> "off"]
    /\ todo = <<>>
    /\ rows = [r \in Requests |-> [status |-> None, proof |-> None]]
    /\ outbox = <<>> /\ marked = 0 /\ done = 0 /\ faulted = {}
    /\ graph = [x \in Element |-> Absent]
    /\ browser = [fetch |-> "sent", snapshot |-> [x \in {} |-> Absent], open |-> FALSE,
                  buffer |-> <<>>, since |-> {},
                  shown |-> [x \in Element |-> Absent]]
-----------------------------------------------------------------------------
(* The turn of the event loop.                                             *)

\* drainOutbox, called by emitEvent's bus.emit and by startProjector, goes first.
Draining == marked < Len(outbox)

Idle == up /\ ~Draining /\ todo = <<>>

Current == outbox[marked + 1]

Writes == project[Current.type]

Unserved == UNCHANGED <<up, crashes, handler, watcher, rows>>

\* emitEvent inserts; a write is done where it stands.
Statement ==
    /\ up /\ ~Draining /\ todo # <<>>
    /\ LET s == Head(todo)
       IN  IF s.do = "emit"
           THEN outbox' = Append(outbox, [type |-> s.type, req |-> s.req]) /\ UNCHANGED rows
           ELSE rows' = [rows EXCEPT ![s.req][s.column] = s.status] /\ UNCHANGED outbox
    /\ todo' = Tail(todo)
    /\ UNCHANGED <<up, crashes, handler, watcher, marked, done, faulted, graph, browser>>

\* The open stream's buffer takes every write of the graph.
Broadcast(x, value) ==
    browser' = IF browser.open
               THEN [browser EXCEPT !.buffer = Append(@, <<x, value>>), !.since = @ \cup {x}]
               ELSE browser

\* upsertNode writes and broadcasts; upsertLink does nothing for a link that exists.
Upsert ==
    /\ up /\ Draining /\ done < Len(Writes)
    /\ LET x     == <<Current.req, Writes[done + 1][1]>>
           value == [status |-> Writes[done + 1][2], at |-> marked + 1]
       IN  IF x[2] \in Link /\ graph[x] # Absent
           THEN UNCHANGED <<graph, browser>>
           ELSE graph' = [graph EXCEPT ![x] = value] /\ Broadcast(x, value)
    /\ done' = done + 1
    /\ UNCHANGED <<todo, outbox, marked, faulted>> /\ Unserved

MarkEarly ==
    /\ up /\ Draining
    /\ marked' = marked + 1 /\ done' = 0
    /\ UNCHANGED <<todo, outbox, faulted, graph, browser>> /\ Unserved

Mark ==
    /\ up /\ Draining /\ done = Len(Writes)
    /\ marked' = marked + 1 /\ done' = 0
    /\ UNCHANGED <<todo, outbox, faulted, graph, browser>> /\ Unserved

\* project throws: the event is marked all the same, so that it cannot wedge the loop.
ProjectionFails ==
    /\ up /\ Draining /\ done < Len(Writes)
    /\ Cardinality(faulted) < MaxFaults
    /\ faulted' = faulted \cup {marked + 1}
    /\ marked' = marked + 1 /\ done' = 0
    /\ UNCHANGED <<todo, outbox, graph, browser>> /\ Unserved
-----------------------------------------------------------------------------
(* The turns of a request's handler and of its proof watcher.              *)

Turn(r, await, steps) ==
    /\ Idle
    /\ todo' = steps
    /\ handler' = [handler EXCEPT ![r] = await]
    /\ UNCHANGED <<up, crashes, rows, outbox, marked, done, faulted, graph, browser>>

Failed(r) == <<Write(r, "status", "FAILED"), Emit(r, "request.failed")>>

Receive(r) ==
    /\ handler[r] = "new"
    /\ Turn(r, "gate", <<Write(r, "status", "RECEIVED"), Emit(r, "request.received")>>)
    /\ UNCHANGED watcher

\* The gate or the enclave is unavailable, or refuses the envelope.
GateFailed(r) ==
    /\ handler[r] = "gate"
    /\ Turn(r, "over", Failed(r))
    /\ UNCHANGED watcher

\* A verdict, and after the await of the attestation all up to the next await.
Verdict(r) ==
    /\ handler[r] = "gate"
    /\ LET proved == <<Write(r, "proof", "QUEUED"), Emit(r, "proof.queued")>>
       IN  \/ Turn(r, "over",
                   proved \o <<Write(r, "status", "DENIED"), Emit(r, "policy.denied")>>)
           \/ Turn(r, "over", proved \o <<Emit(r, "policy.allowed")>> \o Failed(r))
           \/ Turn(r, "execute", proved \o <<Emit(r, "policy.allowed")>>)
    /\ watcher' = [watcher EXCEPT ![r] = "QUEUED"]

ExecuteFailed(r) ==
    /\ handler[r] = "execute"
    /\ Turn(r, "over", Failed(r))
    /\ UNCHANGED watcher

\* The attempts that failed, in the enclave's answer: none, or one that stands for several.
FailedAttempts(r) == {<<>>, <<Emit(r, "provider.failed")>>}

AttemptsFailedSilently(r) ==
    /\ handler[r] = "execute"
    /\ \E failures \in FailedAttempts(r) : Turn(r, "over", failures \o <<Write(r, "status", "FAILED")>>)
    /\ UNCHANGED watcher

AttemptsFailed(r) ==
    /\ handler[r] = "execute"
    /\ \E failures \in FailedAttempts(r) : Turn(r, "over", failures \o Failed(r))
    /\ UNCHANGED watcher

Complete(r) ==
    /\ handler[r] = "execute"
    /\ \E failures \in FailedAttempts(r) :
         Turn(r, "over", failures \o <<Emit(r, "route.selected"), Emit(r, "provider.started"),
                                       Write(r, "status", "COMPLETE"), Emit(r, "provider.completed"),
                                       Emit(r, "receipt.created")>>)
    /\ UNCHANGED watcher

\* A poll of watchProof that finds a later status; one that finds none changes nothing.
Watch(r) ==
    LET Poll(status, type) ==
          /\ watcher' = [watcher EXCEPT ![r] = status]
          /\ Turn(r, handler[r], <<Write(r, "proof", status), Emit(r, type)>>)
    IN  \/ watcher[r] = "QUEUED" /\ Poll("PROVING", "proof.started")
        \/ watcher[r] \in {"QUEUED", "PROVING"} /\ Poll("GENERATED", "proof.generated")
        \/ watcher[r] \in {"QUEUED", "PROVING", "GENERATED"} /\ Poll("VERIFIED", "proof.completed")
        \/ watcher[r] \in {"QUEUED", "PROVING", "GENERATED"} /\ Poll("FAILED", "proof.failed")
-----------------------------------------------------------------------------
(* Crash and restart.  Handlers, watchers and streams end with the process. *)

Disconnected == [browser EXCEPT !.open = FALSE, !.buffer = <<>>, !.since = {}]

Crash ==
    /\ up /\ crashes < MaxCrashes
    /\ up' = FALSE /\ crashes' = crashes + 1
    /\ handler' = [r \in Requests |-> IF handler[r] = "new" THEN "new" ELSE "over"]
    /\ watcher' = [r \in Requests |-> "off"]
    /\ todo' = <<>> /\ done' = 0
    /\ browser' = Disconnected
    /\ UNCHANGED <<rows, outbox, marked, faulted, graph>>

\* The first tick of startProjector drains what is left: Draining does the rest.
Restart ==
    /\ ~up
    /\ up' = TRUE
    /\ UNCHANGED <<crashes, handler, watcher, todo, rows, outbox, marked, done, faulted, graph, browser>>
-----------------------------------------------------------------------------
(* The browser: a snapshot, and after it the stream.                       *)

Server == UNCHANGED <<up, crashes, handler, watcher, todo, rows, outbox, marked, done, faulted, graph>>

\* GET /v1/graph.
graphSnapshot ==
    /\ Idle /\ browser.fetch = "sent"
    /\ browser' = [browser EXCEPT !.fetch = "answered", !.snapshot = graph]
    /\ Server

SnapshotArrives ==
    /\ browser.fetch = "answered"
    /\ browser' = [browser EXCEPT !.fetch = "over", !.shown = browser.snapshot,
                                  !.snapshot = [x \in {} |-> Absent]]
    /\ Server

\* A failed snapshot is not fatal.
SnapshotFails ==
    /\ browser.fetch \in {"sent", "answered"}
    /\ browser' = [browser EXCEPT !.fetch = "over", !.snapshot = [x \in {} |-> Absent]]
    /\ Server

OpenStreamAtOnce ==
    /\ Idle /\ ~browser.open
    /\ browser' = [browser EXCEPT !.open = TRUE]
    /\ Server

\* GET /v1/graph/events, the first time or again after an error: from here on, and
\* no snapshot is taken again.
OpenStream ==
    /\ Idle /\ browser.fetch = "over" /\ ~browser.open
    /\ browser' = [browser EXCEPT !.open = TRUE]
    /\ Server

\* The handlers run one after another on all that the last turns have sent: for an
\* element the last message stays.
onNode ==
    /\ Idle /\ browser.buffer # <<>>
    /\ LET About(x) == {k \in DOMAIN browser.buffer : browser.buffer[k][1] = x}
           Last(x)  == browser.buffer[CHOOSE k \in About(x) : \A l \in About(x) : l <= k][2]
       IN  browser' = [browser EXCEPT !.buffer = <<>>,
                         !.shown = [x \in Element |-> IF About(x) = {} THEN @[x] ELSE Last(x)]]
    /\ Server

StreamBreaks ==
    /\ browser.open
    /\ browser' = Disconnected
    /\ Server

Next ==
    \/ Statement \/ Upsert \/ Mark \/ ProjectionFails
    \/ \E r \in Requests :
         \/ Receive(r) \/ GateFailed(r) \/ Verdict(r) \/ ExecuteFailed(r)
         \/ AttemptsFailed(r) \/ Complete(r) \/ Watch(r)
    \/ Crash \/ Restart
    \/ graphSnapshot \/ SnapshotArrives \/ SnapshotFails
    \/ OpenStream \/ onNode \/ StreamBreaks

Spec == Init /\ [][Next]_vars
-----------------------------------------------------------------------------
(* Properties.                                                             *)

Value == [status : Status \cup {None}, at : 0 .. Len(outbox)]

Step == [do : {"write"}, req : Requests, column : {"status", "proof"}, status : Status]
          \cup [do : {"emit"}, req : Requests, type : EventType]

TypeOK ==
    /\ up \in BOOLEAN /\ crashes \in 0 .. MaxCrashes
    /\ handler \in [Requests -> {"new", "gate", "execute", "over"}]
    /\ watcher \in [Requests -> {"off", "QUEUED", "PROVING", "GENERATED", "VERIFIED", "FAILED"}]
    /\ todo \in Seq(Step)
    /\ rows \in [Requests -> [status : Status \cup {None}, proof : Status \cup {None}]]
    /\ outbox \in Seq(Event) /\ marked \in 0 .. Len(outbox) /\ faulted \subseteq 1 .. marked
    /\ Len(outbox) <= marked + 1
    /\ done \in 0 .. (IF Draining THEN Len(Writes) ELSE 0)
    /\ graph \in [Element -> Value]
    /\ browser \in [fetch : {"sent", "answered", "over"},
                    snapshot : [Element -> Value] \cup {[x \in {} |-> Absent]},
                    open : BOOLEAN, buffer : Seq(Element \X Value), since : SUBSET Element,
                    shown : [Element -> Value]]
    /\ browser.fetch = "answered" => browser.snapshot \in [Element -> Value]
    /\ ~browser.open => browser.buffer = <<>> /\ browser.since = {}

\* Does an event write an element, and which status.
Touches(n, x) ==
    LET ws == project[outbox[n].type]
    IN  outbox[n].req = x[1] /\ \E k \in 1 .. Len(ws) : ws[k][1] = x[2]

Gives(n, x) ==
    LET ws == project[outbox[n].type]
    IN  ws[CHOOSE k \in 1 .. Len(ws) : ws[k][1] = x[2]][2]

\* events.ts:468: "drain the outbox into the graph. Safe to call repeatedly": once
\* nothing is left to drain, each element shows the last event about it whose projection
\* did not throw, or a later one; no event is lost and none is applied out of order,
\* though a crash may cut a projection anywhere and the event is then projected again.
GraphFollowsOutbox ==
    up /\ ~Draining => \A x \in Element :
      /\ graph[x] # Absent => Touches(graph[x].at, x) /\ graph[x].status = Gives(graph[x].at, x)
      /\ \A n \in 1 .. Len(outbox) \ faulted :
           Touches(n, x) => graph[x] # Absent /\ (x[2] \in Node => n <= graph[x].at)

\* index.ts:878: "a failed request rendered AUTHORIZED forever - in-flight in the UI, dead
\* in the database": in a process that has not crashed, a request that is over has the
\* status of its row in the graph, and so has a settled proof.  After a crash the graph
\* may lag behind the rows, and still never claims an end that the row does not have.
GraphAgreesWithRows ==
    \A r \in Requests :
      /\ Idle /\ crashes = 0 /\ faulted = {} =>
           /\ handler[r] = "over" => graph[<<r, "req">>].status = rows[r].status
           /\ graph[<<r, "proof">>].status = rows[r].proof
      /\ graph[<<r, "req">>].status \in {"COMPLETE", "DENIED", "FAILED"} =>
           graph[<<r, "req">>].status = rows[r].status
      /\ graph[<<r, "proof">>].status = "VERIFIED" => rows[r].proof = "VERIFIED"

\* api.ts:62: "snapshot first, then subscribe ... so the graph converges": whatever has
\* changed since the stream was opened is shown as it is in the graph as soon as the
\* browser has read its buffer, and no late snapshot takes it back.  (What changes
\* between the snapshot and the stream, or while the stream is broken, is not covered:
\* the browser takes no second snapshot and keeps the old state.)
LiveNodesAreCurrent ==
    browser.open /\ browser.buffer = <<>> =>
      \A x \in browser.since : browser.shown[x] = graph[x]
=============================================================================
