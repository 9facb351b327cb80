# Confidential compute network: a TLA+ verification project

The repository is a prototype network in which contributors lend their provider
API keys to strangers. A client seals a prompt to an *enclave* (`services/tee-sim`);
a *coordinator* (`services/coordinator`) that cannot read it keeps the books and
chooses the credentials; a zkVM *guest* (`prover/`) decides the policy, and a *prove
daemon* (`prover/host`) later proves that decision. This directory models the parts
whose correctness depends on order, concurrency and failure, checks them with TLC and
proves their safety properties with TLAPS. Pure algorithms that exist twice, in TypeScript
and in Rust, are compared with each other.

## 1. Inventory

| Part | State | Operations | Talks to |
|---|---|---|---|
| Request handler (`coordinator/src/index.ts`, `runSecureRequest`) | `requests`, `provider_attempts`, `proofs`, `decision_receipts`, `compute_receipts` rows | receive, gate, store verdict, discover, execute, settle | enclave (2 awaited calls), routing, outbox, watcher |
| Proof watcher (`watchProof`) | the same `requests` and `proofs` rows | poll, hiccup, mid-flight, FAILED, VERIFIED, 15-minute ceiling | enclave `/proofs/:id` |
| Credential routing (`routing.ts`) | `credentials`, `usage` rows | discover, apply outcome, record usage, roll the day | handler |
| Credential administration (`index.ts`) | `contributors`, `credentials` rows | POST, PATCH, DELETE | enclave ingest |
| Outbox and graph (`events.ts`) | `outbox_events`, `graph_nodes`, `graph_links` | emit, drain, project | every handler, SSE clients |
| Compatibility endpoint (`compat.ts`) | response keys | seal for the client, open for the client | handler |
| Enclave gate (`tee-sim/src/index.ts`, `pending-gates.ts`) | seen nonces, parked gates, keys of this boot | `/gate`, `/execute`, expiry | daemon `/execute`, prover, providers |
| Enclave dispatch (`runDispatch`, `authorize.ts`, `providers.ts`) | none of its own | authorize, send once, classify, seal | providers |
| Enclave prover (`prover.ts`, `prover-client.ts`) | proof record per request | start, enqueue, poll, verify, fail | daemon `/prove`, `/jobs/:id`, verifier process |
| Credential ingest (`index.ts`, `intent.ts`) | consumed intent digests, cached policy id | open, parse, encrypt under the vault key, mint a capability | coordinator, daemon `/health` |
| Prove daemon queue (`prover/host/src/queue.rs`) | job table, eviction order, channel, worker | enqueue, get, work | enclave prover |
| Policy engine (`packages/policy`, `prover/policy-core`) | none | normalise, match, score, decide; policy identity | gate, prover, Policy Lab |
| Guest and its doors (`prover/methods/guest`, `host/src/server.rs`, `main.rs`) | none | check the input, decide, commit a journal | enclave gate and prover |
| Receipt verification (`packages/verify`, `prover/verify`, `tee-sim/src/verify.ts`, `scripts/verify-receipt.ts`) | none | check signatures, bindings, proof | enclave prover, clients |
| Insights (`tee-sim/src/insights`, `/v1/insights`, insights page) | facet counts of this boot; the relay's cached bulletin; the page's bulletin and key | classify, record, sign a bulletin, relay, poll, check the signature | gate, coordinator, browser |
| Contribute page and client library (`apps/web`, `packages/client`) | step, attestation, busy flag | attest, seal, post | coordinator |
| Live graph (`apps/web/src/lib/api.ts`) | nodes and links shown | snapshot, follow the stream | `/v1/graph`, `/v1/graph/events` |
| Playground page and proof panel (`app/playground/page.tsx`, `ProofBeat.tsx`) | stage, answer, verdict, failure, proof; one activation of `send()` and one poller per request | attest, seal, post, show, poll the proof | client library, `/v1/requests/:id/proof` |
| Other pages, scripts, mock provider | – | – | public endpoints |

What is hard here:

* **Two writers of one row.** The handler and the watcher both write the `requests`
  row; each holds what it read before an await.
* **Two processes that forget.** The enclave keeps nonces, parked plaintext and proof
  records in memory and makes a new key at every start; the coordinator keeps its
  database but no handler or watcher.
* **At most one dispatch.** Replays under other ids, direct calls of `/execute`,
  expired parks and answers of unknown outcome must not send a prompt twice.
* **Accounting that may fail.** A booking may throw, an answer may be lost and a crash may
  cut a settlement; what cost money must be booked once, and a booking must not decide how
  the request ends.
* **A cap tested at one moment and counted at another**, across midnight, with
  contributors who change or revoke the row in between.
* **Two locks.** The daemon inserts a row under one lock and sends the frame under
  another; eviction must skip unfinished jobs and keep the table bounded.
* **Bounded memories** (nonces, parked gates, jobs) at their limits.
* **A test before an await and a record after it.** Ingest tests whether an intent is
  consumed, awaits the daemon, and records it afterwards; deliveries may overlap.
* **Untrusted relays.** The coordinator relays the attestation, the sealed key and the
  candidates' rows; the daemon delivers receipts. Neither is trusted with any of them.
* **One function, two languages; one receipt, four verifiers.** They must agree.
* **Rows, events and pictures.** A row, its event, the projection of the event and the
  browser's copy are separate writes, and the process may die between any two.
* **Continuations that outlive their cause.** A page's awaited calls and pollers write
  the same state, and none is cancelled when the next request is sent.
* **Answers out of order, from two boots.** Polls of one page overlap, and a relay's cache
  outlives the enclave whose key signed what it holds.

What makes each part correct: a request reaches one final status and keeps it; its
books agree with what was sent; trust is claimed only for verified proofs; an
envelope is sent at most once and only when allowed; a cap can be exceeded only by
requests in flight; a revoked credential stays revoked; an accepted proof job
finishes and is not forgotten before it has; a call that may have cost money is booked
once. A contributed key is used for what its owner sealed with it, and what a page reports
as live is usable; preview and proof decide alike where their Unicode tables do; a bound or
accepted proof is a proof of this request by the pinned program; the graph shows the end
that the row has; a page shows the last request's answer, and calls verified only what
was; a usage bulletin counts what was classified, and names no facet below its threshold.

`PROJECT.json` lists the hazards, each at its line, with the properties that cover it.

## 2. Modules

| Module | Models | Properties |
|---|---|---|
| `JobBoard` | abstract: what the daemon shows to whoever polls a job | (specification) |
| `ProveQueue` | `queue.rs` | bounds, eviction, reachability, refinement of `JobBoard` |
| `RequestLifecycle` | handler, watcher, enclave gate and dispatch, enclave prover; instantiates `JobBoard` as its daemon | single dispatch, books, trust, finality, liveness |
| `Credentials` | `routing.ts`, PATCH, DELETE, the candidates' loop | cap, ledger, one booking per call, revocation, routing order |
| `PolicyEngine` | `engine.ts`, `policy-core`: both engines and both identities, as operators | (used by `ProofPipeline`) |
| `ReceiptVerification` | the reference verifier, the TypeScript verifier, the enclave's checks, `verify-receipt`, as operators | (used by `ProofPipeline`) |
| `ProofPipeline` | build, prompt, daemon's doors, guest, enclave prover's binding, stored bundle, damage; composes the two | agreement of engines, doors and verifiers; only genuine proofs are bound or accepted |
| `Contribution` | contribute page, client library, POST `/v1/credentials`, ingest, `authorizeCandidate` | what is authorized was sealed; what is reported live is usable; the page ends |
| `GraphFeed` | `events.ts`, the handler's and the watcher's events, the live graph's hook | graph against outbox and rows, browser against graph |
| `Playground` | the playground page, the proof panel's cases, the proof endpoint | the answer is the last request's, verified is recorded, pollers end while their coordinator lives |
| `Insights` | classifier, accumulator, bulletin, relay with cache, insights page | bulletins are honest and add up, the page catches up |
| `*Proofs` | – | TLAPS proofs about the module of that name, see section 4 |
| `MC*` | instances for TLC | |

`ProveQueue` and `RequestLifecycle` meet in `JobBoard`: the first is shown to implement
it, the second uses it, so the queue's locks and eviction order need not be explored
together with the request's lifecycle.

### ProveQueue

`table` and `order` are `Jobs.table` and `Jobs.order`; `channel` is the mpsc channel;
`worker` and `current` are the worker thread; `reply` is where the caller of `/prove`
that drew an id has got to. One action per critical section: `EnqueueInsert` or
`EnqueueFull` (first lock), `EnqueueSend` or `EnqueueWorkerGone` (second), `WorkerRecv`,
`WorkerStart`, `WorkerFinish`. `Insert` contains the eviction that ends `Jobs::insert`:
`evict`'s loop rotates unfinished ids from the front to the back until it pops a
finished one, which is `SubSeq(ord, at+1, Len(ord)) \o SubSeq(ord, 1, at-1)` for the
first finished place `at`. The loop can pop one job at most because the table was
within its limit before the insert. That is `TableBounded`, proved for every instance.
`WorkerPanic` is a panic inside the prover, outside every lock; the receiver dies with
it. `Restart` is a new process.

### RequestLifecycle

JavaScript runs a handler alone between two awaits, so the code between two awaits is
one action. `row[r]` collects the request's tables: `status`, `proof`, `trust` are the
columns of `requests`; `decision` is the `decision_receipts` row, `attempts` the
`provider_attempts` rows, `usage` the `usage` row, `receipt` the `compute_receipts`
row. `pc[r]` is the handler, `watch[r]` the watcher (the answer it holds after its
await), `rpc[i]` the call inside the enclave and its answer, `left[i]` the candidates
still to try. `seen`, `parked`, `record`, `run` are the enclave's memory; `EnclaveRestart`
empties them and turns every call inside into `DOWN`. `sends`, `attempted`, `checked` and
`threw` are history: fetches made, requests with an attempt, verifier runs passed, requests
whose booking threw.

An envelope is sealed to the key of one `boot`, and may be posted under several ids (a
replay) or to `/execute` directly (`Direct`). The compatibility endpoint seals a fresh
envelope of its own. The policy verdict is a function of the envelope: the guest is
deterministic. The TypeScript engine that the prover runs again may disagree with it
(`StartProof`'s second disjunct).

`CoordinatorCrash` may fall between any two database writes of a settlement
(`CompletedRow(r, k)`, `FailedRow(r, k)` are the rows after `k` writes). Elsewhere it
falls between actions: a prefix of the writes of the other actions leaves a row that
is RECEIVED, and no property separates such a row from the one before the action.

The accounting may throw. `AssumedUsageThrows` is the `try` block of
`coordinator/src/index.ts:815-847`: the error is logged, and the request ends FAILED with its
attempts and without a usage row. `RecordUsageThrows` is the same on the path of a
completed request, where no `try` block stands: the handler ends, and the row stays RECEIVED.
An attempt of the enclave that fails before anything is sent (`FailBeforeSend`) is recorded;
a request that ran out of candidates without an attempt has no attempt rows.

A parked gate may expire at any time it is not taken; that it does is the work of a timer, and
no property depends on it.

Branches of the code that no state reaches, and that the model leaves out: `/proofs/:id`
never answers `PROVER_UNAVAILABLE`; a VERIFIED record always carries a verified
artifact; the commitment stored with a parked gate always matches the coordinator's
own `/execute`, because both calls carry the same envelope.

### Credentials

A slot is a request in progress. `Discover` rolls every row to today and takes the
snapshot `list[s]`; `Refuse`, `FailEarly`, `Call`, `Exhaust` are the enclave's loop;
`Settle` applies the outcomes and the books in the code's order. `used` ranks
`last_used_at`; `booked` counts today's `usage` rows; `debt` is history: calls that may have
cost money, less their usage rows. `SettleUnbooked` is a settlement whose accounting throws,
swallowed or not, after any number of its statements (`HalfSettled`, which `Crash` shares);
`LoseAnswer` is an enclave's answer that never arrives. `Patch`, `Delete`, `CooldownEnds`,
`Midnight` and `Crash` may come between any two. A `null` limit never refuses anybody
and is not modelled apart from a limit that is out of reach; the dollar cap is moved and
tested by the same statements as the request cap.

`discoverCandidates` is `Deduped(Expanded(Sorted(eligible)))`: its sort, its two nested
loops over passes and rows, and its loop with the `seen` set. A loop is a recursive
function of the number of turns made, `ordered[k]` and `candidates[k]`; so is the loop over
the attempts in `Settle` (`Touched`). `PoolAssumption` asks for at least one slot and a
greatest limit, which any finite set of limits has.

### PolicyEngine, ReceiptVerification, ProofPipeline

The first two modules hold pure functions only. A prompt is a sequence over an alphabet
with one character for each class that the code tells apart: a plain letter, its capital,
a leetspeak symbol and the letter it folds to, a combining mark and the two letters composed
with it, a space, a zero-width character, a character that is white space in Rust and not in
JavaScript (U+0085), and a symbol that Unicode 17 has and Unicode 16 has not (U+20C1).

Both engines begin with NFKC and lower case over the whole text, while its zero-width
characters are still there (`Folded`): a mark is composed with the letter right before it, and
a zero-width character between the two keeps them apart. The engines then read different
Unicode tables, Node's 16.0 (`JsCollapsible`) and policy-core's 17.0 (`is_collapsible`).
`VALIDATION.md:747-830` counts 133 code points on which the normalisers differ; `u17` stands
for the 104 that fold to a separator. The other 29 fold to another character and are not
distinguished; nor is the Final_Sigma rule, which both sides implement. The phrases of the
rules are assumed to be free of such characters (`PhrasesAssumption`): `rules.json` is ASCII.

`normalize` is the TypeScript pipeline of whole-string replacements (`Strip`, the folds,
`Collapse`, `Trim`), `normalize_rs` the Rust loop over characters, a recursive function of the
number of characters read; `match` scans all tokens, `any_token_starts_with` seeks in the set
sorted by bytes (`ByteRank`, `AtOrBelow`). Both engines end in one `Verdict` over the set of
phrases that matched, as their scoring is the same code in two languages. A policy manifest is
a function from keys to numbers, and an identity is the sequence of entries that is hashed.

A receipt is a record of what its seal attests (`sealed`), the journal bytes beside it and the
fields of its file; a digest or signature is the value it was computed from. Every verifier is
the list of its checks in the code's order and answers with the first that fails.
`ProofPipeline` goes through a request once: `Build`, `Release`, `Submit`, `Post` to the doors
(whose two parsers of the request nonce differ: `parse_nonce` of the HTTP server takes a pair
such as `+f`, `parse_nonce_stdin` does not), the enclave's receipt, `Generated` with any
receipt a daemon may deliver, `Bind`; `EnclaveRestart` and up to `MaxFaults` changes to
release, host, file and bundle may follow, and then each verifier is asked.

### Contribution

`page` is the contribute page's component state, `calls` the handlers of POST
`/v1/credentials` in the order of arrival (a phase per await, in either process), `enclave`
its boot, its consumed intents and its cached policy id. `sealed` and `signed` are history:
every intent sealed in the browser and every capability answered. An attestation is a
document, its signature and the keys presented beside it. A relay may answer with any bundle
it can have (`Obtainable`): documents of this and of earlier boots, with its own keys put
beside them, and documents that it has signed with a key of its own over any keys. The client
checks signature, key binding and nonce; it compares the signing key with nothing, so a
document of the relay's own passes, and what is sealed to the relay's key the enclave cannot
open. `DoneIsUsable` says what the page's success still means then: the key was sealed to the
boot that signed its capability. The relay may also post an envelope again (`Repeat`).
`Presented` is every candidate row that can be put together from parts of `signed`, of all
boots.

Two deliveries of one envelope that overlap do mint two capabilities, against the comment
"one capability per sealed intent" (`coordinator/src/index.ts:231`); the second row is
refused by its primary key, and `DoneIsUsable` and `AuthorizedIsSealed` say why this does
no harm: both carry the same constraints, each over its own blob. `VALIDATION.md:169` says
that a restarted enclave could ingest an envelope once more; in the code it cannot, as the
ingress key is new. A stored row stops being usable at the next boot
(`capability_signature_invalid`), which is why `DoneIsUsable` speaks of the boot that signed.

Left out: what a relay does with a key that it has read (the simulated enclave has no root
of trust, and the code says so: no property can say whose key a browser seals to), and
`authorizeCandidate`'s tests of the row's status and provider.

### GraphFeed

`todo` is the rest of the turn that a handler or a watcher is in: UPDATEs of its row and
events, in the code's order. `emitEvent` inserts, and the projector, called through the
bus in the same turn, drains before the next statement: `Upsert` per write of `project`,
then `Mark`. `Crash` may fall between any two statements; `ProjectionFails` is a
projection that throws after any number of its writes, and the event is marked all the
same. Since each event is drained before the next is inserted, only one event can be
projected twice: `Len(outbox) <= marked + 1`. `browser` is the hook `useLiveGraph`. It
reads its buffer between two turns and to its end: where it stops in between makes no
difference to a property about a browser that has read everything.

Left out: nodes that requests share (enclave, policy, models, providers), which keep one
status, and the events about contributors and credentials.

### Playground

A request is the number of its press of the button. `call[k]` is where that activation of
`send()` is suspended, `poll[k]` where its `pollProof` is (a status there is an answer on its
way back, read from the row before the endpoint awaited the enclave). `stage`, `result`,
`denied`, `verdict`, `failure` and `proof` are the page's React state, which all activations
write; `Send` clears them and cancels nothing. `decision` and `proofs` are the coordinator's
rows, reduced to what `RequestLifecycle` proves of them: the gate decides and queues the proof
in one stroke, and a proof only moves forward, by the watcher of the coordinator that queued
it. `CoordinatorRestart` empties `alive`: the rows stay and nobody watches them, so GET proof
answers QUEUED for good and `pollProof`, which has no ceiling, goes on (`Orphaned`). `Beat`
and `ProofPhase` are the cases of `ProofBeat.tsx` and of the timeline.

### Insights

`boot` is the enclave's boot and so its signing key; `counts` and `total` are the
accumulator; `cache` is the coordinator's `lastInsightsBulletin`; `poll[p]` is a poll of
the page on its way through both services; `shown` and `key` are what the page holds. A
prompt is what the classifier sees of it: the categories' scores and thresholds for a
refusal, the number of keywords per facet otherwise. `Answer` and `Relay` are separate, so
that polls overtake each other and a restart falls between them; `RelayCached` is every
way for the enclave's answer not to arrive.

## 3. Runs

| Run | Instance | Shows |
|---|---|---|
| `prove_queue` | 4 jobs, 2 may wait, 3 are kept, 2 starts | bounds, eviction, liveness, refinement |
| `lifecycle` | 1 request of either mode and a direct caller of `/execute` with the same envelope, 2 candidates, 2 boots, 1 crash | single dispatch, decisions, books, trust, finality, liveness |
| `credentials` | 2 credentials of weight 0 or 2 and limit 1, 2 requests at a time, 1 midnight, 1 incident (patch, crash, lost answer or accounting error) | overshoot, ledger, one booking per call, order of candidates, revocation |
| `proof_pipeline` | all prompts of up to 4 characters over 11, all bodies, all receipts a daemon may deliver, 2 damages | engines, identities, doors and verifiers agree; genuine proofs only |
| `contribution` | 2 models, 2 envelopes, 2 deliveries, 2 boots, 2 contributors, any attestation a relay can have | authorized is sealed, live is usable, the page ends |
| `graph` | 1 request and its proof, 1 crash, 1 projection that throws, any number of streams | graph follows outbox and rows, browser follows graph |
| `playground` | 2 sends of either mode, each with its calls and its poller, 1 restart of the coordinator | answers are current, verified is recorded, pollers end |
| `insights` | 2 safety and 2 benign facets, threshold 2, 3 requests, 2 boots, 2 overlapping polls | bulletins are honest and add up, the page catches up |
| `verify_receipt` | the proof pipeline | **violated**: finding 3 |
| `trust_race` | 1 request | **violated**: finding 1 |
| `midnight` | 1 credential, 2 requests at a time, 2 days | **violated**: finding 2 |
| `stale_poll` | 2 sends | **violated**: finding 4 |

Why the bounds are enough to be interesting. In `prove_queue` four ids overflow three rows, so
eviction happens with a caller stalled between its locks, which makes `evict` rotate. In
`lifecycle` one request suffices because the tables are per request; the handler, the watcher,
the prover and the daemon interleave fully, and the direct caller competes for the same
envelope before, between and after the request's own two calls. That the same holds with
several requests, which may carry one envelope under several ids, is proved (section 4). In
`credentials` two requests pass one test of the cap, and a settlement falls on the other side
of midnight; two credentials are what the order of candidates needs, weight 0 drops one and
weight 2 repeats one before the de-duplication. The limit is the same for all rows of that
run. The two positive weights of a run are equal, so the weight's part in breaking ties is
left to the proof, which holds for all weights. Slots are symmetric; credentials are not
(`localeCompare` orders them).

In `proof_pipeline` four characters are enough for a two-word phrase, its plural, a
squashed needle, a letter with its mark and a Unicode 17 symbol inside a phrase;
`ObfuscationIsFutile` adds a fifth. Thresholds and minimal lengths are
scaled down to that size (`PREFIX_MIN`, `SQUASH_MIN`, `SAFE_INTEGER`). Two damages let one
hide another. In `contribution` two deliveries overlap or follow each other, over one
restart, and one may be a repetition; the form is submitted with one model or none. The
relay's bundles are all that the two boots and its own key give. In
`graph` elements belong to one request each, so one request suffices; its handler and
its watcher interleave, and a crash may cut any turn. In `playground` two sends are enough
for a poller to run under a later request. In `insights` three requests let a facet reach the
threshold and others stay below it, and two polls arrive in either order over a restart.

Type invariants are not among the invariants of the runs: they are proved.

`CHECK_DEADLOCK FALSE` is set where the system may stop: when every job is finished or
every request settled and every watcher off, when the bundle has been verified, when
nobody clicks on a page. `Credentials` and `Insights` never stop.

### Fairness

`ProveQueue`: a caller that holds no lock and the worker thread are scheduled, and a prove
ends. Nothing makes a panic or a restart happen. `RequestLifecycle`: event loops run what is
ready, so handler, watcher and enclave are weakly fair. The enclave's awaits end because its
calls have timeouts (`prover-client.ts`, `providers.ts`). Nothing makes a parked gate expire
or the accounting throw. `WatchCeiling` is strongly fair: it is a wall-clock test made before
every poll, and the watcher alternates between sleeping (enabled) and holding an answer
(disabled). The enclave's `Run` and the daemon are **not** fair: a proof may hang there, and
the watcher must end without them. `Contribution`: the continuations of the page and the
handlers of both processes run once their fetch has ended, and fetches end: by an answer, or
because the other process has gone; the daemon's `/health` has a timeout. Nobody has to click,
to lose a message or to restart. `Playground`: awaited calls return or throw, timers fire, and
the watcher of a living coordinator brings a queued proof to an end, which is `ProofSettles`
of `RequestLifecycle`; `WatchProof` is enabled, and so fair, only for requests of the process
that runs, and `PollersEnd` excepts the others. Nobody has to press the button or to restart.
`Insights`: the page's intervals fire and relayed answers arrive. `Answer` and `Relay` are
strongly fair: the enclave may fail to answer any number of times, but not for ever; without
that the page stays with the cache for good, as the code means it to. `ProofPipeline`,
`GraphFeed` and `Credentials` are checked for safety only.

### Findings

1. **Trust race.** The watcher starts before `/execute`. A proof that settles first has
   its trust status overwritten by the completion (FAILED), or never gets one because
   the request was not COMPLETE yet (VERIFIED). The row says `CONFIDENTIAL_PROOF_PENDING`
   for good. `FinalIsFinal` and `TrustIsEarned` say what does hold: the proof status
   itself is right, and trust is never claimed too early.
2. **Midnight.** A settlement after midnight carries yesterday's counter into today.
   `CounterCoversLedger` says what does hold: the counter errs towards too many.
3. **verify-receipt rejects every honest receipt.** It compares the receipt's policy id,
   which is the guest's, with the attested one, which is the TypeScript package's.
   `HonestVerifies` says what does hold: every other check accepts an honest bundle.
4. **Stale poll.** The playground's poller of an earlier request goes on under a later one,
   and shows its VERIFIED proof beside the later request's verdict and commitment as "bound
   to your request commitment". `VerifiedIsRecorded` says what does hold: the proof shown
   is a recorded one, of some request of this tab.
5. **Weights.** The comment at `routing.ts:130-131` says that a weight-2 credential appears
   twice as often in the fallback order. The de-duplication a few lines later leaves every
   credential once; a weight breaks ties of last use, and a weight of zero or less removes the
   credential. `RoutingIsLeastRecentlyUsed` states what the code does.
6. **Two parsers of one nonce.** `server.rs:263` says "32 bytes of hex"; the code below takes
   a sign in each pair, and the stdin door refuses what it takes. `DoorsAgree` states what the
   doors share and that this is the only difference.
7. **Accounting decides an outcome.** "Accounting is allowed to fail; it is not allowed to
   decide the request's outcome" (`coordinator/src/index.ts:817`) is kept where a call of
   unknown outcome is booked. A `recordUsage` that throws on the path of a completed request
   leaves the row RECEIVED and answers 500. `RequestSettles` holds with that exception only.

Findings 1 to 4 have a run that violates a claim of the repository; findings 5 to 7 are
differences that a passing property states as the code has them.

Not a finding, but left by the code: when a response cannot be sealed to the client's key
(`tee-sim/src/index.ts:682`, `:793`), the provider's call leaves no attempt and no usage
row; nor does a call whose answer is lost between the enclave and the coordinator.
`BooksAgree` therefore says that what is booked was sent, and the converse only for answers
that the coordinator has. The two engines' Unicode versions are a difference that
`VALIDATION.md` documents; `EnginesAgree` says that it is the whole difference.

## 4. Proofs

Each `*Proofs` module proves safety theorems of `Spec` for every value of the constants that
the module's `ASSUME`s allow; the bounds of the runs are among those constants, so a theorem
holds for any number of requests, boots, crashes or faults. The argument is the same
everywhere: an inductive invariant, a lemma that `Init` establishes it, one lemma or step
per action that keeps it, and the theorem as a consequence. Every module also proves its
whole `TypeOK` (`TypeCorrect`; `PoolTypes` in `CredentialsProofs`).

What loops and folds compute is proved by induction too. The induction rules of the library
take a predicate as a parameter and cannot be applied here, so each module that needs one
proves induction over a *set* of naturals from their well-ordering (`WFMin`), and
from it that a recursive function exists, is unique, and what it is at each place.

### ProveQueueProofs

For every finite set of jobs and all limits with `MAX_QUEUED < MAX_JOBS_RETAINED` (32 and 64
in the code): `Bounded`, `OrderIsFaithful`, `UnfinishedStay`, `FramesReachable`,
`RefinesBoard`.

The inductive invariant `QueueInv` adds to the properties what they need of each other. The
table stays bounded only because a full table holds a finished job; it does because at most
`MAX_QUEUED` rows wait and at most one is being proved, and `MAX_QUEUED + 1 <=
MAX_JOBS_RETAINED`. That at most one row is PROVING needs `ProvingIsHeld`: such a row
belongs to the job the worker holds (or held when it panicked). That counting rows is
counting places of `order` needs `OrderMatchesTable`; that an inserted id is new needs
`IdleHasNoRow`. Lemmas on sequences (appending a new element, removing one place and
rotating the rest keep a sequence free of repetitions, and what set of elements remains)
carry the eviction step. `FramesReachable` adds `HandOver`, which follows a frame from the
caller over the channel to the worker: it is in one of the three places and never in two.
`RefinesBoard` then maps every step to a step of `JobBoard` or a stutter.

### RequestLifecycleProofs

For any requests, direct callers, envelopes, candidates, boots and crashes, requests that
share an envelope included: `OneDispatch`, `NoDispatchUndecided`, `BooksHold`, `TrustHolds`,
`FinalStatesHold`.

`LifecycleInv` consists of the properties and of

* `HandlerInv`: what a handler's place says of its row and of the call it awaits;
* `CallInv`: which calls may have been sent, that what was sent was an attempt, and
  that a parked gate waits for its `/execute` with an ALLOW;
* `ClaimInv`: among the ids of one envelope at most one has a claim on it (is past the
  nonce test, is parked, or has sent), and a claim is backed by a nonce of this boot or by a
  key that no longer exists. This is why a replay, an expired park and a restart do not add
  up to a second dispatch, and it is what `SingleDispatch` alone lacks;
* `WatchInv`: a VERIFIED on its way to the row, in the record or in the watcher's hands,
  has passed the verifier, and a row with a final proof status has no watcher left.

### GraphFeedProofs

For any requests, crashes and throwing projections: `OutboxIsFollowed`, `BrowserConverges`,
`GraphShowsRows`.
`FeedInv` says that the graph shows events only (`ShownIsEvent`), that marked events are in it
(`MarkedIsShown`), which writes of a half-projected event are in it already (`HalfDone`), and
that a browser lags behind the graph by its buffer alone (`BufferBridges`).

`GraphShowsRows` (`GraphAgreesWithRows`) rests on a second invariant, `RowsInv`, relative to
`FeedInv`. It reads the rest of a turn, `todo`, as a program: the turn writes a column at most
once, and its last event about it shows what it wrote (`ToldAfterWrite`); an end that an event
to come, the event being projected or the graph tells has been written before, and is final
(`EndsAreWritten`); a column that may still be written has no end (`OpenIsUnended`). These
hold across crashes and faults, which is why the graph never claims an end too many. Only in a
process that has not crashed, a handler that is over has written an end or will
(`OverIsEnded`), and, if no projection threw either, the graph shows the row or the last event
on its way does (`GraphCatchesUp`).

### ContributionProofs

For any catalog, envelopes, contributors, deliveries and boots: `AuthorizedSealed`,
`LiveIsUsable`. The heart of `ContributionInv` is `FromSeal`: every
signed capability repeats the intent that was sealed under its id, for the boot that signed.
`authorizeCandidate` ties the row, the blob and the capability to one signature (a lemma on
lists of checks says what `None` as first failure means), so any row a coordinator can put
together is one of those. `CallInv` follows each delivery through its awaits, and `PageInv`
says that what the page shows as created is stored as signed.

### CredentialsProofs

For any pool, requests in progress, days, patches, crashes and accounting errors:
`CapCoversLedger`, `CallsAreBookedOnce`, `PoolTypes`, `RoutingIsByLastUse`, `RevocationHolds`,
`CapOvershootIsBounded`.

`LedgerInv` adds to `CounterCoversLedger` the types of the books and that no row is stamped
with a day to come, without which rolling the day could reset a counter too early.
`CallsAreBookedOnce` is inductive with it and with `SlotsInv`: every step keeps the difference
between what is owed to the ledger and the answers that wait for their settlement, but for a
crash, which forgets both, and a fault, which adds at most one.

The other theorems need to know what `Candidates` returns. `Sorted` is shown to exist, by
induction on the number of rows, and to be a sequence without repetitions. Of the two loops
of `Expanded` and of the loop of `Deduped` it is shown, turn by turn, that the first pass
already puts every row of positive weight in its place, and that the passes after it only
repeat rows the `seen` set then drops: the weight expansion leaves the order as it was, least
recently used first and heavier first among equals. That is
`RoutingIsByLastUse`, and it is what revocation needs (a list holds eligible rows only) and
what the types need (`SlotsInv`: `TypeOK`, and that an answered request has no candidate
left to try). `CapOvershootIsBounded`: a request that may still book a row was counted as
flying when it read the row below its limit; from there on a step either moves a request from
`Flying` to the counter or takes it away, and only a discovery adds one, when the counter is
below the limit and at most all other slots fly.

### ProofPipelineProofs

For any rules document, threshold, range of safe integers, prompt length and number of
damages: `BindingsAreGenuine`, `AcceptedGenuine`, `TwoVerifiersAgree`, `HonestBundlesVerify`,
`DaemonDoorsAgree`, `PolicyIdentitiesAgree`, `PolicyEnginesAgree`,
`ObfuscationChangesNothing`. `PipelineInv` adds to `BoundIsGenuine` what each
stage has written (`StageInv`), that a seal of the pinned image covers a journal the guest wrote,
about this request only with the gate's decision (`SealInv`), and
what everything is while nothing was damaged (`HonestInv`). The verifiers are lists of
checks; `FirstFailureNames` says what the first failure of a list means, and one lemma per
verifier says what it accepts.

`PolicyEnginesAgree` holds for texts and phrases of any length and any rules document whose
phrases both Unicode versions read alike: on a text that they read alike the verdicts are the
same, and on any other the Rust engine decides as the TypeScript engine does once each Unicode
17 symbol is written as a space. Its lemma `NormalizersAgree` goes over a text one character
at a time: `Matches` relates what the four passes have made of the text so far to the state of
the walk (what is out, and whether a space is pending), `MatchesStep` keeps it when a
character is appended, and trimming the one gives the other at the end. `SeekFinds` says that
the first token at or above a needle begins with it if any token does: the byte order is total
and transitive, and what lies between a needle and a text that begins with it begins with it
too (`PrefixBetween`). `ObfuscationChangesNothing` compares walks: the walk passes over a
zero-width character, and does the same at a letter and at its capital or leetspeak form. What
NFKC makes of the changed text is settled first: unless a letter is parted from its mark, only
the changed place differs.

### PlaygroundProofs

For any number of sends: `VerifiedWasRecorded`, `AnswersAreCurrent`, and `ProvingWatched` (a
page that says "proving" has a live poller of its last request). The key clause of `PageInv`
is `CallInv`: only the last send awaits anything, and meanwhile the page is blank, which is
what disabling the button buys. The pollers of earlier sends go on, so what they carry is tied
to the rows (`PollInv`, `ProofInv`) and not to the page; `RowInv` says exactly the decided
requests have a proof.

### InsightsProofs

For any taxonomy, threshold, prompts, polls and boots: `BulletinsAreHonest`,
`BulletinsAddUp`.
`InsightsInv` adds `TallyInv`: a safety facet has met refusals only, a benign one none. It
rests on the classifier, whose two `CHOOSE`s are shown to find a winner (`EarliestBest`, from
the well-ordering of the naturals). Everything outside the enclave only copies bulletins
(`Copies`), so what is left is that the counters of a boot only grow.

`BulletinsAddUp` needs sums over finite sets: that the fold behind `MapThenSumSet` exists and
does not depend on the order (`SumExists`, `SumUnique`, `SumRemove`), may be renamed
(`SumRenamed`) and split in two (`SumSplit`). `AddsInv` says that a boot's total is the sum of
its counters (`TotalIsTally`) and that every bulletin adds up; the listed facets and the rest
are a split of that sum.

### Only model-checked

Liveness, which like `ENABLED` is out of the prover's reach: `AcceptedIsFinished`,
`RequestSettles`, `ProofSettles`, `SubmitEnds`, `PollersEnd`,
`PageCatchesUp`.

Every invariant and every action property that a passing run checks is a theorem. Each
inductive invariant was checked by TLC on the run's instance, or a smaller one, before it was
proved.

## 5. Plan

Done: all modules of section 2 and their runs; the theorems of section 4.

Left to model: the enclave's bounded memories (nonces, parked gates) with the order of
their `Map`; the response keys of the compatibility endpoint; the order of eviction
against the age of jobs (`queue.rs` speaks of the oldest finished job; rotation may put an
older job behind newer ones); credential events in the graph.

## 6. Not modelled

Cryptography (HPKE, signatures, digests, the proof system) is used as a fact: an envelope
opens under one key, a signature is by one key over one value, a seal attests one journal.
Message contents, prices, timings, log lines and event payloads are left out; so is the
guard of `emitEvent` against forbidden fields. Nonces are assumed to stay below
`NONCE_MAX`. The daemon's limits on bodies and concurrency, the dashboards, the
inspector and the drawing of the graph, benchmarks, the mock provider
and the scripts other than `verify-receipt` are not modelled; `PROJECT.json` gives the
reason for each part.

Seen while reading and not stated as properties: the contribute page in its last step
offers no way to attest again, though its error says "re-run step 2" (`page.tsx:128`); a
contributor whose answer is lost is created again by a retry; `verify-receipt --file`
still needs a running coordinator for keys. In the playground, a denial by the
compatibility endpoint is never polled for its proof, though `page.tsx:202` says a DENY is
still proved and polled: the page reads `json.request_id` (`page.tsx:140`) and the
coordinator puts it inside `error` (`coordinator/src/index.ts:661`). Its timeline shows ALLOW
while a request is in flight, before there is a decision (`page.tsx:286`). An error of
the proof endpoint ends the polling and sets the stage to "done". The client's
`waitForProof` returns on GENERATED too (`packages/client/src/index.ts:364`). A credential
that a provider rejects is disabled without a `credential.updated` event
(`routing.ts:184`).
