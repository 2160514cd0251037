# NexaAssist in TLA+

NexaAssist is a customer-support assistant: a FastAPI backend (PostgreSQL,
Redis, a language-model provider) and a React page. This directory models the
parts of it whose correctness depends on order, failure and concurrency, checks
them with TLC on small instances and proves the most important properties with
TLAPS for every size of the system.

Paths below are relative to the repository (`backend/app/...`,
`frontend/src/...`). `PROJECT.json` maps every definition to the lines it
models and lists the hazards each property is there for.

## 1. Inventory

| Component | State | Operations | Interacts with | What is hard | What makes it correct |
|---|---|---|---|---|---|
| Job queue (`jobs/base.py`, `redis_queue.py`, `memory.py`) | pending, processing and dead lists, one value per job | enqueue, dequeue, complete, fail, get | Redis; producers; workers | every Redis method is several round trips; a worker may die between any two; the in-memory queue dies with its process | no job lost or held twice; attempt budget; exact dead letters; FIFO |
| Job worker (`jobs/worker.py`, `handlers.py`, `domain.py`) | counters, the drain in progress, the session of its handlers | run_once, drain, the handlers | the queue, the services | timeouts after a commit, unrepairable failures, a session nobody rolls back | settles every job, counts what the queue did, gives up only on what cannot work |
| Realtime endpoint (`api/v1/realtime.py`, `realtime/*.py`) | registry of connections, one task per socket | accept, authenticate, register, serve, answer, unregister | tickets, assistant pipeline, client | a task can end at any await | slots are given back; one terminating frame per question |
| Realtime client (`useRealtime.ts`) | sockets, attempts, awaited question, timers | connect, socket events, ask, timers | the endpoint, the page | frames carry no question id; timers outlive questions; reconnection | own answers, nothing hangs, gives up |
| Conversation client (`useConversation.ts`, `useConversationIndex.ts`, `useApiKey.ts`, `useReadiness.ts`) | turns on screen, the conversation, what localStorage holds | ask, callbacks, open, reset, save, load, key changes | realtime client, HTTP API | answers, loads and close events arrive in any order, some for a conversation the user has left | one conversation on screen, nothing waits for nobody |
| Assistant pipeline (`services/assistant.py`, `api/v1/assistant.py`) | the request's session | respond | all of the following | one session shared by every step; swallowed errors | what was said is on record; a promise to the customer is kept |
| Conversations (`services/conversation.py`) | messages with positions | start, get, append, history | PostgreSQL | read-then-insert of a position | dense, append-only history |
| Routing (`routing/`), policy (`policy/`), escalation (`escalation/`) | none (decisions) | decide, enforce, evaluate | each other, through the reply | three rule sets decide about one reply | they agree on when a person is needed |
| Review queue (`services/review.py`) | review items | enqueue, claim, resolve | handoff, reviewers | reviewers at work at once; a claim that is committed and not returned | one reviewer per item |
| Customers and tickets (`services/customer.py`, `ticket.py`) | rows | get-or-create, create, read | PostgreSQL | first contacts race; a commit whose answer is lost | one customer per address, answered means recorded |
| Authorization (`auth/authorization.py`) | the authorizer of the process | scope_for, owner_for, permits | every read and every insert | rows outlive the setting they were written under | the routes show a scoped subject its own rows, in a listing as by id (the agent's tools read without a scope) |
| Agent loop and tools (`agent/`, `tools/`) | steps, budget | run, execute | the provider, the services | two budgets; a tool that times out | a run ends within its budget |
| Workflows (`workflows/`) | step outputs | validate, run | tools | references to earlier outputs | a reference brings its step's output, or nothing after a skipped step; a tool runs only on what it accepts |
| Handshake tickets (`auth/tickets.py`, `redis_tickets.py`) | tickets with expiry | issue, redeem | endpoint, client | redeemed twice, at its expiry | single use |
| Rate limiting (`ratelimit/`) | windows with counts | check | every route | read and count in two round trips | of the requests a window counts, never more than the limit; uncounted ones only when Redis fails |
| Providers (`llm/`) | none | complete, stream | remote API | deadlines, classification of errors | retryable exactly when a retry can help, but for a rate limit that ends a stream |
| Observability (`observability/`) | current span per task, finished spans, ledger, counters | span, record, increment | everything | nesting across tasks, cancellation, capped series | a trace is a request; every call is counted once |
| Context window, chunking (`services/context.py`, `rag/chunking.py`) | none (functions) | build, split | answers, documents | | budgets hold |
| Evaluation, settings, components | | | | | not a matter of order or failure |

## 2. Modules

```
Job ─┬─ RedisJobQueue ── JobWorker ── JobWorkerProofs
     ├─ JobQueue  (abstract; JobWorker implements it)
     └─ MemoryJobQueue ─┐
Customers ──────────────┤
Ownership ──────────────┼─ Desk ── DeskProofs
ReviewDesk ─────────────┘

RealtimeServer ── RealtimeSession ── RealtimeProofs
ConversationPage ── PageProofs

ReplyDecision ── AssistantPipeline ── AssistantProofs

Callers ─┬─ RateLimiter ─┬─ Gateway ── GatewayProofs
         └─ TicketStore ─┘

ToolExecutor ─┬─ AgentLoop ─┬─ ToolUse ── ToolUseProofs
              └─ Workflow ──┘

LanguageModel ── Accounting ─┬─ ObservedCalls ── ObservedProofs
Tracer ──────────────────────┘
```

(`A ── B`: B extends A. `MC*` modules only give constants their values.)

**Jobs.** `Job` is the frozen value of `jobs/base.py` and its four copies.
`JobQueue` is the promise of the protocol: every method one atomic step on one
job. `RedisJobQueue` has the keys and one operator per command or MULTI/EXEC
pipeline of `redis_queue.py`. `JobWorker` puts those commands in the order of
`dequeue`, `complete` and `fail`, with `run_once` and `drain` around them: `pc`
is the await a worker is at, `snap` the Job object in its local variable.
`Lose` is a worker that dies, is cancelled, or loses Redis, at any await;
`Overwrite` is the foreign write `_parse` guards against. A handler is its
outcome and whether its transaction was committed.

**Desk.** `Customers` has the tasks that record something for a customer, one
statement or commit at a time: `_find`, the insert in its SAVEPOINT, `_find`
again after losing, the row, the commit. `Ownership` has the two authorizers and
what reads ask of them: `readable` and `listed` with the scope of the subject,
as the routes pass it, and with `tool_scope`, which is none, as the agent's tools
do. `MemoryJobQueue` is `jobs/memory.py`, whose methods do
not await and so are one step each. `ReviewDesk` has reviewers that claim and
resolve. `Desk` composes them: HTTP requests, a worker whose
`CreateTicketHandler` runs the same statements, reviewers, faults, and restarts
under another authorizer. `shared` says whether all jobs of a worker use one
session. `build_handler_registry` builds the handlers over the services it is
given, once, and the only assembly in the repository gives it one session
(`tests/backend/db/test_job_handlers.py:46`); nothing below the worker rolls it
back. Both assemblies are checked. Of the two handlers `ingest_document` differs
only in the rows it writes.

**Realtime.** `RealtimeServer` has one task per connection (`handler` is the
await it is at), the registry, and ordered channels for frames; frames carry a
question number that is not on the wire, for the properties only.
`RealtimeSession` adds the page's hook: one action per callback of `useRealtime`
and the callbacks of `useConversation`, refs and React state kept apart, and a
network that drops transports or goes away. The prose path is reached only where
no database is configured, and there recording a turn always fails; so a
question in a conversation is refused on that path.

**Page.** `ConversationPage` has all of `useConversation` and the hooks around
it. A step is one event with the effects of the render after it. The server and
the opening of sockets are left open (any answer, any time), so that it covers
sockets that outlive their reference and answers to calls of a conversation the
user has left; `RealtimeSession` covers the order in which the hook connects.
The filters of `remember` and `failStream` are modelled as the removal of the
one entry they can match; that it is one is proved (`IndexListsTheScreen`,
`TurnsInv`).

**Assistant.** `ReplyDecision` holds the pure decisions: the registry of
`build_router`, `decide`, the default policy rules, `enforce`, the escalation
criteria. A text is what those rules ask of it. `AssistantPipeline` has requests
that run `respond` against one database: each has a session of its own, a row it
has flushed and not committed, and one action per await.
With the default wiring policy replaces every reply that escalation would
annotate, so `HANDOFF_NOTICE` is never added; the promise in `RepliesAreHonest`
does not depend on it.

**Observed calls.** `LanguageModel` has what the SDK may return or raise and the
clauses of both providers that translate it, each as it is written, for they
differ on a rate limit. `Accounting` has cost estimates,
the ledger and the counters with their cap. `Tracer` has the context variable,
the blocks that set and reset it, and the spans recorded. `ObservedCalls` runs
HTTP requests and a socket's questions through the three wrappers. The
application wraps the provider only (`get_assistant_service`);
`traced_registry`, `TracedIntentHandler` and the ledger are in place here as the
repository's tests put them together.

**Gateway.** `Callers` has the requests, their subjects and a clock with several
ticks to a second. `RateLimiter` has the three limiters; the Redis one takes two
steps, the server's TIME (or the process's own clock, when that fails) and the
INCR/EXPIRE pipeline. `TicketStore` has both stores; a ticket is named after the
request that minted it. `Gateway` composes them as `POST /ws/ticket` and the
handshake do. Requests without a valid key never reach the limiter and are left
out.

**Tools.** `ToolExecutor` maps a call to the outcomes it can have, and to what a
failing statement does to the session of the request. `AgentLoop` is one run of
the loop over the ledger of `agent/state.py`, with a model that decides
anything. `Workflow` builds a definition one validated step at a time, any
definition up to a length, and runs it. `ToolUse` is a request that does one or
the other.

### External parts

Modelled from how the code uses them:

- Redis executes a command or a MULTI/EXEC pipeline atomically; the client sends
  a command once. A lost reply is the command's step followed by `Lose`.
- PostgreSQL, READ COMMITTED: a SELECT sees committed rows; an INSERT waits for
  an open transaction that inserts the same unique key and is rejected by a
  committed one; an UPDATE holds its row until the transaction ends, and a
  second one waits and reads the row again. A commit that raises may have taken
  effect.
- A SQLAlchemy session whose flush, commit or statement failed refuses further
  statements until it is rolled back. A connection that is refused raises
  `OSError`, which is no `SQLAlchemyError`.
- Redis drops a key when it expires; EXPIRE NX sets an expiry only where there
  is none. A call that raises may have taken effect.
- A WebSocket delivers frames in order; the browser delivers one event at a
  time and fires timers of equal length in the order they were set.
- The SDK returns a completion or raises one of the classes the providers name,
  or another; a cancelled task sees `CancelledError`, which is no `Exception`.

## 3. Runs

| Run | Checks | Shows |
|---|---|---|
| `jobs_safety` | `TypeOK EveryJobHasItsPlace AttemptsAreAccounted NeverOvertaken ImplementsJobQueue` | two workers, two jobs, a fault and an overwrite anywhere: jobs stay in exactly one place with one holder, attempts, effects and counters agree, and the Redis queue implements the protocol |
| `jobs_liveness` | `SettledOrStranded` | every accepted job is settled unless a fault left it in processing |
| `realtime_safety` | `TypeOK RegistryIsExact AnswersReachTheirQuestion WaitingIsTimed` | two questions over two connections with a drop and an outage: answers are well formed and go to their own question unless one timed out |
| `realtime_liveness` | `NothingIsLeftBehind GivesUpInAnOutage` | every question is settled, every dead connection leaves the registry |
| `page` | `TypeOK WaitingIsBacked ScreenShowsOneConversation NothingIsTakenBack EveryQuestionSettles` | a page that asks over two sockets and HTTP, opens, saves, resets and reloads conversations and changes its key, while calls, frames, closes and timers come in any order |
| `assistant` | `TypeOK TurnsAreInOrder RepliesAreHonest TurnsAreOnlyAppended EveryRequestEnds` | two requests race in a conversation, the database fails anywhere once |
| `desk` | `TypeOK RequestsAreHonoured ReadsAreOwned HandedOutOnce EveryTaskEnds` | first contacts race, jobs retry, reviewers claim and resolve one item, statements and commits fail, the process restarts; the routes show a scoped subject its own rows, its agent's tools all tickets |
| `observed_calls` | `TypeOK TracesAreRequests CallsAreCountedOnce OnlyTransientFailuresAreRetryable EveryRequestIsRecorded` | a request and a socket's questions at once, calls that fail in every way, cancelled tools, streams cut by their deadline; what is retryable is said so, but for a rate limit in a stream |
| `gateway` | `TypeOK LimitIsKept NothingPilesUp TicketsAdmitOnce` | every limiter with every ticket store, two requests and two handshakes, time and a failing Redis: what a window counts keeps to the limit, and what is let through uncounted to the failures |
| `tool_use` | `TypeOK SpendsItsBudget RunsFollowTheDefinition EveryRunEnds` | every definition of two steps and every agent run, over tools that fail in every way: budgets hold, references bring what they name, tools run on what they accept |

Disagreements between the code and what the repository says of it, each with a
counterexample (details in `findings`):

| Run | Said | Done |
|---|---|---|
| `realtime_late_frames` | a late frame never reaches the next answer (`useRealtime.ts:21`) | after a timeout it does, on the same socket |
| `assistant_queue_failure` | a queue failure never costs the reply (`docs/architecture.md:603`) | the session is not rolled back, so recording the reply fails |

Four more disagreements are recorded in `findings` against a passing run: its
property states what the code does, and its comment what is said instead.

| Property | Said | Done |
|---|---|---|
| `RunsFollowTheDefinition` (`OnlyAcceptedRuns`) | a step that refers to a skipped one fails validation rather than silently receiving nothing (`workflows/execution.py:97-100`, 120-122, `docs/architecture.md:559-561`, `tests/backend/test_workflow_execution.py:153`) | `list_tickets` accepts `None` for its status (`tools/domain.py:57`) and runs unfiltered |
| `OnlyTransientFailuresAreRetryable` | the streaming provider reuses the error translation of the other (`groq_streaming.py:4-7`) | it restates it, and a rate limit is a 429 in one and a 500 in the other (82-86) |
| `ScreenShowsOneConversation` | on saving, the messages already on screen stay (`SaveConversation.tsx:111`, `SaveConversation.test.tsx:62`) | `start` empties the screen (`useConversation.ts:176`) |
| `ReadsAreOwned` | unowned rows are refused under scoping, not shared (`docs/architecture.md:911-914`) | the agent's tools read tickets with no scope, whoever asks (`tools/domain.py:41`, 86; `agent/factory.py:36-39`) |

### What the properties leave room for

The properties are as strong as the code allows. Where one makes an exception,
the exception is something the code does:

- Page (`ScreenShowsOneConversation`, `crossed`): a stream that completes after
  the user has opened another conversation adopts the old one's id
  (`useConversation.ts:231`); two history loads race and the last to arrive wins
  (138); a 404 for an entry of the index also clears the stored id and the screen
  (148). `closedByUs` is one flag for all sockets, so a `connect` that awaits its
  ticket while the effect runs again opens a second socket (`useRealtime.ts:135`).
- Realtime: the timer of an answered question stays armed and reports the next
  one early (`useRealtime.ts:161`); `onopen` resets the attempts, so a page that
  is accepted and then refused reconnects for ever (147). The exceptions in
  `AnswersReachTheirQuestion` and `GivesUpInAnOutage` are these two.
- Page, saving (`ScreenShowsOneConversation`, `NothingIsTakenBack`): a save
  takes everything off the screen, questions included (`useConversation.ts:176`);
  `Emptied` allows for that, for `reset` and for a refused history.
- Rate limiting (`LimitIsKept`): the limit is on the requests a window counts
  while it lasts. Three kinds are not among them: those let through uncounted
  because the pipeline failed (`redis_limiter.py:86-92`), whose number
  `UncountedOnlyOnFailure` bounds by the failures of Redis; those of a window
  some process derived from its own clock, since TIME failed, whose counter may
  expire early; and those whose window was over when they were counted.
- Tickets (`NothingPilesUp`): the store in memory keeps an expired ticket until
  it issues the next one; so what it holds was issued within one lifetime, not
  within the last.
- Workflows (`RunsFollowTheDefinition`): a reference to a skipped step, or to an
  input nobody passed, brings nothing; the step runs all the same where its tool
  accepts that, as `list_tickets` does for its status.
- Providers (`OnlyTransientFailuresAreRetryable`): a rate limit that ends a
  stream is reported as permanent (`groq_streaming.py:82-86`).
- Reads (`ReadsAreOwned`): the exactness is that of the routes that read tickets
  and conversations. What the agent answers a scoped subject may come from any
  ticket, since its tools pass no scope; the property says so in its last
  conjunct, which a scope passed there would break.
- Jobs on a shared session (`RequestsAreHonoured`, `shared`): after one failed
  statement every later attempt of every job is refused by the session, although
  the error it raises asks for a retry (`jobs/domain.py:50`). A payload the
  tables refuse (a subject of up to 500 characters against a column of 200,
  `jobs/domain.py:62` and `models/ticket.py:62`) is retried like any other
  failure. A commit whose answer is lost makes a retry create a second ticket;
  the bound is one ticket per attempt.
- Review: `resolve` looks at no status (`review.py:110`), and a claim that fails
  in its last read leaves an item claimed that nobody was given (106). So
  `HandedOutOnce` says at most once, not exactly once.
- Observability: a tool cut off by its deadline ends its span as "ok" and is not
  counted, since cancellation is no `Exception` (`tracer.py:19`); a question over
  the socket has no request span, so each of its calls is a trace of its own
  (`api/v1/assistant.py:61`); a completion whose output fails validation is not
  counted. `CallsAreCountedOnce` counts what the wrapped provider returned, under
  each model and, since a label that reads as prose is replaced, under all such
  models together.
- Agent: with no tool calls allowed a run stops before the model is asked
  (`agent/state.py:127`).

### Bounds, and why they are enough

- Jobs: two jobs and two workers give every pairwise race; `MaxAttempts = 2`
  has a retry and a last attempt; `DrainLimit = 2` has a drain that ends on its
  limit with work left; one fault and one overwrite, at any point. Safety is
  proved for all values, so the bounds matter only for what is not proved.
- Realtime: two questions are what a late frame or timer needs; two sockets are
  an old and a new connection; sockets are used again once both ends are done,
  so reconnection goes on without a bound; `MAX_ATTEMPTS = 1` has one retry and
  giving up; `MaxConnections` 2 (1) with other clients joining and leaving
  reaches the ceiling. The liveness run is smaller (no drops beyond the outage,
  no deltas) because deltas and drops add states and no new way to wait.
- Page: two questions, two sockets (the current one and one let go of), three
  moves of the user or of the settings (open, leave, come back), three
  conversations against an index of two that starts full, so that an entry is
  dropped; refusals 401 and 404 are the two the page treats apart.
- Assistant: two requests with two turns each make four positions (`MaxTurns`);
  one conversation, plus requests without one and with one they may not see;
  confidence below and at the threshold.
- Desk: two requests, or a request and a worker, from one mailbox spelled in two
  ways; a job with up to two attempts, two faults (both attempts, or a request
  and a job), a restart; two reviewers with two calls each on one item. `Shifts`
  bounds who acts together: requests and jobs meet reviewers in no table, so
  their product adds states and no new race. The proofs have no such bound.
- Observed calls: an HTTP request with two calls and a socket with two questions
  of one call; a model with a price and one without; one series per metric, so
  that the second is dropped; two deltas, so that a deadline falls between them.
- Gateway: two requests, of one subject or of two, against a limit of one; a
  window of two seconds and a ticket's life of one, with two ticks to a second;
  time until late in the second window, so that counters and tickets expire; a
  clock off by a tick; one failing call. Two handshakes are a race for a ticket.
- Tools: three names and definitions of up to two steps have every kind of
  reference (to an input, to a step that succeeded, was skipped or is missing)
  and every order of an optional and a required failure; the limits of an agent
  run differ (3 and 2), so each of the two is told from the other. The proofs
  cover every length and every budget.
- `CHECK_DEADLOCK FALSE` where the system may stop: requests, handshakes,
  questions, calls and runs are finite in number and end, and time is bounded.
  `EveryRequestEnds`, `EveryRunEnds`, `EveryTaskEnds`, `EveryRequestIsRecorded`
  and `EveryQuestionSettles` say that nothing stops half-way.

### Fairness

- Jobs: weak fairness of a worker's steps (an await on Redis or a handler under
  `asyncio.timeout` returns) and of the caller that drains again (external: the
  repository leaves the loop around `drain` to its operator).
- Realtime: weak fairness of the page's callbacks and timers and of each server
  task: event loops run what is ready, and the calls a task awaits have
  deadlines. Nothing makes a user ask or a network recover.
- Page: the browser settles every fetch, with an answer or a failure, and runs
  the answer timer. Nothing is assumed of sockets or of the user.
- Assistant, observed calls: weak fairness of each request's steps: statements
  return, the provider's calls have a deadline.
- Desk: weak fairness of each request, of the worker (drained again and again)
  and of each reviewer's call. No fairness for faults or restarts.
- Tools: weak fairness of the next step: the executor's calls and the provider's
  have deadlines.

The gateway is checked for safety only.

## 4. Proofs

Each `*Proofs` module extends its component. Every safety property and every
action property of the passing runs is a theorem, for any sets and bounds that
satisfy the named ASSUMEs. These say no more than the system needs:

- bounds are natural numbers; a limit, a window, a cap and the questions of a
  socket are at least one; special values (`None`, `NoSocket`, `NoSpan`) are not
  members of the sets they stand beside; `Sockets` is finite;
- a desk has a job and a subject (`DeskAssumption`), without which its address
  and owner types are empty;
- the index an earlier session stored is one the code can have stored: entries
  of the right shape, within the cap, each conversation once (`PageAssumption`;
  `IndexListsTheScreen` proves that the page leaves such an index).

An invariant of the runs is rarely inductive. Each list below names what had to
be added; TLC checked every such invariant on its run's instance before it was
proved.

- `JobWorkerProofs`. That no job is lost needs to know, at a step that settles a
  job, that no one else holds it. `ListInv` (pending and dead lists have no
  repetition and agree with the stored status), `HolderInv` (a holder's job is
  in processing, its copy is the stored one, and no one else holds it) and
  `TypeInv` together (`CustodyInv`) are inductive; `BudgetInv` adds attempts and
  effects, which need custody to know that the copy written back is current;
  `CountInv` ties the worker's counters to the cardinality of what the queue has
  settled. From them: `PlacesAreExact`, `AccountsAgree`, `NoJobIsOvertaken`, and
  the refinement: every step of the Redis queue is a step of `JobQueue` or
  leaves it unchanged.
- `RealtimeProofs`. `RegistryInv` ties the registry to the tasks between `add`
  and `finally`, and the count to the ceiling. `TimerInv` ties what the page
  waits for, what the hook waits for and the timer armed last; `WaitEnds` is the
  lemma for the callbacks that end a wait. `AnswersReachTheirQuestion` relates
  the page to frames it has not received, so `SessionInv` says where a question
  can be: `WireInv` (questions are taken in order and their frames sent in that
  order, those of one together, and nothing but deltas comes before its end), `TaskInv` (which awaits have a question), `PageInv` (the hook listens to
  one socket at most, and has then reconnections left) and `LiveInv` (until a
  timeout, that socket carries nothing but the question awaited). A new
  connection satisfies `LiveInv` because nothing has been sent on it, an old one
  because nobody listens to it.
- `PageProofs`. `TurnsInv`: local turns have ids of their own and a customer's
  turn is never empty, so that the placeholder `failStream` takes out is not a
  question. `CountInv` bounds the counter of turns by two a question, one of
  them reserved while a call is out. `OfInv` extends the screen's conversation
  to the questions on their way, which is what makes a late reply harmless.
  `GrownTurns` and `Rewritten` say what appending to and mapping over the turns
  keep; `Remembered` and `Named` the same of the index.
- `AssistantProofs`. `TypeInv` adds to the type which values are set at which
  await (`Flow`). `DenseInv`: a position read is at most one past the end, and a
  flushed row is exactly one past it, since nobody can have committed one
  meanwhile (`DenseAdd`, `DenseCommit`). `AnswerInv`: a request past its
  question's commit has it on record. `RecordInv`: what was decided is allowed
  and on record once replied. Lemmas `ReasonsOf` and `DecidedIsSound` carry the
  decision table: escalation and replaced replies coincide. `TurnsStandInOrder`
  and `RepliesTellTheTruth` put them together.
- `DeskProofs`. `HandedOutOnce`: a claim whose UPDATE matched must know that
  nobody else is between UPDATE and return. `RowInv` (a row has one writer; what
  a claim holds is pending until it commits and never pending after) with
  `TakeInv` and `HandInv` is inductive. For reads, `StampInv` and `AskInv` follow
  the owner from the moment a request arrives to the row: a request that has
  arrived never arrives again, so a restart under another authorizer cannot
  change what its rows say (`StampsDecideReads`, which also has the reads of the
  tools). `HonourInv`, for `RequestsAreHonoured`, adds
  `StoreInv` (a task past its insert finds its customer staged or committed),
  `RequestInv` (a request at work has left no row, one that is done its own and
  nothing else), `TicketInv` (the tickets of a job differ in their attempt alone)
  and `BlameInv` (over a session of its own, every finished attempt of a job that
  is not done was failed by the database).
- `GatewayProofs`. That an admitted handshake's ticket is gone from the store,
  and that tickets in the store belong to their request, is what makes single
  use inductive; the same invariant gives authentic admission and the bound on
  what the store holds. `LimitInv`, for the limiter, counts from both sides: a
  counter that is still kept is no less than the requests counted in its window
  by the server's clock (`CounterInv`; so the limit holds), and no more than the
  checks of its subject and window that are over (`UpperInv`; so a refusal means
  a full window). `Uncounted` bounds what is let through uncounted by `faults`: a
  step adds one such request at most, and Redis has failed in it
  (`UncountedJoins`). `KeptInv` says what keeps counters from piling up.
- `ObservedProofs`. `TraceInv` speaks of open blocks and recorded spans alike: a
  task's context and its blocks form one stack (`BlocksInv`), identifiers are its
  own and given out once (`IdsInv`, `FreshInv`), spans that share a body, a trace
  or a parent agree on the rest (`PairsInv`), and a request's span has no parent
  (`RootInv`). `CountingInv` adds to the sums that series are finitely
  many (`SeriesInv`), which the cap needs; `RunsAgreeWithTheTrace` counts finished
  spans against the run counters. That retries are told truly rests on what each
  clause raises (`StatusOfAFailure`), in the pipeline and in a stream apart.
- `ToolUseProofs`. `AgentInv`: while a run goes on its ledger holds tool calls
  only, so both limits bound the same number. `WorkflowInv`: definitions are
  well-formed (`WellFormed`), `outputs` holds exactly what succeeded
  (`OutputsMatch`), and a run that goes on has met optional failures only
  (`OnlyOptionalFailed`); a reference that brings nothing can then only be one of
  the two the property names. `RunsOnlyTheAccepted` follows from what `outcomes`
  gives for a value a tool does not accept. `CompletionInv` adds which step ended the run.

Left to TLC, being out of the prover's reach: liveness under fairness
(`SettledOrStranded`, `NothingIsLeftBehind`, `GivesUpInAnOutage`,
`EveryRequestEnds`, `EveryRunEnds`, `EveryTaskEnds`, `EveryRequestIsRecorded`,
`EveryQuestionSettles`). The two runs that show a disagreement are
counterexamples and have nothing to prove.

## 5. Not modelled, and the plan

Every component whose correctness depends on order, failure or concurrency is
modelled. Left out:

- `services/context.py`, `rag/chunking.py`: pure functions of one history and
  one text, with no state to race for.
- Validation of settings, rendering of errors, formatting, logging, prompts, HTTP
  and WebSocket framing, request bodies and JSON schemas of provider calls.
- Similarity search and paging: the database's.
- Comparing API keys: a request comes with the subject it was given.
- Evaluation: an offline harness without shared state.
- Migrations and React components (they render state).
- Ping frames: answered at once, and no client here sends them.
- Two tabs of one browser: each keeps its own copy of the index, so the last to
  write wins (`useConversationIndex.ts:101`).

Next: the safety part of what liveness rests on, as theorems: a state in which
a question, a request or a job is unsettled has a step of the component that
settles it, stated without ENABLED as the guard of that step.
