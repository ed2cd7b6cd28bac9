# Verification of go-agent-chat-server

TLA+ models of the chat server in this repository, the TLC runs that check
them, and TLAPS proofs about them. Paths below are relative to the
repository's `src/`.

## 1. The system

| component | state | operations | talks to |
|---|---|---|---|
| asynchronous jobs (`internal/service/async_chat_service.go`, `internal/api/async_chat.go`) | a `chat_jobs` row per job: status, retry count, answer | Submit, GetJob, ProcessTask | message service, task queue, LLM |
| task queue (`internal/queue/chat_task.go`) | one AMQP channel, a mutex, a channel of confirmations | PublishChatTask, ConsumeChatTasks | RabbitMQ (durable queue, manual acks) |
| worker (`cmd/worker/main.go`) | prefetch, semaphore, wait group, a context cancelled by signals | consume loop, handleDelivery | ProcessTask, RabbitMQ |
| job table (`internal/store/chat_job_repo.go`) | `chat_jobs` | four UPDATEs by id, no guard on the status | MySQL |
| ID generator (`internal/pkg/idgen`) | lastMs, sequence, a mutex; one per process, all with node 1 | NextID | wall clock |
| messages (`internal/service/message_service.go`, `internal/cache/message*.go`, `internal/store/message_repo.go`) | rows, a cached list, cached pages | CreateMessage, ListMessages, ListMessagesPage, SearchMessages | MySQL, Redis |
| sessions (`internal/service/session_service.go`) | `sessions` rows | create, list, rename, DeleteSession | MySQL, Redis |
| chat service (`internal/service/chat_service.go`) | the LLM semaphore | Chat, StreamChat, ChatCompletion, StreamChatCompletion, GenerateAnswerFromHistory, publishChatEvent | messages, LLM clients, event publisher |
| SSE handlers (`internal/api/chat.go`) | a pipe per response | ChatStream, OpenAIChatCompletions | chat service |
| event publisher (`internal/queue/rabbitmq.go`) | AMQP channel, mutex, two channels of answers | Publish | RabbitMQ |
| LLM clients (`internal/llm`, `internal/agent`) | none | Chat, StreamChat | Ollama |
| rate limits (`internal/cache/llm_rate_limit.go`, `internal/middleware/rate_limit.go`) | a counter with a TTL per user and per IP | one atomic script | Redis |
| middleware and router (`internal/router`, `internal/middleware`) | the index of the handler chain | auth, API key, rate limit, recovery, logging | all handlers |
| tools (`internal/tool`) | none | calculator, clock, keyword matching | chat service |
| accounts and tokens (`internal/service/auth_service.go`, `internal/pkg/jwtutil`) | `users` rows; tokens are kept by clients only | Register, Login, ParseToken | MySQL |
| knowledge documents (`internal/service/knowledge_service.go`, `internal/store/knowledge_repo.go`) | `knowledge_docs` rows | create, list, get, delete, search | MySQL |
| Coze handlers (`internal/api/coze.go`) | none | CampusSearch, CampusAsk, Event | documents, chat service, event publisher |
| start-up, configuration, metrics, health | atomic counters | | |

How they interact: every HTTP handler runs in a goroutine of the server
process and calls services directly; services share MySQL and Redis with the
services of the worker process, by nobody's lock; server and worker are joined
by a RabbitMQ queue; within a process, goroutines share the ID generator (a
mutex), the LLM semaphore (a buffered channel) and one AMQP channel per
publisher (a mutex).

### What is hard here

* **Jobs.** The task is published after the row is written, confirmed within 2
  seconds or not, delivered at least once, handled by code that writes the row
  without looking at it again, acknowledged last. Processes die and connections
  close between any two of these steps. Right means: nothing that was accepted
  is lost, what a client is told stays true, and a redelivery costs no more
  than it must.
* **Messages.** Rows are written first and caches dropped after, in separate
  commands whose errors are ignored. Right means: callers that do not overlap
  read what is stored, what is deleted is not read, nothing is stale but for a
  race or an error.
* **IDs.** They are primary keys and the order of pages, and the clock may go
  back. Right means: strictly increasing, whatever the clock does.
* **Events and confirmations.** Answers of the broker carry no name and are
  taken by whoever publishes next. Right means: an answer is taken by the one
  it is for.
* **LLM slots and streams.** A slot is held across an LLM call, writes into a
  pipe and an insert. Right means: every path gives it back exactly once, a
  stalled client harms only itself, "done" is said only of a stored answer.
* **Requests.** The framework runs the next handler whenever one returns, so a
  middleware that refuses does not keep it from running, and no user is set for
  it. Right means: nothing is done for anybody but its owner, limits bound what
  passes, and each request is counted once with the status its client got.
* **The calculator.** A hand-written parser whose result goes unseen into a
  prompt. Right means: it computes what the grammar says, of the right piece of
  the message.

`PROJECT.json` lists each of these hazards at its line with the properties that
cover it, or why none does.

## 2. Modules

| module | models | extends / composes |
|---|---|---|
| `ChatJobLifecycle` | what the asynchronous API promises of a job (abstract) | |
| `AsyncChat` | Submit, publish and confirm, broker queue, workers, ProcessTask, the row | refines `ChatJobLifecycle` |
| `AsyncChat_proofs` | proofs about tasks and answers, and about the row: its tries, its result, its life | `AsyncChat` |
| `Snowflake`, `Snowflake_proofs` | the ID generator, proofs about it | |
| `MessageHistory`, `MessageHistory_proofs` | rows, cached list and cached pages of one session | extends `PageOffset` |
| `EventPublisher`, `EventPublisher_proofs` | publishing chat events and posted events over one confirmed channel | |
| `ChatTurn`, `ChatTurn_proofs` | chat requests, LLM slots, streamed responses | |
| `RateWindow`, `RateWindow_proofs` | the fixed window that one Lua script keeps, proofs about it | |
| `PageOffset` | the rows a page skips, as an int that wraps round | |
| `Accounts` | users, registration, login, tokens | |
| `Records` | sessions and documents by statement, pagination | extends `PageOffset` |
| `RequestChain` | a request through the middlewares to its handler and back | extends `Accounts` and `Records`, implements two instances of `RateWindow` |
| `RequestChain_proofs` | proofs about whole requests | extends `RequestChain`, instantiates `RateWindow_proofs` twice |
| `Calculator`, `Calculator_proofs` | what the calculator takes for an expression, and its parser, proofs about both | |
| `MCAsyncChat`, `MCSnowflake`, `MCEventPublisher`, `MCChatTurn`, `MCRequestChain` | constants of the runs | the module named |

`MessageHistory` and `Calculator` need no MC module: their constants are plain
sets.

An operator whose name starts with `Mut`, with a comment that begins "Mutant",
is a variant of the definition after it with a plausible bug. No specification
uses it. It shows that a property can fail: with the variant in place of the
original the property is violated (`PROJECT.json`, "mutants").

### AsyncChat and ChatJobLifecycle

One step per database statement, publish, confirmation, LLM call and ack.

* `row[j]` is the `chat_jobs` row as far as anything reads it: status,
  retry_count, and assistant_message_id as a number per job.
* `submit[j]` is the place in Submit. `SubmitRefuse`/`SubmitCreate` are
  everything up to the insert, `Publish`/`PublishError` the send under `q.mu`,
  `AwaitConfirm`/`AwaitFails` the select on confirmation and timeout,
  `SubmitFails` the `MarkFailed` whose error is dropped.
* `wire` and `confirms` are what is on its way to and from the broker.
  Confirmations carry no name, so one that comes too late is taken by the next
  Submit, as in the code. How many of them the Go channel and the library hold
  at a time is left to `EventPublisher`.
* `task[j]`, `holder[j]` are the queue; a closed connection requeues what its
  worker held.
* `handler[w][j]` is the goroutine in ProcessTask: `Load`, `Start`
  (MarkRunning), `Generate` and `Store` (GenerateAnswerFromHistory), `Fail` or
  `Succeed`, `Ack` or `Nack`. It keeps the retry count it loaded.
* `live`, `connected`, `stopping` are the worker processes. After `Disconnect`
  the handlers run on, although their tasks are given to others.
* `faults[k]` counts what went wrong outside the program; `MaxFaults` bounds
  each kind. `attempts` and `llmErrors` are history variables.

`ChatJobLifecycle` knows only status, retries and answer of a job. The
refinement mapping reads them from the row. It holds as long as confirmations
are in time and no worker loses its connection while it lives: a handler that
runs on after that may overwrite a settled row, since the UPDATEs have no
guard; and a late confirmation lets a "failed" job run.

### Snowflake

NextID is cut at the mutex, the reading of the clock and the wait. A generator
is a process: `Restart` forgets lastMs. IDs are numbers; the shifts of the code
are multiplications by `NodeRange` and `SequenceRange`. `clock` may be set back
at any time. The wait polls; it is one step, enabled when the clock has passed
the millisecond waited for.

### MessageHistory

A session, up to a bounded number of calls, each cut into statements and Redis
commands. A message is named by the call that inserted it. Rows are ordered by
`created_at`, which is set before the row is stored: `Insert` may place a row
before others that calls at the same time have stored. "turn" is the start
of a chat request: CreateMessage, then ListMessages. `RedisFails` lets any
Redis command fail, which the code treats as a miss or ignores;
`DeleteMessagePageCaches` may then have dropped some pages only. `ExpireList`
and `ExpirePage` are the TTLs: any value may go at any time, and need not.
`began`, `alone`, `overtaken` and `spoilt` are history variables: the last two
record which readers have read rows that are others by now (`Overtake`), and
which cached values such a reader has stored (`Stored`) or a failed command has
left behind (`Left`).

The offset of a page is `Skipped` of `PageOffset`: `(page - 1) * pageSize` is
an int, a page number may be any int, and gorm writes no OFFSET unless it is
positive.

### EventPublisher

One goroutine per event (`publishChatEvent`), each with its timer, in
`Publish`: `Lock`, `Send`, `LookForReturn` (the select with a default),
`TakeConfirm` or `GiveUp`. The broker routes, returns and confirms; the reader
goroutine of the client library (`Dispatch`) moves one frame at a time into a
Go channel with one slot and blocks while it is full. Keys are sequences of
words, as a topic exchange sees them. Events in `Awaited` are those a client
posts (`CozeHandler.Event`): its request waits for Publish, and `Answer` tells
it the outcome.

### ChatTurn

One goroutine per request in one of four service calls. `slots` is the number
of tokens in `llmLimiter`; `timer[t]` is `llmCtx`; `pipe[t]` is the frame a
streamed request is writing. A frame is one write here and two in the code for
`ChatStream`; nothing happens between the two that a property tells apart. An
answer is the number of its pieces. A request with a slot first starts its call (`Send`), which the HTTP
client refuses once `llmCtx` is over; after that the timer is one reason more
for the call to fail (`CallFails`), but not the end of it: lines that the
scanner has buffered are still passed on, mockStreamChat does not look at the
context after its last piece, and the answer is stored under the request's own
context. So a request whose client reads slowly may succeed after its timer.
`Read` is the server copying the pipe to
the client, `GoAway` its closing of the pipe's other end. A request in
`Stalled` sees neither.

### RateWindow

`Hit` is one run of the script, which Redis does not interleave with anything:
INCR, and PEXPIRE by the first call of a window. `count` and `ends` are the
value and the expiry of a key; a key that has expired is found as nothing
(`Counted`). `grants` is a history of what was let through.

### RequestChain, Accounts, Records

`at[r]` is the place of request r. `Send` is what a client may send for a
route: its own tokens or none, rows it can know of, pages of `Queries`, names and
passwords of `Logins`. `RateLimit`, `Auth` and `CozeAPIKey` are the
middlewares that decide something; each goes on to the next place whether it
passes or refuses (`Refuse` only writes a status), which is what
`RequestContext.Next` does after a handler that returned without `Abort`. The
actions after that are the handlers, one step per statement: a registration
looks and inserts, a page counts and reads, a rename updates and reads back, a
chat passes the limit of its user and then meets the model.

A streamed route (`StartStream`) writes 200 and returns at once; `stream[r]` is
the place of the goroutine it leaves behind, which calls the service when the
chain may long be over: `StreamService` asks for the user, `StreamLimit` counts
against the limit, `StreamModel` answers or fails, all of it in frames under
that 200. The goroutine has its own copy of the user and the body, so `Forget`
leaves them to it.

`Finish` is the way
back through Logger, `Panic` the one past it to Recovery; both give the context
back (`Forget`). Sessions and documents are two tables with the same statements
(`Records`). A token is a record of what it carries; anything not signed with
the server's secret is `NoToken`. GenerateToken fails on an empty secret only, which
`config.Load` never gives, so that a registration that has stored its account
does answer with a token. `between[r]` is a history variable, the writes between
the two reads of a list request. A statement that fails (`Faulty`) is answered
like one that found nothing, as in the code.

`now`, `ipCount`, `ipEnds`, `llmCount`, `llmEnds` are Redis, and `IP` and `LLM`
are instances of `RateWindow` over them. `Windows` says that the whole server,
seen from Redis, does nothing but that module's steps.

### Calculator

A state is a message that the user is writing; everything else is an operator
of it. A piece of a message is given by the positions of its ends. `Scan` is the
loop of extractExpression, `Flush` its closure.

The methods of the parser call one another, with the position as their state.
Here they are one recursive function, `Parser`, from a method, a position and,
for the two loops, the value so far, to the position and value returned, or a
failure. Each method is an operator of that function (`ParseFactor`,
`ParseTerm`, ...), and `Perform` is their equation. `Sum`, `Product` and `Factor`
are the grammar, as the set of values that each piece of a text can have.

Characters that no code tells apart are one letter. Numbers are fractions.

## 3. Runs

Runs that pass:

| run | question | bounds, and why they are enough |
|---|---|---|
| `async_two_workers` | Who holds a task, what does success mean, how many answers are stored, what strands a job, what are its tries spent on, does a result stay? | One job, two workers, two tries, one fault each of: failing statement, late confirmation, crash, disconnect, stop. Two workers and two tries are the least that let a redelivered task meet its first handler. |
| `async_live` | Is accepted work ever lost; does every job end? | Two jobs, one worker with one slot, two tries; one crash and one lost connection on either side. Two jobs let one wait for the slot the other has. |
| `async_lifecycle` | Does the row live the promised life, at the promised cost, and what strands a job? | One job, two workers, two tries; two crashes, two failing statements, a stop, a failed send, a refusal by the broker, a crash of the server. |
| `ids_one_process` | Do IDs increase? | Two goroutines, five milliseconds, three numbers per millisecond, the clock set back twice: the sequence wraps, and the clock is behind lastMs in every way. |
| `history_calls` | What do callers read, do pages agree with their totals, what makes a cached value stale? | Three calls, two at a time, two pages, one Redis error: a read that fills a cache, a write that makes it stale, a read that may see it. Ints up to 7, which no offset here exceeds (`requests` has one that does). |
| `events_mixed` | Whose answer does a publisher take; does it end? | Three events, one of them streamed and one posted, one refusal: the second publisher meets what the first left, and the third what both did. |
| `turns_and_slots` | Who has the slots, what does "done" mean, do requests end? | One request of each kind, one slot, answers of up to two pieces, the OpenAI stream stalled. A timer may fire at every place of its request, so that the three others succeed and fail both before and after it. |
| `requests` | Whom does the server serve, what does it change and count, does Redis see two fixed windows? | Three requests, between them for every route; two registrations, a list and an insert, a rename or a stream and a delete, two calls on one user's limit, one of them streamed, can meet. Limits of 1, two moments of time (a window and a token end between them), a new name with a good password and a taken one with a bad one, one request that may meet failures and panic. A second page, and one whose offset is 8 where ints end at 7. |
| `calculator` | Does the parser follow the grammar, and is the right piece taken? | Messages of up to seven characters over five alphabets, each for a part of the code: products and parentheses; signs and division by zero; points and spaces; the replaced signs and digits of other scripts; keywords. Seven characters hold three operators, or a parenthesis within an expression. |

Runs that show where the code and what is said of it part. Each checks one
property, and TLC's shortest counterexample is described:

| run | property | what happens |
|---|---|---|
| `async_late_confirm` | `RejectedJobIsNotRun` | The confirmation is late, Submit marks the job failed and reports an error; the task is in the queue, and ProcessTask runs the job because its retry count is 0. |
| `events_stream` | `PublishedIsLogged` | The keys `chat.stream.completed` and `coze.intent.detected` do not match the binding `chat.*`; Publish returns nil, because it looks for the return before the broker can have sent it and then takes the ack. |
| `refused_request` | `RefusedIsNotServed` | A registration over the limit of its address is answered 429 by RateLimit, which returns without `Abort`; the handler runs, stores the account and writes its own status. |

Deadlock is not checked in any run: every model may stop, once all its jobs,
calls, events or requests are done with and the bounded faults have happened.

Further disagreements and weaknesses, which the models contain and no run is
about:

* A signal cancels the context of the handlers the worker then waits for
  (`cmd/worker/main.go:126`): the LLM call in progress fails at once and takes
  a try, although line 112 speaks of waiting for it. `ChargesHaveCause` says
  that nothing but this and failed runs takes tries.
* Server and worker both number with node 1 (`snowflake.go:80`): in the same
  millisecond they issue the same ID, and the second insert fails. `IdsIncrease`
  is about one generator.
* A reader misses the cache and reads the rows, a writer inserts and drops the
  key, the reader stores its list (`message_service.go:92`): for up to 5
  minutes the cached history lacks the message, which README.md:16 calls full.
  The same happens when the command that drops the key fails, its error being
  ignored. `StaleHasCause` says that there is no other way to a stale value.
* A page number may be any int: with one so large that `(page - 1) * pageSize`
  overflows to a negative number, gorm leaves OFFSET out, and the first page is
  returned as if it were that one (`Skipped`).
* A streamed route answers 200 before anything has looked at the user or the
  limit (`api/chat.go:102`, `177`): the 401 of Auth and the 429 of RateLimit are
  overwritten, the access log counts a success, and "user_id is required" or
  "too many requests" is a frame in the body. Nothing is done for the client
  all the same, see `NoTokenNoSuccess`.
* The timer of an LLM call is not the end of its request: see ChatTurn in
  section 2.
* When `GetByID` fails for a passing reason, or the update after a last failure
  does, ProcessTask lets the task be acknowledged while the row says pending or
  running; `async_live` therefore contains no failing statements. A handler
  that runs on after its connection was lost may set the row of a job that
  another worker has settled back to running, for good. `StrandedBounded` counts
  what can be stranded by these, and by the end of the server within Submit.
* CreateMessage inserts after a check in a statement of its own, so that a
  session deleted in between leaves a row behind; `DeletedIsNotRead` shows that
  nobody who comes later is given it.
* A rename whose row is deleted before it is read back is answered as not
  found, and a request whose handler panicked is in no counter of the metrics.

### Properties that say more than they seem to

* `HandlerHoldsTask` carries the whole of the worker's mutual exclusion: the
  UPDATEs of a row are not guarded, so two handlers of connected workers on one
  job would be free to overwrite each other.
* `StrandedBounded` weighs jobs nobody will finish against the faults that can
  cause one: with crashes and shutdowns of workers, refused sends and late
  confirmations alone it says there are none. A late confirmation is not harmless
  for that: the next Submit takes it for its own, and tells its client "accepted"
  of a task that the broker then refuses or that is lost with the channel.
* `ResultStays` is what at-least-once delivery needs of ProcessTask: the check
  at its start is all that protects a settled row.
* `PageHoldsItsTotal` needs the order of the two queries: counted first, an
  overlapping insert makes a page too long for its total but never too short.
* `NoTokenNoSuccess` holds although Auth stops nothing. It rests on a chain of
  other facts: no user ID is set by any path that was refused, contexts are
  reset, each service asks for a user ID, each statement names the user. For a
  streamed route the status says nothing, and the property is about its
  goroutine: without a token it does not reach the limit, let alone the model.
* `StaleHasCause` is about every way to order writes that drop, readers that
  fill and values that expire. A cached list or page that differs from the rows
  has a writer that is still to drop it, or a race or an error in its past; the
  cause is recorded when it happens, and forgotten when a good value replaces
  the bad one. It breaks if a write forgets a key, such as the second page.
* `PageFitsTotal` bounds how far total and items of a page may part: by one for
  each write between the two queries, hence not at all without one.
* `DoneIsWhole` has no word about the timer: it holds of answers that come
  after it too.
* `Windows` is a refinement: no handler gives a call back, prolongs a window or
  counts under another key, whatever fails and in whatever order.
* `UnfinishedJobHasTask` relates the row to the queue: each path of ProcessTask
  that leaves pending or running behind must return `retryable`.
* `AnswersBounded`, `AttemptsBounded` say what at-least-once delivery may cost.
  `maxRetry` alone bounds nothing: `Resets` counts what may set a RetryCount
  back, a handler that writes the number it loaded before its connection was
  lost, and a Submit that reports a stored task as failed. The bound is
  `MaxRetry` runs from one reset to the next, and one for each redelivery.
* `AnswersAreOwn` is about answers that carry no name: it holds until the first
  timeout or the first unroutable event, and from then on publishers may take
  each other's answers.
* `TurnEnds` is checked with a client that has stalled with the only slot in
  its hands: the slot does not come back, and the others end by their timers.

## 4. Fairness

* `AsyncChat`: goroutines are scheduled; the LLM call has a timeout and so
  ends; the broker answers and delivers; a worker that ended is started again
  (`restart: unless-stopped` in the compose file). No client must submit, and
  no fault must happen. Weak fairness is enough throughout: a step stays
  enabled until it is taken or a (bounded) fault takes its place.
* `EventPublisher`: goroutines run and timers fire. Nothing is assumed of the
  broker, the reader goroutine or the connection.
* `ChatTurn`: goroutines run, statements end, timers fire, and a client that is
  not stalled reads what it is sent. Nothing is assumed of the model, nor of
  stalled clients.
* `MessageHistory`, `RequestChain`, `RateWindow`, `Calculator` have no liveness
  properties: nothing in them waits.
* `Snowflake` has no liveness property: a wait ends when the clock has caught
  up, which is up to the clock.

## 5. Proofs

All constants are arbitrary within the named assumptions of the modules: any
number of jobs, workers, requests, calls, events and faults, any limits, page
sizes and lengths of answers. What `RateWindow` needs of its constants is the
hypothesis `ParametersOK` of its theorems, which `RequestChain` assumes of both
its instances. Each module of proofs names its inductive invariants (`...Inv`)
before their lemmas; there is one lemma per action or per process for a step
that preserves one, and before those, lemmas that say what an action does
(`...Effect`) and what it leaves alone (`...Frame`).

### AsyncChat_proofs: tasks, handlers, answers

* `TypeCorrect`: the type invariant, by one lemma per process (`SubmitType`,
  `ApiBrokerType`, `HandlerType`, `WorkerType`). It is inductive as it stands.
* `HandlersHoldTheirTasks`: `HandlerHoldsTask` is not inductive. A job sent twice
  could be made ready while a handler has it, and a process that does not live
  could have handlers. `TaskInv` adds `SentOnce` (a job is on the wire at most
  once, and then no task and no other send of it exist) and `HandlersLive`.
* `SuccessMeansAnswered`: `AnswerInv` adds `StoredBeforeSuccess`: a handler about
  to report success names an answer that is stored. Answers are never removed,
  so crashes and redeliveries, which the proof meets in `WorkerTask` and
  `AnswerStep`, change nothing.

### AsyncChat_proofs: what a row costs, keeps and promises

All of these use `TaskInv`.

* `TriesAreSpentOnFailures` (`ChargesHaveCause`). `ChargesInv` adds that a handler
  which has loaded a retry count, and one about to charge a failure, have failed
  runs to show for it.
* `AnswersAreBounded` (`AnswersBounded`). Every answer is owed to a delivery.
  `AnswersOwed` counts, with the answers a job has, the handlers that may still
  store one or give their task back, and the delivery that is still to come.
  `BaseInv` adds that a task which is out has its handler in a connected worker.
* `AttemptsAreBounded` (`AttemptsBounded`). `RunsPaid` counts, with the runs a job
  has had, those still due: by its task, as often as the row or the count its
  handler loaded allows (`RunsDue`); by handlers without a connection
  (`StaleCost`); and by a Submit that may yet report a stored task as failed
  (`DoubtCost`), which `SyncInv` shows impossible until a confirmation was late or
  the channel was lost: until then the channel carries nothing but the publish in
  progress. The last two are where `Resets` comes from: a bound without it is
  false, since both write a smaller count over a larger one.
* `ResultsStay` (`ResultStays`). `ResultInv`: until a connection is lost, a job has
  one handler at most, and none beyond its first check once the row is settled.
* `WorkIsNotLost`: `UnfinishedJobHasTask` holds in states that are `Calm`: no
  statement failed, no confirmation was late, and no connection of a worker was
  lost or there is just one worker (as in the compose file). `async_live` checks
  it under faults within these. Crashes of both processes, shutdowns, lost
  publisher connections, failed publishes and refusals are not limited. The
  hypothesis is about the past of the state and not about constants; each of
  its parts is needed, as the ways to strand a job in section 3 show. `WorkInv`
  adds that a task is acknowledged only when its row has ended, and that a
  handler about to acknowledge has seen to that.
* `RowsLiveUntilThen`: every step of `AsyncChat` up to the first lost connection or
  late confirmation is a step of `ChatJobLifecycle` or leaves the rows alone,
  whatever faults come after it. Failed statements, crashes, shutdowns and
  refusals may come before it. With the three faults the refinement is false
  (section 2). `LifeInv` says for each place of a Submit, a task and a handler
  what the row is then.
* `RowsLiveTheLife`: hence `AsyncChat` implements `ChatJobLifecycle` if `MaxFaults`
  rules the three faults out (`Quiet`), the assumption under which
  `async_lifecycle` checks the refinement.
* `StrandedAreBounded` (`StrandedBounded`), for any finite number of jobs, without
  which their cardinality means nothing. A job is stranded only in several
  steps, of which the fault is not the last: `AtRisk` is the set of jobs that a
  fault has already put there. A handler without a connection is on them, or
  nobody will see to their unfinished row: not Submit, not the broker, not the
  handler about to acknowledge their task. `StrandInv` bounds that set, and with
  `RoomKept` (no worker has more than `Concurrency` handlers) what one lost
  connection adds. One lemma per process says which steps put which jobs at
  risk; that losing the publisher strands nobody before a confirmation was late
  is `WireAwaited`, from `SyncInv`.

### ChatTurn_proofs

* `TypeCorrect`, `NoSlotIsLost` (`SlotsAreHeld`), from `SlotInv`: the count of the
  semaphore equals the number of requests at the model, of which there are
  finitely many. It is the count that keeps the type of `slots` in its bounds.
* `DoneMeansWhole` (`DoneIsWhole`). `AnswerInv` says that until the answer is whole
  the client has read the pieces written but for the one in the pipe, and that
  the frame "done" enters the pipe only after the answer was stored, its
  question before. The timer occurs nowhere in it: an answer that outlives its
  timer is covered like any other.

### EventPublisher_proofs

* `TypeCorrect`: `TypeOK` is inductive.
* `OwnAnswers` (`AnswersAreOwn`). `HolderInv`: the goroutine within Publish has the
  mutex. `OwnInv` adds, as long as nobody has given up and nothing unroutable was
  sent (`InStep`), that what is on its way to, in and from the broker is one
  event at most, that of the holder.

### MessageHistory_proofs

* `TypeCorrect`, `DeletedStayUnread` (`DeletedIsNotRead`), from `CallInv`: each call
  is at a statement of its own kind (`Walks`), and one that is past its check, or
  has a result, began when there was a session (`Began`).
* `PagesHoldTheirTotal` (`PageHoldsItsTotal`). `PageInv`: every cached page and
  every page in the hands of a call has what its total and its offset demand,
  and no total exceeds the number of rows while the session exists.
* `AloneReadStored` (`AloneReadsStored`). `AloneInv` says of each statement of a
  call that overlaps no other which of the caches still agree with the rows:
  all of them between calls, and only those not yet dropped within a write.
* `StaleValuesHaveCause` (`StaleHasCause`). `CauseInv`: a reader that has not been
  overtaken holds the rows as they are (`Fresh`), so that what it stores is
  right; and a value that is not has one of the causes (`ListCause`,
  `PagesCause`).

### RequestChain_proofs

* `TokensAreNeeded` (`NoTokenNoSuccess`), `OneOwnerPerName` (`OneAccount`) and
  `RowsAreTheOwners` (`OthersUntouched`), from `ChainInv`: `CoreType`; per request,
  that it is where its route goes (`Way`), that its context has a user on a
  user's route only by its own token (`Identity`), and that a registration
  answered with success is in the table (`Registered`); and `AccountInv`, which
  keeps names and IDs of accounts unique and gives tokens and rows to accounts.
  `Identity` is the point: a refused request goes on to its handler without a
  user, and past the first check of a service, in the handler's goroutine or in
  that of a stream, there is one.
* `Metrics` (`MetricsAddUp`), from `MetricsInv`: the counters are the cardinalities
  of the finished requests, which are finitely many at any time.
* `TwoWindows` (`Windows`): each step of the server is a step of both windows or
  leaves them alone, for any number of requests. `Tick` is a step of both.
* `TypeCorrect` and `BothLimits` (`LimitsHold`): from the invariant of `RateWindow`,
  of each instance (`WindowInv`). So `Bursts` and `Refusals` hold of the server.
* `PagesFitTotals` (`PageFitsTotal`), for pages whose offset is an int. `PageInv`: what
  a list request has counted differs from the number of its user's rows by one
  for each write since, at most. `RankIsBijection`
  says that those rows, newest first, stand at 0, 1, 2, ... without a gap, and
  `RanksBetween` how many of them stand between two places; `PageOfCount` is the
  page for every such page number and size that `ParsePageQuery` lets through.

### Snowflake_proofs

* `IdsAlwaysIncrease`: for any number of goroutines, any widths and any clock.
  `Inv` says that the one goroutine inside NextID has the mutex, that who waits
  waits for lastMs to pass, and that the newest ID is the one packed from lastMs
  and the sequence. `PackTime` and `PackSequence` are the arithmetic: the packed
  ID follows time first and sequence second.
* `TypeCorrect`: from the same invariant; above all, the sequence never leaves
  its bits.

### RateWindow_proofs

* `Bursts` and `Refusals`: for every limit, length of a window and number of keys.
  Neither is inductive. `Inv` names a window by its end and says per key: a key
  that lives was counted and expires within a window (`Clock`); each grant lies
  in its window, which is the current one or over before the current one began
  (`Past`); two grants share a window or the later one's began after the earlier
  one's ended (`Apart`); no window has more grants than the limit (`Share`); and
  up to the limit all that was counted in the current window was granted
  (`Filled`). Twice the limit and one more call then touch three windows, of
  which the middle one is whole.
* `TypeCorrect`: from the same invariant.

### Calculator_proofs

For every set of alphabets and every length of a message. The state is nothing but
the message, so its type (`MessageType`) is the invariant; what there is to prove
is about recursive functions of it, and needs induction over texts.

The induction theorems of the library take an operator as a parameter, which no
prover can instantiate. `LeastNatural` replaces them: a set of numbers that is not
empty has a least element. It comes from `WFMin` and the well-foundedness of
strict inclusion among finite sets, which are about sets. An induction is then an
argument on the least counterexample.

* That a recursive function satisfies the equation it is written with is a
  theorem too, and false for an equation without solution. `FixedPoint`: let a map of
  functions send each to one whose value at a point depends only on the values
  at points of smaller measure, and keep the bounds the values have; then it
  has a fixed point. The measure of a call of the parser is the length of the
  text left to read, then the rank of the method, which falls because factors
  consume a character (`ParserEquation`). That of a piece in the grammar is its length,
  then the rank of factor, product and sum (`GrammarEquation`). The bounds say that a
  method returns a position within the text and beyond its own start.
* `ParserFollowsGrammar` (`ParsesTheGrammar`), in both directions.
  *What is derived is read* (`AllRead`), by induction on the length of the piece: if
  the grammar derives a value for a factor, parseFactor called at its start
  returns that value and its end. Of a product or a sum, whose last operator the
  grammar looks at first and the parser last, it says that the method called at
  the start comes to its loop at the end of the piece with that value on the left
  (`ProductRead`, `SumRead`); this is where grouping to the left comes from. What
  follows the piece must not be able to go on with it, such as a figure after a
  number. Hence the value is also the only one.
  *What is read is derived* (`AllSound`), by induction from the end of the text:
  what a method returns is a value of the piece up to the position returned, and
  what a loop returns one of the piece from where its left operand started.
* `LongestIsExtracted` (`ExtractsTheLongest`). An invariant of the loop: after n
  characters the best piece is the first of the longest among those that were
  flushed, and the current piece starts after the last character that is not
  arithmetic. Two facts carry it: each fitting piece lies within one stretch of
  such characters, and no piece of a stretch is longer than the trimmed stretch.
* `NothingCalculableIsMissed` (`CalculableIsCalculated`). The extracted piece has an
  operator, and what is parsed has a digit (`ParsedHasDigit`, an induction like the
  last one), both of which `ShouldUse` finds in the message as it was typed, before
  signs are replaced.

### Model-checked only

* Liveness (`TaskSettles`, `AcceptedJobEnds`, `PublishEnds`, `TurnEnds`): out of TLAPS's reach.
* `UnfinishedJobHasTask` beyond `Calm`: with two workers and a lost connection, or
  after a failed statement, it is false, and no run claims it there.
* The three violated properties: TLC's counterexamples are their evidence.

## 6. Not modelled

* The context that tools and the search of documents add to a prompt: text, no
  state. What the calculator computes for it is modelled, the wording and the
  rounding of its result are not; the time tool reads a clock.
* The ranking of searched documents, the texts of Coze prompts and sources.
* ChatWithKnowledge and CampusAsk after their limits: the turn is that of
  `ChatTurn`.
* HTTP, JSON, the Eino and Ollama clients beyond "answers, fails or times out".
* RabbitMQ, Redis, MySQL, Hertz and the AMQP library: external, modelled as far
  as the code uses them.
* Configuration, health checks, start-up: a straight line that ends the process
  on an error, values read once, two pings. Of the metrics, only the two
  counters of the access log are modelled.
* A panic in the goroutine of a stream, which no Recovery is above: it ends the
  process.
* An empty secret for tokens: `config.Load` replaces it.
* Requests that share one instant of `created_at`, whose order is open.

## 7. Plan

Every safety and action property of a passing run has its theorem. What is left:

1. What each finished task cost, per fault: `AttemptsBounded` and
   `StrandedBounded` weigh all faults alike, whichever job they met.
2. The safety halves of the liveness properties: while a task is unsettled, or a
   call waits, some fair action is enabled or a fault kept it from being so.
3. The rounding of float64 in the calculator: the theorems are about fractions.
