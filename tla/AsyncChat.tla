------------------------------ MODULE AsyncChat ------------------------------
(***************************************************************************)
(* Asynchronous chat jobs, end to end: the API handler that accepts a job  *)
(* (AsyncChatService.Submit), the confirmed publish of its task            *)
(* (RabbitMQChatTaskQueue.PublishChatTask), the broker's durable queue,    *)
(* the worker processes (cmd/worker) and their handlers                    *)
(* (AsyncChatService.ProcessTask), around the chat_jobs row of every job.  *)
(*                                                                         *)
(* Each database statement, publish, confirmation, LLM call and ack is a   *)
(* step of its own, because between two of them another goroutine, another *)
(* process, a crash or a lost connection may come in.                      *)
(*                                                                         *)
(* What can go wrong outside the program is a "fault" of some kind; the    *)
(* constant MaxFaults bounds how often each kind happens in a behaviour.   *)
(***************************************************************************)
EXTENDS Naturals, Sequences, FiniteSets

CONSTANTS
    Jobs,          \* one Submit call each
    Workers,       \* worker processes (the compose file starts one)
    MaxRetry,      \* AsyncChatService.maxRetry
    Concurrency,   \* WORKER_CONCURRENCY: prefetch and semaphore of a worker
    MaxFaults,     \* how often each kind of fault may happen
    Nobody         \* the holder of a task no worker has

FaultKinds ==
    { "db",         \* a statement on chat_jobs fails
      "send",       \* PublishWithContext fails before anything is sent
      "nack",       \* the broker refuses a task
      "timeout",    \* the confirmation does not come within 2 seconds
      "publisher",  \* the API's broker connection closes
      "api",        \* the API process dies and is restarted
      "crash",      \* a worker process dies
      "disconnect", \* a worker's broker connection closes
      "stop" }      \* a worker gets SIGINT or SIGTERM

ASSUME MaxRetryAssumption    == MaxRetry \in Nat \ {0}
ASSUME ConcurrencyAssumption == Concurrency \in Nat \ {0}
ASSUME MaxFaultsAssumption   == MaxFaults \in [FaultKinds -> Nat]
ASSUME NobodyAssumption      == Nobody \notin Workers

VARIABLES
    row,        \* row[j]: the chat_jobs row, as far as it steers anything
    submit,     \* submit[j]: how far the Submit call has come
    publisher,  \* the API's publishing channel: "open" or "closed"
    wire,       \* tasks sent and not yet answered by the broker
    confirms,   \* confirmations nobody has read: TRUE is an ack
    task,       \* task[j]: where the broker has the task
    holder,     \* holder[j]: the worker an unacked task was delivered to
    handler,    \* handler[w][j]: the goroutine of worker w on job j
    live,       \* the worker processes that run
    connected,  \* the workers whose broker connection is open
    stopping,   \* the workers whose context is cancelled
    answers,    \* answers[j]: assistant messages stored for the job
    attempts,   \* attempts[j]: LLM runs started for it     (history)
    llmErrors,  \* llmErrors[j]: LLM runs that truly failed  (history)
    faults      \* how often each kind of fault has happened

api     == <<submit, publisher, wire, confirms>>
broker  == <<task, holder>>
procs   == <<live, connected, stopping>>
history == <<answers, attempts, llmErrors>>
vars    == <<row, api, broker, handler, procs, history, faults>>

-----------------------------------------------------------------------------
Status == {"absent", "pending", "running", "success", "failed"}

\* answer is the assistant_message_id, counted per job; 0 is the empty one.
Row == [status : Status, retry : Nat, answer : Nat]

SubmitState ==
    {"idle", "refused", "created", "awaiting", "accepted", "unpublished",
     "rejected", "dead"}

TaskState == {"none", "ready", "unacked", "acked"}

Stage == {"idle", "load", "mark", "llm", "store", "fail", "succeed",
          "ack", "nack"}

\* What a handler keeps: its place, the RetryCount it loaded, its result.
Handler == [stage : Stage, retry : Nat, answer : Nat]

NoRow  == [status |-> "absent", retry |-> 0, answer |-> 0]
NoWork == [stage |-> "idle", retry |-> 0, answer |-> 0]

TypeOK ==
    /\ row \in [Jobs -> Row]
    /\ submit \in [Jobs -> SubmitState]
    /\ publisher \in {"open", "closed"}
    /\ wire \in Seq(Jobs)
    /\ confirms \in Seq(BOOLEAN)
    /\ task \in [Jobs -> TaskState]
    /\ holder \in [Jobs -> Workers \cup {Nobody}]
    /\ handler \in [Workers -> [Jobs -> Handler]]
    /\ live \in SUBSET Workers
    /\ connected \in SUBSET live
    /\ stopping \in SUBSET live
    /\ answers \in [Jobs -> Nat]
    /\ attempts \in [Jobs -> Nat]
    /\ llmErrors \in [Jobs -> Nat]
    /\ faults \in [FaultKinds -> Nat]

Init ==
    /\ row = [j \in Jobs |-> NoRow]
    /\ submit = [j \in Jobs |-> "idle"]
    /\ publisher = "open"
    /\ wire = <<>>
    /\ confirms = <<>>
    /\ task = [j \in Jobs |-> "none"]
    /\ holder = [j \in Jobs |-> Nobody]
    /\ handler = [w \in Workers |-> [j \in Jobs |-> NoWork]]
    /\ live = {}
    /\ connected = {}
    /\ stopping = {}
    /\ answers = [j \in Jobs |-> 0]
    /\ attempts = [j \in Jobs |-> 0]
    /\ llmErrors = [j \in Jobs |-> 0]
    /\ faults = [k \in FaultKinds |-> 0]

Fault(k) ==
    /\ faults[k] < MaxFaults[k]
    /\ faults' = [faults EXCEPT ![k] = @ + 1]

NoFault == UNCHANGED faults

-----------------------------------------------------------------------------
(* The chat_jobs table: one UPDATE ... WHERE id = ? each, no status guard.  *)

\* Mutant: a retry is charged when a run starts, whether it fails or not.
MutMarkRunning(j) ==
    row' = [row EXCEPT ![j].status = "running", ![j].retry = @ + 1]

MarkRunning(j) == row' = [row EXCEPT ![j].status = "running"]

MarkSuccess(j, id) ==
    row' = [row EXCEPT ![j].status = "success", ![j].answer = id]

MarkFailed(j, n) ==
    row' = [row EXCEPT ![j].status = "failed", ![j].retry = n]

MarkPendingForRetry(j, n) ==
    row' = [row EXCEPT ![j].status = "pending", ![j].retry = n]

-----------------------------------------------------------------------------
(* Submit, in the API process.                                             *)

Progress(j, from, to) ==
    /\ submit[j] = from
    /\ submit' = [submit EXCEPT ![j] = to]

\* Missing fields, queue disabled, rate limit, unknown session, or a failed
\* insert: Submit returns before a chat_jobs row exists.
SubmitRefuse(j) ==
    /\ Progress(j, "idle", "refused")
    /\ UNCHANGED <<row, publisher, wire, confirms, broker, handler, procs,
                   history, faults>>

\* The user message and then the row are stored.
SubmitCreate(j) ==
    /\ Progress(j, "idle", "created")
    /\ row' = [row EXCEPT ![j] = [NoRow EXCEPT !.status = "pending"]]
    /\ UNCHANGED <<publisher, wire, confirms, broker, handler, procs,
                   history, faults>>

\* q.mu: one publish at a time, from the send to the end of the wait.
PublisherLocked == \E j \in Jobs : submit[j] = "awaiting"

Publish(j) ==
    /\ ~PublisherLocked
    /\ publisher = "open"
    /\ Progress(j, "created", "awaiting")
    /\ wire' = Append(wire, j)
    /\ UNCHANGED <<row, publisher, confirms, broker, handler, procs,
                   history, faults>>

PublishError(j) ==
    /\ ~PublisherLocked
    /\ Progress(j, "created", "unpublished")
    /\ IF publisher = "closed" THEN NoFault ELSE Fault("send")
    /\ UNCHANGED <<row, publisher, wire, confirms, broker, handler, procs,
                   history>>

\* The wait reads whatever confirmation comes first out of the channel.
AwaitConfirm(j) ==
    /\ confirms # <<>>
    /\ Progress(j, "awaiting",
                IF Head(confirms) THEN "accepted" ELSE "unpublished")
    /\ confirms' = Tail(confirms)
    /\ UNCHANGED <<row, publisher, wire, broker, handler, procs,
                   history, faults>>

AwaitFails(j) ==
    /\ Progress(j, "awaiting", "unpublished")
    /\ \/ Fault("timeout")
       \/ publisher = "closed" /\ confirms = <<>> /\ NoFault
    /\ UNCHANGED <<row, publisher, wire, confirms, broker, handler, procs,
                   history>>

\* The error of MarkFailed is dropped.
SubmitFails(j) ==
    /\ Progress(j, "unpublished", "rejected")
    /\ \/ MarkFailed(j, 0) /\ NoFault
       \/ Fault("db") /\ UNCHANGED row
    /\ UNCHANGED <<publisher, wire, confirms, broker, handler, procs, history>>

\* The client library closes the confirm channel; nothing ever reopens it.
PublisherLost ==
    /\ publisher = "open"
    /\ publisher' = "closed"
    /\ wire' = <<>>
    /\ \E n \in 0 .. Len(confirms) : confirms' = SubSeq(confirms, 1, n)
    /\ Fault("publisher")
    /\ UNCHANGED <<row, submit, broker, handler, procs, history>>

InSubmit == {"created", "awaiting", "unpublished"}

ApiCrash ==
    /\ submit' = [j \in Jobs |-> IF submit[j] \in InSubmit THEN "dead"
                                 ELSE submit[j]]
    /\ publisher' = "open"
    /\ wire' = <<>>
    /\ confirms' = <<>>
    /\ Fault("api")
    /\ UNCHANGED <<row, broker, handler, procs, history>>

-----------------------------------------------------------------------------
(* The broker: a durable queue of persistent tasks with explicit acks.     *)

\* The task is stored in the queue and acknowledged, in publishing order.
BrokerAccept ==
    /\ wire # <<>>
    /\ task' = [task EXCEPT ![Head(wire)] = "ready"]
    /\ wire' = Tail(wire)
    /\ confirms' = Append(confirms, TRUE)
    /\ UNCHANGED <<row, submit, publisher, holder, handler, procs, history,
                   faults>>

BrokerRefuse ==
    /\ wire # <<>>
    /\ wire' = Tail(wire)
    /\ confirms' = Append(confirms, FALSE)
    /\ Fault("nack")
    /\ UNCHANGED <<row, submit, publisher, broker, handler, procs, history>>

HeldBy(w) == {j \in Jobs : task[j] = "unacked" /\ holder[j] = w}

\* What the broker does when the connection of w closes.
Requeue(w) ==
    /\ task' = [j \in Jobs |-> IF j \in HeldBy(w) THEN "ready" ELSE task[j]]
    /\ holder' = [j \in Jobs |-> IF j \in HeldBy(w) THEN Nobody ELSE holder[j]]

-----------------------------------------------------------------------------
(* ProcessTask and the ack that follows it, in a goroutine of worker w.     *)

Busy(w) == {j \in Jobs : handler[w][j].stage # "idle"}

\* Prefetch and semaphore have the same size, so a delivery starts at once.
\* A worker that was told to stop may still take one: select prefers neither
\* ctx.Done nor a delivery, and the library cancels the consumer later.
Deliver(w, j) ==
    /\ w \in connected
    /\ task[j] = "ready"
    /\ Cardinality(Busy(w)) < Concurrency
    /\ task' = [task EXCEPT ![j] = "unacked"]
    /\ holder' = [holder EXCEPT ![j] = w]
    /\ handler' = [handler EXCEPT ![w][j] = [NoWork EXCEPT !.stage = "load"]]
    /\ UNCHANGED <<row, api, procs, history, faults>>

Goto(w, j, from, to) ==
    /\ handler[w][j].stage = from
    /\ handler' = [handler EXCEPT ![w][j].stage = to]

\* Mutants: a job found running is left alone; a success is run again.
MutSkipsRunning(j) == row[j].status \in {"running", "success", "failed"}
MutRunsSuccessAgain(j) == row[j].status = "failed" /\ row[j].retry >= MaxRetry

NothingToDo(j) ==
    \/ row[j].status = "success"
    \/ row[j].retry >= MaxRetry /\ row[j].status = "failed"

\* GetByID. An error, of any kind, is final for the task.
Load(w, j) ==
    /\ \/ /\ Goto(w, j, "load", "ack")
          /\ \/ Fault("db")
             \/ NothingToDo(j) /\ NoFault
       \/ /\ handler[w][j].stage = "load"
          /\ ~NothingToDo(j)
          /\ handler' = [handler EXCEPT ![w][j].stage = "mark",
                                        ![w][j].retry = row[j].retry]
          /\ NoFault
    /\ UNCHANGED <<row, api, broker, procs, history>>

Start(w, j) ==
    /\ \/ /\ Goto(w, j, "mark", "llm")
          /\ MarkRunning(j)
          /\ attempts' = [attempts EXCEPT ![j] = @ + 1]
          /\ NoFault
       \/ /\ Goto(w, j, "mark", "nack")
          /\ Fault("db")
          /\ UNCHANGED <<row, attempts>>
    /\ UNCHANGED <<api, broker, procs, answers, llmErrors>>

\* Mutant: the answer is reported before it is stored.
MutGenerate(w, j) ==
    /\ Goto(w, j, "llm", "succeed")
    /\ UNCHANGED <<row, api, broker, procs, history, faults>>

\* GenerateAnswerFromHistory up to the answer. With the worker's context
\* cancelled the call cannot succeed; otherwise it may fail for its own
\* reasons: no session, no LLM slot within the timeout, an LLM error.
Generate(w, j) ==
    /\ \/ /\ Goto(w, j, "llm", "store")
          /\ w \notin stopping
          /\ UNCHANGED llmErrors
       \/ /\ Goto(w, j, "llm", "fail")
          /\ llmErrors' = IF w \in stopping THEN llmErrors
                          ELSE [llmErrors EXCEPT ![j] = @ + 1]
    /\ UNCHANGED <<row, api, broker, procs, answers, attempts, faults>>

\* Mutant: an error after the insert (of the cache) fails the whole call.
MutStore(w, j) ==
    /\ Goto(w, j, "store", "fail")
    /\ answers' = [answers EXCEPT ![j] = @ + 1]
    /\ UNCHANGED <<row, api, broker, procs, attempts, llmErrors, faults>>

\* CreateMessage of the assistant message, the last part of the same call.
Store(w, j) ==
    /\ \/ /\ handler[w][j].stage = "store"
          /\ answers' = [answers EXCEPT ![j] = @ + 1]
          /\ handler' = [handler EXCEPT ![w][j].stage = "succeed",
                                        ![w][j].answer = answers[j] + 1]
          /\ UNCHANGED llmErrors
       \/ /\ Goto(w, j, "store", "fail")
          /\ llmErrors' = [llmErrors EXCEPT ![j] = @ + 1]
          /\ UNCHANGED answers
    /\ UNCHANGED <<row, api, broker, procs, attempts, faults>>

\* Mutant: one try too many.
MutLastTry(n) == n > MaxRetry

LastTry(n) == n >= MaxRetry

\* The retry decision uses the RetryCount loaded at the start; the errors of
\* both updates are dropped.
Fail(w, j) ==
    LET next == handler[w][j].retry + 1 IN
    /\ \/ /\ LastTry(next)
          /\ Goto(w, j, "fail", "ack")
          /\ \/ MarkFailed(j, next) /\ NoFault
             \/ Fault("db") /\ UNCHANGED row
       \/ /\ ~LastTry(next)
          /\ Goto(w, j, "fail", "nack")
          /\ \/ MarkPendingForRetry(j, next) /\ NoFault
             \/ Fault("db") /\ UNCHANGED row
    /\ UNCHANGED <<api, broker, procs, history>>

Succeed(w, j) ==
    /\ \/ /\ Goto(w, j, "succeed", "ack")
          /\ MarkSuccess(j, handler[w][j].answer)
          /\ NoFault
       \/ /\ Goto(w, j, "succeed", "nack")
          /\ Fault("db")
          /\ UNCHANGED row
    /\ UNCHANGED <<api, broker, procs, history>>

\* The handler's last step. On a delivery the broker has taken back, the
\* call is an error, and dropped.
Settle(w, j, from, to) ==
    /\ handler[w][j].stage = from
    /\ handler' = [handler EXCEPT ![w][j] = NoWork]
    /\ IF j \in HeldBy(w)
       THEN /\ task' = [task EXCEPT ![j] = to]
            /\ holder' = [holder EXCEPT ![j] = Nobody]
       ELSE UNCHANGED broker
    /\ UNCHANGED <<row, api, procs, history, faults>>

\* Mutants: the retry is not requeued; it is not reported to the broker.
MutNackDrops(w, j) == Settle(w, j, "nack", "acked")
MutNackForgotten(w, j) ==
    /\ handler[w][j].stage = "nack"
    /\ handler' = [handler EXCEPT ![w][j] = NoWork]
    /\ UNCHANGED <<row, api, broker, procs, history, faults>>

Ack(w, j)  == Settle(w, j, "ack", "acked")
Nack(w, j) == Settle(w, j, "nack", "ready")

HandlerStep(w, j) ==
    \/ Load(w, j) \/ Start(w, j) \/ Generate(w, j) \/ Store(w, j)
    \/ Fail(w, j) \/ Succeed(w, j) \/ Ack(w, j) \/ Nack(w, j)

-----------------------------------------------------------------------------
(* The worker process.                                                     *)

WorkerStart(w) ==
    /\ w \notin live
    /\ live' = live \cup {w}
    /\ connected' = connected \cup {w}
    /\ UNCHANGED <<row, api, broker, handler, stopping, history, faults>>

\* SIGINT or SIGTERM cancels the context that every handler was given.
WorkerStop(w) ==
    /\ w \in live \ stopping
    /\ stopping' = stopping \cup {w}
    /\ Fault("stop")
    /\ UNCHANGED <<row, api, broker, handler, live, connected, history>>

\* Mutant: the worker dials again while its handlers run on.
MutDisconnect(w) ==
    /\ w \in connected
    /\ Requeue(w)
    /\ Fault("disconnect")
    /\ UNCHANGED <<row, api, procs, handler, history>>

\* The delivery channel closes; the handlers run on.
Disconnect(w) ==
    /\ w \in connected
    /\ connected' = connected \ {w}
    /\ Requeue(w)
    /\ Fault("disconnect")
    /\ UNCHANGED <<row, api, handler, live, stopping, history>>

\* Mutant: a process that ended still counts as a consumer.
MutLeave(w) ==
    /\ live' = live \ {w}
    /\ stopping' = stopping \ {w}
    /\ Requeue(w)
    /\ UNCHANGED connected

Leave(w) ==
    /\ live' = live \ {w}
    /\ connected' = connected \ {w}
    /\ stopping' = stopping \ {w}
    /\ Requeue(w)

\* main returns once wg.Wait has seen every handler off.
WorkerExit(w) ==
    /\ w \in stopping \/ w \in live \ connected
    /\ Busy(w) = {}
    /\ Leave(w)
    /\ UNCHANGED <<row, api, handler, history, faults>>

WorkerCrash(w) ==
    /\ w \in live
    /\ Leave(w)
    /\ handler' = [handler EXCEPT ![w] = [j \in Jobs |-> NoWork]]
    /\ Fault("crash")
    /\ UNCHANGED <<row, api, history>>

-----------------------------------------------------------------------------
SubmitStep(j) ==
    \/ Publish(j) \/ PublishError(j) \/ AwaitConfirm(j)
    \/ AwaitFails(j) \/ SubmitFails(j)

SubmitNext == \E j \in Jobs : SubmitRefuse(j) \/ SubmitCreate(j) \/ SubmitStep(j)
BrokerNext == BrokerAccept \/ BrokerRefuse
HandlerNext == \E w \in Workers, j \in Jobs : Deliver(w, j) \/ HandlerStep(w, j)
WorkerNext ==
    \E w \in Workers : \/ WorkerStart(w) \/ WorkerStop(w) \/ Disconnect(w)
                       \/ WorkerExit(w) \/ WorkerCrash(w)

Next ==
    \/ SubmitNext \/ PublisherLost \/ ApiCrash
    \/ BrokerNext \/ HandlerNext \/ WorkerNext

Spec == Init /\ [][Next]_vars

(* Fairness: goroutines are scheduled, every LLM call ends (it has a 60     *)
(* second timeout), the broker answers and delivers, and a worker that     *)
(* ended is started again ("restart: unless-stopped"). No client has to    *)
(* submit and no fault has to happen.                                      *)
Fairness ==
    /\ \A j \in Jobs : WF_vars(SubmitStep(j))
    /\ WF_vars(BrokerNext)
    /\ WF_vars(\E w \in Workers, j \in Jobs : Deliver(w, j))
    /\ \A w \in Workers, j \in Jobs : WF_vars(HandlerStep(w, j))
    /\ \A w \in Workers : WF_vars(WorkerStart(w)) /\ WF_vars(WorkerExit(w))

FairSpec == Spec /\ Fairness

-----------------------------------------------------------------------------
(* Safety.                                                                 *)

\* A handler that runs in a connected worker holds its task: the broker has
\* given it to nobody else. Two connected workers thus never run ProcessTask
\* on the same job, whose updates of the row carry no guard against it
\* (chat_job_repo.go: UPDATE ... WHERE id = ?).
HandlerHoldsTask ==
    \A w \in connected, j \in Jobs :
        handler[w][j].stage # "idle" => task[j] = "unacked" /\ holder[j] = w

\* The client that reads "success" is given the id of an assistant message
\* that is stored, even after a crash between CreateMessage and MarkSuccess.
SuccessHasAnswer ==
    \A j \in Jobs : row[j].status = "success" => row[j].answer \in 1 .. answers[j]

OnWire(j) == \E i \in DOMAIN wire : wire[i] = j

\* Work is not lost: as long as the row of an accepted job says pending or
\* running, the broker has the task and some worker will be given it again.
\* (ProcessTask returns retryable whenever it leaves such a row behind.)
UnfinishedJobHasTask ==
    \A j \in Jobs :
        submit[j] = "accepted" /\ row[j].status \in {"pending", "running"}
            => task[j] \in {"ready", "unacked"}

\* What a redelivery repeats: the assistant message of the unfinished run.
\* The faults that cause one bound the surplus messages in the session.
Redeliveries == faults["crash"] + faults["disconnect"] + faults["db"]

AnswersBounded == \A j \in Jobs : answers[j] <= 1 + Redeliveries

\* What may set a job's RetryCount back: a handler that runs on without its
\* connection and writes the number it loaded long ago, and Submit, once for
\* each job, when it reports a task as failed that the broker has stored.
Resets ==
    faults["disconnect"]
        + (IF faults["timeout"] + faults["publisher"] > 0 THEN 1 ELSE 0)

\* maxRetry bounds the LLM runs spent on a job, from one such reset to the
\* next: a run is only repeated for free when a fault kept its outcome from
\* reaching the row.
AttemptsBounded ==
    \A j \in Jobs : attempts[j] <= MaxRetry * (1 + Resets) + Redeliveries

\* The tries a job has are spent on failures of its own runs. A crash, a lost
\* connection or a redelivery costs none of them, although RetryCount is read
\* at the start of a run and written, plus one, at its end. Only a shutdown
\* takes tries as well: it cancels the runs in progress, which then fail.
ChargesHaveCause ==
    faults["stop"] = 0 => \A j \in Jobs : row[j].retry <= llmErrors[j]

\* Jobs the client may poll for ever: their rows are unfinished, and neither
\* Submit nor the broker will see to them again.
Stranded ==
    {j \in Jobs : /\ row[j].status \in {"pending", "running"}
                  /\ submit[j] \notin InSubmit /\ ~OnWire(j)
                  /\ task[j] \notin {"ready", "unacked"}}

\* What strands a job: a failed statement (GetByID, after which the task is
\* acknowledged, or a MarkFailed whose error is dropped), a lost connection
\* (each handler that runs on may overwrite the row of a job that another
\* worker has settled), the end of the API process within Submit. And, once a
\* confirmation came late: the next job takes it for its own, and is told
\* "accepted" although its own task may be refused, or lost with the channel.
\* Crashes and shutdowns of workers and failed publishes never strand one.
StrandedBounded ==
    Cardinality(Stranded) <=
        faults["db"] + Concurrency * faults["disconnect"]
            + Cardinality(Jobs) * faults["api"]
            + (IF faults["timeout"] = 0 THEN 0
               ELSE faults["nack"] + Cardinality(Jobs) * faults["publisher"])

\* A result, once in the row, stays there: whatever is delivered again after
\* a crash, ProcessTask leaves it alone. Only Submit overwrites one, when it
\* marks the job failed on a late confirmation, and a worker whose connection
\* was lost, or one that ran at the same time for that reason.
Settled(j) ==
    \/ row[j].status = "success"
    \/ row[j].status = "failed" /\ row[j].retry >= MaxRetry

ResultStays ==
    [][\A j \in Jobs : Settled(j) =>
           \/ row'[j] = row[j]
           \/ submit[j] = "unpublished" /\ submit'[j] = "rejected"
           \/ faults["disconnect"] > 0]_vars

\* What the client sees is the promised life of a job.
Lifecycle ==
    INSTANCE ChatJobLifecycle
        WITH status <- [j \in Jobs |-> row[j].status],
             tries  <- [j \in Jobs |-> row[j].retry],
             answer <- [j \in Jobs |-> row[j].answer]

LifecycleSpec == Lifecycle!Spec

(* Liveness.                                                               *)

\* A task in the queue is done with in the end, whatever becomes of workers.
TaskSettles == \A j \in Jobs : task[j] = "ready" ~> task[j] = "acked"

\* An accepted job ends: the client does not poll for ever.
AcceptedJobEnds ==
    \A j \in Jobs :
        submit[j] = "accepted" ~> row[j].status \in {"success", "failed"}

(* What the comments and the README say and the code does not do.          *)

\* "If publishing the task failed, the job is marked as failed": a job whose
\* Submit reported the failure would then never be run for the client.
RejectedJobIsNotRun ==
    \A j \in Jobs : submit[j] = "rejected" => attempts[j] = 0
=============================================================================
