--------------------------- MODULE AsyncChat_proofs ---------------------------
(* Proofs about AsyncChat, for every set of jobs and workers, every limit   *)
(* and every number of faults. First who has a task and what success means, *)
(* then the rows: what a job costs, what its tries are spent on, that a     *)
(* result stays, how many jobs can be stranded, and that the rows live the  *)
(* life ChatJobLifecycle promises.                                          *)
EXTENDS AsyncChat, FiniteSetTheorems, TLAPS

\* A row, a handler and the fault counters keep their types under the
\* updates the actions make.
LEMMA FaultType ==
    ASSUME TypeOK, NEW k \in FaultKinds, Fault(k)
    PROVE  faults' \in [FaultKinds -> Nat]
  BY DEF TypeOK, Fault

LEMMA GotoType ==
    ASSUME TypeOK, NEW w \in Workers, NEW j \in Jobs,
           NEW from, NEW to \in Stage, Goto(w, j, from, to)
    PROVE  handler' \in [Workers -> [Jobs -> Handler]]
  <1>1. handler[w][j] \in Handler
    BY DEF TypeOK
  <1>2. [handler[w][j] EXCEPT !.stage = to] \in Handler
    BY <1>1 DEF Handler
  <1>3. handler' = [handler EXCEPT ![w][j] = [handler[w][j] EXCEPT !.stage = to]]
    BY DEF Goto
  <1> QED
    BY <1>2, <1>3 DEF TypeOK

LEMMA MarkType ==
    ASSUME TypeOK, NEW j \in Jobs, NEW n \in Nat,
           \/ MarkRunning(j) \/ MarkSuccess(j, n)
           \/ MarkFailed(j, n) \/ MarkPendingForRetry(j, n)
    PROVE  row' \in [Jobs -> Row]
  <1>1. row[j] \in Row
    BY DEF TypeOK
  <1>2. \A s \in Status :
            /\ [row[j] EXCEPT !.status = s] \in Row
            /\ [row[j] EXCEPT !.status = s, !.retry = n] \in Row
            /\ [row[j] EXCEPT !.status = s, !.answer = n] \in Row
    BY <1>1 DEF Row
  <1>3. \E r \in Row : row' = [row EXCEPT ![j] = r]
    <2>1. CASE MarkRunning(j)
      <3>1. row' = [row EXCEPT ![j] = [row[j] EXCEPT !.status = "running"]]
        BY <2>1 DEF MarkRunning
      <3> QED
        BY <3>1, <1>2 DEF Status
    <2>2. CASE MarkSuccess(j, n)
      <3>1. row' = [row EXCEPT ![j] = [row[j] EXCEPT !.status = "success",
                                                     !.answer = n]]
        BY <2>2 DEF MarkSuccess
      <3> QED
        BY <3>1, <1>2 DEF Status
    <2>3. CASE MarkFailed(j, n)
      <3>1. row' = [row EXCEPT ![j] = [row[j] EXCEPT !.status = "failed",
                                                     !.retry = n]]
        BY <2>3 DEF MarkFailed
      <3> QED
        BY <3>1, <1>2 DEF Status
    <2>4. CASE MarkPendingForRetry(j, n)
      <3>1. row' = [row EXCEPT ![j] = [row[j] EXCEPT !.status = "pending",
                                                     !.retry = n]]
        BY <2>4 DEF MarkPendingForRetry
      <3> QED
        BY <3>1, <1>2 DEF Status
    <2> QED
      BY <2>1, <2>2, <2>3, <2>4
  <1> QED
    BY <1>3 DEF TypeOK

LEMMA RequeueType ==
    ASSUME TypeOK, NEW w \in Workers, Requeue(w)
    PROVE  /\ task' \in [Jobs -> TaskState]
           /\ holder' \in [Jobs -> Workers \cup {Nobody}]
  BY DEF TypeOK, Requeue, TaskState

LEMMA CountType ==
    ASSUME NEW f \in [Jobs -> Nat], NEW j \in Jobs
    PROVE  [f EXCEPT ![j] = f[j] + 1] \in [Jobs -> Nat]
  OBVIOUS

LEMMA TailType ==
    ASSUME NEW S, NEW s \in Seq(S), s # <<>>
    PROVE  Tail(s) \in Seq(S)
  OBVIOUS

LEMMA TypeInit == Init => TypeOK
  BY DEF Init, TypeOK, NoRow, Row, Status, NoWork, Handler, Stage,
         SubmitState, TaskState

LEMMA SubmitType ==
    ASSUME TypeOK, NEW j \in Jobs, SubmitRefuse(j) \/ SubmitCreate(j) \/ SubmitStep(j)
    PROVE  TypeOK'
  <1>1. CASE SubmitRefuse(j)
    BY <1>1 DEF SubmitRefuse, Progress, TypeOK, SubmitState, broker, procs, history
  <1>2. CASE SubmitCreate(j)
    <2>1. [NoRow EXCEPT !.status = "pending"] \in Row
      BY DEF NoRow, Row, Status
    <2>2. row' \in [Jobs -> Row]
      BY <1>2, <2>1 DEF SubmitCreate, TypeOK
    <2> QED
      BY <1>2, <2>2 DEF SubmitCreate, Progress, TypeOK, SubmitState, broker,
                        procs, history
  <1>3. CASE Publish(j)
    BY <1>3 DEF Publish, Progress, TypeOK, SubmitState, broker, procs, history
  <1>4. CASE PublishError(j)
    <2>1. faults' \in [FaultKinds -> Nat]
      BY <1>4, FaultType DEF PublishError, NoFault, TypeOK, FaultKinds
    <2> QED
      BY <1>4, <2>1 DEF PublishError, Progress, TypeOK, SubmitState, broker,
                        procs, history
  <1>5. CASE AwaitConfirm(j)
    <2>1. confirms' \in Seq(BOOLEAN)
      BY <1>5, TailType DEF AwaitConfirm, TypeOK
    <2>2. submit' \in [Jobs -> SubmitState]
      BY <1>5 DEF AwaitConfirm, Progress, TypeOK, SubmitState
    <2> QED
      BY <1>5, <2>1, <2>2 DEF AwaitConfirm, TypeOK, broker, procs, history
  <1>6. CASE AwaitFails(j)
    <2>1. faults' \in [FaultKinds -> Nat]
      BY <1>6, FaultType DEF AwaitFails, NoFault, TypeOK, FaultKinds
    <2> QED
      BY <1>6, <2>1 DEF AwaitFails, Progress, TypeOK, SubmitState, broker,
                        procs, history
  <1>7. CASE SubmitFails(j)
    <2>1. faults' \in [FaultKinds -> Nat]
      BY <1>7, FaultType DEF SubmitFails, NoFault, TypeOK, FaultKinds
    <2>2. row' \in [Jobs -> Row]
      BY <1>7, MarkType DEF SubmitFails, TypeOK
    <2> QED
      BY <1>7, <2>1, <2>2 DEF SubmitFails, Progress, TypeOK, SubmitState,
                              broker, procs, history
  <1> QED
    BY <1>1, <1>2, <1>3, <1>4, <1>5, <1>6, <1>7 DEF SubmitStep

LEMMA ApiBrokerType ==
    ASSUME TypeOK, PublisherLost \/ ApiCrash \/ BrokerNext
    PROVE  TypeOK'
  <1>1. CASE PublisherLost
    <2>1. faults' \in [FaultKinds -> Nat]
      BY <1>1, FaultType DEF PublisherLost, FaultKinds
    <2>2. confirms' \in Seq(BOOLEAN)
      BY <1>1 DEF PublisherLost, TypeOK
    <2> QED
      BY <1>1, <2>1, <2>2 DEF PublisherLost, TypeOK, broker, procs, history
  <1>2. CASE ApiCrash
    <2>1. faults' \in [FaultKinds -> Nat]
      BY <1>2, FaultType DEF ApiCrash, FaultKinds
    <2> QED
      BY <1>2, <2>1 DEF ApiCrash, TypeOK, SubmitState, broker, procs, history
  <1>3. CASE BrokerAccept
    <2>1. Head(wire) \in Jobs
      BY <1>3 DEF BrokerAccept, TypeOK
    <2> QED
      BY <1>3, <2>1 DEF BrokerAccept, TypeOK, TaskState, procs, history
  <1>4. CASE BrokerRefuse
    <2>1. faults' \in [FaultKinds -> Nat]
      BY <1>4, FaultType DEF BrokerRefuse, FaultKinds
    <2> QED
      BY <1>4, <2>1, SMTT(30) DEF BrokerRefuse, TypeOK, broker, procs, history
  <1> QED
    BY <1>1, <1>2, <1>3, <1>4 DEF BrokerNext

LEMMA HandlerType ==
    ASSUME TypeOK, NEW w \in Workers, NEW j \in Jobs,
           Deliver(w, j) \/ HandlerStep(w, j)
    PROVE  TypeOK'
  <1>1. handler[w][j] \in Handler
    BY DEF TypeOK
  <1>2. CASE Deliver(w, j)
    <2>1. [NoWork EXCEPT !.stage = "load"] \in Handler
      BY DEF NoWork, Handler, Stage
    <2>2. handler' \in [Workers -> [Jobs -> Handler]]
      BY <1>2, <2>1 DEF Deliver, TypeOK
    <2> QED
      BY <1>2, <2>2 DEF Deliver, TypeOK, TaskState, api, procs, history
  <1>3. CASE Load(w, j)
    <2>1. faults' \in [FaultKinds -> Nat]
      BY <1>3, FaultType DEF Load, NoFault, TypeOK, FaultKinds
    <2>2. handler' \in [Workers -> [Jobs -> Handler]]
      <3>1. CASE Goto(w, j, "load", "ack")
        BY <3>1, GotoType DEF Stage
      <3>2. CASE ~Goto(w, j, "load", "ack")
        <4>1. row[j].retry \in Nat
          BY DEF TypeOK, Row
        <4>2. [handler[w][j] EXCEPT !.stage = "mark", !.retry = row[j].retry]
                \in Handler
          BY <1>1, <4>1 DEF Handler, Stage
        <4>3. handler' = [handler EXCEPT ![w][j] =
                [handler[w][j] EXCEPT !.stage = "mark", !.retry = row[j].retry]]
          BY <1>3, <3>2 DEF Load, TypeOK
        <4> QED
          BY <4>2, <4>3 DEF TypeOK
      <3> QED
        BY <3>1, <3>2
    <2> QED
      BY <1>3, <2>1, <2>2 DEF Load, TypeOK, api, broker, procs, history
  <1>4. CASE Start(w, j)
    <2>1. faults' \in [FaultKinds -> Nat]
      BY <1>4, FaultType DEF Start, NoFault, TypeOK, FaultKinds
    <2>2. handler' \in [Workers -> [Jobs -> Handler]]
      BY <1>4, GotoType DEF Start, Stage
    <2>3. row' \in [Jobs -> Row]
      BY <1>4, MarkType, 0 \in Nat DEF Start, TypeOK
    <2>4. attempts' \in [Jobs -> Nat]
      <3>1. attempts' = attempts \/ attempts' = [attempts EXCEPT ![j] = attempts[j] + 1]
        BY <1>4 DEF Start
      <3>2. attempts \in [Jobs -> Nat]
        BY DEF TypeOK
      <3> QED
        BY <3>1, <3>2, CountType
    <2> QED
      BY <1>4, <2>1, <2>2, <2>3, <2>4 DEF Start, TypeOK, api, broker, procs
  <1>5. CASE Generate(w, j)
    <2>1. handler' \in [Workers -> [Jobs -> Handler]]
      BY <1>5, GotoType DEF Generate, Stage
    <2>2. llmErrors' \in [Jobs -> Nat]
      <3>1. \/ llmErrors' = llmErrors
            \/ llmErrors' = [llmErrors EXCEPT ![j] = llmErrors[j] + 1]
        BY <1>5 DEF Generate
      <3>2. llmErrors \in [Jobs -> Nat]
        BY DEF TypeOK
      <3> QED
        BY <3>1, <3>2, CountType
    <2> QED
      BY <1>5, <2>1, <2>2 DEF Generate, TypeOK, api, broker, procs
  <1>6. CASE Store(w, j)
    <2>1. handler' \in [Workers -> [Jobs -> Handler]]
      <3>1. CASE Goto(w, j, "store", "fail")
        BY <3>1, GotoType DEF Stage
      <3>2. CASE ~Goto(w, j, "store", "fail")
        <4>1. answers[j] + 1 \in Nat
          BY DEF TypeOK
        <4>2. [handler[w][j] EXCEPT !.stage = "succeed", !.answer = answers[j] + 1]
                \in Handler
          BY <1>1, <4>1 DEF Handler, Stage
        <4>3. handler' = [handler EXCEPT ![w][j] =
                [handler[w][j] EXCEPT !.stage = "succeed", !.answer = answers[j] + 1]]
          BY <1>6, <3>2 DEF Store, TypeOK
        <4> QED
          BY <4>2, <4>3 DEF TypeOK
      <3> QED
        BY <3>1, <3>2
    <2>2. llmErrors' \in [Jobs -> Nat] /\ answers' \in [Jobs -> Nat]
      <3>1. \/ /\ llmErrors' = llmErrors
               /\ answers' = [answers EXCEPT ![j] = answers[j] + 1]
            \/ /\ llmErrors' = [llmErrors EXCEPT ![j] = llmErrors[j] + 1]
               /\ answers' = answers
        BY <1>6 DEF Store
      <3>2. llmErrors \in [Jobs -> Nat] /\ answers \in [Jobs -> Nat]
        BY DEF TypeOK
      <3> QED
        BY <3>1, <3>2, CountType
    <2> QED
      BY <1>6, <2>1, <2>2 DEF Store, TypeOK, api, broker, procs
  <1>7. CASE Fail(w, j)
    <2>1. faults' \in [FaultKinds -> Nat]
      BY <1>7, FaultType DEF Fail, NoFault, TypeOK, FaultKinds
    <2>2. handler' \in [Workers -> [Jobs -> Handler]]
      BY <1>7, GotoType DEF Fail, Stage
    <2>3. row' \in [Jobs -> Row]
      <3>1. handler[w][j].retry + 1 \in Nat
        BY <1>1 DEF Handler
      <3> QED
        BY <1>7, <3>1, MarkType DEF Fail, TypeOK
    <2> QED
      BY <1>7, <2>1, <2>2, <2>3 DEF Fail, TypeOK, api, broker, procs, history
  <1>8. CASE Succeed(w, j)
    <2>1. faults' \in [FaultKinds -> Nat]
      BY <1>8, FaultType DEF Succeed, NoFault, TypeOK, FaultKinds
    <2>2. handler' \in [Workers -> [Jobs -> Handler]]
      BY <1>8, GotoType DEF Succeed, Stage
    <2>3. row' \in [Jobs -> Row]
      <3>1. handler[w][j].answer \in Nat
        BY <1>1 DEF Handler
      <3> QED
        BY <1>8, <3>1, MarkType DEF Succeed, TypeOK
    <2> QED
      BY <1>8, <2>1, <2>2, <2>3 DEF Succeed, TypeOK, api, broker, procs, history
  <1>9. CASE Ack(w, j) \/ Nack(w, j)
    <2>1. NoWork \in Handler
      BY DEF NoWork, Handler, Stage
    <2>2. handler' \in [Workers -> [Jobs -> Handler]]
      <3>1. handler' = [handler EXCEPT ![w][j] = NoWork]
        BY <1>9 DEF Ack, Nack, Settle
      <3> QED
        BY <2>1, <3>1 DEF TypeOK
    <2>3. /\ task' \in [Jobs -> TaskState]
          /\ holder' \in [Jobs -> Workers \cup {Nobody}]
      BY <1>9 DEF Ack, Nack, Settle, TypeOK, TaskState, broker
    <2> QED
      BY <1>9, <2>2, <2>3 DEF Ack, Nack, Settle, TypeOK, api, procs, history
  <1> QED
    BY <1>2, <1>3, <1>4, <1>5, <1>6, <1>7, <1>8, <1>9 DEF HandlerStep

LEMMA WorkerType ==
    ASSUME TypeOK, WorkerNext
    PROVE  TypeOK'
  <1> PICK w \in Workers : \/ WorkerStart(w) \/ WorkerStop(w) \/ Disconnect(w)
                           \/ WorkerExit(w) \/ WorkerCrash(w)
    BY DEF WorkerNext
  <1>1. CASE WorkerStart(w)
    BY <1>1 DEF WorkerStart, TypeOK, api, broker, history
  <1>2. CASE WorkerStop(w)
    <2>1. faults' \in [FaultKinds -> Nat]
      BY <1>2, FaultType DEF WorkerStop, FaultKinds
    <2> QED
      BY <1>2, <2>1 DEF WorkerStop, TypeOK, api, broker, history
  <1>3. CASE Disconnect(w)
    <2>1. faults' \in [FaultKinds -> Nat]
      BY <1>3, FaultType DEF Disconnect, FaultKinds
    <2> QED
      BY <1>3, <2>1, RequeueType DEF Disconnect, TypeOK, api, history
  <1>4. CASE WorkerExit(w)
    BY <1>4, RequeueType DEF WorkerExit, Leave, TypeOK, api, history
  <1>5. CASE WorkerCrash(w)
    <2>1. faults' \in [FaultKinds -> Nat]
      BY <1>5, FaultType DEF WorkerCrash, FaultKinds
    <2>2. handler' \in [Workers -> [Jobs -> Handler]]
      BY <1>5 DEF WorkerCrash, TypeOK, NoWork, Handler, Stage
    <2> QED
      BY <1>5, <2>1, <2>2, RequeueType DEF WorkerCrash, Leave, TypeOK, api, history
  <1> QED
    BY <1>1, <1>2, <1>3, <1>4, <1>5

LEMMA TypeStep == TypeOK /\ [Next]_vars => TypeOK'
  <1> SUFFICES ASSUME TypeOK, [Next]_vars PROVE TypeOK'
    OBVIOUS
  <1>1. CASE SubmitNext
    BY <1>1, SubmitType DEF SubmitNext
  <1>2. CASE PublisherLost \/ ApiCrash \/ BrokerNext
    BY <1>2, ApiBrokerType
  <1>3. CASE HandlerNext
    BY <1>3, HandlerType DEF HandlerNext
  <1>4. CASE WorkerNext
    BY <1>4, WorkerType
  <1>5. CASE UNCHANGED vars
    BY <1>5 DEF vars, TypeOK, api, broker, procs, history
  <1> QED
    BY <1>1, <1>2, <1>3, <1>4, <1>5 DEF Next

\* Every variable keeps its type in every behaviour of the job pipeline.
THEOREM TypeCorrect == Spec => []TypeOK
  BY TypeInit, TypeStep, PTL DEF Spec

-----------------------------------------------------------------------------
(* A handler of a connected worker holds its task. This needs that the     *)
(* broker never stores a task anew while a handler works on it: a job's    *)
(* task is sent once, and only the wire leads from "none" to "ready".      *)

SentOnce ==
    /\ \A i, k \in DOMAIN wire : wire[i] = wire[k] => i = k
    /\ \A i \in DOMAIN wire : task[wire[i]] = "none"
    /\ \A j \in Jobs :
           submit[j] \in {"idle", "refused", "created"}
               => task[j] = "none" /\ ~OnWire(j)

HandlersLive ==
    \A w \in Workers, j \in Jobs : handler[w][j].stage # "idle" => w \in live

TaskInv == TypeOK /\ SentOnce /\ HandlersLive /\ HandlerHoldsTask

\* Removing the first task from the wire leaves the others as they were.
LEMMA TailWire ==
    ASSUME TypeOK, wire # <<>>
    PROVE  /\ Head(wire) = wire[1] /\ 1 \in DOMAIN wire
           /\ \A i \in DOMAIN Tail(wire) :
                  i + 1 \in DOMAIN wire /\ i + 1 # 1 /\ Tail(wire)[i] = wire[i + 1]
  BY SMTT(30) DEF TypeOK

LEMMA SentOnceTail ==
    ASSUME TypeOK, SentOnce, wire # <<>>, wire' = Tail(wire),
           task' = task \/ task' = [task EXCEPT ![Head(wire)] = "ready"],
           submit' = submit
    PROVE  SentOnce'
  <1>1. \A i \in DOMAIN wire' :
            i + 1 \in DOMAIN wire /\ i + 1 # 1 /\ wire'[i] = wire[i + 1]
    BY TailWire
  <1>2. \A i \in DOMAIN wire : wire[i] \in Jobs
    BY DEF TypeOK
  <1>3. DOMAIN wire = 1 .. Len(wire) /\ DOMAIN wire' = 1 .. Len(wire')
    BY TailType DEF TypeOK
  <1>4. \A i, k \in DOMAIN wire' : wire'[i] = wire'[k] => i = k
    <2> SUFFICES ASSUME NEW i \in DOMAIN wire', NEW k \in DOMAIN wire',
                        wire'[i] = wire'[k]
                 PROVE  i = k
      OBVIOUS
    <2>1. i + 1 = k + 1
      BY <1>1 DEF SentOnce
    <2> QED
      BY <1>3, <2>1
  <1>5. \A i \in DOMAIN wire' : task'[wire'[i]] = "none"
    <2> SUFFICES ASSUME NEW i \in DOMAIN wire' PROVE task'[wire'[i]] = "none"
      OBVIOUS
    <2>1. wire'[i] # Head(wire)
      BY <1>1, TailWire DEF SentOnce
    <2>2. task[wire'[i]] = "none"
      BY <1>1 DEF SentOnce
    <2> QED
      BY <1>1, <1>2, <2>1, <2>2 DEF TypeOK
  <1>6. \A j \in Jobs : submit'[j] \in {"idle", "refused", "created"}
                            => task'[j] = "none" /\ ~(OnWire(j))'
    <2> SUFFICES ASSUME NEW j \in Jobs,
                        submit[j] \in {"idle", "refused", "created"}
                 PROVE  task'[j] = "none" /\ ~(OnWire(j))'
      OBVIOUS
    <2>1. task[j] = "none" /\ ~OnWire(j)
      BY DEF SentOnce
    <2>2. Head(wire) # j
      BY <2>1, TailWire DEF OnWire
    <2>3. ~(OnWire(j))'
      BY <2>1, <1>1 DEF OnWire
    <2> QED
      BY <2>1, <2>2, <2>3 DEF TypeOK
  <1> QED
    BY <1>4, <1>5, <1>6 DEF SentOnce

\* Emptying the wire, and moving tasks that were sent, keep SentOnce.
LEMMA SentOnceKept ==
    ASSUME TypeOK, SentOnce,
           wire' = wire \/ wire' = <<>>,
           \A j \in Jobs : task[j] = "none" => task'[j] = "none",
           \A j \in Jobs : submit'[j] \in {"idle", "refused", "created"}
               => submit[j] \in {"idle", "refused", "created"}
    PROVE  SentOnce'
  <1>1. \A i \in DOMAIN wire : wire[i] \in Jobs
    BY DEF TypeOK
  <1>2. CASE wire' = wire
    BY <1>1, <1>2 DEF SentOnce, OnWire
  <1>3. CASE wire' = <<>>
    <2>1. DOMAIN wire' = {}
      BY <1>3
    <2> QED
      BY <2>1 DEF SentOnce, OnWire
  <1> QED
    BY <1>2, <1>3

LEMMA SentOnceSent ==
    ASSUME TypeOK, SentOnce, NEW j \in Jobs, Publish(j)
    PROVE  SentOnce'
  <1>1. /\ wire' = Append(wire, j) /\ task' = task
        /\ submit[j] = "created" /\ submit' = [submit EXCEPT ![j] = "awaiting"]
    BY DEF Publish, Progress, broker
  <1>2. task[j] = "none" /\ ~OnWire(j)
    BY <1>1 DEF SentOnce
  <1>3. /\ DOMAIN wire' = 1 .. Len(wire) + 1 /\ DOMAIN wire = 1 .. Len(wire)
        /\ Len(wire) \in Nat
        /\ \A i \in 1 .. Len(wire) : wire'[i] = wire[i]
        /\ wire'[Len(wire) + 1] = j
    BY <1>1 DEF TypeOK
  <1>4. \A i \in DOMAIN wire : wire[i] \in Jobs /\ wire[i] # j
    BY <1>2 DEF TypeOK, OnWire
  <1>5. \A i, k \in DOMAIN wire' : wire'[i] = wire'[k] => i = k
    BY <1>3, <1>4 DEF SentOnce
  <1>6. \A i \in DOMAIN wire' : task'[wire'[i]] = "none"
    BY <1>1, <1>2, <1>3, <1>4 DEF SentOnce
  <1>7. \A k \in Jobs : submit'[k] \in {"idle", "refused", "created"}
                            => task'[k] = "none" /\ ~(OnWire(k))'
    <2> SUFFICES ASSUME NEW k \in Jobs,
                        submit'[k] \in {"idle", "refused", "created"}
                 PROVE  task'[k] = "none" /\ ~(OnWire(k))'
      OBVIOUS
    <2>1. k # j /\ submit[k] \in {"idle", "refused", "created"}
      BY <1>1 DEF TypeOK
    <2>2. task[k] = "none" /\ ~OnWire(k)
      BY <2>1 DEF SentOnce
    <2> QED
      BY <1>1, <1>3, <2>1, <2>2 DEF OnWire
  <1> QED
    BY <1>5, <1>6, <1>7 DEF SentOnce

\* A handler's step changes no other handler.
LEMMA OtherHandlers ==
    ASSUME TypeOK, NEW w \in Workers, NEW j \in Jobs,
           Deliver(w, j) \/ HandlerStep(w, j),
           NEW v \in Workers, NEW k \in Jobs, <<v, k>> # <<w, j>>
    PROVE  handler'[v][k] = handler[v][k]
  BY DEF Deliver, HandlerStep, Load, Start, Generate, Store, Fail, Succeed,
         Ack, Nack, Settle, Goto, TypeOK

LEMMA TaskInit == Init => TaskInv
  <1> SUFFICES ASSUME Init PROVE TaskInv
    OBVIOUS
  <1>1. DOMAIN wire = {}
    BY DEF Init
  <1> QED
    BY <1>1, TypeInit DEF Init, TaskInv, SentOnce, OnWire, HandlersLive,
                          HandlerHoldsTask, NoWork

LEMMA SubmitTask ==
    ASSUME TaskInv, NEW j \in Jobs,
           SubmitRefuse(j) \/ SubmitCreate(j) \/ SubmitStep(j)
    PROVE  SentOnce' /\ HandlersLive' /\ HandlerHoldsTask'
  <1>1. UNCHANGED <<task, holder, handler, live, connected>>
    BY DEF SubmitStep, SubmitRefuse, SubmitCreate, Publish, PublishError,
           AwaitConfirm, AwaitFails, SubmitFails, broker, procs
  <1>2. SentOnce'
    <2>1. CASE Publish(j)
      BY <2>1, SentOnceSent DEF TaskInv
    <2>2. CASE ~Publish(j)
      <3>1. wire' = wire
        BY <2>2 DEF SubmitStep, SubmitRefuse, SubmitCreate, PublishError,
                    AwaitConfirm, AwaitFails, SubmitFails
      <3>2. \E s \in SubmitState : submit' = [submit EXCEPT ![j] = s]
        BY <2>2 DEF SubmitStep, SubmitRefuse, SubmitCreate, PublishError,
                    AwaitConfirm, AwaitFails, SubmitFails, Progress, SubmitState
      <3>3. submit'[j] \in {"idle", "refused", "created"}
               => submit[j] \in {"idle", "refused", "created"}
        BY <2>2 DEF SubmitStep, SubmitRefuse, SubmitCreate, PublishError,
                    AwaitConfirm, AwaitFails, SubmitFails, Progress, TaskInv,
                    TypeOK
      <3>4. \A k \in Jobs : submit'[k] \in {"idle", "refused", "created"}
               => submit[k] \in {"idle", "refused", "created"}
        BY <3>2, <3>3 DEF TaskInv, TypeOK
      <3> QED
        BY <1>1, <3>1, <3>4, SentOnceKept DEF TaskInv
    <2> QED
      BY <2>1, <2>2
  <1> QED
    BY <1>1, <1>2 DEF TaskInv, HandlersLive, HandlerHoldsTask

LEMMA ApiBrokerTask ==
    ASSUME TaskInv, PublisherLost \/ ApiCrash \/ BrokerNext
    PROVE  SentOnce' /\ HandlersLive' /\ HandlerHoldsTask'
  <1>1. CASE PublisherLost \/ ApiCrash
    <2>1. /\ wire' = <<>>
          /\ UNCHANGED <<task, holder, handler, live, connected>>
      BY <1>1 DEF PublisherLost, ApiCrash, broker, procs
    <2>2. \A k \in Jobs : submit'[k] \in {"idle", "refused", "created"}
               => submit[k] \in {"idle", "refused", "created"}
      BY <1>1 DEF PublisherLost, ApiCrash, TaskInv, TypeOK
    <2> QED
      BY <2>1, <2>2, SentOnceKept DEF TaskInv, HandlersLive, HandlerHoldsTask
  <1>2. CASE BrokerNext
    <2>1. /\ wire # <<>> /\ wire' = Tail(wire) /\ submit' = submit
          /\ task' = task \/ task' = [task EXCEPT ![Head(wire)] = "ready"]
          /\ UNCHANGED <<holder, handler, live, connected>>
      BY <1>2 DEF BrokerNext, BrokerAccept, BrokerRefuse, broker, procs
    <2>2. SentOnce'
      BY <2>1, SentOnceTail DEF TaskInv
    <2>3. task[Head(wire)] = "none"
      BY <2>1, TailWire DEF TaskInv, SentOnce
    <2> QED
      BY <2>1, <2>2, <2>3, SMTT(30) DEF TaskInv, TypeOK, HandlersLive, HandlerHoldsTask
  <1> QED
    BY <1>1, <1>2

LEMMA HandlerTask ==
    ASSUME TaskInv, NEW w \in Workers, NEW j \in Jobs,
           Deliver(w, j) \/ HandlerStep(w, j)
    PROVE  SentOnce' /\ HandlersLive' /\ HandlerHoldsTask'
  <1>1. UNCHANGED <<submit, wire, live, connected>>
    BY DEF Deliver, HandlerStep, Load, Start, Generate, Store, Fail, Succeed,
           Ack, Nack, Settle, api, procs
  <1>2. \A v \in Workers, k \in Jobs :
            <<v, k>> # <<w, j>> => handler'[v][k] = handler[v][k]
    BY OtherHandlers DEF TaskInv
  <1>3. connected \subseteq Workers
    BY DEF TaskInv, TypeOK
  <1>4. CASE Deliver(w, j)
    <2>1. /\ task[j] = "ready" /\ w \in connected /\ w \in live
          /\ task' = [task EXCEPT ![j] = "unacked"]
          /\ holder' = [holder EXCEPT ![j] = w]
      BY <1>4 DEF Deliver, TaskInv, TypeOK
    <2>2. SentOnce'
      BY <1>1, <2>1, SentOnceKept DEF TaskInv, TypeOK
    <2>3. \A v \in connected : handler[v][j].stage = "idle"
      BY <2>1 DEF TaskInv, HandlerHoldsTask
    <2>4. HandlersLive'
      BY <1>1, <1>2, <2>1 DEF TaskInv, HandlersLive
    <2>5. HandlerHoldsTask'
      <3> SUFFICES ASSUME NEW v \in connected, NEW k \in Jobs,
                          handler'[v][k].stage # "idle"
                   PROVE  task'[k] = "unacked" /\ holder'[k] = v
        BY <1>1 DEF HandlerHoldsTask
      <3>1. CASE k = j /\ v = w
        BY <2>1, <3>1 DEF TaskInv, TypeOK
      <3>2. CASE k = j /\ v # w
        BY <1>2, <1>3, <2>3, <3>2
      <3>3. CASE k # j
        <4>1. task[k] = "unacked" /\ holder[k] = v
          BY <1>2, <1>3, <3>3 DEF TaskInv, HandlerHoldsTask
        <4> QED
          BY <2>1, <3>3, <4>1 DEF TaskInv, TypeOK
      <3> QED
        BY <3>1, <3>2, <3>3
    <2> QED
      BY <2>2, <2>4, <2>5
  <1>5. CASE Ack(w, j) \/ Nack(w, j)
    <2>1. /\ handler[w][j].stage # "idle"
          /\ handler' = [handler EXCEPT ![w][j] = NoWork]
          /\ \/ /\ task[j] = "unacked" /\ holder[j] = w
                /\ \E s \in TaskState : task' = [task EXCEPT ![j] = s]
                /\ holder' = [holder EXCEPT ![j] = Nobody]
             \/ UNCHANGED <<task, holder>>
      BY <1>5 DEF Ack, Nack, Settle, HeldBy, broker, TaskState
    <2>2. handler'[w][j].stage = "idle"
      BY <2>1 DEF NoWork, TaskInv, TypeOK
    <2>3. SentOnce'
      BY <1>1, <2>1, SentOnceKept DEF TaskInv, TypeOK
    <2>4. HandlersLive'
      BY <1>1, <1>2, <2>2 DEF TaskInv, HandlersLive
    <2>5. HandlerHoldsTask'
      <3> SUFFICES ASSUME NEW v \in connected, NEW k \in Jobs,
                          handler'[v][k].stage # "idle"
                   PROVE  task'[k] = "unacked" /\ holder'[k] = v
        BY <1>1 DEF HandlerHoldsTask
      <3>1. handler[v][k].stage # "idle" /\ <<v, k>> # <<w, j>>
        BY <1>2, <1>3, <2>1, <2>2
      <3>2. task[k] = "unacked" /\ holder[k] = v
        BY <3>1 DEF TaskInv, HandlerHoldsTask
      <3> QED
        BY <2>1, <3>1, <3>2 DEF TaskInv, TypeOK
    <2> QED
      BY <2>3, <2>4, <2>5
  <1>6. CASE Load(w, j) \/ Start(w, j) \/ Generate(w, j) \/ Store(w, j)
             \/ Fail(w, j) \/ Succeed(w, j)
    <2>1. UNCHANGED <<task, holder>> /\ handler[w][j].stage # "idle"
      BY <1>6 DEF Load, Start, Generate, Store, Fail, Succeed, Goto, broker
    <2>2. SentOnce'
      BY <1>1, <2>1, SentOnceKept DEF TaskInv
    <2> QED
      BY <1>1, <1>2, <1>3, <2>1, <2>2 DEF TaskInv, HandlersLive, HandlerHoldsTask
  <1> QED
    BY <1>4, <1>5, <1>6 DEF HandlerStep

LEMMA WorkerTask ==
    ASSUME TaskInv, WorkerNext
    PROVE  SentOnce' /\ HandlersLive' /\ HandlerHoldsTask'
  <1> PICK w \in Workers : \/ WorkerStart(w) \/ WorkerStop(w) \/ Disconnect(w)
                           \/ WorkerExit(w) \/ WorkerCrash(w)
    BY DEF WorkerNext
  <1>1. UNCHANGED <<submit, wire>>
    BY DEF WorkerStart, WorkerStop, Disconnect, WorkerExit, WorkerCrash, api
  <1>2. CASE WorkerStart(w) \/ WorkerStop(w)
    <2>1. UNCHANGED <<task, holder, handler>>
      BY <1>2 DEF WorkerStart, WorkerStop, broker
    <2>2. SentOnce'
      BY <1>1, <2>1, SentOnceKept DEF TaskInv
    <2>3. /\ live \subseteq live'
          /\ \A v \in connected' : v \in connected \/ v \notin live
          /\ connected' \subseteq Workers
      BY <1>2 DEF WorkerStart, WorkerStop, TaskInv, TypeOK
    <2> QED
      BY <2>1, <2>2, <2>3 DEF TaskInv, HandlersLive, HandlerHoldsTask
  <1>3. CASE Disconnect(w) \/ WorkerExit(w) \/ WorkerCrash(w)
    <2>1. Requeue(w) /\ connected' = connected \ {w}
      BY <1>3 DEF Disconnect, WorkerExit, WorkerCrash, Leave
    <2>2. SentOnce'
      BY <1>1, <2>1, SentOnceKept DEF TaskInv, TypeOK, Requeue, HeldBy
    <2>3. \A v \in Workers \ {w}, k \in Jobs :
              handler'[v][k] = handler[v][k] /\ (v \in live => v \in live')
      BY <1>3 DEF Disconnect, WorkerExit, WorkerCrash, Leave, TaskInv, TypeOK
    <2>4. \A k \in Jobs : handler'[w][k].stage # "idle" => w \in live'
      <3>1. CASE Disconnect(w)
        BY <3>1 DEF Disconnect, TaskInv, HandlersLive
      <3>2. CASE WorkerExit(w)
        BY <3>2 DEF WorkerExit, Busy
      <3>3. CASE WorkerCrash(w)
        <4>1. handler'[w] = [j \in Jobs |-> NoWork]
          BY <3>3 DEF WorkerCrash, TaskInv, TypeOK
        <4> QED
          BY <4>1 DEF NoWork
      <3> QED
        BY <1>3, <3>1, <3>2, <3>3
    <2>5. HandlersLive'
      BY <2>3, <2>4 DEF TaskInv, HandlersLive
    <2>6. HandlerHoldsTask'
      <3> SUFFICES ASSUME NEW v \in connected', NEW k \in Jobs,
                          handler'[v][k].stage # "idle"
                   PROVE  task'[k] = "unacked" /\ holder'[k] = v
        BY DEF HandlerHoldsTask
      <3>1. v \in connected /\ v # w /\ v \in Workers
        BY <2>1 DEF TaskInv, TypeOK
      <3>2. task[k] = "unacked" /\ holder[k] = v
        BY <2>3, <3>1 DEF TaskInv, HandlerHoldsTask
      <3> QED
        BY <2>1, <3>1, <3>2 DEF Requeue, HeldBy
    <2> QED
      BY <2>2, <2>5, <2>6
  <1> QED
    BY <1>2, <1>3

LEMMA TaskStep == TaskInv /\ [Next]_vars => TaskInv'
  <1> SUFFICES ASSUME TaskInv, [Next]_vars PROVE TaskInv'
    OBVIOUS
  <1>1. TypeOK'
    BY TypeStep DEF TaskInv
  <1>2. SentOnce' /\ HandlersLive' /\ HandlerHoldsTask'
    <2>1. CASE SubmitNext
      BY <2>1, SubmitTask DEF SubmitNext
    <2>2. CASE PublisherLost \/ ApiCrash \/ BrokerNext
      BY <2>2, ApiBrokerTask
    <2>3. CASE HandlerNext
      BY <2>3, HandlerTask DEF HandlerNext
    <2>4. CASE WorkerNext
      BY <2>4, WorkerTask
    <2>5. CASE UNCHANGED vars
      BY <2>5 DEF TaskInv, vars, api, broker, procs, SentOnce, OnWire,
                  HandlersLive, HandlerHoldsTask
    <2> QED
      BY <2>1, <2>2, <2>3, <2>4, <2>5 DEF Next
  <1> QED
    BY <1>1, <1>2 DEF TaskInv

\* Two connected workers never run ProcessTask on the same job: whoever runs
\* it holds its task, whatever crashes, stops and disconnections happen.
THEOREM HandlersHoldTheirTasks == Spec => []HandlerHoldsTask
  <1>1. TaskInv => HandlerHoldsTask
    BY DEF TaskInv
  <1> QED
    BY <1>1, TaskInit, TaskStep, PTL DEF Spec

-----------------------------------------------------------------------------
(* A job that reads "success" has an answer: the handler that is about to   *)
(* write success holds the id of a message it stored, and messages are only *)
(* ever added.                                                             *)

StoredBeforeSuccess ==
    \A w \in Workers, j \in Jobs :
        handler[w][j].stage = "succeed" => handler[w][j].answer \in 1 .. answers[j]

AnswerInv == TypeOK /\ StoredBeforeSuccess /\ SuccessHasAnswer

LEMMA AnswerInit == Init => AnswerInv
  BY TypeInit DEF Init, AnswerInv, StoredBeforeSuccess, SuccessHasAnswer,
                  NoRow, NoWork

\* Steps that leave answers alone and neither write success nor reach the
\* stage before it.
LEMMA AnswerKept ==
    ASSUME AnswerInv, TypeOK', answers' = answers,
           \A w \in Workers, j \in Jobs :
               handler'[w][j].stage = "succeed" => handler'[w][j] = handler[w][j],
           \A j \in Jobs : row'[j].status = "success" => row'[j] = row[j]
    PROVE  AnswerInv'
  BY DEF AnswerInv, StoredBeforeSuccess, SuccessHasAnswer

LEMMA AnswerSubmit ==
    ASSUME AnswerInv, TypeOK', NEW j \in Jobs,
           SubmitRefuse(j) \/ SubmitCreate(j) \/ SubmitStep(j)
    PROVE  AnswerInv'
  <1>1. handler' = handler /\ answers' = answers
    BY DEF SubmitStep, SubmitRefuse, SubmitCreate, Publish, PublishError,
           AwaitConfirm, AwaitFails, SubmitFails, history
  <1>2. \A k \in Jobs : row'[k].status = "success" => row'[k] = row[k]
    BY DEF SubmitStep, SubmitRefuse, SubmitCreate, Publish, PublishError,
           AwaitConfirm, AwaitFails, SubmitFails, MarkFailed, NoRow,
           AnswerInv, TypeOK, Row
  <1> QED
    BY <1>1, <1>2, AnswerKept

LEMMA GotoStage ==
    ASSUME TypeOK, NEW w \in Workers, NEW j \in Jobs, NEW from, NEW to,
           Goto(w, j, from, to)
    PROVE  handler[w][j].stage = from /\ handler'[w][j].stage = to
  <1>1. handler'[w][j] = [handler[w][j] EXCEPT !.stage = to]
    BY DEF Goto, TypeOK
  <1>2. handler[w][j] \in Handler
    BY DEF TypeOK
  <1> QED
    BY <1>1, <1>2 DEF Goto, Handler

\* The other three updates write a status that is not success.
LEMMA MarksNoSuccess ==
    ASSUME TypeOK, NEW j \in Jobs, NEW n \in Nat,
           MarkRunning(j) \/ MarkFailed(j, n) \/ MarkPendingForRetry(j, n)
    PROVE  \A k \in Jobs : row'[k].status = "success" => row'[k] = row[k]
  <1>1. row[j] \in Row
    BY DEF TypeOK
  <1>2. \/ row'[j] = [row[j] EXCEPT !.status = "running"]
        \/ row'[j] = [row[j] EXCEPT !.status = "failed", !.retry = n]
        \/ row'[j] = [row[j] EXCEPT !.status = "pending", !.retry = n]
    BY DEF MarkRunning, MarkFailed, MarkPendingForRetry, TypeOK
  <1>3. row'[j].status # "success"
    BY <1>1, <1>2 DEF Row
  <1>4. \A k \in Jobs \ {j} : row'[k] = row[k]
    BY DEF MarkRunning, MarkFailed, MarkPendingForRetry, TypeOK
  <1> QED
    BY <1>3, <1>4

LEMMA AnswerHandler ==
    ASSUME AnswerInv, TypeOK', NEW w \in Workers, NEW j \in Jobs,
           Deliver(w, j) \/ HandlerStep(w, j)
    PROVE  AnswerInv'
  <1>1. handler[w][j] \in Handler /\ handler'[w][j] \in Handler
    BY DEF AnswerInv, TypeOK
  <1>2. \A v \in Workers, k \in Jobs :
            <<v, k>> # <<w, j>> => handler'[v][k] = handler[v][k]
    BY OtherHandlers DEF AnswerInv
  <1>3. CASE Store(w, j) /\ handler'[w][j].stage = "succeed"
    <2>1. /\ answers' = [answers EXCEPT ![j] = answers[j] + 1]
          /\ handler'[w][j].answer = answers[j] + 1
          /\ row' = row
      BY <1>1, <1>3 DEF Store, Goto, AnswerInv, TypeOK, Handler
    <2>2. \A k \in Jobs : answers[k] \in Nat /\ answers'[k] \in Nat
                          /\ answers[k] <= answers'[k]
      BY <2>1, SMTT(30) DEF AnswerInv, TypeOK
    <2>3. StoredBeforeSuccess'
      <3> SUFFICES ASSUME NEW v \in Workers, NEW k \in Jobs,
                          handler'[v][k].stage = "succeed"
                   PROVE  handler'[v][k].answer \in 1 .. answers'[k]
        BY DEF StoredBeforeSuccess
      <3>1. CASE <<v, k>> = <<w, j>>
        BY <2>1, <3>1 DEF AnswerInv, TypeOK
      <3>2. CASE <<v, k>> # <<w, j>>
        <4>1. handler[v][k].answer \in 1 .. answers[k]
          BY <1>2, <3>2 DEF AnswerInv, StoredBeforeSuccess
        <4> QED
          BY <1>2, <2>2, <3>2, <4>1
      <3> QED
        BY <3>1, <3>2
    <2>4. SuccessHasAnswer'
      BY <2>1, <2>2 DEF AnswerInv, SuccessHasAnswer
    <2> QED
      BY <2>3, <2>4 DEF AnswerInv
  <1>4. CASE Succeed(w, j)
    <2>1. handler[w][j].stage = "succeed" /\ handler'[w][j].stage # "succeed"
      BY <1>4, GotoStage DEF Succeed, AnswerInv
    <2>2. answers' = answers
      BY <1>4 DEF Succeed, history
    <2>3. handler[w][j].answer \in 1 .. answers[j]
      BY <2>1 DEF AnswerInv, StoredBeforeSuccess
    <2>4. StoredBeforeSuccess'
      BY <1>2, <2>1, <2>2 DEF AnswerInv, StoredBeforeSuccess
    <2>5. SuccessHasAnswer'
      <3>1. CASE row' = row
        BY <2>2, <3>1 DEF AnswerInv, SuccessHasAnswer
      <3>2. CASE MarkSuccess(j, handler[w][j].answer)
        <4>1. row[j] \in Row
          BY DEF AnswerInv, TypeOK
        <4>2. row'[j] = [row[j] EXCEPT !.status = "success",
                                       !.answer = handler[w][j].answer]
          BY <3>2 DEF MarkSuccess, AnswerInv, TypeOK
        <4>3. row'[j].answer = handler[w][j].answer
          BY <4>1, <4>2 DEF Row
        <4>4. \A k \in Jobs \ {j} : row'[k] = row[k]
          BY <3>2 DEF MarkSuccess, AnswerInv, TypeOK
        <4> QED
          BY <2>2, <2>3, <4>3, <4>4 DEF AnswerInv, SuccessHasAnswer
      <3> QED
        BY <1>4, <3>1, <3>2 DEF Succeed
    <2> QED
      BY <2>4, <2>5 DEF AnswerInv
  <1>5. CASE ~Succeed(w, j) /\ handler'[w][j].stage # "succeed"
    <2>1. answers' = answers
      <3>1. CASE Store(w, j)
        BY <1>1, <1>5, <3>1 DEF Store, AnswerInv, TypeOK, Handler
      <3> QED
        BY <1>5, <3>1 DEF Deliver, HandlerStep, Load, Start, Generate, Fail,
           Ack, Nack, Settle, history
    <2>2. \A k \in Jobs : row'[k].status = "success" => row'[k] = row[k]
      <3>1. CASE row' = row
        BY <3>1
      <3>2. CASE MarkRunning(j)
        BY <3>2, MarksNoSuccess, 0 \in Nat DEF AnswerInv
      <3>3. CASE Fail(w, j)
        <4>1. handler[w][j].retry + 1 \in Nat
          BY <1>1 DEF Handler
        <4> QED
          BY <3>1, <3>3, <4>1, MarksNoSuccess DEF Fail, AnswerInv
      <3> QED
        BY <1>5, <3>1, <3>2, <3>3 DEF Deliver, HandlerStep, Load, Start,
           Generate, Store, Ack, Nack, Settle
    <2> QED
      BY <1>2, <1>5, <2>1, <2>2, AnswerKept
  <1>6. handler'[w][j].stage = "succeed" => Store(w, j)
    <2> SUFFICES ASSUME ~Store(w, j) PROVE handler'[w][j].stage # "succeed"
      OBVIOUS
    <2>1. CASE Deliver(w, j) \/ Ack(w, j) \/ Nack(w, j)
      <3>1. handler \in [Workers -> [Jobs -> Handler]]
        BY DEF AnswerInv, TypeOK
      <3>2. CASE Deliver(w, j)
        <4> DEFINE h == [NoWork EXCEPT !.stage = "load"]
        <4>1. handler' = [handler EXCEPT ![w][j] = h]
          BY <3>2 DEF Deliver
        <4>2. h.stage = "load"
          BY DEF NoWork
        <4> HIDE DEF h
        <4>3. handler'[w][j] = h
          BY <3>1, <4>1
        <4> QED
          BY <4>2, <4>3
      <3>3. CASE Ack(w, j) \/ Nack(w, j)
        <4>1. handler' = [handler EXCEPT ![w][j] = NoWork]
          BY <3>3 DEF Ack, Nack, Settle
        <4>2. handler'[w][j] = NoWork
          BY <3>1, <4>1
        <4> QED
          BY <4>2 DEF NoWork
      <3> QED
        BY <2>1, <3>2, <3>3
    <2>2. CASE Load(w, j)
      <3>1. CASE Goto(w, j, "load", "ack")
        BY <3>1, GotoStage DEF AnswerInv
      <3>2. CASE handler' = [handler EXCEPT ![w][j].stage = "mark",
                                            ![w][j].retry = row[j].retry]
        <4>1. handler'[w][j] = [handler[w][j] EXCEPT !.stage = "mark",
                                                     !.retry = row[j].retry]
          BY <3>2 DEF AnswerInv, TypeOK
        <4>2. [handler[w][j] EXCEPT !.stage = "mark",
                                    !.retry = row[j].retry].stage = "mark"
          BY <1>1 DEF Handler
        <4> QED
          BY <4>1, <4>2
      <3> QED
        BY <2>2, <3>1, <3>2 DEF Load
    <2>3. CASE Start(w, j)
      BY <2>3, GotoStage DEF Start, AnswerInv
    <2>4. CASE Generate(w, j)
      BY <2>4, GotoStage DEF Generate, AnswerInv
    <2>5. CASE Fail(w, j)
      BY <2>5, GotoStage DEF Fail, AnswerInv
    <2>6. CASE Succeed(w, j)
      BY <2>6, GotoStage DEF Succeed, AnswerInv
    <2> QED
      BY <2>1, <2>2, <2>3, <2>4, <2>5, <2>6 DEF HandlerStep
  <1> QED
    BY <1>3, <1>4, <1>5, <1>6

LEMMA AnswerStep == AnswerInv /\ [Next]_vars => AnswerInv'
  <1> SUFFICES ASSUME AnswerInv, [Next]_vars PROVE AnswerInv'
    OBVIOUS
  <1>1. TypeOK'
    BY TypeStep DEF AnswerInv
  <1>2. CASE SubmitNext
    BY <1>1, <1>2, AnswerSubmit DEF SubmitNext
  <1>3. CASE PublisherLost \/ ApiCrash \/ BrokerNext
    BY <1>1, <1>3, AnswerKept DEF PublisherLost, ApiCrash, BrokerNext,
       BrokerAccept, BrokerRefuse, history
  <1>4. CASE HandlerNext
    BY <1>1, <1>4, AnswerHandler DEF HandlerNext
  <1>5. CASE WorkerNext
    <2> PICK w \in Workers : \/ WorkerStart(w) \/ WorkerStop(w) \/ Disconnect(w)
                             \/ WorkerExit(w) \/ WorkerCrash(w)
      BY <1>5 DEF WorkerNext
    <2>1. answers' = answers /\ row' = row
      BY DEF WorkerStart, WorkerStop, Disconnect, WorkerExit, WorkerCrash, history
    <2>2. handler' = handler
             \/ handler' = [handler EXCEPT ![w] = [j \in Jobs |-> NoWork]]
      BY DEF WorkerStart, WorkerStop, Disconnect, WorkerExit, WorkerCrash
    <2>3. \A v \in Workers, j \in Jobs :
              handler'[v][j].stage = "succeed" => handler'[v][j] = handler[v][j]
      <3>1. NoWork.stage # "succeed"
        BY DEF NoWork
      <3> QED
        BY <2>2, <3>1, ZenonT(60) DEF AnswerInv, TypeOK
    <2> QED
      BY <1>1, <2>1, <2>3, AnswerKept
  <1>6. CASE UNCHANGED vars
    BY <1>1, <1>6, AnswerKept DEF vars, history
  <1> QED
    BY <1>2, <1>3, <1>4, <1>5, <1>6 DEF Next

\* A client that reads "success" finds the answer's message stored, in every
\* behaviour: crashes between the two writes included.
THEOREM SuccessMeansAnswered == Spec => []SuccessHasAnswer
  <1>1. AnswerInv => SuccessHasAnswer
    BY DEF AnswerInv
  <1> QED
    BY <1>1, AnswerInit, AnswerStep, PTL DEF Spec

-----------------------------------------------------------------------------
(* What each step of a handler does to its job, field by field.             *)

LEMMA FaultEffect ==
    ASSUME TypeOK, NEW k \in FaultKinds, Fault(k)
    PROVE  /\ faults'[k] = faults[k] + 1
           /\ \A m \in FaultKinds \ {k} : faults'[m] = faults[m]
  BY DEF Fault, TypeOK

\* Goto changes the stage and nothing else of a handler.
LEMMA GotoEffect ==
    ASSUME TypeOK, NEW w \in Workers, NEW j \in Jobs, NEW from, NEW to,
           Goto(w, j, from, to)
    PROVE  /\ handler[w][j].stage = from /\ handler'[w][j].stage = to
           /\ handler'[w][j].retry = handler[w][j].retry
           /\ handler'[w][j].answer = handler[w][j].answer
  <1>1. handler'[w][j] = [handler[w][j] EXCEPT !.stage = to]
    BY DEF Goto, TypeOK
  <1>2. handler[w][j] \in Handler
    BY DEF TypeOK
  <1> QED
    BY <1>1, <1>2 DEF Goto, Handler

\* The four updates of a row.
LEMMA MarkEffect ==
    ASSUME TypeOK, NEW j \in Jobs, NEW n \in Nat
    PROVE  /\ MarkRunning(j) => /\ row'[j].status = "running"
                                /\ row'[j].retry = row[j].retry
                                /\ row'[j].answer = row[j].answer
           /\ MarkSuccess(j, n) => /\ row'[j].status = "success"
                                   /\ row'[j].retry = row[j].retry
                                   /\ row'[j].answer = n
           /\ MarkFailed(j, n) => /\ row'[j].status = "failed"
                                  /\ row'[j].retry = n
                                  /\ row'[j].answer = row[j].answer
           /\ MarkPendingForRetry(j, n) => /\ row'[j].status = "pending"
                                           /\ row'[j].retry = n
                                           /\ row'[j].answer = row[j].answer
  <1>1. row[j] \in Row
    BY DEF TypeOK
  <1>2. /\ MarkRunning(j) => row'[j] = [row[j] EXCEPT !.status = "running"]
        /\ MarkSuccess(j, n) => row'[j] = [row[j] EXCEPT !.status = "success", !.answer = n]
        /\ MarkFailed(j, n) => row'[j] = [row[j] EXCEPT !.status = "failed", !.retry = n]
        /\ MarkPendingForRetry(j, n) =>
               row'[j] = [row[j] EXCEPT !.status = "pending", !.retry = n]
    BY DEF TypeOK, MarkRunning, MarkSuccess, MarkFailed, MarkPendingForRetry
  <1> QED
    BY <1>1, <1>2 DEF Row

LEMMA LoadEffect ==
    ASSUME TypeOK, NEW w \in Workers, NEW j \in Jobs, Load(w, j)
    PROVE  /\ handler[w][j].stage = "load"
           /\ \/ /\ handler'[w][j].stage = "ack"
                 /\ (NothingToDo(j) /\ faults' = faults) \/ Fault("db")
              \/ /\ handler'[w][j].stage = "mark"
                 /\ handler'[w][j].retry = row[j].retry
                 /\ ~NothingToDo(j) /\ faults' = faults
           /\ UNCHANGED <<row, task, holder, answers, attempts, llmErrors>>
  <1>1. UNCHANGED <<row, task, holder, answers, attempts, llmErrors>>
    BY DEF Load, broker, history
  <1>2. CASE Goto(w, j, "load", "ack")
    <2>1. handler[w][j].stage = "load" /\ handler'[w][j].stage = "ack"
      BY <1>2, GotoEffect
    <2>2. handler' # [handler EXCEPT ![w][j].stage = "mark",
                                    ![w][j].retry = row[j].retry]
      <3>1. [handler EXCEPT ![w][j].stage = "mark",
                            ![w][j].retry = row[j].retry][w][j]
              = [handler[w][j] EXCEPT !.stage = "mark", !.retry = row[j].retry]
        BY DEF TypeOK
      <3>2. handler[w][j] \in Handler
        BY DEF TypeOK
      <3>3. [handler[w][j] EXCEPT !.stage = "mark", !.retry = row[j].retry].stage = "mark"
        BY <3>2 DEF Handler
      <3> QED
        BY <2>1, <3>1, <3>3
    <2> QED
      BY <1>1, <2>1, <2>2 DEF Load, NoFault
  <1>3. CASE ~Goto(w, j, "load", "ack")
    <2>1. handler'[w][j] = [handler[w][j] EXCEPT !.stage = "mark", !.retry = row[j].retry]
      BY <1>3, ZenonT(60) DEF Load, TypeOK
    <2>2. handler[w][j] \in Handler
      BY DEF TypeOK
    <2>3. handler'[w][j].stage = "mark" /\ handler'[w][j].retry = row[j].retry
      BY <2>1, <2>2 DEF Handler
    <2> QED
      BY <1>1, <1>3, <2>3 DEF Load, NoFault
  <1> QED
    BY <1>2, <1>3

LEMMA StartEffect ==
    ASSUME TypeOK, NEW w \in Workers, NEW j \in Jobs, Start(w, j)
    PROVE  /\ handler[w][j].stage = "mark"
           /\ handler'[w][j].retry = handler[w][j].retry
           /\ \/ /\ handler'[w][j].stage = "llm"
                 /\ row'[j].status = "running" /\ row'[j].retry = row[j].retry
                 /\ row'[j].answer = row[j].answer
                 /\ attempts'[j] = attempts[j] + 1
                 /\ faults' = faults
              \/ /\ handler'[w][j].stage = "nack"
                 /\ row' = row /\ attempts' = attempts
                 /\ Fault("db")
           /\ \A k \in Jobs \ {j} : row'[k] = row[k] /\ attempts'[k] = attempts[k]
           /\ UNCHANGED <<task, holder, answers, llmErrors>>
  <1>1. CASE Goto(w, j, "mark", "llm") /\ MarkRunning(j)
    BY <1>1, GotoEffect, MarkEffect, 0 \in Nat, SMTT(30)
       DEF Start, MarkRunning, NoFault, TypeOK, broker
  <1>2. CASE Goto(w, j, "mark", "nack")
    <2>1. handler'[w][j].stage = "nack" /\ ~Goto(w, j, "mark", "llm")
      BY <1>2, GotoEffect
    <2> QED
      BY <1>2, <2>1, GotoEffect DEF Start, broker
  <1> QED
    BY <1>1, <1>2 DEF Start

LEMMA GenerateEffect ==
    ASSUME TypeOK, NEW w \in Workers, NEW j \in Jobs, Generate(w, j)
    PROVE  /\ handler[w][j].stage = "llm"
           /\ handler'[w][j].retry = handler[w][j].retry
           /\ \/ handler'[w][j].stage = "store" /\ llmErrors' = llmErrors
              \/ /\ handler'[w][j].stage = "fail"
                 /\ \/ w \in stopping /\ llmErrors' = llmErrors
                    \/ llmErrors' = [llmErrors EXCEPT ![j] = llmErrors[j] + 1]
           /\ UNCHANGED <<row, task, holder, answers, attempts, faults>>
  BY GotoEffect DEF Generate, broker

LEMMA StoreEffect ==
    ASSUME TypeOK, NEW w \in Workers, NEW j \in Jobs, Store(w, j)
    PROVE  /\ handler[w][j].stage = "store"
           /\ handler'[w][j].retry = handler[w][j].retry
           /\ \/ /\ handler'[w][j].stage = "succeed"
                 /\ answers' = [answers EXCEPT ![j] = answers[j] + 1]
                 /\ llmErrors' = llmErrors
              \/ /\ handler'[w][j].stage = "fail"
                 /\ answers' = answers
                 /\ llmErrors' = [llmErrors EXCEPT ![j] = llmErrors[j] + 1]
           /\ UNCHANGED <<row, task, holder, attempts, faults>>
  <1>1. CASE Goto(w, j, "store", "fail") /\ answers' = answers
    BY <1>1, GotoEffect DEF Store, broker, TypeOK
  <1>2. CASE /\ handler[w][j].stage = "store"
             /\ answers' = [answers EXCEPT ![j] = answers[j] + 1]
             /\ handler' = [handler EXCEPT ![w][j].stage = "succeed",
                                           ![w][j].answer = answers[j] + 1]
             /\ llmErrors' = llmErrors
    <2>1. handler'[w][j] = [handler[w][j] EXCEPT !.stage = "succeed",
                                                 !.answer = answers[j] + 1]
      BY <1>2 DEF TypeOK
    <2>2. handler[w][j] \in Handler
      BY DEF TypeOK
    <2>3. handler'[w][j].stage = "succeed" /\ handler'[w][j].retry = handler[w][j].retry
      BY <2>1, <2>2 DEF Handler
    <2> QED
      BY <1>2, <2>3 DEF Store, broker
  <1> QED
    BY <1>1, <1>2 DEF Store

LEMMA FailEffect ==
    ASSUME TypeOK, NEW w \in Workers, NEW j \in Jobs, Fail(w, j)
    PROVE  LET next == handler[w][j].retry + 1 IN
           /\ next \in Nat
           /\ handler[w][j].stage = "fail"
           /\ handler'[w][j].retry = handler[w][j].retry
           /\ \/ /\ next >= MaxRetry /\ handler'[w][j].stage = "ack"
                 /\ \/ /\ row'[j].status = "failed" /\ row'[j].retry = next
                       /\ row'[j].answer = row[j].answer /\ faults' = faults
                    \/ row' = row /\ Fault("db")
              \/ /\ next < MaxRetry /\ handler'[w][j].stage = "nack"
                 /\ \/ /\ row'[j].status = "pending" /\ row'[j].retry = next
                       /\ row'[j].answer = row[j].answer /\ faults' = faults
                    \/ row' = row /\ Fault("db")
           /\ \A k \in Jobs \ {j} : row'[k] = row[k]
           /\ UNCHANGED <<task, holder, answers, attempts, llmErrors>>
  <1> DEFINE next == handler[w][j].retry + 1
  <1>1. next \in Nat /\ MaxRetry \in Nat
    <2>1. handler[w][j] \in Handler
      BY DEF TypeOK
    <2> QED
      BY <2>1, MaxRetryAssumption DEF Handler
  <1>2. UNCHANGED <<task, holder, answers, attempts, llmErrors>>
    BY DEF Fail, broker, history
  <1>3. CASE LastTry(next) /\ Goto(w, j, "fail", "ack")
    <2>1. next >= MaxRetry
      BY <1>3 DEF LastTry
    <2> HIDE DEF next
    <2>2. handler[w][j].stage = "fail" /\ handler'[w][j].stage = "ack"
          /\ handler'[w][j].retry = handler[w][j].retry
      BY <1>3, GotoEffect
    <2>3. ~Goto(w, j, "fail", "nack")
      BY <2>2, GotoEffect
    <2>4. \/ MarkFailed(j, next) /\ faults' = faults
          \/ Fault("db") /\ row' = row
      <3> USE DEF next
      <3> QED
        BY <1>3, <2>3, ZenonT(30) DEF Fail, NoFault
    <2>5. MarkFailed(j, next) => \A k \in Jobs \ {j} : row'[k] = row[k]
      BY DEF MarkFailed, TypeOK
    <2> QED
      BY <1>1, <1>2, <2>1, <2>2, <2>4, <2>5, MarkEffect DEF next
  <1>4. CASE ~LastTry(next) /\ Goto(w, j, "fail", "nack")
    <2>1. next < MaxRetry
      BY <1>1, <1>4 DEF LastTry
    <2> HIDE DEF next
    <2>2. handler[w][j].stage = "fail" /\ handler'[w][j].stage = "nack"
          /\ handler'[w][j].retry = handler[w][j].retry
      BY <1>4, GotoEffect
    <2>3. ~Goto(w, j, "fail", "ack")
      BY <2>2, GotoEffect
    <2>4. \/ MarkPendingForRetry(j, next) /\ faults' = faults
          \/ Fault("db") /\ row' = row
      <3> USE DEF next
      <3> QED
        BY <1>4, <2>3, ZenonT(30) DEF Fail, NoFault
    <2>5. MarkPendingForRetry(j, next) => \A k \in Jobs \ {j} : row'[k] = row[k]
      BY DEF MarkPendingForRetry, TypeOK
    <2> QED
      BY <1>1, <1>2, <2>1, <2>2, <2>4, <2>5, MarkEffect DEF next
  <1> QED
    BY <1>3, <1>4 DEF Fail

LEMMA SucceedEffect ==
    ASSUME TypeOK, NEW w \in Workers, NEW j \in Jobs, Succeed(w, j)
    PROVE  /\ handler[w][j].stage = "succeed"
           /\ \/ /\ handler'[w][j].stage = "ack"
                 /\ row'[j].status = "success" /\ row'[j].retry = row[j].retry
                 /\ row'[j].answer = handler[w][j].answer
                 /\ faults' = faults
              \/ handler'[w][j].stage = "nack" /\ row' = row /\ Fault("db")
           /\ \A k \in Jobs \ {j} : row'[k] = row[k]
           /\ UNCHANGED <<task, holder, answers, attempts, llmErrors>>
  <1>1. handler[w][j].answer \in Nat
    <2>1. handler[w][j] \in Handler
      BY DEF TypeOK
    <2> QED
      BY <2>1 DEF Handler
  <1>2. CASE Goto(w, j, "succeed", "ack") /\ MarkSuccess(j, handler[w][j].answer)
    <2>1. handler'[w][j].stage = "ack" /\ ~Goto(w, j, "succeed", "nack")
      BY <1>2, GotoEffect
    <2>2. \A k \in Jobs \ {j} : row'[k] = row[k]
      BY <1>2 DEF MarkSuccess, TypeOK
    <2> QED
      BY <1>1, <1>2, <2>1, <2>2, GotoEffect, MarkEffect DEF Succeed, NoFault, broker, history
  <1>3. CASE Goto(w, j, "succeed", "nack")
    <2>1. handler'[w][j].stage = "nack" /\ ~Goto(w, j, "succeed", "ack")
      BY <1>3, GotoEffect
    <2> QED
      BY <1>3, <2>1, GotoEffect DEF Succeed, broker, history
  <1> QED
    BY <1>2, <1>3 DEF Succeed

LEMMA SettleEffect ==
    ASSUME TypeOK, NEW w \in Workers, NEW j \in Jobs, NEW from, NEW to \in TaskState,
           Settle(w, j, from, to)
    PROVE  /\ handler[w][j].stage = from /\ handler'[w][j].stage = "idle"
           /\ \/ /\ task[j] = "unacked" /\ holder[j] = w
                 /\ task'[j] = to /\ holder'[j] = Nobody
              \/ /\ ~(task[j] = "unacked" /\ holder[j] = w)
                 /\ task'[j] = task[j] /\ holder'[j] = holder[j]
           /\ \A k \in Jobs \ {j} : task'[k] = task[k] /\ holder'[k] = holder[k]
           /\ UNCHANGED <<row, answers, attempts, llmErrors, faults>>
  <1>1. handler'[w][j] = NoWork
    BY DEF Settle, TypeOK
  <1> QED
    BY <1>1 DEF Settle, HeldBy, NoWork, TypeOK, broker, history

LEMMA DeliverEffect ==
    ASSUME TypeOK, NEW w \in Workers, NEW j \in Jobs, Deliver(w, j)
    PROVE  /\ w \in connected /\ task[j] = "ready"
           /\ handler'[w][j].stage = "load"
           /\ task'[j] = "unacked" /\ holder'[j] = w
           /\ \A k \in Jobs \ {j} : task'[k] = task[k] /\ holder'[k] = holder[k]
           /\ UNCHANGED <<row, answers, attempts, llmErrors, faults>>
  <1> DEFINE h == [NoWork EXCEPT !.stage = "load"]
  <1>1. handler'[w][j] = h
    <2> HIDE DEF h
    <2> QED
      BY DEF Deliver, TypeOK, h
  <1>2. h.stage = "load"
    BY DEF NoWork
  <1> HIDE DEF h
  <1> QED
    BY <1>1, <1>2 DEF Deliver, TypeOK, history

-----------------------------------------------------------------------------
(* What each step leaves alone.                                             *)

LEMMA HandlerFrame ==
    ASSUME TypeOK, NEW w \in Workers, NEW j \in Jobs,
           Deliver(w, j) \/ HandlerStep(w, j)
    PROVE  /\ UNCHANGED <<submit, publisher, wire, confirms,
                          live, connected, stopping>>
           /\ \A v \in Workers, k \in Jobs :
                  v # w \/ k # j => handler'[v][k] = handler[v][k]
           /\ \A k \in Jobs \ {j} :
                  UNCHANGED <<row[k], task[k], holder[k],
                              answers[k], attempts[k], llmErrors[k]>>
           /\ faults' = faults \/ Fault("db")
  <1>1. UNCHANGED <<submit, publisher, wire, confirms, live, connected, stopping>>
    BY DEF Deliver, HandlerStep, Load, Start, Generate, Store, Fail, Succeed,
           Ack, Nack, Settle, api, procs
  <1>2. \A v \in Workers, k \in Jobs :
            v # w \/ k # j => handler'[v][k] = handler[v][k]
    BY OtherHandlers
  <1>3. faults' = faults \/ Fault("db")
    BY DEF Deliver, HandlerStep, Load, Start, Generate, Store, Fail, Succeed,
           Ack, Nack, Settle, NoFault
  <1>4. \A k \in Jobs \ {j} : row'[k] = row[k]
    BY DEF Deliver, HandlerStep, Load, Start, Generate, Store, Fail, Succeed,
           Ack, Nack, Settle, MarkRunning, MarkSuccess, MarkFailed,
           MarkPendingForRetry, TypeOK
  <1>5. \A k \in Jobs \ {j} : task'[k] = task[k] /\ holder'[k] = holder[k]
    BY DEF Deliver, HandlerStep, Load, Start, Generate, Store, Fail, Succeed,
           Ack, Nack, Settle, broker, TypeOK
  <1>6. \A k \in Jobs \ {j} : /\ answers'[k] = answers[k]
                              /\ attempts'[k] = attempts[k]
                              /\ llmErrors'[k] = llmErrors[k]
    BY DEF Deliver, HandlerStep, Load, Start, Generate, Store, Fail, Succeed,
           Ack, Nack, Settle, history, TypeOK
  <1> QED
    BY <1>1, <1>2, <1>3, <1>4, <1>5, <1>6

\* A step of Submit touches its job's row and call, the channel, and one fault.
LEMMA SubmitFrame ==
    ASSUME TypeOK, NEW j \in Jobs,
           SubmitRefuse(j) \/ SubmitCreate(j) \/ SubmitStep(j)
    PROVE  /\ UNCHANGED <<task, holder, handler, publisher, live, connected,
                          stopping, answers, attempts, llmErrors>>
           /\ \A k \in Jobs \ {j} : UNCHANGED <<row[k], submit[k]>>
           /\ \/ faults' = faults
              \/ \E k \in {"db", "send", "timeout"} : Fault(k)
  <1>1. /\ UNCHANGED <<task, holder, handler, publisher, live, connected,
                       stopping, answers, attempts, llmErrors>>
        /\ \/ faults' = faults
           \/ \E k \in {"db", "send", "timeout"} : Fault(k)
    BY DEF SubmitStep, SubmitRefuse, SubmitCreate, Publish, PublishError,
           AwaitConfirm, AwaitFails, SubmitFails, broker, procs, history, NoFault
  <1>2. \A k \in Jobs \ {j} : row'[k] = row[k]
    BY DEF SubmitStep, SubmitRefuse, SubmitCreate, Publish, PublishError,
           AwaitConfirm, AwaitFails, SubmitFails, MarkFailed, TypeOK
  <1>3. \A k \in Jobs \ {j} : submit'[k] = submit[k]
    BY DEF SubmitStep, SubmitRefuse, SubmitCreate, Publish, PublishError,
           AwaitConfirm, AwaitFails, SubmitFails, Progress, TypeOK
  <1> QED
    BY <1>1, <1>2, <1>3

LEMMA RequeueEffect ==
    ASSUME TypeOK, NEW w, Requeue(w), NEW j \in Jobs
    PROVE  \/ /\ task[j] = "unacked" /\ holder[j] = w
              /\ task'[j] = "ready" /\ holder'[j] = Nobody
           \/ /\ ~(task[j] = "unacked" /\ holder[j] = w)
              /\ task'[j] = task[j] /\ holder'[j] = holder[j]
  BY DEF Requeue, HeldBy

LEMMA WorkerFrame ==
    ASSUME TypeOK, NEW w \in Workers,
           \/ WorkerStart(w) \/ WorkerStop(w) \/ Disconnect(w)
           \/ WorkerExit(w) \/ WorkerCrash(w)
    PROVE  /\ UNCHANGED <<row, submit, publisher, wire, confirms,
                          answers, attempts, llmErrors>>
           /\ \A v \in Workers \ {w}, j \in Jobs : handler'[v][j] = handler[v][j]
           /\ \A v \in Workers \ {w} : /\ v \in connected' <=> v \in connected
                                       /\ v \in live' <=> v \in live
                                       /\ v \in stopping' <=> v \in stopping
           /\ \A j \in Jobs :
                  \/ UNCHANGED <<task[j], holder[j]>>
                  \/ /\ task[j] = "unacked" /\ holder[j] = w
                     /\ task'[j] = "ready" /\ holder'[j] = Nobody
  <1>1. UNCHANGED <<row, submit, publisher, wire, confirms,
                    answers, attempts, llmErrors>>
    BY DEF WorkerStart, WorkerStop, Disconnect, WorkerExit, WorkerCrash, api, history
  <1>2. \A v \in Workers \ {w}, j \in Jobs : handler'[v][j] = handler[v][j]
    BY DEF WorkerStart, WorkerStop, Disconnect, WorkerExit, WorkerCrash, TypeOK
  <1>3. \A v \in Workers \ {w} : /\ v \in connected' <=> v \in connected
                                 /\ v \in live' <=> v \in live
                                 /\ v \in stopping' <=> v \in stopping
    BY DEF WorkerStart, WorkerStop, Disconnect, WorkerExit, WorkerCrash, Leave
  <1>4. Requeue(w) \/ UNCHANGED <<task, holder>>
    BY DEF WorkerStart, WorkerStop, Disconnect, WorkerExit, WorkerCrash, Leave, broker
  <1> QED
    BY <1>1, <1>2, <1>3, <1>4, RequeueEffect

\* What becomes of the handlers of the worker itself, and of its tasks.
LEMMA WorkerEffect ==
    ASSUME TypeOK, NEW w \in Workers
    PROVE  /\ WorkerStart(w) =>
                  /\ w \notin live /\ w \in connected' /\ w \in live'
                  /\ w \in stopping' <=> w \in stopping
                  /\ UNCHANGED <<handler, task, holder, faults>>
           /\ WorkerStop(w) =>
                  /\ UNCHANGED <<handler, task, holder, live, connected>>
                  /\ Fault("stop")
           /\ Disconnect(w) =>
                  /\ w \in connected /\ w \notin connected'
                  /\ UNCHANGED <<handler, live, stopping>>
                  /\ Requeue(w) /\ Fault("disconnect")
           /\ WorkerExit(w) =>
                  /\ w \notin connected' /\ w \notin live' /\ w \notin stopping'
                  /\ \A j \in Jobs : handler[w][j].stage = "idle"
                  /\ Requeue(w) /\ UNCHANGED <<handler, faults>>
           /\ WorkerCrash(w) =>
                  /\ w \notin connected' /\ w \notin live' /\ w \notin stopping'
                  /\ \A j \in Jobs : handler'[w][j].stage = "idle"
                  /\ Requeue(w) /\ Fault("crash")
  <1>1. NoWork.stage = "idle"
    BY DEF NoWork
  <1>2. WorkerCrash(w) => \A j \in Jobs : handler'[w][j] = NoWork
    BY DEF WorkerCrash, TypeOK
  <1>3. WorkerExit(w) => \A j \in Jobs : handler[w][j].stage = "idle"
    BY DEF WorkerExit, Busy
  <1> QED
    BY <1>1, <1>2, <1>3 DEF WorkerStart, WorkerStop, Disconnect, WorkerExit,
       WorkerCrash, Leave, broker

-----------------------------------------------------------------------------
(* The base: a task that is out with a worker is in the hands of a handler  *)
(* that runs there, so that only that handler, or the end of the worker's   *)
(* connection, moves it.                                                    *)

UnackedHasHandler ==
    \A j \in Jobs :
        task[j] = "unacked" => /\ holder[j] \in connected
                               /\ handler[holder[j]][j].stage # "idle"

BaseInv == TaskInv /\ UnackedHasHandler /\ IsFiniteSet(live)

LEMMA BaseInit == Init => BaseInv
  <1> SUFFICES ASSUME Init PROVE BaseInv
    OBVIOUS
  <1>1. IsFiniteSet(live)
    BY FS_EmptySet DEF Init
  <1>2. UnackedHasHandler
    BY DEF Init, UnackedHasHandler
  <1> QED
    BY <1>1, <1>2, TaskInit DEF BaseInv

LEMMA BaseHandler ==
    ASSUME BaseInv, NEW w \in Workers, NEW j \in Jobs,
           Deliver(w, j) \/ HandlerStep(w, j)
    PROVE  UnackedHasHandler'
  <1>1. TypeOK /\ TypeOK'
    BY HandlerType DEF BaseInv, TaskInv
  <1>2. /\ UNCHANGED connected
        /\ \A v \in Workers, k \in Jobs :
               v # w \/ k # j => handler'[v][k] = handler[v][k]
        /\ \A k \in Jobs \ {j} : UNCHANGED <<task[k], holder[k]>>
    BY <1>1, HandlerFrame
  <1>3. connected \subseteq Workers
    BY <1>1 DEF TypeOK
  <1>4. \A k \in Jobs \ {j} : task'[k] = "unacked" =>
            holder'[k] \in connected' /\ handler'[holder'[k]][k].stage # "idle"
    BY <1>2, <1>3 DEF BaseInv, UnackedHasHandler
  <1>5. task'[j] = "unacked" =>
            holder'[j] \in connected' /\ handler'[holder'[j]][j].stage # "idle"
    <2>1. CASE Deliver(w, j)
      BY <1>1, <1>2, <2>1, DeliverEffect
    <2>2. CASE Ack(w, j) \/ Nack(w, j)
      <3>1. \/ /\ task[j] = "unacked" /\ holder[j] = w
               /\ task'[j] \in {"acked", "ready"}
            \/ /\ ~(task[j] = "unacked" /\ holder[j] = w)
               /\ task'[j] = task[j] /\ holder'[j] = holder[j]
        BY <1>1, <2>2, SettleEffect DEF Ack, Nack, TaskState
      <3> QED
        BY <1>2, <1>3, <3>1 DEF BaseInv, UnackedHasHandler
    <2>3. CASE \/ Load(w, j) \/ Start(w, j) \/ Generate(w, j)
               \/ Store(w, j) \/ Fail(w, j) \/ Succeed(w, j)
      <3>1. handler'[w][j].stage # "idle" /\ UNCHANGED <<task, holder>>
        BY <1>1, <2>3, LoadEffect, StartEffect, GenerateEffect, StoreEffect,
           FailEffect, SucceedEffect
      <3> QED
        BY <1>2, <1>3, <3>1 DEF BaseInv, UnackedHasHandler
    <2> QED
      BY <2>1, <2>2, <2>3 DEF HandlerStep
  <1> QED
    BY <1>4, <1>5 DEF UnackedHasHandler

LEMMA BaseWorker ==
    ASSUME BaseInv, NEW w \in Workers,
           \/ WorkerStart(w) \/ WorkerStop(w) \/ Disconnect(w)
           \/ WorkerExit(w) \/ WorkerCrash(w)
    PROVE  UnackedHasHandler' /\ IsFiniteSet(live)'
  <1>1. TypeOK
    BY DEF BaseInv, TaskInv
  <1>2. live' = live \/ live' = live \cup {w} \/ live' = live \ {w}
    BY DEF WorkerStart, WorkerStop, Disconnect, WorkerExit, WorkerCrash, Leave
  <1>3. IsFiniteSet(live')
    BY <1>2, FS_AddElement, FS_RemoveElement DEF BaseInv
  <1>4. ASSUME NEW j \in Jobs, task'[j] = "unacked"
        PROVE  holder'[j] \in connected' /\ handler'[holder'[j]][j].stage # "idle"
    <2>1. task[j] = "unacked" /\ holder'[j] = holder[j]
      BY <1>1, <1>4, WorkerFrame
    <2>2. /\ holder[j] \in connected /\ handler[holder[j]][j].stage # "idle"
          /\ holder[j] \in Workers
      BY <1>1, <2>1 DEF BaseInv, UnackedHasHandler, TypeOK
    <2>3. CASE holder[j] # w
      BY <1>1, <2>1, <2>2, <2>3, WorkerFrame
    <2>4. CASE holder[j] = w
      <3>1. ~Requeue(w)
        BY <1>1, <1>4, <2>1, <2>4, RequeueEffect
      <3>2. WorkerStart(w) \/ WorkerStop(w)
        BY <1>1, <3>1, WorkerEffect
      <3>3. handler' = handler /\ w \in connected'
        BY <1>1, <2>2, <2>4, <3>2, WorkerEffect
      <3> QED
        BY <2>1, <2>2, <2>4, <3>3
    <2> QED
      BY <2>3, <2>4
  <1> QED
    BY <1>3, <1>4 DEF UnackedHasHandler

\* The steps of the API and of the broker move no task into a worker's hands.
LEMMA ApiBrokerFrame ==
    ASSUME TaskInv, PublisherLost \/ ApiCrash \/ BrokerNext
    PROVE  /\ UNCHANGED <<row, holder, handler, live, connected, stopping,
                          answers, attempts, llmErrors>>
           /\ \A j \in Jobs : \/ task'[j] = task[j]
                              \/ task[j] = "none" /\ task'[j] = "ready"
           /\ \/ faults' = faults
              \/ \E k \in {"publisher", "api", "nack"} : Fault(k)
  <1>1. /\ UNCHANGED <<row, holder, handler, live, connected, stopping,
                       answers, attempts, llmErrors>>
        /\ \/ faults' = faults
           \/ \E k \in {"publisher", "api", "nack"} : Fault(k)
    BY DEF PublisherLost, ApiCrash, BrokerNext, BrokerAccept, BrokerRefuse,
           broker, procs, history
  <1>2. CASE task' = task
    BY <1>1, <1>2
  <1>3. CASE task' # task
    <2>1. wire # <<>> /\ task' = [task EXCEPT ![Head(wire)] = "ready"]
      BY <1>3 DEF PublisherLost, ApiCrash, BrokerNext, BrokerAccept, BrokerRefuse,
                  broker
    <2>2. task[Head(wire)] = "none" /\ Head(wire) \in Jobs
      BY <2>1, TailWire DEF TaskInv, SentOnce, TypeOK
    <2> QED
      BY <1>1, <2>1, <2>2 DEF TaskInv, TypeOK
  <1> QED
    BY <1>2, <1>3

LEMMA BaseStep == BaseInv /\ [Next]_vars => BaseInv'
  <1> SUFFICES ASSUME BaseInv, [Next]_vars PROVE BaseInv'
    OBVIOUS
  <1>1. TaskInv /\ TaskInv' /\ TypeOK
    BY TaskStep DEF BaseInv, TaskInv
  <1>2. CASE SubmitNext
    <2>1. UNCHANGED <<task, holder, handler, connected, live>>
      BY <1>1, <1>2, SubmitFrame DEF SubmitNext
    <2> QED
      BY <1>1, <2>1 DEF BaseInv, UnackedHasHandler
  <1>3. CASE PublisherLost \/ ApiCrash \/ BrokerNext
    BY <1>1, <1>3, ApiBrokerFrame DEF BaseInv, UnackedHasHandler
  <1>4. CASE HandlerNext
    <2> PICK w \in Workers, j \in Jobs : Deliver(w, j) \/ HandlerStep(w, j)
      BY <1>4 DEF HandlerNext
    <2>1. live' = live
      BY <1>1, HandlerFrame
    <2> QED
      BY <1>1, <2>1, BaseHandler DEF BaseInv
  <1>5. CASE WorkerNext
    BY <1>1, <1>5, BaseWorker DEF WorkerNext, BaseInv
  <1>6. CASE UNCHANGED vars
    BY <1>1, <1>6 DEF vars, broker, procs, BaseInv, UnackedHasHandler
  <1> QED
    BY <1>2, <1>3, <1>4, <1>5, <1>6 DEF Next

-----------------------------------------------------------------------------
(* What the tries of a job are spent on. A handler that has loaded the row  *)
(* holds a RetryCount that failures of its job's runs account for; at       *)
(* "fail" they account for the one it will add as well.                     *)

Charged(w, j) ==
    /\ handler[w][j].stage \in {"mark", "llm", "store"}
           => handler[w][j].retry <= llmErrors[j]
    /\ handler[w][j].stage = "fail" => handler[w][j].retry + 1 <= llmErrors[j]

ChargesInv ==
    /\ TaskInv
    /\ faults["stop"] = 0 =>
           /\ stopping = {}
           /\ \A j \in Jobs : row[j].retry <= llmErrors[j]
           /\ \A w \in Workers, j \in Jobs : Charged(w, j)

\* The counters a comparison is about are numbers.
LEMMA CountersType ==
    ASSUME TypeOK, NEW j \in Jobs
    PROVE  /\ row[j].retry \in Nat /\ row[j].answer \in Nat /\ row[j].status \in Status
           /\ answers[j] \in Nat /\ attempts[j] \in Nat /\ llmErrors[j] \in Nat
           /\ task[j] \in TaskState /\ submit[j] \in SubmitState
           /\ \A w \in Workers : /\ handler[w][j].retry \in Nat
                                 /\ handler[w][j].answer \in Nat
                                 /\ handler[w][j].stage \in Stage
           /\ \A k \in FaultKinds : faults[k] \in Nat
  BY DEF TypeOK, Row, Handler

LEMMA ChargesInit == Init => ChargesInv
  <1> SUFFICES ASSUME Init PROVE ChargesInv
    OBVIOUS
  <1>1. \A j \in Jobs : row[j].retry = 0 /\ llmErrors[j] = 0
    BY DEF Init, NoRow
  <1>2. \A w \in Workers, j \in Jobs : handler[w][j].stage = "idle"
    BY DEF Init, NoWork
  <1>3. stopping = {}
    BY DEF Init
  <1> QED
    BY <1>1, <1>2, <1>3, TaskInit DEF ChargesInv, Charged

\* Where neither a row nor a handler changes, nothing is charged.
LEMMA ChargesKept ==
    ASSUME ChargesInv, TaskInv', faults'["stop"] = 0 => faults["stop"] = 0,
           stopping' \subseteq stopping, llmErrors' = llmErrors,
           \A j \in Jobs : row'[j].retry \in {row[j].retry, 0},
           \A w \in Workers, j \in Jobs :
               \/ handler'[w][j] = handler[w][j]
               \/ handler'[w][j].stage = "idle"
    PROVE  ChargesInv'
  <1> SUFFICES ASSUME faults["stop"] = 0
               PROVE  /\ stopping' = {}
                      /\ \A j \in Jobs : row'[j].retry <= llmErrors'[j]
                      /\ \A w \in Workers, j \in Jobs : (Charged(w, j))'
    BY DEF ChargesInv
  <1>1. \A j \in Jobs : llmErrors[j] \in Nat
    BY CountersType DEF ChargesInv, TaskInv
  <1>2. \A w \in Workers, j \in Jobs : (Charged(w, j))'
    BY DEF ChargesInv, Charged
  <1> QED
    BY <1>1, <1>2 DEF ChargesInv

LEMMA ChargesHandler ==
    ASSUME ChargesInv, TaskInv', NEW w \in Workers, NEW j \in Jobs,
           Deliver(w, j) \/ HandlerStep(w, j)
    PROVE  ChargesInv'
  <1>1. TypeOK /\ TypeOK'
    BY DEF ChargesInv, TaskInv
  <1>2. /\ stopping' = stopping
        /\ \A v \in Workers, k \in Jobs :
               v # w \/ k # j => handler'[v][k] = handler[v][k]
        /\ \A k \in Jobs \ {j} : row'[k] = row[k] /\ llmErrors'[k] = llmErrors[k]
    BY <1>1, HandlerFrame
  <1>3. faults'["stop"] = 0 => faults["stop"] = 0
    BY <1>1, HandlerFrame, FaultEffect DEF FaultKinds
  <1> SUFFICES ASSUME faults["stop"] = 0
               PROVE  /\ \A k \in Jobs : row'[k].retry <= llmErrors'[k]
                      /\ \A v \in Workers, k \in Jobs : (Charged(v, k))'
    BY <1>2, <1>3 DEF ChargesInv
  <1>4. \A k \in Jobs : row[k].retry <= llmErrors[k]
    BY DEF ChargesInv
  <1>5. \A v \in Workers, k \in Jobs : Charged(v, k)
    BY DEF ChargesInv
  <1>6. w \notin stopping
    BY DEF ChargesInv
  <1>7. /\ llmErrors[j] \in Nat /\ row[j].retry \in Nat
        /\ \A v \in Workers : handler[v][j].retry \in Nat
    BY <1>1, CountersType
  <1>8. /\ llmErrors'[j] \in {llmErrors[j], llmErrors[j] + 1}
        /\ row'[j].retry <= llmErrors'[j]
        /\ (Charged(w, j))'
    <2>1. CASE Deliver(w, j)
      BY <1>1, <1>4, <2>1, DeliverEffect DEF Charged
    <2>2. CASE Load(w, j)
      BY <1>1, <1>4, <2>2, LoadEffect DEF Charged
    <2>3. CASE Start(w, j)
      BY <1>1, <1>4, <1>5, <2>3, StartEffect DEF Charged
    <2>4. CASE Generate(w, j)
      <3>1. /\ handler[w][j].stage = "llm" /\ row' = row
            /\ handler'[w][j].retry = handler[w][j].retry
            /\ \/ handler'[w][j].stage = "store" /\ llmErrors' = llmErrors
               \/ /\ handler'[w][j].stage = "fail"
                  /\ llmErrors' = [llmErrors EXCEPT ![j] = llmErrors[j] + 1]
        BY <1>1, <1>6, <2>4, GenerateEffect
      <3>2. handler[w][j].retry <= llmErrors[j]
        BY <1>5, <3>1 DEF Charged
      <3>3. llmErrors' = [llmErrors EXCEPT ![j] = llmErrors[j] + 1]
               => llmErrors'[j] = llmErrors[j] + 1
        BY <1>1 DEF TypeOK
      <3> QED
        BY <1>4, <1>7, <3>1, <3>2, <3>3 DEF Charged
    <2>5. CASE Store(w, j)
      <3>1. /\ handler[w][j].stage = "store" /\ row' = row
            /\ handler'[w][j].retry = handler[w][j].retry
            /\ \/ handler'[w][j].stage = "succeed" /\ llmErrors' = llmErrors
               \/ /\ handler'[w][j].stage = "fail"
                  /\ llmErrors' = [llmErrors EXCEPT ![j] = llmErrors[j] + 1]
        BY <1>1, <2>5, StoreEffect
      <3>2. handler[w][j].retry <= llmErrors[j]
        BY <1>5, <3>1 DEF Charged
      <3>3. llmErrors' = [llmErrors EXCEPT ![j] = llmErrors[j] + 1]
               => llmErrors'[j] = llmErrors[j] + 1
        BY <1>1 DEF TypeOK
      <3> QED
        BY <1>4, <1>7, <3>1, <3>2, <3>3 DEF Charged
    <2>6. CASE Fail(w, j)
      <3>1. handler[w][j].retry + 1 <= llmErrors[j]
        BY <1>1, <1>5, <2>6, FailEffect DEF Charged
      <3> QED
        BY <1>1, <1>4, <2>6, <3>1, FailEffect DEF Charged
    <2>7. CASE Succeed(w, j)
      BY <1>1, <1>4, <2>7, SucceedEffect DEF Charged
    <2>8. CASE Ack(w, j) \/ Nack(w, j)
      BY <1>1, <1>4, <2>8, SettleEffect DEF Ack, Nack, TaskState, Charged
    <2> QED
      BY <2>1, <2>2, <2>3, <2>4, <2>5, <2>6, <2>7, <2>8 DEF HandlerStep
  <1>9. ASSUME NEW v \in Workers, NEW k \in Jobs, v # w \/ k # j
        PROVE  (Charged(v, k))'
    <2>1. handler'[v][k] = handler[v][k] /\ Charged(v, k)
      BY <1>2, <1>5, <1>9
    <2>2. llmErrors[k] \in Nat /\ handler[v][k].retry \in Nat
      BY <1>1, CountersType
    <2>3. llmErrors'[k] \in {llmErrors[k], llmErrors[k] + 1}
      BY <1>2, <1>8
    <2> QED
      BY <2>1, <2>2, <2>3 DEF Charged
  <1> QED
    BY <1>2, <1>4, <1>8, <1>9

LEMMA ChargesStep == ChargesInv /\ [Next]_vars => ChargesInv'
  <1> SUFFICES ASSUME ChargesInv, [Next]_vars PROVE ChargesInv'
    OBVIOUS
  <1>1. TaskInv /\ TaskInv' /\ TypeOK
    BY TaskStep DEF ChargesInv, TaskInv
  <1>2. CASE SubmitNext
    <2> PICK j \in Jobs : SubmitRefuse(j) \/ SubmitCreate(j) \/ SubmitStep(j)
      BY <1>2 DEF SubmitNext
    <2>1. /\ UNCHANGED <<handler, stopping, llmErrors>>
          /\ faults'["stop"] = faults["stop"]
      BY <1>1, SubmitFrame, FaultEffect DEF FaultKinds
    <2>2. row'[j].retry \in {row[j].retry, 0}
      <3>1. [NoRow EXCEPT !.status = "pending"].retry = 0
        BY DEF NoRow
      <3>2. SubmitCreate(j) => row'[j] = [NoRow EXCEPT !.status = "pending"]
        BY <1>1 DEF SubmitCreate, TypeOK
      <3>3. SubmitFails(j) => row'[j].retry = 0 \/ row' = row
        BY <1>1, MarkEffect DEF SubmitFails
      <3> QED
        BY <3>1, <3>2, <3>3 DEF SubmitStep, SubmitRefuse, Publish, PublishError,
           AwaitConfirm, AwaitFails
    <2> QED
      BY <1>1, <2>1, <2>2, SubmitFrame, ChargesKept
  <1>3. CASE PublisherLost \/ ApiCrash \/ BrokerNext
    <2>1. faults'["stop"] = faults["stop"]
      BY <1>1, <1>3, ApiBrokerFrame, FaultEffect DEF FaultKinds
    <2> QED
      BY <1>1, <1>3, <2>1, ApiBrokerFrame, ChargesKept
  <1>4. CASE HandlerNext
    BY <1>1, <1>4, ChargesHandler DEF HandlerNext
  <1>5. CASE WorkerNext
    <2> PICK w \in Workers : \/ WorkerStart(w) \/ WorkerStop(w) \/ Disconnect(w)
                             \/ WorkerExit(w) \/ WorkerCrash(w)
      BY <1>5 DEF WorkerNext
    <2>1. CASE WorkerStop(w)
      <3>1. faults'["stop"] = faults["stop"] + 1 /\ faults["stop"] \in Nat
        BY <1>1, <2>1, WorkerEffect, FaultEffect, CountersType DEF FaultKinds, TypeOK
      <3> QED
        BY <1>1, <3>1 DEF ChargesInv
    <2>2. CASE ~WorkerStop(w)
      <3>1. faults'["stop"] = faults["stop"] /\ stopping' \subseteq stopping
        BY <1>1, <2>2, WorkerEffect, FaultEffect
           DEF FaultKinds, WorkerStart, Disconnect, WorkerExit, WorkerCrash, Leave
      <3>2. \A v \in Workers, j \in Jobs :
                handler'[v][j] = handler[v][j] \/ handler'[v][j].stage = "idle"
        BY <1>1, <2>2, WorkerEffect, WorkerFrame
      <3> QED
        BY <1>1, <3>1, <3>2, WorkerFrame, ChargesKept
    <2> QED
      BY <2>1, <2>2
  <1>6. CASE UNCHANGED vars
    BY <1>1, <1>6, ChargesKept DEF vars, procs, history
  <1> QED
    BY <1>2, <1>3, <1>4, <1>5, <1>6 DEF Next

\* RetryCount never runs ahead of the LLM runs of the job that truly failed,
\* unless a worker was told to stop: no crash, lost connection or redelivery
\* costs a try.
THEOREM TriesAreSpentOnFailures == Spec => []ChargesHaveCause
  <1>1. ChargesInv => ChargesHaveCause
    BY DEF ChargesInv, ChargesHaveCause
  <1> QED
    BY <1>1, ChargesInit, ChargesStep, PTL DEF Spec

-----------------------------------------------------------------------------
(* How many answers a job can get. Each is owed to a delivery: to the task  *)
(* that waits in the queue (or will, the first time), or to a handler that  *)
(* may still store one, or whose task goes back to the queue when it ends.  *)

LEMMA OneElementChanges ==
    ASSUME NEW S, NEW T, NEW w, IsFiniteSet(S),
           \A v : v # w => (v \in T <=> v \in S)
    PROVE  /\ IsFiniteSet(T) /\ Cardinality(S) \in Nat /\ Cardinality(T) \in Nat
           /\ Cardinality(T) + (IF w \in S THEN 1 ELSE 0)
                = Cardinality(S) + (IF w \in T THEN 1 ELSE 0)
  <1>1. Cardinality(S) \in Nat
    BY FS_CardinalityType
  <1>2. CASE w \in S /\ w \notin T
    <2>1. T = S \ {w}
      BY <1>2
    <2>2. IsFiniteSet(T) /\ Cardinality(T) = Cardinality(S) - 1
      BY <1>2, <2>1, FS_RemoveElement
    <2>3. Cardinality(T) \in Nat
      BY <2>2, FS_CardinalityType
    <2> QED
      BY <1>1, <1>2, <2>2, <2>3
  <1>3. CASE w \notin S /\ w \in T
    <2>1. T = S \cup {w}
      BY <1>3
    <2> QED
      BY <1>1, <1>3, <2>1, FS_AddElement, FS_CardinalityType
  <1>4. CASE w \in S <=> w \in T
    <2>1. T = S
      BY <1>4
    <2> QED
      BY <1>1, <1>4, <2>1
  <1> QED
    BY <1>2, <1>3, <1>4

MayAnswer(w, j) ==
    \/ handler[w][j].stage \in {"load", "mark", "llm", "store"}
    \/ handler[w][j].stage \in {"fail", "nack"} /\ w \in connected

Due(j) == {w \in Workers : MayAnswer(w, j)}

\* The delivery that is still to come.
ToCome(j) == IF task[j] \in {"none", "ready"} THEN 1 ELSE 0

AnswersOwed ==
    \A j \in Jobs : answers[j] + Cardinality(Due(j)) + ToCome(j) <= 1 + Redeliveries

OwedInv == BaseInv /\ AnswersOwed

LEMMA DueFinite ==
    ASSUME BaseInv, NEW j \in Jobs
    PROVE  IsFiniteSet(Due(j)) /\ Cardinality(Due(j)) \in Nat
  <1>1. Due(j) \subseteq live
    BY DEF BaseInv, TaskInv, HandlersLive, Due, MayAnswer
  <1> QED
    BY <1>1, FS_Subset, FS_CardinalityType DEF BaseInv

\* One worker's part in a job changed.
LEMMA DueChanges ==
    ASSUME BaseInv, NEW j \in Jobs, NEW w \in Workers,
           \A v \in Workers \ {w} : (MayAnswer(v, j))' <=> MayAnswer(v, j)
    PROVE  /\ Cardinality(Due(j)) \in Nat /\ Cardinality(Due(j))' \in Nat
           /\ Cardinality(Due(j))' + (IF MayAnswer(w, j) THEN 1 ELSE 0)
                = Cardinality(Due(j)) + (IF (MayAnswer(w, j))' THEN 1 ELSE 0)
  <1>1. \A v : v # w => (v \in Due(j)' <=> v \in Due(j))
    BY DEF Due
  <1>2. w \in Due(j) <=> MayAnswer(w, j)
    BY DEF Due
  <1>3. w \in Due(j)' <=> (MayAnswer(w, j))'
    BY DEF Due
  <1> HIDE DEF Due, MayAnswer
  <1> QED
    BY <1>1, <1>2, <1>3, DueFinite, OneElementChanges

LEMMA DueKept ==
    ASSUME NEW j \in Jobs, \A w \in Workers : (MayAnswer(w, j))' <=> MayAnswer(w, j)
    PROVE  Cardinality(Due(j))' = Cardinality(Due(j))
  <1>1. Due(j)' = Due(j)
    BY DEF Due
  <1> QED
    BY <1>1

\* A redelivery fault adds to what a job may cost, other steps take nothing.
LEMMA RedeliveriesGrow ==
    ASSUME TypeOK
    PROVE  /\ Redeliveries \in Nat
           /\ faults' = faults => Redeliveries' = Redeliveries
           /\ \A k \in {"crash", "disconnect", "db"} :
                  Fault(k) => Redeliveries' = Redeliveries + 1
           /\ \A k \in FaultKinds \ {"crash", "disconnect", "db"} :
                  Fault(k) => Redeliveries' = Redeliveries
  <1>1. \A k \in FaultKinds : faults[k] \in Nat
    BY DEF TypeOK
  <1>2. \A k \in FaultKinds : Fault(k) => 
            /\ faults'[k] = faults[k] + 1
            /\ \A m \in FaultKinds \ {k} : faults'[m] = faults[m]
    BY FaultEffect
  <1> QED
    BY <1>1, <1>2 DEF Redeliveries, FaultKinds

LEMMA OwedHandler ==
    ASSUME OwedInv, NEW w \in Workers, NEW j \in Jobs,
           Deliver(w, j) \/ HandlerStep(w, j)
    PROVE  AnswersOwed'
  <1>1. TypeOK /\ TypeOK'
    BY HandlerType DEF OwedInv, BaseInv, TaskInv
  <1>2. /\ connected' = connected
        /\ \A v \in Workers, k \in Jobs :
               v # w \/ k # j => handler'[v][k] = handler[v][k]
        /\ \A k \in Jobs \ {j} : UNCHANGED <<task[k], answers[k]>>
        /\ faults' = faults \/ Fault("db")
    BY <1>1, HandlerFrame
  <1>3. /\ Redeliveries \in Nat /\ Redeliveries' \in Nat
        /\ faults' = faults => Redeliveries' = Redeliveries
        /\ Fault("db") => Redeliveries' = Redeliveries + 1
        /\ Redeliveries' >= Redeliveries
    BY <1>1, <1>2, RedeliveriesGrow
  <1>4. ASSUME NEW k \in Jobs \ {j}
        PROVE  answers'[k] + Cardinality(Due(k))' + ToCome(k)' <= 1 + Redeliveries'
    <2>1. Cardinality(Due(k))' = Cardinality(Due(k))
      BY <1>2, DueKept DEF MayAnswer
    <2>2. ToCome(k)' = ToCome(k) /\ answers'[k] = answers[k]
      BY <1>2 DEF ToCome
    <2>3. answers[k] \in Nat /\ Cardinality(Due(k)) \in Nat /\ ToCome(k) \in Nat
      BY <1>1, DueFinite, CountersType DEF OwedInv, ToCome
    <2>4. answers[k] + Cardinality(Due(k)) + ToCome(k) <= 1 + Redeliveries
      BY DEF OwedInv, AnswersOwed
    <2> QED
      BY <1>3, <2>1, <2>2, <2>3, <2>4
  <1>5. answers'[j] + Cardinality(Due(j))' + ToCome(j)' <= 1 + Redeliveries'
    <2>1. /\ Cardinality(Due(j)) \in Nat /\ Cardinality(Due(j))' \in Nat
          /\ Cardinality(Due(j))' + (IF MayAnswer(w, j) THEN 1 ELSE 0)
               = Cardinality(Due(j)) + (IF (MayAnswer(w, j))' THEN 1 ELSE 0)
      BY <1>2, DueChanges DEF OwedInv, MayAnswer
    <2>2. answers[j] + Cardinality(Due(j)) + ToCome(j) <= 1 + Redeliveries
      BY DEF OwedInv, AnswersOwed
    <2>3. answers[j] \in Nat
      BY <1>1, CountersType
    <2>4. w \in connected /\ handler[w][j].stage # "idle"
              => task[j] = "unacked" /\ holder[j] = w
      BY DEF OwedInv, BaseInv, TaskInv, HandlerHoldsTask
    <2>5. task[j] = "unacked" => holder[j] \in connected
      BY DEF OwedInv, BaseInv, UnackedHasHandler
    <2>6. CASE Deliver(w, j)
      BY <1>1, <1>2, <1>3, <2>1, <2>2, <2>3, <2>4, <2>6, DeliverEffect
         DEF MayAnswer, ToCome
    <2>7. CASE Load(w, j)
      BY <1>1, <1>2, <1>3, <2>1, <2>2, <2>3, <2>7, LoadEffect DEF MayAnswer, ToCome
    <2>8. CASE Start(w, j)
      BY <1>1, <1>2, <1>3, <2>1, <2>2, <2>3, <2>8, StartEffect DEF MayAnswer, ToCome
    <2>9. CASE Generate(w, j)
      BY <1>1, <1>2, <1>3, <2>1, <2>2, <2>3, <2>9, GenerateEffect
         DEF MayAnswer, ToCome
    <2>10. CASE Store(w, j)
      <3>1. \/ answers' = answers
            \/ handler'[w][j].stage = "succeed" /\ answers'[j] = answers[j] + 1
        <4>1. answers' = [answers EXCEPT ![j] = answers[j] + 1]
                 => answers'[j] = answers[j] + 1
          BY <1>1 DEF TypeOK
        <4> QED
          BY <1>1, <2>10, <4>1, StoreEffect
      <3> QED
        BY <1>1, <1>2, <1>3, <2>1, <2>2, <2>3, <2>10, <3>1, StoreEffect
           DEF MayAnswer, ToCome
    <2>11. CASE Fail(w, j)
      BY <1>1, <1>2, <1>3, <2>1, <2>2, <2>3, <2>11, FailEffect DEF MayAnswer, ToCome
    <2>12. CASE Succeed(w, j)
      BY <1>1, <1>2, <1>3, <2>1, <2>2, <2>3, <2>12, SucceedEffect
         DEF MayAnswer, ToCome
    <2>13. CASE Ack(w, j)
      BY <1>1, <1>2, <1>3, <2>1, <2>2, <2>3, <2>13, SettleEffect
         DEF Ack, TaskState, MayAnswer, ToCome
    <2>14. CASE Nack(w, j)
      BY <1>1, <1>2, <1>3, <2>1, <2>2, <2>3, <2>4, <2>5, <2>14, SettleEffect
         DEF Nack, TaskState, MayAnswer, ToCome
    <2> QED
      BY <2>6, <2>7, <2>8, <2>9, <2>10, <2>11, <2>12, <2>13, <2>14 DEF HandlerStep
  <1> QED
    BY <1>4, <1>5 DEF AnswersOwed

LEMMA OwedWorker ==
    ASSUME OwedInv, NEW w \in Workers,
           \/ WorkerStart(w) \/ WorkerStop(w) \/ Disconnect(w)
           \/ WorkerExit(w) \/ WorkerCrash(w)
    PROVE  AnswersOwed'
  <1>1. TypeOK
    BY DEF OwedInv, BaseInv, TaskInv
  <1> SUFFICES ASSUME NEW j \in Jobs
               PROVE  answers'[j] + Cardinality(Due(j))' + ToCome(j)'
                        <= 1 + Redeliveries'
    BY DEF AnswersOwed
  <1>2. answers' = answers /\ answers[j] \in Nat
    BY <1>1, WorkerFrame, CountersType
  <1>3. /\ Cardinality(Due(j)) \in Nat /\ Cardinality(Due(j))' \in Nat
        /\ Cardinality(Due(j))' + (IF MayAnswer(w, j) THEN 1 ELSE 0)
             = Cardinality(Due(j)) + (IF (MayAnswer(w, j))' THEN 1 ELSE 0)
    <2>1. \A v \in Workers \ {w} : (MayAnswer(v, j))' <=> MayAnswer(v, j)
      BY <1>1, WorkerFrame DEF MayAnswer
    <2> QED
      BY <2>1, DueChanges DEF OwedInv
  <1>4. answers[j] + Cardinality(Due(j)) + ToCome(j) <= 1 + Redeliveries
    BY DEF OwedInv, AnswersOwed
  <1>5. \/ ToCome(j)' = ToCome(j)
        \/ /\ task[j] = "unacked" /\ holder[j] = w /\ Requeue(w)
           /\ ToCome(j) = 0 /\ ToCome(j)' = 1
    <2>1. Requeue(w) \/ UNCHANGED task
      BY DEF WorkerStart, WorkerStop, Disconnect, WorkerExit, WorkerCrash, Leave, broker
    <2> QED
      BY <1>1, <2>1, RequeueEffect DEF ToCome
  <1>6. ToCome(j) \in {0, 1}
    BY DEF ToCome
  <1>7. /\ Redeliveries \in Nat
        /\ faults' = faults => Redeliveries' = Redeliveries
        /\ Fault("crash") \/ Fault("disconnect") => Redeliveries' = Redeliveries + 1
        /\ Fault("stop") => Redeliveries' = Redeliveries
    BY <1>1, RedeliveriesGrow DEF FaultKinds
  <1>8. CASE WorkerStart(w)
    <2>1. \A k \in Jobs : handler[w][k].stage = "idle" /\ handler' = handler
      BY <1>1, <1>8, WorkerEffect DEF OwedInv, BaseInv, TaskInv, HandlersLive
    <2>2. ~MayAnswer(w, j) /\ ~(MayAnswer(w, j))'
      BY <2>1 DEF MayAnswer
    <2> QED
      BY <1>1, <1>2, <1>3, <1>4, <1>5, <1>6, <1>7, <1>8, <2>2, WorkerEffect DEF ToCome
  <1>9. CASE WorkerStop(w)
    <2>1. (MayAnswer(w, j))' <=> MayAnswer(w, j)
      BY <1>1, <1>9, WorkerEffect DEF MayAnswer
    <2> QED
      BY <1>1, <1>2, <1>3, <1>4, <1>5, <1>6, <1>7, <1>9, <2>1, WorkerEffect DEF ToCome
  <1>10. CASE Disconnect(w)
    <2>1. (MayAnswer(w, j))' => MayAnswer(w, j)
      BY <1>1, <1>10, WorkerEffect DEF MayAnswer
    <2> QED
      BY <1>1, <1>2, <1>3, <1>4, <1>5, <1>6, <1>7, <1>10, <2>1, WorkerEffect
  <1>11. CASE WorkerExit(w)
    <2>1. handler[w][j].stage = "idle" /\ handler' = handler /\ faults' = faults
      BY <1>1, <1>11, WorkerEffect
    <2>2. ~MayAnswer(w, j) /\ ~(MayAnswer(w, j))'
      BY <2>1 DEF MayAnswer
    <2>3. ToCome(j)' = ToCome(j)
      BY <1>5, <2>1 DEF OwedInv, BaseInv, UnackedHasHandler
    <2> QED
      BY <1>2, <1>3, <1>4, <1>6, <1>7, <2>1, <2>2, <2>3
  <1>12. CASE WorkerCrash(w)
    <2>1. ~(MayAnswer(w, j))'
      BY <1>1, <1>12, WorkerEffect DEF MayAnswer
    <2> QED
      BY <1>1, <1>2, <1>3, <1>4, <1>5, <1>6, <1>7, <1>12, <2>1, WorkerEffect
  <1> QED
    BY <1>8, <1>9, <1>10, <1>11, <1>12

\* Steps in which no worker takes part.
LEMMA OwedElsewhere ==
    ASSUME OwedInv, UNCHANGED <<handler, connected, answers>>,
           \A j \in Jobs : \/ task'[j] = task[j]
                           \/ task[j] = "none" /\ task'[j] = "ready",
           faults' = faults \/ \E k \in FaultKinds : Fault(k)
    PROVE  AnswersOwed'
  <1>1. TypeOK
    BY DEF OwedInv, BaseInv, TaskInv
  <1> SUFFICES ASSUME NEW j \in Jobs
               PROVE  answers'[j] + Cardinality(Due(j))' + ToCome(j)'
                        <= 1 + Redeliveries'
    BY DEF AnswersOwed
  <1>2. ToCome(j)' = ToCome(j) /\ ToCome(j) \in Nat
    BY DEF ToCome
  <1>3. Cardinality(Due(j))' = Cardinality(Due(j))
    BY DueKept DEF MayAnswer
  <1>4. Redeliveries \in Nat /\ Redeliveries' \in {Redeliveries, Redeliveries + 1}
    BY <1>1, RedeliveriesGrow
  <1>5. answers[j] \in Nat /\ Cardinality(Due(j)) \in Nat
    BY <1>1, DueFinite, CountersType DEF OwedInv
  <1>6. answers[j] + Cardinality(Due(j)) + ToCome(j) <= 1 + Redeliveries
    BY DEF OwedInv, AnswersOwed
  <1> QED
    BY <1>2, <1>3, <1>4, <1>5, <1>6

LEMMA OwedStep == OwedInv /\ [Next]_vars => OwedInv'
  <1> SUFFICES ASSUME OwedInv, [Next]_vars PROVE OwedInv'
    OBVIOUS
  <1>1. BaseInv' /\ TaskInv /\ TypeOK
    BY BaseStep DEF OwedInv, BaseInv, TaskInv
  <1> SUFFICES AnswersOwed'
    BY <1>1 DEF OwedInv
  <1>2. CASE SubmitNext
    <2>1. /\ UNCHANGED <<handler, connected, answers, task>>
          /\ faults' = faults \/ \E k \in FaultKinds : Fault(k)
      BY <1>1, <1>2, SubmitFrame DEF SubmitNext, FaultKinds
    <2> QED
      BY <2>1, OwedElsewhere
  <1>3. CASE PublisherLost \/ ApiCrash \/ BrokerNext
    <2>1. faults' = faults \/ \E k \in FaultKinds : Fault(k)
      BY <1>1, <1>3, ApiBrokerFrame DEF FaultKinds
    <2> QED
      BY <1>1, <1>3, <2>1, ApiBrokerFrame, OwedElsewhere
  <1>4. CASE HandlerNext
    BY <1>4, OwedHandler DEF HandlerNext
  <1>5. CASE WorkerNext
    BY <1>5, OwedWorker DEF WorkerNext
  <1>6. CASE UNCHANGED vars
    BY <1>6, OwedElsewhere DEF vars, procs, broker, history
  <1> QED
    BY <1>2, <1>3, <1>4, <1>5, <1>6 DEF Next

\* A session gets at most one assistant message per job beyond those that
\* crashes, lost connections and failed statements caused to be repeated.
THEOREM AnswersAreBounded == Spec => []AnswersBounded
  <1>1. Init => OwedInv
    <2> SUFFICES ASSUME Init PROVE AnswersOwed
      BY BaseInit DEF OwedInv
    <2> SUFFICES ASSUME NEW j \in Jobs
                 PROVE  answers[j] + Cardinality(Due(j)) + ToCome(j)
                          <= 1 + Redeliveries
      BY DEF AnswersOwed
    <2>1. Due(j) = {}
      BY DEF Init, NoWork, Due, MayAnswer
    <2>2. Redeliveries = 0 /\ answers[j] = 0 /\ ToCome(j) = 1
      BY DEF Init, Redeliveries, ToCome, FaultKinds
    <2> QED
      BY <2>1, <2>2, FS_EmptySet
  <1>2. OwedInv => AnswersBounded
    <2> SUFFICES ASSUME OwedInv, NEW j \in Jobs PROVE answers[j] <= 1 + Redeliveries
      BY DEF AnswersBounded
    <2>1. TypeOK
      BY DEF OwedInv, BaseInv, TaskInv
    <2>2. answers[j] \in Nat /\ Cardinality(Due(j)) \in Nat /\ ToCome(j) \in Nat
      BY <2>1, CountersType, DueFinite DEF OwedInv, ToCome
    <2> QED
      BY <2>1, <2>2, RedeliveriesGrow DEF OwedInv, AnswersOwed
  <1> QED
    BY <1>1, <1>2, OwedStep, PTL DEF Spec

-----------------------------------------------------------------------------
(* As long as no confirmation came late, the channel carries nothing but    *)
(* the publish in progress, and Submit learns what became of its own task.  *)

\* Where the publish of job j can have come to.
Outstanding(j) ==
    \/ publisher = "open" /\ wire = <<j>> /\ confirms = <<>> /\ task[j] = "none"
    \/ wire = <<>> /\ confirms = <<TRUE>> /\ task[j] # "none"
    \/ wire = <<>> /\ confirms = <<FALSE>> /\ task[j] = "none"
    \/ wire = <<>> /\ confirms = <<>> /\ publisher = "closed"

InStep ==
    /\ \A j, k \in Jobs : submit[j] = "awaiting" /\ submit[k] = "awaiting" => j = k
    /\ \A j \in Jobs : submit[j] = "awaiting" => Outstanding(j)
    /\ ~PublisherLocked => wire = <<>> /\ confirms = <<>>
    /\ \A j \in Jobs : submit[j] = "accepted" => task[j] # "none"

\* A publish that is given up has then stored nothing, unless the channel
\* closed before the broker's answer was read.
KnowsRefusal ==
    /\ publisher = "open"
    /\ \A j \in Jobs : submit[j] = "unpublished" => task[j] = "none"

SyncInv ==
    /\ TaskInv
    /\ faults["timeout"] = 0 => InStep
    /\ faults["timeout"] = 0 /\ faults["publisher"] = 0 => KnowsRefusal

LEMMA SyncInit == Init => SyncInv
  <1> SUFFICES ASSUME Init PROVE SyncInv
    OBVIOUS
  <1>1. \A j \in Jobs : submit[j] = "idle" /\ wire = <<>> /\ confirms = <<>>
                        /\ publisher = "open"
    BY DEF Init
  <1>2. wire = <<>> /\ confirms = <<>> /\ publisher = "open"
    BY DEF Init
  <1> QED
    BY <1>1, <1>2, TaskInit DEF SyncInv, InStep, KnowsRefusal

LEMMA OneConfirm ==
    ASSUME NEW b
    PROVE  Head(<<b>>) = b /\ Tail(<<b>>) = <<>> /\ Append(<<>>, b) = <<b>>
  OBVIOUS

\* A step meets one fault or none.
LEMMA FaultsCounted ==
    ASSUME TypeOK, [Next]_vars
    PROVE  faults' = faults \/ \E k \in FaultKinds : Fault(k)
  <1>1. CASE SubmitNext
    BY <1>1, SubmitFrame DEF SubmitNext, FaultKinds
  <1>2. CASE PublisherLost \/ ApiCrash \/ BrokerNext
    BY <1>2 DEF PublisherLost, ApiCrash, BrokerNext, BrokerAccept, BrokerRefuse,
                FaultKinds
  <1>3. CASE HandlerNext
    BY <1>3, HandlerFrame DEF HandlerNext, FaultKinds
  <1>4. CASE WorkerNext
    BY <1>4, WorkerEffect DEF WorkerNext, FaultKinds
  <1>5. CASE UNCHANGED vars
    BY <1>5 DEF vars
  <1> QED
    BY <1>1, <1>2, <1>3, <1>4, <1>5 DEF Next

\* A fault counter that is zero after a step was zero before.
LEMMA FaultsGrow ==
    ASSUME TypeOK, [Next]_vars, NEW k \in FaultKinds
    PROVE  /\ faults[k] \in Nat /\ faults'[k] \in Nat
           /\ faults'[k] \in {faults[k], faults[k] + 1}
           /\ faults'[k] = 0 => faults[k] = 0
  <1>1. faults' = faults \/ \E m \in FaultKinds : Fault(m)
    BY FaultsCounted
  <1>2. faults[k] \in Nat
    BY DEF TypeOK
  <1> QED
    BY <1>1, <1>2, FaultEffect

LEMMA SyncSubmit ==
    ASSUME SyncInv, NEW j \in Jobs,
           SubmitRefuse(j) \/ SubmitCreate(j) \/ SubmitStep(j),
           faults["timeout"] = 0, faults'["timeout"] = 0
    PROVE  /\ InStep'
           /\ faults["publisher"] = 0 => KnowsRefusal'
  <1>1. TypeOK /\ SentOnce /\ InStep
    BY DEF SyncInv, TaskInv
  <1>2. /\ UNCHANGED <<task, publisher>>
        /\ \A k \in Jobs \ {j} : submit'[k] = submit[k]
    BY <1>1, SubmitFrame
  <1>3. CASE Publish(j)
    <2>1. /\ submit[j] = "created" /\ submit'[j] = "awaiting"
          /\ wire' = Append(wire, j) /\ confirms' = confirms /\ ~PublisherLocked
      BY <1>1, <1>3 DEF Publish, Progress, TypeOK
    <2>2. task[j] = "none" /\ wire' = <<j>> /\ confirms' = <<>>
      BY <1>1, <2>1 DEF SentOnce, InStep
    <2>3. (Outstanding(j))'
      BY <1>2, <1>3, <2>2 DEF Publish, Outstanding
    <2>4. \A k \in Jobs : submit'[k] = "awaiting" => k = j
      BY <1>2, <2>1 DEF PublisherLocked
    <2>5. PublisherLocked'
      BY <2>1 DEF PublisherLocked
    <2> QED
      BY <1>1, <1>2, <2>1, <2>3, <2>4, <2>5 DEF InStep, SyncInv, KnowsRefusal
  <1>4. CASE AwaitConfirm(j)
    <2>1. /\ submit[j] = "awaiting" /\ confirms # <<>> /\ confirms' = Tail(confirms)
          /\ submit'[j] = IF Head(confirms) THEN "accepted" ELSE "unpublished"
          /\ wire' = wire
      BY <1>1, <1>4 DEF AwaitConfirm, Progress, TypeOK
    <2>2. Outstanding(j)
      BY <1>1, <2>1 DEF InStep
    <2>3. CASE confirms = <<TRUE>> /\ wire = <<>> /\ task[j] # "none"
      <3>1. submit'[j] = "accepted" /\ confirms' = <<>>
        BY <2>1, <2>3, OneConfirm
      <3>2. \A k \in Jobs : submit'[k] # "awaiting"
        BY <1>1, <1>2, <2>1, <3>1 DEF InStep
      <3> QED
        BY <1>1, <1>2, <2>1, <2>3, <3>1, <3>2 DEF InStep, SyncInv, KnowsRefusal
    <2>4. CASE confirms = <<FALSE>> /\ wire = <<>> /\ task[j] = "none"
      <3>1. submit'[j] = "unpublished" /\ confirms' = <<>>
        BY <2>1, <2>4, OneConfirm
      <3>2. \A k \in Jobs : submit'[k] # "awaiting"
        BY <1>1, <1>2, <2>1, <3>1 DEF InStep
      <3> QED
        BY <1>1, <1>2, <2>1, <2>4, <3>1, <3>2 DEF InStep, SyncInv, KnowsRefusal
    <2> QED
      BY <2>1, <2>2, <2>3, <2>4 DEF Outstanding
  <1>5. CASE AwaitFails(j)
    <2>1. /\ submit[j] = "awaiting" /\ submit'[j] = "unpublished"
          /\ UNCHANGED <<wire, confirms>>
      BY <1>1, <1>5 DEF AwaitFails, Progress, TypeOK
    <2>2. publisher = "closed" /\ confirms = <<>>
      <3>1. Fault("timeout") => faults'["timeout"] = faults["timeout"] + 1
        BY <1>1, FaultEffect DEF FaultKinds
      <3> QED
        BY <1>5, <3>1 DEF AwaitFails
    <2>3. Outstanding(j)
      BY <1>1, <2>1 DEF InStep
    <2>4. faults["publisher"] # 0
      BY <2>2 DEF SyncInv, KnowsRefusal
    <2>5. \A k \in Jobs : submit'[k] # "awaiting"
      BY <1>1, <1>2, <2>1 DEF InStep
    <2>6. wire = <<>>
      BY <2>2, <2>3 DEF Outstanding
    <2> QED
      BY <1>1, <1>2, <2>1, <2>2, <2>4, <2>5, <2>6 DEF InStep
  <1>6. CASE SubmitRefuse(j) \/ SubmitCreate(j) \/ PublishError(j) \/ SubmitFails(j)
    <2>1. /\ submit[j] # "awaiting" /\ submit'[j] \notin {"awaiting", "accepted"}
          /\ submit'[j] = "unpublished" => submit[j] = "created"
          /\ UNCHANGED <<wire, confirms>>
      BY <1>1, <1>6 DEF SubmitRefuse, SubmitCreate, PublishError, SubmitFails,
                        Progress, TypeOK
    <2>2. PublisherLocked' <=> PublisherLocked
      BY <1>2, <2>1 DEF PublisherLocked
    <2>3. submit[j] = "created" => task[j] = "none"
      BY <1>1 DEF SentOnce
    <2>4. \A k \in Jobs : (Outstanding(k))' <=> Outstanding(k)
      BY <1>2, <2>1 DEF Outstanding
    <2> HIDE DEF Outstanding, PublisherLocked
    <2>5. InStep'
      BY <1>1, <1>2, <2>1, <2>2, <2>4 DEF InStep
    <2>6. faults["publisher"] = 0 => KnowsRefusal'
      BY <1>1, <1>2, <2>1, <2>3 DEF SyncInv, KnowsRefusal
    <2> QED
      BY <2>5, <2>6
  <1> QED
    BY <1>3, <1>4, <1>5, <1>6 DEF SubmitStep

LEMMA SyncBroker ==
    ASSUME SyncInv, BrokerNext, faults["timeout"] = 0
    PROVE  /\ InStep'
           /\ faults["publisher"] = 0 => KnowsRefusal'
  <1>1. TypeOK /\ TaskInv /\ InStep
    BY DEF SyncInv, TaskInv
  <1>2. /\ UNCHANGED <<submit, publisher>> /\ wire # <<>> /\ wire' = Tail(wire)
        /\ \/ /\ confirms' = Append(confirms, TRUE)
              /\ task' = [task EXCEPT ![Head(wire)] = "ready"]
           \/ confirms' = Append(confirms, FALSE) /\ task' = task
    BY DEF BrokerNext, BrokerAccept, BrokerRefuse, broker
  <1>3. PublisherLocked
    BY <1>1, <1>2 DEF InStep
  <1>4. PICK j \in Jobs : submit[j] = "awaiting"
    BY <1>3 DEF PublisherLocked
  <1>5. /\ Outstanding(j)
        /\ \A k \in Jobs : submit[k] = "awaiting" => k = j
    BY <1>1, <1>4 DEF InStep
  <1>6. wire = <<j>> /\ confirms = <<>> /\ task[j] = "none" /\ publisher = "open"
    BY <1>2, <1>5 DEF Outstanding
  <1>7. /\ wire' = <<>> /\ \A k \in Jobs \ {j} : task'[k] = task[k]
        /\ \/ confirms' = <<TRUE>> /\ task'[j] = "ready"
           \/ confirms' = <<FALSE>> /\ task'[j] = "none"
    <2>1. Head(wire) = j /\ Tail(wire) = <<>>
      BY <1>6, OneConfirm
    <2>2. Append(confirms, TRUE) = <<TRUE>> /\ Append(confirms, FALSE) = <<FALSE>>
      BY <1>6, OneConfirm
    <2>3. task \in [Jobs -> TaskState]
      BY <1>1 DEF TypeOK
    <2> QED
      BY <1>2, <1>6, <2>1, <2>2, <2>3
  <1>8. (Outstanding(j))'
    BY <1>7 DEF Outstanding
  <1>9. PublisherLocked'
    BY <1>2, <1>3 DEF PublisherLocked
  <1> HIDE DEF PublisherLocked, Outstanding
  <1>10. InStep'
    BY <1>1, <1>2, <1>4, <1>5, <1>7, <1>8, <1>9 DEF InStep
  <1>11. faults["publisher"] = 0 => KnowsRefusal'
    BY <1>2, <1>4, <1>7 DEF SyncInv, KnowsRefusal
  <1> QED
    BY <1>10, <1>11

\* Steps that leave the channel alone, and only move tasks that were sent.
LEMMA SyncKept ==
    ASSUME SyncInv, TaskInv', UNCHANGED <<submit, publisher, wire, confirms>>,
           \A j \in Jobs : task'[j] = "none" <=> task[j] = "none",
           faults'["timeout"] = 0 => faults["timeout"] = 0,
           faults'["publisher"] = 0 => faults["publisher"] = 0
    PROVE  SyncInv'
  <1>1. \A j \in Jobs : Outstanding(j) => (Outstanding(j))'
    BY DEF Outstanding
  <1>2. PublisherLocked' <=> PublisherLocked
    BY DEF PublisherLocked
  <1>3. InStep => InStep'
    <2> HIDE DEF Outstanding, PublisherLocked
    <2> QED
      BY <1>1, <1>2 DEF InStep
  <1>4. KnowsRefusal => KnowsRefusal'
    BY DEF KnowsRefusal
  <1> QED
    BY <1>3, <1>4 DEF SyncInv

LEMMA HandlerMovesTask ==
    ASSUME TypeOK, NEW w \in Workers, NEW j \in Jobs,
           Deliver(w, j) \/ HandlerStep(w, j)
    PROVE  \A k \in Jobs : task'[k] = "none" <=> task[k] = "none"
  <1>1. \A k \in Jobs \ {j} : task'[k] = task[k]
    BY HandlerFrame
  <1>2. task'[j] = "none" <=> task[j] = "none"
    BY DeliverEffect, LoadEffect, StartEffect, GenerateEffect, StoreEffect,
       FailEffect, SucceedEffect, SettleEffect DEF HandlerStep, Ack, Nack, TaskState
  <1> QED
    BY <1>1, <1>2

LEMMA SyncStep == SyncInv /\ [Next]_vars => SyncInv'
  <1> SUFFICES ASSUME SyncInv, [Next]_vars PROVE SyncInv'
    OBVIOUS
  <1>1. TaskInv /\ TaskInv' /\ TypeOK
    BY TaskStep DEF SyncInv, TaskInv
  <1>2. /\ faults'["timeout"] = 0 => faults["timeout"] = 0
        /\ faults'["publisher"] = 0 => faults["publisher"] = 0
    BY <1>1, FaultsGrow DEF FaultKinds
  <1>3. CASE SubmitNext
    <2> PICK j \in Jobs : SubmitRefuse(j) \/ SubmitCreate(j) \/ SubmitStep(j)
      BY <1>3 DEF SubmitNext
    <2> QED
      BY <1>1, <1>2, SyncSubmit DEF SyncInv
  <1>4. CASE PublisherLost
    <2>1. UNCHANGED <<submit, task>> /\ wire' = <<>> /\ publisher' = "closed"
      BY <1>4 DEF PublisherLost, broker
    <2>2. faults'["publisher"] # 0
      <3>1. faults'["publisher"] = faults["publisher"] + 1
        BY <1>1, <1>4, FaultEffect DEF PublisherLost, FaultKinds
      <3>2. faults["publisher"] \in Nat
        BY <1>1 DEF TypeOK, FaultKinds
      <3> QED
        BY <3>1, <3>2
    <2>3. confirms = <<>> => confirms' = <<>>
      BY <1>4 DEF PublisherLost
    <2>4. \A b \in BOOLEAN : confirms = <<b>> => confirms' \in {<<>>, <<b>>}
      <3> SUFFICES ASSUME NEW b \in BOOLEAN, confirms = <<b>>
                   PROVE  confirms' \in {<<>>, <<b>>}
        OBVIOUS
      <3>1. Len(confirms) = 1
        OBVIOUS
      <3>2. confirms' = SubSeq(confirms, 1, 0) \/ confirms' = SubSeq(confirms, 1, 1)
        BY <1>4, <3>1 DEF PublisherLost
      <3> QED
        BY <3>1, <3>2
    <2>5. ASSUME InStep PROVE InStep'
      <3>1. \A j \in Jobs : Outstanding(j) => (Outstanding(j))'
        BY <2>1, <2>3, <2>4 DEF Outstanding
      <3>2. PublisherLocked' <=> PublisherLocked
        BY <2>1 DEF PublisherLocked
      <3> HIDE DEF Outstanding, PublisherLocked
      <3> QED
        BY <2>1, <2>3, <2>5, <3>1, <3>2 DEF InStep
    <2> QED
      BY <1>1, <1>2, <2>2, <2>5 DEF SyncInv
  <1>5. CASE ApiCrash
    <2>1. /\ wire' = <<>> /\ confirms' = <<>> /\ publisher' = "open" /\ task' = task
          /\ \A j \in Jobs : submit'[j] \notin {"awaiting", "unpublished"}
          /\ \A j \in Jobs : submit'[j] = "accepted" => submit[j] = "accepted"
      BY <1>5 DEF ApiCrash, InSubmit, broker
    <2>2. InStep => InStep'
      BY <2>1 DEF InStep
    <2>3. KnowsRefusal'
      BY <2>1 DEF KnowsRefusal
    <2> QED
      BY <1>1, <1>2, <2>2, <2>3 DEF SyncInv
  <1>6. CASE BrokerNext
    BY <1>1, <1>2, <1>6, SyncBroker DEF SyncInv
  <1>7. CASE HandlerNext
    <2> PICK w \in Workers, j \in Jobs : Deliver(w, j) \/ HandlerStep(w, j)
      BY <1>7 DEF HandlerNext
    <2> QED
      BY <1>1, <1>2, HandlerFrame, HandlerMovesTask, SyncKept
  <1>8. CASE WorkerNext
    <2> PICK w \in Workers : \/ WorkerStart(w) \/ WorkerStop(w) \/ Disconnect(w)
                             \/ WorkerExit(w) \/ WorkerCrash(w)
      BY <1>8 DEF WorkerNext
    <2> QED
      BY <1>1, <1>2, WorkerFrame, SyncKept
  <1>9. CASE UNCHANGED vars
    BY <1>1, <1>2, <1>9, SyncKept DEF vars, api, broker
  <1> QED
    BY <1>3, <1>4, <1>5, <1>6, <1>7, <1>8, <1>9 DEF Next

-----------------------------------------------------------------------------
(* How many LLM runs a job can cost. The runs still due follow from where   *)
(* its task is: a task in the queue will be run as often as its row allows, *)
(* one in the hands of a handler as often as the row or the RetryCount that *)
(* handler loaded allows, whichever is more. A handler that has lost its    *)
(* connection may yet run the job once (if it is early) and set the         *)
(* RetryCount back.                                                         *)

\* The runs left after n failures.
Room(n) == IF n < MaxRetry THEN MaxRetry - n ELSE 0
Larger(a, b) == IF a < b THEN b ELSE a

RowDue(j) ==
    IF row[j].status = "success" THEN Room(row[j].retry + 1)
    ELSE IF row[j].status = "failed" /\ row[j].retry >= MaxRetry THEN 0
    ELSE Larger(1, Room(row[j].retry))

HandlerDue(w, j) ==
    LET stage == handler[w][j].stage
        retry == handler[w][j].retry
    IN  IF stage = "mark"
        THEN Larger(1, Larger(Room(row[j].retry), Room(retry)))
        ELSE IF stage \in {"llm", "store", "fail"}
        THEN Larger(Room(row[j].retry + 1), Room(retry + 1))
        ELSE IF stage = "succeed" THEN Room(row[j].retry + 1)
        ELSE RowDue(j)

RunsDue(j) ==
    IF task[j] = "none" THEN MaxRetry
    ELSE IF task[j] = "ready" THEN RowDue(j)
    ELSE IF task[j] = "unacked" THEN HandlerDue(holder[j], j)
    ELSE 0

StaleEarly(w, j) == w \notin connected /\ handler[w][j].stage \in {"load", "mark"}
StaleLate(w, j) ==
    w \notin connected /\ handler[w][j].stage \in {"llm", "store", "fail"}

Early(j) == {w \in Workers : StaleEarly(w, j)}
Late(j)  == {w \in Workers : StaleLate(w, j)}

StaleCost(j) ==
    (MaxRetry + 1) * Cardinality(Early(j)) + (MaxRetry - 1) * Cardinality(Late(j))

Weight(w, j) ==
    IF StaleEarly(w, j) THEN MaxRetry + 1
    ELSE IF StaleLate(w, j) THEN MaxRetry - 1
    ELSE 0

\* Submit may yet report the job as failed although its task is stored.
Doubt == faults["timeout"] + faults["publisher"] > 0
DoubtCost(j) == IF Doubt /\ submit[j] # "rejected" THEN MaxRetry ELSE 0

Allowance == MaxRetry * (1 + Resets) + Redeliveries

RunsPaid(j) == attempts[j] + RunsDue(j) + StaleCost(j) + DoubtCost(j) <= Allowance

RunsInv == BaseInv /\ SyncInv /\ \A j \in Jobs : RunsPaid(j)

LEMMA StaleFinite ==
    ASSUME BaseInv, NEW j \in Jobs
    PROVE  /\ IsFiniteSet(Early(j)) /\ Cardinality(Early(j)) \in Nat
           /\ IsFiniteSet(Late(j)) /\ Cardinality(Late(j)) \in Nat
           /\ StaleCost(j) \in Nat
  <1>1. Early(j) \subseteq live /\ Late(j) \subseteq live
    BY DEF BaseInv, TaskInv, HandlersLive, Early, Late, StaleEarly, StaleLate
  <1>2. /\ IsFiniteSet(Early(j)) /\ Cardinality(Early(j)) \in Nat
        /\ IsFiniteSet(Late(j)) /\ Cardinality(Late(j)) \in Nat
    BY <1>1, FS_Subset, FS_CardinalityType DEF BaseInv
  <1>3. \A m, n \in Nat : m * n \in Nat
    OBVIOUS
  <1> HIDE DEF Early, Late
  <1>4. MaxRetry + 1 \in Nat /\ MaxRetry - 1 \in Nat
    BY MaxRetryAssumption
  <1>5. /\ (MaxRetry + 1) * Cardinality(Early(j)) \in Nat
        /\ (MaxRetry - 1) * Cardinality(Late(j)) \in Nat
    BY <1>2, <1>3, <1>4
  <1> QED
    BY <1>2, <1>5 DEF StaleCost

\* One worker's part in a job changed.
LEMMA StaleChanges ==
    ASSUME BaseInv, NEW j \in Jobs, NEW w \in Workers,
           \A v \in Workers \ {w} : /\ (StaleEarly(v, j))' <=> StaleEarly(v, j)
                                    /\ (StaleLate(v, j))' <=> StaleLate(v, j)
    PROVE  /\ StaleCost(j) \in Nat /\ StaleCost(j)' \in Nat
           /\ StaleCost(j)' + Weight(w, j) = StaleCost(j) + Weight(w, j)'
  <1>1. /\ \A v : v # w => (v \in Early(j)' <=> v \in Early(j))
        /\ \A v : v # w => (v \in Late(j)' <=> v \in Late(j))
    BY DEF Early, Late
  <1>2. /\ w \in Early(j) <=> StaleEarly(w, j)
        /\ w \in Late(j) <=> StaleLate(w, j)
    BY DEF Early, Late
  <1>3. /\ w \in Early(j)' <=> (StaleEarly(w, j))'
        /\ w \in Late(j)' <=> (StaleLate(w, j))'
    BY DEF Early, Late
  <1>4. /\ ~(StaleEarly(w, j) /\ StaleLate(w, j))
        /\ ~(StaleEarly(w, j) /\ StaleLate(w, j))'
    BY DEF StaleEarly, StaleLate
  <1> HIDE DEF Early, Late, StaleEarly, StaleLate
  <1>5. /\ Cardinality(Early(j)) \in Nat /\ Cardinality(Early(j))' \in Nat
        /\ Cardinality(Early(j))' + (IF StaleEarly(w, j) THEN 1 ELSE 0)
             = Cardinality(Early(j)) + (IF (StaleEarly(w, j))' THEN 1 ELSE 0)
    BY <1>1, <1>2, <1>3, StaleFinite, OneElementChanges
  <1>6. /\ Cardinality(Late(j)) \in Nat /\ Cardinality(Late(j))' \in Nat
        /\ Cardinality(Late(j))' + (IF StaleLate(w, j) THEN 1 ELSE 0)
             = Cardinality(Late(j)) + (IF (StaleLate(w, j))' THEN 1 ELSE 0)
    BY <1>1, <1>2, <1>3, StaleFinite, OneElementChanges
  <1>7. \A c, m, n \in Nat, a, b \in {0, 1} :
            m + a = n + b => c * m \in Nat /\ c * n \in Nat /\ c * m + c * a = c * n + c * b
    <2> SUFFICES ASSUME NEW c \in Nat, NEW m \in Nat, NEW n \in Nat,
                        NEW a \in {0, 1}, NEW b \in {0, 1}, m + a = n + b
                 PROVE  /\ c * m \in Nat /\ c * n \in Nat
                        /\ c * m + c * a = c * n + c * b
      OBVIOUS
    <2>1. c * (m + a) = c * m + c * a /\ c * (n + b) = c * n + c * b
      OBVIOUS
    <2>2. c * m \in Nat /\ c * n \in Nat
      OBVIOUS
    <2> QED
      BY <2>1, <2>2
  <1>8. MaxRetry + 1 \in Nat /\ MaxRetry - 1 \in Nat
    BY MaxRetryAssumption
  <1> DEFINE e == Cardinality(Early(j))  e1 == Cardinality(Early(j))'
             l == Cardinality(Late(j))   l1 == Cardinality(Late(j))'
             ea == IF StaleEarly(w, j) THEN 1 ELSE 0
             eb == IF (StaleEarly(w, j))' THEN 1 ELSE 0
             la == IF StaleLate(w, j) THEN 1 ELSE 0
             lb == IF (StaleLate(w, j))' THEN 1 ELSE 0
             x == MaxRetry + 1
             y == MaxRetry - 1
  <1>9. Weight(w, j) = x * ea + y * la
    BY <1>4, <1>8 DEF Weight
  <1>10. Weight(w, j)' = x * eb + y * lb
    BY <1>4, <1>8 DEF Weight
  <1>11. /\ ea \in {0, 1} /\ eb \in {0, 1} /\ la \in {0, 1} /\ lb \in {0, 1}
         /\ x * ea \in Nat /\ x * eb \in Nat /\ y * la \in Nat /\ y * lb \in Nat
    BY <1>8
  <1>12. StaleCost(j) = x * e + y * l /\ StaleCost(j)' = x * e1 + y * l1
    BY DEF StaleCost
  <1>13. x \in Nat /\ y \in Nat
    BY <1>8
  <1>14. /\ e \in Nat /\ e1 \in Nat /\ l \in Nat /\ l1 \in Nat
         /\ e1 + ea = e + eb /\ l1 + la = l + lb
    BY <1>5, <1>6
  <1> HIDE DEF e, e1, l, l1, ea, eb, la, lb, x, y
  <1>15. /\ x * e1 \in Nat /\ x * e \in Nat /\ x * e1 + x * ea = x * e + x * eb
         /\ y * l1 \in Nat /\ y * l \in Nat /\ y * l1 + y * la = y * l + y * lb
    BY <1>7, <1>11, <1>13, <1>14
  <1> QED
    BY <1>9, <1>10, <1>11, <1>12, <1>15

LEMMA StaleKept ==
    ASSUME NEW j \in Jobs,
           \A w \in Workers : /\ (StaleEarly(w, j))' <=> StaleEarly(w, j)
                              /\ (StaleLate(w, j))' <=> StaleLate(w, j)
    PROVE  StaleCost(j)' = StaleCost(j)
  <1>1. Early(j)' = Early(j) /\ Late(j)' = Late(j)
    BY DEF Early, Late
  <1> QED
    BY <1>1 DEF StaleCost

\* What each kind of fault adds to the allowance.
LEMMA AllowanceGrows ==
    ASSUME TypeOK
    PROVE  /\ Allowance \in Nat
           /\ faults' = faults => Allowance' = Allowance /\ Doubt' = Doubt
           /\ Fault("disconnect") => /\ Allowance' = Allowance + MaxRetry + 1
                                     /\ Doubt' = Doubt
           /\ \A k \in {"crash", "db"} :
                  Fault(k) => Allowance' = Allowance + 1 /\ Doubt' = Doubt
           /\ \A k \in {"timeout", "publisher"} :
                  Fault(k) => /\ Doubt'
                              /\ Allowance' = Allowance + (IF Doubt THEN 0 ELSE MaxRetry)
           /\ \A k \in {"send", "nack", "api", "stop"} :
                  Fault(k) => Allowance' = Allowance /\ Doubt' = Doubt
  <1>1. \A k \in FaultKinds : faults[k] \in Nat
    BY DEF TypeOK
  <1>2. \A k \in FaultKinds : Fault(k) =>
            /\ faults'[k] = faults[k] + 1
            /\ \A m \in FaultKinds \ {k} : faults'[m] = faults[m]
    BY FaultEffect
  <1>3. MaxRetry \in Nat
    BY MaxRetryAssumption
  <1>4. Resets \in Nat /\ Redeliveries \in Nat
    BY <1>1 DEF Resets, Redeliveries, FaultKinds
  <1>5. \A n \in Nat : /\ MaxRetry * (1 + n) \in Nat
                       /\ MaxRetry * (1 + (n + 1)) = MaxRetry * (1 + n) + MaxRetry
    BY <1>3
  <1>6. faults' = faults => Allowance' = Allowance /\ Doubt' = Doubt
    BY DEF Allowance, Doubt, Resets, Redeliveries
  <1>7. Allowance \in Nat
    BY <1>4, <1>5 DEF Allowance
  <1>8. Fault("disconnect") => /\ Resets' = Resets + 1 /\ Doubt' = Doubt
                               /\ Redeliveries' = Redeliveries + 1
    BY <1>1, <1>2 DEF Resets, Redeliveries, Doubt, FaultKinds
  <1>9. \A k \in {"crash", "db"} :
            Fault(k) => /\ Resets' = Resets /\ Doubt' = Doubt
                        /\ Redeliveries' = Redeliveries + 1
    BY <1>1, <1>2 DEF Resets, Redeliveries, Doubt, FaultKinds
  <1>10. \A k \in {"timeout", "publisher"} :
            Fault(k) => /\ Doubt' /\ Redeliveries' = Redeliveries
                        /\ Resets' = Resets + (IF Doubt THEN 0 ELSE 1)
    BY <1>1, <1>2 DEF Resets, Redeliveries, Doubt, FaultKinds
  <1>11. \A k \in {"send", "nack", "api", "stop"} :
            Fault(k) => /\ Resets' = Resets /\ Doubt' = Doubt
                        /\ Redeliveries' = Redeliveries
    BY <1>1, <1>2 DEF Resets, Redeliveries, Doubt, FaultKinds
  <1> HIDE DEF Resets, Redeliveries, Doubt
  <1>12. Fault("disconnect") => Allowance' = Allowance + MaxRetry + 1
    <2> DEFINE a == MaxRetry * (1 + Resets)
    <2>1. a \in Nat /\ MaxRetry * (1 + (Resets + 1)) = a + MaxRetry
      BY <1>4, <1>5
    <2> HIDE DEF a
    <2>2. Allowance = a + Redeliveries
      BY DEF Allowance, a
    <2>3. Fault("disconnect") => Allowance' = MaxRetry * (1 + (Resets + 1)) + (Redeliveries + 1)
      BY <1>8 DEF Allowance
    <2> QED
      BY <1>3, <1>4, <2>1, <2>2, <2>3
  <1>13. \A k \in {"timeout", "publisher"} :
            Fault(k) => Allowance' = Allowance + (IF Doubt THEN 0 ELSE MaxRetry)
    <2> DEFINE a == MaxRetry * (1 + Resets)
    <2>1. a \in Nat /\ MaxRetry * (1 + (Resets + 1)) = a + MaxRetry
      BY <1>4, <1>5
    <2>2. Allowance = a + Redeliveries
      BY DEF Allowance
    <2>3. \A k \in {"timeout", "publisher"} :
             Fault(k) => Allowance' = (IF Doubt THEN a ELSE MaxRetry * (1 + (Resets + 1)))
                                        + Redeliveries
      BY <1>4, <1>10 DEF Allowance
    <2> HIDE DEF a
    <2> QED
      BY <1>3, <1>4, <2>1, <2>2, <2>3
  <1>14. \A k \in {"crash", "db"} : Fault(k) => Allowance' = Allowance + 1
    <2> DEFINE a == MaxRetry * (1 + Resets)
    <2>1. a \in Nat
      BY <1>4, <1>5
    <2>2. Allowance = a + Redeliveries
      BY DEF Allowance
    <2>3. \A k \in {"crash", "db"} : Fault(k) => Allowance' = a + (Redeliveries + 1)
      BY <1>9 DEF Allowance
    <2> HIDE DEF a
    <2> QED
      BY <1>4, <2>1, <2>2, <2>3
  <1>15. \A k \in {"send", "nack", "api", "stop"} : Fault(k) => Allowance' = Allowance
    BY <1>11 DEF Allowance
  <1> QED
    BY <1>6, <1>7, <1>8, <1>9, <1>10, <1>11, <1>12, <1>13, <1>14, <1>15

LEMMA RoomType ==
    ASSUME NEW n \in Nat
    PROVE  /\ Room(n) \in 0 .. MaxRetry /\ MaxRetry \in Nat /\ MaxRetry >= 1
           /\ Room(n + 1) = IF Room(n) = 0 THEN 0 ELSE Room(n) - 1
  BY MaxRetryAssumption DEF Room

LEMMA RowDueType ==
    ASSUME TypeOK, NEW j \in Jobs
    PROVE  /\ RowDue(j) \in 0 .. MaxRetry
           /\ RowDue(j) <= Larger(1, Room(row[j].retry))
           /\ RowDue(j) <= Room(row[j].retry + 1) + 1
           /\ RowDue(j) >= Room(row[j].retry + 1)
  <1>1. row[j].retry \in Nat
    BY CountersType
  <1>2. row[j].retry >= MaxRetry => Room(row[j].retry) = 0
    BY <1>1, MaxRetryAssumption DEF Room
  <1> QED
    BY <1>1, <1>2, RoomType DEF RowDue, Larger

LEMMA HandlerDueType ==
    ASSUME TypeOK, NEW j \in Jobs, NEW w \in Workers
    PROVE  HandlerDue(w, j) \in 0 .. MaxRetry
  <1>1. row[j].retry \in Nat /\ handler[w][j].retry \in Nat
    BY CountersType
  <1>2. row[j].retry + 1 \in Nat /\ handler[w][j].retry + 1 \in Nat
    BY <1>1
  <1>3. /\ Room(row[j].retry) \in 0 .. MaxRetry
        /\ Room(row[j].retry + 1) \in 0 .. MaxRetry
        /\ Room(handler[w][j].retry) \in 0 .. MaxRetry
        /\ Room(handler[w][j].retry + 1) \in 0 .. MaxRetry
        /\ MaxRetry \in Nat /\ MaxRetry >= 1
    BY <1>1, <1>2, RoomType
  <1>4. \A a, b \in 0 .. MaxRetry : Larger(a, b) \in 0 .. MaxRetry
    BY DEF Larger
  <1>5. 1 \in 0 .. MaxRetry
    BY <1>3
  <1>6. RowDue(j) \in 0 .. MaxRetry
    BY RowDueType
  <1>7. \/ HandlerDue(w, j) = Larger(1, Larger(Room(row[j].retry),
                                             Room(handler[w][j].retry)))
        \/ HandlerDue(w, j) = Larger(Room(row[j].retry + 1),
                                    Room(handler[w][j].retry + 1))
        \/ HandlerDue(w, j) = Room(row[j].retry + 1)
        \/ HandlerDue(w, j) = RowDue(j)
    BY DEF HandlerDue
  <1>8. Larger(Room(row[j].retry), Room(handler[w][j].retry)) \in 0 .. MaxRetry
    BY <1>3, <1>4
  <1> QED
    BY <1>3, <1>4, <1>5, <1>6, <1>7, <1>8

LEMMA RunsDueType ==
    ASSUME BaseInv, NEW j \in Jobs
    PROVE  RunsDue(j) \in 0 .. MaxRetry /\ MaxRetry \in Nat
  <1>1. TypeOK
    BY DEF BaseInv, TaskInv
  <1>2. MaxRetry \in Nat
    BY MaxRetryAssumption
  <1>3. task[j] = "unacked" => holder[j] \in Workers
    BY <1>1 DEF BaseInv, UnackedHasHandler, TypeOK
  <1> HIDE DEF HandlerDue, RowDue
  <1> QED
    BY <1>1, <1>2, <1>3, HandlerDueType, RowDueType DEF RunsDue

\* A handler that holds the task of its job.
LEMMA HolderRuns ==
    ASSUME BaseInv, NEW w \in Workers, NEW j \in Jobs, HandlerStep(w, j),
           task[j] = "unacked", holder[j] = w
    PROVE  attempts'[j] + RunsDue(j)'
             <= attempts[j] + RunsDue(j) + (IF faults' = faults THEN 0 ELSE 1)
  <1>1. TypeOK
    BY DEF BaseInv, TaskInv
  <1>1a. TypeOK'
    BY <1>1, HandlerType
  <1>2. RunsDue(j) = HandlerDue(w, j)
    BY DEF RunsDue
  <1>3. ASSUME Fault("db") PROVE faults' # faults
    <2>1. "db" \in FaultKinds
      BY DEF FaultKinds
    <2>2. faults["db"] \in Nat /\ faults'["db"] = faults["db"] + 1
      BY <1>1, <1>3, <2>1, FaultEffect DEF TypeOK
    <2> QED
      BY <2>2
  <1>4. /\ attempts[j] \in Nat /\ row[j].retry \in Nat /\ handler[w][j].retry \in Nat
        /\ row'[j].retry \in Nat /\ handler'[w][j].retry \in Nat
    <2>1. row'[j] \in Row /\ handler'[w][j] \in Handler
      BY <1>1a DEF TypeOK
    <2> QED
      BY <1>1, <2>1, CountersType DEF Row, Handler
  <1>5. /\ Room(row[j].retry) \in 0 .. MaxRetry /\ Room(row'[j].retry) \in 0 .. MaxRetry
        /\ Room(handler[w][j].retry) \in 0 .. MaxRetry
        /\ Room(row[j].retry + 1)
             = IF Room(row[j].retry) = 0 THEN 0 ELSE Room(row[j].retry) - 1
        /\ Room(row'[j].retry + 1)
             = IF Room(row'[j].retry) = 0 THEN 0 ELSE Room(row'[j].retry) - 1
        /\ Room(handler[w][j].retry + 1)
             = IF Room(handler[w][j].retry) = 0 THEN 0
               ELSE Room(handler[w][j].retry) - 1
        /\ MaxRetry \in Nat /\ MaxRetry >= 1
    BY <1>4, RoomType
  <1>6. /\ RowDue(j) \in 0 .. MaxRetry
        /\ RowDue(j) <= Larger(1, Room(row[j].retry))
        /\ RowDue(j) <= Room(row[j].retry + 1) + 1
    BY <1>1, RowDueType
  <1>7. row' = row => RowDue(j)' = RowDue(j)
    BY DEF RowDue
  <1>8. task'[j] = "unacked" /\ holder'[j] = w => RunsDue(j)' = HandlerDue(w, j)'
    BY DEF RunsDue
  <1>9. /\ handler'[w][j].stage \in {"load", "ack", "nack"} => HandlerDue(w, j)' = RowDue(j)'
        /\ handler[w][j].stage \in {"load", "ack", "nack"} => HandlerDue(w, j) = RowDue(j)
    BY DEF HandlerDue
  <1>10. CASE Load(w, j)
    <2>1. ~NothingToDo(j) => RowDue(j) = Larger(1, Room(row[j].retry))
      BY DEF NothingToDo, RowDue
    <2> HIDE DEF RowDue, Room
    <2>2. handler'[w][j].stage = "mark" =>
              HandlerDue(w, j)' = Larger(1, Larger(Room(row[j].retry), Room(row[j].retry)))
      BY <1>1, <1>10, LoadEffect DEF HandlerDue
    <2>3. handler'[w][j].stage = "mark" => HandlerDue(w, j)' = RowDue(j)
      BY <1>1, <1>5, <1>10, <2>1, <2>2, LoadEffect DEF Larger
    <2>4. attempts' = attempts /\ RunsDue(j)' = RowDue(j) /\ RunsDue(j) = RowDue(j)
      BY <1>1, <1>2, <1>7, <1>8, <1>9, <1>10, <2>3, LoadEffect
    <2> QED
      BY <1>4, <1>6, <2>4
  <1>11. CASE Start(w, j)
    <2>1. HandlerDue(w, j) = Larger(1, Larger(Room(row[j].retry), Room(handler[w][j].retry)))
      BY <1>1, <1>11, StartEffect DEF HandlerDue
    <2> HIDE DEF RowDue, Room
    <2>2. CASE handler'[w][j].stage = "llm"
      <3>1. HandlerDue(w, j)' = Larger(Room(row[j].retry + 1), Room(handler[w][j].retry + 1))
        BY <1>1, <1>11, <2>2, StartEffect DEF HandlerDue
      <3>2. HandlerDue(w, j)' + 1 <= HandlerDue(w, j) /\ HandlerDue(w, j)' \in Nat
        BY <1>5, <2>1, <3>1 DEF Larger
      <3>3. attempts'[j] = attempts[j] + 1 /\ RunsDue(j)' = HandlerDue(w, j)'
        BY <1>1, <1>8, <1>11, <2>2, StartEffect
      <3> QED
        BY <1>2, <1>4, <1>5, <2>1, <3>2, <3>3 DEF Larger
    <2>3. CASE handler'[w][j].stage = "nack"
      <3>1. attempts' = attempts /\ RunsDue(j)' = RowDue(j)
        BY <1>1, <1>7, <1>8, <1>9, <1>11, <2>3, StartEffect
      <3>2. RowDue(j) <= HandlerDue(w, j) /\ HandlerDue(w, j) \in Nat
        BY <1>5, <1>6, <2>1 DEF Larger
      <3> QED
        BY <1>2, <1>4, <1>6, <3>1, <3>2
    <2> QED
      BY <1>1, <1>11, <2>2, <2>3, StartEffect
  <1>12. CASE Generate(w, j)
    <2>1. attempts' = attempts /\ RunsDue(j)' = RunsDue(j)
      BY <1>1, <1>2, <1>8, <1>12, GenerateEffect DEF HandlerDue
    <2> QED
      BY <1>4, <2>1, RunsDueType
  <1>13. CASE Store(w, j)
    <2>1. HandlerDue(w, j) = Larger(Room(row[j].retry + 1), Room(handler[w][j].retry + 1))
      BY <1>1, <1>13, StoreEffect DEF HandlerDue
    <2>2. \/ HandlerDue(w, j)' = HandlerDue(w, j)
          \/ HandlerDue(w, j)' = Room(row[j].retry + 1)
      BY <1>1, <1>13, StoreEffect DEF HandlerDue
    <2>3. HandlerDue(w, j)' <= HandlerDue(w, j) /\ HandlerDue(w, j)' \in Nat
          /\ HandlerDue(w, j) \in Nat
      BY <1>5, <2>1, <2>2 DEF Larger
    <2>4. attempts' = attempts /\ RunsDue(j)' = HandlerDue(w, j)'
      BY <1>1, <1>8, <1>13, StoreEffect
    <2> QED
      BY <1>2, <1>4, <2>3, <2>4
  <1>14. CASE Fail(w, j)
    <2>1. HandlerDue(w, j) = Larger(Room(row[j].retry + 1), Room(handler[w][j].retry + 1))
      BY <1>1, <1>14, FailEffect DEF HandlerDue
    <2>2. attempts' = attempts /\ RunsDue(j)' = RowDue(j)'
      BY <1>1, <1>8, <1>9, <1>14, FailEffect
    <2>3. CASE row' = row /\ Fault("db")
      <3>1. RowDue(j)' <= HandlerDue(w, j) + 1 /\ HandlerDue(w, j) \in Nat
        BY <1>5, <1>6, <1>7, <2>1, <2>3 DEF Larger
      <3> QED
        BY <1>2, <1>3, <1>4, <1>6, <1>7, <2>2, <2>3, <3>1
    <2>4. CASE /\ handler[w][j].retry + 1 >= MaxRetry /\ row'[j].status = "failed"
               /\ row'[j].retry = handler[w][j].retry + 1
      <3>1. RowDue(j)' = 0
        BY <2>4 DEF RowDue
      <3>2. HandlerDue(w, j) \in Nat
        BY <1>5, <2>1 DEF Larger
      <3> QED
        BY <1>2, <1>4, <2>2, <3>1, <3>2
    <2>5. CASE /\ handler[w][j].retry + 1 < MaxRetry /\ row'[j].status = "pending"
               /\ row'[j].retry = handler[w][j].retry + 1
      <3>1. RowDue(j)' = Larger(1, Room(handler[w][j].retry + 1))
        BY <2>5 DEF RowDue
      <3>2. Room(handler[w][j].retry + 1) >= 1
        BY <1>4, <1>5, <2>5 DEF Room
      <3>3. RowDue(j)' <= HandlerDue(w, j) /\ HandlerDue(w, j) \in Nat /\ RowDue(j)' \in Nat
        BY <1>5, <2>1, <3>1, <3>2 DEF Larger
      <3> QED
        BY <1>2, <1>4, <2>2, <3>3
    <2> QED
      BY <1>1, <1>14, <2>3, <2>4, <2>5, FailEffect
  <1>15. CASE Succeed(w, j)
    <2>1. HandlerDue(w, j) = Room(row[j].retry + 1)
      BY <1>1, <1>15, SucceedEffect DEF HandlerDue
    <2>2. attempts' = attempts /\ RunsDue(j)' = RowDue(j)'
      BY <1>1, <1>8, <1>9, <1>15, SucceedEffect
    <2>3. \/ RowDue(j)' = Room(row[j].retry + 1)
          \/ RowDue(j)' = RowDue(j) /\ Fault("db")
      BY <1>1, <1>7, <1>15, SucceedEffect DEF RowDue
    <2> HIDE DEF RowDue, Room
    <2> QED
      BY <1>2, <1>3, <1>4, <1>5, <1>6, <2>1, <2>2, <2>3
  <1>16. CASE Ack(w, j)
    <2>1. attempts' = attempts /\ task'[j] = "acked"
      BY <1>1, <1>16, SettleEffect DEF Ack, TaskState
    <2>2. RunsDue(j)' = 0
      BY <2>1 DEF RunsDue
    <2> QED
      BY <1>4, <2>1, <2>2, RunsDueType
  <1>17. CASE Nack(w, j)
    <2>1. attempts' = attempts /\ task'[j] = "ready" /\ row' = row
          /\ handler[w][j].stage = "nack"
      BY <1>1, <1>17, SettleEffect DEF Nack, TaskState
    <2>2. RunsDue(j)' = RowDue(j)
      BY <1>7, <2>1 DEF RunsDue
    <2> QED
      BY <1>2, <1>4, <1>6, <1>9, <2>1, <2>2
  <1> QED
    BY <1>10, <1>11, <1>12, <1>13, <1>14, <1>15, <1>16, <1>17 DEF HandlerStep

\* What overwriting the row does to the runs due, wherever the task is.
LEMMA OverwrittenRow ==
    ASSUME BaseInv, TypeOK', NEW j \in Jobs,
           UNCHANGED <<task[j], holder[j]>>,
           task[j] = "unacked" => handler'[holder[j]][j] = handler[holder[j]][j]
    PROVE  /\ row'[j] = row[j] => RunsDue(j)' = RunsDue(j)
           /\ row'[j].status = "running" /\ row'[j].retry = row[j].retry
                  => RunsDue(j)' <= RunsDue(j) + 1
           /\ row'[j].status = "success" /\ row'[j].retry = row[j].retry
                  => RunsDue(j)' <= RunsDue(j)
           /\ ( /\ row'[j].retry >= 1
                /\ \/ row'[j].status = "failed" /\ row'[j].retry >= MaxRetry
                   \/ row'[j].status = "pending" /\ row'[j].retry < MaxRetry )
                  => RunsDue(j)' <= RunsDue(j) + MaxRetry - 1
  <1>1. TypeOK
    BY DEF BaseInv, TaskInv
  <1> DEFINE r == row[j].retry  r1 == row'[j].retry
             w == holder[j]     h == handler[holder[j]][j].retry
  <1>2. r \in Nat /\ r1 \in Nat
    <2>1. row'[j] \in Row
      BY DEF TypeOK
    <2> QED
      BY <1>1, <2>1, CountersType DEF Row
  <1>3. task[j] = "unacked" => w \in Workers /\ h \in Nat
    <2>1. task[j] = "unacked" => w \in Workers
      BY <1>1 DEF BaseInv, UnackedHasHandler, TypeOK
    <2> QED
      BY <1>1, <2>1, CountersType
  <1>4. /\ Room(r) \in 0 .. MaxRetry /\ Room(r1) \in 0 .. MaxRetry
        /\ Room(r + 1) = IF Room(r) = 0 THEN 0 ELSE Room(r) - 1
        /\ Room(r1 + 1) = IF Room(r1) = 0 THEN 0 ELSE Room(r1) - 1
        /\ MaxRetry \in Nat /\ MaxRetry >= 1
        /\ r1 >= 1 => Room(r1) <= MaxRetry - 1
        /\ r1 >= MaxRetry => Room(r1) = 0
        /\ r1 < MaxRetry => Room(r1) >= 1
    <2>1. r1 >= 1 => Room(r1) <= MaxRetry - 1
      BY <1>2, MaxRetryAssumption DEF Room
    <2>2. r1 >= MaxRetry => Room(r1) = 0
      BY <1>2, MaxRetryAssumption DEF Room
    <2>3. r1 < MaxRetry => Room(r1) >= 1
      BY <1>2, MaxRetryAssumption DEF Room
    <2> QED
      BY <1>2, <2>1, <2>2, <2>3, RoomType
  <1>5. task[j] = "unacked" => /\ Room(h) \in 0 .. MaxRetry
                               /\ Room(h + 1) \in 0 .. MaxRetry
    BY <1>3, RoomType
  <1>6. /\ RunsDue(j) \in 0 .. MaxRetry
        /\ RowDue(j) \in 0 .. MaxRetry
        /\ RowDue(j) <= Larger(1, Room(r))
        /\ RowDue(j) <= Room(r + 1) + 1
        /\ RowDue(j) >= Room(r + 1)
    BY <1>1, RunsDueType, RowDueType
  <1>7. /\ row'[j].status = "running" => RowDue(j)' = Larger(1, Room(r1))
        /\ row'[j].status = "success" => RowDue(j)' = Room(r1 + 1)
        /\ row'[j].status = "failed" /\ r1 >= MaxRetry => RowDue(j)' = 0
        /\ row'[j].status = "pending" => RowDue(j)' = Larger(1, Room(r1))
        /\ row'[j] = row[j] => RowDue(j)' = RowDue(j) /\ r1 = r
    BY DEF RowDue
  <1>8. \/ /\ task[j] \in {"none", "acked"}
           /\ RunsDue(j)' = RunsDue(j)
        \/ /\ RunsDue(j) = RowDue(j) /\ RunsDue(j)' = RowDue(j)'
        \/ /\ task[j] = "unacked"
           /\ RunsDue(j) = Larger(1, Larger(Room(r), Room(h)))
           /\ RunsDue(j)' = Larger(1, Larger(Room(r1), Room(h)))
        \/ /\ task[j] = "unacked"
           /\ RunsDue(j) = Larger(Room(r + 1), Room(h + 1))
           /\ RunsDue(j)' = Larger(Room(r1 + 1), Room(h + 1))
        \/ /\ task[j] = "unacked"
           /\ RunsDue(j) = Room(r + 1)
           /\ RunsDue(j)' = Room(r1 + 1)
    <2>1. CASE task[j] # "unacked"
      <3>1. task[j] \in {"none", "ready", "acked"}
        BY <1>1, <2>1 DEF TypeOK, TaskState
      <3> HIDE DEF RowDue
      <3> QED
        BY <3>1 DEF RunsDue
    <2>2. CASE task[j] = "unacked"
      <3> PICK v \in Workers : v = holder[j]
        BY <1>3, <2>2
      <3>1. RunsDue(j) = HandlerDue(v, j)
        BY <2>2 DEF RunsDue
      <3>2. RunsDue(j)' = HandlerDue(v, j)'
        BY <2>2 DEF RunsDue
      <3>3. handler'[v][j] = handler[v][j]
        BY <2>2
      <3> HIDE DEF RowDue
      <3>4. HandlerDue(v, j)' =
              IF handler[v][j].stage = "mark"
              THEN Larger(1, Larger(Room(r1), Room(h)))
              ELSE IF handler[v][j].stage \in {"llm", "store", "fail"}
              THEN Larger(Room(r1 + 1), Room(h + 1))
              ELSE IF handler[v][j].stage = "succeed" THEN Room(r1 + 1)
              ELSE RowDue(j)'
        BY <3>3 DEF HandlerDue
      <3>5. HandlerDue(v, j) =
              IF handler[v][j].stage = "mark"
              THEN Larger(1, Larger(Room(r), Room(h)))
              ELSE IF handler[v][j].stage \in {"llm", "store", "fail"}
              THEN Larger(Room(r + 1), Room(h + 1))
              ELSE IF handler[v][j].stage = "succeed" THEN Room(r + 1)
              ELSE RowDue(j)
        BY DEF HandlerDue
      <3> HIDE DEF HandlerDue, r, r1, h
      <3> QED
        BY <2>2, <3>1, <3>2, <3>4, <3>5
    <2> QED
      BY <2>1, <2>2
  <1> HIDE DEF RowDue, RunsDue, Room, r, r1, h, w
  <1>9. row'[j] = row[j] => RunsDue(j)' = RunsDue(j)
    BY <1>7, <1>8
  <1>10. row'[j].status = "running" /\ r1 = r => RunsDue(j)' <= RunsDue(j) + 1
    BY <1>4, <1>5, <1>6, <1>7, <1>8 DEF Larger
  <1>11. row'[j].status = "success" /\ r1 = r => RunsDue(j)' <= RunsDue(j)
    BY <1>4, <1>5, <1>6, <1>7, <1>8 DEF Larger
  <1>12. ASSUME r1 >= 1, \/ row'[j].status = "failed" /\ r1 >= MaxRetry
                         \/ row'[j].status = "pending" /\ r1 < MaxRetry
         PROVE  RunsDue(j)' <= RunsDue(j) + MaxRetry - 1
    <2>1. RowDue(j)' \in 0 .. MaxRetry - 1
      BY <1>4, <1>7, <1>12 DEF Larger
    <2>2. Room(r1) \in 0 .. MaxRetry - 1 /\ Room(r1 + 1) \in 0 .. MaxRetry - 1
      BY <1>4, <1>12
    <2> QED
      BY <1>4, <1>5, <1>6, <1>8, <2>1, <2>2 DEF Larger
  <1> QED
    BY <1>9, <1>10, <1>11, <1>12 DEF r, r1

\* A handler whose worker has lost its connection.
LEMMA StaleRuns ==
    ASSUME BaseInv, NEW w \in Workers, NEW j \in Jobs, HandlerStep(w, j),
           w \notin connected
    PROVE  attempts'[j] + RunsDue(j)' + Weight(w, j)'
             <= attempts[j] + RunsDue(j) + Weight(w, j)
  <1>1. TypeOK /\ TypeOK'
    BY HandlerType DEF BaseInv, TaskInv
  <1>2. /\ connected' = connected
        /\ \A v \in Workers \ {w} : handler'[v][j] = handler[v][j]
    BY <1>1, HandlerFrame
  <1>3. ~(task[j] = "unacked" /\ holder[j] = w)
    BY DEF BaseInv, UnackedHasHandler
  <1>4. task'[j] = task[j] /\ holder'[j] = holder[j]
    BY <1>1, <1>3, LoadEffect, StartEffect, GenerateEffect, StoreEffect,
       FailEffect, SucceedEffect, SettleEffect DEF HandlerStep, Ack, Nack, TaskState
  <1>5. task[j] = "unacked" => handler'[holder[j]][j] = handler[holder[j]][j]
    <2>1. task[j] = "unacked" => holder[j] \in Workers
      BY <1>1 DEF BaseInv, UnackedHasHandler, TypeOK
    <2> QED
      BY <1>2, <1>3, <2>1
  <1>6. /\ row'[j] = row[j] => RunsDue(j)' = RunsDue(j)
        /\ row'[j].status = "running" /\ row'[j].retry = row[j].retry
               => RunsDue(j)' <= RunsDue(j) + 1
        /\ row'[j].status = "success" /\ row'[j].retry = row[j].retry
               => RunsDue(j)' <= RunsDue(j)
        /\ ( /\ row'[j].retry >= 1
             /\ \/ row'[j].status = "failed" /\ row'[j].retry >= MaxRetry
                \/ row'[j].status = "pending" /\ row'[j].retry < MaxRetry )
               => RunsDue(j)' <= RunsDue(j) + MaxRetry - 1
    BY <1>1, <1>4, <1>5, OverwrittenRow
  <1>7. /\ attempts[j] \in Nat /\ RunsDue(j) \in Nat /\ MaxRetry \in Nat
        /\ MaxRetry >= 1 /\ handler[w][j].retry \in Nat
    BY <1>1, CountersType, RunsDueType, MaxRetryAssumption
  <1>7a. RunsDue(j)' \in Nat
    <2>1. BaseInv'
      BY BaseStep DEF Next, HandlerNext
    <2>2. (BaseInv => RunsDue(j) \in 0 .. MaxRetry)'
      BY RunsDueType, PTL
    <2> QED
      BY <1>7, <2>1, <2>2
  <1>8. /\ Weight(w, j) = IF handler[w][j].stage \in {"load", "mark"} THEN MaxRetry + 1
                          ELSE IF handler[w][j].stage \in {"llm", "store", "fail"}
                          THEN MaxRetry - 1 ELSE 0
        /\ Weight(w, j)' = IF handler'[w][j].stage \in {"load", "mark"} THEN MaxRetry + 1
                           ELSE IF handler'[w][j].stage \in {"llm", "store", "fail"}
                           THEN MaxRetry - 1 ELSE 0
    BY <1>2 DEF Weight, StaleEarly, StaleLate
  <1> HIDE DEF RunsDue, Weight
  <1>9. CASE Load(w, j)
    BY <1>1, <1>6, <1>7, <1>8, <1>9, LoadEffect
  <1>10. CASE Start(w, j)
    BY <1>1, <1>6, <1>7, <1>7a, <1>8, <1>10, StartEffect
  <1>11. CASE Generate(w, j)
    BY <1>1, <1>6, <1>7, <1>8, <1>11, GenerateEffect
  <1>12. CASE Store(w, j)
    BY <1>1, <1>6, <1>7, <1>8, <1>12, StoreEffect
  <1>13. CASE Fail(w, j)
    BY <1>1, <1>6, <1>7, <1>7a, <1>8, <1>13, FailEffect
  <1>14. CASE Succeed(w, j)
    BY <1>1, <1>6, <1>7, <1>7a, <1>8, <1>14, SucceedEffect
  <1>15. CASE Ack(w, j) \/ Nack(w, j)
    BY <1>1, <1>6, <1>7, <1>8, <1>15, SettleEffect DEF Ack, Nack, TaskState
  <1> QED
    BY <1>9, <1>10, <1>11, <1>12, <1>13, <1>14, <1>15 DEF HandlerStep

LEMMA RunsHandler ==
    ASSUME RunsInv, NEW w \in Workers, NEW j \in Jobs,
           Deliver(w, j) \/ HandlerStep(w, j), NEW k \in Jobs
    PROVE  RunsPaid(k)'
  <1>1. BaseInv /\ TypeOK /\ RunsPaid(k)
    BY DEF RunsInv, BaseInv, TaskInv
  <1>2. /\ connected' = connected /\ submit' = submit
        /\ \A v \in Workers, i \in Jobs :
               v # w \/ i # j => handler'[v][i] = handler[v][i]
        /\ \A i \in Jobs \ {j} :
               UNCHANGED <<row[i], task[i], holder[i], attempts[i]>>
        /\ faults' = faults \/ Fault("db")
    BY <1>1, HandlerFrame
  <1>3. /\ Allowance \in Nat /\ Doubt' = Doubt
        /\ Allowance' = Allowance + (IF faults' = faults THEN 0 ELSE 1)
    BY <1>1, <1>2, AllowanceGrows
  <1>4. DoubtCost(k)' = DoubtCost(k) /\ DoubtCost(k) \in Nat
    BY <1>2, <1>3, MaxRetryAssumption DEF DoubtCost
  <1>5. attempts[k] \in Nat /\ RunsDue(k) \in Nat
    BY <1>1, CountersType, RunsDueType
  <1>6. StaleCost(k) \in Nat
    BY <1>1, StaleFinite
  <1>7. CASE k # j
    <2>1. StaleCost(k)' = StaleCost(k)
      BY <1>2, <1>7, StaleKept DEF StaleEarly, StaleLate
    <2>2. RunsDue(k)' = RunsDue(k)
      <3>1. task[k] = "unacked" => handler'[holder[k]][k] = handler[holder[k]][k]
        <4>1. task[k] = "unacked" => holder[k] \in Workers
          BY <1>1 DEF BaseInv, UnackedHasHandler, TypeOK
        <4> QED
          BY <1>2, <1>7, <4>1
      <3>2. TypeOK' /\ task'[k] = task[k] /\ holder'[k] = holder[k] /\ row'[k] = row[k]
        BY <1>1, <1>2, <1>7, HandlerType
      <3> QED
        BY <1>1, <3>1, <3>2, OverwrittenRow
    <2>3. attempts'[k] = attempts[k]
      BY <1>2, <1>7
    <2> HIDE DEF RunsDue, StaleCost, DoubtCost, Allowance
    <2> QED
      BY <1>1, <1>3, <1>4, <1>5, <1>6, <2>1, <2>2, <2>3 DEF RunsPaid
  <1>8. CASE k = j
    <2>1. /\ StaleCost(j)' \in Nat
          /\ StaleCost(j)' + Weight(w, j) = StaleCost(j) + Weight(w, j)'
      BY <1>1, <1>2, StaleChanges DEF StaleEarly, StaleLate
    <2>2. attempts'[j] + RunsDue(j)' + Weight(w, j)'
            <= attempts[j] + RunsDue(j) + Weight(w, j)
                 + (IF faults' = faults THEN 0 ELSE 1)
      <3>1. CASE w \notin connected
        <4>1. HandlerStep(w, j)
          BY <3>1 DEF Deliver
        <4>2. attempts'[j] + RunsDue(j)' + Weight(w, j)'
                <= attempts[j] + RunsDue(j) + Weight(w, j)
          BY <1>1, <3>1, <4>1, StaleRuns
        <4>3. Weight(w, j) \in Nat /\ Weight(w, j)' \in Nat
          BY MaxRetryAssumption DEF Weight
        <4>4. attempts'[j] \in Nat /\ RunsDue(j)' \in Nat
          <5>1. BaseInv'
            BY <1>1, BaseStep DEF Next, HandlerNext
          <5>2. (BaseInv => RunsDue(j) \in 0 .. MaxRetry)'
            BY RunsDueType, PTL
          <5>3. TypeOK'
            BY <5>1 DEF BaseInv, TaskInv
          <5> QED
            BY <5>1, <5>2, <5>3, MaxRetryAssumption DEF TypeOK
        <4> HIDE DEF Weight, RunsDue
        <4> QED
          BY <1>5, <1>8, <4>2, <4>3, <4>4
      <3>2. CASE w \in connected
        <4>1. Weight(w, j) = 0 /\ Weight(w, j)' = 0
          BY <1>2, <3>2 DEF Weight, StaleEarly, StaleLate
        <4>2. attempts'[j] + RunsDue(j)'
                <= attempts[j] + RunsDue(j) + (IF faults' = faults THEN 0 ELSE 1)
          <5>1. CASE Deliver(w, j)
            <6>1. /\ task[j] = "ready" /\ task'[j] = "unacked" /\ holder'[j] = w
                  /\ handler'[w][j].stage = "load" /\ row' = row
                  /\ attempts' = attempts /\ faults' = faults
              BY <1>1, <5>1, DeliverEffect
            <6>2. RunsDue(j) = RowDue(j) /\ RowDue(j)' = RowDue(j)
              BY <6>1 DEF RunsDue, RowDue
            <6>3. RunsDue(j)' = HandlerDue(w, j)'
              BY <6>1 DEF RunsDue
            <6>4. HandlerDue(w, j)' = RowDue(j)'
              BY <6>1 DEF HandlerDue
            <6> QED
              BY <1>5, <1>8, <6>1, <6>2, <6>3, <6>4
          <5>2. CASE HandlerStep(w, j)
            <6>1. handler[w][j].stage # "idle"
              BY <5>2 DEF HandlerStep, Load, Start, Generate, Store, Fail, Succeed,
                          Ack, Nack, Settle, Goto
            <6>2. task[j] = "unacked" /\ holder[j] = w
              BY <1>1, <3>2, <6>1 DEF BaseInv, TaskInv, HandlerHoldsTask
            <6> QED
              BY <1>1, <5>2, <6>2, HolderRuns
          <5> QED
            BY <5>1, <5>2
        <4>3. RunsDue(j)' \in Nat /\ attempts'[j] \in Nat
          <5>1. BaseInv'
            BY <1>1, BaseStep DEF Next, HandlerNext
          <5>2. (BaseInv => RunsDue(j) \in 0 .. MaxRetry)'
            BY RunsDueType, PTL
          <5>3. TypeOK'
            BY <5>1 DEF BaseInv, TaskInv
          <5> QED
            BY <5>1, <5>2, <5>3, MaxRetryAssumption DEF TypeOK
        <4> HIDE DEF Weight, RunsDue
        <4> QED
          BY <1>5, <1>8, <4>1, <4>2, <4>3
      <3> QED
        BY <3>1, <3>2
    <2>3. Weight(w, j) \in Nat /\ Weight(w, j)' \in Nat
      BY MaxRetryAssumption DEF Weight
    <2>4. attempts'[j] \in Nat /\ RunsDue(j)' \in Nat
      <3>1. BaseInv'
        BY <1>1, BaseStep DEF Next, HandlerNext
      <3>2. (BaseInv => RunsDue(j) \in 0 .. MaxRetry)'
        BY RunsDueType, PTL
      <3>3. TypeOK'
        BY <3>1 DEF BaseInv, TaskInv
      <3> QED
        BY <3>1, <3>2, <3>3, MaxRetryAssumption DEF TypeOK
    <2> HIDE DEF RunsDue, StaleCost, DoubtCost, Allowance, Weight
    <2>5. attempts[j] + RunsDue(j) + StaleCost(j) + DoubtCost(j) <= Allowance
      BY <1>1, <1>8 DEF RunsPaid
    <2>6. attempts'[j] + RunsDue(j)' + StaleCost(j)' + DoubtCost(j)' <= Allowance'
      BY <1>3, <1>4, <1>5, <1>6, <1>8, <2>1, <2>2, <2>3, <2>4, <2>5
    <2> QED
      BY <1>8, <2>6 DEF RunsPaid
  <1> QED
    BY <1>7, <1>8

LEMMA RunsWorker ==
    ASSUME RunsInv, NEW w \in Workers,
           \/ WorkerStart(w) \/ WorkerStop(w) \/ Disconnect(w)
           \/ WorkerExit(w) \/ WorkerCrash(w),
           NEW j \in Jobs
    PROVE  RunsPaid(j)'
  <1>1. BaseInv /\ TypeOK /\ RunsPaid(j)
    BY DEF RunsInv, BaseInv, TaskInv
  <1>2. /\ UNCHANGED <<row, submit, attempts>>
        /\ \A v \in Workers \ {w}, i \in Jobs : handler'[v][i] = handler[v][i]
        /\ \A v \in Workers \ {w} : v \in connected' <=> v \in connected
        /\ \/ UNCHANGED <<task[j], holder[j]>>
           \/ /\ task[j] = "unacked" /\ holder[j] = w
              /\ task'[j] = "ready" /\ holder'[j] = Nobody
    BY <1>1, WorkerFrame
  <1>3. /\ attempts[j] \in Nat /\ RunsDue(j) \in Nat /\ StaleCost(j) \in Nat
        /\ MaxRetry \in Nat /\ MaxRetry >= 1
    BY <1>1, CountersType, RunsDueType, StaleFinite, MaxRetryAssumption
  <1>4. /\ StaleCost(j)' \in Nat
        /\ StaleCost(j)' + Weight(w, j) = StaleCost(j) + Weight(w, j)'
    BY <1>1, <1>2, StaleChanges DEF StaleEarly, StaleLate
  <1>5. BaseInv' /\ TypeOK' /\ RunsDue(j)' \in Nat
    <2>1. BaseInv'
      BY <1>1, BaseStep DEF Next, WorkerNext
    <2>2. (BaseInv => RunsDue(j) \in 0 .. MaxRetry)'
      BY RunsDueType, PTL
    <2> QED
      BY <1>3, <2>1, <2>2 DEF BaseInv, TaskInv
  <1>6. Weight(w, j) \in Nat /\ Weight(w, j)' \in Nat
    BY <1>3 DEF Weight
  \* What w did for the job, before and after.
  <1>7. task[j] = "unacked" => holder[j] \in Workers /\ holder[j] \in connected
    BY <1>1 DEF BaseInv, UnackedHasHandler, TypeOK
  <1>8. RowDue(j)' = RowDue(j)
    BY <1>2 DEF RowDue
  <1>9. ASSUME UNCHANGED <<task[j], holder[j]>>,
               task[j] = "unacked" => handler'[holder[j]][j] = handler[holder[j]][j]
        PROVE  RunsDue(j)' = RunsDue(j)
    BY <1>1, <1>2, <1>5, <1>9, OverwrittenRow
  <1>10. ASSUME task[j] = "unacked", holder[j] = w, task'[j] = "ready"
         PROVE  /\ RunsDue(j) = HandlerDue(w, j)
                /\ RunsDue(j)' = RowDue(j)
                /\ RunsDue(j)' <= RunsDue(j) + 1
                /\ handler[w][j].stage \in {"load", "mark", "idle", "ack", "nack"}
                       => RunsDue(j)' <= RunsDue(j)
    <2>1. RunsDue(j) = HandlerDue(w, j)
      BY <1>10 DEF RunsDue
    <2>2. RunsDue(j)' = RowDue(j)
      BY <1>8, <1>10 DEF RunsDue
    <2>3. row[j].retry \in Nat /\ handler[w][j].retry \in Nat
      BY <1>1, CountersType
    <2>4. /\ Room(row[j].retry) \in 0 .. MaxRetry
          /\ Room(handler[w][j].retry) \in 0 .. MaxRetry
          /\ Room(row[j].retry + 1) \in 0 .. MaxRetry
          /\ Room(handler[w][j].retry + 1) \in 0 .. MaxRetry
      BY <2>3, RoomType
    <2>5. /\ RowDue(j) \in 0 .. MaxRetry
          /\ RowDue(j) <= Larger(1, Room(row[j].retry))
          /\ RowDue(j) <= Room(row[j].retry + 1) + 1
      BY <1>1, RowDueType
    <2>6. \/ HandlerDue(w, j) = RowDue(j)
          \/ HandlerDue(w, j) = Larger(1, Larger(Room(row[j].retry),
                                                 Room(handler[w][j].retry)))
          \/ /\ handler[w][j].stage \in {"llm", "store", "fail", "succeed"}
             /\ \/ HandlerDue(w, j) = Larger(Room(row[j].retry + 1),
                                            Room(handler[w][j].retry + 1))
                \/ HandlerDue(w, j) = Room(row[j].retry + 1)
      BY DEF HandlerDue
    <2> HIDE DEF RowDue, Room, HandlerDue, RunsDue
    <2> QED
      BY <2>1, <2>2, <2>4, <2>5, <2>6 DEF Larger
  <1>11. CASE WorkerStart(w)
    <2>1. /\ \A i \in Jobs : handler[w][i].stage = "idle"
          /\ UNCHANGED <<handler, task, holder, faults>>
      BY <1>1, <1>11, WorkerEffect DEF BaseInv, TaskInv, HandlersLive
    <2>2. Weight(w, j) = 0 /\ Weight(w, j)' = 0
      BY <2>1 DEF Weight, StaleEarly, StaleLate
    <2>3. RunsDue(j)' = RunsDue(j)
      BY <1>9, <2>1
    <2>4. Allowance' = Allowance /\ DoubtCost(j)' = DoubtCost(j)
      BY <1>1, <1>2, <2>1, AllowanceGrows DEF DoubtCost
    <2> QED
      BY <1>1, <1>2, <1>3, <1>4, <2>2, <2>3, <2>4 DEF RunsPaid
  <1>12. CASE WorkerStop(w)
    <2>1. UNCHANGED <<handler, task, holder, connected>> /\ Fault("stop")
      BY <1>1, <1>12, WorkerEffect
    <2>2. Weight(w, j)' = Weight(w, j)
      BY <2>1 DEF Weight, StaleEarly, StaleLate
    <2>3. RunsDue(j)' = RunsDue(j)
      BY <1>9, <2>1
    <2>4. Allowance' = Allowance /\ DoubtCost(j)' = DoubtCost(j)
      BY <1>1, <1>2, <2>1, AllowanceGrows DEF DoubtCost
    <2> HIDE DEF RunsDue, StaleCost, Allowance, DoubtCost, Weight
    <2>5. StaleCost(j)' = StaleCost(j)
      BY <1>3, <1>4, <1>6, <2>2
    <2> QED
      BY <1>1, <1>2, <2>3, <2>4, <2>5 DEF RunsPaid
  <1>13. CASE Disconnect(w)
    <2>1. /\ w \in connected /\ w \notin connected' /\ handler' = handler
          /\ Requeue(w) /\ Fault("disconnect")
      BY <1>1, <1>13, WorkerEffect
    <2>2. /\ Weight(w, j) = 0
          /\ Weight(w, j)' = IF handler[w][j].stage \in {"load", "mark"}
                             THEN MaxRetry + 1
                             ELSE IF handler[w][j].stage \in {"llm", "store", "fail"}
                             THEN MaxRetry - 1 ELSE 0
      BY <2>1 DEF Weight, StaleEarly, StaleLate
    <2>3. Allowance' = Allowance + MaxRetry + 1 /\ DoubtCost(j)' = DoubtCost(j)
      BY <1>1, <1>2, <2>1, AllowanceGrows DEF DoubtCost
    <2>4. DoubtCost(j) \in Nat /\ Allowance \in Nat
      BY <1>1, <1>3, AllowanceGrows DEF DoubtCost
    <2>5. RunsDue(j)' + Weight(w, j)' <= RunsDue(j) + MaxRetry + 1
      <3>1. CASE UNCHANGED <<task[j], holder[j]>>
        <4>1. handler[w][j].stage = "idle"
          <5>1. task'[j] # "unacked" \/ holder'[j] # w
            BY <1>1, <2>1, <3>1, RequeueEffect
          <5> QED
            BY <1>1, <2>1, <3>1, <5>1 DEF BaseInv, TaskInv, HandlerHoldsTask
        <4>2. Weight(w, j)' = 0
          BY <2>2, <4>1
        <4>3. RunsDue(j)' = RunsDue(j)
          BY <1>9, <2>1, <3>1
        <4> HIDE DEF RunsDue, Weight
        <4> QED
          BY <1>3, <4>2, <4>3
      <3>2. CASE task[j] = "unacked" /\ holder[j] = w /\ task'[j] = "ready"
        <4> HIDE DEF RunsDue, Weight, HandlerDue, RowDue
        <4> QED
          BY <1>3, <1>5, <1>10, <2>2, <3>2
      <3> QED
        BY <1>2, <3>1, <3>2
    <2> HIDE DEF RunsDue, StaleCost, Allowance, DoubtCost, Weight
    <2> QED
      BY <1>1, <1>2, <1>3, <1>4, <1>5, <1>6, <2>2, <2>3, <2>4, <2>5 DEF RunsPaid
  <1>14. CASE WorkerExit(w)
    <2>1. /\ handler[w][j].stage = "idle" /\ UNCHANGED <<handler, faults>>
      BY <1>1, <1>14, WorkerEffect
    <2>2. Weight(w, j) = 0 /\ Weight(w, j)' = 0
      BY <2>1 DEF Weight, StaleEarly, StaleLate
    <2>3. UNCHANGED <<task[j], holder[j]>>
      BY <1>1, <1>2, <2>1 DEF BaseInv, UnackedHasHandler
    <2>4. RunsDue(j)' = RunsDue(j)
      BY <1>9, <2>1, <2>3
    <2>5. Allowance' = Allowance /\ DoubtCost(j)' = DoubtCost(j)
      BY <1>1, <1>2, <2>1, AllowanceGrows DEF DoubtCost
    <2> HIDE DEF RunsDue, StaleCost, Allowance, DoubtCost, Weight
    <2> QED
      BY <1>1, <1>2, <1>3, <1>4, <2>2, <2>4, <2>5 DEF RunsPaid
  <1>15. CASE WorkerCrash(w)
    <2>1. handler'[w][j].stage = "idle" /\ Requeue(w) /\ Fault("crash")
      BY <1>1, <1>15, WorkerEffect
    <2>2. Weight(w, j)' = 0
      BY <2>1 DEF Weight, StaleEarly, StaleLate
    <2>3. Allowance' = Allowance + 1 /\ DoubtCost(j)' = DoubtCost(j)
      BY <1>1, <1>2, <2>1, AllowanceGrows DEF DoubtCost
    <2>4. DoubtCost(j) \in Nat /\ Allowance \in Nat
      BY <1>1, <1>3, AllowanceGrows DEF DoubtCost
    <2>5. RunsDue(j)' <= RunsDue(j) + 1
      <3>1. CASE UNCHANGED <<task[j], holder[j]>>
        <4>1. task[j] # "unacked" \/ holder[j] # w
          BY <1>1, <2>1, <3>1, RequeueEffect
        <4>2. RunsDue(j)' = RunsDue(j)
          BY <1>2, <1>7, <1>9, <3>1, <4>1
        <4> HIDE DEF RunsDue
        <4> QED
          BY <1>3, <4>2
      <3>2. CASE task[j] = "unacked" /\ holder[j] = w /\ task'[j] = "ready"
        BY <1>10, <3>2
      <3> QED
        BY <1>2, <3>1, <3>2
    <2> HIDE DEF RunsDue, StaleCost, Allowance, DoubtCost, Weight
    <2> QED
      BY <1>1, <1>2, <1>3, <1>4, <1>5, <1>6, <2>2, <2>3, <2>4, <2>5 DEF RunsPaid
  <1> QED
    BY <1>11, <1>12, <1>13, <1>14, <1>15

\* Steps of the API and of the broker: no handler and no connection changes.
LEMMA RunsElsewhere ==
    ASSUME RunsInv, BaseInv', NEW j \in Jobs,
           UNCHANGED <<handler, connected, attempts[j], holder[j]>>,
           RunsDue(j)' + DoubtCost(j)' + Allowance
               <= RunsDue(j) + DoubtCost(j) + Allowance'
    PROVE  RunsPaid(j)'
  <1>1. BaseInv /\ TypeOK /\ RunsPaid(j)
    BY DEF RunsInv, BaseInv, TaskInv
  <1>2. StaleCost(j)' = StaleCost(j)
    BY StaleKept DEF StaleEarly, StaleLate
  <1>3. /\ attempts[j] \in Nat /\ RunsDue(j) \in Nat /\ StaleCost(j) \in Nat
        /\ MaxRetry \in Nat /\ Allowance \in Nat /\ DoubtCost(j) \in Nat
    BY <1>1, CountersType, RunsDueType, StaleFinite, AllowanceGrows,
       MaxRetryAssumption DEF DoubtCost
  <1>4. RunsDue(j)' \in Nat /\ DoubtCost(j)' \in Nat /\ Allowance' \in Nat
    <2>1. (BaseInv => RunsDue(j) \in 0 .. MaxRetry)'
      BY RunsDueType, PTL
    <2>2. (TypeOK => Allowance \in Nat)'
      BY AllowanceGrows, PTL
    <2>3. TypeOK'
      BY DEF BaseInv, TaskInv
    <2> QED
      BY <1>3, <2>1, <2>2, <2>3, MaxRetryAssumption DEF DoubtCost
  <1> HIDE DEF RunsDue, StaleCost, DoubtCost, Allowance
  <1> QED
    BY <1>1, <1>2, <1>3, <1>4 DEF RunsPaid

LEMMA RunsSubmit ==
    ASSUME RunsInv, BaseInv', NEW i \in Jobs,
           SubmitRefuse(i) \/ SubmitCreate(i) \/ SubmitStep(i), NEW j \in Jobs
    PROVE  RunsPaid(j)'
  <1>1. BaseInv /\ TypeOK /\ TypeOK' /\ SyncInv /\ SentOnce
    BY DEF RunsInv, BaseInv, TaskInv
  <1>2. /\ UNCHANGED <<task, holder, handler, connected, attempts>>
        /\ \A k \in Jobs \ {i} : UNCHANGED <<row[k], submit[k]>>
    BY <1>1, SubmitFrame
  <1>3. /\ RunsDue(j) \in 0 .. MaxRetry /\ RunsDue(j)' \in 0 .. MaxRetry
        /\ MaxRetry \in Nat /\ Allowance \in Nat
    <2>1. (BaseInv => RunsDue(j) \in 0 .. MaxRetry)'
      BY RunsDueType, PTL
    <2> QED
      BY <1>1, <2>1, RunsDueType, AllowanceGrows
  <1>4. row'[j] = row[j] => RunsDue(j)' = RunsDue(j)
    <2>1. task[j] = "unacked" => handler'[holder[j]][j] = handler[holder[j]][j]
      BY <1>2
    <2> QED
      BY <1>1, <1>2, <2>1, OverwrittenRow
  <1>5. task[j] = "none" => RunsDue(j)' = RunsDue(j)
    BY <1>2 DEF RunsDue
  <1>6. submit[j] = "rejected" => submit'[j] = "rejected"
    BY <1>1, <1>2 DEF SubmitStep, SubmitRefuse, SubmitCreate, Publish, PublishError,
       AwaitConfirm, AwaitFails, SubmitFails, Progress
  <1>7. CASE SubmitFails(i) /\ i = j
    <2>1. /\ submit[j] = "unpublished" /\ submit'[j] = "rejected"
          /\ faults' = faults \/ Fault("db")
      BY <1>1, <1>7 DEF SubmitFails, Progress, NoFault, TypeOK
    <2>2. /\ Doubt' = Doubt
          /\ Allowance' \in {Allowance, Allowance + 1}
      BY <1>1, <2>1, AllowanceGrows
    <2>3. DoubtCost(j)' = 0 /\ DoubtCost(j) = IF Doubt THEN MaxRetry ELSE 0
      BY <2>1 DEF DoubtCost
    <2>4. ~Doubt => task[j] = "none"
      <3>1. faults["timeout"] \in Nat /\ faults["publisher"] \in Nat
        BY <1>1 DEF TypeOK, FaultKinds
      <3> QED
        BY <1>1, <2>1, <3>1 DEF Doubt, SyncInv, KnowsRefusal
    <2>5. ~Doubt => RunsDue(j)' = RunsDue(j)
      BY <1>5, <2>4
    <2> HIDE DEF RunsDue, DoubtCost, Allowance, Doubt
    <2>6. RunsDue(j)' + DoubtCost(j)' + Allowance
            <= RunsDue(j) + DoubtCost(j) + Allowance'
      BY <1>3, <2>2, <2>3, <2>5
    <2> QED
      BY <1>2, <2>6, RunsElsewhere
  <1>8. CASE ~(SubmitFails(i) /\ i = j)
    <2>1. RunsDue(j)' = RunsDue(j)
      <3>1. CASE SubmitCreate(i) /\ i = j
        <4>1. submit[j] = "idle"
          BY <3>1 DEF SubmitCreate, Progress
        <4> QED
          BY <1>1, <1>5, <4>1 DEF SentOnce
      <3>2. CASE ~(SubmitCreate(i) /\ i = j)
        <4>1. row'[j] = row[j]
          BY <1>2, <1>8, <3>2 DEF SubmitStep, SubmitRefuse, Publish, PublishError,
             AwaitConfirm, AwaitFails
        <4> QED
          BY <1>4, <4>1
      <3> QED
        BY <3>1, <3>2
    <2>2. faults' = faults \/ \E k \in {"db", "send", "timeout"} : Fault(k)
      BY <1>1, SubmitFrame
    <2>3. \/ Doubt' = Doubt /\ Allowance' \in {Allowance, Allowance + 1}
          \/ Doubt' /\ Allowance' = Allowance + (IF Doubt THEN 0 ELSE MaxRetry)
      BY <1>1, <2>2, AllowanceGrows
    <2>4. DoubtCost(j)' + Allowance <= DoubtCost(j) + Allowance'
      <3>1. /\ DoubtCost(j) = IF Doubt /\ submit[j] # "rejected" THEN MaxRetry ELSE 0
            /\ DoubtCost(j)' = IF Doubt' /\ submit'[j] # "rejected" THEN MaxRetry ELSE 0
        BY DEF DoubtCost
      <3> HIDE DEF DoubtCost, Allowance, Doubt
      <3> QED
        BY <1>3, <1>6, <2>3, <3>1
    <2>5. DoubtCost(j) \in Nat /\ DoubtCost(j)' \in Nat /\ Allowance' \in Nat
      <3>1. Allowance' \in Nat
        <4> HIDE DEF Allowance
        <4> QED
          BY <1>3, <2>3
      <3> QED
        BY <1>3, <3>1 DEF DoubtCost
    <2> HIDE DEF RunsDue, DoubtCost, Allowance, Doubt
    <2>6. RunsDue(j)' + DoubtCost(j)' + Allowance
            <= RunsDue(j) + DoubtCost(j) + Allowance'
      BY <1>3, <2>1, <2>4, <2>5
    <2> QED
      BY <1>2, <2>6, RunsElsewhere
  <1> QED
    BY <1>7, <1>8

LEMMA RunsApiBroker ==
    ASSUME RunsInv, BaseInv', PublisherLost \/ ApiCrash \/ BrokerNext, NEW j \in Jobs
    PROVE  RunsPaid(j)'
  <1>1. BaseInv /\ TypeOK /\ TaskInv
    BY DEF RunsInv, BaseInv, TaskInv
  <1>2. /\ UNCHANGED <<row, holder, handler, connected, attempts>>
        /\ \/ task'[j] = task[j]
           \/ task[j] = "none" /\ task'[j] = "ready"
        /\ \/ faults' = faults
           \/ \E k \in {"publisher", "api", "nack"} : Fault(k)
    BY <1>1, ApiBrokerFrame
  <1>3. /\ RunsDue(j) \in 0 .. MaxRetry /\ RunsDue(j)' \in 0 .. MaxRetry
        /\ MaxRetry \in Nat /\ Allowance \in Nat
    <2>1. (BaseInv => RunsDue(j) \in 0 .. MaxRetry)'
      BY RunsDueType, PTL
    <2> QED
      BY <1>1, <2>1, RunsDueType, AllowanceGrows
  <1>4. RunsDue(j)' <= RunsDue(j)
    <2>1. CASE task'[j] = task[j]
      <3>1. RunsDue(j)' = RunsDue(j)
        BY <1>2, <2>1 DEF RunsDue, RowDue, HandlerDue
      <3> QED
        BY <1>3, <3>1
    <2>2. CASE task[j] = "none"
      <3>1. RunsDue(j) = MaxRetry
        BY <2>2 DEF RunsDue
      <3> QED
        BY <1>3, <3>1
    <2> QED
      BY <1>2, <2>1, <2>2
  <1>5. submit'[j] = "rejected" <=> submit[j] = "rejected"
    BY DEF PublisherLost, ApiCrash, BrokerNext, BrokerAccept, BrokerRefuse, InSubmit
  <1>6. \/ Doubt' = Doubt /\ Allowance' = Allowance
        \/ Doubt' /\ Allowance' = Allowance + (IF Doubt THEN 0 ELSE MaxRetry)
    BY <1>1, <1>2, AllowanceGrows
  <1>7. /\ DoubtCost(j) = IF Doubt /\ submit[j] # "rejected" THEN MaxRetry ELSE 0
        /\ DoubtCost(j)' = IF Doubt' /\ submit'[j] # "rejected" THEN MaxRetry ELSE 0
    BY DEF DoubtCost
  <1> HIDE DEF RunsDue, DoubtCost, Allowance, Doubt
  <1>8. RunsDue(j)' + DoubtCost(j)' + Allowance
          <= RunsDue(j) + DoubtCost(j) + Allowance'
    BY <1>3, <1>4, <1>5, <1>6, <1>7
  <1> QED
    BY <1>2, <1>8, RunsElsewhere

LEMMA RunsStep == RunsInv /\ [Next]_vars => RunsInv'
  <1> SUFFICES ASSUME RunsInv, [Next]_vars PROVE RunsInv'
    OBVIOUS
  <1>1. BaseInv' /\ SyncInv'
    BY BaseStep, SyncStep DEF RunsInv
  <1> SUFFICES ASSUME NEW j \in Jobs PROVE RunsPaid(j)'
    BY <1>1 DEF RunsInv
  <1>2. CASE SubmitNext
    BY <1>1, <1>2, RunsSubmit DEF SubmitNext
  <1>3. CASE PublisherLost \/ ApiCrash \/ BrokerNext
    BY <1>1, <1>3, RunsApiBroker
  <1>4. CASE HandlerNext
    BY <1>4, RunsHandler DEF HandlerNext
  <1>5. CASE WorkerNext
    BY <1>5, RunsWorker DEF WorkerNext
  <1>6. CASE UNCHANGED vars
    <2>1. UNCHANGED <<row, submit, task, holder, handler, connected, attempts, faults>>
      BY <1>6 DEF vars, api, broker, procs, history
    <2>2. /\ RunsDue(j)' = RunsDue(j) /\ DoubtCost(j)' = DoubtCost(j)
          /\ Allowance' = Allowance
      BY <2>1 DEF RunsDue, RowDue, HandlerDue, DoubtCost, Doubt, Allowance,
                  Resets, Redeliveries
    <2>3. /\ RunsDue(j) \in Nat /\ DoubtCost(j) \in Nat /\ Allowance \in Nat
      <3>1. BaseInv /\ TypeOK
        BY DEF RunsInv, BaseInv, TaskInv
      <3> QED
        BY <3>1, RunsDueType, AllowanceGrows DEF DoubtCost
    <2> HIDE DEF RunsDue, DoubtCost, Allowance
    <2>4. RunsDue(j)' + DoubtCost(j)' + Allowance
            <= RunsDue(j) + DoubtCost(j) + Allowance'
      BY <2>2, <2>3
    <2> QED
      BY <1>1, <2>1, <2>4, RunsElsewhere
  <1> QED
    BY <1>2, <1>3, <1>4, <1>5, <1>6 DEF Next

\* A job costs no more LLM runs than MaxRetry and the faults it met allow,
\* with any number of workers, stale handlers and late confirmations.
THEOREM AttemptsAreBounded == Spec => []AttemptsBounded
  <1>1. Init => RunsInv
    <2> SUFFICES ASSUME Init, NEW j \in Jobs PROVE RunsPaid(j)
      BY BaseInit, SyncInit DEF RunsInv
    <2>1. Early(j) = {} /\ Late(j) = {}
      BY DEF Init, NoWork, Early, Late, StaleEarly, StaleLate
    <2>2. StaleCost(j) = 0
      <3>1. Cardinality(Early(j)) = 0 /\ Cardinality(Late(j)) = 0
        BY <2>1, FS_EmptySet
      <3> QED
        BY <3>1, MaxRetryAssumption DEF StaleCost
    <2>3. attempts[j] = 0 /\ RunsDue(j) = MaxRetry /\ DoubtCost(j) = 0
      BY DEF Init, RunsDue, DoubtCost, Doubt, FaultKinds
    <2>4. Allowance = MaxRetry
      <3>1. Resets = 0 /\ Redeliveries = 0
        BY DEF Init, Resets, Redeliveries, FaultKinds
      <3> QED
        BY <3>1, MaxRetryAssumption DEF Allowance
    <2> QED
      BY <2>2, <2>3, <2>4, MaxRetryAssumption DEF RunsPaid
  <1>2. RunsInv => AttemptsBounded
    <2> SUFFICES ASSUME RunsInv, NEW j \in Jobs PROVE attempts[j] <= Allowance
      BY DEF AttemptsBounded, Allowance
    <2>1. BaseInv /\ TypeOK /\ RunsPaid(j)
      BY DEF RunsInv, BaseInv, TaskInv
    <2>2. /\ attempts[j] \in Nat /\ RunsDue(j) \in Nat /\ StaleCost(j) \in Nat
          /\ DoubtCost(j) \in Nat /\ Allowance \in Nat
      BY <2>1, CountersType, RunsDueType, StaleFinite, AllowanceGrows DEF DoubtCost
    <2> HIDE DEF RunsDue, StaleCost, DoubtCost, Allowance
    <2> QED
      BY <2>1, <2>2 DEF RunsPaid
  <1> QED
    BY <1>1, <1>2, RunsStep, PTL DEF Spec

-----------------------------------------------------------------------------
(* A result stays. As long as no connection was lost, every handler that    *)
(* runs holds its task, so there is at most one on a job; and one that has  *)
(* passed the check of the row found no result there.                       *)

OnTheWay == {"mark", "llm", "store", "fail", "succeed"}

OneHandler ==
    /\ live = connected
    /\ \A j \in Jobs :
           /\ submit[j] = "idle" => row[j] = NoRow
           /\ Settled(j) => \A w \in Workers : handler[w][j].stage \notin OnTheWay

ResultInv == TaskInv /\ (faults["disconnect"] = 0 => OneHandler)

\* Under OneHandler, a job that somebody works on has one handler.
LEMMA Alone ==
    ASSUME TaskInv, live = connected, NEW w \in Workers, NEW j \in Jobs,
           handler[w][j].stage # "idle"
    PROVE  /\ w \in connected /\ task[j] = "unacked"
           /\ submit[j] \notin {"idle", "refused", "created"}
           /\ \A v \in Workers \ {w} : handler[v][j].stage = "idle"
  <1>1. \A v \in Workers : handler[v][j].stage # "idle" =>
            v \in connected /\ task[j] = "unacked" /\ holder[j] = v
    BY DEF TaskInv, HandlersLive, HandlerHoldsTask
  <1> QED
    BY <1>1 DEF TaskInv, SentOnce

LEMMA ResultKept ==
    ASSUME ResultInv, TaskInv', faults'["disconnect"] = 0 => faults["disconnect"] = 0,
           live = connected => live' = connected',
           \A j \in Jobs : /\ submit'[j] = "idle" => submit[j] = "idle" /\ row'[j] = row[j]
                           /\ row'[j] = row[j] \/ ~Settled(j)',
           \A w \in Workers, j \in Jobs :
               handler'[w][j] = handler[w][j] \/ handler'[w][j].stage \notin OnTheWay
    PROVE  ResultInv'
  <1>1. \A j \in Jobs : Settled(j)' => Settled(j)
    BY DEF Settled
  <1> QED
    BY <1>1 DEF ResultInv, OneHandler

LEMMA ResultHandler ==
    ASSUME ResultInv, TaskInv', NEW w \in Workers, NEW j \in Jobs,
           Deliver(w, j) \/ HandlerStep(w, j)
    PROVE  /\ ResultInv'
           /\ faults["disconnect"] = 0 /\ Settled(j) => row' = row
  <1>1. TypeOK /\ TypeOK' /\ TaskInv
    BY DEF ResultInv, TaskInv
  <1>2. /\ UNCHANGED <<submit, live, connected>>
        /\ \A v \in Workers, k \in Jobs :
               v # w \/ k # j => handler'[v][k] = handler[v][k]
        /\ \A k \in Jobs \ {j} : row'[k] = row[k]
    BY <1>1, HandlerFrame
  <1>3. faults'["disconnect"] = faults["disconnect"]
    BY <1>1, HandlerFrame, FaultEffect DEF FaultKinds
  <1> SUFFICES ASSUME faults["disconnect"] = 0, OneHandler
               PROVE  OneHandler' /\ (Settled(j) => row' = row)
    BY <1>3 DEF ResultInv
  <1>4. CASE Deliver(w, j)
    <2>1. row' = row /\ handler'[w][j].stage = "load"
      BY <1>1, <1>4, DeliverEffect
    <2>2. \A k \in Jobs : Settled(k)' <=> Settled(k)
      BY <2>1 DEF Settled
    <2> QED
      BY <1>2, <2>1, <2>2 DEF OneHandler, OnTheWay
  <1>5. CASE HandlerStep(w, j)
    <2>1. handler[w][j].stage # "idle"
      BY <1>5 DEF HandlerStep, Load, Start, Generate, Store, Fail, Succeed,
                  Ack, Nack, Settle, Goto
    <2>2. /\ submit[j] # "idle"
          /\ \A v \in Workers \ {w} : handler[v][j].stage = "idle"
      BY <1>1, <2>1, Alone DEF OneHandler
    <2>3. \A k \in Jobs \ {j} : Settled(k)' <=> Settled(k)
      BY <1>2 DEF Settled
    <2>4. row' = row => (Settled(j)' <=> Settled(j))
      BY DEF Settled
    <2>5. Settled(j) => handler[w][j].stage \notin OnTheWay
      BY DEF OneHandler
    <2>6. handler[w][j].stage \in OnTheWay \/ row' = row
      BY <1>1, <1>5, LoadEffect, SettleEffect, StartEffect, FailEffect, SucceedEffect,
         GenerateEffect, StoreEffect DEF HandlerStep, Ack, Nack, TaskState, OnTheWay
    <2>7. Settled(j)' => handler'[w][j].stage \notin OnTheWay
      <3>1. CASE Load(w, j)
        BY <1>1, <2>4, <3>1, LoadEffect DEF OnTheWay, NothingToDo, Settled
      <3>2. CASE Start(w, j)
        BY <1>1, <2>4, <2>5, <3>2, StartEffect DEF OnTheWay, Settled
      <3>3. CASE Generate(w, j)
        BY <1>1, <2>4, <2>5, <3>3, GenerateEffect DEF OnTheWay
      <3>4. CASE Store(w, j)
        BY <1>1, <2>4, <2>5, <3>4, StoreEffect DEF OnTheWay
      <3>5. CASE Fail(w, j)
        BY <1>1, <3>5, FailEffect DEF OnTheWay
      <3>6. CASE Succeed(w, j)
        BY <1>1, <3>6, SucceedEffect DEF OnTheWay
      <3>7. CASE Ack(w, j) \/ Nack(w, j)
        BY <1>1, <3>7, SettleEffect DEF Ack, Nack, TaskState, OnTheWay
      <3> QED
        BY <1>5, <3>1, <3>2, <3>3, <3>4, <3>5, <3>6, <3>7 DEF HandlerStep
    <2> HIDE DEF Settled
    <2>8. OneHandler'
      BY <1>2, <2>2, <2>3, <2>7 DEF OneHandler, OnTheWay
    <2> QED
      BY <2>5, <2>6, <2>8
  <1> QED
    BY <1>4, <1>5

\* What the steps other than a handler's may do to a row.
RowOf(j) ==
    Settled(j) => \/ row'[j] = row[j]
                  \/ submit[j] = "unpublished" /\ submit'[j] = "rejected"
                  \/ faults["disconnect"] > 0

LEMMA ResultSubmit ==
    ASSUME ResultInv, TaskInv', NEW i \in Jobs,
           SubmitRefuse(i) \/ SubmitCreate(i) \/ SubmitStep(i)
    PROVE  ResultInv' /\ \A j \in Jobs : RowOf(j)
  <1>1. TypeOK /\ TypeOK'
    BY DEF ResultInv, TaskInv
  <1>2. /\ UNCHANGED <<handler, live, connected>>
        /\ \A k \in Jobs \ {i} : UNCHANGED <<row[k], submit[k]>>
    BY <1>1, SubmitFrame
  <1>3. faults'["disconnect"] = faults["disconnect"] /\ faults["disconnect"] \in Nat
    BY <1>1, SubmitFrame, FaultEffect, CountersType DEF FaultKinds, TypeOK
  <1>4. submit'[i] # "idle"
    BY <1>1 DEF SubmitStep, SubmitRefuse, SubmitCreate, Publish, PublishError,
       AwaitConfirm, AwaitFails, SubmitFails, Progress, TypeOK
  <1>5. CASE SubmitCreate(i)
    <2>1. row'[i] = [NoRow EXCEPT !.status = "pending"] /\ submit[i] = "idle"
      BY <1>1, <1>5 DEF SubmitCreate, Progress, TypeOK
    <2>2. row'[i].status = "pending"
      BY <2>1 DEF NoRow
    <2>3. ~Settled(i)'
      BY <2>2 DEF Settled
    <2>4. faults["disconnect"] = 0 => ~Settled(i)
      <3>1. faults["disconnect"] = 0 => row[i] = NoRow
        BY <2>1 DEF ResultInv, OneHandler
      <3>2. NoRow.status = "absent"
        BY DEF NoRow
      <3> QED
        BY <3>1, <3>2 DEF Settled
    <2> HIDE DEF Settled
    <2>5. ResultInv'
      BY <1>2, <1>3, <1>4, <2>3, ResultKept
    <2> QED
      BY <1>2, <1>3, <2>4, <2>5 DEF RowOf
  <1>6. CASE SubmitFails(i)
    <2>1. submit[i] = "unpublished" /\ submit'[i] = "rejected"
      BY <1>1, <1>6 DEF SubmitFails, Progress, TypeOK
    <2>2. \/ row' = row
          \/ row'[i].status = "failed" /\ row'[i].retry = 0
      <3>1. row' = row \/ MarkFailed(i, 0)
        BY <1>6 DEF SubmitFails
      <3> QED
        BY <1>1, <3>1, MarkEffect, 0 \in Nat
    <2>3. row'[i] = row[i] \/ ~Settled(i)'
      BY <2>2, MaxRetryAssumption DEF Settled
    <2> HIDE DEF Settled
    <2>4. ResultInv'
      BY <1>2, <1>3, <1>4, <2>3, ResultKept
    <2> QED
      BY <1>2, <2>1, <2>4 DEF RowOf
  <1>7. CASE ~SubmitCreate(i) /\ ~SubmitFails(i)
    <2>1. row' = row
      BY <1>7 DEF SubmitStep, SubmitRefuse, Publish, PublishError, AwaitConfirm,
         AwaitFails
    <2>2. ResultInv'
      BY <1>2, <1>3, <1>4, <2>1, ResultKept
    <2> QED
      BY <2>1, <2>2 DEF RowOf
  <1> QED
    BY <1>5, <1>6, <1>7

LEMMA ResultStep ==
    ASSUME ResultInv, [Next]_vars
    PROVE  ResultInv' /\ \A j \in Jobs : RowOf(j)
  <1>1. TaskInv /\ TaskInv' /\ TypeOK
    BY TaskStep DEF ResultInv, TaskInv
  <1>2. faults'["disconnect"] = 0 => faults["disconnect"] = 0
    BY <1>1, FaultsGrow DEF FaultKinds
  <1>3. CASE SubmitNext
    BY <1>1, <1>3, ResultSubmit DEF SubmitNext
  <1>4. CASE PublisherLost \/ ApiCrash \/ BrokerNext
    <2>1. UNCHANGED <<row, handler, live, connected>>
      BY <1>1, <1>4, ApiBrokerFrame
    <2>2. \A j \in Jobs : submit'[j] = "idle" => submit[j] = "idle"
      BY <1>4 DEF PublisherLost, ApiCrash, BrokerNext, BrokerAccept, BrokerRefuse
    <2>3. ResultInv'
      BY <1>1, <1>2, <2>1, <2>2, ResultKept
    <2> QED
      BY <2>1, <2>3 DEF RowOf
  <1>5. CASE HandlerNext
    <2> PICK w \in Workers, j \in Jobs : Deliver(w, j) \/ HandlerStep(w, j)
      BY <1>5 DEF HandlerNext
    <2>1. ResultInv' /\ (faults["disconnect"] = 0 /\ Settled(j) => row' = row)
      BY <1>1, ResultHandler
    <2>2. \A k \in Jobs \ {j} : row'[k] = row[k]
      BY <1>1, HandlerFrame
    <2>3. faults["disconnect"] \in Nat
      BY <1>1 DEF TypeOK, FaultKinds
    <2> QED
      BY <2>1, <2>2, <2>3 DEF RowOf
  <1>6. CASE WorkerNext
    <2> PICK w \in Workers : \/ WorkerStart(w) \/ WorkerStop(w) \/ Disconnect(w)
                             \/ WorkerExit(w) \/ WorkerCrash(w)
      BY <1>6 DEF WorkerNext
    <2>1. UNCHANGED <<row, submit>>
      BY <1>1, WorkerFrame
    <2>2. \A v \in Workers, j \in Jobs :
              handler'[v][j] = handler[v][j] \/ handler'[v][j].stage \notin OnTheWay
      BY <1>1, WorkerFrame, WorkerEffect DEF OnTheWay
    <2>3. CASE ~Disconnect(w)
      <3>1. live = connected => live' = connected'
        BY <2>3 DEF WorkerStart, WorkerStop, WorkerExit, WorkerCrash, Leave
      <3>2. ResultInv'
        BY <1>1, <1>2, <2>1, <2>2, <3>1, ResultKept
      <3> QED
        BY <2>1, <3>2 DEF RowOf
    <2>4. CASE Disconnect(w)
      <3>1. faults'["disconnect"] = faults["disconnect"] + 1
            /\ faults["disconnect"] \in Nat
        BY <1>1, <2>4, WorkerEffect, FaultEffect DEF FaultKinds, TypeOK
      <3> QED
        BY <1>1, <2>1, <3>1 DEF ResultInv, RowOf
    <2> QED
      BY <2>3, <2>4
  <1>7. CASE UNCHANGED vars
    <2>1. UNCHANGED <<row, submit, handler, live, connected>>
      BY <1>7 DEF vars, api, procs
    <2> QED
      BY <1>1, <1>2, <2>1, ResultKept DEF RowOf
  <1> QED
    BY <1>3, <1>4, <1>5, <1>6, <1>7 DEF Next

\* A result, once in the row, is overwritten by nobody but a Submit that
\* reports a stored task as failed, or after a worker lost its connection.
THEOREM ResultsStay == Spec => ResultStays
  <1>1. Init => ResultInv
    <2>1. Init => \A j \in Jobs : row[j] = NoRow /\ ~Settled(j)
      BY DEF Init, NoRow, Settled
    <2>2. Init => live = connected
      BY DEF Init
    <2> QED
      BY <2>1, <2>2, TaskInit DEF ResultInv, OneHandler
  <1>2. ResultInv /\ [Next]_vars => ResultInv'
    BY ResultStep
  <1>3. ResultInv /\ [Next]_vars =>
            [\A j \in Jobs : Settled(j) =>
               \/ row'[j] = row[j]
               \/ submit[j] = "unpublished" /\ submit'[j] = "rejected"
               \/ faults["disconnect"] > 0]_vars
    BY ResultStep DEF RowOf
  <1> QED
    BY <1>1, <1>2, <1>3, PTL DEF Spec, ResultStays

-----------------------------------------------------------------------------
(* Work is not lost, in calm weather: as long as no statement failed, no    *)
(* confirmation came late, and no connection was lost, or there is but one  *)
(* worker process, as in the compose file.                                  *)

Calm ==
    /\ faults["db"] = 0 /\ faults["timeout"] = 0
    /\ faults["disconnect"] = 0 \/ \A v, w \in Workers : v = w

Ended(j) == row[j].status \in {"success", "failed"}

NoneLost ==
    /\ faults["disconnect"] = 0 => live = connected
    /\ \A j \in Jobs :
           /\ task[j] = "acked" => Ended(j)
           /\ \A w \in Workers :
                  /\ handler[w][j].stage # "idle" => task[j] \in {"ready", "unacked"}
                  /\ handler[w][j].stage = "ack" => Ended(j)

WorkInv == TaskInv /\ SyncInv /\ (Calm => NoneLost)

\* In calm weather a job has one handler at most.
LEMMA CalmAlone ==
    ASSUME TaskInv, Calm, NoneLost, NEW w \in Workers, NEW j \in Jobs,
           handler[w][j].stage # "idle", NEW v \in Workers, v # w
    PROVE  handler[v][j].stage = "idle"
  BY Alone DEF Calm, NoneLost

LEMMA CalmBefore ==
    ASSUME TypeOK, [Next]_vars, Calm'
    PROVE  Calm
  BY FaultsGrow DEF Calm, FaultKinds

LEMMA WorkKept ==
    ASSUME WorkInv, TaskInv', SyncInv', Calm' => Calm,
           faults'["disconnect"] = 0 /\ live = connected => live' = connected',
           \A j \in Jobs :
               /\ task'[j] = "acked" => task[j] = "acked"
               /\ task[j] \in {"ready", "unacked"} => task'[j] \in {"ready", "unacked"}
               /\ \/ row'[j].status \in {row[j].status, "failed"}
                  \/ task[j] = "none"
               /\ \A w \in Workers :
                      \/ handler'[w][j] = handler[w][j]
                      \/ handler'[w][j].stage = "idle",
           faults'["disconnect"] = 0 => faults["disconnect"] = 0
    PROVE  WorkInv'
  <1> SUFFICES ASSUME Calm, NoneLost PROVE NoneLost'
    BY DEF WorkInv
  <1>1. \A j \in Jobs : task[j] # "none" => (Ended(j) => Ended(j)')
    BY DEF Ended
  <1> HIDE DEF Ended
  <1> QED
    BY <1>1 DEF NoneLost

LEMMA WorkHandler ==
    ASSUME WorkInv, TaskInv', SyncInv', Calm' => Calm,
           NEW w \in Workers, NEW j \in Jobs, Deliver(w, j) \/ HandlerStep(w, j)
    PROVE  WorkInv'
  <1>1. TypeOK /\ TypeOK' /\ TaskInv
    BY DEF WorkInv, TaskInv
  <1>2. /\ UNCHANGED <<live, connected>>
        /\ \A v \in Workers, k \in Jobs :
               v # w \/ k # j => handler'[v][k] = handler[v][k]
        /\ \A k \in Jobs \ {j} : row'[k] = row[k] /\ task'[k] = task[k]
    BY <1>1, HandlerFrame
  <1>3. ~Fault("db") \/ faults'["db"] # 0
    <2>1. "db" \in FaultKinds
      BY DEF FaultKinds
    <2>2. faults["db"] \in Nat
      BY <1>1, <2>1 DEF TypeOK
    <2> QED
      BY <1>1, <2>1, <2>2, FaultEffect
  <1>4. faults'["disconnect"] = faults["disconnect"]
    BY <1>1, HandlerFrame, FaultEffect DEF FaultKinds
  <1> SUFFICES ASSUME Calm, Calm', NoneLost PROVE NoneLost'
    BY DEF WorkInv
  <1>5. ~Fault("db")
    BY <1>3 DEF Calm
  <1>6. \A k \in Jobs \ {j} : Ended(k)' <=> Ended(k)
    BY <1>2 DEF Ended
  <1>7. row' = row => (Ended(j)' <=> Ended(j))
    BY DEF Ended
  <1>8. CASE Deliver(w, j)
    <2>1. /\ row' = row /\ task'[j] = "unacked"
          /\ handler'[w][j].stage = "load"
      BY <1>1, <1>8, DeliverEffect
    <2>2. \A v \in Workers \ {w} : handler'[v][j].stage = handler[v][j].stage
      BY <1>2
    <2> HIDE DEF Ended
    <2> QED
      BY <1>2, <1>4, <1>6, <1>7, <2>1, <2>2 DEF NoneLost
  <1>9. CASE HandlerStep(w, j)
    <2>1. handler[w][j].stage # "idle"
      BY <1>9 DEF HandlerStep, Load, Start, Generate, Store, Fail, Succeed,
                  Ack, Nack, Settle, Goto
    <2>2. \A v \in Workers \ {w} : handler[v][j].stage = "idle"
                                   /\ handler'[v][j].stage = "idle"
      BY <1>1, <1>2, <2>1, CalmAlone
    <2>3. task[j] \in {"ready", "unacked"}
      BY <2>1 DEF NoneLost
    <2>4. /\ task'[j] = "acked" => Ended(j)'
          /\ handler'[w][j].stage # "idle" => task'[j] \in {"ready", "unacked"}
          /\ handler'[w][j].stage = "ack" => Ended(j)'
      <3>1. CASE Load(w, j)
        BY <1>1, <1>5, <2>3, <3>1, LoadEffect DEF NothingToDo, Ended
      <3>2. CASE Start(w, j)
        BY <1>1, <2>3, <3>2, StartEffect
      <3>3. CASE Generate(w, j)
        BY <1>1, <2>3, <3>3, GenerateEffect
      <3>4. CASE Store(w, j)
        BY <1>1, <2>3, <3>4, StoreEffect
      <3>5. CASE Fail(w, j)
        BY <1>1, <1>5, <2>3, <3>5, FailEffect DEF Ended
      <3>6. CASE Succeed(w, j)
        BY <1>1, <1>5, <2>3, <3>6, SucceedEffect DEF Ended
      <3>7. CASE Ack(w, j)
        <4>1. handler[w][j].stage = "ack" /\ handler'[w][j].stage = "idle" /\ row' = row
          BY <1>1, <3>7, SettleEffect DEF Ack, TaskState
        <4> QED
          BY <1>7, <4>1 DEF NoneLost
      <3>8. CASE Nack(w, j)
        <4>1. handler'[w][j].stage = "idle" /\ task'[j] \in {"ready", task[j]}
          BY <1>1, <3>8, SettleEffect DEF Nack, TaskState
        <4> QED
          BY <2>3, <4>1
      <3> QED
        BY <1>9, <3>1, <3>2, <3>3, <3>4, <3>5, <3>6, <3>7, <3>8 DEF HandlerStep
    <2> HIDE DEF Ended
    <2> QED
      BY <1>2, <1>4, <1>6, <2>2, <2>4 DEF NoneLost
  <1> QED
    BY <1>8, <1>9

LEMMA WorkStep == WorkInv /\ [Next]_vars => WorkInv'
  <1> SUFFICES ASSUME WorkInv, [Next]_vars PROVE WorkInv'
    OBVIOUS
  <1>1. TaskInv /\ TaskInv' /\ SyncInv' /\ TypeOK
    BY TaskStep, SyncStep DEF WorkInv, TaskInv
  <1>2. Calm' => Calm
    BY <1>1, CalmBefore
  <1>3. faults'["disconnect"] = 0 => faults["disconnect"] = 0
    BY <1>1, FaultsGrow DEF FaultKinds
  <1>4. CASE SubmitNext
    <2> PICK i \in Jobs : SubmitRefuse(i) \/ SubmitCreate(i) \/ SubmitStep(i)
      BY <1>4 DEF SubmitNext
    <2>1. /\ UNCHANGED <<task, handler, live, connected>>
          /\ \A k \in Jobs \ {i} : row'[k] = row[k]
      BY <1>1, SubmitFrame
    <2>2. row'[i].status \in {row[i].status, "failed"} \/ task[i] = "none"
      <3>1. CASE SubmitCreate(i)
        <4>1. submit[i] = "idle"
          BY <3>1 DEF SubmitCreate, Progress
        <4> QED
          BY <1>1, <4>1 DEF TaskInv, SentOnce
      <3>2. CASE SubmitFails(i)
        <4>1. row' = row \/ MarkFailed(i, 0)
          BY <3>2 DEF SubmitFails
        <4> QED
          BY <1>1, <4>1, MarkEffect, 0 \in Nat
      <3>3. CASE ~SubmitCreate(i) /\ ~SubmitFails(i)
        BY <3>3 DEF SubmitStep, SubmitRefuse, Publish, PublishError, AwaitConfirm,
           AwaitFails
      <3> QED
        BY <3>1, <3>2, <3>3
    <2> QED
      BY <1>1, <1>2, <1>3, <2>1, <2>2, WorkKept
  <1>5. CASE PublisherLost \/ ApiCrash \/ BrokerNext
    BY <1>1, <1>2, <1>3, <1>5, ApiBrokerFrame, WorkKept
  <1>6. CASE HandlerNext
    BY <1>1, <1>2, <1>6, WorkHandler DEF HandlerNext
  <1>7. CASE WorkerNext
    <2> PICK w \in Workers : \/ WorkerStart(w) \/ WorkerStop(w) \/ Disconnect(w)
                             \/ WorkerExit(w) \/ WorkerCrash(w)
      BY <1>7 DEF WorkerNext
    <2>1. \A v \in Workers, j \in Jobs :
              handler'[v][j] = handler[v][j] \/ handler'[v][j].stage = "idle"
      BY <1>1, WorkerFrame, WorkerEffect
    <2>2. faults'["disconnect"] = 0 /\ live = connected => live' = connected'
      <3>1. CASE Disconnect(w)
        <4>1. faults'["disconnect"] = faults["disconnect"] + 1
              /\ faults["disconnect"] \in Nat
          BY <1>1, <3>1, WorkerEffect, FaultEffect DEF FaultKinds, TypeOK
        <4> QED
          BY <4>1
      <3>2. CASE ~Disconnect(w)
        BY <3>2 DEF WorkerStart, WorkerStop, WorkerExit, WorkerCrash, Leave
      <3> QED
        BY <3>1, <3>2
    <2> QED
      BY <1>1, <1>2, <1>3, <2>1, <2>2, WorkerFrame, WorkKept
  <1>8. CASE UNCHANGED vars
    <2>1. UNCHANGED <<row, task, handler, live, connected, faults>>
      BY <1>8 DEF vars, broker, procs
    <2> QED
      BY <1>1, <1>2, <1>3, <2>1, WorkKept
  <1> QED
    BY <1>4, <1>5, <1>6, <1>7, <1>8 DEF Next

\* In calm weather the broker has the task of every accepted job whose row
\* is unfinished, through any number of crashes, shutdowns and refusals.
THEOREM WorkIsNotLost == Spec => [](Calm => UnfinishedJobHasTask)
  <1>1. Init => WorkInv
    <2>1. Init => NoneLost
      BY DEF Init, NoneLost, NoWork
    <2> QED
      BY <2>1, TaskInit, SyncInit DEF WorkInv
  <1>2. WorkInv => (Calm => UnfinishedJobHasTask)
    <2> SUFFICES ASSUME WorkInv, Calm, NEW j \in Jobs, submit[j] = "accepted",
                        row[j].status \in {"pending", "running"}
                 PROVE  task[j] \in {"ready", "unacked"}
      BY DEF UnfinishedJobHasTask
    <2>1. task[j] # "none"
      BY DEF WorkInv, SyncInv, InStep, Calm
    <2>2. task[j] # "acked"
      BY DEF WorkInv, NoneLost, Ended
    <2> QED
      BY <2>1, <2>2 DEF WorkInv, TaskInv, TypeOK, TaskState
  <1> QED
    BY <1>1, <1>2, WorkStep, PTL DEF Spec

-----------------------------------------------------------------------------
(* The rows live the promised life, as long as no connection is lost, on    *)
(* either side, and no confirmation comes late. (With such faults they do   *)
(* not: a Submit may report a stored task as failed, and a worker without a *)
(* connection writes what it made of a job that another one has settled.)   *)

Quiet == \A k \in {"disconnect", "timeout", "publisher"} : MaxFaults[k] = 0

Steady == \A k \in {"disconnect", "timeout", "publisher"} : faults[k] = 0

\* What the row of a job is at each stage of its Submit call, of its task
\* and of the handlers that work on it.
SubmitsRow(j) ==
    /\ submit[j] \in {"idle", "refused"} => row[j] = NoRow
    /\ submit[j] \notin {"idle", "refused"} => row[j].status # "absent"
    /\ submit[j] \in InSubmit /\ task[j] = "none" =>
           row[j].status = "pending" /\ row[j].retry = 0

TriesLeft(j) ==
    /\ row[j].status \in {"pending", "running"} => row[j].retry < MaxRetry
    /\ row[j].status = "failed" => task[j] = "none" \/ row[j].retry >= MaxRetry

HandlersRow(w, j) ==
    /\ handler[w][j].stage = "mark" =>
           row[j].status \in {"pending", "running"} /\ handler[w][j].retry = row[j].retry
    /\ handler[w][j].stage \in {"llm", "store", "fail", "succeed"} =>
           row[j].status = "running" /\ handler[w][j].retry = row[j].retry

RowsLive ==
    /\ live = connected
    /\ \A j \in Jobs : SubmitsRow(j) /\ TriesLeft(j)
    /\ \A w \in Workers, j \in Jobs : HandlersRow(w, j)

LifeInv == SyncInv /\ AnswerInv /\ Steady /\ RowsLive

\* One step of a row's life, or none.
Lives(j) ==
    \/ row'[j] = row[j]
    \/ /\ row[j].status = "absent" /\ row'[j].status = "pending"
       /\ row'[j].retry = row[j].retry /\ row'[j].answer = row[j].answer
    \/ /\ row[j].status = "pending" /\ row'[j].status = "failed" /\ row[j].retry = 0
       /\ row'[j].retry = row[j].retry /\ row'[j].answer = row[j].answer
    \/ /\ row[j].status = "pending" /\ row'[j].status = "running"
       /\ row'[j].retry = row[j].retry /\ row'[j].answer = row[j].answer
    \/ /\ row[j].status = "running" /\ row'[j].status = "pending"
       /\ row[j].retry + 1 < MaxRetry
       /\ row'[j].retry = row[j].retry + 1 /\ row'[j].answer = row[j].answer
    \/ /\ row[j].status = "running" /\ row'[j].status = "failed"
       /\ row[j].retry + 1 = MaxRetry
       /\ row'[j].retry = row[j].retry + 1 /\ row'[j].answer = row[j].answer
    \/ /\ row[j].status = "running" /\ row'[j].status = "success"
       /\ row'[j].retry = row[j].retry /\ row'[j].answer > 0

LEMMA LifeMoves ==
    ASSUME NEW j \in Jobs, Lives(j), \A k \in Jobs \ {j} : row'[k] = row[k]
    PROVE  [Lifecycle!Next]_(Lifecycle!vars)
  <1> DEFINE status == [k \in Jobs |-> row[k].status]
             tries  == [k \in Jobs |-> row[k].retry]
             answer == [k \in Jobs |-> row[k].answer]
  <1>1. /\ status[j] = row[j].status /\ status'[j] = row'[j].status
        /\ tries[j] = row[j].retry /\ tries'[j] = row'[j].retry
        /\ answer[j] = row[j].answer /\ answer'[j] = row'[j].answer
    OBVIOUS
  <1>2. /\ \A to : row'[j].status = to => status' = [status EXCEPT ![j] = to]
        /\ \A n : row'[j].retry = n => tries' = [tries EXCEPT ![j] = n]
        /\ row'[j].retry = row[j].retry => tries' = tries
        /\ row'[j].answer = row[j].answer => answer' = answer
        /\ row'[j].status = row[j].status => status' = status
        /\ \A k \in Jobs \ {j} : answer'[k] = answer[k]
    OBVIOUS
  <1> HIDE DEF status, tries, answer
  <1>3. CASE row'[j] = row[j]
    BY <1>2, <1>3 DEF Lifecycle!vars, status, tries, answer
  <1>4. CASE row'[j] # row[j]
    <2>1. \/ Lifecycle!Create(j) \/ Lifecycle!Refuse(j) \/ Lifecycle!Run(j)
          \/ Lifecycle!Retry(j) \/ Lifecycle!GiveUp(j) \/ Lifecycle!Answer(j)
      BY <1>1, <1>2, <1>4
         DEF Lives, Lifecycle!Create, Lifecycle!Refuse, Lifecycle!Run,
             Lifecycle!Retry, Lifecycle!GiveUp, Lifecycle!Answer, Lifecycle!Turn,
             status, tries, answer
    <2> QED
      BY <2>1 DEF Lifecycle!Next
  <1> QED
    BY <1>3, <1>4

\* A step up to which the weather is steady meets none of its three faults.
LEMMA SteadySteps ==
    ASSUME TypeOK, [Next]_vars, Steady'
    PROVE  /\ Steady /\ ~PublisherLost /\ ~Fault("timeout")
           /\ \A w \in Workers : ~Disconnect(w)
  <1>1. \A k \in {"disconnect", "timeout", "publisher"} :
            k \in FaultKinds /\ faults[k] = 0 /\ ~Fault(k)
    <2> SUFFICES ASSUME NEW k \in {"disconnect", "timeout", "publisher"}
                 PROVE  k \in FaultKinds /\ faults[k] = 0 /\ ~Fault(k)
      OBVIOUS
    <2>1. k \in FaultKinds /\ faults'[k] = 0
      BY DEF Steady, FaultKinds
    <2>2. faults[k] = 0
      BY <2>1, FaultsGrow
    <2> QED
      BY <2>1, <2>2, FaultEffect
  <1> QED
    BY <1>1 DEF Steady, PublisherLost, Disconnect

\* The faults that the constant rules out do not happen.
LEMMA QuietSteps ==
    ASSUME TypeOK, Quiet, Steady, [Next]_vars
    PROVE  Steady'
  <1> SUFFICES ASSUME NEW k \in {"disconnect", "timeout", "publisher"}
               PROVE  faults'[k] = 0
    BY DEF Steady
  <1>1. k \in FaultKinds /\ faults[k] = 0 /\ ~Fault(k)
    BY DEF FaultKinds, Steady, Quiet, Fault
  <1> QED
    BY <1>1, FaultsCounted, FaultEffect

\* What a step of a handler does to the row of its job.
LEMMA LifeHandler ==
    ASSUME LifeInv, SyncInv', AnswerInv', Steady', NEW w \in Workers, NEW j \in Jobs,
           Deliver(w, j) \/ HandlerStep(w, j)
    PROVE  LifeInv' /\ Lives(j)
  <1>1. TypeOK /\ TypeOK' /\ TaskInv
    BY DEF LifeInv, SyncInv, TaskInv
  <1>2. /\ UNCHANGED <<submit, live, connected>>
        /\ \A v \in Workers, k \in Jobs :
               v # w \/ k # j => handler'[v][k] = handler[v][k]
        /\ \A k \in Jobs \ {j} : row'[k] = row[k] /\ task'[k] = task[k]
    BY <1>1, HandlerFrame
  <1>3. live = connected /\ SubmitsRow(j) /\ TriesLeft(j) /\ HandlersRow(w, j)
    BY DEF LifeInv, RowsLive
  <1>4. row[j].status \in Status /\ row[j].retry \in Nat /\ MaxRetry \in Nat
    <2>1. row[j] \in Row
      BY <1>1 DEF TypeOK
    <2> QED
      BY <2>1, MaxRetryAssumption DEF Row
  <1> SUFFICES /\ SubmitsRow(j)' /\ TriesLeft(j)' /\ Lives(j)
               /\ \A v \in Workers : HandlersRow(v, j)'
    <2>1. \A k \in Jobs \ {j} : SubmitsRow(k)' /\ TriesLeft(k)'
      BY <1>2 DEF LifeInv, RowsLive, SubmitsRow, TriesLeft
    <2>2. \A v \in Workers, k \in Jobs \ {j} : HandlersRow(v, k)'
      BY <1>2 DEF LifeInv, RowsLive, HandlersRow
    <2> QED
      BY <1>2, <1>3, <2>1, <2>2 DEF LifeInv, RowsLive
  <1>5. CASE Deliver(w, j)
    <2>1. /\ row' = row /\ task[j] = "ready" /\ task'[j] = "unacked"
          /\ handler'[w][j].stage = "load"
      BY <1>1, <1>5, DeliverEffect
    <2>2. \A v \in Workers : HandlersRow(v, j)'
      BY <1>2, <2>1 DEF LifeInv, RowsLive, HandlersRow
    <2> QED
      BY <1>2, <1>3, <2>1, <2>2 DEF SubmitsRow, TriesLeft, Lives
  <1>6. CASE HandlerStep(w, j)
    <2>1. handler[w][j].stage # "idle"
      BY <1>6 DEF HandlerStep, Load, Start, Generate, Store, Fail, Succeed,
                  Ack, Nack, Settle, Goto
    <2>2. /\ submit[j] \notin {"idle", "refused"} /\ task[j] = "unacked"
          /\ \A v \in Workers \ {w} : handler[v][j].stage = "idle"
      BY <1>1, <1>3, <2>1, Alone
    <2>3. task'[j] # "none"
      BY <1>1, <1>6, <2>2, LoadEffect, StartEffect, GenerateEffect, StoreEffect,
         FailEffect, SucceedEffect, SettleEffect DEF HandlerStep, Ack, Nack, TaskState
    <2>4. \A v \in Workers \ {w} : HandlersRow(v, j)'
      BY <1>2, <2>2 DEF HandlersRow
    <2>5. /\ Lives(j) /\ row'[j].status # "absent"
          /\ TriesLeft(j)' /\ HandlersRow(w, j)'
      <3>0. row[j].status # "absent" /\ (row[j].status = "failed" => row[j].retry >= MaxRetry)
        BY <1>3, <2>2 DEF SubmitsRow, TriesLeft
      <3>1. CASE Load(w, j)
        BY <1>1, <1>3, <1>4, <2>3, <3>0, <3>1, LoadEffect
           DEF Lives, TriesLeft, HandlersRow, NothingToDo, Status
      <3>2. CASE Start(w, j)
        <4>1. handler[w][j].stage = "mark"
              /\ handler'[w][j].retry = handler[w][j].retry
          BY <1>1, <3>2, StartEffect
        <4>2. /\ row[j].status \in {"pending", "running"}
              /\ handler[w][j].retry = row[j].retry /\ row[j].retry < MaxRetry
          BY <1>3, <4>1 DEF HandlersRow, TriesLeft
        <4>3. CASE /\ handler'[w][j].stage = "llm"
                   /\ row'[j].status = "running" /\ row'[j].retry = row[j].retry
                   /\ row'[j].answer = row[j].answer
          <5>1. Lives(j)
            <6>1. row[j].status = "running" => row'[j] = row[j]
              <7>1. row[j] \in Row /\ row'[j] \in Row
                BY <1>1 DEF TypeOK
              <7> QED
                BY <4>3, <7>1 DEF Row
            <6> QED
              BY <4>2, <4>3, <6>1 DEF Lives
          <5> QED
            BY <4>1, <4>2, <4>3, <5>1 DEF TriesLeft, HandlersRow
        <4>4. CASE handler'[w][j].stage = "nack" /\ row' = row
          BY <1>3, <2>3, <3>0, <4>4 DEF Lives, TriesLeft, HandlersRow
        <4> QED
          BY <1>1, <3>2, <4>3, <4>4, StartEffect
      <3>3. CASE Generate(w, j)
        BY <1>1, <1>3, <2>3, <3>0, <3>3, GenerateEffect DEF Lives, TriesLeft, HandlersRow
      <3>4. CASE Store(w, j)
        BY <1>1, <1>3, <2>3, <3>0, <3>4, StoreEffect DEF Lives, TriesLeft, HandlersRow
      <3>5. CASE Fail(w, j)
        BY <1>1, <1>3, <1>4, <2>3, <3>0, <3>5, FailEffect DEF Lives, TriesLeft, HandlersRow
      <3>6. CASE Succeed(w, j)
        <4>1. handler[w][j].stage = "succeed" => handler[w][j].answer > 0
          <5>1. handler[w][j].stage = "succeed" => handler[w][j].answer \in 1 .. answers[j]
            BY DEF LifeInv, AnswerInv, StoredBeforeSuccess
          <5> QED
            BY <1>1, <5>1, CountersType
        <4> QED
          BY <1>1, <1>3, <1>4, <2>3, <3>0, <3>6, <4>1, SucceedEffect
             DEF Lives, TriesLeft, HandlersRow
      <3>7. CASE Ack(w, j) \/ Nack(w, j)
        BY <1>1, <1>3, <2>3, <3>0, <3>7, SettleEffect
           DEF Ack, Nack, TaskState, Lives, TriesLeft, HandlersRow
      <3> QED
        BY <1>6, <3>1, <3>2, <3>3, <3>4, <3>5, <3>6, <3>7 DEF HandlerStep
    <2>6. SubmitsRow(j)'
      BY <1>2, <2>2, <2>3, <2>5 DEF SubmitsRow
    <2> QED
      BY <2>4, <2>5, <2>6
  <1> QED
    BY <1>5, <1>6

LEMMA LifeSubmit ==
    ASSUME LifeInv, SyncInv', AnswerInv', Steady', NEW i \in Jobs,
           SubmitRefuse(i) \/ SubmitCreate(i) \/ SubmitStep(i)
    PROVE  LifeInv' /\ Lives(i)
  <1>1. TypeOK /\ TypeOK' /\ TaskInv
    BY DEF LifeInv, SyncInv, TaskInv
  <1>2. /\ UNCHANGED <<task, handler, live, connected>>
        /\ \A k \in Jobs \ {i} : row'[k] = row[k] /\ submit'[k] = submit[k]
    BY <1>1, SubmitFrame
  <1>3. live = connected /\ SubmitsRow(i) /\ TriesLeft(i)
        /\ \A w \in Workers : HandlersRow(w, i)
    BY DEF LifeInv, RowsLive
  <1>4. MaxRetry \in Nat /\ MaxRetry # 0
    BY MaxRetryAssumption
  <1>5. task[i] = "none" => \A w \in Workers : handler[w][i].stage = "idle"
    BY <1>1, <1>3, Alone
  <1> SUFFICES /\ SubmitsRow(i)' /\ TriesLeft(i)' /\ Lives(i)
               /\ \A w \in Workers : HandlersRow(w, i)'
    <2>1. \A k \in Jobs \ {i} : SubmitsRow(k)' /\ TriesLeft(k)'
      BY <1>2 DEF LifeInv, RowsLive, SubmitsRow, TriesLeft
    <2>2. \A w \in Workers, k \in Jobs \ {i} : HandlersRow(w, k)'
      BY <1>2 DEF LifeInv, RowsLive, HandlersRow
    <2> QED
      BY <1>2, <1>3, <2>1, <2>2 DEF LifeInv, RowsLive
  <1>6. CASE SubmitCreate(i)
    <2>1. /\ row'[i] = [NoRow EXCEPT !.status = "pending"]
          /\ submit[i] = "idle" /\ submit'[i] = "created"
      BY <1>1, <1>6 DEF SubmitCreate, Progress, TypeOK
    <2>2. row[i] = NoRow
      BY <1>3, <2>1 DEF SubmitsRow
    <2>3. /\ row'[i].status = "pending" /\ row'[i].retry = 0 /\ row'[i].answer = 0
          /\ row[i].status = "absent" /\ row[i].retry = 0 /\ row[i].answer = 0
      BY <2>1, <2>2 DEF NoRow
    <2>4. \A w \in Workers : handler'[w][i].stage = "idle"
      BY <1>1, <1>2, <1>5, <2>1 DEF TaskInv, SentOnce
    <2> QED
      BY <1>4, <2>1, <2>3, <2>4 DEF SubmitsRow, TriesLeft, Lives, HandlersRow
  <1>7. CASE SubmitFails(i)
    <2>1. submit[i] = "unpublished" /\ submit'[i] = "rejected"
      BY <1>1, <1>7 DEF SubmitFails, Progress, TypeOK
    <2>2. task[i] = "none"
      BY <2>1 DEF LifeInv, Steady, SyncInv, KnowsRefusal
    <2>3. row[i].status = "pending" /\ row[i].retry = 0
      BY <1>3, <2>1, <2>2 DEF SubmitsRow, InSubmit
    <2>4. \/ row' = row
          \/ /\ row'[i].status = "failed" /\ row'[i].retry = 0
             /\ row'[i].answer = row[i].answer
      <3>1. row' = row \/ MarkFailed(i, 0)
        BY <1>7 DEF SubmitFails
      <3> QED
        BY <1>1, <3>1, MarkEffect, 0 \in Nat
    <2>5. \A w \in Workers : handler'[w][i].stage = "idle"
      BY <1>2, <1>5, <2>2
    <2> QED
      BY <1>2, <1>4, <2>1, <2>2, <2>3, <2>4, <2>5
         DEF SubmitsRow, TriesLeft, Lives, HandlersRow, InSubmit
  <1>8. CASE ~SubmitCreate(i) /\ ~SubmitFails(i)
    <2>1. row' = row
      BY <1>8 DEF SubmitStep, SubmitRefuse, Publish, PublishError, AwaitConfirm,
         AwaitFails
    <2>2. \/ submit[i] = "idle" /\ submit'[i] = "refused"
          \/ submit[i] \in InSubmit /\ submit'[i] \in InSubmit \cup {"accepted"}
      BY <1>1, <1>8 DEF SubmitStep, SubmitRefuse, Publish, PublishError, AwaitConfirm,
         AwaitFails, Progress, TypeOK, InSubmit
    <2> QED
      BY <1>2, <1>3, <2>1, <2>2
         DEF SubmitsRow, TriesLeft, Lives, HandlersRow, InSubmit
  <1> QED
    BY <1>6, <1>7, <1>8

\* Steps that write no row, and from which no handler gets ahead.
LEMMA LifeKept ==
    ASSUME LifeInv, SyncInv', AnswerInv', Steady', row' = row, live' = connected',
           \A j \in Jobs : \/ submit'[j] = submit[j]
                           \/ submit[j] \in InSubmit /\ submit'[j] = "dead",
           \A j \in Jobs : \/ task[j] = "none" => task'[j] = "none"
                           \/ row[j].status = "pending",
           \A j \in Jobs : task'[j] = "none" => task[j] = "none",
           \A w \in Workers, j \in Jobs :
               handler'[w][j] = handler[w][j] \/ handler'[w][j].stage = "idle"
    PROVE  LifeInv'
  <1>1. \A j \in Jobs : SubmitsRow(j)'
    BY DEF LifeInv, RowsLive, SubmitsRow, InSubmit
  <1>2. \A j \in Jobs : TriesLeft(j)'
    BY DEF LifeInv, RowsLive, TriesLeft
  <1>3. \A w \in Workers, j \in Jobs : HandlersRow(w, j)'
    BY DEF LifeInv, RowsLive, HandlersRow
  <1> QED
    BY <1>1, <1>2, <1>3 DEF LifeInv, RowsLive

LEMMA LifeStep ==
    ASSUME LifeInv, [Next]_vars, Steady'
    PROVE  LifeInv' /\ [Lifecycle!Next]_(Lifecycle!vars)
  <1>1. /\ SyncInv /\ SyncInv' /\ AnswerInv /\ AnswerInv' /\ TaskInv /\ TypeOK
        /\ Steady /\ live = connected
    BY SyncStep, AnswerStep DEF LifeInv, SyncInv, TaskInv, RowsLive
  <1>2. /\ Steady' /\ ~PublisherLost /\ ~Fault("timeout")
        /\ \A w \in Workers : ~Disconnect(w)
    BY <1>1, SteadySteps
  <1>3. CASE SubmitNext
    <2> PICK i \in Jobs : SubmitRefuse(i) \/ SubmitCreate(i) \/ SubmitStep(i)
      BY <1>3 DEF SubmitNext
    <2>1. LifeInv' /\ Lives(i)
      BY <1>1, <1>2, LifeSubmit
    <2>2. \A k \in Jobs \ {i} : row'[k] = row[k]
      BY <1>1, SubmitFrame
    <2> QED
      BY <2>1, <2>2, LifeMoves
  <1>4. CASE HandlerNext
    <2> PICK w \in Workers, j \in Jobs : Deliver(w, j) \/ HandlerStep(w, j)
      BY <1>4 DEF HandlerNext
    <2>1. LifeInv' /\ Lives(j)
      BY <1>1, <1>2, LifeHandler
    <2>2. \A k \in Jobs \ {j} : row'[k] = row[k]
      BY <1>1, HandlerFrame
    <2> QED
      BY <2>1, <2>2, LifeMoves
  <1> SUFFICES ASSUME ~SubmitNext, ~HandlerNext
               PROVE  LifeInv' /\ row' = row
    BY <1>3, <1>4 DEF Lifecycle!vars
  <1>5. CASE ApiCrash
    <2>1. UNCHANGED <<row, task, handler, live, connected>>
      BY <1>5 DEF ApiCrash, broker, procs
    <2>2. \A j \in Jobs : \/ submit'[j] = submit[j]
                          \/ submit[j] \in InSubmit /\ submit'[j] = "dead"
      BY <1>5 DEF ApiCrash
    <2> QED
      BY <1>1, <1>2, <2>1, <2>2, LifeKept
  <1>6. CASE BrokerAccept
    <2>1. /\ wire # <<>> /\ UNCHANGED <<row, submit, handler, live, connected>>
          /\ task' = [task EXCEPT ![Head(wire)] = "ready"]
      BY <1>6 DEF BrokerAccept, procs
    <2>2. PICK k \in Jobs : submit[k] = "awaiting" /\ wire = <<k>> /\ task[k] = "none"
      BY <1>1, <2>1 DEF SyncInv, Steady, InStep, PublisherLocked, Outstanding
    <2>3. row[k].status = "pending"
      BY <2>2 DEF LifeInv, RowsLive, SubmitsRow, InSubmit
    <2>4. Head(wire) = k
      BY <2>2
    <2>5. task'[k] = "ready" /\ \A j \in Jobs \ {k} : task'[j] = task[j]
      BY <1>1, <2>1, <2>4 DEF TypeOK
    <2> QED
      BY <1>1, <1>2, <2>1, <2>3, <2>5, LifeKept
  <1>7. CASE BrokerRefuse
    <2>1. UNCHANGED <<row, submit, task, handler, live, connected>>
      BY <1>7 DEF BrokerRefuse, broker, procs
    <2> QED
      BY <1>1, <1>2, <2>1, LifeKept
  <1>8. CASE WorkerNext
    <2> PICK w \in Workers : \/ WorkerStart(w) \/ WorkerStop(w) \/ Disconnect(w)
                             \/ WorkerExit(w) \/ WorkerCrash(w)
      BY <1>8 DEF WorkerNext
    <2>1. live' = connected'
      BY <1>1, <1>2 DEF WorkerStart, WorkerStop, WorkerExit, WorkerCrash, Leave
    <2>2. UNCHANGED <<row, submit>>
      BY <1>1, WorkerFrame
    <2>3. \A j \in Jobs : task'[j] = "none" <=> task[j] = "none"
      BY <1>1, WorkerFrame
    <2>4. \A v \in Workers, j \in Jobs :
              handler'[v][j] = handler[v][j] \/ handler'[v][j].stage = "idle"
      BY <1>1, WorkerFrame, WorkerEffect
    <2> QED
      BY <1>1, <1>2, <2>1, <2>2, <2>3, <2>4, LifeKept
  <1>9. CASE UNCHANGED vars
    <2>1. UNCHANGED <<row, submit, task, handler, live, connected>>
      BY <1>9 DEF vars, api, broker, procs
    <2> QED
      BY <1>1, <1>2, <2>1, LifeKept
  <1> QED
    BY <1>2, <1>5, <1>6, <1>7, <1>8, <1>9 DEF Next, BrokerNext

LEMMA LifeInit == Init => LifeInv /\ Lifecycle!Init
  <1> SUFFICES ASSUME Init PROVE LifeInv /\ Lifecycle!Init
    OBVIOUS
  <1>1. Steady /\ live = connected
    BY DEF Init, Steady, FaultKinds
  <1>2. \A j \in Jobs : SubmitsRow(j) /\ TriesLeft(j)
    BY DEF Init, SubmitsRow, TriesLeft, NoRow, InSubmit
  <1>3. \A w \in Workers, j \in Jobs : HandlersRow(w, j)
    BY DEF Init, HandlersRow, NoWork
  <1>4. Lifecycle!Init
    BY DEF Init, Lifecycle!Init, NoRow
  <1> QED
    BY <1>1, <1>2, <1>3, <1>4, SyncInit, AnswerInit DEF LifeInv, RowsLive

\* What a client sees of a job is the promised life (ChatJobLifecycle): jobs
\* are created, run, run again and end once, with an answer that exists, up to
\* the first lost connection to the broker or late confirmation, whatever comes
\* after it. Crashes of both processes, shutdowns, refused tasks, failed
\* publishes and failed statements may happen any number of times.
THEOREM RowsLiveUntilThen ==
    Spec => /\ Lifecycle!Init
            /\ [][Steady' => [Lifecycle!Next]_(Lifecycle!vars)]_vars
  <1> DEFINE Inv == SyncInv /\ AnswerInv /\ (Steady => LifeInv)
  <1>1. Init => Inv /\ Lifecycle!Init
    BY LifeInit DEF LifeInv
  <1>2. Inv /\ [Next]_vars =>
            Inv' /\ [Steady' => [Lifecycle!Next]_(Lifecycle!vars)]_vars
    <2> SUFFICES ASSUME Inv, [Next]_vars
                 PROVE  Inv' /\ (Steady' => [Lifecycle!Next]_(Lifecycle!vars))
      OBVIOUS
    <2>1. SyncInv' /\ AnswerInv' /\ TypeOK
      BY SyncStep, AnswerStep DEF AnswerInv
    <2>2. Steady' => LifeInv' /\ [Lifecycle!Next]_(Lifecycle!vars)
      BY <2>1, SteadySteps, LifeStep
    <2> QED
      BY <2>1, <2>2
  <1> HIDE DEF Inv
  <1> QED
    BY <1>1, <1>2, PTL DEF Spec

\* So, if the three faults are ruled out for good, the pipeline implements the
\* lifecycle.
THEOREM RowsLiveTheLife == Quiet => (Spec => LifecycleSpec)
  <1> SUFFICES ASSUME Quiet PROVE Spec => LifecycleSpec
    OBVIOUS
  <1>1. LifeInv /\ [Next]_vars => LifeInv' /\ [Lifecycle!Next]_(Lifecycle!vars)
    <2> SUFFICES ASSUME LifeInv, [Next]_vars
                 PROVE  LifeInv' /\ [Lifecycle!Next]_(Lifecycle!vars)
      OBVIOUS
    <2>1. Steady'
      BY QuietSteps DEF LifeInv, AnswerInv
    <2> QED
      BY <2>1, LifeStep
  <1> QED
    BY <1>1, LifeInit, PTL DEF Spec, LifecycleSpec, Lifecycle!Spec

-----------------------------------------------------------------------------
(* How many jobs can be stranded. A job is at risk from the moment a worker *)
(* that lost its connection has a handler on it, which may yet write its    *)
(* row, and from the moment nobody will see to its unfinished row: neither  *)
(* Submit, nor the broker, nor the handler that is about to acknowledge its *)
(* task. Only a fault puts a job at risk, and each only so many.            *)

Unfinished(j) == row[j].status \in {"pending", "running"}
StaleHandled(j) == \E w \in Workers \ connected : handler[w][j].stage # "idle"

Unsent(j) ==
    /\ task[j] = "none" /\ ~OnWire(j)
    /\ \/ submit[j] \notin InSubmit
       \/ submit[j] = "awaiting" /\ faults["timeout"] > 0

Abandoned(j) ==
    \/ task[j] = "acked"
    \/ task[j] = "unacked" /\ handler[holder[j]][j].stage = "ack"
    \/ Unsent(j)

Risky(j) == StaleHandled(j) \/ (Unfinished(j) /\ Abandoned(j))
AtRisk == {j \in Jobs : Risky(j)}

StrandBudget ==
    faults["db"] + Concurrency * faults["disconnect"]
        + Cardinality(Jobs) * faults["api"]
        + (IF faults["timeout"] = 0 THEN 0
           ELSE faults["nack"] + Cardinality(Jobs) * faults["publisher"])

\* The semaphore: a worker runs no more handlers than it has room for.
RoomKept == \A w \in Workers : Cardinality(Busy(w)) <= Concurrency

StrandInv ==
    /\ BaseInv /\ SyncInv /\ IsFiniteSet(Jobs)
    /\ RoomKept
    /\ Cardinality(AtRisk) <= StrandBudget

\* Sets that grow by a bounded number of elements.
LEMMA AtMostMore ==
    ASSUME NEW S, NEW T, NEW U, IsFiniteSet(S), IsFiniteSet(U), T \subseteq S \cup U
    PROVE  /\ Cardinality(S) \in Nat /\ Cardinality(T) \in Nat
           /\ Cardinality(T) <= Cardinality(S) + Cardinality(U)
  <1>1. /\ IsFiniteSet(S \cup U) /\ IsFiniteSet(S \cap U)
        /\ Cardinality(S \cup U)
             = Cardinality(S) + Cardinality(U) - Cardinality(S \cap U)
    <2>1. IsFiniteSet(S \cap U)
      BY FS_Intersection
    <2> QED
      BY <2>1, FS_Union
  <1>2. IsFiniteSet(T) /\ Cardinality(T) <= Cardinality(S \cup U)
    BY <1>1, FS_Subset
  <1>3. /\ Cardinality(S) \in Nat /\ Cardinality(T) \in Nat /\ Cardinality(U) \in Nat
        /\ Cardinality(S \cup U) \in Nat /\ Cardinality(S \cap U) \in Nat
    BY <1>1, <1>2, FS_CardinalityType
  <1> QED
    BY <1>1, <1>2, <1>3

LEMMA NoMore ==
    ASSUME NEW S, NEW T, IsFiniteSet(S), T \subseteq S
    PROVE  Cardinality(S) \in Nat /\ Cardinality(T) \in Nat
           /\ Cardinality(T) <= Cardinality(S)
  <1>1. IsFiniteSet(T) /\ Cardinality(T) <= Cardinality(S)
    BY FS_Subset
  <1> QED
    BY <1>1, FS_CardinalityType

LEMMA OneTimesMore ==
    ASSUME NEW n \in Nat, NEW x \in Nat
    PROVE  n * x \in Nat /\ n * (x + 1) = n * x + n
  OBVIOUS

\* What each fault adds to the budget.
LEMMA BudgetGrows ==
    ASSUME TypeOK, IsFiniteSet(Jobs)
    PROVE  /\ StrandBudget \in Nat
           /\ faults' = faults => StrandBudget' = StrandBudget
           /\ \A k \in FaultKinds : Fault(k) =>
                  /\ StrandBudget' \in Nat /\ StrandBudget <= StrandBudget'
                  /\ k = "db" => StrandBudget' = StrandBudget + 1
                  /\ k = "disconnect" => StrandBudget' = StrandBudget + Concurrency
                  /\ k = "api" => Cardinality(Jobs) <= StrandBudget'
                  /\ k = "nack" /\ faults["timeout"] > 0
                         => StrandBudget' = StrandBudget + 1
                  /\ k = "publisher" /\ faults["timeout"] > 0
                         => Cardinality(Jobs) <= StrandBudget'
  <1> DEFINE n == Cardinality(Jobs)
  <1>1. n \in Nat /\ Concurrency \in Nat
    BY FS_CardinalityType, ConcurrencyAssumption
  <1>2. \A k \in FaultKinds : faults[k] \in Nat
    BY DEF TypeOK
  <1>3. \A k \in {"db", "disconnect", "api", "timeout", "nack", "publisher"} :
            faults[k] \in Nat
    BY <1>2 DEF FaultKinds
  <1> HIDE DEF n
  <1>4. /\ Concurrency * faults["disconnect"] \in Nat
        /\ n * faults["api"] \in Nat /\ n * faults["publisher"] \in Nat
    BY <1>1, <1>3, OneTimesMore
  <1>5. /\ StrandBudget =
             faults["db"] + Concurrency * faults["disconnect"] + n * faults["api"]
               + (IF faults["timeout"] = 0 THEN 0
                  ELSE faults["nack"] + n * faults["publisher"])
        /\ StrandBudget' =
             faults'["db"] + Concurrency * faults'["disconnect"] + n * faults'["api"]
               + (IF faults'["timeout"] = 0 THEN 0
                  ELSE faults'["nack"] + n * faults'["publisher"])
    BY DEF StrandBudget, n
  <1>6. StrandBudget \in Nat
    BY <1>3, <1>4, <1>5
  <1>7. ASSUME NEW k \in FaultKinds, Fault(k)
        PROVE  /\ StrandBudget' \in Nat /\ StrandBudget <= StrandBudget'
               /\ k = "db" => StrandBudget' = StrandBudget + 1
               /\ k = "disconnect" => StrandBudget' = StrandBudget + Concurrency
               /\ k = "api" => n <= StrandBudget'
               /\ k = "nack" /\ faults["timeout"] > 0
                      => StrandBudget' = StrandBudget + 1
               /\ k = "publisher" /\ faults["timeout"] > 0 => n <= StrandBudget'
    <2>1. /\ faults'[k] = faults[k] + 1
          /\ \A m \in FaultKinds \ {k} : faults'[m] = faults[m]
      BY <1>7, FaultEffect
    <2>2. \A m \in {"db", "disconnect", "api", "timeout", "nack", "publisher"} :
              faults'[m] = IF m = k THEN faults[m] + 1 ELSE faults[m]
      BY <2>1 DEF FaultKinds
    <2>3. /\ Concurrency * faults'["disconnect"]
               = Concurrency * faults["disconnect"]
                   + (IF k = "disconnect" THEN Concurrency ELSE 0)
          /\ n * faults'["api"] = n * faults["api"] + (IF k = "api" THEN n ELSE 0)
          /\ n * faults'["publisher"]
               = n * faults["publisher"] + (IF k = "publisher" THEN n ELSE 0)
      BY <1>1, <1>3, <1>4, <2>2, OneTimesMore
    <2>4. /\ faults'["db"] = faults["db"] + (IF k = "db" THEN 1 ELSE 0)
          /\ faults'["timeout"] = faults["timeout"] + (IF k = "timeout" THEN 1 ELSE 0)
          /\ faults'["nack"] = faults["nack"] + (IF k = "nack" THEN 1 ELSE 0)
      BY <1>3, <2>2
    <2> QED
      BY <1>1, <1>3, <1>4, <1>5, <2>3, <2>4
  <1>8. faults' = faults => StrandBudget' = StrandBudget
    BY <1>5
  <1> QED
    BY <1>6, <1>7, <1>8 DEF n
\* A step of a handler puts no other job at risk, and its own only when a
\* statement fails: the job was not found, or its last failure not written.
LEMMA RiskHandler ==
    ASSUME BaseInv, NEW w \in Workers, NEW j \in Jobs,
           Deliver(w, j) \/ HandlerStep(w, j)
    PROVE  \A k \in Jobs : Risky(k)' => Risky(k) \/ (k = j /\ Fault("db"))
  <1>1. TaskInv /\ TypeOK /\ UnackedHasHandler /\ connected \subseteq Workers
    BY DEF BaseInv, TaskInv, TypeOK
  <1>2. /\ UNCHANGED <<submit, wire, connected>>
        /\ \A v \in Workers, k \in Jobs :
               v # w \/ k # j => handler'[v][k] = handler[v][k]
        /\ \A k \in Jobs \ {j} : UNCHANGED <<row[k], task[k], holder[k]>>
        /\ faults' = faults \/ Fault("db")
    BY <1>1, HandlerFrame
  <1>3. faults'["timeout"] = faults["timeout"]
    BY <1>1, <1>2, FaultEffect DEF FaultKinds
  <1>4. ASSUME NEW k \in Jobs \ {j}, Risky(k)' PROVE Risky(k)
    <2>1. StaleHandled(k)' => StaleHandled(k)
      BY <1>2 DEF StaleHandled
    <2>2. Unfinished(k)' => Unfinished(k)
      BY <1>2 DEF Unfinished
    <2>3. Abandoned(k)' => Abandoned(k)
      <3>1. Unsent(k)' => Unsent(k)
        BY <1>2, <1>3 DEF Unsent, OnWire
      <3>2. task[k] = "unacked" => holder[k] \in Workers
        BY <1>1 DEF UnackedHasHandler
      <3> QED
        BY <1>2, <3>1, <3>2 DEF Abandoned
    <2> QED
      BY <1>4, <2>1, <2>2, <2>3 DEF Risky
  <1>5. ASSUME Risky(j)', ~Risky(j) PROVE Fault("db")
    <2>1. w \in connected
      <3>1. HandlerStep(w, j) => handler[w][j].stage # "idle"
        BY <1>1, LoadEffect, StartEffect, GenerateEffect, StoreEffect, FailEffect,
           SucceedEffect, SettleEffect DEF HandlerStep, Ack, Nack, TaskState
      <3>2. Deliver(w, j) => w \in connected
        BY DEF Deliver
      <3> QED
        BY <1>5, <3>1, <3>2 DEF Risky, StaleHandled
    <2>2. Unfinished(j)' /\ Abandoned(j)'
      <3>1. StaleHandled(j)' => StaleHandled(j)
        BY <1>2, <2>1 DEF StaleHandled
      <3> QED
        BY <1>5, <3>1 DEF Risky
    <2>3. handler[w][j].stage # "idle" => task[j] = "unacked" /\ holder[j] = w
      BY <1>1, <2>1 DEF TaskInv, HandlerHoldsTask
    <2>4. ~(Unfinished(j) /\ Abandoned(j))
      BY <1>5 DEF Risky
    <2>5. CASE Deliver(w, j)
      <3>1. task'[j] = "unacked" /\ holder'[j] = w /\ handler'[w][j].stage = "load"
        BY <1>1, <2>5, DeliverEffect
      <3> QED
        BY <2>2, <3>1 DEF Abandoned, Unsent
    <2>6. CASE Ack(w, j)
      <3>1. handler[w][j].stage = "ack" /\ row' = row
        BY <1>1, <2>6, SettleEffect DEF Ack, TaskState
      <3> QED
        BY <2>2, <2>3, <2>4, <3>1 DEF Abandoned, Unfinished
    <2>7. CASE Nack(w, j)
      <3>1. handler[w][j].stage = "nack"
        BY <1>1, <2>7, SettleEffect DEF Nack, TaskState
      <3>2. task'[j] = "ready"
        BY <1>1, <2>3, <2>7, <3>1, SettleEffect DEF Nack, TaskState
      <3> QED
        BY <2>2, <3>2 DEF Abandoned, Unsent
    <2>8. CASE \/ Load(w, j) \/ Start(w, j) \/ Generate(w, j)
               \/ Store(w, j) \/ Fail(w, j) \/ Succeed(w, j)
      <3>1. task'[j] = "unacked" /\ holder'[j] = w
        BY <1>1, <2>3, <2>8, LoadEffect, StartEffect, GenerateEffect, StoreEffect,
           FailEffect, SucceedEffect
      <3>2. handler'[w][j].stage = "ack"
        BY <2>2, <3>1 DEF Abandoned, Unsent
      <3>3. CASE Load(w, j)
        BY <1>1, <2>2, <3>2, <3>3, LoadEffect DEF NothingToDo, Unfinished
      <3>4. CASE Fail(w, j)
        BY <1>1, <2>2, <3>2, <3>4, FailEffect DEF Unfinished
      <3>5. CASE Succeed(w, j)
        BY <1>1, <2>2, <3>2, <3>5, SucceedEffect DEF Unfinished
      <3>6. CASE Start(w, j) \/ Generate(w, j) \/ Store(w, j)
        BY <1>1, <3>2, <3>6, StartEffect, GenerateEffect, StoreEffect
      <3> QED
        BY <2>8, <3>3, <3>4, <3>5, <3>6
    <2> QED
      BY <2>5, <2>6, <2>7, <2>8 DEF HandlerStep
  <1> QED
    BY <1>4, <1>5

\* Nor does a step of Submit, but for the MarkFailed whose error is dropped.
LEMMA RiskSubmit ==
    ASSUME BaseInv, SyncInv, SyncInv', NEW j \in Jobs,
           SubmitRefuse(j) \/ SubmitCreate(j) \/ SubmitStep(j)
    PROVE  \A k \in Jobs : Risky(k)' => Risky(k) \/ (k = j /\ Fault("db"))
  <1>1. TaskInv /\ TypeOK /\ SentOnce
    BY DEF BaseInv, TaskInv
  <1>2. /\ UNCHANGED <<task, holder, handler, connected>>
        /\ \A k \in Jobs \ {j} : UNCHANGED <<row[k], submit[k]>>
    BY <1>1, SubmitFrame
  <1>3. \A k \in Jobs : OnWire(k) => OnWire(k)'
    <2>1. wire' = wire \/ wire' = Append(wire, j)
      BY DEF SubmitStep, SubmitRefuse, SubmitCreate, Publish, PublishError,
             AwaitConfirm, AwaitFails, SubmitFails
    <2>2. /\ DOMAIN wire \subseteq DOMAIN Append(wire, j)
          /\ \A i \in DOMAIN wire : Append(wire, j)[i] = wire[i]
      <3>1. wire \in Seq(Jobs)
        BY <1>1 DEF TypeOK
      <3> QED
        BY <3>1, SMTT(30)
    <2> QED
      BY <2>1, <2>2 DEF OnWire
  <1>4. /\ faults["timeout"] \in Nat /\ faults'["timeout"] \in Nat
        /\ \/ faults'["timeout"] = faults["timeout"]
           \/ AwaitFails(j) /\ faults'["timeout"] = faults["timeout"] + 1
    <2>1. faults["timeout"] \in Nat
      BY <1>1 DEF TypeOK, FaultKinds
    <2>2. \/ faults' = faults
          \/ Fault("send") \/ Fault("db")
          \/ AwaitFails(j) /\ Fault("timeout")
      BY DEF SubmitStep, SubmitRefuse, SubmitCreate, Publish, PublishError,
             AwaitConfirm, AwaitFails, SubmitFails, NoFault
    <2> QED
      BY <1>1, <2>1, <2>2, FaultEffect DEF FaultKinds
  <1>5. \A k \in Jobs : StaleHandled(k)' => StaleHandled(k)
    BY <1>2 DEF StaleHandled
  <1>6. ASSUME NEW k \in Jobs \ {j}, Risky(k)' PROVE Risky(k)
    <2>1. Unfinished(k)' => Unfinished(k)
      BY <1>2 DEF Unfinished
    <2>2. Unsent(k)' => Unsent(k)
      <3>1. CASE faults'["timeout"] = faults["timeout"]
        BY <1>2, <1>3, <3>1 DEF Unsent
      <3>2. CASE AwaitFails(j) /\ submit[k] = "awaiting"
        <4>1. submit[j] = "awaiting"
          BY <3>2 DEF AwaitFails, Progress
        <4>2. faults["timeout"] # 0
          BY <3>2, <4>1 DEF SyncInv, InStep
        <4> QED
          BY <1>2, <1>3, <1>4, <4>2 DEF Unsent
      <3>3. CASE submit[k] # "awaiting"
        BY <1>2, <1>3, <3>3 DEF Unsent
      <3> QED
        BY <1>4, <3>1, <3>2, <3>3
    <2>3. Abandoned(k)' => Abandoned(k)
      BY <1>2, <2>2 DEF Abandoned
    <2> QED
      BY <1>5, <1>6, <2>1, <2>3 DEF Risky
  <1>7. ASSUME Risky(j)', ~Risky(j) PROVE Fault("db")
    <2>1. Unfinished(j)' /\ Abandoned(j)' /\ ~(Unfinished(j) /\ Abandoned(j))
      BY <1>5, <1>7 DEF Risky
    <2>2. Unsent(j) => Abandoned(j)
      BY DEF Abandoned
    <2>3. Abandoned(j) \/ Unsent(j)'
      BY <1>2, <2>1 DEF Abandoned
    <2>4. CASE SubmitRefuse(j)
      <3>1. /\ submit[j] = "idle" /\ row' = row
            /\ UNCHANGED <<wire, faults>>
        BY <2>4 DEF SubmitRefuse, Progress
      <3>2. Unsent(j)' => Unsent(j)
        BY <1>2, <3>1 DEF Unsent, OnWire, InSubmit
      <3> QED
        BY <2>1, <2>2, <2>3, <3>1, <3>2 DEF Unfinished
    <2>5. CASE SubmitCreate(j)
      <3>1. submit[j] = "idle" /\ submit'[j] = "created"
        BY <1>1, <2>5 DEF SubmitCreate, Progress, TypeOK
      <3>2. task[j] = "none"
        BY <1>1, <3>1 DEF SentOnce
      <3> QED
        BY <1>2, <2>1, <3>1, <3>2 DEF Abandoned, Unsent, InSubmit
    <2>6. CASE Publish(j)
      <3>1. row' = row /\ wire' = Append(wire, j)
        BY <2>6 DEF Publish
      <3>2. OnWire(j)'
        <4>1. /\ Len(wire) + 1 \in DOMAIN Append(wire, j)
              /\ Append(wire, j)[Len(wire) + 1] = j
          BY <1>1 DEF TypeOK
        <4> QED
          BY <3>1, <4>1 DEF OnWire
      <3> QED
        BY <2>1, <2>3, <3>1, <3>2 DEF Unsent, Unfinished
    <2>7. CASE PublishError(j) \/ AwaitFails(j)
      <3>1. row' = row /\ submit'[j] = "unpublished"
        BY <1>1, <2>7 DEF PublishError, AwaitFails, Progress, TypeOK
      <3> QED
        BY <2>1, <2>3, <3>1 DEF Unsent, Unfinished, InSubmit
    <2>8. CASE AwaitConfirm(j)
      <3>1. /\ row' = row /\ wire' = wire /\ faults' = faults
            /\ submit[j] = "awaiting" /\ submit'[j] \in {"accepted", "unpublished"}
        BY <1>1, <2>8 DEF AwaitConfirm, Progress, TypeOK
      <3>2. Unsent(j)' /\ ~Unsent(j)
        BY <2>1, <2>2, <2>3, <3>1 DEF Unfinished
      <3>3. submit'[j] = "accepted" /\ task[j] = "none" /\ faults'["timeout"] = 0
        BY <1>2, <1>4, <3>1, <3>2 DEF Unsent, OnWire, InSubmit
      <3>4. task'[j] # "none"
        BY <3>3 DEF SyncInv, InStep
      <3> QED
        BY <1>2, <3>3, <3>4
    <2>9. CASE SubmitFails(j)
      <3>1. MarkFailed(j, 0) => row'[j].status = "failed"
        BY <1>1, MarkEffect
      <3> QED
        BY <2>1, <2>9, <3>1 DEF SubmitFails, Unfinished
    <2> QED
      BY <2>4, <2>5, <2>6, <2>7, <2>8, <2>9 DEF SubmitStep
  <1> QED
    BY <1>6, <1>7
\* Nor does a step of a worker, but for a lost connection: the handlers it
\* leaves behind.
LEMMA RiskWorker ==
    ASSUME BaseInv, NEW w \in Workers,
           \/ WorkerStart(w) \/ WorkerStop(w) \/ Disconnect(w)
           \/ WorkerExit(w) \/ WorkerCrash(w)
    PROVE  \A k \in Jobs :
               Risky(k)' => Risky(k) \/ (Disconnect(w) /\ k \in Busy(w))
  <1> SUFFICES ASSUME NEW k \in Jobs, Risky(k)'
               PROVE  Risky(k) \/ (Disconnect(w) /\ k \in Busy(w))
    OBVIOUS
  <1>1. TypeOK /\ UnackedHasHandler /\ connected \subseteq Workers
    BY DEF BaseInv, TaskInv, TypeOK
  <1>2. /\ UNCHANGED <<row, submit, wire>>
        /\ \A v \in Workers \ {w}, j \in Jobs : handler'[v][j] = handler[v][j]
        /\ \A v \in Workers \ {w} : v \in connected' <=> v \in connected
        /\ \/ UNCHANGED <<task[k], holder[k]>>
           \/ task[k] = "unacked" /\ task'[k] = "ready"
    BY <1>1, WorkerFrame
  <1>3. faults'["timeout"] = faults["timeout"]
    <2>1. faults' = faults \/ \E m \in {"stop", "disconnect", "crash"} : Fault(m)
      BY DEF WorkerStart, WorkerStop, Disconnect, WorkerExit, WorkerCrash
    <2> QED
      BY <1>1, <2>1, FaultEffect DEF FaultKinds
  <1>4. Unfinished(k)' <=> Unfinished(k)
    BY <1>2 DEF Unfinished
  <1>5. Abandoned(k)' => Abandoned(k)
    <2>1. Unsent(k)' => Unsent(k)
      BY <1>2, <1>3 DEF Unsent, OnWire
    <2>2. CASE task'[k] = "unacked"
      <3>1. task[k] = "unacked" /\ holder'[k] = holder[k] /\ holder[k] \in Workers
        BY <1>1, <1>2, <2>2 DEF UnackedHasHandler
      <3>2. handler'[holder[k]][k] = handler[holder[k]][k]
        <4>1. CASE holder[k] # w
          BY <1>2, <3>1, <4>1
        <4>2. CASE holder[k] = w
          <5>1. ~Requeue(w)
            BY <1>1, <2>2, <3>1, <4>2, RequeueEffect
          <5>2. handler' = handler
            BY <1>1, <5>1, WorkerEffect
          <5> QED
            BY <5>2
        <4> QED
          BY <4>1, <4>2
      <3> QED
        BY <2>2, <3>1, <3>2 DEF Abandoned, Unsent
    <2> QED
      BY <1>2, <2>1, <2>2 DEF Abandoned
  <1>6. StaleHandled(k)' => StaleHandled(k) \/ (Disconnect(w) /\ k \in Busy(w))
    <2> SUFFICES ASSUME NEW v \in Workers, v \notin connected',
                        handler'[v][k].stage # "idle"
                 PROVE  StaleHandled(k) \/ (Disconnect(w) /\ k \in Busy(w))
      BY DEF StaleHandled
    <2>1. CASE v # w
      BY <1>2, <2>1 DEF StaleHandled
    <2>2. CASE v = w
      <3>1. WorkerStop(w) \/ Disconnect(w)
        BY <1>1, <2>2, WorkerEffect
      <3>2. CASE WorkerStop(w)
        BY <1>1, <2>2, <3>2, WorkerEffect DEF StaleHandled
      <3>3. CASE Disconnect(w)
        BY <1>1, <2>2, <3>3, WorkerEffect DEF Busy
      <3> QED
        BY <3>1, <3>2, <3>3
    <2> QED
      BY <2>1, <2>2
  <1> QED
    BY <1>4, <1>5, <1>6 DEF Risky

\* In step, only the task of the call that waits is on the wire.
LEMMA WireAwaited ==
    ASSUME SyncInv, faults["timeout"] = 0, NEW k \in Jobs, OnWire(k)
    PROVE  submit[k] = "awaiting"
  <1>1. InStep /\ wire # <<>>
    BY DEF SyncInv, OnWire
  <1>2. PICK j \in Jobs : submit[j] = "awaiting"
    BY <1>1 DEF InStep, PublisherLocked
  <1>3. wire = <<j>>
    BY <1>1, <1>2 DEF InStep, Outstanding
  <1>4. k = j
    BY <1>3 DEF OnWire
  <1> QED
    BY <1>2, <1>4

\* The broker's answer takes the first task off the wire, and no other.
LEMMA OthersOnWire ==
    ASSUME TypeOK, wire # <<>>, wire' = Tail(wire),
           NEW k \in Jobs, k # Head(wire), OnWire(k)
    PROVE  OnWire(k)'
  <1>1. PICK i \in DOMAIN wire : wire[i] = k
    BY DEF OnWire
  <1>2. wire \in Seq(Jobs)
    BY DEF TypeOK
  <1>3. i \in 1 .. Len(wire) /\ i # 1
    BY <1>1, <1>2, TailWire
  <1>4. i - 1 \in DOMAIN Tail(wire) /\ Tail(wire)[i - 1] = wire[i]
    BY <1>2, <1>3, SMTT(30)
  <1> QED
    BY <1>1, <1>4 DEF OnWire

\* A task that leaves the wire without being stored puts its job at risk only
\* if a confirmation came late before.
LEMMA RiskApiBroker ==
    ASSUME BaseInv, SyncInv, PublisherLost \/ BrokerNext
    PROVE  \A k \in Jobs : Risky(k)' =>
               \/ Risky(k)
               \/ faults["timeout"] > 0 /\ Fault("publisher")
               \/ faults["timeout"] > 0 /\ k = Head(wire) /\ Fault("nack")
  <1> SUFFICES ASSUME NEW k \in Jobs, Risky(k)', ~Risky(k)
               PROVE  faults["timeout"] > 0 /\ \/ Fault("publisher")
                                               \/ k = Head(wire) /\ Fault("nack")
    OBVIOUS
  <1>1. TaskInv /\ TypeOK /\ faults["timeout"] \in Nat
    BY DEF BaseInv, TaskInv, TypeOK, FaultKinds
  <1>2. /\ UNCHANGED <<row, submit, holder, handler, connected>>
        /\ \/ task'[k] = task[k]
           \/ task[k] = "none" /\ task'[k] = "ready"
    BY <1>1, ApiBrokerFrame DEF PublisherLost, BrokerNext, BrokerAccept, BrokerRefuse
  <1>3. faults'["timeout"] = faults["timeout"]
    <2>1. faults' = faults \/ Fault("publisher") \/ Fault("nack")
      BY DEF PublisherLost, BrokerNext, BrokerAccept, BrokerRefuse
    <2> QED
      BY <1>1, <2>1, FaultEffect DEF FaultKinds
  <1>4. Unsent(k)' /\ ~Unsent(k)
    <2>1. StaleHandled(k)' => StaleHandled(k)
      BY <1>2 DEF StaleHandled
    <2>2. Unfinished(k)' => Unfinished(k)
      BY <1>2 DEF Unfinished
    <2>3. Abandoned(k)' /\ ~Abandoned(k)
      BY <2>1, <2>2 DEF Risky
    <2> QED
      BY <1>2, <2>3 DEF Abandoned
  <1>5. /\ task[k] = "none" /\ task'[k] = "none"
        /\ OnWire(k) /\ ~OnWire(k)'
        /\ submit[k] \notin InSubmit \/ submit[k] = "awaiting"
        /\ submit[k] = "awaiting" => faults["timeout"] > 0
    BY <1>2, <1>3, <1>4 DEF Unsent, InSubmit
  <1>6. faults["timeout"] > 0
    BY <1>1, <1>5, WireAwaited
  <1>7. CASE PublisherLost
    BY <1>6, <1>7 DEF PublisherLost
  <1>8. CASE BrokerNext
    <2>1. wire # <<>> /\ wire' = Tail(wire)
      BY <1>8 DEF BrokerNext, BrokerAccept, BrokerRefuse
    <2>2. k = Head(wire)
      BY <1>1, <1>5, <2>1, OthersOnWire
    <2>3. ~BrokerAccept
      BY <1>1, <1>5, <2>2 DEF BrokerAccept, TypeOK
    <2> QED
      BY <1>6, <1>8, <2>2, <2>3 DEF BrokerNext, BrokerRefuse
  <1> QED
    BY <1>7, <1>8
\* Only a delivery makes a worker busier, and only one that has room.
LEMMA RoomStep ==
    ASSUME BaseInv, RoomKept, IsFiniteSet(Jobs), [Next]_vars
    PROVE  RoomKept'
  <1> SUFFICES ASSUME NEW v \in Workers
               PROVE  Cardinality(Busy(v)') <= Concurrency
    BY DEF RoomKept
  <1>1. TypeOK /\ TaskInv /\ Concurrency \in Nat
    BY ConcurrencyAssumption DEF BaseInv, TaskInv
  <1>2. IsFiniteSet(Busy(v)) /\ Cardinality(Busy(v)) <= Concurrency
    <2>1. Busy(v) \subseteq Jobs
      BY DEF Busy
    <2> QED
      BY <2>1, FS_Subset DEF RoomKept
  <1>3. Busy(v)' \subseteq Busy(v) => Cardinality(Busy(v)') <= Concurrency
    BY <1>1, <1>2, NoMore
  <1>4. CASE HandlerNext
    <2> PICK w \in Workers, j \in Jobs : Deliver(w, j) \/ HandlerStep(w, j)
      BY <1>4 DEF HandlerNext
    <2>1. \A u \in Workers, k \in Jobs :
              u # w \/ k # j => handler'[u][k] = handler[u][k]
      BY <1>1, HandlerFrame
    <2>2. CASE v = w /\ Deliver(w, j)
      <3>1. Busy(v)' \subseteq Busy(v) \cup {j} /\ Cardinality(Busy(v)) < Concurrency
        BY <2>1, <2>2 DEF Busy, Deliver
      <3>2. IsFiniteSet({j}) /\ Cardinality({j}) = 1
        BY FS_Singleton
      <3>3. /\ Cardinality(Busy(v)) \in Nat /\ Cardinality(Busy(v)') \in Nat
            /\ Cardinality(Busy(v)') <= Cardinality(Busy(v)) + 1
        BY <1>2, <3>1, <3>2, AtMostMore
      <3> QED
        BY <1>1, <3>1, <3>3
    <2>3. CASE v # w
      BY <1>3, <2>1, <2>3 DEF Busy
    <2>4. CASE HandlerStep(w, j)
      <3>1. handler[w][j].stage # "idle"
        BY <1>1, <2>4, LoadEffect, StartEffect, GenerateEffect, StoreEffect,
           FailEffect, SucceedEffect, SettleEffect
           DEF HandlerStep, Ack, Nack, TaskState
      <3> QED
        BY <1>3, <2>1, <3>1 DEF Busy
    <2> QED
      BY <2>2, <2>3, <2>4
  <1>5. CASE WorkerNext
    <2> PICK w \in Workers : \/ WorkerStart(w) \/ WorkerStop(w) \/ Disconnect(w)
                             \/ WorkerExit(w) \/ WorkerCrash(w)
      BY <1>5 DEF WorkerNext
    <2>1. \A k \in Jobs : \/ handler'[v][k] = handler[v][k]
                          \/ handler'[v][k].stage = "idle"
      BY <1>1, WorkerFrame, WorkerEffect
    <2> QED
      BY <1>3, <2>1 DEF Busy
  <1>6. CASE SubmitNext \/ PublisherLost \/ ApiCrash \/ BrokerNext \/ UNCHANGED vars
    <2>1. handler' = handler
      BY <1>1, <1>6, SubmitFrame, ApiBrokerFrame DEF SubmitNext, vars
    <2> QED
      BY <1>3, <2>1 DEF Busy
  <1> QED
    BY <1>4, <1>5, <1>6 DEF Next

LEMMA StrandStep == StrandInv /\ [Next]_vars => StrandInv'
  <1> SUFFICES ASSUME StrandInv, [Next]_vars PROVE StrandInv'
    OBVIOUS
  <1>1. BaseInv /\ BaseInv' /\ SyncInv /\ SyncInv' /\ IsFiniteSet(Jobs) /\ TypeOK
    BY BaseStep, SyncStep DEF StrandInv, BaseInv, TaskInv
  <1>2. RoomKept'
    BY <1>1, RoomStep DEF StrandInv
  <1>3. /\ IsFiniteSet(AtRisk) /\ Cardinality(AtRisk) <= StrandBudget
        /\ Cardinality(AtRisk) \in Nat /\ Cardinality(AtRisk') \in Nat
        /\ Cardinality(AtRisk') <= Cardinality(Jobs) /\ Cardinality(Jobs) \in Nat
    <2>1. AtRisk \subseteq Jobs /\ AtRisk' \subseteq Jobs
      BY DEF AtRisk
    <2> QED
      BY <1>1, <2>1, FS_Subset, NoMore DEF StrandInv
  <1>4. /\ StrandBudget \in Nat
        /\ faults' = faults => StrandBudget' = StrandBudget
        /\ \A k \in FaultKinds : Fault(k) =>
               StrandBudget' \in Nat /\ StrandBudget <= StrandBudget'
    BY <1>1, BudgetGrows
  <1>5. StrandBudget' \in Nat /\ StrandBudget <= StrandBudget'
    <2>1. faults' = faults \/ \E k \in FaultKinds : Fault(k)
      BY <1>1, FaultsCounted
    <2> QED
      BY <1>4, <2>1
  <1> SUFFICES Cardinality(AtRisk') <= StrandBudget'
    BY <1>1, <1>2 DEF StrandInv
  <1>6. AtRisk' \subseteq AtRisk => Cardinality(AtRisk') <= StrandBudget'
    BY <1>3, <1>4, <1>5, NoMore
  <1>7. ASSUME NEW j, AtRisk' \subseteq AtRisk \cup {j},
               StrandBudget' = StrandBudget + 1
        PROVE  Cardinality(AtRisk') <= StrandBudget'
    <2>1. IsFiniteSet({j}) /\ Cardinality({j}) = 1
      BY FS_Singleton
    <2>2. Cardinality(AtRisk') <= Cardinality(AtRisk) + 1
      BY <1>3, <1>7, <2>1, AtMostMore
    <2> QED
      BY <1>3, <1>4, <1>7, <2>2
  <1>8. ASSUME NEW j \in Jobs,
               \A k \in Jobs : Risky(k)' => Risky(k) \/ (k = j /\ Fault("db"))
        PROVE  Cardinality(AtRisk') <= StrandBudget'
    <2>1. CASE Fault("db")
      <3>1. StrandBudget' = StrandBudget + 1
        BY <1>1, <2>1, BudgetGrows DEF FaultKinds
      <3>2. AtRisk' \subseteq AtRisk \cup {j}
        BY <1>8 DEF AtRisk
      <3> QED
        BY <1>7, <3>1, <3>2
    <2>2. CASE ~Fault("db")
      BY <1>6, <1>8, <2>2 DEF AtRisk
    <2> QED
      BY <2>1, <2>2
  <1>9. CASE SubmitNext
    BY <1>1, <1>8, <1>9, RiskSubmit DEF SubmitNext
  <1>10. CASE HandlerNext
    BY <1>1, <1>8, <1>10, RiskHandler DEF HandlerNext
  <1>11. CASE ApiCrash
    BY <1>1, <1>3, <1>5, <1>11, BudgetGrows DEF ApiCrash, FaultKinds
  <1>12. CASE PublisherLost \/ BrokerNext
    <2>1. \A k \in Jobs : Risky(k)' =>
              \/ Risky(k)
              \/ faults["timeout"] > 0 /\ Fault("publisher")
              \/ faults["timeout"] > 0 /\ k = Head(wire) /\ Fault("nack")
      BY <1>1, <1>12, RiskApiBroker
    <2>2. CASE faults["timeout"] > 0 /\ Fault("publisher")
      <3>1. Cardinality(Jobs) <= StrandBudget'
        BY <1>1, <2>2, BudgetGrows DEF FaultKinds
      <3> QED
        BY <1>3, <1>5, <3>1
    <2>3. CASE /\ faults["timeout"] > 0 /\ Fault("nack")
               /\ ~(faults["timeout"] > 0 /\ Fault("publisher"))
      <3>1. StrandBudget' = StrandBudget + 1
        BY <1>1, <2>3, BudgetGrows DEF FaultKinds
      <3>2. AtRisk' \subseteq AtRisk \cup {Head(wire)}
        BY <2>1, <2>3 DEF AtRisk
      <3> QED
        BY <1>7, <3>1, <3>2
    <2>4. CASE ~(faults["timeout"] > 0 /\ (Fault("publisher") \/ Fault("nack")))
      BY <1>6, <2>1, <2>4 DEF AtRisk
    <2> QED
      BY <2>2, <2>3, <2>4
  <1>13. CASE WorkerNext
    <2> PICK w \in Workers : \/ WorkerStart(w) \/ WorkerStop(w) \/ Disconnect(w)
                             \/ WorkerExit(w) \/ WorkerCrash(w)
      BY <1>13 DEF WorkerNext
    <2>1. \A k \in Jobs : Risky(k)' => Risky(k) \/ (Disconnect(w) /\ k \in Busy(w))
      BY <1>1, RiskWorker
    <2>2. CASE Disconnect(w)
      <3>1. StrandBudget' = StrandBudget + Concurrency
        BY <1>1, <2>2, BudgetGrows DEF Disconnect, FaultKinds
      <3>2. /\ IsFiniteSet(Busy(w)) /\ Cardinality(Busy(w)) <= Concurrency
            /\ Cardinality(Busy(w)) \in Nat /\ Concurrency \in Nat
        <4>1. Busy(w) \subseteq Jobs
          BY DEF Busy
        <4> QED
          BY <1>1, <4>1, FS_Subset, FS_CardinalityType, ConcurrencyAssumption
             DEF StrandInv, RoomKept
      <3>3. AtRisk' \subseteq AtRisk \cup Busy(w)
        BY <2>1 DEF AtRisk
      <3>4. Cardinality(AtRisk') <= Cardinality(AtRisk) + Cardinality(Busy(w))
        BY <1>3, <3>2, <3>3, AtMostMore
      <3> QED
        BY <1>3, <1>4, <3>1, <3>2, <3>4
    <2>3. CASE ~Disconnect(w)
      BY <1>6, <2>1, <2>3 DEF AtRisk
    <2> QED
      BY <2>2, <2>3
  <1>14. CASE UNCHANGED vars
    <2>1. AtRisk' = AtRisk
      BY <1>14 DEF vars, api, broker, procs, AtRisk, Risky, StaleHandled, Unfinished,
                   Abandoned, Unsent, OnWire
    <2> QED
      BY <1>6, <2>1
  <1> QED
    BY <1>9, <1>10, <1>11, <1>12, <1>13, <1>14 DEF Next

\* However many jobs and workers there are, the jobs whose clients may poll for
\* ever are no more than the failed statements, the handlers that lost their
\* connection, and the publishes an API crash or a late confirmation can account
\* for: crashes and shutdowns of workers and failed publishes strand none.
THEOREM StrandedAreBounded == IsFiniteSet(Jobs) => (Spec => []StrandedBounded)
  <1> SUFFICES ASSUME IsFiniteSet(Jobs) PROVE Spec => []StrandedBounded
    OBVIOUS
  <1>1. Init => StrandInv
    <2> SUFFICES ASSUME Init PROVE StrandInv
      OBVIOUS
    <2>1. TypeOK
      BY TypeInit
    <2>2. \A w \in Workers : Busy(w) = {}
      BY DEF Init, NoWork, Busy
    <2>3. RoomKept
      BY <2>2, FS_EmptySet, ConcurrencyAssumption DEF RoomKept
    <2>4. AtRisk = {}
      BY DEF Init, NoRow, NoWork, AtRisk, Risky, StaleHandled, Unfinished
    <2>5. StrandBudget \in Nat
      BY <2>1, BudgetGrows
    <2> QED
      BY <2>3, <2>4, <2>5, BaseInit, SyncInit, FS_EmptySet DEF StrandInv
  <1>2. StrandInv => StrandedBounded
    <2> SUFFICES ASSUME StrandInv PROVE Cardinality(Stranded) <= StrandBudget
      BY DEF StrandedBounded, StrandBudget
    <2>1. TypeOK
      BY DEF StrandInv, BaseInv, TaskInv
    <2>2. Stranded \subseteq AtRisk
      BY <2>1, CountersType
         DEF Stranded, AtRisk, Risky, Unfinished, Abandoned, Unsent, TaskState
    <2>3. IsFiniteSet(AtRisk)
      BY FS_Subset DEF StrandInv, AtRisk
    <2>4. StrandBudget \in Nat
      BY <2>1, BudgetGrows
    <2>5. /\ Cardinality(Stranded) \in Nat /\ Cardinality(AtRisk) \in Nat
          /\ Cardinality(Stranded) <= Cardinality(AtRisk)
      BY <2>2, <2>3, NoMore
    <2> QED
      BY <2>4, <2>5 DEF StrandInv
  <1> QED
    BY <1>1, <1>2, StrandStep, PTL DEF Spec
=============================================================================
