---------------------------- MODULE EventPublisher ----------------------------
(***************************************************************************)
(* The lifecycle events of chats (ChatService.publishChatEvent,            *)
(* RabbitMQPublisher.Publish): every event is published by a goroutine of  *)
(* its own, one at a time under a mutex, within 2 seconds that run from    *)
(* before the mutex is asked for. What the broker answers arrives through  *)
(* two Go channels with one slot each, filled by the reader goroutine of   *)
(* the client library, and carries no name: whoever publishes takes what   *)
(* comes first. PublishChatTask is the same code on another exchange.      *)
(* A client may also have an event published (CozeHandler.Event), which    *)
(* then happens in the goroutine of its request, and it is told the        *)
(* outcome.                                                                *)
(***************************************************************************)
EXTENDS Naturals, Sequences, FiniteSets

CONSTANTS
    Events,     \* the events that are published
    Type,       \* Type[e]: the routing key, a sequence of words
    Awaited,    \* those a client waits for
    Binding,    \* the binding key of the queue, a sequence of words
    MaxNacks,   \* bound: how many events the broker refuses
    Nobody      \* the owner of a free mutex

ASSUME KeyAssumption ==
    /\ Type \in [Events -> Seq(STRING)] /\ Binding \in Seq(STRING)
    /\ \A i \in DOMAIN Binding : Binding[i] # "#"
ASSUME AwaitedAssumption == Awaited \subseteq Events
ASSUME NackAssumption   == MaxNacks \in Nat
ASSUME NobodyAssumption == Nobody \notin Events

VARIABLES
    at,           \* at[e]: where the goroutine of e is
    outcome,      \* outcome[e]: what Publish returned
    answer,       \* answer[e]: the status the waiting client got
    expired,      \* the events whose context is done
    mutex,        \* p.mu
    open,         \* is the AMQP channel open
    wire,         \* events sent, not seen by the broker
    unconfirmed,  \* events the broker has handled, not confirmed
    frames,       \* what the broker sent, not dispatched by the reader
    returns,      \* p.returns
    confirms,     \* p.confirms
    log,          \* the events in the queue
    nacks

caller == <<at, outcome, answer, expired, mutex>>
broker == <<wire, unconfirmed, frames, log, nacks>>
slots  == <<returns, confirms>>
vars   == <<caller, open, broker, slots>>

Places   == {"idle", "lock", "send", "returns", "confirm", "done"}
Outcomes == {"none", "ok", "not sent", "unroutable", "nack", "closed", "timeout"}

\* A basic.return, or a basic.ack or basic.nack.
Frame == {"return", "ack", "nack"}

Init ==
    /\ at = [e \in Events |-> "idle"]
    /\ outcome = [e \in Events |-> "none"]
    /\ answer = [e \in Events |-> 0]
    /\ expired = {}
    /\ mutex = Nobody
    /\ open = TRUE
    /\ wire = <<>> /\ unconfirmed = <<>> /\ frames = <<>>
    /\ returns = <<>> /\ confirms = <<>>
    /\ log = {}
    /\ nacks = 0

\* Topic exchange: a star stands for exactly one word.
Matches(pattern, key) ==
    /\ Len(pattern) = Len(key)
    /\ \A i \in DOMAIN key : pattern[i] \in {"*", key[i]}

Routable(e) == Matches(Binding, Type[e])

-----------------------------------------------------------------------------
(* publishChatEvent and Publish.                                           *)

Goto(e, from, to) ==
    /\ at[e] = from
    /\ at' = [at EXCEPT ![e] = to]

Begin(e) ==
    /\ Goto(e, "idle", "lock")
    /\ UNCHANGED <<outcome, answer, expired, mutex, open, broker, slots>>

\* The 2 seconds are over.
Expire(e) ==
    /\ at[e] \notin {"idle", "done"}
    /\ expired' = expired \cup {e}
    /\ UNCHANGED <<at, outcome, answer, mutex, open, broker, slots>>

\* Mutant: the mutex is not waited for.
MutLock(e) ==
    /\ Goto(e, "lock", "send")
    /\ mutex' = e
    /\ UNCHANGED <<outcome, answer, expired, open, broker, slots>>

\* The mutex knows nothing of the context.
Lock(e) ==
    /\ mutex = Nobody
    /\ Goto(e, "lock", "send")
    /\ mutex' = e
    /\ UNCHANGED <<outcome, answer, expired, open, broker, slots>>

\* Publish returns, and the deferred Unlock runs.
Return(e, from, result) ==
    /\ Goto(e, from, "done")
    /\ outcome' = [outcome EXCEPT ![e] = result]
    /\ mutex' = Nobody
    /\ UNCHANGED <<answer, expired>>

\* PublishWithContext, which does not look at the context.
Send(e) ==
    \/ /\ open
       /\ Goto(e, "send", "returns")
       /\ wire' = Append(wire, e)
       /\ UNCHANGED <<outcome, answer, expired, mutex, open, unconfirmed, frames, log,
                      nacks, slots>>
    \/ /\ ~open
       /\ Return(e, "send", "not sent")
       /\ UNCHANGED <<open, broker, slots>>

\* The select with a default: what was returned so far, if anything. A
\* closed channel is always ready.
LookForReturn(e) ==
    /\ \/ /\ returns # <<>> \/ ~open
          /\ Return(e, "returns", "unroutable")
          /\ returns' = IF returns = <<>> THEN <<>> ELSE Tail(returns)
       \/ /\ returns = <<>> /\ open
          /\ Goto(e, "returns", "confirm")
          /\ UNCHANGED <<outcome, answer, expired, mutex, returns>>
    /\ UNCHANGED <<open, broker, confirms>>

\* Mutant: whatever is confirmed counts as accepted.
MutTakeConfirm(e) ==
    /\ confirms # <<>>
    /\ Return(e, "confirm", "ok")
    /\ confirms' = Tail(confirms)
    /\ UNCHANGED <<open, broker, returns>>

TakeConfirm(e) ==
    /\ \/ /\ confirms # <<>>
          /\ Return(e, "confirm", IF Head(confirms) = "ack" THEN "ok" ELSE "nack")
          /\ confirms' = Tail(confirms)
       \/ /\ confirms = <<>> /\ ~open
          /\ Return(e, "confirm", "closed")
          /\ UNCHANGED confirms
    /\ UNCHANGED <<open, broker, returns>>

\* Mutant: the wait for the confirmation ignores the context.
MutGiveUp(e) == FALSE /\ UNCHANGED vars

\* ctx.Done; select takes it even when a confirmation is there as well.
GiveUp(e) ==
    /\ e \in expired
    /\ Return(e, "confirm", "timeout")
    /\ UNCHANGED <<open, broker, slots>>

\* Event tells the client: published, or failed.
Answer(e) ==
    /\ e \in Awaited /\ at[e] = "done" /\ answer[e] = 0
    /\ answer' = [answer EXCEPT ![e] = IF outcome[e] = "ok" THEN 200 ELSE 500]
    /\ UNCHANGED <<at, outcome, expired, mutex, open, broker, slots>>

Publish(e) ==
    \/ Lock(e) \/ Send(e) \/ LookForReturn(e) \/ TakeConfirm(e) \/ GiveUp(e)
    \/ Answer(e)

-----------------------------------------------------------------------------
(* The broker and the reader goroutine of the client library.              *)

\* An event no binding takes is returned at once.
Route ==
    /\ open /\ wire # <<>>
    /\ wire' = Tail(wire)
    /\ unconfirmed' = Append(unconfirmed, Head(wire))
    /\ \/ /\ Routable(Head(wire))
          /\ log' = log \cup {Head(wire)}
          /\ UNCHANGED <<frames, nacks>>
       \/ /\ Routable(Head(wire)) /\ nacks < MaxNacks
          /\ nacks' = nacks + 1
          /\ UNCHANGED <<frames, log>>
       \/ /\ ~Routable(Head(wire))
          /\ frames' = Append(frames, "return")
          /\ UNCHANGED <<log, nacks>>
    /\ UNCHANGED <<caller, open, slots>>

\* An event that was stored or returned is acked, one that was not is
\* nacked; the library restores the order of publishing.
Confirm ==
    LET e == Head(unconfirmed) IN
    /\ open /\ unconfirmed # <<>>
    /\ unconfirmed' = Tail(unconfirmed)
    /\ frames' = Append(frames, IF Routable(e) /\ e \notin log THEN "nack" ELSE "ack")
    /\ UNCHANGED <<caller, open, wire, log, nacks, slots>>

\* The Go channels are made with one slot each. Mutant: with two.
MutRoom(slot) == Len(slot) <= 1
Room(slot)    == Len(slot) = 0

\* The reader blocks while the slot for its frame is taken.
Dispatch ==
    /\ open /\ frames # <<>>
    /\ \/ /\ Head(frames) = "return" /\ Room(returns)
          /\ returns' = Append(returns, "return")
          /\ UNCHANGED confirms
       \/ /\ Head(frames) # "return" /\ Room(confirms)
          /\ confirms' = Append(confirms, Head(frames))
          /\ UNCHANGED returns
    /\ frames' = Tail(frames)
    /\ UNCHANGED <<caller, open, wire, unconfirmed, log, nacks>>

\* The connection closes, for good; what is in the slots can still be read.
Close ==
    /\ open
    /\ open' = FALSE
    /\ wire' = <<>> /\ unconfirmed' = <<>> /\ frames' = <<>>
    /\ UNCHANGED <<caller, log, nacks, slots>>

Next ==
    \/ \E e \in Events : Begin(e) \/ Expire(e) \/ Publish(e)
    \/ Route \/ Confirm \/ Dispatch \/ Close

Spec == Init /\ [][Next]_vars

(* Goroutines run and timers fire. The broker need not answer.             *)
Fairness ==
    \A e \in Events : WF_vars(Publish(e)) /\ WF_vars(Expire(e) /\ e \notin expired)

FairSpec == Spec /\ Fairness

-----------------------------------------------------------------------------
TypeOK ==
    /\ at \in [Events -> Places]
    /\ outcome \in [Events -> Outcomes]
    /\ answer \in [Events -> {0, 200, 500}]
    /\ expired \in SUBSET Events
    /\ mutex \in Events \cup {Nobody}
    /\ open \in BOOLEAN
    /\ wire \in Seq(Events) /\ unconfirmed \in Seq(Events)
    /\ frames \in Seq(Frame)
    /\ returns \in Seq({"return"}) /\ Len(returns) <= 1
    /\ confirms \in Seq({"ack", "nack"}) /\ Len(confirms) <= 1
    /\ log \in SUBSET Events
    /\ nacks \in Nat

\* No Publish gave up on its confirmation, and every event finds a queue.
InStep == \A e \in Events : outcome[e] # "timeout" /\ (at[e] # "idle" => Routable(e))

\* Answers carry no name, and still an answer is the publisher's own for as
\* long as nobody has given up and everything was routable: an event reported
\* as published is in the queue, one reported as refused is not, nothing is
\* ever taken for unroutable while the connection lives.
AnswersAreOwn ==
    InStep => \A e \in Events :
        /\ outcome[e] = "ok" => e \in log
        /\ outcome[e] = "nack" => e \notin log
        /\ outcome[e] = "unroutable" => ~open
        /\ answer[e] = 200 => e \in log

\* A goroutine that publishes an event ends even if the broker falls silent,
\* with the mutex of all the others in its hands, and whoever waits for it
\* gets an answer.
PublishEnds ==
    \A e \in Events :
        at[e] = "lock" ~> at[e] = "done" /\ (e \in Awaited => answer[e] # 0)

\* "routing key: chat.completed / chat.stream.completed, queue:
\* chat.events.log, binding: chat.*", "event logging to this Go backend": what
\* was published is in the queue.
PublishedIsLogged == \A e \in Events : outcome[e] = "ok" => e \in log
=============================================================================
