------------------------------- MODULE ChatTurn -------------------------------
(***************************************************************************)
(* Chat requests in the server process (ChatService and the handlers in    *)
(* api/chat.go): all of them share the semaphore of LLM slots, a streamed  *)
(* one also a pipe with the goroutine that sends the response. The wait    *)
(* for a slot and the LLM call are under one timer per request; a write    *)
(* into the pipe is not: it lasts until the client has read or is gone, so *)
(* that the timer may be over before the answer is. What the LLM has sent  *)
(* by then is still read and passed on.                                    *)
(*                                                                         *)
(* An answer is the number of its pieces: lines of the LLM's stream that   *)
(* carry text; 0 is the empty answer.                                      *)
(***************************************************************************)
EXTENDS Integers, Sequences, FiniteSets

CONSTANTS
    Turns,             \* the requests
    Kind,              \* Kind[t], see Kinds
    Stalled,           \* requests whose client neither reads nor goes away
    MaxConcurrentLLM,  \* capacity of llmLimiter
    MaxPieces,         \* bound: pieces of an answer
    Nothing            \* no frame in the pipe

Kinds ==
    { "chat",           \* Chat
      "stream",         \* ChatStream
      "complete",       \* OpenAIChatCompletions
      "stream complete" \* OpenAIChatCompletions with stream = true
    }

ASSUME KindAssumption  == Kind \in [Turns -> Kinds] /\ Stalled \subseteq Turns
ASSUME SlotAssumption  == MaxConcurrentLLM \in Nat \ {0}
ASSUME BoundAssumption == MaxPieces \in Nat \ {0}
ASSUME NothingAssumption == Nothing \notin {"delta", "done", "error"}

VARIABLES
    at,        \* at[t]: where the goroutine of request t is
    timer,     \* timer[t]: llmCtx is "off", "set" or "done"
    slots,     \* tokens in llmLimiter
    piece,     \* piece[t]: the answer so far
    question,  \* the requests whose user message is stored
    answer,    \* answer[t]: the assistant message stored, -1 for none
    pipe,      \* pipe[t]: the frame being written
    got,       \* got[t]: the frames the client has read
    gone       \* the requests whose response is closed

messages == <<question, answer>>
client   == <<pipe, got, gone>>
vars     == <<at, timer, slots, piece, messages, client>>

Streamed(t) == Kind[t] \in {"stream", "stream complete"}
InSession(t) == Kind[t] \in {"chat", "stream"}

Places ==
    {"idle", "question", "history", "slot", "call", "model", "deliver",
     "store", "succeeded", "failed", "end", "done"}

\* Between the send to llmLimiter and the deferred release.
HoldsSlot(t) == at[t] \in {"call", "model", "deliver", "store"}

Init ==
    /\ at = [t \in Turns |-> "idle"]
    /\ timer = [t \in Turns |-> "off"]
    /\ slots = 0
    /\ piece = [t \in Turns |-> 0]
    /\ question = {}
    /\ answer = [t \in Turns |-> -1]
    /\ pipe = [t \in Turns |-> Nothing]
    /\ got = [t \in Turns |-> <<>>]
    /\ gone = {}

Goto(t, from, to) ==
    /\ at[t] = from
    /\ at' = [at EXCEPT ![t] = to]

\* The service call returns with the slot: defer release(), defer cancel().
LeaveModel(t, from, to) ==
    /\ Goto(t, from, to)
    /\ slots' = slots - 1
    /\ timer' = [timer EXCEPT ![t] = "off"]

-----------------------------------------------------------------------------
(* Before the model.                                                       *)

\* Bad request, or checkUserLLMRateLimit refuses; for a streamed request all
\* but the first goes on in a goroutine of its own.
Begin(t) ==
    /\ \/ Goto(t, "idle", IF InSession(t) THEN "question" ELSE "slot")
       \/ Goto(t, "idle", "failed")
    /\ timer' = IF at'[t] = "slot" THEN [timer EXCEPT ![t] = "set"] ELSE timer
    /\ UNCHANGED <<slots, piece, messages, client>>

\* CreateMessage of the user's message.
StoreQuestion(t) ==
    /\ \/ /\ Goto(t, "question", "history")
          /\ question' = question \cup {t}
       \/ /\ Goto(t, "question", "failed")
          /\ UNCHANGED question
    /\ UNCHANGED <<timer, slots, piece, answer, client>>

\* ListMessages; then llmCtx is made.
ReadHistory(t) ==
    /\ \/ /\ Goto(t, "history", "slot")
          /\ timer' = [timer EXCEPT ![t] = "set"]
       \/ /\ Goto(t, "history", "failed")
          /\ UNCHANGED timer
    /\ UNCHANGED <<slots, piece, messages, client>>

\* Mutants: there is always a slot; the wait for one ignores the timer.
MutAlwaysASlot(t) ==
    /\ Goto(t, "slot", "call")
    /\ slots' = slots + 1
    /\ UNCHANGED <<timer, piece, messages, client>>
MutAcquire(t) ==
    /\ slots < MaxConcurrentLLM
    /\ Goto(t, "slot", "call")
    /\ slots' = slots + 1
    /\ UNCHANGED <<timer, piece, messages, client>>

\* acquireLLM
Acquire(t) ==
    /\ \/ /\ slots < MaxConcurrentLLM
          /\ Goto(t, "slot", "call")
          /\ slots' = slots + 1
          /\ UNCHANGED timer
       \/ /\ timer[t] = "done"
          /\ Goto(t, "slot", "failed")
          /\ timer' = [timer EXCEPT ![t] = "off"]
          /\ UNCHANGED slots
    /\ UNCHANGED <<piece, messages, client>>

Expire(t) ==
    /\ timer[t] = "set"
    /\ timer' = [timer EXCEPT ![t] = "done"]
    /\ UNCHANGED <<at, slots, piece, messages, client>>

-----------------------------------------------------------------------------
(* The model.                                                              *)

AfterModel(t) == IF InSession(t) THEN "store" ELSE "succeeded"

\* The call starts: with the timer over, Do sends nothing and the mock model
\* takes the other branch of its select.
Send(t) ==
    /\ timer[t] # "done"
    /\ Goto(t, "call", "model")
    /\ UNCHANGED <<timer, slots, piece, messages, client>>

\* The call has returned an answer of n pieces.
Answered(t, n) ==
    /\ piece' = [piece EXCEPT ![t] = n]
    /\ \/ /\ AfterModel(t) = "store"
          /\ Goto(t, "model", "store")
          /\ UNCHANGED <<timer, slots>>
       \/ /\ AfterModel(t) # "store"
          /\ LeaveModel(t, "model", "succeeded")

\* einoRunner.Chat, ollamaClient.Chat, mockChat: the answer as a whole. Here
\* and below, what has arrived or is ready when the timer fires may be used.
Call(t) ==
    /\ ~Streamed(t)
    /\ at[t] = "model"
    /\ \E n \in 0 .. MaxPieces : Answered(t, n)
    /\ UNCHANGED <<messages, client>>

\* StreamChat reads a line with text, and onDelta starts to write it; lines
\* in the scanner's buffer are read whatever the timer says.
NextPiece(t) ==
    /\ Streamed(t) /\ piece[t] < MaxPieces
    /\ Goto(t, "model", "deliver")
    /\ piece' = [piece EXCEPT ![t] = @ + 1]
    /\ pipe' = [pipe EXCEPT ![t] = "delta"]
    /\ UNCHANGED <<timer, slots, messages, got, gone>>

\* A line that says done, or the end of the stream; after its last piece
\* mockStreamChat does not look at the timer.
EndOfStream(t) ==
    /\ Streamed(t)
    /\ at[t] = "model"
    /\ Answered(t, piece[t])
    /\ UNCHANGED <<messages, client>>

\* Mutant: the slot is given back only after a success.
MutCallFails(t) ==
    /\ Goto(t, "call", "failed") \/ Goto(t, "model", "failed")
    /\ timer' = [timer EXCEPT ![t] = "off"]
    /\ UNCHANGED <<slots, piece, messages, client>>

\* Unreachable, a bad status or line, or the timer.
CallFails(t) ==
    /\ LeaveModel(t, "call", "failed") \/ LeaveModel(t, "model", "failed")
    /\ UNCHANGED <<piece, messages, client>>

\* onDelta returns: the frame was read, or the other end is closed.
Delivered(t) ==
    /\ \/ /\ pipe[t] = Nothing
          /\ Goto(t, "deliver", "model")
          /\ UNCHANGED <<timer, slots, pipe>>
       \/ /\ pipe[t] # Nothing /\ t \in gone
          /\ LeaveModel(t, "deliver", "failed")
          /\ pipe' = [pipe EXCEPT ![t] = Nothing]
    /\ UNCHANGED <<piece, messages, got, gone>>

\* Mutant: done is reported whether the answer was stored or not.
MutStoreAnswer(t) ==
    /\ LeaveModel(t, "store", "succeeded")
    /\ \/ answer' = [answer EXCEPT ![t] = piece[t]]
       \/ UNCHANGED answer
    /\ UNCHANGED <<piece, question, client>>

\* CreateMessage of the answer, which must not be empty; the slot is still
\* held.
StoreAnswer(t) ==
    /\ \/ /\ piece[t] # 0
          /\ LeaveModel(t, "store", "succeeded")
          /\ answer' = [answer EXCEPT ![t] = piece[t]]
       \/ /\ LeaveModel(t, "store", "failed")
          /\ UNCHANGED answer
    /\ UNCHANGED <<piece, question, client>>

-----------------------------------------------------------------------------
(* The response.                                                           *)

\* The last frame of a streamed response; any other is sent as a whole.
Finish(t) ==
    /\ \/ /\ Streamed(t) /\ Goto(t, "succeeded", "end")
          /\ pipe' = [pipe EXCEPT ![t] = "done"]
       \/ /\ Streamed(t) /\ Goto(t, "failed", "end")
          /\ pipe' = [pipe EXCEPT ![t] = "error"]
       \/ /\ ~Streamed(t) /\ at[t] \in {"succeeded", "failed"}
          /\ at' = [at EXCEPT ![t] = "done"]
          /\ UNCHANGED pipe
    /\ UNCHANGED <<timer, slots, piece, messages, got, gone>>

\* writer.Close.
End(t) ==
    /\ pipe[t] = Nothing \/ t \in gone
    /\ Goto(t, "end", "done")
    /\ pipe' = [pipe EXCEPT ![t] = Nothing]
    /\ UNCHANGED <<timer, slots, piece, messages, got, gone>>

\* The client reads the frame that is being written.
Read(t) ==
    /\ pipe[t] # Nothing /\ t \notin gone \cup Stalled
    /\ got' = [got EXCEPT ![t] = Append(@, pipe[t])]
    /\ pipe' = [pipe EXCEPT ![t] = Nothing]
    /\ UNCHANGED <<at, timer, slots, piece, messages, gone>>

\* The client is gone and the response closes its end of the pipe.
GoAway(t) ==
    /\ Streamed(t) /\ at[t] \notin {"idle", "done"} /\ t \notin gone \cup Stalled
    /\ gone' = gone \cup {t}
    /\ UNCHANGED <<at, timer, slots, piece, messages, pipe, got>>

Step(t) ==
    \/ StoreQuestion(t) \/ ReadHistory(t) \/ Acquire(t)
    \/ CallFails(t) /\ timer[t] = "done"
    \/ Delivered(t) \/ StoreAnswer(t) \/ Finish(t) \/ End(t)

Model(t) == Send(t) \/ Call(t) \/ NextPiece(t) \/ EndOfStream(t) \/ CallFails(t)

Next ==
    \E t \in Turns :
        \/ Begin(t) \/ Step(t) \/ Model(t) \/ Expire(t)
        \/ Read(t) \/ GoAway(t)

Spec == Init /\ [][Next]_vars

(* Goroutines run, statements end, timers fire, and a client that is not   *)
(* stalled reads until it goes away. The model need never answer.          *)
Fairness ==
    \A t \in Turns : WF_vars(Step(t)) /\ WF_vars(Expire(t)) /\ WF_vars(Read(t))

FairSpec == Spec /\ Fairness

-----------------------------------------------------------------------------
TypeOK ==
    /\ at \in [Turns -> Places]
    /\ timer \in [Turns -> {"off", "set", "done"}]
    /\ slots \in 0 .. MaxConcurrentLLM
    /\ piece \in [Turns -> 0 .. MaxPieces]
    /\ question \in SUBSET Turns
    /\ answer \in [Turns -> -1 .. MaxPieces]
    /\ pipe \in [Turns -> {Nothing, "delta", "done", "error"}]
    /\ got \in [Turns -> Seq({"delta", "done", "error"})]
    /\ gone \in SUBSET Turns

\* The semaphore counts the requests that are at the model, on every path:
\* no failure keeps its slot, and none gives it back twice.
SlotsAreHeld == slots = Cardinality({t \in Turns : HoldsSlot(t)})

\* A client that reads "done" has read the answer whole, and in a session it
\* is the one that is stored, after the question.
DoneIsWhole ==
    \A t \in Turns :
        got[t] # <<>> /\ got[t][Len(got[t])] = "done" =>
            LET read == Len(got[t]) - 1 IN
            /\ read = piece[t]
            /\ InSession(t) => t \in question /\ answer[t] = read

\* Whatever the model does and however many clients have stalled with a slot
\* in their hands, the request of another client ends.
TurnEnds == \A t \in Turns \ Stalled : at[t] = "slot" ~> at[t] = "done"
=============================================================================
