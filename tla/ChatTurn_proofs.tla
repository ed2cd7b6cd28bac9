---------------------------- MODULE ChatTurn_proofs ----------------------------
(* Proofs about ChatTurn, for every number and mix of requests, of LLM      *)
(* slots and of pieces in an answer, and for any clients that stall: no     *)
(* path leaks or doubles a slot, and a client that reads "done" has read    *)
(* the answer that is stored.                                               *)
EXTENDS ChatTurn, FiniteSetTheorems, TLAPS

Holders == {t \in Turns : HoldsSlot(t)}

SlotInv == TypeOK /\ IsFiniteSet(Holders) /\ SlotsAreHeld

-----------------------------------------------------------------------------
(* The slots.                                                               *)

LEMMA GotoEffect ==
    ASSUME TypeOK, NEW t \in Turns, NEW from, NEW to \in Places, Goto(t, from, to)
    PROVE  /\ at[t] = from /\ at'[t] = to
           /\ \A u \in Turns \ {t} : at'[u] = at[u]
           /\ at' \in [Turns -> Places]
  BY DEF Goto, TypeOK

\* What a step does to the semaphore and to the set of requests at the model.
SlotStays == slots' = slots /\ Holders' = Holders
SlotTaken(t) ==
    /\ slots < MaxConcurrentLLM /\ slots' = slots + 1
    /\ t \notin Holders /\ Holders' = Holders \cup {t}
SlotGiven(t) ==
    /\ slots' = slots - 1
    /\ t \in Holders /\ Holders' = Holders \ {t}

LEMMA SlotsKept ==
    ASSUME SlotInv, NEW t, SlotStays \/ SlotTaken(t) \/ SlotGiven(t)
    PROVE  /\ slots' \in 0 .. MaxConcurrentLLM
           /\ IsFiniteSet(Holders') /\ slots' = Cardinality(Holders')
  <1>1. /\ IsFiniteSet(Holders) /\ slots = Cardinality(Holders)
        /\ slots \in 0 .. MaxConcurrentLLM
    BY DEF SlotInv, SlotsAreHeld, Holders, TypeOK
  <1>2. Cardinality(Holders) \in Nat
    BY <1>1, FS_CardinalityType
  <1>3. CASE SlotStays
    BY <1>1, <1>3 DEF SlotStays
  <1>4. CASE SlotTaken(t)
    <2>1. /\ IsFiniteSet(Holders \cup {t})
          /\ Cardinality(Holders \cup {t}) = Cardinality(Holders) + 1
      BY <1>1, <1>4, FS_AddElement DEF SlotTaken
    <2> QED
      BY <1>1, <1>2, <1>4, <2>1, SlotAssumption DEF SlotTaken
  <1>5. CASE SlotGiven(t)
    <2>1. /\ IsFiniteSet(Holders \ {t})
          /\ Cardinality(Holders \ {t}) = Cardinality(Holders) - 1
      BY <1>1, <1>5, FS_RemoveElement DEF SlotGiven
    <2>2. Cardinality(Holders \ {t}) \in Nat
      BY <2>1, FS_CardinalityType
    <2> QED
      BY <1>1, <1>2, <1>5, <2>1, <2>2, SlotAssumption DEF SlotGiven
  <1> QED
    BY <1>3, <1>4, <1>5

LEMMA GotoSlot ==
    ASSUME TypeOK, NEW t \in Turns, NEW from, NEW to \in Places, Goto(t, from, to)
    PROVE  /\ t \in Holders <=> from \in {"call", "model", "deliver", "store"}
           /\ Holders' = IF to \in {"call", "model", "deliver", "store"}
                         THEN Holders \cup {t} ELSE Holders \ {t}
  BY GotoEffect DEF Holders, HoldsSlot

LEMMA LeaveSlot ==
    ASSUME TypeOK, NEW t \in Turns, NEW from \in {"call", "model", "deliver", "store"},
           NEW to \in {"succeeded", "failed"}, LeaveModel(t, from, to)
    PROVE  SlotGiven(t)
  <1>1. Goto(t, from, to) /\ to \in Places
    BY DEF LeaveModel, Places
  <1> QED
    BY <1>1, GotoSlot DEF LeaveModel, SlotGiven

LEMMA SlotStep ==
    ASSUME TypeOK, NEW t \in Turns,
           \/ Begin(t) \/ Step(t) \/ Model(t) \/ Expire(t)
           \/ Read(t) \/ GoAway(t)
    PROVE  SlotStays \/ SlotTaken(t) \/ SlotGiven(t)
  <1>0. {"idle", "question", "history", "slot", "call", "model", "deliver",
         "store", "succeeded", "failed", "end", "done"} = Places
    BY DEF Places
  <1>1. CASE Begin(t) \/ StoreQuestion(t) \/ ReadHistory(t)
    <2>1. \E from \in {"idle", "question", "history"},
             to \in {"question", "history", "slot", "failed"} : Goto(t, from, to)
      BY <1>1 DEF Begin, StoreQuestion, ReadHistory
    <2> QED
      BY <1>0, <1>1, <2>1, GotoSlot DEF Begin, StoreQuestion, ReadHistory, SlotStays
  <1>2. CASE Acquire(t)
    BY <1>0, <1>2, GotoSlot DEF Acquire, SlotTaken, SlotStays
  <1>3. CASE CallFails(t)
    BY <1>3, LeaveSlot DEF CallFails
  <1>4. CASE Delivered(t)
    <2>1. CASE Goto(t, "deliver", "model") /\ slots' = slots
      BY <1>0, <2>1, GotoSlot DEF SlotStays
    <2>2. CASE LeaveModel(t, "deliver", "failed")
      BY <2>2, LeaveSlot
    <2> QED
      BY <1>4, <2>1, <2>2 DEF Delivered
  <1>5. CASE StoreAnswer(t)
    BY <1>5, LeaveSlot DEF StoreAnswer
  <1>6. CASE Finish(t) \/ End(t)
    <2>1. \E from \in {"succeeded", "failed", "end"}, to \in {"end", "done"} :
              Goto(t, from, to)
      BY <1>6 DEF Finish, End, Goto
    <2> QED
      BY <1>0, <1>6, <2>1, GotoSlot DEF Finish, End, SlotStays
  <1>7. CASE Call(t) \/ EndOfStream(t)
    <2>1. PICK n : Answered(t, n)
      BY <1>7 DEF Call, EndOfStream
    <2>2. CASE LeaveModel(t, "model", "succeeded")
      BY <2>2, LeaveSlot
    <2>3. CASE Goto(t, "model", "store") /\ slots' = slots
      BY <1>0, <2>3, GotoSlot DEF SlotStays
    <2> QED
      BY <2>1, <2>2, <2>3 DEF Answered
  <1>8. CASE Send(t) \/ NextPiece(t)
    BY <1>0, <1>8, GotoSlot DEF Send, NextPiece, SlotStays
  <1>9. CASE Expire(t) \/ Read(t) \/ GoAway(t)
    BY <1>9 DEF Expire, Read, GoAway, SlotStays, Holders, HoldsSlot
  <1> QED
    BY <1>1, <1>2, <1>3, <1>4, <1>5, <1>6, <1>7, <1>8, <1>9 DEF Step, Model

\* Every variable keeps its type under a step of one request; slots does by
\* the count of those who hold one.
LEMMA TypeKept ==
    ASSUME SlotInv, NEW t \in Turns,
           \/ Begin(t) \/ Step(t) \/ Model(t) \/ Expire(t)
           \/ Read(t) \/ GoAway(t)
    PROVE  TypeOK'
  <1>1. TypeOK
    BY DEF SlotInv
  <1>2. slots' \in 0 .. MaxConcurrentLLM
    BY <1>1, SlotStep, SlotsKept
  <1>3. at' \in [Turns -> Places]
    <2>1. at' = at \/ \E from, to \in Places : Goto(t, from, to)
      BY DEF Begin, Step, Model, StoreQuestion, ReadHistory, Acquire, CallFails,
             Delivered, StoreAnswer, Finish, End, Send, Call, NextPiece, EndOfStream,
             Answered, LeaveModel, Goto, Expire, Read, GoAway, Places
    <2> QED
      BY <1>1, <2>1, GotoEffect DEF TypeOK
  <1>4. timer' \in [Turns -> {"off", "set", "done"}]
    BY <1>1 DEF TypeOK, Begin, Step, Model, StoreQuestion, ReadHistory, Acquire, CallFails,
           Delivered, StoreAnswer, Finish, End, Send, Call, NextPiece, EndOfStream,
           Answered, LeaveModel, Expire, Read, GoAway
  <1>5. piece' \in [Turns -> 0 .. MaxPieces]
    <2>1. piece[t] \in 0 .. MaxPieces
      BY <1>1 DEF TypeOK
    <2>2. piece' = piece \/ \E n \in 0 .. MaxPieces : piece' = [piece EXCEPT ![t] = n]
      <3>1. CASE Call(t) \/ EndOfStream(t)
        BY <2>1, <3>1 DEF Call, EndOfStream, Answered
      <3>2. CASE NextPiece(t)
        <4>1. piece[t] + 1 \in 0 .. MaxPieces
          BY <2>1, <3>2, BoundAssumption DEF NextPiece
        <4> QED
          BY <3>2, <4>1 DEF NextPiece
      <3>3. CASE ~Call(t) /\ ~EndOfStream(t) /\ ~NextPiece(t)
        BY <3>3 DEF Begin, Step, Model, StoreQuestion, ReadHistory, Acquire, CallFails,
           Delivered, StoreAnswer, Finish, End, Send, Expire, Read, GoAway
      <3> QED
        BY <3>1, <3>2, <3>3
    <2> QED
      BY <1>1, <2>2 DEF TypeOK
  <1>6. question' \in SUBSET Turns /\ gone' \in SUBSET Turns
    BY <1>1 DEF TypeOK, Begin, Step, Model, StoreQuestion, ReadHistory, Acquire, CallFails,
           Delivered, StoreAnswer, Finish, End, Send, Call, NextPiece, EndOfStream,
           Expire, Read, GoAway, messages, client
  <1>7. answer' \in [Turns -> -1 .. MaxPieces]
    <2>1. piece[t] \in -1 .. MaxPieces
      BY <1>1, BoundAssumption DEF TypeOK
    <2>2. answer' = answer \/ answer' = [answer EXCEPT ![t] = piece[t]]
      BY DEF Begin, Step, Model, StoreQuestion, ReadHistory, Acquire, CallFails,
           Delivered, StoreAnswer, Finish, End, Send, Call, NextPiece, EndOfStream,
           Expire, Read, GoAway, messages
    <2> QED
      BY <1>1, <2>1, <2>2 DEF TypeOK
  <1>8. pipe' \in [Turns -> {Nothing, "delta", "done", "error"}]
    BY <1>1 DEF TypeOK, Begin, Step, Model, StoreQuestion, ReadHistory, Acquire, CallFails,
           Delivered, StoreAnswer, Finish, End, Send, Call, NextPiece, EndOfStream,
           Expire, Read, GoAway, client
  <1>9. got' \in [Turns -> Seq({"delta", "done", "error"})]
    <2>1. CASE Read(t)
      <3>1. pipe[t] \in {"delta", "done", "error"}
            /\ got[t] \in Seq({"delta", "done", "error"})
        BY <1>1, <2>1 DEF Read, TypeOK
      <3>2. Append(got[t], pipe[t]) \in Seq({"delta", "done", "error"})
        BY <3>1
      <3> QED
        BY <1>1, <2>1, <3>2 DEF Read, TypeOK
    <2>2. CASE ~Read(t)
      <3>1. got' = got
        BY <2>2 DEF Begin, Step, Model, StoreQuestion, ReadHistory, Acquire, CallFails,
           Delivered, StoreAnswer, Finish, End, Send, Call, NextPiece, EndOfStream,
           Expire, GoAway, client
      <3> QED
        BY <1>1, <3>1 DEF TypeOK
    <2> QED
      BY <2>1, <2>2
  <1> QED
    BY <1>2, <1>3, <1>4, <1>5, <1>6, <1>7, <1>8, <1>9 DEF TypeOK

LEMMA SlotInit == Init => SlotInv
  <1> SUFFICES ASSUME Init PROVE SlotInv
    OBVIOUS
  <1>1. TypeOK
    BY SlotAssumption, BoundAssumption DEF Init, TypeOK, Places
  <1>2. Holders = {}
    BY DEF Init, Holders, HoldsSlot
  <1> QED
    BY <1>1, <1>2, FS_EmptySet DEF Init, SlotInv, SlotsAreHeld, Holders

LEMMA SlotNext == SlotInv /\ [Next]_vars => SlotInv'
  <1> SUFFICES ASSUME SlotInv, [Next]_vars PROVE SlotInv'
    OBVIOUS
  <1>1. CASE Next
    <2> PICK t \in Turns : \/ Begin(t) \/ Step(t) \/ Model(t) \/ Expire(t)
                           \/ Read(t) \/ GoAway(t)
      BY <1>1 DEF Next
    <2>1. TypeOK'
      BY TypeKept
    <2>2. IsFiniteSet(Holders') /\ slots' = Cardinality(Holders')
      BY SlotStep, SlotsKept DEF SlotInv
    <2> QED
      BY <2>1, <2>2 DEF SlotInv, SlotsAreHeld, Holders
  <1>2. CASE UNCHANGED vars
    BY <1>2 DEF vars, messages, client, SlotInv, TypeOK, SlotsAreHeld, Holders, HoldsSlot
  <1> QED
    BY <1>1, <1>2

\* The variables keep their types; the semaphore's count stays between zero
\* and its capacity.
THEOREM TypeCorrect == Spec => []TypeOK
  <1>1. SlotInv => TypeOK
    BY DEF SlotInv
  <1> QED
    BY <1>1, SlotInit, SlotNext, PTL DEF Spec

\* On every path, failures, timers and departures included, the semaphore
\* counts exactly the requests that are at the model.
THEOREM NoSlotIsLost == Spec => []SlotsAreHeld
  <1>1. SlotInv => SlotsAreHeld
    BY DEF SlotInv
  <1> QED
    BY <1>1, SlotInit, SlotNext, PTL DEF Spec

-----------------------------------------------------------------------------
(* The answer. Until the answer is complete, the client has read the pieces *)
(* that were written, but for the one in the pipe; the frame "done" enters  *)
(* the pipe only after the answer was stored.                               *)

Undone(t) == got[t] # <<>> => got[t][Len(got[t])] # "done"

InPipe(t) == IF pipe[t] = "delta" THEN 1 ELSE 0

\* The answer the client would have with the next frame is the stored one.
Complete(t) ==
    /\ Len(got[t]) = piece[t]
    /\ InSession(t) => t \in question /\ answer[t] = piece[t]

Underway ==
    {"idle", "question", "history", "slot", "call", "model", "deliver", "store", "succeeded"}

AnswerOf(t) ==
    /\ ~Streamed(t) => got[t] = <<>> /\ pipe[t] = Nothing
    /\ Streamed(t) /\ at[t] \in Underway =>
           /\ Len(got[t]) + InPipe(t) = piece[t]
           /\ pipe[t] = Nothing \/ (at[t] = "deliver" /\ pipe[t] = "delta")
    /\ at[t] \in Underway \ {"idle", "question"} /\ InSession(t) => t \in question
    /\ at[t] = "succeeded" /\ InSession(t) => answer[t] = piece[t]
    /\ at[t] = "failed" => pipe[t] = Nothing
    /\ at[t] \notin {"end", "done"} => Undone(t)
    /\ at[t] = "end" /\ pipe[t] # Nothing => Undone(t)
    /\ at[t] = "done" => pipe[t] = Nothing
    /\ pipe[t] = "done" => at[t] = "end" /\ Complete(t)

AnswerInv == SlotInv /\ DoneIsWhole /\ \A t \in Turns : AnswerOf(t)

\* A step of one request leaves what the others have alone.
LEMMA OthersKept ==
    ASSUME TypeOK, NEW t \in Turns,
           \/ Begin(t) \/ Step(t) \/ Model(t) \/ Expire(t)
           \/ Read(t) \/ GoAway(t),
           NEW u \in Turns \ {t}
    PROVE  /\ UNCHANGED <<at[u], piece[u], answer[u], pipe[u], got[u]>>
           /\ u \in question' <=> u \in question
  <1>1. at'[u] = at[u]
    BY DEF TypeOK, Begin, Step, Model, StoreQuestion, ReadHistory, Acquire, CallFails,
           Delivered, StoreAnswer, Finish, End, Send, Call, NextPiece, EndOfStream,
           Answered, LeaveModel, Goto, Expire, Read, GoAway
  <1>2. piece'[u] = piece[u] /\ answer'[u] = answer[u]
    BY DEF TypeOK, Begin, Step, Model, StoreQuestion, ReadHistory, Acquire, CallFails,
           Delivered, StoreAnswer, Finish, End, Send, Call, NextPiece, EndOfStream,
           Answered, Expire, Read, GoAway, messages
  <1>3. pipe'[u] = pipe[u] /\ got'[u] = got[u]
    BY DEF TypeOK, Begin, Step, Model, StoreQuestion, ReadHistory, Acquire, CallFails,
           Delivered, StoreAnswer, Finish, End, Send, Call, NextPiece, EndOfStream,
           Expire, Read, GoAway, client
  <1>4. u \in question' <=> u \in question
    BY DEF Begin, Step, Model, StoreQuestion, ReadHistory, Acquire, CallFails,
           Delivered, StoreAnswer, Finish, End, Send, Call, NextPiece, EndOfStream,
           Expire, Read, GoAway, messages
  <1> QED
    BY <1>1, <1>2, <1>3, <1>4

WholeIfDone(t) ==
    got[t] # <<>> /\ got[t][Len(got[t])] = "done" =>
        LET read == Len(got[t]) - 1 IN
        /\ read = piece[t]
        /\ InSession(t) => t \in question /\ answer[t] = read

LEMMA AnswerStep ==
    ASSUME AnswerInv, TypeOK', NEW t \in Turns,
           \/ Begin(t) \/ Step(t) \/ Model(t) \/ Expire(t)
           \/ Read(t) \/ GoAway(t)
    PROVE  AnswerOf(t)' /\ WholeIfDone(t)'
  <1>1. TypeOK /\ TypeOK' /\ AnswerOf(t) /\ WholeIfDone(t)
    BY DEF AnswerInv, SlotInv, DoneIsWhole, WholeIfDone
  <1>2. /\ got[t] \in Seq({"delta", "done", "error"}) /\ Len(got[t]) \in Nat
        /\ piece[t] \in Nat /\ piece'[t] \in Nat /\ at[t] \in Places
    <2>1. piece[t] \in 0 .. MaxPieces /\ piece'[t] \in 0 .. MaxPieces
      BY <1>1 DEF TypeOK
    <2> QED
      BY <1>1, <2>1, BoundAssumption DEF TypeOK
  <1>3. Streamed(t)' <=> Streamed(t)
    BY DEF Streamed
  <1>4. Undone(t) => WholeIfDone(t)
    BY DEF Undone, WholeIfDone
  <1>5. got'[t] = got[t] => (Undone(t)' <=> Undone(t))
    BY DEF Undone
  <1>0. /\ pipe[t] = "delta" => InPipe(t) = 1
        /\ pipe'[t] = "delta" => InPipe(t)' = 1
        /\ pipe[t] = Nothing => InPipe(t) = 0
        /\ pipe'[t] = Nothing => InPipe(t)' = 0
    BY NothingAssumption DEF InPipe
  <1>6. CASE Begin(t) \/ StoreQuestion(t) \/ ReadHistory(t)
    <2>1. \/ /\ at[t] \in {"idle", "question", "history"}
             /\ at'[t] \in {"question", "history", "slot", "failed"}
             /\ at'[t] = "history" => t \in question'
             /\ at'[t] = "slot" /\ InSession(t) => at[t] = "history"
      BY <1>1, <1>6 DEF Begin, StoreQuestion, ReadHistory, Goto, TypeOK
    <2>2. UNCHANGED <<piece, answer, pipe, got>> /\ question \subseteq question'
      BY <1>6 DEF Begin, StoreQuestion, ReadHistory, messages, client
    <2>3. Undone(t)
      BY <1>1, <2>1 DEF AnswerOf
    <2> QED
      BY <1>1, <1>2, <1>3, <1>4, <1>5, <2>1, <2>2, <2>3
         DEF AnswerOf, Underway, InPipe, WholeIfDone, Undone, InSession, Streamed, Complete
  <1>7. CASE Acquire(t) \/ Send(t) \/ CallFails(t)
    <2>1. \/ at[t] = "slot" /\ at'[t] \in {"call", "failed"}
          \/ at[t] = "call" /\ at'[t] \in {"model", "failed"}
          \/ at[t] = "model" /\ at'[t] = "failed"
      BY <1>1, <1>7 DEF Acquire, Send, CallFails, LeaveModel, Goto, TypeOK
    <2>2. UNCHANGED <<piece, question, answer, pipe, got>>
      BY <1>7 DEF Acquire, Send, CallFails, messages, client
    <2> QED
      BY <1>1, <1>2, <1>3, <1>4, <1>5, <2>1, <2>2
         DEF AnswerOf, Underway, InPipe, WholeIfDone, Undone, InSession, Streamed, Complete
  <1>8. CASE Call(t) \/ EndOfStream(t)
    <2>1. at[t] = "model" /\ at'[t] = AfterModel(t)
      BY <1>1, <1>8 DEF Call, EndOfStream, Answered, LeaveModel, Goto, TypeOK, AfterModel
    <2>2. UNCHANGED <<question, answer, pipe, got>>
          /\ (Streamed(t) => piece'[t] = piece[t])
      BY <1>1, <1>8 DEF Call, EndOfStream, Answered, messages, client, TypeOK
    <2> QED
      BY <1>1, <1>2, <1>3, <1>4, <1>5, <2>1, <2>2
         DEF AnswerOf, Underway, InPipe, WholeIfDone, Undone, InSession, Streamed, Complete,
             AfterModel
  <1>9. CASE NextPiece(t)
    <2>1. /\ at[t] = "model" /\ at'[t] = "deliver" /\ Streamed(t)
          /\ piece'[t] = piece[t] + 1 /\ pipe'[t] = "delta"
          /\ UNCHANGED <<question, answer, got>>
      BY <1>1, <1>9 DEF NextPiece, Goto, TypeOK, messages
    <2>2. pipe[t] = Nothing /\ Undone(t)
      BY <1>1, <2>1 DEF AnswerOf, Underway
    <2>3. Len(got'[t]) + InPipe(t)' = piece'[t]
      BY <1>0, <1>1, <1>2, <2>1, <2>2 DEF AnswerOf, Underway
    <2>4. Undone(t)' /\ WholeIfDone(t)'
      BY <2>1, <2>2 DEF Undone, WholeIfDone
    <2> QED
      BY <1>1, <1>3, <2>1, <2>3, <2>4, NothingAssumption
         DEF AnswerOf, Underway, InSession
  <1>10. CASE Delivered(t)
    <2>1. /\ UNCHANGED <<piece, question, answer, got>>
          /\ at[t] = "deliver"
          /\ \/ at'[t] = "model" /\ pipe' = pipe /\ pipe[t] = Nothing
             \/ at'[t] = "failed" /\ pipe'[t] = Nothing
      BY <1>1, <1>10 DEF Delivered, LeaveModel, Goto, TypeOK, messages
    <2> QED
      BY <1>1, <1>2, <1>3, <1>4, <1>5, <2>1, NothingAssumption
         DEF AnswerOf, Underway, InPipe, WholeIfDone, Undone, InSession, Streamed, Complete
  <1>11. CASE StoreAnswer(t)
    <2>1. /\ UNCHANGED <<piece, question, pipe, got>> /\ at[t] = "store"
          /\ \/ at'[t] = "succeeded" /\ answer'[t] = piece[t]
             \/ at'[t] = "failed" /\ answer' = answer
      BY <1>1, <1>11 DEF StoreAnswer, LeaveModel, Goto, TypeOK, client
    <2> QED
      BY <1>1, <1>2, <1>3, <1>4, <1>5, <2>1, NothingAssumption
         DEF AnswerOf, Underway, InPipe, WholeIfDone, Undone, InSession, Streamed, Complete
  <1>12. CASE Finish(t)
    <2>1. /\ UNCHANGED <<piece, question, answer, got>>
          /\ \/ /\ Streamed(t) /\ at'[t] = "end"
                /\ \/ at[t] = "succeeded" /\ pipe'[t] = "done"
                   \/ at[t] = "failed" /\ pipe'[t] = "error"
             \/ /\ ~Streamed(t) /\ at[t] \in {"succeeded", "failed"}
                /\ at'[t] = "done" /\ pipe' = pipe
      BY <1>1, <1>12 DEF Finish, Goto, TypeOK, messages
    <2>2. at[t] = "succeeded" /\ Streamed(t) => Complete(t)
      <3>1. at[t] = "succeeded" /\ Streamed(t) => pipe[t] = Nothing
        BY <1>1 DEF AnswerOf, Underway
      <3> QED
        BY <1>0, <1>1, <1>2, <3>1 DEF AnswerOf, Underway, Complete
    <2> QED
      BY <1>1, <1>2, <1>3, <1>4, <1>5, <2>1, <2>2, NothingAssumption
         DEF AnswerOf, Underway, WholeIfDone, Undone, InSession, Streamed, Complete
  <1>13. CASE End(t)
    <2>1. /\ UNCHANGED <<piece, question, answer, got>>
          /\ at[t] = "end" /\ at'[t] = "done" /\ pipe'[t] = Nothing
      BY <1>1, <1>13 DEF End, Goto, TypeOK, messages
    <2> QED
      BY <1>1, <1>2, <1>3, <1>4, <1>5, <2>1, NothingAssumption
         DEF AnswerOf, Underway, WholeIfDone, Undone, InSession, Streamed, Complete
  <1>14. CASE Read(t)
    <2>1. /\ UNCHANGED <<at, piece, question, answer>>
          /\ pipe[t] # Nothing /\ pipe'[t] = Nothing
          /\ got'[t] = Append(got[t], pipe[t])
          /\ pipe[t] \in {"delta", "done", "error"}
      BY <1>1, <1>14 DEF Read, TypeOK, messages
    <2>2. Len(got'[t]) = Len(got[t]) + 1 /\ got'[t][Len(got'[t])] = pipe[t]
      BY <1>2, <2>1
    <2>3. Streamed(t) /\ at[t] \in Underway \cup {"end"} /\ Undone(t)
      BY <1>1, <1>2, <2>1 DEF AnswerOf, Underway, Places
    <2>4. pipe[t] = "done" => WholeIfDone(t)'
      BY <1>1, <1>2, <2>1, <2>2 DEF AnswerOf, Complete, WholeIfDone, InSession
    <2>5. pipe[t] # "done" => Undone(t)'
      BY <2>2 DEF Undone
    <2>6. AnswerOf(t)'
      <3>1. pipe[t] = "done" => at'[t] = "end"
        BY <1>1, <2>1 DEF AnswerOf
      <3>2. at[t] \in Underway => Len(got'[t]) + InPipe(t)' = piece'[t]
        BY <1>0, <1>1, <1>2, <2>1, <2>2, <2>3, NothingAssumption DEF AnswerOf
      <3> QED
        BY <1>1, <2>1, <2>3, <2>5, <3>1, <3>2, NothingAssumption
           DEF AnswerOf, Underway, Streamed, InSession
    <2>7. Undone(t)' => WholeIfDone(t)'
      BY DEF Undone, WholeIfDone
    <2> QED
      BY <2>4, <2>5, <2>6, <2>7
  <1>15. CASE Expire(t) \/ GoAway(t)
    <2>1. UNCHANGED <<at, piece, question, answer, pipe, got>>
      BY <1>15 DEF Expire, GoAway, messages, client
    <2> QED
      BY <1>1, <2>1 DEF AnswerOf, InPipe, WholeIfDone, Undone, InSession, Streamed, Complete
  <1> QED
    BY <1>6, <1>7, <1>8, <1>9, <1>10, <1>11, <1>12, <1>13, <1>14, <1>15 DEF Step, Model

\* A client that has read "done" has read every piece of the answer, and in a
\* session that answer is stored, after its question: for answers of any
\* length, however slowly the client reads, and whether or not the timer of
\* the call is over by then.
THEOREM DoneMeansWhole == Spec => []DoneIsWhole
  <1>1. Init => AnswerInv
    <2> SUFFICES ASSUME Init PROVE AnswerInv
      OBVIOUS
    <2>1. \A t \in Turns : /\ at[t] = "idle" /\ piece[t] = 0 /\ got[t] = <<>>
                           /\ pipe[t] = Nothing
      BY DEF Init
    <2>2. Len(<<>>) = 0
      OBVIOUS
    <2>3. \A t \in Turns : InPipe(t) = 0 /\ Len(got[t]) = 0 /\ Undone(t)
      BY <2>1, <2>2, NothingAssumption DEF InPipe, Undone
    <2>4. \A t \in Turns : AnswerOf(t)
      BY <2>1, <2>3, NothingAssumption DEF AnswerOf, Underway
    <2> QED
      BY <2>1, <2>4, SlotInit DEF AnswerInv, DoneIsWhole
  <1>2. AnswerInv /\ [Next]_vars => AnswerInv'
    <2> SUFFICES ASSUME AnswerInv, [Next]_vars PROVE AnswerInv'
      OBVIOUS
    <2>1. SlotInv' /\ TypeOK /\ TypeOK'
      BY SlotNext DEF AnswerInv, SlotInv
    <2>2. CASE Next
      <3> PICK t \in Turns : \/ Begin(t) \/ Step(t) \/ Model(t) \/ Expire(t)
                             \/ Read(t) \/ GoAway(t)
        BY <2>2 DEF Next
      <3>1. AnswerOf(t)' /\ WholeIfDone(t)'
        BY <2>1, AnswerStep
      <3>2. ASSUME NEW u \in Turns \ {t} PROVE AnswerOf(u)' /\ WholeIfDone(u)'
        <4>1. /\ UNCHANGED <<at[u], piece[u], answer[u], pipe[u], got[u]>>
              /\ u \in question' <=> u \in question
          BY <2>1, OthersKept
        <4>2. AnswerOf(u) /\ WholeIfDone(u)
          BY DEF AnswerInv, DoneIsWhole, WholeIfDone
        <4> QED
          BY <4>1, <4>2 DEF AnswerOf, InPipe, WholeIfDone, Undone, InSession, Streamed, Complete
      <3> QED
        BY <2>1, <3>1, <3>2 DEF AnswerInv, DoneIsWhole, WholeIfDone
    <2>3. CASE UNCHANGED vars
      BY <2>1, <2>3 DEF vars, messages, client, AnswerInv, DoneIsWhole, AnswerOf, InPipe,
                        Undone, InSession, Streamed, Complete
    <2> QED
      BY <2>2, <2>3
  <1>3. AnswerInv => DoneIsWhole
    BY DEF AnswerInv
  <1> QED
    BY <1>1, <1>2, <1>3, PTL DEF Spec
=============================================================================
