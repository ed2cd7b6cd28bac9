------------------------- MODULE EventPublisher_proofs -------------------------
(* Proofs about EventPublisher, for any events and keys, any binding and    *)
(* any number of refusals: the answers of the broker, which carry no name,  *)
(* reach the goroutine whose event they are about.                          *)
EXTENDS EventPublisher, TLAPS

-----------------------------------------------------------------------------
(* Types.                                                                   *)

LEMMA GotoType ==
    ASSUME TypeOK, NEW e \in Events, NEW from, NEW to \in Places, Goto(e, from, to)
    PROVE  /\ at[e] = from /\ at'[e] = to
           /\ \A d \in Events \ {e} : at'[d] = at[d]
           /\ at' \in [Events -> Places]
  BY DEF Goto, TypeOK

LEMMA ReturnType ==
    ASSUME TypeOK, NEW e \in Events, NEW from, NEW result \in Outcomes,
           Return(e, from, result)
    PROVE  /\ at[e] = from /\ at'[e] = "done"
           /\ \A d \in Events \ {e} : at'[d] = at[d] /\ outcome'[d] = outcome[d]
           /\ at' \in [Events -> Places]
           /\ outcome'[e] = result /\ outcome' \in [Events -> Outcomes]
           /\ mutex' = Nobody /\ UNCHANGED <<answer, expired>>
  <1>1. "done" \in Places /\ Goto(e, from, "done")
    BY DEF Return, Places
  <1>2. /\ outcome'[e] = result /\ outcome' \in [Events -> Outcomes]
        /\ \A d \in Events \ {e} : outcome'[d] = outcome[d]
    BY DEF Return, TypeOK
  <1> QED
    BY <1>1, <1>2, GotoType DEF Return

LEMMA EmptySeq ==
    ASSUME NEW S, NEW s \in Seq(S), Len(s) = 0
    PROVE  s = <<>>
  OBVIOUS

\* The slots hold one frame at most, which the type of TypeOK says.
LEMMA SlotType ==
    ASSUME NEW S, NEW s \in Seq(S), Len(s) <= 1, s # <<>>
    PROVE  Head(s) \in S /\ Tail(s) = <<>>
  <1>1. Len(s) \in Nat /\ Len(s) # 0
    OBVIOUS
  <1>2. Len(s) = 1
    BY <1>1, SMTT(30)
  <1>3. Tail(s) \in Seq(S) /\ Len(Tail(s)) = 0
    BY <1>2
  <1>4. Tail(s) = <<>>
    BY <1>3, EmptySeq
  <1> QED
    BY <1>2, <1>4

LEMMA EmptySlot ==
    ASSUME NEW S, NEW s \in Seq(S), Len(s) = 0, NEW x \in S
    PROVE  s = <<>> /\ Append(s, x) = <<x>> /\ <<x>> \in Seq(S) /\ Len(<<x>>) <= 1
  OBVIOUS

LEMMA PublishType ==
    ASSUME TypeOK, NEW e \in Events, Begin(e) \/ Expire(e) \/ Publish(e)
    PROVE  TypeOK'
  <1>0. {"idle", "lock", "send", "returns", "confirm", "done"} = Places
    BY DEF Places
  <1>1. CASE Begin(e) \/ Expire(e) \/ Lock(e) \/ Answer(e)
    <2>1. at' \in [Events -> Places]
      <3>1. at' = at \/ \E from, to \in Places : Goto(e, from, to)
        BY <1>0, <1>1 DEF Begin, Expire, Lock, Answer
      <3> QED
        BY <3>1, GotoType DEF TypeOK
    <2>2. answer' \in [Events -> {0, 200, 500}]
      <3>1. \/ answer' = answer \/ answer' = [answer EXCEPT ![e] = 200]
            \/ answer' = [answer EXCEPT ![e] = 500]
        BY <1>1 DEF Begin, Expire, Lock, Answer
      <3> QED
        BY <3>1 DEF TypeOK
    <2>3. expired' \in SUBSET Events /\ mutex' \in Events \cup {Nobody}
      BY <1>1 DEF Begin, Expire, Lock, Answer, TypeOK
    <2>4. UNCHANGED <<outcome, open, wire, unconfirmed, frames, log, nacks, returns, confirms>>
      BY <1>1 DEF Begin, Expire, Lock, Answer, broker, slots
    <2> QED
      BY <2>1, <2>2, <2>3, <2>4 DEF TypeOK
  <1>2. CASE Send(e)
    <2>1. CASE open
      <3>1. Goto(e, "send", "returns") /\ wire' = Append(wire, e)
        BY <1>2, <2>1 DEF Send
      <3>2. at' \in [Events -> Places]
        BY <1>0, <3>1, GotoType
      <3>3. wire' \in Seq(Events)
        BY <3>1 DEF TypeOK
      <3> QED
        BY <1>2, <2>1, <3>2, <3>3 DEF Send, TypeOK, slots
    <2>2. CASE ~open
      <3>1. Return(e, "send", "not sent") /\ "not sent" \in Outcomes
        BY <1>2, <2>2 DEF Send, Outcomes
      <3> QED
        BY <1>2, <2>2, <3>1, ReturnType, ZenonT(60) DEF Send, TypeOK, slots, broker
    <2> QED
      BY <2>1, <2>2
  <1>3. CASE LookForReturn(e)
    <2>1. CASE Return(e, "returns", "unroutable")
      <3>1. "unroutable" \in Outcomes
        BY DEF Outcomes
      <3>2. returns' \in Seq({"return"}) /\ Len(returns') <= 1
        <4>1. ~Goto(e, "returns", "confirm")
          BY <2>1, <3>1, ReturnType DEF Goto, TypeOK
        <4>2. returns' = IF returns = <<>> THEN <<>> ELSE Tail(returns)
          BY <1>3, <4>1 DEF LookForReturn
        <4>3. returns # <<>> => Tail(returns) = <<>>
          BY SlotType DEF TypeOK
        <4>4. returns' = <<>>
          BY <4>2, <4>3
        <4> QED
          BY <4>4
      <3> QED
        BY <1>3, <2>1, <3>1, <3>2, ReturnType DEF LookForReturn, TypeOK, broker
    <2>2. CASE /\ Goto(e, "returns", "confirm")
               /\ UNCHANGED <<outcome, answer, expired, mutex, returns>>
      BY <1>0, <1>3, <2>2, GotoType DEF LookForReturn, TypeOK, broker
    <2> QED
      BY <1>3, <2>1, <2>2 DEF LookForReturn
  <1>4. CASE TakeConfirm(e)
    <2>1. PICK result \in Outcomes : Return(e, "confirm", result)
      BY <1>4 DEF TakeConfirm, Outcomes
    <2>2. confirms' \in Seq({"ack", "nack"}) /\ Len(confirms') <= 1
      <3>1. confirms # <<>> => Tail(confirms) = <<>>
        BY SlotType DEF TypeOK
      <3>2. confirms' = <<>>
        BY <1>4, <3>1 DEF TakeConfirm
      <3> QED
        BY <3>2
    <2> QED
      BY <1>4, <2>1, <2>2, ReturnType DEF TakeConfirm, TypeOK, broker
  <1>5. CASE GiveUp(e)
    <2>1. Return(e, "confirm", "timeout") /\ "timeout" \in Outcomes
      BY <1>5 DEF GiveUp, Outcomes
    <2> QED
      BY <1>5, <2>1, ReturnType DEF GiveUp, TypeOK, broker, slots
  <1> QED
    BY <1>1, <1>2, <1>3, <1>4, <1>5 DEF Publish

LEMMA BrokerType ==
    ASSUME TypeOK, Route \/ Confirm \/ Dispatch \/ Close
    PROVE  TypeOK'
  <1>1. /\ wire # <<>> => Head(wire) \in Events /\ Tail(wire) \in Seq(Events)
        /\ unconfirmed # <<>> => /\ Head(unconfirmed) \in Events
                                 /\ Tail(unconfirmed) \in Seq(Events)
        /\ frames # <<>> => Head(frames) \in Frame /\ Tail(frames) \in Seq(Frame)
    BY DEF TypeOK
  <1>2. \A e \in Events : Append(unconfirmed, e) \in Seq(Events)
    BY DEF TypeOK
  <1>3. \A f \in Frame : Append(frames, f) \in Seq(Frame)
    BY DEF TypeOK
  <1>4. CASE Route
    <2>1. wire' \in Seq(Events) /\ unconfirmed' \in Seq(Events)
      BY <1>1, <1>2, <1>4 DEF Route
    <2>2. frames' \in Seq(Frame)
      <3>1. frames' = frames \/ frames' = Append(frames, "return")
        BY <1>4 DEF Route
      <3> QED
        BY <1>3, <3>1 DEF TypeOK, Frame
    <2>3. log' \in SUBSET Events /\ nacks' \in Nat
      BY <1>1, <1>4, SMTT(30) DEF Route, TypeOK
    <2>4. UNCHANGED <<at, outcome, answer, expired, mutex, open, returns, confirms>>
      BY <1>4 DEF Route, caller, slots
    <2> QED
      BY <2>1, <2>2, <2>3, <2>4 DEF TypeOK
  <1>5. CASE Confirm
    <2>1. frames' \in Seq(Frame)
      BY <1>3, <1>5 DEF Confirm, Frame
    <2> QED
      BY <1>1, <1>5, <2>1 DEF Confirm, TypeOK, caller, slots
  <1>6. CASE Dispatch
    <2>1. returns' \in Seq({"return"}) /\ Len(returns') <= 1
      BY <1>6, EmptySlot DEF Dispatch, TypeOK, Room
    <2>2. confirms' \in Seq({"ack", "nack"}) /\ Len(confirms') <= 1
      BY <1>1, <1>6, EmptySlot DEF Dispatch, TypeOK, Room, Frame
    <2> QED
      BY <1>1, <1>6, <2>1, <2>2 DEF Dispatch, TypeOK, caller
  <1>7. CASE Close
    <2>1. /\ wire' = <<>> /\ unconfirmed' = <<>> /\ frames' = <<>> /\ open' = FALSE
          /\ UNCHANGED <<at, outcome, answer, expired, mutex, log, nacks, returns, confirms>>
      BY <1>7 DEF Close, caller, slots
    <2>2. /\ wire' \in Seq(Events) /\ unconfirmed' \in Seq(Events)
          /\ frames' \in Seq(Frame)
      BY <2>1
    <2>3. open' \in BOOLEAN
      BY <2>1
    <2> QED
      BY <2>1, <2>2, <2>3 DEF TypeOK
  <1> QED
    BY <1>4, <1>5, <1>6, <1>7

LEMMA TypeInit == Init => TypeOK
  BY DEF Init, TypeOK, Places, Outcomes

LEMMA TypeStep == TypeOK /\ [Next]_vars => TypeOK'
  <1> SUFFICES ASSUME TypeOK, [Next]_vars PROVE TypeOK'
    OBVIOUS
  <1>1. CASE Next
    BY <1>1, PublishType, BrokerType DEF Next
  <1>2. CASE UNCHANGED vars
    BY <1>2 DEF vars, caller, broker, slots, TypeOK
  <1> QED
    BY <1>1, <1>2

\* The variables keep their types: the two Go channels of the publisher hold
\* one frame at most.
THEOREM TypeCorrect == Spec => []TypeOK
  BY TypeInit, TypeStep, PTL DEF Spec

-----------------------------------------------------------------------------
(* The answers. Whoever holds the mutex is publishing; while everybody has  *)
(* waited for his answer and every event finds a queue, all there is on the *)
(* way, from the wire to the slot, is one answer: that of the holder.       *)

Publishing(e) == at[e] \in {"send", "returns", "confirm"}
Sent(e)       == at[e] \in {"returns", "confirm"}

MutexHeld == \A e \in Events : Publishing(e) <=> mutex = e

\* The frame that tells what became of e.
Tells(e, f) == (f = "ack" => e \in log) /\ (f = "nack" => e \notin log)

NothingSent == wire = <<>> /\ unconfirmed = <<>> /\ frames = <<>> /\ confirms = <<>>

OnItsWay(e) ==
    \/ wire = <<e>> /\ unconfirmed = <<>> /\ frames = <<>> /\ confirms = <<>>
    \/ wire = <<>> /\ unconfirmed = <<e>> /\ frames = <<>> /\ confirms = <<>>
    \/ \E f \in {"ack", "nack"} :
           /\ Tells(e, f) /\ wire = <<>> /\ unconfirmed = <<>>
           /\ \/ frames = <<f>> /\ confirms = <<>>
              \/ frames = <<>> /\ confirms = <<f>>

OneOnItsWay ==
    /\ returns = <<>>
    /\ open => /\ \A e \in Events : Sent(e) => OnItsWay(e)
               /\ (\A e \in Events : ~Sent(e)) => NothingSent
    /\ ~open => \A e \in Events : at[e] = "confirm" /\ confirms # <<>> =>
                    Tells(e, Head(confirms))

Reported(e) ==
    /\ at[e] # "done" => outcome[e] = "none" /\ answer[e] = 0
    /\ answer[e] = 200 => outcome[e] = "ok"

HolderInv == TypeOK /\ MutexHeld /\ \A e \in Events : Reported(e)

OwnInv == HolderInv /\ (InStep => OneOnItsWay) /\ AnswersAreOwn

\* What the steps of one goroutine do to its own place, outcome and answer.
LEMMA PublishEffect ==
    ASSUME TypeOK, NEW e \in Events, Begin(e) \/ Expire(e) \/ Publish(e)
    PROVE  /\ \A d \in Events \ {e} : UNCHANGED <<at[d], outcome[d], answer[d]>>
           /\ UNCHANGED <<open, unconfirmed, frames, log, nacks>>
           /\ \/ /\ at[e] = "idle" /\ at'[e] = "lock"
                 /\ UNCHANGED <<outcome, answer, mutex, wire, returns, confirms>>
              \/ UNCHANGED <<at, outcome, answer, mutex, wire, returns, confirms>>
              \/ /\ at[e] = "lock" /\ at'[e] = "send"
                 /\ mutex = Nobody /\ mutex' = e
                 /\ UNCHANGED <<outcome, answer, wire, returns, confirms>>
              \/ /\ at[e] = "send" /\ at'[e] = "returns" /\ open
                 /\ wire' = Append(wire, e)
                 /\ UNCHANGED <<outcome, answer, mutex, returns, confirms>>
              \/ /\ at[e] = "send" /\ at'[e] = "done" /\ outcome'[e] = "not sent"
                 /\ ~open /\ mutex' = Nobody
                 /\ UNCHANGED <<answer, wire, returns, confirms>>
              \/ /\ at[e] = "returns" /\ at'[e] = "done" /\ outcome'[e] = "unroutable"
                 /\ returns # <<>> \/ ~open
                 /\ mutex' = Nobody /\ returns' = <<>>
                 /\ UNCHANGED <<answer, wire, confirms>>
              \/ /\ at[e] = "returns" /\ at'[e] = "confirm" /\ open
                 /\ UNCHANGED <<outcome, answer, mutex, wire, returns, confirms>>
              \/ /\ at[e] = "confirm" /\ at'[e] = "done" /\ confirms # <<>>
                 /\ outcome'[e] = (IF Head(confirms) = "ack" THEN "ok" ELSE "nack")
                 /\ mutex' = Nobody /\ confirms' = <<>>
                 /\ UNCHANGED <<answer, wire, returns>>
              \/ /\ at[e] = "confirm" /\ at'[e] = "done" /\ mutex' = Nobody
                 /\ outcome'[e] = "closed" /\ ~open /\ confirms' = confirms
                 /\ UNCHANGED <<answer, wire, returns>>
              \/ /\ at[e] = "confirm" /\ at'[e] = "done" /\ mutex' = Nobody
                 /\ outcome'[e] = "timeout"
                 /\ UNCHANGED <<answer, wire, returns, confirms>>
              \/ /\ at[e] = "done" /\ answer[e] = 0
                 /\ \/ outcome[e] = "ok" /\ answer'[e] = 200
                    \/ outcome[e] # "ok" /\ answer'[e] = 500
                 /\ UNCHANGED <<at, outcome, mutex, wire, returns, confirms>>
  <1>0. {"idle", "lock", "send", "returns", "confirm", "done"} = Places
    BY DEF Places
  <1>1. CASE Begin(e) \/ Expire(e) \/ Lock(e)
    BY <1>0, <1>1, GotoType DEF Begin, Expire, Lock, broker, slots
  <1>2. CASE Send(e)
    <2>1. CASE open
      BY <1>0, <1>2, <2>1, GotoType DEF Send, slots
    <2>2. CASE ~open
      <3>1. Return(e, "send", "not sent") /\ "not sent" \in Outcomes
        BY <1>2, <2>2 DEF Send, Outcomes
      <3> QED
        BY <1>2, <2>2, <3>1, ReturnType DEF Send, slots, broker
    <2> QED
      BY <2>1, <2>2
  <1>3. CASE LookForReturn(e)
    <2>1. CASE Return(e, "returns", "unroutable")
      <3>1. "unroutable" \in Outcomes
        BY DEF Outcomes
      <3>2. ~Goto(e, "returns", "confirm")
        BY <2>1, <3>1, ReturnType DEF Goto, TypeOK
      <3>3. returns # <<>> => Tail(returns) = <<>>
        BY SlotType DEF TypeOK
      <3>4. returns' = <<>> /\ (returns # <<>> \/ ~open)
        BY <1>3, <3>2, <3>3 DEF LookForReturn
      <3> QED
        BY <1>3, <2>1, <3>1, <3>4, ReturnType DEF LookForReturn, broker
    <2>2. CASE ~Return(e, "returns", "unroutable")
      BY <1>0, <1>3, <2>2, GotoType DEF LookForReturn, broker
    <2> QED
      BY <2>1, <2>2
  <1>4. CASE TakeConfirm(e)
    <2>1. {"ok", "nack", "closed"} \subseteq Outcomes
      BY DEF Outcomes
    <2>2. confirms # <<>> => Tail(confirms) = <<>>
      BY SlotType DEF TypeOK
    <2>3. UNCHANGED <<open, unconfirmed, frames, log, nacks, wire, returns>>
      BY <1>4 DEF TakeConfirm, broker
    <2>4. CASE confirms # <<>>
      <3> DEFINE result == IF Head(confirms) = "ack" THEN "ok" ELSE "nack"
      <3>1. Return(e, "confirm", result) /\ confirms' = <<>>
        BY <1>4, <2>2, <2>4 DEF TakeConfirm
      <3>2. result \in Outcomes
        BY <2>1
      <3>3. /\ at[e] = "confirm" /\ at'[e] = "done" /\ outcome'[e] = result
            /\ mutex' = Nobody /\ answer' = answer
            /\ \A d \in Events \ {e} : UNCHANGED <<at[d], outcome[d], answer[d]>>
        <4> HIDE DEF result
        <4> QED
          BY <3>1, <3>2, ReturnType
      <3> QED
        BY <2>3, <2>4, <3>1, <3>3
    <2>5. CASE confirms = <<>>
      <3>1. Return(e, "confirm", "closed") /\ confirms' = confirms /\ ~open
        BY <1>4, <2>5 DEF TakeConfirm
      <3> QED
        BY <2>1, <2>3, <3>1, ReturnType
    <2> QED
      BY <2>4, <2>5
  <1>5. CASE GiveUp(e)
    <2>1. Return(e, "confirm", "timeout") /\ "timeout" \in Outcomes
      BY <1>5 DEF GiveUp, Outcomes
    <2> QED
      BY <1>5, <2>1, ReturnType DEF GiveUp, broker, slots
  <1>6. CASE Answer(e)
    <2>1. /\ at[e] = "done" /\ answer[e] = 0
          /\ \/ outcome[e] = "ok" /\ answer'[e] = 200
             \/ outcome[e] # "ok" /\ answer'[e] = 500
          /\ \A d \in Events \ {e} : answer'[d] = answer[d]
      BY <1>6 DEF Answer, TypeOK
    <2> QED
      BY <1>6, <2>1 DEF Answer, broker, slots
  <1> QED
    BY <1>1, <1>2, <1>3, <1>4, <1>5, <1>6 DEF Publish

\* An outcome is given once, and the answer after it.
LEMMA ReportEffect ==
    ASSUME TypeOK, NEW e \in Events, Begin(e) \/ Expire(e) \/ Publish(e)
    PROVE  /\ at[e] = "done" => at'[e] = "done" /\ outcome'[e] = outcome[e]
           /\ at[e] # "done" => answer'[e] = answer[e]
           /\ at'[e] # "done" => outcome'[e] = outcome[e] /\ at[e] # "done"
           /\ \/ answer'[e] = answer[e]
              \/ outcome[e] = "ok"
              \/ answer'[e] = 500
  <1>1. at[e] = "done" => at'[e] = "done" /\ outcome'[e] = outcome[e]
    BY PublishEffect
  <1>2. at[e] # "done" => answer'[e] = answer[e]
    BY PublishEffect
  <1>3. at'[e] # "done" => outcome'[e] = outcome[e]
    BY PublishEffect
  <1>4. at[e] = "done" => answer'[e] = answer[e] \/ outcome[e] = "ok" \/ answer'[e] = 500
    BY PublishEffect
  <1> QED
    BY <1>1, <1>2, <1>3, <1>4

LEMMA BrokerKeeps ==
    ASSUME Route \/ Confirm \/ Dispatch \/ Close
    PROVE  UNCHANGED <<at, outcome, answer, expired, mutex>>
  BY DEF Route, Confirm, Dispatch, Close, caller

LEMMA HolderStep ==
    ASSUME HolderInv, [Next]_vars
    PROVE  HolderInv' /\ (InStep' => InStep)
  <1>1. TypeOK /\ TypeOK'
    BY TypeStep DEF HolderInv
  <1>2. CASE \E e \in Events : Begin(e) \/ Expire(e) \/ Publish(e)
    <2> PICK e \in Events : Begin(e) \/ Expire(e) \/ Publish(e)
      BY <1>2
    <2>1. Nobody # e
      BY NobodyAssumption
    <2>2. \A d \in Events \ {e} : UNCHANGED <<at[d], outcome[d], answer[d]>>
      BY <1>1, PublishEffect, ZenonT(60)
    <2>3. \A d \in Events : Publishing(d) <=> mutex = d
      BY DEF HolderInv, MutexHeld
    <2>4. MutexHeld'
      <3>1. \A d \in Events \ {e} : Publishing(d)' <=> Publishing(d)
        BY <2>2 DEF Publishing
      <3>2. \/ Publishing(e)' /\ mutex' = e /\ (Publishing(e) \/ mutex = Nobody)
            \/ ~Publishing(e)' /\ mutex' = Nobody /\ Publishing(e)
            \/ (Publishing(e)' <=> Publishing(e)) /\ mutex' = mutex
        BY <1>1, <2>3, PublishEffect DEF Publishing
      <3> HIDE DEF Publishing
      <3> QED
        BY <2>1, <2>3, <3>1, <3>2, NobodyAssumption DEF MutexHeld
    <2>5. \A d \in Events : Reported(d)'
      <3>1. Reported(e)'
        BY <1>1, ReportEffect DEF HolderInv, Reported
      <3> QED
        BY <2>2, <3>1 DEF HolderInv, Reported
    <2>6. InStep' => InStep
      <3>1. /\ outcome[e] = "timeout" => outcome'[e] = "timeout"
            /\ at[e] # "idle" => at'[e] # "idle"
        BY <1>1, PublishEffect DEF HolderInv, Reported
      <3> QED
        BY <2>2, <3>1 DEF InStep
    <2> QED
      BY <1>1, <2>4, <2>5, <2>6 DEF HolderInv
  <1>3. CASE Route \/ Confirm \/ Dispatch \/ Close
    BY <1>1, <1>3, BrokerKeeps DEF HolderInv, MutexHeld, Publishing, Reported, InStep
  <1>4. CASE UNCHANGED vars
    BY <1>1, <1>4 DEF vars, caller, HolderInv, MutexHeld, Publishing, Reported, InStep
  <1> QED
    BY <1>2, <1>3, <1>4 DEF Next

LEMMA OwnPublish ==
    ASSUME OwnInv, HolderInv', InStep, InStep', NEW e \in Events,
           Begin(e) \/ Expire(e) \/ Publish(e)
    PROVE  OneOnItsWay' /\ AnswersAreOwn'
  <1>1. TypeOK /\ MutexHeld /\ MutexHeld' /\ OneOnItsWay /\ AnswersAreOwn
        /\ \A d \in Events : Reported(d)
    BY DEF OwnInv, HolderInv
  <1>2. /\ \A d \in Events \ {e} : UNCHANGED <<at[d], outcome[d], answer[d]>>
        /\ UNCHANGED <<open, unconfirmed, frames, log, nacks>>
    BY <1>1, PublishEffect
  <1>3. \A d \in Events \ {e} : Publishing(e) \/ Publishing(e)' => ~Publishing(d)'
    BY <1>1, <1>2 DEF MutexHeld, Publishing
  <1>4. \A f : Head(<<f>>) = f
    OBVIOUS
  <1>5. returns = <<>> /\ outcome'[e] # "timeout"
    BY <1>1 DEF OneOnItsWay, InStep
  <1>6. AnswersAreOwn'
    <2>1. /\ outcome[e] = "ok" => e \in log
          /\ outcome[e] = "nack" => e \notin log
          /\ outcome[e] = "unroutable" => ~open
          /\ answer[e] = 200 => e \in log
      BY <1>1 DEF AnswersAreOwn
    <2>2. at[e] = "confirm" /\ confirms # <<>> => Head(confirms) \in {"ack", "nack"}
                                                  /\ Tells(e, Head(confirms))
      <3>1. confirms # <<>> => Head(confirms) \in {"ack", "nack"}
        BY <1>1, SlotType DEF TypeOK
      <3>2. open /\ at[e] = "confirm" => OnItsWay(e)
        BY <1>1 DEF OneOnItsWay, Sent
      <3>3. OnItsWay(e) /\ confirms # <<>> => Tells(e, Head(confirms))
        BY <1>4 DEF OnItsWay
      <3> QED
        BY <1>1, <3>1, <3>2, <3>3 DEF OneOnItsWay, TypeOK
    <2>3. /\ outcome'[e] = "ok" => e \in log
          /\ outcome'[e] = "nack" => e \notin log
          /\ outcome'[e] = "unroutable" => ~open
      BY <1>1, <1>5, <2>1, <2>2, PublishEffect, ZenonT(60) DEF Tells
    <2>4. answer'[e] = 200 => e \in log
      BY <1>1, <2>1, ReportEffect DEF Reported
    <2> QED
      BY <1>1, <1>2, <2>3, <2>4 DEF AnswersAreOwn
  <1>7. returns' = <<>>
    BY <1>1, <1>5, PublishEffect
  <1>8. CASE open
    <2>1. /\ \A d \in Events : Sent(d) => OnItsWay(d)
          /\ (\A d \in Events : ~Sent(d)) => NothingSent
      BY <1>1, <1>8 DEF OneOnItsWay
    <2>2. \A d \in Events \ {e} : /\ Sent(d)' <=> Sent(d)
                                  /\ Publishing(e) \/ Publishing(e)' => ~Sent(d)
      BY <1>2, <1>3 DEF Sent, Publishing
    <2>3. CASE UNCHANGED <<wire, confirms>> /\ (Sent(e)' <=> Sent(e))
      <3>1. \A d \in Events : OnItsWay(d)' <=> OnItsWay(d)
        BY <1>2, <2>3 DEF OnItsWay, Tells
      <3>2. NothingSent' <=> NothingSent
        BY <1>2, <2>3 DEF NothingSent
      <3> HIDE DEF Sent
      <3> QED
        BY <1>2, <1>6, <1>7, <1>8, <2>1, <2>2, <2>3, <3>1, <3>2 DEF OneOnItsWay
    <2>4. CASE at[e] = "send" /\ at'[e] = "returns" /\ wire' = Append(wire, e)
               /\ confirms' = confirms
      <3>1. NothingSent
        BY <2>1, <2>2, <2>4 DEF Sent, Publishing
      <3>2. wire' = <<e>>
        BY <2>4, <3>1 DEF NothingSent
      <3>3. OnItsWay(e)'
        BY <1>2, <2>4, <3>1, <3>2 DEF NothingSent, OnItsWay
      <3>4. Sent(e)' /\ \A d \in Events \ {e} : ~Sent(d)'
        BY <2>2, <2>4 DEF Sent, Publishing
      <3> HIDE DEF Sent
      <3> QED
        BY <1>2, <1>6, <1>7, <1>8, <3>3, <3>4 DEF OneOnItsWay
    <2>5. CASE at[e] = "confirm" /\ at'[e] = "done" /\ confirms # <<>>
               /\ confirms' = <<>> /\ wire' = wire
      <3>1. OnItsWay(e)
        BY <2>1, <2>5 DEF Sent
      <3>2. NothingSent'
        BY <1>2, <2>5, <3>1 DEF OnItsWay, NothingSent
      <3>3. \A d \in Events : ~Sent(d)'
        BY <2>2, <2>5 DEF Sent, Publishing
      <3> HIDE DEF Sent
      <3> QED
        BY <1>2, <1>6, <1>7, <1>8, <3>2, <3>3 DEF OneOnItsWay
    <2> QED
      BY <1>1, <1>5, <1>8, <2>3, <2>4, <2>5, PublishEffect DEF Sent
  <1>9. CASE ~open
    <2>1. \A d \in Events : at'[d] = "confirm" => at[d] = "confirm"
      BY <1>1, <1>2, <1>9, PublishEffect
    <2>2. confirms' = confirms \/ confirms' = <<>>
      BY <1>1, PublishEffect
    <2> QED
      BY <1>1, <1>2, <1>6, <1>7, <1>9, <2>1, <2>2 DEF OneOnItsWay, Tells
  <1> QED
    BY <1>1, <1>6, <1>8, <1>9 DEF TypeOK

LEMMA OwnBroker ==
    ASSUME OwnInv, HolderInv', InStep, InStep', Route \/ Confirm \/ Dispatch \/ Close
    PROVE  OneOnItsWay' /\ AnswersAreOwn'
  <1>1. TypeOK /\ MutexHeld /\ OneOnItsWay /\ AnswersAreOwn
        /\ \A d \in Events : Reported(d)
    BY DEF OwnInv, HolderInv
  <1>2. UNCHANGED <<at, outcome, answer, expired, mutex>>
    BY BrokerKeeps
  <1>3. open /\ returns = <<>>
    BY <1>1 DEF Route, Confirm, Dispatch, Close, OneOnItsWay
  <1>4. \A x : Head(<<x>>) = x /\ Tail(<<x>>) = <<>> /\ Append(<<>>, x) = <<x>>
    OBVIOUS
  <1>5. \A d \in Events : Sent(d)' <=> Sent(d)
    BY <1>2 DEF Sent
  <1>6. ASSUME NEW e \in Events, Sent(e), open' = open, returns' = <<>>, OnItsWay(e)',
               log' \subseteq log \cup {e}, log \subseteq log'
        PROVE  OneOnItsWay' /\ AnswersAreOwn'
    <2>1. \A d \in Events \ {e} : ~Sent(d)
      BY <1>1, <1>6 DEF Sent, MutexHeld, Publishing
    <2>2. OneOnItsWay'
      BY <1>3, <1>5, <1>6, <2>1 DEF OneOnItsWay
    <2>3. outcome[e] = "none"
      BY <1>1, <1>6 DEF Reported, Sent
    <2> QED
      BY <1>1, <1>2, <1>3, <1>6, <2>2, <2>3 DEF AnswersAreOwn
  <1>7. CASE Close
    <2>1. /\ wire' = <<>> /\ unconfirmed' = <<>> /\ frames' = <<>> /\ open' = FALSE
          /\ UNCHANGED <<log, returns, confirms>>
      BY <1>7 DEF Close, slots
    <2>2. ASSUME NEW e \in Events, at[e] = "confirm", confirms # <<>>
          PROVE  Tells(e, Head(confirms))
      <3>1. OnItsWay(e)
        BY <1>1, <1>3, <2>2 DEF OneOnItsWay, Sent
      <3> QED
        BY <1>4, <2>2, <3>1 DEF OnItsWay
    <2>3. OneOnItsWay'
      BY <1>2, <1>3, <2>1, <2>2 DEF OneOnItsWay, Tells
    <2> QED
      BY <1>1, <1>2, <2>1, <2>3 DEF AnswersAreOwn
  <1>8. ASSUME wire # <<>> \/ unconfirmed # <<>> \/ frames # <<>>
        PROVE  \E e \in Events : Sent(e) /\ OnItsWay(e)
    BY <1>1, <1>3, <1>8 DEF OneOnItsWay, NothingSent
  <1>9. CASE Route
    <2>1. PICK e \in Events : Sent(e) /\ OnItsWay(e)
      BY <1>8, <1>9 DEF Route
    <2>2. wire = <<e>> /\ unconfirmed = <<>> /\ frames = <<>> /\ confirms = <<>>
      BY <1>9, <2>1 DEF Route, OnItsWay
    <2>3. Routable(e)
      BY <2>1 DEF InStep, Sent
    <2>4. /\ wire' = <<>> /\ unconfirmed' = <<e>> /\ frames' = <<>> /\ confirms' = <<>>
          /\ log' \in {log, log \cup {e}} /\ open' = open /\ returns' = <<>>
      BY <1>3, <1>4, <1>9, <2>2, <2>3 DEF Route, slots
    <2>5. OnItsWay(e)'
      BY <2>4 DEF OnItsWay
    <2> QED
      BY <1>6, <2>1, <2>4, <2>5
  <1>10. CASE Confirm
    <2>1. PICK e \in Events : Sent(e) /\ OnItsWay(e)
      BY <1>8, <1>10 DEF Confirm
    <2>2. wire = <<>> /\ unconfirmed = <<e>> /\ frames = <<>> /\ confirms = <<>>
      BY <1>10, <2>1 DEF Confirm, OnItsWay
    <2>3. Routable(e)
      BY <2>1 DEF InStep, Sent
    <2>4. /\ wire' = <<>> /\ unconfirmed' = <<>> /\ confirms' = <<>>
          /\ log' = log /\ open' = open /\ returns' = <<>>
      BY <1>3, <1>4, <1>10, <2>2 DEF Confirm, slots
    <2>5. PICK f \in {"ack", "nack"} : Tells(e, f) /\ frames' = <<f>>
      BY <1>4, <1>10, <2>2, <2>3 DEF Confirm, Tells
    <2>6. OnItsWay(e)'
      BY <2>4, <2>5 DEF OnItsWay, Tells
    <2> QED
      BY <1>6, <2>1, <2>4, <2>6
  <1>11. CASE Dispatch
    <2>1. PICK e \in Events : Sent(e) /\ OnItsWay(e)
      BY <1>8, <1>11 DEF Dispatch
    <2>2. PICK f \in {"ack", "nack"} :
              /\ Tells(e, f) /\ wire = <<>> /\ unconfirmed = <<>>
              /\ frames = <<f>> /\ confirms = <<>>
      BY <1>11, <2>1 DEF Dispatch, OnItsWay
    <2>3. /\ wire' = <<>> /\ unconfirmed' = <<>> /\ frames' = <<>> /\ confirms' = <<f>>
          /\ log' = log /\ open' = open /\ returns' = <<>>
      BY <1>3, <1>4, <1>11, <2>2 DEF Dispatch
    <2>4. OnItsWay(e)'
      BY <2>2, <2>3 DEF OnItsWay, Tells
    <2> QED
      BY <1>6, <2>1, <2>3, <2>4
  <1> QED
    BY <1>7, <1>9, <1>10, <1>11

\* What Publish returns is about its own event, although the broker's frames
\* name none: with any number of goroutines, refusals and closed connections,
\* until somebody gives up on his confirmation or publishes what no binding
\* takes.
THEOREM OwnAnswers == Spec => []AnswersAreOwn
  <1>1. Init => OwnInv
    <2> SUFFICES ASSUME Init PROVE OwnInv
      OBVIOUS
    <2>1. \A e \in Events : at[e] = "idle" /\ outcome[e] = "none" /\ answer[e] = 0
      BY DEF Init
    <2>2. HolderInv
      BY <2>1, TypeInit, NobodyAssumption DEF Init, HolderInv, MutexHeld, Publishing, Reported
    <2>3. OneOnItsWay
      BY <2>1 DEF Init, OneOnItsWay, Sent, NothingSent
    <2> QED
      BY <2>1, <2>2, <2>3 DEF OwnInv, AnswersAreOwn
  <1>2. OwnInv /\ [Next]_vars => OwnInv'
    <2> SUFFICES ASSUME OwnInv, [Next]_vars PROVE OwnInv'
      OBVIOUS
    <2>1. HolderInv' /\ (InStep' => InStep)
      BY HolderStep DEF OwnInv
    <2>2. SUFFICES ASSUME InStep, InStep' PROVE OneOnItsWay' /\ AnswersAreOwn'
      BY <2>1, <2>2 DEF OwnInv, AnswersAreOwn
    <2>3. CASE Next
      BY <2>1, <2>2, <2>3, OwnPublish, OwnBroker DEF Next
    <2>4. CASE UNCHANGED vars
      BY <2>2, <2>4 DEF vars, caller, broker, slots, OwnInv, OneOnItsWay, AnswersAreOwn, Sent,
                 OnItsWay, NothingSent, Tells
    <2> QED
      BY <2>3, <2>4
  <1>3. OwnInv => AnswersAreOwn
    BY DEF OwnInv
  <1> QED
    BY <1>1, <1>2, <1>3, PTL DEF Spec
=============================================================================
