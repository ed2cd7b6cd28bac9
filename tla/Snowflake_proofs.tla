--------------------------- MODULE Snowflake_proofs ---------------------------
(* Proofs about the ID generator, for every number of goroutines, every     *)
(* width of the sequence and every behaviour of the clock.                  *)
EXTENDS Snowflake, TLAPS

\* The packed ID follows the order of time first and sequence second.
LEMMA PackTime ==
    ASSUME NEW a \in Int, NEW b \in Int, a < b,
           NEW n \in 0 .. NodeRange, NEW s \in 0 .. SequenceRange - 1,
           NEW t \in 0 .. SequenceRange - 1
    PROVE  Pack(a, n, s) < Pack(b, n, t)
  <1> DEFINE S == SequenceRange
             x == a * NodeRange + n
             y == b * NodeRange + n
  <1>1. NodeRange \in Nat \ {0} /\ S \in Nat \ {0} /\ s \in Int /\ t \in Int
        /\ s < S /\ t >= 0 /\ n \in Int
    BY RangeAssumption
  <1>2. a * NodeRange \in Int /\ b * NodeRange \in Int /\ x \in Int /\ y \in Int
    BY <1>1
  <1>3. a * NodeRange + NodeRange <= b * NodeRange
    <2>1. b * NodeRange - a * NodeRange = (b - a) * NodeRange
      BY <1>1
    <2>2. (b - a) * NodeRange >= NodeRange
      BY <1>1
    <2> QED
      BY <1>1, <1>2, <2>1, <2>2
  <1>4. x + 1 <= y
    BY <1>1, <1>2, <1>3
  <1> HIDE DEF x, y, S
  <1>5. x * S \in Int /\ y * S \in Int /\ x * S + S <= y * S
    <2>1. y * S - x * S = (y - x) * S
      BY <1>1, <1>2
    <2>2. (y - x) * S >= S
      BY <1>1, <1>2, <1>4
    <2> QED
      BY <1>1, <1>2, <2>1, <2>2
  <1>6. x * S + s < y * S + t
    BY <1>1, <1>2, <1>5
  <1> QED
    BY <1>6 DEF x, y, S, Pack

LEMMA PackSequence ==
    ASSUME NEW a \in Int, NEW n \in Int, NEW s \in Int, NEW t \in Int, s < t
    PROVE  Pack(a, n, s) < Pack(a, n, t)
  <1>1. (a * NodeRange + n) * SequenceRange \in Int
    BY RangeAssumption
  <1> QED
    BY <1>1 DEF Pack

LEMMA PackType ==
    ASSUME NEW a \in Int, NEW n \in Int, NEW s \in Int
    PROVE  Pack(a, n, s) \in Int
  BY RangeAssumption DEF Pack

\* NewSnowflake's fallback may lie just outside of a range of one number.
LEMMA NodeType == ASSUME NEW g \in Generators PROVE NodeID(g) \in 0 .. NodeRange
  BY RangeAssumption DEF NodeID

LEMMA PackNat ==
    ASSUME NEW a \in Nat, NEW n \in 0 .. NodeRange, NEW s \in Nat
    PROVE  Pack(a, n, s) \in Nat
  <1>1. a * NodeRange \in Nat /\ n \in Nat
    BY RangeAssumption
  <1>2. (a * NodeRange + n) * SequenceRange \in Nat
    BY <1>1, RangeAssumption
  <1> QED
    BY <1>2 DEF Pack

-----------------------------------------------------------------------------
(* The inductive invariant: whoever is inside NextID holds the mutex, and   *)
(* the newest ID lies below every ID that can still be put together from    *)
(* lastMs and sequence.                                                     *)

InsideHasMutex ==
    \A g \in Generators, c \in Callers : stage[g][c] # "idle" => mutex[g] = c

WaitsForLastMs ==
    \A g \in Generators, c \in Callers :
        stage[g][c] = "waiting" => now[g][c] = lastMs[g] /\ lastMs[g] >= 0

ReadIsTime ==
    \A g \in Generators, c \in Callers : stage[g][c] = "read" => now[g][c] \in Nat

\* While somebody waits, only IDs of a later millisecond are to come.
NewestBelow ==
    \A g \in Generators :
        /\ lastMs[g] = -1 => newest[g] = -1
        /\ lastMs[g] >= 0 =>
             newest[g] <= Pack(lastMs[g], NodeID(g), SequenceRange - 1)
        /\ lastMs[g] >= 0 /\ (\A c \in Callers : stage[g][c] # "waiting") =>
             newest[g] <= Pack(lastMs[g], NodeID(g), sequence[g])

Inv == TypeOK /\ InsideHasMutex /\ WaitsForLastMs /\ ReadIsTime /\ NewestBelow

LEMMA InitInv == Init => Inv
  BY RangeAssumption, BoundAssumption
     DEF Init, Inv, TypeOK, InsideHasMutex, WaitsForLastMs, ReadIsTime, NewestBelow

\* What putting an ID together asks for, and what it leaves.
LEMMA IssueInv ==
    ASSUME Inv, NEW g \in Generators, NEW c \in Callers, stage[g][c] # "idle",
           NEW ms \in Nat, NEW seq \in 0 .. SequenceRange - 1,
           newest[g] < Pack(ms, NodeID(g), seq), Issue(g, c, ms, seq)
    PROVE  Inv' /\ newest'[g] > newest[g]
  <1>1. mutex[g] = c /\ \A d \in Callers : d # c => stage[g][d] = "idle"
    BY DEF Inv, InsideHasMutex
  <1>2. \A d \in Callers : stage'[g][d] = "idle"
    BY <1>1 DEF Issue, Inv, TypeOK
  <1>3. \A h \in Generators \ {g} :
            /\ stage'[h] = stage[h] /\ mutex'[h] = mutex[h]
            /\ lastMs'[h] = lastMs[h] /\ sequence'[h] = sequence[h]
            /\ newest'[h] = newest[h]
    BY DEF Issue, Inv, TypeOK
  <1>4. /\ lastMs'[g] = ms /\ sequence'[g] = seq /\ now' = now
        /\ newest'[g] = Pack(ms, NodeID(g), seq)
    BY DEF Issue, Inv, TypeOK
  <1>5. NodeID(g) \in Int /\ Pack(ms, NodeID(g), seq) \in Int
    BY NodeType, PackType, RangeAssumption
  <1>6. TypeOK'
    BY <1>5 DEF Issue, Inv, TypeOK, bounds
  <1>7. InsideHasMutex' /\ WaitsForLastMs' /\ ReadIsTime'
    BY <1>2, <1>3, <1>4
       DEF Inv, InsideHasMutex, WaitsForLastMs, ReadIsTime
  <1>8. NewestBelow'
    <2> SUFFICES ASSUME NEW h \in Generators
                 PROVE  /\ lastMs'[h] = -1 => newest'[h] = -1
                        /\ lastMs'[h] >= 0 =>
                             newest'[h] <= Pack(lastMs'[h], NodeID(h), SequenceRange - 1)
                        /\ lastMs'[h] >= 0
                             /\ (\A d \in Callers : stage'[h][d] # "waiting") =>
                             newest'[h] <= Pack(lastMs'[h], NodeID(h), sequence'[h])
      BY DEF NewestBelow
    <2>1. CASE h # g
      BY <1>3, <2>1 DEF Inv, NewestBelow
    <2>2. CASE h = g
      <3>1. Pack(ms, NodeID(g), seq) <= Pack(ms, NodeID(g), SequenceRange - 1)
        <4>1. CASE seq = SequenceRange - 1
          BY <1>5, <4>1
        <4>2. CASE seq < SequenceRange - 1
          <5>1. SequenceRange - 1 \in Int /\ seq \in Int /\ ms \in Int
            BY RangeAssumption
          <5>2. Pack(ms, NodeID(g), seq) < Pack(ms, NodeID(g), SequenceRange - 1)
            BY <1>5, <4>2, <5>1, PackSequence
          <5>3. Pack(ms, NodeID(g), SequenceRange - 1) \in Int
            BY <1>5, <5>1, PackType
          <5> QED
            BY <1>5, <5>2, <5>3
        <4> QED
          BY <4>1, <4>2, RangeAssumption
      <3> QED
        BY <1>4, <1>5, <2>2, <3>1
    <2> QED
      BY <2>1, <2>2
  <1>9. newest'[g] > newest[g]
    BY <1>4, <1>5 DEF Inv, TypeOK
  <1> QED
    BY <1>6, <1>7, <1>8, <1>9 DEF Inv

LEMMA LaterMs ==
    ASSUME Inv, NEW g \in Generators, NEW ms \in Nat, ms > lastMs[g]
    PROVE  newest[g] < Pack(ms, NodeID(g), 0)
  <1>1. /\ NodeID(g) \in 0 .. NodeRange /\ 0 \in 0 .. SequenceRange - 1
        /\ SequenceRange - 1 \in 0 .. SequenceRange - 1
        /\ lastMs[g] \in Int /\ lastMs[g] >= -1 /\ newest[g] \in Int
    BY NodeType, RangeAssumption DEF Inv, TypeOK
  <1>2. Pack(ms, NodeID(g), 0) \in Nat
    BY <1>1, PackNat
  <1>3. CASE lastMs[g] = -1
    BY <1>1, <1>2, <1>3 DEF Inv, NewestBelow
  <1>4. CASE lastMs[g] >= 0
    <2>1. newest[g] <= Pack(lastMs[g], NodeID(g), SequenceRange - 1)
      BY <1>4 DEF Inv, NewestBelow
    <2>2. Pack(lastMs[g], NodeID(g), SequenceRange - 1) < Pack(ms, NodeID(g), 0)
      <3>1. lastMs[g] < ms /\ ms \in Int
        BY <1>1
      <3>2. \A last \in 0 .. SequenceRange - 1 :
                Pack(lastMs[g], NodeID(g), last) < Pack(ms, NodeID(g), 0)
        BY <1>1, <3>1, PackTime
      <3> QED
        BY <1>1, <3>2
    <2>3. Pack(lastMs[g], NodeID(g), SequenceRange - 1) \in Int
      <3>1. SequenceRange - 1 \in Int /\ NodeID(g) \in Int
        BY <1>1, RangeAssumption
      <3> QED
        BY <1>1, <3>1, PackType
    <2> QED
      BY <1>1, <1>2, <2>1, <2>2, <2>3
  <1> QED
    BY <1>1, <1>3, <1>4

LEMMA WaitInv ==
    ASSUME Inv, NEW g \in Generators, NEW c \in Callers, stage[g][c] # "idle",
           lastMs[g] >= 0, NEW seq \in 0 .. SequenceRange - 1, StartWait(g, c, seq)
    PROVE  Inv' /\ count' = count
  <1>1. mutex[g] = c
    BY DEF Inv, InsideHasMutex
  <1>2. /\ stage'[g][c] = "waiting" /\ now'[g][c] = lastMs[g]
        /\ UNCHANGED <<lastMs, newest, count, mutex>>
        /\ sequence' = [sequence EXCEPT ![g] = seq]
    BY DEF StartWait, Inv, TypeOK
  <1>3. \A h \in Generators, d \in Callers :
            <<h, d>> # <<g, c>> =>
              stage'[h][d] = stage[h][d] /\ now'[h][d] = now[h][d]
    BY DEF StartWait, Inv, TypeOK
  <1>4. TypeOK'
    <2>1. stage' \in [Generators -> [Callers -> {"idle", "locked", "read", "waiting"}]]
      BY DEF StartWait, Inv, TypeOK
    <2>2. now' \in [Generators -> [Callers -> Int]]
      BY DEF StartWait, Inv, TypeOK
    <2> QED
      BY <1>2, <2>1, <2>2 DEF StartWait, Inv, TypeOK, bounds
  <1>5. InsideHasMutex'
    BY <1>1, <1>2, <1>3 DEF Inv, InsideHasMutex
  <1>6. WaitsForLastMs' /\ ReadIsTime'
    BY <1>2, <1>3 DEF Inv, WaitsForLastMs, ReadIsTime
  <1>7. NewestBelow'
    <2>1. \A h \in Generators \ {g} : sequence'[h] = sequence[h]
              /\ \A d \in Callers : stage'[h][d] = stage[h][d]
      BY <1>2, <1>3 DEF Inv, TypeOK
    <2> QED
      BY <1>2, <2>1 DEF Inv, NewestBelow
  <1> QED
    BY <1>2, <1>4, <1>5, <1>6, <1>7 DEF Inv

\* The steps of one goroutine: each keeps the invariant, and the ones that
\* issue an ID issue a greater one.
LEMMA NextIDInv ==
    ASSUME Inv, NEW g \in Generators, NEW c \in Callers, NextID(g, c)
    PROVE  /\ Inv'
           /\ \A h \in Generators : count'[h] > count[h] => newest'[h] > newest[h]
  <1>1. clock \in Nat /\ 0 \in 0 .. SequenceRange - 1 /\ NodeID(g) \in 0 .. NodeRange
    BY RangeAssumption, NodeType DEF Inv, TypeOK
  <1>2. CASE Lock(g, c)
    <2>1. /\ mutex[g] = Nobody /\ mutex' = [mutex EXCEPT ![g] = c]
          /\ UNCHANGED <<clock, lastMs, sequence, newest, count, now, bounds>>
      BY <1>2 DEF Lock, generator
    <2>2. \A d \in Callers : stage[g][d] = "idle"
      BY <2>1, NobodyAssumption DEF Inv, InsideHasMutex
    <2>3. /\ stage' \in [Generators -> [Callers -> {"idle", "locked", "read", "waiting"}]]
          /\ stage'[g][c] = "locked"
          /\ \A h \in Generators, d \in Callers :
                 <<h, d>> # <<g, c>> => stage'[h][d] = stage[h][d]
      BY <1>2 DEF Lock, Goto, Inv, TypeOK
    <2>4. TypeOK'
      BY <2>1, <2>3 DEF Inv, TypeOK, bounds
    <2>5. InsideHasMutex'
      BY <2>1, <2>2, <2>3 DEF Inv, TypeOK, InsideHasMutex
    <2>6. WaitsForLastMs' /\ ReadIsTime'
      BY <2>1, <2>3 DEF Inv, WaitsForLastMs, ReadIsTime
    <2>7. NewestBelow'
      BY <2>1, <2>2, <2>3 DEF Inv, NewestBelow
    <2> QED
      BY <2>1, <2>4, <2>5, <2>6, <2>7 DEF Inv, TypeOK
  <1>3. CASE Read(g, c)
    <2>1. /\ UNCHANGED <<clock, lastMs, sequence, newest, count, mutex, bounds>>
          /\ stage[g][c] = "locked"
      BY <1>3 DEF Read, Goto, generator
    <2>2. /\ stage' \in [Generators -> [Callers -> {"idle", "locked", "read", "waiting"}]]
          /\ stage'[g][c] = "read"
          /\ \A h \in Generators, d \in Callers :
                 <<h, d>> # <<g, c>> => stage'[h][d] = stage[h][d]
      BY <1>3 DEF Read, Goto, Inv, TypeOK
    <2>3. /\ now' \in [Generators -> [Callers -> Int]]
          /\ now'[g][c] = clock
          /\ \A h \in Generators, d \in Callers :
                 <<h, d>> # <<g, c>> => now'[h][d] = now[h][d]
      BY <1>1, <1>3 DEF Read, Inv, TypeOK
    <2>4. TypeOK'
      BY <2>1, <2>2, <2>3 DEF Inv, TypeOK, bounds
    <2>5. InsideHasMutex'
      BY <2>1, <2>2 DEF Inv, InsideHasMutex
    <2>6. WaitsForLastMs' /\ ReadIsTime'
      <3> SUFFICES ASSUME NEW h \in Generators, NEW d \in Callers
                   PROVE  /\ stage'[h][d] = "waiting" =>
                               now'[h][d] = lastMs'[h] /\ lastMs'[h] >= 0
                          /\ stage'[h][d] = "read" => now'[h][d] \in Nat
        BY DEF WaitsForLastMs, ReadIsTime
      <3>1. CASE <<h, d>> = <<g, c>>
        BY <1>1, <2>2, <2>3, <3>1
      <3>2. CASE <<h, d>> # <<g, c>>
        BY <2>1, <2>2, <2>3, <3>2 DEF Inv, WaitsForLastMs, ReadIsTime
      <3> QED
        BY <3>1, <3>2
    <2>7. NewestBelow'
      BY <2>1, <2>2 DEF Inv, NewestBelow
    <2> QED
      BY <2>1, <2>4, <2>5, <2>6, <2>7 DEF Inv, TypeOK
  <1>4. CASE ClockBehind(g, c)
    <2>1. lastMs[g] >= 0 /\ stage[g][c] # "idle" /\ StartWait(g, c, sequence[g])
      BY <1>4 DEF ClockBehind, Inv, TypeOK, ReadIsTime
    <2>2. sequence[g] \in 0 .. SequenceRange - 1
      BY DEF Inv, TypeOK
    <2>3. Inv' /\ count' = count
      BY <2>1, <2>2, WaitInv
    <2> QED
      BY <2>3 DEF Inv, TypeOK
  <1>5. CASE SameMs(g, c)
    <2> DEFINE next == (sequence[g] + 1) % SequenceRange
    <2>1. /\ now[g][c] = lastMs[g] /\ now[g][c] \in Nat /\ stage[g][c] = "read"
          /\ sequence[g] \in 0 .. SequenceRange - 1
      BY <1>5 DEF SameMs, Inv, TypeOK, ReadIsTime
    <2>2. next \in 0 .. SequenceRange - 1 /\ (next # 0 => next = sequence[g] + 1)
      <3>1. CASE sequence[g] + 1 < SequenceRange
        BY <2>1, <3>1, RangeAssumption
      <3>2. CASE sequence[g] + 1 = SequenceRange
        BY <2>1, <3>2, RangeAssumption
      <3> QED
        BY <2>1, <3>1, <3>2, RangeAssumption
    <2>3. CASE next = 0 /\ StartWait(g, c, 0)
      <3>1. Inv' /\ count' = count
        BY <1>1, <2>1, <2>3, WaitInv
      <3> QED
        BY <3>1 DEF Inv, TypeOK
    <2>4. CASE next # 0 /\ Issue(g, c, now[g][c], next)
      <3>1. \A d \in Callers : stage[g][d] # "waiting"
        BY <2>1 DEF Inv, InsideHasMutex
      <3>2. newest[g] <= Pack(lastMs[g], NodeID(g), sequence[g])
        BY <2>1, <3>1 DEF Inv, NewestBelow
      <3>3. next \in Int /\ sequence[g] \in Int /\ sequence[g] < next
            /\ lastMs[g] \in Int /\ NodeID(g) \in Int /\ newest[g] \in Int
        BY <1>1, <2>1, <2>2, <2>4, RangeAssumption DEF Inv, TypeOK
      <3> HIDE DEF next
      <3>4. Pack(lastMs[g], NodeID(g), sequence[g]) < Pack(lastMs[g], NodeID(g), next)
        BY <3>3, PackSequence
      <3>5. /\ Pack(lastMs[g], NodeID(g), sequence[g]) \in Int
            /\ Pack(lastMs[g], NodeID(g), next) \in Int
        BY <3>3, PackType
      <3>6. newest[g] < Pack(now[g][c], NodeID(g), next)
        BY <2>1, <3>2, <3>3, <3>4, <3>5
      <3>7. Inv' /\ newest'[g] > newest[g]
        BY <2>1, <2>2, <2>4, <3>6, IssueInv
      <3> QED
        BY <2>4, <3>7 DEF Issue, Inv, TypeOK
    <2> QED
      BY <1>5, <2>3, <2>4 DEF SameMs
  <1>6. CASE NewMs(g, c) \/ EndWait(g, c)
    <2>1. PICK ms \in Nat : ms > lastMs[g] /\ Issue(g, c, ms, 0)
      <3>1. CASE NewMs(g, c)
        BY <3>1 DEF NewMs, Inv, ReadIsTime
      <3>2. CASE EndWait(g, c)
        BY <1>1, <3>2 DEF EndWait, Inv, WaitsForLastMs
      <3> QED
        BY <1>6, <3>1, <3>2
    <2>2. stage[g][c] # "idle"
      BY <1>6 DEF NewMs, EndWait
    <2>3. newest[g] < Pack(ms, NodeID(g), 0)
      BY <2>1, LaterMs
    <2>4. Inv' /\ newest'[g] > newest[g]
      BY <1>1, <2>1, <2>2, <2>3, IssueInv
    <2> QED
      BY <2>1, <2>4 DEF Issue, Inv, TypeOK
  <1> QED
    BY <1>2, <1>3, <1>4, <1>5, <1>6 DEF NextID

LEMMA NextInv ==
    Inv /\ [Next]_vars
      => /\ Inv'
         /\ \A h \in Generators : count'[h] > count[h] => newest'[h] > newest[h]
  <1> SUFFICES ASSUME Inv, [Next]_vars
               PROVE  /\ Inv'
                      /\ \A h \in Generators :
                             count'[h] > count[h] => newest'[h] > newest[h]
    OBVIOUS
  <1>1. CASE \E g \in Generators, c \in Callers : NextID(g, c)
    BY <1>1, NextIDInv
  <1>2. CASE Tick \/ SetBack \/ UNCHANGED vars
    <2>1. /\ clock' \in Nat /\ setBacks' \in Nat /\ restarts' \in Nat
          /\ UNCHANGED <<lastMs, sequence, newest, count, mutex, stage, now>>
      BY <1>2 DEF Tick, SetBack, vars, generator, bounds, Inv, TypeOK
    <2> QED
      BY <2>1 DEF Inv, TypeOK, InsideHasMutex, WaitsForLastMs, ReadIsTime, NewestBelow
  <1>3. CASE \E g \in Generators : Restart(g)
    <2> PICK g \in Generators : Restart(g)
      BY <1>3
    <2>1. TypeOK'
      BY RangeAssumption DEF Restart, Inv, TypeOK
    <2>2. /\ \A d \in Callers : stage'[g][d] = "idle"
          /\ lastMs'[g] = -1 /\ newest'[g] = -1 /\ count'[g] = 0
          /\ now' = now
          /\ \A h \in Generators \ {g} :
                /\ stage'[h] = stage[h] /\ lastMs'[h] = lastMs[h]
                /\ newest'[h] = newest[h] /\ sequence'[h] = sequence[h]
                /\ mutex'[h] = mutex[h] /\ count'[h] = count[h]
      BY DEF Restart, Inv, TypeOK
    <2>3. InsideHasMutex' /\ WaitsForLastMs' /\ ReadIsTime'
      BY <2>2 DEF Inv, InsideHasMutex, WaitsForLastMs, ReadIsTime
    <2>4. NewestBelow'
      BY <2>2 DEF Inv, NewestBelow
    <2>5. \A h \in Generators : ~(count'[h] > count[h])
      <3>1. \A h \in Generators : count[h] \in Nat
        BY DEF Inv, TypeOK
      <3> QED
        BY <2>2, <3>1
    <2> QED
      BY <2>1, <2>3, <2>4, <2>5 DEF Inv
  <1> QED
    BY <1>1, <1>2, <1>3 DEF Next

\* Every variable keeps its type; above all the sequence number stays below
\* its range, so that it never runs over into the node's bits.
THEOREM TypeCorrect == Spec => []TypeOK
  <1>1. Inv /\ [Next]_vars => Inv'
    BY NextInv
  <1>2. Inv => TypeOK
    BY DEF Inv
  <1> QED
    BY InitInv, <1>1, <1>2, PTL DEF Spec

\* The IDs of one process strictly increase, however many goroutines ask for
\* them and whatever the wall clock does meanwhile.
THEOREM IdsAlwaysIncrease == Spec => IdsIncrease
  <1>1. Inv /\ [Next]_vars
          => [\A g \in Generators : count'[g] > count[g] => newest'[g] > newest[g]]_vars
    BY NextInv
  <1>2. Inv /\ [Next]_vars => Inv'
    BY NextInv
  <1> QED
    BY InitInv, <1>1, <1>2, PTL DEF Spec, IdsIncrease
=============================================================================
