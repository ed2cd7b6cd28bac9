------------------------------ MODULE Snowflake ------------------------------
(***************************************************************************)
(* The ID generator (internal/pkg/idgen): every row of every table is      *)
(* named by NewID. Each process has one generator, shared by all its       *)
(* goroutines under a mutex; all processes are built with the same node    *)
(* number. Time is the wall clock in milliseconds since customEpoch, which *)
(* may be set back while the generator runs; a waiting caller holds the    *)
(* mutex.                                                                  *)
(***************************************************************************)
EXTENDS Integers

CONSTANTS
    Generators,     \* the processes: server and worker
    Callers,        \* goroutines of each process
    Node,           \* Node[g]: the number g's generator was given
    NodeRange,      \* maxNodeID + 1
    SequenceRange,  \* maxSequence + 1
    MaxClock,       \* bound: the last millisecond modelled
    MaxSetBack,     \* bound: how often the clock is set back
    MaxRestarts,    \* bound: how often a process is started again
    Nobody          \* the owner of a free mutex

ASSUME RangeAssumption ==
    /\ NodeRange \in Nat \ {0} /\ SequenceRange \in Nat \ {0}
    /\ Node \in [Generators -> Int]
ASSUME BoundAssumption  == MaxClock \in Nat /\ MaxSetBack \in Nat /\ MaxRestarts \in Nat
ASSUME NobodyAssumption == Nobody \notin Callers

VARIABLES
    clock,     \* the wall clock of the machine
    lastMs,    \* lastMs[g], -1 in a new generator
    sequence,  \* sequence[g]
    mutex,     \* mutex[g]: the goroutine inside NextID
    stage,     \* stage[g][c]: where goroutine c of g is in NextID
    now,       \* now[g][c]: the time it read; what it waits for to pass
    newest,    \* newest[g]: the ID g issued last       (history)
    count,     \* count[g]: IDs issued since it started (history)
    setBacks, restarts

generator == <<lastMs, sequence, newest, count>>
bounds    == <<setBacks, restarts>>
vars      == <<clock, generator, mutex, stage, now, bounds>>

\* NewSnowflake replaces a number out of range by 1.
NodeID(g) == IF Node[g] \in 0 .. NodeRange - 1 THEN Node[g] ELSE 1

\* Shifts and ors of parts that do not overlap: a sum.
Pack(ms, node, seq) == (ms * NodeRange + node) * SequenceRange + seq

Init ==
    /\ clock \in 0 .. MaxClock
    /\ lastMs = [g \in Generators |-> -1]
    /\ sequence = [g \in Generators |-> 0]
    /\ mutex = [g \in Generators |-> Nobody]
    /\ stage = [g \in Generators |-> [c \in Callers |-> "idle"]]
    /\ now = [g \in Generators |-> [c \in Callers |-> 0]]
    /\ newest = [g \in Generators |-> -1]
    /\ count = [g \in Generators |-> 0]
    /\ setBacks = 0
    /\ restarts = 0

Goto(g, c, from, to) ==
    /\ stage[g][c] = from
    /\ stage' = [stage EXCEPT ![g][c] = to]

\* Mutant: the lock is not waited for.
MutLock(g, c) ==
    /\ Goto(g, c, "idle", "locked")
    /\ mutex' = [mutex EXCEPT ![g] = c]
    /\ UNCHANGED <<clock, generator, now, bounds>>

Lock(g, c) ==
    /\ mutex[g] = Nobody
    /\ Goto(g, c, "idle", "locked")
    /\ mutex' = [mutex EXCEPT ![g] = c]
    /\ UNCHANGED <<clock, generator, now, bounds>>

Read(g, c) ==
    /\ Goto(g, c, "locked", "read")
    /\ now' = [now EXCEPT ![g][c] = clock]
    /\ UNCHANGED <<clock, generator, mutex, bounds>>

\* The end of NextID: the ID is put together and the mutex released.
Issue(g, c, ms, seq) ==
    /\ stage' = [stage EXCEPT ![g][c] = "idle"]
    /\ mutex' = [mutex EXCEPT ![g] = Nobody]
    /\ sequence' = [sequence EXCEPT ![g] = seq]
    /\ lastMs' = [lastMs EXCEPT ![g] = ms]
    /\ newest' = [newest EXCEPT ![g] = Pack(ms, NodeID(g), seq)]
    /\ count' = [count EXCEPT ![g] = @ + 1]
    /\ UNCHANGED <<clock, now, bounds>>

\* waitNextMs(lastMs), the mutex held.
StartWait(g, c, seq) ==
    /\ stage' = [stage EXCEPT ![g][c] = "waiting"]
    /\ now' = [now EXCEPT ![g][c] = lastMs[g]]
    /\ sequence' = [sequence EXCEPT ![g] = seq]
    /\ UNCHANGED <<clock, lastMs, newest, count, mutex, bounds>>

\* Mutants: a clock that was set back is believed; the number wraps around
\* within a millisecond.
MutClockBehind(g, c) ==
    /\ stage[g][c] = "read" /\ now[g][c] < lastMs[g]
    /\ Issue(g, c, now[g][c], 0)
MutSameMs(g, c) ==
    /\ stage[g][c] = "read" /\ now[g][c] = lastMs[g]
    /\ Issue(g, c, now[g][c], (sequence[g] + 1) % SequenceRange)
\* Mutant: the number is not masked.
MutSameMsUnmasked(g, c) ==
    /\ stage[g][c] = "read" /\ now[g][c] = lastMs[g]
    /\ Issue(g, c, now[g][c], sequence[g] + 1)

ClockBehind(g, c) ==
    /\ stage[g][c] = "read" /\ now[g][c] < lastMs[g]
    /\ StartWait(g, c, sequence[g])

SameMs(g, c) ==
    /\ stage[g][c] = "read" /\ now[g][c] = lastMs[g]
    /\ LET next == (sequence[g] + 1) % SequenceRange IN
       \/ next = 0 /\ StartWait(g, c, 0)
       \/ next # 0 /\ Issue(g, c, now[g][c], next)

NewMs(g, c) ==
    /\ stage[g][c] = "read" /\ now[g][c] > lastMs[g]
    /\ Issue(g, c, now[g][c], 0)

\* Whichever wait it was, the millisecond read now is a new one.
EndWait(g, c) ==
    /\ stage[g][c] = "waiting" /\ clock > now[g][c]
    /\ Issue(g, c, clock, 0)

Tick ==
    /\ clock < MaxClock
    /\ clock' = clock + 1
    /\ UNCHANGED <<generator, mutex, stage, now, bounds>>

SetBack ==
    /\ setBacks < MaxSetBack
    /\ setBacks' = setBacks + 1
    /\ \E t \in 0 .. MaxClock : t < clock /\ clock' = t
    /\ UNCHANGED <<generator, mutex, stage, now, restarts>>

\* A process starts again with a new generator: nothing is remembered.
Restart(g) ==
    /\ restarts < MaxRestarts
    /\ restarts' = restarts + 1
    /\ lastMs' = [lastMs EXCEPT ![g] = -1]
    /\ sequence' = [sequence EXCEPT ![g] = 0]
    /\ mutex' = [mutex EXCEPT ![g] = Nobody]
    /\ stage' = [stage EXCEPT ![g] = [c \in Callers |-> "idle"]]
    /\ newest' = [newest EXCEPT ![g] = -1]
    /\ count' = [count EXCEPT ![g] = 0]
    /\ UNCHANGED <<clock, now, setBacks>>

NextID(g, c) ==
    \/ Lock(g, c) \/ Read(g, c) \/ ClockBehind(g, c) \/ SameMs(g, c)
    \/ NewMs(g, c) \/ EndWait(g, c)

Next ==
    \/ \E g \in Generators, c \in Callers : NextID(g, c)
    \/ \E g \in Generators : Restart(g)
    \/ Tick \/ SetBack

Spec == Init /\ [][Next]_vars

TypeOK ==
    /\ clock \in Nat
    /\ lastMs \in [Generators -> Int]
    /\ \A g \in Generators : lastMs[g] >= -1
    /\ sequence \in [Generators -> 0 .. SequenceRange - 1]
    /\ mutex \in [Generators -> Callers \cup {Nobody}]
    /\ stage \in [Generators -> [Callers -> {"idle", "locked", "read", "waiting"}]]
    /\ now \in [Generators -> [Callers -> Int]]
    /\ newest \in [Generators -> Int]
    /\ count \in [Generators -> Nat]
    /\ setBacks \in Nat /\ restarts \in Nat

-----------------------------------------------------------------------------
\* Whatever the clock does, a generator's IDs strictly increase while its
\* process lives: pages that are ordered by ID are in the order of creation,
\* and no ID is issued twice.
IdsIncrease ==
    [][\A g \in Generators : count'[g] > count[g] => newest'[g] > newest[g]]_vars
=============================================================================
