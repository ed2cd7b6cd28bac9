------------------------------ MODULE RateWindow ------------------------------
(***************************************************************************)
(* The fixed-window counters in Redis behind both rate limits: per IP      *)
(* address (middleware.RateLimit) and per user (cache.AllowUserLLMCall).   *)
(* The same Lua script keeps both, and Redis runs it as one step: INCR the *)
(* key, and PEXPIRE it if the count is 1. A window therefore begins with   *)
(* its first call, and no later call prolongs it.                          *)
(***************************************************************************)
EXTENDS Integers, Sequences

CONSTANTS
    Keys,    \* the addresses or users that are counted
    Limit,   \* maxRequests
    Window   \* the TTL; Redis drops a key at once whose TTL is 0

\* Assumed by whoever makes an instance.
ParametersOK == Limit \in Nat /\ Window \in Nat

VARIABLES
    now,     \* the clock of Redis
    count,   \* count[k]: the value last stored under the key of k
    ends,    \* ends[k]: when that key expires
    grants   \* grants[k]: the calls let through, in order  (history)

vars == <<now, count, ends, grants>>

\* A call that was let through: when, and when the window it fell in ends.
Grant == [at : Nat, ends : Nat]

Init ==
    /\ now = 0
    /\ count = [k \in Keys |-> 0]
    /\ ends = [k \in Keys |-> 0]
    /\ grants = [k \in Keys |-> <<>>]

\* What INCR finds: nothing under a key that has expired.
Counted(k) == IF now < ends[k] THEN count[k] ELSE 0

\* The script returns Counted(k) + 1, which is compared with the limit.
Allowed(k) == Counted(k) + 1 <= Limit

\* Mutant: the TTL of a minute, given to PEXPIRE in seconds, is over at once.
MutEnd(k) == now

\* PEXPIRE, by the first call of a window only.
End(k) == IF Counted(k) = 0 THEN now + Window ELSE ends[k]

\* One run of the script. A refused call counts as well.
Hit(k) ==
    /\ count' = [count EXCEPT ![k] = Counted(k) + 1]
    /\ ends' = [ends EXCEPT ![k] = End(k)]
    /\ grants' = [grants EXCEPT ![k] =
                      IF Allowed(k) THEN Append(@, [at |-> now, ends |-> End(k)])
                                    ELSE @]
    /\ UNCHANGED now

Tick ==
    /\ now' = now + 1
    /\ UNCHANGED <<count, ends, grants>>

Next == (\E k \in Keys : Hit(k)) \/ Tick

Spec == Init /\ [][Next]_vars

-----------------------------------------------------------------------------
TypeOK ==
    /\ now \in Nat
    /\ count \in [Keys -> Nat]
    /\ ends \in [Keys -> Nat]
    /\ grants \in [Keys -> Seq(Grant)]

\* What a fixed window promises: around the edge of two windows twice the
\* limit may pass, but of any 2 * Limit + 1 calls that pass, the last comes a
\* full window after the first.
BurstsAreBounded ==
    \A k \in Keys : \A i \in DOMAIN grants[k] :
        i + 2 * Limit \in DOMAIN grants[k] =>
            grants[k][i + 2 * Limit].at >= grants[k][i].at + Window

\* Nor is anyone refused without cause: whoever is has had the limit within
\* the last window. Refused calls count as well, but prolong nothing.
RefusedHadTheLimit ==
    \A k \in Keys : ~Allowed(k) =>
        /\ Len(grants[k]) >= Limit
        /\ Limit > 0 => grants[k][Len(grants[k]) - Limit + 1].at + Window > now
=============================================================================
