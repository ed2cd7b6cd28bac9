--------------------------- MODULE RateWindow_proofs ---------------------------
(***************************************************************************)
(* For every limit, window length and number of keys: what a fixed window  *)
(* lets through and whom it refuses.                                       *)
(***************************************************************************)
EXTENDS RateWindow, TLAPS

USE DEF ParametersOK

-----------------------------------------------------------------------------
(* The inductive invariant, per key. A window is named by its end.         *)

\* A key that has not expired was counted, and expires within a window.
Clock(k) ==
    /\ now < ends[k] => count[k] >= 1
    /\ ends[k] <= now + Window

\* A call that passed did so in its window; the windows of the past are over,
\* and the current one began no earlier.
Past(k) ==
    \A i \in 1 .. Len(grants[k]) :
        LET g == grants[k][i] IN
        /\ g.at <= now /\ g.at <= g.ends /\ g.ends <= g.at + Window
        /\ \/ g.ends = ends[k]
           \/ g.ends <= now /\ g.ends + Window <= ends[k]

\* Two calls that passed fell in one window, or the later one in a window that
\* began after the earlier's ended.
Apart(k) ==
    \A i, j \in 1 .. Len(grants[k]) :
        i < j => \/ grants[k][i].ends = grants[k][j].ends
                 \/ /\ grants[k][i].ends <= grants[k][j].at
                    /\ grants[k][i].ends + Window <= grants[k][j].ends

\* The count bounds what passed in the current window, and the limit what
\* passed in any.
Share(k) ==
    Window > 0 =>
        \A i \in 1 .. Len(grants[k]) :
            /\ grants[k][i].ends = ends[k] => Len(grants[k]) - i + 1 <= count[k]
            /\ i + Limit <= Len(grants[k]) => grants[k][i + Limit].ends # grants[k][i].ends

\* Up to the limit, what was counted in the current window has passed.
Filled(k) ==
    now < ends[k] =>
        \A n \in 1 .. Limit : n <= count[k] =>
            /\ n <= Len(grants[k])
            /\ grants[k][Len(grants[k]) - n + 1].ends = ends[k]

KeyInv(k) == Clock(k) /\ Past(k) /\ Apart(k) /\ Share(k) /\ Filled(k)

Inv == TypeOK /\ \A k \in Keys : KeyInv(k)

-----------------------------------------------------------------------------
\* The calls of a sequence of grants have times.
LEMMA Times ==
    ASSUME NEW g \in Seq(Grant)
    PROVE  /\ Len(g) \in Nat /\ DOMAIN g = 1 .. Len(g)
           /\ \A i \in 1 .. Len(g) : g[i].at \in Nat /\ g[i].ends \in Nat
  <1>1. Len(g) \in Nat /\ DOMAIN g = 1 .. Len(g)
    OBVIOUS
  <1>2. \A i \in 1 .. Len(g) : g[i] \in Grant
    OBVIOUS
  <1> QED
    BY <1>1, <1>2 DEF Grant

LEMMA InitInv == ASSUME ParametersOK, Init PROVE Inv
  <1>1. TypeOK
    BY DEF Init, TypeOK, Grant
  <1>2. ASSUME NEW k \in Keys PROVE KeyInv(k)
    <2>1. count[k] = 0 /\ ends[k] = 0 /\ grants[k] = <<>> /\ now = 0
      BY DEF Init
    <2> QED
      BY <2>1
      DEF KeyInv, Clock, Past, Apart, Share, Filled
  <1> QED
    BY <1>1, <1>2 DEF Inv

\* A step that leaves the key alone, while time may pass.
LEMMA LaterInv ==
    ASSUME ParametersOK, Inv, NEW k \in Keys, now' \in Nat, now' >= now,
           count'[k] = count[k], ends'[k] = ends[k], grants'[k] = grants[k]
    PROVE  KeyInv(k)'
  <1> DEFINE g == grants[k]
  <1>1. now \in Nat /\ count[k] \in Nat /\ ends[k] \in Nat /\ g \in Seq(Grant)
    BY DEF Inv, TypeOK
  <1>2. Len(g) \in Nat /\ \A i \in 1 .. Len(g) : g[i].at \in Nat /\ g[i].ends \in Nat
    BY <1>1, Times
  <1>3. KeyInv(k)
    BY DEF Inv
  <1>4. Clock(k)'
    BY <1>1, <1>3 DEF KeyInv, Clock
  <1>5. Past(k)'
    BY <1>1, <1>2, <1>3 DEF KeyInv, Past
  <1>6. Apart(k)'
    BY <1>3 DEF KeyInv, Apart
  <1>7. Share(k)'
    BY <1>3 DEF KeyInv, Share
  <1>8. Filled(k)'
    BY <1>1, <1>3 DEF KeyInv, Filled
  <1> QED
    BY <1>4, <1>5, <1>6, <1>7, <1>8 DEF KeyInv

\* What one run of the script does to its key.
LEMMA HitFacts ==
    ASSUME ParametersOK, TypeOK, NEW k \in Keys, Hit(k)
    PROVE  /\ now' = now
           /\ count'[k] = Counted(k) + 1
           /\ ends'[k] = End(k)
           /\ Counted(k) \in Nat /\ End(k) \in Nat
           /\ Allowed(k) => grants'[k] = Append(grants[k], [at |-> now, ends |-> End(k)])
           /\ ~Allowed(k) => grants'[k] = grants[k]
           /\ \A h \in Keys \ {k} : /\ count'[h] = count[h] /\ ends'[h] = ends[h]
                                    /\ grants'[h] = grants[h]
  BY DEF TypeOK, Hit, Counted, End

LEMMA HitType == ASSUME ParametersOK, TypeOK, NEW k \in Keys, Hit(k) PROVE TypeOK'
  <1> DEFINE g == [at |-> now, ends |-> End(k)]
  <1>1. Counted(k) \in Nat /\ End(k) \in Nat
    BY HitFacts
  <1>2. g \in Grant
    BY <1>1 DEF TypeOK, Grant
  <1>3. Append(grants[k], g) \in Seq(Grant)
    BY <1>2 DEF TypeOK
  <1>4. count' \in [Keys -> Nat] /\ ends' \in [Keys -> Nat] /\ now' \in Nat
    BY <1>1 DEF TypeOK, Hit
  <1>5. grants' \in [Keys -> Seq(Grant)]
    <2>1. grants' = [grants EXCEPT ![k] = IF Allowed(k) THEN Append(grants[k], g) ELSE grants[k]]
      BY DEF Hit
    <2> HIDE DEF g
    <2> QED BY <2>1, <1>3 DEF TypeOK
  <1> QED
    BY <1>4, <1>5 DEF TypeOK

-----------------------------------------------------------------------------
\* A refused call.
LEMMA RefusedInv == ASSUME ParametersOK, Inv, NEW k \in Keys, Hit(k), ~Allowed(k) PROVE KeyInv(k)'
  <1> DEFINE g == grants[k]
  <1>1. now \in Nat /\ count[k] \in Nat /\ ends[k] \in Nat /\ g \in Seq(Grant) /\ TypeOK
    BY DEF Inv, TypeOK
  <1>2. Len(g) \in Nat /\ \A i \in 1 .. Len(g) : g[i].at \in Nat /\ g[i].ends \in Nat
    BY <1>1, Times
  <1>3. KeyInv(k)
    BY DEF Inv
  <1>4. /\ now' = now /\ grants'[k] = g
        /\ count'[k] = Counted(k) + 1 /\ ends'[k] = End(k)
    BY <1>1, HitFacts
  <1>5. Counted(k) \in Nat /\ Counted(k) + 1 > Limit
    <2>1. Counted(k) \in Nat
      BY <1>1, HitFacts
    <2> QED
      BY <2>1 DEF Allowed
  <1>6. CASE now < ends[k]
    <2>1. Counted(k) = count[k] /\ count[k] >= 1 /\ End(k) = ends[k]
      BY <1>1, <1>3, <1>6 DEF KeyInv, Clock, Counted, End
    <2>2. Clock(k)' /\ Past(k)' /\ Apart(k)'
      BY <2>1, <1>1, <1>3, <1>4 DEF KeyInv, Clock, Past, Apart
    <2>3. Share(k)'
      BY <2>1, <1>1, <1>2, <1>3, <1>4 DEF KeyInv, Share
    <2>4. Filled(k)'
      BY <2>1, <1>1, <1>2, <1>3, <1>4, <1>5, <1>6 DEF KeyInv, Filled
    <2> QED
      BY <2>2, <2>3, <2>4 DEF KeyInv
  <1>7. CASE ~(now < ends[k])
    <2>1. Counted(k) = 0 /\ End(k) = now + Window /\ Limit = 0 /\ ends[k] <= now
      BY <1>1, <1>5, <1>7 DEF Counted, End
    <2>2. Clock(k)'
      BY <2>1, <1>1, <1>4 DEF Clock
    <2>3. \A i \in 1 .. Len(g) : /\ g[i].at <= now /\ g[i].at <= g[i].ends
                                  /\ g[i].ends <= g[i].at + Window
                                  /\ g[i].ends <= now
      BY <2>1, <1>1, <1>2, <1>3 DEF KeyInv, Past
    <2>4. Past(k)'
      <3> HIDE DEF g
      <3>1. \A i \in 1 .. Len(g) : g[i].ends <= now /\ g[i].ends + Window <= End(k)
        BY <2>1, <2>3, <1>1, <1>2
      <3> QED
        BY <3>1, <2>3, <1>4 DEF Past
    <2>5. Apart(k)'
      BY <1>3, <1>4 DEF KeyInv, Apart
    <2>6. Share(k)' /\ Filled(k)'
      BY <2>1, <1>1, <1>2, <1>3, <1>4 DEF KeyInv, Share, Filled, Past
    <2> QED
      BY <2>2, <2>4, <2>5, <2>6 DEF KeyInv
  <1> QED
    BY <1>6, <1>7

\* A call that passes.
LEMMA GrantedInv == ASSUME ParametersOK, Inv, NEW k \in Keys, Hit(k), Allowed(k) PROVE KeyInv(k)'
  <1> DEFINE g == grants[k]
             h == grants'[k]
             n == Len(g)
  <1>1. now \in Nat /\ count[k] \in Nat /\ ends[k] \in Nat /\ g \in Seq(Grant) /\ TypeOK
    BY DEF Inv, TypeOK
  <1>2. n \in Nat /\ \A i \in 1 .. n : g[i].at \in Nat /\ g[i].ends \in Nat
    BY <1>1, Times
  <1>3. KeyInv(k)
    BY DEF Inv
  <1>4. /\ now' = now /\ h = Append(g, [at |-> now, ends |-> End(k)])
        /\ count'[k] = Counted(k) + 1 /\ ends'[k] = End(k) /\ End(k) \in Nat
    BY <1>1, HitFacts
  <1>5. /\ Len(h) = n + 1
        /\ \A i \in 1 .. n : h[i] = g[i]
        /\ h[n + 1].at = now /\ h[n + 1].ends = End(k)
    <2> HIDE DEF g, h
    <2> QED BY <1>1, <1>4 DEF Grant
  <1>6. Counted(k) + 1 <= Limit /\ Limit >= 1
    <2>1. Counted(k) \in Nat
      BY <1>1, HitFacts
    <2> QED
      BY <2>1 DEF Allowed
  <1>7. /\ \A i \in 1 .. n : /\ g[i].at <= now /\ g[i].at <= g[i].ends
                             /\ g[i].ends <= g[i].at + Window
                             /\ \/ g[i].ends = ends[k]
                                \/ g[i].ends <= now /\ g[i].ends + Window <= ends[k]
        /\ \A i, j \in 1 .. n : i < j =>
               \/ g[i].ends = g[j].ends
               \/ g[i].ends <= g[j].at /\ g[i].ends + Window <= g[j].ends
        /\ Window > 0 => \A i \in 1 .. n :
               /\ g[i].ends = ends[k] => n - i + 1 <= count[k]
               /\ i + Limit <= n => g[i + Limit].ends # g[i].ends
    BY <1>3 DEF KeyInv, Past, Apart, Share
  <1>8. CASE now < ends[k]
    <2>1. Counted(k) = count[k] /\ count[k] >= 1 /\ End(k) = ends[k] /\ ends[k] <= now + Window
      BY <1>1, <1>3, <1>8 DEF KeyInv, Clock, Counted, End
    <2>2. \A m \in 1 .. Limit : m <= count[k] => m <= n /\ g[n - m + 1].ends = ends[k]
      BY <1>3, <1>8 DEF KeyInv, Filled
    <2> HIDE DEF g, h, n
    <2>3. Clock(k)'
      BY <2>1, <1>1, <1>4 DEF Clock
    <2>4. Past(k)'
      BY <2>1, <1>1, <1>2, <1>4, <1>5, <1>7, <1>8 DEF Past, h
    <2>5. Apart(k)'
      BY <2>1, <1>1, <1>2, <1>4, <1>5, <1>7, SMTT(30) DEF Apart, h
    <2>6. Share(k)'
      <3>0. /\ count'[k] = count[k] + 1 /\ ends'[k] = ends[k] /\ Len(h) = n + 1
            /\ count[k] \in Nat /\ n \in Nat
        BY <2>1, <1>1, <1>2, <1>4, <1>5
      <3> SUFFICES ASSUME Window > 0, NEW i \in 1 .. Len(h)
                   PROVE  /\ h[i].ends = ends'[k] => Len(h) - i + 1 <= count'[k]
                          /\ i + Limit <= Len(h) => h[i + Limit].ends # h[i].ends
        BY DEF Share, h
      <3> i \in 1 .. n + 1
        BY <3>0
      <3>1. CASE i = n + 1
        BY <3>0, <3>1, <2>1, <1>1, <1>2, <1>5, <1>6
      <3>2. CASE i \in 1 .. n
        <4>1. g[i].ends = ends[k] => n - i + 1 <= count[k]
          BY <3>2, <1>7
        <4>2. h[i] = g[i] /\ h[n + 1].ends = ends[k]
          BY <3>2, <2>1, <1>5
        <4>3. ASSUME i + Limit <= n PROVE h[i + Limit].ends # h[i].ends
          <5>1. i + Limit \in 1 .. n
            BY <4>3, <3>2, <1>2
          <5> QED
            BY <5>1, <4>2, <4>3, <3>2, <1>5, <1>7
        <4>4. ASSUME i + Limit = n + 1 PROVE h[i + Limit].ends # h[i].ends
          BY <4>1, <4>2, <4>4, <3>2, <2>1, <1>1, <1>2, <1>6
        <4>5. h[i].ends = ends'[k] => Len(h) - i + 1 <= count'[k]
          BY <4>1, <4>2, <3>0, <3>2
        <4>6. i + Limit <= Len(h) => i + Limit <= n \/ i + Limit = n + 1
          BY <3>0, <3>2
        <4> QED
          BY <4>3, <4>4, <4>5, <4>6
      <3> QED
        BY <3>1, <3>2, <1>2
    <2>7. Filled(k)'
      <3> SUFFICES ASSUME NEW m \in 1 .. Limit, m <= count'[k]
                   PROVE  m <= Len(h) /\ h[Len(h) - m + 1].ends = ends'[k]
        BY DEF Filled, h
      <3>0. m <= count[k] + 1 /\ ends'[k] = ends[k] /\ Len(h) = n + 1
        BY <2>1, <1>4, <1>5
      <3>1. CASE m = 1
        BY <3>0, <3>1, <2>1, <1>2, <1>5
      <3>2. CASE m > 1
        <4>1. m - 1 \in 1 .. Limit /\ m - 1 <= count[k]
          BY <3>0, <3>2, <1>1
        <4>2. m - 1 <= n /\ g[n - (m - 1) + 1].ends = ends[k]
          BY <4>1, <2>2
        <4>3. n - (m - 1) + 1 = n + 1 - m + 1 /\ n + 1 - m + 1 \in 1 .. n
          BY <4>1, <4>2, <1>2
        <4> QED
          BY <4>2, <4>3, <3>0, <1>2, <1>5
      <3> QED
        BY <3>1, <3>2
    <2> QED
      BY <2>3, <2>4, <2>5, <2>6, <2>7 DEF KeyInv
  <1>9. CASE ~(now < ends[k])
    <2>1. Counted(k) = 0 /\ End(k) = now + Window /\ ends[k] <= now
      BY <1>1, <1>9 DEF Counted, End
    <2> HIDE DEF g, h, n
    <2>3. Clock(k)'
      BY <2>1, <1>1, <1>4 DEF Clock
    <2>4. Past(k)'
      BY <2>1, <1>1, <1>2, <1>4, <1>5, <1>7 DEF Past, h
    <2>5. Apart(k)'
      BY <2>1, <1>1, <1>2, <1>4, <1>5, <1>7, SMTT(30) DEF Apart, h
    <2>6. Share(k)'
      <3>0. count'[k] = 1 /\ ends'[k] = End(k) /\ Len(h) = n + 1
        BY <2>1, <1>4, <1>5
      <3>4. \A m \in 1 .. n : g[m].ends <= now
        BY <2>1, <1>1, <1>2, <1>7
      <3>1. Window > 0 => \A m \in 1 .. n : g[m].ends < End(k)
        BY <3>4, <2>1, <1>1, <1>2
      <3> SUFFICES ASSUME Window > 0, NEW i \in 1 .. Len(h)
                   PROVE  /\ h[i].ends = ends'[k] => Len(h) - i + 1 <= count'[k]
                          /\ i + Limit <= Len(h) => h[i + Limit].ends # h[i].ends
        BY DEF Share, h
      <3> i \in 1 .. n + 1
        BY <3>0
      <3>2. CASE i = n + 1
        BY <3>0, <3>2, <1>2, <1>6
      <3>3. CASE i \in 1 .. n
        <4>1. h[i] = g[i] /\ h[i].ends # End(k)
          BY <3>1, <3>3, <1>2, <1>4, <1>5
        <4>2. ASSUME i + Limit <= n PROVE h[i + Limit].ends # h[i].ends
          <5>1. i + Limit \in 1 .. n
            BY <4>2, <3>3, <1>2
          <5> QED
            BY <5>1, <4>1, <4>2, <3>3, <1>5, <1>7
        <4>3. ASSUME i + Limit = n + 1 PROVE h[i + Limit].ends # h[i].ends
          BY <4>1, <4>3, <1>5
        <4>4. i + Limit <= Len(h) => i + Limit <= n \/ i + Limit = n + 1
          BY <3>0, <3>3, <1>2
        <4> QED
          BY <4>1, <4>2, <4>3, <4>4, <3>0
      <3> QED
        BY <3>2, <3>3, <1>2
    <2>7. Filled(k)'
      BY <2>1, <1>1, <1>2, <1>4, <1>5, <1>6 DEF Filled, h
    <2> QED
      BY <2>3, <2>4, <2>5, <2>6, <2>7 DEF KeyInv
  <1> QED
    BY <1>8, <1>9

LEMMA NextInv == ASSUME ParametersOK, Inv, [Next]_vars PROVE Inv'
  <1>1. ASSUME NEW k \in Keys, Hit(k) PROVE Inv'
    <2>1. TypeOK /\ TypeOK'
      BY <1>1, HitType DEF Inv
    <2>2. KeyInv(k)'
      BY <1>1, RefusedInv, GrantedInv
    <2>3. ASSUME NEW h \in Keys, h # k PROVE KeyInv(h)'
      <3>1. now' = now /\ count'[h] = count[h] /\ ends'[h] = ends[h] /\ grants'[h] = grants[h]
        BY <2>1, <2>3, <1>1, HitFacts
      <3>2. now \in Nat
        BY <2>1 DEF TypeOK
      <3> QED
        BY <3>1, <3>2, LaterInv
    <2> QED
      BY <2>1, <2>2, <2>3 DEF Inv
  <1>2. CASE Tick
    <2>1. TypeOK' /\ now' \in Nat /\ now' >= now
      BY <1>2 DEF Inv, TypeOK, Tick
    <2>2. ASSUME NEW k \in Keys PROVE KeyInv(k)'
      BY <2>1, <1>2, LaterInv DEF Tick
    <2> QED
      BY <2>1, <2>2 DEF Inv
  <1>3. CASE UNCHANGED vars
    <2>1. TypeOK' /\ now' \in Nat /\ now' >= now
      BY <1>3 DEF Inv, TypeOK, vars
    <2>2. ASSUME NEW k \in Keys PROVE KeyInv(k)'
      BY <2>1, <1>3, LaterInv DEF vars
    <2> QED
      BY <2>1, <2>2 DEF Inv
  <1> QED
    BY <1>1, <1>2, <1>3 DEF Next

LEMMA SpecInv == ASSUME ParametersOK PROVE Spec => []Inv
  <1>1. Init => Inv
    BY InitInv
  <1>2. Inv /\ [Next]_vars => Inv'
    BY NextInv
  <1> QED
    BY <1>1, <1>2, PTL DEF Spec

-----------------------------------------------------------------------------
\* Every variable keeps its type.
THEOREM TypeCorrect == ASSUME ParametersOK PROVE Spec => []TypeOK
  <1>1. Inv => TypeOK
    BY DEF Inv
  <1> QED
    BY <1>1, SpecInv, PTL

LEMMA InvBursts == ASSUME ParametersOK PROVE Inv => BurstsAreBounded
  <1> SUFFICES ASSUME Inv, NEW k \in Keys, NEW i \in DOMAIN grants[k],
                      i + 2 * Limit \in DOMAIN grants[k]
               PROVE  grants[k][i + 2 * Limit].at >= grants[k][i].at + Window
    BY DEF BurstsAreBounded
  <1> DEFINE g == grants[k]
             n == Len(g)
             j == i + Limit
             l == i + 2 * Limit
  <1>1. g \in Seq(Grant) /\ DOMAIN g = 1 .. n /\ n \in Nat
    BY DEF Inv, TypeOK
  <1>2. i \in 1 .. n /\ j \in 1 .. n /\ l \in 1 .. n /\ l = j + Limit /\ i \in Nat /\ j \in Nat
    BY <1>1
  <1>3. \A m \in 1 .. n : g[m].at \in Nat /\ g[m].ends \in Nat
    BY <1>1, Times
  <1>4. /\ \A m \in 1 .. n : g[m].at <= g[m].ends
        /\ \A m, o \in 1 .. n : m < o =>
               \/ g[m].ends = g[o].ends
               \/ g[m].ends <= g[o].at /\ g[m].ends + Window <= g[o].ends
        /\ Window > 0 => \A m \in 1 .. n : m + Limit <= n => g[m + Limit].ends # g[m].ends
        /\ \A m \in 1 .. n : g[m].ends <= g[m].at + Window
    BY DEF Inv, KeyInv, Past, Apart, Share
  <1> HIDE DEF g, n
  <1>5. CASE Window = 0
    <2>1. \A m \in 1 .. n : g[m].at = g[m].ends
      BY <1>3, <1>4, <1>5
    <2> QED
      BY <2>1, <1>2, <1>3, <1>4, <1>5 DEF g
  <1>6. CASE Window > 0
    <2>1. g[j].ends # g[i].ends /\ g[l].ends # g[j].ends
      BY <1>2, <1>4, <1>6
    <2>2. Limit > 0
      BY <2>1, <1>2
    <2>3. g[i].ends + Window <= g[j].ends /\ g[j].ends <= g[l].at
      BY <2>1, <2>2, <1>2, <1>4
    <2>4. g[l].at >= g[i].at + Window
      BY <2>3, <1>2, <1>3, <1>4
    <2> QED
      BY <2>4 DEF g
  <1> QED
    BY <1>5, <1>6

\* Of any 2 * Limit + 1 calls that a window lets through, the last comes a
\* full window after the first.
THEOREM Bursts == ASSUME ParametersOK PROVE Spec => []BurstsAreBounded
  <1>1. Inv => BurstsAreBounded
    BY InvBursts
  <1> QED
    BY <1>1, SpecInv, PTL

LEMMA InvRefused == ASSUME ParametersOK PROVE Inv => RefusedHadTheLimit
  <1> SUFFICES ASSUME Inv, NEW k \in Keys, ~Allowed(k)
               PROVE  /\ Len(grants[k]) >= Limit
                      /\ Limit > 0 =>
                             grants[k][Len(grants[k]) - Limit + 1].at + Window > now
    BY DEF RefusedHadTheLimit
  <1> DEFINE g == grants[k]
             n == Len(g)
  <1>1. now \in Nat /\ count[k] \in Nat /\ ends[k] \in Nat /\ g \in Seq(Grant) /\ n \in Nat
    BY DEF Inv, TypeOK
  <1>2. \A i \in 1 .. n : g[i].at \in Nat /\ g[i].ends \in Nat
    BY <1>1, Times
  <1>3. CASE Limit = 0
    BY <1>1, <1>3
  <1>4. CASE Limit > 0
    <2>1. now < ends[k] /\ count[k] >= Limit
      BY <1>1, <1>4 DEF Allowed, Counted
    <2>2. n >= Limit /\ g[n - Limit + 1].ends = ends[k]
      BY <2>1, <1>4 DEF Inv, KeyInv, Filled
    <2>3. n - Limit + 1 \in 1 .. n
      BY <2>2, <1>1, <1>4
    <2>4. g[n - Limit + 1].ends <= g[n - Limit + 1].at + Window
      BY <2>3 DEF Inv, KeyInv, Past
    <2> HIDE DEF g, n
    <2>5. g[n - Limit + 1].at + Window > now
      BY <2>1, <2>2, <2>3, <2>4, <1>1, <1>2
    <2> QED
      BY <2>2, <2>5 DEF g, n
  <1> QED
    BY <1>3, <1>4

\* Whoever is refused has had the limit within the last window.
THEOREM Refusals == ASSUME ParametersOK PROVE Spec => []RefusedHadTheLimit
  <1>1. Inv => RefusedHadTheLimit
    BY InvRefused
  <1> QED
    BY <1>1, SpecInv, PTL
===============================================================================
