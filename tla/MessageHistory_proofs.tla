------------------------- MODULE MessageHistory_proofs -------------------------
(* Proofs about MessageHistory, for any calls that overlap in any way, any  *)
(* pages and page size and any number of failing Redis commands: a deleted  *)
(* session is not read, a page holds what its total promises, calls that do *)
(* not overlap read what is stored, and a cached value that is not what is  *)
(* stored has a cause.                                                      *)
EXTENDS MessageHistory, SequenceTheorems, TLAPS

CallState ==
    [kind : Kinds \cup {"none"}, at : Stages, page : Nat, items : Seq(Calls),
     total : Nat, after : Nat]

\* TypeOK without the two variables that only say where a stale value is from.
CoreType ==
    /\ session \in BOOLEAN
    /\ rows \in Seq(Calls)
    /\ list \in Seq(Calls) \cup {NoList}
    /\ pages \in [Pages -> PageValue \cup {NoList}]
    /\ call \in [Calls -> [kind : Kinds \cup {"none"}, at : Stages,
                           page : Nat, items : Seq(Calls), total : Nat, after : Nat]]
    /\ result \in [Calls -> PageValue \cup {NoList}]
    /\ began \in [Calls -> BOOLEAN]
    /\ alone \in BOOLEAN
    /\ errors \in Nat

CauseType == overtaken \in SUBSET Calls /\ spoilt \in SUBSET (Pages \cup {0})

-----------------------------------------------------------------------------
(* Sequences and pages.                                                     *)

LEMMA SubSeqEffect ==
    ASSUME NEW S, NEW s \in Seq(S), NEW m \in Nat, NEW n \in Nat,
           1 <= m, m <= n + 1, n <= Len(s)
    PROVE  /\ SubSeq(s, m, n) \in Seq(S)
           /\ Len(SubSeq(s, m, n)) = n + 1 - m
           /\ \A k \in 1 .. n + 1 - m : SubSeq(s, m, n)[k] = s[m - 1 + k]
  <1>1. \A k \in m .. n : s[k] \in S
    <2>1. Len(s) \in Nat /\ \A k \in 1 .. Len(s) : s[k] \in S
      BY LenProperties, ElementOfSeq
    <2> QED
      BY <2>1
  <1>2. /\ SubSeq(s, m, n) \in Seq(S)
        /\ Len(SubSeq(s, m, n)) = IF m <= n THEN n - m + 1 ELSE 0
        /\ \A k \in 1 .. n - m + 1 : SubSeq(s, m, n)[k] = s[m + k - 1]
    BY <1>1, SubSeqProperties
  <1> DEFINE t == SubSeq(s, m, n)
  <1> HIDE DEF t
  <1>3. Len(t) = IF m <= n THEN n - m + 1 ELSE 0
    BY <1>2 DEF t
  <1>4. Len(t) = n + 1 - m
    BY <1>3
  <1>5. \A k \in 1 .. n + 1 - m : k \in 1 .. n - m + 1 /\ m + k - 1 = m - 1 + k
    OBVIOUS
  <1> QED
    BY <1>2, <1>4, <1>5 DEF t

LEMMA ConcatEffect ==
    ASSUME NEW S, NEW a \in Seq(S), NEW b \in Seq(S)
    PROVE  /\ a \o b \in Seq(S) /\ Len(a \o b) = Len(a) + Len(b)
           /\ ToSet(a) \subseteq ToSet(a \o b) /\ ToSet(b) \subseteq ToSet(a \o b)
  <1> DEFINE c == a \o b
  <1>1. /\ c \in Seq(S) /\ Len(c) = Len(a) + Len(b)
        /\ \A i \in 1 .. Len(a) + Len(b) :
               c[i] = IF i <= Len(a) THEN a[i] ELSE b[i - Len(a)]
    BY ConcatProperties
  <1> HIDE DEF c
  <1>2. /\ Len(a) \in Nat /\ Len(b) \in Nat
        /\ DOMAIN a = 1 .. Len(a) /\ DOMAIN b = 1 .. Len(b)
        /\ DOMAIN c = 1 .. Len(a) + Len(b)
    BY <1>1, LenProperties
  <1>3. \A i \in 1 .. Len(a) : i \in 1 .. Len(a) + Len(b) /\ c[i] = a[i]
    BY <1>1, <1>2
  <1>4. \A i \in 1 .. Len(b) : /\ Len(a) + i \in 1 .. Len(a) + Len(b)
                              /\ c[Len(a) + i] = b[i]
    <2> TAKE i \in 1 .. Len(b)
    <2>1. /\ Len(a) + i \in 1 .. Len(a) + Len(b) /\ ~(Len(a) + i <= Len(a))
          /\ Len(a) + i - Len(a) = i
      BY <1>2
    <2> QED
      BY <1>1, <2>1
  <1>5. ToSet(a) \subseteq ToSet(c) /\ ToSet(b) \subseteq ToSet(c)
    BY <1>2, <1>3, <1>4 DEF ToSet
  <1> QED
    BY <1>1, <1>5 DEF c

LEMMA InsertIsConcat ==
    ASSUME NEW s, NEW i \in Nat, NEW j \in Nat, j = i + 1, NEW x
    PROVE  InsertAt(s, j, x) = SubSeq(s, 1, i) \o <<x>> \o SubSeq(s, j, Len(s))
  <1>1. j - 1 = i
    OBVIOUS
  <1>2. InsertAt(s, j, x) = SubSeq(s, 1, j - 1) \o <<x>> \o SubSeq(s, j, Len(s))
    BY DEF InsertAt
  <1> QED
    BY <1>1, <1>2, Zenon

LEMMA InsertEffect ==
    ASSUME NEW S, NEW s \in Seq(S), NEW i \in 0 .. Len(s), NEW x \in S
    PROVE  /\ InsertAt(s, i + 1, x) \in Seq(S)
           /\ Len(InsertAt(s, i + 1, x)) = Len(s) + 1
           /\ ToSet(s) \subseteq ToSet(InsertAt(s, i + 1, x))
  <1> DEFINE a == SubSeq(s, 1, i)
             b == SubSeq(s, i + 1, Len(s))
             c == a \o <<x>>
  <1>1. Len(s) \in Nat /\ i \in Nat /\ i <= Len(s) /\ DOMAIN s = 1 .. Len(s)
    BY LenProperties
  <1>2. /\ a \in Seq(S) /\ Len(a) = i
        /\ \A k \in 1 .. i : a[k] = s[k]
    <2>1. /\ a \in Seq(S) /\ Len(a) = i + 1 - 1
          /\ \A k \in 1 .. i + 1 - 1 : a[k] = s[1 - 1 + k]
      BY <1>1, SubSeqEffect
    <2> HIDE DEF a
    <2> QED
      BY <1>1, <2>1
  <1>3. /\ b \in Seq(S) /\ Len(b) = Len(s) - i
        /\ \A k \in 1 .. Len(s) - i : b[k] = s[i + k]
    <2> DEFINE j == i + 1
    <2>a. j \in Nat /\ 1 <= j /\ j <= Len(s) + 1 /\ Len(s) <= Len(s)
      BY <1>1
    <2> HIDE DEF j
    <2>b. /\ SubSeq(s, j, Len(s)) \in Seq(S)
          /\ Len(SubSeq(s, j, Len(s))) = Len(s) + 1 - j
          /\ \A k \in 1 .. Len(s) + 1 - j : SubSeq(s, j, Len(s))[k] = s[j - 1 + k]
      BY <1>1, <2>a, SubSeqEffect
    <2>1. /\ b \in Seq(S) /\ Len(b) = Len(s) + 1 - (i + 1)
          /\ \A k \in 1 .. Len(s) + 1 - (i + 1) : b[k] = s[i + 1 - 1 + k]
      BY <2>b DEF j
    <2> HIDE DEF b
    <2>2. \A m, n \in Nat : m + 1 - (n + 1) = m - n /\ n + 1 - 1 = n
      OBVIOUS
    <2> QED
      BY <1>1, <2>1, <2>2
  <1>4. InsertAt(s, i + 1, x) = c \o b
    <2>1. i + 1 \in Nat
      BY <1>1
    <2> QED
      BY <1>1, <2>1, InsertIsConcat, Zenon
  <1>5. <<x>> \in Seq(S) /\ Len(<<x>>) = 1
    OBVIOUS
  <1> HIDE DEF a, b, c
  <1>6. c \in Seq(S) /\ Len(c) = Len(a) + 1 /\ ToSet(a) \subseteq ToSet(c)
    BY <1>2, <1>5, ConcatEffect DEF c
  <1>7. /\ c \o b \in Seq(S) /\ Len(c \o b) = Len(c) + Len(b)
        /\ ToSet(c) \subseteq ToSet(c \o b) /\ ToSet(b) \subseteq ToSet(c \o b)
    BY <1>3, <1>6, ConcatEffect
  <1>8. \A k \in DOMAIN s : s[k] \in ToSet(a) \cup ToSet(b)
    <2> SUFFICES ASSUME NEW k \in 1 .. Len(s) PROVE s[k] \in ToSet(a) \cup ToSet(b)
      BY <1>1
    <2>1. DOMAIN a = 1 .. i /\ DOMAIN b = 1 .. Len(s) - i
      BY <1>2, <1>3, LenProperties
    <2>2. CASE k <= i
      BY <1>1, <1>2, <2>1, <2>2 DEF ToSet
    <2>3. CASE k > i
      <3>1. k - i \in 1 .. Len(s) - i /\ i + (k - i) = k
        BY <1>1, <2>3
      <3> QED
        BY <1>3, <2>1, <3>1 DEF ToSet
    <2> QED
      BY <1>1, <2>2, <2>3
  <1>9. ToSet(s) \subseteq ToSet(c \o b)
    BY <1>6, <1>7, <1>8 DEF ToSet
  <1>10. Len(c \o b) = Len(s) + 1
    BY <1>1, <1>2, <1>3, <1>6, <1>7
  <1> QED
    BY <1>4, <1>7, <1>9, <1>10

\* The rows that a page leaves out, whatever is left of an int.
LEMMA SkippedIsNat ==
    ASSUME NEW page \in Int, NEW size \in Int PROVE Skipped(page, size) \in Nat
  <1> DEFINE m == (page - 1) * size
  <1>1. m \in Int
    OBVIOUS
  <1>2. ToInt(m) \in Int
    <2> HIDE DEF m
    <2> QED
      BY <1>1, IntAssumption DEF ToInt
  <1> QED
    BY <1>2 DEF Skipped

LEMMA PageBounds ==
    ASSUME NEW p \in Pages
    PROVE  /\ p \in Nat \ {0} /\ PageSize \in Nat
           /\ Skipped(p, PageSize) \in Nat /\ Skipped(p, PageSize) + PageSize \in Nat
  <1>1. p \in Nat \ {0} /\ PageSize \in Nat
    BY PageAssumption, IntAssumption
  <1>2. p \in Int /\ PageSize \in Int
    BY <1>1
  <1>3. Skipped(p, PageSize) \in Nat
    BY <1>2, SkippedIsNat, Zenon
  <1> QED
    BY <1>1, <1>3

\* How many of n messages are on page p.
OnPage(n, p) ==
    LET first == Skipped(p, PageSize) + 1
        end   == Skipped(p, PageSize) + PageSize
        last  == IF n < end THEN n ELSE end
    IN  IF first <= last THEN last - first + 1 ELSE 0

LEMMA PageEffect ==
    ASSUME NEW S, NEW s \in Seq(S), NEW p \in Pages
    PROVE  /\ Page(s, p) \in Seq(S)
           /\ Len(Page(s, p)) = OnPage(Len(s), p)
           /\ ToSet(Page(s, p)) \subseteq ToSet(s)
  <1> DEFINE f == Skipped(p, PageSize) + 1
             e == Skipped(p, PageSize) + PageSize
             l == IF Len(s) < e THEN Len(s) ELSE e
  <1>1. /\ Len(s) \in Nat /\ \A k \in 1 .. Len(s) : s[k] \in S
        /\ DOMAIN s = 1 .. Len(s)
    BY LenProperties, ElementOfSeq
  <1>2. Skipped(p, PageSize) \in Nat /\ e \in Nat
    BY PageBounds
  <1>3. f \in Nat /\ f >= 1 /\ l \in Nat /\ l <= Len(s)
    BY <1>1, <1>2
  <1>4. Page(s, p) = SubSeq(s, f, l)
    BY DEF Page
  <1>5. OnPage(Len(s), p) = IF f <= l THEN l - f + 1 ELSE 0
    BY DEF OnPage
  <1> HIDE DEF f, e, l
  <1>6. \A k \in f .. l : s[k] \in S
    BY <1>1, <1>3
  <1>7. /\ SubSeq(s, f, l) \in Seq(S)
        /\ Len(SubSeq(s, f, l)) = IF f <= l THEN l - f + 1 ELSE 0
        /\ \A k \in 1 .. l - f + 1 : SubSeq(s, f, l)[k] = s[f + k - 1]
    BY <1>3, <1>6, SubSeqProperties
  <1>8. ToSet(SubSeq(s, f, l)) \subseteq ToSet(s)
    <2> SUFFICES ASSUME NEW k \in DOMAIN SubSeq(s, f, l)
                 PROVE  SubSeq(s, f, l)[k] \in ToSet(s)
      BY DEF ToSet
    <2>1. k \in 1 .. Len(SubSeq(s, f, l))
      BY <1>7, LenProperties
    <2>2. k \in 1 .. l - f + 1 /\ f + k - 1 \in 1 .. Len(s)
      BY <1>1, <1>3, <1>7, <2>1
    <2> QED
      BY <1>1, <1>7, <2>2 DEF ToSet
  <1> QED
    BY <1>4, <1>5, <1>7, <1>8

\* A page of more messages holds no fewer.
LEMMA OnPageGrows ==
    ASSUME NEW p \in Pages, NEW n \in Nat, NEW m \in Nat, n <= m
    PROVE  OnPage(n, p) \in Nat /\ OnPage(n, p) <= OnPage(m, p)
  <1>1. /\ Skipped(p, PageSize) \in Nat
        /\ Skipped(p, PageSize) + PageSize \in Nat
    BY PageBounds
  <1> DEFINE f == Skipped(p, PageSize)
             l == Skipped(p, PageSize) + PageSize
  <1> HIDE DEF f, l
  <1>2. \A k : OnPage(k, p) = LET last == IF k < l THEN k ELSE l
                              IN  IF f + 1 <= last THEN last - (f + 1) + 1 ELSE 0
    BY DEF OnPage, f, l
  <1>3. f \in Nat /\ l \in Nat
    BY <1>1 DEF f, l
  <1> QED
    BY <1>2, <1>3

\* The first n of a sequence's elements.
LEMMA PrefixLen ==
    ASSUME NEW S, NEW s \in Seq(S), NEW n \in Nat, n <= Len(s)
    PROVE  SubSeq(s, 1, n) \in Seq(S) /\ Len(SubSeq(s, 1, n)) = n
  <1>1. /\ Len(s) \in Nat /\ \A k \in 1 .. Len(s) : s[k] \in S
    BY LenProperties, ElementOfSeq
  <1>2. \A k \in 1 .. n : s[k] \in S
    BY <1>1
  <1>3. /\ SubSeq(s, 1, n) \in Seq(S)
        /\ Len(SubSeq(s, 1, n)) = IF 1 <= n THEN n - 1 + 1 ELSE 0
    BY <1>2, SubSeqProperties
  <1> QED
    BY <1>3

LEMMA ReverseType ==
    ASSUME NEW S, NEW s \in Seq(S)
    PROVE  Reverse(s) \in Seq(S) /\ Len(Reverse(s)) = Len(s)
  <1>1. /\ Len(s) \in Nat /\ \A k \in 1 .. Len(s) : s[k] \in S
    BY LenProperties, ElementOfSeq
  <1>2. Reverse(s) \in [1 .. Len(s) -> S]
    BY <1>1 DEF Reverse
  <1>3. Reverse(s) \in Seq(S)
    BY <1>1, <1>2, SeqDef
  <1>4. DOMAIN Reverse(s) = 1 .. Len(s) /\ Len(Reverse(s)) \in Nat
        /\ DOMAIN Reverse(s) = 1 .. Len(Reverse(s))
    BY <1>2, <1>3, LenProperties
  <1> QED
    BY <1>1, <1>3, <1>4

-----------------------------------------------------------------------------
(* The invariants.                                                          *)

\* A call walks the path of its kind and has no result before the end.
Walks(c) ==
    /\ call[c].at \in Reading \cup Writing => call[c].kind \notin {"page", "search"}
    /\ call[c].at \in Paging => call[c].kind = "page"
    /\ call[c].at = "search" => call[c].kind = "search"
    /\ call[c].at \in {"check", "insert"} => call[c].kind # "delete"
    /\ call[c].at = "transaction" => call[c].kind = "delete"
    /\ call[c].at = "drop list" /\ call[c].kind = "delete" => ~session
    /\ call[c].kind = "page" => call[c].page \in Pages
    /\ call[c].at # "done" => result[c] = NoList

\* A call that is past its check, and one that sees the session, began
\* when there was one.
Began(c) ==
    /\ call[c].at # "idle" /\ session => began[c]
    /\ call[c].at \in Reading \cup Paging \cup Writing \cup {"search"} => began[c]
    /\ result[c] # NoList => began[c]

CallInv == CoreType /\ \A c \in Calls : Walks(c) /\ Began(c)

\* Page p of these items and this total, of the rows s: it is no shorter than
\* its total says, and holds rows.
HoldsIn(s, p, items, total) ==
    /\ total <= Len(s)
    /\ OnPage(total, p) <= Len(items)
    /\ ToSet(items) \subseteq ToSet(s)

HoldsIts(p, items, total) == HoldsIn(rows, p, items, total)

\* Pages in the cache, in the hands of a call, and returned.
CachedHolds == \A p \in Pages : pages[p] # NoList => HoldsIts(p, pages[p].items, pages[p].total)

CallHolds(c) ==
    /\ call[c].at = "query page" => call[c].total <= Len(rows)
    /\ call[c].at = "set page" => HoldsIts(call[c].page, call[c].items, call[c].total)
    /\ call[c].kind = "page" /\ result[c] # NoList =>
           HoldsIts(call[c].page, result[c].items, result[c].total)

PageInv == session => CachedHolds /\ \A c \in Calls : CallHolds(c)

\* No two calls have overlapped and no Redis command has failed.
Undisturbed == alone /\ errors = 0

PageOf(p) == [items |-> Page(rows, p), total |-> Len(rows)]

OneInFlight == \A c, d \in InFlight : c = d

\* What the caches hold is what is stored, but for a writer that is still to
\* drop it.
CacheIsStored ==
    /\ list \in {NoList, rows} \/ \E c \in Calls : call[c].at = "drop list"
    /\ session =>
           \/ \A p \in Pages : pages[p] \in {NoList, PageOf(p)}
           \/ \E c \in Calls : call[c].at \in {"drop list", "scan"}

\* What a call has read is what is stored.
ReadIsStored(c) ==
    /\ call[c].at \in Reading \cup Paging \cup {"insert", "scan", "search"} => session
    /\ call[c].at = "drop list" /\ call[c].kind # "delete" => session
    /\ call[c].at = "set" => call[c].items = rows
    /\ call[c].at \in {"query page", "set page"} => call[c].total = Len(rows)
    /\ call[c].at = "set page" => call[c].items = Page(rows, call[c].page)

AloneInv ==
    /\ alone => OneInFlight
    /\ Undisturbed => CacheIsStored /\ \A c \in Calls : ReadIsStored(c)

-----------------------------------------------------------------------------
(* What each step does, call by call.                                       *)

\* What no step of c touches.
OthersStay(c) ==
    /\ \A d \in Calls \ {c} : call'[d] = call[d] /\ result'[d] = result[d]
    /\ call'[c].kind = call[c].kind /\ call'[c].page = call[c].page
    /\ began' = began /\ alone' = alone

\* c goes on with what it has read, and returns nothing.
Carries(c) ==
    /\ call'[c].items = call[c].items /\ call'[c].total = call[c].total
    /\ result'[c] = result[c]

LEMMA NothingType == Nothing \in CallState
  <1>1. "idle" \in Stages /\ <<>> \in Seq(Calls) /\ 0 \in Nat
        /\ "none" \in Kinds \cup {"none"}
    BY DEF Kinds, Stages
  <1> QED
    BY <1>1, Zenon DEF Nothing, CallState

LEMMA InitType == Init => CoreType
  BY NothingType DEF Init, CoreType, CallState

LEMMA CallUpdate ==
    ASSUME NEW c \in Calls, NEW r \in CallState, call \in [Calls -> CallState],
           call' = [call EXCEPT ![c] = r]
    PROVE  /\ call' \in [Calls -> CallState] /\ call'[c] = r
           /\ \A d \in Calls \ {c} : call'[d] = call[d]
  OBVIOUS

LEMMA ResultUpdate ==
    ASSUME NEW c \in Calls, NEW r \in PageValue \cup {NoList},
           result \in [Calls -> PageValue \cup {NoList}],
           result' = [result EXCEPT ![c] = r]
    PROVE  /\ result' \in [Calls -> PageValue \cup {NoList}] /\ result'[c] = r
           /\ \A d \in Calls \ {c} : result'[d] = result[d]
  OBVIOUS

LEMMA GotoEffect ==
    ASSUME NEW c \in Calls, NEW x, NEW y, Goto(c, x, y), y \in Stages,
           call \in [Calls -> CallState]
    PROVE  /\ call' \in [Calls -> CallState]
           /\ call[c].at = x /\ call'[c].at = y
           /\ call'[c].kind = call[c].kind /\ call'[c].page = call[c].page
           /\ call'[c].items = call[c].items /\ call'[c].total = call[c].total
           /\ \A d \in Calls \ {c} : call'[d] = call[d]
  <1> DEFINE r == [call[c] EXCEPT !.at = y]
  <1>1. r \in CallState /\ r.at = y /\ r.kind = call[c].kind /\ r.page = call[c].page
        /\ r.items = call[c].items /\ r.total = call[c].total
    BY DEF CallState
  <1>2. call' = [call EXCEPT ![c] = r] /\ call[c].at = x
    BY DEF Goto
  <1> HIDE DEF r
  <1>3. call' \in [Calls -> CallState] /\ call'[c] = r /\ \A d \in Calls \ {c} : call'[d] = call[d]
    BY <1>1, <1>2, CallUpdate
  <1> QED
    BY <1>1, <1>2, <1>3

LEMMA ReturnEffect ==
    ASSUME NEW c \in Calls, NEW v \in PageValue, Return(c, v), CoreType
    PROVE  /\ call' \in [Calls -> CallState]
           /\ result' \in [Calls -> PageValue \cup {NoList}]
           /\ call'[c].at = "done" /\ result'[c] = v
           /\ call'[c].kind = call[c].kind /\ call'[c].page = call[c].page
           /\ \A d \in Calls \ {c} : call'[d] = call[d] /\ result'[d] = result[d]
  <1>0. call \in [Calls -> CallState] /\ result \in [Calls -> PageValue \cup {NoList}]
    BY DEF CoreType, CallState
  <1>1. Goto(c, call[c].at, "done") /\ "done" \in Stages
    BY DEF Return, Goto, Stages
  <1>2. result' = [result EXCEPT ![c] = v]
    BY DEF Return
  <1>3. /\ result' \in [Calls -> PageValue \cup {NoList}] /\ result'[c] = v
        /\ \A d \in Calls \ {c} : result'[d] = result[d]
    BY <1>0, <1>2, ResultUpdate
  <1>4. /\ call' \in [Calls -> CallState] /\ call'[c].at = "done"
        /\ call'[c].kind = call[c].kind /\ call'[c].page = call[c].page
        /\ \A d \in Calls \ {c} : call'[d] = call[d]
    BY <1>0, <1>1, GotoEffect
  <1> QED
    BY <1>3, <1>4

LEMMA WholeType ==
    ASSUME NEW s \in Seq(Calls)
    PROVE  Whole(s) \in PageValue /\ Whole(s).items = s /\ Whole(s).total = Len(s)
  BY LenProperties DEF Whole, PageValue

LEMMA CallFields ==
    ASSUME CoreType, NEW c \in Calls
    PROVE  /\ call[c].kind \in Kinds \cup {"none"} /\ call[c].at \in Stages
           /\ call[c].page \in Nat /\ call[c].items \in Seq(Calls)
           /\ call[c].total \in Nat /\ call[c] \in CallState
           /\ call \in [Calls -> CallState]
           /\ result[c] \in PageValue \cup {NoList} /\ began[c] \in BOOLEAN
  BY DEF CoreType, CallState

LEMMA BeginEffect ==
    ASSUME CoreType, NEW c \in Calls, Begin(c)
    PROVE  /\ CoreType'
           /\ call[c].at = "idle" /\ call'[c].at \in {"check", "transaction"}
           /\ call'[c].at = "check" <=> call'[c].kind # "delete"
           /\ call'[c].kind = "page" => call'[c].page \in Pages
           /\ \A d \in Calls \ {c} : call'[d] = call[d] /\ began'[d] = began[d]
           /\ began'[c] = session
           /\ alone' => alone /\ InFlight = {}
           /\ UNCHANGED <<db, redis, result, errors>>
  <1>1. PICK k \in Kinds, p \in Pages \cup {0} :
            /\ k = "page" <=> p # 0
            /\ call' = [call EXCEPT ![c] = [Nothing EXCEPT !.kind = k, !.page = p,
                           !.at = IF k = "delete" THEN "transaction" ELSE "check"]]
    BY DEF Begin
  <1> DEFINE r == [Nothing EXCEPT !.kind = k, !.page = p,
                           !.at = IF k = "delete" THEN "transaction" ELSE "check"]
  <1>2. /\ k \in Kinds \cup {"none"} /\ p \in Nat /\ <<>> \in Seq(Calls) /\ 0 \in Nat
        /\ (IF k = "delete" THEN "transaction" ELSE "check") \in Stages
    BY PageBounds DEF Stages
  <1>3. Nothing \in CallState
    BY NothingType
  <1> DEFINE a == IF k = "delete" THEN "transaction" ELSE "check"
  <1>4. a \in Stages
    BY <1>2
  <1> HIDE DEF a
  <1>5. /\ r \in CallState
        /\ r.kind = k /\ r.page = p /\ r.at = a
    BY <1>2, <1>3, <1>4 DEF CallState, a
  <1> HIDE DEF r
  <1>6. call \in [Calls -> CallState]
    BY DEF CoreType, CallState
  <1>7. call' \in [Calls -> CallState] /\ call'[c] = r /\ \A d \in Calls \ {c} : call'[d] = call[d]
    BY <1>1, <1>5, <1>6, CallUpdate DEF r
  <1>8. /\ began' = [began EXCEPT ![c] = session] /\ alone' = (alone /\ InFlight = {})
        /\ call[c].at = "idle" /\ UNCHANGED <<db, redis, result, errors>>
    BY DEF Begin
  <1>9. /\ began' \in [Calls -> BOOLEAN] /\ began'[c] = session
        /\ \A d \in Calls \ {c} : began'[d] = began[d]
    BY <1>8 DEF CoreType
  <1>10. alone' \in BOOLEAN /\ (alone' => alone /\ InFlight = {})
    BY <1>8 DEF CoreType
  <1>11. CoreType'
    BY <1>7, <1>8, <1>9, <1>10 DEF CoreType, CallState, db, redis
  <1>12. /\ call'[c].at \in {"check", "transaction"}
         /\ call'[c].at = "check" <=> call'[c].kind # "delete"
         /\ call'[c].kind = "page" => call'[c].page \in Pages
    BY <1>1, <1>5, <1>7 DEF a
  <1> QED
    BY <1>7, <1>8, <1>9, <1>10, <1>11, <1>12

LEMMA CheckEffect ==
    ASSUME CoreType, NEW c \in Calls, Check(c)
    PROVE  /\ CoreType' /\ OthersStay(c) /\ Carries(c)
           /\ call[c].at = "check"
           /\ \/ ~session /\ call'[c].at = "done"
              \/ session /\ call'[c].at = AfterCheck(call[c].kind)
           /\ UNCHANGED <<db, redis, errors>>
  <1>1. UNCHANGED <<db, redis, result, past, errors>>
    BY DEF Check
  <1>2. call \in [Calls -> CallState] /\ call[c] \in CallState
    BY DEF CoreType, CallState
  <1>3. "done" \in Stages /\ AfterCheck(call[c].kind) \in Stages
    BY DEF AfterCheck, Stages, Reading, Paging, Writing
  <1>4. CASE ~session /\ Goto(c, "check", "done")
    <2>1. /\ call' \in [Calls -> CallState]
          /\ call[c].at = "check" /\ call'[c].at = "done"
          /\ call'[c].kind = call[c].kind /\ call'[c].page = call[c].page
          /\ call'[c].items = call[c].items /\ call'[c].total = call[c].total
          /\ \A d \in Calls \ {c} : call'[d] = call[d]
      BY <1>2, <1>3, <1>4, GotoEffect
    <2> QED
      BY <1>1, <1>4, <2>1 DEF CoreType, CallState, db, redis, past, OthersStay, Carries
  <1>5. CASE /\ session /\ call[c].at = "check"
             /\ call' = [call EXCEPT ![c].at = AfterCheck(call[c].kind),
                                     ![c].after = IF AfterCheck(call[c].kind) = "insert"
                                                  THEN Len(rows) ELSE 0]
    <2> DEFINE n == IF AfterCheck(call[c].kind) = "insert" THEN Len(rows) ELSE 0
               a == AfterCheck(call[c].kind)
               r == [call[c] EXCEPT !.at = a, !.after = n]
    <2>1. n \in Nat
      BY LenProperties DEF CoreType
    <2>2. a \in Stages
      BY <1>3
    <2>3. call' = [call EXCEPT ![c] = r]
      BY <1>5
    <2> HIDE DEF n, a
    <2>4. /\ r \in CallState /\ r.at = a /\ r.kind = call[c].kind /\ r.page = call[c].page
          /\ r.items = call[c].items /\ r.total = call[c].total
      BY <1>2, <2>1, <2>2 DEF CallState
    <2> HIDE DEF r
    <2>5. call' \in [Calls -> CallState] /\ call'[c] = r
          /\ \A d \in Calls \ {c} : call'[d] = call[d]
      BY <1>2, <2>3, <2>4, CallUpdate
    <2> QED
      BY <1>1, <1>5, <2>4, <2>5 DEF CoreType, CallState, db, redis, past, OthersStay, Carries, a
  <1> QED
    BY <1>4, <1>5 DEF Check

\* A Redis command that fails is counted.
LEMMA RedisEffect ==
    ASSUME CoreType
    PROVE  /\ RedisWorks => errors' = errors /\ errors' \in Nat
           /\ RedisFails => errors' # 0 /\ errors' \in Nat
  BY DEF CoreType, RedisWorks, RedisFails

LEMMA InsertStep ==
    ASSUME CoreType, NEW c \in Calls, Insert(c)
    PROVE  /\ CoreType' /\ OthersStay(c) /\ Carries(c)
           /\ call[c].at = "insert" /\ call'[c].at = "drop list"
           /\ Len(rows') = Len(rows) + 1 /\ ToSet(rows) \subseteq ToSet(rows')
           /\ UNCHANGED <<session, redis, errors>>
  <1>1. /\ call[c].at = "insert" /\ UNCHANGED <<session, redis, result, past, errors>>
        /\ call' = [call EXCEPT ![c].at = "drop list", ![c].after = 0]
    BY DEF Insert
  <1>2. call \in [Calls -> CallState] /\ call[c] \in CallState /\ rows \in Seq(Calls)
    BY DEF CoreType, CallState
  <1> DEFINE r == [call[c] EXCEPT !.at = "drop list", !.after = 0]
  <1>3. /\ r \in CallState /\ r.at = "drop list" /\ r.kind = call[c].kind
        /\ r.page = call[c].page /\ r.items = call[c].items /\ r.total = call[c].total
    <2>1. "drop list" \in Stages
      BY DEF Stages, Writing
    <2> QED
      BY <1>2, <2>1 DEF CallState
  <1>4. call' = [call EXCEPT ![c] = r]
    BY <1>1
  <1> HIDE DEF r
  <1>5. call' \in [Calls -> CallState] /\ call'[c] = r
        /\ \A d \in Calls \ {c} : call'[d] = call[d]
    BY <1>2, <1>3, <1>4, CallUpdate
  <1>6. /\ rows' \in Seq(Calls)
        /\ Len(rows') = Len(rows) + 1 /\ ToSet(rows) \subseteq ToSet(rows')
    <2>1. PICK i \in 0 .. Len(rows) : rows' = InsertAt(rows, i + 1, c)
      BY DEF Insert
    <2> QED
      BY <1>2, <2>1, InsertEffect
  <1> QED
    BY <1>1, <1>3, <1>5, <1>6 DEF CoreType, CallState, redis, past, OthersStay, Carries

LEMMA InsertFailsStep ==
    ASSUME CoreType, NEW c \in Calls, InsertFails(c)
    PROVE  /\ CoreType' /\ OthersStay(c) /\ Carries(c)
           /\ call[c].at = "insert" /\ call'[c].at = "done"
           /\ UNCHANGED <<db, redis, errors>>
  <1>1. Goto(c, "insert", "done") /\ UNCHANGED <<db, redis, result, past, errors>>
    BY DEF InsertFails
  <1>2. call \in [Calls -> CallState] /\ "done" \in Stages
    BY DEF CoreType, CallState, Stages
  <1>3. /\ call' \in [Calls -> CallState]
        /\ call[c].at = "insert" /\ call'[c].at = "done"
        /\ call'[c].kind = call[c].kind /\ call'[c].page = call[c].page
        /\ call'[c].items = call[c].items /\ call'[c].total = call[c].total
        /\ \A d \in Calls \ {c} : call'[d] = call[d]
    BY <1>1, <1>2, GotoEffect
  <1> QED
    BY <1>1, <1>3 DEF CoreType, CallState, db, redis, past, OthersStay, Carries

LEMMA DropListStep ==
    ASSUME CoreType, NEW c \in Calls, DropList(c)
    PROVE  /\ CoreType' /\ OthersStay(c) /\ Carries(c)
           /\ call[c].at = "drop list"
           /\ \/ call[c].kind = "delete" /\ call'[c].at = "done"
              \/ call[c].kind # "delete" /\ call'[c].at = "scan"
           /\ UNCHANGED <<db, pages>>
           /\ errors' = 0 => errors = 0 /\ list' = NoList
  <1> DEFINE a == IF call[c].kind = "delete" THEN "done" ELSE "scan"
  <1>1. Goto(c, "drop list", a) /\ UNCHANGED <<db, pages, result, past>>
    BY DEF DropList
  <1>2. call \in [Calls -> CallState] /\ a \in Stages
    BY DEF CoreType, CallState, Stages, Writing
  <1>3. \/ call[c].kind = "delete" /\ a = "done"
        \/ call[c].kind # "delete" /\ a = "scan"
    OBVIOUS
  <1> HIDE DEF a
  <1>4. /\ call' \in [Calls -> CallState]
        /\ call[c].at = "drop list" /\ call'[c].at = a
        /\ call'[c].kind = call[c].kind /\ call'[c].page = call[c].page
        /\ call'[c].items = call[c].items /\ call'[c].total = call[c].total
        /\ \A d \in Calls \ {c} : call'[d] = call[d]
    BY <1>1, <1>2, GotoEffect
  <1>5. /\ list' \in {NoList, list} /\ errors' \in Nat
        /\ errors' = 0 => errors = 0 /\ list' = NoList
    BY RedisEffect DEF DropList
  <1>6. CoreType'
    BY <1>1, <1>4, <1>5 DEF CoreType, CallState, db, past
  <1> QED
    BY <1>1, <1>3, <1>4, <1>5, <1>6 DEF past, OthersStay, Carries

LEMMA DropPagesStep ==
    ASSUME CoreType, NEW c \in Calls, DropPages(c)
    PROVE  /\ CoreType' /\ OthersStay(c) /\ Carries(c)
           /\ call[c].at = "scan" /\ call'[c].at \in {"list check", "done"}
           /\ UNCHANGED <<db, list>>
           /\ \A p \in Pages : pages'[p] \in {NoList, pages[p]}
           /\ errors' = 0 => errors = 0 /\ \A p \in Pages : pages'[p] = NoList
  <1> DEFINE a == AfterScan(call[c].kind)
  <1>1. Goto(c, "scan", a) /\ UNCHANGED <<db, list, result, past>>
    BY DEF DropPages
  <1>2. call \in [Calls -> CallState] /\ a \in Stages /\ a \in {"list check", "done"}
    BY DEF CoreType, CallState, Stages, Writing, AfterScan
  <1> HIDE DEF a
  <1>4. /\ call' \in [Calls -> CallState]
        /\ call[c].at = "scan" /\ call'[c].at = a
        /\ call'[c].kind = call[c].kind /\ call'[c].page = call[c].page
        /\ call'[c].items = call[c].items /\ call'[c].total = call[c].total
        /\ \A d \in Calls \ {c} : call'[d] = call[d]
    BY <1>1, <1>2, GotoEffect
  <1>5. /\ pages' \in [Pages -> PageValue \cup {NoList}]
        /\ \A p \in Pages : pages'[p] \in {NoList, pages[p]}
        /\ errors' \in Nat
        /\ errors' = 0 => errors = 0 /\ \A p \in Pages : pages'[p] = NoList
    <2>1. CASE pages' = [p \in Pages |-> NoList] /\ RedisWorks
      BY <2>1, RedisEffect
    <2>2. CASE /\ \E left \in SUBSET Pages :
                      pages' = [p \in Pages |-> IF p \in left THEN pages[p] ELSE NoList]
               /\ RedisFails
      <3>1. PICK left \in SUBSET Pages :
                pages' = [p \in Pages |-> IF p \in left THEN pages[p] ELSE NoList]
        BY <2>2
      <3>2. \A p \in Pages : pages[p] \in PageValue \cup {NoList}
        BY DEF CoreType
      <3>3. \A p \in Pages : pages'[p] \in {NoList, pages[p]}
        BY <3>1
      <3>4. pages' \in [Pages -> PageValue \cup {NoList}]
        BY <3>1, <3>2
      <3> QED
        BY <2>2, <3>3, <3>4, RedisEffect
    <2> QED
      BY <2>1, <2>2 DEF DropPages
  <1>6. CoreType'
    BY <1>1, <1>4, <1>5 DEF CoreType, CallState, db, past
  <1> QED
    BY <1>1, <1>2, <1>4, <1>5, <1>6 DEF past, OthersStay, Carries

LEMMA ListCheckStep ==
    ASSUME CoreType, NEW c \in Calls, ListCheck(c)
    PROVE  /\ CoreType' /\ OthersStay(c) /\ Carries(c)
           /\ call[c].at = "list check"
           /\ \/ session /\ call'[c].at = "get"
              \/ call'[c].at = "done"
           /\ UNCHANGED <<db, redis, errors>>
  <1> DEFINE a == IF session THEN "get" ELSE "done"
  <1>1. Goto(c, "list check", a) /\ UNCHANGED <<db, redis, result, past, errors>>
    BY DEF ListCheck
  <1>2. call \in [Calls -> CallState] /\ a \in Stages
    BY DEF CoreType, CallState, Stages, Reading
  <1>3. \/ session /\ a = "get"
        \/ a = "done"
    OBVIOUS
  <1> HIDE DEF a
  <1>4. /\ call' \in [Calls -> CallState]
        /\ call[c].at = "list check" /\ call'[c].at = a
        /\ call'[c].kind = call[c].kind /\ call'[c].page = call[c].page
        /\ call'[c].items = call[c].items /\ call'[c].total = call[c].total
        /\ \A d \in Calls \ {c} : call'[d] = call[d]
    BY <1>1, <1>2, GotoEffect
  <1>5. CoreType'
    BY <1>1, <1>4 DEF CoreType, CallState, db, redis, past
  <1> QED
    BY <1>1, <1>3, <1>4, <1>5 DEF past, OthersStay, Carries

\* What c returns is a value.
Returned(c, v) == call'[c].at = "done" /\ result'[c] = v

LEMMA GetStep ==
    ASSUME CoreType, NEW c \in Calls, Get(c)
    PROVE  /\ CoreType' /\ OthersStay(c) /\ call[c].at = "get"
           /\ \/ list # NoList /\ Returned(c, Whole(list)) /\ errors' = errors
              \/ call'[c].at = "query" /\ Carries(c)
           /\ UNCHANGED <<db, redis>>
           /\ errors' = 0 => errors = 0
  <1>1. UNCHANGED <<db, redis, past>>
    BY DEF Get
  <1>2. call \in [Calls -> CallState] /\ "query" \in Stages
    BY DEF CoreType, CallState, Stages, Reading
  <1>3. CASE /\ call[c].at = "get" /\ list # NoList
             /\ Return(c, Whole(list))
             /\ RedisWorks
    <2>1. list \in Seq(Calls) /\ Whole(list) \in PageValue
      BY <1>3, WholeType DEF CoreType
    <2>2. /\ call' \in [Calls -> CallState]
          /\ result' \in [Calls -> PageValue \cup {NoList}]
          /\ call'[c].at = "done" /\ result'[c] = Whole(list)
          /\ call'[c].kind = call[c].kind /\ call'[c].page = call[c].page
          /\ \A d \in Calls \ {c} : call'[d] = call[d] /\ result'[d] = result[d]
      BY <1>3, <2>1, ReturnEffect
    <2>3. errors' = errors
      BY <1>3, RedisEffect
    <2>4. CoreType'
      BY <1>1, <2>2, <2>3 DEF CoreType, CallState, db, redis, past
    <2> QED
      BY <1>1, <1>3, <2>2, <2>3, <2>4 DEF past, OthersStay, Returned
  <1>4. CASE /\ Goto(c, "get", "query")
             /\ \/ list = NoList /\ RedisWorks
                \/ RedisFails
             /\ UNCHANGED result
    <2>1. /\ call' \in [Calls -> CallState]
          /\ call[c].at = "get" /\ call'[c].at = "query"
          /\ call'[c].kind = call[c].kind /\ call'[c].page = call[c].page
          /\ call'[c].items = call[c].items /\ call'[c].total = call[c].total
          /\ \A d \in Calls \ {c} : call'[d] = call[d]
      BY <1>2, <1>4, GotoEffect
    <2>2. errors' \in Nat /\ (errors' = 0 => errors = 0)
      BY <1>4, RedisEffect
    <2>3. CoreType'
      BY <1>1, <1>4, <2>1, <2>2 DEF CoreType, CallState, db, redis, past
    <2> QED
      BY <1>1, <1>4, <2>1, <2>2, <2>3 DEF past, OthersStay, Carries
  <1> QED
    BY <1>3, <1>4 DEF Get

LEMMA QueryStep ==
    ASSUME CoreType, NEW c \in Calls, Query(c)
    PROVE  /\ CoreType' /\ OthersStay(c) /\ call[c].at = "query" /\ call'[c].at = "set"
           /\ call'[c].items = rows /\ result'[c] = result[c]
           /\ UNCHANGED <<db, redis, errors>>
  <1>1. /\ call[c].at = "query" /\ UNCHANGED <<db, redis, result, past, errors>>
        /\ call' = [call EXCEPT ![c].at = "set", ![c].items = rows]
    BY DEF Query
  <1>2. call \in [Calls -> CallState] /\ call[c] \in CallState /\ rows \in Seq(Calls)
        /\ "set" \in Stages
    BY DEF CoreType, CallState, Stages, Reading
  <1> DEFINE r == [call[c] EXCEPT !.at = "set", !.items = rows]
  <1>3. /\ r \in CallState /\ r.at = "set" /\ r.kind = call[c].kind
        /\ r.page = call[c].page /\ r.items = rows
    BY <1>2 DEF CallState
  <1>4. call' = [call EXCEPT ![c] = r]
    BY <1>1
  <1> HIDE DEF r
  <1>5. call' \in [Calls -> CallState] /\ call'[c] = r
        /\ \A d \in Calls \ {c} : call'[d] = call[d]
    BY <1>2, <1>3, <1>4, CallUpdate
  <1> QED
    BY <1>1, <1>3, <1>5 DEF CoreType, CallState, db, redis, past, OthersStay

LEMMA SetStep ==
    ASSUME CoreType, NEW c \in Calls, Set(c)
    PROVE  /\ CoreType' /\ OthersStay(c) /\ call[c].at = "set"
           /\ Returned(c, Whole(call[c].items))
           /\ UNCHANGED <<db, pages>>
           /\ list' \in {list, call[c].items}
           /\ errors' = 0 => errors = 0
  <1>1. /\ call[c].at = "set" /\ UNCHANGED <<db, pages, past>>
        /\ Return(c, Whole(call[c].items))
    BY DEF Set
  <1>2. call[c].items \in Seq(Calls) /\ Whole(call[c].items) \in PageValue
    BY CallFields, WholeType
  <1>3. /\ call' \in [Calls -> CallState]
        /\ result' \in [Calls -> PageValue \cup {NoList}]
        /\ call'[c].at = "done" /\ result'[c] = Whole(call[c].items)
        /\ call'[c].kind = call[c].kind /\ call'[c].page = call[c].page
        /\ \A d \in Calls \ {c} : call'[d] = call[d] /\ result'[d] = result[d]
    BY <1>1, <1>2, ReturnEffect
  <1>4. /\ list' \in {list, call[c].items} /\ errors' \in Nat
        /\ errors' = 0 => errors = 0
    BY RedisEffect DEF Set
  <1>5. CoreType'
    BY <1>1, <1>2, <1>3, <1>4 DEF CoreType, CallState, db, past
  <1> QED
    BY <1>1, <1>3, <1>4, <1>5 DEF past, OthersStay, Returned

LEMMA GetPageStep ==
    ASSUME CoreType, NEW c \in Calls, Walks(c), GetPage(c)
    PROVE  /\ CoreType' /\ OthersStay(c) /\ call[c].at = "get page"
           /\ \/ /\ pages[call[c].page] # NoList /\ errors' = errors
                 /\ Returned(c, pages[call[c].page])
              \/ call'[c].at = "count" /\ Carries(c)
           /\ UNCHANGED <<db, redis>>
           /\ errors' = 0 => errors = 0
  <1> DEFINE v == pages[call[c].page]
  <1>1. UNCHANGED <<db, redis, past>> /\ call[c].at = "get page"
    BY DEF GetPage, Goto
  <1>2. call \in [Calls -> CallState] /\ "count" \in Stages
    BY DEF CoreType, CallState, Stages, Paging
  <1>3. CASE /\ call[c].at = "get page" /\ v # NoList
             /\ Return(c, v)
             /\ RedisWorks
    <2>1. v \in PageValue
      BY <1>1, <1>3 DEF CoreType, Walks, Paging
    <2>2. /\ call' \in [Calls -> CallState]
          /\ result' \in [Calls -> PageValue \cup {NoList}]
          /\ call'[c].at = "done" /\ result'[c] = v
          /\ call'[c].kind = call[c].kind /\ call'[c].page = call[c].page
          /\ \A d \in Calls \ {c} : call'[d] = call[d] /\ result'[d] = result[d]
      BY <1>3, <2>1, ReturnEffect
    <2>3. errors' = errors
      BY <1>3, RedisEffect
    <2>4. CoreType'
      BY <1>1, <2>2, <2>3 DEF CoreType, CallState, db, redis, past
    <2> QED
      BY <1>1, <1>3, <2>2, <2>3, <2>4 DEF past, OthersStay, Returned
  <1>4. CASE /\ Goto(c, "get page", "count")
             /\ \/ v = NoList /\ RedisWorks
                \/ RedisFails
             /\ UNCHANGED result
    <2>1. /\ call' \in [Calls -> CallState]
          /\ call[c].at = "get page" /\ call'[c].at = "count"
          /\ call'[c].kind = call[c].kind /\ call'[c].page = call[c].page
          /\ call'[c].items = call[c].items /\ call'[c].total = call[c].total
          /\ \A d \in Calls \ {c} : call'[d] = call[d]
      BY <1>2, <1>4, GotoEffect
    <2>2. errors' \in Nat /\ (errors' = 0 => errors = 0)
      BY <1>4, RedisEffect
    <2>3. CoreType'
      BY <1>1, <1>4, <2>1, <2>2 DEF CoreType, CallState, db, redis, past
    <2> QED
      BY <1>1, <1>4, <2>1, <2>2, <2>3 DEF past, OthersStay, Carries
  <1> QED
    BY <1>3, <1>4 DEF GetPage

LEMMA CountStep ==
    ASSUME CoreType, NEW c \in Calls, Count(c)
    PROVE  /\ CoreType' /\ OthersStay(c)
           /\ call[c].at = "count" /\ call'[c].at = "query page"
           /\ call'[c].total = Len(rows) /\ result'[c] = result[c]
           /\ UNCHANGED <<db, redis, errors>>
  <1>1. /\ call[c].at = "count" /\ UNCHANGED <<db, redis, result, past, errors>>
        /\ call' = [call EXCEPT ![c].at = "query page", ![c].total = Len(rows)]
    BY DEF Count
  <1>2. call \in [Calls -> CallState] /\ call[c] \in CallState /\ Len(rows) \in Nat
        /\ "query page" \in Stages
    BY LenProperties DEF CoreType, CallState, Stages, Paging
  <1> DEFINE r == [call[c] EXCEPT !.at = "query page", !.total = Len(rows)]
  <1>3. /\ r \in CallState /\ r.at = "query page" /\ r.kind = call[c].kind
        /\ r.page = call[c].page /\ r.total = Len(rows)
    BY <1>2 DEF CallState
  <1>4. call' = [call EXCEPT ![c] = r]
    BY <1>1
  <1> HIDE DEF r
  <1>5. call' \in [Calls -> CallState] /\ call'[c] = r
        /\ \A d \in Calls \ {c} : call'[d] = call[d]
    BY <1>2, <1>3, <1>4, CallUpdate
  <1> QED
    BY <1>1, <1>3, <1>5 DEF CoreType, CallState, db, redis, past, OthersStay

LEMMA QueryPageStep ==
    ASSUME CoreType, NEW c \in Calls, Walks(c), QueryPage(c)
    PROVE  /\ CoreType' /\ OthersStay(c)
           /\ call[c].at = "query page" /\ call'[c].at = "set page"
           /\ call'[c].items = Page(rows, call[c].page) /\ call'[c].total = call[c].total
           /\ result'[c] = result[c]
           /\ UNCHANGED <<db, redis, errors>>
  <1> DEFINE s == Page(rows, call[c].page)
             r == [call[c] EXCEPT !.at = "set page", !.items = s]
  <1>1. /\ call[c].at = "query page" /\ UNCHANGED <<db, redis, result, past, errors>>
        /\ call' = [call EXCEPT ![c].at = "set page", ![c].items = s]
    BY DEF QueryPage
  <1>2. call \in [Calls -> CallState] /\ call[c] \in CallState /\ rows \in Seq(Calls)
        /\ "set page" \in Stages
    BY DEF CoreType, CallState, Stages, Paging
  <1>3. s \in Seq(Calls)
    BY <1>1, <1>2, PageEffect DEF Walks, Paging
  <1> HIDE DEF s
  <1>4. /\ r \in CallState /\ r.at = "set page" /\ r.kind = call[c].kind
        /\ r.page = call[c].page /\ r.items = s /\ r.total = call[c].total
    BY <1>2, <1>3 DEF CallState
  <1>5. call' = [call EXCEPT ![c] = r]
    BY <1>1
  <1> HIDE DEF r
  <1>6. call' \in [Calls -> CallState] /\ call'[c] = r
        /\ \A d \in Calls \ {c} : call'[d] = call[d]
    BY <1>2, <1>4, <1>5, CallUpdate
  <1>7. CoreType' /\ OthersStay(c)
    BY <1>1, <1>4, <1>6 DEF CoreType, CallState, db, redis, past, OthersStay
  <1> QED
    BY <1>1, <1>4, <1>6, <1>7 DEF s

LEMMA SetPageStep ==
    ASSUME CoreType, NEW c \in Calls, Walks(c), SetPage(c)
    PROVE  /\ CoreType' /\ OthersStay(c) /\ call[c].at = "set page"
           /\ Returned(c, [items |-> call[c].items, total |-> call[c].total])
           /\ UNCHANGED <<db, list>>
           /\ \A p \in Pages : \/ pages'[p] = pages[p]
                               \/ /\ p = call[c].page
                                  /\ pages'[p] = [items |-> call[c].items,
                                                  total |-> call[c].total]
           /\ errors' = 0 => errors = 0
  <1> DEFINE v == [items |-> call[c].items, total |-> call[c].total]
  <1>1. /\ call[c].at = "set page" /\ UNCHANGED <<db, list, past>>
        /\ Return(c, v)
    BY DEF SetPage
  <1>2. v \in PageValue /\ call[c].page \in Pages
    BY <1>1, CallFields DEF PageValue, Walks, Paging
  <1>3. pages' = [pages EXCEPT ![call[c].page] = v] \/ pages' = pages
    BY DEF SetPage
  <1> HIDE DEF v
  <1>4. /\ call' \in [Calls -> CallState]
        /\ result' \in [Calls -> PageValue \cup {NoList}]
        /\ call'[c].at = "done" /\ result'[c] = v
        /\ call'[c].kind = call[c].kind /\ call'[c].page = call[c].page
        /\ \A d \in Calls \ {c} : call'[d] = call[d] /\ result'[d] = result[d]
    BY <1>1, <1>2, ReturnEffect
  <1>5. /\ pages' \in [Pages -> PageValue \cup {NoList}]
        /\ \A p \in Pages : pages'[p] = pages[p] \/ (p = call[c].page /\ pages'[p] = v)
    BY <1>2, <1>3 DEF CoreType
  <1>6. errors' \in Nat /\ (errors' = 0 => errors = 0)
    BY RedisEffect DEF SetPage
  <1>7. CoreType' /\ OthersStay(c)
    BY <1>1, <1>4, <1>5, <1>6 DEF CoreType, CallState, db, past, OthersStay
  <1> QED
    BY <1>1, <1>4, <1>5, <1>6, <1>7 DEF v, Returned

LEMMA SearchStep ==
    ASSUME CoreType, NEW c \in Calls, Search(c)
    PROVE  /\ CoreType' /\ OthersStay(c) /\ call[c].at = "search"
           /\ Returned(c, Whole(Reverse(rows)))
           /\ UNCHANGED <<db, redis, errors>>
  <1>1. /\ call[c].at = "search" /\ UNCHANGED <<db, redis, past, errors>>
        /\ Return(c, Whole(Reverse(rows)))
    BY DEF Search
  <1>2. Whole(Reverse(rows)) \in PageValue
    BY ReverseType, WholeType DEF CoreType
  <1>3. /\ call' \in [Calls -> CallState]
        /\ result' \in [Calls -> PageValue \cup {NoList}]
        /\ call'[c].at = "done" /\ result'[c] = Whole(Reverse(rows))
        /\ call'[c].kind = call[c].kind /\ call'[c].page = call[c].page
        /\ \A d \in Calls \ {c} : call'[d] = call[d] /\ result'[d] = result[d]
    BY <1>1, <1>2, ReturnEffect
  <1> QED
    BY <1>1, <1>3 DEF CoreType, CallState, db, redis, past, OthersStay, Returned

LEMMA DeleteStep ==
    ASSUME CoreType, NEW c \in Calls, Delete(c)
    PROVE  /\ CoreType' /\ OthersStay(c) /\ Carries(c)
           /\ call[c].at = "transaction"
           /\ \/ session /\ ~session' /\ call'[c].at = "drop list"
              \/ UNCHANGED db /\ call'[c].at = "done"
           /\ UNCHANGED <<redis, errors>>
  <1>1. UNCHANGED <<redis, result, past, errors>>
    BY DEF Delete
  <1>0. <<>> \in Seq(Calls)
    OBVIOUS
  <1>2. call \in [Calls -> CallState] /\ "drop list" \in Stages /\ "done" \in Stages
    BY DEF CoreType, CallState, Stages, Writing
  <1>3. PICK a \in {"drop list", "done"} :
            /\ Goto(c, "transaction", a)
            /\ \/ a = "drop list" /\ session /\ session' = FALSE /\ rows' = <<>>
               \/ a = "done" /\ UNCHANGED db
    BY Zenon DEF Delete
  <1>4. /\ call' \in [Calls -> CallState]
        /\ call[c].at = "transaction" /\ call'[c].at = a
        /\ call'[c].kind = call[c].kind /\ call'[c].page = call[c].page
        /\ call'[c].items = call[c].items /\ call'[c].total = call[c].total
        /\ \A d \in Calls \ {c} : call'[d] = call[d]
    BY <1>2, <1>3, GotoEffect
  <1>5. session' \in BOOLEAN /\ rows' \in Seq(Calls)
    BY <1>0, <1>2, <1>3 DEF CoreType, db
  <1>6. CoreType'
    BY <1>1, <1>4, <1>5 DEF CoreType, CallState, redis, past
  <1> QED
    BY <1>1, <1>3, <1>4, <1>6 DEF past, OthersStay, Carries

LEMMA ExpireStep ==
    ASSUME CoreType, ExpireList \/ \E p \in Pages : ExpirePage(p)
    PROVE  /\ CoreType' /\ UNCHANGED <<db, call, result, past, errors>>
           /\ list' \in {NoList, list}
           /\ \A p \in Pages : pages'[p] \in {NoList, pages[p]}
  <1>1. CASE ExpireList
    BY <1>1 DEF ExpireList, CoreType, db, past
  <1>2. ASSUME NEW q \in Pages, ExpirePage(q)
        PROVE  /\ CoreType' /\ UNCHANGED <<db, call, result, past, errors>>
               /\ list' \in {NoList, list}
               /\ \A p \in Pages : pages'[p] \in {NoList, pages[p]}
    BY <1>2 DEF ExpirePage, CoreType, db, past
  <1> QED
    BY <1>1, <1>2

-----------------------------------------------------------------------------
(* Calls walk their path, and only those that began in time read.           *)

LEMMA OthersWalk ==
    ASSUME NEW c \in Calls, Walks(c), Began(c), session' => session,
           call'[c] = call[c], result'[c] = result[c], began'[c] = began[c]
    PROVE  Walks(c)' /\ Began(c)'
  BY DEF Walks, Began

\* A step of c: the path of c, the others untouched.
LEMMA StepWalks ==
    ASSUME CallInv, NEW c \in Calls, OthersStay(c), CoreType', session' => session,
           Walks(c)', Began(c)'
    PROVE  CallInv'
  BY OthersWalk DEF CallInv, OthersStay

LEMMA CallInvStep == CallInv /\ [Next]_vars => CallInv'
  <1> SUFFICES ASSUME CallInv, [Next]_vars PROVE CallInv'
    OBVIOUS
  <1>0. CoreType /\ \A c \in Calls : Walks(c) /\ Began(c)
    BY DEF CallInv
  <1>1. ASSUME NEW c \in Calls, Begin(c) PROVE CallInv'
    <2>1. /\ CoreType'
          /\ call[c].at = "idle" /\ call'[c].at \in {"check", "transaction"}
          /\ call'[c].at = "check" <=> call'[c].kind # "delete"
          /\ call'[c].kind = "page" => call'[c].page \in Pages
          /\ \A d \in Calls \ {c} : call'[d] = call[d] /\ began'[d] = began[d]
          /\ began'[c] = session
          /\ UNCHANGED <<db, result>>
      BY <1>0, <1>1, BeginEffect
    <2>2. session' = session /\ result' = result
      BY <2>1 DEF db
    <2>3. Walks(c)' /\ Began(c)'
      BY <1>0, <2>1, <2>2 DEF Walks, Began, Reading, Paging, Writing
    <2>4. \A d \in Calls \ {c} : Walks(d)' /\ Began(d)'
      BY <1>0, <2>1, <2>2, OthersWalk
    <2> QED
      BY <2>1, <2>3, <2>4 DEF CallInv
  <1>2. ASSUME NEW c \in Calls, Step(c) PROVE CallInv'
    <2>0. Walks(c) /\ Began(c)
      BY <1>0
    <2>1. CASE Check(c)
      <3>1. /\ CoreType' /\ OthersStay(c) /\ Carries(c)
            /\ call[c].at = "check"
            /\ \/ ~session /\ call'[c].at = "done"
               \/ session /\ call'[c].at = AfterCheck(call[c].kind)
            /\ session' = session
        BY <1>0, <2>1, CheckEffect DEF db
      <3>2. \/ AfterCheck(call[c].kind) = "get" /\ call[c].kind = "list"
            \/ AfterCheck(call[c].kind) = "get page" /\ call[c].kind = "page"
            \/ AfterCheck(call[c].kind) = "search" /\ call[c].kind = "search"
            \/ AfterCheck(call[c].kind) = "insert" /\ call[c].kind \notin {"page", "search"}
        BY DEF AfterCheck
      <3>3. Walks(c)' /\ Began(c)'
        BY <2>0, <3>1, <3>2
           DEF Walks, Began, Reading, Paging, Writing, OthersStay, Carries
      <3> QED
        BY <3>1, <3>3, StepWalks
    <2>2. CASE Insert(c)
      <3>1. /\ CoreType' /\ OthersStay(c) /\ Carries(c)
            /\ call[c].at = "insert" /\ call'[c].at = "drop list" /\ session' = session
        BY <1>0, <2>2, InsertStep
      <3>2. Walks(c)' /\ Began(c)'
        BY <2>0, <3>1 DEF Walks, Began, Reading, Paging, Writing, OthersStay, Carries
      <3> QED
        BY <3>1, <3>2, StepWalks
    <2>3. CASE InsertFails(c)
      <3>1. /\ CoreType' /\ OthersStay(c) /\ Carries(c)
            /\ call[c].at = "insert" /\ call'[c].at = "done" /\ session' = session
        BY <1>0, <2>3, InsertFailsStep DEF db
      <3>2. Walks(c)' /\ Began(c)'
        BY <2>0, <3>1 DEF Walks, Began, Reading, Paging, Writing, OthersStay, Carries
      <3> QED
        BY <3>1, <3>2, StepWalks
    <2>4. CASE DropList(c)
      <3>1. /\ CoreType' /\ OthersStay(c) /\ Carries(c)
            /\ call[c].at = "drop list" /\ call'[c].at \in {"done", "scan"}
            /\ session' = session
        BY <1>0, <2>4, DropListStep DEF db
      <3>2. Walks(c)' /\ Began(c)'
        BY <2>0, <3>1 DEF Walks, Began, Reading, Paging, Writing, OthersStay, Carries
      <3> QED
        BY <3>1, <3>2, StepWalks
    <2>5. CASE DropPages(c)
      <3>1. /\ CoreType' /\ OthersStay(c) /\ Carries(c)
            /\ call[c].at = "scan" /\ call'[c].at \in {"list check", "done"}
            /\ session' = session
        BY <1>0, <2>5, DropPagesStep DEF db
      <3>2. Walks(c)' /\ Began(c)'
        BY <2>0, <3>1 DEF Walks, Began, Reading, Paging, Writing, OthersStay, Carries
      <3> QED
        BY <3>1, <3>2, StepWalks
    <2>6. CASE ListCheck(c)
      <3>1. /\ CoreType' /\ OthersStay(c) /\ Carries(c)
            /\ call[c].at = "list check" /\ call'[c].at \in {"get", "done"}
            /\ session' = session
        BY <1>0, <2>6, ListCheckStep DEF db
      <3>2. Walks(c)' /\ Began(c)'
        BY <2>0, <3>1 DEF Walks, Began, Reading, Paging, Writing, OthersStay, Carries
      <3> QED
        BY <3>1, <3>2, StepWalks
    <2>7. CASE Get(c)
      <3>1. /\ CoreType' /\ OthersStay(c) /\ call[c].at = "get"
            /\ \/ call'[c].at = "done"
               \/ call'[c].at = "query" /\ Carries(c)
            /\ session' = session
        BY <1>0, <2>7, GetStep DEF db, Returned
      <3>2. Walks(c)' /\ Began(c)'
        BY <2>0, <3>1 DEF Walks, Began, Reading, Paging, Writing, OthersStay, Carries
      <3> QED
        BY <3>1, <3>2, StepWalks
    <2>8. CASE Query(c)
      <3>1. /\ CoreType' /\ OthersStay(c) /\ call[c].at = "query" /\ call'[c].at = "set"
            /\ result'[c] = result[c] /\ session' = session
        BY <1>0, <2>8, QueryStep DEF db
      <3>2. Walks(c)' /\ Began(c)'
        BY <2>0, <3>1 DEF Walks, Began, Reading, Paging, Writing, OthersStay
      <3> QED
        BY <3>1, <3>2, StepWalks
    <2>9. CASE Set(c)
      <3>1. /\ CoreType' /\ OthersStay(c) /\ call[c].at = "set" /\ call'[c].at = "done"
            /\ session' = session
        BY <1>0, <2>9, SetStep DEF db, Returned
      <3>2. Walks(c)' /\ Began(c)'
        BY <2>0, <3>1 DEF Walks, Began, Reading, Paging, Writing, OthersStay
      <3> QED
        BY <3>1, <3>2, StepWalks
    <2>10. CASE GetPage(c)
      <3>1. /\ CoreType' /\ OthersStay(c) /\ call[c].at = "get page"
            /\ \/ call'[c].at = "done"
               \/ call'[c].at = "count" /\ Carries(c)
            /\ session' = session
        BY <1>0, <2>10, GetPageStep DEF db, Returned
      <3>2. Walks(c)' /\ Began(c)'
        BY <2>0, <3>1 DEF Walks, Began, Reading, Paging, Writing, OthersStay, Carries
      <3> QED
        BY <3>1, <3>2, StepWalks
    <2>11. CASE Count(c)
      <3>1. /\ CoreType' /\ OthersStay(c)
            /\ call[c].at = "count" /\ call'[c].at = "query page"
            /\ result'[c] = result[c] /\ session' = session
        BY <1>0, <2>11, CountStep DEF db
      <3>2. Walks(c)' /\ Began(c)'
        BY <2>0, <3>1 DEF Walks, Began, Reading, Paging, Writing, OthersStay
      <3> QED
        BY <3>1, <3>2, StepWalks
    <2>12. CASE QueryPage(c)
      <3>1. /\ CoreType' /\ OthersStay(c)
            /\ call[c].at = "query page" /\ call'[c].at = "set page"
            /\ result'[c] = result[c] /\ session' = session
        BY <1>0, <2>12, QueryPageStep DEF db
      <3>2. Walks(c)' /\ Began(c)'
        BY <2>0, <3>1 DEF Walks, Began, Reading, Paging, Writing, OthersStay
      <3> QED
        BY <3>1, <3>2, StepWalks
    <2>13. CASE SetPage(c)
      <3>1. /\ CoreType' /\ OthersStay(c) /\ call[c].at = "set page"
            /\ call'[c].at = "done" /\ session' = session
        BY <1>0, <2>13, SetPageStep DEF db, Returned
      <3>2. Walks(c)' /\ Began(c)'
        BY <2>0, <3>1 DEF Walks, Began, Reading, Paging, Writing, OthersStay
      <3> QED
        BY <3>1, <3>2, StepWalks
    <2>14. CASE Search(c)
      <3>1. /\ CoreType' /\ OthersStay(c) /\ call[c].at = "search"
            /\ call'[c].at = "done" /\ session' = session
        BY <1>0, <2>14, SearchStep DEF db, Returned
      <3>2. Walks(c)' /\ Began(c)'
        BY <2>0, <3>1 DEF Walks, Began, Reading, Paging, Writing, OthersStay
      <3> QED
        BY <3>1, <3>2, StepWalks
    <2>15. CASE Delete(c)
      <3>1. /\ CoreType' /\ OthersStay(c) /\ Carries(c)
            /\ call[c].at = "transaction"
            /\ \/ session /\ ~session' /\ call'[c].at = "drop list"
               \/ UNCHANGED db /\ call'[c].at = "done"
        BY <1>0, <2>15, DeleteStep
      <3>2. CASE session /\ ~session' /\ call'[c].at = "drop list"
        <4>1. Walks(c)' /\ Began(c)'
          BY <2>0, <3>1, <3>2
             DEF Walks, Began, Reading, Paging, Writing, OthersStay, Carries
        <4> QED
          BY <3>1, <3>2, <4>1, StepWalks
      <3>3. CASE UNCHANGED db /\ call'[c].at = "done"
        <4>1. session' = session
          BY <3>3 DEF db
        <4>2. Walks(c)' /\ Began(c)'
          BY <2>0, <3>1, <3>3, <4>1
             DEF Walks, Began, Reading, Paging, Writing, OthersStay, Carries
        <4> QED
          BY <3>1, <4>1, <4>2, StepWalks
      <3> QED
        BY <3>1, <3>2, <3>3
    <2> QED
      BY <1>2, <2>1, <2>2, <2>3, <2>4, <2>5, <2>6, <2>7, <2>8, <2>9, <2>10, <2>11,
         <2>12, <2>13, <2>14, <2>15 DEF Step
  <1>3. CASE ExpireList \/ \E p \in Pages : ExpirePage(p)
    <2>1. CoreType' /\ UNCHANGED <<db, call, result, past, errors>>
      BY <1>0, <1>3, ExpireStep
    <2> QED
      BY <1>0, <2>1, OthersWalk DEF CallInv, db, past
  <1>4. CASE UNCHANGED vars
    BY <1>4 DEF CallInv, Walks, Began, CoreType, vars, db, redis, past
  <1> QED
    BY <1>1, <1>2, <1>3, <1>4 DEF Next

LEMMA InitCalls == Init => CallInv
  <1> SUFFICES ASSUME Init PROVE CallInv
    OBVIOUS
  <1>1. \A c \in Calls : /\ call[c].at = "idle" /\ call[c].kind = "none"
                         /\ result[c] = NoList
    BY DEF Init, Nothing
  <1> QED
    BY <1>1, InitType DEF CallInv, Walks, Began, Reading, Paging, Writing

LEMMA CallsAlways == Spec => []CallInv
  <1>1. Init => CallInv
    BY InitCalls
  <1>2. CallInv /\ [Next]_vars => CallInv'
    BY CallInvStep
  <1> QED
    BY <1>1, <1>2, PTL DEF Spec

LEMMA CauseTypeStep == CallInv /\ CauseType /\ [Next]_vars => CauseType'
  <1> SUFFICES ASSUME CallInv, CauseType, [Next]_vars PROVE CauseType'
    OBVIOUS
  <1>1. CASE UNCHANGED causes
    BY <1>1 DEF CauseType, causes
  <1>2. ASSUME NEW c \in Calls, Insert(c) \/ Delete(c) PROVE CauseType'
    <2>1. spoilt' = spoilt /\ (Overtake \/ overtaken' = overtaken)
      BY <1>2 DEF Insert, Delete
    <2> QED
      BY <2>1 DEF CauseType, Overtake
  <1>3. ASSUME NEW c \in Calls, DropList(c) PROVE CauseType'
    BY <1>3 DEF CauseType, DropList, Left
  <1>4. ASSUME NEW c \in Calls, DropPages(c) PROVE CauseType'
    <2>1. overtaken' = overtaken
      BY <1>4 DEF DropPages
    <2>2. spoilt' = spoilt \/ \E left \in SUBSET Pages : spoilt' = spoilt \cup left
      BY <1>4 DEF DropPages, Left
    <2> QED
      BY <2>1, <2>2 DEF CauseType
  <1>5. ASSUME NEW c \in Calls, Set(c) PROVE CauseType'
    BY <1>5 DEF CauseType, Set, Stored
  <1>6. ASSUME NEW c \in Calls, SetPage(c) PROVE CauseType'
    <2>1. call[c].page \in Pages
      BY <1>6 DEF SetPage, CallInv, Walks, Paging
    <2>2. overtaken' = overtaken /\ (spoilt' = spoilt \/ Stored(c, call[c].page))
      BY <1>6 DEF SetPage
    <2> QED
      BY <2>1, <2>2 DEF CauseType, Stored
  <1>7. ASSUME NEW c \in Calls,
               \/ Begin(c) \/ Check(c) \/ InsertFails(c) \/ ListCheck(c) \/ Get(c)
               \/ Query(c) \/ GetPage(c) \/ Count(c) \/ QueryPage(c) \/ Search(c)
        PROVE  UNCHANGED causes
    BY <1>7 DEF Begin, Check, InsertFails, ListCheck, Get, Query, GetPage, Count,
                QueryPage, Search
  <1>8. CASE ExpireList \/ \E p \in Pages : ExpirePage(p)
    BY <1>1, <1>8 DEF ExpireList, ExpirePage
  <1>9. CASE UNCHANGED vars
    BY <1>1, <1>9 DEF vars
  <1> QED
    BY <1>1, <1>2, <1>3, <1>4, <1>5, <1>6, <1>7, <1>8, <1>9, Zenon DEF Next, Step

\* The rows, the cached list, the cached pages, what the calls carry and what
\* they return keep their types, and a call is always at one of the
\* statements of MessageService and SessionService.
THEOREM TypeCorrect == Spec => []TypeOK
  <1>1. Init => CauseType
    BY DEF Init, CauseType
  <1>2. CallInv /\ CauseType /\ [Next]_vars => CauseType'
    BY CauseTypeStep
  <1>3. CallInv /\ CauseType => TypeOK
    BY DEF CallInv, CoreType, CauseType, TypeOK
  <1> QED
    BY <1>1, <1>2, <1>3, CallsAlways, PTL DEF Spec

\* GetByIDAndUserID comes before every read: a call that began after
\* DeleteSession's transaction returns no messages, whatever is left in the
\* cached pages.
THEOREM DeletedStayUnread == Spec => []DeletedIsNotRead
  <1>1. CallInv => DeletedIsNotRead
    BY DEF CallInv, Began, DeletedIsNotRead
  <1> QED
    BY <1>1, CallsAlways, PTL

-----------------------------------------------------------------------------
(* Pages hold what their total promises, as long as rows are only added.    *)

\* No row goes.
RowsGrow == Len(rows) <= Len(rows') /\ ToSet(rows) \subseteq ToSet(rows')

LEMMA HoldsGrows ==
    ASSUME NEW s \in Seq(Calls), NEW t \in Seq(Calls),
           Len(s) <= Len(t), ToSet(s) \subseteq ToSet(t),
           NEW p, NEW items, NEW total \in Nat, HoldsIn(s, p, items, total)
    PROVE  HoldsIn(t, p, items, total)
  <1>1. Len(s) \in Nat /\ Len(t) \in Nat
    BY LenProperties
  <1> QED
    BY <1>1 DEF HoldsIn

LEMMA Orders ==
    /\ \A i, j, k \in Nat : i <= j /\ j <= k => i <= k
    /\ \A i \in Nat : i <= i /\ i <= i + 1
  OBVIOUS

LEMMA RowsStay == ASSUME CoreType, rows' = rows PROVE RowsGrow
  BY LenProperties DEF CoreType, RowsGrow

\* What the cache holds goes on holding.
LEMMA CachedGrows ==
    ASSUME CoreType, CoreType', RowsGrow, CachedHolds,
           NEW p \in Pages, pages'[p] = pages[p], pages'[p] # NoList
    PROVE  HoldsIn(rows', p, pages'[p].items, pages'[p].total)
  <1>1. pages[p] \in PageValue /\ pages[p].total \in Nat
        /\ rows \in Seq(Calls) /\ rows' \in Seq(Calls)
    BY DEF CoreType, PageValue
  <1>2. HoldsIn(rows, p, pages[p].items, pages[p].total)
    BY DEF CachedHolds, HoldsIts
  <1> QED
    BY <1>1, <1>2, HoldsGrows DEF RowsGrow

\* So does what a call that does not move holds.
LEMMA OthersHold ==
    ASSUME CoreType, CoreType', RowsGrow, NEW c \in Calls, CallHolds(c),
           call'[c] = call[c], result'[c] = result[c]
    PROVE  CallHolds(c)'
  <1>1. /\ call[c].total \in Nat /\ rows \in Seq(Calls) /\ rows' \in Seq(Calls)
        /\ result[c] # NoList => result[c] \in PageValue /\ result[c].total \in Nat
    BY CallFields DEF CoreType, PageValue
  <1>2. Len(rows) \in Nat /\ Len(rows') \in Nat
    BY <1>1, LenProperties
  <1>3. call[c].at = "query page" => call[c].total <= Len(rows')
    <2> SUFFICES ASSUME call[c].at = "query page" PROVE call[c].total <= Len(rows')
      OBVIOUS
    <2>1. call[c].total <= Len(rows)
      BY DEF CallHolds
    <2>2. Len(rows) <= Len(rows')
      BY DEF RowsGrow
    <2> QED
      BY <1>1, <1>2, <2>1, <2>2, Orders, Zenon
  <1>4. call[c].at = "set page" => HoldsIn(rows', call[c].page, call[c].items, call[c].total)
    <2> SUFFICES ASSUME call[c].at = "set page"
                 PROVE  HoldsIn(rows', call[c].page, call[c].items, call[c].total)
      OBVIOUS
    <2>1. HoldsIn(rows, call[c].page, call[c].items, call[c].total)
      BY DEF CallHolds, HoldsIts
    <2> QED
      BY <1>1, <2>1, HoldsGrows DEF RowsGrow
  <1>5. call[c].kind = "page" /\ result[c] # NoList =>
            HoldsIn(rows', call[c].page, result[c].items, result[c].total)
    <2> SUFFICES ASSUME call[c].kind = "page", result[c] # NoList
                 PROVE  HoldsIn(rows', call[c].page, result[c].items, result[c].total)
      OBVIOUS
    <2>1. HoldsIn(rows, call[c].page, result[c].items, result[c].total)
      BY DEF CallHolds, HoldsIts
    <2> QED
      BY <1>1, <2>1, HoldsGrows DEF RowsGrow
  <1> QED
    BY <1>3, <1>4, <1>5 DEF CallHolds, HoldsIts

\* A step of c that puts nothing new into the page cache.
LEMMA StepHolds ==
    ASSUME CallInv, CoreType', PageInv, NEW c \in Calls, OthersStay(c),
           session' => session /\ RowsGrow,
           \A p \in Pages : pages'[p] \in {NoList, pages[p]},
           session' => CallHolds(c)'
    PROVE  PageInv'
  <1> SUFFICES ASSUME session' PROVE CachedHolds' /\ \A d \in Calls : CallHolds(d)'
    BY DEF PageInv
  <1>1. CoreType /\ RowsGrow /\ CachedHolds /\ \A d \in Calls : CallHolds(d)
    BY DEF CallInv, PageInv
  <1>2. CachedHolds'
    <2>1. ASSUME NEW p \in Pages, pages'[p] # NoList
          PROVE  HoldsIn(rows', p, pages'[p].items, pages'[p].total)
      BY <1>1, <2>1, CachedGrows
    <2> QED
      BY <2>1 DEF CachedHolds, HoldsIts
  <1>3. \A d \in Calls \ {c} : CallHolds(d)'
    BY <1>1, OthersHold DEF OthersStay
  <1> QED
    BY <1>2, <1>3

\* A call without a page in its hands.
LEMMA EmptyHanded ==
    ASSUME NEW c \in Calls, call'[c].at \notin {"query page", "set page"},
           call'[c].kind # "page" \/ result'[c] = NoList
    PROVE  CallHolds(c)'
  BY DEF CallHolds

LEMMA PageInvStep == CallInv /\ PageInv /\ [Next]_vars => PageInv'
  <1> SUFFICES ASSUME CallInv, PageInv, [Next]_vars PROVE PageInv'
    OBVIOUS
  <1>0. /\ CoreType /\ CoreType' /\ \A c \in Calls : Walks(c)
        /\ Len(rows) \in Nat /\ rows \in Seq(Calls)
    BY CallInvStep, LenProperties DEF CallInv, CoreType
  <1>1. ASSUME NEW c \in Calls, Begin(c) PROVE PageInv'
    <2>1. /\ call[c].at = "idle" /\ call'[c].at \in {"check", "transaction"}
          /\ \A d \in Calls \ {c} : call'[d] = call[d]
          /\ session' = session /\ rows' = rows /\ pages' = pages /\ result' = result
      BY <1>0, <1>1, BeginEffect DEF db, redis
    <2>2. result'[c] = NoList
      BY <1>0, <2>1 DEF Walks
    <2>3. CallHolds(c)'
      BY <2>1, <2>2, EmptyHanded
    <2>4. ASSUME session' PROVE PageInv'
      <3>1. CachedHolds /\ \A d \in Calls : CallHolds(d)
        BY <2>1, <2>4 DEF PageInv
      <3>2. CachedHolds'
        BY <2>1, <3>1 DEF CachedHolds, HoldsIts
      <3>3. \A d \in Calls \ {c} : CallHolds(d)'
        BY <1>0, <2>1, <3>1, OthersHold, RowsStay
      <3> QED
        BY <2>3, <3>2, <3>3 DEF PageInv
    <2> QED
      BY <2>4 DEF PageInv
  <1>2. ASSUME NEW c \in Calls, Step(c) PROVE PageInv'
    <2>0. Walks(c)
      BY <1>0
    <2>1. CASE Check(c)
      <3>1. /\ OthersStay(c) /\ Carries(c) /\ call[c].at = "check"
            /\ \/ call'[c].at = "done"
               \/ call'[c].at = AfterCheck(call[c].kind)
            /\ session' = session /\ rows' = rows /\ pages' = pages
        BY <1>0, <2>1, CheckEffect DEF db, redis
      <3>2. call'[c].at \notin {"query page", "set page"} /\ result'[c] = NoList
        BY <2>0, <3>1 DEF AfterCheck, Walks, Carries
      <3> QED
        BY <1>0, <3>1, <3>2, EmptyHanded, StepHolds, RowsStay
    <2>2. CASE Insert(c)
      <3>1. /\ OthersStay(c) /\ Carries(c)
            /\ call[c].at = "insert" /\ call'[c].at = "drop list"
            /\ Len(rows') = Len(rows) + 1 /\ ToSet(rows) \subseteq ToSet(rows')
            /\ session' = session /\ pages' = pages
        BY <1>0, <2>2, InsertStep DEF redis
      <3>2. call'[c].at \notin {"query page", "set page"} /\ result'[c] = NoList
        BY <2>0, <3>1 DEF Walks, Carries
      <3>3. Len(rows) <= Len(rows')
        BY <1>0, <3>1, Orders, Zenon
      <3>4. RowsGrow
        BY <3>1, <3>3 DEF RowsGrow
      <3> QED
        BY <1>0, <3>1, <3>2, <3>4, EmptyHanded, StepHolds
    <2>3. CASE InsertFails(c)
      <3>1. /\ OthersStay(c) /\ Carries(c) /\ call[c].at = "insert" /\ call'[c].at = "done"
            /\ session' = session /\ rows' = rows /\ pages' = pages
        BY <1>0, <2>3, InsertFailsStep DEF db, redis
      <3>2. call'[c].at \notin {"query page", "set page"} /\ result'[c] = NoList
        BY <2>0, <3>1 DEF Walks, Carries
      <3> QED
        BY <1>0, <3>1, <3>2, EmptyHanded, StepHolds, RowsStay
    <2>4. CASE DropList(c)
      <3>1. /\ OthersStay(c) /\ Carries(c)
            /\ call[c].at = "drop list" /\ call'[c].at \in {"done", "scan"}
            /\ session' = session /\ rows' = rows /\ pages' = pages
        BY <1>0, <2>4, DropListStep DEF db
      <3>2. call'[c].at \notin {"query page", "set page"} /\ result'[c] = NoList
        BY <2>0, <3>1 DEF Walks, Carries
      <3> QED
        BY <1>0, <3>1, <3>2, EmptyHanded, StepHolds, RowsStay
    <2>5. CASE DropPages(c)
      <3>1. /\ OthersStay(c) /\ Carries(c)
            /\ call[c].at = "scan" /\ call'[c].at \in {"list check", "done"}
            /\ \A p \in Pages : pages'[p] \in {NoList, pages[p]}
            /\ session' = session /\ rows' = rows
        BY <1>0, <2>5, DropPagesStep DEF db
      <3>2. call'[c].at \notin {"query page", "set page"} /\ result'[c] = NoList
        BY <2>0, <3>1 DEF Walks, Carries
      <3> QED
        BY <1>0, <3>1, <3>2, EmptyHanded, StepHolds, RowsStay
    <2>6. CASE ListCheck(c)
      <3>1. /\ OthersStay(c) /\ Carries(c)
            /\ call[c].at = "list check" /\ call'[c].at \in {"get", "done"}
            /\ session' = session /\ rows' = rows /\ pages' = pages
        BY <1>0, <2>6, ListCheckStep DEF db, redis
      <3>2. call'[c].at \notin {"query page", "set page"} /\ result'[c] = NoList
        BY <2>0, <3>1 DEF Walks, Carries
      <3> QED
        BY <1>0, <3>1, <3>2, EmptyHanded, StepHolds, RowsStay
    <2>7. CASE Get(c)
      <3>1. /\ OthersStay(c) /\ call[c].at = "get" /\ call'[c].at \in {"query", "done"}
            /\ session' = session /\ rows' = rows /\ pages' = pages
        BY <1>0, <2>7, GetStep DEF db, redis, Returned
      <3>2. call'[c].at \notin {"query page", "set page"} /\ call'[c].kind # "page"
        BY <2>0, <3>1 DEF Walks, OthersStay, Reading
      <3> QED
        BY <1>0, <3>1, <3>2, EmptyHanded, StepHolds, RowsStay
    <2>8. CASE Query(c)
      <3>1. /\ OthersStay(c) /\ call[c].at = "query" /\ call'[c].at = "set"
            /\ session' = session /\ rows' = rows /\ pages' = pages
        BY <1>0, <2>8, QueryStep DEF db, redis
      <3>2. call'[c].at \notin {"query page", "set page"} /\ call'[c].kind # "page"
        BY <2>0, <3>1 DEF Walks, OthersStay, Reading
      <3> QED
        BY <1>0, <3>1, <3>2, EmptyHanded, StepHolds, RowsStay
    <2>9. CASE Set(c)
      <3>1. /\ OthersStay(c) /\ call[c].at = "set" /\ call'[c].at = "done"
            /\ session' = session /\ rows' = rows /\ pages' = pages
        BY <1>0, <2>9, SetStep DEF db, Returned
      <3>2. call'[c].at \notin {"query page", "set page"} /\ call'[c].kind # "page"
        BY <2>0, <3>1 DEF Walks, OthersStay, Reading
      <3> QED
        BY <1>0, <3>1, <3>2, EmptyHanded, StepHolds, RowsStay
    <2>10. CASE Search(c)
      <3>1. /\ OthersStay(c) /\ call[c].at = "search" /\ call'[c].at = "done"
            /\ session' = session /\ rows' = rows /\ pages' = pages
        BY <1>0, <2>10, SearchStep DEF db, redis, Returned
      <3>2. call'[c].at \notin {"query page", "set page"} /\ call'[c].kind # "page"
        BY <2>0, <3>1 DEF Walks, OthersStay
      <3> QED
        BY <1>0, <3>1, <3>2, EmptyHanded, StepHolds, RowsStay
    <2>11. CASE GetPage(c)
      <3>1. /\ OthersStay(c) /\ call[c].at = "get page"
            /\ \/ /\ pages[call[c].page] # NoList
                  /\ Returned(c, pages[call[c].page])
               \/ call'[c].at = "count" /\ Carries(c)
            /\ session' = session /\ rows' = rows /\ pages' = pages
        BY <1>0, <2>11, GetPageStep DEF db, redis
      <3>2. call[c].page \in Pages
        BY <2>0, <3>1 DEF Walks, Paging
      <3>3. CASE pages[call[c].page] # NoList /\ Returned(c, pages[call[c].page])
        <4>1. ASSUME session' PROVE CallHolds(c)'
          <5>1. HoldsIn(rows', call'[c].page, result'[c].items, result'[c].total)
            BY <3>1, <3>2, <3>3, <4>1
               DEF PageInv, CachedHolds, HoldsIts, OthersStay, Returned
          <5> QED
            BY <3>3, <5>1 DEF CallHolds, HoldsIts, Returned
        <4> QED
          BY <1>0, <3>1, <4>1, StepHolds, RowsStay
      <3>4. CASE call'[c].at = "count" /\ Carries(c)
        <4>1. call'[c].at \notin {"query page", "set page"} /\ result'[c] = NoList
          BY <2>0, <3>1, <3>4 DEF Walks, Carries
        <4> QED
          BY <1>0, <3>1, <4>1, EmptyHanded, StepHolds, RowsStay
      <3> QED
        BY <3>1, <3>3, <3>4
    <2>12. CASE Count(c)
      <3>1. /\ OthersStay(c) /\ call[c].at = "count" /\ call'[c].at = "query page"
            /\ call'[c].total = Len(rows) /\ result'[c] = result[c]
            /\ session' = session /\ rows' = rows /\ pages' = pages
        BY <1>0, <2>12, CountStep DEF db, redis
      <3>2. result'[c] = NoList
        BY <2>0, <3>1 DEF Walks
      <3>3. call'[c].total <= Len(rows')
        BY <1>0, <3>1, Orders, Zenon
      <3>4. CallHolds(c)'
        BY <3>1, <3>2, <3>3 DEF CallHolds
      <3> QED
        BY <1>0, <3>1, <3>4, StepHolds, RowsStay
    <2>13. CASE QueryPage(c)
      <3>1. /\ OthersStay(c)
            /\ call[c].at = "query page" /\ call'[c].at = "set page"
            /\ call'[c].items = Page(rows, call[c].page) /\ call'[c].total = call[c].total
            /\ result'[c] = result[c]
            /\ session' = session /\ rows' = rows /\ pages' = pages
        BY <1>0, <2>13, QueryPageStep DEF db, redis
      <3>2. result'[c] = NoList /\ call[c].page \in Pages
        BY <2>0, <3>1 DEF Walks, Paging
      <3>3. ASSUME session' PROVE CallHolds(c)'
        <4>1. call[c].total <= Len(rows) /\ call[c].total \in Nat
          BY <1>0, <3>1, <3>3, CallFields DEF PageInv, CallHolds
        <4>2. /\ Len(Page(rows, call[c].page)) = OnPage(Len(rows), call[c].page)
              /\ ToSet(Page(rows, call[c].page)) \subseteq ToSet(rows)
          BY <1>0, <3>2, PageEffect
        <4>3. OnPage(call[c].total, call[c].page) <= OnPage(Len(rows), call[c].page)
          BY <1>0, <3>2, <4>1, OnPageGrows
        <4>4. HoldsIn(rows, call[c].page, Page(rows, call[c].page), call[c].total)
          BY <4>1, <4>2, <4>3 DEF HoldsIn
        <4>5. HoldsIn(rows', call'[c].page, call'[c].items, call'[c].total)
          BY <3>1, <4>4 DEF OthersStay
        <4> QED
          BY <3>1, <3>2, <4>5 DEF CallHolds, HoldsIts
      <3> QED
        BY <1>0, <3>1, <3>3, StepHolds, RowsStay
    <2>14. CASE SetPage(c)
      <3> DEFINE v == [items |-> call[c].items, total |-> call[c].total]
      <3>1. /\ OthersStay(c) /\ call[c].at = "set page" /\ Returned(c, v)
            /\ \A p \in Pages : \/ pages'[p] = pages[p]
                                \/ p = call[c].page /\ pages'[p] = v
            /\ session' = session /\ rows' = rows
        BY <1>0, <2>14, SetPageStep DEF db
      <3>2. call[c].page \in Pages /\ v.items = call[c].items /\ v.total = call[c].total
        BY <2>0, <3>1 DEF Walks, Paging
      <3> HIDE DEF v
      <3>3. ASSUME session' PROVE CachedHolds' /\ \A d \in Calls : CallHolds(d)'
        <4>1. CachedHolds /\ \A d \in Calls : CallHolds(d)
          BY <3>1, <3>3 DEF PageInv
        <4>2. HoldsIn(rows', call[c].page, v.items, v.total)
          BY <3>1, <3>2, <4>1 DEF CallHolds, HoldsIts
        <4>3. CallHolds(c)'
          BY <3>1, <4>2 DEF CallHolds, HoldsIts, Returned, OthersStay
        <4>4. \A d \in Calls \ {c} : CallHolds(d)'
          BY <1>0, <3>1, <4>1, OthersHold, RowsStay DEF OthersStay
        <4>5. ASSUME NEW p \in Pages, pages'[p] # NoList
              PROVE  HoldsIn(rows', p, pages'[p].items, pages'[p].total)
          <5>1. CASE pages'[p] = pages[p]
            BY <1>0, <3>1, <4>1, <4>5, <5>1, CachedGrows, RowsStay
          <5>2. CASE p = call[c].page /\ pages'[p] = v
            BY <4>2, <5>2
          <5> QED
            BY <3>1, <5>1, <5>2
        <4> QED
          BY <4>3, <4>4, <4>5 DEF CachedHolds, HoldsIts
      <3> QED
        BY <3>3 DEF PageInv
    <2>15. CASE Delete(c)
      <3>1. /\ OthersStay(c) /\ Carries(c)
            /\ call[c].at = "transaction" /\ call'[c].at \in {"drop list", "done"}
            /\ \/ ~session'
               \/ UNCHANGED db
            /\ pages' = pages
        BY <1>0, <2>15, DeleteStep DEF redis
      <3>2. call'[c].at \notin {"query page", "set page"} /\ result'[c] = NoList
        BY <2>0, <3>1 DEF Walks, Carries
      <3>3. CASE ~session'
        BY <3>3 DEF PageInv
      <3>4. CASE UNCHANGED db
        <4>1. session' = session /\ rows' = rows
          BY <3>4 DEF db
        <4> QED
          BY <1>0, <3>1, <3>2, <4>1, EmptyHanded, StepHolds, RowsStay
      <3> QED
        BY <3>1, <3>3, <3>4
    <2> QED
      BY <1>2, <2>1, <2>2, <2>3, <2>4, <2>5, <2>6, <2>7, <2>8, <2>9, <2>10, <2>11,
         <2>12, <2>13, <2>14, <2>15 DEF Step
  <1>3. CASE ExpireList \/ \E p \in Pages : ExpirePage(p)
    <2>1. /\ session' = session /\ rows' = rows /\ call' = call /\ result' = result
          /\ \A p \in Pages : pages'[p] \in {NoList, pages[p]}
      BY <1>0, <1>3, ExpireStep DEF db
    <2>2. ASSUME session' PROVE CachedHolds' /\ \A d \in Calls : CallHolds(d)'
      <3>1. CachedHolds /\ \A d \in Calls : CallHolds(d)
        BY <2>1, <2>2 DEF PageInv
      <3>2. \A d \in Calls : CallHolds(d)'
        BY <1>0, <2>1, <3>1, OthersHold, RowsStay
      <3>3. ASSUME NEW p \in Pages, pages'[p] # NoList
            PROVE  HoldsIn(rows', p, pages'[p].items, pages'[p].total)
        BY <1>0, <2>1, <3>1, <3>3, CachedGrows, RowsStay
      <3> QED
        BY <3>2, <3>3 DEF CachedHolds, HoldsIts
    <2> QED
      BY <2>2 DEF PageInv
  <1>4. CASE UNCHANGED vars
    BY <1>4 DEF PageInv, CachedHolds, CallHolds, HoldsIts, vars, db, redis
  <1> QED
    BY <1>1, <1>2, <1>3, <1>4 DEF Next

LEMMA InitPages == Init => PageInv
  <1> SUFFICES ASSUME Init PROVE CachedHolds /\ \A c \in Calls : CallHolds(c)
    BY DEF PageInv
  <1>1. /\ \A c \in Calls : call[c].at = "idle" /\ result[c] = NoList
        /\ \A p \in Pages : pages[p] = NoList
    BY DEF Init, Nothing
  <1> QED
    BY <1>1 DEF CachedHolds, CallHolds

LEMMA PagesAlways == Spec => []PageInv
  <1>1. Init => PageInv
    BY InitPages
  <1>2. CallInv /\ PageInv /\ [Next]_vars => PageInv'
    BY PageInvStep
  <1> QED
    BY <1>1, <1>2, CallsAlways, PTL DEF Spec

\* What a page holds is what PageHoldsItsTotal asks of it.
LEMMA HoldsMeans ==
    ASSUME CoreType, NEW p \in Pages, NEW v \in PageValue, HoldsIts(p, v.items, v.total)
    PROVE  /\ v.total <= Len(rows)
           /\ Len(Page(SubSeq(rows, 1, v.total), p)) <= Len(v.items)
           /\ ToSet(v.items) \subseteq ToSet(rows)
  <1>1. rows \in Seq(Calls) /\ v.total \in Nat
    BY DEF CoreType, PageValue
  <1>2. /\ v.total <= Len(rows) /\ OnPage(v.total, p) <= Len(v.items)
        /\ ToSet(v.items) \subseteq ToSet(rows)
    BY DEF HoldsIts, HoldsIn
  <1>3. SubSeq(rows, 1, v.total) \in Seq(Calls) /\ Len(SubSeq(rows, 1, v.total)) = v.total
    BY <1>1, <1>2, PrefixLen
  <1>4. Len(Page(SubSeq(rows, 1, v.total), p)) = OnPage(v.total, p)
    BY <1>3, PageEffect
  <1> QED
    BY <1>2, <1>4

\* ListMessagesPage counts before it reads and rows of a session are only
\* added: whatever reads and writes overlap and whichever Redis command
\* fails, a page is never shorter than its own total says.
THEOREM PagesHoldTheirTotal == Spec => []PageHoldsItsTotal
  <1>1. CallInv /\ PageInv => PageHoldsItsTotal
    <2> SUFFICES ASSUME CallInv, PageInv, session
                 PROVE  /\ \A p \in Pages : pages[p] # NoList =>
                               /\ pages[p].total <= Len(rows)
                               /\ Len(Page(SubSeq(rows, 1, pages[p].total), p))
                                      <= Len(pages[p].items)
                               /\ ToSet(pages[p].items) \subseteq ToSet(rows)
                        /\ \A c \in Calls : call[c].kind = "page" /\ result[c] # NoList =>
                               /\ result[c].total <= Len(rows)
                               /\ Len(Page(SubSeq(rows, 1, result[c].total), call[c].page))
                                      <= Len(result[c].items)
                               /\ ToSet(result[c].items) \subseteq ToSet(rows)
      BY Zenon DEF PageHoldsItsTotal
    <2>1. CoreType /\ CachedHolds /\ \A c \in Calls : CallHolds(c) /\ Walks(c)
      BY DEF CallInv, PageInv
    <2>2. \A p \in Pages : pages[p] # NoList =>
              pages[p] \in PageValue /\ HoldsIts(p, pages[p].items, pages[p].total)
      BY <2>1 DEF CachedHolds, CoreType
    <2>3. \A c \in Calls : call[c].kind = "page" /\ result[c] # NoList =>
              /\ call[c].page \in Pages /\ result[c] \in PageValue
              /\ HoldsIts(call[c].page, result[c].items, result[c].total)
      BY <2>1, CallFields DEF CallHolds, Walks
    <2> QED
      BY <2>1, <2>2, <2>3, HoldsMeans
  <1> QED
    BY <1>1, CallsAlways, PagesAlways, PTL

-----------------------------------------------------------------------------
(* Calls that do not overlap read what is stored.                           *)

Moving(c) == call[c].at \notin {"idle", "done"}

OnlyMover(c) == \A d \in Calls \ {c} : call[d].at \in {"idle", "done"}

\* CacheIsStored when c is the only writer there can be.
CacheIsStoredBut(c) ==
    /\ list \in {NoList, rows} \/ call[c].at = "drop list"
    /\ session => \/ \A p \in Pages : pages[p] \in {NoList, PageOf(p)}
                  \/ call[c].at \in {"drop list", "scan"}

LEMMA AloneNow ==
    ASSUME AloneInv, Undisturbed, NEW c \in Calls, Moving(c)
    PROVE  OnlyMover(c) /\ CacheIsStoredBut(c) /\ ReadIsStored(c)
  <1>1. OneInFlight /\ CacheIsStored /\ ReadIsStored(c)
    BY DEF AloneInv, Undisturbed
  <1>2. OnlyMover(c)
    BY <1>1 DEF OneInFlight, InFlight, Moving, OnlyMover
  <1>3. ASSUME NEW d \in Calls, call[d].at = "drop list" \/ call[d].at = "scan" PROVE d = c
    <2>1. call[d].at \notin {"idle", "done"}
      BY <1>3
    <2> QED
      BY <1>2, <2>1, Zenon DEF OnlyMover
  <1> QED
    BY <1>1, <1>2, <1>3 DEF CacheIsStored, CacheIsStoredBut

\* A step of the only call in flight.
LEMMA AloneStep ==
    ASSUME AloneInv, NEW c \in Calls, OthersStay(c), Moving(c),
           errors' = 0 => errors = 0,
           Undisturbed /\ errors' = 0 => CacheIsStoredBut(c)' /\ ReadIsStored(c)'
    PROVE  AloneInv'
  <1>1. ASSUME alone' PROVE OneInFlight'
    <2>1. OneInFlight
      BY <1>1 DEF AloneInv, OthersStay
    <2>2. \A d \in Calls \ {c} : call'[d].at \in {"idle", "done"}
      BY <2>1 DEF OneInFlight, InFlight, Moving, OthersStay
    <2> QED
      BY <2>2 DEF OneInFlight, InFlight
  <1>2. ASSUME Undisturbed' PROVE CacheIsStored' /\ \A d \in Calls : ReadIsStored(d)'
    <2>1. Undisturbed /\ errors' = 0
      BY <1>2 DEF Undisturbed, OthersStay
    <2>2. OnlyMover(c)
      BY <2>1, AloneNow
    <2>3. CacheIsStoredBut(c)' /\ ReadIsStored(c)'
      BY <2>1
    <2>4. \A d \in Calls \ {c} : call'[d].at \in {"idle", "done"}
      BY <2>2 DEF OnlyMover, OthersStay
    <2>5. \A d \in Calls \ {c} : ReadIsStored(d)'
      BY <2>4 DEF ReadIsStored, Reading, Paging
    <2>6. CacheIsStored'
      BY <2>3 DEF CacheIsStored, CacheIsStoredBut
    <2> QED
      BY <2>3, <2>5, <2>6
  <1> QED
    BY <1>1, <1>2 DEF AloneInv

LEMMA AloneInvStep == CallInv /\ AloneInv /\ [Next]_vars => AloneInv'
  <1> SUFFICES ASSUME CallInv, AloneInv, [Next]_vars PROVE AloneInv'
    OBVIOUS
  <1>0. CoreType /\ \A c \in Calls : Walks(c)
    BY DEF CallInv
  <1>1. ASSUME NEW c \in Calls, Begin(c) PROVE AloneInv'
    <2>1. /\ call'[c].at \in {"check", "transaction"}
          /\ \A d \in Calls \ {c} : call'[d] = call[d]
          /\ alone' => alone /\ InFlight = {}
          /\ session' = session /\ rows' = rows /\ list' = list /\ pages' = pages
          /\ errors' = errors
      BY <1>0, <1>1, BeginEffect DEF db, redis
    <2>2. ASSUME alone' PROVE \A d \in Calls : call[d].at \in {"idle", "done"}
      BY <2>1, <2>2 DEF InFlight
    <2>3. ASSUME alone' PROVE OneInFlight'
      BY <2>1, <2>2, <2>3 DEF OneInFlight, InFlight
    <2>4. ASSUME Undisturbed' PROVE CacheIsStored' /\ \A d \in Calls : ReadIsStored(d)'
      <3>1. Undisturbed /\ alone'
        BY <2>1, <2>4 DEF Undisturbed
      <3>2. CacheIsStored
        BY <3>1 DEF AloneInv
      <3>3. \A d \in Calls : call[d].at \notin {"drop list", "scan"}
        BY <2>2, <3>1
      <3>4. CacheIsStored'
        BY <2>1, <3>2, <3>3 DEF CacheIsStored, PageOf
      <3>5. \A d \in Calls : call'[d].at \in {"idle", "done", "check", "transaction"}
        BY <2>1, <2>2, <3>1
      <3>6. \A d \in Calls : ReadIsStored(d)'
        BY <3>5 DEF ReadIsStored, Reading, Paging
      <3> QED
        BY <3>4, <3>6
    <2> QED
      BY <2>3, <2>4 DEF AloneInv
  <1>2. ASSUME NEW c \in Calls, Step(c) PROVE AloneInv'
    <2>0. Walks(c)
      BY <1>0
    <2>1. CASE Check(c)
      <3>1. /\ OthersStay(c) /\ call[c].at = "check"
            /\ \/ call'[c].at = "done"
               \/ session /\ call'[c].at \in {"get", "get page", "search", "insert"}
            /\ session' = session /\ rows' = rows /\ list' = list /\ pages' = pages
            /\ errors' = errors
        BY <1>0, <2>1, CheckEffect DEF db, redis, AfterCheck
      <3>2. ASSUME Undisturbed PROVE CacheIsStoredBut(c)' /\ ReadIsStored(c)'
        <4>1. CacheIsStoredBut(c)
          BY <3>1, <3>2, AloneNow DEF Moving
        <4> QED
          BY <3>1, <4>1 DEF CacheIsStoredBut, ReadIsStored, PageOf, Reading, Paging
      <3> QED
        BY <3>1, <3>2, AloneStep DEF Moving
    <2>2. CASE Insert(c)
      <3>1. /\ OthersStay(c) /\ call[c].at = "insert" /\ call'[c].at = "drop list"
            /\ session' = session /\ errors' = errors
        BY <1>0, <2>2, InsertStep
      <3>2. ASSUME Undisturbed PROVE CacheIsStoredBut(c)' /\ ReadIsStored(c)'
        <4>1. ReadIsStored(c)
          BY <3>1, <3>2, AloneNow DEF Moving
        <4>2. session
          BY <3>1, <4>1 DEF ReadIsStored
        <4> QED
          BY <3>1, <4>2 DEF CacheIsStoredBut, ReadIsStored, Reading, Paging
      <3> QED
        BY <3>1, <3>2, AloneStep DEF Moving
    <2>3. CASE InsertFails(c)
      <3>1. /\ OthersStay(c) /\ call[c].at = "insert" /\ call'[c].at = "done"
            /\ session' = session /\ rows' = rows /\ list' = list /\ pages' = pages
            /\ errors' = errors
        BY <1>0, <2>3, InsertFailsStep DEF db, redis
      <3>2. ASSUME Undisturbed PROVE CacheIsStoredBut(c)' /\ ReadIsStored(c)'
        <4>1. CacheIsStoredBut(c)
          BY <3>1, <3>2, AloneNow DEF Moving
        <4> QED
          BY <3>1, <4>1 DEF CacheIsStoredBut, ReadIsStored, PageOf, Reading, Paging
      <3> QED
        BY <3>1, <3>2, AloneStep DEF Moving
    <2>4. CASE DropList(c)
      <3>1. /\ OthersStay(c) /\ call[c].at = "drop list"
            /\ \/ call[c].kind = "delete" /\ call'[c].at = "done"
               \/ call[c].kind # "delete" /\ call'[c].at = "scan"
            /\ session' = session
            /\ errors' = 0 => errors = 0 /\ list' = NoList
        BY <1>0, <2>4, DropListStep DEF db
      <3>2. ASSUME Undisturbed, errors' = 0 PROVE CacheIsStoredBut(c)' /\ ReadIsStored(c)'
        <4>1. ReadIsStored(c)
          BY <3>1, <3>2, AloneNow DEF Moving
        <4>2. CASE call[c].kind = "delete" /\ call'[c].at = "done"
          <5>1. ~session'
            BY <2>0, <3>1, <4>2 DEF Walks
          <5> QED
            BY <3>1, <3>2, <4>2, <5>1 DEF CacheIsStoredBut, ReadIsStored, Reading, Paging
        <4>3. CASE call[c].kind # "delete" /\ call'[c].at = "scan"
          <5>1. session'
            BY <3>1, <4>1, <4>3 DEF ReadIsStored
          <5> QED
            BY <3>1, <3>2, <4>3, <5>1 DEF CacheIsStoredBut, ReadIsStored, Reading, Paging
        <4> QED
          BY <3>1, <4>2, <4>3
      <3> QED
        BY <3>1, <3>2, AloneStep DEF Moving
    <2>5. CASE DropPages(c)
      <3>1. /\ OthersStay(c) /\ call[c].at = "scan"
            /\ call'[c].at \in {"list check", "done"}
            /\ session' = session /\ rows' = rows /\ list' = list
            /\ errors' = 0 => errors = 0 /\ \A p \in Pages : pages'[p] = NoList
        BY <1>0, <2>5, DropPagesStep DEF db
      <3>2. ASSUME Undisturbed, errors' = 0 PROVE CacheIsStoredBut(c)' /\ ReadIsStored(c)'
        <4>1. CacheIsStoredBut(c)
          BY <3>1, <3>2, AloneNow DEF Moving
        <4> QED
          BY <3>1, <3>2, <4>1 DEF CacheIsStoredBut, ReadIsStored, PageOf, Reading, Paging
      <3> QED
        BY <3>1, <3>2, AloneStep DEF Moving
    <2>6. CASE ListCheck(c)
      <3>1. /\ OthersStay(c) /\ call[c].at = "list check"
            /\ \/ session /\ call'[c].at = "get"
               \/ call'[c].at = "done"
            /\ session' = session /\ rows' = rows /\ list' = list /\ pages' = pages
            /\ errors' = errors
        BY <1>0, <2>6, ListCheckStep DEF db, redis
      <3>2. ASSUME Undisturbed PROVE CacheIsStoredBut(c)' /\ ReadIsStored(c)'
        <4>1. CacheIsStoredBut(c)
          BY <3>1, <3>2, AloneNow DEF Moving
        <4> QED
          BY <3>1, <4>1 DEF CacheIsStoredBut, ReadIsStored, PageOf, Reading, Paging
      <3> QED
        BY <3>1, <3>2, AloneStep DEF Moving
    <2>7. CASE Get(c)
      <3>1. /\ OthersStay(c) /\ call[c].at = "get" /\ call'[c].at \in {"query", "done"}
            /\ session' = session /\ rows' = rows /\ list' = list /\ pages' = pages
            /\ errors' = 0 => errors = 0
        BY <1>0, <2>7, GetStep DEF db, redis, Returned
      <3>2. ASSUME Undisturbed PROVE CacheIsStoredBut(c)' /\ ReadIsStored(c)'
        <4>1. CacheIsStoredBut(c) /\ ReadIsStored(c)
          BY <3>1, <3>2, AloneNow DEF Moving
        <4> QED
          BY <3>1, <4>1 DEF CacheIsStoredBut, ReadIsStored, PageOf, Reading, Paging
      <3> QED
        BY <3>1, <3>2, AloneStep DEF Moving
    <2>8. CASE Query(c)
      <3>1. /\ OthersStay(c) /\ call[c].at = "query" /\ call'[c].at = "set"
            /\ call'[c].items = rows
            /\ session' = session /\ rows' = rows /\ list' = list /\ pages' = pages
            /\ errors' = errors
        BY <1>0, <2>8, QueryStep DEF db, redis
      <3>2. ASSUME Undisturbed PROVE CacheIsStoredBut(c)' /\ ReadIsStored(c)'
        <4>1. CacheIsStoredBut(c) /\ ReadIsStored(c)
          BY <3>1, <3>2, AloneNow DEF Moving
        <4> QED
          BY <3>1, <4>1 DEF CacheIsStoredBut, ReadIsStored, PageOf, Reading, Paging
      <3> QED
        BY <3>1, <3>2, AloneStep DEF Moving
    <2>9. CASE Set(c)
      <3>1. /\ OthersStay(c) /\ call[c].at = "set" /\ call'[c].at = "done"
            /\ session' = session /\ rows' = rows /\ pages' = pages
            /\ list' \in {list, call[c].items}
            /\ errors' = 0 => errors = 0
        BY <1>0, <2>9, SetStep DEF db, Returned
      <3>2. ASSUME Undisturbed PROVE CacheIsStoredBut(c)' /\ ReadIsStored(c)'
        <4>1. CacheIsStoredBut(c) /\ ReadIsStored(c)
          BY <3>1, <3>2, AloneNow DEF Moving
        <4> QED
          BY <3>1, <4>1 DEF CacheIsStoredBut, ReadIsStored, PageOf, Reading, Paging
      <3> QED
        BY <3>1, <3>2, AloneStep DEF Moving
    <2>10. CASE Search(c)
      <3>1. /\ OthersStay(c) /\ call[c].at = "search" /\ call'[c].at = "done"
            /\ session' = session /\ rows' = rows /\ list' = list /\ pages' = pages
            /\ errors' = errors
        BY <1>0, <2>10, SearchStep DEF db, redis, Returned
      <3>2. ASSUME Undisturbed PROVE CacheIsStoredBut(c)' /\ ReadIsStored(c)'
        <4>1. CacheIsStoredBut(c)
          BY <3>1, <3>2, AloneNow DEF Moving
        <4> QED
          BY <3>1, <4>1 DEF CacheIsStoredBut, ReadIsStored, PageOf, Reading, Paging
      <3> QED
        BY <3>1, <3>2, AloneStep DEF Moving
    <2>11. CASE GetPage(c)
      <3>1. /\ OthersStay(c) /\ call[c].at = "get page" /\ call'[c].at \in {"count", "done"}
            /\ session' = session /\ rows' = rows /\ list' = list /\ pages' = pages
            /\ errors' = 0 => errors = 0
        BY <1>0, <2>11, GetPageStep DEF db, redis, Returned
      <3>2. ASSUME Undisturbed PROVE CacheIsStoredBut(c)' /\ ReadIsStored(c)'
        <4>1. CacheIsStoredBut(c) /\ ReadIsStored(c)
          BY <3>1, <3>2, AloneNow DEF Moving
        <4> QED
          BY <3>1, <4>1 DEF CacheIsStoredBut, ReadIsStored, PageOf, Reading, Paging
      <3> QED
        BY <3>1, <3>2, AloneStep DEF Moving
    <2>12. CASE Count(c)
      <3>1. /\ OthersStay(c) /\ call[c].at = "count" /\ call'[c].at = "query page"
            /\ call'[c].total = Len(rows)
            /\ session' = session /\ rows' = rows /\ list' = list /\ pages' = pages
            /\ errors' = errors
        BY <1>0, <2>12, CountStep DEF db, redis
      <3>2. ASSUME Undisturbed PROVE CacheIsStoredBut(c)' /\ ReadIsStored(c)'
        <4>1. CacheIsStoredBut(c) /\ ReadIsStored(c)
          BY <3>1, <3>2, AloneNow DEF Moving
        <4> QED
          BY <3>1, <4>1 DEF CacheIsStoredBut, ReadIsStored, PageOf, Reading, Paging
      <3> QED
        BY <3>1, <3>2, AloneStep DEF Moving
    <2>13. CASE QueryPage(c)
      <3>1. /\ OthersStay(c) /\ call[c].at = "query page" /\ call'[c].at = "set page"
            /\ call'[c].items = Page(rows, call[c].page)
            /\ call'[c].total = call[c].total /\ call'[c].page = call[c].page
            /\ session' = session /\ rows' = rows /\ list' = list /\ pages' = pages
            /\ errors' = errors
        BY <1>0, <2>13, QueryPageStep DEF db, redis, OthersStay
      <3>2. ASSUME Undisturbed PROVE CacheIsStoredBut(c)' /\ ReadIsStored(c)'
        <4>1. CacheIsStoredBut(c) /\ ReadIsStored(c)
          BY <3>1, <3>2, AloneNow DEF Moving
        <4> QED
          BY <3>1, <4>1 DEF CacheIsStoredBut, ReadIsStored, PageOf, Reading, Paging
      <3> QED
        BY <3>1, <3>2, AloneStep DEF Moving
    <2>14. CASE SetPage(c)
      <3>1. /\ OthersStay(c) /\ call[c].at = "set page" /\ call'[c].at = "done"
            /\ \A p \in Pages : \/ pages'[p] = pages[p]
                                \/ /\ p = call[c].page
                                   /\ pages'[p] = [items |-> call[c].items,
                                                   total |-> call[c].total]
            /\ session' = session /\ rows' = rows /\ list' = list
            /\ errors' = 0 => errors = 0
        BY <1>0, <2>14, SetPageStep DEF db, Returned
      <3>2. ASSUME Undisturbed PROVE CacheIsStoredBut(c)' /\ ReadIsStored(c)'
        <4>1. CacheIsStoredBut(c) /\ ReadIsStored(c)
          BY <3>1, <3>2, AloneNow DEF Moving
        <4>2. [items |-> call[c].items, total |-> call[c].total] = PageOf(call[c].page)
          BY <3>1, <4>1 DEF ReadIsStored, PageOf
        <4>3. session' => \A p \in Pages : pages'[p] \in {NoList, PageOf(p)}
          BY <3>1, <4>1, <4>2 DEF CacheIsStoredBut
        <4> QED
          BY <3>1, <4>1, <4>3 DEF CacheIsStoredBut, ReadIsStored, PageOf, Reading, Paging
      <3> QED
        BY <3>1, <3>2, AloneStep DEF Moving
    <2>15. CASE Delete(c)
      <3>1. /\ OthersStay(c) /\ call[c].at = "transaction" /\ call[c].kind = "delete"
            /\ call'[c].kind = "delete"
            /\ \/ ~session' /\ call'[c].at = "drop list"
               \/ /\ UNCHANGED db
                  /\ call'[c].at = "done"
            /\ list' = list /\ pages' = pages /\ errors' = errors
        BY <1>0, <2>0, <2>15, DeleteStep DEF redis, OthersStay, Walks
      <3>2. ASSUME Undisturbed PROVE CacheIsStoredBut(c)' /\ ReadIsStored(c)'
        <4>1. CASE ~session' /\ call'[c].at = "drop list"
          BY <3>1, <4>1 DEF CacheIsStoredBut, ReadIsStored, Reading, Paging
        <4>2. CASE UNCHANGED db /\ call'[c].at = "done"
          <5>1. CacheIsStoredBut(c) /\ session' = session /\ rows' = rows
            BY <3>1, <3>2, <4>2, AloneNow DEF Moving, db
          <5> QED
            BY <3>1, <4>2, <5>1 DEF CacheIsStoredBut, ReadIsStored, PageOf, Reading, Paging
        <4> QED
          BY <3>1, <4>1, <4>2
      <3> QED
        BY <3>1, <3>2, AloneStep DEF Moving
    <2> QED
      BY <1>2, <2>1, <2>2, <2>3, <2>4, <2>5, <2>6, <2>7, <2>8, <2>9, <2>10, <2>11,
         <2>12, <2>13, <2>14, <2>15 DEF Step
  <1>3. CASE ExpireList \/ \E p \in Pages : ExpirePage(p)
    <2>1. /\ session' = session /\ rows' = rows /\ call' = call /\ result' = result
          /\ alone' = alone /\ errors' = errors /\ list' \in {NoList, list}
          /\ \A p \in Pages : pages'[p] \in {NoList, pages[p]}
      BY <1>0, <1>3, ExpireStep DEF db, past
    <2>2. alone' => OneInFlight'
      BY <2>1 DEF AloneInv, OneInFlight, InFlight
    <2>3. ASSUME Undisturbed' PROVE CacheIsStored' /\ \A d \in Calls : ReadIsStored(d)'
      <3>1. CacheIsStored /\ \A d \in Calls : ReadIsStored(d)
        BY <2>1, <2>3 DEF AloneInv, Undisturbed
      <3>2. CacheIsStored'
        BY <2>1, <3>1 DEF CacheIsStored, PageOf
      <3>3. \A d \in Calls : ReadIsStored(d)'
        BY <2>1, <3>1 DEF ReadIsStored
      <3> QED
        BY <3>2, <3>3
    <2> QED
      BY <2>2, <2>3 DEF AloneInv
  <1>4. CASE UNCHANGED vars
    BY <1>4 DEF AloneInv, OneInFlight, InFlight, Undisturbed, CacheIsStored, PageOf,
                ReadIsStored, vars, db, redis, past
  <1> QED
    BY <1>1, <1>2, <1>3, <1>4 DEF Next

LEMMA InitAlone == Init => AloneInv
  <1> SUFFICES ASSUME Init PROVE AloneInv
    OBVIOUS
  <1>1. \A c \in Calls : call[c].at = "idle"
    BY DEF Init, Nothing
  <1>2. OneInFlight /\ \A c \in Calls : ReadIsStored(c)
    BY <1>1 DEF OneInFlight, InFlight, ReadIsStored, Reading, Paging
  <1>3. CacheIsStored
    BY DEF Init, CacheIsStored
  <1> QED
    BY <1>2, <1>3 DEF AloneInv

LEMMA AloneAlways == Spec => []AloneInv
  <1>1. Init => AloneInv
    BY InitAlone
  <1>2. CallInv /\ AloneInv /\ [Next]_vars => AloneInv'
    BY AloneInvStep
  <1> QED
    BY <1>1, <1>2, CallsAlways, PTL DEF Spec

\* What a call that returns must have read.
ReadsStored(c) ==
    /\ call[c].kind = "page" => result'[c] = PageOf(call[c].page)
    /\ call[c].kind = "search" => result'[c] = Whole(Reverse(rows))
    /\ call[c].kind \notin {"page", "search"} => result'[c] = Whole(rows)

LEMMA ReadsStep ==
    ASSUME CallInv, AloneInv, Undisturbed, [Next]_vars, NEW c \in Calls, Returns(c)
    PROVE  ReadsStored(c)
  <1>0. /\ CoreType /\ Walks(c) /\ call[c].at # "done" /\ call'[c].at = "done"
        /\ result[c] = NoList /\ result'[c] # NoList
    BY DEF CallInv, Returns, Walks
  <1>1. ASSUME NEW d \in Calls, Begin(d) PROVE FALSE
    BY <1>0, <1>1, BeginEffect
  <1>2. CASE ExpireList \/ \E p \in Pages : ExpirePage(p)
    BY <1>0, <1>2, ExpireStep
  <1>3. CASE UNCHANGED vars
    BY <1>0, <1>3 DEF vars
  <1>4. ASSUME NEW d \in Calls, Step(d), d # c PROVE FALSE
    <2>1. Walks(d)
      BY DEF CallInv
    <2>2. OthersStay(d)
      BY <1>0, <1>4, <2>1, CheckEffect, InsertStep, InsertFailsStep, DropListStep,
         DropPagesStep, ListCheckStep, GetStep, QueryStep, SetStep, GetPageStep,
         CountStep, QueryPageStep, SetPageStep, SearchStep, DeleteStep, ZenonT(60) DEF Step
    <2> QED
      BY <1>0, <1>4, <2>2 DEF OthersStay
  <1>5. ASSUME Step(c) PROVE ReadsStored(c)
    <2>1. CASE Check(c) \/ Insert(c) \/ InsertFails(c) \/ DropList(c) \/ DropPages(c)
               \/ ListCheck(c) \/ Delete(c)
      <3>1. Carries(c)
        BY <1>0, <2>1, CheckEffect, InsertStep, InsertFailsStep, DropListStep,
           DropPagesStep, ListCheckStep, DeleteStep, ZenonT(60)
      <3> QED
        BY <1>0, <3>1 DEF Carries
    <2>2. CASE Query(c) \/ Count(c) \/ QueryPage(c)
      <3>1. result'[c] = result[c]
        BY <1>0, <2>2, QueryStep, CountStep, QueryPageStep, Zenon
      <3> QED
        BY <1>0, <3>1
    <2>3. CASE Get(c)
      <3>1. /\ call[c].at = "get"
            /\ \/ list # NoList /\ Returned(c, Whole(list))
               \/ call'[c].at = "query"
        BY <1>0, <2>3, GetStep
      <3>2. CacheIsStoredBut(c)
        BY <3>1, AloneNow DEF Moving
      <3>3. list # NoList /\ result'[c] = Whole(list)
        BY <1>0, <3>1 DEF Returned
      <3>4. list = rows
        BY <3>1, <3>2, <3>3 DEF CacheIsStoredBut
      <3>5. call[c].kind \notin {"page", "search"}
        BY <1>0, <3>1 DEF Walks, Reading
      <3> QED
        BY <3>3, <3>4, <3>5 DEF ReadsStored
    <2>4. CASE Set(c)
      <3>1. call[c].at = "set" /\ Returned(c, Whole(call[c].items))
        BY <1>0, <2>4, SetStep
      <3>2. ReadIsStored(c)
        BY <3>1, AloneNow DEF Moving
      <3>3. result'[c] = Whole(rows)
        BY <3>1, <3>2 DEF Returned, ReadIsStored
      <3>4. call[c].kind \notin {"page", "search"}
        BY <1>0, <3>1 DEF Walks, Reading
      <3> QED
        BY <3>3, <3>4 DEF ReadsStored
    <2>5. CASE GetPage(c)
      <3>1. /\ call[c].at = "get page"
            /\ \/ /\ pages[call[c].page] # NoList
                  /\ Returned(c, pages[call[c].page])
               \/ call'[c].at = "count"
        BY <1>0, <2>5, GetPageStep
      <3>2. CacheIsStoredBut(c) /\ ReadIsStored(c)
        BY <3>1, AloneNow DEF Moving
      <3>3. /\ pages[call[c].page] # NoList
            /\ result'[c] = pages[call[c].page]
        BY <1>0, <3>1 DEF Returned
      <3>4. session /\ call[c].page \in Pages /\ call[c].kind = "page"
        BY <1>0, <3>1, <3>2 DEF Walks, ReadIsStored, Paging
      <3>5. pages[call[c].page] = PageOf(call[c].page)
        BY <3>1, <3>2, <3>3, <3>4 DEF CacheIsStoredBut
      <3> QED
        BY <3>3, <3>4, <3>5 DEF ReadsStored
    <2>6. CASE SetPage(c)
      <3>1. /\ call[c].at = "set page"
            /\ Returned(c, [items |-> call[c].items, total |-> call[c].total])
        BY <1>0, <2>6, SetPageStep
      <3>2. ReadIsStored(c)
        BY <3>1, AloneNow DEF Moving
      <3>3. result'[c] = PageOf(call[c].page)
        BY <3>1, <3>2 DEF Returned, ReadIsStored, PageOf
      <3>4. call[c].kind = "page"
        BY <1>0, <3>1 DEF Walks, Paging
      <3> QED
        BY <3>3, <3>4 DEF ReadsStored
    <2>7. CASE Search(c)
      <3>1. call[c].at = "search" /\ result'[c] = Whole(Reverse(rows))
        BY <1>0, <2>7, SearchStep DEF Returned
      <3>2. call[c].kind = "search"
        BY <1>0, <3>1 DEF Walks
      <3> QED
        BY <3>1, <3>2 DEF ReadsStored
    <2> QED
      BY <1>5, <2>1, <2>2, <2>3, <2>4, <2>5, <2>6, <2>7, Zenon DEF Step
  <1> QED
    BY <1>1, <1>2, <1>3, <1>4, <1>5, Zenon DEF Next

\* CreateMessage and DeleteSession drop what they make stale after the row is
\* written: calls that follow one another, with Redis up, read the rows as
\* they are, from the list, from each page and past both.
THEOREM AloneReadStored == Spec => AloneReadsStored
  <1>1. ASSUME CallInv, AloneInv, [Next]_vars
        PROVE  [\A c \in Calls : Returns(c) /\ alone /\ errors = 0 =>
                   result'[c] = CASE call[c].kind = "page" ->
                                         [items |-> Page(rows, call[c].page),
                                          total |-> Len(rows)]
                                  [] call[c].kind = "search" -> Whole(Reverse(rows))
                                  [] OTHER -> Whole(rows)]_vars
    <2>1. ASSUME NEW c \in Calls, Returns(c), alone, errors = 0
          PROVE  result'[c] = CASE call[c].kind = "page" ->
                                         [items |-> Page(rows, call[c].page),
                                          total |-> Len(rows)]
                                  [] call[c].kind = "search" -> Whole(Reverse(rows))
                                  [] OTHER -> Whole(rows)
      <3>1. ReadsStored(c)
        BY <1>1, <2>1, ReadsStep DEF Undisturbed
      <3>2. CASE call[c].kind = "page"
        BY <3>1, <3>2 DEF ReadsStored, PageOf
      <3>3. CASE call[c].kind = "search"
        BY <3>1, <3>3 DEF ReadsStored
      <3>4. CASE call[c].kind \notin {"page", "search"}
        BY <3>1, <3>4 DEF ReadsStored
      <3> QED
        BY <3>2, <3>3, <3>4
    <2> QED
      BY <2>1
  <1> QED
    BY <1>1, CallsAlways, AloneAlways, PTL DEF Spec, AloneReadsStored

-----------------------------------------------------------------------------
(* A stale value has a cause.                                               *)

\* What a call that was not overtaken has read is what is stored.
Fresh(c) ==
    c \notin overtaken =>
        /\ call[c].at = "set" => call[c].items = rows
        /\ call[c].at \in {"query page", "set page"} => call[c].total = Len(rows)
        /\ call[c].at = "set page" => call[c].items = Page(rows, call[c].page)

ListCause ==
    list \in {NoList, rows} \/ 0 \in spoilt \/ \E w \in Calls : call[w].at = "drop list"

PagesCause ==
    session => \A p \in Pages :
        \/ pages[p] \in {NoList, PageOf(p)}
        \/ p \in spoilt
        \/ \E w \in Calls : call[w].at \in {"drop list", "scan"}

CauseInv == ListCause /\ PagesCause /\ \A c \in Calls : Fresh(c)

LEMMA CauseIsEnough == CauseInv => StaleHasCause
  BY DEF CauseInv, ListCause, PagesCause, PageOf, StaleHasCause

LEMMA OthersFresh ==
    ASSUME NEW c \in Calls, OthersStay(c), \A d \in Calls : Fresh(d),
           rows' = rows, overtaken' = overtaken, Fresh(c)'
    PROVE  \A d \in Calls : Fresh(d)'
  <1>1. ASSUME NEW d \in Calls \ {c} PROVE Fresh(d)'
    <2>1. call'[d] = call[d]
      BY DEF OthersStay
    <2> QED
      BY <2>1 DEF Fresh
  <1> QED
    BY <1>1

\* A call that has nothing in its hands that it will store.
LEMMA NothingRead ==
    ASSUME NEW c, call'[c].at \notin {"set", "query page", "set page"} PROVE Fresh(c)'
  BY DEF Fresh

\* The list, when c only drops it or leaves it.
LEMMA ListKeepsCause ==
    ASSUME NEW c \in Calls, OthersStay(c), ListCause, rows' = rows,
           list' \in {NoList, list}, 0 \in spoilt => 0 \in spoilt',
           call[c].at = "drop list" => list' = NoList \/ 0 \in spoilt'
    PROVE  ListCause'
  <1>1. ASSUME NEW w \in Calls \ {c}, call[w].at = "drop list" PROVE ListCause'
    BY <1>1 DEF ListCause, OthersStay
  <1> QED
    BY <1>1 DEF ListCause

\* The pages, when c only drops them or leaves them.
LEMMA PagesKeepCause ==
    ASSUME NEW c \in Calls, OthersStay(c), PagesCause, rows' = rows, session' => session,
           \A p \in Pages : /\ pages'[p] \in {NoList, pages[p]}
                            /\ p \in spoilt => p \in spoilt',
           call[c].at \in {"drop list", "scan"} =>
               \/ ~session' \/ call'[c].at \in {"drop list", "scan"}
               \/ \A p \in Pages : pages'[p] = NoList \/ p \in spoilt'
    PROVE  PagesCause'
  <1>1. ASSUME NEW w \in Calls \ {c}, call[w].at \in {"drop list", "scan"} PROVE PagesCause'
    BY <1>1 DEF PagesCause, OthersStay
  <1> QED
    BY <1>1 DEF PagesCause, PageOf

\* A step that leaves the rows and the caches alone.
LEMMA QuietStep ==
    ASSUME NEW c \in Calls, OthersStay(c), CauseInv,
           UNCHANGED <<db, redis, causes>>, call[c].at \notin {"drop list", "scan"},
           Fresh(c)'
    PROVE  CauseInv'
  <1>1. /\ session' = session /\ rows' = rows /\ list' = list /\ pages' = pages
        /\ overtaken' = overtaken /\ spoilt' = spoilt
    BY DEF db, redis, causes
  <1>2. ListCause'
    BY <1>1, ListKeepsCause DEF CauseInv
  <1>3. PagesCause'
    BY <1>1, PagesKeepCause DEF CauseInv
  <1>4. \A d \in Calls : Fresh(d)'
    BY <1>1, OthersFresh DEF CauseInv
  <1> QED
    BY <1>2, <1>3, <1>4 DEF CauseInv

\* A step that changes the rows: its writer is to drop what that makes stale.
LEMMA WriteStep ==
    ASSUME NEW c \in Calls, CauseInv, OthersStay(c), call'[c].at = "drop list", Overtake,
           call[c].at \notin {"set", "query page", "set page"}
    PROVE  CauseInv'
  <1>1. ListCause' /\ PagesCause'
    BY DEF ListCause, PagesCause
  <1>2. ASSUME NEW d \in Calls PROVE Fresh(d)'
    <2>1. call'[d].at \in {"set", "query page", "set page"} => d \in overtaken'
      BY DEF Overtake, OthersStay
    <2> QED
      BY <2>1 DEF Fresh
  <1> QED
    BY <1>1, <1>2 DEF CauseInv

LEMMA CauseInvStep == CallInv /\ CauseInv /\ [Next]_vars => CauseInv'
  <1> SUFFICES ASSUME CallInv, CauseInv, [Next]_vars PROVE CauseInv'
    OBVIOUS
  <1>0. CoreType /\ \A c \in Calls : Walks(c)
    BY DEF CallInv
  <1>1. ASSUME NEW c \in Calls, Begin(c) PROVE CauseInv'
    <2>1. /\ call[c].at = "idle" /\ call'[c].at \in {"check", "transaction"}
          /\ \A d \in Calls \ {c} : call'[d] = call[d]
          /\ session' = session /\ rows' = rows /\ list' = list /\ pages' = pages
      BY <1>0, <1>1, BeginEffect DEF db, redis
    <2>2. overtaken' = overtaken /\ spoilt' = spoilt
      BY <1>1 DEF Begin, causes
    <2>3. \A w \in Calls : call[w].at \in {"drop list", "scan"} => call'[w] = call[w]
      BY <2>1
    <2>4. ListCause'
      BY <2>1, <2>2, <2>3 DEF CauseInv, ListCause
    <2>5. PagesCause'
      BY <2>1, <2>2, <2>3 DEF CauseInv, PagesCause, PageOf
    <2>6. \A d \in Calls \ {c} : Fresh(d)'
      BY <2>1, <2>2 DEF CauseInv, Fresh
    <2> QED
      BY <2>1, <2>4, <2>5, <2>6, NothingRead DEF CauseInv
  <1>2. ASSUME NEW c \in Calls, Step(c) PROVE CauseInv'
    <2>0. Walks(c) /\ Fresh(c) /\ ListCause /\ PagesCause /\ \A d \in Calls : Fresh(d)
      BY <1>0 DEF CauseInv
    <2>1. CASE Check(c)
      <3>1. /\ OthersStay(c) /\ call[c].at = "check" /\ UNCHANGED <<db, redis>>
            /\ call'[c].at \in {"done", AfterCheck(call[c].kind)}
        BY <1>0, <2>1, CheckEffect
      <3>2. UNCHANGED causes
        BY <2>1 DEF Check
      <3>3. Fresh(c)'
        BY <3>1, NothingRead DEF AfterCheck
      <3> QED
        BY <3>1, <3>2, <3>3, QuietStep
    <2>2. CASE Insert(c)
      <3>1. /\ OthersStay(c) /\ call[c].at = "insert" /\ call'[c].at = "drop list"
        BY <1>0, <2>2, InsertStep
      <3>2. Overtake
        BY <2>2 DEF Insert
      <3> QED
        BY <3>1, <3>2, WriteStep
    <2>3. CASE InsertFails(c)
      <3>1. /\ OthersStay(c) /\ call[c].at = "insert" /\ call'[c].at = "done"
            /\ UNCHANGED <<db, redis>>
        BY <1>0, <2>3, InsertFailsStep
      <3>2. UNCHANGED causes
        BY <2>3 DEF InsertFails
      <3> QED
        BY <3>1, <3>2, NothingRead, QuietStep
    <2>4. CASE DropList(c)
      <3>1. /\ OthersStay(c) /\ call[c].at = "drop list"
            /\ \/ call[c].kind = "delete" /\ call'[c].at = "done"
               \/ call[c].kind # "delete" /\ call'[c].at = "scan"
            /\ session' = session /\ rows' = rows /\ pages' = pages
        BY <1>0, <2>4, DropListStep DEF db
      <3>2. /\ overtaken' = overtaken
            /\ \/ list' = NoList /\ spoilt' = spoilt
               \/ list' = list /\ spoilt' = spoilt \cup {0}
        BY <2>4 DEF DropList, Left
      <3>3. call[c].kind = "delete" => ~session
        BY <2>0, <3>1 DEF Walks
      <3>4. ListCause'
        BY <2>0, <3>1, <3>2, ListKeepsCause
      <3>5. PagesCause'
        BY <2>0, <3>1, <3>2, <3>3, PagesKeepCause
      <3>6. \A d \in Calls : Fresh(d)'
        BY <2>0, <3>1, <3>2, NothingRead, OthersFresh
      <3> QED
        BY <3>4, <3>5, <3>6 DEF CauseInv
    <2>5. CASE DropPages(c)
      <3>1. /\ OthersStay(c) /\ call[c].at = "scan"
            /\ call'[c].at \in {"list check", "done"}
            /\ session' = session /\ rows' = rows /\ list' = list
            /\ \A p \in Pages : pages'[p] \in {NoList, pages[p]}
        BY <1>0, <2>5, DropPagesStep DEF db
      <3>2. /\ overtaken' = overtaken
            /\ spoilt \subseteq spoilt'
            /\ \A p \in Pages : pages'[p] = NoList \/ p \in spoilt'
        BY <2>5 DEF DropPages, Left
      <3>3. ListCause'
        BY <2>0, <3>1, <3>2, ListKeepsCause
      <3>4. PagesCause'
        BY <2>0, <3>1, <3>2, PagesKeepCause
      <3>5. \A d \in Calls : Fresh(d)'
        BY <2>0, <3>1, <3>2, NothingRead, OthersFresh
      <3> QED
        BY <3>3, <3>4, <3>5 DEF CauseInv
    <2>6. CASE ListCheck(c)
      <3>1. /\ OthersStay(c) /\ call[c].at = "list check" /\ UNCHANGED <<db, redis>>
            /\ call'[c].at \in {"get", "done"}
        BY <1>0, <2>6, ListCheckStep
      <3>2. UNCHANGED causes
        BY <2>6 DEF ListCheck
      <3> QED
        BY <3>1, <3>2, NothingRead, QuietStep
    <2>7. CASE Get(c)
      <3>1. /\ OthersStay(c) /\ call[c].at = "get" /\ UNCHANGED <<db, redis>>
            /\ call'[c].at \in {"query", "done"}
        BY <1>0, <2>7, GetStep DEF Returned
      <3>2. UNCHANGED causes
        BY <2>7 DEF Get
      <3> QED
        BY <3>1, <3>2, NothingRead, QuietStep
    <2>8. CASE Query(c)
      <3>1. /\ OthersStay(c) /\ call[c].at = "query" /\ UNCHANGED <<db, redis>>
            /\ call'[c].at = "set" /\ call'[c].items = rows
        BY <1>0, <2>8, QueryStep
      <3>2. UNCHANGED causes
        BY <2>8 DEF Query
      <3>3. Fresh(c)'
        BY <3>1 DEF Fresh, db
      <3> QED
        BY <3>1, <3>2, <3>3, QuietStep
    <2>9. CASE Set(c)
      <3>1. /\ OthersStay(c) /\ call[c].at = "set" /\ call'[c].at = "done"
            /\ session' = session /\ rows' = rows /\ pages' = pages
        BY <1>0, <2>9, SetStep DEF db, Returned
      <3>2. /\ overtaken' = overtaken
            /\ \/ list' = call[c].items /\ Stored(c, 0)
               \/ list' = list /\ spoilt' = spoilt
        BY <2>9 DEF Set
      <3>3. \A p \in Pages : p \in spoilt => p \in spoilt'
        BY <3>2, PageBounds DEF Stored
      <3>4. ListCause'
        <4>1. CASE list' = call[c].items /\ Stored(c, 0)
          BY <2>0, <3>1, <4>1 DEF Fresh, Stored, ListCause
        <4>2. CASE list' = list /\ spoilt' = spoilt
          BY <2>0, <3>1, <4>2, ListKeepsCause
        <4> QED
          BY <3>2, <4>1, <4>2
      <3>5. PagesCause'
        BY <2>0, <3>1, <3>3, PagesKeepCause
      <3>6. \A d \in Calls : Fresh(d)'
        BY <2>0, <3>1, <3>2, NothingRead, OthersFresh
      <3> QED
        BY <3>4, <3>5, <3>6 DEF CauseInv
    <2>10. CASE GetPage(c)
      <3>1. /\ OthersStay(c) /\ call[c].at = "get page" /\ UNCHANGED <<db, redis>>
            /\ call'[c].at \in {"count", "done"}
        BY <1>0, <2>0, <2>10, GetPageStep DEF Returned
      <3>2. UNCHANGED causes
        BY <2>10 DEF GetPage
      <3> QED
        BY <3>1, <3>2, NothingRead, QuietStep
    <2>11. CASE Count(c)
      <3>1. /\ OthersStay(c) /\ call[c].at = "count" /\ UNCHANGED <<db, redis>>
            /\ call'[c].at = "query page" /\ call'[c].total = Len(rows)
        BY <1>0, <2>11, CountStep
      <3>2. UNCHANGED causes
        BY <2>11 DEF Count
      <3>3. Fresh(c)'
        BY <3>1 DEF Fresh, db
      <3> QED
        BY <3>1, <3>2, <3>3, QuietStep
    <2>12. CASE QueryPage(c)
      <3>1. /\ OthersStay(c) /\ call[c].at = "query page" /\ UNCHANGED <<db, redis>>
            /\ call'[c].at = "set page" /\ call'[c].total = call[c].total
            /\ call'[c].items = Page(rows, call[c].page) /\ call'[c].page = call[c].page
        BY <1>0, <2>0, <2>12, QueryPageStep DEF OthersStay
      <3>2. UNCHANGED causes
        BY <2>12 DEF QueryPage
      <3>3. Fresh(c)'
        BY <2>0, <3>1, <3>2 DEF Fresh, db, causes
      <3> QED
        BY <3>1, <3>2, <3>3, QuietStep
    <2>13. CASE SetPage(c)
      <3> DEFINE v == [items |-> call[c].items, total |-> call[c].total]
                 q == call[c].page
      <3>1. /\ OthersStay(c) /\ call[c].at = "set page" /\ call'[c].at = "done"
            /\ session' = session /\ rows' = rows /\ list' = list
        BY <1>0, <2>0, <2>13, SetPageStep DEF db, Returned
      <3>2. /\ overtaken' = overtaken
            /\ \/ pages' = [pages EXCEPT ![q] = v] /\ Stored(c, q)
               \/ pages' = pages /\ spoilt' = spoilt
        BY <2>13 DEF SetPage
      <3>3. q \in Pages /\ q # 0
        BY <2>0, <3>1, PageBounds DEF Walks, Paging
      <3>4. c \notin overtaken => v = PageOf(q)
        BY <2>0, <3>1 DEF Fresh, PageOf
      <3> HIDE DEF v, q
      <3>5. ListCause'
        <4>1. 0 \in spoilt => 0 \in spoilt'
          BY <3>2, <3>3 DEF Stored
        <4> QED
          BY <2>0, <3>1, <4>1, ListKeepsCause
      <3>6. PagesCause'
        <4>1. CASE pages' = [pages EXCEPT ![q] = v] /\ Stored(c, q)
          <5>1. /\ \A p \in Pages \ {q} : pages'[p] = pages[p] /\ (p \in spoilt => p \in spoilt')
                /\ pages'[q] = v
            BY <1>0, <3>3, <4>1 DEF CoreType, Stored
          <5>2. v = PageOf(q) \/ q \in spoilt'
            BY <3>4, <4>1 DEF Stored
          <5>3. \A w \in Calls : call[w].at \in {"drop list", "scan"} => call'[w] = call[w]
            BY <3>1 DEF OthersStay
          <5>4. \A p : PageOf(p)' = PageOf(p)
            BY <3>1 DEF PageOf
          <5> QED
            BY <2>0, <3>1, <5>1, <5>2, <5>3, <5>4 DEF PagesCause
        <4>2. CASE pages' = pages /\ spoilt' = spoilt
          BY <2>0, <3>1, <4>2, PagesKeepCause
        <4> QED
          BY <3>2, <4>1, <4>2
      <3>7. \A d \in Calls : Fresh(d)'
        BY <2>0, <3>1, <3>2, NothingRead, OthersFresh
      <3> QED
        BY <3>5, <3>6, <3>7 DEF CauseInv
    <2>14. CASE Search(c)
      <3>1. /\ OthersStay(c) /\ call[c].at = "search" /\ UNCHANGED <<db, redis>>
            /\ call'[c].at = "done"
        BY <1>0, <2>14, SearchStep DEF Returned
      <3>2. UNCHANGED causes
        BY <2>14 DEF Search
      <3> QED
        BY <3>1, <3>2, NothingRead, QuietStep
    <2>15. CASE Delete(c)
      <3>1. OthersStay(c) /\ call[c].at = "transaction" /\ UNCHANGED redis
        BY <1>0, <2>15, DeleteStep
      <3>2. \/ call'[c].at = "drop list" /\ Overtake
            \/ call'[c].at = "done" /\ UNCHANGED <<db, overtaken>>
        <4>1. call \in [Calls -> CallState]
          BY <1>0 DEF CoreType, CallState
        <4> QED
          BY <2>15, <4>1 DEF Delete, Goto, CallState
      <3>3. spoilt' = spoilt
        BY <2>15 DEF Delete
      <3>4. CASE call'[c].at = "drop list" /\ Overtake
        BY <3>1, <3>4, WriteStep
      <3>5. CASE call'[c].at = "done" /\ UNCHANGED <<db, overtaken>>
        BY <3>1, <3>3, <3>5, NothingRead, QuietStep DEF causes
      <3> QED
        BY <3>2, <3>4, <3>5
    <2> QED
      BY <1>2, <2>1, <2>2, <2>3, <2>4, <2>5, <2>6, <2>7, <2>8, <2>9, <2>10, <2>11,
         <2>12, <2>13, <2>14, <2>15 DEF Step
  <1>3. CASE ExpireList \/ \E p \in Pages : ExpirePage(p)
    <2>1. /\ session' = session /\ rows' = rows /\ call' = call
          /\ list' \in {NoList, list}
          /\ \A p \in Pages : pages'[p] \in {NoList, pages[p]}
      BY <1>0, <1>3, ExpireStep DEF db
    <2>2. overtaken' = overtaken /\ spoilt' = spoilt
      BY <1>3 DEF ExpireList, ExpirePage, causes
    <2>3. ListCause' /\ PagesCause'
      BY <2>1, <2>2 DEF CauseInv, ListCause, PagesCause, PageOf
    <2>4. \A d \in Calls : Fresh(d)'
      BY <2>1, <2>2 DEF CauseInv, Fresh
    <2> QED
      BY <2>3, <2>4 DEF CauseInv
  <1>4. CASE UNCHANGED vars
    BY <1>4 DEF CauseInv, ListCause, PagesCause, PageOf, Fresh, vars, db, redis, causes
  <1> QED
    BY <1>1, <1>2, <1>3, <1>4 DEF Next

\* A list or page in Redis that is not what MySQL holds is one that a write is
\* still to drop, one that a reader stored after rows it had read had changed,
\* or one that a failed command left: CreateMessage and DeleteSession drop the
\* rest, for any number of pages and calls in any order.
THEOREM StaleValuesHaveCause == Spec => []StaleHasCause
  <1>1. Init => CauseInv
    <2> SUFFICES ASSUME Init PROVE CauseInv
      OBVIOUS
    <2>1. \A c \in Calls : call[c].at = "idle"
      BY DEF Init, Nothing
    <2>2. \A c \in Calls : Fresh(c)
      BY <2>1 DEF Fresh
    <2> QED
      BY <2>2 DEF Init, CauseInv, ListCause, PagesCause
  <1>2. CallInv /\ CauseInv /\ [Next]_vars => CauseInv'
    BY CauseInvStep
  <1> QED
    BY <1>1, <1>2, CauseIsEnough, CallsAlways, PTL DEF Spec
====
