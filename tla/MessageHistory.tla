---------------------------- MODULE MessageHistory ----------------------------
(***************************************************************************)
(* The messages of one session: the rows in MySQL, the cached full list    *)
(* and the cached pages in Redis, and the calls of MessageService and      *)
(* SessionService that read and write them. Every call runs in a goroutine *)
(* of some process and is cut into its statements and Redis commands; the  *)
(* rows are changed first and the caches then dropped, by nobody's lock.   *)
(*                                                                         *)
(* A message is named by the call that stored it. Rows are kept in the     *)
(* order of created_at, the time at which the program builds the INSERT;   *)
(* messages of calls that overlap may arrive in the other order.           *)
(***************************************************************************)
EXTENDS Integers, Sequences, FiniteSets, SequencesExt, PageOffset

CONSTANTS
    Calls,        \* the calls that are made
    Pages,        \* page numbers that are asked for
    PageSize,
    MaxInFlight,  \* how many calls overlap
    MaxErrors,    \* bound: how often a Redis command fails
    NoList        \* no value in the cache

ASSUME PageAssumption  == Pages \subseteq 1 .. MaxInt /\ PageSize \in 1 .. MaxInt
ASSUME BoundAssumption == MaxInFlight \in Nat \ {0} /\ MaxErrors \in Nat
ASSUME NoListAssumption ==
    NoList \notin Seq(Calls) /\ NoList \notin [items : Seq(Calls), total : Nat]

\* What a call returns, and what a page is cached as.
PageValue == [items : Seq(Calls), total : Nat]

VARIABLES
    session,  \* does the sessions row exist
    rows,     \* the messages rows of the session
    list,     \* the value of session:messages:<id>
    pages,    \* the values of session:messages_page:<id>:p:..:s:..
    call,     \* call[c]: what it does, where it is, what it has read
    result,   \* result[c]: what it returned
    began,    \* began[c]: did the session exist when it began (history)
    alone,    \* no two calls overlapped yet                   (history)
    overtaken, \* readers that have read rows which are others by now (history)
    spoilt,   \* values that such a reader has stored, or that a failed command has
              \* left in a cache; 0 is the list               (history)
    errors

db    == <<session, rows>>
redis == <<list, pages>>
past  == <<began, alone>>
causes == <<overtaken, spoilt>>
vars  == <<db, redis, call, result, past, causes, errors>>

Kinds == {"create", "list", "page", "search", "turn", "delete"}

Nothing == [kind |-> "none", at |-> "idle", page |-> 0, items |-> <<>>, total |-> 0,
            after |-> 0]

Init ==
    /\ session = TRUE
    /\ rows = <<>>
    /\ list = NoList
    /\ pages = [p \in Pages |-> NoList]
    /\ call = [c \in Calls |-> Nothing]
    /\ result = [c \in Calls |-> NoList]
    /\ began = [c \in Calls |-> FALSE]
    /\ alone = TRUE
    /\ overtaken = {}
    /\ spoilt = {}
    /\ errors = 0

InFlight == {c \in Calls : call[c].at \notin {"idle", "done"}}

Goto(c, from, to) ==
    /\ call[c].at = from
    /\ call' = [call EXCEPT ![c].at = to]

Return(c, value) ==
    /\ call' = [call EXCEPT ![c].at = "done"]
    /\ result' = [result EXCEPT ![c] = value]

Whole(s) == [items |-> s, total |-> Len(s)]

RedisFails == errors < MaxErrors /\ errors' = errors + 1
RedisWorks == UNCHANGED errors

\* The rows change behind those who have read them.
Overtake == overtaken' = {c \in Calls : call[c].at \in {"set", "query page", "set page"}}

\* c has stored the value.
Stored(c, key) == spoilt' = IF c \in overtaken THEN spoilt \cup {key} ELSE spoilt \ {key}

Left(keys) == spoilt' = spoilt \cup keys

\* "turn" is what a chat request does: CreateMessage and then ListMessages.
Begin(c) ==
    /\ call[c].at = "idle"
    /\ Cardinality(InFlight) < MaxInFlight
    /\ \E k \in Kinds, p \in Pages \cup {0} :
           /\ k = "page" <=> p # 0
           /\ call' = [call EXCEPT ![c] = [Nothing EXCEPT !.kind = k, !.page = p,
                           !.at = IF k = "delete" THEN "transaction" ELSE "check"]]
    /\ began' = [began EXCEPT ![c] = session]
    /\ alone' = (alone /\ InFlight = {})
    /\ UNCHANGED <<db, redis, result, causes, errors>>

-----------------------------------------------------------------------------
(* CreateMessage                                                           *)

AfterCheck(k) ==
    CASE k = "list" -> "get"
      [] k = "page" -> "get page"
      [] k = "search" -> "search"
      [] OTHER      -> "insert"

\* Mutant: the session is not looked up.
MutCheck(c) ==
    /\ Goto(c, "check", AfterCheck(call[c].kind))
    /\ UNCHANGED <<db, redis, result, past, causes, errors>>

\* GetByIDAndUserID: all other calls give up without the session. A message
\* is dated from here on, later than those that are stored.
Check(c) ==
    /\ \/ ~session /\ Goto(c, "check", "done")
       \/ /\ session
          /\ call[c].at = "check"
          /\ call' = [call EXCEPT ![c].at = AfterCheck(call[c].kind),
                                  ![c].after = IF AfterCheck(call[c].kind) = "insert"
                                               THEN Len(rows) ELSE 0]
    /\ UNCHANGED <<db, redis, result, past, causes, errors>>

\* The insert, which knows nothing of the sessions table any more.
Insert(c) ==
    /\ call[c].at = "insert"
    /\ call' = [call EXCEPT ![c].at = "drop list", ![c].after = 0]
    /\ \E i \in 0 .. Len(rows) :
           /\ call[c].after <= i \/ ~session
           /\ rows' = InsertAt(rows, i + 1, c)
    /\ Overtake
    /\ UNCHANGED <<session, redis, result, past, spoilt, errors>>

InsertFails(c) ==
    /\ Goto(c, "insert", "done")
    /\ UNCHANGED <<db, redis, result, past, causes, errors>>

\* Mutant: the list is left in the cache.
MutDropList(c) ==
    /\ Goto(c, "drop list", IF call[c].kind = "delete" THEN "done" ELSE "scan")
    /\ UNCHANGED <<db, redis, result, past, causes, errors>>

\* DeleteMessages, its error dropped; DeleteSession stops here.
DropList(c) ==
    /\ Goto(c, "drop list", IF call[c].kind = "delete" THEN "done" ELSE "scan")
    /\ \/ list' = NoList /\ RedisWorks /\ UNCHANGED spoilt
       \/ UNCHANGED list /\ RedisFails /\ Left({0})
    /\ UNCHANGED <<db, pages, result, past, overtaken>>

AfterScan(k) == IF k = "turn" THEN "list check" ELSE "done"

\* Mutant: only the first page is dropped.
MutDropPages(c) ==
    /\ Goto(c, "scan", AfterScan(call[c].kind))
    /\ pages' = [pages EXCEPT ![1] = NoList]
    /\ UNCHANGED <<db, list, result, past, causes, errors>>

\* DeleteMessagePageCaches: SCAN returns every key that is there all the
\* time; a failing command leaves the rest as it is.
DropPages(c) ==
    /\ Goto(c, "scan", AfterScan(call[c].kind))
    /\ \/ /\ pages' = [p \in Pages |-> NoList]
          /\ RedisWorks /\ UNCHANGED spoilt
       \/ /\ \E left \in SUBSET Pages :
                 /\ pages' = [p \in Pages |-> IF p \in left THEN pages[p] ELSE NoList]
                 /\ Left(left)
          /\ RedisFails
    /\ UNCHANGED <<db, list, result, past, overtaken>>

-----------------------------------------------------------------------------
(* ListMessages: cache aside.                                              *)

\* ListMessages looks the session up for itself.
ListCheck(c) ==
    /\ Goto(c, "list check", IF session THEN "get" ELSE "done")
    /\ UNCHANGED <<db, redis, result, past, causes, errors>>

Get(c) ==
    /\ \/ /\ call[c].at = "get" /\ list # NoList
          /\ Return(c, Whole(list))
          /\ RedisWorks
       \/ /\ Goto(c, "get", "query")
          /\ \/ list = NoList /\ RedisWorks
             \/ RedisFails
          /\ UNCHANGED result
    /\ UNCHANGED <<db, redis, past, causes>>

Query(c) ==
    /\ call[c].at = "query"
    /\ call' = [call EXCEPT ![c].at = "set", ![c].items = rows]
    /\ UNCHANGED <<db, redis, result, past, causes, errors>>

\* SetMessages, its error dropped.
Set(c) ==
    /\ call[c].at = "set"
    /\ Return(c, Whole(call[c].items))
    /\ \/ list' = call[c].items /\ RedisWorks /\ Stored(c, 0)
       \/ UNCHANGED <<list, spoilt>> /\ RedisFails
    /\ UNCHANGED <<db, pages, past, overtaken>>

-----------------------------------------------------------------------------
(* ListMessagesPage: the total and the items are two queries.              *)

Page(s, p) ==
    LET from == Skipped(p, PageSize)
        last == from + PageSize
    IN  SubSeq(s, from + 1, IF Len(s) < last THEN Len(s) ELSE last)

GetPage(c) ==
    LET cached == pages[call[c].page] IN
    /\ \/ /\ call[c].at = "get page" /\ cached # NoList
          /\ Return(c, cached)
          /\ RedisWorks
       \/ /\ Goto(c, "get page", "count")
          /\ \/ cached = NoList /\ RedisWorks
             \/ RedisFails
          /\ UNCHANGED result
    /\ UNCHANGED <<db, redis, past, causes>>

\* Mutant: a total that starts at -1.
MutCount(c) ==
    /\ call[c].at = "count"
    /\ call' = [call EXCEPT ![c].at = "query page", ![c].total = Len(rows) - 1]
    /\ UNCHANGED <<db, redis, result, past, causes, errors>>

Count(c) ==
    /\ call[c].at = "count"
    /\ call' = [call EXCEPT ![c].at = "query page", ![c].total = Len(rows)]
    /\ UNCHANGED <<db, redis, result, past, causes, errors>>

QueryPage(c) ==
    /\ call[c].at = "query page"
    /\ call' = [call EXCEPT ![c].at = "set page",
                            ![c].items = Page(rows, call[c].page)]
    /\ UNCHANGED <<db, redis, result, past, causes, errors>>

\* Mutant: the total is counted after the items were read.
MutSetPage(c) ==
    LET value == [items |-> call[c].items, total |-> Len(rows)] IN
    /\ call[c].at = "set page"
    /\ Return(c, value)
    /\ \/ /\ pages' = [pages EXCEPT ![call[c].page] = value]
          /\ RedisWorks /\ Stored(c, call[c].page)
       \/ UNCHANGED <<pages, spoilt>> /\ RedisFails
    /\ UNCHANGED <<db, list, past, overtaken>>

SetPage(c) ==
    LET value == [items |-> call[c].items, total |-> call[c].total] IN
    /\ call[c].at = "set page"
    /\ Return(c, value)
    /\ \/ /\ pages' = [pages EXCEPT ![call[c].page] = value]
          /\ RedisWorks /\ Stored(c, call[c].page)
       \/ UNCHANGED <<pages, spoilt>> /\ RedisFails
    /\ UNCHANGED <<db, list, past, overtaken>>

-----------------------------------------------------------------------------
\* SearchMessages, past the caches and newest first. The keyword is one that
\* all messages contain, the limit one they do not reach.
Search(c) ==
    /\ call[c].at = "search"
    /\ Return(c, Whole(Reverse(rows)))
    /\ UNCHANGED <<db, redis, past, causes, errors>>

-----------------------------------------------------------------------------
(* DeleteSession: one transaction for messages and session.                *)

Delete(c) ==
    /\ \/ /\ session /\ Goto(c, "transaction", "drop list")
          /\ session' = FALSE
          /\ rows' = <<>>
          /\ Overtake
       \/ /\ Goto(c, "transaction", "done")
          /\ UNCHANGED <<db, overtaken>>
    /\ UNCHANGED <<redis, result, past, spoilt, errors>>

-----------------------------------------------------------------------------
(* The TTLs of the values.                                                 *)

ExpireList ==
    /\ list # NoList
    /\ list' = NoList
    /\ UNCHANGED <<db, pages, call, result, past, causes, errors>>

ExpirePage(p) ==
    /\ pages[p] # NoList
    /\ pages' = [pages EXCEPT ![p] = NoList]
    /\ UNCHANGED <<db, list, call, result, past, causes, errors>>

Step(c) ==
    \/ Check(c) \/ Insert(c) \/ InsertFails(c) \/ DropList(c) \/ DropPages(c)
    \/ ListCheck(c) \/ Get(c) \/ Query(c) \/ Set(c)
    \/ GetPage(c) \/ Count(c) \/ QueryPage(c) \/ SetPage(c)
    \/ Search(c)
    \/ Delete(c)

Next ==
    \/ \E c \in Calls : Begin(c) \/ Step(c)
    \/ ExpireList
    \/ \E p \in Pages : ExpirePage(p)

Spec == Init /\ [][Next]_vars

-----------------------------------------------------------------------------
\* Where a call can be.
Reading == {"get", "query", "set"}
Paging  == {"get page", "count", "query page", "set page"}
Writing == {"insert", "drop list", "scan", "list check"}
Stages  == Reading \cup Paging \cup Writing
               \cup {"idle", "check", "search", "transaction", "done"}

TypeOK ==
    /\ session \in BOOLEAN
    /\ rows \in Seq(Calls)
    /\ list \in Seq(Calls) \cup {NoList}
    /\ pages \in [Pages -> PageValue \cup {NoList}]
    /\ call \in [Calls -> [kind : Kinds \cup {"none"}, at : Stages,
                           page : Nat, items : Seq(Calls), total : Nat, after : Nat]]
    /\ result \in [Calls -> PageValue \cup {NoList}]
    /\ began \in [Calls -> BOOLEAN]
    /\ alone \in BOOLEAN
    /\ overtaken \in SUBSET Calls
    /\ spoilt \in SUBSET (Pages \cup {0})
    /\ errors \in Nat

Returns(c) == call[c].at # "done" /\ call'[c].at = "done" /\ result'[c] # NoList

\* As long as no two calls overlapped and Redis works, every call reads what
\* is stored, through either cache: a write drops what it makes stale, for
\* each page. A chat turn therefore sends the model its own user message.
AloneReadsStored ==
    [][\A c \in Calls : Returns(c) /\ alone /\ errors = 0 =>
           result'[c] = CASE call[c].kind = "page" ->
                                 [items |-> Page(rows, call[c].page), total |-> Len(rows)]
                          [] call[c].kind = "search" -> Whole(Reverse(rows))
                          [] OTHER -> Whole(rows)]_vars

\* However reads and writes overlap and Redis fails: a page, cached or just
\* read, of a session that exists has as many messages as its own total says
\* it must have, although total and items are two queries, and only messages
\* of the session.
PageHoldsItsTotal ==
    LET Holds(p, v) ==
            /\ v.total <= Len(rows)
            /\ Len(Page(SubSeq(rows, 1, v.total), p)) <= Len(v.items)
            /\ ToSet(v.items) \subseteq ToSet(rows)
    IN  session =>
            /\ \A p \in Pages : pages[p] # NoList => Holds(p, pages[p])
            /\ \A c \in Calls : call[c].kind = "page" /\ result[c] # NoList =>
                   Holds(call[c].page, result[c])

\* Nobody who asks after a session was deleted is given its messages, although
\* DeleteSession leaves the cached pages where they are.
DeletedIsNotRead == \A c \in Calls : result[c] # NoList => began[c]

\* A cache that does not say what is stored has one of three causes: a write
\* that is still to drop the value, a reader that stored it although the rows
\* had changed since it read them, or a command that failed to drop it. There
\* is no fourth: once the writers are through, nothing but such a race or an
\* error leaves a stale value behind, on no page and in no order of calls.
StaleHasCause ==
    LET Drops(places) == \E w \in Calls : call[w].at \in places
        Value(p) == [items |-> Page(rows, p), total |-> Len(rows)]
    IN  /\ list \notin {NoList, rows} => 0 \in spoilt \/ Drops({"drop list"})
        /\ session => \A p \in Pages : pages[p] \notin {NoList, Value(p)} =>
               p \in spoilt \/ Drops({"drop list", "scan"})
=============================================================================
