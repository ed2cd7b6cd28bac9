-------------------------- MODULE RequestChain_proofs --------------------------
(* Proofs about RequestChain, for any requests, addresses, limits and users: *)
(* whose token did what, one account per name, the metrics and the limits.   *)
EXTENDS RequestChain, FiniteSetTheorems, SequenceTheorems, TLAPS

\* The proofs about one window, for both.
IPWindow  == INSTANCE RateWindow_proofs
                 WITH Keys <- {Address[r] : r \in Requests}, Limit <- IPLimit,
                      count <- ipCount, ends <- ipEnds, grants <- ipGrants
LLMWindow == INSTANCE RateWindow_proofs
                 WITH Keys <- UserIds \cup {CozeUser}, Limit <- LLMLimit,
                      count <- llmCount, ends <- llmEnds, grants <- llmGrants

-----------------------------------------------------------------------------
(* The inductive invariant.                                                 *)

AllKinds == UserKinds \cup GuestKinds \cup CozeKinds

\* Where a handler is at work.
Handling == {"handler", "insert", "items", "reread", "llm limit", "model"}

Codes == {0, 200, 400, 401, 404, 429, 500}

\* TypeOK but for the windows, and what a request carries.
CoreType ==
    /\ users \in SUBSET User
    /\ rows \in Seq(Row)
    /\ at \in [Requests -> Places]
    /\ user \in [Requests -> UserIds \cup {CozeUser, NoUser}]
    /\ status \in [Requests -> Codes]
    /\ seen \in [Requests -> Nat]
    /\ tokens \in SUBSET Token
    /\ requests \in Nat /\ errors \in Nat
    /\ panicked \in SUBSET Requests
    /\ stream \in [Requests -> StreamPlaces]
    /\ between \in [Requests -> Nat]
    /\ now \in Nat
    /\ DOMAIN input = Requests

\* What a request carries is what its kind is sent with.
InputFits(i) ==
    /\ i.kind \in AllKinds
    /\ i.token \in tokens \cup {NoToken}
    /\ i.kind = "create" => i.table \in Tables
    /\ i.kind = "list" => i.query \in Queries
    /\ i.kind \in {"create", "rename"} => i.title \in Titles
    /\ i.kind = "register" => i.name \in Names /\ i.password \in Passwords
    /\ i.kind \in CozeKinds => i.name \in {NoUser, FirstUser}

\* A request on its way is where its kind may be.
Way(r) ==
    /\ at[r] \notin {"client", "done"} => InputFits(input[r])
    /\ at[r] = "auth" => input[r].kind \in UserKinds
    /\ at[r] = "insert" => input[r].kind = "register"
    /\ at[r] = "items" => input[r].kind = "list"
    /\ at[r] = "reread" => input[r].kind = "rename"
    /\ at[r] \in {"llm limit", "model"} => input[r].kind \in ChatKinds \cup {"ask"}
    /\ r \in panicked => at[r] = "done"

\* The user ID of a user's route is there only by a token of this server; past
\* the first check of a service, it is there.
Identity(r) ==
    /\ at[r] \in {"client", "auth", "api key"} => user[r] = NoUser
    /\ at[r] = "handler" /\ input[r].kind \in CozeKinds => user[r] = NoUser
    /\ user[r] # NoUser /\ input[r].kind \in UserKinds =>
           /\ user[r] \in UserIds
           /\ input[r].token \in tokens /\ user[r] = input[r].token.user
    /\ at[r] \in {"items", "reread", "llm limit", "model"} /\ input[r].kind \in UserKinds =>
           user[r] # NoUser
    /\ at[r] \in {"llm limit", "model"} => user[r] \in UserIds \cup {CozeUser}
    /\ at[r] = "return" /\ input[r].kind \in UserKinds \ StreamKinds /\ status[r] = 200 =>
           user[r] # NoUser

\* Only a streamed route leaves a goroutine behind, which is at work when the
\* handler has returned, and gets past the service's check with a user only.
StreamInv(r) ==
    /\ stream[r] # "none" => at[r] \in {"return", "done"} /\ input[r].kind \in StreamKinds
    /\ stream[r] \in {"llm limit", "model", "done"} => user[r] # NoUser

\* Who is told that the account is theirs has it.
Registered(r) ==
    at[r] = "return" /\ input[r].kind = "register" /\ status[r] = 200 =>
        [id |-> r, name |-> input[r].name, password |-> input[r].password] \in users

RequestInv(r) == Way(r) /\ Identity(r) /\ StreamInv(r) /\ Registered(r)

\* One account per name and per request, and the request is past its insert;
\* tokens and records are those of accounts.
AccountInv ==
    /\ OneAccountPerName
    /\ \A u, v \in users : u.id = v.id => u = v
    /\ \A u \in users : \/ u.id = FirstUser
                        \/ u.id \in Requests /\ at[u.id] \in {"return", "done"}
    /\ \A t \in tokens : \E u \in users : u.id = t.user
    /\ \A row \in ToSet(rows) : \E u \in users : u.id = row.owner

ChainInv == CoreType /\ AccountInv /\ \A r \in Requests : RequestInv(r)

Logged == {r \in Requests : at[r] = "done"} \ panicked

MetricsInv == IsFiniteSet(Logged) /\ MetricsAddUp

WindowInv == IPWindow!Inv /\ LLMWindow!Inv

-----------------------------------------------------------------------------
(* What the parts promise.                                                  *)

\* Everything a client can send fits its kind.
LEMMA SendFits ==
    ASSUME CoreType, NEW r \in Requests, NEW kind, Send(r, kind)
    PROVE  /\ input'[r].kind = kind /\ InputFits(input'[r])
           /\ DOMAIN input' = Requests
           /\ \A q \in Requests \ {r} : input'[q] = input[q]
  <1> DEFINE i == input'[r]
             Sent(f) == input' = [input EXCEPT ![r] = [f EXCEPT !.kind = kind]]
  <1>0. AnyTitle \in Titles
    BY RequestAssumption DEF AnyTitle
  <1>1. ASSUME NEW f, Sent(f)
        PROVE  /\ i = [f EXCEPT !.kind = kind]
               /\ DOMAIN input' = Requests
               /\ \A q \in Requests \ {r} : input'[q] = input[q]
    BY <1>1 DEF CoreType
  <1> USE DEF Nothing, AllKinds, UserKinds, ChatKinds, StreamKinds, GuestKinds, CozeKinds
  <1>2. CASE /\ kind \in GuestKinds
             /\ \E l \in Logins :
                    Sent([Nothing EXCEPT !.name = l[1], !.password = l[2]])
    <2>0. \A l \in Logins : l[1] \in Names /\ l[2] \in Passwords
      BY RequestAssumption
    <2>1. PICK n \in Names, p \in Passwords : Sent([Nothing EXCEPT !.name = n, !.password = p])
      BY <1>2, <2>0
    <2> HIDE DEF Sent
    <2>2. /\ i = [[Nothing EXCEPT !.name = n, !.password = p] EXCEPT !.kind = kind]
          /\ DOMAIN input' = Requests
          /\ \A q \in Requests \ {r} : input'[q] = input[q]
      BY <2>1, <1>1
    <2>3. i.kind = kind /\ i.name = n /\ i.password = p /\ i.token = NoToken
      BY <2>2
    <2> QED
      BY <1>2, <2>2, <2>3 DEF InputFits
  <1>3. CASE /\ kind = "create"
             /\ \E c \in Credentials, t \in Tables :
                    Sent([Nothing EXCEPT !.token = c, !.table = t, !.title = AnyTitle])
    <2>1. PICK c \in Credentials, t \in Tables :
              Sent([Nothing EXCEPT !.token = c, !.table = t, !.title = AnyTitle])
      BY <1>3
    <2> HIDE DEF Sent
    <2>2. /\ i = [[Nothing EXCEPT !.token = c, !.table = t, !.title = AnyTitle]
                      EXCEPT !.kind = kind]
          /\ DOMAIN input' = Requests
          /\ \A q \in Requests \ {r} : input'[q] = input[q]
      BY <2>1, <1>1
    <2>3. i.kind = kind /\ i.token = c /\ i.table = t /\ i.title = AnyTitle
      BY <2>2
    <2> QED
      BY <1>0, <1>3, <2>2, <2>3 DEF InputFits, Credentials
  <1>4. CASE /\ kind \in {"get", "delete"}
             /\ \E c \in Credentials, k \in Known :
                    Sent([Nothing EXCEPT !.token = c, !.table = k[1], !.id = k[2]])
    <2>1. PICK c \in Credentials, k \in Known :
              Sent([Nothing EXCEPT !.token = c, !.table = k[1], !.id = k[2]])
      BY <1>4
    <2> HIDE DEF Sent
    <2>2. /\ i = [[Nothing EXCEPT !.token = c, !.table = k[1], !.id = k[2]] EXCEPT !.kind = kind]
          /\ DOMAIN input' = Requests
          /\ \A q \in Requests \ {r} : input'[q] = input[q]
      BY <2>1, <1>1
    <2>3. i.kind = kind /\ i.token = c
      BY <2>2
    <2> QED
      BY <1>4, <2>2, <2>3 DEF InputFits, Credentials
  <1>5. CASE /\ kind = "list"
             /\ \E c \in Credentials, t \in Tables, q \in Queries :
                    Sent([Nothing EXCEPT !.token = c, !.table = t, !.query = q])
    <2>1. PICK c \in Credentials, t \in Tables, q \in Queries :
              Sent([Nothing EXCEPT !.token = c, !.table = t, !.query = q])
      BY <1>5
    <2> HIDE DEF Sent
    <2>2. /\ i = [[Nothing EXCEPT !.token = c, !.table = t, !.query = q] EXCEPT !.kind = kind]
          /\ DOMAIN input' = Requests
          /\ \A p \in Requests \ {r} : input'[p] = input[p]
      BY <2>1, <1>1
    <2>3. i.kind = kind /\ i.token = c /\ i.query = q
      BY <2>2
    <2> QED
      BY <1>5, <2>2, <2>3 DEF InputFits, Credentials
  <1>6. CASE /\ kind \in {"rename", "chat", "stream"}
             /\ \E c \in Credentials, k \in Known,
                   t \in IF kind = "rename" THEN Titles ELSE {AnyTitle} :
                    Sent([Nothing EXCEPT !.token = c, !.id = k[2], !.title = t])
    <2>1. PICK c \in Credentials, k \in Known,
               t \in IF kind = "rename" THEN Titles ELSE {AnyTitle} :
              Sent([Nothing EXCEPT !.token = c, !.id = k[2], !.title = t])
      BY <1>6
    <2> HIDE DEF Sent
    <2>2. /\ i = [[Nothing EXCEPT !.token = c, !.id = k[2], !.title = t] EXCEPT !.kind = kind]
          /\ DOMAIN input' = Requests
          /\ \A q \in Requests \ {r} : input'[q] = input[q]
      BY <2>1, <1>1
    <2>3. i.kind = kind /\ i.token = c /\ i.title = t
      BY <2>2
    <2>4. t \in Titles
      BY <1>0
    <2> QED
      BY <1>6, <2>2, <2>3, <2>4 DEF InputFits, Credentials
  <1>7. CASE /\ kind \in CozeKinds
             /\ \E n \in {NoUser, FirstUser}, k \in {NoUser, CozeKey} :
                    Sent([Nothing EXCEPT !.name = n, !.password = k])
    <2>1. PICK n \in {NoUser, FirstUser}, k \in {NoUser, CozeKey} :
              Sent([Nothing EXCEPT !.name = n, !.password = k])
      BY <1>7
    <2> HIDE DEF Sent
    <2>2. /\ i = [[Nothing EXCEPT !.name = n, !.password = k] EXCEPT !.kind = kind]
          /\ DOMAIN input' = Requests
          /\ \A q \in Requests \ {r} : input'[q] = input[q]
      BY <2>1, <1>1
    <2>3. i.kind = kind /\ i.name = n /\ i.token = NoToken
      BY <2>2
    <2> QED
      BY <1>7, <2>2, <2>3 DEF InputFits
  <1>8. CASE /\ kind \in {"complete", "stream complete"}
             /\ \E c \in Credentials : Sent([Nothing EXCEPT !.token = c])
    <2>1. PICK c \in Credentials : Sent([Nothing EXCEPT !.token = c])
      BY <1>8
    <2> HIDE DEF Sent
    <2>2. /\ i = [[Nothing EXCEPT !.token = c] EXCEPT !.kind = kind]
          /\ DOMAIN input' = Requests
          /\ \A q \in Requests \ {r} : input'[q] = input[q]
      BY <2>1, <1>1
    <2>3. i.kind = kind /\ i.token = c
      BY <2>2
    <2> QED
      BY <1>8, <2>2, <2>3 DEF InputFits, Credentials
  <1> QED
    BY <1>2, <1>3, <1>4, <1>5, <1>6, <1>7, <1>8 DEF Send

-----------------------------------------------------------------------------
(* The handlers.                                                            *)

\* Request r goes on, or is answered.
Moved(r, to, code) ==
    /\ at' \in [Requests -> Places] /\ status' \in [Requests -> Codes]
    /\ seen' \in [Requests -> Nat]
    /\ at'[r] = to /\ status'[r] = code
    /\ \A q \in Requests \ {r} : at'[q] = at[q] /\ status'[q] = status[q]

LEMMA ReplyMoves ==
    ASSUME CoreType, NEW r \in Requests, NEW from, NEW code \in Codes, Reply(r, from, code)
    PROVE  at[r] = from /\ Moved(r, "return", code)
  BY DEF CoreType, Reply, Goto, Moved, Places

LEMMA ContinueMoves ==
    ASSUME CoreType, NEW r \in Requests, NEW to \in Places, NEW value \in Nat,
           Continue(r, to, value)
    PROVE  Moved(r, to, status[r])
  BY DEF CoreType, Continue, Moved

LEMMA WrittenType ==
    ASSUME CoreType, Written \/ between' = between PROVE between' \in [Requests -> Nat]
  <1>1. \A q \in Requests : between[q] \in Nat
    BY DEF CoreType
  <1>2. \A q \in Requests : (IF at[q] = "items" THEN between[q] + 1 ELSE 0) \in Nat
    BY <1>1
  <1>3. CASE Written
    <2>1. between' = [q \in Requests |-> IF at[q] = "items" THEN between[q] + 1 ELSE 0]
      BY <1>3, Zenon DEF Written
    <2> QED
      BY <1>2, <2>1
  <1>4. CASE between' = between
    BY <1>4, Zenon DEF CoreType
  <1> QED
    BY <1>3, <1>4

\* What a handler does to the accounts, tokens and records.
TablesGrow ==
    /\ users' \in SUBSET User /\ users \subseteq users'
    /\ tokens' \in SUBSET Token /\ tokens \subseteq tokens'
    /\ rows' \in Seq(Row)

\* Requests that do not move keep their part of the invariant.
LEMMA OthersInv ==
    ASSUME NEW r \in Requests, NEW q \in Requests \ {r}, RequestInv(q), CoreType,
           at'[q] = at[q], status'[q] = status[q], user'[q] = user[q], input'[q] = input[q],
           stream'[q] = stream[q], q \in panicked' => q \in panicked,
           users \subseteq users', tokens \subseteq tokens'
    PROVE  RequestInv(q)'
  <1>1. Way(q)'
    BY DEF RequestInv, Way, InputFits
  <1>2. Identity(q)'
    BY DEF RequestInv, Identity
  <1>3. Registered(q)'
    BY DEF RequestInv, Registered
  <1>4. StreamInv(q)'
    BY DEF RequestInv, StreamInv
  <1> QED
    BY <1>1, <1>2, <1>3, <1>4 DEF RequestInv

\* Where it may go on to, and who may be served.
Onward(r, to, code) ==
    \/ /\ to = "return"
       /\ code = 200 => /\ input[r].kind # "register"
                        /\ input[r].kind \in UserKinds \ StreamKinds => user[r] # NoUser
    \/ to = "insert" /\ input[r].kind = "register"
    \/ to = "items" /\ input[r].kind = "list" /\ user[r] # NoUser
    \/ to = "reread" /\ input[r].kind = "rename" /\ user[r] # NoUser
    \/ /\ to \in {"llm limit", "model"} /\ input[r].kind \in ChatKinds \cup {"ask"}
       /\ user[r] \in UserIds \cup {CozeUser}
       /\ input[r].kind \in ChatKinds => user[r] # NoUser

\* A step of a handler that leaves the accounts alone.
LEMMA Proceeds ==
    ASSUME ChainInv, NEW r \in Requests, at[r] \in Handling,
           NEW to, NEW code, Moved(r, to, code),
           now' = now, input' = input, user' = user, users' = users, stream' = stream,
           requests' = requests, errors' = errors, panicked' = panicked,
           between' \in [Requests -> Nat],
           tokens' \in SUBSET Token, tokens \subseteq tokens',
           \A t \in tokens' : \E u \in users : u.id = t.user,
           rows' \in Seq(Row),
           \A row \in ToSet(rows') : \E u \in users : u.id = row.owner,
           Onward(r, to, code)
    PROVE  ChainInv'
  <1>0. CoreType /\ RequestInv(r)
    BY DEF ChainInv
  <1>1. CoreType'
    BY <1>0 DEF CoreType, Moved
  <1>2. AccountInv'
    <2>1. OneAccountPerName' /\ (\A u, v \in users : u.id = v.id => u = v)'
      BY DEF ChainInv, AccountInv, OneAccountPerName
    <2>2. (\A u \in users : \/ u.id = FirstUser
                            \/ u.id \in Requests /\ at[u.id] \in {"return", "done"})'
      BY DEF ChainInv, AccountInv, Handling, Moved
    <2> QED
      BY <2>1, <2>2 DEF AccountInv
  <1>3. ASSUME NEW q \in Requests, q # r PROVE RequestInv(q)'
    BY <1>0, <1>3, OthersInv DEF ChainInv, Moved
  <1>4. RequestInv(r)'
    <2>1. at'[r] = to /\ status'[r] = code /\ at[r] \notin {"client", "done"}
      BY DEF Moved, Handling
    <2>2. to \notin {"client", "done", "auth", "api key", "handler"}
      BY DEF Onward
    <2>3. Way(r)'
      BY <1>0, <2>1, <2>2, ZenonT(60) DEF RequestInv, Way, InputFits, Onward
    <2>4. Identity(r)'
      BY <1>0, <2>1, <2>2
         DEF RequestInv, Identity, UserKinds, ChatKinds, StreamKinds, CozeKinds, Onward
    <2>5. Registered(r)'
      BY <2>1, <2>2 DEF Registered, Onward
    <2>6. StreamInv(r)'
      <3>1. stream[r] = "none"
        BY <1>0 DEF RequestInv, StreamInv, Handling
      <3> QED
        BY <3>1 DEF StreamInv
    <2> QED
      BY <2>3, <2>4, <2>5, <2>6 DEF RequestInv
  <1> QED
    BY <1>1, <1>2, <1>3, <1>4 DEF ChainInv

\* A step of a handler that only reads.
ReadOnly ==
    /\ stream' = stream /\ now' = now /\ input' = input /\ user' = user
    /\ users' = users /\ rows' = rows
    /\ tokens' = tokens /\ requests' = requests /\ errors' = errors /\ panicked' = panicked
    /\ between' \in [Requests -> Nat]

LEMMA Reads ==
    ASSUME ChainInv, NEW r \in Requests, at[r] \in Handling,
           NEW to, NEW code, Moved(r, to, code), Onward(r, to, code), ReadOnly
    PROVE  ChainInv'
  <1>1. /\ tokens \in SUBSET Token /\ rows \in Seq(Row)
        /\ \A t \in tokens : \E u \in users : u.id = t.user
        /\ \A row \in ToSet(rows) : \E u \in users : u.id = row.owner
    BY DEF ChainInv, CoreType, AccountInv
  <1>2. /\ tokens' \in SUBSET Token /\ tokens \subseteq tokens' /\ rows' \in Seq(Row)
        /\ \A t \in tokens' : \E u \in users : u.id = t.user
        /\ \A row \in ToSet(rows') : \E u \in users : u.id = row.owner
    BY <1>1 DEF ReadOnly
  <1> QED
    BY <1>2, Proceeds DEF ReadOnly

\* Who may be answered that all went well.
MayServe(r) ==
    /\ input[r].kind # "register"
    /\ input[r].kind \in UserKinds \ StreamKinds => user[r] # NoUser

LEMMA Answers ==
    ASSUME ChainInv, NEW r \in Requests, NEW from \in Handling, NEW code \in Codes,
           Reply(r, from, code), code = 200 => MayServe(r), ReadOnly
    PROVE  ChainInv'
  <1>1. CoreType
    BY DEF ChainInv
  <1>2. at[r] \in Handling /\ Moved(r, "return", code)
    BY <1>1, ReplyMoves
  <1>3. Onward(r, "return", code)
    BY DEF Onward, MayServe
  <1> QED
    BY <1>2, <1>3, Reads

LEMMA Serves ==
    ASSUME ChainInv, NEW r \in Requests, NEW from \in Handling,
           Reply(r, from, 200), MayServe(r), ReadOnly
    PROVE  ChainInv'
  <1>1. 200 \in Codes
    BY DEF Codes
  <1> QED
    BY <1>1, Answers

LEMMA ServedMoves ==
    ASSUME CoreType, NEW r \in Requests, NEW from, Reply(r, from, 200)
    PROVE  at[r] = from /\ Moved(r, "return", 200)
  <1>1. 200 \in Codes
    BY DEF Codes
  <1> QED
    BY <1>1, ReplyMoves

LEMMA FailedMoves ==
    ASSUME CoreType, NEW r \in Requests, NEW from, Reply(r, from, 500)
    PROVE  at[r] = from /\ Moved(r, "return", 500)
  <1>1. 500 \in Codes
    BY DEF Codes
  <1> QED
    BY <1>1, ReplyMoves

LEMMA GoesOn ==
    ASSUME ChainInv, NEW r \in Requests, at[r] \in Handling, NEW to \in Places,
           NEW value \in Nat, Continue(r, to, value), Onward(r, to, status[r]), ReadOnly
    PROVE  ChainInv'
  <1>1. CoreType
    BY DEF ChainInv
  <1> QED
    BY <1>1, ContinueMoves, Reads

LEMMA Here ==
    ASSUME ChainInv, NEW r \in Requests
    PROVE  /\ CoreType /\ Way(r) /\ Identity(r)
           /\ StreamInv(r)
           /\ between \in [Requests -> Nat] /\ status[r] \in Codes
           /\ user[r] \in UserIds \cup {CozeUser, NoUser}
  BY DEF ChainInv, RequestInv, CoreType

Refusals == Codes \ {0, 200}

\* A statement that failed, or found nothing.
LEMMA Refuses ==
    ASSUME ChainInv, NEW r \in Requests, NEW from \in Handling, NEW code \in Refusals,
           Reply(r, from, code), ReadOnly
    PROVE  ChainInv'
  BY Answers DEF Refusals

LEMMA Members ==
    /\ 400 \in Refusals /\ 401 \in Refusals /\ 404 \in Refusals /\ 429 \in Refusals
    /\ 500 \in Refusals /\ 200 \in Codes /\ 500 \in Codes
    /\ {"insert", "items", "reread", "llm limit", "model"} \subseteq Places
    /\ "handler" \in Handling /\ "items" \in Handling /\ "reread" \in Handling
    /\ "insert" \in Handling /\ "llm limit" \in Handling /\ "model" \in Handling
  BY DEF Codes, Places, Handling, Refusals

LEMMA RegisterInv == ASSUME ChainInv, NEW r \in Requests, Register(r) PROVE ChainInv'
  <1>1. at[r] \in Handling /\ input[r].kind = "register" /\ ReadOnly
    BY Here DEF Register, Handles, Handling, ReadOnly, Unchanged, Elsewhere, tables
  <1>2. CASE Continue(r, "insert", 0)
    <2>1. Onward(r, "insert", status[r])
      BY <1>1 DEF Onward
    <2> QED
      BY <1>1, <1>2, <2>1, GoesOn, Members, ZenonT(60)
  <1>3. CASE Reply(r, "handler", 400)
    BY <1>1, <1>3, Refuses, Members, ZenonT(60)
  <1> QED
    BY <1>2, <1>3 DEF Register

LEMMA GetInv == ASSUME ChainInv, NEW r \in Requests, Get(r) PROVE ChainInv'
  <1>1. input[r].kind = "get" /\ ReadOnly
    BY Here DEF Get, Handles, ReadOnly, Unchanged, Elsewhere, tables
  <1>2. CASE Owns(r) /\ Reply(r, "handler", 200)
    <2>1. MayServe(r)
      BY <1>1, <1>2 DEF MayServe, Owns, HasUser
    <2> QED
      BY <1>1, <1>2, <2>1, Serves, Members, ZenonT(60)
  <1>3. CASE Reply(r, "handler", 404)
    BY <1>1, <1>3, Refuses, Members, ZenonT(60)
  <1> QED
    BY <1>2, <1>3 DEF Get

LEMMA ListInv == ASSUME ChainInv, NEW r \in Requests, List(r) PROVE ChainInv'
  <1>1. at[r] \in Handling /\ input[r].kind = "list" /\ ReadOnly
    BY Here DEF List, Handles, Handling, ReadOnly, Unchanged, Elsewhere, tables
  <1>2. CASE HasUser(r) /\ Continue(r, "items", CountRows(input[r].table, user[r]))
    <2>1. Onward(r, "items", status[r])
      BY <1>1, <1>2 DEF Onward, HasUser
    <2>2. CountRows(input[r].table, user[r]) \in Nat
      <3>1. rows \in Seq(Row)
        BY Here DEF CoreType
      <3>2. IsFiniteSet(DOMAIN rows)
        BY <3>1, FS_Interval
      <3> QED
        BY <3>2, FS_Subset, FS_CardinalityType DEF CountRows, OwnRows
    <2> QED
      BY <1>1, <1>2, <2>1, <2>2, GoesOn, Members, ZenonT(60)
  <1>3. CASE Reply(r, "handler", 500)
    BY <1>1, <1>3, Refuses, Members, ZenonT(60)
  <1> QED
    BY <1>2, <1>3 DEF List

LEMMA ItemsInv == ASSUME ChainInv, NEW r \in Requests, Items(r) PROVE ChainInv'
  <1>1. at[r] = "items" /\ ReadOnly
    BY Here DEF Items, Reply, Goto, ReadOnly, Unchanged, Elsewhere, tables
  <1>2. input[r].kind = "list" /\ user[r] # NoUser
    BY <1>1, Here DEF Way, Identity, UserKinds, ChatKinds, StreamKinds
  <1> DEFINE page == Cardinality(ListRows(input[r].table, user[r], input[r].query))
  <1>3. page \in Nat
    <2>1. rows \in Seq(Row)
      BY Here DEF CoreType
    <2>2. IsFiniteSet(DOMAIN rows)
      BY <2>1, FS_Interval
    <2> QED
      BY <2>2, FS_Subset, FS_CardinalityType DEF ListRows, OwnRows
  <1> HIDE DEF page
  <1>4. CASE /\ Goto(r, "items", "return")
             /\ status' = [status EXCEPT ![r] = 200]
             /\ seen' = [seen EXCEPT ![r] = page]
    <2>1. Moved(r, "return", 200)
      <3>1. /\ at \in [Requests -> Places] /\ status \in [Requests -> Codes]
            /\ seen \in [Requests -> Nat] /\ "return" \in Places /\ 200 \in Codes
        <4>1. CoreType
          BY Here
        <4> QED
          BY <4>1 DEF CoreType, Places, Codes
      <3> QED
        BY <3>1, <1>3, <1>4 DEF Goto, Moved
    <2>2. Onward(r, "return", 200)
      BY <1>2 DEF Onward
    <2> QED
      BY <1>1, <2>1, <2>2, Reads, Members, ZenonT(60)
  <1>5. CASE Reply(r, "items", 500)
    BY <1>1, <1>5, Refuses, Members, ZenonT(60)
  <1> QED
    BY <1>4, <1>5 DEF Items, page

LEMMA RereadInv == ASSUME ChainInv, NEW r \in Requests, Reread(r) PROVE ChainInv'
  <1>1. at[r] = "reread" /\ ReadOnly
    BY Here DEF Reread, Reply, Goto, ReadOnly, Unchanged, Elsewhere, tables
  <1>2. MayServe(r)
    BY <1>1, Here DEF Way, Identity, MayServe, UserKinds, ChatKinds, StreamKinds
  <1>3. Reply(r, "reread", 200) \/ Reply(r, "reread", 404)
    BY DEF Reread
  <1>4. CASE Reply(r, "reread", 200)
    BY <1>1, <1>2, <1>4, Serves, Members, ZenonT(60)
  <1>5. CASE Reply(r, "reread", 404) \/ Reply(r, "reread", 500)
    BY <1>1, <1>5, Refuses, Members, ZenonT(60)
  <1> QED
    BY <1>3, <1>4, <1>5

LEMMA ChatInv == ASSUME ChainInv, NEW r \in Requests, Chat(r) PROVE ChainInv'
  <1>1. at[r] \in Handling /\ input[r].kind \in ChatKinds /\ ReadOnly
    BY Here DEF Chat, Handling, ReadOnly, Unchanged, Elsewhere, tables
  <1>2. CASE HasUser(r) /\ Continue(r, "llm limit", 0)
    <2>1. user[r] \in UserIds /\ user[r] # NoUser
      BY <1>1, <1>2, Here DEF Identity, HasUser, UserKinds, ChatKinds, StreamKinds
    <2>2. Onward(r, "llm limit", status[r])
      BY <1>1, <2>1 DEF Onward
    <2> QED
      BY <1>1, <1>2, <2>2, GoesOn, Members, ZenonT(60)
  <1>3. CASE Reply(r, "handler", 500)
    BY <1>1, <1>3, Refuses, Members, ZenonT(60)
  <1> QED
    BY <1>2, <1>3 DEF Chat

LEMMA ModelInv == ASSUME ChainInv, NEW r \in Requests, Model(r) PROVE ChainInv'
  <1>1. at[r] = "model" /\ ReadOnly
    BY Here DEF Model, Reply, Goto, ReadOnly, Unchanged, Elsewhere, tables
  <1>2. MayServe(r)
    BY <1>1, Here DEF Way, Identity, MayServe, ChatKinds
  <1>3. Reply(r, "model", 200) \/ Reply(r, "model", 404) \/ Reply(r, "model", 500)
    BY DEF Model
  <1>4. CASE Reply(r, "model", 200)
    BY <1>1, <1>2, <1>4, Serves, Members, ZenonT(60)
  <1>5. CASE Reply(r, "model", 404) \/ Reply(r, "model", 500)
    BY <1>1, <1>5, Refuses, Members, ZenonT(60)
  <1> QED
    BY <1>3, <1>4, <1>5

LEMMA LimitLLMInv == ASSUME ChainInv, NEW r \in Requests, LimitLLM(r) PROVE ChainInv'
  <1>1. at[r] \in Handling /\ at[r] = "llm limit" /\ ReadOnly
    BY Here DEF LimitLLM, Handling, ReadOnly, tables
  <1>2. /\ input[r].kind \in ChatKinds \cup {"ask"} /\ user[r] \in UserIds \cup {CozeUser}
        /\ input[r].kind \in ChatKinds => user[r] # NoUser
    BY <1>1, Here DEF Way, Identity, UserKinds, ChatKinds, StreamKinds
  <1>3. CASE Continue(r, "model", 0)
    <2>1. Onward(r, "model", status[r])
      BY <1>2 DEF Onward
    <2> QED
      BY <1>1, <1>3, <2>1, GoesOn, Members, ZenonT(60)
  <1>4. CASE Reply(r, "llm limit", 429) \/ Reply(r, "llm limit", 500)
    BY <1>1, <1>4, Refuses, Members, ZenonT(60)
  <1> QED
    BY <1>3, <1>4 DEF LimitLLM

\* A token is given out to an account only.
LEMMA TokenType ==
    ASSUME CoreType, NEW id \in UserIds PROVE GenerateToken(id, now) \in Token
  <1>1. Life \in Nat
    BY LifeAssumption DEF Life
  <1>2. now + Life \in Nat
    BY <1>1 DEF CoreType
  <1> QED
    BY <1>2 DEF GenerateToken, Token

LEMMA LoginInv == ASSUME ChainInv, NEW r \in Requests, Login(r) PROVE ChainInv'
  <1>1. /\ CoreType /\ at[r] \in Handling /\ input[r].kind = "login"
        /\ now' = now /\ input' = input /\ user' = user /\ users' = users /\ rows' = rows
        /\ stream' = stream /\ requests' = requests /\ errors' = errors /\ panicked' = panicked
        /\ between' \in [Requests -> Nat]
    BY Here DEF Login, Handles, Handling, Unchanged, Elsewhere, tables
  <1>2. CASE /\ \E u \in LogsIn(input[r].name, input[r].password) :
                    tokens' = tokens \cup {GenerateToken(u.id, now)}
             /\ Reply(r, "handler", 200)
    <2>1. PICK u \in users : tokens' = tokens \cup {GenerateToken(u.id, now)}
      BY <1>2 DEF LogsIn
    <2>2. u.id \in UserIds
      BY <1>1 DEF CoreType, User
    <2>3. tokens' \in SUBSET Token /\ tokens \subseteq tokens'
      BY <2>1, <2>2, <1>1, TokenType DEF CoreType
    <2>4. GenerateToken(u.id, now).user = u.id
      BY DEF GenerateToken
    <2>5. \A t \in tokens : \E v \in users : v.id = t.user
      BY DEF ChainInv, AccountInv
    <2>6. \A t \in tokens' : \E v \in users : v.id = t.user
      BY <2>1, <2>4, <2>5
    <2>7. rows' \in Seq(Row) /\ \A row \in ToSet(rows') : \E v \in users : v.id = row.owner
      BY <1>1 DEF ChainInv, AccountInv, CoreType
    <2>8. Moved(r, "return", 200)
      BY <1>1, <1>2, ServedMoves
    <2>9. Onward(r, "return", 200)
      BY <1>1 DEF Onward, UserKinds, ChatKinds, StreamKinds
    <2> QED
      BY <1>1, <2>3, <2>6, <2>7, <2>8, <2>9, Proceeds
  <1>3. CASE Reply(r, "handler", 401) /\ tokens' = tokens
    <2>1. ReadOnly
      BY <1>1, <1>3 DEF ReadOnly
    <2> QED
      BY <1>3, <2>1, Refuses, Members, ZenonT(60)
  <1> QED
    BY <1>2, <1>3 DEF Login

\* A step of a handler that writes rows, of owners that have an account.
Rewrites ==
    /\ now' = now /\ input' = input /\ user' = user /\ users' = users /\ tokens' = tokens
    /\ stream' = stream /\ requests' = requests /\ errors' = errors /\ panicked' = panicked
    /\ between' \in [Requests -> Nat]
    /\ rows' \in Seq(Row)
    /\ \A row \in ToSet(rows') : \E u \in users : u.id = row.owner

LEMMA Writes ==
    ASSUME ChainInv, NEW r \in Requests, at[r] \in Handling,
           NEW to, NEW code, Moved(r, to, code), Onward(r, to, code), Rewrites
    PROVE  ChainInv'
  <1>1. tokens \in SUBSET Token /\ \A t \in tokens : \E u \in users : u.id = t.user
    BY DEF ChainInv, CoreType, AccountInv
  <1>2. /\ tokens' \in SUBSET Token /\ tokens \subseteq tokens'
        /\ \A t \in tokens' : \E u \in users : u.id = t.user
    BY <1>1 DEF Rewrites
  <1> QED
    BY <1>2, Proceeds DEF Rewrites

\* Whoever has a user ID on a user's route has an account.
LEMMA HasAccount ==
    ASSUME ChainInv, NEW r \in Requests, at[r] \in Handling, user[r] # NoUser,
           input[r].kind \in UserKinds
    PROVE  /\ user[r] \in UserIds /\ \E u \in users : u.id = user[r]
           /\ input[r].token \in tokens /\ input[r].token.user = user[r]
  BY Here DEF Identity, ChainInv, AccountInv

LEMMA CreateInv == ASSUME ChainInv, NEW r \in Requests, Create(r) PROVE ChainInv'
  <1>1. /\ CoreType /\ at[r] \in Handling /\ input[r].kind = "create"
        /\ now' = now /\ input' = input /\ user' = user /\ users' = users /\ tokens' = tokens
        /\ stream' = stream /\ requests' = requests /\ errors' = errors /\ panicked' = panicked
    BY Here DEF Create, Handles, Handling, Unchanged, Elsewhere
  <1> DEFINE row == [id |-> r, table |-> input[r].table, owner |-> user[r],
                     title |-> input[r].title]
  <1>2. CASE /\ HasUser(r) /\ CreateRow(row)
             /\ Reply(r, "handler", 200) /\ Written
    <2>1. user[r] \in UserIds /\ \E u \in users : u.id = user[r]
      BY <1>1, <1>2, HasAccount DEF HasUser, UserKinds, ChatKinds, StreamKinds
    <2>2. input[r].table \in Tables /\ input[r].title \in Titles
      BY <1>1, Here DEF Way, InputFits, Handling
    <2>3. row \in Row
      BY <2>1, <2>2, RequestAssumption DEF Row
    <2>4. row.owner = user[r]
      OBVIOUS
    <2> HIDE DEF row
    <2>5. rows \in Seq(Row) /\ rows' = Append(rows, row)
      BY <1>1, <1>2 DEF CoreType, CreateRow
    <2>6. rows' \in Seq(Row)
      BY <2>3, <2>5
    <2>7. \A x \in ToSet(rows) : \E u \in users : u.id = x.owner
      BY DEF ChainInv, AccountInv
    <2>8. ToSet(rows') \subseteq ToSet(rows) \cup {row}
      BY <2>3, <2>5 DEF ToSet
    <2>9. \A x \in ToSet(rows') : \E u \in users : u.id = x.owner
      BY <2>1, <2>4, <2>7, <2>8
    <2>10. Rewrites
      BY <1>1, <1>2, <2>6, <2>9, WrittenType DEF Rewrites
    <2>11. Moved(r, "return", 200)
      BY <1>1, <1>2, ServedMoves
    <2>12. Onward(r, "return", 200)
      BY <1>1, <1>2 DEF Onward, HasUser
    <2> QED
      BY <1>1, <2>10, <2>11, <2>12, Writes
  <1>3. CASE /\ Reply(r, "handler", IF input[r].table = "sessions" THEN 500 ELSE 400)
             /\ UNCHANGED <<rows, between>>
    <2>1. ReadOnly
      BY <1>1, <1>3, Here DEF ReadOnly
    <2>2. Reply(r, "handler", 500) \/ Reply(r, "handler", 400)
      BY <1>3
    <2> QED
      BY <2>1, <2>2, Refuses, Members, ZenonT(60)
  <1> QED
    BY <1>2, <1>3 DEF Create

LEMMA RenameInv == ASSUME ChainInv, NEW r \in Requests, Rename(r) PROVE ChainInv'
  <1>1. /\ CoreType /\ at[r] \in Handling /\ input[r].kind = "rename"
        /\ now' = now /\ input' = input /\ user' = user /\ users' = users /\ tokens' = tokens
        /\ stream' = stream /\ requests' = requests /\ errors' = errors /\ panicked' = panicked
    BY Here DEF Rename, Handles, Handling, Unchanged, Elsewhere
  <1>2. CASE /\ Owns(r)
             /\ UpdateTitle(input[r].table, input[r].id, user[r], input[r].title)
             /\ Continue(r, "reread", 0) /\ Written
    <2>1. rows \in Seq(Row) /\ input[r].title \in Titles
      BY <1>1, Here DEF Way, InputFits, Handling, CoreType
    <2>2. /\ rows' \in Seq(Row) /\ DOMAIN rows' = DOMAIN rows
          /\ \A i \in DOMAIN rows : rows'[i].owner = rows[i].owner
      <3>1. ASSUME NEW i \in DOMAIN rows
            PROVE  /\ rows[i] \in Row /\ [rows[i] EXCEPT !.title = input[r].title] \in Row
                   /\ [rows[i] EXCEPT !.title = input[r].title].owner = rows[i].owner
        <4>1. rows[i] \in Row
          BY <2>1, ElementOfSeq
        <4> QED
          BY <4>1, <2>1 DEF Row
      <3>2. DOMAIN rows = 1 .. Len(rows) /\ Len(rows) \in Nat
        BY <2>1
      <3> QED
        BY <3>1, <3>2, <1>2 DEF UpdateTitle
    <2>3. \A x \in ToSet(rows) : \E u \in users : u.id = x.owner
      BY DEF ChainInv, AccountInv
    <2>4. \A x \in ToSet(rows') : \E u \in users : u.id = x.owner
      BY <2>2, <2>3 DEF ToSet
    <2>5. Rewrites
      BY <1>1, <1>2, <2>2, <2>4, WrittenType DEF Rewrites
    <2>6. Moved(r, "reread", status[r])
      BY <1>1, <1>2, ContinueMoves, Members, ZenonT(60)
    <2>7. Onward(r, "reread", status[r])
      BY <1>1, <1>2 DEF Onward, Owns, HasUser
    <2> QED
      BY <1>1, <2>5, <2>6, <2>7, Writes
  <1>3. CASE Reply(r, "handler", 404) /\ UNCHANGED <<rows, between>>
    <2>1. ReadOnly
      BY <1>1, <1>3, Here DEF ReadOnly
    <2> QED
      BY <1>3, <2>1, Refuses, Members, ZenonT(60)
  <1> QED
    BY <1>2, <1>3 DEF Rename

\* What is left when a row is taken out is rows that were there.
LEMMA PartOf ==
    ASSUME NEW S, NEW s \in Seq(S), NEW m \in 1 .. Len(s) + 1, NEW n \in 0 .. Len(s)
    PROVE  SubSeq(s, m, n) \in Seq(S) /\ ToSet(SubSeq(s, m, n)) \subseteq ToSet(s)
  <1>1. Len(s) \in Nat /\ DOMAIN s = 1 .. Len(s)
    OBVIOUS
  <1>2. CASE m <= n
    <2> DEFINE a == SubSeq(s, m, n)
    <2>1. a \in Seq(S) /\ Len(a) = n - m + 1 /\ \A k \in 1 .. n - m + 1 : a[k] = s[m + k - 1]
      BY <1>1, <1>2, SubSeqProperties
    <2> HIDE DEF a
    <2>2. DOMAIN a = 1 .. n - m + 1
      BY <2>1
    <2>3. \A k \in 1 .. n - m + 1 : m + k - 1 \in DOMAIN s
      BY <1>1, <1>2
    <2>4. \A k \in DOMAIN a : a[k] \in ToSet(s)
      BY <2>1, <2>2, <2>3 DEF ToSet
    <2>5. ToSet(a) \subseteq ToSet(s)
      BY <2>4 DEF ToSet
    <2> QED
      BY <2>1, <2>5 DEF a
  <1>3. CASE ~(m <= n)
    <2>1. SubSeq(s, m, n) = << >>
      BY <1>1, <1>3, SubSeqProperties
    <2> QED
      BY <2>1 DEF ToSet
  <1> QED
    BY <1>2, <1>3

LEMMA Both ==
    ASSUME NEW S, NEW a \in Seq(S), NEW b \in Seq(S)
    PROVE  a \o b \in Seq(S) /\ ToSet(a \o b) \subseteq ToSet(a) \cup ToSet(b)
  <1>1. a \o b \in Seq(S) /\ Len(a \o b) = Len(a) + Len(b)
    OBVIOUS
  <1>2. Len(a) \in Nat /\ Len(b) \in Nat
    OBVIOUS
  <1>3. \A k \in 1 .. Len(a) + Len(b) :
            (a \o b)[k] = IF k <= Len(a) THEN a[k] ELSE b[k - Len(a)]
    OBVIOUS
  <1>4. ASSUME NEW k \in 1 .. Len(a) + Len(b) PROVE (a \o b)[k] \in ToSet(a) \cup ToSet(b)
    <2>1. CASE k <= Len(a)
      BY <1>2, <1>3, <2>1 DEF ToSet
    <2>2. CASE ~(k <= Len(a))
      <3>1. k - Len(a) \in 1 .. Len(b)
        BY <1>2, <2>2
      <3> QED
        BY <3>1, <1>3, <2>2 DEF ToSet
    <2> QED
      BY <2>1, <2>2
  <1>5. DOMAIN (a \o b) = 1 .. Len(a) + Len(b)
    BY <1>1
  <1> QED
    BY <1>1, <1>4, <1>5 DEF ToSet

LEMMA Removed ==
    ASSUME NEW S, NEW s \in Seq(S), NEW i \in DOMAIN s
    PROVE  RemoveAt(s, i) \in Seq(S) /\ ToSet(RemoveAt(s, i)) \subseteq ToSet(s)
  <1>1. Len(s) \in Nat /\ i \in 1 .. Len(s)
    OBVIOUS
  <1>2. 1 \in 1 .. Len(s) + 1 /\ i - 1 \in 0 .. Len(s) /\ i + 1 \in 1 .. Len(s) + 1
        /\ Len(s) \in 0 .. Len(s)
    BY <1>1
  <1> DEFINE a == SubSeq(s, 1, i - 1)
             b == SubSeq(s, i + 1, Len(s))
  <1>3. a \in Seq(S) /\ b \in Seq(S) /\ ToSet(a) \subseteq ToSet(s) /\ ToSet(b) \subseteq ToSet(s)
    BY <1>2, PartOf
  <1>4. RemoveAt(s, i) = a \o b
    BY DEF RemoveAt
  <1> HIDE DEF a, b
  <1> QED
    BY <1>3, <1>4, Both

LEMMA DeleteInv == ASSUME ChainInv, NEW r \in Requests, Delete(r) PROVE ChainInv'
  <1>1. /\ CoreType /\ at[r] \in Handling /\ input[r].kind = "delete"
        /\ now' = now /\ input' = input /\ user' = user /\ users' = users /\ tokens' = tokens
        /\ stream' = stream /\ requests' = requests /\ errors' = errors /\ panicked' = panicked
    BY Here DEF Delete, Handles, Handling, Unchanged, Elsewhere
  <1>2. CASE /\ Owns(r) /\ DeleteRow(input[r].table, input[r].id, user[r])
             /\ Reply(r, "handler", 200) /\ Written
    <2>1. rows \in Seq(Row)
      BY <1>1 DEF CoreType
    <2>2. PICK i \in DOMAIN rows : rows' = RemoveAt(rows, i)
      BY <1>2 DEF DeleteRow
    <2>3. rows' \in Seq(Row) /\ ToSet(rows') \subseteq ToSet(rows)
      BY <2>1, <2>2, Removed
    <2>4. \A x \in ToSet(rows') : \E u \in users : u.id = x.owner
      BY <2>3 DEF ChainInv, AccountInv
    <2>5. Rewrites
      BY <1>1, <1>2, <2>3, <2>4, WrittenType DEF Rewrites
    <2>6. Moved(r, "return", 200)
      BY <1>1, <1>2, ServedMoves
    <2>7. Onward(r, "return", 200)
      BY <1>1, <1>2 DEF Onward, Owns, HasUser
    <2> QED
      BY <1>1, <2>5, <2>6, <2>7, Writes
  <1>3. CASE Reply(r, "handler", 404) /\ UNCHANGED <<rows, between>>
    <2>1. ReadOnly
      BY <1>1, <1>3, Here DEF ReadOnly
    <2> QED
      BY <1>3, <2>1, Refuses, Members, ZenonT(60)
  <1> QED
    BY <1>2, <1>3 DEF Delete

LEMMA InsertUserInv == ASSUME ChainInv, NEW r \in Requests, InsertUser(r) PROVE ChainInv'
  <1>1. /\ CoreType /\ at[r] = "insert" /\ at[r] \in Handling
        /\ now' = now /\ input' = input /\ user' = user /\ rows' = rows
        /\ stream' = stream /\ requests' = requests /\ errors' = errors /\ panicked' = panicked
        /\ between' \in [Requests -> Nat]
    BY Here DEF InsertUser, Handling, Unchanged, Elsewhere
  <1>2. /\ input[r].kind = "register" /\ input[r].name \in Names
        /\ input[r].password \in Passwords /\ r \notin panicked
    BY <1>1, Here DEF Way, InputFits
  <1>3. CASE /\ CreateUser(r, input[r].name, input[r].password)
             /\ tokens' = tokens \cup {GenerateToken(r, now)}
             /\ Reply(r, "insert", 200)
    <2> DEFINE new == [id |-> r, name |-> input[r].name, password |-> input[r].password]
    <2>1. r \in UserIds /\ r # FirstUser
      BY RequestAssumption
    <2>2. new \in User /\ new.id = r /\ new.name = input[r].name
      BY <1>2, <2>1 DEF User
    <2>3. users' = users \cup {new} /\ \A u \in users : u.name # input[r].name
      BY <1>3 DEF CreateUser, Taken
    <2>4. GenerateToken(r, now) \in Token /\ GenerateToken(r, now).user = r
      BY <1>1, <2>1, TokenType DEF GenerateToken
    <2>5. /\ tokens' = tokens \cup {GenerateToken(r, now)}
          /\ tokens' \in SUBSET Token /\ tokens \subseteq tokens'
      BY <1>1, <1>3, <2>4 DEF CoreType
    <2>6. Moved(r, "return", 200)
      BY <1>1, <1>3, ServedMoves
    <2> HIDE DEF new
    <2>7. CoreType'
      BY <1>1, <2>2, <2>3, <2>5, <2>6 DEF CoreType, Moved
    <2>8. AccountInv'
      <3>1. OneAccountPerName'
        BY <2>2, <2>3 DEF ChainInv, AccountInv, OneAccountPerName
      <3>2. \A u \in users : u.id # r
        BY <1>1, <2>1 DEF ChainInv, AccountInv
      <3>3. (\A u, v \in users : u.id = v.id => u = v)'
        BY <2>2, <2>3, <3>2 DEF ChainInv, AccountInv
      <3>4. (\A u \in users : \/ u.id = FirstUser
                              \/ u.id \in Requests /\ at[u.id] \in {"return", "done"})'
        <4> SUFFICES ASSUME NEW u \in users', u.id # FirstUser
                     PROVE  u.id \in Requests /\ at'[u.id] \in {"return", "done"}
          OBVIOUS
        <4>1. CASE u = new
          BY <4>1, <2>2, <2>6 DEF Moved
        <4>2. CASE u \in users
          BY <4>2, <3>2, <2>6 DEF Moved, ChainInv, AccountInv
        <4> QED
          BY <4>1, <4>2, <2>3
      <3>5. \A t \in tokens : \E u \in users : u.id = t.user
        BY DEF ChainInv, AccountInv
      <3>6. (\A t \in tokens : \E u \in users : u.id = t.user)'
        BY <2>2, <2>3, <2>4, <2>5, <3>5
      <3>7. (\A row \in ToSet(rows) : \E u \in users : u.id = row.owner)'
        BY <1>1, <2>3 DEF ChainInv, AccountInv
      <3> QED
        BY <3>1, <3>3, <3>4, <3>6, <3>7 DEF AccountInv
    <2>9. ASSUME NEW q \in Requests, q # r PROVE RequestInv(q)'
      BY <1>1, <2>3, <2>5, <2>6, <2>9, OthersInv DEF ChainInv, Moved
    <2>10. RequestInv(r)'
      <3>1. at'[r] = "return" /\ input'[r] = input[r] /\ user'[r] = user[r]
        BY <1>1, <2>6 DEF Moved
      <3>2. Way(r)'
        BY <3>1, <1>1, <1>2, <2>5, Here DEF Way, InputFits
      <3>3. Identity(r)'
        BY <3>1, <1>2 DEF Identity, UserKinds, ChatKinds, StreamKinds, CozeKinds
      <3>4. Registered(r)'
        BY <3>1, <2>3 DEF Registered, new
      <3>5. StreamInv(r)'
        BY <1>1, Here DEF StreamInv
      <3> QED
        BY <3>2, <3>3, <3>4, <3>5 DEF RequestInv
    <2> QED
      BY <2>7, <2>8, <2>9, <2>10 DEF ChainInv
  <1>4. CASE Reply(r, "insert", 400) /\ UNCHANGED <<users, tokens>>
    <2>1. ReadOnly
      BY <1>1, <1>4 DEF ReadOnly
    <2> QED
      BY <1>4, <2>1, Refuses, Members, ZenonT(60)
  <1> QED
    BY <1>3, <1>4 DEF InsertUser

-----------------------------------------------------------------------------
(* The steps around the handlers.                                           *)

\* What these leave alone of the tables.
SameTables == users' = users /\ rows' = rows /\ tokens' = tokens

\* Who has an account had one, and no request that was answered starts again.
LEMMA SameAccounts ==
    ASSUME ChainInv, NEW r \in Requests, SameTables,
           \A q \in Requests \ {r} : at'[q] = at[q],
           at[r] \in {"return", "done"} => at'[r] \in {"return", "done"}
    PROVE  AccountInv'
  <1>1. OneAccountPerName' /\ (\A u, v \in users : u.id = v.id => u = v)'
    BY DEF ChainInv, AccountInv, OneAccountPerName, SameTables
  <1>2. (\A u \in users : \/ u.id = FirstUser
                          \/ u.id \in Requests /\ at[u.id] \in {"return", "done"})'
    BY DEF ChainInv, AccountInv, SameTables
  <1>3. (\A t \in tokens : \E u \in users : u.id = t.user)'
    BY DEF ChainInv, AccountInv, SameTables
  <1>4. (\A row \in ToSet(rows) : \E u \in users : u.id = row.owner)'
    BY DEF ChainInv, AccountInv, SameTables
  <1> QED
    BY <1>1, <1>2, <1>3, <1>4 DEF AccountInv

\* A step of r alone.
Alone(r) ==
    /\ SameTables
    /\ \A q \in Requests \ {r} : /\ at'[q] = at[q] /\ status'[q] = status[q]
                                 /\ user'[q] = user[q] /\ input'[q] = input[q]
                                 /\ stream'[q] = stream[q]
    /\ panicked' \subseteq panicked \cup {r}

LEMMA AloneInv ==
    ASSUME ChainInv, NEW r \in Requests, Alone(r), CoreType', RequestInv(r)',
           at[r] \in {"return", "done"} => at'[r] \in {"return", "done"}
    PROVE  ChainInv'
  <1>1. AccountInv'
    BY SameAccounts DEF Alone
  <1>2. ASSUME NEW q \in Requests, q # r PROVE RequestInv(q)'
    <2>1. CoreType /\ RequestInv(q)
      BY DEF ChainInv
    <2>2. /\ at'[q] = at[q] /\ status'[q] = status[q] /\ user'[q] = user[q]
          /\ input'[q] = input[q] /\ stream'[q] = stream[q] /\ (q \in panicked' => q \in panicked)
          /\ users \subseteq users' /\ tokens \subseteq tokens'
      BY <1>2 DEF Alone, SameTables
    <2> QED
      BY <2>1, <2>2, <1>2, OthersInv
  <1> QED
    BY <1>1, <1>2 DEF ChainInv

LEMMA SearchInv == ASSUME ChainInv, NEW r \in Requests, Search(r) PROVE ChainInv'
  <1>1. /\ CoreType /\ at[r] = "handler" /\ input[r].kind = "search"
        /\ now' = now /\ input' = input /\ SameTables /\ stream' = stream
        /\ requests' = requests /\ errors' = errors /\ panicked' = panicked
        /\ between' \in [Requests -> Nat]
    BY Here DEF Search, Handles, SameTables, tables
  <1>2. InputFits(input[r]) /\ r \notin panicked
    BY <1>1, Here DEF Way
  <1>3. /\ user' \in [Requests -> UserIds \cup {CozeUser, NoUser}]
        /\ \A q \in Requests \ {r} : user'[q] = user[q]
    <2>1. input[r].name \in {NoUser, FirstUser} /\ FirstUser \in UserIds
      BY <1>1, <1>2, RequestAssumption DEF InputFits, CozeKinds
    <2> QED
      BY <2>1, <1>1 DEF Search, Resolve, CoreType
  <1>4. PICK code \in Codes : Moved(r, "return", code)
    <2>1. CASE Reply(r, "handler", 200)
      <3>1. Moved(r, "return", 200)
        BY <1>1, <2>1, ServedMoves
      <3> QED
        BY <3>1, Members, ZenonT(60)
    <2>2. CASE Reply(r, "handler", 500)
      <3>1. Moved(r, "return", 500)
        BY <1>1, <2>2, FailedMoves
      <3> QED
        BY <3>1, Members, ZenonT(60)
    <2> QED
      BY <2>1, <2>2 DEF Search
  <1>5. CoreType'
    BY <1>1, <1>3, <1>4 DEF CoreType, Moved, SameTables
  <1>6. RequestInv(r)'
    <2>1. at'[r] = "return" /\ input'[r] = input[r] /\ input[r].kind = "search"
      BY <1>1, <1>4 DEF Moved
    <2> QED
      BY <2>1, <1>1, <1>2, Here
         DEF RequestInv, Way, Identity, Registered, InputFits, UserKinds, ChatKinds, StreamKinds,
             SameTables, StreamInv
  <1>7. Alone(r)
    BY <1>1, <1>3, <1>4 DEF Alone, Moved
  <1> QED
    BY <1>1, <1>5, <1>6, <1>7, AloneInv

LEMMA AskInv == ASSUME ChainInv, NEW r \in Requests, Ask(r) PROVE ChainInv'
  <1>1. /\ CoreType /\ at[r] = "handler" /\ input[r].kind = "ask"
        /\ now' = now /\ input' = input /\ SameTables /\ stream' = stream
        /\ requests' = requests /\ errors' = errors /\ panicked' = panicked
        /\ between' \in [Requests -> Nat] /\ status[r] \in Codes
    BY Here DEF Ask, Handles, SameTables, tables
  <1>2. InputFits(input[r]) /\ r \notin panicked
    BY <1>1, Here DEF Way
  <1>3. /\ user' \in [Requests -> UserIds \cup {CozeUser, NoUser}]
        /\ \A q \in Requests \ {r} : user'[q] = user[q]
        /\ user'[r] \in UserIds \cup {CozeUser}
    <2>1. input[r].name \in {NoUser, FirstUser} /\ FirstUser \in UserIds
      BY <1>1, <1>2, RequestAssumption DEF InputFits, CozeKinds
    <2>2. NoUser # FirstUser
      BY <2>1, RequestAssumption
    <2> QED
      BY <2>1, <2>2, <1>1 DEF Ask, Resolve, CoreType
  <1>4. PICK to \in {"llm limit", "return"} : \E code \in Codes : Moved(r, to, code)
    <2>1. CASE Continue(r, "llm limit", 0)
      BY <1>1, <2>1, ContinueMoves, Members, ZenonT(60)
    <2>2. CASE Reply(r, "handler", 500)
      <3>1. Moved(r, "return", 500)
        BY <1>1, <2>2, FailedMoves
      <3> QED
        BY <3>1, Members, ZenonT(60)
    <2> QED
      BY <2>1, <2>2 DEF Ask
  <1>5. CoreType'
    BY <1>1, <1>3, <1>4 DEF CoreType, Moved, SameTables
  <1>6. RequestInv(r)'
    <2>1. /\ at'[r] \in {"llm limit", "return"} /\ input'[r] = input[r]
          /\ input[r].kind = "ask"
      BY <1>1, <1>4 DEF Moved
    <2> QED
      BY <2>1, <1>1, <1>2, <1>3, Here
         DEF RequestInv, Way, Identity, Registered, InputFits, UserKinds, ChatKinds, StreamKinds,
             SameTables, StreamInv
  <1>7. Alone(r)
    BY <1>1, <1>3, <1>4 DEF Alone, Moved
  <1> QED
    BY <1>1, <1>5, <1>6, <1>7, AloneInv

\* A middleware has written its status or none, and left the rest alone.
Middle(r, to) ==
    /\ \E code \in Codes : Moved(r, to, code)
    /\ now' = now /\ SameTables /\ between' = between /\ stream' = stream
    /\ requests' = requests /\ errors' = errors /\ panicked' = panicked

LEMMA PassMoves ==
    ASSUME ChainInv, NEW r \in Requests, NEW from, NEW to \in Places, Pass(r, from, to)
    PROVE  at[r] = from /\ Middle(r, to)
  <1>1. /\ CoreType /\ at[r] = from /\ status' = status /\ seen' = seen
        /\ at' = [at EXCEPT ![r] = to]
    BY Here DEF Pass, Goto
  <1>2. Moved(r, to, status[r]) /\ status[r] \in Codes
    BY <1>1 DEF CoreType, Moved
  <1> QED
    BY <1>1, <1>2 DEF Pass, SameTables, tables, Middle

Refused(r, from, to) == \E code \in {401, 429, 500} : Refuse(r, from, to, code)

LEMMA RefuseMoves ==
    ASSUME ChainInv, NEW r \in Requests, NEW from, NEW to \in Places,
           Refused(r, from, to)
    PROVE  at[r] = from /\ Middle(r, to) /\ user' = user
  <1>0. PICK code \in {401, 429, 500} : Refuse(r, from, to, code)
    BY DEF Refused
  <1>1. /\ CoreType /\ at[r] = from /\ seen' = seen
        /\ at' = [at EXCEPT ![r] = to] /\ status' = [status EXCEPT ![r] = code]
    BY <1>0, Here DEF Refuse, Goto
  <1>2. code \in Codes /\ Moved(r, to, code)
    BY <1>1 DEF CoreType, Moved, Codes
  <1> QED
    BY <1>0, <1>1, <1>2 DEF Refuse, SameTables, tables, Middle

LEMMA RateLimitInv == ASSUME ChainInv, NEW r \in Requests, RateLimit(r) PROVE ChainInv'
  <1>1. at[r] = "client"
    BY DEF RateLimit
  <1>2. PICK kind \in Kinds[r] :
            /\ Send(r, kind)
            /\ \/ Pass(r, "client", AfterLimit(kind)) /\ user' = user
               \/ Refused(r, "client", AfterLimit(kind))
    BY DEF RateLimit, Refused
  <1>3. kind \in AllKinds
    BY RequestAssumption DEF AllKinds
  <1>4. /\ input'[r].kind = kind /\ InputFits(input'[r]) /\ DOMAIN input' = Requests
        /\ \A q \in Requests \ {r} : input'[q] = input[q]
    BY <1>2, Here, SendFits
  <1> DEFINE to == AfterLimit(kind)
  <1>5. /\ to \in Places
        /\ \/ to = "auth" /\ kind \in UserKinds
           \/ to = "api key"
           \/ to = "handler" /\ kind \notin CozeKinds
    BY <1>3 DEF AfterLimit, AllKinds, UserKinds, ChatKinds, StreamKinds, GuestKinds,
                CozeKinds, Places
  <1> HIDE DEF to
  <1>7. Middle(r, to) /\ user' = user
    <2>1. CASE Pass(r, "client", to) /\ user' = user
      BY <2>1, <1>5, Here, PassMoves
    <2>2. CASE Refused(r, "client", to)
      BY <2>2, <1>5, RefuseMoves
    <2> QED
      BY <1>2, <2>1, <2>2 DEF to
  <1>8. CoreType'
    <2>1. CoreType
      BY Here
    <2> QED
      BY <2>1, <1>4, <1>7 DEF CoreType, Moved, Middle, SameTables
  <1>9. RequestInv(r)'
    <2>1. /\ at'[r] = to /\ user'[r] = NoUser /\ r \notin panicked /\ tokens' = tokens
          /\ panicked' = panicked
      BY <1>1, <1>7, Here DEF Moved, Middle, Way, Identity, SameTables
    <2>2. Way(r)'
      BY <2>1, <1>4, <1>5 DEF Way, InputFits
    <2>3. Identity(r)'
      BY <2>1, <1>5 DEF Identity
    <2>4. Registered(r)'
      BY <2>1, <1>5 DEF Registered
    <2>5. StreamInv(r)'
      BY <1>1, <1>7, Here DEF StreamInv, Middle
    <2> QED
      BY <2>2, <2>3, <2>4, <2>5 DEF RequestInv
  <1>10. Alone(r)
    BY <1>4, <1>7 DEF Alone, Moved, Middle
  <1> QED
    BY <1>1, <1>8, <1>9, <1>10, AloneInv

LEMMA AuthInv == ASSUME ChainInv, NEW r \in Requests, Auth(r) PROVE ChainInv'
  <1>1. /\ CoreType /\ at[r] = "auth" /\ input' = input
    BY Here DEF Auth, Pass, Refuse, Goto
  <1>2. /\ InputFits(input[r]) /\ r \notin panicked /\ input[r].kind \in UserKinds
        /\ user[r] = NoUser /\ status[r] \in Codes
        /\ user \in [Requests -> UserIds \cup {CozeUser, NoUser}]
    BY <1>1, Here DEF Way, Identity, CoreType
  <1>3. "handler" \in Places
    BY DEF Places
  <1>4. /\ Middle(r, "handler")
        /\ \A q \in Requests \ {r} : user'[q] = user[q]
        /\ user' \in [Requests -> UserIds \cup {CozeUser, NoUser}]
        /\ \/ user'[r] = NoUser
           \/ /\ user'[r] = input[r].token.user /\ input[r].token \in tokens
              /\ user'[r] \in UserIds
    <2>1. CASE /\ ParseToken(input[r].token, now)
               /\ Pass(r, "auth", "handler")
               /\ user' = [user EXCEPT ![r] = input[r].token.user]
      <3>1. input[r].token \in tokens
        BY <2>1, <1>2, RequestAssumption DEF ParseToken, InputFits, NoToken
      <3>2. \E u \in users : u.id = input[r].token.user
        BY <3>1 DEF ChainInv, AccountInv
      <3>3. input[r].token.user \in UserIds
        BY <3>2, <1>1 DEF CoreType, User
      <3>4. Middle(r, "handler")
        BY <2>1, <1>3, PassMoves
      <3> QED
        BY <2>1, <3>1, <3>3, <3>4, <1>2
    <2>2. CASE Refuse(r, "auth", "handler", 401)
      <3>1. Refused(r, "auth", "handler")
        BY <2>2 DEF Refused
      <3>2. Middle(r, "handler") /\ user' = user
        BY <3>1, <1>3, RefuseMoves
      <3> QED
        BY <3>2, <1>2
    <2> QED
      BY <2>1, <2>2 DEF Auth
  <1>5. CoreType'
    BY <1>1, <1>4 DEF CoreType, Moved, Middle, SameTables
  <1>6. RequestInv(r)'
    <2>1. /\ at'[r] = "handler" /\ input'[r] = input[r] /\ tokens' = tokens
          /\ panicked' = panicked
      BY <1>1, <1>4 DEF Moved, Middle, SameTables
    <2>2. Way(r)'
      BY <2>1, <1>2 DEF Way, InputFits
    <2>3. Identity(r)'
      BY <2>1, <1>2, <1>4 DEF Identity, UserKinds, ChatKinds, StreamKinds, CozeKinds
    <2>4. Registered(r)'
      BY <2>1 DEF Registered
    <2>5. StreamInv(r)'
      BY <1>1, <1>4, Here DEF StreamInv, Middle
    <2> QED
      BY <2>2, <2>3, <2>4, <2>5 DEF RequestInv
  <1>7. Alone(r)
    BY <1>1, <1>4 DEF Alone, Moved, Middle
  <1> QED
    BY <1>1, <1>5, <1>6, <1>7, AloneInv

LEMMA CozeAPIKeyInv == ASSUME ChainInv, NEW r \in Requests, CozeAPIKey(r) PROVE ChainInv'
  <1>1. CoreType /\ at[r] = "api key" /\ input' = input /\ status[r] \in Codes
    BY Here DEF CozeAPIKey, Pass, Refuse, Goto
  <1>2. InputFits(input[r]) /\ r \notin panicked /\ user[r] = NoUser
    BY <1>1, Here DEF Way, Identity
  <1>3. "handler" \in Places
    BY DEF Places
  <1>4. Middle(r, "handler") /\ user' = user
    <2>1. CASE Pass(r, "api key", "handler") /\ user' = user
      BY <2>1, <1>1, <1>3, PassMoves
    <2>2. CASE Refuse(r, "api key", "handler", 401)
      <3>1. Refused(r, "api key", "handler")
        BY <2>2, ZenonT(60) DEF Refused
      <3> QED
        BY <3>1, <1>3, RefuseMoves
    <2> QED
      BY <2>1, <2>2 DEF CozeAPIKey
  <1>5. CoreType'
    BY <1>1, <1>4 DEF CoreType, Moved, Middle, SameTables
  <1>6. RequestInv(r)'
    <2>1. /\ at'[r] = "handler" /\ input'[r] = input[r] /\ tokens' = tokens
          /\ panicked' = panicked /\ user'[r] = NoUser
      BY <1>1, <1>2, <1>4 DEF Moved, Middle, SameTables
    <2>2. Way(r)'
      BY <2>1, <1>2 DEF Way, InputFits
    <2>3. Identity(r)'
      BY <2>1 DEF Identity
    <2>4. Registered(r)'
      BY <2>1 DEF Registered
    <2>5. StreamInv(r)'
      BY <1>1, <1>4, Here DEF StreamInv, Middle
    <2> QED
      BY <2>2, <2>3, <2>4, <2>5 DEF RequestInv
  <1>7. Alone(r)
    BY <1>1, <1>4 DEF Alone, Moved, Middle
  <1> QED
    BY <1>1, <1>5, <1>6, <1>7, AloneInv

LEMMA FinishInv == ASSUME ChainInv, NEW r \in Requests, Finish(r) PROVE ChainInv'
  <1>1. /\ CoreType /\ at[r] = "return" /\ now' = now /\ SameTables /\ stream' = stream
        /\ status' = status /\ panicked' = panicked /\ between' = between
        /\ at' = [at EXCEPT ![r] = "done"] /\ requests' = requests + 1
        /\ errors' = errors + 1 \/ errors' = errors
    BY Here DEF Finish, Goto, tables, SameTables
  <1>2. /\ \/ /\ stream[r] = "none"
              /\ input' = [input EXCEPT ![r] = Nothing] /\ user' = [user EXCEPT ![r] = NoUser]
           \/ input' = input /\ user' = user
        /\ seen' = [seen EXCEPT ![r] = 0]
    BY DEF Finish, Forget
  <1>3. "done" \in Places
    BY DEF Places
  <1>4. CoreType'
    <2>1. /\ user' \in [Requests -> UserIds \cup {CozeUser, NoUser}]
          /\ DOMAIN input' = Requests
      BY <1>1, <1>2 DEF CoreType
    <2>2. requests' \in Nat /\ errors' \in Nat
      BY <1>1 DEF CoreType
    <2> QED
      BY <1>1, <1>2, <1>3, <2>1, <2>2 DEF CoreType, SameTables
  <1>5. at'[r] = "done" /\ r \in DOMAIN user
    BY <1>1 DEF CoreType
  <1>6. RequestInv(r)'
    <2>1. Way(r)' /\ Registered(r)'
      BY <1>5 DEF Way, Registered
    <2>2. Identity(r)'
      BY <1>1, <1>2, <1>5, Here DEF Identity, SameTables
    <2>3. StreamInv(r)'
      BY <1>1, <1>2, <1>5, Here DEF StreamInv
    <2> QED
      BY <2>1, <2>2, <2>3 DEF RequestInv
  <1>7. Alone(r)
    BY <1>1, <1>2 DEF Alone, CoreType
  <1> QED
    BY <1>4, <1>5, <1>6, <1>7, AloneInv

LEMMA PanicInv == ASSUME ChainInv, NEW r \in Requests, Panic(r) PROVE ChainInv'
  <1>0. stream[r] = "none"
    BY Here DEF Panic, StreamInv
  <1>1. /\ CoreType /\ now' = now /\ SameTables /\ stream' = stream
        /\ status' = [status EXCEPT ![r] = 500] /\ panicked' = panicked \cup {r}
        /\ between' = [between EXCEPT ![r] = 0]
        /\ at' = [at EXCEPT ![r] = "done"] /\ requests' = requests /\ errors' = errors
    BY Here DEF Panic, tables, SameTables
  <1>2. /\ input' = [input EXCEPT ![r] = Nothing] /\ user' = [user EXCEPT ![r] = NoUser]
        /\ seen' = [seen EXCEPT ![r] = 0]
    BY <1>0 DEF Panic, Forget
  <1>3. "done" \in Places /\ 500 \in Codes
    BY DEF Places, Codes
  <1>4. CoreType'
    BY <1>1, <1>2, <1>3 DEF CoreType, SameTables
  <1>5. at'[r] = "done" /\ user'[r] = NoUser
    BY <1>1, <1>2 DEF CoreType
  <1>6. RequestInv(r)'
    BY <1>0, <1>1, <1>5 DEF RequestInv, Way, Identity, Registered, StreamInv
  <1>7. Alone(r)
    BY <1>1, <1>2 DEF Alone, CoreType
  <1> QED
    BY <1>4, <1>5, <1>6, <1>7, AloneInv

LEMMA StartStreamInv == ASSUME ChainInv, NEW r \in Requests, StartStream(r) PROVE ChainInv'
  <1>1. /\ CoreType /\ at[r] = "handler" /\ input[r].kind \in StreamKinds
        /\ now' = now /\ input' = input /\ user' = user /\ SameTables /\ between' = between
        /\ requests' = requests /\ errors' = errors /\ panicked' = panicked
        /\ stream' = [stream EXCEPT ![r] = "service"]
    BY Here DEF StartStream, SameTables, tables
  <1>2. InputFits(input[r]) /\ r \notin panicked
    BY <1>1, Here DEF Way
  <1>3. Moved(r, "return", 200)
    BY <1>1, ServedMoves DEF StartStream
  <1>4. CoreType'
    <2>1. stream' \in [Requests -> StreamPlaces]
      BY <1>1 DEF CoreType, StreamPlaces
    <2> QED
      BY <1>1, <1>3, <2>1 DEF CoreType, Moved, SameTables
  <1>5. /\ at'[r] = "return" /\ stream'[r] = "service"
        /\ \A q \in Requests \ {r} : stream'[q] = stream[q]
    BY <1>1, <1>3 DEF Moved, CoreType
  <1>6. RequestInv(r)'
    <2>1. Way(r)'
      BY <1>1, <1>2, <1>5 DEF Way, InputFits, SameTables
    <2>2. Identity(r)'
      BY <1>1, <1>5, Here DEF Identity, SameTables
    <2>3. StreamInv(r)' /\ Registered(r)'
      BY <1>1, <1>5 DEF StreamInv, Registered, StreamKinds
    <2> QED
      BY <2>1, <2>2, <2>3 DEF RequestInv
  <1>7. Alone(r)
    BY <1>1, <1>3, <1>5 DEF Alone, Moved
  <1> QED
    BY <1>1, <1>4, <1>5, <1>6, <1>7, AloneInv

\* What a goroutine leaves alone: all but its place, and the user's window.
LEMMA StreamApart ==
    ASSUME NEW r \in Requests, Stream(r)
    PROVE  UNCHANGED <<now, ip, tables, input, at, user, status, seen, tokens, requests, errors,
                       between, panicked>>
  BY DEF Stream, StreamService, StreamLimit, StreamModel, StreamTo

\* It gets past the first check of the service with a user only.
LEMMA StreamMoves ==
    ASSUME ChainInv, NEW r \in Requests, Stream(r)
    PROVE  /\ stream[r] # "none"
           /\ \E to \in StreamPlaces \ {"none"} :
                  /\ stream' = [stream EXCEPT ![r] = to]
                  /\ to # "error" => user[r] # NoUser
  <1>1. CASE StreamService(r)
    BY <1>1 DEF StreamService, StreamTo, HasUser, StreamPlaces
  <1>2. CASE StreamLimit(r)
    <2>1. stream[r] = "llm limit" /\ user[r] # NoUser
      BY <1>2, Here DEF StreamLimit, StreamTo, StreamInv
    <2> QED
      BY <1>2, <2>1 DEF StreamLimit, StreamTo, StreamPlaces
  <1>3. CASE StreamModel(r)
    <2>1. stream[r] = "model" /\ user[r] # NoUser
      BY <1>3, Here DEF StreamModel, StreamTo, StreamInv
    <2> QED
      BY <1>3, <2>1 DEF StreamModel, StreamTo, StreamPlaces
  <1> QED
    BY <1>1, <1>2, <1>3 DEF Stream

LEMMA StreamStepInv == ASSUME ChainInv, NEW r \in Requests, Stream(r) PROVE ChainInv'
  <1>1. /\ CoreType /\ now' = now /\ input' = input /\ user' = user /\ SameTables
        /\ at' = at /\ status' = status /\ seen' = seen /\ between' = between
        /\ requests' = requests /\ errors' = errors /\ panicked' = panicked
    BY Here, StreamApart DEF SameTables, tables
  <1>2. PICK to \in StreamPlaces \ {"none"} :
            /\ stream' = [stream EXCEPT ![r] = to]
            /\ to # "error" => user[r] # NoUser
    BY StreamMoves
  <1>3. CoreType'
    BY <1>1, <1>2 DEF CoreType, SameTables
  <1>4. /\ stream'[r] = to /\ stream[r] # "none"
        /\ \A q \in Requests \ {r} : stream'[q] = stream[q]
    BY <1>1, <1>2, StreamMoves DEF CoreType
  <1>5. RequestInv(r)'
    <2>1. RequestInv(r)
      BY DEF ChainInv
    <2>2. Way(r)'
      BY <1>1, <2>1 DEF RequestInv, Way, InputFits, SameTables
    <2>3. Identity(r)'
      BY <1>1, <2>1 DEF RequestInv, Identity, SameTables
    <2>5. Registered(r)'
      BY <1>1, <2>1 DEF RequestInv, Registered, SameTables
    <2>4. StreamInv(r)'
      BY <1>1, <1>2, <1>4, <2>1 DEF RequestInv, StreamInv
    <2> QED
      BY <2>2, <2>3, <2>4, <2>5 DEF RequestInv
  <1>6. Alone(r)
    BY <1>1, <1>4 DEF Alone
  <1> QED
    BY <1>1, <1>3, <1>5, <1>6, AloneInv

\* Nothing of a request changes.
LEMMA IdleInv ==
    ASSUME ChainInv, now' \in Nat,
           UNCHANGED <<tables, input, at, user, status, seen, tokens, stream, requests, errors,
                       between, panicked>>
    PROVE  ChainInv'
  <1>1. CoreType'
    BY DEF ChainInv, CoreType, tables
  <1>2. AccountInv'
    BY DEF ChainInv, AccountInv, OneAccountPerName, tables
  <1>3. ASSUME NEW r \in Requests PROVE RequestInv(r)'
    <2>1. RequestInv(r)
      BY DEF ChainInv
    <2>2. Way(r)'
      BY <2>1 DEF RequestInv, Way, InputFits
    <2>3. Identity(r)'
      BY <2>1 DEF RequestInv, Identity
    <2>4. Registered(r)'
      BY <2>1 DEF RequestInv, Registered, tables
    <2>5. StreamInv(r)'
      BY <2>1 DEF RequestInv, StreamInv
    <2> QED
      BY <2>2, <2>3, <2>4, <2>5 DEF RequestInv
  <1> QED
    BY <1>1, <1>2, <1>3 DEF ChainInv

LEMMA ChainNext == ASSUME ChainInv, [Next]_vars PROVE ChainInv'
  <1>1. ASSUME NEW r \in Requests, Handler(r) PROVE ChainInv'
    <2>1. CASE Register(r)
      BY <2>1, RegisterInv
    <2>2. CASE InsertUser(r)
      BY <2>2, InsertUserInv
    <2>3. CASE Login(r)
      BY <2>3, LoginInv
    <2>4. CASE Create(r)
      BY <2>4, CreateInv
    <2>5. CASE Get(r)
      BY <2>5, GetInv
    <2>6. CASE List(r)
      BY <2>6, ListInv
    <2>7. CASE Items(r)
      BY <2>7, ItemsInv
    <2>8. CASE Rename(r)
      BY <2>8, RenameInv
    <2>9. CASE Reread(r)
      BY <2>9, RereadInv
    <2>10. CASE Delete(r)
      BY <2>10, DeleteInv
    <2>11. CASE Chat(r)
      BY <2>11, ChatInv
    <2>12. CASE Search(r)
      BY <2>12, SearchInv
    <2>13. CASE Ask(r)
      BY <2>13, AskInv
    <2>14. CASE LimitLLM(r)
      BY <2>14, LimitLLMInv
    <2>15. CASE Model(r)
      BY <2>15, ModelInv
    <2>16. CASE StartStream(r)
      BY <2>16, StartStreamInv
    <2> QED
      BY <1>1, <2>1, <2>2, <2>3, <2>4, <2>5, <2>6, <2>7, <2>8, <2>9, <2>10, <2>11, <2>12,
         <2>13, <2>14, <2>15, <2>16 DEF Handler
  <1>2. ASSUME NEW r \in Requests, RateLimit(r) \/ Auth(r) \/ CozeAPIKey(r) PROVE ChainInv'
    BY <1>2, RateLimitInv, AuthInv, CozeAPIKeyInv
  <1>3. ASSUME NEW r \in Requests, Finish(r) \/ Panic(r) \/ Stream(r) PROVE ChainInv'
    BY <1>3, FinishInv, PanicInv, StreamStepInv
  <1>4. CASE Tick
    <2>1. now' \in Nat
      BY <1>4 DEF Tick, ChainInv, CoreType
    <2> QED
      BY <1>4, <2>1, IdleInv DEF Tick
  <1>5. CASE UNCHANGED vars
    <2>1. now' \in Nat
      BY <1>5 DEF vars, ChainInv, CoreType
    <2> QED
      BY <1>5, <2>1, IdleInv DEF vars
  <1> QED
    BY <1>1, <1>2, <1>3, <1>4, <1>5 DEF Next, Step

LEMMA ChainInit == ASSUME Init PROVE ChainInv
  <1> DEFINE first == [id |-> FirstRecord, table |-> "sessions", owner |-> FirstUser,
                       title |-> AnyTitle]
  <1>1. /\ FirstUser \in UserIds /\ FirstRecord \in RecordIds /\ FirstUser \in Owners
        /\ AnyTitle \in Titles /\ "sessions" \in Tables
    BY RequestAssumption DEF AnyTitle, Tables
  <1>2. FirstAccount \in User /\ FirstAccount.id = FirstUser
    <2>1. (CHOOSE n \in Names : TRUE) \in Names
      BY RequestAssumption
    <2>2. (CHOOSE p \in Acceptable : TRUE) \in Passwords
      BY RequestAssumption, PasswordAssumption
    <2> QED
      BY <2>1, <2>2, <1>1 DEF FirstAccount, User
  <1>3. first \in Row /\ first.owner = FirstUser
    BY <1>1 DEF Row
  <1>4. now = 0
    BY DEF Init, IP!Init
  <1>5. GenerateToken(FirstUser, 0) \in Token /\ GenerateToken(FirstUser, 0).user = FirstUser
    <2>1. Life \in Nat
      BY LifeAssumption DEF Life
    <2>2. 0 + Life \in Nat
      BY <2>1
    <2> QED
      BY <2>2, <1>1 DEF GenerateToken, Token
  <1> HIDE DEF first
  <1>6. rows = <<first>>
    BY DEF Init, first
  <1>7. rows \in Seq(Row) /\ ToSet(rows) = {first}
    BY <1>3, <1>6 DEF ToSet
  <1>8. "client" \in Places /\ 0 \in Codes /\ "none" \in StreamPlaces
    BY DEF Places, Codes, StreamPlaces
  <1>9. CoreType
    BY <1>2, <1>4, <1>5, <1>7, <1>8 DEF Init, CoreType
  <1>10. AccountInv
    BY <1>2, <1>3, <1>5, <1>7 DEF Init, AccountInv, OneAccountPerName
  <1>11. ASSUME NEW r \in Requests PROVE RequestInv(r)
    BY DEF Init, RequestInv, Way, Identity, StreamInv, Registered
  <1> QED
    BY <1>9, <1>10, <1>11 DEF ChainInv

LEMMA SpecChain == Spec => []ChainInv
  <1>1. Init => ChainInv
    BY ChainInit
  <1>2. ChainInv /\ [Next]_vars => ChainInv'
    BY ChainNext
  <1> QED
    BY <1>1, <1>2, PTL DEF Spec

-----------------------------------------------------------------------------
\* Although a handler runs behind a middleware that refused, nothing is done
\* on a user's route without a token of this server, and then as its user: an
\* answer in one piece is no success, the goroutine of a streamed one does not
\* get to the model, and all records belong to accounts. For any number of
\* requests at the same time.
THEOREM TokensAreNeeded == Spec => []NoTokenNoSuccess
  <1>1. ASSUME ChainInv PROVE NoTokenNoSuccess
    <2>1. ASSUME NEW r \in Requests, user[r] # NoUser, input[r].kind \in UserKinds
          PROVE  WithToken(r)
      BY <1>1, <2>1, Here DEF Identity, WithToken
    <2>2. ASSUME NEW r \in Requests, stream[r] \in {"llm limit", "model", "done"}
          PROVE  WithToken(r)
      BY <1>1, <2>1, <2>2, Here DEF StreamInv, UserKinds
    <2>3. ASSUME NEW r \in Requests, at[r] = "return", status[r] = 200,
                 input[r].kind \in UserKinds \ StreamKinds
          PROVE  WithToken(r)
      BY <1>1, <2>1, <2>3, Here DEF Identity
    <2>4. \A row \in ToSet(rows) : \E u \in users : u.id = row.owner
      BY <1>1 DEF ChainInv, AccountInv
    <2> QED
      BY <2>2, <2>3, <2>4 DEF NoTokenNoSuccess, Answered
  <1> QED
    BY <1>1, SpecChain, PTL

\* However many requests register one name at the same time, one of them is
\* told that the account is theirs, and logs into it.
THEOREM OneOwnerPerName == Spec => []OneAccount
  <1>1. ASSUME ChainInv PROVE OneAccount
    <2>1. OneAccountPerName
      BY <1>1 DEF ChainInv, AccountInv
    <2>2. ASSUME NEW r \in Requests, at[r] = "return", input[r].kind = "register",
                 status[r] = 200
          PROVE  LogsIn(input[r].name, input[r].password) = {u \in users : u.id = r}
      <3> DEFINE new == [id |-> r, name |-> input[r].name, password |-> input[r].password]
      <3>1. new \in users
        BY <1>1, <2>2 DEF ChainInv, RequestInv, Registered
      <3>2. new.id = r /\ new.name = input[r].name /\ new.password = input[r].password
        OBVIOUS
      <3> HIDE DEF new
      <3>3. \A u \in users : u.name = input[r].name => u = new
        BY <2>1, <3>1, <3>2 DEF OneAccountPerName
      <3>4. \A u \in users : u.id = r => u = new
        BY <1>1, <3>1, <3>2 DEF ChainInv, AccountInv
      <3> QED
        BY <3>1, <3>2, <3>3, <3>4 DEF LogsIn
    <2> QED
      BY <2>1, <2>2 DEF OneAccount, Answered
  <1> QED
    BY <1>1, SpecChain, PTL

\* Where a handler reads the user it works for, that user came with a token.
LEMMA OwnerHasToken ==
    ASSUME ChainInv, NEW r \in Requests, at[r] = "handler", input[r].kind \in UserKinds,
           HasUser(r)
    PROVE  input[r].token \in tokens /\ input[r].token.user = user[r]
  BY HasAccount DEF HasUser, Handling

\* Rows that an update or a delete does not match stay as they are.
LEMMA RenamedRows ==
    ASSUME NEW table, NEW id, NEW owner, NEW title, UpdateTitle(table, id, owner, title),
           NEW row \in ToSet(rows), row \notin ToSet(rows')
    PROVE  row.owner = owner
  <1>1. PICK i \in DOMAIN rows : row = rows[i]
    BY DEF ToSet
  <1>2. DOMAIN rows' = DOMAIN rows
    BY DEF UpdateTitle
  <1>3. rows'[i] # rows[i]
    BY <1>1, <1>2 DEF ToSet
  <1>4. IsAt(rows[i], table, id, owner)
    BY <1>1, <1>3 DEF UpdateTitle
  <1> QED
    BY <1>1, <1>4 DEF IsAt

LEMMA RemovedRow ==
    ASSUME NEW S, NEW s \in Seq(S), NEW i \in DOMAIN s, NEW x \in ToSet(s),
           x \notin ToSet(RemoveAt(s, i))
    PROVE  x = s[i]
  <1>1. Len(s) \in Nat /\ i \in 1 .. Len(s)
    OBVIOUS
  <1>2. PICK k \in 1 .. Len(s) : x = s[k]
    BY DEF ToSet
  <1> SUFFICES ASSUME k # i PROVE FALSE
    BY <1>2
  <1> DEFINE a == SubSeq(s, 1, i - 1)
             b == SubSeq(s, i + 1, Len(s))
  <1>3. a \in Seq(S) /\ Len(a) = i - 1 /\ \A m \in 1 .. i - 1 : a[m] = s[m]
    <2>1. \A m \in 1 .. i - 1 : s[m] \in S
      BY <1>1
    <2> QED
      BY <1>1, <2>1, SubSeqProperties
  <1>4. b \in Seq(S) /\ Len(b) = Len(s) - i /\ \A m \in 1 .. Len(s) - i : b[m] = s[i + m]
    <2>1. \A m \in i + 1 .. Len(s) : s[m] \in S
      BY <1>1
    <2> QED
      BY <1>1, <2>1, SubSeqProperties
  <1>5. RemoveAt(s, i) = a \o b
    BY DEF RemoveAt
  <1> HIDE DEF a, b
  <1>6. DOMAIN (a \o b) = 1 .. Len(s) - 1
    BY <1>1, <1>3, <1>4, ConcatProperties
  <1>7. CASE k < i
    <2>1. k \in 1 .. Len(s) - 1 /\ k <= Len(a) /\ k \in 1 .. i - 1
      BY <1>1, <1>3, <1>7
    <2>2. (a \o b)[k] = x
      BY <2>1, <1>1, <1>2, <1>3, <1>4, ConcatProperties
    <2> QED
      BY <2>1, <2>2, <1>5, <1>6 DEF ToSet
  <1>8. CASE k > i
    <2>1. /\ k - 1 \in 1 .. Len(s) - 1 /\ ~(k - 1 <= Len(a)) /\ k - i \in 1 .. Len(s) - i
          /\ k - 1 - Len(a) = k - i /\ i + (k - i) = k
      <3>1. Len(a) = i - 1
        BY <1>3
      <3> QED
        BY <3>1, <1>1, <1>2, <1>8
    <2>2. (a \o b)[k - 1] = b[k - i]
      <3>1. k - 1 \in 1 .. Len(a) + Len(b)
        BY <2>1, <1>1, <1>3, <1>4, SMTT(30)
      <3>2. (a \o b)[k - 1] = IF k - 1 <= Len(a) THEN a[k - 1] ELSE b[k - 1 - Len(a)]
        BY <3>1, <1>3, <1>4, ConcatProperties
      <3> QED
        BY <3>2, <2>1
    <2>3. b[k - i] = x
      BY <2>1, <1>2, <1>4
    <2> QED
      BY <2>1, <2>2, <2>3, <1>5, <1>6 DEF ToSet
  <1> QED
    BY <1>1, <1>7, <1>8

\* No row is taken away or changed but by a request that came with a token of
\* its owner, whatever else is going on.
THEOREM RowsAreTheOwners == Spec => OthersUntouched
  <1> DEFINE Untouched ==
          \A row \in ToSet(rows) \ ToSet(rows') : \E r \in Requests :
              /\ at[r] = "handler" /\ at'[r] # "handler"
              /\ input[r].token \in tokens /\ input[r].token.user = row.owner
  <1>1. ASSUME ChainInv, Next PROVE Untouched
    <2>1. CASE rows' = rows
      BY <2>1
    <2>2. ASSUME NEW r \in Requests, Create(r) PROVE Untouched
      <3>1. CASE rows' = rows
        BY <3>1
      <3>2. CASE rows' # rows
        <4>1. PICK row : rows' = Append(rows, row)
          BY <2>2, <3>2 DEF Create, CreateRow
        <4>2. rows \in Seq(Row)
          BY <1>1 DEF ChainInv, CoreType
        <4>3. ToSet(rows) \subseteq ToSet(rows')
          BY <4>1, <4>2 DEF ToSet
        <4> QED
          BY <4>3
      <3> QED
        BY <3>1, <3>2
    <2>3. ASSUME NEW r \in Requests, Rename(r) PROVE Untouched
      <3>1. CASE rows' = rows
        BY <3>1
      <3>2. CASE rows' # rows
        <4>1. /\ at[r] = "handler" /\ input[r].kind = "rename" /\ HasUser(r)
              /\ UpdateTitle(input[r].table, input[r].id, user[r], input[r].title)
              /\ at' = [at EXCEPT ![r] = "reread"]
          BY <2>3, <3>2 DEF Rename, Handles, Owns, Continue
        <4>2. at'[r] # "handler"
          BY <4>1, <1>1 DEF ChainInv, CoreType
        <4>3. input[r].token \in tokens /\ input[r].token.user = user[r]
          BY <4>1, <1>1, OwnerHasToken DEF UserKinds, ChatKinds, StreamKinds
        <4> QED
          BY <4>1, <4>2, <4>3, RenamedRows
      <3> QED
        BY <3>1, <3>2
    <2>4. ASSUME NEW r \in Requests, Delete(r) PROVE Untouched
      <3>1. CASE rows' = rows
        BY <3>1
      <3>2. CASE rows' # rows
        <4>1. /\ at[r] = "handler" /\ input[r].kind = "delete" /\ HasUser(r)
              /\ DeleteRow(input[r].table, input[r].id, user[r])
              /\ at' = [at EXCEPT ![r] = "return"]
          BY <2>4, <3>2 DEF Delete, Handles, Owns, Reply, Goto
        <4>2. at'[r] # "handler"
          BY <4>1, <1>1 DEF ChainInv, CoreType
        <4>3. input[r].token \in tokens /\ input[r].token.user = user[r]
          BY <4>1, <1>1, OwnerHasToken DEF UserKinds, ChatKinds, StreamKinds
        <4>4. PICK i \in DOMAIN rows :
                  IsAt(rows[i], input[r].table, input[r].id, user[r]) /\ rows' = RemoveAt(rows, i)
          BY <4>1 DEF DeleteRow
        <4>5. rows \in Seq(Row)
          BY <1>1 DEF ChainInv, CoreType
        <4>6. \A row \in ToSet(rows) \ ToSet(rows') : row = rows[i]
          BY <4>4, <4>5, RemovedRow
        <4> QED
          BY <4>2, <4>1, <4>3, <4>4, <4>6 DEF IsAt
      <3> QED
        BY <3>1, <3>2
    <2>5. ASSUME NEW r \in Requests, Handler(r) PROVE Untouched
      <3>1. CASE \/ Register(r) \/ InsertUser(r) \/ Login(r) \/ Get(r) \/ List(r) \/ Items(r)
                 \/ Reread(r) \/ Chat(r) \/ Search(r) \/ Ask(r) \/ LimitLLM(r) \/ Model(r)
                 \/ StartStream(r)
        <4>1. rows' = rows
          BY <3>1 DEF Register, InsertUser, Login, Get, List, Items, Reread, Chat, Search, Ask,
                      LimitLLM, Model, StartStream, tables
        <4> QED
          BY <4>1
      <3> QED
        BY <3>1, <2>2, <2>3, <2>4, <2>5 DEF Handler
    <2>6. ASSUME NEW r \in Requests, RateLimit(r) \/ Auth(r) \/ CozeAPIKey(r) PROVE rows' = rows
      BY <2>6 DEF RateLimit, Auth, CozeAPIKey, Pass, Refuse, tables
    <2>7. ASSUME NEW r \in Requests, Finish(r) \/ Panic(r) \/ Stream(r) PROVE rows' = rows
      BY <2>7, StreamApart DEF Finish, Panic, tables
    <2>8. CASE Tick
      BY <2>8 DEF Tick, tables
    <2> QED
      BY <1>1, <2>1, <2>5, <2>6, <2>7, <2>8 DEF Next, Step
  <1>2. ChainInv /\ [Next]_vars => [Untouched]_vars
    BY <1>1
  <1> QED
    BY <1>2, SpecChain, PTL DEF Spec, OthersUntouched

-----------------------------------------------------------------------------
(* The metrics.                                                             *)

\* A step of a request that is not over, and is not counted yet.
Going(r) ==
    /\ at[r] # "done" /\ at'[r] # "done"
    /\ \A q \in Requests \ {r} : at'[q] = at[q] /\ status'[q] = status[q]
    /\ requests' = requests /\ errors' = errors /\ panicked' = panicked

LEMMA MovedGoes ==
    ASSUME NEW r \in Requests, NEW to, NEW code, Moved(r, to, code), at[r] # "done", to # "done",
           requests' = requests, errors' = errors, panicked' = panicked
    PROVE  Going(r)
  BY DEF Moved, Going

LEMMA ReplyGoes ==
    ASSUME CoreType, NEW r \in Requests, NEW from, NEW code, Reply(r, from, code),
           from # "done", requests' = requests, errors' = errors, panicked' = panicked
    PROVE  Going(r)
  BY DEF CoreType, Reply, Goto, Going

LEMMA ContinueGoes ==
    ASSUME CoreType, NEW r \in Requests, NEW to, NEW value, Continue(r, to, value),
           at[r] # "done", to # "done",
           requests' = requests, errors' = errors, panicked' = panicked
    PROVE  Going(r)
  BY DEF CoreType, Continue, Going

LEMMA HandlerGoes == ASSUME CoreType, NEW r \in Requests, Handler(r) PROVE Going(r)
  <1>1. requests' = requests /\ errors' = errors /\ panicked' = panicked
    BY DEF Handler, Register, InsertUser, Login, Create, Get, List, Items, Rename, Reread, Delete,
           Chat, Search, Ask, LimitLLM, Model, StartStream, Unchanged, Elsewhere
  <1>2. ASSUME NEW from \in Handling, NEW code, Reply(r, from, code) PROVE Going(r)
    BY <1>1, <1>2, ReplyGoes DEF Handling
  <1>3. ASSUME at[r] # "done", NEW to \in Handling, NEW value, Continue(r, to, value)
        PROVE  Going(r)
    BY <1>1, <1>3, ContinueGoes DEF Handling
  <1>4. CASE Register(r)
    BY <1>2, <1>3, <1>4, Members, ZenonT(60) DEF Register, Handles
  <1>5. CASE InsertUser(r)
    BY <1>2, <1>5, Members, ZenonT(60) DEF InsertUser
  <1>6. CASE Login(r)
    BY <1>2, <1>6, Members, ZenonT(60) DEF Login
  <1>7. CASE Create(r)
    BY <1>2, <1>7, Members, ZenonT(60) DEF Create
  <1>8. CASE Get(r)
    BY <1>2, <1>8, Members, ZenonT(60) DEF Get
  <1>9. CASE List(r)
    BY <1>2, <1>3, <1>9, Members, ZenonT(60) DEF List, Handles
  <1>10. CASE Items(r)
    <2>1. CASE /\ Goto(r, "items", "return")
               /\ status' = [status EXCEPT ![r] = 200]
      BY <1>1, <2>1 DEF Goto, CoreType, Going
    <2> QED
      BY <1>2, <1>10, <2>1, Members, ZenonT(60) DEF Items
  <1>11. CASE Rename(r)
    BY <1>2, <1>3, <1>11, Members, ZenonT(60) DEF Rename, Handles
  <1>12. CASE Reread(r)
    BY <1>2, <1>12, Members, ZenonT(60) DEF Reread
  <1>13. CASE Delete(r)
    BY <1>2, <1>13, Members, ZenonT(60) DEF Delete
  <1>14. CASE Chat(r)
    BY <1>2, <1>3, <1>14, Members, ZenonT(60) DEF Chat
  <1>15. CASE Search(r)
    BY <1>2, <1>15, Members, ZenonT(60) DEF Search
  <1>16. CASE Ask(r)
    BY <1>2, <1>3, <1>16, Members, ZenonT(60) DEF Ask, Handles
  <1>17. CASE LimitLLM(r)
    BY <1>2, <1>3, <1>17, Members, ZenonT(60) DEF LimitLLM
  <1>18. CASE Model(r)
    BY <1>2, <1>18, Members, ZenonT(60) DEF Model
  <1>19. CASE StartStream(r)
    BY <1>2, <1>19, Members, ZenonT(60) DEF StartStream
  <1> QED
    BY <1>4, <1>5, <1>6, <1>7, <1>8, <1>9, <1>10, <1>11, <1>12, <1>13, <1>14, <1>15, <1>16,
       <1>17, <1>18, <1>19 DEF Handler

LEMMA MiddleGoes ==
    ASSUME ChainInv, NEW r \in Requests, RateLimit(r) \/ Auth(r) \/ CozeAPIKey(r)
    PROVE  Going(r)
  <1>1. ASSUME NEW from \in {"client", "auth", "api key"}, NEW to \in Places \ {"done"},
               Pass(r, from, to) \/ Refused(r, from, to)
        PROVE  Going(r)
    <2>1. at[r] = from /\ Middle(r, to)
      BY <1>1, PassMoves, RefuseMoves
    <2> QED
      BY <2>1, MovedGoes DEF Middle
  <1>2. CASE RateLimit(r)
    <2>1. PICK kind \in Kinds[r] : \/ Pass(r, "client", AfterLimit(kind))
                                   \/ Refused(r, "client", AfterLimit(kind))
      BY <1>2 DEF RateLimit, Refused
    <2>2. kind \in AllKinds
      BY RequestAssumption DEF AllKinds
    <2>3. AfterLimit(kind) \in Places \ {"done"}
      BY <2>2 DEF AfterLimit, AllKinds, UserKinds, ChatKinds, StreamKinds, GuestKinds,
                  CozeKinds, Places
    <2> QED
      BY <2>1, <2>3, <1>1
  <1>3. "handler" \in Places \ {"done"}
    BY DEF Places
  <1>4. CASE Auth(r)
    <2>1. Pass(r, "auth", "handler") \/ Refused(r, "auth", "handler")
      BY <1>4 DEF Auth, Refused
    <2> QED
      BY <2>1, <1>1, <1>3
  <1>5. CASE CozeAPIKey(r)
    <2>1. Pass(r, "api key", "handler") \/ Refused(r, "api key", "handler")
      BY <1>5, ZenonT(60) DEF CozeAPIKey, Refused
    <2> QED
      BY <2>1, <1>1, <1>3
  <1> QED
    BY <1>2, <1>4, <1>5

Failed == {r \in Logged : status[r] >= 400}

LEMMA SameLog ==
    ASSUME MetricsInv, Logged' = Logged, \A q \in Logged : status'[q] = status[q],
           requests' = requests, errors' = errors
    PROVE  MetricsInv'
  <1>1. Failed' = Failed
    BY DEF Failed
  <1>2. IsFiniteSet(Logged) /\ requests = Cardinality(Logged) /\ errors = Cardinality(Failed)
    BY DEF MetricsInv, MetricsAddUp, Logged, Failed
  <1>3. /\ IsFiniteSet(Logged)' /\ requests' = Cardinality(Logged)'
        /\ errors' = Cardinality(Failed)'
    BY <1>1, <1>2
  <1> QED
    BY <1>3 DEF MetricsInv, MetricsAddUp, Logged, Failed

\* One more request in the log, with the status it has.
LEMMA MoreLog ==
    ASSUME MetricsInv, NEW r, r \notin Logged, Logged' = Logged \cup {r}, status' = status,
           requests' = requests + 1, status[r] \in Nat,
           errors' = IF status[r] >= 400 THEN errors + 1 ELSE errors
    PROVE  MetricsInv'
  <1>1. IsFiniteSet(Logged) /\ requests = Cardinality(Logged) /\ errors = Cardinality(Failed)
    BY DEF MetricsInv, MetricsAddUp, Logged, Failed
  <1>2. IsFiniteSet(Logged)' /\ requests' = Cardinality(Logged)'
    BY <1>1, FS_AddElement
  <1>3. IsFiniteSet(Failed) /\ r \notin Failed
    BY <1>1, FS_Subset DEF Failed
  <1>4. errors' = Cardinality(Failed)'
    <2>1. CASE status[r] >= 400
      <3>1. Failed' = Failed \cup {r}
        BY <2>1 DEF Failed
      <3>2. Cardinality(Failed \cup {r}) = Cardinality(Failed) + 1
        BY <1>3, FS_AddElement
      <3>3. errors' = errors + 1
        BY <2>1
      <3> QED
        BY <3>1, <3>2, <3>3, <1>1
    <2>2. CASE ~(status[r] >= 400)
      <3>1. Failed' = Failed
        BY <2>2 DEF Failed
      <3> QED
        BY <3>1, <2>2, <1>1
    <2> QED
      BY <2>1, <2>2
  <1> QED
    BY <1>2, <1>4 DEF MetricsInv, MetricsAddUp, Logged, Failed

LEMMA MetricsNext == ASSUME ChainInv, MetricsInv, [Next]_vars PROVE MetricsInv'
  <1>0. CoreType /\ \A r \in panicked : at[r] = "done"
    BY DEF ChainInv, RequestInv, Way, CoreType
  <1>1. ASSUME NEW r \in Requests, Going(r) PROVE MetricsInv'
    <2>1. Logged' = Logged /\ \A q \in Logged : status'[q] = status[q]
      BY <1>1 DEF Going, Logged
    <2> QED
      BY <2>1, <1>1, SameLog DEF Going
  <1>2. ASSUME NEW r \in Requests, Handler(r) PROVE MetricsInv'
    BY <1>0, <1>1, <1>2, HandlerGoes
  <1>3. ASSUME NEW r \in Requests, RateLimit(r) \/ Auth(r) \/ CozeAPIKey(r) PROVE MetricsInv'
    BY <1>1, <1>3, MiddleGoes
  <1>4. ASSUME NEW r \in Requests, Finish(r) PROVE MetricsInv'
    <2>1. /\ at[r] = "return" /\ at' = [at EXCEPT ![r] = "done"] /\ panicked' = panicked
          /\ requests' = requests + 1 /\ status' = status
          /\ errors' = IF status[r] >= 400 THEN errors + 1 ELSE errors
      BY <1>4 DEF Finish, Goto
    <2>2. r \notin panicked /\ r \notin Logged
      BY <1>0, <2>1 DEF Logged
    <2>3. Logged' = Logged \cup {r}
      BY <1>0, <2>1, <2>2 DEF Logged, CoreType
    <2>4. status[r] \in Nat
      <3>1. status[r] \in Codes
        BY <1>0 DEF CoreType
      <3> QED
        BY <3>1 DEF Codes
    <2> QED
      BY <2>1, <2>2, <2>3, <2>4, MoreLog
  <1>5. ASSUME NEW r \in Requests, Panic(r) PROVE MetricsInv'
    <2>1. /\ at[r] # "done" /\ at' = [at EXCEPT ![r] = "done"] /\ panicked' = panicked \cup {r}
          /\ requests' = requests /\ errors' = errors
          /\ status' = [status EXCEPT ![r] = 500]
      BY <1>5 DEF Panic
    <2>2. r \notin Logged
      BY <2>1 DEF Logged
    <2>3. Logged' = Logged
      BY <1>0, <2>1 DEF Logged, CoreType
    <2>4. \A q \in Logged : status'[q] = status[q]
      BY <1>0, <2>1, <2>2 DEF Logged, CoreType
    <2> QED
      BY <2>1, <2>3, <2>4, SameLog
  <1>6. CASE Tick \/ UNCHANGED vars
    <2>1. /\ at' = at /\ status' = status /\ panicked' = panicked
          /\ requests' = requests /\ errors' = errors
      BY <1>6 DEF Tick, vars
    <2>2. Logged' = Logged
      BY <2>1 DEF Logged
    <2> QED
      BY <2>1, <2>2, SameLog
  <1>7. ASSUME NEW r \in Requests, Stream(r) PROVE MetricsInv'
    <2>1. /\ at' = at /\ status' = status /\ panicked' = panicked
          /\ requests' = requests /\ errors' = errors
      BY <1>7, StreamApart
    <2>2. Logged' = Logged
      BY <2>1 DEF Logged
    <2> QED
      BY <2>1, <2>2, SameLog
  <1> QED
    BY <1>2, <1>3, <1>4, <1>5, <1>6, <1>7 DEF Next, Step

\* Each request that went its way without a panic is counted once, and as an
\* error if and only if that is the status its client got.
THEOREM Metrics == Spec => []MetricsAddUp
  <1>1. ASSUME Init PROVE MetricsInv
    <2>1. /\ Logged = {} /\ {r \in Logged : status[r] >= 400} = {}
          /\ requests = 0 /\ errors = 0
      BY <1>1 DEF Init, Logged
    <2>2. IsFiniteSet(Logged) /\ Cardinality({}) = 0
      BY <2>1, FS_EmptySet
    <2> QED
      BY <2>1, <2>2 DEF MetricsInv, MetricsAddUp, Logged
  <1>2. ChainInv /\ MetricsInv /\ [Next]_vars => MetricsInv'
    BY MetricsNext
  <1>3. MetricsInv => MetricsAddUp
    BY DEF MetricsInv
  <1> QED
    BY <1>1, <1>2, <1>3, SpecChain, PTL DEF Spec

-----------------------------------------------------------------------------
(* The two windows.                                                         *)

\* What RateWindow says of a run of the script is what its proofs say.
LEMMA SameScript ==
    /\ IP!Init => IPWindow!Init
    /\ LLM!Init => LLMWindow!Init
    /\ IP!ParametersOK => IPWindow!ParametersOK
    /\ LLM!ParametersOK => LLMWindow!ParametersOK
    /\ [IP!Next]_(IP!vars) => [IPWindow!Next]_(IPWindow!vars)
    /\ [LLM!Next]_(LLM!vars) => [LLMWindow!Next]_(LLMWindow!vars)
  <1>1. /\ IP!Init => IPWindow!Init
        /\ IP!ParametersOK => IPWindow!ParametersOK
    BY DEF IP!Init, IPWindow!Init, IP!ParametersOK, IPWindow!ParametersOK
  <1>2. /\ LLM!Init => LLMWindow!Init
        /\ LLM!ParametersOK => LLMWindow!ParametersOK
    BY DEF LLM!Init, LLMWindow!Init, LLM!ParametersOK, LLMWindow!ParametersOK
  <1>3. [IP!Next]_(IP!vars) => [IPWindow!Next]_(IPWindow!vars)
    <2>1. \A k : IP!Hit(k) => IPWindow!Hit(k)
      BY DEF IP!Hit, IP!Counted, IP!Allowed, IP!End,
             IPWindow!Hit, IPWindow!Counted, IPWindow!Allowed, IPWindow!End
    <2> QED
      BY <2>1 DEF IP!Next, IP!Tick, IP!vars, IPWindow!Next, IPWindow!Tick, IPWindow!vars
  <1>4. [LLM!Next]_(LLM!vars) => [LLMWindow!Next]_(LLMWindow!vars)
    <2>1. \A k : LLM!Hit(k) => LLMWindow!Hit(k)
      BY DEF LLM!Hit, LLM!Counted, LLM!Allowed, LLM!End,
             LLMWindow!Hit, LLMWindow!Counted, LLMWindow!Allowed, LLMWindow!End
    <2> QED
      BY <2>1 DEF LLM!Next, LLM!Tick, LLM!vars, LLMWindow!Next, LLMWindow!Tick, LLMWindow!vars
  <1> QED
    BY <1>1, <1>2, <1>3, <1>4

\* A step of the server is one run of the script under the address or user of
\* the request, a tick of the clock, or nothing to Redis.
LEMMA WindowStep ==
    ASSUME ChainInv, [Next]_vars
    PROVE  [IP!Next]_(IP!vars) /\ [LLM!Next]_(LLM!vars)
  <1>1. ASSUME UNCHANGED <<now, ip>> PROVE [IP!Next]_(IP!vars)
    BY <1>1 DEF ip, IP!vars
  <1>2. ASSUME UNCHANGED <<now, llm>> PROVE [LLM!Next]_(LLM!vars)
    BY <1>2 DEF llm, LLM!vars
  <1>3. ASSUME NEW r \in Requests, RateLimit(r)
        PROVE  [IP!Next]_(IP!vars) /\ [LLM!Next]_(LLM!vars)
    <2>1. UNCHANGED <<now, llm>>
      BY <1>3 DEF RateLimit, Pass, Refuse
    <2>2. IP!Hit(Address[r]) \/ UNCHANGED <<now, ip>>
      BY <1>3, <2>1 DEF RateLimit
    <2> QED
      BY <2>1, <2>2, <1>1, <1>2 DEF IP!Next
  <1>4. ASSUME NEW r \in Requests, LimitLLM(r)
        PROVE  [IP!Next]_(IP!vars) /\ [LLM!Next]_(LLM!vars)
    <2>1. UNCHANGED <<now, ip>>
      BY <1>4 DEF LimitLLM
    <2>2. LLM!Hit(user[r]) \/ UNCHANGED <<now, llm>>
      BY <1>4, <2>1 DEF LimitLLM
    <2>3. user[r] \in UserIds \cup {CozeUser}
      BY <1>4, Here DEF LimitLLM, Identity
    <2> QED
      BY <2>1, <2>2, <2>3, <1>1, <1>2 DEF LLM!Next
  <1>5. ASSUME NEW r \in Requests,
               \/ Auth(r) \/ CozeAPIKey(r) \/ Register(r) \/ InsertUser(r) \/ Login(r) \/ Create(r)
               \/ Get(r) \/ List(r) \/ Items(r) \/ Rename(r) \/ Reread(r) \/ Delete(r) \/ Chat(r)
               \/ Search(r) \/ Ask(r) \/ Model(r) \/ StartStream(r) \/ Finish(r) \/ Panic(r)
        PROVE  UNCHANGED <<now, ip, llm>>
    BY <1>5 DEF Auth, CozeAPIKey, Pass, Refuse, Register, InsertUser, Login, Create, Get, List,
               Items, Rename, Reread, Delete, Chat, Search, Ask, Model, StartStream, Finish, Panic,
               Unchanged, Elsewhere
  <1>6. CASE Tick
    <2>1. IP!Tick /\ LLM!Tick
      BY <1>6 DEF Tick, ip, llm, IP!Tick, LLM!Tick
    <2> QED
      BY <2>1 DEF IP!Next, LLM!Next
  <1>7. CASE UNCHANGED vars
    BY <1>7, <1>1, <1>2 DEF vars
  <1>8. ASSUME NEW r \in Requests, Step(r) \/ Panic(r)
        PROVE  [IP!Next]_(IP!vars) /\ [LLM!Next]_(LLM!vars)
    <2>1. CASE Stream(r)
      <3>1. UNCHANGED <<now, ip>>
        BY <2>1, StreamApart
      <3>2. LLM!Hit(user[r]) \/ UNCHANGED <<now, llm>>
        BY <2>1, <3>1 DEF Stream, StreamService, StreamLimit, StreamModel
      <3>3. CASE LLM!Hit(user[r]) /\ ~UNCHANGED llm
        <4>1. stream[r] = "llm limit"
          BY <2>1, <3>3 DEF Stream, StreamService, StreamLimit, StreamModel, StreamTo
        <4>2. user[r] \in UserIds \cup {CozeUser}
          BY <4>1, Here DEF StreamInv, Identity, UserKinds
        <4> QED
          BY <3>1, <3>3, <4>2, <1>1 DEF LLM!Next
      <3> QED
        BY <3>1, <3>2, <3>3, <1>1, <1>2
    <2> QED
      BY <1>1, <1>2, <1>3, <1>4, <1>5, <1>8, <2>1 DEF Step, Handler
  <1> QED
    BY <1>6, <1>7, <1>8 DEF Next

LEMMA WindowNext == ASSUME ChainInv, WindowInv, [Next]_vars PROVE WindowInv'
  <1>1. [IPWindow!Next]_(IPWindow!vars) /\ [LLMWindow!Next]_(LLMWindow!vars)
    BY WindowStep, SameScript
  <1>2. IPWindow!ParametersOK /\ LLMWindow!ParametersOK
    BY LimitAssumption, SameScript
  <1>3. IPWindow!Inv'
    BY <1>1, <1>2, IPWindow!NextInv DEF WindowInv
  <1>4. LLMWindow!Inv'
    BY <1>1, <1>2, LLMWindow!NextInv DEF WindowInv
  <1> QED
    BY <1>3, <1>4 DEF WindowInv

LEMMA SpecWindow == Spec => []WindowInv
  <1>1. ASSUME Init PROVE WindowInv
    <2>1. IPWindow!ParametersOK /\ LLMWindow!ParametersOK
      BY LimitAssumption, SameScript
    <2>2. IPWindow!Init /\ LLMWindow!Init
      BY <1>1, SameScript DEF Init
    <2> QED
      BY <2>1, <2>2, IPWindow!InitInv, LLMWindow!InitInv DEF WindowInv
  <1>2. ChainInv /\ WindowInv /\ [Next]_vars => WindowInv'
    BY WindowNext
  <1> QED
    BY <1>1, <1>2, SpecChain, PTL DEF Spec

\* Whatever requests are on their way and however they end, Redis sees two
\* fixed windows.
THEOREM TwoWindows == Spec => Windows
  <1>1. Init => IP!Init /\ LLM!Init
    BY DEF Init
  <1>2. ChainInv /\ [Next]_vars => [IP!Next]_(IP!vars) /\ [LLM!Next]_(LLM!vars)
    BY WindowStep
  <1>3. Spec => IP!Spec
    BY <1>1, <1>2, SpecChain, PTL DEF Spec, IP!Spec
  <1>4. Spec => LLM!Spec
    BY <1>1, <1>2, SpecChain, PTL DEF Spec, LLM!Spec
  <1> QED
    BY <1>3, <1>4 DEF Windows

\* Every variable keeps its type, those of the windows included.
THEOREM TypeCorrect == Spec => []TypeOK
  <1>1. ASSUME ChainInv, WindowInv PROVE TypeOK
    <2>1. IP!TypeOK
      BY <1>1 DEF WindowInv, IPWindow!Inv, IPWindow!TypeOK, IP!TypeOK, IPWindow!Grant, IP!Grant
    <2>2. LLM!TypeOK
      BY <1>1 DEF WindowInv, LLMWindow!Inv, LLMWindow!TypeOK, LLM!TypeOK, LLMWindow!Grant,
                  LLM!Grant
    <2> QED
      BY <2>1, <2>2, <1>1 DEF ChainInv, CoreType, Codes, TypeOK
  <1> QED
    BY <1>1, SpecChain, SpecWindow, PTL

\* Both limits hold whatever the requests are, for any number of addresses
\* and users: bursts are bounded, and whoever is refused has had the limit.
THEOREM BothLimits == Spec => []LimitsHold
  <1>1. ASSUME WindowInv PROVE LimitsHold
    <2>1. IPWindow!ParametersOK /\ LLMWindow!ParametersOK
      BY LimitAssumption, SameScript
    <2>2. IPWindow!BurstsAreBounded /\ IPWindow!RefusedHadTheLimit
      BY <1>1, <2>1, IPWindow!InvBursts, IPWindow!InvRefused DEF WindowInv
    <2>3. LLMWindow!BurstsAreBounded /\ LLMWindow!RefusedHadTheLimit
      BY <1>1, <2>1, LLMWindow!InvBursts, LLMWindow!InvRefused DEF WindowInv
    <2>4. IP!BurstsAreBounded
      BY <2>2 DEF IP!BurstsAreBounded, IPWindow!BurstsAreBounded
    <2>5. IP!RefusedHadTheLimit
      BY <2>2 DEF IP!RefusedHadTheLimit, IPWindow!RefusedHadTheLimit, IP!Allowed, IP!Counted,
                  IPWindow!Allowed, IPWindow!Counted
    <2>6. LLM!BurstsAreBounded
      BY <2>3 DEF LLM!BurstsAreBounded, LLMWindow!BurstsAreBounded
    <2>7. LLM!RefusedHadTheLimit
      BY <2>3 DEF LLM!RefusedHadTheLimit, LLMWindow!RefusedHadTheLimit, LLM!Allowed,
                  LLM!Counted, LLMWindow!Allowed, LLMWindow!Counted
    <2> QED
      BY <2>4, <2>5, <2>6, <2>7 DEF LimitsHold
  <1> QED
    BY <1>1, SpecWindow, PTL
-----------------------------------------------------------------------------
(* Totals and pages.                                                        *)

\* How many of S come after each of its members, as a function.
After(S, i) == {j \in S : j > i}
Rank(S) == [i \in S |-> Cardinality(After(S, i))]

LEMMA AfterSize ==
    ASSUME NEW S \in SUBSET Int, IsFiniteSet(S), NEW i \in S
    PROVE  /\ IsFiniteSet(After(S, i)) /\ Cardinality(After(S, i)) \in Nat
           /\ Cardinality(After(S, i) \cup {i}) = Cardinality(After(S, i)) + 1
           /\ Cardinality(After(S, i)) + 1 <= Cardinality(S)
  <1>1. /\ After(S, i) \in SUBSET S /\ (After(S, i) \cup {i}) \in SUBSET S
        /\ i \notin After(S, i)
    BY DEF After
  <1>2. IsFiniteSet(After(S, i))
    BY <1>1, FS_Subset
  <1>3. Cardinality(After(S, i) \cup {i}) = Cardinality(After(S, i)) + 1
    BY <1>1, <1>2, FS_AddElement
  <1>4. Cardinality(After(S, i) \cup {i}) <= Cardinality(S)
    BY <1>1, FS_Subset
  <1> QED
    BY <1>2, <1>3, <1>4, FS_CardinalityType

\* Newest first, the rows of a user stand at 0, 1, 2, ... and leave no gap.
LEMMA RankIsBijection ==
    ASSUME NEW S \in SUBSET Int, IsFiniteSet(S)
    PROVE  /\ Cardinality(S) \in Nat
           /\ Rank(S) \in Bijection(S, 0 .. Cardinality(S) - 1)
  <1> DEFINE T == 0 .. Cardinality(S) - 1
             rank == Rank(S)
  <1>1. Cardinality(S) \in Nat
    BY FS_CardinalityType
  <1>2. rank \in [S -> T]
    <2>1. ASSUME NEW i \in S PROVE Cardinality(After(S, i)) \in T
      <3>1. /\ Cardinality(After(S, i)) \in Nat
            /\ Cardinality(After(S, i)) + 1 <= Cardinality(S)
        BY AfterSize
      <3> QED
        BY <1>1, <3>1
    <2> QED
      BY <2>1 DEF Rank
  <1>3. ASSUME NEW i \in S, NEW k \in S, i < k PROVE rank[k] < rank[i]
    <2>1. \A j \in S : j > k => j > i
      BY <1>3
    <2>2. (After(S, k) \cup {k}) \in SUBSET After(S, i)
      BY <1>3, <2>1 DEF After
    <2>3. IsFiniteSet(After(S, i)) /\ Cardinality(After(S, i)) \in Nat
      BY AfterSize
    <2>4. Cardinality(After(S, k) \cup {k}) <= Cardinality(After(S, i))
      BY <2>2, <2>3, FS_Subset
    <2>5. /\ Cardinality(After(S, k)) \in Nat
          /\ Cardinality(After(S, k) \cup {k}) = Cardinality(After(S, k)) + 1
      BY AfterSize
    <2> QED
      BY <2>3, <2>4, <2>5 DEF Rank
  <1>4. \A i, k \in S : rank[i] = rank[k] => i = k
    <2> SUFFICES ASSUME NEW i \in S, NEW k \in S, rank[i] = rank[k], i # k PROVE FALSE
      OBVIOUS
    <2>1. rank[i] \in Int /\ rank[k] \in Int
      BY <1>2
    <2>2. i < k \/ k < i
      OBVIOUS
    <2> QED
      BY <2>1, <2>2, <1>3
  <1> HIDE DEF rank, T
  <1>5. rank \in Injection(S, T)
    BY <1>2, <1>4 DEF Injection, IsInjective
  <1>6. IsFiniteSet(T) /\ Cardinality(T) = Cardinality(S)
    BY <1>1, FS_Interval DEF T
  <1>7. rank \in Surjection(S, T)
    BY <1>5, <1>6, FS_Injection
  <1> QED
    BY <1>1, <1>5, <1>7 DEF Bijection, rank, T

\* The members with ranks from o, s of them.
LEMMA RanksBetween ==
    ASSUME NEW S \in SUBSET Int, IsFiniteSet(S), NEW o \in Nat, NEW s \in Nat \ {0}
    PROVE  LET n == Cardinality(S) IN
           Cardinality({i \in S : Rank(S)[i] \in o .. o + s - 1}) =
               CASE n <= o      -> 0
                 [] n >= o + s  -> s
                 [] OTHER       -> n - o
  <1> DEFINE n == Cardinality(S)
             P == {i \in S : Rank(S)[i] \in o .. o + s - 1}
             m == IF n >= o + s THEN o + s - 1 ELSE n - 1
             T == o .. m
             f == [i \in P |-> Rank(S)[i]]
  <1>1. n \in Nat /\ Rank(S) \in Bijection(S, 0 .. n - 1)
    BY RankIsBijection
  <1>2. /\ Rank(S) \in [S -> 0 .. n - 1]
        /\ \A i, k \in S : Rank(S)[i] = Rank(S)[k] => i = k
        /\ \A x \in 0 .. n - 1 : \E i \in S : Rank(S)[i] = x
    BY <1>1 DEF Bijection, Injection, IsInjective, Surjection
  <1>3. m \in Int
    BY <1>1
  <1>4. \A x \in Int : x \in T <=> x \in 0 .. n - 1 /\ x \in o .. o + s - 1
    BY <1>1
  <1> HIDE DEF n, m, T
  <1>5. f \in Injection(P, T)
    <2>1. \A i \in P : Rank(S)[i] \in T
      BY <1>2, <1>4
    <2>2. f \in [P -> T]
      BY <2>1
    <2>3. \A i, k \in P : f[i] = f[k] => i = k
      BY <1>2
    <2> QED
      BY <2>2, <2>3 DEF Injection, IsInjective
  <1>6. f \in Surjection(P, T)
    <2>1. ASSUME NEW x \in T PROVE \E i \in P : f[i] = x
      <3>1. x \in Int
        BY <1>3 DEF T
      <3>2. x \in 0 .. n - 1 /\ x \in o .. o + s - 1
        BY <1>4, <3>1
      <3>3. PICK i \in S : Rank(S)[i] = x
        BY <1>2, <3>2
      <3> QED
        BY <3>2, <3>3
    <2> QED
      BY <1>5, <2>1 DEF Surjection, Injection
  <1>7. IsFiniteSet(T) /\ Cardinality(T) = IF o > m THEN 0 ELSE m - o + 1
    BY <1>3, FS_Interval DEF T
  <1>8. Cardinality(P) = Cardinality(T)
    BY <1>5, <1>6, <1>7, FS_Injection
  <1> QED
    BY <1>1, <1>7, <1>8 DEF m, n

LEMMA ModSmall == ASSUME NEW a \in Int, NEW b \in Int, 0 <= a, a < b PROVE a % b = a
  BY SMT

\* An int that is large enough for a number keeps it.
LEMMA IntIsKept == ASSUME NEW n \in 0 .. MaxInt PROVE ToInt(n) = n
  <1>1. /\ n + MaxInt + 1 \in Int /\ 2 * (MaxInt + 1) \in Int
        /\ 0 <= n + MaxInt + 1 /\ n + MaxInt + 1 < 2 * (MaxInt + 1)
    BY IntAssumption
  <1>2. (n + MaxInt + 1) % (2 * (MaxInt + 1)) = n + MaxInt + 1
    BY <1>1, ModSmall
  <1> QED
    BY <1>2, IntAssumption DEF ToInt

LEMMA SkippedIsNat ==
    ASSUME NEW page \in Int, NEW size \in Int PROVE Skipped(page, size) \in Nat
  <1> DEFINE m == (page - 1) * size
  <1>1. m \in Int
    OBVIOUS
  <1>2. ToInt(m) \in Int
    <2> HIDE DEF m
    <2> QED
      BY <1>1, IntAssumption DEF ToInt
  <1> QED
    BY <1>2 DEF Skipped

LEMMA PageRange ==
    ASSUME NEW query \in Int \X Int
    PROVE  /\ Offset(query) \in Nat /\ SizeOf(query) \in Nat \ {0}
           /\ PageOf(query) - 1 \in Nat
  <1>1. PageOf(query) - 1 \in Nat /\ PageOf(query) \in Int
    BY DEF PageOf, ParsePositiveInt
  <1>2. SizeOf(query) \in Nat \ {0}
    BY PageSizeAssumption DEF SizeOf, ParsePositiveInt
  <1> QED
    BY <1>1, <1>2, SkippedIsNat DEF Offset

\* A page that does not start after more rows than an int can count starts
\* after as many as it should.
LEMMA TrueOffset ==
    ASSUME NEW query \in Int \X Int, (PageOf(query) - 1) * SizeOf(query) <= MaxInt
    PROVE  Offset(query) = (PageOf(query) - 1) * SizeOf(query)
  <1> DEFINE p == PageOf(query)
             m == (p - 1) * SizeOf(query)
  <1>1. \A x, y \in Nat : x * y \in Nat
    OBVIOUS
  <1>2. m \in Nat
    BY <1>1, PageRange
  <1>3. m \in 0 .. MaxInt
    BY <1>2, IntAssumption
  <1>4. ToInt(m) = m
    <2> HIDE DEF m
    <2> QED
      BY <1>3, IntIsKept
  <1> QED
    BY <1>2, <1>4 DEF Offset, Skipped

\* A page of the rows that a count has found: full, unless it is the last or
\* past it.
LEMMA PageOfCount ==
    ASSUME rows \in Seq(Row), NEW table, NEW owner, NEW query \in Int \X Int
    PROVE  LET total  == CountRows(table, owner)
               before == Offset(query)
               size   == SizeOf(query)
           IN  Cardinality(ListRows(table, owner, query)) =
                   CASE total <= before         -> 0
                     [] total >= before + size  -> size
                     [] OTHER                   -> total - before
  <1> DEFINE own == OwnRows(table, owner)
  <1>1. own \in SUBSET (1 .. Len(rows)) /\ Len(rows) \in Nat
    BY DEF OwnRows
  <1>2. own \in SUBSET Int /\ IsFiniteSet(own)
    <2>1. IsFiniteSet(1 .. Len(rows))
      BY <1>1, FS_Interval
    <2> QED
      BY <1>1, <2>1, FS_Subset
  <1>3. ListRows(table, owner, query) =
            {i \in own : Rank(own)[i] \in Offset(query) .. Offset(query) + SizeOf(query) - 1}
    BY DEF ListRows, Rank, After
  <1> QED
    BY <1>2, <1>3, PageRange, RanksBetween DEF CountRows

\* Every write changes a count by one at the most.
LEMMA AppendCounts ==
    ASSUME rows \in Seq(Row), NEW row, rows' = Append(rows, row), NEW table, NEW owner
    PROVE  CountRows(table, owner)' \in CountRows(table, owner) - 1 .. CountRows(table, owner) + 1
  <1> DEFINE n == Len(rows)
             own == OwnRows(table, owner)
             new == OwnRows(table, owner)'
  <1>1. n \in Nat /\ DOMAIN rows = 1 .. n /\ DOMAIN rows' = 1 .. n + 1
        /\ \A i \in 1 .. n : rows'[i] = rows[i]
    OBVIOUS
  <1>2. own \in SUBSET (1 .. n) /\ IsFiniteSet(own) /\ Cardinality(own) \in Nat
    <2>1. own \in SUBSET (1 .. n) /\ IsFiniteSet(1 .. n)
      BY <1>1, FS_Interval DEF OwnRows
    <2> HIDE DEF own
    <2> QED
      BY <2>1, FS_Subset, FS_CardinalityType
  <1>3. new = own \/ new = own \cup {n + 1}
    BY <1>1 DEF OwnRows
  <1>4. n + 1 \notin own
    BY <1>1, <1>2
  <1> HIDE DEF n, own, new
  <1>5. Cardinality(own \cup {n + 1}) = Cardinality(own) + 1
    BY <1>2, <1>4, FS_AddElement
  <1>6. CountRows(table, owner)' = Cardinality(new) /\ CountRows(table, owner) = Cardinality(own)
    BY DEF CountRows, own, new
  <1>7. Cardinality(new) \in {Cardinality(own), Cardinality(own) + 1}
    BY <1>3, <1>5, Zenon
  <1>8. Cardinality(new) \in Cardinality(own) - 1 .. Cardinality(own) + 1
    BY <1>2, <1>7
  <1> QED
    BY <1>6, <1>8, Zenon

LEMMA RenameCounts ==
    ASSUME rows \in Seq(Row), NEW t, NEW id, NEW u, NEW title, UpdateTitle(t, id, u, title),
           NEW table, NEW owner
    PROVE  CountRows(table, owner)' \in CountRows(table, owner) - 1 .. CountRows(table, owner) + 1
  <1>1. DOMAIN rows' = DOMAIN rows /\ DOMAIN rows = 1 .. Len(rows) /\ Len(rows) \in Nat
    BY DEF UpdateTitle
  <1>2. ASSUME NEW i \in DOMAIN rows
        PROVE  rows'[i].table = rows[i].table /\ rows'[i].owner = rows[i].owner
    <2>1. rows[i] \in Row
      BY <1>1, ElementOfSeq
    <2> QED
      BY <2>1 DEF UpdateTitle, Row
  <1>3. OwnRows(table, owner)' = OwnRows(table, owner)
    BY <1>1, <1>2 DEF OwnRows
  <1>4. CountRows(table, owner)' = CountRows(table, owner)
    BY <1>3 DEF CountRows
  <1>5. CountRows(table, owner) \in Nat
    <2>1. IsFiniteSet(DOMAIN rows)
      BY <1>1, FS_Interval
    <2> QED
      BY <2>1, FS_Subset, FS_CardinalityType DEF CountRows, OwnRows
  <1> QED
    BY <1>4, <1>5

\* Where the rows are that were there before one was taken out.
LEMMA RemoveShifts ==
    ASSUME NEW S, NEW s \in Seq(S), NEW i \in DOMAIN s
    PROVE  /\ Len(s) \in Nat \ {0} /\ i \in 1 .. Len(s) /\ DOMAIN s = 1 .. Len(s)
           /\ DOMAIN RemoveAt(s, i) = 1 .. Len(s) - 1
           /\ \A k \in 1 .. Len(s) - 1 :
                  RemoveAt(s, i)[k] = IF k < i THEN s[k] ELSE s[k + 1]
  <1>1. Len(s) \in Nat /\ i \in 1 .. Len(s) /\ DOMAIN s = 1 .. Len(s)
    OBVIOUS
  <1> DEFINE a == SubSeq(s, 1, i - 1)
             b == SubSeq(s, i + 1, Len(s))
  <1>3. a \in Seq(S) /\ Len(a) = i - 1 /\ \A m \in 1 .. i - 1 : a[m] = s[m]
    <2>1. \A m \in 1 .. i - 1 : s[m] \in S
      BY <1>1
    <2> QED
      BY <1>1, <2>1, SubSeqProperties
  <1>4. b \in Seq(S) /\ Len(b) = Len(s) - i /\ \A m \in 1 .. Len(s) - i : b[m] = s[i + m]
    <2>1. \A m \in i + 1 .. Len(s) : s[m] \in S
      BY <1>1
    <2> QED
      BY <1>1, <2>1, SubSeqProperties
  <1>5. RemoveAt(s, i) = a \o b
    BY DEF RemoveAt
  <1> HIDE DEF a, b
  <1>6. /\ DOMAIN (a \o b) = 1 .. Len(a) + Len(b)
        /\ \A k \in 1 .. Len(a) + Len(b) :
               (a \o b)[k] = IF k <= Len(a) THEN a[k] ELSE b[k - Len(a)]
    <2>1. a \in Seq(S) /\ b \in Seq(S)
      BY <1>3, <1>4
    <2>2. a \o b \in Seq(S) /\ Len(a \o b) = Len(a) + Len(b)
      BY <2>1, ConcatProperties
    <2>3. DOMAIN (a \o b) = 1 .. Len(a) + Len(b)
      BY <2>2
    <2> QED
      BY <2>1, <2>3, ConcatProperties
  <1>7. Len(a) + Len(b) = Len(s) - 1
    BY <1>1, <1>3, <1>4
  <1>8. ASSUME NEW k \in 1 .. Len(s) - 1
        PROVE  (a \o b)[k] = IF k < i THEN s[k] ELSE s[k + 1]
    <2>1. CASE k < i
      <3>1. k \in 1 .. i - 1 /\ k <= Len(a)
        BY <2>1, <1>1, <1>3
      <3> QED
        BY <3>1, <2>1, <1>3, <1>6, <1>7
    <2>2. CASE ~(k < i)
      <3>1. /\ ~(k <= Len(a)) /\ k - Len(a) \in 1 .. Len(s) - i
            /\ i + (k - Len(a)) = k + 1
        BY <2>2, <1>1, <1>3
      <3>2. (a \o b)[k] = b[k - Len(a)]
        BY <3>1, <1>6, <1>7
      <3>3. b[k - Len(a)] = s[i + (k - Len(a))]
        BY <3>1, <1>4
      <3> QED
        BY <2>2, <3>1, <3>2, <3>3
    <2> QED
      BY <2>1, <2>2
  <1>9. DOMAIN (a \o b) = 1 .. Len(s) - 1
    BY <1>6, <1>7
  <1>10. Len(s) \in Nat \ {0}
    BY <1>1
  <1> QED
    BY <1>1, <1>5, <1>8, <1>9, <1>10, Zenon

LEMMA RemoveCounts ==
    ASSUME rows \in Seq(Row), NEW i \in DOMAIN rows, rows' = RemoveAt(rows, i),
           NEW table, NEW owner
    PROVE  CountRows(table, owner)' \in CountRows(table, owner) - 1 .. CountRows(table, owner) + 1
  <1> DEFINE n == Len(rows)
             own == OwnRows(table, owner)
             new == OwnRows(table, owner)'
             f == [k \in new |-> IF k < i THEN k ELSE k + 1]
  <1>1. /\ n \in Nat \ {0} /\ i \in 1 .. n /\ DOMAIN rows = 1 .. n /\ DOMAIN rows' = 1 .. n - 1
        /\ \A k \in 1 .. n - 1 : rows'[k] = IF k < i THEN rows[k] ELSE rows[k + 1]
    BY RemoveShifts
  <1>2. own \in SUBSET (1 .. n) /\ IsFiniteSet(own) /\ Cardinality(own) \in Nat
    <2>1. own \in SUBSET (1 .. n) /\ IsFiniteSet(1 .. n)
      BY <1>1, FS_Interval DEF OwnRows
    <2> HIDE DEF own
    <2> QED
      BY <2>1, FS_Subset, FS_CardinalityType
  <1>3. /\ \A k \in 1 .. n : k \in own <=> rows[k].table = table /\ rows[k].owner = owner
        /\ \A k : k \in new <=> /\ k \in 1 .. n - 1
                               /\ rows'[k].table = table /\ rows'[k].owner = owner
    BY <1>1 DEF OwnRows
  <1>4. CountRows(table, owner)' = Cardinality(new) /\ CountRows(table, owner) = Cardinality(own)
    BY DEF CountRows
  <1> HIDE DEF n, own, new
  <1>5. ASSUME NEW k \in new
        PROVE  /\ k \in 1 .. n - 1 /\ f[k] \in own \ {i}
    <2>1. k \in 1 .. n - 1 /\ rows'[k].table = table /\ rows'[k].owner = owner
      BY <1>3
    <2>2. f[k] \in 1 .. n /\ f[k] # i /\ rows'[k] = rows[f[k]]
      BY <2>1, <1>1
    <2> QED
      BY <2>1, <2>2, <1>3
  <1>6. f \in [new -> own \ {i}]
    BY <1>5
  <1>7. ASSUME NEW k \in new, NEW m \in new, f[k] = f[m] PROVE k = m
    <2>1. k \in Int /\ m \in Int /\ i \in Int
      BY <1>1, <1>5
    <2> QED
      BY <2>1, <1>7
  <1>8. ASSUME NEW x \in own \ {i} PROVE \E k \in new : f[k] = x
    <2> DEFINE k == IF x < i THEN x ELSE x - 1
    <2>1. x \in 1 .. n /\ x # i /\ rows[x].table = table /\ rows[x].owner = owner
      BY <1>2, <1>3
    <2>2. k \in 1 .. n - 1 /\ (k < i <=> x < i) /\ (IF k < i THEN k ELSE k + 1) = x
      BY <2>1, <1>1
    <2>3. rows'[k] = rows[x]
      BY <2>2, <1>1
    <2>4. k \in new
      BY <2>1, <2>2, <2>3, <1>3
    <2>5. f[k] = x
      BY <2>2, <2>4
    <2> QED
      BY <2>4, <2>5
  <1> HIDE DEF f
  <1>9. f \in Injection(new, own \ {i}) /\ f \in Surjection(new, own \ {i})
    BY <1>6, <1>7, <1>8 DEF Injection, IsInjective, Surjection
  <1>10. /\ IsFiniteSet(own \ {i})
         /\ Cardinality(own \ {i}) = IF i \in own THEN Cardinality(own) - 1 ELSE Cardinality(own)
    BY <1>2, FS_RemoveElement
  <1>11. Cardinality(new) = Cardinality(own \ {i})
    BY <1>9, <1>10, FS_Injection, FS_Surjection, FS_CardinalityType
  <1> QED
    BY <1>2, <1>4, <1>10, <1>11

\* What a list request has counted is so but for one row a write since then.
Counted(r) ==
    LET count == CountRows(input[r].table, user[r]) IN
    at[r] = "items" => seen[r] \in count - between[r] .. count + between[r]

PageInv == \A r \in Requests : Counted(r)

\* No count of anybody's rows changes by more than one.
OneMoreOrLess ==
    \A table, owner : /\ CountRows(table, owner) \in Nat
                      /\ CountRows(table, owner)' \in
                             CountRows(table, owner) - 1 .. CountRows(table, owner) + 1

\* What a step of r does to the others: nothing, but to note a write.
Unseen(r) ==
    /\ \A q \in Requests \ {r} :
           /\ at'[q] = at[q] /\ seen'[q] = seen[q]
           /\ input'[q] = input[q] /\ user'[q] = user[q]
    /\ \/ rows' = rows /\ \A q \in Requests \ {r} : between'[q] = between[q]
       \/ OneMoreOrLess /\ Written

LEMMA UnseenCounts ==
    ASSUME PageInv, CoreType, NEW r \in Requests, Unseen(r), Counted(r)' PROVE PageInv'
  <1>1. ASSUME NEW q \in Requests \ {r}, at'[q] = "items" PROVE Counted(q)'
    <2> DEFINE c == CountRows(input[q].table, user[q])
               d == CountRows(input[q].table, user[q])'
    <2>1. /\ seen[q] \in c - between[q] .. c + between[q] /\ seen'[q] = seen[q]
          /\ at[q] = "items" /\ between[q] \in Nat
          /\ input'[q] = input[q] /\ user'[q] = user[q]
      BY <1>1 DEF PageInv, Counted, Unseen, CoreType
    <2>2. CASE rows' = rows /\ between'[q] = between[q]
      <3>1. d = c
        BY <2>1, <2>2 DEF CountRows, OwnRows
      <3> QED
        BY <2>1, <2>2, <3>1 DEF Counted
    <2>3. CASE OneMoreOrLess /\ Written
      <3>1. between'[q] = between[q] + 1
        BY <2>1, <2>3 DEF Written
      <3>2. c \in Nat /\ d \in c - 1 .. c + 1
        <4>1. /\ CountRows(input[q].table, user[q]) \in Nat
              /\ \A t, o : t = input[q].table /\ o = user[q] =>
                     CountRows(t, o)' \in c - 1 .. c + 1
          BY <2>3 DEF OneMoreOrLess
        <4>2. d = Cardinality({i \in DOMAIN rows' : /\ rows'[i].table = input[q].table
                                                   /\ rows'[i].owner = user[q]})
          BY <2>1 DEF CountRows, OwnRows
        <4> QED
          BY <4>1, <4>2 DEF CountRows, OwnRows
      <3> HIDE DEF c, d
      <3>3. seen'[q] \in d - between'[q] .. d + between'[q]
        BY <2>1, <3>1, <3>2
      <3> QED
        BY <3>3 DEF Counted, d
    <2> QED
      BY <2>2, <2>3 DEF Unseen
  <1> QED
    BY <1>1 DEF PageInv, Counted

\* The handlers that write.
LEMMA WriterCounts ==
    ASSUME CoreType, NEW r \in Requests, Create(r) \/ Rename(r) \/ Delete(r)
    PROVE  (rows' = rows /\ between' = between) \/ (OneMoreOrLess /\ Written)
  <1>1. rows \in Seq(Row) /\ Len(rows) \in Nat /\ DOMAIN rows = 1 .. Len(rows)
    BY DEF CoreType
  <1>2. \A table, owner : CountRows(table, owner) \in Nat
    <2>1. IsFiniteSet(DOMAIN rows)
      BY <1>1, FS_Interval
    <2> QED
      BY <2>1, FS_Subset, FS_CardinalityType DEF CountRows, OwnRows
  <1> SUFFICES ASSUME ~(rows' = rows /\ between' = between)
               PROVE  OneMoreOrLess /\ Written
    OBVIOUS
  <1>3. CASE Create(r)
    <2>1. Written /\ \E row : rows' = Append(rows, row)
      BY <1>3 DEF Create, CreateRow
    <2> QED
      BY <2>1, <1>1, <1>2, AppendCounts DEF OneMoreOrLess
  <1>4. CASE Rename(r)
    <2>1. Written /\ UpdateTitle(input[r].table, input[r].id, user[r], input[r].title)
      BY <1>4 DEF Rename
    <2> QED
      BY <2>1, <1>1, <1>2, RenameCounts DEF OneMoreOrLess
  <1>5. CASE Delete(r)
    <2>1. Written /\ DeleteRow(input[r].table, input[r].id, user[r])
      BY <1>5 DEF Delete
    <2>2. PICK i \in DOMAIN rows : rows' = RemoveAt(rows, i)
      BY <2>1 DEF DeleteRow
    <2> QED
      BY <2>1, <2>2, <1>1, <1>2, RemoveCounts DEF OneMoreOrLess
  <1> QED
    BY <1>3, <1>4, <1>5

LEMMA HandlerUnseen == ASSUME CoreType, NEW r \in Requests, Handler(r) PROVE Unseen(r)
  <1>1. input' = input
    BY DEF Handler, Register, InsertUser, Login, Create, Get, List, Items, Rename, Reread, Delete,
           Chat, Search, Ask, LimitLLM, Model, StartStream, Unchanged, Elsewhere
  <1>2. \A q \in Requests \ {r} : user'[q] = user[q]
    BY DEF Handler, Register, InsertUser, Login, Create, Get, List, Items, Rename, Reread, Delete,
           Chat, Search, Ask, LimitLLM, Model, StartStream, Unchanged, Elsewhere, Resolve, CoreType
  <1>3. \A q \in Requests \ {r} : at'[q] = at[q]
    BY HandlerGoes DEF Going
  <1>4. \A q \in Requests \ {r} : seen'[q] = seen[q]
    BY ZenonT(60) DEF Handler, Register, InsertUser, Login, Create, Get, List, Items, Rename,
           Reread, Delete, Chat, Search, Ask, LimitLLM, Model, StartStream, Reply,
           Continue, CoreType
  <1>5. \/ rows' = rows /\ \A q \in Requests \ {r} : between'[q] = between[q]
        \/ OneMoreOrLess /\ Written
    <2>1. CASE Create(r) \/ Rename(r) \/ Delete(r)
      BY <2>1, WriterCounts
    <2>2. CASE ~(Create(r) \/ Rename(r) \/ Delete(r))
      BY <2>2 DEF Handler, Register, InsertUser, Login, Get, List, Items, Reread, Chat, Search,
           Ask, LimitLLM, Model, StartStream, tables, CoreType
    <2> QED
      BY <2>1, <2>2
  <1> QED
    BY <1>1, <1>2, <1>3, <1>4, <1>5 DEF Unseen

LEMMA HandlerCounts == ASSUME CoreType, NEW r \in Requests, Handler(r) PROVE Counted(r)'
  <1>1. CASE List(r)
    <2>1. CASE Continue(r, "items", CountRows(input[r].table, user[r]))
      <3> DEFINE c == CountRows(input[r].table, user[r])
      <3>1. seen'[r] = c
        BY <2>1 DEF Continue, CoreType
      <3>2. rows' = rows /\ input' = input /\ user' = user
        BY <1>1 DEF List, Unchanged, Elsewhere, tables
      <3>3. c' = c
        BY <3>2 DEF CountRows, OwnRows
      <3>4. c \in Nat
        <4>1. IsFiniteSet(DOMAIN rows)
          BY FS_Interval DEF CoreType
        <4> QED
          BY <4>1, FS_Subset, FS_CardinalityType DEF CountRows, OwnRows
      <3>5. between'[r] \in Nat
        BY <1>1 DEF List, CoreType
      <3>6. seen'[r] \in c' - between'[r] .. c' + between'[r]
        <4> HIDE DEF c
        <4> QED
          BY <3>1, <3>3, <3>4, <3>5
      <3> QED
        BY <3>6 DEF Counted
    <2>2. CASE Reply(r, "handler", 500)
      BY <2>2 DEF Reply, Goto, Counted, CoreType
    <2> QED
      BY <1>1, <2>1, <2>2 DEF List
  <1>2. CASE ~List(r)
    <2>1. at'[r] # "items"
      BY <1>2, ZenonT(60) DEF Handler, Register, InsertUser, Login, Create, Get, Items, Rename,
           Reread, Delete, Chat, Search, Ask, LimitLLM, Model, StartStream, Reply,
           Continue, Goto, CoreType
    <2> QED
      BY <2>1 DEF Counted
  <1> QED
    BY <1>1, <1>2

LEMMA MiddleCounts ==
    ASSUME ChainInv, NEW r \in Requests, RateLimit(r) \/ Auth(r) \/ CozeAPIKey(r)
    PROVE  Unseen(r) /\ Counted(r)'
  <1>1. CoreType
    BY DEF ChainInv
  <1>2. rows' = rows /\ between' = between /\ seen' = seen
    BY DEF RateLimit, Auth, CozeAPIKey, Pass, Refuse, tables
  <1>3. \A q \in Requests \ {r} : user'[q] = user[q]
    BY <1>1 DEF RateLimit, Auth, CozeAPIKey, Pass, Refuse, CoreType
  <1>4. \A q \in Requests \ {r} : at'[q] = at[q]
    BY MiddleGoes DEF Going
  <1>5. \A q \in Requests \ {r} : input'[q] = input[q]
    <2>1. CASE RateLimit(r)
      <3>1. PICK kind \in Kinds[r] : Send(r, kind)
        BY <2>1 DEF RateLimit
      <3> QED
        BY <1>1, <3>1, SendFits
    <2> QED
      BY <2>1 DEF Auth, CozeAPIKey
  <1>6. at'[r] # "items"
    <2>1. CASE RateLimit(r)
      <3>1. PICK kind \in Kinds[r] : at' = [at EXCEPT ![r] = AfterLimit(kind)]
        BY <2>1 DEF RateLimit, Pass, Refuse, Goto
      <3>2. kind \in AllKinds
        BY RequestAssumption DEF AllKinds
      <3>3. AfterLimit(kind) # "items"
        BY <3>2 DEF AfterLimit, AllKinds, UserKinds, ChatKinds, StreamKinds, GuestKinds, CozeKinds
      <3> QED
        BY <1>1, <3>1, <3>3 DEF CoreType
    <2> QED
      BY <1>1, <2>1 DEF Auth, CozeAPIKey, Pass, Refuse, Goto, CoreType
  <1> QED
    BY <1>2, <1>3, <1>4, <1>5, <1>6 DEF Unseen, Counted

LEMMA PageNext == ASSUME ChainInv, PageInv, [Next]_vars PROVE PageInv'
  <1>0. CoreType
    BY DEF ChainInv
  <1>1. ASSUME NEW r \in Requests, Handler(r) PROVE PageInv'
    BY <1>0, <1>1, HandlerUnseen, HandlerCounts, UnseenCounts
  <1>2. ASSUME NEW r \in Requests, RateLimit(r) \/ Auth(r) \/ CozeAPIKey(r) PROVE PageInv'
    BY <1>0, <1>2, MiddleCounts, UnseenCounts
  <1>3. ASSUME NEW r \in Requests, Finish(r) \/ Panic(r) PROVE PageInv'
    <2>1. /\ at' = [at EXCEPT ![r] = "done"] /\ Forget(r) /\ rows' = rows
          /\ between' = between \/ between' = [between EXCEPT ![r] = 0]
      BY <1>3 DEF Finish, Panic, Goto, tables
    <2>2. at'[r] = "done" /\ \A q \in Requests \ {r} : at'[q] = at[q] /\ between'[q] = between[q]
      BY <1>0, <2>1 DEF CoreType
    <2>3. \A q \in Requests \ {r} :
              input'[q] = input[q] /\ user'[q] = user[q] /\ seen'[q] = seen[q]
      BY <1>0, <2>1 DEF Forget, CoreType
    <2>4. Unseen(r) /\ Counted(r)'
      BY <2>1, <2>2, <2>3 DEF Unseen, Counted
    <2> QED
      BY <1>0, <2>4, UnseenCounts
  <1>4. ASSUME UNCHANGED <<tables, at, between, seen, input, user>> PROVE PageInv'
    BY <1>4 DEF PageInv, Counted, CountRows, OwnRows, tables
  <1>5. CASE Tick \/ UNCHANGED vars
    BY <1>4, <1>5 DEF Tick, vars
  <1>6. ASSUME NEW r \in Requests, Stream(r) PROVE PageInv'
    BY <1>4, <1>6, StreamApart
  <1> QED
    BY <1>1, <1>2, <1>3, <1>5, <1>6 DEF Next, Step

\* Only the second query leaves the place between the two with a success.
LEMMA ReadsItems ==
    ASSUME ChainInv, NEW r \in Requests, Next,
           at[r] = "items", at'[r] = "return", status'[r] = 200
    PROVE  seen'[r] = Cardinality(ListRows(input[r].table, user[r], input[r].query))
  <1>0. CoreType
    BY DEF ChainInv
  <1>1. CASE Handler(r)
    <2>1. Items(r)
      BY <1>1 DEF Handler, Register, InsertUser, Login, Create, Get, List, Rename, Reread, Delete,
           Chat, Search, Ask, LimitLLM, Model, StartStream, Reply, Goto, Handles
    <2>2. ~Reply(r, "items", 500)
      BY <1>0 DEF Reply, CoreType
    <2> QED
      BY <1>0, <2>1, <2>2 DEF Items, CoreType
  <1>2. ASSUME NEW q \in Requests \ {r}, Step(q) \/ Panic(q) PROVE FALSE
    <2>1. at'[r] = at[r]
      <3>1. CASE Handler(q)
        BY <1>0, <3>1, HandlerGoes DEF Going
      <3>2. CASE RateLimit(q) \/ Auth(q) \/ CozeAPIKey(q)
        BY <3>2, MiddleGoes DEF Going
      <3>3. CASE Finish(q) \/ Panic(q)
        <4>1. at' = [at EXCEPT ![q] = "done"]
          BY <3>3 DEF Finish, Panic, Goto
        <4> QED
          BY <1>0, <4>1 DEF CoreType
      <3>4. CASE Stream(q)
        BY <3>4, StreamApart
      <3> QED
        BY <1>2, <3>1, <3>2, <3>3, <3>4 DEF Step
    <2> QED
      BY <2>1
  <1>3. ~RateLimit(r) /\ ~Auth(r) /\ ~CozeAPIKey(r) /\ ~Finish(r) /\ ~Stream(r)
    BY StreamApart DEF RateLimit, Auth, CozeAPIKey, Pass, Refuse, Goto, Finish
  <1>4. ~Panic(r)
    BY <1>0 DEF Panic, CoreType
  <1>5. ~Tick
    BY DEF Tick
  <1> QED
    BY <1>1, <1>2, <1>3, <1>4, <1>5 DEF Next, Step

\* What a page should hold follows the total: by as much, at the most.
LEMMA DemandFollows ==
    ASSUME NEW query \in Int \X Int, NEW m \in Nat, NEW n \in Nat, NEW b \in Nat,
           m \in n - b .. n + b
    PROVE  Demanded(query, m) \in Demanded(query, n) - b .. Demanded(query, n) + b
  <1> DEFINE before == (PageOf(query) - 1) * SizeOf(query)
             size   == SizeOf(query)
             D(k) == CASE k <= before         -> 0
                       [] k >= before + size  -> size
                       [] OTHER               -> k - before
  <1>1. \A x, y \in Nat : x * y \in Nat
    OBVIOUS
  <1>2. before \in Nat /\ size \in Nat \ {0}
    BY <1>1, PageRange
  <1>3. Demanded(query, m) = D(m) /\ Demanded(query, n) = D(n)
    BY DEF Demanded
  <1> HIDE DEF before, size
  <1>4. D(m) \in D(n) - b .. D(n) + b
    BY <1>2
  <1> QED
    BY <1>3, <1>4

\* A page of a list has as many items as the total that was read before it
\* demands, but for one for each write between the two reads: for any page
\* and size a client may ask for whose offset is an int, and any number of
\* requests that write meanwhile. (Beyond that the code returns the first
\* page.)
THEOREM PagesFitTotals == Spec => PageFitsTotal
  <1> DEFINE Fits(r) ==
          LET q == input[r].query IN
          /\ at[r] = "items" /\ at'[r] = "return" /\ status'[r] = 200
          /\ (PageOf(q) - 1) * SizeOf(q) <= MaxInt
          => Demanded(q, seen[r]) \in seen'[r] - between[r] .. seen'[r] + between[r]
  <1>1. Init => PageInv
    BY DEF Init, PageInv, Counted
  <1>2. ASSUME ChainInv, PageInv, Next, NEW r \in Requests PROVE Fits(r)
    <2> DEFINE q     == input[r].query
               count == CountRows(input[r].table, user[r])
    <2> SUFFICES ASSUME at[r] = "items", at'[r] = "return", status'[r] = 200,
                        (PageOf(q) - 1) * SizeOf(q) <= MaxInt
                 PROVE  Demanded(q, seen[r]) \in seen'[r] - between[r] .. seen'[r] + between[r]
      OBVIOUS
    <2>1. /\ Way(r) /\ rows \in Seq(Row) /\ seen[r] \in Nat /\ between[r] \in Nat
      BY <1>2 DEF ChainInv, RequestInv, CoreType
    <2>2. q \in Int \X Int
      BY <2>1, RequestAssumption DEF Way, InputFits
    <2>3. seen[r] \in count - between[r] .. count + between[r]
      BY <1>2 DEF PageInv, Counted
    <2>4. count \in Nat
      <3>1. IsFiniteSet(DOMAIN rows)
        BY <2>1, FS_Interval
      <3> QED
        BY <3>1, FS_Subset, FS_CardinalityType DEF CountRows, OwnRows
    <2>5. seen'[r] = Demanded(q, count)
      <3>1. seen'[r] = Cardinality(ListRows(input[r].table, user[r], input[r].query))
        BY <1>2, ReadsItems
      <3>2. Offset(q) = (PageOf(q) - 1) * SizeOf(q)
        BY <2>2, TrueOffset
      <3> QED
        BY <2>1, <2>2, <3>1, <3>2, PageOfCount DEF Demanded
    <2> HIDE DEF q, count
    <2> QED
      BY <2>1, <2>2, <2>3, <2>4, <2>5, DemandFollows
  <1>3. ChainInv /\ PageInv /\ [Next]_vars => PageInv'
    BY PageNext
  <1>4. ChainInv /\ PageInv /\ [Next]_vars => [\A r \in Requests : Fits(r)]_vars
    BY <1>2
  <1> QED
    BY <1>1, <1>3, <1>4, SpecChain, PTL DEF Spec, PageFitsTotal
=============================================================================
