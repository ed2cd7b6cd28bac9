----------------------------- MODULE RequestChain -----------------------------
(***************************************************************************)
(* The way of an HTTP request through the server: the chain of handlers    *)
(* that router.Register puts before every route (recovery, request ID,     *)
(* access log, rate limit per IP, then Auth or CozeAPIKey), the handler of *)
(* the route, and the way back. Requests run at the same time and share    *)
(* the tables (Accounts, Records), two fixed windows in Redis (RateWindow) *)
(* and the metrics.                                                        *)
(*                                                                         *)
(* The framework keeps one index per request. Next adds one to it and runs *)
(* the handler there, until the index is past the end; a handler that      *)
(* returns without calling Next is followed by the next one all the same,  *)
(* unless it calls Abort, which none here does. So whatever a handler      *)
(* decides, the one after it runs, and the last to write the status wins.  *)
(*                                                                         *)
(* A streamed route answers 200 with a body that a goroutine of its own    *)
(* fills: what the service says of the request, a missing user and a limit *)
(* that is used up included, reaches the client as a frame. (A panic in    *)
(* that goroutine ends the process, which is not modelled.)                *)
(*                                                                         *)
(* Chats are modelled up to their answer, see ChatTurn for the rest.       *)
(***************************************************************************)
EXTENDS Accounts, Records

CONSTANTS
    Requests,
    Kinds,          \* Kinds[r]: the routes that request r may ask for
    Address,        \* Address[r]: the IP address it comes from
    Logins,         \* name and password of a registration or a login
    Queries,        \* page and size of a list request, 0 for what is no number
    IPLimit, LLMLimit, Window,
    CozeKey,        \* cozeAPIKey
    CozeUser,       \* defaultUserID
    NoUser,         \* no value under CurrentUserIDKey
    FirstUser, FirstRecord,  \* an account that exists at the start, and its session
    MaxTime,        \* bound of the clock
    Faulty          \* bound: the requests that may meet a failing statement or script, or
                    \* a panic

StreamKinds == {"stream",          \* ChatStream
                "stream complete"} \* OpenAIChatCompletions with stream = true
ChatKinds  == {"chat",             \* Chat, ChatWithKnowledge
               "complete"}         \* OpenAIChatCompletions
UserKinds  == {"create", "get", "list", "rename", "delete"} \cup ChatKinds \cup StreamKinds
GuestKinds == {"register", "login"}
CozeKinds  == {"ask", "search"}

ASSUME RequestAssumption ==
    /\ Kinds \in [Requests -> SUBSET (UserKinds \cup GuestKinds \cup CozeKinds)]
    /\ UserIds = Requests \cup {FirstUser} /\ RecordIds = Requests \cup {FirstRecord}
    /\ Owners = UserIds /\ NoUser \notin UserIds \cup {Secret}
    /\ FirstUser \notin Requests /\ FirstRecord \notin Requests
    /\ Logins \subseteq Names \X Passwords /\ Queries \subseteq Int \X Int
    /\ Names # {} /\ Acceptable # {} /\ Titles # {}
ASSUME BoundAssumption == MaxTime \in Nat /\ Faulty \subseteq Requests

VARIABLES
    now,
    ipCount, ipEnds, ipGrants,     \* the window per address
    llmCount, llmEnds, llmGrants,  \* the window per user
    input,     \* input[r]: what the client sends
    at,        \* at[r]: where the request is in the chain or its handler
    user,      \* user[r]: the value under CurrentUserIDKey
    status,    \* status[r]: the status of the response so far
    seen,      \* seen[r]: what a list request has read, the total and then the items
    tokens,    \* the tokens the server has handed out
    stream,    \* stream[r]: where the goroutine is that fills the body
    requests, errors,  \* HTTPRequestsTotal, HTTPErrorsTotal
    between,   \* between[r]: writes since a list request has read the total (history)
    panicked

tables == <<users, rows>>
ip     == <<ipCount, ipEnds, ipGrants>>
llm    == <<llmCount, llmEnds, llmGrants>>
vars   == <<now, ip, llm, tables, input, at, user, status, seen, tokens,
            stream, requests, errors, between, panicked>>

IP  == INSTANCE RateWindow WITH Keys <- {Address[r] : r \in Requests}, Limit <- IPLimit,
           count <- ipCount, ends <- ipEnds, grants <- ipGrants
LLM == INSTANCE RateWindow WITH Keys <- UserIds \cup {CozeUser}, Limit <- LLMLimit,
           count <- llmCount, ends <- llmEnds, grants <- llmGrants

ASSUME LimitAssumption == IP!ParametersOK /\ LLM!ParametersOK

NoToken == [user |-> NoUser, exp |-> 0, secret |-> NoUser]
AnyTitle == CHOOSE t \in Titles : TRUE

Nothing == [kind |-> "none", name |-> NoUser, password |-> NoUser, token |-> NoToken,
            table |-> "sessions", id |-> NoUser, title |-> NoUser, query |-> <<0, 0>>]

FirstAccount == [id |-> FirstUser, name |-> CHOOSE n \in Names : TRUE,
                 password |-> CHOOSE p \in Acceptable : TRUE]

\* Somebody has registered, logged in and created a session before.
Init ==
    /\ IP!Init /\ LLM!Init
    /\ users = {FirstAccount}
    /\ rows = <<[id |-> FirstRecord, table |-> "sessions", owner |-> FirstUser,
                 title |-> AnyTitle]>>
    /\ input = [r \in Requests |-> Nothing]
    /\ at = [r \in Requests |-> "client"]
    /\ user = [r \in Requests |-> NoUser]
    /\ status = [r \in Requests |-> 0]
    /\ seen = [r \in Requests |-> 0]
    /\ tokens = {GenerateToken(FirstUser, 0)}
    /\ requests = 0 /\ errors = 0
    /\ between = [r \in Requests |-> 0]
    /\ stream = [r \in Requests |-> "none"]
    /\ panicked = {}

-----------------------------------------------------------------------------
(* What clients send.                                                      *)

Credentials == tokens \cup {NoToken}

\* Records a client can know of: one it was given, or one that is gone.
Known == {<<row.table, row.id>> : row \in ToSet(rows)} \cup {<<"sessions", FirstRecord>>}

\* What the client of r sends for a route.
Send(r, kind) ==
    LET Sent(f) == input' = [input EXCEPT ![r] = [f EXCEPT !.kind = kind]] IN
    \/ /\ kind \in GuestKinds
       /\ \E l \in Logins : Sent([Nothing EXCEPT !.name = l[1], !.password = l[2]])
    \/ /\ kind = "create"
       /\ \E c \in Credentials, t \in Tables :
              Sent([Nothing EXCEPT !.token = c, !.table = t, !.title = AnyTitle])
    \/ /\ kind \in {"get", "delete"}
       /\ \E c \in Credentials, k \in Known :
              Sent([Nothing EXCEPT !.token = c, !.table = k[1], !.id = k[2]])
    \/ /\ kind = "list"
       /\ \E c \in Credentials, t \in Tables, q \in Queries :
              Sent([Nothing EXCEPT !.token = c, !.table = t, !.query = q])
    \/ /\ kind \in {"rename", "chat", "stream"}
       /\ \E c \in Credentials, k \in Known,
             t \in IF kind = "rename" THEN Titles ELSE {AnyTitle} :
              Sent([Nothing EXCEPT !.token = c, !.id = k[2], !.title = t])
    \/ /\ kind \in {"complete", "stream complete"}
       /\ \E c \in Credentials : Sent([Nothing EXCEPT !.token = c])
    \/ /\ kind \in CozeKinds
       /\ \E n \in {NoUser, FirstUser}, k \in {NoUser, CozeKey} :
              Sent([Nothing EXCEPT !.name = n, !.password = k])

-----------------------------------------------------------------------------
(* The middlewares. Recovery, RequestID and Logger note something and call  *)
(* Next; the others may refuse.                                            *)

\* The handler that follows the rate limit on each route.
AfterLimit(kind) ==
    CASE kind \in UserKinds  -> "auth"
      [] kind \in CozeKinds  -> "api key"
      [] kind \in GuestKinds -> "handler"

Goto(r, from, to) ==
    /\ at[r] = from
    /\ at' = [at EXCEPT ![r] = to]

\* The middleware writes its refusal and returns; the chain goes on.
Refuse(r, from, to, code) ==
    /\ Goto(r, from, to)
    /\ status' = [status EXCEPT ![r] = code]
    /\ UNCHANGED <<now, llm, tables, user, seen, tokens, stream, requests, errors, between,
                   panicked>>

Pass(r, from, to) ==
    /\ Goto(r, from, to)
    /\ UNCHANGED <<now, llm, tables, status, seen, tokens, stream, requests, errors, between,
                   panicked>>

\* The first step of a request, with the middlewares before it.
RateLimit(r) ==
    /\ at[r] = "client"
    /\ \E kind \in Kinds[r] :
        /\ Send(r, kind)
        /\ \/ /\ IP!Hit(Address[r])
              /\ \/ /\ IP!Allowed(Address[r])
                    /\ Pass(r, "client", AfterLimit(kind))
                    /\ UNCHANGED user
                 \/ /\ ~IP!Allowed(Address[r])
                    /\ Refuse(r, "client", AfterLimit(kind), 429)
           \/ /\ r \in Faulty  \* the script fails
              /\ Refuse(r, "client", AfterLimit(kind), 500)
              /\ UNCHANGED ip

Auth(r) ==
    LET token == input[r].token IN
    /\ \/ /\ ParseToken(token, now)
          /\ Pass(r, "auth", "handler")
          /\ user' = [user EXCEPT ![r] = token.user]
       \/ /\ ~ParseToken(token, now)
          /\ Refuse(r, "auth", "handler", 401)
    /\ UNCHANGED <<ip, input>>

\* The key comes in one of three headers; without a configured key every
\* request passes.
CozeAPIKey(r) ==
    /\ \/ /\ CozeKey = NoUser \/ input[r].password = CozeKey
          /\ Pass(r, "api key", "handler")
          /\ UNCHANGED user
       \/ /\ CozeKey # NoUser /\ input[r].password # CozeKey
          /\ Refuse(r, "api key", "handler", 401)
    /\ UNCHANGED <<ip, input>>

-----------------------------------------------------------------------------
(* The handlers of the routes, by statement. Reply is the call of c.JSON.   *)
(* A statement that fails is answered like one that found nothing.         *)

Reply(r, from, code) ==
    /\ Goto(r, from, "return")
    /\ status' = [status EXCEPT ![r] = code]
    /\ seen' = [seen EXCEPT ![r] = 0]

Continue(r, to, value) ==
    /\ at' = [at EXCEPT ![r] = to]
    /\ seen' = [seen EXCEPT ![r] = value]
    /\ UNCHANGED status

\* What the handlers of accounts and records leave alone.
Elsewhere == <<now, ip, llm, input, user, stream, requests, errors, panicked>>
Unchanged == UNCHANGED Elsewhere

\* A write is noted with every request that is between its two reads.
Written ==
    between' = [q \in Requests |-> IF at[q] = "items" THEN between[q] + 1 ELSE 0]

\* A statement of r fails.
Fails(r) == r \in Faulty

Handles(r, kind) == at[r] = "handler" /\ input[r].kind = kind

\* Register looks the name up, and hashes the password before it inserts.
Register(r) ==
    LET i == input[r] IN
    /\ Handles(r, "register")
    /\ \/ i.password \in Acceptable /\ ~Taken(i.name) /\ Continue(r, "insert", 0)
       \/ /\ i.password \notin Acceptable \/ Taken(i.name) \/ Fails(r)
          /\ Reply(r, "handler", 400)
    /\ UNCHANGED <<tables, tokens, between>> /\ Unchanged

InsertUser(r) ==
    LET i == input[r] IN
    /\ at[r] = "insert"
    /\ \/ /\ CreateUser(r, i.name, i.password)
          /\ tokens' = tokens \cup {GenerateToken(r, now)}
          /\ Reply(r, "insert", 200)
       \/ /\ Taken(i.name) \/ Fails(r)
          /\ Reply(r, "insert", 400)
          /\ UNCHANGED <<users, tokens>>
    /\ UNCHANGED <<rows, between>> /\ Unchanged

Login(r) ==
    LET found == LogsIn(input[r].name, input[r].password) IN
    /\ Handles(r, "login")
    /\ \/ /\ \E u \in found : tokens' = tokens \cup {GenerateToken(u.id, now)}
          /\ Reply(r, "handler", 200)
       \/ /\ found = {} \/ Fails(r)
          /\ Reply(r, "handler", 401)
          /\ UNCHANGED tokens
    /\ UNCHANGED <<tables, between>> /\ Unchanged

\* Mutant: the service does not ask for a user.
MutHasUser(r) == TRUE

\* "user_id is required", the first check of every service.
HasUser(r) == user[r] # NoUser

Create(r) ==
    LET i == input[r] IN
    /\ Handles(r, "create")
    /\ \/ /\ HasUser(r)
          /\ CreateRow([id |-> r, table |-> i.table, owner |-> user[r], title |-> i.title])
          /\ Reply(r, "handler", 200) /\ Written
       \/ /\ ~HasUser(r) \/ Fails(r)
          /\ Reply(r, "handler", IF i.table = "sessions" THEN 500 ELSE 400)
          /\ UNCHANGED <<rows, between>>
    /\ UNCHANGED <<users, tokens>> /\ Unchanged

Owns(r) == HasUser(r) /\ Find(input[r].table, input[r].id, user[r]) # {}

Get(r) ==
    /\ Handles(r, "get")
    /\ \/ Owns(r) /\ Reply(r, "handler", 200)
       \/ (~Owns(r) \/ Fails(r)) /\ Reply(r, "handler", 404)
    /\ UNCHANGED <<tables, tokens, between>> /\ Unchanged

\* The total and the items of a page are two queries.
List(r) ==
    /\ Handles(r, "list")
    /\ \/ /\ HasUser(r)
          /\ Continue(r, "items", CountRows(input[r].table, user[r]))
          /\ between' = [between EXCEPT ![r] = 0]
       \/ /\ ~HasUser(r) \/ Fails(r)
          /\ Reply(r, "handler", 500)
          /\ UNCHANGED between
    /\ UNCHANGED <<tables, tokens>> /\ Unchanged

Items(r) ==
    /\ \/ /\ Goto(r, "items", "return")
          /\ status' = [status EXCEPT ![r] = 200]
          /\ seen' = [seen EXCEPT ![r] =
                          Cardinality(ListRows(input[r].table, user[r], input[r].query))]
       \/ Fails(r) /\ Reply(r, "items", 500)
    /\ between' = [between EXCEPT ![r] = 0]
    /\ UNCHANGED <<tables, tokens>> /\ Unchanged

\* The row is read again for the answer, and may be gone by then.
Rename(r) ==
    LET i == input[r] IN
    /\ Handles(r, "rename")
    /\ \/ /\ Owns(r)
          /\ UpdateTitle(i.table, i.id, user[r], i.title)
          /\ Continue(r, "reread", 0) /\ Written
       \/ /\ ~Owns(r) \/ Fails(r)
          /\ Reply(r, "handler", 404)
          /\ UNCHANGED <<rows, between>>
    /\ UNCHANGED <<users, tokens>> /\ Unchanged

Reread(r) ==
    /\ \/ Owns(r) /\ Reply(r, "reread", 200)
       \/ (~Owns(r) \/ Fails(r)) /\ Reply(r, "reread", 404)
    /\ UNCHANGED <<tables, tokens, between>> /\ Unchanged

\* For a session one transaction with its messages.
Delete(r) ==
    /\ Handles(r, "delete")
    /\ \/ /\ Owns(r)
          /\ DeleteRow(input[r].table, input[r].id, user[r])
          /\ Reply(r, "handler", 200) /\ Written
       \/ /\ ~Owns(r) \/ Fails(r)
          /\ Reply(r, "handler", 404)
          /\ UNCHANGED <<rows, between>>
    /\ UNCHANGED <<users, tokens>> /\ Unchanged

\* Chat and ChatCompletion; ChatWithKnowledge searches the documents of the
\* user first, which may fail.
Chat(r) ==
    /\ at[r] = "handler" /\ input[r].kind \in ChatKinds
    /\ \/ HasUser(r) /\ Continue(r, "llm limit", 0)
       \/ /\ ~HasUser(r) \/ (input[r].kind = "chat" /\ Fails(r))
          /\ Reply(r, "handler", 500)
    /\ UNCHANGED <<tables, tokens, between>> /\ Unchanged

\* resolveUserID: a Coze request acts for the user its body names, or for a
\* default one.
Resolve(r) ==
    user' = [user EXCEPT ![r] = IF input[r].name = NoUser THEN CozeUser ELSE input[r].name]

\* CampusSearch and CampusAsk search the documents of that user.
Search(r) ==
    /\ Handles(r, "search")
    /\ Resolve(r)
    /\ Reply(r, "handler", 200) \/ (Fails(r) /\ Reply(r, "handler", 500))
    /\ UNCHANGED <<now, ip, llm, tables, input, tokens, stream, requests, errors, between,
                   panicked>>

Ask(r) ==
    /\ Handles(r, "ask")
    /\ Resolve(r)
    /\ Continue(r, "llm limit", 0) \/ (Fails(r) /\ Reply(r, "handler", 500))
    /\ UNCHANGED <<now, ip, llm, tables, input, tokens, stream, requests, errors, between,
                   panicked>>

\* checkUserLLMRateLimit, before anything is stored. A limit of 0 is none.
LimitLLM(r) ==
    /\ at[r] = "llm limit"
    /\ \/ /\ LLMLimit > 0 /\ LLM!Hit(user[r])
          /\ \/ LLM!Allowed(user[r])  /\ Continue(r, "model", 0)
             \/ ~LLM!Allowed(user[r]) /\ Reply(r, "llm limit", 429)
       \/ /\ LLMLimit = 0 /\ Continue(r, "model", 0)
          /\ UNCHANGED llm
       \/ /\ r \in Faulty  \* the script fails
          /\ Reply(r, "llm limit", 500)
          /\ UNCHANGED llm
    /\ UNCHANGED <<now, ip, tables, input, user, tokens, stream, requests, errors, between,
                   panicked>>

\* Completions name no session, and CampusAsk may do without.
NeedsNone(r) == input[r].kind \in {"ask", "complete", "stream complete"}

\* The question is stored if the session is there, then the model answers or
\* fails; writeChatError maps what went wrong.
Model(r) ==
    /\ \/ (Owns(r) \/ NeedsNone(r)) /\ Reply(r, "model", 200)
       \/ ~Owns(r) /\ input[r].kind # "complete" /\ Reply(r, "model", 404)
       \/ Reply(r, "model", 500)
    /\ UNCHANGED <<tables, tokens, between>> /\ Unchanged

\* A streamed route: the status is written and the handler returns, and the
\* service is called by the goroutine that it leaves behind.
StartStream(r) ==
    /\ at[r] = "handler" /\ input[r].kind \in StreamKinds
    /\ Reply(r, "handler", 200)
    /\ stream' = [stream EXCEPT ![r] = "service"]
    /\ UNCHANGED <<now, ip, llm, tables, input, user, tokens, requests, errors, between,
                   panicked>>

Handler(r) ==
    \/ Register(r) \/ InsertUser(r) \/ Login(r)
    \/ Create(r) \/ Get(r) \/ List(r) \/ Items(r) \/ Rename(r) \/ Reread(r) \/ Delete(r)
    \/ Chat(r) \/ Search(r) \/ Ask(r) \/ LimitLLM(r) \/ Model(r)
    \/ StartStream(r)

-----------------------------------------------------------------------------
(* The goroutine of a streamed route. It has its own copies of the user and *)
(* of the request's body, whatever becomes of the request's context.       *)

StreamTo(r, from, to) ==
    /\ stream[r] = from
    /\ stream' = [stream EXCEPT ![r] = to]
    /\ UNCHANGED <<now, ip, tables, input, at, user, status, seen, tokens, requests, errors,
                   between, panicked>>

\* StreamChat and StreamChatCompletion ask for a user as all services do.
StreamService(r) ==
    /\ StreamTo(r, "service", IF HasUser(r) THEN "llm limit" ELSE "error")
    /\ UNCHANGED llm

\* checkUserLLMRateLimit again; the third case is a script that fails.
StreamLimit(r) ==
    \E to \in {"model", "error"} :
        /\ StreamTo(r, "llm limit", to)
        /\ \/ LLMLimit > 0 /\ LLM!Hit(user[r]) /\ (to = "model" <=> LLM!Allowed(user[r]))
           \/ LLMLimit = 0 /\ to = "model" /\ UNCHANGED llm
           \/ r \in Faulty /\ to = "error" /\ UNCHANGED llm

\* The last frame says done, or what went wrong.
StreamModel(r) ==
    /\ \/ (Owns(r) \/ NeedsNone(r)) /\ StreamTo(r, "model", "done")
       \/ StreamTo(r, "model", "error")
    /\ UNCHANGED llm

Stream(r) == StreamService(r) \/ StreamLimit(r) \/ StreamModel(r)

-----------------------------------------------------------------------------
(* The way back.                                                           *)

\* The framework takes the request's context back. What a stream's goroutine
\* has copied stays in the same variables.
Forget(r) ==
    /\ IF stream[r] = "none"
       THEN /\ input' = [input EXCEPT ![r] = Nothing]
            /\ user' = [user EXCEPT ![r] = NoUser]
       ELSE UNCHANGED <<input, user>>
    /\ seen' = [seen EXCEPT ![r] = 0]

\* Mutant: only the server's own errors are counted.
MutFinish(r) ==
    /\ Goto(r, "return", "done")
    /\ requests' = requests + 1
    /\ errors' = IF status[r] >= 500 THEN errors + 1 ELSE errors
    /\ Forget(r)
    /\ UNCHANGED <<now, ip, llm, tables, status, tokens, stream, between, panicked>>

\* Mutant: a call that failed does not count against the user's limit.
MutRefund(r) ==
    /\ Goto(r, "return", "done")
    /\ requests' = requests + 1
    /\ errors' = IF status[r] >= 400 THEN errors + 1 ELSE errors
    /\ llmCount' = IF status[r] >= 500 /\ user[r] \in DOMAIN llmCount
                   THEN [llmCount EXCEPT ![user[r]] = IF @ > 0 THEN @ - 1 ELSE 0] ELSE llmCount
    /\ Forget(r)
    /\ UNCHANGED <<now, ip, llmEnds, llmGrants, tables, status, tokens, stream, between,
                   panicked>>

\* All calls of Next return; Logger counts.
Finish(r) ==
    /\ Goto(r, "return", "done")
    /\ requests' = requests + 1
    /\ errors' = IF status[r] >= 400 THEN errors + 1 ELSE errors
    /\ Forget(r)
    /\ UNCHANGED <<now, ip, llm, tables, status, tokens, stream, between, panicked>>

\* A handler panics between two of its statements: Recovery answers 500, and
\* Logger's part after Next is skipped. The handler was the last of the chain.
Panic(r) ==
    /\ at[r] \in {"handler", "insert", "items", "reread", "llm limit", "model"}
    /\ r \in Faulty
    /\ panicked' = panicked \cup {r}
    /\ at' = [at EXCEPT ![r] = "done"]
    /\ status' = [status EXCEPT ![r] = 500]
    /\ between' = [between EXCEPT ![r] = 0]
    /\ Forget(r)
    /\ UNCHANGED <<now, ip, llm, tables, tokens, stream, requests, errors>>

Tick ==
    /\ now < MaxTime
    /\ now' = now + 1
    /\ UNCHANGED <<ip, llm, tables, input, at, user, status, seen, tokens, stream, requests,
                   errors, between, panicked>>

Step(r) ==
    \/ RateLimit(r) \/ Auth(r) \/ CozeAPIKey(r) \/ Handler(r) \/ Finish(r)
    \/ Stream(r)

Next == (\E r \in Requests : Step(r) \/ Panic(r)) \/ Tick

Spec == Init /\ [][Next]_vars

-----------------------------------------------------------------------------
Places == {"client", "auth", "api key", "handler", "insert", "items",
           "reread", "llm limit", "model", "return", "done"}

StreamPlaces == {"none", "service", "llm limit", "model", "done", "error"}

Token == [user : UserIds \cup {NoUser}, exp : Nat, secret : {Secret, NoUser}]

TypeOK ==
    /\ IP!TypeOK /\ LLM!TypeOK
    /\ users \in SUBSET User
    /\ rows \in Seq(Row)
    /\ at \in [Requests -> Places]
    /\ user \in [Requests -> UserIds \cup {CozeUser, NoUser}]
    /\ status \in [Requests -> {0, 200, 400, 401, 404, 429, 500}]
    /\ seen \in [Requests -> Nat]
    /\ tokens \in SUBSET Token
    /\ requests \in Nat /\ errors \in Nat
    /\ panicked \in SUBSET Requests
    /\ stream \in [Requests -> StreamPlaces]
    /\ between \in [Requests -> Nat]

Answered(r) == at[r] = "return"

WithToken(r) == input[r].token \in tokens /\ user[r] = input[r].token.user

\* Auth does not keep the handler behind it from running. What a user's route
\* does is still done for a token of this server only, and for its user: the
\* services ask for a user ID, which nothing but Auth sets. A streamed route
\* says 200 to everybody; there it is the goroutine that gets no further than
\* the service's first check. So every record belongs to an account.
NoTokenNoSuccess ==
    /\ \A r \in Requests :
           Answered(r) /\ input[r].kind \in UserKinds \ StreamKinds /\ status[r] = 200 =>
               WithToken(r)
    /\ \A r \in Requests : stream[r] \in {"llm limit", "model", "done"} => WithToken(r)
    /\ \A row \in ToSet(rows) : \E u \in users : u.id = row.owner

\* Nobody's record is removed or renamed but by a request that came with a
\* token of its owner.
OthersUntouched ==
    [][\A row \in ToSet(rows) \ ToSet(rows') : \E r \in Requests :
           /\ at[r] = "handler" /\ at'[r] # "handler"
           /\ input[r].token \in tokens /\ input[r].token.user = row.owner]_vars

\* Requests that register a name at the same time are not both told that the
\* account is theirs, and who is told so has it.
OneAccount ==
    /\ OneAccountPerName
    /\ \A r \in Requests : Answered(r) /\ input[r].kind = "register" /\ status[r] = 200 =>
           LogsIn(input[r].name, input[r].password) = {u \in users : u.id = r}

\* Full unless it is the last: the size of a page that starts after as many
\* rows as an int can count, if there are total rows.
Demanded(q, total) ==
    LET before == (PageOf(q) - 1) * SizeOf(q) IN
    CASE total <= before              -> 0
      [] total >= before + SizeOf(q)  -> SizeOf(q)
      [] OTHER                        -> total - before

\* Total and items of a page are read one after the other. The page has as
\* many items as its total demands, but for one for each write in between. (A
\* page so far behind that its offset is no int any more is the first page.)
PageFitsTotal ==
    [][\A r \in Requests :
           LET q == input[r].query IN
           /\ at[r] = "items" /\ at'[r] = "return" /\ status'[r] = 200
           /\ (PageOf(q) - 1) * SizeOf(q) <= MaxInt
           => Demanded(q, seen[r]) \in seen'[r] - between[r] .. seen'[r] + between[r]]_vars

\* Each request is in the metrics once, with the status the client got,
\* however many handlers wrote one; those that panicked are not in them.
MetricsAddUp ==
    LET logged == {r \in Requests : at[r] = "done"} \ panicked IN
    /\ requests = Cardinality(logged)
    /\ errors = Cardinality({r \in logged : status[r] >= 400})

\* The limits bound what passes whatever the requests are.
LimitsHold ==
    /\ IP!BurstsAreBounded /\ IP!RefusedHadTheLimit
    /\ LLM!BurstsAreBounded /\ (LLMLimit > 0 => LLM!RefusedHadTheLimit)

\* Seen from Redis, the server is two fixed windows: no handler, however it
\* ends, gives a call back, prolongs a window or counts under another key. So
\* what is proved of RateWindow holds of both.
Windows == IP!Spec /\ LLM!Spec

\* "Redis IP rate limiting with Lua script", "protects APIs": the handler of
\* the route does not work on a request that a middleware has answered with a
\* refusal.
RefusedIsNotServed ==
    \A r \in Requests :
        at[r] \in {"insert", "items", "reread", "llm limit", "model"} => status[r] = 0
=============================================================================
