------------------------------- MODULE Accounts -------------------------------
(***************************************************************************)
(* Accounts and tokens: the users table, AuthService and the tokens of     *)
(* package jwtutil. Tokens are not stored anywhere: one is good as long as *)
(* it was signed with the server's secret and has not expired.             *)
(***************************************************************************)
EXTENDS Integers

CONSTANTS
    UserIds, Names, Passwords,
    Acceptable,      \* passwords of 6 to 72 bytes: not refused, not by bcrypt
    ExpireHours,     \* jwtExpireHours, in units of the clock
    DefaultHours,    \* what NewAuthService takes for a lifetime <= 0
    Secret           \* jwtSecret

ASSUME PasswordAssumption == Acceptable \subseteq Passwords
ASSUME LifeAssumption     == ExpireHours \in Int /\ DefaultHours \in Nat \ {0}

VARIABLE users  \* the rows of the users table; nothing removes one

User == [id : UserIds, name : Names, password : Passwords]

\* Username has a unique index.
Taken(name) == \E u \in users : u.name = name

\* Mutant: the table has no unique index.
MutCreateUser(id, name, password) ==
    users' = users \cup {[id |-> id, name |-> name, password |-> password]}

\* The insert of Register, which fails where the index says so.
CreateUser(id, name, password) ==
    /\ ~Taken(name)
    /\ users' = users \cup {[id |-> id, name |-> name, password |-> password]}

\* GetByUsername, and the comparison with the hash.
LogsIn(name, password) == {u \in users : u.name = name /\ u.password = password}

Life == IF ExpireHours <= 0 THEN DefaultHours ELSE ExpireHours

\* It fails only without a secret, and config.getEnv falls back on one.
GenerateToken(id, time) == [user |-> id, exp |-> time + Life, secret |-> Secret]

\* The signature is compared first; all else but the expiry is part of what
\* was signed.
ParseToken(token, time) == token.secret = Secret /\ time < token.exp

\* Register looks before it inserts, but what keeps a name from being given
\* twice to requests that look at the same time is the index.
OneAccountPerName == \A u, v \in users : u.name = v.name => u = v
=============================================================================
