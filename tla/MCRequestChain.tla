---------------------------- MODULE MCRequestChain ----------------------------
(* Constants for the runs of RequestChain. *)
EXTENDS RequestChain

CONSTANTS r1, r2, r3, home, u0, s0, ann, bob, long, short

\* Between them, three requests for every route, such that what may disturb
\* what meets: two registrations, a list and an insert, a rename or a stream and
\* a delete, two calls on one user's limit.
Mixed ==
    [r \in Requests |->
        CASE r = r1 -> {"create", "delete", "get", "login", "ask", "search", "chat",
                        "complete", "stream complete"}
          [] r = r2 -> {"register", "list", "rename", "stream"}
          [] r = r3 -> {"register"}]

\* All come from one address.
OneAddress  == [r \in Requests |-> home]

\* A new name, and a name that is taken with a password that is not the
\* account's and too short for a new one.
SomeLogins == {<<bob, long>>, <<ann, short>>}

\* The second page, by the default size; a page whose offset is no int, with a
\* size past the maximum.
SomeQueries == {<<2, 0>>, <<5, 3>>}
===============================================================================
