-------------------------------- MODULE Records --------------------------------
(***************************************************************************)
(* The rows users keep, in two tables that are handled alike: sessions     *)
(* (SessionService, SessionRepo) and knowledge documents                   *)
(* (KnowledgeService, KnowledgeRepo). Every statement names the user next  *)
(* to the id. One operator per statement.                                  *)
(***************************************************************************)
EXTENDS Integers, Sequences, FiniteSets, SequencesExt, PageOffset

CONSTANTS
    RecordIds, Owners, Titles,
    DefaultPageSize, MaxPageSize  \* api/pagination.go

ASSUME PageSizeAssumption ==
    /\ DefaultPageSize \in Nat \ {0} /\ MaxPageSize \in Nat
    /\ DefaultPageSize <= MaxPageSize /\ MaxPageSize <= MaxInt

VARIABLE rows  \* both tables, in the order of created_at

Tables == {"sessions", "knowledge_docs"}

Row == [id : RecordIds, table : Tables, owner : Owners, title : Titles]

\* WHERE id = ? AND user_id = ?. Mutant: WHERE id = ?.
MutIsAt(row, table, id, user) == row.table = table /\ row.id = id
IsAt(row, table, id, user)    == row.table = table /\ row.id = id /\ row.owner = user

Find(table, id, user) == {row \in ToSet(rows) : IsAt(row, table, id, user)}

CreateRow(row) == rows' = Append(rows, row)

\* UPDATE sets updated_at next to the title, so that the row it finds counts
\* as changed even if the title was the same.
UpdateTitle(table, id, user, title) ==
    rows' = [i \in DOMAIN rows |-> IF IsAt(rows[i], table, id, user)
                                   THEN [rows[i] EXCEPT !.title = title] ELSE rows[i]]

\* DELETE. At the most one row has that id, which is the primary key.
DeleteRow(table, id, user) ==
    \E i \in DOMAIN rows : IsAt(rows[i], table, id, user) /\ rows' = RemoveAt(rows, i)

\* WHERE user_id = ?, as positions: the later one is the newer row.
OwnRows(table, user) == {i \in DOMAIN rows : rows[i].table = table /\ rows[i].owner = user}

CountRows(table, user) == Cardinality(OwnRows(table, user))

\* parsePositiveInt: what is missing, no int or not positive is replaced.
ParsePositiveInt(value, fallback) == IF value \in 1 .. MaxInt THEN value ELSE fallback

\* ParsePageQuery, of the page and the size as numbers (0 if they are none).
PageOf(query) == ParsePositiveInt(query[1], 1)
SizeOf(query) ==
    LET size == ParsePositiveInt(query[2], DefaultPageSize) IN
    IF size > MaxPageSize THEN MaxPageSize ELSE size

Offset(query) == Skipped(PageOf(query), SizeOf(query))

\* ORDER BY created_at DESC, OFFSET, LIMIT: the rows before which, newest first,
\* there are at least as many as are skipped, and not too many.
ListRows(table, user, query) ==
    LET own      == OwnRows(table, user)
        Newer(i) == Cardinality({j \in own : j > i})
    IN  {i \in own : Newer(i) \in Offset(query) .. Offset(query) + SizeOf(query) - 1}
=============================================================================
