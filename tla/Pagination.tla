------------------------------ MODULE Pagination ------------------------------
(***************************************************************************)
(* Cursor pagination over a table that changes while it is read: the lists *)
(* of documents, conversations and messages are all served by              *)
(* build_cursor_predicate, ORDER BY (created_at, id), LIMIT and            *)
(* page_from_items.  A client walks the list from its first page, handing  *)
(* back next_cursor, while transactions begin (created_at is the           *)
(* transaction's now()), commit and delete rows.                           *)
(***************************************************************************)
EXTENDS Integers, FiniteSets

CONSTANTS
  Rows,       \* ids, which are ordered like UUIDs
  Limits,     \* the limits a client may pass
  MaxLimit,   \* normalize_limit's maximum
  NoCursor    \* no cursor: the first page, or no next one

ASSUME PaginationAssumption ==
  /\ Rows \subseteq Int /\ IsFiniteSet(Rows)
  /\ Limits \subseteq Int
  /\ MaxLimit \in Nat \ {0}
  /\ NoCursor \notin [created_at : Nat, id : Rows]

VARIABLES
  clock,      \* the database's now()
  created,    \* created_at of each row whose transaction has begun
  row,        \* each row: none, begun, committed or deleted
  walk,       \* start, more (there is a next_cursor) or end
  cursor,     \* the cursor the client holds
  got,        \* how often the walk has returned each row, counted up to 2
  late        \* rows committed after the first page was read

tableVars == <<clock, created, row>>
walkVars == <<walk, cursor, got, late>>
paginationVars == <<tableVars, walkVars>>

PaginationInit ==
  /\ clock = 0
  /\ created = [r \in Rows |-> 0]
  /\ row = [r \in Rows |-> "none"]
  /\ walk = "start" /\ cursor = NoCursor
  /\ got = [r \in Rows |-> 0]
  /\ late = {}

-----------------------------------------------------------------------------
(***************************************************************************)
(* One page.                                                               *)
(***************************************************************************)
AtMost(m, n) == IF m < n THEN m ELSE n
AtLeast(m, n) == IF m > n THEN m ELSE n

NormalizeLimit(limit) == AtLeast(1, AtMost(limit, MaxLimit))

Key(r) == [created_at |-> created[r], id |-> r]

Before(j, k) ==
  \/ j.created_at < k.created_at
  \/ j.created_at = k.created_at /\ j.id < k.id

\* Mutant: the predicate asks for >=.
AfterOrAt(c, r) == c = NoCursor \/ c = Key(r) \/ Before(c, Key(r))

\* build_cursor_predicate
AfterCursor(c, r) == c = NoCursor \/ Before(c, Key(r))

\* T is what ORDER BY created_at, id LIMIT n keeps of the rows S.
IsFirst(T, n, S) ==
  /\ Cardinality(T) = AtMost(n, Cardinality(S))
  /\ \A t \in T, s \in S \ T : Before(Key(t), Key(s))

IsLast(t, T) == t \in T /\ \A s \in T \ {t} : Before(Key(s), Key(t))

\* Mutant: the cursor is that of the row fetched to see whether there is more.
IsCursorRowOfFetched(last, items, fetched) == IsLast(last, fetched)

\* page_items[-1]
IsCursorRow(last, items, fetched) == IsLast(last, items)

Present == {r \in Rows : row[r] = "committed"}

\* What the query selects: the rows behind the cursor.
Matching == {r \in Present : AfterCursor(cursor, r)}

\* Mutant: has_more is left out of the choice of next_cursor.
ReadPageCursorAlways(limit) ==
  LET lim == NormalizeLimit(limit) IN
  /\ walk # "end"
  /\ \E fetched \in SUBSET Matching :
       /\ IsFirst(fetched, lim + 1, Matching)
       /\ \E items \in SUBSET fetched :
            /\ IsFirst(items, lim, fetched)
            /\ got' = [r \in Rows |-> IF r \in items THEN AtMost(got[r] + 1, 2) ELSE got[r]]
            /\ walk' = IF Cardinality(fetched) > lim THEN "more" ELSE "end"
            /\ IF items # {}
               THEN \E last \in fetched : IsCursorRow(last, items, fetched) /\ cursor' = Key(last)
               ELSE cursor' = NoCursor
  /\ UNCHANGED <<tableVars, late>>

\* One more row than the limit is fetched, to tell has_more.
ReadPage(limit) ==
  LET lim == NormalizeLimit(limit) IN
  /\ walk # "end"
  /\ \E fetched \in SUBSET Matching :
       /\ IsFirst(fetched, lim + 1, Matching)
       /\ \E items \in SUBSET fetched :
            /\ IsFirst(items, lim, fetched)
            /\ got' = [r \in Rows |-> IF r \in items THEN AtMost(got[r] + 1, 2) ELSE got[r]]
            /\ IF Cardinality(fetched) > lim /\ items # {}
               THEN \E last \in fetched :
                      /\ IsCursorRow(last, items, fetched)
                      /\ walk' = "more" /\ cursor' = Key(last)
               ELSE walk' = "end" /\ cursor' = NoCursor
  /\ UNCHANGED <<tableVars, late>>

-----------------------------------------------------------------------------
(***************************************************************************)
(* The table.                                                              *)
(***************************************************************************)

\* Two transactions may begin in one tick of the clock.
Begin(r) ==
  /\ row[r] = "none"
  /\ row' = [row EXCEPT ![r] = "begun"]
  /\ \E t \in {clock, clock + 1} :
       clock' = t /\ created' = [created EXCEPT ![r] = t]
  /\ UNCHANGED walkVars

\* Transactions need not commit in the order they began.
Commit(r) ==
  /\ row[r] = "begun"
  /\ row' = [row EXCEPT ![r] = "committed"]
  /\ late' = IF walk = "start" THEN late ELSE late \cup {r}
  /\ UNCHANGED <<clock, created, walk, cursor, got>>

DeleteCommitted(r) ==
  /\ row[r] = "committed"
  /\ row' = [row EXCEPT ![r] = "deleted"]
  /\ UNCHANGED <<clock, created, walkVars>>

Read == \E limit \in Limits : ReadPage(limit)

PaginationNext ==
  \/ Read
  \/ \E r \in Rows : Begin(r) \/ Commit(r) \/ DeleteCommitted(r)

PaginationSpec == PaginationInit /\ [][PaginationNext]_paginationVars

-----------------------------------------------------------------------------
(***************************************************************************)
(* Properties.                                                             *)
(***************************************************************************)
Keys == [created_at : Nat, id : Rows]

\* Every variable keeps its kind; a cursor is held exactly between two pages.
PaginationTypeOK ==
  /\ clock \in Nat
  /\ created \in [Rows -> Nat]
  /\ row \in [Rows -> {"none", "begun", "committed", "deleted"}]
  /\ walk \in {"start", "more", "end"}
  /\ IF walk = "more" THEN cursor \in Keys ELSE cursor = NoCursor
  /\ got \in [Rows -> 0 .. 2]
  /\ late \in SUBSET Rows

\* No row comes twice in a walk (build_cursor_predicate, page_from_items),
\* whatever is committed or deleted between its pages.
NoRepeats == \A r \in Rows : got[r] <= 1

\* A row committed when the walk began, and not deleted since, has been
\* returned or is still ahead of the cursor: deletions, rows that share one
\* created_at and the extra row fetched for has_more make no page skip it.
NothingMissed ==
  \A r \in Present \ late :
    got[r] = 1 \/ (walk # "end" /\ AfterCursor(cursor, r))
=============================================================================
