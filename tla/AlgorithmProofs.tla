--------------------------- MODULE AlgorithmProofs ---------------------------
(***************************************************************************)
(* Proofs about Pagination, for every table, every limit and every order   *)
(* of inserts and deletes; about EventStream, for answers of any number of *)
(* events and any cut of the body into pieces; and, with the theorems of   *)
(* PreparationProofs and RetrievalProofs, about the types of the four      *)
(* components that MCAlgorithms runs side by side.                         *)
(***************************************************************************)
EXTENDS MCAlgorithms, PreparationProofs, RetrievalProofs, SequenceTheorems, FiniteSetTheorems, TLAPS

(***************************************************************************)
(* Pagination: a walk returns no row twice and misses none that was there  *)
(* from its first page on.                                                 *)
(***************************************************************************)

\* What is returned lies at or before the cursor.
Passed == walk = "more" => \A r \in Rows : got[r] > 0 => ~AfterCursor(cursor, r)

\* Only rows that were committed are returned, and none before the first page.
ReturnedRows ==
  /\ walk = "start" => late = {} /\ \A r \in Rows : got[r] = 0
  /\ \A r \in Rows : got[r] > 0 => row[r] \in {"committed", "deleted"}

\* The inductive invariant.
PagingInvariant ==
  PaginationTypeOK /\ NoRepeats /\ NothingMissed /\ Passed /\ ReturnedRows

-----------------------------------------------------------------------------
\* A limit, once normalized, is at least one.
LEMMA LimitPositive ==
  ASSUME NEW limit \in Limits
  PROVE  NormalizeLimit(limit) \in Nat \ {0}
  BY PaginationAssumption DEF NormalizeLimit, AtLeast, AtMost

\* Keys are totally ordered by created_at, then id.
LEMMA KeyOrder ==
  ASSUME NEW j \in Keys, NEW k \in Keys
  PROVE  /\ ~(Before(j, k) /\ Before(k, j))
         /\ ~Before(j, j)
         /\ \A m \in Keys : Before(j, k) /\ Before(k, m) => Before(j, m)
         /\ Before(j, k) \/ Before(k, j) \/ j = k
<1>1. /\ j.created_at \in Nat /\ j.id \in Int
      /\ k.created_at \in Nat /\ k.id \in Int
      /\ \A m \in Keys : m.created_at \in Nat /\ m.id \in Int
  BY PaginationAssumption DEF Keys
<1>2. j.created_at = k.created_at /\ j.id = k.id => j = k
  BY DEF Keys
<1>3. QED
  BY <1>1, <1>2 DEF Before

\* The first n of a finite set are all of it when they are fewer than n.
LEMMA FirstIsAll ==
  ASSUME NEW S, IsFiniteSet(S), NEW T \in SUBSET S, NEW n \in Nat,
         IsFirst(T, n, S), Cardinality(T) < n
  PROVE  T = S
<1>1. Cardinality(S) \in Nat
  BY FS_CardinalityType
<1>2. Cardinality(T) = Cardinality(S)
  BY <1>1 DEF IsFirst, AtMost
<1>3. QED
  BY <1>2, FS_Subset

(***************************************************************************)
(* A page: its rows are new, and nothing is left between it and the next.  *)
(***************************************************************************)
LEMMA PageStep ==
  ASSUME PagingInvariant, NEW limit \in Limits, ReadPage(limit)
  PROVE  PagingInvariant'
<1> DEFINE lim == NormalizeLimit(limit)
<1>1. lim \in Nat \ {0}
  BY LimitPositive
<1> HIDE DEF lim
<1>2. PICK fetched \in SUBSET Matching :
        /\ IsFirst(fetched, lim + 1, Matching)
        /\ \E items \in SUBSET fetched :
             /\ IsFirst(items, lim, fetched)
             /\ got' = [r \in Rows |-> IF r \in items THEN AtMost(got[r] + 1, 2) ELSE got[r]]
             /\ IF Cardinality(fetched) > lim /\ items # {}
                THEN \E last \in fetched :
                       /\ IsCursorRow(last, items, fetched)
                       /\ walk' = "more" /\ cursor' = Key(last)
                ELSE walk' = "end" /\ cursor' = NoCursor
  BY DEF ReadPage, lim
<1>3. PICK items \in SUBSET fetched :
        /\ IsFirst(items, lim, fetched)
        /\ got' = [r \in Rows |-> IF r \in items THEN AtMost(got[r] + 1, 2) ELSE got[r]]
        /\ IF Cardinality(fetched) > lim /\ items # {}
           THEN \E last \in fetched :
                  /\ IsCursorRow(last, items, fetched)
                  /\ walk' = "more" /\ cursor' = Key(last)
           ELSE walk' = "end" /\ cursor' = NoCursor
  BY <1>2
<1>4. /\ walk # "end"
      /\ clock' = clock /\ created' = created /\ row' = row /\ late' = late
  BY DEF ReadPage, tableVars
<1>5. \A r \in Rows : Key(r) \in Keys /\ Key(r)' = Key(r)
  BY <1>4 DEF PagingInvariant, PaginationTypeOK, Key, Keys
<1>6. items \subseteq Matching /\ Matching \subseteq Present /\ Present \subseteq Rows
  BY DEF Matching, Present
<1>7. walk = "more" => cursor \in Keys /\ cursor # NoCursor
  BY PaginationAssumption DEF PagingInvariant, PaginationTypeOK, Keys
<1>8. \A r \in items : got[r] = 0
  <2>1. CASE walk = "start"
    BY <1>6, <2>1 DEF PagingInvariant, ReturnedRows
  <2>2. CASE walk = "more"
    <3>1. \A r \in items : AfterCursor(cursor, r) /\ got[r] \in 0 .. 2
      BY <1>6 DEF Matching, PagingInvariant, PaginationTypeOK
    <3>2. QED
      BY <1>6, <2>2, <3>1 DEF PagingInvariant, Passed
  <2>3. QED
    BY <1>4, <2>1, <2>2 DEF PagingInvariant, PaginationTypeOK
<1>9. \A r \in Rows : got'[r] = IF r \in items THEN 1 ELSE got[r]
  BY <1>3, <1>6, <1>8 DEF AtMost
<1>10. NoRepeats'
  BY <1>9 DEF PagingInvariant, NoRepeats
<1>11. ReturnedRows'
  <2>1. walk' # "start"
    BY <1>3
  <2>2. \A r \in items : row[r] \in {"committed", "deleted"}
    BY <1>6 DEF Present
  <2>3. QED
    BY <1>4, <1>9, <2>1, <2>2 DEF PagingInvariant, ReturnedRows
<1>12. CASE Cardinality(fetched) > lim /\ items # {}
  <2>1. PICK last \in items :
          /\ \A s \in items \ {last} : Before(Key(s), Key(last))
          /\ walk' = "more" /\ cursor' = Key(last)
    BY <1>3, <1>12 DEF IsCursorRow, IsLast
  <2>2. last \in Rows /\ Key(last) \in Keys /\ Key(last) # NoCursor
    BY <1>5, <1>6, PaginationAssumption DEF Keys
  <2>3. PaginationTypeOK'
    BY <1>3, <1>4, <1>6, <1>9, <2>1, <2>2 DEF PagingInvariant, PaginationTypeOK
  <2>4. \A r \in Rows : AfterCursor(cursor, r)' <=> Before(Key(last), Key(r))
    BY <1>5, <2>1, <2>2 DEF AfterCursor
  <2>5. Passed'
    <3> SUFFICES ASSUME NEW r \in Rows, got'[r] > 0
                 PROVE  ~Before(Key(last), Key(r))
      BY <2>4 DEF Passed
    <3>1. CASE r \in items
      BY <1>5, <2>1, <2>2, <3>1, KeyOrder
    <3>2. CASE r \notin items
      <4>1. got[r] > 0
        BY <1>9, <3>2
      <4>2. walk = "more"
        BY <1>4, <4>1 DEF PagingInvariant, PaginationTypeOK, ReturnedRows
      <4>3. ~Before(cursor, Key(r)) /\ Before(cursor, Key(last))
        BY <1>6, <1>7, <4>1, <4>2 DEF PagingInvariant, Passed, AfterCursor, Matching
      <4>4. cursor \in Keys /\ Key(r) \in Keys
        BY <1>5, <1>7, <4>2
      <4>5. QED
        BY <2>2, <4>3, <4>4, KeyOrder
    <3>3. QED
      BY <3>1, <3>2
  <2>6. NothingMissed'
    <3> SUFFICES ASSUME NEW r \in Present \ late, got'[r] # 1
                 PROVE  Before(Key(last), Key(r))
      BY <1>4, <2>1, <2>4 DEF NothingMissed, Present
    <3>1. r \in Rows /\ r \notin items /\ got[r] # 1
      BY <1>6, <1>9
    <3>2. r \in Matching
      BY <3>1 DEF PagingInvariant, NothingMissed, Matching
    <3>3. CASE r \in fetched
      BY <1>3, <3>1, <3>3 DEF IsFirst
    <3>4. CASE r \notin fetched
      BY <1>2, <1>3, <3>2, <3>4 DEF IsFirst
    <3>5. QED
      BY <3>3, <3>4
  <2>7. QED
    BY <1>10, <1>11, <2>3, <2>5, <2>6 DEF PagingInvariant
<1>13. CASE ~(Cardinality(fetched) > lim /\ items # {})
  <2>1. walk' = "end" /\ cursor' = NoCursor
    BY <1>3, <1>13
  <2>2. PaginationTypeOK'
    BY <1>3, <1>4, <1>6, <1>9, <2>1 DEF PagingInvariant, PaginationTypeOK
  <2>3. IsFiniteSet(Matching) /\ IsFiniteSet(fetched) /\ Cardinality(fetched) \in Nat
    BY <1>6, PaginationAssumption, FS_Subset, FS_CardinalityType
  <2>4. Cardinality(fetched) <= lim
    <3>1. CASE items = {}
      <4>1. AtMost(lim, Cardinality(fetched)) = 0
        BY <1>3, <3>1, FS_EmptySet DEF IsFirst
      <4>2. QED
        BY <1>1, <2>3, <4>1 DEF AtMost
    <3>2. CASE items # {}
      BY <1>1, <1>13, <2>3, <3>2
    <3>3. QED
      BY <3>1, <3>2
  <2>5. fetched = Matching
    BY <1>1, <1>2, <2>3, <2>4, FirstIsAll
  <2>6. items = fetched
    <3>1. Cardinality(items) = Cardinality(fetched)
      BY <1>1, <1>3, <2>3, <2>4 DEF IsFirst, AtMost
    <3>2. QED
      BY <2>3, <3>1, FS_Subset
  <2>7. NothingMissed'
    <3> SUFFICES ASSUME NEW r \in Present \ late
                 PROVE  got'[r] = 1
      BY <1>4 DEF NothingMissed, Present
    <3>1. r \in items \/ got[r] = 1
      BY <1>6, <2>5, <2>6 DEF PagingInvariant, NothingMissed, Matching
    <3>2. QED
      BY <1>6, <1>9, <3>1
  <2>8. QED
    BY <1>10, <1>11, <2>1, <2>2, <2>7 DEF PagingInvariant, Passed
<1>14. QED
  BY <1>12, <1>13

(***************************************************************************)
(* What happens to the table between two pages.                            *)
(***************************************************************************)
LEMMA TableStep ==
  ASSUME PagingInvariant, NEW r \in Rows, Begin(r) \/ Commit(r) \/ DeleteCommitted(r)
  PROVE  PagingInvariant'
<1>1. walk' = walk /\ cursor' = cursor /\ got' = got
  BY DEF Begin, Commit, DeleteCommitted, walkVars
<1>2. PaginationTypeOK'
  BY <1>1 DEF PagingInvariant, PaginationTypeOK, Begin, Commit, DeleteCommitted, walkVars
<1>3. NoRepeats'
  BY <1>1 DEF PagingInvariant, NoRepeats
<1>4. ReturnedRows'
  BY <1>1 DEF PagingInvariant, PaginationTypeOK, ReturnedRows, Begin, Commit, DeleteCommitted, walkVars
<1>5. \A q \in Rows : row[q] # "none" => AfterCursor(cursor, q)' = AfterCursor(cursor, q)
  BY <1>1 DEF PagingInvariant, PaginationTypeOK, AfterCursor, Before, Key, Begin, Commit, DeleteCommitted
<1>6. Passed'
  <2>1. \A q \in Rows : got[q] > 0 => row[q] # "none"
    BY DEF PagingInvariant, ReturnedRows
  <2>2. QED
    BY <1>1, <1>5, <2>1 DEF PagingInvariant, Passed
<1>7. NothingMissed'
  <2>1. CASE Begin(r)
    <3>1. Present' = Present /\ late' = late
      BY <2>1 DEF Begin, walkVars, Present, PagingInvariant, PaginationTypeOK
    <3>2. \A q \in Present : q \in Rows /\ row[q] # "none"
      BY DEF Present
    <3>3. QED
      BY <1>1, <1>5, <3>1, <3>2 DEF PagingInvariant, NothingMissed
  <2>2. CASE Commit(r)
    <3>1. CASE walk = "start"
      BY <1>1, <3>1 DEF PagingInvariant, PaginationTypeOK, NothingMissed, AfterCursor
    <3>2. CASE walk # "start"
      <4>1. Present' \ late' \subseteq Present \ late
        BY <2>2, <3>2 DEF Commit, Present, PagingInvariant, PaginationTypeOK
      <4>2. \A q \in Present : q \in Rows /\ row[q] # "none"
        BY DEF Present
      <4>3. QED
        BY <1>1, <1>5, <4>1, <4>2 DEF PagingInvariant, NothingMissed
    <3>3. QED
      BY <3>1, <3>2
  <2>3. CASE DeleteCommitted(r)
    <3>1. Present' \subseteq Present /\ late' = late
      BY <2>3 DEF DeleteCommitted, walkVars, Present, PagingInvariant, PaginationTypeOK
    <3>2. \A q \in Present : q \in Rows /\ row[q] # "none"
      BY DEF Present
    <3>3. QED
      BY <1>1, <1>5, <3>1, <3>2 DEF PagingInvariant, NothingMissed
  <2>4. QED
    BY <2>1, <2>2, <2>3
<1>8. QED
  BY <1>2, <1>3, <1>4, <1>6, <1>7 DEF PagingInvariant

LEMMA PagingInductive == PaginationSpec => []PagingInvariant
<1>1. PaginationInit => PagingInvariant
  BY DEF PaginationInit, PagingInvariant, PaginationTypeOK, NoRepeats, NothingMissed, Passed,
         ReturnedRows, Present, AfterCursor
<1>2. PagingInvariant /\ [PaginationNext]_paginationVars => PagingInvariant'
  <2> SUFFICES ASSUME PagingInvariant, [PaginationNext]_paginationVars
               PROVE  PagingInvariant'
    OBVIOUS
  <2>1. CASE Read
    BY <2>1, PageStep DEF Read
  <2>2. CASE \E r \in Rows : Begin(r) \/ Commit(r) \/ DeleteCommitted(r)
    BY <2>2, TableStep
  <2>3. CASE UNCHANGED paginationVars
    BY <2>3 DEF paginationVars, tableVars, walkVars, PagingInvariant, PaginationTypeOK, NoRepeats,
                NothingMissed, Passed, ReturnedRows, Present, AfterCursor, Before, Key
  <2>4. QED
    BY <2>1, <2>2, <2>3 DEF PaginationNext
<1>3. QED
  BY <1>1, <1>2, PTL DEF PaginationSpec

\* A walk returns no row twice.
THEOREM PagesDoNotRepeat == PaginationSpec => []NoRepeats
<1>1. PagingInvariant => NoRepeats
  BY DEF PagingInvariant
<1>2. QED
  BY <1>1, PagingInductive, PTL

\* A walk that ends has returned every row that was there throughout.
THEOREM PagesMissNothing == PaginationSpec => []NothingMissed
<1>1. PagingInvariant => NothingMissed
  BY DEF PagingInvariant
<1>2. QED
  BY <1>1, PagingInductive, PTL

-----------------------------------------------------------------------------
(***************************************************************************)
(* EventStream: the events come whole, once and in order.                  *)
(***************************************************************************)

\* Where the part of the stream begins that is not yielded yet.
YieldedUnits == FrameUnits * Len(yielded)

\* The buffer is the stream from there to what was delivered.
BufferInv ==
  stream \in {"reading", "tail"} =>
    /\ Len(buffer) = delivered - YieldedUnits
    /\ \A i \in 1 .. Len(buffer) : buffer[i] = YieldedUnits + i

\* At most four units are left when the body is over, and what they hold is known.
EndInv ==
  /\ stream = "tail" => Len(buffer) < FrameUnits
  /\ stream = "failed" => Len(yielded) >= delivered \div FrameUnits
  /\ stream = "ended" => Len(yielded) = (delivered + 2) \div FrameUnits

StreamInv == EventsInOrder /\ BufferInv /\ EndInv

-----------------------------------------------------------------------------
(***************************************************************************)
(* The units of a frame.                                                   *)
(***************************************************************************)
LEMMA UnitKinds ==
  ASSUME NEW n \in Nat
  PROVE  /\ IsPrefix(5 * n + 1) /\ Frame(5 * n + 1) = n + 1
         /\ ~IsNewline(5 * n + 1) /\ ~IsNewline(5 * n + 2) /\ ~IsNewline(5 * n + 3)
         /\ IsNewline(5 * n + 4) /\ IsNewline(5 * n + 5)
  BY DEF IsPrefix, Frame, IsNewline, FrameUnits

LEMMA WholeFrames ==
  ASSUME NEW n \in Nat, NEW k \in 0 .. 4, NEW units, units = 5 * n + k
  PROVE  units \div FrameUnits = n
  BY DEF FrameUnits

\* n events are yielded, k units are left of what was delivered.
Left(n, k) ==
  /\ Len(yielded) = n /\ Len(buffer) = k
  /\ delivered = 5 * n + k /\ 5 * n + k <= 5 * Events
  /\ \A i \in 1 .. k : buffer[i] = 5 * n + i

LEMMA SomeLeft ==
  ASSUME StreamTypeOK, StreamInv, stream \in {"reading", "tail"}
  PROVE  \E n, k \in Nat : Left(n, k)
<1>1. Len(buffer) \in Nat /\ Len(yielded) \in Nat /\ Sent = 5 * Events
  BY DEF StreamTypeOK, Sent, FrameUnits
<1>2. PICK n \in Nat, k \in Nat : Len(yielded) = n /\ Len(buffer) = k
  BY <1>1
<1>3. delivered \in 0 .. 5 * Events
  BY <1>1 DEF StreamTypeOK
<1>4. k = delivered - 5 * n /\ \A i \in 1 .. k : buffer[i] = 5 * n + i
  BY <1>2 DEF StreamInv, BufferInv, YieldedUnits, FrameUnits
<1>5. delivered = 5 * n + k /\ 5 * n + k <= 5 * Events
  BY <1>3, <1>4, EventsAssumption
<1>6. QED
  BY <1>2, <1>4, <1>5 DEF Left

\* The units left are units of the stream.
LEMMA LeftUnits ==
  ASSUME NEW n \in Nat, NEW k \in Nat, Left(n, k), NEW i \in 1 .. k
  PROVE  buffer[i] \in 1 .. Sent
<1>1. buffer[i] = 5 * n + i /\ 5 * n + k <= 5 * Events /\ Sent = 5 * Events
  BY DEF Left, Sent, FrameUnits
<1>2. 5 * n + i \in 1 .. 5 * Events
  BY <1>1, EventsAssumption
<1>3. QED
  BY <1>1, <1>2

\* The newlines among the first five units left.
LEMMA LeftNewlines ==
  ASSUME NEW n \in Nat, NEW k \in Nat, Left(n, k), NEW i \in 1 .. k, i <= 5
  PROVE  IsNewline(buffer[i]) <=> i \in {4, 5}
<1>1. buffer[i] = 5 * n + i
  BY DEF Left
<1>2. i = 1 \/ i = 2 \/ i = 3 \/ i = 4 \/ i = 5
  OBVIOUS
<1>3. QED
  BY <1>1, <1>2, UnitKinds

\* The first blank line is the end of the first frame.
LEMMA FirstFrame ==
  ASSUME NEW n \in Nat, NEW k \in Nat, Left(n, k)
  PROVE  /\ \A i \in 1 .. k - 1 : BlankLine(i) => i = 4
         /\ ~HasFrame => k < 5
<1>1. k >= 5 => BlankLine(4)
  <2> SUFFICES ASSUME k >= 5
               PROVE  BlankLine(4)
    OBVIOUS
  <2>1. \A i \in 1 .. 5 : IsNewline(buffer[i]) <=> i \in {4, 5}
    BY LeftNewlines
  <2>2. Len(buffer) = k /\ 4 \in 1 .. k - 1
    BY DEF Left
  <2>3. QED
    BY <2>1, <2>2 DEF BlankLine
<1>2. ASSUME NEW i \in 1 .. k - 1, BlankLine(i)
      PROVE  i = 4
  <2>1. IsNewline(buffer[i]) /\ \A j \in 1 .. i - 1 : ~(IsNewline(buffer[j]) /\ IsNewline(buffer[j + 1]))
    BY <1>2 DEF BlankLine
  <2>2. CASE i < 4
    <3>1. IsNewline(buffer[i]) <=> i \in {4, 5}
      BY <2>2, LeftNewlines
    <3>2. QED
      BY <2>1, <2>2, <3>1
  <2>3. CASE i > 4
    <3>1. 4 \in 1 .. i - 1 /\ 4 \in 1 .. k /\ 5 \in 1 .. k
      BY <2>3
    <3>2. IsNewline(buffer[4]) /\ IsNewline(buffer[5])
      BY <3>1, LeftNewlines
    <3>3. QED
      BY <2>1, <3>1, <3>2
  <2>4. QED
    BY <2>2, <2>3
<1>3. QED
  BY <1>1, <1>2 DEF HasFrame, Left

-----------------------------------------------------------------------------
LEMMA PieceStep ==
  ASSUME StreamTypeOK, StreamInv, NEW m \in 1 .. Sent, ReadPiece(m)
  PROVE  StreamTypeOK' /\ StreamInv'
<1> DEFINE piece == [i \in 1 .. m |-> delivered + i]
<1>1. /\ stream = "reading" /\ delivered + m <= Sent /\ delivered' = delivered + m
      /\ buffer' = buffer \o piece
      /\ UNCHANGED <<stream, yielded>>
      /\ Sent \in Nat /\ m \in Nat /\ delivered \in 0 .. Sent
  BY EventsAssumption DEF ReadPiece, StreamTypeOK, Sent, FrameUnits
<1>2. PICK n \in Nat, k \in Nat : Left(n, k)
  BY <1>1, SomeLeft
<1>3. /\ Len(yielded) = n /\ Len(buffer) = k /\ delivered = 5 * n + k
      /\ \A i \in 1 .. k : buffer[i] = 5 * n + i
  BY <1>2 DEF Left
<1>4. piece \in Seq(1 .. Sent) /\ Len(piece) = m
  <2>1. \A i \in 1 .. m : delivered + i \in 1 .. Sent
    BY <1>1
  <2>2. QED
    BY <1>1, <2>1, IsASeq
<1>5. \A i \in 1 .. m : piece[i] = 5 * n + k + i
  BY <1>3
<1> HIDE DEF piece
<1>6. /\ buffer' \in Seq(1 .. Sent) /\ Len(buffer') = k + m
      /\ \A i \in 1 .. k + m : buffer'[i] = IF i <= k THEN buffer[i] ELSE piece[i - k]
  <2>1. buffer \in Seq(1 .. Sent)
    BY DEF StreamTypeOK
  <2>2. /\ buffer \o piece \in Seq(1 .. Sent)
        /\ Len(buffer \o piece) = Len(buffer) + Len(piece)
        /\ \A i \in 1 .. Len(buffer) + Len(piece) :
             (buffer \o piece)[i] = IF i <= Len(buffer) THEN buffer[i] ELSE piece[i - Len(buffer)]
    BY <1>4, <2>1, ConcatProperties
  <2>3. QED
    BY <1>1, <1>3, <1>4, <2>2
<1>7. \A i \in 1 .. k + m : buffer'[i] = 5 * n + i
  <2> TAKE i \in 1 .. k + m
  <2>1. CASE i <= k
    <3>1. i \in 1 .. k
      BY <1>1, <2>1
    <3>2. buffer'[i] = buffer[i]
      BY <1>6, <2>1
    <3>3. QED
      BY <1>3, <3>1, <3>2
  <2>2. CASE i > k
    <3>1. i - k \in 1 .. m /\ 5 * n + k + (i - k) = 5 * n + i
      BY <1>1, <2>2
    <3>2. buffer'[i] = piece[i - k]
      BY <1>6, <2>2
    <3>3. piece[i - k] = 5 * n + k + (i - k)
      BY <1>5, <3>1
    <3>4. QED
      BY <3>1, <3>2, <3>3
  <2>3. i <= k \/ i > k
    BY <1>1
  <2>4. QED
    BY <2>1, <2>2, <2>3
<1>8. StreamTypeOK'
  <2>1. delivered' \in 0 .. Sent /\ Len(buffer') <= delivered'
    BY <1>1, <1>3, <1>6
  <2>2. QED
    BY <1>1, <1>6, <2>1 DEF StreamTypeOK
<1>9. BufferInv'
  <2>1. Len(buffer') = delivered' - 5 * n
    BY <1>1, <1>3, <1>6
  <2>2. QED
    BY <1>1, <1>3, <1>6, <1>7, <2>1 DEF BufferInv, YieldedUnits, FrameUnits
<1>10. EventsInOrder' /\ EndInv'
  BY <1>1 DEF StreamInv, EventsInOrder, EndInv
<1>11. QED
  BY <1>8, <1>9, <1>10 DEF StreamInv

\* What a step does that yields an event.
LEMMA Appended ==
  ASSUME StreamTypeOK, StreamInv, NEW n \in Nat, Len(yielded) = n, n + 1 <= Events,
         yielded' = Append(yielded, n + 1)
  PROVE  /\ yielded' \in Seq(1 .. Events) /\ Len(yielded') = n + 1 /\ Len(yielded') <= Events
         /\ EventsInOrder'
<1>1. yielded \in Seq(1 .. Events) /\ n + 1 \in 1 .. Events
  BY EventsAssumption DEF StreamTypeOK
<1>2. /\ yielded' \in Seq(1 .. Events) /\ Len(yielded') = n + 1
      /\ \A i \in 1 .. n : yielded'[i] = yielded[i]
      /\ yielded'[n + 1] = n + 1
  BY <1>1, AppendProperties
<1>3. QED
  BY <1>1, <1>2 DEF StreamInv, EventsInOrder

LEMMA FrameStep ==
  ASSUME StreamTypeOK, StreamInv, YieldFrame
  PROVE  StreamTypeOK' /\ StreamInv'
<1>1. stream = "reading" /\ delivered' = delivered
  BY DEF YieldFrame
<1>2. PICK n \in Nat, k \in Nat : Left(n, k)
  BY <1>1, SomeLeft
<1>3. /\ Len(yielded) = n /\ Len(buffer) = k /\ delivered = 5 * n + k /\ 5 * n + k <= 5 * Events
      /\ \A i \in 1 .. k : buffer[i] = 5 * n + i
      /\ \A i \in 1 .. k : buffer[i] \in 1 .. Sent
  <2>1. \A i \in 1 .. k : buffer[i] \in 1 .. Sent
    BY <1>2, LeftUnits
  <2>2. QED
    BY <1>2, <2>1 DEF Left
<1>4. /\ k >= 5 /\ YieldText(SubSeq(buffer, 1, 3), stream)
      /\ buffer' = SubSeq(buffer, 6, k)
  <2>1. PICK i \in 1 .. k - 1 : /\ BlankLine(i)
                                /\ YieldText(SubSeq(buffer, 1, i - 1), stream)
                                /\ buffer' = SubSeq(buffer, i + 2, k)
    BY <1>3 DEF YieldFrame
  <2>2. i = 4
    BY <1>2, <2>1, FirstFrame
  <2>3. QED
    BY <2>1, <2>2
<1>5. n + 1 <= Events
  BY <1>3, <1>4, EventsAssumption
<1>6. yielded' = Append(yielded, n + 1) /\ stream' = "reading"
  <2> DEFINE json == SubSeq(buffer, 1, 3)
  <2>1. /\ Len(json) = 3
        /\ \A i \in 1 .. 3 : json[i] = buffer[1 + i - 1]
    <3>1. \A i \in 1 .. 3 : buffer[i] \in 1 .. Sent
      BY <1>3, <1>4
    <3>2. QED
      BY <3>1, SubSeqProperties
  <2> HIDE DEF json
  <2>2. Len(json) = 3 /\ json[1] = 5 * n + 1 /\ json[3] = 5 * n + 3
    BY <1>3, <1>4, <2>1
  <2>3. HasData(json) /\ Parses(json) /\ Frame(json[1]) = n + 1
    BY <2>2, UnitKinds DEF HasData, Parses
  <2>4. QED
    BY <1>1, <1>4, <2>3 DEF YieldText, json
<1>7. /\ yielded' \in Seq(1 .. Events) /\ Len(yielded') = n + 1 /\ Len(yielded') <= Events
      /\ EventsInOrder'
  BY <1>3, <1>5, <1>6, Appended
<1>8. /\ buffer' \in Seq(1 .. Sent) /\ Len(buffer') = k - 5
      /\ \A i \in 1 .. k - 5 : buffer'[i] = 5 * (n + 1) + i
  <2> DEFINE rest == SubSeq(buffer, 6, k)
  <2>1. /\ rest \in Seq(1 .. Sent)
        /\ Len(rest) = IF 6 <= k THEN k - 6 + 1 ELSE 0
        /\ \A i \in 1 .. k - 6 + 1 : rest[i] = buffer[6 + i - 1]
    <3>1. \A i \in 6 .. k : buffer[i] \in 1 .. Sent
      BY <1>3
    <3>2. QED
      BY <3>1, SubSeqProperties
  <2> HIDE DEF rest
  <2>2. Len(rest) = k - 5
    BY <1>4, <2>1
  <2>3. ASSUME NEW i \in 1 .. k - 5
        PROVE  rest[i] = 5 * (n + 1) + i
    <3>1. i \in 1 .. k - 6 + 1 /\ 6 + i - 1 \in 1 .. k
      OBVIOUS
    <3>2. rest[i] = buffer[6 + i - 1]
      BY <2>1, <3>1
    <3>3. buffer[6 + i - 1] = 5 * n + (6 + i - 1)
      BY <1>3, <3>1
    <3>4. QED
      BY <3>2, <3>3
  <2>4. QED
    BY <1>4, <2>1, <2>2, <2>3 DEF rest
<1>9. StreamTypeOK'
  <2>1. Len(buffer') <= delivered'
    BY <1>1, <1>3, <1>8
  <2>2. QED
    BY <1>1, <1>6, <1>7, <1>8, <2>1 DEF StreamTypeOK
<1>10. BufferInv'
  <2>1. Len(buffer') = delivered' - 5 * (n + 1)
    BY <1>1, <1>3, <1>8
  <2>2. QED
    BY <1>7, <1>8, <2>1 DEF BufferInv, YieldedUnits, FrameUnits
<1>11. EndInv'
  BY <1>6 DEF EndInv
<1>12. QED
  BY <1>7, <1>9, <1>10, <1>11 DEF StreamInv

LEMMA CloseStep ==
  ASSUME StreamTypeOK, StreamInv, Closes \/ Breaks
  PROVE  StreamTypeOK' /\ StreamInv'
<1>1. /\ stream = "reading" /\ stream' \in {"tail", "failed"} /\ ~HasFrame
      /\ UNCHANGED <<delivered, buffer, yielded>>
  BY DEF Closes, Breaks
<1>2. StreamTypeOK' /\ BufferInv' /\ EventsInOrder'
  BY <1>1 DEF StreamTypeOK, StreamInv, BufferInv, YieldedUnits, EventsInOrder
<1>3. PICK n \in Nat, k \in Nat : Left(n, k)
  BY <1>1, SomeLeft
<1>4. k \in 0 .. 4
  BY <1>1, <1>3, FirstFrame
<1>5. Len(yielded) = n /\ Len(buffer) = k /\ delivered = 5 * n + k
  BY <1>3 DEF Left
<1>6. delivered \div FrameUnits = n
  BY <1>4, <1>5, WholeFrames
<1>7. EndInv'
  BY <1>1, <1>4, <1>5, <1>6 DEF EndInv, FrameUnits
<1>8. QED
  BY <1>2, <1>7 DEF StreamInv

LEMMA TailStep ==
  ASSUME StreamTypeOK, StreamInv, ReadTail
  PROVE  StreamTypeOK' /\ StreamInv'
<1>1. stream = "tail" /\ UNCHANGED <<delivered, buffer>>
  BY DEF ReadTail
<1>2. PICK n \in Nat, k \in Nat : Left(n, k)
  BY <1>1, SomeLeft
<1>3. /\ Len(yielded) = n /\ Len(buffer) = k /\ delivered = 5 * n + k /\ 5 * n + k <= 5 * Events
      /\ \A i \in 1 .. k : buffer[i] = 5 * n + i
      /\ \A i \in 1 .. k : buffer[i] \in 1 .. Sent
  <2>1. \A i \in 1 .. k : buffer[i] \in 1 .. Sent
    BY <1>2, LeftUnits
  <2>2. QED
    BY <1>2, <2>1 DEF Left
<1>4. k = 0 \/ k = 1 \/ k = 2 \/ k = 3 \/ k = 4
  BY <1>1, <1>3 DEF StreamInv, EndInv, FrameUnits
<1>5. PICK i \in 1 .. k + 1, j \in 0 .. k :
        IsTrimmed(i, j) /\ YieldText(SubSeq(buffer, i, j), "ended")
  BY <1>3 DEF ReadTail
<1> DEFINE json == SubSeq(buffer, i, j)
<1>6. \A u \in 1 .. k : IsNewline(buffer[u]) <=> u = 4
  BY <1>2, <1>4, LeftNewlines
<1>7. /\ Len(json) = IF k = 4 THEN 3 ELSE k
      /\ k > 0 => json[1] = 5 * n + 1
      /\ k > 2 => json[3] = 5 * n + 3
  <2>1. /\ \A u \in 1 .. k : u < i \/ j < u => u = 4
        /\ i <= j => i # 4 /\ j # 4
    <3>1. /\ \A u \in 1 .. k : u < i \/ j < u => IsNewline(buffer[u])
          /\ i <= j => ~IsNewline(buffer[i]) /\ ~IsNewline(buffer[j])
      BY <1>3, <1>5 DEF IsTrimmed
    <3>2. i <= j => i \in 1 .. k /\ j \in 1 .. k
      OBVIOUS
    <3>3. QED
      BY <1>6, <3>1, <3>2
  <2>2. IF k = 0 THEN i = 1 /\ j = 0 ELSE i = 1 /\ j = IF k = 4 THEN 3 ELSE k
    BY <1>4, <2>1
  <2>3. \A u \in i .. j : buffer[u] \in 1 .. Sent
    BY <1>3
  <2>4. /\ Len(json) = IF i <= j THEN j - i + 1 ELSE 0
        /\ \A u \in 1 .. j - i + 1 : json[u] = buffer[i + u - 1]
    BY <2>3, SubSeqProperties
  <2> HIDE DEF json
  <2>5. QED
    BY <1>3, <1>4, <2>2, <2>4
<1> HIDE DEF json
<1>8. CASE k \in {0, 1, 2}
  <2>1. yielded' = yielded /\ stream' = IF k = 2 THEN "failed" ELSE "ended"
    BY <1>5, <1>7, <1>8, UnitKinds DEF YieldText, HasData, Parses, json
  <2>2. delivered \div FrameUnits = n
    <3>1. k \in 0 .. 4
      BY <1>8
    <3>2. QED
      BY <1>3, <3>1, WholeFrames
  <2>3. ASSUME k # 2
        PROVE  (delivered + 2) \div FrameUnits = n
    <3>1. k + 2 \in 0 .. 4 /\ delivered + 2 = 5 * n + (k + 2)
      BY <1>3, <1>8, <2>3
    <3>2. QED
      BY <3>1, WholeFrames
  <2>4. StreamTypeOK' /\ EventsInOrder' /\ BufferInv'
    BY <1>1, <2>1 DEF StreamTypeOK, StreamInv, EventsInOrder, BufferInv
  <2>5. EndInv'
    BY <1>1, <1>3, <2>1, <2>2, <2>3 DEF EndInv
  <2>6. QED
    BY <2>4, <2>5 DEF StreamInv
<1>9. CASE k \in {3, 4}
  <2>1. yielded' = Append(yielded, n + 1) /\ stream' = "ended"
    <3>1. Len(json) = 3 /\ json[1] = 5 * n + 1 /\ json[3] = 5 * n + 3
      BY <1>7, <1>9
    <3>2. HasData(json) /\ Parses(json) /\ Frame(json[1]) = n + 1
      BY <3>1, UnitKinds DEF HasData, Parses
    <3>3. QED
      BY <1>5, <3>2 DEF YieldText, json
  <2>2. n + 1 <= Events
    BY <1>3, <1>9, EventsAssumption
  <2>3. /\ yielded' \in Seq(1 .. Events) /\ Len(yielded') = n + 1 /\ Len(yielded') <= Events
        /\ EventsInOrder'
    BY <1>3, <2>1, <2>2, Appended
  <2>4. (delivered + 2) \div FrameUnits = n + 1
    <3>1. n + 1 \in Nat /\ k - 3 \in 0 .. 4 /\ delivered + 2 = 5 * (n + 1) + (k - 3)
      BY <1>3, <1>9
    <3>2. QED
      BY <3>1, WholeFrames
  <2>5. StreamTypeOK' /\ BufferInv' /\ EndInv'
    BY <1>1, <2>1, <2>3, <2>4 DEF StreamTypeOK, BufferInv, EndInv
  <2>6. QED
    BY <2>3, <2>5 DEF StreamInv
<1>10. QED
  BY <1>4, <1>8, <1>9

LEMMA StreamAlways == StreamSpec => [](StreamTypeOK /\ StreamInv)
<1>1. StreamInit => StreamTypeOK /\ StreamInv
  <2> SUFFICES ASSUME StreamInit
               PROVE  StreamTypeOK /\ StreamInv
    OBVIOUS
  <2>1. Len(buffer) = 0 /\ Len(yielded) = 0 /\ buffer \in Seq(1 .. Sent) /\ yielded \in Seq(1 .. Events)
    BY DEF StreamInit
  <2>2. delivered = 0 /\ stream = "reading" /\ Sent \in Nat /\ Events \in Nat
    BY EventsAssumption DEF StreamInit, Sent, FrameUnits
  <2>3. QED
    BY <2>1, <2>2 DEF StreamTypeOK, StreamInv, EventsInOrder, BufferInv, YieldedUnits, EndInv, FrameUnits
<1>2. StreamTypeOK /\ StreamInv /\ [StreamNext]_streamVars => StreamTypeOK' /\ StreamInv'
  <2>1. CASE UNCHANGED streamVars
    BY <2>1 DEF streamVars, StreamTypeOK, StreamInv, EventsInOrder, BufferInv, YieldedUnits, EndInv
  <2>2. QED
    BY <2>1, PieceStep, FrameStep, CloseStep, TailStep DEF StreamNext
<1>3. QED
  BY <1>1, <1>2, PTL DEF StreamSpec

\* However the network cuts the body, the events come whole, once and in order
\* (streamConversationMessage).
THEOREM EventsComeInOrder == StreamSpec => []EventsInOrder
<1>1. StreamInv => EventsInOrder
  BY DEF StreamInv
<1>2. QED
  BY <1>1, StreamAlways, PTL

\* No event that has arrived waits for a later piece or is lost, the last one
\* without its blank line included.
THEOREM EventsAreNotHeldBack == StreamSpec => []NothingHeldBack
<1>1. StreamTypeOK /\ StreamInv => NothingHeldBack
  <2> SUFFICES ASSUME StreamTypeOK, StreamInv, stream = "reading", ~HasFrame
               PROVE  Len(yielded) = delivered \div FrameUnits
    BY DEF NothingHeldBack, StreamInv, EndInv
  <2>1. PICK n \in Nat, k \in Nat : Left(n, k)
    BY SomeLeft
  <2>2. k \in 0 .. 4
    BY <2>1, FirstFrame
  <2>3. Len(yielded) = n /\ delivered = 5 * n + k
    BY <2>1 DEF Left
  <2>4. QED
    BY <2>2, <2>3, WholeFrames
<1>2. QED
  BY <1>1, StreamAlways, PTL

-----------------------------------------------------------------------------
(***************************************************************************)
(* The four side by side: a behaviour of MCAlgorithms is one of each       *)
(* component, which either takes its own steps or stands still.            *)
(***************************************************************************)
LEMMA StepsOfTheParts ==
  ASSUME [Next]_allVars
  PROVE  /\ [PaginationNext]_paginationVars
         /\ [PreparationNext]_preparationVars
         /\ [RetrievalNext]_retrievalVars
         /\ [StreamNext]_streamVars
<1>1. CASE Paginates
  BY <1>1 DEF Paginates
<1>2. CASE Prepares
  BY <1>2 DEF Prepares
<1>3. CASE Retrieves
  BY <1>3 DEF Retrieves
<1>4. CASE Streams
  BY <1>4 DEF Streams
<1>5. CASE UNCHANGED allVars
  BY <1>5 DEF allVars
<1>6. QED
  BY <1>1, <1>2, <1>3, <1>4, <1>5 DEF Next

LEMMA BehavesAsTheParts ==
  Spec => PaginationSpec /\ PreparationSpec /\ RetrievalSpec /\ StreamSpec
<1>1. Init => PaginationInit /\ PreparationInit /\ RetrievalInit /\ StreamInit
  BY DEF Init
<1>2. QED
  BY <1>1, StepsOfTheParts, PTL DEF Spec, PaginationSpec, PreparationSpec, RetrievalSpec, StreamSpec

\* Every component keeps its types, whichever of the four runs.
THEOREM PartsTypeCorrect == Spec => []PartsTypeOK
<1>1. PagingInvariant /\ PreparationInvariant /\ RetrievalTypeOK /\ StreamTypeOK => PartsTypeOK
  BY DEF PagingInvariant, PreparationInvariant, PartsTypeOK
<1>2. QED
  BY <1>1, BehavesAsTheParts, PagingInductive, PreparationInductive, RetrievalTypeCorrect,
     StreamAlways, PTL
=============================================================================
