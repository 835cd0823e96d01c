------------------------ MODULE ClientDocumentsProofs ------------------------
(***************************************************************************)
(* Proofs about the client's document store, for any number of documents,  *)
(* files of a batch, and lists and removals under way.                     *)
(***************************************************************************)
EXTENDS ClientDocuments, SequenceTheorems, FiniteSetTheorems, WellFoundedInduction, TLAPS

\* Without these what the page shows may be older than the server's answers, or cut.
FirstPageHoldsAll == IsFiniteSet(Docs) /\ Cardinality(Docs) <= PageLimit

-----------------------------------------------------------------------------
(***************************************************************************)
(* Types.                                                                  *)
(***************************************************************************)
Statuses == {"absent", "pending", "ready", "failed", "deleted"}
Ids == Docs \cup {None}
Cards == [id : Docs, status : Statuses]
Batches == [left : 0 .. MaxBatch, accepted : Seq(Cards), asked : Ids, open : BOOLEAN]
Answers == [kind : {"list", "upload", "delete"}, asked : Ids, cards : Seq(Cards)]

\* No document has two entries.
Single(s) == \A i, j \in 1 .. Len(s) : s[i] = s[j] => i = j
SingleCards(cards) == \A i, j \in 1 .. Len(cards) : cards[i].id = cards[j].id => i = j

Has(cards, d) == \E i \in 1 .. Len(cards) : cards[i].id = d
HasCard(cards, c) == \E i \in 1 .. Len(cards) : cards[i] = c
InTable(d) == \E i \in 1 .. Len(table) : table[i] = d
OnFirstPage(d) == \E i \in 1 .. Len(table) : i <= PageLimit /\ table[i] = d

TableTypes ==
  /\ status \in [Docs -> Statuses]
  /\ table \in Seq(Docs) /\ Single(table)
  /\ \A d \in Docs : InTable(d) <=> status[d] \notin {"absent", "deleted"}

NetworkTypes ==
  /\ calls \in Seq(Ids) /\ wire \in Seq(Answers)
  /\ UnderWay <= MaxUnderWay
  /\ batch \in Batches
  /\ ~batch.open => batch.left = 0 /\ batch.accepted = <<>>

PageTypes ==
  /\ documents \in Seq(Cards) /\ activeId \in Ids
  /\ interval \in Ids \cup {"off"}
  /\ isUploading \in BOOLEAN /\ loaded \in BOOLEAN
  /\ own \in SUBSET Docs /\ unseen \in SUBSET Docs /\ reopened \in SUBSET Docs

\* One batch at a time, from the button to its answer.
BatchInv ==
  /\ batch.open => isUploading
  /\ \A k \in 1 .. Len(wire) : wire[k].kind = "upload" => isUploading /\ ~batch.open
  /\ \A k, l \in 1 .. Len(wire) : wire[k].kind = "upload" /\ wire[l].kind = "upload" => k = l

\* What the answers say that are no lists; the documents of those that have arrived.
AnswersInv ==
  /\ \A d \in own : InTable(d)
  /\ \A i \in 1 .. Len(batch.accepted) :
       /\ batch.accepted[i].status = "pending"
       /\ status[batch.accepted[i].id] # "absent"
  /\ \A k \in 1 .. Len(wire) :
       /\ wire[k].kind = "upload" => \A i \in 1 .. Len(wire[k].cards) :
            wire[k].cards[i].status = "pending" /\ status[wire[k].cards[i].id] # "absent"
       /\ wire[k].kind = "delete" => /\ Len(wire[k].cards) = 1
                                     /\ status[wire[k].cards[1].id] = "deleted"

TypeInv == TableTypes /\ NetworkTypes /\ PageTypes /\ BatchInv /\ AnswersInv

-----------------------------------------------------------------------------
(***************************************************************************)
(* What lists say.                                                         *)
(***************************************************************************)
IsList(k) == wire[k].kind = "list"
Removes(k, d) == wire[k].kind = "delete" /\ wire[k].cards[1].id = d
Gone(d) == status[d] = "deleted" /\ d \in unseen

\* An answer after the k-th, or the one to the batch, tells the page about d.
Later(k, d) ==
  \/ Has(batch.accepted, d)
  \/ \E l \in k + 1 .. Len(wire) : ~IsList(l) /\ Has(wire[l].cards, d)

\* A card of a list is up to date, or its document was pending then, was processed
\* again or is deleted now: behind the page's back, or a removal follows the list.
CardInv ==
  \A k \in 1 .. Len(wire) : IsList(k) => \A c \in Cards : HasCard(wire[k].cards, c) =>
    /\ c.status \in {"pending", "ready", "failed"}
    /\ InTable(c.id) => c.status \in {status[c.id], "pending"} \/ c.id \in reopened
    /\ ~InTable(c.id) => Gone(c.id) \/ \E l \in k + 1 .. Len(wire) : Removes(l, c.id)

\* What one list has decided the next ones repeat, until a removal, if all documents
\* are on the first page.
RepeatInv ==
  \A k, m \in 1 .. Len(wire) : k < m /\ IsList(k) /\ IsList(m) =>
    \A c \in Cards :
      HasCard(wire[k].cards, c) /\ c.status \in Terminal =>
        \/ HasCard(wire[m].cards, c)
        \/ Gone(c.id) \/ c.id \in reopened
        \/ \E l \in k + 1 .. m - 1 : Removes(l, c.id)

ListInv == CardInv /\ RepeatInv

-----------------------------------------------------------------------------
(***************************************************************************)
(* The active document.                                                    *)
(***************************************************************************)
\* Until a list is shown, every closure has the active id of the page load.
AskedInv ==
  ~loaded /\ activeId # None =>
    /\ \A k \in 1 .. Len(calls) : calls[k] = activeId
    /\ \A k \in 1 .. Len(wire) : wire[k].kind # "delete" => wire[k].asked = activeId
    /\ batch.open => batch.asked = activeId
    /\ interval # "off" => interval = activeId

\* Afterwards the active document is shown as ready, and the lists to come show it so,
\* unless a removal comes first or it is processed again.
ActiveInv ==
  loaded /\ activeId # None /\ ~Gone(activeId) /\ activeId \notin reopened =>
    LET c == Card(activeId, "ready") IN
    /\ HasCard(documents, c)
    /\ \/ InTable(activeId) /\ status[activeId] = "ready"
       \/ ~InTable(activeId) /\ \E l \in 1 .. Len(wire) : Removes(l, activeId)
    /\ \A k \in 1 .. Len(wire) : IsList(k) =>
         HasCard(wire[k].cards, c) \/ \E l \in 1 .. k - 1 : Removes(l, activeId)

-----------------------------------------------------------------------------
(***************************************************************************)
(* What the page shows, if all documents are on the first page.            *)
(***************************************************************************)
\* A list has the rows of the table, but for what a later answer tells.
RowsInv ==
  \A k \in 1 .. Len(wire) : IsList(k) =>
    /\ SingleCards(wire[k].cards)
    /\ \A d \in Docs \ unseen : ~Later(k, d) => (Has(wire[k].cards, d) <=> InTable(d))

\* The same of the page, once polling is over.
ShownInv ==
  interval = "off" /\ loaded =>
    /\ SingleCards(documents)
    /\ \A d \in Docs \ unseen : ~Later(0, d) => (Has(documents, d) <=> InTable(d))

\* Lists that come after an upload's answer have its documents; when polling is over
\* the page has them too, and as decided unless they were processed again.
OwnInv ==
  \A k \in 1 .. Len(wire) : IsList(k) =>
    \A d \in Docs :
      /\ InTable(d)
      /\ \/ d \in own
         \/ \E l \in 1 .. k - 1 : wire[l].kind = "upload" /\ Has(wire[l].cards, d)
      => Has(wire[k].cards, d)

ListedInv == interval = "off" => \A d \in own : Has(documents, d)

OffInv ==
  interval = "off" =>
    \A d \in own \ reopened :
      /\ status[d] \in Terminal /\ HasCard(documents, Card(d, status[d]))
      /\ \A k \in 1 .. Len(wire) : IsList(k) => HasCard(wire[k].cards, Card(d, status[d]))

PageInv == RowsInv /\ ShownInv /\ OwnInv /\ ListedInv /\ OffInv
-----------------------------------------------------------------------------
(***************************************************************************)
(* Least elements, and the entries of a sequence at given places.          *)
(***************************************************************************)
LEMMA LeastOf ==
  ASSUME NEW S, S \subseteq Nat, S # {}
  PROVE  Min(S) \in S /\ \A n \in S : Min(S) <= n
<1>1. IsWellFoundedOn(OpToRel(<, Nat), Nat)
  BY NatLessThanWellFounded
<1>2. PICK m \in S : \A n \in S : ~(<<n, m>> \in OpToRel(<, Nat))
  BY <1>1, WFMin
<1>3. \A n \in S : ~(n < m)
  BY <1>2 DEF OpToRel
<1>4. m \in S /\ \A n \in S : m <= n
  BY <1>3
<1>5. QED
  BY <1>4 DEF Min

LEMMA LeastOfTwo ==
  ASSUME NEW a \in Nat, NEW b \in Nat
  PROVE  Min({a, b}) = IF a <= b THEN a ELSE b
<1>1. Min({a, b}) \in {a, b} /\ \A n \in {a, b} : Min({a, b}) <= n
  BY LeastOf
<1>2. QED
  BY <1>1

\* How many of the places I come up to i.
Rank(I, i) == Cardinality({j \in I : j <= i})

LEMMA RankProperties ==
  ASSUME NEW n \in Nat, NEW I \in SUBSET (1 .. n)
  PROVE  /\ Cardinality(I) \in 0 .. n
         /\ \A i \in I : Rank(I, i) \in 1 .. Cardinality(I) /\ Rank(I, i) <= i
         /\ \A i, k \in I : i < k => Rank(I, i) < Rank(I, k)
<1>1. IsFiniteSet(1 .. n) /\ Cardinality(1 .. n) = n
  BY FS_Interval
<1>2. IsFiniteSet(I) /\ Cardinality(I) \in Nat /\ Cardinality(I) <= n
  BY <1>1, FS_Subset, FS_CardinalityType
<1>3. ASSUME NEW i \in I
      PROVE  Rank(I, i) \in 1 .. Cardinality(I) /\ Rank(I, i) <= i
  <2> DEFINE P == {j \in I : j <= i}
  <2>1. IsFiniteSet(P) /\ Cardinality(P) \in Nat /\ Cardinality(P) <= Cardinality(I)
    BY <1>2, FS_Subset, FS_CardinalityType
  <2>2. Cardinality(P) # 0
    BY <2>1, FS_EmptySet
  <2>3. i \in Nat /\ I \subseteq Nat /\ i \in 1 .. n /\ IsFiniteSet(1 .. i) /\ Cardinality(1 .. i) = i
    BY FS_Interval
  <2>4. P \in SUBSET (1 .. i)
    <3>1. \A j \in I : j <= i => j \in 1 .. i
      BY <2>3
    <3>2. QED
      BY <3>1
  <2>5. Cardinality(P) <= i
    BY <2>3, <2>4, FS_Subset
  <2>6. QED
    BY <1>2, <2>1, <2>2, <2>5 DEF Rank
<1>4. ASSUME NEW i \in I, NEW k \in I, i < k
      PROVE  Rank(I, i) < Rank(I, k)
  <2> DEFINE P == {j \in I : j <= i}
             Q == {j \in I : j <= k}
  <2>1. IsFiniteSet(Q) /\ Cardinality(Q) \in Nat
    BY <1>2, FS_Subset, FS_CardinalityType
  <2>2. P \in SUBSET Q /\ P # Q
    <3>1. i \in Int /\ k \in Int /\ I \subseteq Int
      OBVIOUS
    <3>2. \A j \in I : j <= i => j <= k
      BY <1>4, <3>1
    <3>3. k \in Q /\ k \notin P
      BY <1>4, <3>1
    <3>4. QED
      BY <3>2, <3>3
  <2>3. Cardinality(P) \in Nat /\ Cardinality(P) <= Cardinality(Q) /\ Cardinality(P) # Cardinality(Q)
    BY <2>1, <2>2, FS_Subset, FS_CardinalityType
  <2>4. QED
    BY <2>1, <2>3 DEF Rank
<1>5. QED
  BY <1>2, <1>3, <1>4

LEMMA PlaceProperties ==
  ASSUME NEW n \in Nat, NEW I \in SUBSET (1 .. n)
  PROVE  /\ Cardinality(I) \in Nat
         /\ \A k \in 1 .. Cardinality(I) : Place(I, k) \in I /\ k <= Place(I, k)
         /\ \A k, l \in 1 .. Cardinality(I) : Place(I, k) = Place(I, l) => k = l
         /\ \A i \in I : \E k \in 1 .. Cardinality(I) : Place(I, k) = i
<1> DEFINE c == Cardinality(I)
           rank == [i \in I |-> Rank(I, i)]
<1>1. IsFiniteSet(I) /\ c \in Nat
  <2>1. IsFiniteSet(1 .. n)
    BY FS_Interval
  <2>2. QED
    BY <2>1, FS_Subset, FS_CardinalityType
<1>2. /\ \A i \in I : Rank(I, i) \in 1 .. c /\ Rank(I, i) <= i
      /\ \A i, k \in I : i < k => Rank(I, i) < Rank(I, k)
  BY RankProperties
<1>3. \A i, k \in I : Rank(I, i) = Rank(I, k) => i = k
  BY <1>1, <1>2
<1>4. rank \in Injection(I, 1 .. c)
  <2>1. rank \in [I -> 1 .. c]
    BY <1>2
  <2>2. \A i, k \in I : rank[i] = rank[k] => i = k
    BY <1>3
  <2>3. QED
    BY <2>1, <2>2 DEF Injection, IsInjective
<1>5. rank \in Surjection(I, 1 .. c)
  <2>1. IsFiniteSet(1 .. c) /\ Cardinality(1 .. c) = c
    BY <1>1, FS_Interval
  <2>2. QED
    BY <1>4, <2>1, FS_Injection
<1>6. ASSUME NEW k \in 1 .. c
      PROVE  Place(I, k) \in I /\ Rank(I, Place(I, k)) = k
  <2>1. \E i \in I : Rank(I, i) = k
    BY <1>5 DEF Surjection
  <2>2. QED
    BY <2>1 DEF Place, Rank
<1>7. \A k \in 1 .. c : k <= Place(I, k)
  BY <1>2, <1>6
<1>8. \A k, l \in 1 .. c : Place(I, k) = Place(I, l) => k = l
  BY <1>6
<1>9. ASSUME NEW i \in I
      PROVE  \E k \in 1 .. c : Place(I, k) = i
  <2>1. Rank(I, i) \in 1 .. c
    BY <1>2
  <2>2. Place(I, Rank(I, i)) \in I /\ Rank(I, Place(I, Rank(I, i))) = Rank(I, i)
    BY <1>6, <2>1
  <2>3. QED
    BY <1>3, <2>1, <2>2
<1>10. QED
  BY <1>1, <1>6, <1>7, <1>8, <1>9

\* The entries of s at the places I are those entries, each once, and none moves back.
Selection(s, S, I) ==
  /\ Entries(s, I) \in Seq(S)
  /\ Len(Entries(s, I)) = Cardinality(I) /\ Cardinality(I) \in Nat
  /\ \A k \in 1 .. Cardinality(I) :
       /\ Place(I, k) \in I /\ k <= Place(I, k)
       /\ Entries(s, I)[k] = s[Place(I, k)]
  /\ \A k, l \in 1 .. Cardinality(I) : Place(I, k) = Place(I, l) => k = l
  /\ \A i \in I : \E k \in 1 .. Cardinality(I) : Place(I, k) = i

LEMMA EntriesProperties ==
  ASSUME NEW S, NEW s \in Seq(S), NEW I \in SUBSET (1 .. Len(s))
  PROVE  Selection(s, S, I)
<1>1. /\ Cardinality(I) \in Nat
      /\ \A k \in 1 .. Cardinality(I) : Place(I, k) \in I /\ k <= Place(I, k)
      /\ \A k, l \in 1 .. Cardinality(I) : Place(I, k) = Place(I, l) => k = l
      /\ \A i \in I : \E k \in 1 .. Cardinality(I) : Place(I, k) = i
  <2>1. Len(s) \in Nat
    BY LenProperties
  <2>2. QED
    BY <2>1, PlaceProperties
<1>2. \A k \in 1 .. Cardinality(I) : s[Place(I, k)] \in S
  BY <1>1, ElementOfSeq
<1>3. /\ Entries(s, I) \in Seq(S) /\ Len(Entries(s, I)) = Cardinality(I)
      /\ \A k \in 1 .. Cardinality(I) : Entries(s, I)[k] = s[Place(I, k)]
  <2>1. [k \in 1 .. Cardinality(I) |-> s[Place(I, k)]] \in Seq(S)
    BY <1>1, <1>2, IsASeq
  <2>2. QED
    BY <1>1, <2>1 DEF Entries
<1>4. QED
  BY <1>1, <1>3 DEF Selection

\* t is s with e behind it: every element of s stays where it was.
OneMore(t, s, e) ==
  /\ Len(t) = Len(s) + 1 /\ t[Len(s) + 1] = e
  /\ \A k \in 1 .. Len(s) : t[k] = s[k]

LEMMA Appended ==
  ASSUME NEW S, NEW s \in Seq(S), NEW e
  PROVE  OneMore(Append(s, e), s, e)
<1>1. Len(s) \in Nat
  BY LenProperties
<1>2. s \in Seq(S \cup {e})
  <2>1. \A k \in 1 .. Len(s) : s[k] \in S \cup {e}
    BY ElementOfSeq
  <2>2. [k \in 1 .. Len(s) |-> s[k]] \in Seq(S \cup {e})
    BY <1>1, <2>1, IsASeq
  <2>3. s = [k \in 1 .. Len(s) |-> s[k]]
    BY LenProperties
  <2>4. QED
    BY <2>2, <2>3
<1>3. QED
  BY <1>2, AppendProperties DEF OneMore

LEMMA RemovedAt ==
  ASSUME NEW S, NEW s \in Seq(S), NEW i \in 1 .. Len(s)
  PROVE  /\ RemoveAt(s, i) \in Seq(S)
         /\ Len(RemoveAt(s, i)) = Len(s) - 1
         /\ \A k \in 1 .. Len(s) - 1 : RemoveAt(s, i)[k] = IF k < i THEN s[k] ELSE s[k + 1]
<1>1. PICK n \in Nat : Len(s) = n
  BY LenProperties
<1> DEFINE front == SubSeq(s, 1, i - 1)
           back == SubSeq(s, i + 1, n)
<1>2. i \in 1 .. n /\ \A k \in 1 .. n : s[k] \in S
  BY <1>1, ElementOfSeq
<1>3. /\ front \in Seq(S) /\ Len(front) = i - 1
      /\ \A k \in 1 .. i - 1 : front[k] = s[k]
  <2>1. \A k \in 1 .. i - 1 : s[k] \in S
    BY <1>2
  <2>2. /\ front \in Seq(S) /\ Len(front) = IF 1 <= i - 1 THEN (i - 1) - 1 + 1 ELSE 0
        /\ \A k \in 1 .. (i - 1) - 1 + 1 : front[k] = s[1 + k - 1]
    BY <1>2, <2>1, SubSeqProperties
  <2>3. QED
    BY <1>2, <2>2
<1>4. /\ back \in Seq(S) /\ Len(back) = n - i
      /\ \A k \in 1 .. n - i : back[k] = s[i + k]
  <2>1. \A k \in i + 1 .. n : s[k] \in S
    BY <1>2
  <2>2. /\ back \in Seq(S) /\ Len(back) = IF i + 1 <= n THEN n - (i + 1) + 1 ELSE 0
        /\ \A k \in 1 .. n - (i + 1) + 1 : back[k] = s[i + 1 + k - 1]
    BY <1>2, <2>1, SubSeqProperties
  <2>3. ASSUME NEW k \in 1 .. n - i
        PROVE  back[k] = s[i + k]
    <3>1. k \in 1 .. n - (i + 1) + 1 /\ i + 1 + k - 1 = i + k
      BY <1>2
    <3>2. QED
      BY <2>2, <3>1
  <2>4. QED
    BY <1>2, <2>2, <2>3
<1> HIDE DEF front, back
<1>5. /\ front \o back \in Seq(S) /\ Len(front \o back) = n - 1
      /\ \A k \in 1 .. n - 1 : (front \o back)[k] = IF k <= i - 1 THEN front[k] ELSE back[k - (i - 1)]
  <2>1. /\ front \o back \in Seq(S) /\ Len(front \o back) = Len(front) + Len(back)
        /\ \A k \in 1 .. Len(front) + Len(back) :
             (front \o back)[k] = IF k <= Len(front) THEN front[k] ELSE back[k - Len(front)]
    BY <1>3, <1>4, ConcatProperties
  <2>2. Len(front) + Len(back) = n - 1
    BY <1>2, <1>3, <1>4
  <2>3. QED
    BY <1>3, <2>1, <2>2
<1>6. ASSUME NEW k \in 1 .. n - 1
      PROVE  (front \o back)[k] = IF k < i THEN s[k] ELSE s[k + 1]
  <2>1. CASE k < i
    <3>1. k \in 1 .. i - 1 /\ k <= i - 1
      BY <1>2, <2>1
    <3>2. QED
      BY <1>3, <1>5, <2>1, <3>1
  <2>2. CASE k >= i
    <3>1. k - (i - 1) \in 1 .. n - i /\ ~(k <= i - 1) /\ i + (k - (i - 1)) = k + 1 /\ ~(k < i)
      BY <1>2, <2>2
    <3>2. (front \o back)[k] = back[k - (i - 1)]
      BY <1>5, <3>1
    <3>3. back[k - (i - 1)] = s[i + (k - (i - 1))]
      BY <1>4, <3>1
    <3>4. QED
      BY <3>1, <3>2, <3>3
  <2>3. k < i \/ k >= i
    BY <1>2
  <2>4. QED
    BY <2>1, <2>2, <2>3
<1>7. RemoveAt(s, i) = front \o back
  BY <1>1 DEF RemoveAt, front, back
<1>8. QED
  BY <1>1, <1>5, <1>6, <1>7

LEMMA InsertedAt ==
  ASSUME NEW S, NEW s \in Seq(S), NEW i \in 1 .. Len(s) + 1, NEW e \in S
  PROVE  /\ InsertAt(s, i, e) \in Seq(S)
         /\ Len(InsertAt(s, i, e)) = Len(s) + 1
         /\ \A k \in 1 .. Len(s) + 1 :
              InsertAt(s, i, e)[k] = IF k < i THEN s[k] ELSE IF k = i THEN e ELSE s[k - 1]
<1>0. PICK n \in Nat : Len(s) = n
  BY LenProperties
<1> DEFINE front == SubSeq(s, 1, i - 1)
           head == front \o <<e>>
           back == SubSeq(s, i, n)
<1>1. i \in 1 .. n + 1 /\ \A k \in 1 .. n : s[k] \in S
  BY <1>0, ElementOfSeq
<1>2. /\ front \in Seq(S) /\ Len(front) = i - 1
      /\ \A k \in 1 .. i - 1 : front[k] = s[k]
  <2>1. \A k \in 1 .. i - 1 : s[k] \in S
    BY <1>1
  <2>2. /\ front \in Seq(S) /\ Len(front) = IF 1 <= i - 1 THEN (i - 1) - 1 + 1 ELSE 0
        /\ \A k \in 1 .. (i - 1) - 1 + 1 : front[k] = s[1 + k - 1]
    BY <1>1, <2>1, SubSeqProperties
  <2>3. QED
    BY <1>1, <2>2
<1>3. /\ back \in Seq(S) /\ Len(back) = n + 1 - i
      /\ \A k \in 1 .. n + 1 - i : back[k] = s[i + k - 1]
  <2>1. \A k \in i .. n : s[k] \in S
    BY <1>1
  <2>2. /\ back \in Seq(S) /\ Len(back) = IF i <= n THEN n - i + 1 ELSE 0
        /\ \A k \in 1 .. n - i + 1 : back[k] = s[i + k - 1]
    BY <1>1, <2>1, SubSeqProperties
  <2>3. n - i + 1 = n + 1 - i /\ (IF i <= n THEN n - i + 1 ELSE 0) = n + 1 - i
    BY <1>1
  <2> HIDE DEF back
  <2>4. QED
    BY <2>2, <2>3
<1> HIDE DEF front, back
<1>4. /\ head \in Seq(S) /\ Len(head) = i
      /\ \A k \in 1 .. i : head[k] = IF k < i THEN s[k] ELSE e
  <2>1. <<e>> \in Seq(S) /\ Len(<<e>>) = 1 /\ <<e>>[1] = e
    OBVIOUS
  <2>2. /\ head \in Seq(S) /\ Len(head) = Len(front) + Len(<<e>>)
        /\ \A k \in 1 .. Len(front) + Len(<<e>>) :
             head[k] = IF k <= Len(front) THEN front[k] ELSE <<e>>[k - Len(front)]
    BY <1>2, <2>1, ConcatProperties
  <2> HIDE DEF head
  <2>3. QED
    BY <1>1, <1>2, <2>1, <2>2
<1> HIDE DEF head
<1>5. /\ head \o back \in Seq(S) /\ Len(head \o back) = n + 1
      /\ \A k \in 1 .. n + 1 : (head \o back)[k] = IF k <= i THEN head[k] ELSE back[k - i]
  <2>1. /\ head \o back \in Seq(S) /\ Len(head \o back) = Len(head) + Len(back)
        /\ \A k \in 1 .. Len(head) + Len(back) :
             (head \o back)[k] = IF k <= Len(head) THEN head[k] ELSE back[k - Len(head)]
    BY <1>3, <1>4, ConcatProperties
  <2>2. Len(head) + Len(back) = n + 1
    BY <1>1, <1>3, <1>4
  <2>3. QED
    BY <1>4, <2>1, <2>2
<1>6. ASSUME NEW k \in 1 .. n + 1
      PROVE  (head \o back)[k] = IF k < i THEN s[k] ELSE IF k = i THEN e ELSE s[k - 1]
  <2>1. CASE k <= i
    BY <1>1, <1>4, <1>5, <2>1
  <2>2. CASE k > i
    <3>1. k - i \in 1 .. n + 1 - i /\ i + (k - i) - 1 = k - 1 /\ ~(k <= i) /\ ~(k < i) /\ k # i
      BY <1>1, <2>2
    <3>2. (head \o back)[k] = back[k - i]
      BY <1>5, <3>1
    <3>3. QED
      BY <1>3, <3>1, <3>2
  <2>3. k <= i \/ k > i
    BY <1>1
  <2>4. QED
    BY <2>1, <2>2, <2>3
<1>7. InsertAt(s, i, e) = head \o back
  BY <1>0 DEF InsertAt, head, front, back
<1>8. QED
  BY <1>0, <1>5, <1>6, <1>7

-----------------------------------------------------------------------------
(***************************************************************************)
(* The table and its first page.                                           *)
(***************************************************************************)
LEMMA RowInserted ==
  ASSUME TableTypes, NEW d \in Docs, NEW s \in {"pending", "failed"}, Insert(d, s)
  PROVE  /\ TableTypes' /\ status[d] = "absent" /\ status' = [status EXCEPT ![d] = s]
         /\ \A e \in Docs : InTable(e)' <=> (InTable(e) \/ e = d)
<1>1. /\ status[d] = "absent" /\ status' = [status EXCEPT ![d] = s]
      /\ \E i \in 1 .. Len(table) + 1 : table' = InsertAt(table, i, d)
      /\ status \in [Docs -> Statuses] /\ table \in Seq(Docs) /\ Single(table)
      /\ \A e \in Docs : InTable(e) <=> status[e] \notin {"absent", "deleted"}
  BY DEF Insert, TableTypes
<1>2. PICK n \in Nat : Len(table) = n
  BY <1>1, LenProperties
<1>3. PICK i \in 1 .. n + 1 : table' = InsertAt(table, i, d)
  BY <1>1, <1>2
<1>4. /\ table' \in Seq(Docs) /\ Len(table') = n + 1
      /\ \A k \in 1 .. n + 1 :
           table'[k] = IF k < i THEN table[k] ELSE IF k = i THEN d ELSE table[k - 1]
  <2>1. table \in Seq(Docs) /\ i \in 1 .. Len(table) + 1
    BY <1>1, <1>2
  <2>2. InsertAt(table, i, d) \in Seq(Docs)
    BY <2>1, InsertedAt
  <2>3. Len(InsertAt(table, i, d)) = Len(table) + 1
    BY <2>1, InsertedAt
  <2>4. \A k \in 1 .. Len(table) + 1 : InsertAt(table, i, d)[k] =
           IF k < i THEN table[k] ELSE IF k = i THEN d ELSE table[k - 1]
    BY <2>1, InsertedAt
  <2>5. QED
    BY <1>2, <1>3, <2>2, <2>3, <2>4
<1>5. status' \in [Docs -> Statuses]
  BY <1>1 DEF Statuses
<1>6. ASSUME NEW e \in Docs
      PROVE  InTable(e)' <=> (InTable(e) \/ e = d)
  <2>1. ASSUME NEW k \in 1 .. n
        PROVE  \E l \in 1 .. n + 1 : table'[l] = table[k]
    <3>1. CASE k < i
      <4>1. k \in 1 .. n + 1
        OBVIOUS
      <4>2. QED
        BY <1>4, <3>1, <4>1
    <3>2. CASE ~(k < i)
      <4>1. k + 1 \in 1 .. n + 1 /\ ~(k + 1 < i) /\ k + 1 # i /\ (k + 1) - 1 = k
        BY <3>2
      <4>2. QED
        BY <1>4, <4>1
    <3>3. QED
      BY <3>1, <3>2
  <2>2. table'[i] = d /\ i \in 1 .. n + 1
    BY <1>4
  <2>3. ASSUME NEW l \in 1 .. n + 1
        PROVE  table'[l] = d \/ \E k \in 1 .. n : table'[l] = table[k]
    <3>1. /\ l < i => l \in 1 .. n
          /\ ~(l < i) /\ l # i => l - 1 \in 1 .. n
      OBVIOUS
    <3>2. QED
      BY <1>4, <3>1
  <2>4. QED
    BY <1>2, <1>4, <2>1, <2>2, <2>3 DEF InTable
<1>7. Single(table)'
  <2>1. \A k \in 1 .. n : table[k] # d
    BY <1>1, <1>2 DEF InTable
  <2>2. \A k, l \in 1 .. n : table[k] = table[l] => k = l
    BY <1>1, <1>2 DEF Single
  <2> DEFINE old(k) == IF k < i THEN k ELSE k - 1
  <2>3. \A k \in 1 .. n + 1 : k # i => old(k) \in 1 .. n /\ table'[k] = table[old(k)]
    <3>1. \A k \in 1 .. n + 1 : k # i => old(k) \in 1 .. n
      OBVIOUS
    <3>2. QED
      BY <1>4, <3>1
  <2>4. \A k, l \in 1 .. n + 1 : k # i /\ l # i /\ old(k) = old(l) => k = l
    OBVIOUS
  <2> HIDE DEF old
  <2>5. table'[i] = d
    BY <1>4
  <2>6. \A k, l \in 1 .. n + 1 : table'[k] = table'[l] => k = l
    BY <2>1, <2>2, <2>3, <2>4, <2>5
  <2>7. QED
    BY <1>4, <2>6 DEF Single
<1>8. \A e \in Docs : InTable(e)' <=> status'[e] \notin {"absent", "deleted"}
  BY <1>1, <1>6
<1>9. QED
  BY <1>1, <1>4, <1>5, <1>6, <1>7, <1>8 DEF TableTypes

LEMMA RowDeleted ==
  ASSUME TableTypes, NEW d \in Docs, InTable(d), DeleteRow(d)
  PROVE  /\ TableTypes' /\ status' = [status EXCEPT ![d] = "deleted"]
         /\ \A e \in Docs : InTable(e)' <=> (InTable(e) /\ e # d)
<1> DEFINE I == {i \in 1 .. Len(table) : table[i] # d}
<1>1. /\ status' = [status EXCEPT ![d] = "deleted"] /\ table' = Entries(table, I)
      /\ status \in [Docs -> Statuses] /\ table \in Seq(Docs) /\ Single(table)
      /\ \A e \in Docs : InTable(e) <=> status[e] \notin {"absent", "deleted"}
  <2>1. table \in Seq(Docs) /\ DOMAIN table = 1 .. Len(table)
    BY LenProperties DEF TableTypes
  <2>2. QED
    BY <2>1 DEF DeleteRow, TableTypes
<1>2. PICK n \in Nat : Len(table) = n
  BY <1>1, LenProperties
<1>3. PICK c \in Nat :
        /\ table' \in Seq(Docs) /\ Len(table') = c
        /\ \A k \in 1 .. c : /\ Place(I, k) \in I
                             /\ table'[k] = table[Place(I, k)]
        /\ \A k, l \in 1 .. c : Place(I, k) = Place(I, l) => k = l
        /\ \A i \in I : \E k \in 1 .. c : Place(I, k) = i
  <2>1. I \in SUBSET (1 .. Len(table))
    OBVIOUS
  <2> HIDE DEF I
  <2>2. table \in Seq(Docs)
    BY <1>1
  <2>3. Selection(table, Docs, I)
    BY <2>1, <2>2, EntriesProperties
  <2>4. table' = Entries(table, I)
    BY <1>1
  <2>5. QED
    BY <2>3, <2>4 DEF Selection
<1>4. \A i \in I : i \in 1 .. n /\ table[i] # d
  BY <1>2
<1>5. \A i \in 1 .. n : table[i] # d => i \in I
  BY <1>2
<1> HIDE DEF I
<1>6. ASSUME NEW e \in Docs
      PROVE  InTable(e)' <=> (InTable(e) /\ e # d)
  <2>1. InTable(e)' => InTable(e) /\ e # d
    BY <1>2, <1>3, <1>4 DEF InTable
  <2>2. InTable(e) /\ e # d => InTable(e)'
    BY <1>2, <1>3, <1>5 DEF InTable
  <2>3. QED
    BY <2>1, <2>2
<1>7. Single(table)'
  BY <1>1, <1>2, <1>3, <1>4 DEF Single
<1>8. status' \in [Docs -> Statuses]
  BY <1>1 DEF Statuses
<1>9. \A e \in Docs : InTable(e)' <=> status'[e] \notin {"absent", "deleted"}
  BY <1>1, <1>6
<1>10. QED
  BY <1>1, <1>3, <1>6, <1>7, <1>8, <1>9 DEF TableTypes

LEMMA ServedPage ==
  ASSUME TableTypes
  PROVE  /\ FirstPage \in Seq(Cards) /\ SingleCards(FirstPage)
         /\ \A i \in 1 .. Len(FirstPage) :
              LET c == FirstPage[i] IN
              /\ c.id \in Docs /\ c.status = status[c.id]
              /\ InTable(c.id) /\ OnFirstPage(c.id)
         /\ \A d \in Docs : OnFirstPage(d) =>
              Has(FirstPage, d) /\ HasCard(FirstPage, Card(d, status[d]))
<1>1. /\ status \in [Docs -> Statuses] /\ table \in Seq(Docs) /\ Single(table)
      /\ PageLimit \in Nat
  BY ConstantsAssumption DEF TableTypes
<1>2. PICK n \in Nat : Len(table) = n
  BY <1>1, LenProperties
<1>3. PICK m \in Nat : /\ Min({Len(table), PageLimit}) = m
                       /\ m <= n /\ m <= PageLimit
                       /\ \A i \in 1 .. n : i <= PageLimit => i \in 1 .. m
  <2>1. Min({n, PageLimit}) = IF n <= PageLimit THEN n ELSE PageLimit
    BY <1>1, LeastOfTwo
  <2>2. QED
    BY <1>1, <1>2, <2>1
<1>4. \A i \in 1 .. m : table[i] \in Docs /\ Card(table[i], status[table[i]]) \in Cards
  <2>1. \A i \in 1 .. m : i \in 1 .. n
    BY <1>3
  <2>2. \A i \in 1 .. m : table[i] \in Docs
    BY <1>1, <1>2, <2>1, ElementOfSeq
  <2>3. QED
    BY <1>1, <2>2 DEF Card, Cards
<1>5. /\ FirstPage \in Seq(Cards) /\ Len(FirstPage) = m
      /\ \A i \in 1 .. m : FirstPage[i] = Card(table[i], status[table[i]])
  <2>1. [i \in 1 .. m |-> Card(table[i], status[table[i]])] \in Seq(Cards)
    BY <1>4, IsASeq
  <2>2. FirstPage = [i \in 1 .. m |-> Card(table[i], status[table[i]])]
    BY <1>3 DEF FirstPage
  <2>3. QED
    BY <2>1, <2>2
<1>6. \A i \in 1 .. m : /\ i \in 1 .. n /\ i <= PageLimit
                        /\ FirstPage[i].id = table[i] /\ FirstPage[i].status = status[table[i]]
  BY <1>1, <1>3, <1>5 DEF Card
<1>7. SingleCards(FirstPage)
  BY <1>1, <1>2, <1>5, <1>6 DEF SingleCards, Single
<1>8. \A i \in 1 .. m : /\ FirstPage[i].id \in Docs /\ FirstPage[i].status = status[FirstPage[i].id]
                        /\ InTable(FirstPage[i].id) /\ OnFirstPage(FirstPage[i].id)
  BY <1>2, <1>4, <1>6 DEF InTable, OnFirstPage
<1>9. ASSUME NEW d \in Docs, OnFirstPage(d)
      PROVE  Has(FirstPage, d) /\ HasCard(FirstPage, Card(d, status[d]))
  <2>1. PICK i \in 1 .. m : table[i] = d
    BY <1>2, <1>3, <1>9 DEF OnFirstPage
  <2>2. QED
    BY <1>5, <1>6, <2>1 DEF Has, HasCard
<1>10. QED
  BY <1>5, <1>7, <1>8, <1>9

\* Nothing is beyond the first page if it holds all documents.
LEMMA AllOnFirstPage ==
  ASSUME TableTypes, FirstPageHoldsAll, NEW d, InTable(d)
  PROVE  OnFirstPage(d)
<1>1. /\ table \in Seq(Docs) /\ Single(table) /\ IsFiniteSet(Docs)
      /\ Cardinality(Docs) <= PageLimit /\ PageLimit \in Nat
  BY ConstantsAssumption DEF TableTypes, FirstPageHoldsAll
<1>2. PICK n \in Nat : Len(table) = n
  BY <1>1, LenProperties
<1>3. DOMAIN table = 1 .. n /\ IsFiniteSet(1 .. n) /\ Cardinality(1 .. n) = n
  BY <1>1, <1>2, LenProperties, FS_Interval
<1>4. table \in Injection(1 .. n, Docs)
  <2>1. table \in [1 .. n -> Docs]
    BY <1>1, <1>2, LenProperties
  <2>2. QED
    BY <1>1, <1>2, <2>1 DEF Injection, IsInjective, Single
<1>5. n <= Cardinality(Docs) /\ Cardinality(Docs) \in Nat
  BY <1>1, <1>3, <1>4, FS_Injection, FS_CardinalityType
<1>6. \A i \in 1 .. n : i <= PageLimit
  BY <1>1, <1>5
<1>7. QED
  BY <1>2, <1>6 DEF InTable, OnFirstPage

-----------------------------------------------------------------------------
(***************************************************************************)
(* The answers on their way.                                               *)
(***************************************************************************)
Counted(w) == {k \in 1 .. Len(w) : w[k].kind # "upload"}

LEMMA CountedType ==
  ASSUME NEW w \in Seq(Answers)
  PROVE  IsFiniteSet(Counted(w)) /\ Cardinality(Counted(w)) \in Nat
<1>1. Len(w) \in Nat
  BY LenProperties
<1>2. IsFiniteSet(1 .. Len(w)) /\ Counted(w) \in SUBSET (1 .. Len(w))
  BY <1>1, FS_Interval DEF Counted
<1>3. QED
  BY <1>2, FS_Subset, FS_CardinalityType

LEMMA AnswerAdded ==
  ASSUME NEW w \in Seq(Answers), NEW a \in Answers, NEW n \in Nat, Len(w) = n
  PROVE  /\ Append(w, a) \in Seq(Answers) /\ Len(Append(w, a)) = n + 1
         /\ \A k \in 1 .. n : Append(w, a)[k] = w[k]
         /\ Append(w, a)[n + 1] = a
         /\ Cardinality(Counted(Append(w, a))) =
              Cardinality(Counted(w)) + IF a.kind = "upload" THEN 0 ELSE 1
<1> DEFINE v == Append(w, a)
<1>1. /\ v \in Seq(Answers) /\ Len(v) = n + 1
      /\ \A k \in 1 .. n : v[k] = w[k]
      /\ v[n + 1] = a
  BY AppendProperties
<1> HIDE DEF v
<1>2. IsFiniteSet(Counted(w)) /\ Cardinality(Counted(w)) \in Nat
  BY CountedType
<1>3. \A k \in 1 .. n + 1 : k \in 1 .. n \/ k = n + 1
  OBVIOUS
<1>4. CASE a.kind = "upload"
  <2>1. Counted(v) = Counted(w)
    BY <1>1, <1>3, <1>4 DEF Counted
  <2>2. QED
    BY <1>1, <1>2, <1>4, <2>1 DEF v
<1>5. CASE a.kind # "upload"
  <2>1. n + 1 \in 1 .. n + 1 /\ n + 1 \notin 1 .. n /\ \A k \in 1 .. n : k \in 1 .. n + 1
    OBVIOUS
  <2>2. Counted(v) = Counted(w) \cup {n + 1}
    BY <1>1, <1>3, <1>5, <2>1 DEF Counted
  <2>3. n + 1 \notin Counted(w)
    BY <2>1 DEF Counted
  <2>4. Cardinality(Counted(v)) = Cardinality(Counted(w)) + 1
    BY <1>2, <2>2, <2>3, FS_AddElement
  <2>5. QED
    BY <1>1, <1>5, <2>4 DEF v
<1>6. QED
  BY <1>4, <1>5

LEMMA AnswerTaken ==
  ASSUME NEW w \in Seq(Answers), NEW n \in Nat, Len(w) = n, NEW i \in 1 .. n
  PROVE  /\ RemoveAt(w, i) \in Seq(Answers) /\ Len(RemoveAt(w, i)) = n - 1
         /\ \A k \in 1 .. n - 1 : RemoveAt(w, i)[k] = w[IF k < i THEN k ELSE k + 1]
         /\ Cardinality(Counted(RemoveAt(w, i))) <= Cardinality(Counted(w))
<1> DEFINE v == RemoveAt(w, i)
<1>1. /\ v \in Seq(Answers) /\ Len(v) = n - 1
      /\ \A k \in 1 .. n - 1 : v[k] = IF k < i THEN w[k] ELSE w[k + 1]
  BY RemovedAt
<1>2. \A k \in 1 .. n - 1 : v[k] = w[IF k < i THEN k ELSE k + 1]
  BY <1>1
<1> HIDE DEF v
<1> DEFINE old == [k \in Counted(v) |-> IF k < i THEN k ELSE k + 1]
<1>3. old \in Injection(Counted(v), Counted(w))
  <2>1. \A k \in 1 .. n - 1 : (IF k < i THEN k ELSE k + 1) \in 1 .. n
    OBVIOUS
  <2>2. \A k \in Counted(v) : (IF k < i THEN k ELSE k + 1) \in Counted(w)
    BY <1>1, <1>2, <2>1 DEF Counted
  <2>3. \A k, l \in 1 .. n - 1 :
          (IF k < i THEN k ELSE k + 1) = (IF l < i THEN l ELSE l + 1) => k = l
    OBVIOUS
  <2>4. \A k, l \in Counted(v) : old[k] = old[l] => k = l
    BY <1>1, <2>3 DEF Counted
  <2>5. QED
    BY <2>2, <2>4 DEF Injection, IsInjective
<1>4. Cardinality(Counted(v)) <= Cardinality(Counted(w))
  <2>1. IsFiniteSet(Counted(w))
    BY CountedType
  <2>2. QED
    BY <1>3, <2>1, FS_Injection
<1>5. QED
  BY <1>1, <1>2, <1>4 DEF v

LEMMA UnderWayIs ==
  ASSUME wire \in Seq(Answers)
  PROVE  UnderWay = Len(calls) + Cardinality(Counted(wire))
<1>1. DOMAIN wire = 1 .. Len(wire)
  BY LenProperties
<1>2. QED
  BY <1>1 DEF UnderWay, Counted

-----------------------------------------------------------------------------
(***************************************************************************)
(* What the server does to a document.                                     *)
(***************************************************************************)
ServerMoves ==
  \A d \in Docs :
    /\ status[d] # "absent" => status'[d] # "absent"
    /\ status[d] = "deleted" => status'[d] = "deleted"
    /\ status[d] \in Terminal => status'[d] \in {status[d], "deleted"} \/ d \in reopened'
    /\ InTable(d)' => InTable(d) \/ status[d] = "absent"
    /\ d \in unseen => d \in unseen'
    /\ d \in reopened => d \in reopened'

LEMMA InsertMoves ==
  ASSUME TableTypes, NEW d \in Docs, NEW s \in {"pending", "failed"}, Insert(d, s),
         unseen \subseteq unseen', reopened' = reopened
  PROVE  TableTypes' /\ ServerMoves /\ \A e \in Docs : InTable(e)' <=> (InTable(e) \/ e = d)
<1>1. /\ TableTypes' /\ status[d] = "absent" /\ status' = [status EXCEPT ![d] = s]
      /\ \A e \in Docs : InTable(e)' <=> (InTable(e) \/ e = d)
  BY RowInserted
<1>2. status \in [Docs -> Statuses]
  BY DEF TableTypes
<1>3. \A e \in Docs : e # d => status'[e] = status[e]
  BY <1>1, <1>2
<1>4. ServerMoves
  BY <1>1, <1>2, <1>3 DEF ServerMoves, Terminal
<1>5. QED
  BY <1>1, <1>4

LEMMA DeleteMoves ==
  ASSUME TableTypes, NEW d \in Docs, InTable(d), DeleteRow(d),
         unseen \subseteq unseen', reopened' = reopened
  PROVE  /\ TableTypes' /\ ServerMoves /\ status'[d] = "deleted"
         /\ \A e \in Docs : InTable(e)' <=> (InTable(e) /\ e # d)
<1>1. /\ TableTypes' /\ status' = [status EXCEPT ![d] = "deleted"]
      /\ \A e \in Docs : InTable(e)' <=> (InTable(e) /\ e # d)
  BY RowDeleted
<1>2. status \in [Docs -> Statuses]
  BY DEF TableTypes
<1>3. status'[d] = "deleted" /\ \A e \in Docs : e # d => status'[e] = status[e]
  BY <1>1, <1>2
<1>4. ServerMoves
  BY <1>1, <1>2, <1>3 DEF ServerMoves, Terminal
<1>5. QED
  BY <1>1, <1>3, <1>4

LEMMA ProcessMoves ==
  ASSUME TableTypes, NEW d \in Docs, Process(d) \/ ProcessAgain(d)
  PROVE  TableTypes' /\ ServerMoves /\ \A e \in Docs : InTable(e)' <=> InTable(e)
<1>1. /\ table' = table /\ unseen' = unseen /\ reopened \subseteq reopened'
      /\ \E s \in {"pending", "ready", "failed"} : status' = [status EXCEPT ![d] = s]
      /\ status[d] \in {"pending", "ready", "failed"}
      /\ status[d] \in Terminal => d \in reopened'
      /\ status \in [Docs -> Statuses]
  BY DEF Process, ProcessAgain, TableTypes, historyVars, Terminal
<1>2. \A e \in Docs : InTable(e)' <=> InTable(e)
  BY <1>1 DEF InTable
<1>3. /\ status' \in [Docs -> Statuses] /\ status'[d] \in {"pending", "ready", "failed"}
      /\ \A e \in Docs : e # d => status'[e] = status[e]
  BY <1>1 DEF Statuses
<1>4. ServerMoves
  BY <1>1, <1>2, <1>3 DEF ServerMoves, Terminal
<1>5. TableTypes'
  BY <1>1, <1>2, <1>3 DEF TableTypes, Single
<1>6. QED
  BY <1>2, <1>4, <1>5

LEMMA NothingMoves ==
  ASSUME TableTypes, UNCHANGED serverVars, unseen \subseteq unseen', reopened' = reopened
  PROVE  TableTypes' /\ ServerMoves /\ \A e \in Docs : InTable(e)' <=> InTable(e)
<1>1. status' = status /\ table' = table
  BY DEF serverVars
<1>2. \A e \in Docs : InTable(e)' <=> InTable(e)
  BY <1>1 DEF InTable
<1>3. QED
  BY <1>1, <1>2 DEF TableTypes, Single, ServerMoves

-----------------------------------------------------------------------------
(***************************************************************************)
(* Steps that take no answer: the answers on their way stay, and at most   *)
(* one comes after them.                                                   *)
(***************************************************************************)
Fresh(k) == k = Len(wire) + 1 /\ k = Len(wire')

Extension ==
  /\ Len(wire') \in {Len(wire), Len(wire) + 1}
  /\ \A k \in 1 .. Len(wire) : wire'[k] = wire[k]
  /\ UNCHANGED <<documents, activeId, interval, loaded>>
  /\ ServerMoves
  /\ \A d \in Docs :
       /\ InTable(d) => \/ InTable(d)' \/ Gone(d)'
                        \/ \E k \in 1 .. Len(wire') : Fresh(k) /\ Removes(k, d)'
       /\ InTable(d)' => InTable(d) \/ d \in unseen' \/ Has(batch'.accepted, d)
       /\ Has(batch.accepted, d) =>
            \/ d \in unseen' \/ Has(batch'.accepted, d)
            \/ \E k \in 1 .. Len(wire') : Fresh(k) /\ ~IsList(k)' /\ Has(wire'[k].cards, d)
       /\ d \in own' => d \in own /\ InTable(d)'
  /\ \A k \in 1 .. Len(wire') : Fresh(k) /\ IsList(k)' =>
       wire'[k].cards = FirstPage /\ UNCHANGED <<status, table, batch, own, unseen, reopened>>

LEMMA CardType ==
  ASSUME NEW cards \in Seq(Cards), NEW i \in 1 .. Len(cards)
  PROVE  cards[i].id \in Docs /\ cards[i].status \in Statuses
<1>1. cards[i] \in Cards
  BY ElementOfSeq
<1>2. QED
  BY <1>1 DEF Cards

LEMMA AnswerType ==
  ASSUME NEW w \in Seq(Answers), NEW k \in 1 .. Len(w)
  PROVE  /\ w[k].kind \in {"list", "upload", "delete"} /\ w[k].asked \in Ids
         /\ w[k].cards \in Seq(Cards)
<1>1. w[k] \in Answers
  BY ElementOfSeq
<1>2. QED
  BY <1>1 DEF Answers

\* A server that moves on makes no answer on its way untrue.
LEMMA AnswersKept ==
  ASSUME TypeInv, ServerMoves
  PROVE  /\ \A i \in 1 .. Len(batch.accepted) :
              batch.accepted[i].status = "pending" /\ status'[batch.accepted[i].id] # "absent"
         /\ \A k \in 1 .. Len(wire) :
              /\ wire[k].kind = "upload" => \A i \in 1 .. Len(wire[k].cards) :
                   wire[k].cards[i].status = "pending" /\ status'[wire[k].cards[i].id] # "absent"
              /\ wire[k].kind = "delete" => /\ Len(wire[k].cards) = 1
                                            /\ status'[wire[k].cards[1].id] = "deleted"
<1>1. wire \in Seq(Answers) /\ batch.accepted \in Seq(Cards)
  BY DEF TypeInv, NetworkTypes, Batches
<1>2. ASSUME NEW cards \in Seq(Cards), NEW i \in 1 .. Len(cards)
      PROVE  /\ status[cards[i].id] # "absent" => status'[cards[i].id] # "absent"
             /\ status[cards[i].id] = "deleted" => status'[cards[i].id] = "deleted"
  BY CardType DEF ServerMoves
<1>3. \A k \in 1 .. Len(wire) : wire[k].cards \in Seq(Cards)
  BY <1>1, AnswerType
<1>4. \A k \in 1 .. Len(wire) : Len(wire[k].cards) = 1 => 1 \in 1 .. Len(wire[k].cards)
  OBVIOUS
<1>5. QED
  BY <1>1, <1>2, <1>3, <1>4 DEF TypeInv, AnswersInv

\* Files of the open batch remain only while it is open.
LEMMA OpenBatch ==
  ASSUME TypeInv
  PROVE  /\ batch \in Batches /\ batch.left \in 0 .. MaxBatch /\ batch.accepted \in Seq(Cards)
         /\ batch.left > 0 => batch.open /\ batch.left - 1 \in 0 .. MaxBatch
<1>1. /\ batch \in Batches /\ batch.left \in 0 .. MaxBatch /\ batch.open \in BOOLEAN
      /\ batch.accepted \in Seq(Cards)
      /\ ~batch.open => batch.left = 0
  BY DEF TypeInv, NetworkTypes, Batches
<1>2. QED
  BY <1>1, ConstantsAssumption

LEMMA SameWire ==
  ASSUME TypeInv, TableTypes', ServerMoves, UNCHANGED <<calls, wire, pageVars, loaded>>,
         batch' = batch \/ (batch.left > 0 /\ batch' = [batch EXCEPT !.left = @ - 1]),
         own' \subseteq Docs, unseen' \subseteq Docs, reopened' \subseteq Docs,
         \A d \in own' : InTable(d)'
  PROVE  TypeInv'
<1>1. /\ calls' = calls /\ wire' = wire /\ documents' = documents /\ activeId' = activeId
      /\ interval' = interval /\ isUploading' = isUploading /\ loaded' = loaded
  BY DEF pageVars
<1>2. /\ batch' \in Batches /\ batch'.open = batch.open /\ batch'.accepted = batch.accepted
      /\ ~batch.open => batch'.left = 0
  BY OpenBatch DEF TypeInv, NetworkTypes, Batches
<1>3. NetworkTypes'
  BY <1>1, <1>2 DEF TypeInv, NetworkTypes, UnderWay
<1>4. PageTypes'
  BY <1>1 DEF TypeInv, PageTypes
<1>5. BatchInv' /\ AnswersInv'
  <2>1. BatchInv'
    BY <1>1, <1>2 DEF TypeInv, BatchInv
  <2>2. AnswersInv'
    BY <1>1, <1>2, AnswersKept DEF AnswersInv
  <2>3. QED
    BY <2>1, <2>2
<1>6. QED
  BY <1>2, <1>3, <1>4, <1>5 DEF TypeInv

LEMMA SameWireExtends ==
  ASSUME TypeInv, ServerMoves, UNCHANGED <<wire, pageVars, loaded>>,
         \A d \in Docs :
           /\ InTable(d) => InTable(d)' \/ Gone(d)'
           /\ InTable(d)' => InTable(d) \/ d \in unseen' \/ Has(batch'.accepted, d)
           /\ Has(batch.accepted, d) => d \in unseen' \/ Has(batch'.accepted, d)
           /\ d \in own' => d \in own /\ InTable(d)'
  PROVE  Extension
<1>1. /\ wire' = wire /\ documents' = documents /\ activeId' = activeId
      /\ interval' = interval /\ loaded' = loaded
  BY DEF pageVars
<1>2. \A k : ~Fresh(k)
  <2>1. Len(wire) \in Nat
    BY LenProperties DEF TypeInv, NetworkTypes
  <2>2. QED
    BY <1>1, <2>1 DEF Fresh
<1>3. QED
  BY <1>1, <1>2 DEF Extension

LEMMA StoreUnpublishedStep ==
  ASSUME TypeInv, NEW d \in Docs, StoreUnpublished(d)
  PROVE  TypeInv' /\ Extension
<1>1. /\ batch.left > 0 /\ Insert(d, "failed")
      /\ batch' = [batch EXCEPT !.left = @ - 1] /\ unseen' = unseen \cup {d}
      /\ UNCHANGED <<calls, wire, pageVars, loaded>> /\ own' = own /\ reopened' = reopened
  BY DEF StoreUnpublished
<1>2. /\ TableTypes /\ unseen \in SUBSET Docs /\ own \in SUBSET Docs /\ reopened \in SUBSET Docs
      /\ \A e \in own : InTable(e)
  BY DEF TypeInv, PageTypes, AnswersInv
<1>3. TableTypes' /\ ServerMoves /\ \A e \in Docs : InTable(e)' <=> (InTable(e) \/ e = d)
  BY <1>1, <1>2, InsertMoves
<1>4. TypeInv'
  BY <1>1, <1>2, <1>3, SameWire
<1>5. batch'.accepted = batch.accepted
  BY <1>1, OpenBatch DEF Batches
<1>6. Extension
  BY <1>1, <1>2, <1>3, <1>5, SameWireExtends
<1>7. QED
  BY <1>4, <1>6

LEMMA RejectFileStep ==
  ASSUME TypeInv, RejectFile
  PROVE  TypeInv' /\ Extension
<1>1. /\ batch.left > 0 /\ batch' = [batch EXCEPT !.left = @ - 1]
      /\ UNCHANGED <<serverVars, calls, wire, pageVars, loaded>> /\ own' = own /\ unseen' = unseen /\ reopened' = reopened
  BY DEF RejectFile, historyVars
<1>2. /\ TableTypes /\ unseen \in SUBSET Docs /\ own \in SUBSET Docs /\ reopened \in SUBSET Docs
      /\ \A e \in own : InTable(e)
  BY DEF TypeInv, PageTypes, AnswersInv
<1>3. TableTypes' /\ ServerMoves /\ \A e \in Docs : InTable(e)' <=> InTable(e)
  BY <1>1, <1>2, NothingMoves
<1>4. TypeInv'
  BY <1>1, <1>2, <1>3, SameWire
<1>5. batch'.accepted = batch.accepted
  BY <1>1, OpenBatch DEF Batches
<1>6. Extension
  BY <1>1, <1>2, <1>3, <1>5, SameWireExtends
<1>7. QED
  BY <1>4, <1>6

LEMMA ProcessStep ==
  ASSUME TypeInv, NEW d \in Docs, Process(d) \/ ProcessAgain(d)
  PROVE  TypeInv' /\ Extension
<1>1. /\ UNCHANGED <<calls, batch, wire, pageVars, loaded>> /\ own' = own /\ unseen' = unseen
      /\ reopened' \subseteq reopened \cup {d}
  BY DEF Process, ProcessAgain, networkVars, historyVars
<1>2. /\ TableTypes /\ unseen \in SUBSET Docs /\ own \in SUBSET Docs /\ reopened \in SUBSET Docs
      /\ \A e \in own : InTable(e)
  BY DEF TypeInv, PageTypes, AnswersInv
<1>3. TableTypes' /\ ServerMoves /\ \A e \in Docs : InTable(e)' <=> InTable(e)
  BY <1>2, ProcessMoves
<1>4. TypeInv'
  BY <1>1, <1>2, <1>3, SameWire
<1>5. Extension
  BY <1>1, <1>2, <1>3, SameWireExtends
<1>6. QED
  BY <1>4, <1>5

LEMMA OtherUploadStep ==
  ASSUME TypeInv, NEW d \in Docs, OtherUpload(d)
  PROVE  TypeInv' /\ Extension
<1>1. /\ Insert(d, "pending") /\ unseen' = unseen \cup {d}
      /\ UNCHANGED <<calls, batch, wire, pageVars, loaded>> /\ own' = own /\ reopened' = reopened
  BY DEF OtherUpload, networkVars
<1>2. /\ TableTypes /\ unseen \in SUBSET Docs /\ own \in SUBSET Docs /\ reopened \in SUBSET Docs
      /\ \A e \in own : InTable(e)
  BY DEF TypeInv, PageTypes, AnswersInv
<1>3. TableTypes' /\ ServerMoves /\ \A e \in Docs : InTable(e)' <=> (InTable(e) \/ e = d)
  BY <1>1, <1>2, InsertMoves
<1>4. TypeInv'
  BY <1>1, <1>2, <1>3, SameWire
<1>5. Extension
  BY <1>1, <1>2, <1>3, SameWireExtends
<1>6. QED
  BY <1>4, <1>5

LEMMA TableHas ==
  ASSUME TypeInv, NEW d
  PROVE  d \in ToSet(table) <=> InTable(d)
<1>1. DOMAIN table = 1 .. Len(table)
  BY LenProperties DEF TypeInv, TableTypes
<1>2. QED
  BY <1>1 DEF ToSet, InTable

LEMMA OtherDeleteStep ==
  ASSUME TypeInv, NEW d \in Docs, OtherDelete(d)
  PROVE  TypeInv' /\ Extension
<1>1. /\ InTable(d) /\ DeleteRow(d) /\ unseen' = unseen \cup {d} /\ own' = own \ {d}
      /\ reopened' = reopened /\ UNCHANGED <<calls, batch, wire, pageVars, loaded>>
  BY TableHas DEF OtherDelete, DeleteRow, networkVars
<1>2. /\ TableTypes /\ unseen \in SUBSET Docs /\ own \in SUBSET Docs /\ reopened \in SUBSET Docs
      /\ \A e \in own : InTable(e)
  BY DEF TypeInv, PageTypes, AnswersInv
<1>3. /\ TableTypes' /\ ServerMoves /\ status'[d] = "deleted"
      /\ \A e \in Docs : InTable(e)' <=> (InTable(e) /\ e # d)
  BY <1>1, <1>2, DeleteMoves
<1>4. TypeInv'
  BY <1>1, <1>2, <1>3, SameWire
<1>5. Gone(d)'
  BY <1>1, <1>3 DEF Gone
<1>6. Extension
  BY <1>1, <1>2, <1>3, <1>5, SameWireExtends
<1>7. QED
  BY <1>4, <1>6

LEMMA StoreFileStep ==
  ASSUME TypeInv, NEW d \in Docs, StoreFile(d)
  PROVE  TypeInv' /\ Extension
<1> DEFINE c == Card(d, "pending")
<1>1. /\ batch.left > 0 /\ Insert(d, "pending")
      /\ batch' = [batch EXCEPT !.left = @ - 1, !.accepted = Append(@, c)]
      /\ calls' = calls /\ wire' = wire /\ documents' = documents /\ activeId' = activeId
      /\ interval' = interval /\ isUploading' = isUploading /\ loaded' = loaded
      /\ own' = own /\ unseen' = unseen /\ reopened' = reopened
      /\ UNCHANGED pageVars
  BY DEF StoreFile, pageVars, historyVars
<1>2. /\ TableTypes /\ unseen \in SUBSET Docs /\ own \in SUBSET Docs /\ reopened \in SUBSET Docs
      /\ \A e \in own : InTable(e)
  BY DEF TypeInv, PageTypes, AnswersInv
<1>3. TableTypes' /\ ServerMoves /\ \A e \in Docs : InTable(e)' <=> (InTable(e) \/ e = d)
  BY <1>1, <1>2, InsertMoves
<1>4. c \in Cards /\ c.id = d /\ c.status = "pending" /\ status'[d] = "pending"
  <2>1. c \in Cards /\ c.id = d /\ c.status = "pending"
    BY DEF Card, Cards, Statuses
  <2>2. status'[d] = "pending"
    BY <1>1, <1>2 DEF Insert, TableTypes
  <2>3. QED
    BY <2>1, <2>2
<1> HIDE DEF c
<1>5. /\ batch' \in Batches /\ batch'.open = batch.open /\ batch'.accepted = Append(batch.accepted, c)
      /\ batch.open /\ batch.accepted \in Seq(Cards)
  <2>1. /\ batch \in Batches /\ batch.left - 1 \in 0 .. MaxBatch /\ batch.open
        /\ batch.accepted \in Seq(Cards)
    BY <1>1, OpenBatch
  <2>2. Append(batch.accepted, c) \in Seq(Cards)
    BY <1>4, <2>1, AppendProperties
  <2>3. QED
    BY <1>1, <2>1, <2>2 DEF Batches
<1>6. PICK n \in Nat : Len(batch.accepted) = n
  BY <1>5, LenProperties
<1>7. /\ Len(batch'.accepted) = n + 1
      /\ \A i \in 1 .. n : batch'.accepted[i] = batch.accepted[i]
      /\ batch'.accepted[n + 1] = c
  BY <1>4, <1>5, <1>6, AppendProperties
<1>8. \A i \in 1 .. n + 1 : i \in 1 .. n \/ i = n + 1
  OBVIOUS
<1>9. NetworkTypes' /\ PageTypes' /\ BatchInv'
  <2>1. NetworkTypes'
    BY <1>1, <1>5 DEF TypeInv, NetworkTypes, UnderWay
  <2>2. PageTypes'
    BY <1>1 DEF TypeInv, PageTypes
  <2>3. BatchInv'
    BY <1>1, <1>5 DEF TypeInv, BatchInv
  <2>4. QED
    BY <2>1, <2>2, <2>3
<1>10. AnswersInv'
  <2>1. \A i \in 1 .. n + 1 : /\ batch'.accepted[i].status = "pending"
                              /\ status'[batch'.accepted[i].id] # "absent"
    BY <1>3, <1>4, <1>6, <1>7, <1>8, AnswersKept
  <2>2. \A e \in own' : InTable(e)'
    BY <1>1, <1>2, <1>3
  <2>3. QED
    BY <1>1, <1>3, <1>7, <2>1, <2>2, AnswersKept DEF AnswersInv
<1>11. Extension
  <2>1. Has(batch'.accepted, d)
    <3>1. n + 1 \in 1 .. n + 1
      OBVIOUS
    <3>2. QED
      BY <1>4, <1>7, <3>1 DEF Has
  <2>2. \A e \in Docs : Has(batch.accepted, e) => Has(batch'.accepted, e)
    <3>1. \A i \in 1 .. n : i \in 1 .. n + 1
      OBVIOUS
    <3>2. QED
      BY <1>6, <1>7, <3>1 DEF Has
  <2>3. QED
    BY <1>1, <1>2, <1>3, <2>1, <2>2, SameWireExtends
<1>12. QED
  BY <1>3, <1>9, <1>10, <1>11 DEF TypeInv

\* The answer a comes after the n that are on their way.
Sent(n, a) ==
  /\ wire' \in Seq(Answers) /\ Len(wire') = n + 1
  /\ \A k \in 1 .. n : wire'[k] = wire[k]
  /\ wire'[n + 1] = a
  /\ \A k \in 1 .. n + 1 : k \in 1 .. n \/ k = n + 1
  /\ \A k \in 1 .. n : k \in 1 .. n + 1 /\ k # n + 1
  /\ n + 1 \in 1 .. n + 1
  /\ \A k : Fresh(k) <=> k = n + 1
  /\ UnderWay \in Nat /\ Len(calls) \in Nat
  /\ Len(calls') \in Nat =>
       UnderWay' = (UnderWay - Len(calls)) + Len(calls') + IF a.kind = "upload" THEN 0 ELSE 1
  /\ \A k \in 1 .. Len(wire') :
       /\ wire'[k].kind = "upload" => \A i \in 1 .. Len(wire'[k].cards) :
            wire'[k].cards[i].status = "pending" /\ status'[wire'[k].cards[i].id] # "absent"
       /\ wire'[k].kind = "delete" => /\ Len(wire'[k].cards) = 1
                                      /\ status'[wire'[k].cards[1].id] = "deleted"

LEMMA AnswerSent ==
  ASSUME TypeInv, ServerMoves, NEW a \in Answers, wire' = Append(wire, a),
         NEW n \in Nat, Len(wire) = n,
         a.kind = "upload" => \A i \in 1 .. Len(a.cards) :
           a.cards[i].status = "pending" /\ status'[a.cards[i].id] # "absent",
         a.kind = "delete" => Len(a.cards) = 1 /\ status'[a.cards[1].id] = "deleted"
  PROVE  Sent(n, a)
<1>1. wire \in Seq(Answers) /\ calls \in Seq(Ids)
  BY DEF TypeInv, NetworkTypes
<1>2. /\ wire' \in Seq(Answers) /\ Len(wire') = n + 1
      /\ \A k \in 1 .. n : wire'[k] = wire[k]
      /\ wire'[n + 1] = a
      /\ Cardinality(Counted(wire')) =
           Cardinality(Counted(wire)) + IF a.kind = "upload" THEN 0 ELSE 1
  BY <1>1, AnswerAdded
<1>3. /\ \A k \in 1 .. n + 1 : k \in 1 .. n \/ k = n + 1
      /\ \A k \in 1 .. n : k \in 1 .. n + 1 /\ k # n + 1
      /\ n + 1 \in 1 .. n + 1
  OBVIOUS
<1>4. \A k : Fresh(k) <=> k = n + 1
  BY <1>2 DEF Fresh
<1>5. /\ UnderWay = Len(calls) + Cardinality(Counted(wire))
      /\ UnderWay' = Len(calls') + Cardinality(Counted(wire'))
      /\ Len(calls) \in Nat /\ Cardinality(Counted(wire)) \in Nat
  <2>1. UnderWay = Len(calls) + Cardinality(Counted(wire)) /\ Cardinality(Counted(wire)) \in Nat
    BY <1>1, UnderWayIs, CountedType
  <2>2. UnderWay' = Len(calls') + Cardinality(Counted(wire'))
    <3>1. DOMAIN wire' = 1 .. Len(wire')
      BY <1>2, LenProperties
    <3>2. QED
      BY <3>1 DEF UnderWay, Counted
  <2>3. Len(calls) \in Nat
    BY <1>1, LenProperties
  <2>4. QED
    BY <2>1, <2>2, <2>3
<1>6. /\ UnderWay \in Nat
      /\ Len(calls') \in Nat => UnderWay' = (UnderWay - Len(calls)) + Len(calls') + IF a.kind = "upload" THEN 0 ELSE 1
  BY <1>2, <1>5
<1>7. \A k \in 1 .. Len(wire') :
        /\ wire'[k].kind = "upload" => \A i \in 1 .. Len(wire'[k].cards) :
             wire'[k].cards[i].status = "pending" /\ status'[wire'[k].cards[i].id] # "absent"
        /\ wire'[k].kind = "delete" => /\ Len(wire'[k].cards) = 1
                                       /\ status'[wire'[k].cards[1].id] = "deleted"
  BY <1>2, <1>3, AnswersKept
<1>8. QED
  BY <1>2, <1>3, <1>4, <1>5, <1>6, <1>7 DEF Sent

LEMMA ServeListStep ==
  ASSUME TypeInv, NEW i \in DOMAIN calls, ServeList(i)
  PROVE  TypeInv' /\ Extension
<1>1. PICK n \in Nat : Len(wire) = n
  BY LenProperties DEF TypeInv, NetworkTypes
<1>2. /\ i \in 1 .. Len(calls) /\ calls[i] \in Ids /\ calls \in Seq(Ids)
      /\ calls' = RemoveAt(calls, i)
      /\ wire' = Append(wire, Answer("list", calls[i], FirstPage))
      /\ status' = status /\ table' = table /\ batch' = batch
      /\ documents' = documents /\ activeId' = activeId /\ interval' = interval
      /\ isUploading' = isUploading /\ loaded' = loaded /\ own' = own /\ unseen' = unseen /\ reopened' = reopened
      /\ UNCHANGED serverVars
  <2>1. calls \in Seq(Ids)
    BY DEF TypeInv, NetworkTypes
  <2>2. i \in 1 .. Len(calls) /\ calls[i] \in Ids
    BY <2>1, LenProperties, ElementOfSeq
  <2>3. QED
    BY <2>1, <2>2 DEF ServeList, serverVars, pageVars, historyVars
<1>3. TableTypes /\ UNCHANGED serverVars /\ unseen \subseteq unseen' /\ reopened' = reopened
  BY <1>2 DEF TypeInv
<1>4. TableTypes' /\ ServerMoves /\ \A e \in Docs : InTable(e)' <=> InTable(e)
  BY <1>3, NothingMoves
<1>5. PICK a \in Answers : a = Answer("list", calls[i], FirstPage)
  BY <1>2, <1>3, ServedPage DEF Answer, Answers
<1>6. a.kind = "list" /\ a.cards = FirstPage /\ wire' = Append(wire, a)
  BY <1>2, <1>5 DEF Answer
<1>7. Sent(n, a)
  BY <1>1, <1>4, <1>6, AnswerSent
<1>8. calls' \in Seq(Ids) /\ Len(calls') = Len(calls) - 1 /\ UnderWay' = UnderWay
  <2>1. calls' \in Seq(Ids) /\ Len(calls') = Len(calls) - 1
    BY <1>2, RemovedAt
  <2>2. Len(calls') \in Nat
    BY <2>1, LenProperties
  <2>3. QED
    BY <1>6, <1>7, <2>1, <2>2 DEF Sent
<1>9. NetworkTypes' /\ PageTypes'
  BY <1>2, <1>7, <1>8 DEF TypeInv, NetworkTypes, PageTypes, Sent
<1>10. BatchInv'
  BY <1>1, <1>2, <1>6, <1>7 DEF TypeInv, BatchInv, Sent
<1>11. AnswersInv'
  <2>1. \A e \in own' : InTable(e)'
    BY <1>2, <1>4 DEF TypeInv, AnswersInv, PageTypes
  <2>2. QED
    BY <1>2, <1>4, <1>7, <2>1, AnswersKept DEF AnswersInv, Sent
<1>12. Extension
  BY <1>1, <1>2, <1>4, <1>6, <1>7 DEF Extension, TypeInv, AnswersInv, PageTypes, Sent
<1>13. QED
  BY <1>4, <1>9, <1>10, <1>11, <1>12 DEF TypeInv

LEMMA AnswerBatchStep ==
  ASSUME TypeInv, AnswerBatch
  PROVE  TypeInv' /\ Extension
<1>1. PICK n \in Nat : Len(wire) = n
  BY LenProperties DEF TypeInv, NetworkTypes
<1>2. /\ batch.open /\ batch \in Batches
      /\ wire' = Append(wire, Answer("upload", batch.asked, batch.accepted)) /\ batch' = NoBatch
      /\ status' = status /\ table' = table /\ calls' = calls
      /\ documents' = documents /\ activeId' = activeId /\ interval' = interval
      /\ isUploading' = isUploading /\ loaded' = loaded /\ own' = own /\ unseen' = unseen /\ reopened' = reopened
      /\ UNCHANGED serverVars
  BY OpenBatch DEF AnswerBatch, serverVars, pageVars, historyVars
<1>3. TableTypes /\ UNCHANGED serverVars /\ unseen \subseteq unseen' /\ reopened' = reopened
  BY <1>2 DEF TypeInv
<1>4. TableTypes' /\ ServerMoves /\ \A e \in Docs : InTable(e)' <=> InTable(e)
  BY <1>3, NothingMoves
<1>5. PICK a \in Answers : a = Answer("upload", batch.asked, batch.accepted)
  BY <1>2 DEF Answer, Answers, Batches
<1>6. a.kind = "upload" /\ a.cards = batch.accepted /\ wire' = Append(wire, a)
  BY <1>2, <1>5 DEF Answer
<1>7. \A j \in 1 .. Len(a.cards) : a.cards[j].status = "pending" /\ status'[a.cards[j].id] # "absent"
  BY <1>4, <1>6, AnswersKept
<1>8. Sent(n, a)
  BY <1>1, <1>4, <1>6, <1>7, AnswerSent
<1>9. UnderWay' = UnderWay
  BY <1>2, <1>6, <1>8 DEF Sent
<1>10. batch' \in Batches /\ batch'.left = 0 /\ batch'.accepted = <<>> /\ ~batch'.open
  BY <1>2, ConstantsAssumption DEF NoBatch, Batches, Ids
<1>11. NetworkTypes' /\ PageTypes'
  BY <1>2, <1>8, <1>9, <1>10 DEF TypeInv, NetworkTypes, PageTypes, Sent
<1>12. BatchInv'
  BY <1>1, <1>2, <1>6, <1>8, <1>10 DEF TypeInv, BatchInv, Sent
<1>13. AnswersInv'
  <2>1. \A e \in own' : InTable(e)'
    BY <1>2, <1>4 DEF TypeInv, AnswersInv, PageTypes
  <2>2. QED
    BY <1>8, <1>10, <2>1 DEF AnswersInv, Sent
<1>14. Extension
  <2>1. \A e \in Docs : Has(batch.accepted, e) =>
          \E k \in 1 .. Len(wire') : Fresh(k) /\ ~IsList(k)' /\ Has(wire'[k].cards, e)
    BY <1>6, <1>8 DEF IsList, Sent
  <2>2. \A k \in 1 .. Len(wire') : Fresh(k) => ~IsList(k)'
    BY <1>6, <1>8 DEF IsList, Sent
  <2>3. QED
    BY <1>1, <1>2, <1>4, <1>6, <1>8, <2>1, <2>2 DEF Extension, TypeInv, AnswersInv, PageTypes, Sent
<1>15. QED
  BY <1>4, <1>11, <1>12, <1>13, <1>14 DEF TypeInv

LEMMA DeleteStep ==
  ASSUME TypeInv, NEW d \in Docs, Delete(d)
  PROVE  TypeInv' /\ Extension
<1>1. PICK n \in Nat : Len(wire) = n
  BY LenProperties DEF TypeInv, NetworkTypes
<1>2. /\ InTable(d) /\ DeleteRow(d) /\ own' = own \ {d} /\ UnderWay < MaxUnderWay
      /\ wire' = Append(wire, Answer("delete", None, <<Card(d, "deleted")>>))
      /\ batch' = batch /\ calls' = calls
      /\ documents' = documents /\ activeId' = activeId /\ interval' = interval
      /\ isUploading' = isUploading /\ loaded' = loaded /\ unseen' = unseen
      /\ reopened' = reopened
  BY TableHas DEF Delete, DeleteRow, pageVars
<1>3. /\ TableTypes /\ unseen \subseteq unseen' /\ own \in SUBSET Docs
      /\ \A e \in own : InTable(e)
  BY <1>2 DEF TypeInv, AnswersInv, PageTypes
<1>4. /\ TableTypes' /\ ServerMoves /\ status'[d] = "deleted"
      /\ \A e \in Docs : InTable(e)' <=> (InTable(e) /\ e # d)
  BY <1>2, <1>3, DeleteMoves
<1>5. PICK a \in Answers : a = Answer("delete", None, <<Card(d, "deleted")>>)
  <2>1. Card(d, "deleted") \in Cards
    BY DEF Card, Cards, Statuses
  <2>2. <<Card(d, "deleted")>> \in Seq(Cards)
    BY <2>1
  <2>3. QED
    BY <2>2 DEF Answer, Answers, Ids
<1>6. /\ a.kind = "delete" /\ Len(a.cards) = 1 /\ a.cards[1].id = d /\ wire' = Append(wire, a)
  BY <1>2, <1>5 DEF Answer, Card
<1>7. Sent(n, a)
  BY <1>1, <1>4, <1>6, AnswerSent
<1>8. UnderWay' = UnderWay + 1 /\ UnderWay' <= MaxUnderWay
  BY <1>2, <1>6, <1>7, ConstantsAssumption DEF Sent
<1>9. NetworkTypes' /\ PageTypes'
  BY <1>2, <1>7, <1>8 DEF TypeInv, NetworkTypes, PageTypes, Sent
<1>10. BatchInv'
  BY <1>1, <1>2, <1>6, <1>7 DEF TypeInv, BatchInv, Sent
<1>11. \A e \in own' : e \in own /\ InTable(e)'
  BY <1>2, <1>3, <1>4
<1>12. AnswersInv'
  BY <1>2, <1>4, <1>7, <1>11, AnswersKept DEF AnswersInv, Sent
<1>13. Extension
  <2>1. \E k \in 1 .. Len(wire') : Fresh(k) /\ Removes(k, d)'
    BY <1>6, <1>7 DEF Removes, Sent
  <2>2. \A k \in 1 .. Len(wire') : Fresh(k) => ~IsList(k)'
    BY <1>6, <1>7 DEF IsList, Sent
  <2>3. QED
    BY <1>1, <1>2, <1>4, <1>7, <1>11, <2>1, <2>2 DEF Extension, Sent
<1>14. QED
  BY <1>4, <1>9, <1>10, <1>12, <1>13 DEF TypeInv

LEMMA TickStep ==
  ASSUME TypeInv, Tick
  PROVE  TypeInv' /\ Extension
<1>1. /\ interval # "off" /\ UnderWay < MaxUnderWay /\ calls' = Append(calls, interval)
      /\ UNCHANGED serverVars /\ batch' = batch /\ wire' = wire
      /\ documents' = documents /\ activeId' = activeId /\ interval' = interval
      /\ isUploading' = isUploading /\ loaded' = loaded /\ own' = own /\ unseen' = unseen /\ reopened' = reopened
      /\ UNCHANGED pageVars
  BY DEF Tick, pageVars, historyVars
<1>2. /\ TableTypes /\ unseen \subseteq unseen' /\ own \in SUBSET Docs
      /\ \A e \in own : InTable(e)
      /\ calls \in Seq(Ids) /\ interval \in Ids /\ wire \in Seq(Answers)
  BY <1>1 DEF TypeInv, AnswersInv, PageTypes, NetworkTypes
<1>3. TableTypes' /\ ServerMoves /\ \A e \in Docs : InTable(e)' <=> InTable(e)
  BY <1>1, <1>2, NothingMoves
<1>4. calls' \in Seq(Ids) /\ Len(calls') = Len(calls) + 1
  BY <1>1, <1>2, AppendProperties
<1>5. UnderWay' <= MaxUnderWay
  <2>1. UnderWay = Len(calls) + Cardinality(Counted(wire)) /\ Cardinality(Counted(wire)) \in Nat
    BY <1>2, UnderWayIs, CountedType
  <2>2. DOMAIN wire' = 1 .. Len(wire')
    BY <1>1, <1>2, LenProperties
  <2>3. UnderWay' = Len(calls') + Cardinality(Counted(wire))
    BY <1>1, <2>2 DEF UnderWay, Counted
  <2>4. Len(calls) \in Nat
    BY <1>2, LenProperties
  <2>5. QED
    BY <1>1, <1>4, <2>1, <2>3, <2>4, ConstantsAssumption
<1>6. NetworkTypes' /\ PageTypes'
  BY <1>1, <1>4, <1>5 DEF TypeInv, NetworkTypes, PageTypes
<1>7. BatchInv'
  BY <1>1 DEF TypeInv, BatchInv
<1>8. AnswersInv'
  BY <1>1, <1>2, <1>3, AnswersKept DEF AnswersInv
<1>9. Extension
  BY <1>1, <1>2, <1>3, SameWireExtends
<1>10. QED
  BY <1>3, <1>6, <1>7, <1>8, <1>9 DEF TypeInv

LEMMA SubmitBatchStep ==
  ASSUME TypeInv, SubmitBatch
  PROVE  TypeInv' /\ Extension
<1>1. /\ ~isUploading /\ isUploading' = TRUE
      /\ \E n \in 1 .. MaxBatch :
           batch' = [left |-> n, accepted |-> <<>>, asked |-> activeId, open |-> TRUE]
      /\ UNCHANGED serverVars /\ calls' = calls /\ wire' = wire
      /\ documents' = documents /\ activeId' = activeId /\ interval' = interval
      /\ loaded' = loaded /\ own' = own /\ unseen' = unseen /\ reopened' = reopened
  BY DEF SubmitBatch, historyVars
<1>2. /\ TableTypes /\ unseen \subseteq unseen' /\ reopened' = reopened /\ own \in SUBSET Docs
      /\ \A e \in own : InTable(e)
      /\ activeId \in Ids /\ wire \in Seq(Answers)
  BY <1>1 DEF TypeInv, AnswersInv, PageTypes, NetworkTypes
<1>3. TableTypes' /\ ServerMoves /\ \A e \in Docs : InTable(e)' <=> InTable(e)
  BY <1>1, <1>2, NothingMoves
<1>4. /\ ~batch.open /\ batch.accepted = <<>>
      /\ \A k \in 1 .. Len(wire) : wire[k].kind # "upload"
  BY <1>1 DEF TypeInv, BatchInv, NetworkTypes
<1>5. batch' \in Batches /\ batch'.open /\ batch'.accepted = <<>>
  <2>1. \A n \in 1 .. MaxBatch : n \in 0 .. MaxBatch
    BY ConstantsAssumption
  <2>2. QED
    BY <1>1, <1>2, <2>1 DEF Batches
<1>6. NetworkTypes' /\ PageTypes'
  BY <1>1, <1>5 DEF TypeInv, NetworkTypes, PageTypes, UnderWay
<1>7. BatchInv'
  BY <1>1, <1>4 DEF BatchInv
<1>8. AnswersInv'
  BY <1>1, <1>2, <1>3, <1>5, AnswersKept DEF AnswersInv
<1>9. Extension
  <2>1. \A k : ~Fresh(k)
    <3>1. Len(wire) \in Nat
      BY <1>2, LenProperties
    <3>2. QED
      BY <1>1, <3>1 DEF Fresh
  <2>2. \A e : ~Has(batch.accepted, e)
    BY <1>4 DEF Has
  <2>3. QED
    BY <1>1, <1>2, <1>3, <2>1, <2>2 DEF Extension
<1>10. QED
  BY <1>3, <1>6, <1>7, <1>8, <1>9 DEF TypeInv

LEMMA BatchFailsStep ==
  ASSUME TypeInv, BatchFails
  PROVE  TypeInv' /\ Extension
<1>1. /\ batch.open /\ batch' = NoBatch
      /\ unseen' = unseen \cup {c.id : c \in ToSet(batch.accepted)}
      /\ UNCHANGED serverVars /\ calls' = calls /\ wire' = wire
      /\ documents' = documents /\ activeId' = activeId /\ interval' = interval
      /\ isUploading' = isUploading /\ loaded' = loaded /\ own' = own /\ reopened' = reopened
      /\ UNCHANGED pageVars
  BY DEF BatchFails, pageVars
<1>2. /\ TableTypes /\ unseen \subseteq unseen' /\ reopened' = reopened /\ own \in SUBSET Docs
      /\ \A e \in own : InTable(e)
      /\ unseen \in SUBSET Docs /\ wire \in Seq(Answers)
  BY <1>1 DEF TypeInv, AnswersInv, PageTypes, NetworkTypes
<1>3. TableTypes' /\ ServerMoves /\ \A e \in Docs : InTable(e)' <=> InTable(e)
  BY <1>1, <1>2, NothingMoves
<1>4. batch' \in Batches /\ batch'.left = 0 /\ batch'.accepted = <<>> /\ ~batch'.open
  BY <1>1, ConstantsAssumption DEF NoBatch, Batches, Ids
<1>5. /\ batch.accepted \in Seq(Cards) /\ DOMAIN batch.accepted = 1 .. Len(batch.accepted)
      /\ \A i \in 1 .. Len(batch.accepted) : batch.accepted[i].id \in Docs
  BY OpenBatch, LenProperties, CardType
<1>6. unseen' \in SUBSET Docs /\ \A e \in Docs : Has(batch.accepted, e) => e \in unseen'
  BY <1>1, <1>2, <1>5 DEF ToSet, Has
<1>7. NetworkTypes' /\ PageTypes'
  BY <1>1, <1>4, <1>6 DEF TypeInv, NetworkTypes, PageTypes, UnderWay
<1>8. BatchInv'
  BY <1>1, <1>4 DEF TypeInv, BatchInv
<1>9. AnswersInv'
  BY <1>1, <1>2, <1>3, <1>4, AnswersKept DEF AnswersInv
<1>10. Extension
  BY <1>1, <1>2, <1>3, <1>6, SameWireExtends
<1>11. QED
  BY <1>3, <1>7, <1>8, <1>9, <1>10 DEF TypeInv

-----------------------------------------------------------------------------
(***************************************************************************)
(* Steps that take an answer.                                              *)
(***************************************************************************)
\* The place before the i-th answer is taken of the one that is then the k-th.
Before(i, k) == IF k < i THEN k ELSE k + 1

Taken(n, i) ==
  /\ i \in 1 .. n
  /\ wire' \in Seq(Answers) /\ Len(wire') = n - 1
  /\ \A k \in 1 .. n - 1 : /\ wire'[k] = wire[Before(i, k)]
                           /\ Before(i, k) \in 1 .. n /\ Before(i, k) # i
  /\ \A k, l \in 1 .. n - 1 : Before(i, k) = Before(i, l) => k = l

LEMMA AnswerArrives ==
  ASSUME TypeInv, NEW n \in Nat, Len(wire) = n, NEW i, NEW kind, Arrives(i, kind),
         UNCHANGED <<serverVars, calls, batch>>
  PROVE  /\ TableTypes' /\ NetworkTypes' /\ Taken(n, i)
         /\ wire[i].kind = kind /\ wire[i].asked \in Ids /\ wire[i].cards \in Seq(Cards)
<1>1. /\ i \in DOMAIN wire /\ wire' = RemoveAt(wire, i) /\ wire[i].kind = kind
      /\ UNCHANGED serverVars /\ calls' = calls /\ batch' = batch
  BY DEF Arrives
<1>2. wire \in Seq(Answers) /\ calls \in Seq(Ids) /\ UnderWay <= MaxUnderWay /\ TableTypes
  BY DEF TypeInv, NetworkTypes
<1>3. i \in 1 .. n /\ wire[i].asked \in Ids /\ wire[i].cards \in Seq(Cards)
  <2>1. i \in 1 .. n
    BY <1>1, <1>2, LenProperties
  <2>2. QED
    BY <1>2, <2>1, AnswerType
<1>4. /\ wire' \in Seq(Answers) /\ Len(wire') = n - 1
      /\ \A k \in 1 .. n - 1 : wire'[k] = wire[Before(i, k)]
      /\ Cardinality(Counted(wire')) <= Cardinality(Counted(wire))
  BY <1>1, <1>2, <1>3, AnswerTaken DEF Before
<1>5. /\ \A k \in 1 .. n - 1 : Before(i, k) \in 1 .. n /\ Before(i, k) # i
      /\ \A k, l \in 1 .. n - 1 : Before(i, k) = Before(i, l) => k = l
  BY <1>3 DEF Before
<1>6. Taken(n, i)
  BY <1>3, <1>4, <1>5 DEF Taken
<1>7. UnderWay' <= MaxUnderWay
  <2>1. UnderWay = Len(calls) + Cardinality(Counted(wire)) /\ Cardinality(Counted(wire)) \in Nat
    BY <1>2, UnderWayIs, CountedType
  <2>2. DOMAIN wire' = 1 .. Len(wire')
    BY <1>4, LenProperties
  <2>3. UnderWay' = Len(calls) + Cardinality(Counted(wire')) /\ Cardinality(Counted(wire')) \in Nat
    <3>1. Cardinality(Counted(wire')) \in Nat
      BY <1>4, CountedType
    <3>2. QED
      BY <1>1, <2>2, <3>1 DEF UnderWay, Counted
  <2>4. Len(calls) \in Nat
    BY <1>2, LenProperties
  <2>5. QED
    BY <1>2, <1>4, <2>1, <2>3, <2>4, ConstantsAssumption
<1>8. NetworkTypes'
  BY <1>1, <1>4, <1>7 DEF TypeInv, NetworkTypes
<1>9. TableTypes'
  BY <1>1, <1>2 DEF serverVars, TableTypes, Single, InTable
<1>10. QED
  BY <1>1, <1>3, <1>6, <1>8, <1>9

LEMMA AnswersLeft ==
  ASSUME TypeInv, NEW n \in Nat, Len(wire) = n, NEW i, Taken(n, i),
         UNCHANGED <<serverVars, batch>>, \A d \in own' : InTable(d),
         isUploading' = isUploading \/ (wire[i].kind = "upload" /\ isUploading' = FALSE)
  PROVE  BatchInv' /\ AnswersInv'
<1>1. status' = status /\ table' = table /\ batch' = batch
  BY DEF serverVars
<1>2. AnswersInv'
  BY <1>1 DEF TypeInv, AnswersInv, Taken, InTable
<1>3. BatchInv'
  <2>1. CASE isUploading' = isUploading
    BY <1>1, <2>1 DEF TypeInv, BatchInv, Taken
  <2>2. CASE wire[i].kind = "upload" /\ isUploading' = FALSE
    <3>1. ~batch.open /\ \A k \in 1 .. n : wire[k].kind = "upload" => k = i
      BY <2>2 DEF TypeInv, BatchInv, Taken
    <3>2. \A k \in 1 .. n - 1 : wire'[k].kind # "upload"
      BY <3>1 DEF Taken
    <3>3. QED
      BY <1>1, <3>1, <3>2 DEF BatchInv, Taken
  <2>3. QED
    BY <2>1, <2>2
<1>4. QED
  BY <1>2, <1>3

LEMMA FirstReadyIs ==
  ASSUME NEW cards \in Seq(Cards)
  PROVE  /\ FirstReady(cards) \in Ids
         /\ FirstReady(cards) # None => HasCard(cards, Card(FirstReady(cards), "ready"))
<1> DEFINE ready == {i \in DOMAIN cards : cards[i].status = "ready"}
<1>1. DOMAIN cards = 1 .. Len(cards)
  BY LenProperties
<1>2. CASE ready = {}
  BY <1>2 DEF FirstReady, Ids
<1>3. CASE ready # {}
  <2>1. Min(ready) \in ready
    <3>1. ready \subseteq Nat
      BY <1>1
    <3>2. QED
      BY <1>3, <3>1, LeastOf
  <2>2. PICK i \in 1 .. Len(cards) : i = Min(ready) /\ cards[i].status = "ready"
    BY <1>1, <2>1
  <2>3. cards[i] \in Cards
    BY ElementOfSeq
  <2>4. cards[i].id \in Docs /\ cards[i] = Card(cards[i].id, "ready")
    BY <2>2, <2>3 DEF Cards, Card
  <2>5. FirstReady(cards) = cards[i].id
    BY <1>3, <2>2 DEF FirstReady
  <2>6. QED
    BY <2>4, <2>5 DEF HasCard, Ids
<1>4. QED
  BY <1>2, <1>3

LEMMA CardsWithout ==
  ASSUME NEW cards \in Seq(Cards), NEW d
  PROVE  LET left == Entries(cards, {k \in DOMAIN cards : cards[k].id # d}) IN
         /\ left \in Seq(Cards) /\ ~Has(left, d)
         /\ SingleCards(cards) => SingleCards(left)
         /\ \A e : e # d => (Has(left, e) <=> Has(cards, e))
         /\ \A c : c.id # d /\ HasCard(cards, c) => HasCard(left, c)
<1> DEFINE I == {k \in 1 .. Len(cards) : cards[k].id # d}
           left == Entries(cards, I)
<1>1. I \in SUBSET (1 .. Len(cards)) /\ I = {k \in DOMAIN cards : cards[k].id # d}
  BY LenProperties
<1>2. \A i : i \in I <=> i \in 1 .. Len(cards) /\ cards[i].id # d
  OBVIOUS
<1> HIDE DEF I
<1>3. PICK n \in Nat :
        /\ left \in Seq(Cards) /\ Len(left) = n
        /\ \A k \in 1 .. n : Place(I, k) \in I /\ left[k] = cards[Place(I, k)]
        /\ \A k, l \in 1 .. n : Place(I, k) = Place(I, l) => k = l
        /\ \A i \in I : \E k \in 1 .. n : Place(I, k) = i
  <2>1. I \in SUBSET (1 .. Len(cards))
    BY <1>1
  <2>2. Selection(cards, Cards, I)
    BY <2>1, EntriesProperties
  <2>3. QED
    BY <2>2 DEF Selection
<1> HIDE DEF left
<1>4. \A k \in 1 .. n : \E i \in 1 .. Len(cards) : i = Place(I, k) /\ cards[i].id # d /\ left[k] = cards[i]
  BY <1>2, <1>3
<1>5. \A i \in 1 .. Len(cards) : cards[i].id # d => \E k \in 1 .. n : left[k] = cards[i]
  BY <1>2, <1>3
<1>6. ~Has(left, d) /\ \A e : e # d => (Has(left, e) <=> Has(cards, e))
  <2>1. ~Has(left, d)
    BY <1>3, <1>4 DEF Has
  <2>2. ASSUME NEW e, e # d, Has(left, e)
        PROVE  Has(cards, e)
    BY <1>3, <1>4, <2>2 DEF Has
  <2>3. ASSUME NEW e, e # d, Has(cards, e)
        PROVE  Has(left, e)
    BY <1>3, <1>5, <2>3 DEF Has
  <2>4. QED
    BY <2>1, <2>2, <2>3
<1>7. \A c : c.id # d /\ HasCard(cards, c) => HasCard(left, c)
  BY <1>3, <1>5 DEF HasCard
<1>8. SingleCards(cards) => SingleCards(left)
  BY <1>3, <1>4 DEF SingleCards
<1>9. QED
  BY <1>1, <1>3, <1>6, <1>7, <1>8 DEF left

LEMMA ListReturnsStep ==
  ASSUME TypeInv, NEW i, ListReturns(i)
  PROVE  TypeInv'
<1>1. PICK n \in Nat : Len(wire) = n
  BY LenProperties DEF TypeInv, NetworkTypes
<1>2. /\ Arrives(i, "list") /\ UNCHANGED <<serverVars, calls, batch>>
      /\ status' = status /\ table' = table
      /\ documents' = wire[i].cards
      /\ activeId' = IF HasActive(wire[i].asked, wire[i].cards) THEN activeId ELSE FirstReady(wire[i].cards)
      /\ interval' = IF Settled(wire[i].cards) THEN "off" ELSE interval
      /\ loaded' = TRUE /\ isUploading' = isUploading /\ own' = own /\ unseen' = unseen /\ reopened' = reopened
  BY DEF ListReturns, serverVars
<1>3. /\ TableTypes' /\ NetworkTypes' /\ Taken(n, i)
      /\ wire[i].kind = "list" /\ wire[i].asked \in Ids /\ wire[i].cards \in Seq(Cards)
  BY <1>1, <1>2, AnswerArrives
<1>4. PageTypes'
  BY <1>2, <1>3, FirstReadyIs DEF TypeInv, PageTypes
<1>5. \A d \in own' : InTable(d)
  BY <1>2 DEF TypeInv, AnswersInv
<1>6. BatchInv' /\ AnswersInv'
  BY <1>1, <1>2, <1>3, <1>5, AnswersLeft
<1>7. QED
  BY <1>3, <1>4, <1>6 DEF TypeInv

LEMMA UploadReturnsStep ==
  ASSUME TypeInv, NEW i, UploadReturns(i)
  PROVE  TypeInv'
<1>1. PICK n \in Nat : Len(wire) = n
  BY LenProperties DEF TypeInv, NetworkTypes
<1>2. /\ Arrives(i, "upload") /\ UNCHANGED <<serverVars, calls, batch>>
      /\ isUploading' = FALSE
      /\ \/ documents' = documents /\ interval' = interval /\ activeId' = activeId
         \/ /\ wire[i].cards # <<>>
            /\ documents' = wire[i].cards \o documents /\ interval' = wire[i].asked
            /\ activeId' = IF Head(wire[i].cards).status = "ready" THEN Head(wire[i].cards).id ELSE activeId
      /\ own' = own \cup ({c.id : c \in ToSet(wire[i].cards)} \cap ToSet(table))
      /\ loaded' = loaded /\ unseen' = unseen /\ reopened' = reopened
  BY DEF UploadReturns
<1>3. /\ TableTypes' /\ NetworkTypes' /\ Taken(n, i)
      /\ wire[i].kind = "upload" /\ wire[i].asked \in Ids /\ wire[i].cards \in Seq(Cards)
  BY <1>1, <1>2, AnswerArrives
<1>4. \A d \in own' : InTable(d)
  BY <1>2, TableHas DEF TypeInv, AnswersInv
<1>5. PageTypes'
  <2>1. documents \in Seq(Cards) /\ activeId \in Ids /\ interval \in Ids \cup {"off"} /\ loaded \in BOOLEAN
        /\ unseen \in SUBSET Docs /\ own \in SUBSET Docs /\ reopened \in SUBSET Docs
    BY DEF TypeInv, PageTypes
  <2>2. documents' \in Seq(Cards)
    BY <1>2, <1>3, <2>1, ConcatProperties
  <2>3. wire[i].cards # <<>> => Head(wire[i].cards).id \in Docs
    <3>1. wire[i].cards # <<>> => Head(wire[i].cards) \in Cards
      BY <1>3, HeadTailProperties
    <3>2. QED
      BY <3>1 DEF Cards
  <2>4. own' \in SUBSET Docs
    <3>1. ToSet(table) \in SUBSET Docs
      BY DEF ToSet, TypeInv, TableTypes
    <3>2. QED
      BY <1>2, <2>1, <3>1
  <2>5. QED
    BY <1>2, <1>3, <2>1, <2>2, <2>3, <2>4 DEF PageTypes, Ids
<1>6. BatchInv' /\ AnswersInv'
  BY <1>1, <1>2, <1>3, <1>4, AnswersLeft
<1>7. QED
  BY <1>3, <1>5, <1>6 DEF TypeInv

LEMMA RemovalReturnsStep ==
  ASSUME TypeInv, NEW i, RemovalReturns(i)
  PROVE  TypeInv'
<1>1. PICK n \in Nat : Len(wire) = n
  BY LenProperties DEF TypeInv, NetworkTypes
<1>2. PICK d : d = Head(wire[i].cards).id
  OBVIOUS
<1>3. /\ Arrives(i, "delete") /\ UNCHANGED <<serverVars, calls, batch>>
      /\ documents' = Entries(documents, {k \in DOMAIN documents : documents[k].id # d})
      /\ activeId' = IF activeId = d THEN None ELSE activeId
      /\ interval' = interval /\ isUploading' = isUploading
      /\ loaded' = loaded /\ own' = own /\ unseen' = unseen /\ reopened' = reopened
  BY <1>2 DEF RemovalReturns, historyVars
<1>4. /\ TableTypes' /\ NetworkTypes' /\ Taken(n, i)
      /\ wire[i].kind = "delete" /\ wire[i].asked \in Ids /\ wire[i].cards \in Seq(Cards)
  BY <1>1, <1>3, AnswerArrives
<1>5. documents' \in Seq(Cards)
  BY <1>3, CardsWithout DEF TypeInv, PageTypes
<1>6. PageTypes'
  BY <1>3, <1>5 DEF TypeInv, PageTypes, Ids
<1>7. \A e \in own' : InTable(e)
  BY <1>3 DEF TypeInv, AnswersInv
<1>8. BatchInv' /\ AnswersInv'
  BY <1>1, <1>3, <1>4, <1>7, AnswersLeft
<1>9. QED
  BY <1>4, <1>6, <1>8 DEF TypeInv

LEMMA ListFailsStep ==
  ASSUME TypeInv, NEW i, ListFails(i)
  PROVE  TypeInv'
<1>1. PICK n \in Nat : Len(wire) = n
  BY LenProperties DEF TypeInv, NetworkTypes
<1>2. /\ Arrives(i, "list") /\ UNCHANGED <<serverVars, calls, batch>>
      /\ documents' = documents /\ activeId' = activeId
      /\ interval' = interval /\ isUploading' = isUploading
      /\ loaded' = loaded /\ own' = own /\ unseen' = unseen /\ reopened' = reopened
  BY DEF ListFails, pageVars, historyVars
<1>3. TableTypes' /\ NetworkTypes' /\ Taken(n, i)
  BY <1>1, <1>2, AnswerArrives
<1>4. PageTypes'
  BY <1>2 DEF TypeInv, PageTypes
<1>5. \A e \in own' : InTable(e)
  BY <1>2 DEF TypeInv, AnswersInv
<1>6. BatchInv' /\ AnswersInv'
  BY <1>1, <1>2, <1>3, <1>5, AnswersLeft
<1>7. QED
  BY <1>3, <1>4, <1>6 DEF TypeInv

LEMMA ReloadStep ==
  ASSUME TypeInv, Reload
  PROVE  TypeInv'
<1>1. /\ calls' = <<activeId>> /\ batch' = NoBatch /\ wire' = <<>> /\ documents' = <<>>
      /\ interval' = "off" /\ isUploading' = FALSE
      /\ loaded' = FALSE /\ own' = {} /\ unseen' = {} /\ reopened' = {}
      /\ status' = status /\ table' = table /\ activeId' = activeId
  BY DEF Reload, serverVars
<1>2. activeId \in Ids
  BY DEF TypeInv, PageTypes
<1>3. /\ calls' \in Seq(Ids) /\ Len(calls') = 1 /\ wire' \in Seq(Answers) /\ Len(wire') = 0
      /\ documents' \in Seq(Cards)
  BY <1>1, <1>2
<1>4. batch' \in Batches /\ batch'.left = 0 /\ batch'.accepted = <<>> /\ ~batch'.open
  BY <1>1, ConstantsAssumption DEF NoBatch, Batches, Ids
<1>5. UnderWay' <= MaxUnderWay
  <2>1. Cardinality({k \in DOMAIN wire' : wire'[k].kind # "upload"}) = 0
    <3>1. {k \in DOMAIN wire' : wire'[k].kind # "upload"} = {}
      BY <1>1, <1>3
    <3>2. QED
      BY <3>1, FS_EmptySet
  <2>2. UnderWay' = 1
    BY <1>3, <2>1 DEF UnderWay
  <2>3. QED
    BY <2>2, ConstantsAssumption
<1>6. NetworkTypes' /\ PageTypes'
  <2>1. NetworkTypes'
    BY <1>3, <1>4, <1>5 DEF NetworkTypes
  <2>2. PageTypes'
    BY <1>1, <1>2, <1>3 DEF PageTypes
  <2>3. QED
    BY <2>1, <2>2
<1>7. BatchInv' /\ AnswersInv'
  BY <1>1, <1>3, <1>4 DEF BatchInv, AnswersInv
<1>8. TableTypes'
  BY <1>1 DEF TypeInv, TableTypes, InTable, Single
<1>9. QED
  BY <1>6, <1>7, <1>8 DEF TypeInv

-----------------------------------------------------------------------------
(***************************************************************************)
(* The type invariant, whatever order answers arrive in.                   *)
(***************************************************************************)
Arrival ==
  \E i : ListReturns(i) \/ UploadReturns(i) \/ RemovalReturns(i) \/ ListFails(i)

LEMMA StutterStep ==
  ASSUME TypeInv, UNCHANGED vars
  PROVE  TypeInv' /\ Extension
<1>1. /\ UNCHANGED <<calls, batch, wire, pageVars, loaded>> /\ own' = own /\ unseen' = unseen /\ reopened' = reopened
      /\ UNCHANGED serverVars
  BY DEF vars, networkVars, historyVars
<1>2. /\ TableTypes /\ unseen \in SUBSET Docs /\ own \in SUBSET Docs /\ reopened \in SUBSET Docs
      /\ \A e \in own : InTable(e)
  BY DEF TypeInv, PageTypes, AnswersInv
<1>3. TableTypes' /\ ServerMoves /\ \A e \in Docs : InTable(e)' <=> InTable(e)
  BY <1>1, <1>2, NothingMoves
<1>4. TypeInv'
  BY <1>1, <1>2, <1>3, SameWire
<1>5. Extension
  BY <1>1, <1>2, <1>3, SameWireExtends
<1>6. QED
  BY <1>4, <1>5

LEMMA EveryStep ==
  ASSUME TypeInv, [Next]_vars
  PROVE  TypeInv' /\ (Extension \/ Arrival \/ Reload)
<1>1. CASE ListServed
  BY <1>1, ServeListStep DEF ListServed
<1>2. CASE AnswerBatch
  BY <1>2, AnswerBatchStep
<1>3. CASE StoreBatch
  BY <1>3, StoreFileStep, StoreUnpublishedStep, RejectFileStep DEF StoreBatch
<1>4. CASE Processing
  BY <1>4, ProcessStep DEF Processing
<1>5. CASE \E d \in Docs : OtherUpload(d) \/ OtherDelete(d)
  BY <1>5, OtherUploadStep, OtherDeleteStep
<1>6. CASE Tick
  BY <1>6, TickStep
<1>7. CASE SubmitBatch
  BY <1>7, SubmitBatchStep
<1>8. CASE \E d \in Docs : Delete(d)
  BY <1>8, DeleteStep
<1>9. CASE ListReturned \/ OtherReturned \/ \E i \in DOMAIN wire : ListFails(i)
  <2>1. Arrival
    BY <1>9 DEF Arrival, ListReturned, OtherReturned
  <2>2. TypeInv'
    BY <2>1, ListReturnsStep, UploadReturnsStep, RemovalReturnsStep, ListFailsStep DEF Arrival
  <2>3. QED
    BY <2>1, <2>2
<1>10. CASE BatchFails
  BY <1>10, BatchFailsStep
<1>11. CASE Reload
  BY <1>11, ReloadStep
<1>12. CASE UNCHANGED vars
  BY <1>12, StutterStep
<1>13. QED
  BY <1>1, <1>2, <1>3, <1>4, <1>5, <1>6, <1>7, <1>8, <1>9, <1>10, <1>11, <1>12 DEF Next

LEMMA InitTypes ==
  ASSUME Init
  PROVE  TypeInv
<1>1. /\ status = [d \in Docs |-> "absent"] /\ table = <<>>
      /\ calls = <<None>> /\ batch = NoBatch /\ wire = <<>>
      /\ documents = <<>> /\ activeId = None /\ interval = "off" /\ isUploading = FALSE
      /\ loaded = FALSE /\ own = {} /\ unseen = {} /\ reopened = {}
  BY DEF Init
<1>2. /\ calls \in Seq(Ids) /\ Len(calls) = 1 /\ wire \in Seq(Answers) /\ Len(wire) = 0
      /\ documents \in Seq(Cards) /\ table \in Seq(Docs) /\ Len(table) = 0
  <2>1. None \in Ids
    BY DEF Ids
  <2>2. QED
    BY <1>1, <2>1
<1>3. TableTypes
  BY <1>1, <1>2 DEF TableTypes, Statuses, Single, InTable
<1>4. /\ batch \in Batches /\ batch.left = 0 /\ batch.accepted = <<>> /\ ~batch.open
  BY <1>1, ConstantsAssumption DEF NoBatch, Batches, Ids
<1>5. UnderWay <= MaxUnderWay
  <2>1. Cardinality({k \in DOMAIN wire : wire[k].kind # "upload"}) = 0
    <3>1. {k \in DOMAIN wire : wire[k].kind # "upload"} = {}
      BY <1>1, <1>2
    <3>2. QED
      BY <3>1, FS_EmptySet
  <2>2. UnderWay = 1
    BY <1>2, <2>1 DEF UnderWay
  <2>3. QED
    BY <2>2, ConstantsAssumption
<1>6. NetworkTypes
  BY <1>2, <1>4, <1>5 DEF NetworkTypes
<1>7. PageTypes
  BY <1>1, <1>2 DEF PageTypes, Ids
<1>8. BatchInv /\ AnswersInv
  BY <1>1, <1>2, <1>4 DEF BatchInv, AnswersInv
<1>9. QED
  BY <1>3, <1>6, <1>7, <1>8 DEF TypeInv

LEMMA TypesHold == Spec => []TypeInv
<1>1. Init => TypeInv
  BY InitTypes
<1>2. TypeInv /\ [Next]_vars => TypeInv'
  BY EveryStep
<1>3. QED
  BY <1>1, <1>2, PTL DEF Spec

LEMMA SingleCount ==
  ASSUME NEW S, NEW s \in Seq(S), Single(s)
  PROVE  Len(s) = Cardinality(ToSet(s))
<1>1. PICK n \in Nat : Len(s) = n
  BY LenProperties
<1>2. DOMAIN s = 1 .. n /\ IsFiniteSet(1 .. n) /\ Cardinality(1 .. n) = n
  BY <1>1, LenProperties, FS_Interval
<1>3. s \in Surjection(1 .. n, ToSet(s))
  BY <1>1, <1>2 DEF ToSet, Surjection
<1>4. s \in Injection(1 .. n, ToSet(s))
  BY <1>1, <1>2 DEF ToSet, Injection, IsInjective, Single
<1>5. QED
  BY <1>1, <1>2, <1>3, <1>4, FS_Surjection, FS_Injection

\* Kinds of the variables, for any number of documents, and whatever answers overtake.
THEOREM TypeCorrect == Spec => []TypeOK
<1>1. TypeInv => TypeOK
  <2> SUFFICES ASSUME TypeInv
               PROVE  TypeOK
    OBVIOUS
  <2>1. /\ status \in [Docs -> Statuses] /\ table \in Seq(Docs) /\ Single(table)
        /\ calls \in Seq(Ids) /\ documents \in Seq(Cards) /\ batch \in Batches
    BY DEF TypeInv, TableTypes, NetworkTypes, PageTypes
  <2>2. ToSet(table) = {d \in Docs : status[d] \notin {"absent", "deleted"}}
    <3>1. \A d : d \in ToSet(table) => d \in Docs
      BY <2>1 DEF ToSet
    <3>2. \A d \in Docs : d \in ToSet(table) <=> status[d] \notin {"absent", "deleted"}
      BY TableHas DEF TypeInv, TableTypes
    <3>3. QED
      BY <3>1, <3>2
  <2>3. Len(table) = Cardinality(ToSet(table))
    BY <2>1, SingleCount
  <2>4. ToSet(calls) \subseteq Docs \cup {None}
    BY <2>1 DEF ToSet, Ids
  <2>5. ShownIds \subseteq Docs
    <3>1. \A c \in ToSet(documents) : c \in Cards
      BY <2>1 DEF ToSet
    <3>2. QED
      BY <3>1 DEF ShownIds, Cards
  <2>6. batch.left \in 0 .. MaxBatch
    BY <2>1 DEF Batches
  <2>7. QED
    BY <2>1, <2>2, <2>3, <2>4, <2>5, <2>6
       DEF TypeOK, TypeInv, NetworkTypes, PageTypes, BatchInv, Statuses, Ids
<1>2. QED
  BY <1>1, TypesHold, PTL

-----------------------------------------------------------------------------
(***************************************************************************)
(* What lists say, step by step.                                           *)
(***************************************************************************)

\* An extension, with the number of answers named.
Extended(n) ==
  /\ n \in Nat /\ Len(wire) = n /\ Len(wire') \in {n, n + 1}
  /\ \A k \in 1 .. n : k \in 1 .. Len(wire') /\ wire'[k] = wire[k]
  /\ \A k \in 1 .. Len(wire') : k \in 1 .. n \/ (k = n + 1 /\ Fresh(k))
  /\ \A k \in 1 .. Len(wire') : Fresh(k) => k = n + 1

LEMMA ExtendedWire ==
  ASSUME TypeInv, Extension
  PROVE  \E n \in Nat : Extended(n)
<1>1. PICK n \in Nat : Len(wire) = n
  BY LenProperties DEF TypeInv, NetworkTypes
<1>2. Len(wire') \in {n, n + 1} /\ \A k \in 1 .. n : wire'[k] = wire[k]
  BY <1>1 DEF Extension
<1>3. \A k \in 1 .. n : k \in 1 .. Len(wire')
  BY <1>2
<1>4. \A k \in 1 .. Len(wire') : k \in 1 .. n \/ (k = n + 1 /\ k = Len(wire'))
  BY <1>2
<1>5. QED
  BY <1>1, <1>2, <1>3, <1>4 DEF Extended, Fresh

\* Removals and documents gone stay so.
LEMMA RemovedStays ==
  ASSUME TypeInv, ServerMoves, NEW d \in Docs
  PROVE  /\ Gone(d) => Gone(d)' /\ ~InTable(d)
         /\ \A l \in 1 .. Len(wire) : Removes(l, d) => status[d] = "deleted" /\ ~InTable(d)
         /\ status[d] = "deleted" => status'[d] = "deleted"
<1>1. status[d] = "deleted" => ~InTable(d) /\ status'[d] = "deleted"
  BY DEF TypeInv, TableTypes, ServerMoves
<1>2. Gone(d) => Gone(d)' /\ ~InTable(d)
  BY <1>1 DEF Gone, ServerMoves
<1>3. \A l \in 1 .. Len(wire) : Removes(l, d) => status[d] = "deleted"
  BY DEF Removes, TypeInv, AnswersInv
<1>4. QED
  BY <1>1, <1>2, <1>3

LEMMA CardStays ==
  ASSUME TypeInv, TypeInv', Extension, CardInv
  PROVE  CardInv'
<1>1. PICK n \in Nat : Extended(n)
  BY ExtendedWire
<1>2. ServerMoves /\ TableTypes /\ TableTypes' /\ wire \in Seq(Answers)
  BY DEF Extension, TypeInv, NetworkTypes
<1> SUFFICES ASSUME NEW k \in 1 .. Len(wire'), IsList(k)', NEW c \in Cards, HasCard(wire'[k].cards, c)
             PROVE  /\ c.status \in {"pending", "ready", "failed"}
                    /\ InTable(c.id)' => c.status \in {status'[c.id], "pending"} \/ c.id \in reopened'
                    /\ ~InTable(c.id)' => Gone(c.id)' \/ \E l \in k + 1 .. Len(wire') : Removes(l, c.id)'
  BY DEF CardInv
<1>3. CASE k \in 1 .. n
  <2>1. wire'[k] = wire[k] /\ IsList(k) /\ HasCard(wire[k].cards, c) /\ Len(wire) = n
    BY <1>1, <1>3 DEF Extended, IsList
  <2>3. /\ c.id \in Docs /\ c.status \in {"pending", "ready", "failed"}
        /\ InTable(c.id) => c.status \in {status[c.id], "pending"} \/ c.id \in reopened
        /\ ~InTable(c.id) => Gone(c.id) \/ \E l \in k + 1 .. n : Removes(l, c.id)
    BY <1>3, <2>1 DEF CardInv, Cards
  <2>4. /\ Gone(c.id) => Gone(c.id)' /\ ~InTable(c.id)
        /\ \A l \in 1 .. n : Removes(l, c.id) => status[c.id] = "deleted" /\ ~InTable(c.id)
        /\ status[c.id] = "deleted" => status'[c.id] = "deleted"
    BY <1>2, <2>1, <2>3, RemovedStays
  <2>5. \A l \in k + 1 .. n : l \in 1 .. n /\ l \in k + 1 .. Len(wire') /\ (Removes(l, c.id) => Removes(l, c.id)')
    <3>1. \A l \in k + 1 .. n : l \in 1 .. n /\ l \in k + 1 .. Len(wire')
      BY <1>1, <1>3 DEF Extended
    <3>2. QED
      BY <1>1, <3>1 DEF Extended, Removes
  <2>6. ASSUME InTable(c.id)'
        PROVE  c.status \in {status'[c.id], "pending"} \/ c.id \in reopened'
    <3>1. status'[c.id] \notin {"absent", "deleted"}
      BY <1>2, <2>3, <2>6 DEF TableTypes
    <3>2. status[c.id] # "deleted"
      BY <2>4, <3>1
    <3>3. InTable(c.id)
      <4>1. ~Gone(c.id) /\ \A l \in k + 1 .. n : ~Removes(l, c.id)
        BY <2>4, <2>5, <3>2 DEF Gone
      <4>2. QED
        BY <2>3, <4>1
    <3>4. c.status \in {status[c.id], "pending"} \/ c.id \in reopened'
      BY <1>2, <2>3, <3>3 DEF ServerMoves
    <3>5. status[c.id] \in Terminal => status'[c.id] = status[c.id] \/ c.id \in reopened'
      BY <1>2, <2>3, <3>1 DEF ServerMoves
    <3>6. QED
      BY <2>3, <3>4, <3>5 DEF Terminal
  <2>7. ASSUME ~InTable(c.id)'
        PROVE  Gone(c.id)' \/ \E l \in k + 1 .. Len(wire') : Removes(l, c.id)'
    <3>1. CASE InTable(c.id)
      <4>1. Gone(c.id)' \/ \E l \in 1 .. Len(wire') : Fresh(l) /\ Removes(l, c.id)'
        BY <2>3, <2>7, <3>1 DEF Extension
      <4>2. \A l \in 1 .. Len(wire') : Fresh(l) => l \in k + 1 .. Len(wire')
        BY <1>1, <1>3 DEF Extended
      <4>3. QED
        BY <4>1, <4>2
    <3>2. CASE ~InTable(c.id)
      BY <2>3, <2>4, <2>5, <3>2
    <3>3. QED
      BY <3>1, <3>2
  <2>8. QED
    BY <2>3, <2>6, <2>7
<1>4. CASE k \notin 1 .. n
  <2>1. k = n + 1 /\ Fresh(k)
    BY <1>1, <1>4 DEF Extended
  <2>2. wire'[k].cards = FirstPage /\ status' = status /\ table' = table
    BY <2>1 DEF Extension
  <2>3. c.id \in Docs /\ c.status = status[c.id] /\ InTable(c.id)
    BY <1>2, <2>2, ServedPage DEF HasCard
  <2>4. InTable(c.id)' /\ c.status = status'[c.id]
    BY <2>2, <2>3 DEF InTable
  <2>5. c.status \in {"pending", "ready", "failed"}
    BY <1>2, <2>3 DEF TableTypes, Statuses
  <2>6. QED
    BY <2>3, <2>4, <2>5
<1>5. QED
  BY <1>3, <1>4

LEMMA RepeatStays ==
  ASSUME TypeInv, Extension, ListInv, FirstPageHoldsAll
  PROVE  RepeatInv'
<1>1. PICK n \in Nat : Extended(n)
  BY ExtendedWire
<1>2. ServerMoves /\ TableTypes /\ CardInv /\ RepeatInv
  BY DEF Extension, TypeInv, ListInv
<1> SUFFICES ASSUME NEW k \in 1 .. Len(wire'), NEW m \in 1 .. Len(wire'), k < m,
                    IsList(k)', IsList(m)',
                    NEW c \in Cards, HasCard(wire'[k].cards, c), c.status \in Terminal
             PROVE  \/ HasCard(wire'[m].cards, c)
                    \/ Gone(c.id)' \/ c.id \in reopened'
                    \/ \E l \in k + 1 .. m - 1 : Removes(l, c.id)'
  BY DEF RepeatInv
<1>3. k \in 1 .. n /\ (m \in 1 .. n \/ (m = n + 1 /\ Fresh(m))) /\ Len(wire) = n
  BY <1>1 DEF Extended
<1>4. wire'[k] = wire[k] /\ IsList(k) /\ HasCard(wire[k].cards, c) /\ c.id \in Docs
  BY <1>1, <1>3 DEF Extended, IsList, Cards
<1>5. /\ Gone(c.id) => Gone(c.id)'
      /\ c.id \in reopened => c.id \in reopened'
      /\ \A l \in 1 .. n : Removes(l, c.id) => Removes(l, c.id)'
  <2>1. c.id \in reopened => c.id \in reopened'
    BY <1>2, <1>4 DEF ServerMoves
  <2>2. QED
    BY <1>1, <1>2, <1>3, <1>4, <2>1, RemovedStays DEF Extended, Removes
<1>6. CASE m \in 1 .. n
  <2>1. wire'[m] = wire[m] /\ IsList(m)
    BY <1>1, <1>6 DEF Extended, IsList
  <2>2. \A l \in k + 1 .. m - 1 : l \in 1 .. n
    BY <1>3, <1>6
  <2>3. HasCard(wire[m].cards, c) \/ Gone(c.id) \/ c.id \in reopened \/ \E l \in k + 1 .. m - 1 : Removes(l, c.id)
    BY <1>2, <1>3, <1>4, <1>6, <2>1 DEF RepeatInv
  <2>4. QED
    BY <1>5, <2>1, <2>2, <2>3
<1>7. CASE m = n + 1 /\ Fresh(m)
  <2>1. wire'[m].cards = FirstPage
    BY <1>7 DEF Extension
  <2>2. CASE InTable(c.id) /\ c.id \notin reopened
    <3>1. OnFirstPage(c.id) /\ c.status = status[c.id]
      <4>1. OnFirstPage(c.id)
        BY <1>2, <2>2, AllOnFirstPage
      <4>2. c.status = status[c.id]
        BY <1>2, <1>3, <1>4, <2>2 DEF CardInv, Terminal
      <4>3. QED
        BY <4>1, <4>2
    <3>2. Card(c.id, status[c.id]) = c
      BY <3>1 DEF Card, Cards
    <3>3. QED
      BY <1>2, <1>4, <2>1, <3>1, <3>2, ServedPage
  <2>3. CASE ~InTable(c.id)
    <3>1. Gone(c.id) \/ \E l \in k + 1 .. n : Removes(l, c.id)
      BY <1>2, <1>3, <1>4, <2>3 DEF CardInv
    <3>2. \A l \in k + 1 .. n : l \in 1 .. n /\ l \in k + 1 .. m - 1
      BY <1>3, <1>7
    <3>3. QED
      BY <1>5, <3>1, <3>2
  <2>4. QED
    BY <1>5, <2>2, <2>3
<1>8. QED
  BY <1>3, <1>6, <1>7

\* The first answer is taken: the others move up.
Shifted(n) ==
  /\ n \in Nat /\ Len(wire) = n /\ Len(wire') = n - 1 /\ 1 \in 1 .. n
  /\ \A k \in 1 .. n - 1 : wire'[k] = wire[k + 1] /\ k + 1 \in 1 .. n
  /\ wire[1].asked \in Ids /\ wire[1].cards \in Seq(Cards)
  /\ status' = status /\ table' = table /\ calls' = calls /\ batch' = batch
  /\ unseen' = unseen /\ reopened' = reopened

LEMMA FirstArrives ==
  ASSUME TypeInv, InOrder, NEW i, NEW kind, Arrives(i, kind),
         UNCHANGED <<serverVars, calls, batch, unseen, reopened>>
  PROVE  i = 1 /\ wire[1].kind = kind /\ \E n \in Nat : Shifted(n)
<1>1. PICK n \in Nat : Len(wire) = n
  BY LenProperties DEF TypeInv, NetworkTypes
<1>2. i = 1 /\ wire[1].kind = kind
  BY DEF Arrives
<1>3. Taken(n, 1) /\ wire[1].asked \in Ids /\ wire[1].cards \in Seq(Cards)
  BY <1>1, <1>2, AnswerArrives
<1>4. \A k \in 1 .. n - 1 : Before(1, k) = k + 1 /\ k + 1 \in 1 .. n
  BY DEF Before
<1>5. Shifted(n)
  BY <1>1, <1>3, <1>4 DEF Taken, Shifted, serverVars
<1>6. QED
  BY <1>2, <1>5

LEMMA ListsShift ==
  ASSUME TypeInv, ListInv, NEW n, Shifted(n)
  PROVE  ListInv'
<1>1. /\ n \in Nat /\ Len(wire) = n /\ Len(wire') = n - 1
      /\ \A k \in 1 .. n - 1 : wire'[k] = wire[k + 1] /\ k + 1 \in 1 .. n
      /\ status' = status /\ table' = table /\ unseen' = unseen /\ reopened' = reopened
  BY DEF Shifted
<1>2. /\ \A k \in 1 .. n - 1 : IsList(k)' <=> IsList(k + 1)
      /\ \A k \in 1 .. n - 1 : \A d : Removes(k, d)' <=> Removes(k + 1, d)
      /\ \A d : (InTable(d)' <=> InTable(d)) /\ (Gone(d)' <=> Gone(d))
  BY <1>1 DEF IsList, Removes, InTable, Gone
<1>3. CardInv'
  <2> SUFFICES ASSUME NEW k \in 1 .. n - 1, IsList(k)', NEW c \in Cards, HasCard(wire'[k].cards, c)
               PROVE  /\ c.status \in {"pending", "ready", "failed"}
                      /\ InTable(c.id)' => c.status \in {status'[c.id], "pending"} \/ c.id \in reopened'
                      /\ ~InTable(c.id)' => Gone(c.id)' \/ \E l \in k + 1 .. n - 1 : Removes(l, c.id)'
    BY <1>1 DEF CardInv
  <2>1. k + 1 \in 1 .. n /\ IsList(k + 1) /\ HasCard(wire[k + 1].cards, c)
    BY <1>1, <1>2
  <2>2. /\ c.status \in {"pending", "ready", "failed"}
        /\ InTable(c.id) => c.status \in {status[c.id], "pending"} \/ c.id \in reopened
        /\ ~InTable(c.id) => Gone(c.id) \/ \E l \in (k + 1) + 1 .. n : Removes(l, c.id)
    BY <1>1, <2>1 DEF ListInv, CardInv
  <2>3. \A l \in (k + 1) + 1 .. n : l - 1 \in k + 1 .. n - 1 /\ l - 1 \in 1 .. n - 1 /\ (l - 1) + 1 = l
    BY <1>1
  <2>4. \A l \in (k + 1) + 1 .. n : Removes(l, c.id) => Removes(l - 1, c.id)'
    BY <1>2, <2>3
  <2>5. QED
    BY <1>1, <1>2, <2>2, <2>3, <2>4
<1>4. RepeatInv'
  <2> SUFFICES ASSUME NEW k \in 1 .. n - 1, NEW m \in 1 .. n - 1, k < m,
                      IsList(k)', IsList(m)',
                      NEW c \in Cards, HasCard(wire'[k].cards, c), c.status \in Terminal
               PROVE  \/ HasCard(wire'[m].cards, c)
                      \/ Gone(c.id)' \/ c.id \in reopened'
                      \/ \E l \in k + 1 .. m - 1 : Removes(l, c.id)'
    BY <1>1 DEF RepeatInv
  <2>1. /\ k + 1 \in 1 .. n /\ IsList(k + 1) /\ HasCard(wire[k + 1].cards, c)
        /\ m + 1 \in 1 .. n /\ IsList(m + 1) /\ wire'[m] = wire[m + 1] /\ k + 1 < m + 1
    BY <1>1, <1>2
  <2>2. \/ HasCard(wire[m + 1].cards, c)
        \/ Gone(c.id) \/ c.id \in reopened
        \/ \E l \in (k + 1) + 1 .. (m + 1) - 1 : Removes(l, c.id)
    BY <1>1, <2>1 DEF ListInv, RepeatInv
  <2>3. \A l \in (k + 1) + 1 .. (m + 1) - 1 :
          l - 1 \in k + 1 .. m - 1 /\ l - 1 \in 1 .. n - 1 /\ (l - 1) + 1 = l
    BY <1>1
  <2>4. \A l \in (k + 1) + 1 .. (m + 1) - 1 : Removes(l, c.id) => Removes(l - 1, c.id)'
    BY <1>2, <2>3
  <2>5. QED
    BY <1>1, <1>2, <2>1, <2>2, <2>3, <2>4
<1>5. QED
  BY <1>3, <1>4 DEF ListInv

-----------------------------------------------------------------------------
(***************************************************************************)
(* The active document, step by step.                                      *)
(***************************************************************************)

\* An upload's answer says pending: it makes no document the active one.
LEMMA UploadSays ==
  ASSUME TypeInv, NEW i \in 1 .. Len(wire), wire[i].kind = "upload", wire[i].cards # <<>>
  PROVE  Head(wire[i].cards).status # "ready"
<1>1. wire[i].cards \in Seq(Cards)
  BY AnswerType DEF TypeInv, NetworkTypes
<1>2. Len(wire[i].cards) \in Nat /\ Len(wire[i].cards) # 0
  BY <1>1, EmptySeq, LenProperties
<1>3. 1 \in 1 .. Len(wire[i].cards) /\ Head(wire[i].cards) = wire[i].cards[1]
  BY <1>1, <1>2, HeadTailProperties
<1>4. QED
  BY <1>3 DEF TypeInv, AnswersInv

LEMMA AskedStays ==
  ASSUME TypeInv, AskedInv, [Next]_vars
  PROVE  AskedInv'
<1> SUFFICES ASSUME ~loaded', activeId' # None
             PROVE  /\ \A k \in 1 .. Len(calls') : calls'[k] = activeId'
                    /\ \A k \in 1 .. Len(wire') : wire'[k].kind # "delete" => wire'[k].asked = activeId'
                    /\ batch'.open => batch'.asked = activeId'
                    /\ interval' # "off" => interval' = activeId'
  BY DEF AskedInv
<1>1. PICK n \in Nat : Len(wire) = n
  BY LenProperties DEF TypeInv, NetworkTypes
<1>2. PICK m \in Nat : Len(calls) = m
  BY LenProperties DEF TypeInv, NetworkTypes
<1>3. wire \in Seq(Answers) /\ calls \in Seq(Ids) /\ batch \in Batches
  BY DEF TypeInv, NetworkTypes
<1>4. ASSUME ~loaded, activeId # None
      PROVE  /\ \A k \in 1 .. m : calls[k] = activeId
             /\ \A k \in 1 .. n : wire[k].kind # "delete" => wire[k].asked = activeId
             /\ batch.open => batch.asked = activeId
             /\ interval # "off" => interval = activeId
  BY <1>1, <1>2, <1>4 DEF AskedInv
<1> DEFINE Goal == /\ \A k \in 1 .. Len(calls') : calls'[k] = activeId'
                   /\ \A k \in 1 .. Len(wire') : wire'[k].kind # "delete" => wire'[k].asked = activeId'
                   /\ batch'.open => batch'.asked = activeId'
                   /\ interval' # "off" => interval' = activeId'
<1>5. ASSUME NEW i \in DOMAIN calls, ServeList(i)
      PROVE  Goal
  <2>1. /\ calls' = RemoveAt(calls, i) /\ wire' = Append(wire, Answer("list", calls[i], FirstPage))
        /\ batch' = batch /\ interval' = interval /\ loaded' = loaded /\ activeId' = activeId
        /\ i \in 1 .. m
    BY <1>2, <1>3, <1>5, LenProperties DEF ServeList, pageVars, historyVars
  <2>2. calls[i] = activeId
    BY <1>4, <2>1
  <2>3. Len(calls') = m - 1 /\ \A k \in 1 .. m - 1 : calls'[k] = IF k < i THEN calls[k] ELSE calls[k + 1]
    BY <1>2, <1>3, <2>1, RemovedAt
  <2>4. \A k \in 1 .. m - 1 : k \in 1 .. m /\ k + 1 \in 1 .. m
    OBVIOUS
  <2>5. \A k \in 1 .. m - 1 : calls'[k] = activeId
    BY <1>4, <2>1, <2>3, <2>4
  <2>6. /\ Len(wire') = n + 1 /\ \A k \in 1 .. n : wire'[k] = wire[k]
        /\ wire'[n + 1].asked = activeId
        /\ \A k \in 1 .. n + 1 : k \in 1 .. n \/ k = n + 1
    <3> DEFINE a == Answer("list", calls[i], FirstPage)
    <3> HIDE DEF a
    <3>1. /\ Len(wire') = n + 1 /\ \A k \in 1 .. n : wire'[k] = wire[k]
          /\ wire'[n + 1] = a
      <4>1. wire' = Append(wire, a)
        BY <2>1 DEF a
      <4>2. OneMore(wire', wire, a)
        BY <1>3, <4>1, Appended
      <4>3. QED
        BY <1>1, <4>2 DEF OneMore
    <3>2. QED
      BY <2>2, <3>1 DEF a, Answer
  <2>7. /\ \A k \in 1 .. n : wire[k].kind # "delete" => wire[k].asked = activeId
        /\ batch.open => batch.asked = activeId
        /\ interval # "off" => interval = activeId
    BY <1>4, <2>1
  <2>8. \A k \in 1 .. Len(calls') : calls'[k] = activeId'
    BY <2>1, <2>3, <2>5
  <2>9. \A k \in 1 .. Len(wire') : wire'[k].kind # "delete" => wire'[k].asked = activeId'
    <3>1. \A k \in 1 .. n + 1 : wire'[k].kind # "delete" => wire'[k].asked = activeId
      BY <2>6, <2>7
    <3>2. Len(wire') = n + 1 /\ activeId' = activeId
      BY <2>1, <2>6
    <3>3. QED
      BY <3>1, <3>2
  <2>10. QED
    BY <2>1, <2>7, <2>8, <2>9
<1>6. ASSUME AnswerBatch
      PROVE  Goal
  <2>1. /\ batch.open /\ wire' = Append(wire, Answer("upload", batch.asked, batch.accepted))
        /\ batch' = NoBatch /\ calls' = calls
        /\ interval' = interval /\ loaded' = loaded /\ activeId' = activeId
    BY <1>6 DEF AnswerBatch, pageVars, historyVars
  <2>2. /\ Len(wire') = n + 1 /\ \A k \in 1 .. n : wire'[k] = wire[k]
        /\ wire'[n + 1].asked = activeId
        /\ \A k \in 1 .. n + 1 : k \in 1 .. n \/ k = n + 1
    <3> DEFINE a == Answer("upload", batch.asked, batch.accepted)
    <3> HIDE DEF a
    <3>1. /\ Len(wire') = n + 1 /\ \A k \in 1 .. n : wire'[k] = wire[k]
          /\ wire'[n + 1] = a
      <4>1. wire' = Append(wire, a)
        BY <2>1 DEF a
      <4>2. OneMore(wire', wire, a)
        BY <1>3, <4>1, Appended
      <4>3. QED
        BY <1>1, <4>2 DEF OneMore
    <3>2. QED
      BY <1>4, <2>1, <3>1 DEF a, Answer
  <2>3. QED
    BY <1>2, <1>4, <2>1, <2>2 DEF NoBatch
<1>7. ASSUME StoreBatch
      PROVE  Goal
  <2>1. /\ calls' = calls /\ wire' = wire /\ interval' = interval /\ loaded' = loaded /\ activeId' = activeId
        /\ batch'.open = batch.open /\ batch'.asked = batch.asked
    BY <1>3, <1>7 DEF StoreBatch, StoreFile, StoreUnpublished, RejectFile, pageVars, historyVars, Batches
  <2>2. QED
    BY <1>1, <1>2, <1>4, <2>1
<1>8. ASSUME \/ Processing \/ \E d \in Docs : OtherUpload(d) \/ OtherDelete(d)
             \/ UNCHANGED vars
      PROVE  Goal
  <2>1. UNCHANGED <<calls, batch, wire, interval, loaded, activeId>>
    BY <1>8 DEF Processing, Process, ProcessAgain, OtherUpload, OtherDelete, networkVars, pageVars, historyVars, vars
  <2>2. QED
    BY <1>1, <1>2, <1>4, <2>1
<1>9. ASSUME Tick
      PROVE  Goal
  <2>1. /\ interval # "off" /\ calls' = Append(calls, interval)
        /\ wire' = wire /\ batch' = batch
        /\ interval' = interval /\ loaded' = loaded /\ activeId' = activeId
    BY <1>9 DEF Tick, pageVars, historyVars
  <2>2. /\ Len(calls') = m + 1 /\ \A k \in 1 .. m : calls'[k] = calls[k]
        /\ calls'[m + 1] = interval
        /\ \A k \in 1 .. m + 1 : k \in 1 .. m \/ k = m + 1
    <3>1. OneMore(calls', calls, interval)
      BY <1>3, <2>1, Appended
    <3>2. QED
      BY <1>2, <3>1 DEF OneMore
  <2>3. QED
    BY <1>1, <1>4, <2>1, <2>2
<1>10. ASSUME SubmitBatch \/ BatchFails
      PROVE  Goal
  <2>1. /\ UNCHANGED <<calls, wire, interval, loaded, activeId>>
        /\ batch'.open => batch'.asked = activeId
    BY <1>10 DEF SubmitBatch, BatchFails, pageVars, historyVars, NoBatch
  <2>2. QED
    BY <1>1, <1>2, <1>4, <2>1
<1>11. ASSUME NEW d \in Docs, Delete(d)
      PROVE  Goal
  <2>1. /\ wire' = Append(wire, Answer("delete", None, <<Card(d, "deleted")>>))
        /\ UNCHANGED <<calls, batch, interval, loaded, activeId>>
    BY <1>11 DEF Delete, pageVars
  <2>2. /\ Len(wire') = n + 1 /\ \A k \in 1 .. n : wire'[k] = wire[k]
        /\ wire'[n + 1].kind = "delete"
        /\ \A k \in 1 .. n + 1 : k \in 1 .. n \/ k = n + 1
    <3> DEFINE a == Answer("delete", None, <<Card(d, "deleted")>>)
    <3> HIDE DEF a
    <3>1. OneMore(wire', wire, a)
      <4>1. wire' = Append(wire, a)
        BY <2>1 DEF a
      <4>2. QED
        BY <1>3, <4>1, Appended
    <3>2. QED
      BY <1>1, <3>1 DEF OneMore, a, Answer
  <2>3. QED
    BY <1>2, <1>4, <2>1, <2>2
<1>12. ASSUME NEW i, ListReturns(i) \/ UploadReturns(i) \/ RemovalReturns(i) \/ ListFails(i)
      PROVE  Goal
  <2>1. UNCHANGED <<serverVars, calls, batch>> /\ \E kind : Arrives(i, kind)
    BY <1>12 DEF ListReturns, UploadReturns, RemovalReturns, ListFails
  <2>2. Taken(n, i)
    BY <1>1, <2>1, AnswerArrives
  <2>3. /\ loaded' = loaded /\ activeId' = activeId
        /\ interval' = interval \/ (wire[i].kind = "upload" /\ interval' = wire[i].asked)
    <3>1. ~ListReturns(i)
      BY DEF ListReturns
    <3>2. CASE UploadReturns(i)
      <4>1. i \in 1 .. Len(wire) /\ wire[i].kind = "upload"
        BY <1>1, <2>2, <3>2 DEF UploadReturns, Arrives, Taken
      <4>2. wire[i].cards # <<>> => Head(wire[i].cards).status # "ready"
        BY <4>1, UploadSays
      <4>3. QED
        BY <3>2, <4>1, <4>2 DEF UploadReturns
    <3>3. CASE RemovalReturns(i) \/ ListFails(i)
      BY <3>3 DEF RemovalReturns, ListFails, pageVars, historyVars
    <3>4. QED
      BY <1>12, <3>1, <3>2, <3>3
  <2>4. \A k \in 1 .. n - 1 : wire'[k].kind # "delete" => wire'[k].asked = activeId
    BY <1>4, <2>2, <2>3 DEF Taken
  <2>5. wire[i].kind = "upload" => wire[i].asked = activeId
    BY <1>4, <2>2, <2>3 DEF Taken
  <2>6. QED
    BY <1>2, <1>4, <2>1, <2>2, <2>3, <2>4, <2>5 DEF Taken
<1>13. ASSUME Reload
      PROVE  Goal
  <2>1. /\ calls' = <<activeId>> /\ batch' = NoBatch /\ wire' = <<>> /\ interval' = "off"
        /\ activeId' = activeId
    BY <1>13 DEF Reload
  <2>2. Len(calls') = 1 /\ calls'[1] = activeId /\ Len(wire') = 0
    BY <2>1
  <2>3. QED
    BY <2>1, <2>2 DEF NoBatch
<1> HIDE DEF Goal
<1>14. Goal
  BY <1>5, <1>6, <1>7, <1>8, <1>9, <1>10, <1>11, <1>12, <1>13
     DEF Next, ListServed, ListReturned, OtherReturned
<1>15. QED
  BY <1>14 DEF Goal

LEMMA ActiveStays ==
  ASSUME TypeInv, TypeInv', Extension, ActiveInv, FirstPageHoldsAll
  PROVE  ActiveInv'
<1>1. PICK n \in Nat : Extended(n)
  BY ExtendedWire
<1>2. /\ ServerMoves /\ TableTypes /\ TableTypes' /\ Len(wire) = n
      /\ documents' = documents /\ activeId' = activeId /\ loaded' = loaded
  BY <1>1 DEF Extension, TypeInv, Extended
<1>3. PICK a : a = activeId
  OBVIOUS
<1> DEFINE c == Card(a, "ready")
<1> SUFFICES ASSUME loaded, a # None, ~Gone(a)', a \notin reopened'
             PROVE  /\ HasCard(documents, c)
                    /\ \/ InTable(a)' /\ status'[a] = "ready"
                       \/ ~InTable(a)' /\ \E l \in 1 .. Len(wire') : Removes(l, a)'
                    /\ \A k \in 1 .. Len(wire') : IsList(k)' =>
                         HasCard(wire'[k].cards, c) \/ \E l \in 1 .. k - 1 : Removes(l, a)'
  BY <1>2, <1>3 DEF ActiveInv, Gone, InTable, Removes
<1> HIDE DEF c
<1>4. a \in Docs
  BY <1>3 DEF TypeInv, PageTypes, Ids
<1>5. /\ Gone(a) => Gone(a)'
      /\ a \notin reopened
      /\ \A l \in 1 .. n : Removes(l, a) => status[a] = "deleted"
      /\ status[a] = "deleted" => status'[a] = "deleted"
      /\ status'[a] = "deleted" => ~InTable(a)'
      /\ \A l \in 1 .. n : Removes(l, a) => Removes(l, a)' /\ l \in 1 .. Len(wire')
  <2>1. \A l \in 1 .. n : Removes(l, a) => Removes(l, a)' /\ l \in 1 .. Len(wire')
    BY <1>1 DEF Extended, Removes
  <2>2. status'[a] = "deleted" => ~InTable(a)'
    BY <1>2, <1>4 DEF TableTypes
  <2>3. a \notin reopened
    BY <1>2, <1>4 DEF ServerMoves
  <2>4. QED
    BY <1>2, <1>4, <2>1, <2>2, <2>3, RemovedStays
<1>6. /\ HasCard(documents, c)
      /\ \/ InTable(a) /\ status[a] = "ready"
         \/ ~InTable(a) /\ \E l \in 1 .. n : Removes(l, a)
      /\ \A k \in 1 .. n : IsList(k) =>
           HasCard(wire[k].cards, c) \/ \E l \in 1 .. k - 1 : Removes(l, a)
  BY <1>2, <1>3, <1>5 DEF ActiveInv, c
<1>7. \/ InTable(a)' /\ status'[a] = "ready"
      \/ ~InTable(a)' /\ \E l \in 1 .. Len(wire') : Removes(l, a)'
  <2>1. CASE InTable(a) /\ status[a] = "ready"
    <3>1. InTable(a)
      BY <2>1
    <3>2. InTable(a)' => InTable(a)' /\ status'[a] = "ready"
      BY <1>2, <1>4, <1>5, <2>1 DEF ServerMoves, Terminal
    <3>3. ~InTable(a)' => \E l \in 1 .. Len(wire') : Removes(l, a)'
      BY <1>4, <3>1 DEF Extension
    <3>4. QED
      BY <3>2, <3>3
  <2>2. CASE \E l \in 1 .. n : Removes(l, a)
    BY <1>5, <2>2
  <2>3. QED
    BY <1>6, <2>1, <2>2
<1>8. ASSUME NEW k \in 1 .. Len(wire'), IsList(k)'
      PROVE  HasCard(wire'[k].cards, c) \/ \E l \in 1 .. k - 1 : Removes(l, a)'
  <2>1. CASE k \in 1 .. n
    <3>1. wire'[k] = wire[k] /\ IsList(k)
      BY <1>1, <1>8, <2>1 DEF Extended, IsList
    <3>2. \A l \in 1 .. k - 1 : l \in 1 .. n
      BY <2>1
    <3>3. QED
      BY <1>5, <1>6, <2>1, <3>1, <3>2
  <2>2. CASE k = n + 1 /\ Fresh(k)
    <3>1. wire'[k].cards = FirstPage
      BY <1>8, <2>2 DEF Extension
    <3>2. \A l \in 1 .. n : l \in 1 .. k - 1
      BY <2>2
    <3>3. InTable(a) /\ status[a] = "ready" => HasCard(FirstPage, c)
      BY <1>2, <1>4, AllOnFirstPage, ServedPage DEF c
    <3>4. QED
      BY <1>5, <1>6, <3>1, <3>2, <3>3
  <2>3. QED
    BY <1>1, <1>8, <2>1, <2>2 DEF Extended
<1>9. QED
  BY <1>6, <1>7, <1>8

\* An answer that leaves the active document, and its card, alone.
LEMMA ActiveShifts ==
  ASSUME TypeInv, ActiveInv, NEW n, Shifted(n), loaded' = loaded,
         activeId' # None => activeId' = activeId /\ ~Removes(1, activeId),
         activeId' # None /\ HasCard(documents, Card(activeId, "ready")) =>
           HasCard(documents', Card(activeId, "ready"))
  PROVE  ActiveInv'
<1>1. /\ n \in Nat /\ Len(wire) = n /\ Len(wire') = n - 1
      /\ \A k \in 1 .. n - 1 : wire'[k] = wire[k + 1] /\ k + 1 \in 1 .. n
      /\ status' = status /\ table' = table /\ unseen' = unseen /\ reopened' = reopened
  BY DEF Shifted
<1>2. PICK a : a = activeId
  OBVIOUS
<1> DEFINE c == Card(a, "ready")
<1> SUFFICES ASSUME loaded, activeId' = a, a # None, ~Gone(a), a \notin reopened
             PROVE  /\ HasCard(documents', c)
                    /\ \/ InTable(a) /\ status[a] = "ready"
                       \/ ~InTable(a) /\ \E l \in 1 .. n - 1 : Removes(l, a)'
                    /\ \A k \in 1 .. n - 1 : IsList(k)' =>
                         HasCard(wire'[k].cards, c) \/ \E l \in 1 .. k - 1 : Removes(l, a)'
  BY <1>1, <1>2 DEF ActiveInv, Gone, InTable, Removes
<1> HIDE DEF c
<1>3. /\ HasCard(documents, c)
      /\ \/ InTable(a) /\ status[a] = "ready"
         \/ ~InTable(a) /\ \E l \in 1 .. n : Removes(l, a)
      /\ \A k \in 1 .. n : IsList(k) =>
           HasCard(wire[k].cards, c) \/ \E l \in 1 .. k - 1 : Removes(l, a)
  BY <1>1, <1>2 DEF ActiveInv, c
<1>4. HasCard(documents', c)
  BY <1>2, <1>3 DEF c
<1>5. ~Removes(1, a) /\ \A l \in 1 .. n : Removes(l, a) => l - 1 \in 1 .. n - 1 /\ Removes(l - 1, a)'
  <2>1. ~Removes(1, a)
    BY <1>2
  <2>2. \A l \in 1 .. n : l # 1 => l - 1 \in 1 .. n - 1 /\ (l - 1) + 1 = l
    BY <1>1
  <2>3. QED
    BY <1>1, <2>1, <2>2 DEF Removes
<1>6. ASSUME NEW k \in 1 .. n - 1, IsList(k)'
      PROVE  HasCard(wire'[k].cards, c) \/ \E l \in 1 .. k - 1 : Removes(l, a)'
  <2>1. wire'[k] = wire[k + 1] /\ IsList(k + 1) /\ k + 1 \in 1 .. n
    BY <1>1, <1>6 DEF IsList
  <2>2. HasCard(wire[k + 1].cards, c) \/ \E l \in 1 .. (k + 1) - 1 : Removes(l, a)
    BY <1>3, <2>1
  <2>3. \A l \in 1 .. (k + 1) - 1 : l \in 1 .. n /\ (l # 1 => l - 1 \in 1 .. k - 1)
    BY <1>1
  <2>4. QED
    BY <1>5, <2>1, <2>2, <2>3
<1>7. QED
  BY <1>3, <1>4, <1>5, <1>6

\* The list shown next has the active document as ready, or another is chosen from it.
LEMMA ActiveChosen ==
  ASSUME TypeInv, InOrder, ListInv, AskedInv, ActiveInv, NEW i, ListReturns(i)
  PROVE  ActiveInv'
<1>1. /\ Arrives(i, "list") /\ UNCHANGED <<serverVars, calls, batch, unseen, reopened>>
      /\ documents' = wire[i].cards
      /\ activeId' = IF HasActive(wire[i].asked, wire[i].cards) THEN activeId ELSE FirstReady(wire[i].cards)
      /\ loaded' = TRUE
  BY DEF ListReturns
<1>2. i = 1 /\ wire[1].kind = "list" /\ \E n \in Nat : Shifted(n)
  BY <1>1, FirstArrives
<1>3. PICK n \in Nat : Shifted(n)
  BY <1>2
<1>4. /\ Len(wire) = n /\ Len(wire') = n - 1 /\ 1 \in 1 .. n
      /\ \A k \in 1 .. n - 1 : wire'[k] = wire[k + 1] /\ k + 1 \in 1 .. n
      /\ wire[1].asked \in Ids /\ wire[1].cards \in Seq(Cards)
      /\ status' = status /\ table' = table /\ unseen' = unseen /\ reopened' = reopened
  BY <1>3 DEF Shifted
<1>5. PICK a : a = activeId'
  OBVIOUS
<1> DEFINE c == Card(a, "ready")
<1> SUFFICES ASSUME a # None, ~Gone(a), a \notin reopened
             PROVE  /\ HasCard(wire[1].cards, c)
                    /\ \/ InTable(a) /\ status[a] = "ready"
                       \/ ~InTable(a) /\ \E l \in 1 .. n - 1 : Removes(l, a)'
                    /\ \A k \in 1 .. n - 1 : IsList(k)' =>
                         HasCard(wire'[k].cards, c) \/ \E l \in 1 .. k - 1 : Removes(l, a)'
  BY <1>1, <1>2, <1>4, <1>5 DEF ActiveInv, Gone, InTable, Removes
<1>6. c.id = a /\ c.status = "ready"
  BY DEF Card
<1> HIDE DEF c
<1>7. HasCard(wire[1].cards, c)
  <2>1. CASE HasActive(wire[1].asked, wire[1].cards)
    <3>1. a = activeId
      BY <1>1, <1>2, <1>5, <2>1
    <3>2. CASE loaded
      <4>1. HasCard(wire[1].cards, c) \/ \E l \in 1 .. 1 - 1 : Removes(l, a)
        BY <1>2, <1>4, <3>1, <3>2 DEF ActiveInv, IsList, c
      <4>2. QED
        BY <4>1
    <3>3. CASE ~loaded
      <4>1. wire[1].asked = a
        BY <1>2, <1>4, <3>1, <3>3 DEF AskedInv
      <4>2. DOMAIN wire[1].cards = 1 .. Len(wire[1].cards)
        BY <1>4, LenProperties
      <4>3. QED
        BY <2>1, <4>1, <4>2 DEF HasActive, HasCard, ToSet, c
    <3>4. QED
      BY <3>2, <3>3
  <2>2. CASE ~HasActive(wire[1].asked, wire[1].cards)
    BY <1>1, <1>2, <1>4, <1>5, <2>2, FirstReadyIs DEF c
  <2>3. QED
    BY <2>1, <2>2
<1>8. c \in Cards /\ a \in Docs
  <2>1. PICK j \in 1 .. Len(wire[1].cards) : wire[1].cards[j] = c
    BY <1>7 DEF HasCard
  <2>2. c \in Cards
    BY <1>4, <2>1, ElementOfSeq
  <2>3. QED
    BY <1>6, <2>2 DEF Cards
<1>9. \A l \in 2 .. n : Removes(l, a) => l - 1 \in 1 .. n - 1 /\ Removes(l - 1, a)'
  <2>1. \A l \in 2 .. n : l - 1 \in 1 .. n - 1 /\ (l - 1) + 1 = l
    BY <1>4
  <2>2. QED
    BY <1>4, <2>1 DEF Removes
<1>10. \/ InTable(a) /\ status[a] = "ready"
       \/ ~InTable(a) /\ \E l \in 1 .. n - 1 : Removes(l, a)'
  <2>1. /\ InTable(a) => status[a] = "ready"
        /\ ~InTable(a) => \E l \in 1 + 1 .. n : Removes(l, a)
    BY <1>2, <1>4, <1>6, <1>7, <1>8 DEF ListInv, CardInv, IsList
  <2>2. QED
    BY <1>9, <2>1
<1>11. ASSUME NEW k \in 1 .. n - 1, IsList(k)'
       PROVE  HasCard(wire'[k].cards, c) \/ \E l \in 1 .. k - 1 : Removes(l, a)'
  <2>1. wire'[k] = wire[k + 1] /\ IsList(k + 1) /\ k + 1 \in 1 .. n /\ 1 < k + 1
    BY <1>4, <1>11 DEF IsList
  <2>2. HasCard(wire[k + 1].cards, c) \/ \E l \in 1 + 1 .. (k + 1) - 1 : Removes(l, a)
    BY <1>2, <1>4, <1>6, <1>7, <1>8, <2>1 DEF ListInv, RepeatInv, IsList, Terminal
  <2>3. \A l \in 1 + 1 .. (k + 1) - 1 : l \in 2 .. n /\ l - 1 \in 1 .. k - 1
    BY <1>4, <2>1
  <2>4. QED
    BY <1>9, <2>1, <2>2, <2>3
<1>12. QED
  BY <1>7, <1>10, <1>11

LEMMA ActiveKept ==
  ASSUME TypeInv, InOrder, ActiveInv, NEW i, UploadReturns(i) \/ RemovalReturns(i) \/ ListFails(i)
  PROVE  ActiveInv'
<1>1. documents \in Seq(Cards)
  BY DEF TypeInv, PageTypes
<1>2. CASE UploadReturns(i)
  <2>1. /\ Arrives(i, "upload") /\ UNCHANGED <<serverVars, calls, batch, unseen, reopened>> /\ loaded' = loaded
        /\ documents' = documents \/ documents' = wire[i].cards \o documents
    BY <1>2 DEF UploadReturns
  <2>2. i = 1 /\ wire[1].kind = "upload" /\ \E n \in Nat : Shifted(n)
    BY <2>1, FirstArrives
  <2>3. PICK n \in Nat : Shifted(n)
    BY <2>2
  <2>4. /\ 1 \in 1 .. Len(wire) /\ wire[1].cards \in Seq(Cards)
    BY <2>3 DEF Shifted
  <2>5. activeId' = activeId
    <3>1. wire[1].cards # <<>> => Head(wire[1].cards).status # "ready"
      BY <2>2, <2>4, UploadSays
    <3>2. QED
      BY <1>2, <2>2, <3>1 DEF UploadReturns
  <2>6. \A c : HasCard(documents, c) => HasCard(documents', c)
    <3>1. CASE documents' = wire[1].cards \o documents
      <4>1. PICK p \in Nat : Len(wire[1].cards) = p
        BY <2>4, LenProperties
      <4>2. PICK q \in Nat : Len(documents) = q
        BY <1>1, LenProperties
      <4>3. /\ Len(documents') = p + q
            /\ \A j \in 1 .. p + q : documents'[j] = IF j <= p THEN wire[1].cards[j] ELSE documents[j - p]
        BY <1>1, <2>4, <3>1, <4>1, <4>2, ConcatProperties
      <4>4. \A j \in 1 .. q : j + p \in 1 .. p + q /\ ~(j + p <= p) /\ (j + p) - p = j
        OBVIOUS
      <4>5. \A j \in 1 .. q : documents'[j + p] = documents[j]
        BY <4>3, <4>4
      <4>6. QED
        BY <4>2, <4>3, <4>4, <4>5 DEF HasCard
    <3>2. QED
      BY <2>1, <2>2, <3>1
  <2>7. ~Removes(1, activeId)
    BY <2>2 DEF Removes
  <2>8. QED
    BY <2>1, <2>3, <2>5, <2>6, <2>7, ActiveShifts
<1>3. CASE RemovalReturns(i)
  <2>1. /\ Arrives(i, "delete") /\ UNCHANGED <<serverVars, calls, batch, unseen, reopened>> /\ loaded' = loaded
    BY <1>3 DEF RemovalReturns, historyVars
  <2>2. i = 1 /\ wire[1].kind = "delete" /\ \E n \in Nat : Shifted(n)
    BY <2>1, FirstArrives
  <2>3. PICK n \in Nat : Shifted(n)
    BY <2>2
  <2>4. /\ 1 \in 1 .. Len(wire) /\ wire[1].cards \in Seq(Cards)
    BY <2>3 DEF Shifted
  <2>5. PICK d : d = Head(wire[1].cards).id
    OBVIOUS
  <2>6. Removes(1, activeId) => d = activeId
    <3>1. Len(wire[1].cards) = 1
      BY <2>2, <2>4 DEF TypeInv, AnswersInv
    <3>2. Head(wire[1].cards) = wire[1].cards[1]
      BY <2>4, <3>1, EmptySeq, HeadTailProperties
    <3>3. QED
      BY <2>5, <3>2 DEF Removes
  <2>7. /\ documents' = Entries(documents, {k \in DOMAIN documents : documents[k].id # d})
        /\ activeId' = IF activeId = d THEN None ELSE activeId
    BY <1>3, <2>2, <2>5 DEF RemovalReturns
  <2>8. \A c : c.id # d /\ HasCard(documents, c) => HasCard(documents', c)
    BY <1>1, <2>7, CardsWithout
  <2>9. Card(activeId, "ready").id = activeId
    BY DEF Card
  <2>10. QED
    BY <2>1, <2>3, <2>6, <2>7, <2>8, <2>9, ActiveShifts
<1>4. CASE ListFails(i)
  <2>1. /\ Arrives(i, "list") /\ UNCHANGED <<serverVars, calls, batch, unseen, reopened>> /\ loaded' = loaded
        /\ documents' = documents /\ activeId' = activeId
    BY <1>4 DEF ListFails, pageVars, historyVars
  <2>2. i = 1 /\ wire[1].kind = "list" /\ \E n \in Nat : Shifted(n)
    BY <2>1, FirstArrives
  <2>3. PICK n \in Nat : Shifted(n)
    BY <2>2
  <2>4. ~Removes(1, activeId)
    BY <2>2 DEF Removes
  <2>5. QED
    BY <2>1, <2>3, <2>4, ActiveShifts
<1>5. QED
  BY <1>2, <1>3, <1>4

\* A page that is loaded again shows nothing, and nothing is under way but its list.
LEMMA ReloadLists ==
  ASSUME TypeInv, Reload
  PROVE  ListInv' /\ ActiveInv'
<1>1. wire' = <<>> /\ loaded' = FALSE
  BY DEF Reload
<1>2. Len(wire') = 0
  BY <1>1
<1>3. QED
  BY <1>1, <1>2 DEF ListInv, CardInv, RepeatInv, ActiveInv

LEMMA ListsStay ==
  ASSUME TypeInv, InOrder, FirstPageHoldsAll, ListInv, [Next]_vars
  PROVE  ListInv'
<1>1. TypeInv' /\ (Extension \/ Arrival \/ Reload)
  BY EveryStep
<1>2. CASE Extension
  BY <1>1, <1>2, CardStays, RepeatStays DEF ListInv
<1>3. CASE Arrival
  <2>1. \E i, kind : Arrives(i, kind) /\ UNCHANGED <<serverVars, calls, batch, unseen, reopened>>
    BY <1>3 DEF Arrival, ListReturns, UploadReturns, RemovalReturns, ListFails, historyVars
  <2>2. \E n \in Nat : Shifted(n)
    BY <2>1, FirstArrives
  <2>3. QED
    BY <2>2, ListsShift
<1>4. CASE Reload
  BY <1>4, ReloadLists
<1>5. QED
  BY <1>1, <1>2, <1>3, <1>4

LEMMA ActiveStep ==
  ASSUME TypeInv, InOrder, FirstPageHoldsAll, ListInv, AskedInv, ActiveInv, [Next]_vars
  PROVE  ActiveInv'
<1>1. TypeInv' /\ (Extension \/ Arrival \/ Reload)
  BY EveryStep
<1>2. CASE Extension
  BY <1>1, <1>2, ActiveStays
<1>3. CASE Arrival
  BY <1>3, ActiveChosen, ActiveKept DEF Arrival
<1>4. CASE Reload
  BY <1>4, ReloadLists
<1>5. QED
  BY <1>1, <1>2, <1>3, <1>4

\* When answers arrive in order and all documents are on the first page, the active
\* document is shown as ready, whichever render's id the polling closure goes by, but
\* for one deleted behind the page's back or processed again.
THEOREM ActiveStaysReady ==
  ASSUME InOrder, FirstPageHoldsAll
  PROVE  Spec => []ActiveIsReady
<1> DEFINE IInv == TypeInv /\ ListInv /\ AskedInv /\ ActiveInv
<1>1. Init => IInv
  <2> SUFFICES ASSUME Init
               PROVE  IInv
    OBVIOUS
  <2>1. TypeInv
    BY InitTypes
  <2>2. wire = <<>> /\ loaded = FALSE /\ activeId = None
    BY DEF Init
  <2>3. Len(wire) = 0
    BY <2>2
  <2>4. ListInv /\ AskedInv /\ ActiveInv
    BY <2>2, <2>3 DEF ListInv, CardInv, RepeatInv, AskedInv, ActiveInv
  <2>5. QED
    BY <2>1, <2>4
<1>2. IInv /\ [Next]_vars => IInv'
  <2> SUFFICES ASSUME TypeInv, ListInv, AskedInv, ActiveInv, [Next]_vars
               PROVE  TypeInv' /\ ListInv' /\ AskedInv' /\ ActiveInv'
    OBVIOUS
  <2>1. TypeInv'
    BY EveryStep
  <2>2. ListInv'
    BY InOrder, FirstPageHoldsAll, ListsStay
  <2>3. AskedInv'
    BY AskedStays
  <2>4. ActiveInv'
    BY InOrder, FirstPageHoldsAll, ActiveStep
  <2>5. QED
    BY <2>1, <2>2, <2>3, <2>4
<1>3. IInv => ActiveIsReady
  <2> SUFFICES ASSUME TypeInv, ActiveInv, loaded, activeId # None,
                      ~(status[activeId] = "deleted" /\ activeId \in unseen), activeId \notin reopened
               PROVE  activeId \in ReadyIds
    BY DEF ActiveIsReady
  <2>1. HasCard(documents, Card(activeId, "ready"))
    BY DEF ActiveInv, Gone
  <2>2. DOMAIN documents = 1 .. Len(documents)
    BY LenProperties DEF TypeInv, PageTypes
  <2>3. QED
    BY <2>1, <2>2 DEF HasCard, ReadyIds, ToSet, Card
<1> HIDE DEF IInv
<1>4. QED
  BY <1>1, <1>2, <1>3, PTL DEF Spec

-----------------------------------------------------------------------------
(***************************************************************************)
(* What the page shows, step by step, if all documents are on the first    *)
(* page of the list.                                                       *)
(***************************************************************************)
\* What later answers do not tell of a document is as it was.
LEMMA LaterStays ==
  ASSUME TypeInv, TypeInv', Extension, NEW n, Extended(n), NEW k \in 0 .. n,
         NEW d \in Docs, d \notin unseen', ~Later(k, d)'
  PROVE  d \notin unseen /\ ~Later(k, d) /\ (InTable(d)' <=> InTable(d))
<1>1. /\ n \in Nat /\ Len(wire) = n /\ Len(wire') \in {n, n + 1}
      /\ \A l \in 1 .. n : l \in 1 .. Len(wire') /\ wire'[l] = wire[l]
      /\ \A l \in 1 .. Len(wire') : Fresh(l) => l = n + 1
  BY DEF Extended
<1>2. /\ ~Has(batch'.accepted, d)
      /\ \A l \in k + 1 .. Len(wire') : IsList(l)' \/ ~Has(wire'[l].cards, d)
  BY DEF Later
<1>3. d \notin unseen
  BY DEF Extension, ServerMoves
<1>4. \A l \in 1 .. Len(wire') : Fresh(l) => l \in k + 1 .. Len(wire')
  BY <1>1
<1>5. ~Later(k, d)
  <2>1. ~Has(batch.accepted, d)
    BY <1>2, <1>4 DEF Extension
  <2>2. \A l \in k + 1 .. n : l \in 1 .. n /\ l \in k + 1 .. Len(wire')
    BY <1>1
  <2>3. \A l \in k + 1 .. n : IsList(l) \/ ~Has(wire[l].cards, d)
    BY <1>1, <1>2, <2>2 DEF IsList
  <2>4. QED
    BY <1>1, <2>1, <2>3 DEF Later
<1>6. InTable(d)' => InTable(d)
  BY <1>2 DEF Extension
<1>7. InTable(d) => InTable(d)'
  <2> SUFFICES ASSUME InTable(d), ~InTable(d)'
               PROVE  FALSE
    OBVIOUS
  <2>1. PICK l \in 1 .. Len(wire') : Fresh(l) /\ Removes(l, d)'
    BY DEF Extension, Gone
  <2>2. l \in k + 1 .. Len(wire') /\ wire'[l].kind = "delete" /\ wire'[l].cards[1].id = d
    BY <1>4, <2>1 DEF Removes
  <2>3. Len(wire'[l].cards) = 1
    BY <2>1, <2>2 DEF TypeInv, AnswersInv
  <2>4. QED
    BY <1>2, <2>2, <2>3 DEF IsList, Has
<1>8. QED
  BY <1>3, <1>5, <1>6, <1>7

LEMMA PageStays ==
  ASSUME TypeInv, TypeInv', Extension, FirstPageHoldsAll, PageInv
  PROVE  PageInv'
<1>1. PICK n \in Nat : Extended(n)
  BY ExtendedWire
<1>2. /\ n \in Nat /\ Len(wire) = n
      /\ \A k \in 1 .. n : k \in 1 .. Len(wire') /\ wire'[k] = wire[k]
      /\ \A k \in 1 .. Len(wire') : k \in 1 .. n \/ (k = n + 1 /\ Fresh(k))
  BY <1>1 DEF Extended
<1>3. /\ ServerMoves /\ TableTypes /\ TableTypes'
      /\ documents' = documents /\ interval' = interval /\ loaded' = loaded
      /\ \A d \in Docs : d \in own' => d \in own /\ InTable(d)'
  BY DEF Extension, TypeInv
<1>4. own \in SUBSET Docs /\ own' \in SUBSET Docs /\ \A d \in own : InTable(d)
  BY DEF TypeInv, PageTypes, AnswersInv
<1>5. \A k \in 1 .. n : IsList(k)' <=> IsList(k)
  BY <1>2 DEF IsList
\* A new list is the table as it stays.
<1>6. ASSUME NEW k \in 1 .. Len(wire'), IsList(k)', k \notin 1 .. n
      PROVE  /\ SingleCards(wire'[k].cards)
             /\ \A d \in Docs : InTable(d)' <=> Has(wire'[k].cards, d)
             /\ \A d \in Docs : InTable(d)' => HasCard(wire'[k].cards, Card(d, status'[d]))
  <2>1. wire'[k].cards = FirstPage /\ status' = status /\ table' = table
    BY <1>2, <1>6 DEF Extension
  <2>2. \A d : InTable(d)' <=> InTable(d)
    BY <2>1 DEF InTable
  <2>3. SingleCards(FirstPage) /\ \A d \in Docs : Has(FirstPage, d) => InTable(d)
    BY <1>3, ServedPage DEF Has
  <2>4. \A d \in Docs : InTable(d) => Has(FirstPage, d) /\ HasCard(FirstPage, Card(d, status[d]))
    BY <1>3, AllOnFirstPage, ServedPage
  <2>5. QED
    BY <2>1, <2>2, <2>3, <2>4
<1>7. RowsInv'
  <2> SUFFICES ASSUME NEW k \in 1 .. Len(wire'), IsList(k)'
               PROVE  /\ SingleCards(wire'[k].cards)
                      /\ \A d \in Docs \ unseen' : ~Later(k, d)' => (Has(wire'[k].cards, d) <=> InTable(d)')
    BY DEF RowsInv
  <2>1. CASE k \in 1 .. n
    <3>1. wire'[k] = wire[k] /\ IsList(k) /\ k \in 0 .. n
      BY <1>2, <1>5, <2>1
    <3>2. /\ SingleCards(wire[k].cards)
          /\ \A d \in Docs \ unseen : ~Later(k, d) => (Has(wire[k].cards, d) <=> InTable(d))
      BY <1>2, <2>1, <3>1 DEF PageInv, RowsInv
    <3>3. \A d \in Docs \ unseen' : ~Later(k, d)' =>
            d \notin unseen /\ ~Later(k, d) /\ (InTable(d)' <=> InTable(d))
      BY <1>1, <3>1, LaterStays
    <3>4. QED
      BY <3>1, <3>2, <3>3
  <2>2. CASE k \notin 1 .. n
    BY <1>6, <2>2
  <2>3. QED
    BY <2>1, <2>2
<1>8. ShownInv'
  <2> SUFFICES ASSUME interval = "off", loaded
               PROVE  /\ SingleCards(documents)
                      /\ \A d \in Docs \ unseen' : ~Later(0, d)' => (Has(documents, d) <=> InTable(d)')
    BY <1>3 DEF ShownInv
  <2>1. /\ SingleCards(documents)
        /\ \A d \in Docs \ unseen : ~Later(0, d) => (Has(documents, d) <=> InTable(d))
    BY DEF PageInv, ShownInv
  <2>2. 0 \in 0 .. n
    BY <1>2
  <2>3. \A d \in Docs \ unseen' : ~Later(0, d)' =>
          d \notin unseen /\ ~Later(0, d) /\ (InTable(d)' <=> InTable(d))
    BY <1>1, <2>2, LaterStays
  <2>4. QED
    BY <2>1, <2>3
<1>9. OwnInv'
  <2> SUFFICES ASSUME NEW k \in 1 .. Len(wire'), IsList(k)', NEW d \in Docs, InTable(d)',
                      \/ d \in own'
                      \/ \E l \in 1 .. k - 1 : wire'[l].kind = "upload" /\ Has(wire'[l].cards, d)
               PROVE  Has(wire'[k].cards, d)
    BY DEF OwnInv
  <2>1. CASE k \in 1 .. n
    <3>1. wire'[k] = wire[k] /\ IsList(k) /\ \A l \in 1 .. k - 1 : l \in 1 .. n /\ wire'[l] = wire[l]
      BY <1>2, <1>5, <2>1
    <3>2. d \in own \/ \E l \in 1 .. k - 1 : wire[l].kind = "upload" /\ Has(wire[l].cards, d)
      BY <1>3, <3>1
    <3>3. InTable(d)
      <4>1. CASE d \in own
        BY <1>4, <4>1
      <4>2. CASE \E l \in 1 .. k - 1 : wire[l].kind = "upload" /\ Has(wire[l].cards, d)
        <5>1. status[d] # "absent"
          BY <1>2, <3>1, <4>2 DEF TypeInv, AnswersInv, Has
        <5>2. QED
          BY <1>3, <5>1 DEF ServerMoves
      <4>3. QED
        BY <3>2, <4>1, <4>2
    <3>4. QED
      BY <1>2, <2>1, <3>1, <3>2, <3>3 DEF PageInv, OwnInv
  <2>2. CASE k \notin 1 .. n
    BY <1>6, <2>2
  <2>3. QED
    BY <2>1, <2>2
<1>10. OffInv'
  <2> SUFFICES ASSUME interval = "off", NEW d \in own', d \notin reopened'
               PROVE  /\ status'[d] \in Terminal /\ HasCard(documents, Card(d, status'[d]))
                      /\ \A k \in 1 .. Len(wire') : IsList(k)' => HasCard(wire'[k].cards, Card(d, status'[d]))
    BY <1>3 DEF OffInv
  <2>1. d \in Docs /\ d \in own /\ InTable(d)' /\ d \notin reopened
    BY <1>3, <1>4 DEF ServerMoves
  <2>2. /\ status[d] \in Terminal /\ HasCard(documents, Card(d, status[d]))
        /\ \A k \in 1 .. n : IsList(k) => HasCard(wire[k].cards, Card(d, status[d]))
    BY <1>2, <2>1 DEF PageInv, OffInv
  <2>3. status'[d] = status[d]
    <3>1. status'[d] # "deleted"
      BY <1>3, <2>1 DEF TableTypes
    <3>2. QED
      BY <1>3, <2>1, <2>2, <3>1 DEF ServerMoves
  <2>4. ASSUME NEW k \in 1 .. Len(wire'), IsList(k)'
        PROVE  HasCard(wire'[k].cards, Card(d, status'[d]))
    <3>1. CASE k \in 1 .. n
      BY <1>2, <1>5, <2>2, <2>3, <2>4, <3>1
    <3>2. CASE k \notin 1 .. n
      BY <1>6, <2>1, <2>4, <3>2
    <3>3. QED
      BY <3>1, <3>2
  <2>5. QED
    BY <2>2, <2>3, <2>4
<1>11. ListedInv'
  BY <1>3, <1>4 DEF PageInv, ListedInv
<1>12. QED
  BY <1>7, <1>8, <1>9, <1>10, <1>11 DEF PageInv

LEMMA LaterShifts ==
  ASSUME NEW n, Shifted(n), NEW d
  PROVE  /\ \A k \in 0 .. n - 1 : Later(k, d)' <=> Later(k + 1, d)
         /\ Later(0, d) <=> Later(0, d)' \/ (~IsList(1) /\ Has(wire[1].cards, d))
<1>1. /\ n \in Nat /\ Len(wire) = n /\ Len(wire') = n - 1 /\ batch' = batch /\ 1 \in 1 .. n
      /\ \A k \in 1 .. n - 1 : wire'[k] = wire[k + 1] /\ k + 1 \in 1 .. n
  BY DEF Shifted
<1>2. ASSUME NEW k \in 0 .. n - 1
      PROVE  Later(k, d)' <=> Later(k + 1, d)
  <2>1. \A l \in k + 1 .. n - 1 : l \in 1 .. n - 1 /\ l + 1 \in (k + 1) + 1 .. n
    BY <1>1
  <2>2. \A l \in (k + 1) + 1 .. n : l - 1 \in k + 1 .. n - 1 /\ l - 1 \in 1 .. n - 1 /\ (l - 1) + 1 = l
    BY <1>1
  <2>3. Later(k, d)' => Later(k + 1, d)
    BY <1>1, <2>1 DEF Later, IsList
  <2>4. Later(k + 1, d) => Later(k, d)'
    <3>1. ASSUME NEW l \in (k + 1) + 1 .. n, ~IsList(l), Has(wire[l].cards, d)
          PROVE  Later(k, d)'
      <4>1. l - 1 \in k + 1 .. Len(wire') /\ wire'[l - 1] = wire[l]
        BY <1>1, <2>2
      <4>2. QED
        BY <3>1, <4>1 DEF Later, IsList
    <3>2. Has(batch.accepted, d) => Later(k, d)'
      BY <1>1 DEF Later
    <3>3. QED
      BY <1>1, <3>1, <3>2 DEF Later
  <2>5. QED
    BY <2>3, <2>4
<1>3. Later(0, d) <=> Later(1, d) \/ (~IsList(1) /\ Has(wire[1].cards, d))
  <2>1. /\ \A l \in 0 + 1 .. n : l = 1 \/ l \in 1 + 1 .. n
        /\ \A l \in 1 + 1 .. n : l \in 0 + 1 .. n
        /\ 1 \in 0 + 1 .. n
    BY <1>1
  <2>2. QED
    BY <1>1, <2>1 DEF Later
<1>4. 0 \in 0 .. n - 1 /\ 0 + 1 = 1
  BY <1>1
<1>5. Later(0, d)' <=> Later(1, d)
  BY <1>2, <1>4
<1>6. QED
  BY <1>2, <1>3, <1>5

\* What the answers that remain say, when those of the first one's documents that are
\* on the server become the page's own.
LEMMA PageShifts ==
  ASSUME TypeInv, PageInv, NEW n, Shifted(n),
         \A d \in own' : d \in own \/ (wire[1].kind = "upload" /\ Has(wire[1].cards, d))
  PROVE  RowsInv' /\ OwnInv'
<1>1. /\ n \in Nat /\ Len(wire) = n /\ Len(wire') = n - 1 /\ 1 \in 1 .. n
      /\ \A k \in 1 .. n - 1 : wire'[k] = wire[k + 1] /\ k + 1 \in 1 .. n
      /\ status' = status /\ table' = table /\ unseen' = unseen
  BY DEF Shifted
<1>2. /\ \A k \in 1 .. n - 1 : IsList(k)' <=> IsList(k + 1)
      /\ \A d : InTable(d)' <=> InTable(d)
  BY <1>1 DEF IsList, InTable
<1>3. RowsInv'
  <2> SUFFICES ASSUME NEW k \in 1 .. n - 1, IsList(k)'
               PROVE  /\ SingleCards(wire'[k].cards)
                      /\ \A d \in Docs \ unseen : ~Later(k, d)' => (Has(wire'[k].cards, d) <=> InTable(d)')
    BY <1>1 DEF RowsInv
  <2>1. k + 1 \in 1 .. n /\ IsList(k + 1) /\ wire'[k] = wire[k + 1] /\ k \in 0 .. n - 1
    BY <1>1, <1>2
  <2>2. /\ SingleCards(wire[k + 1].cards)
        /\ \A d \in Docs \ unseen : ~Later(k + 1, d) => (Has(wire[k + 1].cards, d) <=> InTable(d))
    BY <1>1, <2>1 DEF PageInv, RowsInv
  <2>3. \A d : Later(k, d)' <=> Later(k + 1, d)
    BY <2>1, LaterShifts
  <2>4. QED
    BY <1>2, <2>1, <2>2, <2>3
<1>4. OwnInv'
  <2> SUFFICES ASSUME NEW k \in 1 .. n - 1, IsList(k)', NEW d \in Docs, InTable(d),
                      \/ d \in own'
                      \/ \E l \in 1 .. k - 1 : wire'[l].kind = "upload" /\ Has(wire'[l].cards, d)
               PROVE  Has(wire'[k].cards, d)
    BY <1>1, <1>2 DEF OwnInv
  <2>1. k + 1 \in 1 .. n /\ IsList(k + 1) /\ wire'[k] = wire[k + 1] /\ 1 \in 1 .. (k + 1) - 1
    BY <1>1, <1>2
  <2>2. \A l \in 1 .. k - 1 : wire'[l] = wire[l + 1] /\ l + 1 \in 1 .. (k + 1) - 1
    <3>1. \A l \in 1 .. k - 1 : l \in 1 .. n - 1 /\ l + 1 \in 1 .. (k + 1) - 1
      BY <1>1
    <3>2. QED
      BY <1>1, <3>1
  <2>3. d \in own \/ \E l \in 1 .. (k + 1) - 1 : wire[l].kind = "upload" /\ Has(wire[l].cards, d)
    BY <2>1, <2>2
  <2>4. QED
    BY <1>1, <2>1, <2>3 DEF PageInv, OwnInv
<1>5. QED
  BY <1>3, <1>4

\* The lists to come, when the page's own documents are decided and shown so.
LEMMA OffShifts ==
  ASSUME NEW n, Shifted(n), own' = own,
         interval' = "off" => \A d \in own \ reopened :
           /\ status[d] \in Terminal /\ HasCard(documents', Card(d, status[d]))
           /\ \A k \in 2 .. n : IsList(k) => HasCard(wire[k].cards, Card(d, status[d]))
  PROVE  OffInv'
<1>1. /\ n \in Nat /\ Len(wire') = n - 1 /\ status' = status /\ reopened' = reopened
      /\ \A k \in 1 .. n - 1 : wire'[k] = wire[k + 1]
  BY DEF Shifted
<1>2. \A k \in 1 .. n - 1 : k + 1 \in 2 .. n /\ (IsList(k)' <=> IsList(k + 1))
  BY <1>1 DEF IsList
<1>3. QED
  BY <1>1, <1>2 DEF OffInv

LEMMA PageOfList ==
  ASSUME TypeInv, InOrder, ListInv, PageInv, NEW i, ListReturns(i)
  PROVE  PageInv'
<1>1. /\ Arrives(i, "list") /\ UNCHANGED <<serverVars, calls, batch, unseen, reopened>>
      /\ documents' = wire[i].cards
      /\ interval' = IF Settled(wire[i].cards) THEN "off" ELSE interval
      /\ own' = own
  BY DEF ListReturns
<1>2. i = 1 /\ wire[1].kind = "list" /\ \E n \in Nat : Shifted(n)
  BY <1>1, FirstArrives
<1>3. PICK n \in Nat : Shifted(n)
  BY <1>2
<1>4. /\ Len(wire) = n /\ 1 \in 1 .. n /\ wire[1].cards \in Seq(Cards) /\ IsList(1)
      /\ status' = status /\ table' = table /\ unseen' = unseen /\ documents' = wire[1].cards
  BY <1>1, <1>2, <1>3 DEF Shifted, IsList
<1>5. RowsInv' /\ OwnInv'
  BY <1>1, <1>3, PageShifts
<1>6. ShownInv'
  <2>1. /\ SingleCards(wire[1].cards)
        /\ \A d \in Docs \ unseen : ~Later(1, d) => (Has(wire[1].cards, d) <=> InTable(d))
    BY <1>4 DEF PageInv, RowsInv
  <2>2. \A d : Later(0, d)' <=> Later(1, d)
    <3>1. 0 \in 0 .. n - 1 /\ 0 + 1 = 1
      BY <1>4
    <3>2. QED
      BY <1>3, <3>1, LaterShifts
  <2>3. \A d : InTable(d)' <=> InTable(d)
    BY <1>4 DEF InTable
  <2>4. QED
    BY <1>4, <2>1, <2>2, <2>3 DEF ShownInv
<1>7. OffInv'
  <2>1. ASSUME interval' = "off", NEW d \in own, d \notin reopened
        PROVE  /\ status[d] \in Terminal /\ HasCard(wire[1].cards, Card(d, status[d]))
               /\ \A k \in 2 .. n : IsList(k) => HasCard(wire[k].cards, Card(d, status[d]))
    <3>1. d \in Docs /\ InTable(d) /\ status[d] # "deleted"
      BY DEF TypeInv, PageTypes, AnswersInv, TableTypes
    <3>2. \A k \in 2 .. n : k \in 1 .. n
      BY <1>4
    <3>3. CASE interval = "off"
      BY <1>4, <2>1, <3>2, <3>3 DEF PageInv, OffInv
    <3>4. CASE interval # "off"
      <4>1. Settled(wire[1].cards)
        BY <1>1, <1>2, <2>1, <3>4
      <4>2. Has(wire[1].cards, d)
        BY <1>4, <3>1 DEF PageInv, OwnInv
      <4>3. PICK j \in 1 .. Len(wire[1].cards) : wire[1].cards[j].id = d
        BY <4>2 DEF Has
      <4>4. PICK c \in Cards : c = wire[1].cards[j]
        BY <1>4, <4>3, ElementOfSeq
      <4>5. HasCard(wire[1].cards, c) /\ c.id = d /\ c.status \in Terminal
        <5>1. DOMAIN wire[1].cards = 1 .. Len(wire[1].cards)
          BY <1>4, LenProperties
        <5>2. QED
          BY <4>1, <4>3, <4>4, <5>1 DEF HasCard, Settled, ToSet
      <4>6. c.status = status[d]
        BY <1>4, <2>1, <3>1, <4>5 DEF ListInv, CardInv, Terminal
      <4>7. Card(d, status[d]) = c
        BY <4>5, <4>6 DEF Card, Cards
      <4>8. ~Gone(d) /\ \A l \in 1 .. n : ~Removes(l, d)
        <5>1. ServerMoves
          <6>1. UNCHANGED serverVars /\ unseen \subseteq unseen' /\ reopened' = reopened /\ TableTypes
            BY <1>1, <1>4 DEF serverVars, TypeInv
          <6>2. QED
            BY <6>1, NothingMoves
        <5>2. QED
          BY <1>4, <3>1, <5>1, RemovedStays DEF Gone
      <4>9. ASSUME NEW k \in 2 .. n, IsList(k)
            PROVE  HasCard(wire[k].cards, c)
        <5>1. \A l \in 1 + 1 .. k - 1 : l \in 1 .. n
          BY <1>4
        <5>2. 1 < k /\ k \in 1 .. n
          BY <1>4
        <5>3. \/ HasCard(wire[k].cards, c) \/ Gone(c.id) \/ c.id \in reopened
              \/ \E l \in 1 + 1 .. k - 1 : Removes(l, c.id)
          BY <1>4, <4>5, <4>9, <5>2 DEF ListInv, RepeatInv
        <5>4. QED
          BY <2>1, <4>5, <4>8, <5>1, <5>3
      <4>10. QED
        BY <4>5, <4>6, <4>7, <4>9
    <3>5. QED
      BY <3>3, <3>4
  <2>2. QED
    BY <1>1, <1>3, <1>4, <2>1, OffShifts
<1>8. ListedInv'
  <2>1. \A d \in own : d \in Docs /\ InTable(d)
    BY DEF TypeInv, PageTypes, AnswersInv
  <2>2. \A d \in own : Has(wire[1].cards, d)
    BY <1>4, <2>1 DEF PageInv, OwnInv
  <2>3. QED
    BY <1>1, <1>4, <2>2 DEF ListedInv
<1>9. QED
  BY <1>5, <1>6, <1>7, <1>8 DEF PageInv

LEMMA PageOfUpload ==
  ASSUME TypeInv, InOrder, PageInv, NEW i, UploadReturns(i)
  PROVE  PageInv'
<1>1. /\ Arrives(i, "upload") /\ UNCHANGED <<serverVars, calls, batch, unseen, reopened>> /\ loaded' = loaded
      /\ IF wire[i].cards = <<>> THEN documents' = documents /\ interval' = interval
         ELSE interval' = wire[i].asked
      /\ own' = own \cup ({c.id : c \in ToSet(wire[i].cards)} \cap ToSet(table))
  BY DEF UploadReturns
<1>2. i = 1 /\ wire[1].kind = "upload" /\ \E n \in Nat : Shifted(n)
  BY <1>1, FirstArrives
<1>3. PICK n \in Nat : Shifted(n)
  BY <1>2
<1>4. /\ Len(wire) = n /\ 1 \in 1 .. n /\ wire[1].cards \in Seq(Cards) /\ wire[1].asked \in Ids
      /\ status' = status /\ table' = table /\ unseen' = unseen
      /\ DOMAIN wire[1].cards = 1 .. Len(wire[1].cards)
  BY <1>3, LenProperties DEF Shifted
<1>5. \A d \in own' : d \in own \/ Has(wire[1].cards, d)
  BY <1>1, <1>2, <1>4 DEF ToSet, Has
<1>6. RowsInv' /\ OwnInv'
  BY <1>2, <1>3, <1>5, PageShifts
<1>7. CASE wire[1].cards = <<>>
  <2>1. Len(wire[1].cards) = 0 /\ \A d : ~Has(wire[1].cards, d)
    BY <1>7 DEF Has
  <2>2. own' = own /\ documents' = documents /\ interval' = interval
    <3>1. ToSet(wire[1].cards) = {}
      BY <1>4, <2>1 DEF ToSet
    <3>2. QED
      BY <1>1, <1>2, <1>7, <3>1
  <2>3. ShownInv'
    <3>1. \A d : Later(0, d) <=> Later(0, d)'
      BY <1>3, <2>1, LaterShifts
    <3>2. \A d : InTable(d)' <=> InTable(d)
      BY <1>4 DEF InTable
    <3>3. QED
      BY <1>1, <1>4, <2>2, <3>1, <3>2 DEF PageInv, ShownInv
  <2>4. OffInv'
    <3>1. \A k \in 2 .. n : k \in 1 .. n
      BY <1>4
    <3>2. QED
      BY <1>3, <1>4, <2>2, <3>1, OffShifts DEF PageInv, OffInv
  <2>5. ListedInv'
    BY <2>2 DEF PageInv, ListedInv
  <2>6. QED
    BY <1>6, <2>3, <2>4, <2>5 DEF PageInv
<1>8. CASE wire[1].cards # <<>>
  <2>1. interval' # "off"
    BY <1>1, <1>2, <1>4, <1>8, ConstantsAssumption DEF Ids
  <2>2. QED
    BY <1>6, <2>1 DEF PageInv, ShownInv, ListedInv, OffInv
<1>9. QED
  BY <1>7, <1>8

LEMMA PageOfRemoval ==
  ASSUME TypeInv, InOrder, PageInv, NEW i, RemovalReturns(i)
  PROVE  PageInv'
<1>1. PICK d : d = Head(wire[i].cards).id
  OBVIOUS
<1>2. /\ Arrives(i, "delete") /\ UNCHANGED <<serverVars, calls, batch, unseen, reopened>> /\ loaded' = loaded
      /\ documents' = Entries(documents, {k \in DOMAIN documents : documents[k].id # d})
      /\ interval' = interval /\ own' = own
  BY <1>1 DEF RemovalReturns, historyVars
<1>3. i = 1 /\ wire[1].kind = "delete" /\ \E n \in Nat : Shifted(n)
  BY <1>2, FirstArrives
<1>4. PICK n \in Nat : Shifted(n)
  BY <1>3
<1>5. /\ Len(wire) = n /\ 1 \in 1 .. n /\ wire[1].cards \in Seq(Cards)
      /\ status' = status /\ table' = table /\ unseen' = unseen
  BY <1>4 DEF Shifted
<1>6. Len(wire[1].cards) = 1 /\ wire[1].cards[1].id = d /\ status[d] = "deleted"
  <2>1. Len(wire[1].cards) = 1 /\ status[wire[1].cards[1].id] = "deleted"
    BY <1>3, <1>5 DEF TypeInv, AnswersInv
  <2>2. Head(wire[1].cards) = wire[1].cards[1]
    BY <1>5, <2>1, EmptySeq, HeadTailProperties
  <2>3. QED
    BY <1>1, <1>3, <2>1, <2>2
<1>7. d \in Docs /\ ~InTable(d)
  <2>1. d \in Docs
    BY <1>5, <1>6, CardType
  <2>2. QED
    BY <1>6, <2>1 DEF TypeInv, TableTypes
<1>8. \A e : Has(wire[1].cards, e) <=> e = d
  BY <1>6 DEF Has
<1>9. /\ ~Has(documents', d)
      /\ SingleCards(documents) => SingleCards(documents')
      /\ \A e : e # d => (Has(documents', e) <=> Has(documents, e))
      /\ \A c : c.id # d /\ HasCard(documents, c) => HasCard(documents', c)
  BY <1>2, CardsWithout DEF TypeInv, PageTypes
<1>10. RowsInv' /\ OwnInv'
  BY <1>2, <1>4, PageShifts
<1>11. ShownInv'
  <2> SUFFICES ASSUME interval = "off", loaded
               PROVE  /\ SingleCards(documents')
                      /\ \A e \in Docs \ unseen : ~Later(0, e)' => (Has(documents', e) <=> InTable(e)')
    BY <1>2, <1>5 DEF ShownInv
  <2>1. /\ SingleCards(documents)
        /\ \A e \in Docs \ unseen : ~Later(0, e) => (Has(documents, e) <=> InTable(e))
    BY DEF PageInv, ShownInv
  <2>2. \A e : e # d /\ ~Later(0, e)' => ~Later(0, e)
    BY <1>4, <1>8, LaterShifts
  <2>3. \A e : InTable(e)' <=> InTable(e)
    BY <1>5 DEF InTable
  <2>4. QED
    BY <1>7, <1>9, <2>1, <2>2, <2>3
<1>12. OffInv'
  <2>1. \A e \in own : e # d
    BY <1>7 DEF TypeInv, AnswersInv
  <2>2. \A e : Card(e, status[e]).id = e
    BY DEF Card
  <2>3. \A k \in 2 .. n : k \in 1 .. n
    BY <1>5
  <2>4. QED
    BY <1>2, <1>4, <1>5, <1>9, <2>1, <2>2, <2>3, OffShifts DEF PageInv, OffInv
<1>13. ListedInv'
  <2>1. \A e \in own : e # d
    BY <1>7 DEF TypeInv, AnswersInv
  <2>2. QED
    BY <1>2, <1>9, <2>1 DEF PageInv, ListedInv
<1>14. QED
  BY <1>10, <1>11, <1>12, <1>13 DEF PageInv

LEMMA PageWithoutList ==
  ASSUME TypeInv, InOrder, PageInv, NEW i, ListFails(i)
  PROVE  PageInv'
<1>1. /\ Arrives(i, "list") /\ UNCHANGED <<serverVars, calls, batch, unseen, reopened>> /\ loaded' = loaded
      /\ documents' = documents /\ interval' = interval /\ own' = own
  BY DEF ListFails, pageVars, historyVars
<1>2. wire[1].kind = "list" /\ \E n \in Nat : Shifted(n)
  BY <1>1, FirstArrives
<1>3. PICK n \in Nat : Shifted(n)
  BY <1>2
<1>4. /\ Len(wire) = n /\ 1 \in 1 .. n
      /\ status' = status /\ table' = table /\ unseen' = unseen
  BY <1>3 DEF Shifted
<1>5. RowsInv' /\ OwnInv'
  BY <1>1, <1>3, PageShifts
<1>6. ShownInv'
  <2>1. \A d : Later(0, d) <=> Later(0, d)'
    BY <1>2, <1>3, LaterShifts DEF IsList
  <2>2. \A d : InTable(d)' <=> InTable(d)
    BY <1>4 DEF InTable
  <2>3. QED
    BY <1>1, <1>4, <2>1, <2>2 DEF PageInv, ShownInv
<1>7. OffInv'
  <2>1. \A k \in 2 .. n : k \in 1 .. n
    BY <1>4
  <2>2. QED
    BY <1>1, <1>3, <1>4, <2>1, OffShifts DEF PageInv, OffInv
<1>8. ListedInv'
  BY <1>1 DEF PageInv, ListedInv
<1>9. QED
  BY <1>5, <1>6, <1>7, <1>8 DEF PageInv

LEMMA PageStep ==
  ASSUME TypeInv, InOrder, FirstPageHoldsAll, ListInv, PageInv, [Next]_vars
  PROVE  PageInv'
<1>1. TypeInv' /\ (Extension \/ Arrival \/ Reload)
  BY EveryStep
<1>2. CASE Extension
  BY <1>1, <1>2, PageStays
<1>3. CASE Arrival
  BY <1>3, PageOfList, PageOfUpload, PageOfRemoval, PageWithoutList DEF Arrival
<1>4. CASE Reload
  <2>1. wire' = <<>> /\ loaded' = FALSE /\ own' = {}
    BY <1>4 DEF Reload
  <2>2. Len(wire') = 0
    BY <2>1
  <2>3. QED
    BY <2>1, <2>2 DEF PageInv, RowsInv, ShownInv, OwnInv, ListedInv, OffInv
<1>5. QED
  BY <1>1, <1>2, <1>3, <1>4

LEMMA PageHolds ==
  ASSUME InOrder, FirstPageHoldsAll
  PROVE  Spec => [](TypeInv /\ PageInv)
<1> DEFINE IInv == TypeInv /\ ListInv /\ PageInv
<1>1. Init => IInv
  <2> SUFFICES ASSUME Init
               PROVE  IInv
    OBVIOUS
  <2>1. TypeInv
    BY InitTypes
  <2>2. wire = <<>> /\ loaded = FALSE /\ own = {}
    BY DEF Init
  <2>3. Len(wire) = 0
    BY <2>2
  <2>4. ListInv /\ PageInv
    BY <2>2, <2>3 DEF ListInv, CardInv, RepeatInv, PageInv, RowsInv, ShownInv, OwnInv, ListedInv, OffInv
  <2>5. QED
    BY <2>1, <2>4
<1>2. IInv /\ [Next]_vars => IInv'
  <2> SUFFICES ASSUME TypeInv, ListInv, PageInv, [Next]_vars
               PROVE  TypeInv' /\ ListInv' /\ PageInv'
    OBVIOUS
  <2>1. TypeInv'
    BY EveryStep
  <2>2. ListInv'
    BY InOrder, FirstPageHoldsAll, ListsStay
  <2>3. PageInv'
    BY InOrder, FirstPageHoldsAll, PageStep
  <2>4. QED
    BY <2>1, <2>2, <2>3
<1>3. IInv => TypeInv /\ PageInv
  OBVIOUS
<1> HIDE DEF IInv
<1>4. QED
  BY <1>1, <1>2, <1>3, PTL DEF Spec

LEMMA SingleCardsCount ==
  ASSUME NEW cards \in Seq(Cards), SingleCards(cards)
  PROVE  Len(cards) = Cardinality({c.id : c \in ToSet(cards)})
<1>1. PICK n \in Nat : Len(cards) = n
  BY LenProperties
<1> DEFINE ids == [i \in 1 .. n |-> cards[i].id]
           shown == {c.id : c \in ToSet(cards)}
<1>2. DOMAIN cards = 1 .. n /\ IsFiniteSet(1 .. n) /\ Cardinality(1 .. n) = n
  BY <1>1, LenProperties, FS_Interval
<1>3. \A i \in 1 .. n : ids[i] \in shown
  BY <1>2 DEF ToSet
<1>4. \A d \in shown : \E i \in 1 .. n : ids[i] = d
  BY <1>2 DEF ToSet
<1>5. \A i, j \in 1 .. n : ids[i] = ids[j] => i = j
  BY <1>1 DEF SingleCards
<1>6. ids \in [1 .. n -> shown]
  BY <1>3
<1> HIDE DEF ids, shown
<1>7. ids \in Surjection(1 .. n, shown) /\ ids \in Injection(1 .. n, shown)
  BY <1>4, <1>5, <1>6 DEF Surjection, Injection, IsInjective
<1>8. Cardinality(shown) = n
  BY <1>2, <1>7, FS_Surjection
<1>9. QED
  BY <1>1, <1>8 DEF shown

\* Once nothing is under way and polling is over, the page shows one card for each
\* document of the server, but for those changed behind its back: for any number of
\* documents that one page of the list holds, when answers arrive in order.
THEOREM PageShowsTable ==
  ASSUME InOrder, FirstPageHoldsAll
  PROVE  Spec => []ShowsTable
<1>1. TypeInv /\ PageInv => ShowsTable
  <2> SUFFICES ASSUME TypeInv, PageInv, loaded, Quiet, interval = "off"
               PROVE  /\ Len(documents) = Cardinality(ShownIds)
                      /\ ShownIds \ unseen = ToSet(table) \ unseen
    BY DEF ShowsTable
  <2>1. documents \in Seq(Cards) /\ DOMAIN documents = 1 .. Len(documents)
    BY LenProperties DEF TypeInv, PageTypes
  <2>2. /\ SingleCards(documents)
        /\ \A d \in Docs \ unseen : ~Later(0, d) => (Has(documents, d) <=> InTable(d))
    BY DEF PageInv, ShownInv
  <2>3. Len(documents) = Cardinality(ShownIds)
    BY <2>1, <2>2, SingleCardsCount DEF ShownIds
  <2>4. \A d : ~Later(0, d)
    <3>1. wire = <<>> /\ batch.accepted = <<>>
      BY DEF Quiet, TypeInv, NetworkTypes
    <3>2. Len(wire) = 0 /\ Len(batch.accepted) = 0
      BY <3>1
    <3>3. QED
      BY <3>2 DEF Later, Has
  <2>5. \A d : d \in ShownIds => d \in Docs
    <3>1. \A c \in ToSet(documents) : c \in Cards
      BY <2>1 DEF ToSet
    <3>2. QED
      BY <3>1 DEF ShownIds, Cards
  <2>6. \A d : d \in ToSet(table) <=> InTable(d)
    BY TableHas
  <2>7. \A d : d \in ToSet(table) => d \in Docs
    BY DEF ToSet, TypeInv, TableTypes
  <2>8. \A d : d \in ShownIds <=> Has(documents, d)
    BY <2>1 DEF ShownIds, ToSet, Has
  <2>9. QED
    BY <2>2, <2>3, <2>4, <2>5, <2>6, <2>7, <2>8
<1>2. QED
  BY <1>1, InOrder, FirstPageHoldsAll, PageHolds, PTL

\* Polling goes on until each document this page uploaded is shown as the server has
\* decided it, unless it was processed again: for any number of documents that one page of the list holds, when
\* answers arrive in order.
THEOREM OwnUploadsWatched ==
  ASSUME InOrder, FirstPageHoldsAll
  PROVE  Spec => []UploadsWatched
<1>1. TypeInv /\ PageInv => UploadsWatched
  <2> SUFFICES ASSUME TypeInv, PageInv, interval = "off", NEW d \in own, d \notin reopened
               PROVE  status[d] \in Terminal /\ Card(d, status[d]) \in ToSet(documents)
    BY DEF UploadsWatched
  <2>1. status[d] \in Terminal /\ HasCard(documents, Card(d, status[d]))
    BY DEF PageInv, OffInv
  <2>2. DOMAIN documents = 1 .. Len(documents)
    BY LenProperties DEF TypeInv, PageTypes
  <2>3. QED
    BY <2>1, <2>2 DEF HasCard, ToSet
<1>2. QED
  BY <1>1, InOrder, FirstPageHoldsAll, PageHolds, PTL

\* What the tests promise of an upload holds for a user whose documents all fit the
\* first page: then each stays listed that this page uploaded and the server has.
THEOREM UploadsAreListed ==
  ASSUME InOrder, FirstPageHoldsAll
  PROVE  Spec => []UploadedIsListed
<1>1. TypeInv /\ PageInv => UploadedIsListed
  <2> SUFFICES ASSUME TypeInv, PageInv, interval = "off", NEW d \in own
               PROVE  d \in ShownIds
    BY DEF UploadedIsListed
  <2>1. Has(documents, d)
    BY DEF PageInv, ListedInv
  <2>2. DOMAIN documents = 1 .. Len(documents)
    BY LenProperties DEF TypeInv, PageTypes
  <2>3. QED
    BY <2>1, <2>2 DEF Has, ShownIds, ToSet
<1>2. QED
  BY <1>1, InOrder, FirstPageHoldsAll, PageHolds, PTL
=============================================================================
