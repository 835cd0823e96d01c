--------------------------- MODULE RetrievalProofs ---------------------------
(***************************************************************************)
(* Proofs about Retrieval, for any chunks, documents and top_k settings    *)
(* within the assumption, any lengths of blocks and any context limit.     *)
(***************************************************************************)
EXTENDS Retrieval, FiniteSetTheorems, TLAPS

\* Where fusion has happened, its result stands.
FusedRankings ==
  /\ lexical \in Seq(Chunks) /\ Len(lexical) <= LexicalTopK
  /\ semantic \in Seq(Chunks) /\ Len(semantic) <= SemanticTopK
  /\ fused \in Seq(Chunks)
  /\ fused # <<>> => fused \in Fusion(lexical, semantic)
  /\ at \in {"lexical", "semantic"} => fused = <<>>

\* The state of pack_context's loop.
Packing ==
  /\ result \in Seq(Chunks) /\ length \in [Chunks -> Nat]
  /\ next \in Nat \ {0} /\ blocks \in Seq(Blocks) /\ used \in Nat
  /\ next = Len(blocks) + 1
  /\ Len(blocks) <= Selected
  /\ used = IF blocks = <<>> THEN 0 ELSE blocks[Len(blocks)].to
  /\ at \notin {"packing", "packed"} => blocks = <<>>
  /\ at = "packing" => result # <<>>

\* The inductive invariants.
RankInvariant == FusedRankings
PackInvariant == Packing /\ ContextFits /\ LabelsInOrder /\ ContextFilled

-----------------------------------------------------------------------------
\* A ranking is a sequence no longer than its limit.
LEMMA RankingIsSequence ==
  ASSUME NEW S \in SUBSET Chunks, NEW k \in Nat, NEW s \in Rankings(S, k)
  PROVE  s \in Seq(Chunks) /\ Len(s) <= k
<1>1. IsFiniteSet(S) /\ Cardinality(S) \in Nat
  BY RetrievalAssumption, FS_Subset, FS_CardinalityType
<1>2. PICK n \in 0 .. Lesser(k, Cardinality(S)) : s \in [1 .. n -> S]
  BY DEF Rankings, Orders
<1>3. n \in Nat /\ n <= k
  BY <1>1, <1>2 DEF Lesser
<1>4. QED
  BY <1>2, <1>3

\* Fusion and the join order sets of chunks.
LEMMA OrderIsSequence ==
  ASSUME NEW S \in SUBSET Chunks, NEW n \in Nat, NEW s \in Orders(S, n)
  PROVE  s \in Seq(Chunks) /\ Len(s) = n /\ \A i \in 1 .. Len(s) : s[i] \in S
<1>1. s \in [1 .. n -> S]
  BY DEF Orders
<1>2. QED
  BY <1>1

LEMMA FusionIsSequence ==
  ASSUME NEW lex, NEW sem, NEW s \in Fusion(lex, sem)
  PROVE  /\ s \in Seq(Chunks)
         /\ \A i \in 1 .. Len(s) : In(s[i], lex) \/ In(s[i], sem)
         /\ \A i, j \in 1 .. Len(s) : i < j => Ahead(s[i], s[j], lex, sem)
<1> DEFINE hits == {c \in Chunks : In(c, lex) \/ In(c, sem)}
<1> DEFINE n == Lesser(FinalTopK, Cardinality(hits))
<1>1. hits \in SUBSET Chunks /\ Cardinality(hits) \in Nat
  BY RetrievalAssumption, FS_Subset, FS_CardinalityType
<1>2. n \in Nat
  BY <1>1, RetrievalAssumption DEF Lesser
<1>3. s \in Orders(hits, n) /\ \A i, j \in 1 .. Len(s) : i < j => Ahead(s[i], s[j], lex, sem)
  BY DEF Fusion
<1> HIDE DEF n
<1>4. s \in Seq(Chunks) /\ \A i \in 1 .. Len(s) : s[i] \in hits
  BY <1>1, <1>2, <1>3, OrderIsSequence
<1>5. QED
  BY <1>3, <1>4

\* The ranks of the found, and with them the terms of their scores, are bounded.
LEMMA TermBounds ==
  ASSUME NEW s \in Seq(Chunks), Len(s) <= 61, NEW c, In(c, s)
  PROVE  Term(c, s) \in 61 .. 121
<1>1. Rank(c, s) \in 1 .. Len(s)
  BY DEF In, Rank
<1>2. Len(s) \in Nat
  OBVIOUS
<1>3. \A n \in Nat : n <= 61 => \A m \in 1 .. n : m \in 1 .. 61
  OBVIOUS
<1>4. \A n \in 1 .. 61 : 60 + n \in 61 .. 121
  OBVIOUS
<1>5. Rank(c, s) \in 1 .. 61
  BY <1>1, <1>2, <1>3
<1>6. QED
  BY <1>4, <1>5 DEF Term

\* Two terms of 1 / 121 or more beat one of 1 / 61.
LEMMA TwoBeatOne ==
  ASSUME NEW a \in 61 .. 121, NEW b \in 61 .. 121, NEW d \in 61 .. 121
  PROVE  (a + b) * d > a * b
<1>1. (a + b) * d >= (a + b) * 61
  <2>1. \A x, y, z \in Nat : y >= z => x * y >= x * z
    OBVIOUS
  <2>2. QED
    BY <2>1
<1>2. a * b <= 121 * a /\ a * b <= 121 * b
  <2>1. \A x, y, z \in Nat : y <= z => x * y <= z * x /\ y * x <= z * x
    OBVIOUS
  <2>2. QED
    BY <2>1
<1>3. a * b \in Nat /\ (a + b) * d \in Nat
  OBVIOUS
<1>4. QED
  BY <1>1, <1>2, <1>3

-----------------------------------------------------------------------------
LEMMA RankInductive == RetrievalSpec => []RankInvariant
<1> USE DEF RankInvariant, FusedRankings
<1>1. RetrievalInit => RankInvariant
  BY RetrievalAssumption DEF RetrievalInit
<1>2. RankInvariant /\ [RetrievalNext]_retrievalVars => RankInvariant'
  <2> SUFFICES ASSUME RankInvariant, [RetrievalNext]_retrievalVars
               PROVE  RankInvariant'
    OBVIOUS
  <2>1. CASE SearchLexically
    <3>1. lexical' \in Seq(Chunks) /\ Len(lexical') <= LexicalTopK
      BY <2>1, RankingIsSequence, RetrievalAssumption DEF SearchLexically
    <3>2. QED
      BY <2>1, <3>1 DEF SearchLexically
  <2>2. CASE SearchSemantically
    <3>1. semantic' \in Seq(Chunks) /\ Len(semantic') <= SemanticTopK
      BY <2>2, RankingIsSequence, RetrievalAssumption DEF SearchSemantically
    <3>2. fused' \in Fusion(lexical, semantic') /\ lexical' = lexical
          /\ at' \notin {"lexical", "semantic"}
      BY <2>2 DEF SearchSemantically
    <3>3. fused' \in Seq(Chunks)
      BY <3>2, FusionIsSequence
    <3>4. Fusion(lexical, semantic)' = Fusion(lexical, semantic')
      BY <3>2 DEF Fusion, In, Ahead, Score, Term, Rank
    <3>5. QED
      BY <3>1, <3>2, <3>3, <3>4
  <2>3. CASE \/ NothingToSearch \/ SemanticFails \/ Join \/ Pack
             \/ \E d \in Docs : DocumentChanges(d)
             \/ UNCHANGED retrievalVars
    <3>1. /\ lexical' = lexical /\ semantic' = semantic /\ fused' = fused
          /\ at' \in {"lexical", "semantic"} => at' = at
      BY <2>3 DEF NothingToSearch, SemanticFails, Join, Pack, PackBlock, PackEnds, DocumentChanges,
                  retrievalVars, rankVars
    <3>2. Fusion(lexical, semantic)' = Fusion(lexical, semantic)
      BY <3>1 DEF Fusion, In, Ahead, Score, Term, Rank
    <3>3. QED
      BY <3>1, <3>2
  <2>4. QED
    BY <2>1, <2>2, <2>3 DEF RetrievalNext, Retrieve
<1>3. QED
  BY <1>1, <1>2, PTL DEF RetrievalSpec

\* What both searches find outranks what one finds.
THEOREM AgreementWins == RetrievalSpec => []AgreedFirst
<1>1. RankInvariant => AgreedFirst
  <2> SUFFICES ASSUME FusedRankings,
                      NEW i \in 1 .. Len(fused), NEW j \in 1 .. Len(fused), i < j, Both(fused[j])
               PROVE  Both(fused[i])
    BY DEF RankInvariant, AgreedFirst
  <2> DEFINE c == fused[i]
  <2> DEFINE d == fused[j]
  <2>1. fused # <<>>
    BY DEF FusedRankings
  <2>2. (In(c, lexical) \/ In(c, semantic)) /\ Ahead(c, d, lexical, semantic)
    BY <2>1, FusionIsSequence DEF FusedRankings
  <2>3. /\ Len(lexical) <= 61 /\ Len(semantic) <= 61
    BY RetrievalAssumption DEF FusedRankings
  <2> DEFINE x == Score(c, lexical, semantic)
  <2> DEFINE y == Score(d, lexical, semantic)
  <2>4. PICK a \in 61 .. 121, b \in 61 .. 121 : y = [num |-> a + b, den |-> a * b]
    <3>1. Term(d, lexical) \in 61 .. 121 /\ Term(d, semantic) \in 61 .. 121
      BY <2>3, TermBounds DEF Both, FusedRankings
    <3>2. QED
      BY <3>1 DEF Score, Both
  <2>5. SUFFICES ASSUME ~Both(c) PROVE FALSE
    OBVIOUS
  <2>6. PICK t \in 61 .. 121 : x = [num |-> 1, den |-> t]
    <3>1. In(c, lexical) => Term(c, lexical) \in 61 .. 121
      BY <2>3, TermBounds DEF FusedRankings
    <3>2. In(c, semantic) => Term(c, semantic) \in 61 .. 121
      BY <2>3, TermBounds DEF FusedRankings
    <3>3. QED
      BY <2>2, <2>5, <3>1, <3>2 DEF Score, Both
  <2>7. Higher(x, y) \/ ~Higher(y, x)
    BY <2>2 DEF Ahead
  <2> HIDE DEF x, y
  <2>8. (a + b) * t > a * b /\ a * b \in Nat /\ (a + b) * t \in Nat
    BY TwoBeatOne
  <2>9. ~Higher(x, y) /\ Higher(y, x)
    BY <2>4, <2>6, <2>8 DEF Higher
  <2>10. QED
    BY <2>7, <2>9
<1>2. QED
  BY <1>1, RankInductive, PTL

-----------------------------------------------------------------------------
(***************************************************************************)
(* One more block: it starts a separator behind the last one, and ends     *)
(* where used says.                                                        *)
(***************************************************************************)
LEMMA PackBlockStep ==
  ASSUME PackInvariant, PackBlock
  PROVE  PackInvariant'
<1> DEFINE b == [label |-> next, chunk |-> result[next], from |-> From, to |-> From + Kept]
<1>1. /\ at = "packing" /\ next <= Selected /\ ~Overflows
      /\ blocks' = Append(blocks, b) /\ next' = next + 1
      /\ used' = used + Lesser(Extra, IF blocks = <<>> THEN MaxChars ELSE Extra)
      /\ at' = at /\ result' = result /\ length' = length
  BY DEF PackBlock
<1>2. /\ result \in Seq(Chunks) /\ length \in [Chunks -> Nat]
      /\ next \in Nat \ {0} /\ blocks \in Seq(Blocks) /\ used \in Nat
      /\ next = Len(blocks) + 1 /\ Len(blocks) \in Nat
  BY DEF PackInvariant, Packing
<1>3. Selected \in Nat /\ Selected <= Len(result) /\ Selected' = Selected
  BY <1>1, <1>2, RetrievalAssumption DEF Selected, Lesser
<1>4. result[next] \in Chunks /\ length[result[next]] \in Nat
  BY <1>1, <1>2, <1>3
<1> DEFINE l == length[result[next]]
<1> HIDE DEF l
<1>5. From \in Nat /\ Kept \in Nat /\ From + Kept = used' /\ From + Kept <= MaxChars
  <2>0. l \in Nat /\ MaxChars \in Nat
    BY <1>4, RetrievalAssumption DEF l
  <2>1. CASE blocks = <<>>
    <3>1. used = 0
      BY <2>1, <1>1, <1>2 DEF PackInvariant, Packing
    <3>2. From = 0 /\ Kept = Lesser(l, MaxChars) /\ Extra = l + 0
      BY <2>1 DEF From, Kept, Extra, l
    <3>3. used' = 0 + Lesser(l + 0, MaxChars)
      BY <1>1, <2>1, <3>1, <3>2
    <3>4. QED
      BY <2>0, <3>2, <3>3 DEF Lesser
  <2>2. CASE blocks # <<>>
    <3>1. blocks[Len(blocks)] \in Blocks /\ used = blocks[Len(blocks)].to
      BY <1>2, <2>2 DEF PackInvariant, Packing
    <3>2. From = used + 2 /\ Kept = l /\ Extra = l + 2 /\ used' = used + (l + 2)
      BY <1>1, <2>0, <2>2, <3>1 DEF From, Kept, Extra, Lesser, Separator, l
    <3>3. ~(used + (l + 2) >= MaxChars)
      BY <1>1, <2>2, <3>2 DEF Overflows
    <3>4. QED
      BY <1>2, <2>0, <3>2, <3>3
  <2>3. QED
    BY <2>1, <2>2
<1>6. b \in Blocks /\ b.to = used' /\ b.to <= MaxChars /\ b.label = next /\ b.chunk = result[next]
  BY <1>2, <1>4, <1>5 DEF Blocks
<1> HIDE DEF b
<1>7. /\ blocks' \in Seq(Blocks) /\ Len(blocks') = Len(blocks) + 1
      /\ \A i \in 1 .. Len(blocks) : blocks'[i] = blocks[i]
      /\ blocks'[Len(blocks) + 1] = b
  BY <1>1, <1>2, <1>6
<1>8. \A i \in 1 .. Len(blocks') : i \in 1 .. Len(blocks) \/ (i = next /\ blocks'[i] = b)
  BY <1>2, <1>7
<1>9. used' \in Nat
  BY <1>5
<1>10. Packing'
  <2>1. blocks' # <<>> /\ used' = blocks'[Len(blocks')].to
    BY <1>6, <1>7
  <2>2. Len(blocks') <= Selected' /\ next' \in Nat \ {0} /\ next' = Len(blocks') + 1
    BY <1>1, <1>2, <1>3, <1>7
  <2>3. QED
    BY <1>1, <1>2, <1>7, <1>9, <2>1, <2>2 DEF PackInvariant, Packing
<1>11. ContextFits'
  BY <1>6, <1>7, <1>8 DEF PackInvariant, ContextFits
<1>12. LabelsInOrder'
  BY <1>1, <1>6, <1>7, <1>8 DEF PackInvariant, LabelsInOrder
<1>13. ContextFilled'
  BY <1>1 DEF ContextFilled
<1>14. QED
  BY <1>10, <1>11, <1>12, <1>13 DEF PackInvariant

\* The loop ends: not before its first block, and not while the next fits.
LEMMA PackEndsStep ==
  ASSUME PackInvariant, PackEnds
  PROVE  PackInvariant'
<1>1. /\ at = "packing" /\ (next <= Selected => Overflows) /\ at' = "packed"
      /\ result' = result /\ length' = length
      /\ next' = next /\ blocks' = blocks /\ used' = used
  BY DEF PackEnds, packVars
<1>2. /\ result \in Seq(Chunks) /\ length \in [Chunks -> Nat]
      /\ blocks \in Seq(Blocks) /\ used \in Nat
      /\ next = Len(blocks) + 1 /\ Len(blocks) \in Nat /\ Len(blocks) <= Selected
      /\ result # <<>> /\ Len(result) \in Nat
  BY <1>1 DEF PackInvariant, Packing
<1>3. Selected \in Nat \ {0}
  BY <1>2, RetrievalAssumption DEF Selected, Lesser
<1>4. blocks # <<>>
  BY <1>1, <1>2, <1>3 DEF Overflows
<1>5. Len(blocks) = Selected \/ From + length[result[Len(blocks) + 1]] >= MaxChars
  <2>1. CASE next <= Selected
    <3>1. used + Extra >= MaxChars
      BY <1>1, <2>1 DEF Overflows
    <3>2. blocks[Len(blocks)] \in Blocks /\ used = blocks[Len(blocks)].to
      BY <1>2, <1>4 DEF PackInvariant, Packing
    <3>3. next \in 1 .. Len(result)
      BY <1>2, <1>3, <2>1, RetrievalAssumption DEF Selected, Lesser
    <3>4. result[next] \in Chunks /\ length[result[next]] \in Nat
      BY <1>2, <3>3
    <3>5. From = used + 2 /\ Extra = length[result[next]] + 2
      BY <1>4, <3>2 DEF From, Extra, Separator
    <3>6. From + length[result[next]] = used + Extra
      BY <1>2, <3>4, <3>5
    <3>7. QED
      BY <1>2, <3>1, <3>6
  <2>2. CASE ~(next <= Selected)
    BY <1>2, <1>3, <2>2
  <2>3. QED
    BY <2>1, <2>2
<1>6. ContextFilled'
  BY <1>1, <1>4, <1>5 DEF ContextFilled, Selected, From
<1>7. Packing' /\ ContextFits' /\ LabelsInOrder'
  BY <1>1 DEF PackInvariant, Packing, ContextFits, LabelsInOrder, Selected
<1>8. QED
  BY <1>6, <1>7 DEF PackInvariant

\* Before the join there is no block, and the join brings the chunks to pack.
LEMMA RetrieveStep ==
  ASSUME PackInvariant, Retrieve \/ \E d \in Docs : DocumentChanges(d)
  PROVE  PackInvariant'
<1>1. /\ at \notin {"packing", "packed"} /\ at' # "packed"
      /\ next' = next /\ blocks' = blocks /\ used' = used
  BY DEF Retrieve, NothingToSearch, SearchLexically, SearchSemantically, SemanticFails, Join,
         DocumentChanges, packVars
<1>2. blocks = <<>> /\ used = 0 /\ Len(blocks) = 0 /\ next = 1
  BY <1>1 DEF PackInvariant, Packing
<1>3. ContextFits' /\ LabelsInOrder' /\ ContextFilled'
  BY <1>1, <1>2 DEF ContextFits, LabelsInOrder, ContextFilled
<1>4. result' \in Seq(Chunks) /\ length' \in [Chunks -> Nat] /\ (at' = "packing" => result' # <<>>)
  <2>1. CASE Join
    <3>1. JoinedRows \in SUBSET Chunks /\ Cardinality(JoinedRows) \in Nat
      BY RetrievalAssumption, FS_Subset, FS_CardinalityType DEF JoinedRows
    <3>2. result' \in Orders(JoinedRows, Cardinality(JoinedRows)) /\ length' \in [Chunks -> Lengths \cup {0}]
          /\ (at' = "packing" => result' # <<>>)
      BY <2>1 DEF Join
    <3>3. result' \in Seq(Chunks)
      BY <3>1, <3>2, OrderIsSequence
    <3>4. Lengths \cup {0} \subseteq Nat
      BY RetrievalAssumption
    <3>5. QED
      BY <3>2, <3>3, <3>4
  <2>2. CASE ~Join
    BY <2>2 DEF PackInvariant, Packing, Retrieve, NothingToSearch, SearchLexically,
         SearchSemantically, SemanticFails, DocumentChanges
  <2>3. QED
    BY <2>1, <2>2
<1>5. 0 <= Selected'
  BY <1>4, RetrievalAssumption DEF Selected, Lesser
<1>6. Packing'
  BY <1>1, <1>2, <1>4, <1>5 DEF PackInvariant, Packing
<1>7. QED
  BY <1>3, <1>6 DEF PackInvariant

LEMMA PackInductive == RetrievalSpec => []PackInvariant
<1>1. RetrievalInit => PackInvariant
  <2> SUFFICES ASSUME RetrievalInit PROVE PackInvariant
    OBVIOUS
  <2>1. /\ at = "lexical" /\ result = <<>> /\ length \in [Chunks -> Nat]
        /\ next = 1 /\ blocks = <<>> /\ used = 0 /\ Len(blocks) = 0 /\ Len(result) = 0
    BY DEF RetrievalInit
  <2>2. 0 <= Selected
    BY <2>1, RetrievalAssumption DEF Selected, Lesser
  <2>3. QED
    BY <2>1, <2>2 DEF PackInvariant, Packing, ContextFits, LabelsInOrder, ContextFilled
<1>2. PackInvariant /\ [RetrievalNext]_retrievalVars => PackInvariant'
  <2> SUFFICES ASSUME PackInvariant, [RetrievalNext]_retrievalVars
               PROVE  PackInvariant'
    OBVIOUS
  <2>1. CASE Pack
    BY <2>1, PackBlockStep, PackEndsStep DEF Pack
  <2>2. CASE Retrieve \/ \E d \in Docs : DocumentChanges(d)
    BY <2>2, RetrieveStep
  <2>3. CASE UNCHANGED retrievalVars
    BY <2>3 DEF retrievalVars, packVars, PackInvariant, Packing, ContextFits, LabelsInOrder,
         ContextFilled, Selected, From
  <2>4. QED
    BY <2>1, <2>2, <2>3 DEF RetrievalNext
<1>3. QED
  BY <1>1, <1>2, PTL DEF RetrievalSpec

\* The context stays within its limit.
THEOREM ContextIsBounded == RetrievalSpec => []ContextFits
<1>1. PackInvariant => ContextFits
  BY DEF PackInvariant
<1>2. QED
  BY <1>1, PackInductive, PTL

\* Labels run from 1 without a gap and follow the ranking.
THEOREM LabelsFollowRanks == RetrievalSpec => []LabelsInOrder
<1>1. PackInvariant => LabelsInOrder
  BY DEF PackInvariant
<1>2. QED
  BY <1>1, PackInductive, PTL

\* A context is never empty, nor cut shorter than the limit asks.
THEOREM ContextIsFilled == RetrievalSpec => []ContextFilled
<1>1. PackInvariant => ContextFilled
  BY DEF PackInvariant
<1>2. QED
  BY <1>1, PackInductive, PTL

-----------------------------------------------------------------------------
(***************************************************************************)
(* A chunk that both searches found at least as good scores higher.        *)
(***************************************************************************)
LEMMA RankOfMember ==
  ASSUME NEW s \in Seq(Chunks), NEW c, In(c, s)
  PROVE  Rank(c, s) \in 1 .. Len(s) /\ s[Rank(c, s)] = c
  BY DEF In, Rank

\* 1 / a + 1 / b grows as a and b get smaller.
LEMMA SmallerTermsScoreMore ==
  ASSUME NEW a \in 61 .. 121, NEW b \in 61 .. 121, NEW x \in 61 .. 121, NEW y \in 61 .. 121,
         x < a, y < b
  PROVE  (x + y) * (a * b) > (a + b) * (x * y)
<1>1. \A m, n, k \in Nat : n > m => n * k >= m * k /\ k * n >= k * m
  OBVIOUS
<1>2. \A m, n, k \in Nat : n > m /\ k > 0 => n * k > m * k /\ k * n > k * m
  OBVIOUS
<1>3. a \in Nat /\ b \in Nat /\ x \in Nat /\ y \in Nat /\ a > 0 /\ b > 0 /\ x > 0 /\ y > 0
  OBVIOUS
<1>4. /\ x * a \in Nat /\ y * b \in Nat /\ x * a > 0 /\ y * b > 0
  BY <1>2, <1>3
<1>5. (x * a) * b > (x * a) * y
  BY <1>2, <1>3, <1>4
<1>6. (y * b) * a > (y * b) * x
  BY <1>2, <1>3, <1>4
<1>7. \A p, q, r, s \in Nat : (p + q) * (r * s) = (p * r) * s + (q * s) * r
  OBVIOUS
<1>8. (x + y) * (a * b) = (x * a) * b + (y * b) * a
  BY <1>3, <1>7
<1>9. (a + b) * (x * y) = (x * a) * y + (y * b) * x
  <2>1. \A p, q, r, s \in Nat : (p + q) * (r * s) = (r * p) * s + (s * q) * r
    OBVIOUS
  <2>2. QED
    BY <1>3, <2>1
<1>10. /\ (x * a) * b \in Nat /\ (x * a) * y \in Nat /\ (y * b) * a \in Nat /\ (y * b) * x \in Nat
  BY <1>3, <1>4
<1>11. \A p, q, r, s \in Nat : p > q /\ r > s => p + r > q + s
  OBVIOUS
<1>12. QED
  BY <1>5, <1>6, <1>8, <1>9, <1>10, <1>11

LEMMA BetterScoresHigher ==
  ASSUME FusedRankings, NEW c \in Chunks, NEW d \in Chunks, c # d,
         In(c, lexical) \/ In(c, semantic),
         AsGood(d, c, lexical), AsGood(d, c, semantic)
  PROVE  ~Ahead(c, d, lexical, semantic)
<1>1. /\ Len(lexical) <= 61 /\ Len(semantic) <= 61
      /\ lexical \in Seq(Chunks) /\ semantic \in Seq(Chunks)
  BY RetrievalAssumption DEF FusedRankings
<1> DEFINE x == Score(c, lexical, semantic)
           y == Score(d, lexical, semantic)
<1>2. ASSUME NEW s \in {lexical, semantic}, In(c, s)
      PROVE  In(d, s) /\ Term(d, s) < Term(c, s) /\ Term(c, s) \in 61 .. 121 /\ Term(d, s) \in 61 .. 121
  <2>1. s \in Seq(Chunks) /\ Len(s) <= 61
    BY <1>1
  <2>2. In(d, s) /\ Rank(d, s) <= Rank(c, s)
    BY <1>2 DEF AsGood
  <2>3. Rank(d, s) # Rank(c, s) /\ Rank(c, s) \in 1 .. Len(s) /\ Rank(d, s) \in 1 .. Len(s)
    BY <1>2, <2>1, <2>2, RankOfMember
  <2>4. Term(d, s) < Term(c, s)
    BY <2>1, <2>2, <2>3 DEF Term
  <2>5. QED
    BY <1>2, <2>1, <2>2, <2>4, TermBounds
<1>3. ASSUME NEW s \in {lexical, semantic}, In(d, s)
      PROVE  Term(d, s) \in 61 .. 121
  BY <1>1, <1>3, TermBounds
<1>4. Higher(y, x)
  <2>1. CASE In(c, lexical) /\ In(c, semantic)
    <3>1. /\ In(d, lexical) /\ Term(d, lexical) < Term(c, lexical)
          /\ Term(c, lexical) \in 61 .. 121 /\ Term(d, lexical) \in 61 .. 121
          /\ In(d, semantic) /\ Term(d, semantic) < Term(c, semantic)
          /\ Term(c, semantic) \in 61 .. 121 /\ Term(d, semantic) \in 61 .. 121
      BY <1>2, <2>1
    <3>2. /\ x = [num |-> Term(c, lexical) + Term(c, semantic), den |-> Term(c, lexical) * Term(c, semantic)]
          /\ y = [num |-> Term(d, lexical) + Term(d, semantic), den |-> Term(d, lexical) * Term(d, semantic)]
      BY <2>1, <3>1 DEF Score
    <3>3. (Term(d, lexical) + Term(d, semantic)) * (Term(c, lexical) * Term(c, semantic)) >
            (Term(c, lexical) + Term(c, semantic)) * (Term(d, lexical) * Term(d, semantic))
      BY <3>1, SmallerTermsScoreMore
    <3> HIDE DEF x, y
    <3>4. QED
      BY <3>2, <3>3 DEF Higher
  <2>2. ASSUME NEW s \in {lexical, semantic}, NEW t \in {lexical, semantic},
               In(c, s), ~(In(c, lexical) /\ In(c, semantic)),
               \/ s = lexical /\ t = semantic
               \/ s = semantic /\ t = lexical
        PROVE  Higher(y, x)
    <3>1. /\ In(d, s) /\ Term(d, s) < Term(c, s)
          /\ Term(c, s) \in 61 .. 121 /\ Term(d, s) \in 61 .. 121
      BY <1>2, <2>2
    <3>2. x = [num |-> 1, den |-> Term(c, s)]
      BY <2>2 DEF Score
    <3>3. CASE In(d, t)
      <4>1. Term(d, t) \in 61 .. 121
        BY <1>3, <3>3
      <4>2. PICK a \in 61 .. 121, b \in 61 .. 121 : y = [num |-> a + b, den |-> a * b]
        BY <2>2, <3>1, <3>3, <4>1 DEF Score
      <4>3. (a + b) * Term(c, s) > a * b /\ a * b \in Nat
        BY <3>1, TwoBeatOne
      <4> HIDE DEF x, y
      <4>4. QED
        BY <3>2, <4>2, <4>3 DEF Higher
    <3>4. CASE ~In(d, t)
      <4>1. y = [num |-> 1, den |-> Term(d, s)]
        BY <2>2, <3>1, <3>4 DEF Score
      <4> HIDE DEF x, y
      <4>2. QED
        BY <3>1, <3>2, <4>1 DEF Higher
    <3>5. QED
      BY <3>3, <3>4
  <2>3. QED
    BY <2>1, <2>2
<1>5. ~Higher(x, y)
  <2>1. x.num \in Nat /\ x.den \in Nat /\ y.num \in Nat /\ y.den \in Nat
    <3>1. \A s \in {lexical, semantic} : In(c, s) => Term(c, s) \in Nat
      BY <1>2
    <3>2. \A s \in {lexical, semantic} : In(d, s) => Term(d, s) \in Nat
      BY <1>3
    <3>3. In(d, lexical) \/ In(d, semantic)
      BY DEF AsGood
    <3>4. \A m, n \in Nat : m + n \in Nat /\ m * n \in Nat
      OBVIOUS
    <3>5. QED
      BY <3>1, <3>2, <3>3, <3>4 DEF Score
  <2> HIDE DEF x, y
  <2>2. x.num * y.den \in Nat /\ y.num * x.den \in Nat
    BY <2>1
  <2>3. QED
    BY <1>4, <2>2 DEF Higher
<1>6. QED
  BY <1>4, <1>5 DEF Ahead

\* What the join returns is fused, and in the order of the fusion.
JoinInvariant ==
  /\ at \in {"lexical", "semantic", "join"} => result = <<>>
  /\ result \in Seq(Chunks)
  /\ \A i \in 1 .. Len(result) : In(result[i], fused)
  /\ \A i, j \in 1 .. Len(result) : i < j => Rank(result[i], fused) < Rank(result[j], fused)

LEMMA JoinInductive == RetrievalSpec => []JoinInvariant
<1>1. RetrievalInit => JoinInvariant
  <2> SUFFICES ASSUME RetrievalInit
               PROVE  JoinInvariant
    OBVIOUS
  <2>1. result = <<>> /\ Len(result) = 0
    BY DEF RetrievalInit
  <2>2. QED
    BY <2>1 DEF JoinInvariant
<1>2. JoinInvariant /\ [RetrievalNext]_retrievalVars => JoinInvariant'
  <2> SUFFICES ASSUME JoinInvariant, [RetrievalNext]_retrievalVars
               PROVE  JoinInvariant'
    OBVIOUS
  <2>1. CASE Join
    <3>1. JoinedRows \in SUBSET Chunks /\ Cardinality(JoinedRows) \in Nat
      BY RetrievalAssumption, FS_Subset, FS_CardinalityType DEF JoinedRows
    <3>2. /\ result' \in Orders(JoinedRows, Cardinality(JoinedRows))
          /\ \A i, j \in 1 .. Len(result') : i < j => Rank(result'[i], fused) < Rank(result'[j], fused)
          /\ fused' = fused /\ at' \in {"none", "packing"}
      BY <2>1 DEF Join, rankVars
    <3>3. result' \in Seq(Chunks) /\ \A i \in 1 .. Len(result') : result'[i] \in JoinedRows
      BY <3>1, <3>2, OrderIsSequence
    <3>4. \A i \in 1 .. Len(result') : In(result'[i], fused)
      BY <3>3 DEF JoinedRows
    <3>5. QED
      BY <3>2, <3>3, <3>4 DEF JoinInvariant, In, Rank
  <2>2. CASE NothingToSearch \/ SearchLexically \/ SearchSemantically \/ SemanticFails
    <3>1. result = <<>> /\ result' = result
      BY <2>2 DEF JoinInvariant, NothingToSearch, SearchLexically, SearchSemantically, SemanticFails
    <3>2. Len(result') = 0 /\ result' \in Seq(Chunks)
      BY <3>1
    <3>3. QED
      BY <3>1, <3>2 DEF JoinInvariant
  <2>3. CASE Pack \/ (\E d \in Docs : DocumentChanges(d)) \/ UNCHANGED retrievalVars
    <3>1. /\ result' = result /\ fused' = fused
          /\ at' \in {"lexical", "semantic", "join"} => at' = at
      BY <2>3 DEF Pack, PackBlock, PackEnds, DocumentChanges, retrievalVars, rankVars
    <3>2. QED
      BY <3>1 DEF JoinInvariant, In, Rank
  <2>4. QED
    BY <2>1, <2>2, <2>3 DEF RetrievalNext, Retrieve
<1>3. QED
  BY <1>1, <1>2, PTL DEF RetrievalSpec

\* No chunk comes out of the join before one that both searches found better.
THEOREM BetterComesFirst == RetrievalSpec => []BetterFirst
<1>1. RankInvariant /\ JoinInvariant => BetterFirst
  <2> SUFFICES ASSUME FusedRankings, JoinInvariant,
                      NEW i \in 1 .. Len(result), NEW j \in 1 .. Len(result), i < j,
                      AsGood(result[j], result[i], lexical), AsGood(result[j], result[i], semantic)
               PROVE  FALSE
    BY DEF RankInvariant, BetterFirst
  <2>1. PICK c \in Chunks, d \in Chunks : c = result[i] /\ d = result[j]
    BY DEF JoinInvariant
  <2>2. /\ In(c, fused) /\ In(d, fused) /\ Rank(c, fused) < Rank(d, fused)
        /\ fused \in Seq(Chunks)
    BY <2>1 DEF JoinInvariant, FusedRankings
  <2>3. PICK p \in 1 .. Len(fused), q \in 1 .. Len(fused) : p < q /\ fused[p] = c /\ fused[q] = d
    BY <2>2, RankOfMember
  <2>4. c # d
    <3>1. Rank(c, fused) \in Int
      BY <2>2, RankOfMember
    <3>2. QED
      BY <2>2, <3>1
  <2>5. fused # <<>>
    <3>1. Len(fused) # 0
      BY <2>3
    <3>2. QED
      BY <3>1
  <2>6. (In(c, lexical) \/ In(c, semantic)) /\ Ahead(c, d, lexical, semantic)
    <3>1. fused \in Fusion(lexical, semantic)
      BY <2>5 DEF FusedRankings
    <3>2. /\ \A k \in 1 .. Len(fused) : In(fused[k], lexical) \/ In(fused[k], semantic)
          /\ \A k, l \in 1 .. Len(fused) : k < l => Ahead(fused[k], fused[l], lexical, semantic)
      BY <3>1, FusionIsSequence
    <3>3. QED
      BY <2>3, <3>2
  <2>7. ~Ahead(c, d, lexical, semantic)
    BY <2>1, <2>4, <2>6, BetterScoresHigher
  <2>8. QED
    BY <2>6, <2>7
<1>2. QED
  BY <1>1, RankInductive, JoinInductive, PTL

-----------------------------------------------------------------------------
(***************************************************************************)
(* Types.                                                                  *)
(***************************************************************************)

\* Fusion keeps at most RETRIEVAL_FINAL_TOP_K.
LEMMA FusionIsShort ==
  ASSUME NEW lex, NEW sem, NEW s \in Fusion(lex, sem)
  PROVE  Len(s) <= FinalTopK
<1> DEFINE hits == {c \in Chunks : In(c, lex) \/ In(c, sem)}
<1> DEFINE n == Lesser(FinalTopK, Cardinality(hits))
<1>1. hits \in SUBSET Chunks /\ Cardinality(hits) \in Nat
  BY RetrievalAssumption, FS_Subset, FS_CardinalityType
<1>2. n \in Nat /\ n <= FinalTopK
  BY <1>1, RetrievalAssumption DEF Lesser
<1>3. s \in Orders(hits, n)
  BY DEF Fusion
<1> HIDE DEF n
<1>4. Len(s) = n
  BY <1>1, <1>2, <1>3, OrderIsSequence
<1>5. QED
  BY <1>2, <1>4

\* The join adds nothing: its chunks have different places in the fusion.
LEMMA JoinIsShort ==
  ASSUME JoinInvariant, fused \in Seq(Chunks)
  PROVE  Len(result) <= Len(fused)
<1>1. PICK n \in Nat, k \in Nat : n = Len(result) /\ k = Len(fused)
  BY DEF JoinInvariant
<1> DEFINE place == [i \in 1 .. n |-> Rank(result[i], fused)]
<1>2. \A i \in 1 .. n : place[i] \in 1 .. k
  BY <1>1, RankOfMember DEF JoinInvariant
<1>3. \A i, j \in 1 .. n : i < j => place[i] < place[j]
  BY <1>1 DEF JoinInvariant
<1>4. place \in [1 .. n -> 1 .. k]
  BY <1>2
<1> HIDE DEF place
<1>5. SUFFICES ASSUME k < n
               PROVE  FALSE
  BY <1>1
<1>6. /\ IsFiniteSet(1 .. n) /\ Cardinality(1 .. n) = n
      /\ IsFiniteSet(1 .. k) /\ Cardinality(1 .. k) = k
  BY FS_Interval
<1>7. PICK i \in 1 .. n, j \in 1 .. n : i # j /\ place[i] = place[j]
  BY <1>4, <1>5, <1>6, FS_PigeonHole
<1>8. i < j \/ j < i
  BY <1>7
<1>9. place[i] \in Int /\ place[j] \in Int
  BY <1>2
<1>10. QED
  BY <1>3, <1>7, <1>8, <1>9

\* What no step moves out of its type by itself.
StatusTypes ==
  /\ status \in [Docs -> {"ready", "processing", "gone"}]
  /\ points \in [Docs -> BOOLEAN]
  /\ scope \in SUBSET Docs
  /\ at \in {"lexical", "semantic", "join", "packing", "none", "unavailable", "packed"}

LEMMA StatusInductive == RetrievalSpec => []StatusTypes
<1>1. RetrievalInit => StatusTypes
  BY DEF RetrievalInit, StatusTypes
<1>2. StatusTypes /\ [RetrievalNext]_retrievalVars => StatusTypes'
  <2> SUFFICES ASSUME StatusTypes, [RetrievalNext]_retrievalVars
               PROVE  StatusTypes'
    OBVIOUS
  <2>1. CASE Retrieve
    BY <2>1 DEF StatusTypes, Retrieve, NothingToSearch, SearchLexically, SearchSemantically,
                SemanticFails, Join, documentVars
  <2>2. CASE Pack
    BY <2>2 DEF StatusTypes, Pack, PackBlock, PackEnds, documentVars
  <2>3. CASE \E d \in Docs : DocumentChanges(d)
    BY <2>3 DEF StatusTypes, DocumentChanges
  <2>4. CASE UNCHANGED retrievalVars
    BY <2>4 DEF StatusTypes, retrievalVars, documentVars
  <2>5. QED
    BY <2>1, <2>2, <2>3, <2>4 DEF RetrievalNext
<1>3. QED
  BY <1>1, <1>2, PTL DEF RetrievalSpec

\* Every variable keeps its kind, the rankings within their limits: fusion
\* keeps at most RETRIEVAL_FINAL_TOP_K, and the join never adds a chunk to it.
THEOREM RetrievalTypeCorrect == RetrievalSpec => []RetrievalTypeOK
<1>1. RankInvariant /\ JoinInvariant /\ PackInvariant /\ StatusTypes => RetrievalTypeOK
  <2> SUFFICES ASSUME FusedRankings, JoinInvariant, Packing, StatusTypes
               PROVE  RetrievalTypeOK
    BY DEF RankInvariant, PackInvariant
  <2>1. Len(fused) <= FinalTopK
    <3>1. CASE fused = <<>>
      <4>1. Len(fused) = 0 /\ FinalTopK \in Nat
        BY <3>1, RetrievalAssumption
      <4>2. QED
        BY <4>1
    <3>2. CASE fused # <<>>
      BY <3>2, FusionIsShort DEF FusedRankings
    <3>3. QED
      BY <3>1, <3>2
  <2>2. Len(result) <= Len(fused)
    BY JoinIsShort DEF FusedRankings
  <2>3. QED
    BY <2>1, <2>2 DEF RetrievalTypeOK, FusedRankings, Packing, StatusTypes
<1>2. QED
  BY <1>1, RankInductive, JoinInductive, PackInductive, StatusInductive, PTL
=============================================================================
