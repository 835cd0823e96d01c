------------------------------ MODULE Retrieval ------------------------------
(***************************************************************************)
(* How the context of an answer comes about: HybridRetriever.retrieve asks *)
(* the lexical and the semantic search for ranked chunks, fuses the two    *)
(* rankings and joins the best with the rows of ready documents;           *)
(* pack_context fills the prompt with them.  Between two of its awaits     *)
(* documents are ingested again or deleted.                                *)
(*                                                                         *)
(* The lexical search joins with documents and sees their status; the      *)
(* semantic one asks Qdrant and does not.  Of a chunk only the length of   *)
(* its block in the prompt matters.                                        *)
(***************************************************************************)
EXTENDS Integers, Sequences, FiniteSets

CONSTANTS
  Docs,           \* documents
  Chunks,         \* chunk ids, ordered like the UUIDs they are
  DocOf,          \* the document of each chunk
  Lengths,        \* the lengths a block may have
  LexicalTopK,    \* RETRIEVAL_BM25_TOP_K
  SemanticTopK,   \* RETRIEVAL_SEMANTIC_TOP_K
  FinalTopK,      \* RETRIEVAL_FINAL_TOP_K
  MaxChars        \* CONTEXT_MAX_CHARS

\* The pools may not exceed k + 1, see AgreedFirst; the defaults are 20.
ASSUME RetrievalAssumption ==
  /\ Chunks \subseteq Int /\ IsFiniteSet(Chunks)
  /\ DocOf \in [Chunks -> Docs]
  /\ Lengths \subseteq Nat \ {0}
  /\ LexicalTopK \in 1 .. 61 /\ SemanticTopK \in 1 .. 61
  /\ FinalTopK \in 1 .. LexicalTopK + SemanticTopK
  /\ MaxChars \in Nat \ {0}

VARIABLES
  status,      \* each document: ready, processing or gone
  points,      \* Qdrant holds its points
  scope,       \* ready_document_ids of the question
  at,          \* lexical, semantic, join, packing; none, unavailable, packed
  lexical,     \* the lexical ranking, best first
  semantic,    \* the semantic one
  fused,       \* what fusion keeps of both
  result,      \* the chunks joined
  length,      \* the length of each block, as read by the join
  next,        \* the next chunk to pack, from 1
  blocks,      \* the blocks of the context with their places in its text
  used         \* the length pack_context reckons with

documentVars == <<status, points>>
rankVars == <<lexical, semantic, fused>>
packVars == <<next, blocks, used>>
retrievalVars == <<documentVars, scope, at, rankVars, result, length, packVars>>

RetrievalInit ==
  /\ status = [d \in Docs |-> "ready"]
  /\ points \in [Docs -> BOOLEAN]
  /\ scope \in SUBSET Docs
  /\ at = "lexical"
  /\ lexical = <<>> /\ semantic = <<>> /\ fused = <<>> /\ result = <<>>
  /\ length = [c \in Chunks |-> 0]
  /\ next = 1 /\ blocks = <<>> /\ used = 0

-----------------------------------------------------------------------------
(***************************************************************************)
(* The two searches.                                                       *)
(***************************************************************************)
Lesser(m, n) == IF m < n THEN m ELSE n
In(c, s) == \E i \in 1 .. Len(s) : s[i] = c
Rank(c, s) == CHOOSE i \in 1 .. Len(s) : s[i] = c

\* Sequences of n distinct members of S.
Orders(S, n) == {s \in [1 .. n -> S] : \A i, j \in 1 .. n : i # j => s[i] # s[j]}

\* What LIMIT k leaves of a ranking of some of S.
Rankings(S, k) == UNION {Orders(S, n) : n \in 0 .. Lesser(k, Cardinality(S))}

\* No active document, or none that is ready.
NothingToSearch ==
  /\ at = "lexical" /\ scope = {}
  /\ at' = "none"
  /\ UNCHANGED <<documentVars, scope, rankVars, result, length, packVars>>

SearchLexically ==
  /\ at = "lexical" /\ scope # {}
  /\ lexical' \in Rankings({c \in Chunks : DocOf[c] \in scope /\ status[DocOf[c]] = "ready"},
                           LexicalTopK)
  /\ at' = "semantic"
  /\ UNCHANGED <<documentVars, scope, semantic, fused, result, length, packVars>>

-----------------------------------------------------------------------------
(***************************************************************************)
(* reciprocal_rank_fusion: the score of a chunk is the sum of 1 / (k +     *)
(* rank) over the rankings that have it, kept as a fraction.               *)
(***************************************************************************)
Term(c, s) == 60 + Rank(c, s)

\* Mutant: the semantic score replaces the lexical one.
ScoreReplaced(c, lex, sem) ==
  [num |-> 1, den |-> IF In(c, sem) THEN Term(c, sem) ELSE Term(c, lex)]

Score(c, lex, sem) ==
  IF In(c, lex) /\ In(c, sem)
  THEN [num |-> Term(c, lex) + Term(c, sem), den |-> Term(c, lex) * Term(c, sem)]
  ELSE [num |-> 1, den |-> IF In(c, lex) THEN Term(c, lex) ELSE Term(c, sem)]

Higher(x, y) == x.num * y.den > y.num * x.den

\* Sorted by score, ties by id.
Ahead(c, d, lex, sem) ==
  LET x == Score(c, lex, sem)
      y == Score(d, lex, sem)
  IN Higher(x, y) \/ (~Higher(y, x) /\ c < d)

\* The rankings that keep the final_top_k best (there is one).
Fusion(lex, sem) ==
  LET hits == {c \in Chunks : In(c, lex) \/ In(c, sem)}
  IN {s \in Orders(hits, Lesser(FinalTopK, Cardinality(hits))) :
        /\ \A i, j \in 1 .. Len(s) : i < j => Ahead(s[i], s[j], lex, sem)
        /\ \A c \in hits : In(c, s) \/ \A i \in 1 .. Len(s) : Ahead(s[i], c, lex, sem)}

SearchSemantically ==
  /\ at = "semantic"
  /\ semantic' \in Rankings({c \in Chunks : DocOf[c] \in scope /\ points[DocOf[c]]}, SemanticTopK)
  /\ fused' \in Fusion(lexical, semantic')
  /\ at' = IF fused' = <<>> THEN "none" ELSE "join"
  /\ UNCHANGED <<documentVars, scope, lexical, result, length, packVars>>

\* SemanticSearchUnavailable
SemanticFails ==
  /\ at = "semantic"
  /\ at' = "unavailable"
  /\ UNCHANGED <<documentVars, scope, rankVars, result, length, packVars>>

\* The rows of the fused chunks, as far as their documents are ready now.
JoinedRows == {c \in Chunks : In(c, fused) /\ DocOf[c] \in scope /\ status[DocOf[c]] = "ready"}

\* Mutant: the rows stay in the order of the database.
JoinUnsorted ==
  /\ at = "join"
  /\ result' \in Orders(JoinedRows, Cardinality(JoinedRows))
  /\ length' \in {l \in [Chunks -> Lengths \cup {0}] : \A c \in Chunks : l[c] = 0 <=> c \notin JoinedRows}
  /\ at' = IF result' = <<>> THEN "none" ELSE "packing"
  /\ UNCHANGED <<documentVars, scope, rankVars, packVars>>

\* The join, sorted by fused_rank.
Join ==
  /\ at = "join"
  /\ result' \in Orders(JoinedRows, Cardinality(JoinedRows))
  /\ \A i, j \in 1 .. Len(result') : i < j => Rank(result'[i], fused) < Rank(result'[j], fused)
  /\ length' \in {l \in [Chunks -> Lengths \cup {0}] : \A c \in Chunks : l[c] = 0 <=> c \notin JoinedRows}
  /\ at' = IF result' = <<>> THEN "none" ELSE "packing"
  /\ UNCHANGED <<documentVars, scope, rankVars, packVars>>

-----------------------------------------------------------------------------
(***************************************************************************)
(* pack_context.                                                           *)
(***************************************************************************)
Separator == 2      \* the blank line that joins two blocks
Selected == Lesser(FinalTopK, Len(result))

\* Mutant: the separator is not counted.
ExtraUnseparated == length[result[next]]

Extra == length[result[next]] + IF blocks = <<>> THEN 0 ELSE Separator

Overflows == blocks # <<>> /\ used + Extra >= MaxChars

\* Only the first block is cut.
Kept == IF blocks = <<>> THEN Lesser(length[result[next]], MaxChars) ELSE length[result[next]]

From == IF blocks = <<>> THEN 0 ELSE blocks[Len(blocks)].to + Separator

PackBlock ==
  /\ at = "packing" /\ next <= Selected /\ ~Overflows
  /\ blocks' = Append(blocks, [label |-> next, chunk |-> result[next],
                               from |-> From, to |-> From + Kept])
  /\ used' = used + Lesser(Extra, IF blocks = <<>> THEN MaxChars ELSE Extra)
  /\ next' = next + 1
  /\ UNCHANGED <<documentVars, scope, at, rankVars, result, length>>

\* Mutant: a block that does not fit is passed over.
PackSkips ==
  /\ at = "packing" /\ (next <= Selected => Overflows)
  /\ next' = Lesser(next + 1, Selected + 1)
  /\ at' = IF next' > Selected THEN "packed" ELSE at
  /\ UNCHANGED <<documentVars, scope, rankVars, result, length, blocks, used>>

\* Mutant: an overlong first block ends the loop like any other.
PackEndsEmpty ==
  /\ at = "packing" /\ (next <= Selected => Overflows \/ Extra > MaxChars)
  /\ at' = "packed"
  /\ UNCHANGED <<documentVars, scope, rankVars, result, length, packVars>>

\* The chunks are used up, or the loop breaks.
PackEnds ==
  /\ at = "packing" /\ (next <= Selected => Overflows)
  /\ at' = "packed"
  /\ UNCHANGED <<documentVars, scope, rankVars, result, length, packVars>>

-----------------------------------------------------------------------------
(***************************************************************************)
(* Documents are processed again and deleted, in Postgres and in Qdrant at *)
(* different times (Ingestion has every combination).  Nothing looks at    *)
(* them after the join.                                                    *)
(***************************************************************************)
DocumentChanges(d) ==
  /\ at \in {"lexical", "semantic", "join"}
  /\ status[d] # "gone"
  /\ \E s \in {"ready", "processing", "gone"}, p \in BOOLEAN :
       status' = [status EXCEPT ![d] = s] /\ points' = [points EXCEPT ![d] = p]
  /\ UNCHANGED <<scope, at, rankVars, result, length, packVars>>

Retrieve == NothingToSearch \/ SearchLexically \/ SearchSemantically \/ SemanticFails \/ Join
Pack == PackBlock \/ PackEnds

RetrievalNext == Retrieve \/ Pack \/ \E d \in Docs : DocumentChanges(d)

RetrievalSpec == RetrievalInit /\ [][RetrievalNext]_retrievalVars

-----------------------------------------------------------------------------
(***************************************************************************)
(* Properties.                                                             *)
(***************************************************************************)
Blocks == [label : Nat \ {0}, chunk : Chunks, from : Nat, to : Nat]

RetrievalTypeOK ==
  /\ status \in [Docs -> {"ready", "processing", "gone"}]
  /\ points \in [Docs -> BOOLEAN]
  /\ scope \in SUBSET Docs
  /\ at \in {"lexical", "semantic", "join", "packing", "none", "unavailable", "packed"}
  /\ lexical \in Seq(Chunks) /\ semantic \in Seq(Chunks)
  /\ fused \in Seq(Chunks) /\ Len(fused) <= FinalTopK
  /\ result \in Seq(Chunks) /\ Len(result) <= Len(fused)
  /\ length \in [Chunks -> Nat]
  /\ next \in Nat \ {0} /\ blocks \in Seq(Blocks) /\ used \in Nat

Both(c) == In(c, lexical) /\ In(c, semantic)

\* What both searches find comes before what only one of them finds, however
\* they rank it (reciprocal_rank_fusion with its k of 60).
AgreedFirst ==
  \A i, j \in 1 .. Len(fused) : i < j /\ Both(fused[j]) => Both(fused[i])

AsGood(c, d, s) == In(d, s) => In(c, s) /\ Rank(c, s) <= Rank(d, s)

\* No chunk comes out of the join before one that both searches found better,
\* though rows come in any order and some have gone since the searches.
BetterFirst ==
  \A i, j \in 1 .. Len(result) :
    i < j => ~(AsGood(result[j], result[i], lexical) /\ AsGood(result[j], result[i], semantic))

\* The context never exceeds CONTEXT_MAX_CHARS, separators and labels included.
ContextFits == \A i \in 1 .. Len(blocks) : blocks[i].to <= MaxChars

\* The labels the model may cite run from 1 without a gap, and label i is the
\* i-th best chunk.
LabelsInOrder ==
  \A i \in 1 .. Len(blocks) : blocks[i].label = i /\ blocks[i].chunk = result[i]

\* A question with results has a context, and the context is not cut short
\* while the next block would have stayed below the limit.
ContextFilled ==
  at = "packed" =>
    /\ blocks # <<>>
    /\ Len(blocks) = Selected \/ From + length[result[Len(blocks) + 1]] >= MaxChars
=============================================================================
