----------------------------- MODULE Preparation -----------------------------
(***************************************************************************)
(* What ingest_document does between reading a file and writing its rows:  *)
(* chunk_pages cuts the text of every page into windows, embed_texts asks  *)
(* the provider for their vectors, batch by batch.  A document comes out   *)
(* prepared, or with one of the two kinds of ingestion error.  This is the *)
(* step that Ingestion takes as Prepare.                                   *)
(*                                                                         *)
(* Of the text only the lengths of the pages matter, of a vector only the  *)
(* chunk it was made from.                                                 *)
(***************************************************************************)
EXTENDS Naturals, Sequences

CONSTANTS
  Texts,        \* the documents: sequences of the lengths of their pages
  Settings,     \* records of CHUNK_SIZE_CHARS, CHUNK_OVERLAP_CHARS, EMBEDDING_BATCH_SIZE
  MaxAttempts   \* stop_after_attempt

\* What Settings' validators see to.
ASSUME PreparationAssumption ==
  /\ Texts \subseteq Seq(Nat)
  /\ Settings \subseteq [size : Nat \ {0}, overlap : Nat, batch : Nat \ {0}]
  /\ \A s \in Settings : s.overlap < s.size
  /\ MaxAttempts \in Nat \ {0}

VARIABLES
  settings,     \* the configuration
  text,         \* the lengths of the extracted pages
  stage,        \* chunking, embedding, prepared, or the error raised
  page,         \* the page being cut
  start,        \* where its next window starts
  index,        \* and its chunk_index
  chunks,       \* the chunks so far
  vectors,      \* the chunks whose vectors have come back
  asked,        \* the chunks in the batches before this one
  attempts,     \* failed attempts of this batch
  astray        \* a batch came back too long or out of order

cutVars == <<page, start, index, chunks>>
embedVars == <<vectors, asked, attempts, astray>>
preparationVars == <<settings, text, stage, cutVars, embedVars>>

PreparationInit ==
  /\ settings \in Settings /\ text \in Texts
  /\ stage = "chunking"
  /\ page = 1 /\ start = 0 /\ index = 0 /\ chunks = <<>>
  /\ vectors = <<>> /\ asked = 0 /\ attempts = 0 /\ astray = FALSE

Smaller(m, n) == IF m < n THEN m ELSE n

-----------------------------------------------------------------------------
(***************************************************************************)
(* chunk_pages.                                                            *)
(***************************************************************************)

\* Mutant: windows advance by their size.
StepWithoutOverlap == settings.size

\* Mutant: the sign of the overlap.
StepPlusOverlap == settings.size + settings.overlap

Step == settings.size - settings.overlap

NextPage == page' = page + 1 /\ start' = 0 /\ index' = 0

SkipEmptyPage ==
  /\ stage = "chunking" /\ page <= Len(text) /\ text[page] = 0
  /\ NextPage
  /\ UNCHANGED <<settings, text, stage, chunks, embedVars>>

Window == [page  |-> page, index |-> index, from |-> start,
           to    |-> Smaller(start + settings.size, text[page])]

\* Mutant: the page goes on while a window starts inside it.
CutToTheEnd ==
  /\ stage = "chunking" /\ page <= Len(text) /\ text[page] > 0
  /\ chunks' = Append(chunks, Window)
  /\ IF start + Step >= text[page]
     THEN NextPage
     ELSE start' = start + Step /\ index' = index + 1 /\ page' = page
  /\ UNCHANGED <<settings, text, stage, embedVars>>

\* A window that reaches the end of the page is its last.
Cut ==
  /\ stage = "chunking" /\ page <= Len(text) /\ text[page] > 0
  /\ chunks' = Append(chunks, Window)
  /\ IF Window.to = text[page]
     THEN NextPage
     ELSE start' = start + Step /\ index' = index + 1 /\ page' = page
  /\ UNCHANGED <<settings, text, stage, embedVars>>

\* Without a chunk there is nothing to index: retrying would not help.
EndChunking ==
  /\ stage = "chunking" /\ page > Len(text)
  /\ stage' = IF chunks = <<>> THEN "deterministic" ELSE "embedding"
  /\ UNCHANGED <<settings, text, cutVars, embedVars>>

-----------------------------------------------------------------------------
(***************************************************************************)
(* embed_texts.                                                            *)
(***************************************************************************)
Batch == SubSeq(chunks, asked + 1, Smaller(asked + settings.batch, Len(chunks)))

\* The provider answers, with a vector for each text or with some of them.
BatchAnswered ==
  /\ stage = "embedding" /\ asked < Len(chunks)
  /\ \E n \in 0 .. Len(Batch) : vectors' = vectors \o SubSeq(Batch, 1, n)
  /\ asked' = asked + settings.batch
  /\ attempts' = 0
  /\ UNCHANGED <<settings, text, stage, cutVars, astray>>

\* It answers with vectors of these texts in another order, with one too often,
\* or with one too many: the code takes what response.data holds as it is.
BatchAstray ==
  /\ stage = "embedding" /\ asked < Len(chunks)
  /\ \E n \in 0 .. Len(Batch) + 1 :
       \E answer \in [1 .. n -> {Batch[i] : i \in 1 .. Len(Batch)}] :
         vectors' = vectors \o answer
  /\ asked' = asked + settings.batch
  /\ attempts' = 0
  /\ astray' = TRUE
  /\ UNCHANGED <<settings, text, stage, cutVars>>

\* A rate limit, a lost connection or a 5xx: tried again, MaxAttempts times in all.
BatchFails ==
  /\ stage = "embedding" /\ asked < Len(chunks)
  /\ attempts' = attempts + 1
  /\ stage' = IF attempts' = MaxAttempts THEN "retryable" ELSE stage
  /\ UNCHANGED <<settings, text, cutVars, vectors, asked, astray>>

\* Any other status is not retried.
BatchRejected ==
  /\ stage = "embedding" /\ asked < Len(chunks)
  /\ stage' = "deterministic"
  /\ UNCHANGED <<settings, text, cutVars, embedVars>>

\* Mutant: the vectors are not counted.
ValidateNothing ==
  /\ stage = "embedding" /\ asked >= Len(chunks)
  /\ stage' = "prepared"
  /\ UNCHANGED <<settings, text, cutVars, embedVars>>

\* validate_embeddings compares the totals, and each vector's dimension.
Validate ==
  /\ stage = "embedding" /\ asked >= Len(chunks)
  /\ \/ Len(vectors) = Len(chunks) /\ stage' = "prepared"
     \/ stage' = "deterministic"
  /\ UNCHANGED <<settings, text, cutVars, embedVars>>

Chunk == SkipEmptyPage \/ Cut \/ EndChunking
Embed == BatchAnswered \/ BatchAstray \/ BatchFails \/ BatchRejected \/ Validate

PreparationNext == Chunk \/ Embed

PreparationSpec == PreparationInit /\ [][PreparationNext]_preparationVars

-----------------------------------------------------------------------------
(***************************************************************************)
(* Properties.                                                             *)
(***************************************************************************)
ChunkRecords == [page : Nat \ {0}, index : Nat, from : Nat, to : Nat]

PreparationTypeOK ==
  /\ settings \in Settings /\ text \in Texts
  /\ stage \in {"chunking", "embedding", "prepared", "retryable", "deterministic"}
  /\ page \in 1 .. Len(text) + 1 /\ start \in Nat /\ index \in Nat
  /\ chunks \in Seq(ChunkRecords) /\ vectors \in Seq(ChunkRecords)
  /\ asked \in Nat
  /\ attempts \in 0 .. MaxAttempts
  /\ astray \in BOOLEAN

\* Position c of page p is in a chunk.
Holds(p, c) ==
  \E i \in 1 .. Len(chunks) :
    chunks[i].page = p /\ chunks[i].from <= c /\ c < chunks[i].to

\* Every character of every page is in a chunk once chunking is over
\* (chunk_pages, whatever the sizes the settings allow).
TextCovered ==
  stage # "chunking" =>
    \A p \in 1 .. Len(text) : \A c \in 0 .. text[p] - 1 : Holds(p, c)

\* Of two chunks of a page the later starts later and ends later: none
\* repeats text that another holds already, and no two have the same id
\* (make_point_id of page, chunk_index and offsets).
ChunksAdvance ==
  \A i, j \in 1 .. Len(chunks) :
    i < j /\ chunks[i].page = chunks[j].page =>
      /\ chunks[i].from < chunks[j].from
      /\ chunks[i].to < chunks[j].to
      /\ chunks[i].index < chunks[j].index

\* A sentence shorter than the overlap is never cut in two: neighbours share
\* exactly that much, and no chunk is longer than its size.
NeighboursOverlap ==
  /\ \A i \in 1 .. Len(chunks) : chunks[i].to <= chunks[i].from + settings.size
  /\ \A i \in 1 .. Len(chunks) - 1 :
       chunks[i].page = chunks[i + 1].page =>
         chunks[i + 1].from + settings.overlap = chunks[i].to

\* A prepared document has one vector for each chunk (zip in upsert_chunks), and
\* it is the vector of that chunk, though batches may be retried and may come
\* back short.  A batch that came back out of order, or with a surplus that
\* makes up for another's lack, is not noticed.
VectorsAligned ==
  stage = "prepared" => Len(vectors) = Len(chunks) /\ (~astray => vectors = chunks)
=============================================================================
