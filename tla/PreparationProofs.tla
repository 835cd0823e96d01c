-------------------------- MODULE PreparationProofs --------------------------
(***************************************************************************)
(* Proofs about Preparation, for every document, every chunk size, overlap *)
(* and batch size that Settings accepts, and every answer of the embedding *)
(* provider.                                                               *)
(***************************************************************************)
EXTENDS Preparation, SequenceTheorems, TLAPS

\* What the chunks so far say of the page being cut.
CurrentPage ==
  stage = "chunking" =>
    /\ \A i \in 1 .. Len(chunks) :
         /\ chunks[i].page <= page
         /\ chunks[i].page = page =>
              /\ chunks[i].from < start
              /\ chunks[i].to <= start + settings.overlap
              /\ chunks[i].index < index
    /\ chunks # <<>> /\ chunks[Len(chunks)].page = page =>
         chunks[Len(chunks)].to = start + settings.overlap

\* A page goes on only while its end has not been reached.
Unfinished ==
  stage = "chunking" /\ start > 0 =>
    /\ page <= Len(text)
    /\ start + settings.overlap < text[page]

\* Pages are covered up to the one being cut, that one up to its last window.
CoveredSoFar ==
  stage = "chunking" =>
    /\ \A p \in 1 .. Len(text) : \A c \in 0 .. text[p] - 1 : p < page => Holds(p, c)
    /\ start > 0 => \A c \in 0 .. start + settings.overlap - 1 : Holds(page, c)

\* Unless one comes back astray, no batch brings more vectors than it has
\* chunks; as long as none brought fewer, the vectors are those of the first
\* chunks.
Embedded ==
  /\ stage = "chunking" => vectors = <<>> /\ asked = 0 /\ attempts = 0
  /\ stage = "embedding" =>
       /\ attempts < MaxAttempts
       /\ ~astray => /\ Len(vectors) <= Smaller(asked, Len(chunks))
                     /\ Len(vectors) = Smaller(asked, Len(chunks)) =>
                          \A i \in 1 .. Len(vectors) : vectors[i] = chunks[i]

\* The inductive invariant.
PreparationInvariant ==
  /\ PreparationTypeOK
  /\ CurrentPage /\ Unfinished /\ CoveredSoFar /\ Embedded
  /\ TextCovered /\ ChunksAdvance /\ NeighboursOverlap /\ VectorsAligned

-----------------------------------------------------------------------------
\* What the assumption on the constants says of the variables.
LEMMA ValidSettings ==
  ASSUME PreparationTypeOK
  PROVE  /\ text \in Seq(Nat)
         /\ settings.size \in Nat \ {0} /\ settings.overlap \in Nat
         /\ settings.batch \in Nat \ {0}
         /\ settings.overlap < settings.size
         /\ Step \in Nat \ {0} /\ Step + settings.overlap = settings.size
  BY PreparationAssumption DEF PreparationTypeOK, Step

\* The fields of the chunks of a sequence.
LEMMA ChunkFields ==
  ASSUME NEW s \in Seq(ChunkRecords), NEW i \in 1 .. Len(s)
  PROVE  /\ s[i].page \in Nat /\ s[i].index \in Nat
         /\ s[i].from \in Nat /\ s[i].to \in Nat
<1>1. s[i] \in ChunkRecords
  OBVIOUS
<1>2. QED
  BY <1>1 DEF ChunkRecords

\* What a window is while its page is being cut.
LEMMA WindowOfPage ==
  ASSUME PreparationTypeOK, Unfinished, stage = "chunking",
         page <= Len(text), text[page] > 0
  PROVE  /\ text[page] \in Nat
         /\ Window \in ChunkRecords
         /\ Window.page = page /\ Window.index = index /\ Window.from = start
         /\ Window.to \in Nat /\ start < Window.to
         /\ Window.to <= start + settings.size /\ Window.to <= text[page]
         /\ Window.to # text[page] => Window.to = start + settings.size
<1>1. text[page] \in Nat /\ start \in Nat /\ index \in Nat /\ page \in Nat \ {0}
  BY ValidSettings DEF PreparationTypeOK
<1>2. start < text[page]
  BY <1>1, ValidSettings DEF Unfinished
<1>3. settings.size \in Nat \ {0}
  BY ValidSettings
<1> DEFINE end == Smaller(start + settings.size, text[page])
<1>4. /\ end \in Nat /\ start < end
      /\ end <= start + settings.size /\ end <= text[page]
      /\ end # text[page] => end = start + settings.size
  BY <1>1, <1>2, <1>3 DEF Smaller
<1>5. Window = [page |-> page, index |-> index, from |-> start, to |-> end]
  BY DEF Window
<1> HIDE DEF end
<1>6. QED
  BY <1>1, <1>4, <1>5 DEF ChunkRecords

(***************************************************************************)
(* A window is appended: coverage grows by it, and it lies behind the ones *)
(* before it.                                                              *)
(***************************************************************************)
LEMMA CutStep ==
  ASSUME PreparationInvariant, Cut
  PROVE  PreparationInvariant'
<1> DEFINE w == Window
<1> DEFINE overlap == settings.overlap
<1> DEFINE size == settings.size
<1>1. /\ stage = "chunking" /\ page <= Len(text) /\ text[page] > 0
      /\ chunks' = Append(chunks, w)
      /\ stage' = "chunking" /\ text' = text /\ settings' = settings
      /\ vectors' = vectors /\ asked' = asked /\ attempts' = attempts
      /\ astray' = astray
  BY DEF Cut, embedVars
<1>2. /\ text[page] \in Nat
      /\ w.page = page /\ w.index = index /\ w.from = start
      /\ w.to \in Nat /\ start < w.to
      /\ w.to <= start + size /\ w.to <= text[page]
      /\ w.to # text[page] => w.to = start + size
  BY <1>1, WindowOfPage DEF PreparationInvariant
<1>3. \/ w.to = text[page] /\ page' = page + 1 /\ start' = 0 /\ index' = 0
      \/ w.to # text[page] /\ start' = start + Step /\ index' = index + 1 /\ page' = page
  BY DEF Cut, NextPage
<1>4. w \in ChunkRecords
  BY <1>1, WindowOfPage DEF PreparationInvariant
<1> HIDE DEF w
<1>5. /\ page \in Nat \ {0} /\ start \in Nat /\ index \in Nat
      /\ size \in Nat \ {0} /\ overlap \in Nat
      /\ overlap < size
      /\ Step \in Nat \ {0} /\ Step + overlap = size
  BY ValidSettings DEF PreparationInvariant, PreparationTypeOK
<1>6. overlap' = overlap /\ size' = size
  BY <1>1
<1> HIDE DEF overlap, size
<1>7. chunks \in Seq(ChunkRecords) /\ text \in Seq(Nat)
  BY ValidSettings DEF PreparationInvariant, PreparationTypeOK
<1>8. chunks' \in Seq(ChunkRecords)
  BY <1>1, <1>4, <1>7
<1>9. /\ Len(chunks') = Len(chunks) + 1 /\ Len(chunks) \in Nat
      /\ \A i \in 1 .. Len(chunks) : chunks'[i] = chunks[i]
      /\ chunks'[Len(chunks) + 1] = w
  BY <1>1, <1>7
<1>10. \A i \in 1 .. Len(chunks) : /\ chunks[i].page \in Nat /\ chunks[i].index \in Nat
                                   /\ chunks[i].from \in Nat /\ chunks[i].to \in Nat
  BY <1>7, ChunkFields
<1>11. \A i \in 1 .. Len(chunks') : i \in 1 .. Len(chunks) \/ (i = Len(chunks) + 1 /\ chunks'[i] = w)
  BY <1>9
<1>12. PreparationTypeOK'
  <2>1. Len(text) \in Nat
    BY <1>7
  <2>2. page' \in 1 .. Len(text) + 1 /\ start' \in Nat /\ index' \in Nat
    BY <1>1, <1>3, <1>5, <2>1
  <2>3. QED
    BY <1>1, <1>8, <2>2 DEF PreparationInvariant, PreparationTypeOK
<1>13. w.to # text[page] => start' + overlap = w.to /\ start' > start /\ page' = page
  BY <1>2, <1>3, <1>5
<1>14. Unfinished'
  <2>1. start' > 0 => w.to # text[page]
    BY <1>3
  <2>2. w.to # text[page] => w.to < text[page]
    BY <1>2
  <2>3. start' > 0 => page' = page /\ start' + settings.overlap < text[page]
    BY <1>13, <2>1, <2>2 DEF overlap
  <2>4. QED
    BY <1>1, <2>3 DEF Unfinished
\* The window against the chunks before it.
<1>15. \A i \in 1 .. Len(chunks) :
         /\ chunks[i].page <= page
         /\ chunks[i].page = page =>
              chunks[i].from < start /\ chunks[i].to <= start + overlap /\ chunks[i].index < index
  BY <1>1 DEF PreparationInvariant, CurrentPage, overlap
<1>16. Len(chunks) > 0 /\ chunks[Len(chunks)].page = page =>
         chunks[Len(chunks)].to = start + overlap
  BY <1>1, <1>7 DEF PreparationInvariant, CurrentPage, overlap
<1>17. start > 0 => start + overlap < text[page]
  BY <1>1 DEF PreparationInvariant, Unfinished, overlap
<1>18. \A i \in 1 .. Len(chunks) : chunks[i].page = page =>
         chunks[i].from < w.from /\ chunks[i].to < w.to /\ chunks[i].index < w.index
  <2> SUFFICES ASSUME NEW i \in 1 .. Len(chunks), chunks[i].page = page
               PROVE  chunks[i].from < w.from /\ chunks[i].to < w.to /\ chunks[i].index < w.index
    OBVIOUS
  <2>1. chunks[i].from < start /\ chunks[i].to <= start + overlap /\ chunks[i].index < index
    BY <1>15
  <2>2. chunks[i].from \in Nat /\ chunks[i].to \in Nat
    BY <1>10
  <2>3. start + overlap < text[page]
    BY <1>5, <1>17, <2>1, <2>2
  <2>4. chunks[i].to < w.to
    BY <1>2, <1>5, <2>1, <2>2, <2>3
  <2>5. QED
    BY <1>2, <2>1, <2>4
<1>19. CurrentPage'
  <2>1. Len(chunks') \in 1 .. Len(chunks') /\ chunks'[Len(chunks')] = w
    BY <1>9
  <2>2. CASE w.to = text[page]
    <3>1. page' = page + 1
      BY <1>3, <2>2
    <3>2. \A i \in 1 .. Len(chunks') : chunks'[i].page \in Nat /\ chunks'[i].page <= page
      BY <1>2, <1>5, <1>9, <1>10, <1>11, <1>15
    <3>3. \A i \in 1 .. Len(chunks') : chunks'[i].page <= page' /\ chunks'[i].page # page'
      BY <1>5, <3>1, <3>2
    <3>4. QED
      BY <2>1, <3>3 DEF CurrentPage
  <2>3. CASE w.to # text[page]
    <3>1. /\ page' = page /\ index' = index + 1
          /\ start' \in Nat /\ start < start' /\ w.to = start' + overlap
      BY <1>2, <1>3, <1>5, <2>3
    <3>2. ASSUME NEW i \in 1 .. Len(chunks)
          PROVE  /\ chunks[i].page <= page
                 /\ chunks[i].page = page =>
                      /\ chunks[i].from < start' /\ chunks[i].to <= start' + overlap
                      /\ chunks[i].index < index'
      BY <1>5, <1>10, <1>15, <3>1
    <3>3. w.page <= page /\ w.from < start' /\ w.index < index'
      BY <1>2, <1>5, <3>1
    <3>4. w.to <= start' + overlap
      BY <1>2, <3>1
    <3>5. ASSUME NEW i \in 1 .. Len(chunks')
          PROVE  /\ chunks'[i].page <= page'
                 /\ chunks'[i].page = page' =>
                      /\ chunks'[i].from < start' /\ chunks'[i].to <= start' + overlap'
                      /\ chunks'[i].index < index'
      BY <1>6, <1>9, <1>11, <3>1, <3>2, <3>3, <3>4
    <3>6. chunks'[Len(chunks')].to = start' + overlap'
      BY <1>6, <2>1, <3>1
    <3>7. QED
      BY <3>5, <3>6 DEF CurrentPage, overlap
  <2>4. QED
    BY <2>2, <2>3
<1>20. \A p, c : Holds(p, c) => Holds(p, c)'
  <2> SUFFICES ASSUME NEW p, NEW c, NEW i \in 1 .. Len(chunks),
                      chunks[i].page = p /\ chunks[i].from <= c /\ c < chunks[i].to
               PROVE  Holds(p, c)'
    BY DEF Holds
  <2>1. i \in 1 .. Len(chunks') /\ chunks'[i] = chunks[i]
    BY <1>9
  <2>2. QED
    BY <2>1 DEF Holds
<1>21. \A p, c : p = page /\ c \in 0 .. w.to - 1 => Holds(p, c)'
  <2> SUFFICES ASSUME NEW p, NEW c \in 0 .. w.to - 1, p = page
               PROVE  Holds(p, c)'
    OBVIOUS
  <2>1. CASE c >= start
    <3>1. Len(chunks') \in 1 .. Len(chunks') /\ chunks'[Len(chunks')] = w
      BY <1>9
    <3>2. w.page = p /\ w.from <= c /\ c < w.to
      BY <1>2, <2>1
    <3>3. QED
      BY <3>1, <3>2 DEF Holds
  <2>2. CASE c < start
    <3>1. start > 0 /\ c \in 0 .. start + overlap - 1
      BY <1>2, <1>5, <2>2
    <3>2. Holds(p, c)
      BY <1>1, <3>1 DEF PreparationInvariant, CoveredSoFar, overlap
    <3>3. QED
      BY <1>20, <3>2
  <2>3. QED
    BY <1>2, <1>5, <2>1, <2>2
<1>22. CoveredSoFar'
  <2>1. ASSUME NEW p \in 1 .. Len(text), NEW c \in 0 .. text[p] - 1, p < page'
        PROVE  Holds(p, c)'
    <3>1. CASE p < page
      BY <1>1, <1>20, <3>1 DEF PreparationInvariant, CoveredSoFar
    <3>2. CASE p >= page
      <4>1. p = page /\ w.to = text[page]
        BY <1>3, <1>5, <1>7, <2>1, <3>2
      <4>2. QED
        BY <1>21, <4>1
    <3>3. QED
      BY <1>5, <1>7, <3>1, <3>2
  <2>2. ASSUME start' > 0, NEW c \in 0 .. start' + overlap' - 1
        PROVE  \A p : p = page' => Holds(p, c)'
    <3>1. w.to # text[page]
      BY <1>3, <2>2
    <3>2. page' = page /\ w.to = start' + overlap'
      BY <1>6, <1>13, <3>1
    <3>3. c \in 0 .. w.to - 1
      <4>1. \A m, n \in Nat : c \in 0 .. m + n - 1 => c \in 0 .. (m + n) - 1
        OBVIOUS
      <4>2. start' \in Nat /\ overlap' \in Nat
        BY <1>3, <1>5, <1>6
      <4>3. c \in 0 .. (start' + overlap') - 1
        BY <2>2, <4>1, <4>2
      <4>4. QED
        BY <3>2, <4>3
    <3>4. QED
      BY <1>21, <3>2, <3>3
  <2>3. QED
    BY <1>1, <2>1, <2>2 DEF CoveredSoFar, overlap
<1>23. ChunksAdvance'
  <2> SUFFICES ASSUME NEW i \in 1 .. Len(chunks'), NEW j \in 1 .. Len(chunks'),
                      i < j, chunks'[i].page = chunks'[j].page
               PROVE  /\ chunks'[i].from < chunks'[j].from
                      /\ chunks'[i].to < chunks'[j].to
                      /\ chunks'[i].index < chunks'[j].index
    BY DEF ChunksAdvance
  <2>1. i \in 1 .. Len(chunks) /\ chunks'[i] = chunks[i]
    BY <1>9
  <2>2. CASE j \in 1 .. Len(chunks)
    BY <1>9, <2>1, <2>2 DEF PreparationInvariant, ChunksAdvance
  <2>3. CASE j = Len(chunks) + 1 /\ chunks'[j] = w
    BY <1>2, <1>18, <2>1, <2>3
  <2>4. QED
    BY <1>11, <2>2, <2>3
<1>24. NeighboursOverlap'
  <2>1. ASSUME NEW i \in 1 .. Len(chunks')
        PROVE  chunks'[i].to <= chunks'[i].from + size'
    <3>1. CASE i \in 1 .. Len(chunks)
      BY <1>6, <1>9, <3>1 DEF PreparationInvariant, NeighboursOverlap, size
    <3>2. CASE chunks'[i] = w
      BY <1>2, <1>6, <3>2
    <3>3. QED
      BY <1>11, <3>1, <3>2
  <2>2. ASSUME NEW i \in 1 .. Len(chunks') - 1, chunks'[i].page = chunks'[i + 1].page
        PROVE  chunks'[i + 1].from + overlap' = chunks'[i].to
    <3>1. i \in 1 .. Len(chunks) /\ chunks'[i] = chunks[i]
      BY <1>9
    <3>2. CASE i \in 1 .. Len(chunks) - 1
      <4>1. chunks'[i + 1] = chunks[i + 1]
        BY <1>9, <3>2
      <4>2. QED
        BY <1>6, <2>2, <3>1, <3>2, <4>1 DEF PreparationInvariant, NeighboursOverlap, overlap
    <3>3. CASE i = Len(chunks)
      <4>1. chunks'[i + 1] = w /\ chunks[Len(chunks)].page = page /\ Len(chunks) > 0
        BY <1>2, <1>9, <2>2, <3>1, <3>3
      <4>2. QED
        BY <1>2, <1>6, <1>16, <3>1, <3>3, <4>1
    <3>4. QED
      BY <1>9, <3>1, <3>2, <3>3
  <2>3. QED
    BY <2>1, <2>2 DEF NeighboursOverlap, overlap, size
<1>25. Embedded' /\ TextCovered' /\ VectorsAligned'
  BY <1>1 DEF PreparationInvariant, Embedded, TextCovered, VectorsAligned
<1>26. QED
  BY <1>12, <1>14, <1>19, <1>22, <1>23, <1>24, <1>25 DEF PreparationInvariant

\* An empty page has nothing to cover.
LEMMA SkipStep ==
  ASSUME PreparationInvariant, SkipEmptyPage
  PROVE  PreparationInvariant'
<1>1. /\ stage = "chunking" /\ page <= Len(text) /\ text[page] = 0
      /\ page' = page + 1 /\ start' = 0 /\ index' = 0
      /\ stage' = stage /\ text' = text /\ settings' = settings /\ chunks' = chunks
      /\ vectors' = vectors /\ asked' = asked /\ attempts' = attempts
      /\ astray' = astray
  BY DEF SkipEmptyPage, NextPage, embedVars
<1>2. /\ page \in Nat \ {0} /\ chunks \in Seq(ChunkRecords) /\ text \in Seq(Nat)
      /\ settings.overlap \in Nat
  BY ValidSettings DEF PreparationInvariant, PreparationTypeOK
<1>3. PreparationTypeOK'
  BY <1>1, <1>2 DEF PreparationInvariant, PreparationTypeOK
<1>4. \A p, c : Holds(p, c)' = Holds(p, c)
  BY <1>1 DEF Holds
<1>5. CoveredSoFar'
  BY <1>1, <1>2, <1>4 DEF PreparationInvariant, CoveredSoFar
<1>6. \A i \in 1 .. Len(chunks) : chunks[i].page \in Nat /\ chunks[i].page <= page
  BY <1>1, <1>2, ChunkFields DEF PreparationInvariant, CurrentPage
<1>7. CurrentPage'
  <2>1. chunks # <<>> => Len(chunks) \in 1 .. Len(chunks)
    BY <1>2
  <2>2. \A i \in 1 .. Len(chunks) : chunks[i].page <= page' /\ chunks[i].page # page'
    BY <1>1, <1>2, <1>6
  <2>3. QED
    BY <1>1, <2>1, <2>2 DEF CurrentPage
<1>8. Unfinished' /\ Embedded' /\ TextCovered' /\ VectorsAligned'
  BY <1>1 DEF PreparationInvariant, Unfinished, Embedded, TextCovered, VectorsAligned
<1>9. ChunksAdvance' /\ NeighboursOverlap'
  BY <1>1 DEF PreparationInvariant, ChunksAdvance, NeighboursOverlap
<1>10. QED
  BY <1>3, <1>5, <1>7, <1>8, <1>9 DEF PreparationInvariant

\* Past the last page everything is covered.
LEMMA EndChunkingStep ==
  ASSUME PreparationInvariant, EndChunking
  PROVE  PreparationInvariant'
<1>1. /\ stage = "chunking" /\ page > Len(text)
      /\ stage' = IF chunks = <<>> THEN "deterministic" ELSE "embedding"
      /\ UNCHANGED <<settings, text, page, start, index, chunks, vectors, asked, attempts, astray>>
  BY DEF EndChunking, cutVars, embedVars
<1>2. /\ page \in Nat /\ chunks \in Seq(ChunkRecords) /\ text \in Seq(Nat)
      /\ Len(chunks) \in Nat
  BY ValidSettings DEF PreparationInvariant, PreparationTypeOK
<1>3. PreparationTypeOK'
  BY <1>1 DEF PreparationInvariant, PreparationTypeOK
<1>4. \A p, c : Holds(p, c)' = Holds(p, c)
  BY <1>1 DEF Holds
<1>5. TextCovered'
  BY <1>1, <1>2, <1>4 DEF PreparationInvariant, CoveredSoFar, TextCovered
<1>6. Embedded'
  BY <1>1, <1>2, PreparationAssumption DEF PreparationInvariant, Embedded, Smaller
<1>7. QED
  BY <1>1, <1>3, <1>5, <1>6 DEF PreparationInvariant, CurrentPage, Unfinished, CoveredSoFar,
       ChunksAdvance, NeighboursOverlap, VectorsAligned

-----------------------------------------------------------------------------
\* A batch that comes back in full extends the vectors by those of its chunks;
\* one that comes back short leaves them short for good.
LEMMA AnsweredStep ==
  ASSUME PreparationInvariant, BatchAnswered
  PROVE  PreparationInvariant'
<1>1. PICK n \in 0 .. Len(Batch) : vectors' = vectors \o SubSeq(Batch, 1, n)
  BY DEF BatchAnswered
<1>2. /\ stage = "embedding" /\ asked < Len(chunks)
      /\ asked' = asked + settings.batch /\ attempts' = 0
      /\ UNCHANGED <<settings, text, stage, page, start, index, chunks, astray>>
  BY DEF BatchAnswered, cutVars
<1>3. /\ chunks \in Seq(ChunkRecords) /\ vectors \in Seq(ChunkRecords)
      /\ asked \in Nat /\ settings.batch \in Nat \ {0}
      /\ Len(chunks) \in Nat /\ Len(vectors) \in Nat
  BY ValidSettings DEF PreparationInvariant, PreparationTypeOK
<1> DEFINE last == Smaller(asked + settings.batch, Len(chunks))
<1>4. last \in Nat /\ asked <= last /\ last <= Len(chunks)
  BY <1>2, <1>3 DEF Smaller
<1>5. /\ Batch \in Seq(ChunkRecords) /\ Len(Batch) = last - asked
      /\ \A i \in 1 .. last - asked : Batch[i] = chunks[asked + i]
  <2>1. Batch = SubSeq(chunks, asked + 1, last)
    BY DEF Batch
  <2> HIDE DEF last
  <2>2. QED
    BY <1>2, <1>3, <1>4, <2>1
<1> HIDE DEF last
<1>6. /\ SubSeq(Batch, 1, n) \in Seq(ChunkRecords) /\ Len(SubSeq(Batch, 1, n)) = n
      /\ \A i \in 1 .. n : SubSeq(Batch, 1, n)[i] = Batch[i]
  BY <1>4, <1>5
<1>7. /\ vectors' \in Seq(ChunkRecords) /\ Len(vectors') = Len(vectors) + n
      /\ \A i \in 1 .. Len(vectors) : vectors'[i] = vectors[i]
      /\ \A i \in 1 .. n : vectors'[Len(vectors) + i] = Batch[i]
  <2> DEFINE t == SubSeq(Batch, 1, n)
  <2>1. t \in Seq(ChunkRecords) /\ Len(t) = n /\ \A i \in 1 .. n : t[i] = Batch[i]
    BY <1>6
  <2>2. vectors' = vectors \o t
    BY <1>1
  <2> HIDE DEF t
  <2>3. /\ vectors' \in Seq(ChunkRecords) /\ Len(vectors') = Len(vectors) + Len(t)
        /\ \A i \in 1 .. Len(vectors) + Len(t) :
             vectors'[i] = IF i <= Len(vectors) THEN vectors[i] ELSE t[i - Len(vectors)]
    BY <1>3, <2>1, <2>2, ConcatProperties
  <2>4. \A i \in 1 .. Len(vectors) : vectors'[i] = vectors[i]
    BY <1>3, <1>4, <1>5, <2>1, <2>3
  <2>5. ASSUME NEW i \in 1 .. n
        PROVE  vectors'[Len(vectors) + i] = Batch[i]
    <3>1. /\ Len(vectors) + i \in 1 .. Len(vectors) + n
          /\ ~(Len(vectors) + i <= Len(vectors)) /\ (Len(vectors) + i) - Len(vectors) = i
      BY <1>3, <1>4, <1>5
    <3>2. QED
      BY <2>1, <2>3, <3>1
  <2>6. QED
    BY <2>1, <2>3, <2>4, <2>5
<1>8. PreparationTypeOK'
  BY <1>2, <1>3, <1>7, PreparationAssumption DEF PreparationInvariant, PreparationTypeOK
<1>9. Smaller(asked, Len(chunks)) = asked /\ Smaller(asked', Len(chunks)') = last
  BY <1>2, <1>3 DEF Smaller, last
<1>10. Embedded'
  <2>1. ~astray => Len(vectors) <= asked
    BY <1>2, <1>9 DEF PreparationInvariant, Embedded
  <2>2. ~astray => Len(vectors') <= last
    BY <1>3, <1>4, <1>5, <1>7, <2>1
  <2>3. ASSUME ~astray, Len(vectors') = last, NEW i \in 1 .. Len(vectors')
        PROVE  vectors'[i] = chunks[i]
    <3>1. Len(vectors) = asked /\ n = last - asked
      BY <1>3, <1>4, <1>5, <1>7, <2>1, <2>3
    <3>2. CASE i <= asked
      BY <1>2, <1>7, <1>9, <2>3, <3>1, <3>2 DEF PreparationInvariant, Embedded
    <3>3. CASE i > asked
      <4>1. i - asked \in 1 .. n /\ i = asked + (i - asked)
        BY <1>3, <1>4, <2>3, <3>1, <3>3
      <4>2. QED
        BY <1>5, <1>7, <3>1, <4>1
    <3>4. QED
      BY <1>3, <3>2, <3>3
  <2>4. 0 < MaxAttempts
    BY PreparationAssumption
  <2>5. QED
    BY <1>2, <1>9, <2>2, <2>3, <2>4 DEF Embedded
<1>11. \A p, c : Holds(p, c)' = Holds(p, c)
  BY <1>2 DEF Holds
<1>12. QED
  BY <1>2, <1>8, <1>10, <1>11 DEF PreparationInvariant, CurrentPage, Unfinished, CoveredSoFar,
       TextCovered, ChunksAdvance, NeighboursOverlap, VectorsAligned

\* One that comes back astray leaves nothing to say but how many there are.
LEMMA AstrayStep ==
  ASSUME PreparationInvariant, BatchAstray
  PROVE  PreparationInvariant'
<1>1. /\ stage = "embedding" /\ asked' = asked + settings.batch /\ attempts' = 0 /\ astray'
      /\ UNCHANGED <<settings, text, stage, page, start, index, chunks>>
  BY DEF BatchAstray, cutVars
<1>2. /\ chunks \in Seq(ChunkRecords) /\ vectors \in Seq(ChunkRecords)
      /\ asked \in Nat /\ settings.batch \in Nat \ {0} /\ Len(chunks) \in Nat
  BY ValidSettings DEF PreparationInvariant, PreparationTypeOK
<1>3. Batch \in Seq(ChunkRecords)
  <2> DEFINE last == Smaller(asked + settings.batch, Len(chunks))
  <2>1. last \in Nat /\ last <= Len(chunks)
    BY <1>2 DEF Smaller
  <2>2. Batch = SubSeq(chunks, asked + 1, last)
    BY DEF Batch
  <2> HIDE DEF last
  <2>3. QED
    BY <1>2, <2>1, <2>2
<1>4. vectors' \in Seq(ChunkRecords)
  <2>1. PICK n \in 0 .. Len(Batch) + 1 :
          \E answer \in [1 .. n -> {Batch[i] : i \in 1 .. Len(Batch)}] :
            vectors' = vectors \o answer
    BY DEF BatchAstray
  <2>2. PICK answer \in [1 .. n -> {Batch[i] : i \in 1 .. Len(Batch)}] :
          vectors' = vectors \o answer
    BY <2>1
  <2>3. n \in Nat /\ \A i \in 1 .. Len(Batch) : Batch[i] \in ChunkRecords
    BY <1>3, <2>1
  <2> HIDE DEF Batch
  <2>4. answer \in [1 .. n -> ChunkRecords]
    BY <2>2, <2>3
  <2>5. answer \in Seq(ChunkRecords)
    BY <2>3, <2>4, SeqDef
  <2>6. QED
    BY <1>2, <2>2, <2>5, ConcatProperties
<1>5. PreparationTypeOK'
  BY <1>1, <1>2, <1>4, PreparationAssumption DEF PreparationInvariant, PreparationTypeOK
<1>6. Embedded'
  BY <1>1, PreparationAssumption DEF Embedded
<1>7. \A p, c : Holds(p, c)' = Holds(p, c)
  BY <1>1 DEF Holds
<1>8. QED
  BY <1>1, <1>5, <1>6, <1>7 DEF PreparationInvariant, CurrentPage, Unfinished, CoveredSoFar,
       TextCovered, ChunksAdvance, NeighboursOverlap, VectorsAligned

\* A batch that fails changes nothing but the attempts; validation lets the
\* vectors through only if there are as many as chunks.
LEMMA EmbedStep ==
  ASSUME PreparationInvariant, BatchFails \/ BatchRejected \/ Validate
  PROVE  PreparationInvariant'
<1>1. /\ stage = "embedding" /\ stage' # "chunking"
      /\ UNCHANGED <<settings, text, page, start, index, chunks, vectors, asked, astray>>
  BY DEF BatchFails, BatchRejected, Validate, cutVars, embedVars
<1>2. /\ chunks \in Seq(ChunkRecords) /\ vectors \in Seq(ChunkRecords)
      /\ asked \in Nat /\ attempts \in Nat /\ MaxAttempts \in Nat \ {0}
      /\ Len(chunks) \in Nat
  BY PreparationAssumption DEF PreparationInvariant, PreparationTypeOK
<1>3. attempts < MaxAttempts
  BY <1>1 DEF PreparationInvariant, Embedded
<1>4. PreparationTypeOK'
  BY <1>1, <1>2, <1>3
  DEF PreparationInvariant, PreparationTypeOK, BatchFails, BatchRejected, Validate, cutVars, embedVars
<1>5. Embedded'
  BY <1>1, <1>2, <1>3
  DEF PreparationInvariant, Embedded, BatchFails, BatchRejected, Validate, cutVars, embedVars
<1>6. VectorsAligned'
  <2>1. SUFFICES ASSUME stage' = "prepared"
                 PROVE  Len(vectors) = Len(chunks) /\ (~astray => vectors = chunks)
    BY <1>1 DEF VectorsAligned
  <2>2. asked >= Len(chunks) /\ Len(vectors) = Len(chunks)
    BY <1>1, <2>1 DEF BatchFails, BatchRejected, Validate
  <2>3. ~astray => \A i \in 1 .. Len(vectors) : vectors[i] = chunks[i]
    BY <1>1, <1>2, <2>2 DEF PreparationInvariant, Embedded, Smaller
  <2>4. QED
    BY <1>2, <2>2, <2>3
<1>7. \A p, c : Holds(p, c)' = Holds(p, c)
  BY <1>1 DEF Holds
<1>8. TextCovered'
  BY <1>1, <1>7 DEF PreparationInvariant, TextCovered
<1>9. QED
  BY <1>1, <1>4, <1>5, <1>6, <1>8 DEF PreparationInvariant, CurrentPage, Unfinished, CoveredSoFar,
       ChunksAdvance, NeighboursOverlap

LEMMA PreparationInductive == PreparationSpec => []PreparationInvariant
<1>1. PreparationInit => PreparationInvariant
  <2> SUFFICES ASSUME PreparationInit PROVE PreparationInvariant
    OBVIOUS
  <2>1. /\ settings \in Settings /\ text \in Texts /\ stage = "chunking"
        /\ page = 1 /\ start = 0 /\ index = 0 /\ chunks = <<>>
        /\ vectors = <<>> /\ asked = 0 /\ attempts = 0 /\ astray = FALSE /\ Len(chunks) = 0
    BY DEF PreparationInit
  <2>2. text \in Seq(Nat) /\ Len(text) \in Nat /\ settings.overlap \in Nat
    BY <2>1, PreparationAssumption
  <2>3. PreparationTypeOK
    <3>1. page \in 1 .. Len(text) + 1 /\ start \in Nat /\ index \in Nat /\ asked \in Nat
      BY <2>1, <2>2
    <3>2. chunks \in Seq(ChunkRecords) /\ vectors \in Seq(ChunkRecords)
      BY <2>1
    <3>3. attempts \in 0 .. MaxAttempts
      BY <2>1, PreparationAssumption
    <3>4. astray \in BOOLEAN
      BY <2>1, Zenon
    <3>5. QED
      BY <2>1, <3>1, <3>2, <3>3, <3>4 DEF PreparationTypeOK
  <2>4. QED
    BY <2>1, <2>2, <2>3 DEF PreparationInvariant, CurrentPage, Unfinished, CoveredSoFar, Embedded,
         TextCovered, ChunksAdvance, NeighboursOverlap, VectorsAligned
<1>2. PreparationInvariant /\ [PreparationNext]_preparationVars => PreparationInvariant'
  <2> SUFFICES ASSUME PreparationInvariant, [PreparationNext]_preparationVars
               PROVE  PreparationInvariant'
    OBVIOUS
  <2>1. CASE Chunk
    BY <2>1, CutStep, SkipStep, EndChunkingStep DEF Chunk
  <2>2. CASE Embed
    BY <2>2, AnsweredStep, AstrayStep, EmbedStep DEF Embed
  <2>3. CASE UNCHANGED preparationVars
    <3>1. UNCHANGED <<settings, text, stage, page, start, index, chunks, vectors, asked, attempts, astray>>
      BY <2>3 DEF preparationVars, cutVars, embedVars
    <3>2. \A p, c : Holds(p, c)' = Holds(p, c)
      BY <3>1 DEF Holds
    <3>3. QED
      BY <3>1, <3>2 DEF PreparationInvariant, PreparationTypeOK, CurrentPage, Unfinished,
           CoveredSoFar, Embedded, TextCovered, ChunksAdvance, NeighboursOverlap, VectorsAligned
  <2>4. QED
    BY <2>1, <2>2, <2>3 DEF PreparationNext
<1>3. QED
  BY <1>1, <1>2, PTL DEF PreparationSpec

\* No character of a document is lost by chunk_pages.
THEOREM AllTextIsChunked == PreparationSpec => []TextCovered
<1>1. PreparationInvariant => TextCovered
  BY DEF PreparationInvariant
<1>2. QED
  BY <1>1, PreparationInductive, PTL

\* No chunk lies within another, and no two of a page have the same place.
THEOREM ChunksAreDistinct == PreparationSpec => []ChunksAdvance
<1>1. PreparationInvariant => ChunksAdvance
  BY DEF PreparationInvariant
<1>2. QED
  BY <1>1, PreparationInductive, PTL

\* Chunks keep their size, and neighbours share exactly the overlap.
THEOREM OverlapIsKept == PreparationSpec => []NeighboursOverlap
<1>1. PreparationInvariant => NeighboursOverlap
  BY DEF PreparationInvariant
<1>2. QED
  BY <1>1, PreparationInductive, PTL

\* Every chunk of a prepared document has one vector, and its own if no batch
\* came back astray.
THEOREM VectorsMatchChunks == PreparationSpec => []VectorsAligned
<1>1. PreparationInvariant => VectorsAligned
  BY DEF PreparationInvariant
<1>2. QED
  BY <1>1, PreparationInductive, PTL
=============================================================================
