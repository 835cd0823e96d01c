---------------------------- MODULE MCAlgorithms ----------------------------
(***************************************************************************)
(* Small instances of the four components that share no state with each    *)
(* other: Pagination, Preparation, Retrieval and EventStream.  A behaviour *)
(* is one of the component that part names; the others stay as they are.   *)
(***************************************************************************)
EXTENDS Pagination, Preparation, Retrieval, EventStream

CONSTANTS d1, d2

VARIABLE part

\* Three rows, read by pages of one or two rows; a limit of 0 counts as 1.
TheRows == 1 .. 3
TheLimits == {0, 1, 3}

\* Documents of one or two pages, windows of up to three characters.
TheTexts == UNION {[1 .. n -> 0 .. 5] : n \in 1 .. 2}
TheSettings ==
  {s \in [size : 1 .. 3, overlap : 0 .. 2, batch : {2}] : s.overlap < s.size}

\* Two documents of two chunks each; a block of 7 is longer than the context.
TheDocs == {d1, d2}
TheChunks == 1 .. 4
TheDocOf == <<d1, d1, d2, d2>>
TheLengths == {1, 3, 7}

allVars == <<part, paginationVars, preparationVars, retrievalVars, streamVars>>

Parts == {"pagination", "preparation", "retrieval", "stream"}

\* A component that does not run starts in one state only.
Idle ==
  /\ part # "preparation" => text = <<0>> /\ settings = [size |-> 1, overlap |-> 0, batch |-> 2]
  /\ part # "retrieval" => scope = {} /\ \A d \in Docs : points[d]

Init == /\ part \in Parts
        /\ PaginationInit /\ PreparationInit /\ RetrievalInit /\ StreamInit
        /\ Idle

Paginates ==
  /\ part = "pagination" /\ PaginationNext
  /\ UNCHANGED <<part, preparationVars, retrievalVars, streamVars>>

Prepares ==
  /\ part = "preparation" /\ PreparationNext
  /\ UNCHANGED <<part, paginationVars, retrievalVars, streamVars>>

Retrieves ==
  /\ part = "retrieval" /\ RetrievalNext
  /\ UNCHANGED <<part, paginationVars, preparationVars, streamVars>>

Streams ==
  /\ part = "stream" /\ StreamNext
  /\ UNCHANGED <<part, paginationVars, preparationVars, retrievalVars>>

Next == Paginates \/ Prepares \/ Retrieves \/ Streams

Spec == Init /\ [][Next]_allVars

\* Of the batches of a document one may come back astray, and the others then
\* come back whole.
OneAstray == astray /\ asked' # asked => vectors' = vectors \o Batch

\* Every component keeps its types, the ones that do not run included.
PartsTypeOK == PaginationTypeOK /\ PreparationTypeOK /\ RetrievalTypeOK /\ StreamTypeOK
=============================================================================
