--------------------------- MODULE ClientDocuments ---------------------------
(***************************************************************************)
(* The document store of the browser client: the documents it shows, the   *)
(* active one, the polling that an upload starts, and the answers of the   *)
(* server on their way to it, while the server stores, processes and       *)
(* deletes documents, another tab does the same, and the page is loaded    *)
(* again.  Ingestion is asynchronous: an upload is answered as pending; a  *)
(* processing document is pending here, the page tells neither apart.      *)
(***************************************************************************)
EXTENDS Naturals, FiniteSets, SequencesExt

CONSTANTS
  Docs,       \* documents that may be uploaded
  None,       \* null
  PageLimit,  \* documents on the first page of the list, the only one read
  MaxBatch,   \* files of one upload
  MaxUnderWay,\* lists and removals requested and not yet shown
  InOrder     \* answers arrive in the order the server gave them

ASSUME ConstantsAssumption ==
  /\ None \notin Docs /\ "off" \notin Docs \cup {None}
  /\ PageLimit \in Nat \ {0} /\ MaxBatch \in Nat \ {0} /\ MaxUnderWay \in Nat \ {0}
  /\ InOrder \in BOOLEAN

VARIABLES
  status,     \* server: the status of each document, absent and deleted included
  table,      \* server: the rows, ORDER BY created_at, id
  calls,      \* lists requested: the active id each closure has captured
  batch,      \* the upload under way: files left, rows stored, captured id
  wire,       \* answers on their way
  documents,  \* the cards shown
  activeId,   \* activeDocumentId, which localStorage keeps across loads
  interval,   \* off, or the active id that the polling closure has captured
  isUploading,\* the upload button is disabled
  loaded,     \* a list has been shown since the page was loaded
  own,        \* documents whose upload was answered to this page
  unseen,     \* documents changed without an answer to this page
  reopened    \* documents processed again since the page was loaded

serverVars == <<status, table>>
networkVars == <<calls, batch, wire>>
pageVars == <<documents, activeId, interval, isUploading>>
historyVars == <<loaded, own, unseen, reopened>>
vars == <<serverVars, networkVars, pageVars, historyVars>>

Terminal == {"ready", "failed"}
Card(d, s) == [id |-> d, status |-> s]
NoBatch == [left |-> 0, accepted |-> <<>>, asked |-> None, open |-> FALSE]
Answer(kind, asked, cards) == [kind |-> kind, asked |-> asked, cards |-> cards]

\* The k-th of the places I, and what s has at them, in order.
Place(I, k) == CHOOSE i \in I : Cardinality({j \in I : j <= i}) = k
Entries(s, I) == [k \in 1 .. Cardinality(I) |-> s[Place(I, k)]]

Init ==
  /\ status = [d \in Docs |-> "absent"] /\ table = <<>>
  /\ calls = <<None>> /\ batch = NoBatch /\ wire = <<>>
  /\ documents = <<>> /\ activeId = None /\ interval = "off" /\ isUploading = FALSE
  /\ loaded = FALSE /\ own = {} /\ unseen = {} /\ reopened = {}

-----------------------------------------------------------------------------
(***************************************************************************)
(* The server.                                                             *)
(***************************************************************************)

\* Documents are alike, so which of the absent ones comes next is no choice.
NextDoc == CHOOSE d \in Docs : status[d] = "absent"

\* Rows are ordered by created_at, the start of their transactions, and id: one
\* committed later may come before others.
Insert(d, s) ==
  /\ status[d] = "absent" /\ d = NextDoc
  /\ status' = [status EXCEPT ![d] = s]
  /\ \E i \in 1 .. Len(table) + 1 : table' = InsertAt(table, i, d)

DeleteRow(d) ==
  /\ status' = [status EXCEPT ![d] = "deleted"]
  /\ table' = Entries(table, {i \in DOMAIN table : table[i] # d})
  /\ own' = own \ {d}

\* GET /documents without a cursor or a limit
FirstPage == [i \in 1 .. Min({Len(table), PageLimit}) |-> Card(table[i], status[table[i]])]

ServeList(i) ==
  /\ i \in DOMAIN calls
  /\ calls' = RemoveAt(calls, i)
  /\ wire' = Append(wire, Answer("list", calls[i], FirstPage))
  /\ UNCHANGED <<serverVars, batch, pageVars, historyVars>>

\* One file of upload-batch is stored and its task published. Nothing obliges
\* Process to decide it: a request may die between the two.
StoreFile(d) ==
  /\ batch.left > 0
  /\ Insert(d, "pending")
  /\ batch' = [batch EXCEPT !.left = @ - 1, !.accepted = Append(@, Card(d, "pending"))]
  /\ UNCHANGED <<calls, wire, pageVars, historyVars>>

\* It is stored, but not published: marked failed, and no result of the batch names it.
StoreUnpublished(d) ==
  /\ batch.left > 0
  /\ Insert(d, "failed")
  /\ batch' = [batch EXCEPT !.left = @ - 1]
  /\ unseen' = unseen \cup {d}
  /\ UNCHANGED <<calls, wire, pageVars, loaded, own, reopened>>

\* It is too large, or no file of an allowed type.
RejectFile ==
  /\ batch.left > 0
  /\ batch' = [batch EXCEPT !.left = @ - 1]
  /\ UNCHANGED <<serverVars, calls, wire, pageVars, historyVars>>

AnswerBatch ==
  /\ batch.open /\ batch.left = 0
  /\ wire' = Append(wire, Answer("upload", batch.asked, batch.accepted))
  /\ batch' = NoBatch
  /\ UNCHANGED <<serverVars, calls, pageVars, historyVars>>

\* A run of ingest_document ends.
Process(d) ==
  /\ status[d] = "pending"
  /\ \E s \in Terminal : status' = [status EXCEPT ![d] = s]
  /\ UNCHANGED <<table, networkVars, pageVars, historyVars>>

\* A decided document does not stay so: its task is delivered again, the other of
\* two runs writes its outcome, or reconciliation marks it ready.
ProcessAgain(d) ==
  /\ status[d] \in Terminal
  /\ \E s \in {"pending", "ready", "failed"} \ {status[d]} :
       status' = [status EXCEPT ![d] = s]
  /\ reopened' = reopened \cup {d}
  /\ UNCHANGED <<table, networkVars, pageVars, loaded, own, unseen>>

\* Another tab, or a request that outlived the page that sent it, or one
\* whose answer is lost.
OtherUpload(d) ==
  /\ Insert(d, "pending")
  /\ unseen' = unseen \cup {d}
  /\ UNCHANGED <<networkVars, pageVars, loaded, own, reopened>>

OtherDelete(d) ==
  /\ d \in ToSet(table)
  /\ DeleteRow(d)
  /\ unseen' = unseen \cup {d}
  /\ UNCHANGED <<networkVars, pageVars, loaded, reopened>>

-----------------------------------------------------------------------------
(***************************************************************************)
(* The page.                                                               *)
(***************************************************************************)
UnderWay == Len(calls) + Cardinality({i \in DOMAIN wire : wire[i].kind # "upload"})

\* The interval fires refreshDocs.
Tick ==
  /\ interval # "off"
  /\ UnderWay < MaxUnderWay
  /\ calls' = Append(calls, interval)
  /\ UNCHANGED <<serverVars, batch, wire, pageVars, historyVars>>

\* Mutant: the button is not disabled.
SubmitBatchEnabled ==
  /\ ~isUploading
  /\ \E n \in 1 .. MaxBatch :
       batch' = [left |-> n, accepted |-> <<>>, asked |-> activeId, open |-> TRUE]
  /\ UNCHANGED <<serverVars, calls, wire, pageVars, historyVars>>

\* The upload button; uploadBatch captures the active document of this render.
SubmitBatch ==
  /\ ~isUploading
  /\ isUploading' = TRUE
  /\ \E n \in 1 .. MaxBatch :
       batch' = [left |-> n, accepted |-> <<>>, asked |-> activeId, open |-> TRUE]
  /\ UNCHANGED <<serverVars, calls, wire, documents, activeId, interval, historyVars>>

ShownIds == {c.id : c \in ToSet(documents)}

\* The delete button of a card.  The request is served as it is sent: one that
\* waits is as good as a later click.
Delete(d) ==
  /\ d \in ShownIds \cap ToSet(table)
  /\ UnderWay < MaxUnderWay
  /\ DeleteRow(d)
  /\ wire' = Append(wire, Answer("delete", None, <<Card(d, "deleted")>>))
  /\ UNCHANGED <<calls, batch, pageVars, loaded, unseen, reopened>>

\* An answer that arrives: the first, or any where answers overtake each other.
Arrives(i, kind) ==
  /\ i \in DOMAIN wire /\ wire[i].kind = kind
  /\ InOrder => i = 1
  /\ wire' = RemoveAt(wire, i)

FirstReady(cards) ==
  LET ready == {i \in DOMAIN cards : cards[i].status = "ready"} IN
  IF ready = {} THEN None ELSE cards[Min(ready)].id

\* Mutant: failed documents are waited for as well.
SettledReady(cards) == \A c \in ToSet(cards) : c.status = "ready"

\* Mutant: polling stops at the first document that is ready or failed.
SettledSome(cards) == cards = <<>> \/ \E c \in ToSet(cards) : c.status \in Terminal

Settled(cards) == \A c \in ToSet(cards) : c.status \in Terminal

HasActive(asked, cards) == asked # None /\ Card(asked, "ready") \in ToSet(cards)

ListReturns(i) ==
  LET a == wire[i] IN
  /\ Arrives(i, "list")
  /\ documents' = a.cards
  /\ activeId' = IF HasActive(a.asked, a.cards) THEN activeId ELSE FirstReady(a.cards)
  /\ interval' = IF Settled(a.cards) THEN "off" ELSE interval
  /\ loaded' = TRUE
  /\ UNCHANGED <<serverVars, calls, batch, isUploading, own, unseen, reopened>>

\* Cards are put in front and polling starts afresh, unless no file was accepted.
UploadReturns(i) ==
  LET a == wire[i] IN
  /\ Arrives(i, "upload")
  /\ isUploading' = FALSE
  /\ IF a.cards = <<>>
     THEN UNCHANGED <<documents, interval, activeId>>
     ELSE /\ documents' = a.cards \o documents
          /\ interval' = a.asked
          /\ activeId' = IF Head(a.cards).status = "ready" THEN Head(a.cards).id ELSE activeId
  /\ own' = own \cup ({c.id : c \in ToSet(a.cards)} \cap ToSet(table))
  /\ UNCHANGED <<serverVars, calls, batch, loaded, unseen, reopened>>

\* Mutant: the card stays until the next list.
RemovalReturnsUnfiltered(i) ==
  /\ Arrives(i, "delete")
  /\ activeId' = IF activeId = Head(wire[i].cards).id THEN None ELSE activeId
  /\ UNCHANGED <<serverVars, calls, batch, documents, interval, isUploading, historyVars>>

\* Mutant: the removed document stays the active one.
RemovalReturnsStillActive(i) ==
  LET d == Head(wire[i].cards).id IN
  /\ Arrives(i, "delete")
  /\ documents' = Entries(documents, {k \in DOMAIN documents : documents[k].id # d})
  /\ UNCHANGED <<serverVars, calls, batch, activeId, interval, isUploading, historyVars>>

RemovalReturns(i) ==
  LET d == Head(wire[i].cards).id IN
  /\ Arrives(i, "delete")
  /\ documents' = Entries(documents, {k \in DOMAIN documents : documents[k].id # d})
  /\ activeId' = IF activeId = d THEN None ELSE activeId
  /\ UNCHANGED <<serverVars, calls, batch, interval, isUploading, historyVars>>

-----------------------------------------------------------------------------
(***************************************************************************)
(* Failures: the page waits for an answer that does not come.              *)
(***************************************************************************)

\* refreshDocs fails silently.
ListFails(i) ==
  /\ Arrives(i, "list")
  /\ UNCHANGED <<serverVars, calls, batch, pageVars, historyVars>>

\* uploadBatch throws in UploadPanel: the button stays disabled.  The files
\* stored so far stay.
BatchFails ==
  /\ batch.open
  /\ batch' = NoBatch
  /\ unseen' = unseen \cup {c.id : c \in ToSet(batch.accepted)}
  /\ UNCHANGED <<serverVars, calls, wire, pageVars, loaded, own, reopened>>

\* The page is loaded again: one list is requested and nothing polls.
Reload ==
  /\ calls' = <<activeId>> /\ batch' = NoBatch /\ wire' = <<>>
  /\ documents' = <<>> /\ interval' = "off" /\ isUploading' = FALSE
  /\ loaded' = FALSE /\ own' = {} /\ unseen' = {} /\ reopened' = {}
  /\ UNCHANGED <<serverVars, activeId>>

-----------------------------------------------------------------------------
ListServed == \E i \in DOMAIN calls : ServeList(i)

StoreBatch ==
  \/ \E d \in Docs : StoreFile(d) \/ StoreUnpublished(d)
  \/ RejectFile

Processing == \E d \in Docs : Process(d) \/ ProcessAgain(d)
ListReturned == \E i \in DOMAIN wire : ListReturns(i)
OtherReturned == \E i \in DOMAIN wire : UploadReturns(i) \/ RemovalReturns(i)

Next ==
  \/ ListServed \/ AnswerBatch \/ StoreBatch \/ Processing
  \/ \E d \in Docs : OtherUpload(d) \/ OtherDelete(d)
  \/ Tick \/ SubmitBatch
  \/ \E d \in Docs : Delete(d)
  \/ ListReturned \/ OtherReturned
  \/ \E i \in DOMAIN wire : ListFails(i)
  \/ BatchFails
  \/ Reload

Spec == Init /\ [][Next]_vars

\* Requests are served; the interval fires; a list may fail, but not every time.
\* That a document is ever decided is not assumed.
FairSpec ==
  /\ Spec
  /\ WF_vars(ListServed)
  /\ WF_vars(StoreBatch \/ AnswerBatch)
  /\ WF_vars(Tick)
  /\ WF_vars(OtherReturned)
  /\ SF_vars(ListReturned)

-----------------------------------------------------------------------------
(***************************************************************************)
(* Properties.                                                             *)
(***************************************************************************)
ReadyIds == {c.id : c \in {k \in ToSet(documents) : k.status = "ready"}}
Quiet == calls = <<>> /\ wire = <<>> /\ ~batch.open

\* Kinds of the variables; the polling closure holds the active id it captured.
TypeOK ==
  /\ status \in [Docs -> {"absent", "pending", "ready", "failed", "deleted"}]
  /\ ToSet(table) = {d \in Docs : status[d] \notin {"absent", "deleted"}}
  /\ Len(table) = Cardinality(ToSet(table))
  /\ ToSet(calls) \subseteq Docs \cup {None}
  /\ batch.left \in 0 .. MaxBatch /\ (batch.open => isUploading)
  /\ UnderWay <= MaxUnderWay
  /\ ShownIds \subseteq Docs
  /\ activeId \in Docs \cup {None}
  /\ interval = "off" \/ interval \in Docs \cup {None}
  /\ isUploading \in BOOLEAN /\ loaded \in BOOLEAN
  /\ own \in SUBSET Docs /\ unseen \in SUBSET Docs /\ reopened \in SUBSET Docs

\* Once nothing is under way and polling is over, the page shows one card for
\* each document of the server, but for those changed behind its back.
ShowsTable ==
  loaded /\ Quiet /\ interval = "off" =>
    /\ Len(documents) = Cardinality(ShownIds)
    /\ ShownIds \ unseen = ToSet(table) \ unseen

\* Polling goes on until each document this page uploaded is shown as the
\* server has decided it, unless it was processed again.
UploadsWatched ==
  interval = "off" =>
    \A d \in own \ reopened :
      status[d] \in Terminal /\ Card(d, status[d]) \in ToSet(documents)

\* Polling ends (Settled, stopPolling) once no document is pending any more: the
\* server is not asked for ever.  A document that nobody decides is asked for
\* as long as the page is open.
PollingEnds ==
  <>[](\A d \in Docs : status[d] # "pending") => []<>(interval = "off")

\* The active document is one that is shown as ready, whichever render's id the
\* polling closure goes by, unless it was deleted behind the page's back or
\* processed again: then the closure may look for another one and leave it
\* (refreshDocs, uploadBatch, remove).
ActiveIsReady ==
  loaded /\ activeId # None =>
    \/ activeId \in ReadyIds \cup reopened
    \/ status[activeId] = "deleted" /\ activeId \in unseen

\* tests: "uploads a document and adds it to list".  A document this page has
\* uploaded is listed, once all is quiet, as long as the server has it.
UploadedIsListed == Quiet /\ interval = "off" => own \subseteq ShownIds
=============================================================================
