------------------------------ MODULE Answering ------------------------------
(***************************************************************************)
(* The answer pipeline: questions of one user to conversations, answered   *)
(* from the semantic cache or by retrieval and the LLM, stored as message  *)
(* and citation rows, while documents are re-ingested and deleted, the     *)
(* scope of a conversation changes, and requests are cut short.            *)
(*                                                                         *)
(* A document stands for the chunk of it that is retrieved, and is         *)
(* "processing" whenever its row is there and not ready. An answer's text  *)
(* is the sequence of chunks its context labels 1, 2, ... name; the prompt *)
(* it was written from also held what the history of the conversation was  *)
(* written from, its prior.                                                *)
(***************************************************************************)
EXTENDS Integers, FiniteSets, Sequences

CONSTANTS
  Docs,            \* the user's documents
  Convs,           \* conversations
  Requests,        \* questions sent, each its own request
  None,            \* no document
  CacheEnabled,    \* the setting SEMANTIC_CACHE_ENABLED
  OneAtATime,      \* the user waits for an answer before asking on in a conversation
  Interrupted,     \* requests may end at any step: client gone, API killed, an error
  DocumentsChange  \* documents are processed again and deleted meanwhile

ASSUME ConstantsAssumption ==
  /\ IsFiniteSet(Docs) /\ IsFiniteSet(Requests)
  /\ None \notin Docs \cup Convs
  /\ CacheEnabled \in BOOLEAN
  /\ OneAtATime \in BOOLEAN
  /\ Interrupted \in BOOLEAN
  /\ DocumentsChange \in BOOLEAN

VARIABLES
  docs,        \* documents.status: processing, ready, or deleted with its row
  points,      \* Qdrant holds the chunks of the document
  conv,        \* the conversation's row
  messages,    \* message rows with their citation rows
  clock,       \* database time: the transactions begun so far
  cache,       \* the entries of the semantic cache
  writing,     \* entries whose write is on its way
  at,          \* where each request is
  target,      \* its conversation
  begun,       \* when the open transaction of its session began; 0 before
  scope,       \* the scope it snapshot at its start
  draft,       \* the answer it is about to store
  client       \* what the client has got

docVars == <<docs, points>>
cacheVars == <<cache, writing>>
runVars == <<target, scope>>
vars == <<docs, points, conv, messages, clock, cache, writing, at, target,
          begun, scope, draft, client>>

Deleted == "deleted"
Ready(d) == docs[d] = "ready"
NoConv == [primary |-> None, active |-> {}]
Exists(c) == conv[c].primary # None
NoScope == [active |-> {}, ready |-> {}]
NoDraft == [text |-> << >>, cites |-> << >>, prior |-> {}]

\* The chunks of a set in some order of relevance.
Ranked(S) == {s \in UNION {[1 .. n -> S] : n \in 1 .. Cardinality(S)} :
                \A i, j \in DOMAIN s : s[i] = s[j] => i = j}
Named(cites) == {cites[l] : l \in DOMAIN cites}
Keep(cites, S) == [l \in {k \in DOMAIN cites : cites[k] \in S} |-> cites[l]]

Places == {"idle", "question", "lookup", "verify", "hydrate", "storeCached", "retrieve",
           "abstain", "stream", "storeAnswer", "storeFailure", "finish", "ended"}
Running(r) == at[r] \notin {"idle", "ended"}
Go(r, from, to) == at[r] = from /\ at' = [at EXCEPT ![r] = to]

Init ==
  /\ docs = [d \in Docs |-> "ready"]
  /\ points = [d \in Docs |-> TRUE]
  /\ conv = [c \in Convs |-> NoConv]
  /\ messages = {}
  /\ clock = 0
  /\ cache = {}
  /\ writing = {}
  /\ at = [r \in Requests |-> "idle"]
  /\ target = [r \in Requests |-> None]
  /\ begun = [r \in Requests |-> 0]
  /\ scope = [r \in Requests |-> NoScope]
  /\ draft = [r \in Requests |-> NoDraft]
  /\ client = [r \in Requests |-> "waiting"]

-----------------------------------------------------------------------------
(***************************************************************************)
(* Database rows. created_at is the start of the inserting transaction; a  *)
(* session opens one with its first statement after a commit.              *)
(***************************************************************************)
Begins(r) == IF begun[r] = 0
             THEN clock' = clock + 1 /\ begun' = [begun EXCEPT ![r] = clock + 1]
             ELSE UNCHANGED <<clock, begun>>
Commits(r) == begun' = [begun EXCEPT ![r] = 0]

\* A row is dated by the transaction that inserts it, open or only now begun.
Dated(r) == IF begun[r] = 0 THEN clock + 1 ELSE begun[r]
Row(r, role, kind, written) ==
  [conv |-> target[r], turn |-> r, role |-> role, kind |-> kind, created |-> Dated(r),
   text |-> written.text, cites |-> written.cites, prior |-> written.prior]

Of(c) == {m \in messages : m.conv = c}
Before(m, n) == m.created < n.created

(***************************************************************************)
(* Foreign keys. The conversation and every cited document must have their *)
(* rows, and every cited chunk: a citation written while a re-ingestion    *)
(* replaces the chunk rows waits for it and finds the row it named gone.   *)
(***************************************************************************)
Insertable(r, cites) == /\ Exists(target[r])
                        /\ \A d \in Named(cites) : docs[d] # Deleted
Breakable(r, cites) == \/ ~Insertable(r, cites)
                       \/ \E d \in Named(cites) : docs[d] = "processing"

\* The request is over, whether it returned, raised or was cancelled: its session rolls back.
End(r) == /\ at' = [at EXCEPT ![r] = "ended"]
          /\ begun' = [begun EXCEPT ![r] = 0]
          /\ draft' = [draft EXCEPT ![r] = NoDraft]

-----------------------------------------------------------------------------
(***************************************************************************)
(* ConversationScopeService.                                               *)
(***************************************************************************)

AllReady(S) == \A d \in S : Ready(d)

\* The active documents must be ready; the primary one only has to exist.
CreateConversation(c, d, S) ==
  /\ ~Exists(c)
  /\ c \notin {target[r] : r \in Requests}
  /\ docs[d] # Deleted
  /\ S # {} /\ AllReady(S)
  /\ conv' = [conv EXCEPT ![c] = [primary |-> d, active |-> S]]
  /\ UNCHANGED <<docVars, messages, clock, cacheVars, at, runVars, begun, draft,
                 client>>

UpdateActiveDocuments(c, S) ==
  /\ Exists(c)
  /\ AllReady(S)
  /\ conv' = [conv EXCEPT ![c].active = S]
  /\ UNCHANGED <<docVars, messages, clock, cacheVars, at, runVars, begun, draft,
                 client>>

\* The ids stay in the list when a document goes; only ready ones are queried.
QueryableScope(c) == [active |-> conv[c].active,
                      ready  |-> {d \in conv[c].active : Ready(d)}]

-----------------------------------------------------------------------------
(***************************************************************************)
(* AnswerPipeline.answer, one action per stretch between two awaits that   *)
(* matter.                                                                 *)
(***************************************************************************)

\* Conversation and scope are read; a missing conversation is refused.
Ask(r, c) ==
  /\ OneAtATime => \A q \in Requests : target[q] = c => ~Running(q)
  /\ Exists(c)
  /\ Go(r, "idle", "question")
  /\ target' = [target EXCEPT ![r] = c]
  /\ Begins(r)
  /\ scope' = [scope EXCEPT ![r] = QueryableScope(c)]
  /\ UNCHANGED <<docVars, conv, messages, cacheVars, draft, client>>

StoreQuestion(r) ==
  /\ at[r] = "question"
  /\ IF Insertable(r, << >>)
     THEN /\ Go(r, "question", "lookup")
          /\ messages' = messages \cup {Row(r, "user", "question", NoDraft)}
          /\ Commits(r)
          /\ UNCHANGED draft
     ELSE End(r) /\ UNCHANGED messages
  /\ UNCHANGED <<docVars, conv, clock, cacheVars, runVars, client>>

\* A generated answer, with the chunks its labels name; its text keeps its prior.
Entry(r) == [active |-> scope[r].active, chunks |-> draft[r].cites, prior |-> draft[r].prior]
Cached(e) == [text |-> e.chunks, cites |-> e.chunks, prior |-> e.prior]

(***************************************************************************)
(* The nearest cached question under the hash of the active documents, if  *)
(* it is near enough: any such entry may be, or none, as entries expire    *)
(* and errors are a miss.                                                  *)
(***************************************************************************)
\* Mutant: the lookup is not filtered by document set.
LookupAnyDocuments(r) ==
  /\ \/ /\ Go(r, "lookup", "retrieve")
        /\ UNCHANGED draft
     \/ /\ CacheEnabled
        /\ Go(r, "lookup", "verify")
        /\ \E e \in cache : draft' = [draft EXCEPT ![r] = Cached(e)]
  /\ UNCHANGED <<docVars, conv, messages, clock, cacheVars, runVars, begun, client>>

LookupCache(r) ==
  /\ \/ /\ Go(r, "lookup", "retrieve")
        /\ UNCHANGED draft
     \/ /\ CacheEnabled
        /\ Go(r, "lookup", "verify")
        /\ \E e \in cache :
             /\ e.active = scope[r].active
             /\ draft' = [draft EXCEPT ![r] = Cached(e)]
  /\ UNCHANGED <<docVars, conv, messages, clock, cacheVars, runVars, begun, client>>

\* Pass 1 of hydration: some of the chunks are in Qdrant. An error falls back, too.
VerifyInQdrant(r) ==
  /\ \/ Go(r, "verify", "retrieve")
     \/ /\ Go(r, "verify", "hydrate")
        /\ \E d \in Named(draft[r].cites) : points[d]
  /\ UNCHANGED <<docVars, conv, messages, clock, cacheVars, runVars, begun, draft, client>>

\* Mutant: the labels are counted over the chunks that are left.
HydrateRelabelled(r) ==
  LET rows == {d \in scope[r].ready : Ready(d)}
      kept == SelectSeq(draft[r].cites, LAMBDA d : d \in rows) IN
  /\ Begins(r)
  /\ IF kept = << >>
     THEN Go(r, "hydrate", "retrieve") /\ UNCHANGED draft
     ELSE /\ Go(r, "hydrate", "storeCached")
          /\ draft' = [draft EXCEPT ![r].cites = kept]
  /\ UNCHANGED <<docVars, conv, messages, cacheVars, runVars, client>>

\* Pass 2: the rows of the cached chunks, each under its label in the cached answer.
Hydrate(r) ==
  LET kept == Keep(draft[r].cites, {d \in scope[r].ready : Ready(d)}) IN
  /\ Begins(r)
  /\ IF kept = << >>
     THEN Go(r, "hydrate", "retrieve") /\ UNCHANGED draft
     ELSE /\ Go(r, "hydrate", "storeCached")
          /\ draft' = [draft EXCEPT ![r].cites = kept]
  /\ UNCHANGED <<docVars, conv, messages, cacheVars, runVars, client>>

\* Mutant: no return after the cached answer.
StoreCachedAndGoOn(r) ==
  /\ at[r] = "storeCached"
  /\ \/ /\ Insertable(r, draft[r].cites)
        /\ Go(r, "storeCached", "retrieve")
        /\ messages' = messages \cup {Row(r, "assistant", "answer", draft[r])}
        /\ Commits(r)
        /\ UNCHANGED draft
     \/ Breakable(r, draft[r].cites) /\ End(r) /\ UNCHANGED messages
  /\ UNCHANGED <<docVars, conv, clock, cacheVars, runVars, client>>

StoreCached(r) ==
  /\ at[r] = "storeCached"
  /\ \/ /\ Insertable(r, draft[r].cites)
        /\ Go(r, "storeCached", "finish")
        /\ messages' = messages \cup {Row(r, "assistant", "answer", draft[r])}
        /\ Commits(r)
        /\ UNCHANGED draft
     \/ Breakable(r, draft[r].cites) /\ End(r) /\ UNCHANGED messages
  /\ UNCHANGED <<docVars, conv, clock, cacheVars, runVars, client>>

\* Mutant: failed answers stay in.
HistoryWithFailures(c) ==
  LET kept == Of(c) IN
  {p \in kept \X kept :
     /\ p[1].role = "user" /\ p[2].role = "assistant" /\ Before(p[1], p[2])
     /\ ~\E m \in kept : Before(p[1], m) /\ Before(m, p[2])}

\* _build_history: without failed answers, each question with the answer next to it.
History(c) ==
  LET kept == {m \in Of(c) : m.kind # "failed"} IN
  {p \in kept \X kept :
     /\ p[1].role = "user" /\ p[2].role = "assistant" /\ Before(p[1], p[2])
     /\ ~\E m \in kept : Before(p[1], m) /\ Before(m, p[2])}

\* The documents an answer was written from: the labelled ones and those of its history.
Sources(m) == Named(m.text) \cup m.prior
Prior(c) == UNION {Sources(h[2]) : h \in History(c)}

\* Lexical and semantic search fused, joined with the rows, packed; history and prompt.
Retrieve(r) ==
  /\ IF scope[r].ready = {} THEN UNCHANGED <<clock, begun>> ELSE Begins(r)
  /\ \/ /\ Go(r, "retrieve", "abstain")
        /\ draft' = [draft EXCEPT ![r] = NoDraft]
     \/ /\ Go(r, "retrieve", "stream")
        /\ \E s \in Ranked({d \in scope[r].ready : Ready(d)}) :
             draft' = [draft EXCEPT ![r] = [text |-> s, cites |-> s, prior |-> Prior(target[r])]]
  /\ UNCHANGED <<docVars, conv, messages, cacheVars, runVars, client>>

\* Nothing to answer from: a fixed sentence, stored without citations.
Abstain(r) ==
  /\ at[r] = "abstain"
  /\ clock' = IF begun[r] = 0 THEN clock + 1 ELSE clock
  /\ IF Exists(target[r])
     THEN /\ Go(r, "abstain", "finish")
          /\ messages' = messages \cup {Row(r, "assistant", "abstention", NoDraft)}
          /\ Commits(r)
          /\ UNCHANGED draft
     ELSE End(r) /\ UNCHANGED messages
  /\ UNCHANGED <<docVars, conv, cacheVars, runVars, client>>

\* The tokens of the LLM reach the client as they come; any error ends them.
StreamAnswer(r) ==
  /\ \E place \in {"storeAnswer", "storeFailure"} : Go(r, "stream", place)
  /\ UNCHANGED <<docVars, conv, messages, clock, cacheVars, runVars, begun, draft, client>>

\* The answer with its citations, then the cache write as a task of its own.
StoreAnswer(r) ==
  /\ at[r] = "storeAnswer"
  /\ \/ /\ Insertable(r, draft[r].cites)
        /\ Go(r, "storeAnswer", "finish")
        /\ messages' = messages \cup {Row(r, "assistant", "answer", draft[r])}
        /\ writing' = IF CacheEnabled THEN writing \cup {Entry(r)} ELSE writing
        /\ Commits(r)
        /\ UNCHANGED draft
     \/ Breakable(r, draft[r].cites) /\ End(r) /\ UNCHANGED <<messages, writing>>
  /\ UNCHANGED <<docVars, conv, clock, cache, runVars, client>>

\* Mutant: the transaction of the failed answer was committed before.
StoreFailureUndated(r) ==
  /\ at[r] = "storeFailure"
  /\ messages' = messages \cup {[Row(r, "assistant", "failed", NoDraft) EXCEPT !.created = 0]}
  /\ client' = [client EXCEPT ![r] = "error"]
  /\ End(r)
  /\ UNCHANGED <<docVars, conv, clock, cacheVars, runVars>>

\* A failed answer is a row, too: retryable, with its error and the question.
StoreFailure(r) ==
  /\ at[r] = "storeFailure"
  /\ IF Exists(target[r])
     THEN /\ messages' = messages \cup {Row(r, "assistant", "failed", NoDraft)}
          /\ client' = [client EXCEPT ![r] = "error"]
     ELSE UNCHANGED <<messages, client>>
  /\ End(r)
  /\ UNCHANGED <<docVars, conv, clock, cacheVars, runVars>>

\* The first messages of a conversation, oldest first: ConversationService.messages.
FirstMessages(c, n) ==
  {m \in Of(c) : Cardinality({k \in Of(c) : Before(k, m)}) < n}

\* What send_message returns of the question and its answer: items[-2] and
\* items[-1] of a page of two messages of the conversation.
Returned(r) == LET page == FirstMessages(target[r], 2) IN
               {p \in page \X page : Before(p[1], p[2])}

\* The remaining events; or the pair, if there is one.
Finish(r) ==
  /\ at[r] = "finish"
  /\ \/ client' = [client EXCEPT ![r] = "done"]
     \/ Returned(r) = {} /\ client' = [client EXCEPT ![r] = "error"]
  /\ End(r)
  /\ UNCHANGED <<docVars, conv, messages, clock, cacheVars, runVars>>

\* The client leaves, the process dies, or a call in the step at hand raises.
Interrupt(r) ==
  /\ Interrupted
  /\ Running(r)
  /\ End(r)
  /\ client' = [client EXCEPT ![r] = "error"]
  /\ UNCHANGED <<docVars, conv, messages, clock, cacheVars, runVars>>

\* The background write lands in Redis, sooner, later or never.
WriteCache(e) ==
  /\ writing' = writing \ {e}
  /\ cache' = cache \cup {e}
  /\ UNCHANGED <<docVars, conv, messages, clock, at, runVars, begun, draft, client>>

-----------------------------------------------------------------------------
(***************************************************************************)
(* The documents meanwhile, see Ingestion: a redelivered task processes a  *)
(* ready document again, and a delete takes points, then the row with its  *)
(* citations and the conversations it is the primary document of.          *)
(***************************************************************************)
sameAnswering == UNCHANGED <<clock, cacheVars, at, runVars, begun, draft, client>>

Reprocess(d) ==
  /\ DocumentsChange
  /\ Ready(d)
  /\ docs' = [docs EXCEPT ![d] = "processing"]
  /\ UNCHANGED <<points, conv, messages>> /\ sameAnswering

BecomeReady(d) ==
  /\ DocumentsChange
  /\ docs[d] = "processing"
  /\ docs' = [docs EXCEPT ![d] = "ready"]
  /\ points' = [points EXCEPT ![d] = TRUE]
  /\ UNCHANGED <<conv, messages>> /\ sameAnswering

DeletePoints(d) ==
  /\ DocumentsChange
  /\ docs[d] # Deleted /\ points[d]
  /\ points' = [points EXCEPT ![d] = FALSE]
  /\ UNCHANGED <<docs, conv, messages>> /\ sameAnswering

DeleteRow(d) ==
  LET gone == {c \in Convs : conv[c].primary = d} IN
  /\ DocumentsChange
  /\ docs[d] # Deleted /\ ~points[d]
  /\ docs' = [docs EXCEPT ![d] = Deleted]
  /\ conv' = [c \in Convs |-> IF c \in gone THEN NoConv ELSE conv[c]]
  /\ messages' = {[m EXCEPT !.cites = Keep(@, Docs \ {d})] :
                    m \in {k \in messages : k.conv \notin gone}}
  /\ UNCHANGED points /\ sameAnswering

-----------------------------------------------------------------------------
Answer(r) == \/ \E c \in Convs : Ask(r, c)
             \/ StoreQuestion(r) \/ LookupCache(r) \/ VerifyInQdrant(r)
             \/ Hydrate(r) \/ StoreCached(r) \/ Retrieve(r) \/ Abstain(r)
             \/ StreamAnswer(r) \/ StoreAnswer(r) \/ StoreFailure(r) \/ Finish(r)

Next == \/ \E r \in Requests : Answer(r) \/ Interrupt(r)
        \/ (\E e \in writing : WriteCache(e))
        \/ \E d \in Docs : Reprocess(d) \/ BecomeReady(d) \/ DeletePoints(d) \/ DeleteRow(d)
        \/ \E c \in Convs, S \in SUBSET Docs :
             \/ UpdateActiveDocuments(c, S)
             \/ \E d \in Docs : CreateConversation(c, d, S)

Spec == Init /\ [][Next]_vars

-----------------------------------------------------------------------------
\* Mutant: a retryable failure counts as an answer.
NeedsRetryQuestionsOnly(c) == \E m \in Of(c) : /\ \A k \in Of(c) : k = m \/ Before(k, m)
                                               /\ m.role = "user"

\* _dangling_user_message_id: the latest message is a question or a retryable failure.
NeedsRetry(c) == \E m \in Of(c) : /\ \A k \in Of(c) : k = m \/ Before(k, m)
                                  /\ m.role = "user" \/ m.kind = "failed"

-----------------------------------------------------------------------------
Cites == UNION {[L -> Docs] : L \in SUBSET (1 .. Cardinality(Docs))}
Texts == Ranked(Docs) \cup {<< >>}
Drafts == [text : Texts, cites : Cites, prior : SUBSET Docs]
TypeOK ==
  /\ docs \in [Docs -> {"processing", "ready", Deleted}]
  /\ points \in [Docs -> BOOLEAN]
  /\ conv \in [Convs -> [primary : Docs \cup {None}, active : SUBSET Docs]]
  /\ messages \subseteq
       [conv : Convs, turn : Requests, role : {"user", "assistant"},
        kind : {"question", "answer", "abstention", "failed"}, created : 1 .. clock,
        text : Texts, cites : Cites, prior : SUBSET Docs]
  /\ clock \in Nat
  /\ cache \cup writing \subseteq [active : SUBSET Docs, chunks : Texts, prior : SUBSET Docs]
  /\ at \in [Requests -> Places]
  /\ target \in [Requests -> Convs \cup {None}]
  /\ begun \in [Requests -> 0 .. clock]
  /\ scope \in [Requests -> [active : SUBSET Docs, ready : SUBSET Docs]]
  /\ draft \in [Requests -> Drafts]
  /\ client \in [Requests -> {"waiting", "done", "error"}]

Answers(r) == {m \in messages : m.turn = r /\ m.role = "assistant"}

(***************************************************************************)
(* A citation is stored under the label by which the text of the answer    *)
(* refers to its chunk, whether the answer was generated or comes from the *)
(* cache with some of its chunks gone.                                     *)
(***************************************************************************)
LabelsAgree == \A m \in messages : \A l \in DOMAIN m.cites :
                 l \in DOMAIN m.text /\ m.text[l] = m.cites[l]

(***************************************************************************)
(* The labels of an answer name chunks of documents that were active in    *)
(* its conversation when its question was asked, and it cites only those   *)
(* that were ready then; other conversations share the cache.              *)
(***************************************************************************)
InScope == \A m \in messages :
             /\ \A l \in DOMAIN m.text : m.text[l] \in scope[m.turn].active
             /\ Named(m.cites) \subseteq scope[m.turn].ready

(***************************************************************************)
(* A question gets at most one answer row, and a client that was told the  *)
(* answer is done finds it when it loads the conversation.                 *)
(***************************************************************************)
AnsweredOnce == \A r \in Requests :
  /\ \A m, n \in Answers(r) : m = n
  /\ client[r] = "done" /\ Exists(target[r]) => Answers(r) # {}

(***************************************************************************)
(* needs_retry tells exactly whether the last question of a conversation   *)
(* is left without an answer, at any moment and however its request ended: *)
(* cut short, failed, or with an answer that was read and not stored since *)
(* a delete or a re-ingestion broke a foreign key of its citations. Users  *)
(* ask one question at a time.                                             *)
(***************************************************************************)
LastQuestion(c, q) == q.role = "user" /\ \A m \in Of(c) : m.role = "user" => m = q \/ Before(m, q)
Answered(q) == \E m \in Answers(q.turn) : m.kind # "failed"
UnansweredIsFlagged == \A c \in Convs : \A q \in Of(c) :
  LastQuestion(c, q) => (NeedsRetry(c) <=> ~Answered(q))

(***************************************************************************)
(* The history in a prompt pairs a question with its own answer, and never *)
(* with an error, if questions are asked one at a time.                    *)
(***************************************************************************)
HistoryPaired == \A c \in Convs : \A h \in History(c) :
                   h[1].turn = h[2].turn /\ h[2].kind # "failed"

-----------------------------------------------------------------------------
(***************************************************************************)
(* What the documentation says and the code does not keep.                 *)
(***************************************************************************)

(***************************************************************************)
(* "Multi-select dialog controls which documents participate in RAG": an   *)
(* answer is written from documents that were active in its conversation,  *)
(* if only for an earlier question of it.                                  *)
(***************************************************************************)
ActiveIn(c) == UNION {scope[r].active : r \in {q \in Requests : target[q] = c}}
OnlyActiveParticipate == \A m \in messages : Sources(m) \subseteq ActiveIn(m.conv)
=============================================================================
