------------------------- MODULE AnsweringInvariants -------------------------
(***************************************************************************)
(* Why the invariants of Answering hold: what is true of a request at each *)
(* place of its run, of the entries of the cache, and of the rows it has   *)
(* stored.  AnsweringProofs shows these to be inductive.                   *)
(***************************************************************************)
EXTENDS Answering

\* A row can only be inserted in a transaction, by a request with a conversation.
InTransaction == {"question", "storeCached", "stream", "storeAnswer", "storeFailure"}

TypeInv ==
  /\ TypeOK
  /\ \A r \in Requests : at[r] # "idle" => target[r] \in Convs
  /\ \A r \in Requests : at[r] \in InTransaction => begun[r] # 0

(***************************************************************************)
(* A draft cites under the labels of its text, and its text is taken from  *)
(* the active documents of the scope.  What it cites may be taken from     *)
(* documents that are not ready only until it is hydrated.                 *)
(***************************************************************************)
Labelled(x) == \A l \in DOMAIN x.cites : l \in DOMAIN x.text /\ x.text[l] = x.cites[l]
WrittenFrom(text, S) == \A l \in DOMAIN text : text[l] \in S

DraftOf(r) ==
  /\ scope[r].ready \subseteq scope[r].active
  /\ at[r] = "idle" => draft[r] = NoDraft
  /\ Labelled(draft[r])
  /\ WrittenFrom(draft[r].text, scope[r].active)
  /\ at[r] \in {"storeCached", "stream", "storeAnswer"} =>
       WrittenFrom(draft[r].cites, scope[r].ready)
  /\ at[r] \in {"stream", "storeAnswer"} => draft[r].cites = draft[r].text

DraftInv == \A r \in Requests : DraftOf(r)

\* The labels of what the cache holds for a set of documents name chunks of that set.
CacheInv == \A e \in cache \cup writing : WrittenFrom(e.chunks, e.active)

SourceOf(m) ==
  /\ at[m.turn] # "idle" /\ m.conv = target[m.turn]
  /\ Labelled(m)
  /\ WrittenFrom(m.text, scope[m.turn].active)
  /\ WrittenFrom(m.cites, scope[m.turn].ready)

RowInv == \A m \in messages : SourceOf(m)

SourceInv == TypeInv /\ DraftInv /\ CacheInv /\ RowInv

(***************************************************************************)
(* Without the cache, what an answer is written from, through its history, *)
(* was active in its own conversation for some question of it.             *)
(***************************************************************************)
PriorOf(r) ==
  /\ at[r] = "idle" => target[r] = None
  /\ at[r] \notin {"verify", "hydrate", "storeCached"}
  /\ draft[r].prior \subseteq ActiveIn(target[r])

PriorInv == (\A r \in Requests : PriorOf(r)) /\ OnlyActiveParticipate

(***************************************************************************)
(* The answer row of a request is stored by the step that takes it to its  *)
(* last place, or ends it.  It goes only with its conversation, and that   *)
(* does not come back.                                                     *)
(***************************************************************************)
OneAnswer == \A m, n \in messages :
  m.role = "assistant" /\ n.role = "assistant" /\ m.turn = n.turn => m = n

AnswerIsLast == \A m \in messages : m.role = "assistant" => at[m.turn] \in {"finish", "ended"}

\* A client is told that an answer is done when its row is there.
ClientOf(r) ==
  /\ client[r] = "done" => at[r] = "ended"
  /\ (at[r] = "finish" \/ client[r] = "done") /\ Exists(target[r]) =>
       \E m \in messages : m.turn = r /\ m.role = "assistant"

ClientInv == \A r \in Requests : ClientOf(r)

OnceInv == OneAnswer /\ AnswerIsLast /\ ClientInv

(***************************************************************************)
(* If questions are asked one at a time, the rows of a request lie         *)
(* together: those of one that runs come after all others of its           *)
(* conversation, and its own transactions begin after its earlier rows.    *)
(***************************************************************************)
Alone == \A q, r \in Requests : q # r /\ Running(q) /\ Running(r) => target[q] # target[r]

BegunLater == \A r \in Requests :
  /\ ~Running(r) => begun[r] = 0
  /\ begun[r] # 0 => \A m \in messages : m.conv = target[r] => m.created < begun[r]

RunsLast == \A r \in Requests : Running(r) =>
  \A m, k \in messages :
    m.conv = target[r] /\ m.turn # r /\ k.turn = r => m.created < k.created

Together == \A m, n, k \in messages :
  m.conv = n.conv /\ m.turn # n.turn =>
    /\ m.created # n.created
    /\ k.turn = n.turn /\ Before(m, n) => Before(m, k)

OrderInv == Alone /\ BegunLater /\ RunsLast /\ Together

(***************************************************************************)
(* The question is the first row of its request, and stays as long as the  *)
(* rest of the conversation.                                               *)
(***************************************************************************)
QuestionIsThere == \A r \in Requests :
  at[r] \notin {"idle", "question", "ended"} /\ Exists(target[r]) =>
    \E q \in messages : q.turn = r /\ q.role = "user"

QuestionFirst == \A a \in messages : a.role = "assistant" =>
  /\ \E q \in messages : q.turn = a.turn /\ q.role = "user"
  /\ \A q \in messages : q.turn = a.turn /\ q.role = "user" => Before(q, a)

QuestionRows == \A m \in messages :
  at[m.turn] # "question" /\ (m.role = "user" => m.kind = "question")

QuestionInv == QuestionIsThere /\ QuestionFirst /\ QuestionRows
=============================================================================
