-------------------------- MODULE AnsweringProofs --------------------------
(***************************************************************************)
(* Proofs about Answering, for every set of documents, conversations and   *)
(* requests, with or without the cache, whether or not requests overlap or *)
(* are cut short: the types, that citations are stored under the labels of *)
(* their text, that answers name and cite chunks of the scope of their     *)
(* question only, that a question has at most one answer, and that nothing *)
(* but the cache brings what was never active in a conversation; and, if   *)
(* questions are asked one at a time, that history and retry flag tell     *)
(* which question an answer belongs to.                                    *)
(***************************************************************************)
EXTENDS AnsweringInvariants, FiniteSetTheorems, TLAPS

-----------------------------------------------------------------------------
(***************************************************************************)
(* Texts and citations.                                                    *)
(***************************************************************************)
Labels == 1 .. Cardinality(Docs)

LEMMA CardinalityType == Cardinality(Docs) \in Nat
  BY ConstantsAssumption, FS_CardinalityType

\* The empty text.
LEMMA Empty == /\ << >> \in Texts /\ << >> \in Cites /\ DOMAIN << >> = {}
               /\ \A S : WrittenFrom(<< >>, S)
<1>1. << >> \in [{} -> Docs] /\ {} \in SUBSET Labels /\ DOMAIN << >> = {}
  OBVIOUS
<1>2. QED
  BY <1>1 DEF Texts, Cites, WrittenFrom, Labels

\* A text can serve as its own citations.
LEMMA TextsAreCites ==
  ASSUME NEW t \in Texts
  PROVE  t \in Cites
<1>1. CASE t = << >>
  BY <1>1, Empty
<1>2. CASE t \in Ranked(Docs)
  <2>1. PICK n \in 1 .. Cardinality(Docs) : t \in [1 .. n -> Docs]
    BY <1>2 DEF Ranked
  <2>2. 1 .. n \in SUBSET (1 .. Cardinality(Docs))
    BY CardinalityType
  <2>3. QED
    BY <2>1, <2>2 DEF Cites
<1>3. QED
  BY <1>1, <1>2 DEF Texts

\* What retrieval returns of a set of documents.
LEMMA RankedTexts ==
  ASSUME NEW S \in SUBSET Docs, NEW s \in Ranked(S)
  PROVE  s \in Texts /\ WrittenFrom(s, S) /\ S # {}
<1>1. PICK n \in 1 .. Cardinality(S) : s \in [1 .. n -> S]
  BY DEF Ranked
<1>2. IsFiniteSet(S) /\ Cardinality(S) \in Nat /\ Cardinality(S) <= Cardinality(Docs)
  BY ConstantsAssumption, FS_Subset, FS_CardinalityType
<1>3. n \in 1 .. Cardinality(Docs) /\ s \in [1 .. n -> Docs]
  BY <1>1, <1>2, CardinalityType
<1>4. s \in Ranked(Docs)
  BY <1>3 DEF Ranked
<1>5. WrittenFrom(s, S)
  BY <1>1 DEF WrittenFrom
<1>6. S # {}
  BY <1>1, <1>2, FS_EmptySet
<1>7. QED
  BY <1>4, <1>5, <1>6 DEF Texts

\* Citations that lose some of their documents keep their labels.
LEMMA KeepCites ==
  ASSUME NEW c \in Cites, NEW S
  PROVE  /\ Keep(c, S) \in Cites
         /\ WrittenFrom(Keep(c, S), S)
         /\ DOMAIN Keep(c, S) \subseteq DOMAIN c
         /\ \A l \in DOMAIN Keep(c, S) : Keep(c, S)[l] = c[l]
<1>1. PICK L \in SUBSET (1 .. Cardinality(Docs)) : c \in [L -> Docs]
  BY DEF Cites
<1> DEFINE M == {k \in DOMAIN c : c[k] \in S}
<1>2. Keep(c, S) = [l \in M |-> c[l]]
  BY DEF Keep
<1>3. M \in SUBSET (1 .. Cardinality(Docs)) /\ Keep(c, S) \in [M -> Docs]
  BY <1>1, <1>2
<1>4. QED
  BY <1>2, <1>3 DEF Cites, WrittenFrom

-----------------------------------------------------------------------------
(***************************************************************************)
(* The type invariant in parts.                                            *)
(***************************************************************************)
Rows(k) == [conv : Convs, turn : Requests, role : {"user", "assistant"},
            kind : {"question", "answer", "abstention", "failed"}, created : 1 .. k,
            text : Texts, cites : Cites, prior : SUBSET Docs]

DocTypes ==
  /\ docs \in [Docs -> {"processing", "ready", Deleted}]
  /\ points \in [Docs -> BOOLEAN]
  /\ conv \in [Convs -> [primary : Docs \cup {None}, active : SUBSET Docs]]

ClockTypes ==
  /\ clock \in Nat
  /\ begun \in [Requests -> 0 .. clock]
  /\ messages \subseteq Rows(clock)

CacheTypes == cache \cup writing \subseteq [active : SUBSET Docs, chunks : Texts, prior : SUBSET Docs]

RunTypes ==
  /\ at \in [Requests -> Places]
  /\ target \in [Requests -> Convs \cup {None}]
  /\ scope \in [Requests -> [active : SUBSET Docs, ready : SUBSET Docs]]
  /\ draft \in [Requests -> Drafts]
  /\ client \in [Requests -> {"waiting", "done", "error"}]

PlaceInv == \A r \in Requests :
  /\ at[r] # "idle" => target[r] \in Convs
  /\ at[r] \in InTransaction => begun[r] # 0

\* The draft of a request that has none.
LEMMA NoDraftType == NoDraft \in Drafts
  BY Empty DEF NoDraft, Drafts

\* A row is written from documents, directly or through its history.
LEMMA PriorType ==
  ASSUME ClockTypes, NEW c
  PROVE  Prior(c) \in SUBSET Docs
<1>1. ASSUME NEW m \in messages
      PROVE  Sources(m) \subseteq Docs
  <2>1. m \in Rows(clock)
    BY DEF ClockTypes
  <2>2. m.text \in Texts /\ m.prior \in SUBSET Docs
    BY <2>1 DEF Rows
  <2>3. m.text \in Cites
    BY <2>2, TextsAreCites
  <2>4. Named(m.text) \subseteq Docs
    BY <2>3 DEF Named, Cites
  <2>5. QED
    BY <2>2, <2>4 DEF Sources
<1>2. ASSUME NEW h \in History(c)
      PROVE  h[2] \in messages
  BY DEF History, Of
<1>3. QED
  BY <1>1, <1>2 DEF Prior

LEMMA TypeParts ==
  /\ TypeInv <=> DocTypes /\ ClockTypes /\ CacheTypes /\ RunTypes /\ PlaceInv
  /\ TypeInv' <=> DocTypes' /\ ClockTypes' /\ CacheTypes' /\ RunTypes' /\ PlaceInv'
  BY DEF TypeInv, TypeOK, DocTypes, ClockTypes, Rows, CacheTypes, RunTypes, PlaceInv

\* Time goes on: rows stay rows.
LEMMA RowsGrow ==
  ASSUME NEW k \in Nat
  PROVE  Rows(k) \subseteq Rows(k + 1)
<1>1. 1 .. k \subseteq 1 .. k + 1
  OBVIOUS
<1>2. QED
  BY <1>1 DEF Rows

\* A statement opens a transaction, if none is open.
LEMMA BeginsTypes ==
  ASSUME ClockTypes, NEW r \in Requests, Begins(r), UNCHANGED messages
  PROVE  ClockTypes' /\ begun'[r] # 0 /\ \A q \in Requests : begun[q] # 0 => begun'[q] # 0
<1>1. CASE begun[r] = 0
  <2>1. /\ clock' = clock + 1 /\ clock' \in Nat
        /\ begun' = [begun EXCEPT ![r] = clock + 1]
    BY <1>1 DEF Begins, ClockTypes
  <2>2. begun' \in [Requests -> 0 .. clock']
    BY <2>1 DEF ClockTypes
  <2>3. messages' \subseteq Rows(clock')
    BY <2>1, RowsGrow DEF ClockTypes
  <2>4. QED
    BY <2>1, <2>2, <2>3 DEF ClockTypes
<1>2. CASE begun[r] # 0
  BY <1>2 DEF Begins, ClockTypes
<1>3. QED
  BY <1>1, <1>2

\* The row a request inserts, in its transaction or in one that begins with it.
LEMMA RowType ==
  ASSUME ClockTypes, RunTypes, PlaceInv, NEW r \in Requests, at[r] # "idle",
         clock' = IF begun[r] = 0 THEN clock + 1 ELSE clock,
         NEW role \in {"user", "assistant"},
         NEW kind \in {"question", "answer", "abstention", "failed"},
         NEW x \in Drafts
  PROVE  Row(r, role, kind, x) \in Rows(clock')
<1>1. Dated(r) \in 1 .. clock'
  BY DEF ClockTypes, Dated
<1>2. QED
  BY <1>1 DEF Row, Rows, PlaceInv, Drafts

\* A commit or a rollback closes the transaction.
LEMMA ClosesTypes ==
  ASSUME ClockTypes, NEW r \in Requests, begun' = [begun EXCEPT ![r] = 0],
         clock' \in {clock, clock + 1}, messages' \subseteq Rows(clock')
  PROVE  ClockTypes' /\ \A q \in Requests \ {r} : begun'[q] = begun[q]
<1>1. clock' \in Nat /\ 0 .. clock \subseteq 0 .. clock'
  BY DEF ClockTypes
<1>2. begun' \in [Requests -> 0 .. clock']
  BY <1>1 DEF ClockTypes
<1>3. QED
  BY <1>1, <1>2 DEF ClockTypes

\* A request goes on in its transaction, or without needing one.
LEMMA GoesOn ==
  ASSUME RunTypes, PlaceInv, NEW r \in Requests, NEW from \in Places \ {"idle"}, NEW to \in Places,
         Go(r, from, to), UNCHANGED target,
         \A q \in Requests \ {r} : at[q] \in InTransaction => begun'[q] # 0,
         to \in InTransaction => begun'[r] # 0
  PROVE  at' \in [Requests -> Places] /\ PlaceInv'
<1>1. at' = [at EXCEPT ![r] = to] /\ at[r] = from
  BY DEF Go
<1>2. at' \in [Requests -> Places]
  BY <1>1 DEF RunTypes
<1>3. ASSUME NEW q \in Requests
      PROVE  (at'[q] # "idle" => target'[q] \in Convs) /\ (at'[q] \in InTransaction => begun'[q] # 0)
  <2>1. CASE q = r
    BY <1>1, <2>1 DEF PlaceInv, RunTypes
  <2>2. CASE q # r
    BY <1>1, <2>2 DEF PlaceInv, RunTypes
  <2>3. QED
    BY <2>1, <2>2
<1>4. QED
  BY <1>2, <1>3 DEF PlaceInv

\* A request ends: its session rolls back.
LEMMA Ends ==
  ASSUME ClockTypes, RunTypes, PlaceInv, NEW r \in Requests, Running(r), End(r),
         UNCHANGED <<target, scope>>, clock' \in {clock, clock + 1}, messages' \subseteq Rows(clock'),
         client' \in [Requests -> {"waiting", "done", "error"}]
  PROVE  ClockTypes' /\ RunTypes' /\ PlaceInv'
<1>1. /\ at' = [at EXCEPT ![r] = "ended"]
      /\ begun' = [begun EXCEPT ![r] = 0]
      /\ draft' = [draft EXCEPT ![r] = NoDraft]
  BY DEF End
<1>2. ClockTypes' /\ \A q \in Requests \ {r} : begun'[q] = begun[q]
  BY <1>1, ClosesTypes
<1>3. NoDraft \in Drafts
  BY NoDraftType
<1>4. RunTypes'
  BY <1>1, <1>3 DEF RunTypes, Places
<1>5. at[r] # "idle" /\ target[r] \in Convs
  BY DEF Running, PlaceInv
<1>6. PlaceInv'
  BY <1>1, <1>2, <1>5 DEF PlaceInv, RunTypes, InTransaction
<1>7. QED
  BY <1>2, <1>4, <1>6

-----------------------------------------------------------------------------
(***************************************************************************)
(* Type correctness.                                                       *)
(***************************************************************************)
LEMMA TypeInit == Init => TypeInv
<1> SUFFICES ASSUME Init
             PROVE  TypeInv
  OBVIOUS
<1>1. DocTypes
  BY DEF Init, DocTypes, NoConv
<1>2. ClockTypes
  BY DEF Init, ClockTypes
<1>3. CacheTypes
  BY DEF Init, CacheTypes
<1>4. NoDraft \in Drafts
  BY NoDraftType
<1>5. RunTypes
  BY <1>4 DEF Init, RunTypes, Places, NoScope
<1>6. PlaceInv
  BY DEF Init, PlaceInv, InTransaction
<1>7. QED
  BY <1>1, <1>2, <1>3, <1>5, <1>6, TypeParts

\* A step of a request up to its answer.
LEMMA TypeBefore ==
  ASSUME TypeInv, NEW r \in Requests,
         \/ \E c \in Convs : Ask(r, c)
         \/ StoreQuestion(r) \/ LookupCache(r) \/ VerifyInQdrant(r) \/ Hydrate(r) \/ Retrieve(r)
         \/ StreamAnswer(r)
  PROVE  TypeInv'
<1>1. DocTypes /\ ClockTypes /\ CacheTypes /\ RunTypes /\ PlaceInv
  BY TypeParts
<1>2. DocTypes' /\ CacheTypes'
  BY <1>1 DEF Ask, StoreQuestion, LookupCache, VerifyInQdrant, Hydrate, Retrieve, StreamAnswer,
              docVars, cacheVars, DocTypes, CacheTypes
<1>3. ASSUME NEW c \in Convs, Ask(r, c)
      PROVE  ClockTypes' /\ RunTypes' /\ PlaceInv'
  <2>1. /\ at' = [at EXCEPT ![r] = "question"] /\ at[r] = "idle"
        /\ target' = [target EXCEPT ![r] = c]
        /\ scope' = [scope EXCEPT ![r] = QueryableScope(c)]
        /\ Begins(r)
        /\ UNCHANGED <<messages, draft, client>>
    BY <1>3 DEF Ask, Go
  <2>2. /\ ClockTypes' /\ begun'[r] # 0
        /\ \A q \in Requests : begun[q] # 0 => begun'[q] # 0
    BY <1>1, <2>1, BeginsTypes
  <2>3. QueryableScope(c) \in [active : SUBSET Docs, ready : SUBSET Docs]
    BY <1>1 DEF QueryableScope, DocTypes
  <2>4. RunTypes'
    BY <1>1, <2>1, <2>3 DEF RunTypes, Places
  <2>5. PlaceInv'
    BY <1>1, <2>1, <2>2 DEF PlaceInv, RunTypes
  <2>6. QED
    BY <2>2, <2>4, <2>5
<1>4. ASSUME StoreQuestion(r)
      PROVE  ClockTypes' /\ RunTypes' /\ PlaceInv'
  <2>1. at[r] = "question" /\ begun[r] # 0 /\ Running(r)
    BY <1>1, <1>4 DEF StoreQuestion, PlaceInv, InTransaction, Running
  <2>2. CASE Insertable(r, << >>)
    <3>1. /\ Go(r, "question", "lookup") /\ Commits(r)
          /\ messages' = messages \cup {Row(r, "user", "question", NoDraft)}
          /\ UNCHANGED <<clock, draft, target, scope, client>>
          /\ clock' = IF begun[r] = 0 THEN clock + 1 ELSE clock
      BY <1>4, <2>1, <2>2 DEF StoreQuestion, runVars
    <3>2. Row(r, "user", "question", NoDraft) \in Rows(clock')
      BY <1>1, <2>1, <3>1, NoDraftType, RowType
    <3>3. messages' \subseteq Rows(clock')
      BY <1>1, <3>1, <3>2 DEF ClockTypes
    <3>4. ClockTypes' /\ \A q \in Requests \ {r} : begun'[q] = begun[q]
      BY <1>1, <3>1, <3>3, ClosesTypes DEF Commits
    <3>5. at' \in [Requests -> Places] /\ PlaceInv'
      <4>1. \A q \in Requests \ {r} : at[q] \in InTransaction => begun'[q] # 0
        BY <1>1, <3>4 DEF PlaceInv
      <4>2. "lookup" \notin InTransaction /\ "lookup" \in Places /\ "question" \in Places \ {"idle"}
        BY DEF InTransaction, Places
      <4>3. QED
        BY <1>1, <3>1, <4>1, <4>2, GoesOn
    <3>6. RunTypes'
      BY <1>1, <3>1, <3>5 DEF RunTypes
    <3>7. QED
      BY <3>4, <3>5, <3>6
  <2>3. CASE ~Insertable(r, << >>)
    <3>1. End(r) /\ UNCHANGED <<messages, clock, target, scope, client>>
      BY <1>4, <2>3 DEF StoreQuestion, runVars
    <3>2. messages' \subseteq Rows(clock) /\ client' \in [Requests -> {"waiting", "done", "error"}]
      BY <1>1, <3>1 DEF ClockTypes, RunTypes
    <3>3. QED
      BY <1>1, <2>1, <3>1, <3>2, Ends
  <2>4. QED
    BY <2>2, <2>3
<1>5. ASSUME LookupCache(r)
      PROVE  ClockTypes' /\ RunTypes' /\ PlaceInv'
  <2>1. PICK p \in {"retrieve", "verify"} : Go(r, "lookup", p)
    BY <1>5 DEF LookupCache
  <2>2. UNCHANGED <<messages, clock, begun, target, scope, client>>
    BY <1>5 DEF LookupCache, runVars
  <2>3. at' \in [Requests -> Places] /\ PlaceInv'
    <3>1. p \notin InTransaction /\ p \in Places /\ "lookup" \in Places \ {"idle"}
      BY DEF InTransaction, Places
    <3>2. \A q \in Requests \ {r} : at[q] \in InTransaction => begun'[q] # 0
      BY <1>1, <2>2 DEF PlaceInv
    <3>3. QED
      BY <1>1, <2>1, <2>2, <3>1, <3>2, GoesOn
  <2>4. draft' \in [Requests -> Drafts]
    <3>1. CASE UNCHANGED draft
      BY <1>1, <3>1 DEF RunTypes
    <3>2. ASSUME NEW e \in cache, draft' = [draft EXCEPT ![r] = Cached(e)]
          PROVE  draft' \in [Requests -> Drafts]
      <4>1. e.chunks \in Texts /\ e.chunks \in Cites /\ e.prior \in SUBSET Docs
        BY <1>1, TextsAreCites DEF CacheTypes
      <4>2. Cached(e) \in Drafts
        BY <4>1 DEF Cached, Drafts
      <4>3. QED
        BY <1>1, <3>2, <4>2 DEF RunTypes
    <3>3. QED
      BY <1>5, <3>1, <3>2 DEF LookupCache
  <2>5. QED
    BY <1>1, <2>2, <2>3, <2>4 DEF ClockTypes, RunTypes
<1>6. ASSUME VerifyInQdrant(r)
      PROVE  ClockTypes' /\ RunTypes' /\ PlaceInv'
  <2>1. PICK p \in {"retrieve", "hydrate"} : Go(r, "verify", p)
    BY <1>6 DEF VerifyInQdrant
  <2>2. UNCHANGED <<messages, clock, begun, target, scope, draft, client>>
    BY <1>6 DEF VerifyInQdrant, runVars
  <2>3. at' \in [Requests -> Places] /\ PlaceInv'
    <3>1. p \notin InTransaction /\ p \in Places /\ "verify" \in Places \ {"idle"}
      BY DEF InTransaction, Places
    <3>2. \A q \in Requests \ {r} : at[q] \in InTransaction => begun'[q] # 0
      BY <1>1, <2>2 DEF PlaceInv
    <3>3. QED
      BY <1>1, <2>1, <2>2, <3>1, <3>2, GoesOn
  <2>4. QED
    BY <1>1, <2>2, <2>3 DEF ClockTypes, RunTypes
<1>7. ASSUME Hydrate(r)
      PROVE  ClockTypes' /\ RunTypes' /\ PlaceInv'
  <2>1. PICK p \in {"retrieve", "storeCached"} : Go(r, "hydrate", p)
    BY <1>7 DEF Hydrate
  <2>2. Begins(r) /\ UNCHANGED <<messages, target, scope, client>>
    BY <1>7 DEF Hydrate, runVars
  <2>3. /\ ClockTypes' /\ begun'[r] # 0
        /\ \A q \in Requests : begun[q] # 0 => begun'[q] # 0
    BY <1>1, <2>2, BeginsTypes
  <2>4. at' \in [Requests -> Places] /\ PlaceInv'
    <3>1. p \in Places /\ "hydrate" \in Places \ {"idle"}
      BY DEF Places
    <3>2. \A q \in Requests \ {r} : at[q] \in InTransaction => begun'[q] # 0
      BY <1>1, <2>3 DEF PlaceInv
    <3>3. QED
      BY <1>1, <2>1, <2>2, <2>3, <3>1, <3>2, GoesOn
  <2>5. draft' \in [Requests -> Drafts]
    <3> DEFINE kept == Keep(draft[r].cites, {d \in scope[r].ready : Ready(d)})
    <3>1. kept \in Cites
      BY <1>1, KeepCites DEF RunTypes, Drafts
    <3>2. UNCHANGED draft \/ draft' = [draft EXCEPT ![r].cites = kept]
      BY <1>7 DEF Hydrate
    <3> HIDE DEF kept
    <3>3. draft[r] \in Drafts /\ draft \in [Requests -> Drafts]
      BY <1>1 DEF RunTypes
    <3>4. [draft[r] EXCEPT !.cites = kept] \in Drafts
      BY <3>1, <3>3 DEF Drafts
    <3>5. QED
      BY <3>2, <3>3, <3>4
  <2>6. QED
    BY <1>1, <2>2, <2>3, <2>4, <2>5 DEF RunTypes
<1>8. ASSUME Retrieve(r)
      PROVE  ClockTypes' /\ RunTypes' /\ PlaceInv'
  <2>1. UNCHANGED <<messages, target, scope, client>>
    BY <1>8 DEF Retrieve, runVars
  <2>2. /\ ClockTypes' /\ \A q \in Requests : begun[q] # 0 => begun'[q] # 0
        /\ scope[r].ready # {} => begun'[r] # 0
    <3>1. CASE scope[r].ready = {} /\ UNCHANGED <<clock, begun>>
      BY <1>1, <2>1, <3>1 DEF ClockTypes
    <3>2. CASE Begins(r)
      BY <1>1, <2>1, <3>2, BeginsTypes
    <3>3. QED
      BY <1>8, <3>1, <3>2 DEF Retrieve
  <2>3. \A q \in Requests \ {r} : at[q] \in InTransaction => begun'[q] # 0
    BY <1>1, <2>2 DEF PlaceInv
  <2>4. "retrieve" \in Places \ {"idle"} /\ "abstain" \in Places /\ "stream" \in Places
        /\ "abstain" \notin InTransaction
    BY DEF Places, InTransaction
  <2>5. CASE Go(r, "retrieve", "abstain") /\ draft' = [draft EXCEPT ![r] = NoDraft]
    <3>1. at' \in [Requests -> Places] /\ PlaceInv'
      BY <1>1, <2>1, <2>3, <2>4, <2>5, GoesOn
    <3>2. NoDraft \in Drafts
      BY NoDraftType
    <3>3. QED
      BY <1>1, <2>1, <2>2, <2>5, <3>1, <3>2 DEF RunTypes
  <2>6. ASSUME Go(r, "retrieve", "stream"),
               NEW s \in Ranked({d \in scope[r].ready : Ready(d)}),
               draft' = [draft EXCEPT ![r] = [text |-> s, cites |-> s, prior |-> Prior(target[r])]]
        PROVE  ClockTypes' /\ RunTypes' /\ PlaceInv'
    <3>1. {d \in scope[r].ready : Ready(d)} \in SUBSET Docs
      BY <1>1 DEF RunTypes
    <3>2. s \in Texts /\ scope[r].ready # {}
      BY <3>1, RankedTexts
    <3>3. s \in Cites /\ Prior(target[r]) \in SUBSET Docs
      BY <1>1, <3>2, TextsAreCites, PriorType
    <3>6. [text |-> s, cites |-> s, prior |-> Prior(target[r])] \in Drafts
      BY <3>2, <3>3 DEF Drafts
    <3>4. at' \in [Requests -> Places] /\ PlaceInv'
      BY <1>1, <2>1, <2>2, <2>3, <2>4, <2>6, <3>2, GoesOn
    <3>5. QED
      BY <1>1, <2>1, <2>2, <2>6, <3>4, <3>6 DEF RunTypes
  <2>7. QED
    BY <1>8, <2>5, <2>6 DEF Retrieve
<1>9. ASSUME StreamAnswer(r)
      PROVE  ClockTypes' /\ RunTypes' /\ PlaceInv'
  <2>1. PICK p \in {"storeAnswer", "storeFailure"} : Go(r, "stream", p)
    BY <1>9 DEF StreamAnswer
  <2>2. UNCHANGED <<messages, clock, begun, target, scope, draft>>
    BY <1>9 DEF StreamAnswer, runVars
  <2>3. at' \in [Requests -> Places] /\ PlaceInv'
    <3>1. p \in Places /\ "stream" \in Places \ {"idle"}
      BY DEF Places
    <3>2. \A q \in Requests : at[q] \in InTransaction => begun'[q] # 0
      BY <1>1, <2>2 DEF PlaceInv
    <3>3. at[r] \in InTransaction
      BY <2>1 DEF Go, InTransaction
    <3>4. QED
      BY <1>1, <2>1, <2>2, <3>1, <3>2, <3>3, GoesOn
  <2>4. client' \in [Requests -> {"waiting", "done", "error"}]
    BY <1>1, <1>9 DEF StreamAnswer, RunTypes
  <2>5. QED
    BY <1>1, <2>2, <2>3, <2>4 DEF ClockTypes, RunTypes
<1>10. QED
  BY <1>2, <1>3, <1>4, <1>5, <1>6, <1>7, <1>8, <1>9, TypeParts

\* An answer is stored, or its foreign keys fail.
LEMMA StoreCases ==
  ASSUME NEW r \in Requests, StoreCached(r) \/ StoreAnswer(r)
  PROVE  \/ /\ Insertable(r, draft[r].cites)
            /\ messages' = messages \cup {Row(r, "assistant", "answer", draft[r])}
            /\ Commits(r)
            /\ \E from \in {"storeCached", "storeAnswer"} : Go(r, from, "finish")
         \/ UNCHANGED messages /\ End(r)
  BY DEF StoreCached, StoreAnswer

\* A row is stored, and its request finishes.
LEMMA TypeStores ==
  ASSUME ClockTypes, RunTypes, PlaceInv, NEW r \in Requests, NEW from \in Places \ {"idle"},
         clock' = IF begun[r] = 0 THEN clock + 1 ELSE clock,
         NEW m \in Rows(clock'), Go(r, from, "finish"), messages' = messages \cup {m},
         Commits(r), UNCHANGED <<draft, target, scope, client>>
  PROVE  ClockTypes' /\ RunTypes' /\ PlaceInv'
<1>1. clock' \in {clock, clock + 1} /\ Rows(clock) \subseteq Rows(clock')
  BY RowsGrow DEF ClockTypes
<1>2. messages' \subseteq Rows(clock')
  BY <1>1 DEF ClockTypes
<1>3. ClockTypes' /\ \A q \in Requests \ {r} : begun'[q] = begun[q]
  BY <1>1, <1>2, ClosesTypes DEF Commits
<1>4. \A q \in Requests \ {r} : at[q] \in InTransaction => begun'[q] # 0
  BY <1>3 DEF PlaceInv
<1>5. "finish" \in Places /\ "finish" \notin InTransaction
  BY DEF Places, InTransaction
<1>6. at' \in [Requests -> Places] /\ PlaceInv'
  BY <1>4, <1>5, GoesOn
<1>7. QED
  BY <1>3, <1>6 DEF RunTypes

\* A step of a request that stores its answer, and what follows.
LEMMA TypeAfter ==
  ASSUME TypeInv, DraftInv, NEW r \in Requests,
         \/ StoreCached(r) \/ Abstain(r) \/ StoreAnswer(r) \/ StoreFailure(r) \/ Finish(r)
         \/ Interrupt(r)
  PROVE  TypeInv'
<1>1. DocTypes /\ ClockTypes /\ CacheTypes /\ RunTypes /\ PlaceInv
  BY TypeParts
<1>2. DocTypes'
  BY <1>1 DEF StoreCached, Abstain, StoreAnswer, StoreFailure, Finish, Interrupt, docVars, DocTypes
<1> DEFINE Clients == [Requests -> {"waiting", "done", "error"}]
<1>3. draft[r] \in Drafts /\ client \in Clients
  BY <1>1 DEF RunTypes
<1>4. messages \subseteq Rows(clock)
  BY <1>1 DEF ClockTypes
<1> DEFINE answer == Row(r, "assistant", "answer", draft[r])
<1>5. ASSUME StoreCached(r)
      PROVE  CacheTypes' /\ ClockTypes' /\ RunTypes' /\ PlaceInv'
  <2>1. at[r] = "storeCached" /\ begun[r] # 0 /\ Running(r)
    BY <1>1, <1>5 DEF StoreCached, PlaceInv, InTransaction, Running
  <2>2. /\ UNCHANGED <<cache, writing, clock, target, scope, client>>
        /\ clock' = IF begun[r] = 0 THEN clock + 1 ELSE clock
    BY <1>5, <2>1 DEF StoreCached, runVars, cacheVars
  <2>3. CASE /\ Go(r, "storeCached", "finish") /\ Commits(r) /\ UNCHANGED draft
             /\ messages' = messages \cup {answer}
    <3>1. answer \in Rows(clock')
      BY <1>1, <1>3, <2>1, <2>2, RowType
    <3>3. "storeCached" \in Places \ {"idle"}
      BY DEF Places
    <3> HIDE DEF answer
    <3>4. ClockTypes' /\ RunTypes' /\ PlaceInv'
      BY <1>1, <2>2, <2>3, <3>1, <3>3, TypeStores
    <3>5. QED
      BY <1>1, <2>2, <3>4 DEF CacheTypes
  <2>4. CASE End(r) /\ UNCHANGED messages
    <3>2. ClockTypes' /\ RunTypes' /\ PlaceInv'
      BY <1>1, <1>3, <1>4, <2>1, <2>2, <2>4, Ends
    <3>3. QED
      BY <1>1, <2>2, <3>2 DEF CacheTypes
  <2>5. QED
    BY <1>5, <2>3, <2>4 DEF StoreCached
<1>6. ASSUME Abstain(r)
      PROVE  CacheTypes' /\ ClockTypes' /\ RunTypes' /\ PlaceInv'
  <2>1. at[r] = "abstain" /\ Running(r)
    BY <1>6 DEF Abstain, Running
  <2>2. /\ UNCHANGED <<cache, writing, target, scope, client>>
        /\ clock' = IF begun[r] = 0 THEN clock + 1 ELSE clock
    BY <1>6 DEF Abstain, runVars, cacheVars
  <2> DEFINE row == Row(r, "assistant", "abstention", NoDraft)
  <2>3. CASE Exists(target[r])
    <3>1. row \in Rows(clock')
      BY <1>1, <2>1, <2>2, NoDraftType, RowType
    <3>2. /\ Go(r, "abstain", "finish") /\ Commits(r) /\ UNCHANGED draft
          /\ messages' = messages \cup {row}
      BY <1>6, <2>3 DEF Abstain
    <3>3. "abstain" \in Places \ {"idle"}
      BY DEF Places
    <3> HIDE DEF row
    <3>4. ClockTypes' /\ RunTypes' /\ PlaceInv'
      BY <1>1, <2>2, <3>1, <3>2, <3>3, TypeStores
    <3>5. QED
      BY <1>1, <2>2, <3>4 DEF CacheTypes
  <2>4. CASE ~Exists(target[r])
    <3>1. End(r) /\ UNCHANGED messages
      BY <1>6, <2>4 DEF Abstain
    <3>2. clock' \in {clock, clock + 1} /\ messages' \subseteq Rows(clock')
      BY <1>1, <1>4, <2>2, <3>1, RowsGrow DEF ClockTypes
    <3>3. ClockTypes' /\ RunTypes' /\ PlaceInv'
      BY <1>1, <1>3, <2>1, <2>2, <3>1, <3>2, Ends
    <3>4. QED
      BY <1>1, <2>2, <3>3 DEF CacheTypes
  <2>5. QED
    BY <2>3, <2>4
<1>7. ASSUME StoreAnswer(r)
      PROVE  CacheTypes' /\ ClockTypes' /\ RunTypes' /\ PlaceInv'
  <2>1. at[r] = "storeAnswer" /\ begun[r] # 0 /\ Running(r)
    BY <1>1, <1>7 DEF StoreAnswer, PlaceInv, InTransaction, Running
  <2>2. /\ UNCHANGED <<cache, clock, target, scope, client>>
        /\ clock' = IF begun[r] = 0 THEN clock + 1 ELSE clock
    BY <1>7, <2>1 DEF StoreAnswer, runVars
  <2>3. CASE /\ Go(r, "storeAnswer", "finish") /\ Commits(r) /\ UNCHANGED draft
             /\ messages' = messages \cup {answer}
             /\ writing' \subseteq writing \cup {Entry(r)}
    <3>1. answer \in Rows(clock')
      BY <1>1, <1>3, <2>1, <2>2, RowType
    <3>3. "storeAnswer" \in Places \ {"idle"}
      BY DEF Places
    <3> HIDE DEF answer
    <3>4. ClockTypes' /\ RunTypes' /\ PlaceInv'
      BY <1>1, <2>2, <2>3, <3>1, <3>3, TypeStores
    <3>5. Entry(r) \in [active : SUBSET Docs, chunks : Texts, prior : SUBSET Docs]
      <4>1. draft[r].cites = draft[r].text
        BY <2>1 DEF DraftInv, DraftOf
      <4>2. scope[r].active \in SUBSET Docs
        BY <1>1 DEF RunTypes
      <4>3. QED
        BY <1>3, <4>1, <4>2 DEF Entry, Drafts
    <3>6. CacheTypes'
      BY <1>1, <2>2, <2>3, <3>5 DEF CacheTypes
    <3>7. QED
      BY <3>4, <3>6
  <2>4. CASE End(r) /\ UNCHANGED <<messages, writing>>
    <3>2. ClockTypes' /\ RunTypes' /\ PlaceInv'
      BY <1>1, <1>3, <1>4, <2>1, <2>2, <2>4, Ends
    <3>3. QED
      BY <1>1, <2>2, <2>4, <3>2 DEF CacheTypes
  <2>5. QED
    BY <1>7, <2>3, <2>4 DEF StoreAnswer
<1>8. ASSUME StoreFailure(r)
      PROVE  CacheTypes' /\ ClockTypes' /\ RunTypes' /\ PlaceInv'
  <2>1. at[r] = "storeFailure" /\ begun[r] # 0 /\ Running(r)
    BY <1>1, <1>8 DEF StoreFailure, PlaceInv, InTransaction, Running
  <2>2. /\ UNCHANGED <<cache, writing, clock, target, scope>> /\ End(r)
        /\ clock' = IF begun[r] = 0 THEN clock + 1 ELSE clock
    BY <1>8, <2>1 DEF StoreFailure, runVars, cacheVars
  <2> DEFINE row == Row(r, "assistant", "failed", NoDraft)
  <2>3. row \in Rows(clock')
    BY <1>1, <2>1, <2>2, NoDraftType, RowType
  <2>4. messages' \subseteq messages \cup {row}
    BY <1>8 DEF StoreFailure
  <2> HIDE DEF row
  <2>5. messages' \subseteq Rows(clock')
    BY <1>4, <2>2, <2>3, <2>4
  <2>6. client' \in Clients
    BY <1>3, <1>8 DEF StoreFailure
  <2>7. ClockTypes' /\ RunTypes' /\ PlaceInv'
    BY <1>1, <2>1, <2>2, <2>5, <2>6, Ends
  <2>8. QED
    BY <1>1, <2>2, <2>7 DEF CacheTypes
<1>9. ASSUME Finish(r) \/ Interrupt(r)
      PROVE  CacheTypes' /\ ClockTypes' /\ RunTypes' /\ PlaceInv'
  <2>1. /\ Running(r) /\ End(r)
        /\ UNCHANGED <<cache, writing, clock, target, scope, messages>>
    BY <1>9 DEF Finish, Interrupt, Running, runVars, cacheVars
  <2>2. client' \in Clients
    BY <1>3, <1>9 DEF Finish, Interrupt
  <2>3. ClockTypes' /\ RunTypes' /\ PlaceInv'
    BY <1>1, <1>4, <2>1, <2>2, Ends
  <2>4. QED
    BY <1>1, <2>1, <2>3 DEF CacheTypes
<1>10. QED
  BY <1>2, <1>5, <1>6, <1>7, <1>8, <1>9, TypeParts

\* A document or a conversation changes, or a cache entry is written.
LEMMA TypeMeanwhile ==
  ASSUME TypeInv,
         \/ \E e \in writing : WriteCache(e)
         \/ \E d \in Docs : Reprocess(d) \/ BecomeReady(d) \/ DeletePoints(d) \/ DeleteRow(d)
         \/ \E c \in Convs, S \in SUBSET Docs :
              \/ UpdateActiveDocuments(c, S)
              \/ \E d \in Docs : CreateConversation(c, d, S)
  PROVE  TypeInv'
<1>1. DocTypes /\ ClockTypes /\ CacheTypes /\ RunTypes /\ PlaceInv
  BY TypeParts
<1>2. UNCHANGED <<clock, begun, at, target, scope, draft, client>>
  BY DEF WriteCache, Reprocess, BecomeReady, DeletePoints, DeleteRow, UpdateActiveDocuments,
         CreateConversation, sameAnswering, runVars
<1>3. RunTypes' /\ PlaceInv'
  BY <1>1, <1>2 DEF RunTypes, PlaceInv
<1>4. CacheTypes'
  BY <1>1 DEF CacheTypes, WriteCache, Reprocess, BecomeReady, DeletePoints, DeleteRow,
              UpdateActiveDocuments, CreateConversation, sameAnswering, cacheVars
<1>5. messages' \subseteq Rows(clock)
  <2>1. ASSUME NEW d \in Docs, DeleteRow(d)
        PROVE  messages' \subseteq Rows(clock)
    <3>1. ASSUME NEW m \in messages
          PROVE  [m EXCEPT !.cites = Keep(@, Docs \ {d})] \in Rows(clock)
      <4>1. m \in Rows(clock)
        BY <1>1 DEF ClockTypes
      <4>2. Keep(m.cites, Docs \ {d}) \in Cites
        BY <4>1, KeepCites DEF Rows
      <4>3. QED
        BY <4>1, <4>2 DEF Rows
    <3>2. QED
      BY <2>1, <3>1 DEF DeleteRow
  <2>2. QED
    BY <1>1, <2>1 DEF WriteCache, Reprocess, BecomeReady, DeletePoints, UpdateActiveDocuments,
                      CreateConversation, ClockTypes
<1>6. ClockTypes'
  BY <1>1, <1>2, <1>5 DEF ClockTypes
<1>7. DocTypes'
  <2>1. ASSUME NEW d \in Docs, Reprocess(d) \/ BecomeReady(d) \/ DeletePoints(d)
        PROVE  DocTypes'
    BY <1>1, <2>1 DEF Reprocess, BecomeReady, DeletePoints, DocTypes
  <2>2. ASSUME NEW d \in Docs, DeleteRow(d)
        PROVE  DocTypes'
    BY <1>1, <2>2 DEF DeleteRow, DocTypes, NoConv
  <2>3. ASSUME NEW c \in Convs, NEW S \in SUBSET Docs, UpdateActiveDocuments(c, S)
        PROVE  DocTypes'
    BY <1>1, <2>3 DEF UpdateActiveDocuments, DocTypes, docVars
  <2>4. ASSUME NEW c \in Convs, NEW S \in SUBSET Docs, NEW d \in Docs, CreateConversation(c, d, S)
        PROVE  DocTypes'
    BY <1>1, <2>4 DEF CreateConversation, DocTypes, docVars
  <2>5. ASSUME NEW e \in writing, WriteCache(e)
        PROVE  DocTypes'
    BY <1>1, <2>5 DEF WriteCache, DocTypes, docVars
  <2>6. QED
    BY <2>1, <2>2, <2>3, <2>4, <2>5
<1>8. QED
  BY <1>3, <1>4, <1>6, <1>7, TypeParts

-----------------------------------------------------------------------------
(***************************************************************************)
(* What drafts, cache entries and rows are written from.                   *)
(***************************************************************************)

\* A request's step leaves the drafts of the others alone.
LEMMA DraftFrame ==
  ASSUME DraftInv, NEW r \in Requests, DraftOf(r)',
         \A q \in Requests \ {r} : at'[q] = at[q] /\ scope'[q] = scope[q] /\ draft'[q] = draft[q]
  PROVE  DraftInv'
  BY DEF DraftInv, DraftOf

\* The same draft at another place.
LEMMA DraftMoves ==
  ASSUME TypeInv, DraftInv, NEW r \in Requests, NEW from \in Places, NEW to \in Places \ {"idle"},
         Go(r, from, to), UNCHANGED <<scope, draft>>,
         to \in {"storeCached", "stream", "storeAnswer"} =>
           from \in {"stream", "storeAnswer"} /\ to # "storeCached"
  PROVE  DraftInv'
<1>1. at \in [Requests -> Places] /\ at[r] = from /\ at' = [at EXCEPT ![r] = to]
  BY TypeParts DEF RunTypes, Go
<1>2. DraftOf(r)'
  BY <1>1 DEF DraftInv, DraftOf
<1>3. \A q \in Requests \ {r} : at'[q] = at[q]
  BY <1>1
<1>4. QED
  BY <1>2, <1>3, DraftFrame

\* A request that is over has no draft.
LEMMA DraftEnds ==
  ASSUME TypeInv, DraftInv, NEW r \in Requests, End(r), UNCHANGED scope
  PROVE  DraftInv'
<1>1. at \in [Requests -> Places] /\ draft \in [Requests -> Drafts]
  BY TypeParts DEF RunTypes
<1>2. at' = [at EXCEPT ![r] = "ended"] /\ draft' = [draft EXCEPT ![r] = NoDraft]
  BY DEF End
<1>3. at'[r] = "ended" /\ draft'[r] = NoDraft
  BY <1>1, <1>2
<1>4. NoDraft.text = << >> /\ NoDraft.cites = << >> /\ DOMAIN << >> = {}
  BY Empty DEF NoDraft
<1>5. DraftOf(r)'
  BY <1>3, <1>4 DEF DraftInv, DraftOf, Labelled, WrittenFrom
<1>6. \A q \in Requests \ {r} : at'[q] = at[q] /\ draft'[q] = draft[q]
  BY <1>1, <1>2
<1>7. QED
  BY <1>5, <1>6, DraftFrame

\* A new draft.
LEMMA DraftChanges ==
  ASSUME TypeInv, DraftInv, NEW r \in Requests, NEW from \in Places, NEW to \in Places \ {"idle"},
         NEW t \in Texts, NEW c \in Cites, NEW P \in SUBSET Docs,
         Go(r, from, to), UNCHANGED scope,
         draft' = [draft EXCEPT ![r] = [text |-> t, cites |-> c, prior |-> P]],
         \A l \in DOMAIN c : l \in DOMAIN t /\ t[l] = c[l],
         WrittenFrom(t, scope[r].active),
         to \in {"storeCached", "stream", "storeAnswer"} => WrittenFrom(c, scope[r].ready),
         to \in {"stream", "storeAnswer"} => c = t
  PROVE  DraftInv'
<1>1. at \in [Requests -> Places] /\ draft \in [Requests -> Drafts]
  BY TypeParts DEF RunTypes
<1>2. at'[r] = to
  BY <1>1 DEF Go
<1>3. draft'[r] = [text |-> t, cites |-> c, prior |-> P]
  BY <1>1
<1>4. draft'[r].text = t /\ draft'[r].cites = c
  BY <1>3
<1>5. Labelled(draft'[r])
  BY <1>4 DEF Labelled
<1>6. DraftOf(r)'
  BY <1>2, <1>4, <1>5 DEF DraftInv, DraftOf
<1>7. \A q \in Requests \ {r} : at'[q] = at[q] /\ draft'[q] = draft[q]
  BY <1>1 DEF Go
<1>8. QED
  BY <1>6, <1>7, DraftFrame

LEMMA DraftAnswer ==
  ASSUME SourceInv, NEW r \in Requests, Answer(r) \/ Interrupt(r)
  PROVE  DraftInv'
<1>1. TypeInv /\ DraftInv /\ CacheInv
  BY DEF SourceInv
<1>2. RunTypes /\ CacheTypes /\ DocTypes
  BY <1>1, TypeParts
<1>3. draft[r].text \in Texts /\ draft[r].cites \in Cites /\ draft[r].prior \in SUBSET Docs
  BY <1>2 DEF RunTypes, Drafts
<1>4. ASSUME NEW c \in Convs, Ask(r, c)
      PROVE  DraftInv'
  <2>1. /\ at[r] = "idle" /\ at' = [at EXCEPT ![r] = "question"]
        /\ scope' = [scope EXCEPT ![r] = QueryableScope(c)]
        /\ UNCHANGED draft
    BY <1>4 DEF Ask, Go
  <2>2. QueryableScope(c).ready \subseteq QueryableScope(c).active
    BY DEF QueryableScope
  <2>3. draft[r] = NoDraft
    BY <1>1, <2>1 DEF DraftInv, DraftOf
  <2>4. NoDraft.text = << >> /\ NoDraft.cites = << >> /\ DOMAIN << >> = {}
    BY Empty DEF NoDraft
  <2>5. at'[r] = "question" /\ scope'[r] = QueryableScope(c)
    BY <1>2, <2>1 DEF RunTypes
  <2>6. DraftOf(r)'
    BY <2>1, <2>2, <2>3, <2>4, <2>5 DEF DraftOf, Labelled, WrittenFrom
  <2>7. \A q \in Requests \ {r} : at'[q] = at[q] /\ scope'[q] = scope[q] /\ draft'[q] = draft[q]
    BY <1>2, <2>1 DEF RunTypes
  <2>8. QED
    BY <1>1, <2>6, <2>7, DraftFrame
<1>5. CASE End(r) /\ UNCHANGED scope
  BY <1>1, <1>5, DraftEnds
<1>6. ASSUME StoreQuestion(r) \/ VerifyInQdrant(r) \/ StoreCached(r) \/ Abstain(r)
             \/ StreamAnswer(r) \/ StoreAnswer(r), ~End(r)
      PROVE  DraftInv'
  <2>1. UNCHANGED <<scope, draft>>
    BY <1>6 DEF StoreQuestion, VerifyInQdrant, StoreCached, Abstain, StreamAnswer, StoreAnswer, runVars
  <2>2. PICK from \in Places, to \in Places \ {"idle"} :
          /\ Go(r, from, to)
          /\ to \in {"storeCached", "stream", "storeAnswer"} =>
               from \in {"stream", "storeAnswer"} /\ to # "storeCached"
    BY <1>6 DEF StoreQuestion, VerifyInQdrant, StoreCached, Abstain, StreamAnswer, StoreAnswer, Places
  <2>3. QED
    BY <1>1, <2>1, <2>2, DraftMoves
<1>7. ASSUME LookupCache(r)
      PROVE  DraftInv'
  <2>1. UNCHANGED scope /\ "retrieve" \in Places \ {"idle"} /\ "verify" \in Places \ {"idle"}
        /\ "lookup" \in Places
    BY <1>7 DEF LookupCache, runVars, Places
  <2>2. CASE Go(r, "lookup", "retrieve") /\ UNCHANGED draft
    BY <1>1, <2>1, <2>2, DraftMoves
  <2>3. ASSUME Go(r, "lookup", "verify"), NEW e \in cache, e.active = scope[r].active,
               draft' = [draft EXCEPT ![r] = Cached(e)]
        PROVE  DraftInv'
    <3>1. e.chunks \in Texts /\ e.chunks \in Cites /\ e.prior \in SUBSET Docs
      BY <1>2, TextsAreCites DEF CacheTypes
    <3>2. WrittenFrom(e.chunks, scope[r].active)
      BY <1>1, <2>3 DEF CacheInv
    <3>3. QED
      BY <1>1, <2>1, <2>3, <3>1, <3>2, DraftChanges DEF Cached
  <2>4. QED
    BY <1>7, <2>2, <2>3 DEF LookupCache
<1>8. ASSUME Hydrate(r)
      PROVE  DraftInv'
  <2> DEFINE S == {d \in scope[r].ready : Ready(d)}
             kept == Keep(draft[r].cites, S)
  <2>1. UNCHANGED scope /\ "retrieve" \in Places \ {"idle"} /\ "storeCached" \in Places \ {"idle"}
        /\ "hydrate" \in Places
    BY <1>8 DEF Hydrate, runVars, Places
  <2>2. CASE Go(r, "hydrate", "retrieve") /\ UNCHANGED draft
    BY <1>1, <2>1, <2>2, DraftMoves
  <2>3. CASE Go(r, "hydrate", "storeCached") /\ draft' = [draft EXCEPT ![r].cites = kept]
    <3>1. /\ kept \in Cites /\ WrittenFrom(kept, S)
          /\ \A l \in DOMAIN kept : l \in DOMAIN draft[r].cites /\ kept[l] = draft[r].cites[l]
      BY <1>3, KeepCites
    <3>2. WrittenFrom(kept, scope[r].ready)
      BY <3>1 DEF WrittenFrom
    <3>3. Labelled(draft[r]) /\ WrittenFrom(draft[r].text, scope[r].active)
      BY <1>1 DEF DraftInv, DraftOf
    <3>4. \A l \in DOMAIN kept : l \in DOMAIN draft[r].text /\ draft[r].text[l] = kept[l]
      BY <3>1, <3>3 DEF Labelled
    <3> HIDE DEF kept
    <3>5. draft' = [draft EXCEPT ![r] =
                      [text |-> draft[r].text, cites |-> kept, prior |-> draft[r].prior]]
      <4>1. draft[r] \in Drafts
        BY <1>2 DEF RunTypes
      <4>2. [draft[r] EXCEPT !.cites = kept]
              = [text |-> draft[r].text, cites |-> kept, prior |-> draft[r].prior]
        BY <3>1, <4>1 DEF Drafts
      <4>3. QED
        BY <2>3, <4>2, Zenon
    <3>6. QED
      BY <1>1, <1>3, <2>1, <2>3, <3>1, <3>2, <3>3, <3>4, <3>5, DraftChanges
  <2>4. QED
    BY <1>8, <2>2, <2>3 DEF Hydrate
<1>9. ASSUME Retrieve(r)
      PROVE  DraftInv'
  <2>1. UNCHANGED scope /\ "retrieve" \in Places /\ "abstain" \in Places \ {"idle"}
        /\ "stream" \in Places \ {"idle"}
    BY <1>9 DEF Retrieve, runVars, Places
  <2>2. CASE Go(r, "retrieve", "abstain") /\ draft' = [draft EXCEPT ![r] = NoDraft]
    <3>1. << >> \in Texts /\ << >> \in Cites /\ DOMAIN << >> = {} /\ WrittenFrom(<< >>, scope[r].active)
      BY Empty
    <3>2. QED
      BY <1>1, <2>1, <2>2, <3>1, DraftChanges DEF NoDraft
  <2>3. ASSUME Go(r, "retrieve", "stream"),
               NEW s \in Ranked({d \in scope[r].ready : Ready(d)}),
               draft' = [draft EXCEPT ![r] = [text |-> s, cites |-> s, prior |-> Prior(target[r])]]
        PROVE  DraftInv'
    <3>1. {d \in scope[r].ready : Ready(d)} \in SUBSET Docs
      BY <1>2 DEF RunTypes
    <3>2. s \in Texts /\ WrittenFrom(s, {d \in scope[r].ready : Ready(d)})
      BY <3>1, RankedTexts
    <3>3. s \in Cites /\ Prior(target[r]) \in SUBSET Docs
      BY <1>1, <3>2, TextsAreCites, PriorType, TypeParts
    <3>4. scope[r].ready \subseteq scope[r].active
      BY <1>1 DEF DraftInv, DraftOf
    <3>5. WrittenFrom(s, scope[r].ready) /\ WrittenFrom(s, scope[r].active)
      BY <3>2, <3>4 DEF WrittenFrom
    <3>6. QED
      BY <1>1, <2>1, <2>3, <3>2, <3>3, <3>5, DraftChanges
  <2>4. QED
    BY <1>9, <2>2, <2>3 DEF Retrieve
<1>10. QED
  <2>1. StoreQuestion(r) \/ StoreCached(r) \/ Abstain(r) \/ StoreAnswer(r) => UNCHANGED scope
    BY DEF StoreQuestion, StoreCached, Abstain, StoreAnswer, runVars
  <2>2. StoreFailure(r) \/ Finish(r) \/ Interrupt(r) => End(r) /\ UNCHANGED scope
    BY DEF StoreFailure, Finish, Interrupt, runVars
  <2>3. StreamAnswer(r) \/ VerifyInQdrant(r) => UNCHANGED scope
    BY DEF StreamAnswer, VerifyInQdrant, runVars
  <2>4. QED
    BY <1>4, <1>5, <1>6, <1>7, <1>8, <1>9, <2>1, <2>2, <2>3 DEF Answer

LEMMA CacheAnswer ==
  ASSUME SourceInv, NEW r \in Requests, Answer(r) \/ Interrupt(r)
  PROVE  CacheInv'
<1>1. DraftInv /\ CacheInv
  BY DEF SourceInv
<1>2. CASE StoreAnswer(r)
  <2>1. at[r] = "storeAnswer" /\ cache' = cache /\ writing' \subseteq writing \cup {Entry(r)}
    BY <1>2 DEF StoreAnswer
  <2>2. draft[r].cites = draft[r].text /\ WrittenFrom(draft[r].text, scope[r].active)
    BY <1>1, <2>1 DEF DraftInv, DraftOf
  <2>3. WrittenFrom(Entry(r).chunks, Entry(r).active)
    BY <2>2 DEF Entry
  <2>4. QED
    BY <1>1, <2>1, <2>3 DEF CacheInv
<1>3. CASE ~StoreAnswer(r)
  <2>1. UNCHANGED <<cache, writing>>
    BY <1>3 DEF Answer, Ask, StoreQuestion, LookupCache, VerifyInQdrant, Hydrate, StoreCached,
                Retrieve, Abstain, StreamAnswer, StoreFailure, Finish, Interrupt, cacheVars
  <2>2. QED
    BY <1>1, <2>1 DEF CacheInv
<1>4. QED
  BY <1>2, <1>3

\* Rows stay right while the scopes of their questions stay.
LEMMA RowFrame ==
  ASSUME TypeInv, RowInv,
         \A q \in Requests : at'[q] = "idle" => at[q] = "idle",
         \A q \in Requests : at[q] # "idle" => target'[q] = target[q] /\ scope'[q] = scope[q],
         \A m \in messages' \ messages : SourceOf(m)'
  PROVE  RowInv'
<1>1. messages \subseteq Rows(clock)
  BY TypeParts DEF ClockTypes
<1>2. ASSUME NEW m \in messages
      PROVE  SourceOf(m)'
  <2>1. m.turn \in Requests
    BY <1>1 DEF Rows
  <2>2. SourceOf(m)
    BY DEF RowInv
  <2>3. QED
    BY <2>1, <2>2 DEF SourceOf
<1>3. QED
  BY <1>2 DEF RowInv

\* A row that a request stores of its draft, or of nothing.
LEMMA RowSource ==
  ASSUME NEW r, NEW role, NEW kind, NEW x, at'[r] # "idle", UNCHANGED <<target, scope>>,
         Labelled(x), WrittenFrom(x.text, scope[r].active), WrittenFrom(x.cites, scope[r].ready)
  PROVE  \A m : m = Row(r, role, kind, x) => SourceOf(m)'
  BY DEF Row, SourceOf, Labelled

LEMMA RowAnswer ==
  ASSUME SourceInv, NEW r \in Requests, Answer(r) \/ Interrupt(r)
  PROVE  RowInv'
<1>1. TypeInv /\ DraftInv /\ RowInv
  BY DEF SourceInv
<1>2. RunTypes
  BY <1>1, TypeParts
<1>3. \A q \in Requests : at'[q] = "idle" => at[q] = "idle"
  BY <1>2 DEF RunTypes, Go, End, Answer, Ask, StoreQuestion, LookupCache, VerifyInQdrant, Hydrate,
              StoreCached, Retrieve, Abstain, StreamAnswer, StoreAnswer, StoreFailure, Finish, Interrupt
<1>4. ASSUME NEW c \in Convs, Ask(r, c)
      PROVE  RowInv'
  <2>1. /\ at[r] = "idle" /\ target' = [target EXCEPT ![r] = c]
        /\ scope' = [scope EXCEPT ![r] = QueryableScope(c)] /\ UNCHANGED messages
    BY <1>4 DEF Ask, Go
  <2>2. \A q \in Requests : at[q] # "idle" => target'[q] = target[q] /\ scope'[q] = scope[q]
    BY <1>2, <2>1 DEF RunTypes
  <2>3. QED
    BY <1>1, <1>3, <2>1, <2>2, RowFrame
<1>5. CASE UNCHANGED <<target, scope, messages>>
  BY <1>1, <1>3, <1>5, RowFrame
<1>6. ASSUME UNCHANGED <<target, scope>>, at'[r] # "idle",
             NEW role, NEW kind,
             messages' = messages \cup {Row(r, role, kind, NoDraft)}
      PROVE  RowInv'
  <2>3. NoDraft.text = << >> /\ NoDraft.cites = << >> /\ Labelled(NoDraft)
    BY Empty DEF NoDraft, Labelled
  <2>1. \A m : m = Row(r, role, kind, NoDraft) => SourceOf(m)'
    BY <1>6, <2>3, Empty, RowSource
  <2>2. QED
    BY <1>1, <1>3, <1>6, <2>1, RowFrame
<1>7. ASSUME UNCHANGED <<target, scope>>, at'[r] # "idle", at[r] \in {"storeCached", "storeAnswer"},
             messages' = messages \cup {Row(r, "assistant", "answer", draft[r])}
      PROVE  RowInv'
  <2>1. /\ WrittenFrom(draft[r].text, scope[r].active)
        /\ WrittenFrom(draft[r].cites, scope[r].ready)
        /\ Labelled(draft[r])
    BY <1>1, <1>7 DEF DraftInv, DraftOf
  <2>2. \A m : m = Row(r, "assistant", "answer", draft[r]) => SourceOf(m)'
    BY <1>7, <2>1, RowSource
  <2>3. QED
    BY <1>1, <1>3, <1>7, <2>2, RowFrame
<1>8. StoreQuestion(r) \/ StoreCached(r) \/ Abstain(r) \/ StoreAnswer(r) \/ StoreFailure(r) =>
        UNCHANGED <<target, scope>> /\ at'[r] # "idle"
  BY <1>2 DEF StoreQuestion, StoreCached, Abstain, StoreAnswer, StoreFailure, Go, End, RunTypes, runVars
<1>9. ASSUME LookupCache(r) \/ VerifyInQdrant(r) \/ Hydrate(r) \/ Retrieve(r) \/ StreamAnswer(r)
             \/ Finish(r) \/ Interrupt(r)
      PROVE  UNCHANGED <<target, scope, messages>>
  BY <1>9 DEF LookupCache, VerifyInQdrant, Hydrate, Retrieve, StreamAnswer, Finish, Interrupt, runVars
<1>10. CASE StoreQuestion(r)
  <2>1. UNCHANGED messages \/ messages' = messages \cup {Row(r, "user", "question", NoDraft)}
    BY <1>10 DEF StoreQuestion
  <2>2. QED
    BY <1>5, <1>6, <1>8, <1>10, <2>1
<1>11. CASE Abstain(r)
  <2>1. UNCHANGED messages \/ messages' = messages \cup {Row(r, "assistant", "abstention", NoDraft)}
    BY <1>11 DEF Abstain
  <2>2. QED
    BY <1>5, <1>6, <1>8, <1>11, <2>1
<1>12. CASE StoreFailure(r)
  <2>1. UNCHANGED messages \/ messages' = messages \cup {Row(r, "assistant", "failed", NoDraft)}
    BY <1>12 DEF StoreFailure
  <2>2. QED
    BY <1>5, <1>6, <1>8, <1>12, <2>1
<1>13. CASE StoreCached(r) \/ StoreAnswer(r)
  <2>1. /\ at[r] \in {"storeCached", "storeAnswer"}
        /\ \/ UNCHANGED messages
           \/ messages' = messages \cup {Row(r, "assistant", "answer", draft[r])}
    BY <1>13 DEF StoreCached, StoreAnswer
  <2>2. QED
    BY <1>5, <1>7, <1>8, <1>13, <2>1
<1>14. QED
  BY <1>4, <1>5, <1>9, <1>10, <1>11, <1>12, <1>13 DEF Answer

\* Documents, conversations and the cache change meanwhile.
LEMMA SourceMeanwhile ==
  ASSUME SourceInv,
         \/ \E e \in writing : WriteCache(e)
         \/ \E d \in Docs : Reprocess(d) \/ BecomeReady(d) \/ DeletePoints(d) \/ DeleteRow(d)
         \/ \E c \in Convs, S \in SUBSET Docs :
              \/ UpdateActiveDocuments(c, S)
              \/ \E d \in Docs : CreateConversation(c, d, S)
  PROVE  DraftInv' /\ CacheInv' /\ RowInv'
<1>1. TypeInv /\ DraftInv /\ CacheInv /\ RowInv
  BY DEF SourceInv
<1>2. UNCHANGED <<at, target, scope, draft>>
  BY DEF WriteCache, Reprocess, BecomeReady, DeletePoints, DeleteRow, UpdateActiveDocuments,
         CreateConversation, sameAnswering, runVars
<1>3. DraftInv'
  BY <1>1, <1>2 DEF DraftInv, DraftOf
<1>4. CacheInv'
  <2>1. (cache \cup writing)' = cache \cup writing
    BY DEF WriteCache, Reprocess, BecomeReady, DeletePoints, DeleteRow, UpdateActiveDocuments,
           CreateConversation, sameAnswering, cacheVars
  <2>2. QED
    BY <1>1, <2>1 DEF CacheInv
<1>5. RowInv'
  <2>1. ASSUME NEW d \in Docs, DeleteRow(d)
        PROVE  RowInv'
    <3>1. ASSUME NEW m \in messages
          PROVE  \A n : n = [m EXCEPT !.cites = Keep(@, Docs \ {d})] => SourceOf(n)'
      <4> DEFINE c == Keep(m.cites, Docs \ {d})
      <4>1. m \in Rows(clock) /\ SourceOf(m)
        BY <1>1, TypeParts DEF ClockTypes, RowInv
      <4>2. /\ c \in Cites /\ DOMAIN c \subseteq DOMAIN m.cites
            /\ \A l \in DOMAIN c : c[l] = m.cites[l]
        BY <4>1, KeepCites DEF Rows
      <4>3. ASSUME NEW n, n = [m EXCEPT !.cites = c]
            PROVE  n.turn = m.turn /\ n.conv = m.conv /\ n.text = m.text /\ n.cites = c
        <5> HIDE DEF c
        <5>1. QED
          BY <4>1, <4>2, <4>3 DEF Rows
      <4>4. ASSUME NEW n, n.turn = m.turn, n.conv = m.conv, n.text = m.text, n.cites = c
            PROVE  SourceOf(n)'
        <5> HIDE DEF c
        <5>1. QED
          BY <1>2, <4>1, <4>2, <4>4 DEF SourceOf, Labelled, WrittenFrom
      <4>5. QED
        BY <4>3, <4>4
    <3>2. \A n \in messages' : SourceOf(n)'
      BY <2>1, <3>1 DEF DeleteRow
    <3>3. QED
      BY <3>2 DEF RowInv
  <2>2. CASE UNCHANGED messages
    BY <1>1, <1>2, <2>2, RowFrame
  <2>3. QED
    BY <2>1, <2>2 DEF WriteCache, Reprocess, BecomeReady, DeletePoints, UpdateActiveDocuments,
                      CreateConversation
<1>6. QED
  BY <1>3, <1>4, <1>5

-----------------------------------------------------------------------------
(***************************************************************************)
(* The first theorems.                                                     *)
(***************************************************************************)
LEMMA SourceInit == Init => SourceInv
<1> SUFFICES ASSUME Init
             PROVE  SourceInv
  OBVIOUS
<1>1. TypeInv
  BY TypeInit
<1>2. NoDraft.text = << >> /\ NoDraft.cites = << >> /\ DOMAIN << >> = {}
  BY Empty DEF NoDraft
<1>3. DraftInv
  BY <1>2 DEF Init, NoScope, DraftInv, DraftOf, Labelled, WrittenFrom
<1>4. CacheInv /\ RowInv
  BY DEF Init, CacheInv, RowInv
<1>5. QED
  BY <1>1, <1>3, <1>4 DEF SourceInv

LEMMA SourceStep == SourceInv /\ [Next]_vars => SourceInv'
<1> SUFFICES ASSUME SourceInv, [Next]_vars
             PROVE  SourceInv'
  OBVIOUS
<1>1. TypeInv /\ DraftInv
  BY DEF SourceInv
<1>2. ASSUME NEW r \in Requests, Answer(r) \/ Interrupt(r)
      PROVE  SourceInv'
  <2>1. TypeInv'
    BY <1>1, <1>2, TypeBefore, TypeAfter DEF Answer
  <2>2. QED
    BY <1>2, <2>1, DraftAnswer, CacheAnswer, RowAnswer DEF SourceInv
<1>3. ASSUME \/ \E e \in writing : WriteCache(e)
             \/ \E d \in Docs : Reprocess(d) \/ BecomeReady(d) \/ DeletePoints(d) \/ DeleteRow(d)
             \/ \E c \in Convs, S \in SUBSET Docs :
                  \/ UpdateActiveDocuments(c, S)
                  \/ \E d \in Docs : CreateConversation(c, d, S)
      PROVE  SourceInv'
  BY <1>1, <1>3, TypeMeanwhile, SourceMeanwhile DEF SourceInv
<1>4. CASE UNCHANGED vars
  BY <1>4 DEF vars, SourceInv, TypeInv, TypeOK, DraftInv, DraftOf, CacheInv, RowInv, SourceOf
<1>5. QED
  BY <1>2, <1>3, <1>4 DEF Next

LEMMA SourceAlways == Spec => []SourceInv
  BY SourceInit, SourceStep, PTL DEF Spec

LEMMA SourceImplies == SourceInv => TypeOK /\ LabelsAgree /\ InScope
<1> SUFFICES ASSUME SourceInv
             PROVE  TypeOK /\ LabelsAgree /\ InScope
  OBVIOUS
<1>1. TypeOK
  BY DEF SourceInv, TypeInv
<1>2. LabelsAgree
  BY DEF SourceInv, RowInv, SourceOf, Labelled, LabelsAgree
<1>3. InScope
  BY DEF SourceInv, RowInv, SourceOf, WrittenFrom, Named, InScope
<1>4. QED
  BY <1>1, <1>2, <1>3

\* Every variable keeps its type: rows, citations and cache entries of any
\* number of requests, documents and conversations.
THEOREM TypeCorrect == Spec => []TypeOK
  BY SourceAlways, SourceImplies, PTL

\* Citations are stored under the labels of their answer's text, from the
\* cache or not (_hydrate_cached_answer, _persist_answer).
THEOREM LabelsAlwaysAgree == Spec => []LabelsAgree
  BY SourceAlways, SourceImplies, PTL

\* Answers name and cite only chunks of the scope their question was asked in,
\* although conversations share the cache (hash_active_documents,
\* get_queryable_scope). What the history in the prompt adds is PriorInv's.
THEOREM AnswersStayInScope == Spec => []InScope
  BY SourceAlways, SourceImplies, PTL

-----------------------------------------------------------------------------
(***************************************************************************)
(* What answers are written from through the history in their prompts.     *)
(***************************************************************************)
\* Asked once, a request keeps its conversation and its scope.
AskedOnce == \A q \in Requests : target[q] # None => target'[q] = target[q] /\ scope'[q] = scope[q]

\* What was active for the questions of a conversation only grows.
LEMMA ActiveGrows ==
  ASSUME AskedOnce, NEW c, c # None
  PROVE  ActiveIn(c) \subseteq ActiveIn(c)'
  BY DEF ActiveIn, AskedOnce

\* The history of a conversation brings only what its rows were written from.
LEMMA PriorIsActive ==
  ASSUME OnlyActiveParticipate, NEW c
  PROVE  Prior(c) \subseteq ActiveIn(c)
<1>1. ASSUME NEW h \in History(c)
      PROVE  h[2] \in messages /\ h[2].conv = c
  BY DEF History, Of
<1>2. QED
  BY <1>1 DEF Prior, OnlyActiveParticipate

\* Rows stay right, and so do new ones that are written from what was active.
LEMMA SourcesFrame ==
  ASSUME TypeInv, OnlyActiveParticipate, AskedOnce,
         \A m \in messages' \ messages :
           \/ m.conv # None /\ Sources(m) \subseteq ActiveIn(m.conv)
           \/ \E k \in messages : m.conv = k.conv /\ m.text = k.text /\ m.prior = k.prior
  PROVE  OnlyActiveParticipate'
<1>1. ASSUME NEW m \in messages
      PROVE  m.conv # None
  BY TypeParts, ConstantsAssumption DEF ClockTypes, Rows
<1>2. ASSUME NEW m \in messages'
      PROVE  m.conv # None /\ Sources(m) \subseteq ActiveIn(m.conv)
  BY <1>1 DEF OnlyActiveParticipate, Sources
<1>3. ASSUME NEW m \in messages'
      PROVE  Sources(m) \subseteq ActiveIn(m.conv)'
  BY <1>2, ActiveGrows
<1>4. QED
  BY <1>3 DEF OnlyActiveParticipate, Sources

\* A request's step leaves the drafts of the others alone.
LEMMA PriorFrame ==
  ASSUME TypeInv, DraftInv, PriorInv, AskedOnce, NEW r \in Requests, PriorOf(r)', OnlyActiveParticipate',
         \A q \in Requests \ {r} : /\ at'[q] = at[q] /\ target'[q] = target[q]
                                   /\ draft'[q] = draft[q]
  PROVE  PriorInv'
<1>1. ASSUME NEW q \in Requests \ {r}
      PROVE  PriorOf(q)'
  <2>1. PriorOf(q)
    BY DEF PriorInv
  <2>2. CASE target[q] # None
    BY <2>1, <2>2, ActiveGrows DEF PriorOf
  <2>3. CASE target[q] = None
    <3>1. at[q] = "idle"
      BY <2>3, TypeParts, ConstantsAssumption DEF PlaceInv
    <3>2. draft[q].prior = {}
      BY <3>1 DEF DraftInv, DraftOf, NoDraft
    <3>3. QED
      BY <2>1, <3>1, <3>2 DEF PriorOf
  <2>4. QED
    BY <2>2, <2>3
<1>2. QED
  BY <1>1 DEF PriorInv

\* A request's step, without the cache.
LEMMA PriorAnswer ==
  ASSUME SourceInv, PriorInv, ~CacheEnabled, NEW r \in Requests, Answer(r) \/ Interrupt(r)
  PROVE  PriorInv'
<1>1. TypeInv /\ DraftInv /\ OnlyActiveParticipate /\ PriorOf(r)
  BY DEF SourceInv, PriorInv
<1>2. RunTypes /\ PlaceInv
  BY <1>1, TypeParts
<1>3. \A q \in Requests \ {r} : at'[q] = at[q] /\ target'[q] = target[q] /\ draft'[q] = draft[q]
  BY <1>2 DEF RunTypes, Go, End, Answer, Ask, StoreQuestion, LookupCache, VerifyInQdrant, Hydrate,
              StoreCached, Retrieve, Abstain, StreamAnswer, StoreAnswer, StoreFailure, Finish,
              Interrupt, runVars
<1>4. ASSUME NEW c \in Convs, Ask(r, c)
      PROVE  PriorInv'
  <2>1. /\ at[r] = "idle" /\ target[r] = None /\ at' = [at EXCEPT ![r] = "question"]
        /\ target' = [target EXCEPT ![r] = c] /\ scope' = [scope EXCEPT ![r] = QueryableScope(c)]
        /\ UNCHANGED <<messages, draft>>
    BY <1>1, <1>4 DEF Ask, Go, PriorOf
  <2>2. AskedOnce
    BY <1>2, <2>1 DEF AskedOnce, RunTypes
  <2>3. draft[r].prior = {} /\ at'[r] = "question"
    BY <1>1, <1>2, <2>1 DEF DraftInv, DraftOf, NoDraft, RunTypes
  <2>4. PriorOf(r)'
    BY <2>1, <2>3 DEF PriorOf
  <2>5. OnlyActiveParticipate'
    BY <1>1, <2>1, <2>2, SourcesFrame
  <2>6. QED
    BY <1>1, <1>3, <2>2, <2>4, <2>5, PriorFrame
<1>5. CASE ~\E c \in Convs : Ask(r, c)
  <2>1. UNCHANGED <<target, scope>>
    BY <1>5 DEF Answer, StoreQuestion, LookupCache, VerifyInQdrant, Hydrate, StoreCached, Retrieve,
                Abstain, StreamAnswer, StoreAnswer, StoreFailure, Finish, Interrupt, runVars
  <2>2. AskedOnce /\ ActiveIn(target[r])' = ActiveIn(target[r])
    BY <2>1 DEF AskedOnce, ActiveIn
  <2>3. at[r] # "idle" /\ target[r] \in Convs /\ target[r] # None
    BY <1>2, <1>5, ConstantsAssumption
       DEF Answer, StoreQuestion, LookupCache, VerifyInQdrant, Hydrate, StoreCached, Retrieve, Abstain,
           StreamAnswer, StoreAnswer, StoreFailure, Finish, Interrupt, Go, Running, PlaceInv
  <2>4. Sources(draft[r]) \subseteq ActiveIn(target[r])
    <3>1. WrittenFrom(draft[r].text, scope[r].active) /\ scope[r].active \subseteq ActiveIn(target[r])
      BY <1>1 DEF DraftInv, DraftOf, ActiveIn
    <3>2. QED
      BY <1>1, <3>1 DEF Sources, Named, WrittenFrom, PriorOf
  <2>5. Sources(NoDraft) = {}
    BY Empty DEF Sources, Named, NoDraft
  <2>6. ASSUME NEW role, NEW kind, NEW x \in {NoDraft, draft[r]},
               messages' = messages \cup {Row(r, role, kind, x)}
        PROVE  OnlyActiveParticipate'
    <3> DEFINE m == Row(r, role, kind, x)
    <3>1. m.conv = target[r] /\ Sources(m) = Sources(x)
      BY DEF Row, Sources
    <3>2. messages' = messages \cup {m}
      BY <2>6
    <3> HIDE DEF m
    <3>3. m.conv # None /\ Sources(m) \subseteq ActiveIn(m.conv)
      BY <2>3, <2>4, <2>5, <3>1
    <3>4. QED
      BY <1>1, <2>2, <3>2, <3>3, SourcesFrame
  <2>7. OnlyActiveParticipate'
    <3>1. CASE UNCHANGED messages
      BY <1>1, <2>2, <3>1, SourcesFrame
    <3>2. CASE StoreQuestion(r)
      BY <2>6, <3>1, <3>2 DEF StoreQuestion
    <3>3. CASE StoreCached(r) \/ StoreAnswer(r)
      BY <2>6, <3>1, <3>3, StoreCases
    <3>4. CASE Abstain(r) \/ StoreFailure(r)
      BY <2>6, <3>1, <3>4 DEF Abstain, StoreFailure
    <3>5. LookupCache(r) \/ VerifyInQdrant(r) \/ Hydrate(r) \/ Retrieve(r) \/ StreamAnswer(r)
          \/ Finish(r) \/ Interrupt(r) => UNCHANGED messages
      BY DEF LookupCache, VerifyInQdrant, Hydrate, Retrieve, StreamAnswer, Finish, Interrupt
    <3>6. QED
      BY <1>5, <3>1, <3>2, <3>3, <3>4, <3>5 DEF Answer
  <2>8. PriorOf(r)'
    <3>1. at'[r] \notin {"idle", "verify", "hydrate", "storeCached"}
      BY <1>1, <1>2, <1>5
         DEF Answer, StoreQuestion, LookupCache, VerifyInQdrant, Hydrate, StoreCached, Retrieve,
             Abstain, StreamAnswer, StoreAnswer, StoreFailure, Finish, Interrupt, Go, End, RunTypes,
             PriorOf
    <3>2. ASSUME NEW x \in Drafts, draft' = [draft EXCEPT ![r] = x], x.prior \subseteq ActiveIn(target[r])
          PROVE  draft'[r].prior \subseteq ActiveIn(target[r])
      BY <1>2, <3>2 DEF RunTypes
    <3>3. CASE UNCHANGED draft
      BY <1>1, <2>1, <2>2, <3>1, <3>3 DEF PriorOf
    <3>4. CASE draft' = [draft EXCEPT ![r] = NoDraft]
      <4>1. NoDraft.prior = {}
        BY DEF NoDraft
      <4>2. QED
        BY <2>1, <2>2, <3>1, <3>2, <3>4, <4>1, NoDraftType DEF PriorOf
    <3>5. ASSUME NEW s \in Ranked({d \in scope[r].ready : Ready(d)}),
                 draft' = [draft EXCEPT ![r] = [text |-> s, cites |-> s, prior |-> Prior(target[r])]]
          PROVE  PriorOf(r)'
      <4>1. draft'[r].prior = Prior(target[r])
        BY <1>2, <3>5 DEF RunTypes
      <4>2. Prior(target[r]) \subseteq ActiveIn(target[r])
        BY <1>1, PriorIsActive
      <4>3. QED
        BY <2>1, <2>2, <3>1, <4>1, <4>2 DEF PriorOf
    <3>6. CASE Retrieve(r)
      BY <3>4, <3>5, <3>6 DEF Retrieve
    <3>7. CASE ~Retrieve(r)
      <4>1. UNCHANGED draft \/ draft' = [draft EXCEPT ![r] = NoDraft]
        BY <1>1, <1>5, <3>7
           DEF Answer, StoreQuestion, LookupCache, VerifyInQdrant, Hydrate, StoreCached, Abstain,
               StreamAnswer, StoreAnswer, StoreFailure, Finish, Interrupt, Go, End, PriorOf
      <4>2. QED
        BY <3>3, <3>4, <4>1
    <3>8. QED
      BY <3>6, <3>7
  <2>9. QED
    BY <1>1, <1>3, <2>2, <2>7, <2>8, PriorFrame
<1>6. QED
  BY <1>4, <1>5

\* Documents, conversations and the cache change meanwhile.
LEMMA PriorMeanwhile ==
  ASSUME SourceInv, PriorInv,
         \/ \E e \in writing : WriteCache(e)
         \/ \E d \in Docs : Reprocess(d) \/ BecomeReady(d) \/ DeletePoints(d) \/ DeleteRow(d)
         \/ \E c \in Convs, S \in SUBSET Docs :
              \/ UpdateActiveDocuments(c, S)
              \/ \E d \in Docs : CreateConversation(c, d, S)
  PROVE  PriorInv'
<1>1. UNCHANGED <<at, target, scope, draft>>
  BY DEF WriteCache, Reprocess, BecomeReady, DeletePoints, DeleteRow, UpdateActiveDocuments,
         CreateConversation, sameAnswering, runVars
<1>2. TypeInv /\ OnlyActiveParticipate /\ AskedOnce
  BY <1>1 DEF SourceInv, PriorInv, AskedOnce
<1>3. ASSUME NEW d \in Docs, DeleteRow(d), NEW m \in messages'
      PROVE  \E k \in messages : m.conv = k.conv /\ m.text = k.text /\ m.prior = k.prior
  <2>1. PICK k \in messages : m = [k EXCEPT !.cites = Keep(@, Docs \ {d})]
    BY <1>3 DEF DeleteRow
  <2>2. k \in Rows(clock)
    BY <1>2, TypeParts DEF ClockTypes
  <2>3. QED
    BY <2>1, <2>2 DEF Rows
<1>4. OnlyActiveParticipate'
  <2>1. CASE UNCHANGED messages
    BY <1>2, <2>1, SourcesFrame
  <2>2. CASE \E d \in Docs : DeleteRow(d)
    BY <1>2, <1>3, <2>2, SourcesFrame
  <2>3. QED
    BY <2>1, <2>2 DEF WriteCache, Reprocess, BecomeReady, DeletePoints, UpdateActiveDocuments,
                      CreateConversation
<1>5. \A q \in Requests : PriorOf(q)'
  BY <1>1 DEF PriorInv, PriorOf, ActiveIn
<1>6. QED
  BY <1>4, <1>5 DEF PriorInv

\* Without the cache, an answer is written only from documents that were active
\* in its own conversation for one of its questions, history included
\* (_build_history): it is the entries of the cache, shared between
\* conversations, that bring others (_semantic_cache_set_async).
THEOREM OnlyTheCacheLeaks == ~CacheEnabled => (Spec => []OnlyActiveParticipate)
<1> SUFFICES ASSUME ~CacheEnabled
             PROVE  Spec => []OnlyActiveParticipate
  OBVIOUS
<1>1. Init => PriorInv
  BY DEF Init, PriorInv, PriorOf, NoDraft, OnlyActiveParticipate
<1>2. SourceInv /\ PriorInv /\ [Next]_vars => PriorInv'
  <2> SUFFICES ASSUME SourceInv, PriorInv, [Next]_vars
               PROVE  PriorInv'
    OBVIOUS
  <2>1. ASSUME NEW r \in Requests, Answer(r) \/ Interrupt(r)
        PROVE  PriorInv'
    BY <2>1, PriorAnswer
  <2>2. ASSUME \/ \E e \in writing : WriteCache(e)
               \/ \E d \in Docs : Reprocess(d) \/ BecomeReady(d) \/ DeletePoints(d) \/ DeleteRow(d)
               \/ \E c \in Convs, S \in SUBSET Docs :
                    \/ UpdateActiveDocuments(c, S)
                    \/ \E d \in Docs : CreateConversation(c, d, S)
        PROVE  PriorInv'
    BY <2>2, PriorMeanwhile
  <2>3. CASE UNCHANGED vars
    BY <2>3 DEF vars, PriorInv, PriorOf, OnlyActiveParticipate, ActiveIn, Sources
  <2>4. QED
    BY <2>1, <2>2, <2>3 DEF Next
<1>3. PriorInv => OnlyActiveParticipate
  BY DEF PriorInv
<1>4. QED
  BY <1>1, <1>2, <1>3, SourceAlways, PTL DEF Spec

-----------------------------------------------------------------------------
(***************************************************************************)
(* One answer per question.                                                *)
(***************************************************************************)
Last == {"finish", "ended"}

\* A request's step that stores no answer, or the first one of its question.
LEMMA OneFrame ==
  ASSUME TypeInv, OneAnswer, AnswerIsLast,
         \A q \in Requests : at[q] \in Last => at'[q] \in Last,
         \A m \in messages' \ messages : m.role = "assistant" =>
           /\ m.turn \in Requests /\ at[m.turn] \notin Last /\ at'[m.turn] \in Last
           /\ \A n \in messages' \ messages : n = m
  PROVE  OneAnswer' /\ AnswerIsLast'
<1>1. \A m \in messages : m.turn \in Requests
  BY TypeParts DEF ClockTypes, Rows
<1>2. AnswerIsLast'
  BY <1>1 DEF AnswerIsLast, Last
<1>3. OneAnswer'
  <2>1. ASSUME NEW m \in messages', NEW n \in messages', m.role = "assistant",
               n.role = "assistant", m.turn = n.turn
        PROVE  m = n
    <3>1. CASE m \in messages /\ n \in messages
      BY <2>1, <3>1 DEF OneAnswer
    <3>2. CASE m \notin messages
      BY <2>1, <3>2 DEF AnswerIsLast, Last
    <3>3. CASE n \notin messages
      BY <2>1, <3>3 DEF AnswerIsLast, Last
    <3>4. QED
      BY <3>1, <3>2, <3>3
  <2>2. QED
    BY <2>1 DEF OneAnswer
<1>4. QED
  BY <1>2, <1>3

\* A request's step leaves the clients of the others alone.
LEMMA ClientFrame ==
  ASSUME ClientInv, NEW r \in Requests, ClientOf(r)', messages \subseteq messages',
         UNCHANGED conv,
         \A q \in Requests \ {r} : /\ at'[q] = at[q] /\ client'[q] = client[q]
                                   /\ target'[q] = target[q]
  PROVE  ClientInv'
  BY DEF ClientInv, ClientOf, Exists

LEMMA OnceAnswer ==
  ASSUME SourceInv, OnceInv, NEW r \in Requests, Answer(r) \/ Interrupt(r)
  PROVE  OnceInv'
<1>1. TypeInv /\ OneAnswer /\ AnswerIsLast /\ ClientInv
  BY DEF SourceInv, OnceInv
<1>2. RunTypes
  BY <1>1, TypeParts
<1>3. UNCHANGED conv
  BY DEF Answer, Ask, StoreQuestion, LookupCache, VerifyInQdrant, Hydrate, StoreCached, Retrieve,
         Abstain, StreamAnswer, StoreAnswer, StoreFailure, Finish, Interrupt, docVars
<1>4. \A q \in Requests \ {r} : /\ at'[q] = at[q] /\ client'[q] = client[q]
                                /\ target'[q] = target[q]
  BY <1>2 DEF RunTypes, Go, End, Answer, Ask, StoreQuestion, LookupCache, VerifyInQdrant, Hydrate,
              StoreCached, Retrieve, Abstain, StreamAnswer, StoreAnswer, StoreFailure, Finish,
              Interrupt, runVars
<1>5. ClientOf(r)
  BY <1>1 DEF ClientInv
<1>6. ASSUME at[r] \notin Last, at'[r] \notin Last, messages \subseteq messages',
             \A m \in messages' \ messages : m.role # "assistant",
             client'[r] = "done" => client[r] = "done"
      PROVE  OnceInv'
  <2>1. OneAnswer' /\ AnswerIsLast'
    BY <1>1, <1>4, <1>6, OneFrame
  <2>2. ClientOf(r)'
    BY <1>5, <1>6 DEF ClientOf, Last
  <2>3. QED
    BY <1>1, <1>3, <1>4, <1>6, <2>1, <2>2, ClientFrame DEF OnceInv
<1>7. ASSUME at[r] \notin Last, at'[r] = "ended", messages \subseteq messages',
             \A m \in messages' \ messages : m = Row(r, "assistant", "failed", NoDraft),
             client'[r] # "done"
      PROVE  OnceInv'
  <2>1. \A m \in messages' \ messages : m.turn = r
    BY <1>7 DEF Row
  <2>2. OneAnswer' /\ AnswerIsLast'
    BY <1>1, <1>4, <1>7, <2>1, OneFrame DEF Last
  <2>3. ClientOf(r)'
    BY <1>7 DEF ClientOf
  <2>4. QED
    BY <1>1, <1>3, <1>4, <1>7, <2>2, <2>3, ClientFrame DEF OnceInv
<1>8. ASSUME at[r] \notin Last, at'[r] = "finish", client' = client, NEW kind, NEW x,
             messages' = messages \cup {Row(r, "assistant", kind, x)}
      PROVE  OnceInv'
  <2> DEFINE m == Row(r, "assistant", kind, x)
  <2>1. m.turn = r /\ m.role = "assistant"
    BY DEF Row
  <2> HIDE DEF m
  <2>2. messages' = messages \cup {m}
    BY <1>8 DEF m
  <2>3. OneAnswer' /\ AnswerIsLast'
    BY <1>1, <1>4, <1>8, <2>1, <2>2, OneFrame DEF Last
  <2>4. ClientOf(r)'
    BY <1>5, <1>8, <2>1, <2>2 DEF ClientOf, Last
  <2>5. QED
    BY <1>1, <1>3, <1>4, <2>2, <2>3, <2>4, ClientFrame DEF OnceInv
<1>9. CASE (\E c \in Convs : Ask(r, c)) \/ LookupCache(r) \/ VerifyInQdrant(r) \/ Hydrate(r)
           \/ Retrieve(r) \/ StreamAnswer(r)
  <2>1. at[r] \notin Last /\ at'[r] \notin Last /\ messages' = messages /\ client' = client
    BY <1>2, <1>9 DEF Ask, LookupCache, VerifyInQdrant, Hydrate, Retrieve, StreamAnswer, Go, Last, RunTypes
  <2>2. QED
    BY <1>6, <2>1
<1>10. CASE StoreQuestion(r) /\ Insertable(r, << >>)
  <2>1. /\ at[r] \notin Last /\ at'[r] \notin Last /\ client' = client
        /\ messages' = messages \cup {Row(r, "user", "question", NoDraft)}
    BY <1>2, <1>10 DEF StoreQuestion, Go, Last, RunTypes
  <2>2. Row(r, "user", "question", NoDraft).role # "assistant"
    BY DEF Row
  <2>3. QED
    BY <1>6, <2>1, <2>2
<1>11. CASE StoreCached(r) \/ StoreAnswer(r)
  <2>1. at[r] \notin Last /\ client' = client
    BY <1>11 DEF StoreCached, StoreAnswer, Last
  <2>2. CASE /\ messages' = messages \cup {Row(r, "assistant", "answer", draft[r])}
             /\ \E from \in {"storeCached", "storeAnswer"} : Go(r, from, "finish")
    <3>1. at'[r] = "finish"
      BY <1>2, <2>2 DEF Go, RunTypes
    <3>2. QED
      BY <1>8, <2>1, <2>2, <3>1
  <2>3. CASE UNCHANGED messages /\ End(r)
    <3>1. at'[r] = "ended"
      BY <1>2, <2>3 DEF End, RunTypes
    <3>2. client'[r] # "done"
      BY <1>5, <2>1 DEF ClientOf, Last
    <3>3. QED
      BY <1>7, <2>1, <2>3, <3>1, <3>2
  <2>4. QED
    BY <1>11, <2>2, <2>3, StoreCases
<1>12. CASE Abstain(r) /\ Exists(target[r])
  <2>1. /\ at[r] \notin Last /\ at'[r] = "finish" /\ client' = client
        /\ messages' = messages \cup {Row(r, "assistant", "abstention", NoDraft)}
    BY <1>2, <1>12 DEF Abstain, Go, Last, RunTypes
  <2>2. QED
    BY <1>8, <2>1
<1>13. CASE \/ StoreQuestion(r) /\ ~Insertable(r, << >>)
            \/ Abstain(r) /\ ~Exists(target[r])
  <2>1. at[r] \notin Last /\ at'[r] = "ended" /\ messages' = messages /\ client' = client
    BY <1>2, <1>13 DEF StoreQuestion, Abstain, End, Last, RunTypes
  <2>2. client'[r] # "done"
    BY <1>5, <2>1 DEF ClientOf, Last
  <2>3. QED
    BY <1>7, <2>1, <2>2
<1>15. CASE StoreFailure(r)
  <2>1. /\ at[r] = "storeFailure" /\ at'[r] = "ended"
        /\ messages' \in {messages, messages \cup {Row(r, "assistant", "failed", NoDraft)}}
        /\ client' = client \/ client'[r] = "error"
    BY <1>2, <1>15 DEF StoreFailure, End, RunTypes
  <2>2. client'[r] # "done"
    BY <1>5, <2>1 DEF ClientOf
  <2>3. QED
    BY <1>7, <2>1, <2>2 DEF Last
<1>16. CASE Finish(r)
  <2>1. /\ at[r] = "finish" /\ at'[r] = "ended" /\ messages' = messages
        /\ client'[r] \in {"done", "error"} /\ UNCHANGED target
    BY <1>2, <1>16 DEF Finish, End, RunTypes, runVars
  <2>2. OneAnswer' /\ AnswerIsLast'
    BY <1>1, <1>4, <2>1, OneFrame DEF Last
  <2>3. ClientOf(r)'
    BY <1>3, <1>5, <2>1 DEF ClientOf, Exists
  <2>4. QED
    BY <1>1, <1>3, <1>4, <2>1, <2>2, <2>3, ClientFrame DEF OnceInv
<1>17. CASE Interrupt(r)
  <2>1. /\ at[r] \notin {"idle", "ended"} /\ at'[r] = "ended" /\ messages' = messages
        /\ client'[r] = "error"
    BY <1>2, <1>17 DEF Interrupt, Running, End, RunTypes
  <2>2. OneAnswer' /\ AnswerIsLast'
    BY <1>1, <1>4, <2>1, OneFrame DEF Last
  <2>3. ClientOf(r)'
    BY <2>1 DEF ClientOf
  <2>4. QED
    BY <1>1, <1>3, <1>4, <2>1, <2>2, <2>3, ClientFrame DEF OnceInv
<1>18. QED
  BY <1>9, <1>10, <1>11, <1>12, <1>13, <1>15, <1>16, <1>17 DEF Answer

\* A conversation that is gone does not come back under a request.
LEMMA GoneForGood ==
  ASSUME TypeInv,
         \/ \E e \in writing : WriteCache(e)
         \/ \E d \in Docs : Reprocess(d) \/ BecomeReady(d) \/ DeletePoints(d) \/ DeleteRow(d)
         \/ \E c \in Convs, S \in SUBSET Docs :
              \/ UpdateActiveDocuments(c, S)
              \/ \E d \in Docs : CreateConversation(c, d, S)
  PROVE  \A q \in Requests : at[q] # "idle" /\ Exists(target[q])' => Exists(target[q])
<1>1. DocTypes /\ \A q \in Requests : at[q] # "idle" => target[q] \in Convs
  BY TypeParts DEF PlaceInv
<1>2. UNCHANGED target
  BY DEF WriteCache, Reprocess, BecomeReady, DeletePoints, DeleteRow, UpdateActiveDocuments,
         CreateConversation, sameAnswering, runVars
<1>3. ASSUME NEW c \in Convs, NEW S \in SUBSET Docs, UpdateActiveDocuments(c, S)
      PROVE  \A b \in Convs : conv'[b].primary = conv[b].primary
  BY <1>1, <1>3 DEF UpdateActiveDocuments, DocTypes
<1>4. ASSUME NEW c \in Convs, NEW S \in SUBSET Docs, NEW d \in Docs, CreateConversation(c, d, S)
      PROVE  \A q \in Requests : at[q] # "idle" => conv'[target[q]] = conv[target[q]]
  BY <1>1, <1>4 DEF CreateConversation, DocTypes
<1>5. ASSUME NEW d \in Docs, DeleteRow(d)
      PROVE  \A b \in Convs : conv'[b].primary # None => conv[b].primary # None
  BY <1>1, <1>5 DEF DeleteRow, DocTypes, NoConv
<1>6. CASE UNCHANGED conv
  BY <1>2, <1>6 DEF Exists
<1>7. QED
  BY <1>1, <1>2, <1>3, <1>4, <1>5, <1>6 DEF Exists, WriteCache, Reprocess, BecomeReady,
     DeletePoints

LEMMA OnceMeanwhile ==
  ASSUME SourceInv, OnceInv,
         \/ \E e \in writing : WriteCache(e)
         \/ \E d \in Docs : Reprocess(d) \/ BecomeReady(d) \/ DeletePoints(d) \/ DeleteRow(d)
         \/ \E c \in Convs, S \in SUBSET Docs :
              \/ UpdateActiveDocuments(c, S)
              \/ \E d \in Docs : CreateConversation(c, d, S)
  PROVE  OnceInv'
<1>1. TypeInv /\ RowInv /\ OneAnswer /\ AnswerIsLast /\ ClientInv
  BY DEF SourceInv, OnceInv
<1>2. RunTypes /\ DocTypes /\ ClockTypes /\ PlaceInv
  BY <1>1, TypeParts
<1>3. UNCHANGED <<at, target, scope, client>>
  BY DEF WriteCache, Reprocess, BecomeReady, DeletePoints, DeleteRow, UpdateActiveDocuments,
         CreateConversation, sameAnswering, runVars
<1>5. \A q \in Requests : at[q] # "idle" /\ Exists(target[q])' => Exists(target[q])
  BY <1>1, GoneForGood
<1>6. ASSUME NEW q \in Requests,
             at[q] # "idle" /\ Exists(target[q])' =>
               \A m \in messages : m.turn = q /\ m.role = "assistant" =>
                 \E n \in messages' : n.turn = q /\ n.role = "assistant"
      PROVE  ClientOf(q)'
  <2>1. ClientOf(q)
    BY <1>1 DEF ClientInv
  <2>2. QED
    BY <1>3, <1>5, <1>6, <2>1 DEF ClientOf
<1>7. CASE UNCHANGED messages
  <2>1. OneAnswer' /\ AnswerIsLast'
    BY <1>1, <1>3, <1>7 DEF OneAnswer, AnswerIsLast
  <2>2. QED
    BY <1>6, <1>7, <2>1 DEF OnceInv, ClientInv
<1>8. ASSUME NEW d \in Docs, DeleteRow(d)
      PROVE  OnceInv'
  <2> DEFINE gone == {c \in Convs : conv[c].primary = d}
             left(m) == [m EXCEPT !.cites = Keep(@, Docs \ {d})]
  <2>1. ASSUME NEW m \in messages
        PROVE  /\ left(m).turn = m.turn /\ left(m).role = m.role
               /\ m.turn \in Requests /\ m.conv = target[m.turn]
    <3>1. m \in Rows(clock) /\ SourceOf(m)
      BY <1>1, <1>2 DEF ClockTypes, RowInv
    <3>2. QED
      BY <3>1 DEF Rows, SourceOf
  <2>2. messages' = {left(m) : m \in {k \in messages : k.conv \notin gone}}
    BY <1>8 DEF DeleteRow
  <2> HIDE DEF left
  <2>3. ASSUME NEW n \in messages'
        PROVE  \E m \in messages : n = left(m)
    BY <2>2
  <2>4. OneAnswer'
    BY <1>1, <2>1, <2>3 DEF OneAnswer
  <2>5. AnswerIsLast'
    BY <1>1, <1>3, <2>1, <2>3 DEF AnswerIsLast
  <2>6. ASSUME NEW q \in Requests, at[q] # "idle", Exists(target[q])'
        PROVE  target[q] \notin gone
    BY <1>2, <1>3, <1>8, <2>6 DEF DeleteRow, PlaceInv, Exists, NoConv
  <2> HIDE DEF gone
  <2>7. ASSUME NEW q \in Requests
        PROVE  ClientOf(q)'
    <3>1. ASSUME at[q] # "idle", Exists(target[q])', NEW m \in messages, m.turn = q, m.role = "assistant"
          PROVE  \E n \in messages' : n.turn = q /\ n.role = "assistant"
      <4>1. left(m) \in messages'
        BY <2>1, <2>2, <2>6, <3>1
      <4>2. QED
        BY <2>1, <3>1, <4>1
    <3>2. QED
      BY <1>6, <3>1
  <2>8. QED
    BY <2>4, <2>5, <2>7 DEF OnceInv, ClientInv
<1>9. QED
  BY <1>7, <1>8 DEF WriteCache, Reprocess, BecomeReady, DeletePoints, UpdateActiveDocuments,
                    CreateConversation

LEMMA OnceInit == Init => OnceInv
  BY DEF Init, OnceInv, OneAnswer, AnswerIsLast, ClientInv, ClientOf

LEMMA OnceStep == SourceInv /\ OnceInv /\ [Next]_vars => OnceInv'
<1> SUFFICES ASSUME SourceInv, OnceInv, [Next]_vars
             PROVE  OnceInv'
  OBVIOUS
<1>1. ASSUME NEW r \in Requests, Answer(r) \/ Interrupt(r)
      PROVE  OnceInv'
  BY <1>1, OnceAnswer
<1>2. ASSUME \/ \E e \in writing : WriteCache(e)
             \/ \E d \in Docs : Reprocess(d) \/ BecomeReady(d) \/ DeletePoints(d) \/ DeleteRow(d)
             \/ \E c \in Convs, S \in SUBSET Docs :
                  \/ UpdateActiveDocuments(c, S)
                  \/ \E d \in Docs : CreateConversation(c, d, S)
      PROVE  OnceInv'
  BY <1>2, OnceMeanwhile
<1>3. CASE UNCHANGED vars
  BY <1>3 DEF vars, OnceInv, OneAnswer, AnswerIsLast, ClientInv, ClientOf, Exists
<1>4. QED
  BY <1>1, <1>2, <1>3 DEF Next

LEMMA OnceAlways == Spec => []OnceInv
<1>1. Init => OnceInv
  BY OnceInit
<1>2. SourceInv /\ OnceInv /\ [Next]_vars => OnceInv'
  BY OnceStep
<1>3. QED
  BY <1>1, <1>2, SourceAlways, PTL DEF Spec

LEMMA OnceImplies == OnceInv => AnsweredOnce
  BY DEF OnceInv, OneAnswer, ClientInv, ClientOf, Answers, AnsweredOnce

\* A question has at most one answer row, and one that was reported done is
\* there as long as its conversation (AnswerPipeline.answer and its returns).
THEOREM AnsweredAtMostOnce == Spec => []AnsweredOnce
  BY OnceAlways, OnceImplies, PTL

-----------------------------------------------------------------------------
(***************************************************************************)
(* Questions asked one at a time: the order of rows.                       *)
(***************************************************************************)
\* What the types say of the times of rows.
LEMMA RowTimes ==
  ASSUME TypeInv
  PROVE  /\ clock \in Nat /\ begun \in [Requests -> 0 .. clock]
         /\ \A m \in messages : /\ m.created \in 1 .. clock /\ m.turn \in Requests
                                /\ m.conv \in Convs /\ m.role \in {"user", "assistant"}
         /\ at \in [Requests -> Places]
  BY TypeParts DEF ClockTypes, Rows, RunTypes

\* A step of a running request that stores nothing.
LEMMA OrderMoves ==
  ASSUME SourceInv, OrderInv, NEW r \in Requests, Running(r),
         \A q \in Requests \ {r} : at'[q] = at[q] /\ begun'[q] = begun[q],
         at'[r] # "idle", UNCHANGED <<target, messages>>,
         \/ begun'[r] = begun[r] /\ at'[r] # "ended"
         \/ begun'[r] = clock + 1 /\ at'[r] # "ended"
         \/ begun'[r] = 0
  PROVE  OrderInv'
<1>1. TypeInv
  BY DEF SourceInv
<1>2. Alone'
  BY DEF OrderInv, Alone, Running
<1>3. BegunLater'
  <2>1. ASSUME NEW q \in Requests, begun'[q] # 0, NEW m \in messages, m.conv = target[q]
        PROVE  m.created < begun'[q]
    <3>1. CASE begun'[q] = begun[q]
      BY <2>1, <3>1 DEF OrderInv, BegunLater
    <3>2. CASE begun'[q] = clock + 1
      BY <1>1, <2>1, <3>2, RowTimes
    <3>3. QED
      BY <2>1, <3>1, <3>2
  <2>2. \A q \in Requests : ~Running(q)' => begun'[q] = 0
    BY DEF OrderInv, BegunLater, Running
  <2>3. QED
    BY <2>1, <2>2 DEF BegunLater
<1>4. RunsLast'
  BY DEF OrderInv, RunsLast, Running
<1>5. Together'
  BY DEF OrderInv, Together, Before
<1>6. QED
  BY <1>2, <1>3, <1>4, <1>5 DEF OrderInv

\* A running request stores a row and commits.
LEMMA OrderStores ==
  ASSUME SourceInv, OrderInv, NEW r \in Requests, Running(r),
         \A q \in Requests \ {r} : at'[q] = at[q] /\ begun'[q] = begun[q],
         begun'[r] = 0, UNCHANGED target, NEW x, messages' = messages \cup {x},
         x.turn = r, x.conv = target[r], x.created = Dated(r)
  PROVE  OrderInv'
<1>1. TypeInv /\ RowInv
  BY DEF SourceInv
<1>2. \A m \in messages : m.conv = target[r] => m.created < x.created
  <2>1. CASE begun[r] = 0
    BY <1>1, <2>1, RowTimes DEF Dated
  <2>2. CASE begun[r] # 0
    BY <2>2 DEF Dated, OrderInv, BegunLater
  <2>3. QED
    BY <2>1, <2>2
<1>3. x.created \in Nat /\ \A m \in messages : m.created \in Nat
  BY <1>1, RowTimes DEF Dated
<1>4. \A q \in Requests \ {r} : Running(q) => target[q] # target[r]
  BY DEF OrderInv, Alone
<1>5. \A m \in messages : m.conv = target[m.turn] /\ m.turn \in Requests
  BY <1>1, RowTimes DEF RowInv, SourceOf
<1>6. \A q \in Requests \ {r} : Running(q)' <=> Running(q)
  BY DEF Running
<1>7. Alone'
  BY <1>6 DEF OrderInv, Alone
<1>8. BegunLater'
  <2>1. ASSUME NEW q \in Requests, q # r
        PROVE  /\ ~Running(q)' => begun'[q] = 0
               /\ begun'[q] # 0 => \A m \in messages' : m.conv = target'[q] => m.created < begun'[q]
    BY <1>4, <1>6, <2>1 DEF OrderInv, BegunLater
  <2>2. QED
    BY <2>1 DEF BegunLater
<1>9. RunsLast'
  <2>1. ASSUME NEW q \in Requests, Running(q)', NEW m \in messages', NEW k \in messages',
               m.conv = target'[q], m.turn # q, k.turn = q
        PROVE  m.created < k.created
    <3>1. CASE q = r
      <4>1. m \in messages
        BY <2>1, <3>1
      <4>2. CASE k = x
        BY <1>2, <2>1, <3>1, <4>1, <4>2
      <4>3. CASE k # x
        BY <2>1, <3>1, <4>1, <4>3 DEF OrderInv, RunsLast
      <4>4. QED
        BY <4>2, <4>3
    <3>2. CASE q # r
      <4>1. m # x /\ k # x /\ Running(q)
        BY <1>4, <1>6, <2>1, <3>2
      <4>2. QED
        BY <2>1, <4>1 DEF OrderInv, RunsLast
    <3>3. QED
      BY <3>1, <3>2
  <2>2. QED
    BY <2>1 DEF RunsLast
<1>10. Together'
  <2>1. ASSUME NEW m \in messages', NEW n \in messages', NEW k \in messages',
               m.conv = n.conv, m.turn # n.turn
        PROVE  /\ m.created # n.created
               /\ k.turn = n.turn /\ m.created < n.created => m.created < k.created
    <3>1. CASE m = x
      <4>1. n \in messages /\ n.created < m.created
        BY <1>2, <2>1, <3>1
      <4>2. QED
        BY <1>3, <3>1, <4>1
    <3>2. CASE m # x /\ n = x
      <4>1. m \in messages /\ m.created < n.created
        BY <1>2, <2>1, <3>2
      <4>2. CASE k = x
        BY <1>3, <3>2, <4>1, <4>2
      <4>3. ASSUME k # x, k.turn = n.turn
            PROVE  m.created < k.created
        BY <2>1, <3>2, <4>1, <4>3 DEF OrderInv, RunsLast
      <4>4. QED
        BY <1>3, <3>2, <4>1, <4>2, <4>3
    <3>3. CASE m # x /\ n # x /\ k = x
      <4>1. k.turn = n.turn => m.created < k.created
        BY <1>2, <1>5, <2>1, <3>3
      <4>2. QED
        BY <2>1, <3>3, <4>1 DEF OrderInv, Together
    <3>4. CASE m # x /\ n # x /\ k # x
      BY <2>1, <3>4 DEF OrderInv, Together, Before
    <3>5. QED
      BY <3>1, <3>2, <3>3, <3>4
  <2>2. QED
    BY <2>1 DEF Together, Before
<1>11. QED
  BY <1>7, <1>8, <1>9, <1>10 DEF OrderInv

LEMMA OrderAsk ==
  ASSUME SourceInv, OrderInv, OneAtATime, NEW r \in Requests, NEW c \in Convs, Ask(r, c)
  PROVE  OrderInv'
<1>1. TypeInv /\ RowInv
  BY DEF SourceInv
<1>2. RunTypes
  BY <1>1, TypeParts
<1>3. /\ \A q \in Requests : target[q] = c => ~Running(q)
      /\ at[r] = "idle" /\ at' = [at EXCEPT ![r] = "question"]
      /\ target' = [target EXCEPT ![r] = c] /\ UNCHANGED messages
      /\ Begins(r)
  BY DEF Ask, Go
<1>4. begun[r] = 0
  BY <1>3 DEF OrderInv, BegunLater, Running
<1>5. begun' = [begun EXCEPT ![r] = clock + 1]
  BY <1>3, <1>4 DEF Begins
<1>6. begun'[r] = clock + 1 /\ at'[r] = "question" /\ target'[r] = c
  BY <1>1, <1>2, <1>3, <1>5, RowTimes DEF RunTypes
<1>7. \A q \in Requests \ {r} : at'[q] = at[q] /\ begun'[q] = begun[q] /\ target'[q] = target[q]
  BY <1>1, <1>2, <1>3, <1>5, RowTimes DEF RunTypes
<1>8. \A m \in messages : m.turn # r
  BY <1>1, <1>3 DEF RowInv, SourceOf
<1>9. Alone'
  BY <1>3, <1>6, <1>7 DEF OrderInv, Alone, Running
<1>10. BegunLater'
  <2>1. \A m \in messages : m.created < clock + 1
    BY <1>1, RowTimes
  <2>2. QED
    BY <1>3, <1>6, <1>7, <2>1 DEF OrderInv, BegunLater, Running
<1>11. RunsLast'
  <2>1. ASSUME NEW q \in Requests, Running(q)', NEW m \in messages, NEW k \in messages,
               m.conv = target'[q], m.turn # q, k.turn = q
        PROVE  m.created < k.created
    <3>1. q # r
      BY <1>8, <2>1
    <3>2. Running(q) /\ target'[q] = target[q]
      BY <1>7, <2>1, <3>1 DEF Running
    <3>3. QED
      BY <2>1, <3>2 DEF OrderInv, RunsLast
  <2>2. QED
    BY <1>3, <2>1 DEF RunsLast
<1>12. Together'
  BY <1>3 DEF OrderInv, Together, Before
<1>13. QED
  BY <1>9, <1>10, <1>11, <1>12 DEF OrderInv

\* What the steps of a running request do to its place and its transaction.
LEMMA OrderAnswer ==
  ASSUME SourceInv, OrderInv, OneAtATime, NEW r \in Requests, Answer(r) \/ Interrupt(r)
  PROVE  OrderInv'
<1>1. TypeInv
  BY DEF SourceInv
<1>2. /\ clock \in Nat /\ begun \in [Requests -> 0 .. clock]
      /\ at \in [Requests -> Places]
  BY <1>1, RowTimes
<1>3. CASE \E c \in Convs : Ask(r, c)
  BY <1>3, OrderAsk
<1>4. CASE ~\E c \in Convs : Ask(r, c)
  <2>1. Running(r)
    BY <1>4 DEF Answer, StoreQuestion, LookupCache, VerifyInQdrant, Hydrate, StoreCached, Retrieve,
                Abstain, StreamAnswer, StoreAnswer, StoreFailure, Finish, Interrupt, Go, Running
  <2>2. UNCHANGED target
    BY <1>4 DEF Answer, StoreQuestion, LookupCache, VerifyInQdrant, Hydrate, StoreCached, Retrieve,
                Abstain, StreamAnswer, StoreAnswer, StoreFailure, Finish, Interrupt, runVars
  <2>3. ASSUME LookupCache(r) \/ VerifyInQdrant(r) \/ StreamAnswer(r) \/ Hydrate(r) \/ Retrieve(r)
        PROVE  OrderInv'
    <3>1. UNCHANGED begun \/ Begins(r)
      BY <2>3 DEF LookupCache, VerifyInQdrant, StreamAnswer, Hydrate, Retrieve
    <3>2. /\ \A q \in Requests \ {r} : begun'[q] = begun[q]
          /\ begun'[r] = begun[r] \/ begun'[r] = clock + 1
      BY <1>2, <3>1 DEF Begins
    <3>3. /\ UNCHANGED messages /\ at'[r] \notin {"idle", "ended"}
          /\ \A q \in Requests \ {r} : at'[q] = at[q]
      BY <1>2, <2>3 DEF LookupCache, VerifyInQdrant, StreamAnswer, Hydrate, Retrieve, Go
    <3>4. QED
      BY <2>1, <2>2, <3>2, <3>3, OrderMoves
  <2>4. ASSUME UNCHANGED messages, End(r)
        PROVE  OrderInv'
    <3>1. /\ at' = [at EXCEPT ![r] = "ended"] /\ begun' = [begun EXCEPT ![r] = 0]
      BY <2>4 DEF End
    <3>2. QED
      BY <1>2, <2>1, <2>2, <2>4, <3>1, OrderMoves
  <2>5. ASSUME NEW role, NEW kind, NEW y,
               messages' = messages \cup {Row(r, role, kind, y)},
               End(r) \/ (Commits(r) /\ \E from, to \in Places : Go(r, from, to))
        PROVE  OrderInv'
    <3> DEFINE x == Row(r, role, kind, y)
    <3>1. x.turn = r /\ x.conv = target[r] /\ x.created = Dated(r)
      BY DEF Row
    <3> HIDE DEF x
    <3>2. begun' = [begun EXCEPT ![r] = 0] /\ \A q \in Requests \ {r} : at'[q] = at[q]
      BY <1>2, <2>5 DEF End, Commits, Go
    <3>3. messages' = messages \cup {x}
      BY <2>5 DEF x
    <3>4. QED
      BY <1>2, <2>1, <2>2, <3>1, <3>2, <3>3, OrderStores
  <2>6. CASE StoreQuestion(r)
    <3>1. CASE Insertable(r, << >>)
      BY <2>5, <2>6, <3>1 DEF StoreQuestion, Places
    <3>2. CASE ~Insertable(r, << >>)
      BY <2>4, <2>6, <3>2 DEF StoreQuestion
    <3>3. QED
      BY <3>1, <3>2
  <2>7. CASE StoreCached(r) \/ StoreAnswer(r)
    <3>1. CASE /\ messages' = messages \cup {Row(r, "assistant", "answer", draft[r])}
               /\ Commits(r) /\ \E from \in {"storeCached", "storeAnswer"} : Go(r, from, "finish")
      <4>1. \E from, to \in Places : Go(r, from, to)
        BY <3>1 DEF Places
      <4>2. QED
        BY <2>5, <3>1, <4>1
    <3>2. CASE UNCHANGED messages /\ End(r)
      BY <2>4, <3>2
    <3>3. QED
      BY <2>7, <3>1, <3>2, StoreCases
  <2>8. CASE Abstain(r)
    <3>1. CASE Exists(target[r])
      <4>1. /\ messages' = messages \cup {Row(r, "assistant", "abstention", NoDraft)}
            /\ Commits(r) /\ \E from, to \in Places : Go(r, from, to)
        BY <2>8, <3>1 DEF Abstain, Places
      <4>2. QED
        BY <2>5, <4>1
    <3>2. CASE ~Exists(target[r])
      BY <2>4, <2>8, <3>2 DEF Abstain
    <3>3. QED
      BY <3>1, <3>2
  <2>9. CASE StoreFailure(r)
    <3>1. /\ End(r)
          /\ \/ UNCHANGED messages
             \/ messages' = messages \cup {Row(r, "assistant", "failed", NoDraft)}
      BY <2>9 DEF StoreFailure
    <3>2. QED
      BY <2>4, <2>5, <3>1
  <2>10. CASE Finish(r) \/ Interrupt(r)
    BY <2>4, <2>10 DEF Finish, Interrupt
  <2>11. QED
    BY <1>4, <2>3, <2>6, <2>7, <2>8, <2>9, <2>10 DEF Answer
<1>5. QED
  BY <1>3, <1>4

\* What a delete leaves of a row.
Alike(m, n) == /\ m.conv = n.conv /\ m.turn = n.turn /\ m.role = n.role /\ m.kind = n.kind
               /\ m.created = n.created

\* What the steps of documents, conversations and the cache leave of rows.
LEMMA RowsMeanwhile ==
  ASSUME SourceInv,
         \/ \E e \in writing : WriteCache(e)
         \/ \E d \in Docs : Reprocess(d) \/ BecomeReady(d) \/ DeletePoints(d) \/ DeleteRow(d)
         \/ \E c \in Convs, S \in SUBSET Docs :
              \/ UpdateActiveDocuments(c, S)
              \/ \E d \in Docs : CreateConversation(c, d, S)
  PROVE  /\ UNCHANGED <<at, target, begun>>
         /\ \A n \in messages' : \E m \in messages : Alike(m, n)
         /\ \A m \in messages :
              Exists(m.conv)' \/ (\E k \in messages' : k.conv = m.conv) =>
                \E n \in messages' : Alike(m, n)
         /\ \A q \in Requests : at[q] # "idle" /\ Exists(target[q])' => Exists(target[q])
<1>1. TypeInv
  BY DEF SourceInv
<1>2. RunTypes /\ DocTypes /\ ClockTypes /\ PlaceInv
  BY <1>1, TypeParts
<1>3. UNCHANGED <<at, target, begun>>
  BY DEF WriteCache, Reprocess, BecomeReady, DeletePoints, DeleteRow, UpdateActiveDocuments,
         CreateConversation, sameAnswering, runVars
<1>4. \A q \in Requests : at[q] # "idle" /\ Exists(target[q])' => Exists(target[q])
  BY <1>1, GoneForGood
<1>5. CASE UNCHANGED messages
  BY <1>3, <1>4, <1>5 DEF Alike
<1>6. ASSUME NEW d \in Docs, DeleteRow(d)
      PROVE  /\ \A n \in messages' : \E m \in messages : Alike(m, n)
             /\ \A m \in messages :
                  Exists(m.conv)' \/ (\E k \in messages' : k.conv = m.conv) =>
                    \E n \in messages' : Alike(m, n)
  <2> DEFINE gone == {c \in Convs : conv[c].primary = d}
             left(m) == [m EXCEPT !.cites = Keep(@, Docs \ {d})]
  <2>1. ASSUME NEW m \in messages
        PROVE  Alike(m, left(m)) /\ m.conv \in Convs
    <3>1. m \in Rows(clock)
      BY <1>2 DEF ClockTypes
    <3>2. QED
      BY <3>1 DEF Rows, Alike
  <2>2. messages' = {left(m) : m \in {k \in messages : k.conv \notin gone}}
    BY <1>6 DEF DeleteRow
  <2>3. \A c \in Convs : Exists(c)' => c \notin gone
    BY <1>6 DEF DeleteRow, Exists, NoConv
  <2> HIDE DEF left, gone
  <2>4. ASSUME NEW n \in messages'
        PROVE  \E m \in messages : Alike(m, n) /\ n.conv \notin gone
    <3>1. PICK m \in messages : n = left(m) /\ m.conv \notin gone
      BY <2>2
    <3>2. QED
      BY <2>1, <3>1 DEF Alike
  <2>5. ASSUME NEW m \in messages, m.conv \notin gone
        PROVE  \E n \in messages' : Alike(m, n)
    <3>1. left(m) \in messages'
      BY <2>2, <2>5
    <3>2. QED
      BY <2>1, <3>1
  <2>6. ASSUME NEW m \in messages,
               Exists(m.conv)' \/ (\E k \in messages' : k.conv = m.conv)
        PROVE  m.conv \notin gone
    BY <2>1, <2>3, <2>4, <2>6
  <2>7. QED
    BY <2>4, <2>5, <2>6
<1>7. QED
  BY <1>3, <1>4, <1>5, <1>6 DEF WriteCache, Reprocess, BecomeReady, DeletePoints,
     UpdateActiveDocuments, CreateConversation

LEMMA OrderMeanwhile ==
  ASSUME SourceInv, OrderInv,
         \/ \E e \in writing : WriteCache(e)
         \/ \E d \in Docs : Reprocess(d) \/ BecomeReady(d) \/ DeletePoints(d) \/ DeleteRow(d)
         \/ \E c \in Convs, S \in SUBSET Docs :
              \/ UpdateActiveDocuments(c, S)
              \/ \E d \in Docs : CreateConversation(c, d, S)
  PROVE  OrderInv'
<1>1. /\ UNCHANGED <<at, target, begun>>
      /\ \A n \in messages' : \E m \in messages : Alike(m, n)
  BY RowsMeanwhile
<1>2. Alone'
  BY <1>1 DEF OrderInv, Alone, Running
<1>3. BegunLater'
  BY <1>1 DEF OrderInv, BegunLater, Running, Alike
<1>4. RunsLast'
  BY <1>1 DEF OrderInv, RunsLast, Running, Alike
<1>5. Together'
  <2>1. ASSUME NEW m \in messages', NEW n \in messages', NEW k \in messages',
               m.conv = n.conv, m.turn # n.turn
        PROVE  m.created # n.created /\ (k.turn = n.turn /\ m.created < n.created => m.created < k.created)
    <3>1. PICK mm \in messages, nn \in messages, kk \in messages :
            Alike(mm, m) /\ Alike(nn, n) /\ Alike(kk, k)
      BY <1>1
    <3>2. QED
      BY <2>1, <3>1 DEF OrderInv, Together, Before, Alike
  <2>2. QED
    BY <2>1 DEF Together, Before
<1>6. QED
  BY <1>2, <1>3, <1>4, <1>5 DEF OrderInv

LEMMA OrderInit == Init => OrderInv
  BY DEF Init, OrderInv, Alone, BegunLater, RunsLast, Together, Running

LEMMA OrderStep ==
  ASSUME OneAtATime
  PROVE  SourceInv /\ OrderInv /\ [Next]_vars => OrderInv'
<1> SUFFICES ASSUME SourceInv, OrderInv, [Next]_vars
             PROVE  OrderInv'
  OBVIOUS
<1>1. ASSUME NEW r \in Requests, Answer(r) \/ Interrupt(r)
      PROVE  OrderInv'
  BY <1>1, OrderAnswer
<1>2. ASSUME \/ \E e \in writing : WriteCache(e)
             \/ \E d \in Docs : Reprocess(d) \/ BecomeReady(d) \/ DeletePoints(d) \/ DeleteRow(d)
             \/ \E c \in Convs, S \in SUBSET Docs :
                  \/ UpdateActiveDocuments(c, S)
                  \/ \E d \in Docs : CreateConversation(c, d, S)
      PROVE  OrderInv'
  BY <1>2, OrderMeanwhile
<1>3. CASE UNCHANGED vars
  BY <1>3 DEF vars, OrderInv, Alone, BegunLater, RunsLast, Together, Running, Before
<1>4. QED
  BY <1>1, <1>2, <1>3 DEF Next

LEMMA OrderAlways ==
  ASSUME OneAtATime
  PROVE  Spec => []OrderInv
<1>1. Init => OrderInv
  BY OrderInit
<1>2. SourceInv /\ OrderInv /\ [Next]_vars => OrderInv'
  BY OrderStep
<1>3. QED
  BY <1>1, <1>2, SourceAlways, PTL DEF Spec

-----------------------------------------------------------------------------
(***************************************************************************)
(* The question of every answer.                                           *)
(***************************************************************************)
\* A step of a running request that stores nothing, or an answer of its own.
LEMMA QuestionMoves ==
  ASSUME SourceInv, OrderInv, QuestionInv, NEW r \in Requests, Running(r),
         \A q \in Requests \ {r} : at'[q] = at[q],
         at'[r] \notin {"idle", "question"}, at[r] = "question" => at'[r] = "ended",
         UNCHANGED <<target, conv>>,
         \/ UNCHANGED messages
         \/ /\ at[r] # "question" /\ Exists(target[r])
            /\ \E x : /\ messages' = messages \cup {x}
                      /\ x.turn = r /\ x.role = "assistant" /\ x.created = Dated(r)
  PROVE  QuestionInv'
<1>1. TypeInv /\ RowInv
  BY DEF SourceInv
<1>2. messages \subseteq messages' /\ \A x \in messages' : x \in messages \/ (x.role = "assistant" /\ x.turn = r)
  OBVIOUS
<1>3. QuestionIsThere'
  <2>1. ASSUME NEW q \in Requests, at'[q] \notin {"idle", "question", "ended"}, Exists(target[q])'
        PROVE  \E m \in messages' : m.turn = q /\ m.role = "user"
    <3>1. at[q] \notin {"idle", "question", "ended"} /\ Exists(target[q])
      BY <2>1 DEF Running, Exists
    <3>2. QED
      BY <1>2, <3>1 DEF QuestionInv, QuestionIsThere
  <2>2. QED
    BY <2>1 DEF QuestionIsThere
<1>4. QuestionRows'
  <2>1. \A m \in messages : m.turn \in Requests
    BY <1>1, RowTimes
  <2>2. QED
    BY <1>2, <2>1 DEF QuestionInv, QuestionRows
<1>5. CASE UNCHANGED messages
  <2>1. QuestionFirst'
    BY <1>5 DEF QuestionInv, QuestionFirst, Before
  <2>2. QED
    BY <1>3, <1>4, <2>1 DEF QuestionInv
<1>6. ASSUME at[r] # "question", Exists(target[r]), NEW x, messages' = messages \cup {x},
             x.turn = r, x.role = "assistant", x.created = Dated(r)
      PROVE  QuestionInv'
  <2>1. \E q \in messages : q.turn = r /\ q.role = "user"
    BY <1>6 DEF QuestionInv, QuestionIsThere, Running
  <2>2. ASSUME NEW q \in messages, q.turn = r
        PROVE  q.created < x.created
    <3>1. q.conv = target[r]
      BY <1>1, <2>2 DEF RowInv, SourceOf
    <3>2. CASE begun[r] = 0
      BY <1>1, <1>6, <3>2, RowTimes DEF Dated
    <3>3. CASE begun[r] # 0
      BY <1>6, <3>1, <3>3 DEF Dated, OrderInv, BegunLater
    <3>4. QED
      BY <3>2, <3>3
  <2>3. ASSUME NEW a \in messages', a.role = "assistant"
        PROVE  /\ \E q \in messages' : q.turn = a.turn /\ q.role = "user"
               /\ \A q \in messages' : q.turn = a.turn /\ q.role = "user" => q.created < a.created
    <3>1. CASE a = x
      BY <1>6, <2>1, <2>2, <3>1
    <3>2. CASE a \in messages
      BY <1>6, <2>3, <3>2 DEF QuestionInv, QuestionFirst, Before
    <3>3. QED
      BY <1>6, <3>1, <3>2
  <2>4. QuestionFirst'
    BY <2>3 DEF QuestionFirst, Before
  <2>5. QED
    BY <1>3, <1>4, <2>4 DEF QuestionInv
<1>7. QED
  BY <1>5, <1>6

LEMMA QuestionAnswer ==
  ASSUME SourceInv, OrderInv, QuestionInv, NEW r \in Requests, Answer(r) \/ Interrupt(r)
  PROVE  QuestionInv'
<1>1. TypeInv /\ RowInv
  BY DEF SourceInv
<1>2. at \in [Requests -> Places] /\ target \in [Requests -> Convs \cup {None}]
  BY <1>1, TypeParts DEF RunTypes
<1>3. UNCHANGED conv
  BY DEF Answer, Ask, StoreQuestion, LookupCache, VerifyInQdrant, Hydrate, StoreCached, Retrieve,
         Abstain, StreamAnswer, StoreAnswer, StoreFailure, Finish, Interrupt, docVars
<1>4. ASSUME NEW c \in Convs, Ask(r, c)
      PROVE  QuestionInv'
  <2>1. /\ at[r] = "idle" /\ at' = [at EXCEPT ![r] = "question"]
        /\ target' = [target EXCEPT ![r] = c] /\ UNCHANGED messages
    BY <1>4 DEF Ask, Go
  <2>2. at'[r] = "question" /\ \A q \in Requests \ {r} : at'[q] = at[q] /\ target'[q] = target[q]
    BY <1>2, <2>1
  <2>3. \A m \in messages : m.turn # r /\ m.turn \in Requests
    BY <1>1, <2>1, RowTimes DEF RowInv, SourceOf
  <2>4. QuestionIsThere'
    BY <1>3, <2>1, <2>2 DEF QuestionInv, QuestionIsThere, Exists
  <2>5. QuestionFirst'
    BY <2>1 DEF QuestionInv, QuestionFirst, Before
  <2>6. QuestionRows'
    BY <2>1, <2>2, <2>3 DEF QuestionInv, QuestionRows
  <2>7. QED
    BY <2>4, <2>5, <2>6 DEF QuestionInv
<1>5. CASE ~\E c \in Convs : Ask(r, c)
  <2>1. Running(r)
    BY <1>5 DEF Answer, StoreQuestion, LookupCache, VerifyInQdrant, Hydrate, StoreCached, Retrieve,
                Abstain, StreamAnswer, StoreAnswer, StoreFailure, Finish, Interrupt, Go, Running
  <2>2. UNCHANGED target
    BY <1>5 DEF Answer, StoreQuestion, LookupCache, VerifyInQdrant, Hydrate, StoreCached, Retrieve,
                Abstain, StreamAnswer, StoreAnswer, StoreFailure, Finish, Interrupt, runVars
  <2>3. ASSUME UNCHANGED messages, End(r)
        PROVE  QuestionInv'
    <3>1. at' = [at EXCEPT ![r] = "ended"]
      BY <2>3 DEF End
    <3>2. QED
      BY <1>2, <1>3, <2>1, <2>2, <2>3, <3>1, QuestionMoves
  <2>4. ASSUME NEW role, NEW kind, NEW y,
               messages' = messages \cup {Row(r, role, kind, y)}, role = "assistant",
               Exists(target[r]), at[r] # "question",
               End(r) \/ \E from, to \in {"storeCached", "storeAnswer", "abstain", "finish"} : Go(r, from, to)
        PROVE  QuestionInv'
    <3> DEFINE x == Row(r, role, kind, y)
    <3>1. x.turn = r /\ x.role = "assistant" /\ x.created = Dated(r)
      BY <2>4 DEF Row
    <3> HIDE DEF x
    <3>2. messages' = messages \cup {x}
      BY <2>4 DEF x
    <3>3. at'[r] \notin {"idle", "question"} /\ \A q \in Requests \ {r} : at'[q] = at[q]
      BY <1>2, <2>4 DEF End, Go
    <3>4. QED
      BY <1>3, <2>1, <2>2, <2>4, <3>1, <3>2, <3>3, QuestionMoves
  <2>5. CASE LookupCache(r) \/ VerifyInQdrant(r) \/ StreamAnswer(r) \/ Hydrate(r) \/ Retrieve(r)
    <3>1. /\ UNCHANGED messages /\ at'[r] \notin {"idle", "question"} /\ at[r] # "question"
          /\ \A q \in Requests \ {r} : at'[q] = at[q]
      BY <1>2, <2>5 DEF LookupCache, VerifyInQdrant, StreamAnswer, Hydrate, Retrieve, Go
    <3>2. QED
      BY <1>3, <2>1, <2>2, <3>1, QuestionMoves
  <2>6. CASE StoreQuestion(r) /\ Insertable(r, << >>)
    <3> DEFINE x == Row(r, "user", "question", NoDraft)
    <3>1. x.turn = r /\ x.role = "user" /\ x.kind = "question"
      BY DEF Row
    <3>2. messages' = messages \cup {x}
      BY <2>6 DEF StoreQuestion
    <3> HIDE DEF x
    <3>3. at[r] = "question" /\ at'[r] = "lookup" /\ \A q \in Requests \ {r} : at'[q] = at[q]
      BY <1>2, <2>6 DEF StoreQuestion, Go
    <3>4. \A m \in messages : m.turn # r /\ m.turn \in Requests
      BY <1>1, <3>3, RowTimes DEF QuestionInv, QuestionRows
    <3>5. QuestionIsThere'
      <4>1. ASSUME NEW q \in Requests, at'[q] \notin {"idle", "question", "ended"}, Exists(target[q])'
            PROVE  \E m \in messages' : m.turn = q /\ m.role = "user"
        <5>1. CASE q = r
          BY <3>1, <3>2, <5>1
        <5>2. CASE q # r
          BY <1>3, <2>2, <3>2, <3>3, <4>1, <5>2 DEF QuestionInv, QuestionIsThere, Exists
        <5>3. QED
          BY <5>1, <5>2
      <4>2. QED
        BY <4>1 DEF QuestionIsThere
    <3>6. QuestionFirst'
      <4>1. ASSUME NEW a \in messages', a.role = "assistant"
            PROVE  /\ \E q \in messages' : q.turn = a.turn /\ q.role = "user"
                   /\ \A q \in messages' : q.turn = a.turn /\ q.role = "user" => q.created < a.created
        BY <3>1, <3>2, <3>4, <4>1 DEF QuestionInv, QuestionFirst, Before
      <4>2. QED
        BY <4>1 DEF QuestionFirst, Before
    <3>7. QuestionRows'
      BY <3>1, <3>2, <3>3, <3>4 DEF QuestionInv, QuestionRows
    <3>8. QED
      BY <3>5, <3>6, <3>7 DEF QuestionInv
  <2>7. CASE StoreQuestion(r) /\ ~Insertable(r, << >>)
    BY <2>3, <2>7 DEF StoreQuestion
  <2>8. CASE StoreCached(r) \/ StoreAnswer(r)
    <3>1. CASE /\ messages' = messages \cup {Row(r, "assistant", "answer", draft[r])}
               /\ Insertable(r, draft[r].cites)
               /\ \E from \in {"storeCached", "storeAnswer"} : Go(r, from, "finish")
      <4>1. /\ \E from, to \in {"storeCached", "storeAnswer", "abstain", "finish"} : Go(r, from, to)
            /\ Exists(target[r]) /\ at[r] # "question"
        BY <3>1 DEF Insertable, Go
      <4>2. QED
        BY <2>4, <3>1, <4>1
    <3>2. CASE UNCHANGED messages /\ End(r)
      BY <2>3, <3>2
    <3>3. QED
      BY <2>8, <3>1, <3>2, StoreCases
  <2>9. CASE Abstain(r)
    <3>1. CASE Exists(target[r])
      <4>1. /\ messages' = messages \cup {Row(r, "assistant", "abstention", NoDraft)}
            /\ \E from, to \in {"storeCached", "storeAnswer", "abstain", "finish"} : Go(r, from, to)
            /\ at[r] # "question"
        BY <2>9, <3>1 DEF Abstain
      <4>2. QED
        BY <2>4, <3>1, <4>1
    <3>2. CASE ~Exists(target[r])
      BY <2>3, <2>9, <3>2 DEF Abstain
    <3>3. QED
      BY <3>1, <3>2
  <2>10. CASE StoreFailure(r)
    <3>1. /\ End(r) /\ at[r] # "question"
          /\ \/ UNCHANGED messages
             \/ /\ Exists(target[r])
                /\ messages' = messages \cup {Row(r, "assistant", "failed", NoDraft)}
      BY <2>10 DEF StoreFailure
    <3>2. QED
      BY <2>3, <2>4, <3>1
  <2>11. CASE Finish(r) \/ Interrupt(r)
    BY <2>3, <2>11 DEF Finish, Interrupt
  <2>12. QED
    BY <1>5, <2>5, <2>6, <2>7, <2>8, <2>9, <2>10, <2>11 DEF Answer
<1>6. QED
  BY <1>4, <1>5

LEMMA QuestionMeanwhile ==
  ASSUME SourceInv, QuestionInv,
         \/ \E e \in writing : WriteCache(e)
         \/ \E d \in Docs : Reprocess(d) \/ BecomeReady(d) \/ DeletePoints(d) \/ DeleteRow(d)
         \/ \E c \in Convs, S \in SUBSET Docs :
              \/ UpdateActiveDocuments(c, S)
              \/ \E d \in Docs : CreateConversation(c, d, S)
  PROVE  QuestionInv'
<1>1. /\ UNCHANGED <<at, target>>
      /\ \A n \in messages' : \E m \in messages : Alike(m, n)
      /\ \A m \in messages :
           Exists(m.conv)' \/ (\E k \in messages' : k.conv = m.conv) =>
             \E n \in messages' : Alike(m, n)
      /\ \A q \in Requests : at[q] # "idle" /\ Exists(target[q])' => Exists(target[q])
  BY RowsMeanwhile
<1>2. \A m \in messages : m.conv = target[m.turn]
  BY DEF SourceInv, RowInv, SourceOf
<1>3. QuestionIsThere'
  <2>1. ASSUME NEW q \in Requests, at[q] \notin {"idle", "question", "ended"}, Exists(target[q])'
        PROVE  \E m \in messages' : m.turn = q /\ m.role = "user"
    <3>1. PICK m \in messages : m.turn = q /\ m.role = "user"
      BY <1>1, <2>1 DEF QuestionInv, QuestionIsThere
    <3>2. Exists(m.conv)'
      BY <1>1, <1>2, <2>1, <3>1 DEF Exists
    <3>3. QED
      BY <1>1, <3>1, <3>2 DEF Alike
  <2>2. QED
    BY <1>1, <2>1 DEF QuestionIsThere
<1>4. QuestionFirst'
  <2>1. ASSUME NEW a \in messages', a.role = "assistant"
        PROVE  /\ \E q \in messages' : q.turn = a.turn /\ q.role = "user"
               /\ \A q \in messages' : q.turn = a.turn /\ q.role = "user" => q.created < a.created
    <3>1. PICK b \in messages : Alike(b, a)
      BY <1>1
    <3>2. PICK q \in messages : q.turn = b.turn /\ q.role = "user"
      BY <2>1, <3>1 DEF QuestionInv, QuestionFirst, Alike
    <3>3. q.conv = a.conv
      BY <1>2, <3>1, <3>2 DEF Alike
    <3>4. \E n \in messages' : Alike(q, n)
      BY <1>1, <3>3
    <3>5. \A n \in messages' : n.turn = a.turn /\ n.role = "user" => n.created < a.created
      BY <1>1, <2>1, <3>1 DEF QuestionInv, QuestionFirst, Before, Alike
    <3>6. QED
      BY <3>1, <3>2, <3>4, <3>5 DEF Alike
  <2>2. QED
    BY <2>1 DEF QuestionFirst, Before
<1>5. QuestionRows'
  BY <1>1 DEF QuestionInv, QuestionRows, Alike
<1>6. QED
  BY <1>3, <1>4, <1>5 DEF QuestionInv

LEMMA QuestionInit == Init => QuestionInv
  BY DEF Init, QuestionInv, QuestionIsThere, QuestionFirst, QuestionRows

LEMMA QuestionStep == SourceInv /\ OrderInv /\ QuestionInv /\ [Next]_vars => QuestionInv'
<1> SUFFICES ASSUME SourceInv, OrderInv, QuestionInv, [Next]_vars
             PROVE  QuestionInv'
  OBVIOUS
<1>1. ASSUME NEW r \in Requests, Answer(r) \/ Interrupt(r)
      PROVE  QuestionInv'
  BY <1>1, QuestionAnswer
<1>2. ASSUME \/ \E e \in writing : WriteCache(e)
             \/ \E d \in Docs : Reprocess(d) \/ BecomeReady(d) \/ DeletePoints(d) \/ DeleteRow(d)
             \/ \E c \in Convs, S \in SUBSET Docs :
                  \/ UpdateActiveDocuments(c, S)
                  \/ \E d \in Docs : CreateConversation(c, d, S)
      PROVE  QuestionInv'
  BY <1>2, QuestionMeanwhile
<1>3. CASE UNCHANGED vars
  BY <1>3 DEF vars, QuestionInv, QuestionIsThere, QuestionFirst, QuestionRows, Exists, Before
<1>4. QED
  BY <1>1, <1>2, <1>3 DEF Next

LEMMA QuestionAlways ==
  ASSUME OneAtATime
  PROVE  Spec => []QuestionInv
<1>1. Init => QuestionInv
  BY QuestionInit
<1>2. SourceInv /\ OrderInv /\ QuestionInv /\ [Next]_vars => QuestionInv'
  BY QuestionStep
<1>3. Spec => []OrderInv
  BY OrderAlways
<1>4. QED
  BY <1>1, <1>2, <1>3, SourceAlways, PTL DEF Spec

\* What the rows of a conversation are, for both properties below.
LEMMA RowFacts ==
  ASSUME SourceInv
  PROVE  \A m \in messages : /\ m.created \in Nat /\ m.turn \in Requests
                             /\ m.role \in {"user", "assistant"} /\ m.conv = target[m.turn]
  BY RowTimes DEF SourceInv, RowInv, SourceOf

LEMMA PairedImplies == SourceInv /\ OrderInv /\ QuestionInv => HistoryPaired
<1> SUFFICES ASSUME SourceInv, OrderInv, QuestionInv,
                    NEW c \in Convs, NEW h \in History(c)
             PROVE  h[1].turn = h[2].turn /\ h[2].kind # "failed"
  BY DEF HistoryPaired
<1> DEFINE kept == {m \in Of(c) : m.kind # "failed"}
           q == h[1]
           a == h[2]
<1>1. /\ q \in kept /\ a \in kept /\ q.role = "user" /\ a.role = "assistant" /\ Before(q, a)
      /\ ~\E m \in kept : Before(q, m) /\ Before(m, a)
  BY DEF History
<1> HIDE DEF q, a
<1>2. q \in messages /\ a \in messages /\ q.conv = c /\ a.conv = c /\ a.kind # "failed"
  BY <1>1 DEF Of
<1>3. PICK s \in messages : s.turn = a.turn /\ s.role = "user" /\ Before(s, a)
  BY <1>1, <1>2 DEF QuestionInv, QuestionFirst
<1>4. s \in kept
  BY <1>2, <1>3, RowFacts DEF QuestionInv, QuestionRows, Of
<1>5. q.turn # a.turn => Before(q, s)
  BY <1>1, <1>2, <1>3 DEF OrderInv, Together
<1>6. q.turn = a.turn
  BY <1>1, <1>3, <1>4, <1>5
<1>7. QED
  BY <1>2, <1>6 DEF q, a

LEMMA FlaggedImplies == SourceInv /\ OnceInv /\ OrderInv /\ QuestionInv => UnansweredIsFlagged
<1> SUFFICES ASSUME SourceInv, OnceInv, OrderInv, QuestionInv,
                    NEW c \in Convs, NEW q \in Of(c), LastQuestion(c, q)
             PROVE  NeedsRetry(c) <=> ~Answered(q)
  BY DEF UnansweredIsFlagged
<1>1. q \in messages /\ q.conv = c /\ q.role = "user"
  BY DEF Of, LastQuestion
<1>2. \A m \in messages : m.created \in Nat
  BY RowFacts
<1>3. ASSUME NEW m \in Of(c), m.role = "user"
      PROVE  m = q \/ Before(m, q)
  BY <1>3 DEF LastQuestion
\* Everything of other requests came before.
<1>4. ASSUME NEW m \in Of(c), m.turn # q.turn
      PROVE  Before(m, q)
  <2>1. m \in messages /\ m.conv = c
    BY DEF Of
  <2>2. CASE m.role = "user"
    BY <1>3, <1>4, <2>2
  <2>3. CASE m.role = "assistant"
    <3>1. PICK s \in messages : s.turn = m.turn /\ s.role = "user"
      BY <2>1, <2>3 DEF QuestionInv, QuestionFirst
    <3>2. s \in Of(c)
      BY <2>1, <3>1, RowFacts DEF Of
    <3>3. Before(s, q)
      BY <1>3, <1>4, <3>1, <3>2
    <3>4. q.created # m.created /\ (Before(q, m) => Before(q, s))
      BY <1>1, <1>4, <2>1, <3>1 DEF OrderInv, Together
    <3>5. QED
      BY <1>1, <1>2, <2>1, <3>1, <3>3, <3>4 DEF Before
  <2>4. QED
    BY <2>1, <2>2, <2>3, RowFacts
<1>5. CASE Answers(q.turn) = {}
  <2>1. ~Answered(q)
    BY <1>5 DEF Answered
  <2>2. \A k \in Of(c) : k = q \/ Before(k, q)
    BY <1>3, <1>4, <1>5, RowFacts DEF Answers, Of
  <2>3. QED
    BY <1>1, <2>1, <2>2 DEF NeedsRetry
<1>6. ASSUME NEW a \in Answers(q.turn)
      PROVE  NeedsRetry(c) <=> ~Answered(q)
  <2>1. /\ a \in messages /\ a.turn = q.turn /\ a.role = "assistant"
        /\ \A m \in Answers(q.turn) : m = a
    BY DEF Answers, OnceInv, OneAnswer
  <2>2. a \in Of(c) /\ Before(q, a)
    BY <1>1, <2>1, RowFacts DEF Of, QuestionInv, QuestionFirst
  <2>3. Answered(q) <=> a.kind # "failed"
    BY <2>1 DEF Answered
  <2>4. ASSUME NEW k \in Of(c)
        PROVE  k = a \/ Before(k, a)
    <3>1. k \in messages
      BY DEF Of
    <3>2. CASE k.role = "assistant" /\ k.turn = q.turn
      BY <2>1, <3>1, <3>2 DEF Answers
    <3>3. CASE k.role = "user" \/ k.turn # q.turn
      <4>1. k = q \/ Before(k, q)
        BY <1>3, <1>4, <3>3
      <4>2. QED
        BY <1>1, <1>2, <2>1, <2>2, <3>1, <4>1 DEF Before
    <3>4. QED
      BY <3>1, <3>2, <3>3, RowFacts
  <2>5. ASSUME NEW m \in Of(c), \A k \in Of(c) : k = m \/ Before(k, m)
        PROVE  m = a
    <3>1. m \in messages
      BY DEF Of
    <3>2. QED
      BY <1>2, <2>1, <2>2, <2>4, <2>5, <3>1 DEF Before
  <2>6. NeedsRetry(c) <=> a.kind = "failed"
    BY <2>1, <2>2, <2>4, <2>5 DEF NeedsRetry
  <2>7. QED
    BY <2>3, <2>6
<1>7. QED
  BY <1>5, <1>6

\* The history of a prompt pairs questions with their own answers, if they are
\* asked one at a time (_build_history over rows dated by their transactions).
THEOREM HistoryAlwaysPaired ==
  ASSUME OneAtATime
  PROVE  Spec => []HistoryPaired
<1>1. Spec => []OrderInv /\ []QuestionInv
  BY OrderAlways, QuestionAlways, PTL
<1>2. QED
  BY <1>1, SourceAlways, PairedImplies, PTL

\* needs_retry is exact for the last question of a conversation, if questions
\* are asked one at a time (_dangling_user_message_id).
THEOREM UnansweredAlwaysFlagged ==
  ASSUME OneAtATime
  PROVE  Spec => []UnansweredIsFlagged
<1>1. Spec => []OrderInv /\ []QuestionInv
  BY OrderAlways, QuestionAlways, PTL
<1>2. QED
  BY <1>1, SourceAlways, OnceAlways, FlaggedImplies, PTL
=============================================================================
