------------------------- MODULE ClientConversation -------------------------
(***************************************************************************)
(* The conversation store of the browser client: the async functions send, *)
(* retry and hydrateConversation over one React state and sessionStorage,  *)
(* the server's conversations they talk to, and what happens meanwhile:    *)
(* the active document changes, the user starts a new chat, the page is    *)
(* loaded again, a conversation goes with its primary document.            *)
(*                                                                         *)
(* Of the thread only the assistant bubbles of questions asked on the page *)
(* are kept, one per question, and of the answers that there is one. Which *)
(* ready documents are selected is the user's choice at any time, so it is *)
(* made where a question is sent.                                          *)
(***************************************************************************)
EXTENDS FiniteSets

CONSTANTS
  Docs,        \* ready documents
  Convs,       \* conversations that may be created
  Sends,       \* calls of send
  Loads,       \* runs of hydrateConversation that reach the server
  None,        \* null
  Beyond,      \* those of them that the first 100, oldest first, do not hold
  ReadsFail    \* requests that only read may fail

ASSUME ConstantsAssumption ==
  /\ None \notin Docs \cup Convs \cup Loads
  /\ Beyond \subseteq Convs
  /\ ReadsFail \in BOOLEAN

VARIABLES
  primaryOf,   \* server: the primary document of each conversation created
  rows,        \* server: the conversations there are
  persisted,   \* sessionStorage: the id of the conversation
  active,      \* id of the active document of the document store
  conv,        \* conversationId
  convDoc,     \* conversationDocumentId
  bubble,      \* the assistant bubble of each question
  sending,     \* isSending
  hydrating,   \* isHydrating
  at,          \* where each call of send is
  target,      \* its conversation
  about,       \* its primary document
  load,        \* where each hydration is
  wanted,      \* the id it read from sessionStorage
  current,     \* the hydration that is not cancelled
  lapses       \* history: what came in between since the page was loaded

serverVars == <<primaryOf, rows>>
convVars == <<conv, convDoc>>
sendVars == <<at, target, about>>
loadVars == <<load, wanted, current>>
vars == <<serverVars, persisted, active, convVars, bubble, sending, hydrating,
          sendVars, loadVars, lapses>>

Asked == {s \in Sends : at[s] \in {"create", "post", "stream"}}
InFlight == Asked \cup {s \in Sends : at[s] = "closing"}
Loading == {h \in Loads : load[h] \in {"list", "messages", "reply"}}
NoBubbles == [s \in Sends |-> "none"]
Unused == {c \in Convs : primaryOf[c] = None}

\* Calls are alike, so which of the idle ones comes next is no choice.
NextSend == CHOOSE s \in Sends : at[s] = "idle"
NextLoad == CHOOSE h \in Loads : load[h] = "idle"

Init ==
  /\ primaryOf = [c \in Convs |-> None] /\ rows = {}
  /\ persisted = None /\ active = None
  /\ conv = None /\ convDoc = None
  /\ bubble = NoBubbles
  /\ sending = FALSE /\ hydrating = FALSE
  /\ at = [s \in Sends |-> "idle"]
  /\ target = [s \in Sends |-> None]
  /\ about = [s \in Sends |-> None]
  /\ load = [h \in Loads |-> "idle"]
  /\ wanted = [h \in Loads |-> None]
  /\ current = None
  /\ lapses = {}

-----------------------------------------------------------------------------
(***************************************************************************)
(* send, with the bubbles it starts from.                                  *)
(***************************************************************************)

\* scope.activeDocuments[0] ?? activeDocument
Primary == IF active = None THEN Docs ELSE Docs \cup {active}

\* ensureConversation reuses the open conversation if it is about the same document.
BeginSend(s, bubbles) ==
  /\ at[s] = "idle" /\ s = NextSend
  /\ sending' = TRUE
  /\ bubble' = [bubbles EXCEPT ![s] = "loading"]
  /\ \/ /\ conv # None /\ convDoc \in Primary
        /\ at' = [at EXCEPT ![s] = "post"]
        /\ target' = [target EXCEPT ![s] = conv]
        /\ UNCHANGED about
     \/ /\ at' = [at EXCEPT ![s] = "create"]
        /\ \E d \in Primary : /\ conv = None \/ d # convDoc
                              /\ about' = [about EXCEPT ![s] = d]
        /\ UNCHANGED target

\* Mutant: the input is not disabled during hydration, nor does send check it.
AskWhileHydrating(s) ==
  /\ ~sending /\ active # None
  /\ BeginSend(s, bubble)
  /\ UNCHANGED <<serverVars, persisted, active, convVars, hydrating, loadVars, lapses>>

\* The input is disabled without an active document and while sending; a
\* question entered during a hydration is dropped.
Ask(s) ==
  /\ ~sending /\ ~hydrating /\ active # None
  /\ BeginSend(s, bubble)
  /\ UNCHANGED <<serverVars, persisted, active, convVars, hydrating, loadVars, lapses>>

\* The retry button of a failed bubble is never disabled; send may return at once.
Retry(s, f) ==
  LET bubbles == [bubble EXCEPT ![f] = "none"] IN
  /\ bubble[f] = "failed"
  /\ \/ /\ hydrating \/ active = None
        /\ bubble' = bubbles /\ UNCHANGED <<sending, sendVars>>
     \/ ~hydrating /\ BeginSend(s, bubbles)
  /\ UNCHANGED <<serverVars, persisted, active, convVars, hydrating, loadVars, lapses>>

CreateReturns(s) ==
  /\ at[s] = "create"
  /\ \E c \in Unused :
       /\ rows' = rows \cup {c}
       /\ primaryOf' = [primaryOf EXCEPT ![c] = about[s]]
       /\ conv' = c /\ convDoc' = about[s] /\ persisted' = c
       /\ target' = [target EXCEPT ![s] = c]
  /\ at' = [at EXCEPT ![s] = "post"]
  /\ about' = [about EXCEPT ![s] = None]
  /\ UNCHANGED <<active, bubble, sending, hydrating, loadVars, lapses>>

\* The response begins to stream.
Post(s) ==
  /\ at[s] = "post"
  /\ target[s] \in rows
  /\ at' = [at EXCEPT ![s] = "stream"]
  /\ UNCHANGED <<serverVars, persisted, active, convVars, bubble, sending, hydrating,
                 target, about, loadVars, lapses>>

\* An update of the bubble of this call finds nothing once the thread was replaced.
Update(s, from, status) ==
  bubble' = IF bubble[s] \in from THEN [bubble EXCEPT ![s] = status] ELSE bubble

LastEvent(s, status) ==
  /\ at[s] = "stream"
  /\ at' = [at EXCEPT ![s] = "closing"]
  /\ Update(s, {"loading"}, status)
  /\ UNCHANGED <<serverVars, persisted, active, convVars, sending, hydrating,
                 target, about, loadVars, lapses>>

\* The answer, then the done event.
Done(s) == LastEvent(s, "sent")

ErrorEvent(s) == LastEvent(s, "failed")

Ends(s, place) ==
  /\ at' = [at EXCEPT ![s] = place]
  /\ target' = [target EXCEPT ![s] = None]
  /\ about' = [about EXCEPT ![s] = None]
  /\ sending' = FALSE
  /\ UNCHANGED <<serverVars, persisted, active, convVars, hydrating, loadVars, lapses>>

Over(s) == Ends(s, "over")

Closes(s) == at[s] = "closing" /\ UNCHANGED bubble /\ Over(s)

\* The body ends without done or error: nothing is thrown, the bubble stays as it is.
EndsEarly(s) == at[s] = "stream" /\ UNCHANGED bubble /\ Ends(s, "cut")

\* A refused request or a broken connection: the catch clause, also after done.
SendFails(s) == s \in InFlight /\ Update(s, {"loading", "sent"}, "failed") /\ Over(s)

-----------------------------------------------------------------------------
(***************************************************************************)
(* hydrateConversation, run by an effect on the id of the active document. *)
(***************************************************************************)
Reset == conv' = None /\ convDoc' = None /\ bubble' = NoBubbles

\* Mutant: no return without a persisted id.
StartHydrationAnyway ==
  \E h \in Loads :
    /\ load[h] = "idle" /\ h = NextLoad
    /\ load' = [load EXCEPT ![h] = "list"]
    /\ wanted' = [wanted EXCEPT ![h] = persisted]
    /\ current' = h
    /\ hydrating' = TRUE
    /\ UNCHANGED <<convVars, bubble>>

StartHydration ==
  \/ /\ persisted = None
     /\ Reset
     /\ current' = None
     /\ UNCHANGED <<hydrating, load, wanted>>
  \/ /\ persisted # None
     /\ \E h \in Loads :
          /\ load[h] = "idle" /\ h = NextLoad
          /\ load' = [load EXCEPT ![h] = "list"]
          /\ wanted' = [wanted EXCEPT ![h] = persisted]
          /\ current' = h
     /\ hydrating' = TRUE
     /\ UNCHANGED <<convVars, bubble>>

(***************************************************************************)
(* History: the thread is, or will be, replaced under a question on its    *)
(* way; a hydration goes on after its time, or beside the creation of a    *)
(* conversation.                                                           *)
(***************************************************************************)
Replacing(replaced) == IF replaced /\ Asked # {} THEN {"thread"} ELSE {}
Straying(d) == (IF current # None THEN {"cancelled"} ELSE {}) \cup
               (IF d # None /\ \E s \in Sends : at[s] = "create" THEN {"astray"} ELSE {})

\* Polling, an upload or a delete changes the active document; the cleanup cancels.
ActiveChanges(d) ==
  /\ d # active
  /\ active' = d
  /\ lapses' = lapses \cup Replacing(d # None) \cup Straying(d)
  /\ IF d = None
     THEN current' = None /\ UNCHANGED <<convVars, bubble, hydrating, load, wanted>>
     ELSE StartHydration
  /\ UNCHANGED <<serverVars, persisted, sending, sendVars>>

EndLoad(h) == /\ load' = [load EXCEPT ![h] = "over"]
              /\ wanted' = [wanted EXCEPT ![h] = None]
              /\ current' = IF h = current THEN None ELSE current
              /\ UNCHANGED <<serverVars, active, sending, sendVars>>

Listed == rows \ Beyond

FoundInList(h) ==
  /\ load[h] = "list" /\ wanted[h] \in Listed
  /\ load' = [load EXCEPT ![h] = "messages"]
  /\ UNCHANGED <<serverVars, persisted, active, convVars, bubble, sending, hydrating,
                 sendVars, wanted, current, lapses>>

\* No such conversation, or too many older ones; the id is forgotten even by a cancelled run.
NotInList(h) ==
  /\ load[h] = "list" /\ wanted[h] \notin Listed
  /\ persisted' = None /\ UNCHANGED lapses
  /\ IF h = current THEN Reset /\ hydrating' = FALSE
                    ELSE UNCHANGED <<convVars, bubble, hydrating>>
  /\ EndLoad(h)

\* The server reads the messages some time before they replace the thread.
ReadMessages(h) ==
  /\ load[h] = "messages" /\ wanted[h] \in rows
  /\ load' = [load EXCEPT ![h] = "reply"]
  /\ UNCHANGED <<serverVars, persisted, active, convVars, bubble, sending, hydrating,
                 sendVars, wanted, current, lapses>>

ShowMessages(h) ==
  /\ load[h] = "reply"
  /\ UNCHANGED <<persisted, lapses>>
  /\ IF h = current
     THEN /\ conv' = wanted[h]
          /\ convDoc' = primaryOf[wanted[h]]
          /\ bubble' = NoBubbles
          /\ hydrating' = FALSE
     ELSE UNCHANGED <<convVars, bubble, hydrating>>
  /\ EndLoad(h)

\* Mutant: the flag is reset where the messages are shown, not in the finally clause.
LoadFailsBusy(h) ==
  /\ h \in Loading
  /\ ReadsFail \/ (load[h] = "messages" /\ wanted[h] \notin rows)
  /\ persisted' = None /\ lapses' = lapses \cup {"read"}
  /\ UNCHANGED <<convVars, bubble, hydrating>>
  /\ EndLoad(h)

\* The catch clause; a conversation deleted since it was listed is an error, too.
LoadFails(h) ==
  /\ h \in Loading
  /\ ReadsFail \/ (load[h] = "messages" /\ wanted[h] \notin rows)
  /\ persisted' = None /\ lapses' = lapses \cup {"read"}
  /\ hydrating' = IF h = current THEN FALSE ELSE hydrating
  /\ UNCHANGED <<convVars, bubble>>
  /\ EndLoad(h)

-----------------------------------------------------------------------------
\* Mutant: the persisted id stays.
NewChatKeepsId ==
  /\ Reset
  /\ lapses' = lapses \cup Replacing(TRUE) \cup (IF current # None THEN {"astray"} ELSE {})
  /\ UNCHANGED <<serverVars, persisted, active, sending, hydrating, sendVars, loadVars>>

NewChat ==
  /\ Reset
  /\ persisted' = None
  /\ lapses' = lapses \cup Replacing(TRUE) \cup (IF current # None THEN {"astray"} ELSE {})
  /\ UNCHANGED <<serverVars, active, sending, hydrating, sendVars, loadVars>>

\* The page is loaded again; nothing comes back to it of what it had sent.
Reload ==
  /\ at' = [s \in Sends |-> IF s \in InFlight THEN "over" ELSE at[s]]
  /\ load' = [h \in Loads |-> IF h \in Loading THEN "over" ELSE load[h]]
  /\ Reset
  /\ active' = None /\ current' = None /\ lapses' = {}
  /\ sending' = FALSE /\ hydrating' = FALSE
  /\ target' = [s \in Sends |-> None]
  /\ about' = [s \in Sends |-> None]
  /\ wanted' = [h \in Loads |-> None]
  /\ UNCHANGED <<serverVars, persisted>>

\* The primary document is deleted, and with it the conversation.
DeleteConversation(c) ==
  /\ c \in rows
  /\ rows' = rows \ {c}
  /\ UNCHANGED <<primaryOf, persisted, active, convVars, bubble, sending, hydrating,
                 sendVars, loadVars, lapses>>

Progress(s) == \/ CreateReturns(s) \/ Post(s) \/ Done(s) \/ Closes(s)
               \/ EndsEarly(s) \/ ErrorEvent(s) \/ SendFails(s)
Hydrate(h) == \/ FoundInList(h) \/ NotInList(h) \/ ReadMessages(h) \/ ShowMessages(h)
              \/ LoadFails(h)

Next == \/ \E s \in Sends : Ask(s) \/ Progress(s) \/ \E f \in Sends : Retry(s, f)
        \/ \E h \in Loads : Hydrate(h)
        \/ \E d \in Docs \cup {None} : ActiveChanges(d)
        \/ NewChat \/ Reload
        \/ \E c \in Convs : DeleteConversation(c)

Spec == Init /\ [][Next]_vars

\* Every request of the page is answered or fails.
FairSpec == /\ Spec
            /\ \A s \in Sends : WF_vars(s \in InFlight /\ Progress(s))
            /\ \A h \in Loads : WF_vars(Hydrate(h))

-----------------------------------------------------------------------------
TypeOK ==
  /\ primaryOf \in [Convs -> Docs \cup {None}]
  /\ rows \subseteq Convs
  /\ persisted \in Convs \cup {None} /\ conv \in Convs \cup {None}
  /\ {active, convDoc} \subseteq Docs \cup {None}
  /\ bubble \in [Sends -> {"none", "loading", "sent", "failed"}]
  /\ sending \in BOOLEAN /\ hydrating \in BOOLEAN
  /\ at \in [Sends -> {"idle", "create", "post", "stream", "closing", "over", "cut"}]
  /\ target \in [Sends -> Convs \cup {None}]
  /\ about \in [Sends -> Docs \cup {None}]
  /\ load \in [Loads -> {"idle", "list", "messages", "reply", "over"}]
  /\ wanted \in [Loads -> Convs \cup {None}]
  /\ \A h \in Loading : wanted[h] # None
  /\ current \in Loads \cup {None}
  /\ lapses \subseteq {"thread", "cancelled", "astray", "read"}

(***************************************************************************)
(* No bubble is loading but those of questions on their way, and of those  *)
(* whose stream ended without a last event; and a question on its way has  *)
(* its loading bubble, whatever failed, overlapped or was retried, unless  *)
(* New Chat or a change of the active document came in between: a history  *)
(* that loads never wipes out a bubble by itself.                          *)
(***************************************************************************)
BubblesFollowQuestions == \A s \in Sends :
  /\ bubble[s] = "loading" => s \in Asked \/ at[s] = "cut"
  /\ s \in Asked /\ "thread" \notin lapses => bubble[s] = "loading"

(***************************************************************************)
(* A refresh looks for the conversation on the page: sessionStorage        *)
(* follows the state through creation, overlapping sends, new chats,       *)
(* deletes and histories that load, and is only ever empty, never another  *)
(* one, after a read failed. Excepted is a page on which a hydration was   *)
(* cancelled, or New Chat met one, or one began beside a creation.         *)
(***************************************************************************)
RefreshKeepsConversation ==
  ~hydrating /\ active # None /\ {"cancelled", "astray"} \cap lapses = {} =>
    persisted = conv \/ (persisted = None /\ "read" \in lapses)

(***************************************************************************)
(* The input becomes usable again after each send and each hydration,      *)
(* however they end, unless a change of the active document cancelled one: *)
(* then nothing may ever reset isHydrating on this page. That another send *)
(* may still run, overlapping through Retry, does not keep it disabled.    *)
(***************************************************************************)
InputComesBack ==
  (sending \/ hydrating) ~> ((~sending /\ ~hydrating) \/ "cancelled" \in lapses)
=============================================================================
