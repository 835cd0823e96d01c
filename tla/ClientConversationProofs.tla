---------------------- MODULE ClientConversationProofs ----------------------
(***************************************************************************)
(* Proofs about the client's conversation store, for every number of       *)
(* documents, conversations, sends and hydrations, whatever the user and   *)
(* the active document do in between.                                      *)
(***************************************************************************)
EXTENDS ClientConversation, TLAPS

Where == {"idle", "create", "post", "stream", "closing", "over", "cut"}
Statuses == {"none", "loading", "sent", "failed"}
Lapses == {"thread", "cancelled", "astray", "read"}

(***************************************************************************)
(* What one step of a call of send does to the page.                       *)
(***************************************************************************)
SendStep(s) == Ask(s) \/ Progress(s) \/ \E f \in Sends : Retry(s, f)

LEMMA SendFrame ==
  ASSUME TypeOK, NEW s \in Sends, SendStep(s)
  PROVE  /\ UNCHANGED <<active, load, wanted, current, hydrating, lapses>>
         /\ at' = at \/ \E to \in Where : at' = [at EXCEPT ![s] = to]
         /\ s \in Asked' => s \in Asked \/ ~hydrating
         /\ at'[s] = "create" => at[s] = "create" \/ ~hydrating
<1>1. CASE Ask(s)
  BY <1>1 DEF Ask, BeginSend, sendVars, loadVars, Where, Asked, TypeOK
<1>2. ASSUME NEW f \in Sends, Retry(s, f)
      PROVE  /\ UNCHANGED <<active, load, wanted, current, hydrating, lapses>>
             /\ at' = at \/ \E to \in Where : at' = [at EXCEPT ![s] = to]
             /\ s \in Asked' => s \in Asked \/ ~hydrating
             /\ at'[s] = "create" => at[s] = "create" \/ ~hydrating
  <2>1. UNCHANGED <<active, load, wanted, current, hydrating, lapses>>
    BY <1>2 DEF Retry, loadVars
  <2>2. at' = at \/ (~hydrating /\ \E to \in Where : at' = [at EXCEPT ![s] = to])
    BY <1>2 DEF Retry, BeginSend, sendVars, Where
  <2>3. QED
    BY <2>1, <2>2 DEF Asked, TypeOK
<1>3. CASE Progress(s)
  <2>1. UNCHANGED <<active, load, wanted, current, hydrating, lapses>>
    BY <1>3 DEF Progress, CreateReturns, Post, LastEvent, Done, Ends, Over, Closes, EndsEarly, ErrorEvent,
       SendFails, loadVars
  <2>2. s \in InFlight /\ \E to \in Where \ {"create"} : at' = [at EXCEPT ![s] = to]
    BY <1>3 DEF Progress, CreateReturns, Post, LastEvent, Done, Ends, Over, Closes, EndsEarly, ErrorEvent,
       SendFails, InFlight, Asked, Where
  <2>3. at[s] = "closing" => at'[s] \in {"over", "cut"}
    BY <1>3 DEF Progress, CreateReturns, Post, LastEvent, Done, Ends, Over, Closes, EndsEarly, ErrorEvent,
       SendFails, InFlight, Asked, TypeOK
  <2>4. at'[s] # "create" /\ \E to \in Where : at' = [at EXCEPT ![s] = to]
    BY <2>2 DEF TypeOK
  <2>5. s \in Asked' => s \in Asked
    BY <2>2, <2>3 DEF InFlight, Asked
  <2>6. QED
    BY <2>1, <2>4, <2>5
<1>4. QED
  BY <1>1, <1>2, <1>3 DEF SendStep

(***************************************************************************)
(* Types.                                                                  *)
(***************************************************************************)
LEMMA SendTypes ==
  ASSUME TypeOK, NEW s \in Sends, SendStep(s)
  PROVE  TypeOK'
<1>1. /\ UNCHANGED <<active, load, wanted, current, hydrating, lapses>>
      /\ at' \in [Sends -> Where]
  <2>1. at' = at \/ \E to \in Where : at' = [at EXCEPT ![s] = to]
    BY SendFrame
  <2>2. QED
    BY <2>1, SendFrame DEF TypeOK, Where
<1>2. /\ primaryOf' \in [Convs -> Docs \cup {None}]
      /\ rows' \subseteq Convs
      /\ persisted' \in Convs \cup {None} /\ conv' \in Convs \cup {None}
      /\ convDoc' \in Docs \cup {None}
  <2>1. CASE Ask(s) \/ \E f \in Sends : Retry(s, f)
    BY <2>1 DEF Ask, Retry, serverVars, convVars, TypeOK
  <2>2. CASE CreateReturns(s)
    BY <2>2 DEF CreateReturns, Unused, TypeOK
  <2>3. CASE Progress(s) /\ ~CreateReturns(s)
    BY <2>3 DEF Progress, Post, LastEvent, Done, Ends, Over, Closes, EndsEarly, ErrorEvent, SendFails,
                serverVars, convVars, TypeOK
  <2>4. QED
    BY <2>1, <2>2, <2>3 DEF SendStep
<1>3. bubble' \in [Sends -> Statuses] /\ sending' \in BOOLEAN
  <2>1. CASE Ask(s) \/ \E f \in Sends : Retry(s, f)
    BY <2>1 DEF Ask, Retry, BeginSend, Statuses, TypeOK
  <2>2. CASE Progress(s)
    <3>1. bubble' \in {bubble, [bubble EXCEPT ![s] = "sent"], [bubble EXCEPT ![s] = "failed"]}
      BY <2>2 DEF Progress, CreateReturns, Post, LastEvent, Done, Closes, EndsEarly, ErrorEvent, SendFails,
                  Update
    <3>2. sending' \in {sending, FALSE}
      BY <2>2 DEF Progress, CreateReturns, Post, LastEvent, Done, Ends, Over, Closes, EndsEarly, ErrorEvent,
                  SendFails
    <3>3. QED
      BY <3>1, <3>2 DEF TypeOK, Statuses
  <2>3. QED
    BY <2>1, <2>2 DEF SendStep
<1>4. target' \in [Sends -> Convs \cup {None}] /\ about' \in [Sends -> Docs \cup {None}]
  <2>1. CASE Ask(s) \/ \E f \in Sends : Retry(s, f)
    BY <2>1 DEF Ask, Retry, BeginSend, Primary, sendVars, TypeOK
  <2>2. CASE Progress(s)
    BY <2>2 DEF Progress, CreateReturns, Unused, Post, LastEvent, Done, Ends, Over, Closes, EndsEarly,
                ErrorEvent, SendFails, TypeOK
  <2>3. QED
    BY <2>1, <2>2 DEF SendStep
<1>5. QED
  BY <1>1, <1>2, <1>3, <1>4 DEF TypeOK, Loading, Where, Statuses

\* A step of a hydration goes on with it or ends it.
LEMMA HydrateFrame ==
  ASSUME TypeOK, NEW h \in Loads, Hydrate(h)
  PROVE  /\ UNCHANGED <<primaryOf, rows, active, sending, at, target, about>>
         /\ h \in Loading /\ wanted[h] \in Convs
         /\ \/ /\ load' = [load EXCEPT ![h] = "over"]
               /\ wanted' = [wanted EXCEPT ![h] = None]
               /\ current' = IF h = current THEN None ELSE current
            \/ /\ \E to \in {"messages", "reply"} : load' = [load EXCEPT ![h] = to]
               /\ UNCHANGED <<wanted, current, persisted, conv, convDoc, bubble, hydrating, lapses>>
<1>1. UNCHANGED <<primaryOf, rows, active, sending, at, target, about>>
  BY DEF Hydrate, FoundInList, NotInList, ReadMessages, ShowMessages, LoadFails, EndLoad, serverVars, sendVars
<1>2. h \in Loading /\ wanted[h] \in Convs
  BY DEF Hydrate, FoundInList, NotInList, ReadMessages, ShowMessages, LoadFails, TypeOK, Loading
<1>3. CASE NotInList(h) \/ ShowMessages(h) \/ LoadFails(h)
  BY <1>1, <1>2, <1>3 DEF NotInList, ShowMessages, LoadFails, EndLoad
<1>4. CASE FoundInList(h) \/ ReadMessages(h)
  BY <1>1, <1>2, <1>4 DEF FoundInList, ReadMessages, convVars
<1>5. QED
  BY <1>3, <1>4 DEF Hydrate

LEMMA HydrateTypes ==
  ASSUME TypeOK, NEW h \in Loads, Hydrate(h)
  PROVE  TypeOK'
<1>1. UNCHANGED <<primaryOf, rows, active, sending, at, target, about>> /\ wanted[h] \in Convs
  BY HydrateFrame
<1>2. /\ load' \in [Loads -> {"idle", "list", "messages", "reply", "over"}]
      /\ wanted' \in [Loads -> Convs \cup {None}]
      /\ \A g \in Loading' : wanted'[g] # None
      /\ current' \in Loads \cup {None}
  <2>1. CASE /\ load' = [load EXCEPT ![h] = "over"]
             /\ wanted' = [wanted EXCEPT ![h] = None]
             /\ current' = IF h = current THEN None ELSE current
    BY <2>1 DEF TypeOK, Loading
  <2>2. ASSUME NEW to \in {"messages", "reply"}, load' = [load EXCEPT ![h] = to],
               UNCHANGED <<wanted, current>>
        PROVE  /\ load' \in [Loads -> {"idle", "list", "messages", "reply", "over"}]
               /\ wanted' \in [Loads -> Convs \cup {None}]
               /\ \A g \in Loading' : wanted'[g] # None
               /\ current' \in Loads \cup {None}
    <3>1. Loading' = Loading
      BY <2>2, HydrateFrame DEF Loading, TypeOK
    <3>2. QED
      BY <2>2, <3>1 DEF TypeOK
  <2>3. QED
    BY <2>1, <2>2, HydrateFrame
<1>3. /\ persisted' \in {persisted, None} /\ conv' \in {conv, None, wanted[h]}
      /\ convDoc' \in {convDoc, None, primaryOf[wanted[h]]}
      /\ hydrating' \in {hydrating, FALSE} /\ lapses' \in {lapses, lapses \cup {"read"}}
  BY DEF Hydrate, FoundInList, NotInList, ReadMessages, ShowMessages, LoadFails, Reset, convVars
<1>4. bubble' \in [Sends -> Statuses]
  BY DEF Hydrate, FoundInList, NotInList, ReadMessages, ShowMessages, LoadFails, Reset, NoBubbles, TypeOK,
         Statuses
<1>5. /\ persisted' \in Convs \cup {None} /\ conv' \in Convs \cup {None} /\ convDoc' \in Docs \cup {None}
      /\ hydrating' \in BOOLEAN /\ lapses' \subseteq Lapses
  <2>1. primaryOf[wanted[h]] \in Docs \cup {None}
    BY <1>1 DEF TypeOK
  <2>2. lapses' \subseteq Lapses
    BY <1>3 DEF TypeOK, Lapses
  <2>3. QED
    BY <1>1, <1>3, <2>1, <2>2 DEF TypeOK
<1>6. /\ primaryOf' \in [Convs -> Docs \cup {None}] /\ rows' \subseteq Convs
      /\ active' \in Docs \cup {None} /\ sending' \in BOOLEAN /\ at' \in [Sends -> Where]
      /\ target' \in [Sends -> Convs \cup {None}] /\ about' \in [Sends -> Docs \cup {None}]
  BY <1>1 DEF TypeOK, Where
<1>7. QED
  BY <1>2, <1>4, <1>5, <1>6 DEF TypeOK, Statuses, Lapses, Where

LEMMA PageTypes ==
  ASSUME TypeOK, \/ \E d \in Docs \cup {None} : ActiveChanges(d)
                 \/ NewChat \/ Reload
                 \/ \E c \in Convs : DeleteConversation(c)
  PROVE  TypeOK'
<1>1. ASSUME NEW d \in Docs \cup {None}, ActiveChanges(d)
      PROVE  TypeOK'
  <2>1. CASE d = None \/ persisted = None
    BY <1>1, <2>1 DEF ActiveChanges, Replacing, Straying, StartHydration, Reset, NoBubbles, serverVars,
       sendVars, convVars, TypeOK, Loading
  <2>2. ASSUME NEW h \in Loads, load[h] = "idle", d # None, persisted # None,
               load' = [load EXCEPT ![h] = "list"],
               wanted' = [wanted EXCEPT ![h] = persisted],
               current' = h, hydrating' = TRUE, UNCHANGED <<convVars, bubble>>
        PROVE  TypeOK'
    BY <1>1, <2>2 DEF ActiveChanges, Replacing, Straying, serverVars, sendVars, convVars, TypeOK, Loading
  <2>3. QED
    BY <1>1, <2>1, <2>2 DEF ActiveChanges, StartHydration
<1>2. CASE NewChat
  BY <1>2 DEF NewChat, Replacing, Reset, NoBubbles, serverVars, sendVars, loadVars, TypeOK, Loading
<1>3. CASE Reload
  BY <1>3 DEF Reload, Reset, NoBubbles, serverVars, TypeOK, Loading
<1>4. ASSUME NEW c \in Convs, DeleteConversation(c)
      PROVE  TypeOK'
  BY <1>4 DEF DeleteConversation, sendVars, convVars, loadVars, TypeOK, Loading
<1>5. QED
  BY <1>1, <1>2, <1>3, <1>4

\* Every variable keeps its type; a hydration under way knows what it looks for.
THEOREM TypeCorrect == Spec => []TypeOK
<1>1. Init => TypeOK
  <2> SUFFICES ASSUME Init
               PROVE  TypeOK
    OBVIOUS
  <2>1. /\ \A h \in Loading : wanted[h] # None
        /\ {active, convDoc} \subseteq Docs \cup {None}
        /\ persisted \in Convs \cup {None} /\ conv \in Convs \cup {None} /\ current \in Loads \cup {None}
        /\ rows \subseteq Convs /\ sending \in BOOLEAN /\ hydrating \in BOOLEAN /\ lapses \subseteq Lapses
    BY DEF Init, Loading
  <2>2. /\ primaryOf \in [Convs -> Docs \cup {None}]
        /\ bubble \in [Sends -> Statuses]
        /\ target \in [Sends -> Convs \cup {None}] /\ about \in [Sends -> Docs \cup {None}]
        /\ wanted \in [Loads -> Convs \cup {None}]
    BY DEF Init, NoBubbles, Statuses
  <2>3. /\ at \in [Sends -> Where]
        /\ load \in [Loads -> {"idle", "list", "messages", "reply", "over"}]
    BY DEF Init, Where
  <2>4. QED
    BY <2>1, <2>2, <2>3 DEF TypeOK, Where, Statuses, Lapses
<1>2. TypeOK /\ [Next]_vars => TypeOK'
  <2>1. CASE UNCHANGED vars
    BY <2>1 DEF vars, serverVars, convVars, sendVars, loadVars, TypeOK, Loading
  <2>2. QED
    BY <2>1, SendTypes, HydrateTypes, PageTypes DEF Next, SendStep
<1>3. QED
  BY <1>1, <1>2, PTL DEF Spec

-----------------------------------------------------------------------------
(***************************************************************************)
(* Bubbles: the hydration that may replace the thread began when no        *)
(* question was on its way, or when it was noted that one was; while it    *)
(* runs, send returns at once.                                             *)
(***************************************************************************)
BubbleInv == /\ BubblesFollowQuestions
             /\ current # None => hydrating /\ (Asked # {} => "thread" \in lapses)

LEMMA SendBubbles ==
  ASSUME TypeOK, BubbleInv, NEW s \in Sends, SendStep(s)
  PROVE  BubbleInv'
<1>1. /\ UNCHANGED <<current, hydrating, lapses>>
      /\ \A r \in Sends \ {s} : at'[r] = at[r]
      /\ s \in Asked' => s \in Asked \/ ~hydrating
  BY SendFrame DEF TypeOK
<1>2. current' # None => hydrating' /\ (Asked' # {} => "thread" \in lapses')
  BY <1>1 DEF BubbleInv, Asked
<1>3. BubblesFollowQuestions'
  <2>1. CASE Ask(s) \/ \E f \in Sends : Retry(s, f)
    <3>1. ASSUME NEW f \in Sends, Retry(s, f), UNCHANGED sendVars
          PROVE  BubblesFollowQuestions'
      <4>1. f \notin Asked \/ "thread" \in lapses
        BY <3>1 DEF Retry, BubbleInv, BubblesFollowQuestions
      <4>2. bubble' = [bubble EXCEPT ![f] = "none"] /\ at' = at /\ Asked' = Asked
        BY <3>1 DEF Retry, BeginSend, sendVars, Asked, TypeOK
      <4>3. QED
        BY <1>1, <4>1, <4>2 DEF BubbleInv, BubblesFollowQuestions, TypeOK
    <3>2. ASSUME NEW f \in Sends, Retry(s, f), BeginSend(s, [bubble EXCEPT ![f] = "none"])
          PROVE  BubblesFollowQuestions'
      <4>1. f \notin Asked \/ "thread" \in lapses
        BY <3>2 DEF Retry, BubbleInv, BubblesFollowQuestions
      <4>2. /\ bubble' = [[bubble EXCEPT ![f] = "none"] EXCEPT ![s] = "loading"]
            /\ at'[s] \in {"create", "post"}
        BY <3>2 DEF BeginSend, TypeOK
      <4>3. QED
        BY <1>1, <4>1, <4>2 DEF BubbleInv, BubblesFollowQuestions, Asked, TypeOK
    <3>3. CASE Ask(s)
      <4>1. bubble' = [bubble EXCEPT ![s] = "loading"] /\ at'[s] \in {"create", "post"}
        BY <3>3 DEF Ask, BeginSend, TypeOK
      <4>2. QED
        BY <1>1, <4>1 DEF BubbleInv, BubblesFollowQuestions, Asked, TypeOK
    <3>4. QED
      BY <2>1, <3>1, <3>2, <3>3 DEF Retry, sendVars
  <2>2. CASE CreateReturns(s) \/ Post(s) \/ EndsEarly(s)
    <3>1. bubble' = bubble /\ s \in Asked /\ (s \in Asked' \/ at'[s] = "cut")
      BY <2>2 DEF CreateReturns, Post, EndsEarly, Ends, Asked, TypeOK
    <3>2. QED
      BY <1>1, <3>1 DEF BubbleInv, BubblesFollowQuestions, Asked
  <2>3. CASE Done(s) \/ ErrorEvent(s) \/ Closes(s) \/ SendFails(s)
    <3>1. /\ s \notin Asked' /\ bubble'[s] # "loading"
          /\ \A r \in Sends \ {s} : bubble'[r] = bubble[r]
      BY <2>3 DEF Done, ErrorEvent, LastEvent, Closes, SendFails, Over, Ends, Update, Asked, InFlight,
                  BubbleInv, BubblesFollowQuestions, TypeOK
    <3>2. QED
      BY <1>1, <3>1 DEF BubbleInv, BubblesFollowQuestions, Asked
  <2>4. QED
    BY <2>1, <2>2, <2>3 DEF SendStep, Progress
<1>4. QED
  BY <1>2, <1>3 DEF BubbleInv

LEMMA HydrateBubbles ==
  ASSUME TypeOK, BubbleInv, NEW h \in Loads, Hydrate(h)
  PROVE  BubbleInv'
<1>1. at' = at /\ Asked' = Asked /\ h \in Loading /\ lapses \subseteq lapses'
  BY HydrateFrame DEF Hydrate, FoundInList, NotInList, ReadMessages, ShowMessages, LoadFails, Asked
<1>2. bubble' \in {bubble, NoBubbles} /\ (bubble' = bubble \/ h = current)
  BY DEF Hydrate, FoundInList, NotInList, ReadMessages, ShowMessages, LoadFails, Reset
<1>3. /\ current' \in {current, None}
      /\ current' # None => hydrating' = hydrating
  BY ConstantsAssumption DEF Hydrate, FoundInList, NotInList, ReadMessages, ShowMessages, LoadFails, EndLoad
<1>4. h = current => current # None
  BY ConstantsAssumption
<1>5. QED
  BY <1>1, <1>2, <1>3, <1>4 DEF BubbleInv, BubblesFollowQuestions, NoBubbles, Asked

LEMMA PageBubbles ==
  ASSUME TypeOK, BubbleInv, \/ \E d \in Docs \cup {None} : ActiveChanges(d)
                            \/ NewChat \/ Reload
                            \/ \E c \in Convs : DeleteConversation(c)
  PROVE  BubbleInv'
<1>1. ASSUME NEW d \in Docs \cup {None}, ActiveChanges(d)
      PROVE  BubbleInv'
  <2>1. /\ at' = at /\ Asked' = Asked /\ lapses \subseteq lapses'
        /\ d # None /\ Asked # {} => "thread" \in lapses'
    BY <1>1 DEF ActiveChanges, Replacing, sendVars, Asked
  <2>2. CASE d = None
    BY <1>1, <2>1, <2>2 DEF ActiveChanges, BubbleInv, BubblesFollowQuestions
  <2>3. CASE d # None
    <3>1. bubble' \in {bubble, NoBubbles} /\ (current' = None \/ hydrating' = TRUE)
      BY <1>1, <2>3 DEF ActiveChanges, StartHydration, Reset
    <3>2. QED
      BY <2>1, <2>3, <3>1 DEF BubbleInv, BubblesFollowQuestions, NoBubbles, Asked
  <2>4. QED
    BY <2>2, <2>3
<1>2. CASE NewChat
  <2>1. /\ at' = at /\ Asked' = Asked /\ lapses \subseteq lapses' /\ bubble' = NoBubbles
        /\ Asked # {} => "thread" \in lapses'
        /\ UNCHANGED <<current, hydrating>>
    BY <1>2 DEF NewChat, Reset, Replacing, sendVars, loadVars, Asked
  <2>2. QED
    BY <2>1 DEF BubbleInv, BubblesFollowQuestions, NoBubbles, Asked
<1>3. CASE Reload
  <2>1. Asked' = {} /\ bubble' = NoBubbles /\ current' = None
    BY <1>3 DEF Reload, Reset, Asked, InFlight
  <2>2. QED
    BY <2>1 DEF BubbleInv, BubblesFollowQuestions, NoBubbles
<1>4. ASSUME NEW c \in Convs, DeleteConversation(c)
      PROVE  BubbleInv'
  BY <1>4 DEF DeleteConversation, sendVars, loadVars, BubbleInv, BubblesFollowQuestions, Asked
<1>5. QED
  BY <1>1, <1>2, <1>3, <1>4

\* A bubble loads only while its question is on its way, or after its stream broke
\* off without a last event; a question on its way keeps its loading bubble, with
\* any number of questions asked again at once and any histories loading, unless
\* New Chat or the active document came in between (send, retry,
\* hydrateConversation).
THEOREM BubblesAlwaysFollow == Spec => []BubblesFollowQuestions
<1>1. Init => BubbleInv
  BY DEF Init, NoBubbles, BubbleInv, BubblesFollowQuestions, Asked
<1>2. TypeOK /\ BubbleInv /\ [Next]_vars => BubbleInv'
  <2>1. CASE UNCHANGED vars
    BY <2>1 DEF vars, convVars, sendVars, loadVars, BubbleInv, BubblesFollowQuestions, Asked
  <2>2. QED
    BY <2>1, SendBubbles, HydrateBubbles, PageBubbles DEF Next, SendStep
<1>3. BubbleInv => BubblesFollowQuestions
  BY DEF BubbleInv
<1>4. QED
  BY <1>1, <1>2, <1>3, TypeCorrect, PTL DEF Spec

-----------------------------------------------------------------------------
(***************************************************************************)
(* Refresh: as long as no hydration was cancelled or began or went on      *)
(* beside New Chat or a creation, there is one at a time, it looks for the *)
(* persisted conversation, and nothing else writes sessionStorage.         *)
(***************************************************************************)
Undisturbed == {"cancelled", "astray"} \cap lapses = {}
Creating == {s \in Sends : at[s] = "create"}
OneHydration == /\ \A h \in Loading : h = current
                /\ hydrating => current # None
                /\ current # None => hydrating /\ wanted[current] = persisted /\ Creating = {}
Kept == ~hydrating /\ active # None => persisted = conv \/ (persisted = None /\ "read" \in lapses)
RefreshInv == Undisturbed => OneHydration /\ Kept

LEMMA SendRefresh ==
  ASSUME TypeOK, RefreshInv, NEW s \in Sends, SendStep(s)
  PROVE  RefreshInv'
<1>1. /\ UNCHANGED <<active, load, wanted, current, hydrating, lapses, Loading>>
      /\ \A r \in Sends \ {s} : at'[r] = at[r]
      /\ at'[s] = "create" => at[s] = "create" \/ ~hydrating
  BY SendFrame DEF TypeOK, Loading
<1>2. \/ UNCHANGED <<persisted, conv>>
      \/ persisted' = conv' /\ s \in Creating
  <2>1. CASE Ask(s) \/ \E f \in Sends : Retry(s, f)
    BY <2>1 DEF Ask, Retry, convVars
  <2>2. CASE Progress(s)
    BY <2>2 DEF Progress, CreateReturns, Post, LastEvent, Done, Ends, Over, Closes, EndsEarly, ErrorEvent,
                SendFails, convVars, Creating
  <2>3. QED
    BY <2>1, <2>2 DEF SendStep
<1>3. ASSUME Undisturbed, OneHydration, Kept
      PROVE  OneHydration' /\ Kept'
  <2>1. current # None => Creating = {} /\ Creating' = {}
    BY <1>1, <1>3 DEF OneHydration, Creating, TypeOK
  <2>2. QED
    BY <1>1, <1>2, <1>3, <2>1 DEF OneHydration, Kept
<1>4. QED
  BY <1>1, <1>3 DEF RefreshInv, Undisturbed

LEMMA HydrateRefresh ==
  ASSUME TypeOK, RefreshInv, NEW h \in Loads, Hydrate(h)
  PROVE  RefreshInv'
<1>1. h \in Loading /\ UNCHANGED <<active, at>> /\ Undisturbed' = Undisturbed
  <2>1. lapses' \in {lapses, lapses \cup {"read"}}
    BY DEF Hydrate, FoundInList, NotInList, ReadMessages, ShowMessages, LoadFails
  <2>2. QED
    BY <2>1, HydrateFrame DEF Undisturbed
<1>2. SUFFICES ASSUME Undisturbed
               PROVE  OneHydration' /\ Kept'
  BY <1>1 DEF RefreshInv
<1>3. h = current /\ Loading = {h} /\ wanted[h] = persisted /\ hydrating /\ Creating' = {} /\ h # None
  BY <1>1, <1>2, ConstantsAssumption DEF RefreshInv, OneHydration, Creating
<1>4. CASE FoundInList(h) \/ ReadMessages(h)
  <2>1. Loading' = Loading /\ UNCHANGED <<current, wanted, persisted, hydrating>>
    BY <1>1, <1>4 DEF FoundInList, ReadMessages, Loading, TypeOK
  <2>2. QED
    BY <1>3, <2>1 DEF OneHydration, Kept
<1>5. CASE NotInList(h) \/ ShowMessages(h) \/ LoadFails(h)
  <2>1. load' = [load EXCEPT ![h] = "over"] /\ hydrating' = FALSE /\ current' = None
    BY <1>3, <1>5 DEF NotInList, ShowMessages, LoadFails, EndLoad
  <2>2. \A g \in Loads : g \notin Loading'
    BY <1>3, <2>1 DEF Loading, TypeOK
  <2>3. persisted' = conv' \/ (persisted' = None /\ "read" \in lapses')
    <3>1. CASE NotInList(h)
      BY <1>3, <3>1 DEF NotInList, Reset
    <3>2. CASE ShowMessages(h)
      BY <1>3, <3>2 DEF ShowMessages
    <3>3. CASE LoadFails(h)
      BY <3>3 DEF LoadFails
    <3>4. QED
      BY <1>5, <3>1, <3>2, <3>3
  <2>4. Loading' = {}
    BY <2>2 DEF Loading
  <2>5. QED
    BY <2>1, <2>3, <2>4 DEF OneHydration, Kept
<1>6. QED
  BY <1>4, <1>5 DEF Hydrate

LEMMA PageRefresh ==
  ASSUME TypeOK, RefreshInv, \/ \E d \in Docs \cup {None} : ActiveChanges(d)
                             \/ NewChat \/ Reload
                             \/ \E c \in Convs : DeleteConversation(c)
  PROVE  RefreshInv'
<1>1. ASSUME NEW d \in Docs \cup {None}, ActiveChanges(d)
      PROVE  RefreshInv'
  <2>1. SUFFICES ASSUME Undisturbed'
                 PROVE  OneHydration' /\ Kept'
    BY DEF RefreshInv
  <2>2. /\ Undisturbed /\ current = None /\ at' = at /\ active' = d /\ persisted' = persisted
        /\ d # None => Creating' = {}
    BY <1>1, <2>1 DEF ActiveChanges, Straying, Undisturbed, sendVars, Creating
  <2>3. OneHydration /\ Kept /\ Loading = {} /\ ~hydrating
    BY <2>2, ConstantsAssumption DEF RefreshInv, OneHydration, Loading
  <2>4. CASE d = None
    BY <1>1, <2>2, <2>3, <2>4 DEF ActiveChanges, OneHydration, Kept, Loading
  <2>5. CASE d # None /\ persisted = None
    <3>1. Loading' = {} /\ conv' = None /\ hydrating' = hydrating /\ current' = None
      BY <1>1, <2>3, <2>5 DEF ActiveChanges, StartHydration, Reset, Loading
    <3>2. QED
      BY <2>2, <2>3, <2>5, <3>1 DEF OneHydration, Kept
  <2>6. CASE d # None /\ persisted # None
    <3>1. PICK h \in Loads : /\ load' = [load EXCEPT ![h] = "list"]
                             /\ wanted' = [wanted EXCEPT ![h] = persisted]
                             /\ current' = h
      BY <1>1, <2>6 DEF ActiveChanges, StartHydration
    <3>2. hydrating' = TRUE
      BY <1>1, <2>6 DEF ActiveChanges, StartHydration
    <3>3. Loading' \subseteq {h} /\ wanted'[h] = persisted
      BY <2>3, <3>1 DEF Loading, TypeOK
    <3>4. QED
      BY <2>2, <2>6, <3>1, <3>2, <3>3, ConstantsAssumption DEF OneHydration, Kept
  <2>7. QED
    BY <2>4, <2>5, <2>6
<1>2. CASE NewChat
  <2>1. /\ UNCHANGED <<active, load, wanted, current, hydrating, at, Loading, Creating>>
        /\ persisted' = None /\ conv' = None
        /\ Undisturbed' => Undisturbed /\ current = None
    BY <1>2 DEF NewChat, Reset, loadVars, sendVars, Loading, Creating, Undisturbed
  <2>2. QED
    BY <2>1 DEF RefreshInv, OneHydration, Kept
<1>3. CASE Reload
  <2>1. Loading' = {} /\ hydrating' = FALSE /\ current' = None /\ active' = None
    BY <1>3 DEF Reload, Loading
  <2>2. QED
    BY <2>1 DEF RefreshInv, OneHydration, Kept
<1>4. ASSUME NEW c \in Convs, DeleteConversation(c)
      PROVE  RefreshInv'
  BY <1>4 DEF DeleteConversation, convVars, sendVars, loadVars, RefreshInv, Undisturbed, OneHydration,
              Kept, Creating, Loading
<1>5. QED
  BY <1>1, <1>2, <1>3, <1>4

\* What a refresh would look for is the conversation on the page, or none after a
\* failed read: sessionStorage follows the state through overlapping sends, new
\* chats, deletes and histories that load, on every page on which no hydration
\* was cancelled or met New Chat or a creation (ensureConversation,
\* hydrateConversation, newChat).
THEOREM RefreshAlwaysKeeps == Spec => []RefreshKeepsConversation
<1>1. Init => RefreshInv
  BY DEF Init, RefreshInv, Undisturbed, OneHydration, Kept, Creating, Loading
<1>2. TypeOK /\ RefreshInv /\ [Next]_vars => RefreshInv'
  <2>1. CASE UNCHANGED vars
    BY <2>1 DEF vars, serverVars, convVars, sendVars, loadVars, RefreshInv, Undisturbed, OneHydration, Kept,
                Creating, Loading
  <2>2. QED
    BY <2>1, SendRefresh, HydrateRefresh, PageRefresh DEF Next, SendStep
<1>3. RefreshInv => RefreshKeepsConversation
  BY DEF RefreshInv, Undisturbed, Kept, RefreshKeepsConversation
<1>4. QED
  BY <1>1, <1>2, <1>3, TypeCorrect, PTL DEF Spec
=============================================================================
