----------------------------- MODULE WebClient -----------------------------
(* The chat page of the web client (page.tsx) in the tabs of one browser, with *)
(* the list of chats they share in local storage (chatStorage.ts).  A request  *)
(* is awaited in the page's event loop, while its user may go to another chat, *)
(* start, reset or delete one, reload the tab, or work in the other tab.       *)
(*                                                                            *)
(* An action is one turn of the event loop with the render and the effects it  *)
(* causes, so the effect that stores the displayed chat is part of it.  Chats  *)
(* and requests are numbered in the order they are made; 0 stands for none.    *)
EXTENDS Naturals, SequencesExt

CONSTANTS
    Tabs,
    MaxChats,     \* bounds the chats made
    MaxRequests,  \* bounds the messages sent
    MaxUpsets,    \* bounds the upsets, expiries, cooldowns, refused texts and clipboards
    Actions,      \* the actions an answer may carry
    Texts,        \* what an error may say: the server's text or one of the page's
    Nobody

None == 0
Chats == 1..MaxChats
Requests == 1..MaxRequests

ASSUME Bounds ==
    /\ {MaxChats, MaxRequests, MaxUpsets} \subseteq Nat
    /\ Actions \subseteq {"ANSWER", "ASK_ONE_QUESTION", "REFUSE", "CLOSE", "FALLBACK",
                          "ANSWER_DEGRADED", "FAIL_GRACEFULLY", "BLOCK"}
    /\ Nobody \notin Tabs

VARIABLES
    tab,        \* the React state and refs of each tab
    store,      \* local storage: the messages of each chat it lists
    remembered, \* local storage: cognitive_current_session_id
    flight,     \* each request's call: where it is, and the tab that awaits it
    clipboard,  \* how many clipboard writes each tab awaits
    chats,      \* how many chats were made
    upsets,
    abandoned,  \* history: requests whose tab was reloaded, or left, emptied or closed the chat
    deleted     \* history: chats deleted while no other tab displayed them

vars == <<tab, store, remembered, flight, clipboard, chats, upsets, abandoned, deleted>>

closedActions == {"CLOSE", "REFUSE", "BLOCK"}
UiState == {"IDLE", "SENDING", "TERMINAL", "FAILED"}
Failed == "Request failed. Please retry."
CopyFailed == "Copy failed locally."
Notice == Texts \cup {Failed, CopyFailed}

User(r) == [role |-> "user", request |-> r]
Assistant(r, status, action) ==
    [role |-> "assistant", request |-> r, status |-> status, action |-> action]
System(r, text) == [role |-> "system", request |-> r, text |-> text, action |-> "FALLBACK"]

StoredMessage ==
    [role: {"user"}, request: Requests]
        \cup [role: {"assistant"}, request: Requests,
              status: {"pending", "done", "error"}, action: Actions \cup {"none"}]
        \cup [role: {"system"}, request: Requests \cup {None}, text: Notice, action: {"FALLBACK"}]

Blank == [messages |-> <<>>, uiState |-> "IDLE", chat |-> None, pendingRequest |-> None,
          lastUserText |-> FALSE, isExpired |-> FALSE, cooldownActive |-> FALSE]

----------------------------------------------------------------------------
(* What the page reads off its messages.                                      *)

Spoken(messages, roles) == SelectSeq(messages, LAMBDA m: m.role \in roles)

lastSystemAction(messages) ==
    LET spoken == Spoken(messages, {"assistant", "system"})
    IN  IF spoken = <<>> THEN "none" ELSE Last(spoken).action

inputDisabled(page) ==
    \/ page.uiState \in {"SENDING", "TERMINAL"}
    \/ lastSystemAction(page.messages) \in closedActions
    \/ page.cooldownActive

(* A notice is not repeated when the last one says the same.                   *)
pushSystemMessage(messages, r, text) ==
    LET notices == Spoken(messages, {"system"})
    IN  IF notices # <<>> /\ Last(notices).text = text THEN messages
        ELSE Append(messages, System(r, text))

replaceMessageById(messages, r, status, action) ==
    [i \in DOMAIN messages |->
        IF messages[i].role = "assistant" /\ messages[i].request = r
        THEN Assistant(r, status, action) ELSE messages[i]]

----------------------------------------------------------------------------
(* Local storage, and the effect that saves the displayed chat.  It runs when  *)
(* the messages, their chat or the session changed, and saves no empty chat.   *)

Listed == DOMAIN store

addOrUpdateSession(chat, messages) ==
    [c \in Listed \cup {chat} |-> IF c = chat THEN messages ELSE store[c]]

Render(t, page) ==
    /\ tab' = [tab EXCEPT ![t] = page]
    /\ store' = IF page.chat # None /\ page.messages # <<>>
                THEN addOrUpdateSession(page.chat, page.messages) ELSE store

Upset == upsets < MaxUpsets /\ upsets' = upsets + 1

(* A turn that changes nothing the effect depends on.                          *)
Show(t, page) == tab' = [tab EXCEPT ![t] = page] /\ UNCHANGED store

AwaitedBy(t) == {r \in Requests: flight[r].tab = t}

Leave(t) == abandoned' = abandoned \cup AwaitedBy(t)

setCurrentSessionId(chat) == remembered' = chat

(* The next chat's id, as crypto.randomUUID hands it out.                      *)
NewId == chats + 1

MakeChat(t) ==
    /\ chats < MaxChats
    /\ chats' = NewId
    /\ setCurrentSessionId(NewId)

(* Deviation: the new chat is shown in the state of the old one.               *)
StillSending(page) ==
    [page EXCEPT !.messages = <<>>, !.chat = NewId, !.pendingRequest = None,
                 !.lastUserText = FALSE, !.isExpired = FALSE]

(* Deviation: the fresh session goes on under the old chat's id.               *)
SameChat(page) ==
    [page EXCEPT !.messages = <<>>, !.uiState = "IDLE", !.pendingRequest = None,
                 !.lastUserText = FALSE, !.isExpired = FALSE]

(* A fresh chat in a fresh session; what was awaited is superseded.            *)
beginNewSession(page) ==
    [page EXCEPT !.messages = <<>>, !.uiState = "IDLE", !.chat = NewId, !.pendingRequest = None,
                 !.lastUserText = FALSE, !.isExpired = FALSE]

NewChat(t) ==
    /\ MakeChat(t)
    /\ Render(t, beginNewSession(tab[t]))
    /\ Leave(t)
    /\ UNCHANGED <<flight, upsets, deleted>>

----------------------------------------------------------------------------
(* Sending.                                                                   *)

(* handleSend gives a page without a chat one; sendMessage leaves an expired     *)
(* session for a fresh one before it looks at anything else.                   *)
OpenedPage(t) ==
    IF tab[t].isExpired THEN beginNewSession(tab[t])
    ELSE IF tab[t].chat = None THEN [tab[t] EXCEPT !.chat = NewId] ELSE tab[t]

OpenChat(t) ==
    /\ IF tab[t].isExpired \/ tab[t].chat = None
       THEN MakeChat(t) ELSE UNCHANGED <<chats, remembered>>
    /\ IF tab[t].isExpired THEN Leave(t) ELSE UNCHANGED abandoned

IsNext(r) ==
    /\ flight[r].at = "unsent"
    /\ \A q \in Requests: q < r => flight[q].at # "unsent"

Dispatch(t, page, r) ==
    /\ IsNext(r)
    /\ flight' = [flight EXCEPT ![r] = [at |-> "sent", tab |-> t]]
    /\ Render(t, [page EXCEPT !.messages = @ \o <<User(r), Assistant(r, "pending", "none")>>,
                              !.uiState = "SENDING", !.pendingRequest = r, !.lastUserText = TRUE])

handleSend(t) ==
    /\ ~inputDisabled(tab[t])
    /\ tab[t].uiState = "IDLE"
    /\ OpenChat(t)
    /\ \E r \in Requests: Dispatch(t, OpenedPage(t), r)
    /\ UNCHANGED <<upsets, deleted>>

(* The text is too long.                                                       *)
SendInvalid(t) ==
    /\ ~inputDisabled(tab[t])
    /\ tab[t].uiState = "IDLE"
    /\ OpenChat(t)
    /\ LET page == OpenedPage(t)
           noted == pushSystemMessage(page.messages, None, Failed)
       IN  IF noted = page.messages THEN Show(t, [page EXCEPT !.uiState = "FAILED"])
           ELSE Render(t, [page EXCEPT !.messages = noted, !.uiState = "FAILED"])
    /\ Upset
    /\ UNCHANGED <<flight, deleted>>

(* A failed page takes no new text, but it leaves its expired session.         *)
SendWhenFailed(t) ==
    /\ ~inputDisabled(tab[t])
    /\ tab[t].uiState = "FAILED"
    /\ tab[t].isExpired
    /\ OpenChat(t)
    /\ Render(t, OpenedPage(t))
    /\ UNCHANGED <<flight, upsets, deleted>>

retryLast(t) ==
    /\ tab[t].uiState = "FAILED"
    /\ tab[t].lastUserText
    /\ OpenChat(t)
    /\ \E r \in Requests: Dispatch(t, OpenedPage(t), r)
    /\ UNCHANGED <<upsets, deleted>>

----------------------------------------------------------------------------
(* The call of request r, awaited by tab t.                                    *)

(* Deviation: an ended call stays its tab's.                                   *)
StillHeld(r) == flight' = [flight EXCEPT ![r].at = "over"]

Land(r) == flight' = [flight EXCEPT ![r] = [at |-> "over", tab |-> Nobody]]

(* The cooldown header is used as soon as it is there, whatever was superseded. *)
Headers(t, r) ==
    /\ flight[r] = [at |-> "sent", tab |-> t]
    /\ flight' = [flight EXCEPT ![r].at = "headers"]
    /\ \E cooldown \in BOOLEAN:
        /\ IF cooldown THEN Upset ELSE UNCHANGED upsets
        /\ Show(t, [tab[t] EXCEPT !.cooldownActive = cooldown])
    /\ UNCHANGED <<remembered, chats, abandoned, deleted>>

isCurrent(t, r) == tab[t].pendingRequest = r

markError(page, r, text) ==
    [page EXCEPT !.messages = pushSystemMessage(
                                  replaceMessageById(@, r, "error", "none"), r, text),
                 !.uiState = "FAILED"]

Answered(page, r, action) ==
    [page EXCEPT !.messages = replaceMessageById(@, r, "done", action), !.uiState = "IDLE"]

(* The body of an answer, or of an error, or an empty one.                     *)
Body(t, r) ==
    /\ flight[r] = [at |-> "headers", tab |-> t]
    /\ Land(r)
    /\ IF isCurrent(t, r)
       THEN \/ \E action \in Actions \cup {"none"}: Render(t, Answered(tab[t], r, action))
            \/ \E text \in Texts: Render(t, markError(tab[t], r, text))
       ELSE UNCHANGED <<tab, store>>
    /\ UNCHANGED <<remembered, chats, upsets, abandoned, deleted>>

(* The catch: the timer of 30 s aborts a call without headers, a connection     *)
(* breaks at any time.                                                         *)
Fails(t, r) ==
    /\ flight[r].tab = t
    /\ Land(r)
    /\ IF isCurrent(t, r)
       THEN \E text \in Texts: Render(t, markError(tab[t], r, text))
       ELSE UNCHANGED <<tab, store>>
    /\ UNCHANGED <<remembered, chats, upsets, abandoned, deleted>>

----------------------------------------------------------------------------
(* The chats.                                                                  *)

(* Deviation: a reset leaves the request id as it is.                          *)
StillCurrent(page) ==
    [page EXCEPT !.messages = <<>>, !.uiState = "IDLE", !.lastUserText = FALSE]

(* Reset empties the chat in place and keeps its session.                      *)
emptied(page) ==
    [page EXCEPT !.messages = <<>>, !.uiState = "IDLE", !.pendingRequest = None,
                 !.lastUserText = FALSE]

resetChat(t) ==
    /\ tab' = [tab EXCEPT ![t] = emptied(tab[t])]
    /\ store' = IF tab[t].chat = None THEN store ELSE addOrUpdateSession(tab[t].chat, <<>>)
    /\ Leave(t)
    /\ UNCHANGED <<flight, remembered, chats, upsets, deleted>>

HasUser(messages) == \E i \in DOMAIN messages: messages[i].role = "user"

(* Only notices are looked at, so a chat that ever failed is FAILED again; what  *)
(* is awaited stays current.                                                   *)
handleSelectSession(t, c) ==
    /\ c \in Listed
    /\ setCurrentSessionId(c)
    /\ Render(t, [tab[t] EXCEPT
           !.messages = store[c],
           !.chat = c,
           !.lastUserText = @ \/ HasUser(store[c]),
           !.uiState = IF Spoken(store[c], {"system"}) = <<>> THEN "IDLE" ELSE "FAILED"])
    /\ UNCHANGED <<flight, chats, upsets, abandoned, deleted>>

(* The sidebar lists the stored chats, and the displayed one though another tab *)
(* deleted it.                                                                 *)
Deletable(t) == Listed \cup {c \in Chats: tab[t].chat = c /\ tab[t].messages # <<>>}

handleDeleteSession(t, c) ==
    /\ c \in Deletable(t)
    /\ store' = Restrict(store, Listed \ {c})
    /\ IF tab[t].chat = c
       THEN MakeChat(t) /\ Leave(t) /\ tab' = [tab EXCEPT ![t] = beginNewSession(tab[t])]
       ELSE /\ remembered' = IF remembered = c THEN None ELSE remembered
            /\ UNCHANGED <<chats, abandoned, tab>>
    /\ deleted' = IF \E u \in Tabs \ {t}: tab[u].chat = c THEN deleted ELSE deleted \cup {c}
    /\ UNCHANGED <<flight, upsets>>

(* The last notice's text, or the transcript, is written to the clipboard.  A    *)
(* write that succeeds changes nothing, so it may as well be awaited still.     *)
copyMessage(t) ==
    /\ Spoken(tab[t].messages, {"system"}) # <<>>
    /\ Upset
    /\ clipboard' = [clipboard EXCEPT ![t] = @ + 1]
    /\ UNCHANGED <<tab, store, flight, remembered, chats, abandoned, deleted>>

(* The write is refused: the notice goes to the chat the page displays by then. *)
copyFails(t) ==
    LET noted == pushSystemMessage(tab[t].messages, None, CopyFailed)
    IN  /\ clipboard[t] > 0
        /\ clipboard' = [clipboard EXCEPT ![t] = @ - 1]
        /\ IF noted = tab[t].messages THEN UNCHANGED <<tab, store>>
           ELSE Render(t, [tab[t] EXCEPT !.messages = noted])
        /\ UNCHANGED <<flight, remembered, chats, upsets, abandoned, deleted>>

----------------------------------------------------------------------------
(* The tab and the clock.                                                      *)

RestoredUi(messages) ==
    LET action == lastSystemAction(messages)
    IN  IF action \in {"REFUSE", "CLOSE"} THEN "TERMINAL"
        ELSE IF action = "FALLBACK" THEN "FAILED" ELSE "IDLE"

(* The page's effect on mount: the remembered chat, when it is still listed.   *)
Mounted ==
    IF remembered \in Listed
    THEN [Blank EXCEPT !.chat = remembered, !.messages = store[remembered],
                       !.lastUserText = HasUser(store[remembered]),
                       !.uiState = RestoredUi(store[remembered])]
    ELSE Blank

(* A reload ends all the tab awaits; loadSession takes no expired session.      *)
Reload(t) ==
    /\ Upset
    /\ Render(t, Mounted)
    /\ flight' = [r \in Requests |-> IF flight[r].tab = t THEN [at |-> "over", tab |-> Nobody]
                                     ELSE flight[r]]
    /\ clipboard' = [clipboard EXCEPT ![t] = 0]
    /\ Leave(t)
    /\ UNCHANGED <<remembered, chats, deleted>>

Expire(t) ==
    /\ ~tab[t].isExpired
    /\ Upset
    /\ Show(t, [tab[t] EXCEPT !.isExpired = TRUE])
    /\ UNCHANGED <<flight, remembered, chats, abandoned, deleted>>

CooledDown(t) ==
    /\ tab[t].cooldownActive
    /\ Show(t, [tab[t] EXCEPT !.cooldownActive = FALSE])
    /\ UNCHANGED <<flight, remembered, chats, upsets, abandoned, deleted>>

----------------------------------------------------------------------------
Init ==
    /\ tab = [t \in Tabs |-> Blank]
    /\ store = <<>>
    /\ remembered = None
    /\ flight = [r \in Requests |-> [at |-> "unsent", tab |-> Nobody]]
    /\ clipboard = [t \in Tabs |-> 0]
    /\ chats = 0
    /\ upsets = 0
    /\ abandoned = {}
    /\ deleted = {}

Next ==
    \E t \in Tabs:
        \/ /\ UNCHANGED clipboard
           /\ \/ handleSend(t)
              \/ SendInvalid(t)
              \/ SendWhenFailed(t)
              \/ retryLast(t)
              \/ \E r \in Requests: Headers(t, r) \/ Body(t, r) \/ Fails(t, r)
              \/ NewChat(t)
              \/ resetChat(t)
              \/ \E c \in Chats: handleSelectSession(t, c) \/ handleDeleteSession(t, c)
              \/ Expire(t)
              \/ CooledDown(t)
        \/ copyMessage(t)
        \/ copyFails(t)
        \/ Reload(t)

Spec == Init /\ [][Next]_vars

----------------------------------------------------------------------------
Transcript == Seq(StoredMessage)

Page == [messages: Transcript, uiState: UiState, chat: Chats \cup {None},
         pendingRequest: Requests \cup {None},
         lastUserText: BOOLEAN, isExpired: BOOLEAN, cooldownActive: BOOLEAN]

(* The types of what the actions share.                                         *)
PagesOK ==
    /\ tab \in [Tabs -> Page]
    /\ Listed \subseteq Chats /\ \A c \in Listed: store[c] \in Transcript
    /\ remembered \in Chats \cup {None}
    /\ flight \in [Requests -> [at: {"unsent", "sent", "headers", "over"}, tab: Tabs \cup {Nobody}]]
    /\ \A r \in Requests: flight[r].tab # Nobody <=> flight[r].at \in {"sent", "headers"}
    /\ chats \in 0..MaxChats /\ upsets \in 0..MaxUpsets
    /\ abandoned \subseteq Requests /\ deleted \subseteq Chats

(* The type invariant.                                                         *)
TypeOK == PagesOK /\ clipboard \in [Tabs -> Nat]

(* A page that shows SENDING waits for a call that is under way, so its answer  *)
(* or failure frees the composer: whatever supersedes a request (new chat,     *)
(* reset, delete, an expired session) also leaves SENDING.                           *)
SendingIsAwaited ==
    \A t \in Tabs: tab[t].uiState = "SENDING" =>
        \E r \in Requests: isCurrent(t, r) /\ flight[r].tab = t

Shown == {tab[t].messages: t \in Tabs} \cup {store[c]: c \in Listed}

IsOutcome(m) == m.role = "system" \/ (m.role = "assistant" /\ m.status # "pending")

(* Once the user left a chat for a new one, reset or deleted it, or reloaded    *)
(* the tab, the answer or the error of a request under way then is never shown *)
(* in any tab, nor stored in any chat.                                         *)
LateIsIgnored ==
    \A messages \in Shown: \A i \in DOMAIN messages:
        messages[i].request \in abandoned => ~IsOutcome(messages[i])

(* A chat deleted while no other tab displays it is gone for good: neither the  *)
(* effect that stores the displayed chat nor a late answer brings it back.     *)
DeletedIsGone == deleted \cap Listed = {}

=============================================================================
