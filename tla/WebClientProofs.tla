-------------------------- MODULE WebClientProofs --------------------------
(* Proofs about WebClient, for any number of tabs, chats, requests and upsets. *)
(* A turn of the event loop is looked at for the one page it renders: what it  *)
(* may put there, and what that leaves in local storage.                       *)
EXTENDS WebClient, SequenceTheorems, TLAPS

LEMMA Numbers ==
    /\ MaxChats \in Nat /\ MaxRequests \in Nat /\ MaxUpsets \in Nat
    /\ None = 0 /\ None \notin Requests /\ None \notin Chats
    /\ Nobody \notin Tabs
  BY Bounds DEF None, Requests, Chats

----------------------------------------------------------------------------
(* Messages.                                                                  *)

LEMMA MessagesAre ==
    ASSUME NEW r \in Requests
    PROVE  /\ User(r) \in StoredMessage /\ User(r).request = r /\ ~IsOutcome(User(r))
           /\ Assistant(r, "pending", "none") \in StoredMessage
           /\ Assistant(r, "pending", "none").request = r
           /\ ~IsOutcome(Assistant(r, "pending", "none"))
           /\ \A action \in Actions \cup {"none"}, status \in {"done", "error"}:
                 /\ Assistant(r, status, action) \in StoredMessage
                 /\ Assistant(r, status, action).request = r
  BY DEF User, Assistant, StoredMessage, IsOutcome

LEMMA NoticesAre ==
    ASSUME NEW r \in Requests \cup {None}, NEW text \in Notice
    PROVE  System(r, text) \in StoredMessage /\ System(r, text).request = r
  BY DEF System, StoredMessage

LEMMA StoreIs ==
    ASSUME NEW c, NEW ms
    PROVE  /\ DOMAIN addOrUpdateSession(c, ms) = Listed \cup {c}
           /\ addOrUpdateSession(c, ms)[c] = ms
           /\ \A d \in Listed \ {c}: addOrUpdateSession(c, ms)[d] = store[d]
  BY DEF addOrUpdateSession, Listed


(* What is appended is all that is new.                                        *)
LEMMA AppendIs ==
    ASSUME NEW ms \in Transcript, NEW m \in StoredMessage
    PROVE  /\ Append(ms, m) \in Transcript
           /\ \A i \in DOMAIN Append(ms, m):
                 Append(ms, m)[i] = m \/ \E j \in DOMAIN ms: Append(ms, m)[i] = ms[j]
  BY DEF Transcript

(* Replacing changes no message into anything but the replacement.             *)
LEMMA ReplaceIs ==
    ASSUME NEW ms \in Transcript, NEW r \in Requests, NEW status, NEW action,
           Assistant(r, status, action) \in StoredMessage
    PROVE  LET new == replaceMessageById(ms, r, status, action) IN
           /\ new \in Transcript
           /\ \A i \in DOMAIN new:
                 new[i] = Assistant(r, status, action) \/ \E j \in DOMAIN ms: new[i] = ms[j]
  <1> DEFINE a == Assistant(r, status, action)
             new == replaceMessageById(ms, r, status, action)
  <1>1. ms \in [1..Len(ms) -> StoredMessage] /\ Len(ms) \in Nat /\ DOMAIN ms = 1..Len(ms)
    BY DEF Transcript
  <1>2. new = [i \in 1..Len(ms) |->
                  IF ms[i].role = "assistant" /\ ms[i].request = r THEN a ELSE ms[i]]
    BY <1>1 DEF replaceMessageById
  <1> HIDE DEF a, new
  <1>3. new \in [1..Len(ms) -> StoredMessage]
    BY <1>1, <1>2 DEF a
  <1>4. new \in Transcript
    BY <1>1, <1>3, SeqDef DEF Transcript
  <1>5. \A i \in DOMAIN new: new[i] = a \/ \E j \in DOMAIN ms: new[i] = ms[j]
    BY <1>1, <1>2
  <1> QED
    BY <1>4, <1>5 DEF a, new

----------------------------------------------------------------------------
(* The inductive invariant.                                                    *)

Transfer == [at: {"unsent", "sent", "headers", "over"}, tab: Tabs \cup {Nobody}]

FlightOK ==
    /\ flight \in [Requests -> Transfer]
    /\ \A r \in Requests: flight[r].tab # Nobody <=> flight[r].at \in {"sent", "headers"}

(* An outcome among the messages is one of a call that is over and that nobody *)
(* left before it was.                                                         *)
Settled(messages) ==
    \A i \in DOMAIN messages: IsOutcome(messages[i]) =>
        \/ messages[i].request = None
        \/ /\ flight[messages[i].request].at = "over"
           /\ messages[i].request \notin abandoned

(* A page awaits what it shows, and its current request was not abandoned.     *)
Awaits(t) ==
    /\ tab[t].uiState = "SENDING" =>
          tab[t].pendingRequest \in Requests /\ flight[tab[t].pendingRequest].tab = t
    /\ \A r \in Requests: tab[t].pendingRequest = r /\ flight[r].tab = t => r \notin abandoned

(* Chats that were made are displayed, listed or deleted; the deleted ones are  *)
(* neither displayed nor listed.                                                *)
Gone ==
    /\ Listed \subseteq 1..chats /\ deleted \subseteq 1..chats
    /\ \A t \in Tabs: tab[t].chat \in 0..chats /\ tab[t].chat \notin deleted
    /\ deleted \cap Listed = {}

IInv ==
    /\ PagesOK
    /\ \A t \in Tabs: Settled(tab[t].messages) /\ Awaits(t)
    /\ \A c \in Listed: Settled(store[c])
    /\ \A r \in abandoned: flight[r].at # "unsent"
    /\ Gone

(* The same after a step, of messages that the step was given.                 *)
SettledNext(messages) ==
    \A i \in DOMAIN messages: IsOutcome(messages[i]) =>
        \/ messages[i].request = None
        \/ /\ flight'[messages[i].request].at = "over"
           /\ messages[i].request \notin abandoned'

(* How a turn of tab t may change the calls: none starts anew once over or sent, *)
(* and those that other tabs await stay theirs.                                *)
FlightMoves(t) ==
    /\ FlightOK'
    /\ \A r \in Requests:
          /\ flight[r].at = "over" => flight'[r].at = "over"
          /\ flight[r].at # "unsent" => flight'[r].at # "unsent"
          /\ \A u \in Tabs \ {t}: flight'[r].tab = u <=> flight[r].tab = u

(* What a turn of tab t may do to the chats that are deleted.                  *)
DeletionMoves(t) ==
    \/ deleted' = deleted
    \/ /\ deleted' \cap Listed' = {} /\ deleted' \subseteq 1..chats'
       /\ \A u \in Tabs \ {t}: tab[u].chat \notin deleted'

(* The turn renders page in tab t, and stores at most it or an emptied chat.    *)
Turn(t, page) ==
    /\ tab' = [tab EXCEPT ![t] = page]
    /\ Listed' \subseteq Listed \cup ({page.chat} \ {None})
    /\ \A c \in Listed': \/ store'[c] \in {page.messages, <<>>}
                         \/ c \in Listed /\ store'[c] = store[c]

(* What was settled before a turn is settled after it.                         *)
LEMMA StaysSettled ==
    ASSUME IInv, NEW t \in Tabs, FlightMoves(t),
           abandoned' \subseteq abandoned \cup AwaitedBy(t),
           NEW ms \in Transcript, Settled(ms)
    PROVE  SettledNext(ms)
  <1>1. /\ FlightOK /\ abandoned \subseteq Requests
        /\ \A i \in DOMAIN ms: ms[i].request \in Requests \cup {None}
    BY DEF IInv, PagesOK, FlightOK, Transfer, Transcript, StoredMessage
  <1>2. \A r \in Requests: flight[r].at = "over" =>
           flight'[r].at = "over" /\ (r \notin abandoned => r \notin abandoned')
    BY <1>1, Numbers DEF FlightMoves, AwaitedBy, FlightOK
  <1> QED
    BY <1>1, <1>2 DEF Settled, SettledNext

LEMMA TurnKeeps ==
    ASSUME IInv, NEW t \in Tabs, NEW page \in Page, Turn(t, page),
           FlightMoves(t), DeletionMoves(t),
           abandoned \subseteq abandoned', abandoned' \subseteq abandoned \cup AwaitedBy(t),
           remembered' \in Chats \cup {None}, upsets' \in 0..MaxUpsets,
           chats' \in 0..MaxChats, chats <= chats',
           page.chat \in 0..chats', page.chat \notin deleted',
           page.uiState = "SENDING" =>
              page.pendingRequest \in Requests /\ flight'[page.pendingRequest].tab = t,
           \A r \in Requests: page.pendingRequest = r /\ flight'[r].tab = t => r \notin abandoned',
           SettledNext(page.messages)
    PROVE  IInv'
  <1>1. /\ PagesOK /\ FlightOK /\ Gone
        /\ tab \in [Tabs -> Page] /\ chats \in 0..MaxChats /\ abandoned \subseteq Requests
        /\ \A u \in Tabs: Settled(tab[u].messages) /\ Awaits(u)
        /\ \A c \in Listed: Settled(store[c])
        /\ \A r \in abandoned: flight[r].at # "unsent"
    BY DEF IInv, PagesOK, FlightOK, Transfer
  <1>2. tab' \in [Tabs -> Page] /\ tab'[t] = page /\ \A u \in Tabs \ {t}: tab'[u] = tab[u]
    BY <1>1 DEF Turn
  <1>4. SettledNext(<<>>)
    BY DEF SettledNext
  <1>5. ASSUME NEW ms \in Transcript, Settled(ms)
        PROVE  SettledNext(ms)
    BY <1>5, StaysSettled
  <1>6. \A u \in Tabs: tab[u].messages \in Transcript
    BY <1>1 DEF Page
  <1>7. \A u \in Tabs: Settled(tab[u].messages)'
    <2>1. \A u \in Tabs: SettledNext(tab'[u].messages)
      BY <1>1, <1>2, <1>5, <1>6
    <2> QED
      BY <2>1 DEF Settled, SettledNext
  <1>8. \A c \in Listed': Settled(store[c])' /\ store'[c] \in Transcript
    <2> SUFFICES ASSUME NEW c \in Listed' PROVE SettledNext(store'[c]) /\ store'[c] \in Transcript
      BY DEF Settled, SettledNext
    <2>1. CASE store'[c] \in {page.messages, <<>>}
      <3>1. page.messages \in Transcript /\ <<>> \in Transcript
        BY DEF Page, Transcript
      <3> QED
        BY <2>1, <3>1, <1>4
    <2>2. CASE c \in Listed /\ store'[c] = store[c]
      <3>1. store[c] \in Transcript
        BY <2>2, <1>1 DEF PagesOK
      <3> QED
        BY <2>2, <3>1, <1>1, <1>5
    <2> QED
      BY <2>1, <2>2 DEF Turn
  <1>9. \A u \in Tabs: Awaits(u)'
    <2>1. Awaits(t)'
      BY <1>2 DEF Awaits
    <2>2. ASSUME NEW u \in Tabs \ {t}
          PROVE  Awaits(u)'
      <3>1. tab'[u] = tab[u] /\ Awaits(u)
        BY <1>1, <1>2
      <3>2. \A r \in Requests: flight'[r].tab = u => flight[r].tab = u
        BY DEF FlightMoves
      <3>3. \A r \in Requests: flight[r].tab = u => flight'[r].tab = u /\ r \notin AwaitedBy(t)
        BY DEF FlightMoves, AwaitedBy
      <3> QED
        BY <3>1, <3>2, <3>3 DEF Awaits
    <2> QED
      BY <2>1, <2>2
  <1>10. Listed' \subseteq 1..chats'
    BY <1>1, Numbers DEF Turn, Gone
  <1>11. Gone'
    <2>1. \A u \in Tabs: tab'[u].chat \in 0..chats'
      BY <1>1, <1>2, Numbers DEF Gone
    <2>2. \A u \in Tabs: tab'[u].chat \notin deleted'
      BY <1>1, <1>2 DEF Gone, DeletionMoves
    <2>3. deleted' \cap Listed' = {} /\ deleted' \subseteq 1..chats'
      <3>1. CASE deleted' = deleted
        <4>1. 1..chats \subseteq 1..chats'
          BY <1>1, Numbers
        <4>2. deleted' \cap Listed' = {}
          BY <3>1, <1>1 DEF Gone, Turn
        <4> QED
          BY <3>1, <4>1, <4>2, <1>1 DEF Gone
      <3>2. CASE deleted' # deleted
        BY <3>2 DEF DeletionMoves
      <3> QED
        BY <3>1, <3>2
    <2> QED
      BY <1>10, <2>1, <2>2, <2>3 DEF Gone
  <1>12. \A r \in abandoned': flight'[r].at # "unsent"
    BY <1>1, Numbers DEF FlightMoves, AwaitedBy, FlightOK
  <1>13. PagesOK'
    <2>1. abandoned' \subseteq Requests
      BY <1>1 DEF AwaitedBy
    <2>2. Listed' \subseteq Chats /\ deleted' \subseteq Chats
      BY <1>10, <1>11, Numbers DEF Gone, Chats
    <2> QED
      BY <1>2, <1>8, <2>1, <2>2 DEF PagesOK, FlightMoves, FlightOK, Transfer
  <1> QED
    BY <1>1, <1>7, <1>8, <1>9, <1>11, <1>12, <1>13 DEF IInv

----------------------------------------------------------------------------
(* What the turns are made of.                                                 *)

(* The page of a tab, before its turn.                                         *)
LEMMA PageIs ==
    ASSUME IInv, NEW t \in Tabs
    PROVE  /\ PagesOK /\ FlightOK /\ tab \in [Tabs -> Page]
           /\ tab[t] \in Page /\ tab[t].messages \in Transcript /\ Settled(tab[t].messages)
           /\ Awaits(t) /\ tab[t].chat \in 0..chats /\ tab[t].chat \notin deleted
           /\ chats \in 0..MaxChats /\ chats \in Nat /\ upsets \in 0..MaxUpsets
           /\ remembered \in Chats \cup {None}
           /\ abandoned \subseteq Requests /\ AwaitedBy(t) \subseteq Requests
           /\ \A r \in abandoned: flight[r].at # "unsent"
           /\ Listed \subseteq 1..chats /\ deleted \subseteq 1..chats /\ deleted \cap Listed = {}
           /\ \A c \in Listed: store[c] \in Transcript /\ Settled(store[c])
  BY Numbers DEF IInv, PagesOK, FlightOK, Transfer, Page, Gone, AwaitedBy

LEMMA RenderIs ==
    ASSUME NEW t \in Tabs, NEW page, Render(t, page)
    PROVE  Turn(t, page)
  BY DEF Render, Turn, addOrUpdateSession, Listed

LEMMA ShowIs ==
    ASSUME NEW t \in Tabs, NEW page, Show(t, page)
    PROVE  Turn(t, page)
  BY DEF Show, Turn, Listed

LEMMA QuietIs ==
    ASSUME IInv, NEW t \in Tabs, UNCHANGED <<tab, store>>
    PROVE  Turn(t, tab[t])
  BY DEF IInv, PagesOK, Turn, Listed

LEMMA FlightStays ==
    ASSUME IInv, NEW t \in Tabs, UNCHANGED flight
    PROVE  FlightMoves(t)
  BY DEF IInv, PagesOK, FlightMoves, FlightOK, Transfer

LEMMA LandIs ==
    ASSUME IInv, NEW t \in Tabs, NEW r \in Requests, flight[r].tab = t, Land(r)
    PROVE  /\ FlightMoves(t) /\ flight'[r].at = "over" /\ flight'[r].tab # t
           /\ \A q \in Requests \ {r}: flight'[q] = flight[q]
  <1>1. FlightOK /\ Nobody \notin Tabs
    BY PageIs, Numbers
  <1>2. flight'[r] = [at |-> "over", tab |-> Nobody] /\ \A q \in Requests \ {r}: flight'[q] = flight[q]
    BY <1>1 DEF Land, FlightOK
  <1>3. flight' \in [Requests -> Transfer]
    BY <1>1 DEF Land, FlightOK, Transfer
  <1> QED
    BY <1>1, <1>2, <1>3 DEF FlightMoves, FlightOK

LEMMA FreshPage ==
    ASSUME NEW p \in Page, chats < MaxChats, chats \in Nat
    PROVE  LET q == beginNewSession(p) IN
           /\ q \in Page /\ q.messages = <<>> /\ q.uiState = "IDLE"
           /\ q.chat = chats + 1 /\ q.pendingRequest = None
  <1>1. chats + 1 \in Chats /\ None \in Requests \cup {None} /\ <<>> \in Transcript
    BY Numbers DEF Chats, Transcript
  <1> QED
    BY <1>1 DEF beginNewSession, NewId, Page, UiState

(* The page a message is sent from: the one displayed, or a fresh one.          *)
LEMMA OpenedIs ==
    ASSUME IInv, NEW t \in Tabs, OpenChat(t), tab[t].uiState # "SENDING"
    PROVE  LET p == OpenedPage(t) IN
           /\ p \in Page /\ p.uiState # "SENDING"
           /\ p.messages \in Transcript /\ Settled(p.messages)
           /\ chats' \in 0..MaxChats /\ chats <= chats'
           /\ p.chat \in 0..chats' /\ p.chat \notin deleted
           /\ remembered' \in Chats \cup {None}
           /\ abandoned \subseteq abandoned' /\ abandoned' \subseteq abandoned \cup AwaitedBy(t)
           /\ \A r \in Requests: p.pendingRequest = r /\ flight[r].tab = t => r \notin abandoned'
  <1>1. Settled(<<>>) /\ <<>> \in Transcript
    BY DEF Settled, Transcript
  <1>2. CASE tab[t].isExpired
    <2>1. /\ chats < MaxChats /\ chats' = chats + 1 /\ remembered' = chats + 1
          /\ abandoned' = abandoned \cup AwaitedBy(t)
      BY <1>2 DEF OpenChat, MakeChat, NewId, setCurrentSessionId, Leave
    <2>2. OpenedPage(t) = beginNewSession(tab[t])
      BY <1>2 DEF OpenedPage
    <2>3. /\ OpenedPage(t) \in Page /\ OpenedPage(t).messages = <<>>
          /\ OpenedPage(t).uiState = "IDLE" /\ OpenedPage(t).chat = chats + 1
          /\ OpenedPage(t).pendingRequest = None
      BY <2>1, <2>2, FreshPage, PageIs
    <2>4. chats + 1 \in Chats /\ chats + 1 \notin deleted
      BY <2>1, PageIs, Numbers DEF Chats
    <2> QED
      BY <2>1, <2>3, <2>4, <1>1, PageIs, Numbers
  <1>3. CASE ~tab[t].isExpired /\ tab[t].chat = None
    <2>1. /\ chats < MaxChats /\ chats' = chats + 1 /\ remembered' = chats + 1
          /\ abandoned' = abandoned
      BY <1>3 DEF OpenChat, MakeChat, NewId, setCurrentSessionId
    <2>2. OpenedPage(t) = [tab[t] EXCEPT !.chat = chats + 1]
      BY <1>3 DEF OpenedPage, NewId
    <2>3. chats + 1 \in Chats /\ chats + 1 \notin deleted
      BY <2>1, PageIs, Numbers DEF Chats
    <2>4. /\ OpenedPage(t) \in Page /\ OpenedPage(t).messages = tab[t].messages
          /\ OpenedPage(t).uiState = tab[t].uiState /\ OpenedPage(t).chat = chats + 1
          /\ OpenedPage(t).pendingRequest = tab[t].pendingRequest
      BY <2>2, <2>3, PageIs DEF Page
    <2> QED
      BY <2>1, <2>3, <2>4, PageIs, Numbers DEF Awaits
  <1>4. CASE ~tab[t].isExpired /\ tab[t].chat # None
    <2>1. UNCHANGED <<chats, remembered, abandoned>>
      BY <1>4 DEF OpenChat
    <2>2. OpenedPage(t) = tab[t]
      BY <1>4 DEF OpenedPage
    <2> QED
      BY <2>1, <2>2, PageIs DEF Awaits
  <1> QED
    BY <1>2, <1>3, <1>4

(* The two messages of a request that is sent.                                 *)
LEMMA SentIs ==
    ASSUME NEW ms \in Transcript, NEW r \in Requests
    PROVE  LET new == ms \o <<User(r), Assistant(r, "pending", "none")>> IN
           /\ new \in Transcript
           /\ \A i \in DOMAIN new: ~IsOutcome(new[i]) \/ \E j \in DOMAIN ms: new[i] = ms[j]
  <1> DEFINE a == User(r)
             b == Assistant(r, "pending", "none")
  <1>1. a \in StoredMessage /\ b \in StoredMessage /\ ~IsOutcome(a) /\ ~IsOutcome(b)
    BY MessagesAre
  <1> HIDE DEF a, b
  <1>2. ms \o <<a, b>> \in Transcript
    BY <1>1 DEF Transcript
  <1>3. \A i \in DOMAIN (ms \o <<a, b>>):
           (ms \o <<a, b>>)[i] \in {a, b} \/ \E j \in DOMAIN ms: (ms \o <<a, b>>)[i] = ms[j]
    BY <1>1 DEF Transcript
  <1> QED
    BY <1>1, <1>2, <1>3 DEF a, b

LEMMA DispatchKeeps ==
    ASSUME IInv, NEW t \in Tabs, NEW r \in Requests, OpenChat(t), tab[t].uiState # "SENDING",
           Dispatch(t, OpenedPage(t), r), UNCHANGED <<upsets, deleted>>
    PROVE  IInv'
  <1> DEFINE p == OpenedPage(t)
             ms == p.messages \o <<User(r), Assistant(r, "pending", "none")>>
             page == [p EXCEPT !.messages = ms, !.uiState = "SENDING",
                               !.pendingRequest = r, !.lastUserText = TRUE]
  <1>1. /\ p \in Page /\ p.messages \in Transcript /\ Settled(p.messages)
        /\ chats' \in 0..MaxChats /\ chats <= chats'
        /\ p.chat \in 0..chats' /\ p.chat \notin deleted
        /\ remembered' \in Chats \cup {None}
        /\ abandoned \subseteq abandoned' /\ abandoned' \subseteq abandoned \cup AwaitedBy(t)
    BY OpenedIs
  <1>2. Render(t, page)
    BY DEF Dispatch
  <1> HIDE DEF p
  <1>3. ms \in Transcript
        /\ \A i \in DOMAIN ms: ~IsOutcome(ms[i]) \/ \E j \in DOMAIN p.messages: ms[i] = p.messages[j]
    BY <1>1, SentIs
  <1> HIDE DEF ms
  <1>4. /\ page \in Page /\ page.messages = ms /\ page.chat = p.chat
        /\ page.pendingRequest = r
    BY <1>1, <1>3 DEF Page, UiState
  <1> HIDE DEF page
  <1>5. /\ FlightOK /\ flight[r].at = "unsent" /\ flight[r].tab = Nobody /\ Nobody \notin Tabs
        /\ r \notin abandoned'
    <2>1. FlightOK /\ flight[r].at = "unsent" /\ r \notin abandoned
      BY PageIs DEF Dispatch, IsNext
    <2> QED
      BY <2>1, <1>1, Numbers DEF FlightOK, AwaitedBy
  <1>6. FlightMoves(t) /\ flight'[r].tab = t
    <2>1. /\ flight'[r] = [at |-> "sent", tab |-> t]
          /\ \A q \in Requests \ {r}: flight'[q] = flight[q]
          /\ flight' \in [Requests -> Transfer]
      BY <1>5 DEF Dispatch, FlightOK, Transfer
    <2> QED
      BY <2>1, <1>5 DEF FlightMoves, FlightOK
  <1>7. SettledNext(ms)
    <2>1. SettledNext(p.messages)
      BY <1>1, <1>6, StaysSettled
    <2> QED
      BY <2>1, <1>3 DEF SettledNext
  <1> QED
    BY <1>1, <1>2, <1>4, <1>5, <1>6, <1>7, PageIs, RenderIs, TurnKeeps DEF DeletionMoves

(* A page that shows one more notice of no request, or the same messages.       *)
LEMMA NotedIs ==
    ASSUME NEW ms \in Transcript, NEW r \in Requests \cup {None}, NEW text \in Notice,
           SettledNext(ms),
           r # None => flight'[r].at = "over" /\ r \notin abandoned'
    PROVE  /\ pushSystemMessage(ms, r, text) \in Transcript
           /\ SettledNext(pushSystemMessage(ms, r, text))
  <1>1. pushSystemMessage(ms, r, text) \in {ms, Append(ms, System(r, text))}
    BY DEF pushSystemMessage
  <1>2. System(r, text) \in StoredMessage /\ System(r, text).request = r
    BY NoticesAre
  <1>3. Append(ms, System(r, text)) \in Transcript /\ SettledNext(Append(ms, System(r, text)))
    BY <1>2, AppendIs DEF SettledNext
  <1> QED
    BY <1>1, <1>3

LEMMA SendInvalidKeeps ==
    ASSUME IInv, NEW t \in Tabs, SendInvalid(t)
    PROVE  IInv'
  <1> DEFINE p == OpenedPage(t)
             noted == pushSystemMessage(p.messages, None, Failed)
  <1>1. /\ p \in Page /\ p.messages \in Transcript /\ Settled(p.messages)
        /\ chats' \in 0..MaxChats /\ chats <= chats'
        /\ p.chat \in 0..chats' /\ p.chat \notin deleted
        /\ remembered' \in Chats \cup {None}
        /\ abandoned \subseteq abandoned' /\ abandoned' \subseteq abandoned \cup AwaitedBy(t)
        /\ \A r \in Requests: p.pendingRequest = r /\ flight[r].tab = t => r \notin abandoned'
    BY OpenedIs DEF SendInvalid
  <1>2. UNCHANGED <<flight, deleted>> /\ upsets' \in 0..MaxUpsets
    BY PageIs, Numbers DEF SendInvalid, Upset
  <1>3. FlightMoves(t) /\ DeletionMoves(t)
    BY <1>2, FlightStays DEF DeletionMoves
  <1>4. PICK ms \in {p.messages, noted} :
           Turn(t, [p EXCEPT !.messages = ms, !.uiState = "FAILED"])
    <2>1. CASE noted = p.messages
      <3>1. Show(t, [p EXCEPT !.uiState = "FAILED"])
        BY <2>1 DEF SendInvalid
      <3> HIDE DEF p, noted
      <3>2. [p EXCEPT !.uiState = "FAILED"] = [p EXCEPT !.messages = p.messages, !.uiState = "FAILED"]
        BY <1>1 DEF Page
      <3> QED
        BY <3>1, <3>2, ShowIs
    <2>2. CASE noted # p.messages
      <3>1. Render(t, [p EXCEPT !.messages = noted, !.uiState = "FAILED"])
        BY <2>2 DEF SendInvalid
      <3> HIDE DEF p, noted
      <3> QED
        BY <3>1, RenderIs
    <2> QED
      BY <2>1, <2>2
  <1> HIDE DEF p
  <1>5. SettledNext(p.messages)
    BY <1>1, <1>3, StaysSettled
  <1>6. noted \in Transcript /\ SettledNext(noted)
    BY <1>1, <1>5, NotedIs DEF Notice
  <1> HIDE DEF noted
  <1> DEFINE page == [p EXCEPT !.messages = ms, !.uiState = "FAILED"]
  <1>7. /\ page \in Page /\ page.messages = ms /\ page.uiState = "FAILED"
        /\ page.chat = p.chat /\ page.pendingRequest = p.pendingRequest
    <2>1. "FAILED" \in UiState /\ ms \in Transcript
      BY <1>1, <1>4, <1>6 DEF UiState
    <2> QED
      BY <1>1, <2>1 DEF Page
  <1>8. Turn(t, page) /\ SettledNext(page.messages)
    BY <1>4, <1>5, <1>6, <1>7
  <1> HIDE DEF page
  <1> QED
    BY <1>1, <1>2, <1>3, <1>7, <1>8, TurnKeeps

LEMMA SendWhenFailedKeeps ==
    ASSUME IInv, NEW t \in Tabs, SendWhenFailed(t)
    PROVE  IInv'
  <1> DEFINE p == OpenedPage(t)
  <1>1. /\ p \in Page /\ p.messages \in Transcript /\ Settled(p.messages)
        /\ chats' \in 0..MaxChats /\ chats <= chats' /\ p.uiState # "SENDING"
        /\ p.chat \in 0..chats' /\ p.chat \notin deleted
        /\ remembered' \in Chats \cup {None}
        /\ abandoned \subseteq abandoned' /\ abandoned' \subseteq abandoned \cup AwaitedBy(t)
        /\ \A r \in Requests: p.pendingRequest = r /\ flight[r].tab = t => r \notin abandoned'
    BY OpenedIs DEF SendWhenFailed
  <1>2. Render(t, p) /\ UNCHANGED <<flight, upsets, deleted>>
    BY DEF SendWhenFailed
  <1> HIDE DEF p
  <1>3. FlightMoves(t) /\ DeletionMoves(t)
    BY <1>2, FlightStays DEF DeletionMoves
  <1>4. SettledNext(p.messages)
    BY <1>1, <1>3, StaysSettled
  <1> QED
    BY <1>1, <1>2, <1>3, <1>4, PageIs, RenderIs, TurnKeeps

----------------------------------------------------------------------------
(* The turns of a call.                                                        *)

LEMMA HeadersKeeps ==
    ASSUME IInv, NEW t \in Tabs, NEW r \in Requests, Headers(t, r)
    PROVE  IInv'
  <1>1. PICK cooldown \in BOOLEAN:
           /\ upsets' \in 0..MaxUpsets
           /\ Show(t, [tab[t] EXCEPT !.cooldownActive = cooldown])
    BY PageIs, Numbers DEF Headers, Upset
  <1> DEFINE page == [tab[t] EXCEPT !.cooldownActive = cooldown]
  <1>2. /\ page \in Page /\ page.messages = tab[t].messages /\ page.uiState = tab[t].uiState
        /\ page.chat = tab[t].chat /\ page.pendingRequest = tab[t].pendingRequest
    BY PageIs DEF Page
  <1> HIDE DEF page
  <1>3. UNCHANGED <<remembered, chats, abandoned, deleted>>
    BY DEF Headers
  <1>4. FlightMoves(t) /\ \A q \in Requests: flight'[q].tab = flight[q].tab
    <2>1. /\ FlightOK /\ flight[r] = [at |-> "sent", tab |-> t]
          /\ flight' = [flight EXCEPT ![r].at = "headers"]
      BY PageIs DEF Headers
    <2>2. /\ flight'[r] = [at |-> "headers", tab |-> t]
          /\ \A q \in Requests \ {r}: flight'[q] = flight[q]
          /\ flight' \in [Requests -> Transfer]
      BY <2>1 DEF FlightOK, Transfer
    <2> QED
      BY <2>1, <2>2, Numbers DEF FlightMoves, FlightOK
  <1>5. SettledNext(page.messages)
    BY <1>2, <1>3, <1>4, PageIs, StaysSettled
  <1>6. Turn(t, page)
    BY <1>1, ShowIs DEF page
  <1> QED
    BY <1>1, <1>2, <1>3, <1>4, <1>5, <1>6, PageIs, TurnKeeps DEF Awaits, DeletionMoves

(* A call that ends in a page: it is over, and what the page shows of it, when   *)
(* it is still the current one, no user left.                                  *)
LEMMA EndKeeps ==
    ASSUME IInv, NEW t \in Tabs, NEW r \in Requests, flight[r].tab = t, Land(r),
           UNCHANGED <<remembered, chats, upsets, abandoned, deleted>>,
           IF isCurrent(t, r)
           THEN \/ \E action \in Actions \cup {"none"}: Render(t, Answered(tab[t], r, action))
                \/ \E text \in Texts: Render(t, markError(tab[t], r, text))
           ELSE UNCHANGED <<tab, store>>
    PROVE  IInv'
  <1>1. /\ FlightMoves(t) /\ flight'[r].at = "over" /\ flight'[r].tab # t
        /\ \A q \in Requests \ {r}: flight'[q] = flight[q]
    BY LandIs
  <1>2. SettledNext(tab[t].messages)
    BY <1>1, PageIs, StaysSettled
  <1>3. CASE ~isCurrent(t, r)
    <2>1. Turn(t, tab[t])
      BY <1>3, QuietIs
    <2> QED
      BY <1>1, <1>2, <1>3, <2>1, PageIs, TurnKeeps DEF Awaits, isCurrent, DeletionMoves
  <1>4. CASE isCurrent(t, r)
    <2>1. r \notin abandoned' /\ tab[t].pendingRequest = r
      BY <1>4, PageIs DEF isCurrent, Awaits
    <2>2. ASSUME NEW status \in {"done", "error"}, NEW action \in Actions \cup {"none"}
          PROVE  LET ms == replaceMessageById(tab[t].messages, r, status, action) IN
                 ms \in Transcript /\ SettledNext(ms)
      <3>1. Assistant(r, status, action) \in StoredMessage /\ Assistant(r, status, action).request = r
        BY MessagesAre
      <3>2. /\ replaceMessageById(tab[t].messages, r, status, action) \in Transcript
            /\ \A i \in DOMAIN replaceMessageById(tab[t].messages, r, status, action):
                  \/ replaceMessageById(tab[t].messages, r, status, action)[i] = Assistant(r, status, action)
                  \/ \E j \in DOMAIN tab[t].messages:
                        replaceMessageById(tab[t].messages, r, status, action)[i] = tab[t].messages[j]
        BY <3>1, PageIs, ReplaceIs
      <3> QED
        BY <1>1, <1>2, <2>1, <3>1, <3>2 DEF SettledNext
    <2>3. PICK ms \in Transcript, ui \in {"IDLE", "FAILED"}:
             /\ SettledNext(ms)
             /\ Render(t, [tab[t] EXCEPT !.messages = ms, !.uiState = ui])
      <3>1. ASSUME NEW action \in Actions \cup {"none"}, Render(t, Answered(tab[t], r, action))
            PROVE  \E ms \in Transcript, ui \in {"IDLE", "FAILED"}:
                      SettledNext(ms) /\ Render(t, [tab[t] EXCEPT !.messages = ms, !.uiState = ui])
        BY <2>2, <3>1 DEF Answered
      <3>2. ASSUME NEW text \in Texts, Render(t, markError(tab[t], r, text))
            PROVE  \E ms \in Transcript, ui \in {"IDLE", "FAILED"}:
                      SettledNext(ms) /\ Render(t, [tab[t] EXCEPT !.messages = ms, !.uiState = ui])
        <4> DEFINE old == replaceMessageById(tab[t].messages, r, "error", "none")
        <4>1. old \in Transcript /\ SettledNext(old)
          BY <2>2
        <4>2. markError(tab[t], r, text) =
                 [tab[t] EXCEPT !.messages = pushSystemMessage(old, r, text), !.uiState = "FAILED"]
          BY DEF markError
        <4> HIDE DEF old
        <4>3. /\ pushSystemMessage(old, r, text) \in Transcript
              /\ SettledNext(pushSystemMessage(old, r, text))
          BY <1>1, <2>1, <4>1, NotedIs DEF Notice
        <4> QED
          BY <3>2, <4>2, <4>3
      <3> QED
        BY <1>4, <3>1, <3>2
    <2> DEFINE page == [tab[t] EXCEPT !.messages = ms, !.uiState = ui]
    <2>4. /\ page \in Page /\ page.messages = ms /\ page.uiState = ui
          /\ page.chat = tab[t].chat /\ page.pendingRequest = tab[t].pendingRequest
      <3>1. tab[t] \in Page /\ ms \in Transcript /\ ui \in UiState
        BY PageIs DEF UiState
      <3> QED
        BY <3>1 DEF Page
    <2>5. Turn(t, page)
      BY <2>3, RenderIs
    <2> HIDE DEF page
    <2> QED
      BY <1>1, <2>1, <2>3, <2>4, <2>5, PageIs, TurnKeeps DEF DeletionMoves
  <1> QED
    BY <1>3, <1>4

----------------------------------------------------------------------------
(* The turns that leave a chat, and the others.                                *)

LEMMA NewChatKeeps ==
    ASSUME IInv, NEW t \in Tabs, NewChat(t)
    PROVE  IInv'
  <1> DEFINE page == beginNewSession(tab[t])
  <1>1. /\ chats < MaxChats /\ chats' = chats + 1 /\ remembered' = chats + 1
        /\ Render(t, page) /\ abandoned' = abandoned \cup AwaitedBy(t)
        /\ UNCHANGED <<flight, upsets, deleted>>
    BY DEF NewChat, MakeChat, NewId, setCurrentSessionId, Leave
  <1>2. /\ page \in Page /\ page.messages = <<>> /\ page.uiState = "IDLE"
        /\ page.chat = chats + 1 /\ page.pendingRequest = None
    BY <1>1, PageIs, FreshPage
  <1> HIDE DEF page
  <1>3. chats + 1 \in Chats /\ chats + 1 \notin deleted /\ chats + 1 \in 0..MaxChats
    BY <1>1, PageIs, Numbers DEF Chats
  <1>4. SettledNext(page.messages)
    BY <1>2 DEF SettledNext
  <1> QED
    BY <1>1, <1>2, <1>3, <1>4, PageIs, Numbers, FlightStays, RenderIs, TurnKeeps DEF DeletionMoves

LEMMA ResetKeeps ==
    ASSUME IInv, NEW t \in Tabs, resetChat(t)
    PROVE  IInv'
  <1> DEFINE page == emptied(tab[t])
  <1>1. /\ tab' = [tab EXCEPT ![t] = page]
        /\ store' = IF tab[t].chat = None THEN store ELSE addOrUpdateSession(tab[t].chat, <<>>)
        /\ abandoned' = abandoned \cup AwaitedBy(t)
        /\ UNCHANGED <<flight, remembered, chats, upsets, deleted>>
    BY DEF resetChat, Leave
  <1>2. /\ page \in Page /\ page.messages = <<>> /\ page.uiState = "IDLE"
        /\ page.chat = tab[t].chat /\ page.pendingRequest = None
    <2>1. tab[t] \in Page /\ <<>> \in Transcript
      BY PageIs DEF Transcript
    <2> QED
      BY <2>1 DEF emptied, Page, UiState
  <1> HIDE DEF page
  <1>3. Turn(t, page)
    BY <1>1, <1>2 DEF Turn, addOrUpdateSession, Listed
  <1>4. SettledNext(page.messages)
    BY <1>2 DEF SettledNext
  <1> QED
    BY <1>1, <1>2, <1>3, <1>4, PageIs, Numbers, FlightStays, TurnKeeps DEF DeletionMoves

LEMMA SelectKeeps ==
    ASSUME IInv, NEW t \in Tabs, NEW c \in Chats, handleSelectSession(t, c)
    PROVE  IInv'
  <1> DEFINE ui == IF Spoken(store[c], {"system"}) = <<>> THEN "IDLE" ELSE "FAILED"
             last == tab[t].lastUserText \/ HasUser(store[c])
             page == [tab[t] EXCEPT !.messages = store[c], !.chat = c,
                                    !.lastUserText = last, !.uiState = ui]
  <1>1. /\ c \in Listed /\ remembered' = c /\ Render(t, page)
        /\ UNCHANGED <<flight, chats, upsets, abandoned, deleted>>
    BY DEF handleSelectSession, setCurrentSessionId
  <1>2. ui \in {"IDLE", "FAILED"} /\ last \in BOOLEAN
    OBVIOUS
  <1> HIDE DEF ui, last
  <1>3. store[c] \in Transcript /\ Settled(store[c]) /\ c \in 1..chats /\ c \notin deleted
    BY <1>1, PageIs
  <1>4. /\ page \in Page /\ page.messages = store[c] /\ page.uiState = ui
        /\ page.chat = c /\ page.pendingRequest = tab[t].pendingRequest
    BY <1>2, <1>3, PageIs DEF Page, UiState
  <1> HIDE DEF page
  <1>5. SettledNext(page.messages) /\ FlightMoves(t)
    BY <1>1, <1>3, <1>4, FlightStays, StaysSettled
  <1> QED
    BY <1>1, <1>2, <1>3, <1>4, <1>5, PageIs, RenderIs, TurnKeeps DEF Awaits, DeletionMoves

LEMMA DeleteKeeps ==
    ASSUME IInv, NEW t \in Tabs, NEW c \in Chats, handleDeleteSession(t, c)
    PROVE  IInv'
  <1>1. /\ c \in Deletable(t)
        /\ store' = [d \in Listed \ {c} |-> store[d]]
        /\ deleted' = IF \E u \in Tabs \ {t}: tab[u].chat = c THEN deleted ELSE deleted \cup {c}
        /\ UNCHANGED <<flight, upsets>>
    BY DEF handleDeleteSession, Restrict
  <1>2. c \in 1..chats
    BY <1>1, PageIs DEF Deletable, Chats
  <1>3. /\ Listed' = Listed \ {c} /\ \A d \in Listed': d \in Listed /\ store'[d] = store[d]
    BY <1>1 DEF Listed
  <1>4. FlightMoves(t)
    BY <1>1, FlightStays
  <1>5. CASE tab[t].chat = c
    <2> DEFINE page == beginNewSession(tab[t])
    <2>1. /\ chats < MaxChats /\ chats' = chats + 1 /\ remembered' = chats + 1
          /\ abandoned' = abandoned \cup AwaitedBy(t)
          /\ tab' = [tab EXCEPT ![t] = page]
      BY <1>5 DEF handleDeleteSession, MakeChat, NewId, setCurrentSessionId, Leave
    <2>2. /\ page \in Page /\ page.messages = <<>> /\ page.uiState = "IDLE"
          /\ page.chat = chats + 1 /\ page.pendingRequest = None
      BY <2>1, PageIs, FreshPage
    <2> HIDE DEF page
    <2>3. chats + 1 \in Chats /\ chats + 1 \notin deleted' /\ chats + 1 \in 0..MaxChats
      BY <1>1, <1>2, <2>1, PageIs, Numbers DEF Chats
    <2>4. Turn(t, page) /\ SettledNext(page.messages)
      BY <1>3, <2>1, <2>2 DEF Turn, SettledNext
    <2>5. DeletionMoves(t)
      <3>1. deleted' \subseteq 1..chats'
        BY <1>1, <1>2, <2>1, PageIs
      <3> QED
        BY <1>1, <1>3, <3>1, PageIs DEF DeletionMoves, IInv, Gone
    <2> QED
      BY <1>1, <1>4, <2>1, <2>2, <2>3, <2>4, <2>5, PageIs, Numbers, TurnKeeps
  <1>6. CASE tab[t].chat # c
    <2>1. /\ remembered' \in {None, remembered} /\ UNCHANGED <<chats, abandoned, tab>>
      BY <1>6 DEF handleDeleteSession
    <2>2. Turn(t, tab[t])
      BY <1>3, <2>1, PageIs DEF Turn
    <2>3. DeletionMoves(t) /\ tab[t].chat \notin deleted'
      BY <1>1, <1>2, <1>3, <1>6, <2>1, PageIs DEF DeletionMoves, IInv, Gone
    <2>4. SettledNext(tab[t].messages)
      BY <1>4, <2>1, PageIs, StaysSettled
    <2> QED
      BY <1>1, <1>4, <2>1, <2>2, <2>3, <2>4, PageIs, TurnKeeps DEF Awaits
  <1> QED
    BY <1>5, <1>6

LEMMA CopyKeeps ==
    ASSUME IInv, NEW t \in Tabs, copyMessage(t)
    PROVE  IInv'
  <1>1. UNCHANGED <<tab, store, flight, remembered, chats, abandoned, deleted>>
        /\ upsets' \in 0..MaxUpsets
    BY PageIs, Numbers DEF copyMessage, Upset
  <1>2. FlightMoves(t) /\ SettledNext(tab[t].messages) /\ Turn(t, tab[t])
    BY <1>1, PageIs, FlightStays, StaysSettled, QuietIs
  <1> QED
    BY <1>1, <1>2, PageIs, TurnKeeps DEF Awaits, DeletionMoves

LEMMA CopyFailsKeeps ==
    ASSUME IInv, NEW t \in Tabs, copyFails(t)
    PROVE  IInv'
  <1> DEFINE noted == pushSystemMessage(tab[t].messages, None, CopyFailed)
             page == [tab[t] EXCEPT !.messages = noted]
  <1>1. /\ UNCHANGED <<flight, remembered, chats, upsets, abandoned, deleted>>
        /\ UNCHANGED <<tab, store>> \/ Render(t, page)
    BY DEF copyFails
  <1>2. FlightMoves(t) /\ SettledNext(tab[t].messages)
    BY <1>1, PageIs, FlightStays, StaysSettled
  <1>3. noted \in Transcript /\ SettledNext(noted)
    BY <1>2, PageIs, NotedIs DEF Notice
  <1> HIDE DEF noted
  <1>4. /\ page \in Page /\ page.messages = noted /\ page.uiState = tab[t].uiState
        /\ page.chat = tab[t].chat /\ page.pendingRequest = tab[t].pendingRequest
    BY <1>3, PageIs DEF Page
  <1> HIDE DEF page
  <1>5. CASE Render(t, page)
    BY <1>1, <1>2, <1>3, <1>4, <1>5, PageIs, RenderIs, TurnKeeps DEF Awaits, DeletionMoves
  <1>6. CASE UNCHANGED <<tab, store>>
    <2>1. Turn(t, tab[t])
      BY <1>6, QuietIs
    <2> QED
      BY <1>1, <1>2, <2>1, PageIs, TurnKeeps DEF Awaits, DeletionMoves
  <1> QED
    BY <1>1, <1>5, <1>6

LEMMA ReloadKeeps ==
    ASSUME IInv, NEW t \in Tabs, Reload(t)
    PROVE  IInv'
  <1>1. /\ Render(t, Mounted) /\ upsets' \in 0..MaxUpsets
        /\ abandoned' = abandoned \cup AwaitedBy(t)
        /\ UNCHANGED <<remembered, chats, deleted>>
    BY PageIs, Numbers DEF Reload, Upset, Leave
  <1>2. FlightMoves(t) /\ \A r \in Requests: flight'[r].tab # t
    <2>1. flight' = [r \in Requests |-> IF flight[r].tab = t THEN [at |-> "over", tab |-> Nobody]
                                        ELSE flight[r]]
      BY DEF Reload
    <2>2. flight' \in [Requests -> Transfer]
      BY <2>1, PageIs DEF FlightOK, Transfer
    <2> QED
      BY <2>1, <2>2, PageIs, Numbers DEF FlightMoves, FlightOK
  <1>3. Blank \in Page /\ Blank.messages = <<>> /\ Blank.uiState = "IDLE"
        /\ Blank.chat = None /\ Blank.pendingRequest = None
    <2>1. <<>> \in Transcript
      BY DEF Transcript
    <2> QED
      BY <2>1 DEF Blank, Page, UiState
  <1>4. /\ Mounted \in Page /\ Mounted.uiState # "SENDING" /\ Mounted.pendingRequest = None
        /\ Mounted.chat \in 0..chats /\ Mounted.chat \notin deleted
        /\ SettledNext(Mounted.messages)
    <2>1. CASE remembered \in Listed
      <3> DEFINE had == HasUser(store[remembered])
                 ui == RestoredUi(store[remembered])
      <3>1. /\ store[remembered] \in Transcript /\ Settled(store[remembered])
            /\ remembered \in 1..chats /\ remembered \notin deleted /\ remembered \in Chats
        BY <2>1, PageIs, Numbers
      <3>2. had \in BOOLEAN /\ ui \in UiState \ {"SENDING"}
        BY DEF HasUser, RestoredUi, UiState
      <3>3. Mounted = [Blank EXCEPT !.chat = remembered, !.messages = store[remembered],
                                    !.lastUserText = had, !.uiState = ui]
        BY <2>1 DEF Mounted
      <3> HIDE DEF had, ui
      <3>4. /\ Mounted \in Page /\ Mounted.uiState = ui /\ Mounted.pendingRequest = None
            /\ Mounted.chat = remembered /\ Mounted.messages = store[remembered]
        BY <1>3, <3>1, <3>2, <3>3 DEF Page
      <3> QED
        BY <1>1, <1>2, <3>1, <3>2, <3>4, PageIs, StaysSettled
    <2>2. CASE remembered \notin Listed
      <3>1. Mounted = Blank
        BY <2>2 DEF Mounted
      <3>2. None \in 0..chats /\ None \notin deleted
        BY PageIs, Numbers
      <3> QED
        BY <1>3, <3>1, <3>2 DEF SettledNext
    <2> QED
      BY <2>1, <2>2
  <1> QED
    BY <1>1, <1>2, <1>4, PageIs, Numbers, RenderIs, TurnKeeps DEF DeletionMoves

LEMMA ClockKeeps ==
    ASSUME IInv, NEW t \in Tabs, Expire(t) \/ CooledDown(t)
    PROVE  IInv'
  <1>1. PICK expired \in BOOLEAN, cooling \in BOOLEAN:
           /\ Show(t, [tab[t] EXCEPT !.isExpired = expired, !.cooldownActive = cooling])
           /\ UNCHANGED <<flight, remembered, chats, abandoned, deleted>>
           /\ upsets' \in 0..MaxUpsets
    <2>1. CASE Expire(t)
      <3>1. /\ Show(t, [tab[t] EXCEPT !.isExpired = TRUE]) /\ upsets' \in 0..MaxUpsets
            /\ UNCHANGED <<flight, remembered, chats, abandoned, deleted>>
        BY <2>1, PageIs, Numbers DEF Expire, Upset
      <3>2. [tab[t] EXCEPT !.isExpired = TRUE]
              = [tab[t] EXCEPT !.isExpired = TRUE, !.cooldownActive = tab[t].cooldownActive]
            /\ tab[t].cooldownActive \in BOOLEAN
        BY PageIs DEF Page
      <3> QED
        BY <3>1, <3>2
    <2>2. CASE CooledDown(t)
      <3>1. /\ Show(t, [tab[t] EXCEPT !.cooldownActive = FALSE]) /\ upsets' \in 0..MaxUpsets
            /\ UNCHANGED <<flight, remembered, chats, abandoned, deleted>>
        BY <2>2, PageIs DEF CooledDown
      <3>2. [tab[t] EXCEPT !.cooldownActive = FALSE]
              = [tab[t] EXCEPT !.isExpired = tab[t].isExpired, !.cooldownActive = FALSE]
            /\ tab[t].isExpired \in BOOLEAN
        BY PageIs DEF Page
      <3> QED
        BY <3>1, <3>2
    <2> QED
      BY <2>1, <2>2
  <1> DEFINE page == [tab[t] EXCEPT !.isExpired = expired, !.cooldownActive = cooling]
  <1>2. /\ page \in Page /\ page.messages = tab[t].messages /\ page.uiState = tab[t].uiState
        /\ page.chat = tab[t].chat /\ page.pendingRequest = tab[t].pendingRequest
    BY PageIs DEF Page
  <1>3. Turn(t, page)
    BY <1>1, ShowIs
  <1> HIDE DEF page
  <1>4. FlightMoves(t) /\ SettledNext(tab[t].messages)
    BY <1>1, PageIs, FlightStays, StaysSettled
  <1> QED
    BY <1>1, <1>2, <1>3, <1>4, PageIs, TurnKeeps DEF Awaits, DeletionMoves

----------------------------------------------------------------------------
(* The invariant and the properties.                                           *)

LEMMA InitInv == Init => IInv
  <1> SUFFICES ASSUME Init PROVE IInv
    OBVIOUS
  <1>1. /\ Blank \in Page /\ Blank.messages = <<>> /\ Blank.uiState = "IDLE"
        /\ Blank.chat = None /\ Blank.pendingRequest = None
    <2>1. <<>> \in Transcript
      BY DEF Transcript
    <2> QED
      BY <2>1 DEF Blank, Page, UiState
  <1>2. /\ \A t \in Tabs: tab[t] = Blank
        /\ tab \in [Tabs -> Page] /\ Listed = {}
        /\ remembered = None /\ chats = 0 /\ upsets = 0 /\ abandoned = {} /\ deleted = {}
        /\ flight = [r \in Requests |-> [at |-> "unsent", tab |-> Nobody]]
    BY <1>1 DEF Init, Listed
  <1>3. PagesOK
    BY <1>2, Numbers DEF PagesOK
  <1>4. \A t \in Tabs: Settled(tab[t].messages) /\ Awaits(t)
    BY <1>1, <1>2, Numbers DEF Settled, Awaits
  <1>5. Gone
    BY <1>1, <1>2, Numbers DEF Gone
  <1> QED
    BY <1>2, <1>3, <1>4, <1>5 DEF IInv

LEMMA StepInv == IInv /\ [Next]_vars => IInv'
  <1> SUFFICES ASSUME IInv, [Next]_vars PROVE IInv'
    OBVIOUS
  <1>1. CASE UNCHANGED vars
    BY <1>1 DEF vars, IInv, PagesOK, Settled, Awaits, Gone, Listed
  <1>2. ASSUME NEW t \in Tabs, handleSend(t) \/ retryLast(t)
        PROVE  IInv'
    <2>1. /\ tab[t].uiState # "SENDING" /\ OpenChat(t) /\ UNCHANGED <<upsets, deleted>>
          /\ \E r \in Requests: Dispatch(t, OpenedPage(t), r)
      BY <1>2 DEF handleSend, retryLast
    <2> QED
      BY <2>1, DispatchKeeps
  <1>3. ASSUME NEW t \in Tabs, NEW r \in Requests, Body(t, r) \/ Fails(t, r)
        PROVE  IInv'
    <2>1. flight[r].tab = t
      BY <1>3 DEF Body, Fails
    <2>2. /\ Land(r) /\ UNCHANGED <<remembered, chats, upsets, abandoned, deleted>>
          /\ IF isCurrent(t, r)
             THEN \/ \E action \in Actions \cup {"none"}: Render(t, Answered(tab[t], r, action))
                  \/ \E text \in Texts: Render(t, markError(tab[t], r, text))
             ELSE UNCHANGED <<tab, store>>
      BY <1>3 DEF Body, Fails
    <2> QED
      BY <2>1, <2>2, EndKeeps
  <1>4. CASE Next
    <2>1. PICK t \in Tabs:
             \/ handleSend(t) \/ retryLast(t)
             \/ SendInvalid(t) \/ SendWhenFailed(t)
             \/ \E r \in Requests: Headers(t, r) \/ Body(t, r) \/ Fails(t, r)
             \/ NewChat(t) \/ resetChat(t)
             \/ \E c \in Chats: handleSelectSession(t, c) \/ handleDeleteSession(t, c)
             \/ copyMessage(t) \/ copyFails(t) \/ Reload(t) \/ Expire(t) \/ CooledDown(t)
      BY <1>4 DEF Next
    <2>2. CASE handleSend(t) \/ retryLast(t)
      BY <1>2, <2>2
    <2>3. CASE SendInvalid(t) \/ SendWhenFailed(t)
      BY <2>3, SendInvalidKeeps, SendWhenFailedKeeps
    <2>4. CASE \E r \in Requests: Headers(t, r) \/ Body(t, r) \/ Fails(t, r)
      BY <1>3, <2>4, HeadersKeeps
    <2>5. CASE NewChat(t) \/ resetChat(t)
      BY <2>5, NewChatKeeps, ResetKeeps
    <2>6. CASE \E c \in Chats: handleSelectSession(t, c) \/ handleDeleteSession(t, c)
      BY <2>6, SelectKeeps, DeleteKeeps
    <2>7. CASE copyMessage(t) \/ copyFails(t) \/ Reload(t) \/ Expire(t) \/ CooledDown(t)
      BY <2>7, CopyKeeps, CopyFailsKeeps, ReloadKeeps, ClockKeeps
    <2> QED
      BY <2>1, <2>2, <2>3, <2>4, <2>5, <2>6, <2>7
  <1> QED
    BY <1>1, <1>4

(* The invariant of the tabs, the calls and the storage holds in every state.    *)
THEOREM InvariantHolds == Spec => []IInv
  BY InitInv, StepInv, PTL DEF Spec

(* Every reachable state of the tabs and of local storage is well typed.        *)
THEOREM TypeCorrect == Spec => []TypeOK
  <1> DEFINE Counted == clipboard \in [Tabs -> Nat]
  <1>1. Init => Counted
    BY DEF Init
  <1>2. Counted /\ [Next]_vars => Counted'
    <2> SUFFICES ASSUME Counted, [Next]_vars PROVE Counted'
      OBVIOUS
    <2>1. \/ clipboard' = clipboard
          \/ \E t \in Tabs: copyMessage(t) \/ copyFails(t) \/ Reload(t)
      BY DEF Next, vars
    <2>2. ASSUME NEW t \in Tabs, copyMessage(t) \/ copyFails(t) \/ Reload(t)
          PROVE  Counted'
      <3>1. \E n \in Nat: clipboard' = [clipboard EXCEPT ![t] = n]
        BY <2>2 DEF copyMessage, copyFails, Reload
      <3> QED
        BY <3>1
    <2> QED
      BY <2>1, <2>2
  <1>3. IInv /\ Counted => TypeOK
    BY DEF IInv, TypeOK
  <1> HIDE DEF Counted
  <1> QED
    BY <1>1, <1>2, <1>3, InvariantHolds, PTL DEF Spec

(* A page of page.tsx that shows SENDING waits for a call that is under way.     *)
THEOREM ComposerIsFreed == Spec => []SendingIsAwaited
  <1>1. IInv => SendingIsAwaited
    BY DEF IInv, Awaits, SendingIsAwaited, isCurrent
  <1> QED
    BY <1>1, InvariantHolds, PTL

(* The outcome of a request whose chat the user left, reset or deleted, or whose *)
(* tab was reloaded, is shown in no tab of page.tsx and stored in no chat.      *)
THEOREM LateStaysIgnored == Spec => []LateIsIgnored
  <1>1. IInv => LateIsIgnored
    <2> SUFFICES ASSUME IInv, NEW ms \in Shown, NEW i \in DOMAIN ms,
                        ms[i].request \in abandoned
                 PROVE  ~IsOutcome(ms[i])
      BY DEF LateIsIgnored
    <2>1. Settled(ms)
      BY DEF Shown, IInv
    <2>2. ms[i].request # None
      BY PageIs, Numbers DEF IInv, PagesOK
    <2> QED
      BY <2>1, <2>2 DEF Settled
  <1> QED
    BY <1>1, InvariantHolds, PTL

(* A chat deleted while no other tab displayed it never comes back to the list   *)
(* of chatStorage.ts.                                                          *)
THEOREM DeletedStaysGone == Spec => []DeletedIsGone
  <1>1. IInv => DeletedIsGone
    BY DEF IInv, Gone, DeletedIsGone
  <1> QED
    BY <1>1, InvariantHolds, PTL
============================================================================
