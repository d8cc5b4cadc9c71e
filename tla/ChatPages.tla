------------------------------ MODULE ChatPages ------------------------------
(***************************************************************************)
(* One page of the chat mounted, with the tools of the agent's page and    *)
(* the agent's list of conversations, the other party, the server and the  *)
(* network.                                                                *)
(***************************************************************************)
EXTENDS Chat

Screens == Talks \cup {"tools", "inbox"}

(***************************************************************************)
(* The agent's tools: the filter over the messages, the panel of orders,   *)
(* and the search for a product whose card is sent.  A query that was      *)
(* still for 300 ms is asked; one that is superseded is ignored.           *)
(***************************************************************************)
Queries == 1..2
ChooseFilter == screen = "tools" /\ "filter" \in ListOffers /\ \E f \in MsgFilters \ {ui.filter} : Do([Here EXCEPT !.ui.filter = f])
FoldOrders == screen = "tools" /\ Do([Here EXCEPT !.ui.folded = ~@])
PopupOffers ==
  IF ui.popup THEN {"type", "hide"} \cup (IF ui.found # 0 THEN {"card"} ELSE {})
  ELSE IF Reading /\ ~Locked THEN {"show"} ELSE {}
ShowPopup == screen = "tools" /\ "show" \in PopupOffers /\ Do([Here EXCEPT !.ui.popup = TRUE])
HidePopup == screen = "tools" /\ "hide" \in PopupOffers /\ Do([Here EXCEPT !.ui.popup = FALSE])
TypeQuery == screen = "tools" /\ "type" \in PopupOffers /\ \E q \in Queries \ {ui.query} : Do([Here EXCEPT !.ui.query = q])
(* `before` is the query of a call; a call of an older query is cancelled. *)
Debounced ==
  /\ screen = "tools" /\ ui.asked # ui.query /\ CanCall
  /\ LET s == [Here EXCEPT !.ui.asked = ui.query]
     IN  Do(IF ui.query = 0 THEN [s EXCEPT !.ui.found = 0] ELSE Sent(s, [Call("search", NoConv) EXCEPT !.before = ui.query]))
Found(s, c) == IF c.before # s.ui.asked THEN s
               ELSE [s EXCEPT !.ui.found = IF c.st = "ok" THEN c.before ELSE 0]
SendCard ==
  /\ screen = "tools" /\ "card" \in PopupOffers /\ CanCall
  /\ Do(Sent([Here EXCEPT !.ui.sending = TRUE], [Call("card", ui.active) EXCEPT !.kind = "card"]))
(* The conversation and the list are loaded again, then the search is put away. *)
CardSent(s, c) ==
  IF c.st = "no" THEN [s EXCEPT !.ui.error = TRUE, !.ui.sending = FALSE]
  ELSE loadConversations(loadConversation([s EXCEPT !.ui.popup = FALSE, !.ui.query = 0], c.conv, FALSE), "unlock")

ToolsNext == ChooseFilter \/ FoldOrders \/ ShowPopup \/ HidePopup \/ TypeQuery \/ Debounced \/ SendCard

(***************************************************************************)
(* The agent's list of conversations: a page number, a status and a search *)
(* text.  Every change loads the list, and so does a timer.  `asked` is    *)
(* the view, as the page (query), the status (filter) and the text (folded), `found` the page *)
(* whose rows are shown.                                                   *)
(***************************************************************************)
fetchData(s) == Sent([s EXCEPT !.ui.loading = TRUE, !.ui.error = FALSE],
                     [Call("inbox", NoConv) EXCEPT !.before = s.ui.query, !.kind = s.ui.filter])
InboxOffers == {"status", "search"} \cup (IF ui.error THEN {"retry"} ELSE {}) \cup (IF ui.found # 0 THEN {"page", "open"} ELSE {})
InboxChange ==
  /\ screen = "inbox" /\ CanCall
  /\ \/ "page" \in InboxOffers /\ \E q \in Queries \ {ui.query} : Do(fetchData([Here EXCEPT !.ui.query = q]))
     \/ "status" \in InboxOffers /\ \E f \in {"all", "text"} \ {ui.filter} : Do(fetchData([Here EXCEPT !.ui.filter = f, !.ui.query = 1]))
     \/ "search" \in InboxOffers /\ Do(fetchData([Here EXCEPT !.ui.folded = ~@]))
     \/ ~ui.loading /\ Do(fetchData(Here))
InboxLoaded(s, c) == [s EXCEPT !.ui.loading = FALSE, !.ui.error = c.st = "no", !.ui.found = IF c.st = "ok" THEN c.before ELSE @]

(***************************************************************************)
(* The server (apps/customer_service).                                     *)
(***************************************************************************)
Exists == {c \in Convs : chat[c].msgs # <<>>}
NextId == 1 + Max(UNION {Ids(chat[c].msgs) : c \in Convs})
Room == NextId <= MaxMsgs
Said(c, by, kind) == [chat EXCEPT ![c].msgs = Append(@, [id |-> NextId, by |-> by, kind |-> kind])]
(* An agent who posts takes the conversation over. *)
Held(ch, c) == IF Me = "admin" THEN [ch EXCEPT ![c].holder = "me"] ELSE ch
Older(call) == LastOf(Kept(chat[call.conv].msgs, {m \in ToSet(chat[call.conv].msgs) : m.id < call.before}))

(* The conversations after a call that is carried out. *)
Applied(call) ==
  LET c == call.conv
  IN  IF call.op \in {"post", "card"} THEN Held(Said(c, Me, call.kind), c)
      ELSE IF call.op = "create" THEN Said(c, "user", "text")
      ELSE IF call.op = "close" THEN [Said(c, "admin", "text") EXCEPT ![c].status = "closed", ![c].holder = "none"]
      ELSE IF call.op = "claim" THEN [chat EXCEPT ![c].holder = "me"]
      ELSE chat
(* A closed conversation takes no message, and one held by another agent none of
   an agent, who may or may not be allowed to take it over. *)
Refused(call) ==
  call.op \in {"post", "card", "close"} /\ (chat[call.conv].status = "closed" \/ (Me = "admin" /\ call.op # "close" /\ chat[call.conv].holder = "other"))
Answer(call) ==
  IF call.op = "detail" THEN [call EXCEPT !.st = "ok", !.got = transformDetail(call.conv)]
  ELSE IF call.op = "list" THEN [call EXCEPT !.st = "ok", !.list = Exists]
  ELSE IF call.op = "older"
  THEN [call EXCEPT !.st = "ok", !.got = [NothingShown EXCEPT
          !.msgs = [i \in DOMAIN Older(call) |-> transformChatMessage(Older(call)[i], call.conv)],
          !.more = Len(Older(call)) = Window]]
  ELSE IF call.op = "post" THEN [call EXCEPT !.st = "ok", !.got = [NothingShown EXCEPT !.msgs = <<Bubble(NextId, Me, call.kind)>>]]
  ELSE IF call.op = "create"
  THEN [call EXCEPT !.st = "ok", !.got = [NothingShown EXCEPT !.id = call.conv, !.msgs = <<Bubble(NextId, "user", "text")>>]]
  ELSE [call EXCEPT !.st = "ok"]
Writes == {"post", "card", "create", "close"}

(* A call is carried out and answered, refused, or fails: before the server has
   it, or when its answer is lost. *)
Serve(i) ==
  LET call == calls[i] IN
  /\ call.st = "sent"
  /\ \/ /\ ~Refused(call) /\ (call.op \in Writes => Room)
        /\ \/ calls' = [calls EXCEPT ![i] = Answer(call)] /\ UNCHANGED used
           \/ call.op \in Writes /\ calls' = [calls EXCEPT ![i].st = "no"] /\ Event
        /\ chat' = Applied(call)
     \/ /\ \/ Refused(call) /\ UNCHANGED used
           \/ call.op \in Writes /\ ~Room /\ UNCHANGED used
           \/ Event
        /\ calls' = [calls EXCEPT ![i].st = "no"] /\ UNCHANGED chat
  /\ UNCHANGED <<screen, ui, wire, cache>>

(***************************************************************************)
(* Answers.  The URL of a post or a close names a resource below the       *)
(* conversation, so only a create or a claim drops a cached detail.        *)
(***************************************************************************)
Received(i) ==
  LET c == calls[i]
      s == [Here EXCEPT !.calls = RemoveAt(calls, i)]
  IN  IF c.op = "detail" THEN [s EXCEPT !.cache.detail[c.conv] = IF c.st = "ok" THEN c.got ELSE NoDetail]
      ELSE IF c.op = "list" THEN [s EXCEPT !.cache.list = IF c.st = "ok" THEN c.list ELSE {}]
      ELSE IF c.op = "create" /\ c.st = "ok" THEN [s EXCEPT !.cache = [list |-> {}, detail |-> [k \in Convs |-> NoDetail]]]
      ELSE IF c.op = "claim" /\ c.st = "ok" THEN [s EXCEPT !.cache.detail[c.conv] = NoDetail]
      ELSE s
DetailLoaded(s, c) ==
  LET t == IF c.silent THEN s ELSE [s EXCEPT !.ui.loading = FALSE]
  IN  IF c.st = "ok" THEN Show(t, c.got) ELSE IF screen = "panel" THEN [t EXCEPT !.ui.conv = NothingShown] ELSE t
Reply(s, c) ==
  IF c.op = "detail" THEN DetailLoaded(s, c)
  ELSE IF c.op = "list" THEN ShowCreated(Listed(s, IF c.st = "ok" THEN c.list ELSE IF screen = "panel" THEN {} ELSE s.ui.list, c.then), c)
  ELSE IF c.op = "older" THEN OlderLoaded(s, c)
  ELSE IF c.op = "post" THEN Answered(s, c)
  ELSE IF c.op = "card" THEN CardSent(s, c)
  ELSE IF c.op = "create" THEN Created(s, c)
  ELSE IF c.op \in {"close", "claim"} THEN Closed(s, c)
  ELSE IF c.op = "upload" THEN Uploaded(s, c)
  ELSE IF c.op = "search" THEN Found(s, c)
  ELSE IF c.op = "inbox" THEN InboxLoaded(s, c) ELSE s
Deliver(i) == calls[i].st # "sent" /\ Do(Reply(Received(i), calls[i]))
Expire == \/ \E c \in Convs : cache.detail[c] # NoDetail /\ Do([Here EXCEPT !.cache.detail[c] = NoDetail])
          \/ cache.list # {} /\ Page([Here EXCEPT !.cache.list = {}]) /\ Event

(***************************************************************************)
(* The socket.  A connection marks the other party's messages as read.     *)
(***************************************************************************)
WireOpens ==
  /\ wire.st = "connecting" /\ ui.active # NoConv
  /\ wire' = [wire EXCEPT !.st = "open", !.tries = 0]
  /\ chat' = [chat EXCEPT ![ui.active].read = @ \cup Unread(ui.active, Other)]
  /\ UNCHANGED <<screen, ui, calls, cache, used>>
(* A connection that is lost, or that another window of the same user takes, is
   tried again after a while; its frames are lost. *)
Dropped(w) == [w EXCEPT !.st = "closed", !.down = <<>>,
                        !.timer = w.tries < MaxReconnects, !.tries = IF @ < MaxReconnects THEN @ + 1 ELSE @]
WireDrops == wire.st # "closed" /\ wire' = Dropped(wire) /\ Event
             /\ UNCHANGED <<screen, chat, ui, calls, cache>>
WireRetries == wire.timer /\ Do([Here EXCEPT !.wire = connect(@)])

Framed(w, frame) == IF w.st = "open" /\ Len(w.down) < 2 THEN [w EXCEPT !.down = Append(@, frame)] ELSE w
(* A message of the other party is acknowledged, shown or not. *)
onmessage(s, frame) ==
  LET acked == IF frame.type # "message" \/ frame.by = Me \/ screen = "panel" THEN s
               ELSE IF Me = "admin" THEN [s EXCEPT !.acks = @ \cup {frame.id}]
               ELSE sendAck(s, {frame.id})
  IN  Show(acked, IF screen = "panel" THEN panelMerge(s.ui.conv, frame) ELSE mergeWsMessage(s.ui.conv, frame))
FrameArrives == wire.down # <<>> /\ Do(onmessage([Here EXCEPT !.wire.down = Tail(@)], Head(wire.down)))

(***************************************************************************)
(* The other party, and other windows of the same user: they post over     *)
(* HTTP, which reaches no socket, or speak over theirs, which does.        *)
(***************************************************************************)
Speaks == \E c \in Exists : \E by \in {Me, Other} :
  /\ chat[c].status = "open" /\ Room
  /\ chat' = Said(c, by, "text")
  /\ \/ wire' = IF c = ui.active THEN Framed(wire, [type |-> "message", id |-> NextId, by |-> by]) ELSE wire
     \/ by = Other /\ UNCHANGED wire
  /\ Event /\ UNCHANGED <<screen, ui, calls, cache>>
Reads == \E c \in Exists : \E id \in Unread(c, Me) \ chat[c].read :
  /\ chat' = [chat EXCEPT ![c].read = @ \cup {id}]
  /\ wire' = IF c = ui.active THEN Framed(wire, [type |-> "read_receipt", id |-> id, by |-> Other]) ELSE wire
  /\ Event /\ UNCHANGED <<screen, ui, calls, cache>>
Takes == \E c \in Exists : /\ Me = "admin" /\ chat[c].status = "open" /\ chat[c].holder = "none"
                           /\ chat' = [chat EXCEPT ![c].holder = "other"]
                           /\ Event /\ UNCHANGED <<screen, ui, wire, calls, cache>>

(***************************************************************************)
(* A page is opened: it loads its list, and the agent's the conversation   *)
(* of its URL.                                                             *)
(***************************************************************************)
First == CHOOSE c \in Convs \ Late : TRUE
Opened ==
  LET blank == [ui |-> BlankChat, wire |-> NoWire, calls |-> <<>>, acks |-> {},
               cache |-> [list |-> {}, detail |-> [c \in Convs |-> NoDetail]]]
  IN  IF screen = "inbox" THEN fetchData([blank EXCEPT !.ui.query = 1])
      ELSE IF screen = "tools"
      THEN [blank EXCEPT !.ui.active = First, !.ui.list = {First}, !.ui.conv = transformDetail(First)]
      ELSE LET listed == loadConversations(blank, "none")
           IN  IF screen = "agent" THEN Select(listed, First) ELSE listed
Init ==
  /\ screen \in Screens
  /\ used = [ops |-> 0, events |-> 0]
  /\ \E by \in IF Me = "admin" THEN {"user"} ELSE {"user", "admin"} :
     \E no \in IF Me = "admin" THEN Bijection(Convs, 1..Cardinality(Convs)) ELSE {[c \in Convs |-> 1]} :
       chat = [c \in Convs |-> [msgs |-> IF Me = "admin" \/ c = First THEN <<[id |-> no[c], by |-> by, kind |-> "text"]>> ELSE <<>>,
                               read |-> {}, status |-> "open", holder |-> "none"]]
  /\ \E s \in {Opened} : ui = s.ui /\ wire = s.wire /\ calls = s.calls /\ cache = s.cache

PageNext ==
  \/ Poll \/ Navigate \/ openConversation \/ handleSend \/ handleSendProductCard
  \/ handleCreate \/ ToggleNewForm \/ handleLoadOlder \/ handleClose \/ handleMarkReplied \/ handleForceTakeover
  \/ handleUpload \/ removeAttachment
Next ==
  \/ PageNext \/ ToolsNext \/ InboxChange
  \/ \E i \in DOMAIN calls : Serve(i) \/ Deliver(i)
  \/ Expire
  \/ WireOpens \/ WireDrops \/ WireRetries \/ FrameArrives
  \/ screen \in Talks /\ (Speaks \/ Reads \/ Takes)

Spec == Init /\ [][Next]_vars

(* No message is shown twice, however the answers of posts, the reloads, the older
   pages and the frames of the socket come in. *)
NoDuplicates == \A i, j \in DOMAIN ui.conv.msgs :
  i # j => ui.conv.msgs[i].id # ui.conv.msgs[j].id \/ ui.conv.msgs[i].id = 0

(* A bubble that says it is being sent is: its message is being posted, or waits
   for the one before it. *)
NoGhostBubble == \A b \in ToSet(ui.conv.msgs) : b.st = "sending" =>
  \E i \in DOMAIN calls : calls[i].op = "post" /\ b.id \in {calls[i].temp} \cup Ids(calls[i].rest)

(* A message of one's own that is shown as read was read by the other party, although
   its bubble is made before it is posted, replaced by answers, frames and reloads,
   and marked by receipts (AdminChatDetail.tsx and Chat.tsx, mapMessage). *)
ReadIsRead == \A b \in ToSet(filteredMessages) : b.receipt = "read" => b.id \in UNION {chat[c].read : c \in Convs}
==============================================================================
