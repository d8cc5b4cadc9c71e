-------------------------------- MODULE Chat --------------------------------
(***************************************************************************)
(* The pages on which a customer and an agent talk: the customer's chat    *)
(* (Chat.tsx), the agent's (AdminChatDetail.tsx), the support panel of the *)
(* profile (SupportPanel.tsx) and the agent's list of conversations        *)
(* (AdminChatList.tsx).  One of them is mounted; the other party, the      *)
(* server (apps/customer_service) and the network are around it.  A        *)
(* message is posted over HTTP, the answer and the reloads replace parts   *)
(* of what is shown, and a WebSocket brings receipts and the messages of   *)
(* clients that speak over their socket.                                   *)
(***************************************************************************)
EXTENDS Integers, Sequences, FiniteSets, SequencesExt, Lists

CONSTANTS Convs,          \* conversations
          NoConv,         \* none
          Late,           \* those of Convs a customer creates
          Window,         \* messages a detail or an older page holds
          MaxMsgs,        \* bound: messages in all
          MaxCalls,       \* bound: calls in flight
          MaxOps,         \* bound: calls the user makes, by page
          MaxEvents,      \* bound: failures and acts of other parties, by page
          MaxReconnects   \* reconnections in a row before the socket is given up

ASSUME ChatAssumption ==
  /\ IsFiniteSet(Convs) /\ NoConv \notin Convs /\ Late \subseteq Convs /\ Convs \ Late # {}
  /\ {Window, MaxMsgs, MaxCalls, MaxReconnects} \subseteq Nat /\ Window > 0

VARIABLES screen,  \* the mounted page
          chat,    \* the server's conversations
          ui,      \* the page's React state
          wire,    \* the page's socket
          calls,   \* HTTP calls in flight, in the order they were sent
          cache,   \* the client's cached answers
          used     \* the calls and events so far, for the bounds

vars == <<screen, chat, ui, wire, calls, cache, used>>

Talks == {"shopper", "agent", "panel"}
Me == IF screen \in {"agent", "tools"} THEN "admin" ELSE "user"
Other == IF Me = "admin" THEN "user" ELSE "admin"

(***************************************************************************)
(* Messages and what a page shows of them.  A bubble with a negative id is *)
(* optimistic: it stands for a message that is being posted.  Id 0 is that *)
(* of a frame which carries none.                                          *)
(***************************************************************************)
Bubble(id, by, kind) == [id |-> id, by |-> by, kind |-> kind, read |-> FALSE, st |-> "none"]
transformChatMessage(m, c) == [Bubble(m.id, m.by, m.kind) EXCEPT !.read = m.id \in chat[c].read]
NothingShown == [id |-> NoConv, msgs |-> <<>>, status |-> "open", more |-> FALSE, holder |-> "none"]
LastOf(seq) == SubSeq(seq, IF Len(seq) > Window THEN Len(seq) - Window + 1 ELSE 1, Len(seq))
transformDetail(c) ==
  [id |-> c, status |-> chat[c].status, more |-> Len(chat[c].msgs) > Window, holder |-> chat[c].holder,
   msgs |-> [i \in DOMAIN LastOf(chat[c].msgs) |-> transformChatMessage(LastOf(chat[c].msgs)[i], c)]]

Ids(msgs) == {msgs[i].id : i \in DOMAIN msgs}
IndexOf(msgs, Test(_)) ==
  LET hits == {i \in DOMAIN msgs : Test(msgs[i])}
  IN  IF hits = {} THEN 0 ELSE CHOOSE i \in hits : \A j \in hits : i <= j

(* A message of the other party replaces the one with its id or is added; an own
   one also replaces the first optimistic bubble, whichever message that is of. *)
merged(conv, real) ==
  LET byId == IndexOf(conv.msgs, LAMBDA b : b.id = real.id)
      temp == IF real.by = Me THEN IndexOf(conv.msgs, LAMBDA b : b.id < 0 /\ b.by = Me) ELSE 0
      at == IF byId # 0 THEN byId ELSE temp
      shown == IF real.by = Me THEN [real EXCEPT !.st = "sent"] ELSE real
  IN  IF at = 0 THEN [conv EXCEPT !.msgs = Append(@, shown)] ELSE [conv EXCEPT !.msgs[at] = shown]
mergeWsMessage(conv, frame) ==
  IF conv.id = NoConv THEN conv
  ELSE IF frame.type = "read_receipt"
  THEN [conv EXCEPT !.msgs = [i \in DOMAIN @ |-> IF @[i].id = frame.id THEN [@[i] EXCEPT !.st = "read", !.read = TRUE] ELSE @[i]]]
  ELSE merged(conv, Bubble(frame.id, frame.by, "text"))

(* The panel hands the whole frame on as a message and looks for a kind that no
   frame has: what arrives becomes a bubble without id or content, and a receipt,
   which names no sender, one of the customer's own. *)
panelMerge(conv, frame) ==
  IF conv.id = NoConv THEN conv
  ELSE merged(conv, Bubble(0, IF frame.type = "message" THEN frame.by ELSE "user", "text"))

(* The customer's page compares the sender's id with its own, which an optimistic
   bubble lacks; the agent's and the panel's go by the sender's type. *)
IsMine(b) == b.by = Me /\ (screen = "shopper" => b.id > 0)
\* Mutant of Receipt: the flag counts also while the message is being sent.
ReceiptByFlag(b) == IF ~IsMine(b) THEN "none" ELSE IF b.read THEN "read" ELSE "sent"
Receipt(b) == IF ~IsMine(b) THEN "none" ELSE IF b.st # "none" THEN b.st ELSE IF b.read THEN "read" ELSE "sent"
mapMessage(b) == [id |-> b.id, kind |-> b.kind, mine |-> IsMine(b), receipt |-> Receipt(b)]
MsgFilters == {"all", "text", "card"}
filteredMessages ==
  LET shown == [i \in DOMAIN ui.conv.msgs |-> mapMessage(ui.conv.msgs[i])]
  IN  Kept(shown, {b \in ToSet(shown) : ui.filter = "all" \/ b.kind = ui.filter})

(***************************************************************************)
(* The page's state and its calls.                                         *)
(***************************************************************************)
BlankChat ==
  [active |-> NoConv, conv |-> NothingShown, list |-> {}, listing |-> FALSE, loading |-> FALSE,
   file |-> FALSE, sending |-> FALSE, creating |-> FALSE, uploading |-> FALSE, older |-> FALSE, error |-> FALSE,
   acked |-> {}, temps |-> 0, filter |-> "all", form |-> FALSE,
   popup |-> FALSE, query |-> 0, asked |-> 0, found |-> 0, folded |-> FALSE]
Call(op, conv) == [op |-> op, conv |-> conv, st |-> "sent", temp |-> 0, kind |-> "text", rest |-> <<>>,
                   silent |-> FALSE, then |-> "none", before |-> 0, got |-> NothingShown, list |-> {}]
Here == [ui |-> ui, wire |-> wire, calls |-> calls, cache |-> cache, acks |-> {}]
Unread(c, by) == {m.id : m \in {n \in ToSet(chat[c].msgs) : n.by = by}}
(* An acknowledgement and a mark are taken to reach the server at once. *)
Page(s) ==
  /\ ui' = s.ui /\ wire' = s.wire /\ calls' = s.calls /\ cache' = s.cache /\ UNCHANGED screen
  /\ chat' = IF s.acks = {} THEN chat ELSE [c \in Convs |-> [chat[c] EXCEPT !.read = @ \cup (s.acks \cap {m.id : m \in ToSet(chat[c].msgs)})]]
Do(s) == Page(s) /\ UNCHANGED used
Op(s) == used.ops < MaxOps[screen] /\ used' = [used EXCEPT !.ops = @ + 1] /\ Page(s)
Event == used.events < MaxEvents[screen] /\ used' = [used EXCEPT !.events = @ + 1]
CanCall == Len(calls) < MaxCalls
Sent(s, call) == [s EXCEPT !.calls = Append(@, call)]

(***************************************************************************)
(* The socket, with `down` the frames on their way to the page.            *)
(* The receipt of an own acknowledgement changes nothing that is shown and *)
(* is left out.                                                            *)
(***************************************************************************)
NoWire == [st |-> "closed", tries |-> 0, timer |-> FALSE, down |-> <<>>]
(* Opening another conversation closes the socket, and the customer's page gives
   up its retries until the new one has opened. *)
connect(w) == [w EXCEPT !.st = "connecting", !.timer = FALSE, !.down = <<>>]
reconnected(w) == [connect(w) EXCEPT !.tries = IF Me = "user" THEN MaxReconnects ELSE 0]
sendAck(s, ids) == IF s.wire.st = "open" THEN [s EXCEPT !.acks = @ \cup ids] ELSE s

(* After each change of the messages: those of the other party that are unread are
   acknowledged once; the agent also marks the conversation of the URL over HTTP. *)
MarkRead(s) ==
  LET fresh == {s.ui.conv.msgs[i].id : i \in {j \in DOMAIN s.ui.conv.msgs :
                  s.ui.conv.msgs[j].by = Other /\ ~s.ui.conv.msgs[j].read /\ s.ui.conv.msgs[j].id > 0}} \ s.ui.acked
      t == sendAck([s EXCEPT !.ui.acked = @ \cup fresh], fresh)
  IN  IF screen = "panel" \/ fresh = {} THEN s
      ELSE IF Me = "user" THEN t ELSE [t EXCEPT !.acks = @ \cup Unread(s.ui.active, Other)]
Show(s, conv) == MarkRead([s EXCEPT !.ui.conv = conv])

(***************************************************************************)
(* Loading.  A GET that is cached is answered at once.                     *)
(***************************************************************************)
NoDetail == NothingShown
(* A list that arrives selects the first conversation on the customer's page when
   none is active, which connects the socket and loads it.  The agent's list only
   links to the conversations: its loads, also those that a timer starts after a
   message, are left out. *)
loadConversation(s, c, silent) ==
  LET t == IF silent \/ Me = "user" THEN s ELSE [s EXCEPT !.ui.loading = TRUE]
  IN  IF s.cache.detail[c] = NoDetail THEN Sent(t, [Call("detail", c) EXCEPT !.silent = silent])
      ELSE Show([t EXCEPT !.ui.loading = FALSE], s.cache.detail[c])
Select(s, c) == loadConversation([s EXCEPT !.ui.active = c, !.wire = reconnected(@)], c, FALSE)
Listed(s, list, then) ==
  LET t == [s EXCEPT !.ui.list = list, !.ui.listing = FALSE, !.ui.sending = IF then = "unlock" THEN FALSE ELSE @]
      u == IF then = "leave" THEN [t EXCEPT !.ui.conv = NothingShown, !.ui.active = NoConv, !.wire = NoWire] ELSE t
  IN  IF screen = "shopper" /\ s.ui.active = NoConv /\ list # {} THEN Select(u, CHOOSE c \in list : TRUE) ELSE u
loadConversations(s, then) ==
  LET t == [s EXCEPT !.ui.listing = TRUE]
  IN  IF Me = "admin" THEN Listed(s, Convs, then)
      ELSE IF s.cache.list = {} THEN Sent(t, [Call("list", NoConv) EXCEPT !.then = then]) ELSE Listed(t, s.cache.list, then)

(***************************************************************************)
(* What a page offers.                                                     *)
(***************************************************************************)
Reading == ui.conv.id # NoConv
(* The profile's panel: a form, a list and the conversation that is read. *)
PanelOffers ==
  IF screen # "panel" THEN {}
  ELSE {"toggle"} \cup (IF ui.form /\ ~ui.creating THEN {"create"} ELSE {})
       \cup (IF ui.listing THEN {} ELSE {"open"})
       \cup (IF Reading /\ ui.conv.status = "open" THEN {"close"} ELSE {})

(* The agent's page asks for its conversation every 3 s (bound: once at a time). *)
Poll == /\ screen = "agent" /\ CanCall /\ \A i \in DOMAIN calls : ~calls[i].silent
        /\ Do(loadConversation(Here, ui.active, TRUE))
(* The agent follows a link to another conversation. *)
Navigate == /\ screen = "agent" /\ CanCall
            /\ \E c \in ui.list \ {ui.active} : Op(Select(Here, c))
(* The panel opens a conversation of its list. *)
openConversation == /\ "open" \in PanelOffers /\ CanCall
                    /\ \E c \in ui.list : Op(Select([Here EXCEPT !.ui.form = FALSE], c))

Locked == ui.conv.status = "closed" \/ (Me = "admin" /\ ui.conv.holder = "other")
(* Without a conversation the customer sees the form that opens one. *)
EntryOffers ==
  IF screen # "shopper" \/ Reading THEN {}
  ELSE {"upload"} \cup (IF ui.sending THEN {} ELSE {"create"})
HeaderOffers ==
  IF ~Reading THEN {}
  ELSE (IF ui.conv.status = "closed" THEN {} ELSE {"close"})
       \cup (IF screen = "shopper" /\ ~ui.sending THEN {"card"} ELSE {})
       \cup (IF Me = "admin" /\ ui.conv.status = "open" THEN {"replied"} ELSE {})
       \cup (IF Me = "admin" /\ ui.conv.holder = "other" THEN {"takeover"} ELSE {})
ListOffers ==
  {"filter"} \cup (IF Reading /\ ui.conv.more /\ ui.conv.msgs # <<>> /\ ~ui.older /\ ~ui.loading /\ ~(screen = "shopper" /\ ui.listing) THEN {"older"} ELSE {})
(* Return in the text field sends although the button is dead while a message is
   being sent; the panel's handler looks at the flag itself.  What is typed is
   typed when it is sent. *)
InputOffers ==
  IF ~Reading \/ Locked THEN {}
  ELSE (IF ui.uploading THEN {} ELSE {"upload"}) \cup (IF screen = "panel" /\ ui.sending THEN {} ELSE {"send"})

(***************************************************************************)
(* Sending: one optimistic bubble for the text and one for the attachment, *)
(* posted one after the other.                                             *)
(***************************************************************************)
Pending(typed) == (IF typed THEN <<"text">> ELSE <<>>) \o (IF ui.file THEN <<"image">> ELSE <<>>)
Post(s, c, queue) ==
  Sent(s, [Call("post", c) EXCEPT !.temp = Head(queue).id, !.kind = Head(queue).kind, !.rest = Tail(queue)])
handleSend ==
  /\ screen \in Talks /\ "send" \in InputOffers /\ ui.active # NoConv /\ CanCall
  /\ \E typed \in {TRUE, ~ui.file} :
       LET temps == [i \in DOMAIN Pending(typed) |-> [Bubble(-(ui.temps + i), Me, Pending(typed)[i])
                       EXCEPT !.st = "sending", !.read = screen # "panel"]]
           s == [Here EXCEPT !.ui.file = FALSE, !.ui.error = FALSE, !.ui.sending = TRUE,
                             !.ui.temps = @ + Len(temps), !.ui.conv.msgs = @ \o temps]
       IN  Op(Post(s, ui.active, temps))
(* A product's card goes without a bubble. *)
handleSendProductCard ==
  /\ screen = "shopper" /\ "card" \in HeaderOffers /\ ui.active # NoConv /\ CanCall
  /\ Op(Sent([Here EXCEPT !.ui.sending = TRUE], [Call("post", ui.active) EXCEPT !.kind = "card"]))

\* Mutant of posted: the answer is added whatever is shown.
postedAgain(s, c) ==
  LET at == IndexOf(s.ui.conv.msgs, LAMBDA b : b.id = c.temp /\ c.temp # 0)
      real == [c.got.msgs[1] EXCEPT !.st = "sent"]
  IN  IF s.ui.conv.id = NoConv THEN s
      ELSE IF at # 0 THEN Show(s, [s.ui.conv EXCEPT !.msgs[at] = real])
      ELSE Show(s, [s.ui.conv EXCEPT !.msgs = Append(@, real)])
(* The answer takes the place of its bubble; when the bubble is gone it is added
   unless it is shown.  The panel only looks for the bubble. *)
posted(s, c) ==
  LET at == IndexOf(s.ui.conv.msgs, LAMBDA b : b.id = c.temp /\ c.temp # 0)
      real == [c.got.msgs[1] EXCEPT !.st = "sent"]
  IN  IF s.ui.conv.id = NoConv THEN s
      ELSE IF at # 0 THEN Show(s, [s.ui.conv EXCEPT !.msgs[at] = real])
      ELSE IF screen = "panel" \/ real.id \in Ids(s.ui.conv.msgs) THEN s
      ELSE Show(s, [s.ui.conv EXCEPT !.msgs = Append(@, real)])
\* Mutant of unposted: the bubble of a message that failed stays.
unpostedKept(s, c) == [s EXCEPT !.ui.error = TRUE]
(* A failure takes the bubble away; the panel marks it as sent. *)
unposted(s, c) ==
  IF screen = "panel"
    THEN [s EXCEPT !.ui.conv.msgs = [i \in DOMAIN @ |-> IF @[i].id = c.temp THEN [@[i] EXCEPT !.st = "sent"] ELSE @[i]]]
  ELSE [s EXCEPT !.ui.conv.msgs = Kept(@, {b \in ToSet(@) : b.id # c.temp}), !.ui.error = TRUE]
Answered(s, c) ==
  LET t == IF c.st = "ok" THEN posted(s, c) ELSE unposted(s, c)
  IN  IF c.rest # <<>> THEN Post(t, c.conv, c.rest)
      ELSE IF screen = "panel" \/ (c.temp = 0 /\ c.st = "no") THEN [t EXCEPT !.ui.sending = FALSE]
      ELSE loadConversations(t, "unlock")

(***************************************************************************)
(* The other operations of the pages.                                      *)
(***************************************************************************)
handleCreate ==
  /\ Late \ {c \in Convs : chat[c].msgs # <<>>} # {} /\ CanCall
  /\ "create" \in EntryOffers \cup PanelOffers
  /\ Op(Sent(IF screen = "panel" THEN [Here EXCEPT !.ui.creating = TRUE] ELSE [Here EXCEPT !.ui.sending = TRUE], Call("create", CHOOSE c \in Late : chat[c].msgs = <<>>)))
(* The panel reads its list before it shows what it created. *)
Created(s, c) ==
  LET t == [s EXCEPT !.ui.file = FALSE, !.ui.form = FALSE]
  IN  IF c.st = "no" THEN [s EXCEPT !.ui.sending = @ /\ screen = "panel", !.ui.creating = FALSE]
      ELSE IF screen = "panel"
      THEN Sent([t EXCEPT !.ui.listing = TRUE], [Call("list", c.conv) EXCEPT !.then = "open", !.got = c.got])
      ELSE loadConversations(loadConversation(Show([t EXCEPT !.ui.active = c.conv, !.wire = reconnected(@)], c.got), c.conv, FALSE), "unlock")
ShowCreated(s, c) ==
  IF c.then # "open" THEN s
  ELSE Show([s EXCEPT !.ui.active = c.conv, !.ui.creating = FALSE, !.wire = reconnected(@)], c.got)
ToggleNewForm == "toggle" \in PanelOffers /\ Do([Here EXCEPT !.ui.form = ~@])

handleLoadOlder ==
  /\ screen \in {"shopper", "agent"} /\ "older" \in ListOffers /\ CanCall
  /\ Op(Sent([Here EXCEPT !.ui.older = TRUE], [Call("older", ui.conv.id) EXCEPT !.before = ui.conv.msgs[1].id]))
OlderLoaded(s, c) ==
  LET older == Kept(c.got.msgs, {b \in ToSet(c.got.msgs) : b.id \notin Ids(s.ui.conv.msgs)})
      t == [s EXCEPT !.ui.older = FALSE]
  IN  IF c.st = "ok" /\ s.ui.conv.id = c.conv
        THEN Show(t, [s.ui.conv EXCEPT !.msgs = older \o @, !.more = c.got.more]) ELSE t

handleClose == screen \in Talks /\ "close" \in (IF screen = "panel" THEN PanelOffers ELSE HeaderOffers) /\ ui.active # NoConv /\ CanCall /\ Op(Sent(Here, Call("close", ui.active)))
handleMarkReplied == screen = "agent" /\ "replied" \in HeaderOffers /\ CanCall /\ Op(Sent(Here, Call("claim", ui.active)))
handleForceTakeover == screen = "agent" /\ "takeover" \in HeaderOffers /\ CanCall /\ Op(Sent(Here, Call("claim", ui.active)))
(* After a close or a claim the conversation and the list are loaded again; the
   panel leaves the conversation. *)
Closed(s, c) ==
  IF c.st = "no" THEN s
  ELSE IF screen = "panel" THEN loadConversations(s, "leave")
  ELSE loadConversations(loadConversation(s, c.conv, FALSE), "none")

handleUpload == /\ screen \in {"shopper", "agent"} /\ "upload" \in InputOffers \cup EntryOffers /\ ~ui.uploading /\ ~ui.file /\ CanCall
                /\ Op(Sent([Here EXCEPT !.ui.uploading = TRUE], Call("upload", NoConv)))
Uploaded(s, c) == [s EXCEPT !.ui.uploading = FALSE, !.ui.file = @ \/ c.st = "ok"]
removeAttachment == screen \in {"shopper", "agent"} /\ ui.file /\ Do([Here EXCEPT !.ui.file = FALSE])
==============================================================================
