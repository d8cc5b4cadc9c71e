----------------------------- MODULE ChatProofs -----------------------------
(***************************************************************************)
(* Theorems about the pages of the chat, for any conversations, numbers of *)
(* messages, calls and reconnections, and windows of any length.           *)
(***************************************************************************)
EXTENDS ChatPages, DataTheorems

(***************************************************************************)
(* What is known of messages, answers, calls and what a page shows.        *)
(***************************************************************************)
Parties == {"user", "admin"}
Kinds == {"text", "image", "card"}
Marks == {"none", "sending", "sent", "read"}
Bubbles == [id : Int, by : Parties, kind : Kinds, read : BOOLEAN, st : Marks]
Details == [id : Convs \cup {NoConv}, msgs : Seq(Bubbles), status : {"open", "closed"}, more : BOOLEAN, holder : {"none", "me", "other"}]
Messages == [id : Nat \ {0}, by : Parties, kind : Kinds]

\* What the server knows: its conversations, those that have begun, the numbers given to messages, and
\* those of the messages that were read.
Begun(ch) == {c \in Convs : ch[c].msgs # <<>>}
Given(ch) == UNION {Ids(ch[c].msgs) : c \in Convs}
ReadOnes(ch) == UNION {ch[c].read : c \in Convs}
IdsApart(ms) == \A i, j \in DOMAIN ms : i # j => ms[i].id # ms[j].id \/ ms[i].id = 0
Numbered(ch, n) == n \in Given(ch) /\ \A k \in Given(ch) : k <= n
Conversation == [msgs : Seq(Messages), read : SUBSET (Nat \ {0}), status : {"open", "closed"}, holder : {"none", "me", "other"}]
Conversations(ch) ==
  /\ ch \in [Convs -> Conversation]
  /\ \A c \in Convs : IdsApart(ch[c].msgs)
  /\ Me = "admin" => Begun(ch) = Convs

\* What is known when n messages have been numbered, R is what was read and E has begun.
Known(b, n, R) ==
  /\ b.id <= n /\ (b.id = 0 => screen = "panel")
  /\ b.id >= 0 => b.st # "sending" /\ (b.read \/ b.st = "read" => b.id \in R)
  /\ b.id < 0 => b.st \in {"sending", "sent"} /\ (b.read => b.st = "sending" /\ screen # "panel")
Answers(d, n, R) ==
  /\ d \in Details /\ IdsApart(d.msgs) /\ \A i \in DOMAIN d.msgs : Known(d.msgs[i], n, R) /\ d.msgs[i].id > 0
  /\ d.id = NoConv <=> d.msgs = <<>>
Shows(d, temps, n, R) ==
  /\ d \in Details /\ IdsApart(d.msgs) /\ \A i \in DOMAIN d.msgs : Known(d.msgs[i], n, R) /\ -temps <= d.msgs[i].id
  /\ d.id = NoConv <=> d.msgs = <<>>
  /\ d.id # NoConv /\ screen # "panel" => d.msgs[1].id > 0

CallFields == {"op", "conv", "st", "temp", "kind", "rest", "silent", "then", "before", "got", "list"}
Placed == {"detail", "post", "card", "close", "claim"}
IsCall(c, temps, n, R, E) ==
  /\ DOMAIN c = CallFields /\ c.conv \in Convs \cup {NoConv} /\ c.list \subseteq E /\ c.st \in {"sent", "ok", "no"}
  /\ c.op \in Placed \/ (c.op = "create" /\ c.st = "ok") \/ c.then = "open" => c.conv \in E
  /\ c.op \in {"create", "older"} => c.conv \in Convs
  /\ (c.op \in {"detail", "create"} /\ c.st = "ok") \/ c.then = "open" => Answers(c.got, n, R)
  /\ (c.then = "leave" => screen = "panel") /\ (c.then = "open" => c.op = "list")
  /\ c.op = "older" => c.before \in Int /\ c.before <= n
  /\ c.op = "older" /\ c.st = "ok" =>
       /\ c.got.msgs \in Seq(Bubbles) /\ IdsApart(c.got.msgs) /\ c.got.more \in BOOLEAN
       /\ \A i \in DOMAIN c.got.msgs : c.got.msgs[i].id < c.before /\ Known(c.got.msgs[i], n, R) /\ c.got.msgs[i].id > 0
  /\ c.op \in {"post", "card"} => c.kind \in Kinds
  /\ c.op = "post" =>
       /\ c.temp \in Int /\ -temps <= c.temp /\ c.temp <= 0 /\ c.rest \in Seq(Bubbles)
       /\ \A i \in DOMAIN c.rest : -temps <= c.rest[i].id /\ c.rest[i].id < 0
       /\ c.st = "ok" => \E k \in 1..n : c.got.msgs = <<Bubble(k, Me, c.kind)>>

Frames == [type : {"message", "read_receipt"}, id : Nat \ {0}, by : Parties]
IsFrame(f, n, R) == f \in Frames /\ (f.type = "message" => f.id <= n) /\ (f.type = "read_receipt" => f.id \in R)

\* What an answered post brings is new to the page as long as its bubble is shown.
Posted(c) == c.op = "post" /\ c.st = "ok"
Real(c) == c.got.msgs[1].id
Brings(c, d, cs, down) ==
  /\ \A k \in DOMAIN down : down[k].type = "message" => down[k].id # Real(c)
  /\ c.temp # 0 /\ c.temp \in Ids(d.msgs) =>
       /\ Real(c) \notin Ids(d.msgs)
       /\ \A j \in DOMAIN cs : cs[j].op = "older" => cs[j].before < Real(c)
       /\ screen # "panel" => d.msgs[1].id < Real(c)
News(d, cs, down) ==
  \A i \in DOMAIN cs : Posted(cs[i]) =>
     /\ Brings(cs[i], d, cs, down)
     /\ \A j \in DOMAIN cs : Posted(cs[j]) /\ Real(cs[i]) = Real(cs[j]) => i = j
\* A bubble that is being sent is one of X, or a call under way carries it.
Carried(c) == IF c.op = "post" THEN {c.temp} \cup Ids(c.rest) ELSE {}
Going(d, cs, X) ==
  \A b \in ToSet(d.msgs) : b.st = "sending" => b.id \in X \/ \E i \in DOMAIN cs : b.id \in Carried(cs[i])

Talking(s, n, R, E, X) ==
  /\ DOMAIN s = {"ui", "wire", "calls", "cache", "acks"} /\ DOMAIN s.ui = DOMAIN BlankChat
  /\ DOMAIN s.wire = DOMAIN NoWire /\ DOMAIN s.cache = {"list", "detail"}
  /\ s.ui.temps \in Nat /\ s.ui.list \subseteq E /\ s.ui.active \in E \cup {NoConv}
  /\ screen \in {"agent", "tools"} => s.ui.active # NoConv
  /\ s.cache.list \subseteq E /\ DOMAIN s.cache.detail = Convs /\ \A c \in Convs : Answers(s.cache.detail[c], n, R)
  /\ s.wire.down \in Seq(Frames) /\ \A k \in DOMAIN s.wire.down : IsFrame(s.wire.down[k], n, R)
  /\ s.calls \in Seq(ToSet(s.calls)) /\ \A i \in DOMAIN s.calls : IsCall(s.calls[i], s.ui.temps, n, R, E)
  /\ Shows(s.ui.conv, s.ui.temps, n, R)
  /\ News(s.ui.conv, s.calls, s.wire.down)
  /\ Going(s.ui.conv, s.calls, X)
Conversing ==
  /\ Conversations(chat) /\ screen \in Screens /\ NextId \in Nat
  /\ Numbered(chat, NextId - 1) /\ Talking(Here, NextId - 1, ReadOnes(chat), Begun(chat), {})


-----------------------------------------------------------------------------
(***************************************************************************)
(* Lists of bubbles.                                                       *)
(***************************************************************************)
Leftmost(S) == IF S = {} THEN 0 ELSE CHOOSE i \in S : \A j \in S : i <= j
LEMMA LeftmostFacts ==
    ASSUME NEW n \in Nat, NEW S \in SUBSET (1..n)
    PROVE  Leftmost(S) \in 0..n /\ (Leftmost(S) # 0 => Leftmost(S) \in S) /\ (Leftmost(S) = 0 => S = {})
<1>1. S # {} => \E i \in S : \A j \in S : i <= j
  BY LeastNumber
<1>2. S # {} => (CHOOSE i \in S : \A j \in S : i <= j) \in S
  BY <1>1
<1>3. S = {} => Leftmost(S) = 0
  BY DEF Leftmost
<1>4. S # {} => Leftmost(S) \in S
  BY <1>2 DEF Leftmost
<1> DEFINE l == Leftmost(S)
<1>5. (S = {} => l = 0) /\ (S # {} => l \in S)
  BY <1>3, <1>4
<1> HIDE DEF l
<1>6. S # {} => l \in 1..n /\ l # 0
  <2>1. \A m \in S : m \in 1..n
    OBVIOUS
  <2>2. \A m \in 1..n : m # 0
    OBVIOUS
  <2>3. QED BY <1>5, <2>1, <2>2
<1>6a. (l # 0 => l \in S) /\ (l = 0 => S = {})
  BY <1>5, <1>6
<1>6b. l \in 0..n
  BY <1>5, <1>6
<1>7. QED BY <1>6a, <1>6b DEF l

\* The bubble with an id, if it is shown, and the first one of mine under way.
PlacesOf(ms, k) == {i \in DOMAIN ms : ms[i].id = k}
MinePlaces(ms) == {i \in DOMAIN ms : ms[i].id < 0 /\ ms[i].by = Me}
LEMMA IndexFacts ==
    ASSUME NEW ms \in Seq(Bubbles), NEW k
    PROVE  LET at == Leftmost(PlacesOf(ms, k))
               temp == Leftmost(MinePlaces(ms))
           IN  /\ at \in 0..Len(ms) /\ (at # 0 => ms[at].id = k) /\ (at = 0 => k \notin Ids(ms))
               /\ temp \in 0..Len(ms) /\ (temp # 0 => ms[temp].id < 0 /\ ms[temp].by = Me)
<1>1. /\ Len(ms) \in Nat /\ PlacesOf(ms, k) \in SUBSET (1..Len(ms)) /\ MinePlaces(ms) \in SUBSET (1..Len(ms))
  BY DEF PlacesOf, MinePlaces
<1> DEFINE at == Leftmost(PlacesOf(ms, k))
           temp == Leftmost(MinePlaces(ms))
<1>2. at \in 0..Len(ms) /\ (at # 0 => at \in PlacesOf(ms, k)) /\ (at = 0 => PlacesOf(ms, k) = {})
  BY <1>1, LeftmostFacts
<1>3. temp \in 0..Len(ms) /\ (temp # 0 => temp \in MinePlaces(ms))
  BY <1>1, LeftmostFacts
<1> HIDE DEF at, temp
<1>4. (at # 0 => ms[at].id = k) /\ (at = 0 => k \notin Ids(ms))
  BY <1>2 DEF PlacesOf, Ids
<1>5. temp # 0 => ms[temp].id < 0 /\ ms[temp].by = Me
  BY <1>3 DEF MinePlaces
<1>6. QED BY <1>2, <1>3, <1>4, <1>5 DEF at, temp

-----------------------------------------------------------------------------
(***************************************************************************)
(* What is known stays known as messages are numbered and read.            *)
(***************************************************************************)
LEMMA AnswersGrow ==
    ASSUME NEW n \in Nat, NEW m \in Nat, n <= m, NEW R, NEW Q, R \subseteq Q, NEW d, Answers(d, n, R)
    PROVE  Answers(d, m, Q)
<1>1. \A i \in DOMAIN d.msgs : d.msgs[i] \in Bubbles
  BY DEF Answers, Details
<1>2. \A b \in Bubbles : Known(b, n, R) => Known(b, m, Q)
  BY DEF Known, Bubbles
<1>3. QED BY <1>1, <1>2 DEF Answers

LEMMA ShowsGrow ==
    ASSUME NEW n \in Nat, NEW m \in Nat, n <= m, NEW R, NEW Q, R \subseteq Q, NEW d, NEW t \in Nat, Shows(d, t, n, R)
    PROVE  Shows(d, t, m, Q)
<1>1. \A i \in DOMAIN d.msgs : d.msgs[i] \in Bubbles
  BY DEF Shows, Details
<1>2. \A b \in Bubbles : Known(b, n, R) => Known(b, m, Q)
  BY DEF Known, Bubbles
<1>3. QED BY <1>1, <1>2 DEF Shows

LEMMA CallsGrow ==
    ASSUME NEW n \in Nat, NEW m \in Nat, n <= m, NEW R, NEW Q, R \subseteq Q, NEW E, NEW F, E \subseteq F,
           NEW t \in Nat, NEW u \in Nat, t <= u, NEW c, IsCall(c, t, n, R, E)
    PROVE  IsCall(c, u, m, Q, F)
<1>1. Answers(c.got, n, R) => Answers(c.got, m, Q)
  BY AnswersGrow
<1>2. \A b \in Bubbles : Known(b, n, R) => Known(b, m, Q)
  BY DEF Known, Bubbles
<1>3. /\ DOMAIN c = CallFields /\ c.conv \in Convs \cup {NoConv} /\ c.list \subseteq F /\ c.st \in {"sent", "ok", "no"}
      /\ c.op \in Placed \/ (c.op = "create" /\ c.st = "ok") \/ c.then = "open" => c.conv \in F
      /\ c.op \in {"create", "older"} => c.conv \in Convs
      /\ (c.op \in {"detail", "create"} /\ c.st = "ok") \/ c.then = "open" => Answers(c.got, m, Q)
      /\ (c.then = "leave" => screen = "panel") /\ (c.then = "open" => c.op = "list")
      /\ c.op = "older" => c.before \in Int /\ c.before <= m
      /\ c.op \in {"post", "card"} => c.kind \in Kinds
  BY <1>1 DEF IsCall
<1>4. ASSUME c.op = "older", c.st = "ok"
      PROVE  /\ c.got.msgs \in Seq(Bubbles) /\ IdsApart(c.got.msgs) /\ c.got.more \in BOOLEAN
             /\ \A i \in DOMAIN c.got.msgs : c.got.msgs[i].id < c.before /\ Known(c.got.msgs[i], m, Q) /\ c.got.msgs[i].id > 0
  <2>1. c.got.msgs \in Seq(Bubbles) /\ IdsApart(c.got.msgs) /\ c.got.more \in BOOLEAN
    BY <1>4 DEF IsCall
  <2>2. \A i \in DOMAIN c.got.msgs : c.got.msgs[i].id < c.before /\ Known(c.got.msgs[i], n, R) /\ c.got.msgs[i].id > 0
    BY <1>4 DEF IsCall
  <2>3. \A i \in DOMAIN c.got.msgs : c.got.msgs[i] \in Bubbles
    BY <2>1
  <2>4. QED BY <1>2, <2>1, <2>2, <2>3
<1>5. ASSUME c.op = "post"
      PROVE  /\ c.temp \in Int /\ -u <= c.temp /\ c.temp <= 0 /\ c.rest \in Seq(Bubbles)
             /\ \A i \in DOMAIN c.rest : -u <= c.rest[i].id /\ c.rest[i].id < 0
             /\ c.st = "ok" => \E k \in 1..m : c.got.msgs = <<Bubble(k, Me, c.kind)>>
  <2>1. /\ c.temp \in Int /\ -t <= c.temp /\ c.temp <= 0 /\ c.rest \in Seq(Bubbles)
        /\ \A i \in DOMAIN c.rest : -t <= c.rest[i].id /\ c.rest[i].id < 0
        /\ c.st = "ok" => \E k \in 1..n : c.got.msgs = <<Bubble(k, Me, c.kind)>>
    BY <1>5 DEF IsCall
  <2>2. \A i \in DOMAIN c.rest : c.rest[i].id \in Int
    <3>1. \A b \in Bubbles : b.id \in Int
      BY DEF Bubbles
    <3>2. QED BY <2>1, <3>1
  <2>3. \A k \in 1..n : k \in 1..m
    OBVIOUS
  <2>4. QED BY <2>1, <2>2, <2>3
<1>6. QED BY <1>3, <1>4, <1>5 DEF IsCall

LEMMA FramesGrow ==
    ASSUME NEW n \in Nat, NEW m \in Nat, n <= m, NEW R, NEW Q, R \subseteq Q, NEW f, IsFrame(f, n, R)
    PROVE  IsFrame(f, m, Q)
BY DEF IsFrame, Frames

LEMMA TalkingGrows ==
    ASSUME NEW n \in Nat, NEW m \in Nat, n <= m, NEW R, NEW Q, R \subseteq Q, NEW E, NEW F, E \subseteq F,
           NEW s, NEW X, Talking(s, n, R, E, X)
    PROVE  Talking(s, m, Q, F, X)
<1>1. s.ui.temps \in Nat
  BY DEF Talking
<1>2. \A i \in DOMAIN s.calls : IsCall(s.calls[i], s.ui.temps, m, Q, F)
  <2> SUFFICES ASSUME NEW i \in DOMAIN s.calls PROVE IsCall(s.calls[i], s.ui.temps, m, Q, F)
    OBVIOUS
  <2>1. IsCall(s.calls[i], s.ui.temps, n, R, E)
    BY DEF Talking
  <2>2. s.ui.temps <= s.ui.temps
    BY <1>1
  <2>3. QED BY <1>1, <2>1, <2>2, CallsGrow
<1>3. \A k \in DOMAIN s.wire.down : IsFrame(s.wire.down[k], m, Q)
  BY FramesGrow DEF Talking
<1>4. \A c \in Convs : Answers(s.cache.detail[c], m, Q)
  BY AnswersGrow DEF Talking
<1>5. Shows(s.ui.conv, s.ui.temps, m, Q)
  BY <1>1, ShowsGrow DEF Talking
<1>6. QED BY <1>2, <1>3, <1>4, <1>5 DEF Talking

-----------------------------------------------------------------------------
(***************************************************************************)
(* Handlers that touch neither what is shown nor what is under way.        *)
(***************************************************************************)
Shaped(s) ==
  /\ DOMAIN s = {"ui", "wire", "calls", "cache", "acks"} /\ DOMAIN s.ui = DOMAIN BlankChat
  /\ DOMAIN s.wire = DOMAIN NoWire /\ DOMAIN s.cache = {"list", "detail"}
Links(s, E) ==
  /\ s.ui.list \subseteq E /\ s.ui.active \in E \cup {NoConv} /\ (screen \in {"agent", "tools"} => s.ui.active # NoConv)
  /\ s.cache.list \subseteq E
Caches(s, n, R) == DOMAIN s.cache.detail = Convs /\ \A c \in Convs : Answers(s.cache.detail[c], n, R)
Resembles(s, t) ==
  /\ t.ui.temps = s.ui.temps /\ t.ui.conv = s.ui.conv /\ t.calls = s.calls /\ t.wire.down \in {s.wire.down, <<>>}

LEMMA Aside ==
    ASSUME NEW s, NEW t, NEW n, NEW R, NEW E, NEW X, Talking(s, n, R, E, X),
           Shaped(t), Links(t, E), Caches(t, n, R), Resembles(s, t)
    PROVE  Talking(t, n, R, E, X)
<1>1. /\ t.wire.down \in Seq(Frames) /\ \A k \in DOMAIN t.wire.down : IsFrame(t.wire.down[k], n, R)
  <2>1. /\ s.wire.down \in Seq(Frames) /\ \A k \in DOMAIN s.wire.down : IsFrame(s.wire.down[k], n, R)
    BY DEF Talking
  <2>2. CASE t.wire.down = s.wire.down
    BY <2>1, <2>2
  <2>3. CASE t.wire.down = <<>>
    BY <2>3
  <2>4. QED BY <2>2, <2>3 DEF Resembles
<1>2. News(t.ui.conv, t.calls, t.wire.down)
  <2>1. News(s.ui.conv, s.calls, s.wire.down) /\ t.ui.conv = s.ui.conv /\ t.calls = s.calls
    BY DEF Talking, Resembles
  <2>2. ASSUME NEW c, Brings(c, s.ui.conv, s.calls, s.wire.down) PROVE Brings(c, s.ui.conv, s.calls, t.wire.down)
    BY <2>2 DEF Brings, Resembles
  <2>3. QED BY <2>1, <2>2 DEF News
<1>3. QED
  BY <1>1, <1>2 DEF Talking, Shaped, Links, Caches, Resembles

-----------------------------------------------------------------------------
(***************************************************************************)
(* A call is sent; something else is shown.                                *)
(***************************************************************************)
\* An older page is asked for below what the posts under way bring.
Below(s, c) == c.op = "older" =>
  \A i \in DOMAIN s.calls : Posted(s.calls[i]) /\ s.calls[i].temp # 0 /\ s.calls[i].temp \in Ids(s.ui.conv.msgs)
                            => c.before < Real(s.calls[i])
LEMMA SentFacts ==
    ASSUME NEW s, Shaped(s), s.calls \in Seq(ToSet(s.calls)), NEW c
    PROVE  /\ Shaped(Sent(s, c)) /\ Sent(s, c).ui = s.ui /\ Sent(s, c).wire = s.wire /\ Sent(s, c).cache = s.cache
           /\ Sent(s, c).calls \in Seq(ToSet(Sent(s, c).calls)) /\ DOMAIN Sent(s, c).calls = DOMAIN s.calls \cup {Len(s.calls) + 1}
           /\ Sent(s, c).calls[Len(s.calls) + 1] = c /\ Len(s.calls) + 1 \notin DOMAIN s.calls
           /\ \A i \in DOMAIN s.calls : Sent(s, c).calls[i] = s.calls[i]
<1> DEFINE D == ToSet(s.calls) \cup {c}
           cs == Append(s.calls, c)
<1>1. s.calls \in Seq(D) /\ c \in D
  OBVIOUS
<1>2. cs \in Seq(D) /\ ToSet(cs) = D
  <2> HIDE DEF D
  <2>1. Append(s.calls, c) \in Seq(D) /\ ToSet(Append(s.calls, c)) = ToSet(s.calls) \cup {c}
    BY <1>1, AppendFacts
  <2>2. QED BY <2>1 DEF D
<1>3. /\ Shaped(Sent(s, c)) /\ Sent(s, c).ui = s.ui /\ Sent(s, c).wire = s.wire /\ Sent(s, c).cache = s.cache
      /\ Sent(s, c).calls = cs
  <2> HIDE DEF cs
  <2>1. cs = Append(s.calls, c)
    BY DEF cs
  <2>2. QED BY <2>1 DEF Shaped, Sent
<1>4. /\ DOMAIN cs = DOMAIN s.calls \cup {Len(s.calls) + 1} /\ cs[Len(s.calls) + 1] = c
      /\ Len(s.calls) + 1 \notin DOMAIN s.calls /\ \A i \in DOMAIN s.calls : cs[i] = s.calls[i]
  <2> HIDE DEF D
  <2>1. QED BY <1>1
<1> HIDE DEF cs, D
<1>5. QED BY <1>2, <1>3, <1>4

LEMMA SentTalks ==
    ASSUME NEW s, NEW n, NEW R, NEW E, NEW X, NEW Y, Talking(s, n, R, E, X), NEW c, IsCall(c, s.ui.temps, n, R, E),
           ~Posted(c), Below(s, c), X \subseteq Y \cup Carried(c)
    PROVE  Talking(Sent(s, c), n, R, E, Y)
<1> DEFINE t == Sent(s, c)
           k == Len(s.calls) + 1
<1>0. Shaped(s) /\ s.calls \in Seq(ToSet(s.calls))
  BY DEF Talking, Shaped
<1>1. /\ Shaped(t) /\ t.ui = s.ui /\ t.wire = s.wire /\ t.cache = s.cache
      /\ t.calls \in Seq(ToSet(t.calls)) /\ DOMAIN t.calls = DOMAIN s.calls \cup {k}
      /\ t.calls[k] = c /\ k \notin DOMAIN s.calls /\ \A i \in DOMAIN s.calls : t.calls[i] = s.calls[i]
  BY <1>0, SentFacts
<1> HIDE DEF t, k
<1>2. \A i \in DOMAIN t.calls : IsCall(t.calls[i], t.ui.temps, n, R, E)
  BY <1>1 DEF Talking
<1>3. News(t.ui.conv, t.calls, t.wire.down)
  <2>1. News(s.ui.conv, s.calls, s.wire.down)
    BY DEF Talking
  <2>2. ASSUME NEW i \in DOMAIN t.calls, Posted(t.calls[i])
        PROVE  /\ Brings(t.calls[i], s.ui.conv, t.calls, s.wire.down)
               /\ \A j \in DOMAIN t.calls : Posted(t.calls[j]) /\ Real(t.calls[i]) = Real(t.calls[j]) => i = j
    <3>1. i \in DOMAIN s.calls /\ t.calls[i] = s.calls[i] /\ Posted(s.calls[i])
      BY <1>1, <2>2
    <3>2. /\ Brings(s.calls[i], s.ui.conv, s.calls, s.wire.down)
          /\ \A j \in DOMAIN s.calls : Posted(s.calls[j]) /\ Real(s.calls[i]) = Real(s.calls[j]) => i = j
      BY <2>1, <3>1 DEF News
    <3>3. Brings(s.calls[i], s.ui.conv, t.calls, s.wire.down)
      BY <1>1, <3>1, <3>2 DEF Brings, Below
    <3>4. QED BY <1>1, <3>1, <3>2, <3>3
  <2>3. QED BY <1>1, <2>2 DEF News
<1>4. Going(t.ui.conv, t.calls, Y)
  <2>1. Going(s.ui.conv, s.calls, X)
    BY DEF Talking
  <2>2. QED BY <1>1, <2>1 DEF Going
<1>5. Talking(t, n, R, E, Y)
  BY <1>1, <1>2, <1>3, <1>4 DEF Talking, Shaped
<1>6. QED BY <1>5 DEF t

LEMMA MarkReadFacts ==
    ASSUME NEW s, Shaped(s)
    PROVE  /\ Shaped(MarkRead(s)) /\ MarkRead(s).wire = s.wire /\ MarkRead(s).calls = s.calls /\ MarkRead(s).cache = s.cache
           /\ MarkRead(s).ui.temps = s.ui.temps /\ MarkRead(s).ui.conv = s.ui.conv
           /\ MarkRead(s).ui.list = s.ui.list /\ MarkRead(s).ui.active = s.ui.active
<1> DEFINE Like(t) == /\ Shaped(t) /\ t.wire = s.wire /\ t.calls = s.calls /\ t.cache = s.cache
                      /\ t.ui.temps = s.ui.temps /\ t.ui.conv = s.ui.conv /\ t.ui.list = s.ui.list /\ t.ui.active = s.ui.active
<1>1. \A fresh : Like([s EXCEPT !.ui.acked = @ \cup fresh])
  BY DEF Shaped, BlankChat
<1>2. \A t, fresh : Like(t) => Like(sendAck(t, fresh)) /\ Like([t EXCEPT !.acks = @ \cup fresh])
  BY DEF Shaped, sendAck
<1>3. Like(s)
  OBVIOUS
<1> HIDE DEF Like
<1>4. Like(MarkRead(s))
  BY <1>1, <1>2, <1>3 DEF MarkRead
<1>5. QED BY <1>4 DEF Like

LEMMA ShowFacts ==
    ASSUME NEW s, Shaped(s), NEW d
    PROVE  /\ Shaped(Show(s, d)) /\ Show(s, d).wire = s.wire /\ Show(s, d).calls = s.calls /\ Show(s, d).cache = s.cache
           /\ Show(s, d).ui.temps = s.ui.temps /\ Show(s, d).ui.conv = d
           /\ Show(s, d).ui.list = s.ui.list /\ Show(s, d).ui.active = s.ui.active
<1> DEFINE t == [s EXCEPT !.ui.conv = d]
<1>1. /\ Shaped(t) /\ t.wire = s.wire /\ t.calls = s.calls /\ t.cache = s.cache
      /\ t.ui.temps = s.ui.temps /\ t.ui.conv = d /\ t.ui.list = s.ui.list /\ t.ui.active = s.ui.active
  BY DEF Shaped, BlankChat
<1>2. Show(s, d) = MarkRead(t)
  BY DEF Show
<1> HIDE DEF t
<1>3. QED BY <1>1, <1>2, MarkReadFacts

\* What may be shown in place of what is.
LEMMA ShowTalks ==
    ASSUME NEW s, NEW n, NEW R, NEW E, NEW X, NEW Y, Talking(s, n, R, E, X), NEW d,
           Shows(d, s.ui.temps, n, R), News(d, s.calls, s.wire.down), Going(d, s.calls, Y)
    PROVE  Talking(Show(s, d), n, R, E, Y)
<1>1. Shaped(s)
  BY DEF Talking, Shaped
<1> DEFINE t == Show(s, d)
<1>2. /\ Shaped(t) /\ t.wire = s.wire /\ t.calls = s.calls /\ t.cache = s.cache
      /\ t.ui.temps = s.ui.temps /\ t.ui.conv = d /\ t.ui.list = s.ui.list /\ t.ui.active = s.ui.active
  BY <1>1, ShowFacts
<1> HIDE DEF t
<1>3. Talking(t, n, R, E, Y)
  BY <1>2 DEF Talking, Shaped
<1>4. QED BY <1>3 DEF t

\* An answer of the server's has no bubble under way.
LEMMA AnswerShows ==
    ASSUME NEW s, NEW n, NEW R, NEW E, NEW X, Talking(s, n, R, E, X), NEW d, Answers(d, n, R)
    PROVE  \A Y : Talking(Show(s, d), n, R, E, Y)
<1>1. /\ \A i \in DOMAIN d.msgs : d.msgs[i].id \in Int /\ d.msgs[i].id > 0 /\ d.msgs[i].st # "sending"
      /\ d.msgs \in Seq(Bubbles) /\ s.ui.temps \in Nat
  <2>1. d.msgs \in Seq(Bubbles) /\ s.ui.temps \in Nat /\ \A i \in DOMAIN d.msgs : Known(d.msgs[i], n, R) /\ d.msgs[i].id > 0
    BY DEF Answers, Details, Talking
  <2>2. \A i \in DOMAIN d.msgs : d.msgs[i] \in Bubbles
    BY <2>1
  <2>3. QED BY <2>1, <2>2 DEF Known, Bubbles
<1>2. Shows(d, s.ui.temps, n, R)
  BY <1>1 DEF Answers, Shows
<1>3. News(d, s.calls, s.wire.down)
  <2>1. News(s.ui.conv, s.calls, s.wire.down) /\ \A i \in DOMAIN s.calls : IsCall(s.calls[i], s.ui.temps, n, R, E)
    BY DEF Talking
  <2>2. ASSUME NEW i \in DOMAIN s.calls, Posted(s.calls[i]) PROVE Brings(s.calls[i], d, s.calls, s.wire.down)
    <3>1. s.calls[i].temp \in Int /\ s.calls[i].temp <= 0
      BY <2>1, <2>2 DEF IsCall, Posted
    <3>2. s.calls[i].temp \notin Ids(d.msgs)
      BY <1>1, <3>1 DEF Ids
    <3>3. QED BY <2>1, <2>2, <3>2 DEF Brings, News
  <2>3. QED BY <2>1, <2>2 DEF News
<1>4. \A Y : Going(d, s.calls, Y)
  BY <1>1 DEF Going, ToSet
<1>5. QED BY <1>2, <1>3, <1>4, ShowTalks

-----------------------------------------------------------------------------
(***************************************************************************)
(* Loading: what is kept is shown, what is not is asked for.               *)
(***************************************************************************)
Begins(E) == E \subseteq Convs /\ (Me = "admin" => E = Convs)

LEMMA NothingAnswers == ASSUME NEW n \in Nat, NEW R PROVE Answers(NothingShown, n, R)
<1>1. NothingShown \in Details
  BY DEF NothingShown, Details
<1>2. NothingShown.msgs = <<>> /\ NothingShown.id = NoConv
  BY DEF NothingShown
<1>3. QED BY <1>1, <1>2 DEF Answers, IdsApart

\* A call about a conversation that has begun; a list of them, and one that shows what was created.
LEMMA DetailCall ==
    ASSUME NEW n \in Nat, NEW R, NEW E, Begins(E), NEW temps, NEW c \in E, NEW silent
    PROVE  IsCall([Call("detail", c) EXCEPT !.silent = silent], temps, n, R, E)
BY DEF Call, IsCall, CallFields, Placed, Begins
LEMMA ListCall ==
    ASSUME NEW n \in Nat, NEW R, NEW E, Begins(E), NEW temps, NEW then, then # "open", then = "leave" => screen = "panel"
    PROVE  IsCall([Call("list", NoConv) EXCEPT !.then = then], temps, n, R, E)
BY DEF Call, IsCall, CallFields, Placed, Begins
LEMMA CreatedCall ==
    ASSUME NEW n \in Nat, NEW R, NEW E, Begins(E), NEW temps, NEW c \in E, NEW got, Answers(got, n, R)
    PROVE  IsCall([Call("list", c) EXCEPT !.then = "open", !.got = got], temps, n, R, E)
BY DEF Call, IsCall, CallFields, Placed, Begins
LEMMA PlainCall ==
    ASSUME NEW n \in Nat, NEW R, NEW E, Begins(E), NEW temps, NEW c \in E, NEW op, op \notin {"older", "post"}
    PROVE  IsCall(Call(op, c), temps, n, R, E) /\ IsCall([Call(op, c) EXCEPT !.kind = "card"], temps, n, R, E)
BY DEF Call, IsCall, CallFields, Placed, Begins, Kinds
LEMMA OtherCall ==
    ASSUME NEW n \in Nat, NEW R, NEW E, Begins(E), NEW temps, NEW c \in Convs \cup {NoConv},
           NEW op \in {"create", "upload", "search", "inbox"}, op = "create" => c \in Convs,
           NEW kind, NEW before
    PROVE  /\ IsCall(Call(op, c), temps, n, R, E) /\ IsCall([Call(op, c) EXCEPT !.before = before], temps, n, R, E)
           /\ IsCall([Call(op, c) EXCEPT !.before = before, !.kind = kind], temps, n, R, E)
BY DEF Call, IsCall, CallFields, Placed, Begins

\* Calls that are neither posts nor ask for an older page carry nothing.
LEMMA SendsAside ==
    ASSUME NEW s, NEW n, NEW R, NEW E, NEW X, Talking(s, n, R, E, X), NEW c, IsCall(c, s.ui.temps, n, R, E),
           c.op \notin {"post", "older"}
    PROVE  Talking(Sent(s, c), n, R, E, X)
BY SentTalks DEF Posted, Below

LEMMA TalkingShaped ==
    ASSUME NEW s, NEW n, NEW R, NEW E, NEW X, Talking(s, n, R, E, X)
    PROVE  Shaped(s) /\ Links(s, E) /\ Caches(s, n, R) /\ s.ui.temps \in Nat
BY DEF Talking, Shaped, Links, Caches

LEMMA LoadsOne ==
    ASSUME NEW s, NEW n \in Nat, NEW R, NEW E, Begins(E), NEW X, Talking(s, n, R, E, X), NEW c \in E, NEW silent
    PROVE  Talking(loadConversation(s, c, silent), n, R, E, X)
<1> DEFINE t == IF silent \/ Me = "user" THEN s ELSE [s EXCEPT !.ui.loading = TRUE]
           u == [t EXCEPT !.ui.loading = FALSE]
           call == [Call("detail", c) EXCEPT !.silent = silent]
<1>1. Shaped(s) /\ Links(s, E) /\ Caches(s, n, R) /\ c \in Convs
  BY TalkingShaped DEF Begins
<1>2. Talking(t, n, R, E, X)
  <2>1. Shaped(t) /\ Links(t, E) /\ Caches(t, n, R) /\ Resembles(s, t)
    BY <1>1 DEF Shaped, Links, Caches, Resembles, BlankChat
  <2> HIDE DEF t
  <2>2. QED BY <2>1, Aside
<1>3. Talking(u, n, R, E, X) /\ t.cache = s.cache
  <2>0. t.cache = s.cache
    BY <1>1 DEF Shaped
  <2> HIDE DEF t
  <2>1. Shaped(t) /\ Links(t, E) /\ Caches(t, n, R)
    BY <1>2, TalkingShaped
  <2>2. Shaped(u) /\ Links(u, E) /\ Caches(u, n, R) /\ Resembles(t, u)
    BY <2>1 DEF Shaped, Links, Caches, Resembles, BlankChat
  <2> HIDE DEF u
  <2>3. QED BY <1>2, <2>0, <2>2, Aside
<1>4. IsCall(call, t.ui.temps, n, R, E) /\ call.op = "detail"
  <2>1. IsCall(call, t.ui.temps, n, R, E)
    BY DetailCall
  <2>2. QED BY <2>1 DEF Call
<1>5. loadConversation(s, c, silent) = IF s.cache.detail[c] = NoDetail THEN Sent(t, call) ELSE Show(u, s.cache.detail[c])
  BY DEF loadConversation
<1> HIDE DEF t, u, call
<1>6. Talking(Sent(t, call), n, R, E, X)
  BY <1>2, <1>4, SendsAside
<1>7. Talking(Show(u, s.cache.detail[c]), n, R, E, X)
  BY <1>1, <1>3, AnswerShows DEF Caches
<1>8. QED BY <1>5, <1>6, <1>7

LEMMA Selects ==
    ASSUME NEW s, NEW n \in Nat, NEW R, NEW E, Begins(E), NEW X, Talking(s, n, R, E, X), NEW c \in E
    PROVE  Talking(Select(s, c), n, R, E, X)
<1> DEFINE t == [s EXCEPT !.ui.active = c, !.wire = reconnected(@)]
<1>1. Shaped(s) /\ Links(s, E) /\ Caches(s, n, R) /\ c \in Convs
  BY TalkingShaped DEF Begins
<1>2. DOMAIN reconnected(s.wire) = DOMAIN NoWire /\ reconnected(s.wire).down = <<>>
  BY <1>1 DEF Shaped, NoWire, reconnected, connect
<1>3. Shaped(t) /\ Links(t, E) /\ Caches(t, n, R) /\ Resembles(s, t)
  <2> DEFINE w == reconnected(s.wire)
  <2>1. t = [s EXCEPT !.ui.active = c, !.wire = w] /\ DOMAIN w = DOMAIN NoWire /\ w.down = <<>>
    BY <1>2
  <2> HIDE DEF w
  <2>2. c # NoConv
    BY <1>1, ChatAssumption
  <2>3. QED BY <1>1, <2>1, <2>2 DEF Shaped, Links, Caches, Resembles, BlankChat
<1>4. Select(s, c) = loadConversation(t, c, FALSE)
  BY DEF Select
<1> HIDE DEF t
<1>5. Talking(t, n, R, E, X)
  BY <1>3, Aside
<1>6. QED BY <1>4, <1>5, LoadsOne

LEMMA ListedTalks ==
    ASSUME NEW s, NEW n \in Nat, NEW R, NEW E, Begins(E), NEW X, Talking(s, n, R, E, X), NEW list, list \subseteq E,
           NEW then, then = "leave" => screen = "panel"
    PROVE  Talking(Listed(s, list, then), n, R, E, X)
<1> DEFINE t == [s EXCEPT !.ui.list = list, !.ui.listing = FALSE, !.ui.sending = IF then = "unlock" THEN FALSE ELSE @]
           v == [t EXCEPT !.ui.conv = NothingShown, !.ui.active = NoConv, !.wire = NoWire]
           u == IF then = "leave" THEN v ELSE t
<1>1. Shaped(s) /\ Links(s, E) /\ Caches(s, n, R)
  BY TalkingShaped
<1>2. Talking(t, n, R, E, X)
  <2>1. Shaped(t) /\ Links(t, E) /\ Caches(t, n, R) /\ Resembles(s, t)
    BY <1>1 DEF Shaped, Links, Caches, Resembles, BlankChat
  <2> HIDE DEF t
  <2>2. QED BY <2>1, Aside
<1>3. then = "leave" => Talking(v, n, R, E, X)
  <2> HIDE DEF t
  <2> DEFINE r == Show(t, NothingShown)
  <2>1. Talking(r, n, R, E, X)
    BY <1>2, NothingAnswers, AnswerShows
  <2>2. Shaped(t) /\ r.ui.temps = t.ui.temps /\ r.ui.conv = NothingShown /\ r.calls = t.calls
    BY <1>2, TalkingShaped, ShowFacts
  <2> HIDE DEF r
  <2>3. Links(t, E) /\ Caches(t, n, R)
    BY <1>2, TalkingShaped
  <2>4. ASSUME then = "leave" PROVE Shaped(v) /\ Links(v, E) /\ Caches(v, n, R) /\ Resembles(r, v)
    BY <2>2, <2>3, <2>4 DEF Shaped, Links, Caches, Resembles, BlankChat, NoWire
  <2> HIDE DEF v
  <2>5. QED BY <2>1, <2>4, Aside
<1>4. Talking(u, n, R, E, X)
  <2> HIDE DEF t, v
  <2>1. QED BY <1>2, <1>3
<1>5. Listed(s, list, then) = IF screen = "shopper" /\ s.ui.active = NoConv /\ list # {} THEN Select(u, CHOOSE c \in list : TRUE) ELSE u
  BY DEF Listed
<1> HIDE DEF u, v, t
<1>6. list # {} => (CHOOSE c \in list : TRUE) \in E
  OBVIOUS
<1>7. list # {} => Talking(Select(u, CHOOSE c \in list : TRUE), n, R, E, X)
  BY <1>4, <1>6, Selects
<1>8. QED BY <1>4, <1>5, <1>7

LEMMA LoadsAll ==
    ASSUME NEW s, NEW n \in Nat, NEW R, NEW E, Begins(E), NEW X, Talking(s, n, R, E, X),
           NEW then, then # "open", then = "leave" => screen = "panel"
    PROVE  Talking(loadConversations(s, then), n, R, E, X)
<1> DEFINE t == [s EXCEPT !.ui.listing = TRUE]
           call == [Call("list", NoConv) EXCEPT !.then = then]
<1>1. Shaped(s) /\ Links(s, E) /\ Caches(s, n, R)
  BY TalkingShaped
<1>2. Talking(t, n, R, E, X)
  <2>1. Shaped(t) /\ Links(t, E) /\ Caches(t, n, R) /\ Resembles(s, t)
    BY <1>1 DEF Shaped, Links, Caches, Resembles, BlankChat
  <2> HIDE DEF t
  <2>2. QED BY <2>1, Aside
<1>3. IsCall(call, t.ui.temps, n, R, E) /\ call.op = "list"
  <2>1. IsCall(call, t.ui.temps, n, R, E)
    BY ListCall
  <2>2. QED BY <2>1 DEF Call
<1>4. loadConversations(s, then) = IF Me = "admin" THEN Listed(s, Convs, then)
                                   ELSE IF s.cache.list = {} THEN Sent(t, call) ELSE Listed(t, s.cache.list, then)
  BY DEF loadConversations
<1> HIDE DEF t, call
<1>5. Me = "admin" => Talking(Listed(s, Convs, then), n, R, E, X)
  BY ListedTalks DEF Begins
<1>6. Talking(Sent(t, call), n, R, E, X)
  BY <1>2, <1>3, SendsAside
<1>7. Talking(Listed(t, s.cache.list, then), n, R, E, X)
  BY <1>1, <1>2, ListedTalks DEF Links
<1>8. QED BY <1>4, <1>5, <1>6, <1>7

-----------------------------------------------------------------------------
(***************************************************************************)
(* What may be shown in place of what is shown.                            *)
(***************************************************************************)
Fits(s, d, n, R, Y) == Shows(d, s.ui.temps, n, R) /\ News(d, s.calls, s.wire.down) /\ Going(d, s.calls, Y)

LEMMA Becomes ==
    ASSUME NEW s, NEW n, NEW R, NEW E, NEW X, NEW Y, Talking(s, n, R, E, X), NEW d, Fits(s, d, n, R, Y),
           NEW t, Shaped(t), Links(t, E), Caches(t, n, R), t.ui.temps = s.ui.temps, t.ui.conv = d,
           t.calls = s.calls, t.wire.down = s.wire.down
    PROVE  Talking(t, n, R, E, Y)
BY DEF Talking, Shaped, Links, Caches, Fits

\* What is known of what is shown.
LEMMA ShownFacts ==
    ASSUME NEW s, NEW n \in Nat, NEW R, NEW E, NEW X, Talking(s, n, R, E, X)
    PROVE  LET d == s.ui.conv
           IN  /\ d \in Details /\ d.msgs \in Seq(Bubbles) /\ IdsApart(d.msgs) /\ s.ui.temps \in Nat
               /\ \A i \in DOMAIN d.msgs : d.msgs[i] \in Bubbles /\ d.msgs[i].id \in Int /\ Known(d.msgs[i], n, R) /\ -s.ui.temps <= d.msgs[i].id
               /\ (d.id = NoConv <=> d.msgs = <<>>) /\ (d.id # NoConv /\ screen # "panel" => d.msgs[1].id > 0)
<1>1. Shows(s.ui.conv, s.ui.temps, n, R) /\ s.ui.temps \in Nat
  BY DEF Talking
<1>2. s.ui.conv.msgs \in Seq(Bubbles) /\ \A b \in Bubbles : b.id \in Int
  BY <1>1 DEF Shows, Details, Bubbles
<1>3. \A i \in DOMAIN s.ui.conv.msgs : s.ui.conv.msgs[i] \in Bubbles
  BY <1>2
<1>4. QED BY <1>1, <1>2, <1>3 DEF Shows

\* A bubble is put in the place of one with its id or of one under way, or behind the others.
Puts(ms, at, b) == IF at = Len(ms) + 1 THEN Append(ms, b) ELSE [ms EXCEPT ![at] = b]
LEMMA PutFacts ==
    ASSUME NEW ms \in Seq(Bubbles), NEW at \in 1..(Len(ms) + 1), NEW b \in Bubbles
    PROVE  /\ Puts(ms, at, b) \in Seq(Bubbles) /\ Puts(ms, at, b) # <<>>
           /\ (\A i : i \in DOMAIN Puts(ms, at, b) <=> i \in DOMAIN ms \/ i = at) /\ Puts(ms, at, b)[at] = b
           /\ \A i \in DOMAIN ms : i # at => Puts(ms, at, b)[i] = ms[i]
<1>1. CASE at = Len(ms) + 1
  BY <1>1 DEF Puts
<1>2. CASE at \in 1..Len(ms)
  <2> DEFINE ns == [ms EXCEPT ![at] = b]
  <2>1. Puts(ms, at, b) = ns
    BY <1>2 DEF Puts
  <2>2. /\ ns \in Seq(Bubbles) /\ DOMAIN ns = DOMAIN ms /\ ns[at] = b /\ at \in DOMAIN ms
        /\ \A i \in DOMAIN ms : i # at => ns[i] = ms[i]
    BY <1>2
  <2>3. ns # <<>>
    BY <2>2
  <2> HIDE DEF ns
  <2>4. QED BY <2>1, <2>2, <2>3
<1>3. QED BY <1>1, <1>2

LEMMA PutFits ==
    ASSUME NEW s, NEW n \in Nat, NEW R, NEW E, NEW X, NEW Y, Talking(s, n, R, E, X), s.ui.conv.id # NoConv,
           NEW at \in 1..(Len(s.ui.conv.msgs) + 1), NEW b \in Bubbles, Known(b, n, R), b.id >= 0,
           b.id = 0 \/ b.id \notin Ids(s.ui.conv.msgs) \/ (at \in DOMAIN s.ui.conv.msgs /\ s.ui.conv.msgs[at].id = b.id),
           at \in DOMAIN s.ui.conv.msgs => s.ui.conv.msgs[at].id = b.id \/ s.ui.conv.msgs[at].id < 0,
           \A i \in DOMAIN s.calls : Posted(s.calls[i]) => Real(s.calls[i]) # b.id,
           \A i \in DOMAIN s.ui.conv.msgs : s.ui.conv.msgs[i].id \in X /\ s.ui.conv.msgs[i].st = "sending" /\ i # at => s.ui.conv.msgs[i].id \in Y
    PROVE  Fits(s, [s.ui.conv EXCEPT !.msgs = Puts(s.ui.conv.msgs, at, b)], n, R, Y)
<1> DEFINE d == s.ui.conv
           ms == d.msgs
           ns == Puts(ms, at, b)
           e == [d EXCEPT !.msgs = ns]
<1>1. /\ d \in Details /\ ms \in Seq(Bubbles) /\ IdsApart(ms) /\ s.ui.temps \in Nat
      /\ \A i \in DOMAIN ms : ms[i] \in Bubbles /\ ms[i].id \in Int /\ Known(ms[i], n, R) /\ -s.ui.temps <= ms[i].id
      /\ ms # <<>> /\ (screen # "panel" => ms[1].id > 0)
  BY ShownFacts
<1>2. /\ ns \in Seq(Bubbles) /\ ns # <<>> /\ (\A i : i \in DOMAIN ns <=> i \in DOMAIN ms \/ i = at) /\ ns[at] = b
      /\ \A i \in DOMAIN ms : i # at => ns[i] = ms[i]
  <2>1. at \in 1..(Len(ms) + 1) /\ ms \in Seq(Bubbles)
    BY <1>1
  <2> HIDE DEF ms
  <2>2. b \in Bubbles
    OBVIOUS
  <2>3. Puts(ms, at, b) \in Seq(Bubbles)
    BY <2>1, <2>2, PutFacts
  <2>4. Puts(ms, at, b) # <<>>
    BY <2>1, <2>2, PutFacts
  <2>5. Puts(ms, at, b)[at] = b
    BY <2>1, <2>2, PutFacts
  <2>6. \A i \in DOMAIN ms : i # at => Puts(ms, at, b)[i] = ms[i]
    BY <2>1, <2>2, PutFacts
  <2>7. (\A i : i \in DOMAIN Puts(ms, at, b) <=> i \in DOMAIN ms \/ i = at)
    BY <2>1, <2>2, PutFacts
  <2>8. QED BY <2>3, <2>4, <2>5, <2>6, <2>7
<1>3. 1 \in DOMAIN ms /\ b.id \in Int /\ 1 \in DOMAIN ns
  BY <1>1, <1>2 DEF Bubbles
<1>4. e \in Details /\ e.msgs = ns /\ e.id = d.id
  BY <1>1, <1>2 DEF Details
<1> HIDE DEF ns, e
<1>5. IdsApart(ns)
  <2> SUFFICES ASSUME NEW i \in DOMAIN ns, NEW j \in DOMAIN ns, i # j, ns[i].id = ns[j].id, ns[i].id # 0 PROVE FALSE
    BY DEF IdsApart
  <2>1. CASE i # at /\ j # at
    BY <1>1, <1>2, <2>1 DEF IdsApart
  <2>2. ASSUME NEW k \in DOMAIN ms, k # at, ms[k].id = b.id, b.id # 0 PROVE FALSE
    BY <1>1, <2>2 DEF IdsApart, Ids
  <2>3. CASE i = at
    BY <1>2, <2>2, <2>3
  <2>4. CASE j = at
    BY <1>2, <2>2, <2>4
  <2>5. QED BY <2>1, <2>3, <2>4
<1>6. screen # "panel" => ns[1].id = ms[1].id
  <2>1. at = 1 /\ screen # "panel" => b.id = ms[1].id
    BY <1>1, <1>3
  <2>2. QED BY <1>2, <1>3, <2>1
<1>7. Shows(e, s.ui.temps, n, R)
  <2>1. \A i \in DOMAIN ns : Known(ns[i], n, R) /\ -s.ui.temps <= ns[i].id
    BY <1>1, <1>2, <1>3
  <2>2. e.id # NoConv /\ e.msgs # <<>>
    BY <1>2, <1>4
  <2>3. QED BY <1>1, <1>4, <1>5, <1>6, <2>1, <2>2 DEF Shows
<1>8. Ids(ns) \subseteq Ids(ms) \cup {b.id}
  BY <1>2 DEF Ids
<1>9. News(e, s.calls, s.wire.down)
  <2>1. News(d, s.calls, s.wire.down) /\ \A i \in DOMAIN s.calls : IsCall(s.calls[i], s.ui.temps, n, R, E)
    BY DEF Talking
  <2>2. ASSUME NEW i \in DOMAIN s.calls, Posted(s.calls[i]) PROVE Brings(s.calls[i], e, s.calls, s.wire.down)
    <3>1. Brings(s.calls[i], d, s.calls, s.wire.down)
      BY <2>1, <2>2 DEF News
    <3>2. s.calls[i].temp \in Int /\ s.calls[i].temp <= 0
      BY <2>1, <2>2 DEF IsCall, Posted
    <3>3. s.calls[i].temp # 0 /\ s.calls[i].temp \in Ids(ns) => s.calls[i].temp \in Ids(ms)
      BY <1>3, <1>8, <3>2
    <3>4. QED BY <1>4, <1>6, <1>8, <2>2, <3>1, <3>3 DEF Brings
  <2>3. QED BY <2>1, <2>2 DEF News
<1>10. Going(e, s.calls, Y)
  <2>1. Going(d, s.calls, X)
    BY DEF Talking
  <2>2. SUFFICES ASSUME NEW i \in DOMAIN ns, ns[i].st = "sending"
                 PROVE  ns[i].id \in Y \/ \E j \in DOMAIN s.calls : ns[i].id \in Carried(s.calls[j])
    BY <1>4 DEF Going, ToSet
  <2>3. i # at
    BY <1>2, <2>2 DEF Known
  <2>4. i \in DOMAIN ms /\ ns[i] = ms[i] /\ ms[i] \in ToSet(ms)
    BY <1>2, <2>3 DEF ToSet
  <2>5. QED BY <2>1, <2>2, <2>3, <2>4 DEF Going
<1>11. Fits(s, e, n, R, Y)
  BY <1>7, <1>9, <1>10 DEF Fits
<1>12. QED BY <1>11 DEF e, ns

\* Bubbles may change, but not their ids, and none is under way that was not.
LEMMA RemarkFits ==
    ASSUME NEW s, NEW n \in Nat, NEW R, NEW E, NEW X, NEW Y, Talking(s, n, R, E, X), NEW ns \in Seq(Bubbles),
           DOMAIN ns = DOMAIN s.ui.conv.msgs,
           \A i \in DOMAIN ns : /\ ns[i].id = s.ui.conv.msgs[i].id /\ Known(ns[i], n, R)
                                /\ ns[i].st = "sending" => s.ui.conv.msgs[i].st = "sending" /\ (ns[i].id \in X => ns[i].id \in Y)
    PROVE  Fits(s, [s.ui.conv EXCEPT !.msgs = ns], n, R, Y)
<1> DEFINE d == s.ui.conv
           ms == d.msgs
           e == [d EXCEPT !.msgs = ns]
<1>1. /\ d \in Details /\ ms \in Seq(Bubbles) /\ IdsApart(ms) /\ s.ui.temps \in Nat
      /\ \A i \in DOMAIN ms : -s.ui.temps <= ms[i].id
      /\ (d.id = NoConv <=> ms = <<>>) /\ (d.id # NoConv /\ screen # "panel" => ms[1].id > 0)
  BY ShownFacts
<1>2. e \in Details /\ e.msgs = ns /\ e.id = d.id
  BY <1>1 DEF Details
<1>3. ns = <<>> <=> ms = <<>>
  BY <1>1
<1>4. ms # <<>> => 1 \in DOMAIN ms
  BY <1>1
<1> HIDE DEF e
<1>5. Shows(e, s.ui.temps, n, R)
  <2>1. IdsApart(ns)
    BY <1>1 DEF IdsApart
  <2>2. \A i \in DOMAIN ns : Known(ns[i], n, R) /\ -s.ui.temps <= ns[i].id
    BY <1>1
  <2>3. e.id # NoConv /\ screen # "panel" => ns[1].id > 0
    BY <1>1, <1>2, <1>4
  <2>4. QED BY <1>1, <1>2, <1>3, <2>1, <2>2, <2>3 DEF Shows
<1>6. Ids(ns) = Ids(ms)
  BY DEF Ids
<1>7. ASSUME screen # "panel", d.id # NoConv PROVE ns[1].id = ms[1].id
  BY <1>1, <1>4, <1>7
<1>8. News(e, s.calls, s.wire.down)
  <2>1. News(d, s.calls, s.wire.down)
    BY DEF Talking
  <2>2. ASSUME NEW c, Brings(c, d, s.calls, s.wire.down) PROVE Brings(c, e, s.calls, s.wire.down)
    <3>1. c.temp \in Ids(ms) => ms # <<>>
      BY DEF Ids
    <3>2. QED BY <1>1, <1>2, <1>6, <1>7, <2>2, <3>1 DEF Brings
  <2>3. QED BY <2>1, <2>2 DEF News
<1>9. Going(e, s.calls, Y)
  <2>1. Going(d, s.calls, X)
    BY DEF Talking
  <2>2. SUFFICES ASSUME NEW i \in DOMAIN ns, ns[i].st = "sending"
                 PROVE  ns[i].id \in Y \/ \E j \in DOMAIN s.calls : ns[i].id \in Carried(s.calls[j])
    BY <1>2 DEF Going, ToSet
  <2>3. ms[i] \in ToSet(ms) /\ ms[i].st = "sending" /\ ms[i].id = ns[i].id
    BY <2>2 DEF ToSet
  <2>4. QED BY <2>1, <2>2, <2>3 DEF Going
<1>10. Fits(s, e, n, R, Y)
  BY <1>5, <1>8, <1>9 DEF Fits
<1>11. QED BY <1>10 DEF e

\* A part of a list with ids apart has its ids apart.
LEMMA KeptIds ==
    ASSUME NEW D, NEW ms \in Seq(D), IdsApart(ms), \A i \in DOMAIN ms : ms[i].id # 0, NEW S, NEW ns, ns = Kept(ms, S)
    PROVE  ns \in Seq(D) /\ ToSet(ns) = ToSet(ms) \cap S /\ IdsApart(ns)
<1>1. Distinct(ms)
  BY DEF Distinct, IdsApart
<1>2. ns \in Seq(D) /\ ToSet(ns) = ToSet(ms) \cap S /\ Distinct(ns)
  BY <1>1, KeptFacts, Zenon
<1>3. IdsApart(ns)
  <2> SUFFICES ASSUME NEW i \in DOMAIN ns, NEW j \in DOMAIN ns, i # j, ns[i].id = ns[j].id PROVE FALSE
    BY DEF IdsApart
  <2>1. ns[i] \in ToSet(ms) /\ ns[j] \in ToSet(ms)
    BY <1>2 DEF ToSet
  <2>2. PICK k \in DOMAIN ms, l \in DOMAIN ms : ns[i] = ms[k] /\ ns[j] = ms[l]
    BY <2>1 DEF ToSet
  <2>3. k = l
    BY <2>2 DEF IdsApart
  <2>4. QED BY <1>2, <2>2, <2>3 DEF Distinct
<1>4. QED BY <1>2, <1>3

\* A bubble under way may be taken away.
LEMMA DropFits ==
    ASSUME NEW s, NEW n \in Nat, NEW R, NEW E, NEW X, NEW Y, Talking(s, n, R, E, X), screen # "panel", NEW k \in Int, k <= 0,
           NEW ns, ns = Kept(s.ui.conv.msgs, {b \in ToSet(s.ui.conv.msgs) : b.id # k}), X \subseteq Y \cup {k}
    PROVE  Fits(s, [s.ui.conv EXCEPT !.msgs = ns], n, R, Y)
<1> DEFINE d == s.ui.conv
           ms == d.msgs
           e == [d EXCEPT !.msgs = ns]
<1>1. /\ d \in Details /\ ms \in Seq(Bubbles) /\ IdsApart(ms) /\ s.ui.temps \in Nat
      /\ \A i \in DOMAIN ms : ms[i] \in Bubbles /\ ms[i].id \in Int /\ Known(ms[i], n, R) /\ -s.ui.temps <= ms[i].id
      /\ (d.id = NoConv <=> ms = <<>>) /\ (d.id # NoConv => ms[1].id > 0)
  BY ShownFacts
<1>2. \A i \in DOMAIN ms : ms[i].id # 0
  BY <1>1 DEF Known
<1>3. ns \in Seq(Bubbles) /\ IdsApart(ns) /\ ToSet(ns) = {b \in ToSet(ms) : b.id # k}
  <2> DEFINE S == {b \in ToSet(ms) : b.id # k}
  <2>1. ns = Kept(ms, S)
    OBVIOUS
  <2> HIDE DEF S, ms
  <2>2. ns \in Seq(Bubbles) /\ ToSet(ns) = ToSet(ms) \cap S /\ IdsApart(ns)
    BY <1>1, <1>2, <2>1, KeptIds
  <2>3. QED BY <2>2 DEF S
<1>4. ms # <<>> => ns # <<>> /\ ns[1] = ms[1]
  <2> DEFINE S == {b \in ToSet(ms) : b.id # k}
  <2>1. ns = Kept(ms, S)
    OBVIOUS
  <2>2. ms # <<>> => ms[1] \in S
    BY <1>1 DEF ToSet
  <2> HIDE DEF S, ms
  <2>3. QED BY <1>1, <2>1, <2>2, KeptFirst, Zenon
<1>5. e \in Details /\ e.msgs = ns /\ e.id = d.id
  BY <1>1, <1>3 DEF Details
<1>6. \A i \in DOMAIN ns : ns[i] \in ToSet(ms) /\ ns[i].id # k
  BY <1>3 DEF ToSet
<1>7. \A b \in ToSet(ms) : b \in Bubbles /\ Known(b, n, R) /\ -s.ui.temps <= b.id
  BY <1>1 DEF ToSet
<1>8. ns # <<>> => ms # <<>>
  <2>1. ns # <<>> => 1 \in DOMAIN ns
    BY <1>3
  <2>2. QED BY <1>6, <2>1 DEF ToSet
<1> HIDE DEF e
<1>9. Shows(e, s.ui.temps, n, R)
  <2>1. \A i \in DOMAIN ns : Known(ns[i], n, R) /\ -s.ui.temps <= ns[i].id
    BY <1>6, <1>7
  <2>2. QED BY <1>1, <1>3, <1>4, <1>5, <1>8, <2>1 DEF Shows
<1>10. Ids(ns) \subseteq Ids(ms)
  BY <1>6 DEF Ids, ToSet
<1>11. News(e, s.calls, s.wire.down)
  <2>1. News(d, s.calls, s.wire.down)
    BY DEF Talking
  <2>2. ASSUME NEW c, Brings(c, d, s.calls, s.wire.down) PROVE Brings(c, e, s.calls, s.wire.down)
    <3>1. ms = <<>> => Ids(ms) = {}
      BY DEF Ids
    <3>2. QED BY <1>4, <1>5, <1>10, <2>2, <3>1 DEF Brings
  <2>3. QED BY <2>1, <2>2 DEF News
<1>12. Going(e, s.calls, Y)
  <2>1. Going(d, s.calls, X)
    BY DEF Talking
  <2>2. SUFFICES ASSUME NEW i \in DOMAIN ns, ns[i].st = "sending"
                 PROVE  ns[i].id \in Y \/ \E j \in DOMAIN s.calls : ns[i].id \in Carried(s.calls[j])
    BY <1>5 DEF Going, ToSet
  <2>3. QED BY <1>6, <2>1, <2>2 DEF Going
<1>13. Fits(s, e, n, R, Y)
  BY <1>9, <1>11, <1>12 DEF Fits
<1>14. QED BY <1>13 DEF e

LEMMA BubblesPlaces ==
    ASSUME NEW s \in Seq(Bubbles), NEW t \in Seq(Bubbles)
    PROVE  /\ \A i \in DOMAIN (s \o t) : \/ i \in DOMAIN s /\ (s \o t)[i] = s[i]
                                        \/ \E k \in DOMAIN t : i = Len(s) + k /\ (s \o t)[i] = t[k]
           /\ s = <<>> => s \o t = t
           /\ s # <<>> => 1 \in DOMAIN s /\ (s \o t)[1] = s[1]
BY ConcatPlaces

\* An older page goes before what is shown, but for what is shown already.
LEMMA OlderFits ==
    ASSUME NEW s, NEW n \in Nat, NEW R, NEW E, NEW X, Talking(s, n, R, E, X), NEW c, IsCall(c, s.ui.temps, n, R, E),
           c.op = "older", c.st = "ok", Below(s, c), s.ui.conv.id # NoConv,
           NEW older, older = Kept(c.got.msgs, {b \in ToSet(c.got.msgs) : b.id \notin Ids(s.ui.conv.msgs)})
    PROVE  Fits(s, [s.ui.conv EXCEPT !.msgs = older \o @, !.more = c.got.more], n, R, X)
<1> DEFINE d == s.ui.conv
           ms == d.msgs
           os == c.got.msgs
           ns == older \o ms
           e == [d EXCEPT !.msgs = ns, !.more = c.got.more]
<1>1. /\ d \in Details /\ ms \in Seq(Bubbles) /\ IdsApart(ms) /\ s.ui.temps \in Nat
      /\ \A i \in DOMAIN ms : ms[i] \in Bubbles /\ ms[i].id \in Int /\ Known(ms[i], n, R) /\ -s.ui.temps <= ms[i].id
      /\ ms # <<>> /\ (screen # "panel" => ms[1].id > 0)
  BY ShownFacts
<1>2. /\ os \in Seq(Bubbles) /\ IdsApart(os) /\ c.got.more \in BOOLEAN /\ c.before \in Int
      /\ \A i \in DOMAIN os : os[i].id < c.before /\ Known(os[i], n, R) /\ os[i].id > 0
  BY DEF IsCall
<1>3. older \in Seq(Bubbles) /\ IdsApart(older) /\ ToSet(older) = {b \in ToSet(os) : b.id \notin Ids(ms)}
  <2> DEFINE S == {b \in ToSet(os) : b.id \notin Ids(ms)}
  <2>1. older = Kept(os, S) /\ \A i \in DOMAIN os : os[i].id # 0
    BY <1>2
  <2> HIDE DEF S, os
  <2>2. older \in Seq(Bubbles) /\ ToSet(older) = ToSet(os) \cap S /\ IdsApart(older)
    BY <1>2, <2>1, KeptIds
  <2>3. QED BY <2>2 DEF S
<1>4. \A i \in DOMAIN older : /\ older[i] \in ToSet(os) /\ older[i].id \notin Ids(ms)
  BY <1>3 DEF ToSet
<1>5. \A b \in ToSet(os) : /\ b \in Bubbles /\ b.id \in Int /\ b.id < c.before /\ Known(b, n, R) /\ b.id > 0
  <2>1. \A b \in Bubbles : b.id \in Int
    BY DEF Bubbles
  <2>2. QED BY <1>2, <2>1 DEF ToSet
<1>6. ns \in Seq(Bubbles) /\ ns # <<>>
  <2>1. older \o ms \in Seq(Bubbles)
    <3> HIDE DEF ms
    <3>1. QED BY <1>1, <1>3, ConcatFacts
  <2>2. older \o ms # <<>>
    <3> HIDE DEF ms
    <3>1. QED BY <1>1, <1>3, ConcatPlaces
  <2>3. QED BY <2>1, <2>2
<1>7. /\ \A i \in DOMAIN ns : \/ i \in DOMAIN older /\ ns[i] = older[i]
                              \/ \E k \in DOMAIN ms : i = Len(older) + k /\ ns[i] = ms[k]
      /\ older = <<>> => ns = ms
      /\ older # <<>> => 1 \in DOMAIN older /\ ns[1] = older[1]
  <2> HIDE DEF ms
  <2>0. older \in Seq(Bubbles) /\ ms \in Seq(Bubbles)
    BY <1>1, <1>3
  <2>1. \A i \in DOMAIN ns : \/ i \in DOMAIN older /\ ns[i] = older[i]
                             \/ \E k \in DOMAIN ms : i = Len(older) + k /\ ns[i] = ms[k]
    BY <2>0, BubblesPlaces
  <2>2. older = <<>> => ns = ms
    BY <2>0, BubblesPlaces
  <2>3. older # <<>> => 1 \in DOMAIN older /\ ns[1] = older[1]
    BY <2>0, BubblesPlaces
  <2>4. QED BY <2>1, <2>2, <2>3
<1>8. e \in Details /\ e.msgs = ns /\ e.id = d.id /\ e.more = c.got.more
  <2> HIDE DEF ns
  <2>1. QED BY <1>1, <1>2, <1>6 DEF Details
<1>9. [s.ui.conv EXCEPT !.msgs = older \o @, !.more = c.got.more] = e
  BY <1>1
<1> HIDE DEF ns, e
<1>10. IdsApart(ns)
  <2> SUFFICES ASSUME NEW i \in DOMAIN ns, NEW j \in DOMAIN ns, i # j, ns[i].id = ns[j].id, ns[i].id # 0 PROVE FALSE
    BY DEF IdsApart
  <2>1. CASE i \in DOMAIN older /\ ns[i] = older[i] /\ j \in DOMAIN older /\ ns[j] = older[j]
    BY <1>3, <2>1 DEF IdsApart
  <2>2. ASSUME NEW k \in DOMAIN ms, i = Len(older) + k, ns[i] = ms[k],
               NEW l \in DOMAIN ms, j = Len(older) + l, ns[j] = ms[l]
        PROVE  FALSE
    BY <1>1, <2>2 DEF IdsApart
  <2>3. ASSUME NEW k \in DOMAIN older, NEW l \in DOMAIN ms, older[k].id = ms[l].id PROVE FALSE
    BY <1>4, <2>3 DEF Ids
  <2>4. QED BY <1>7, <2>1, <2>2, <2>3
<1>11. \A i \in DOMAIN ns : ns[i] \in ToSet(os) \/ ns[i] \in ToSet(ms)
  BY <1>4, <1>7 DEF ToSet
<1>12. \A b \in ToSet(ms) : b \in Bubbles /\ b.id \in Int /\ Known(b, n, R) /\ -s.ui.temps <= b.id
  BY <1>1 DEF ToSet
<1>13. ns[1] = ms[1] \/ ns[1] \in ToSet(os)
  BY <1>4, <1>7
<1>14. Shows(e, s.ui.temps, n, R)
  <2>1. \A i \in DOMAIN ns : Known(ns[i], n, R) /\ -s.ui.temps <= ns[i].id
    BY <1>1, <1>5, <1>11, <1>12
  <2>2. screen # "panel" => ns[1].id > 0
    BY <1>1, <1>5, <1>13
  <2>3. QED BY <1>6, <1>8, <1>10, <2>1, <2>2 DEF Shows
<1>15. ASSUME NEW x \in Ids(ns) PROVE x \in Ids(ms) \/ (x \in Int /\ x > 0 /\ x < c.before)
  BY <1>5, <1>11 DEF Ids, ToSet
<1>16. News(e, s.calls, s.wire.down)
  <2>1. News(d, s.calls, s.wire.down) /\ \A i \in DOMAIN s.calls : IsCall(s.calls[i], s.ui.temps, n, R, E)
    BY DEF Talking
  <2>2. ASSUME NEW i \in DOMAIN s.calls, Posted(s.calls[i]) PROVE Brings(s.calls[i], e, s.calls, s.wire.down)
    <3>1. Brings(s.calls[i], d, s.calls, s.wire.down)
      BY <2>1, <2>2 DEF News
    <3>2. s.calls[i].temp \in Int /\ s.calls[i].temp <= 0
      BY <2>1, <2>2 DEF IsCall, Posted
    <3>3. Real(s.calls[i]) \in Int
      <4>1. PICK k \in 1..n : s.calls[i].got.msgs = <<Bubble(k, Me, s.calls[i].kind)>>
        BY <2>1, <2>2 DEF IsCall, Posted
      <4>2. QED BY <4>1 DEF Real, Bubble
    <3>4. SUFFICES ASSUME s.calls[i].temp # 0, s.calls[i].temp \in Ids(ns)
                   PROVE  /\ Real(s.calls[i]) \notin Ids(ns) /\ (screen # "panel" => ns[1].id < Real(s.calls[i]))
      BY <1>8, <1>15, <3>1, <3>2 DEF Brings
    <3>5. s.calls[i].temp \in Ids(ms)
      BY <1>15, <3>2, <3>4
    <3>6. c.before < Real(s.calls[i])
      BY <2>2, <3>4, <3>5 DEF Below
    <3>7. Real(s.calls[i]) \notin Ids(ms) /\ (screen # "panel" => ms[1].id < Real(s.calls[i]))
      BY <3>1, <3>4, <3>5 DEF Brings
    <3>8. QED BY <1>2, <1>5, <1>13, <1>15, <3>3, <3>6, <3>7
  <2>3. QED BY <2>1, <2>2 DEF News
<1>17. Going(e, s.calls, X)
  <2>1. Going(d, s.calls, X)
    BY DEF Talking
  <2>2. SUFFICES ASSUME NEW i \in DOMAIN ns, ns[i].st = "sending"
                 PROVE  ns[i].id \in X \/ \E j \in DOMAIN s.calls : ns[i].id \in Carried(s.calls[j])
    BY <1>8 DEF Going, ToSet
  <2>3. ns[i] \in ToSet(ms)
    BY <1>5, <1>11, <2>2 DEF Known
  <2>4. QED BY <2>1, <2>2, <2>3 DEF Going
<1>18. Fits(s, e, n, R, X)
  BY <1>14, <1>16, <1>17 DEF Fits
<1>19. QED BY <1>9, <1>18

-----------------------------------------------------------------------------
(***************************************************************************)
(* Posts: a bubble under way ends with the answer to its post.             *)
(***************************************************************************)
LEMMA PostTalks ==
    ASSUME NEW s, NEW n \in Nat, NEW R, NEW E, Begins(E), NEW X, NEW Y, Talking(s, n, R, E, X), NEW c \in E,
           NEW queue \in Seq(Bubbles), queue # <<>>,
           \A i \in DOMAIN queue : -s.ui.temps <= queue[i].id /\ queue[i].id < 0,
           X \subseteq Y \cup Ids(queue)
    PROVE  Talking(Post(s, c, queue), n, R, E, Y)
<1> DEFINE call == [Call("post", c) EXCEPT !.temp = Head(queue).id, !.kind = Head(queue).kind, !.rest = Tail(queue)]
<1>1. /\ Head(queue) = queue[1] /\ 1 \in DOMAIN queue /\ queue[1] \in Bubbles /\ Tail(queue) \in Seq(Bubbles)
      /\ \A i \in DOMAIN Tail(queue) : i + 1 \in DOMAIN queue /\ Tail(queue)[i] = queue[i + 1]
      /\ \A i \in DOMAIN queue : i = 1 \/ (i - 1 \in DOMAIN Tail(queue) /\ Tail(queue)[i - 1] = queue[i])
  OBVIOUS
<1>2. queue[1].id \in Int /\ queue[1].kind \in Kinds /\ -s.ui.temps <= queue[1].id /\ queue[1].id < 0
  BY <1>1 DEF Bubbles
<1>3. /\ DOMAIN call = CallFields /\ call.op = "post" /\ call.conv = c /\ call.st = "sent" /\ call.temp = queue[1].id
      /\ call.kind = queue[1].kind /\ call.rest = Tail(queue) /\ call.then = "none" /\ call.list = {}
  BY <1>1 DEF Call, CallFields
<1>4. Post(s, c, queue) = Sent(s, call)
  BY DEF Post
<1> HIDE DEF call
<1>5. IsCall(call, s.ui.temps, n, R, E)
  <2>1. \A i \in DOMAIN Tail(queue) : -s.ui.temps <= Tail(queue)[i].id /\ Tail(queue)[i].id < 0
    BY <1>1
  <2>2. c \in Convs
    BY DEF Begins
  <2>3. QED BY <1>1, <1>2, <1>3, <2>1, <2>2 DEF IsCall, Placed
<1>6. Ids(queue) \subseteq Carried(call)
  <2> SUFFICES ASSUME NEW i \in DOMAIN queue PROVE queue[i].id \in Carried(call)
    BY DEF Ids
  <2>1. CASE i = 1
    BY <1>3, <2>1 DEF Carried
  <2>2. CASE i # 1
    <3>1. i - 1 \in DOMAIN Tail(queue) /\ Tail(queue)[i - 1] = queue[i]
      BY <1>1, <2>2
    <3>2. queue[i].id \in Ids(Tail(queue))
      BY <3>1 DEF Ids
    <3>3. QED BY <1>3, <3>2 DEF Carried
  <2>3. QED BY <2>1, <2>2
<1>7. ~Posted(call) /\ Below(s, call)
  BY <1>3 DEF Posted, Below
<1>8. Talking(Sent(s, call), n, R, E, Y)
  <2>1. X \subseteq Y \cup Carried(call)
    BY <1>6
  <2>2. QED BY <1>5, <1>7, <2>1, SentTalks
<1>9. QED BY <1>4, <1>8

\* A call that has come back, and what is under way beside it.
Outstanding(s, c, n, R, E) ==
  /\ IsCall(c, s.ui.temps, n, R, E) /\ Below(s, c)
  /\ Posted(c) => /\ Brings(c, s.ui.conv, s.calls, s.wire.down)
                  /\ \A j \in DOMAIN s.calls : Posted(s.calls[j]) => Real(s.calls[j]) # Real(c)

LEMMA PostedTalks ==
    ASSUME NEW s, NEW n \in Nat, NEW R, NEW E, Begins(E), NEW c, Talking(s, n, R, E, Carried(c)),
           Outstanding(s, c, n, R, E), Posted(c)
    PROVE  Talking(posted(s, c), n, R, E, Ids(c.rest)) /\ posted(s, c).ui.temps = s.ui.temps
<1> DEFINE d == s.ui.conv
           ms == d.msgs
           at == IF c.temp = 0 THEN 0 ELSE Leftmost(PlacesOf(ms, c.temp))
           real == [c.got.msgs[1] EXCEPT !.st = "sent"]
           place == [d EXCEPT !.msgs[at] = real]
           added == [d EXCEPT !.msgs = Append(@, real)]
<1>1. /\ d \in Details /\ ms \in Seq(Bubbles) /\ IdsApart(ms)
      /\ \A i \in DOMAIN ms : ms[i] \in Bubbles /\ ms[i].id \in Int /\ Known(ms[i], n, R)
      /\ (d.id = NoConv <=> ms = <<>>)
  BY ShownFacts
<1>2. /\ c.temp \in Int /\ c.temp <= 0 /\ c.kind \in Kinds /\ c.op = "post"
      /\ \E k \in 1..n : c.got.msgs = <<Bubble(k, Me, c.kind)>>
  BY DEF Outstanding, IsCall, Posted
<1>3. /\ real \in Bubbles /\ real.id = Real(c) /\ real.id \in Int /\ real.id > 0 /\ real.id >= 0 /\ real.st = "sent" /\ Known(real, n, R)
  <2>1. PICK k \in 1..n : c.got.msgs = <<Bubble(k, Me, c.kind)>>
    BY <1>2
  <2>2. Me \in Parties
    BY DEF Me, Parties
  <2>3. c.got.msgs[1] \in Bubbles /\ c.got.msgs[1].id = k /\ c.got.msgs[1].read = FALSE
    BY <1>2, <2>1, <2>2 DEF Bubble, Bubbles, Marks
  <2>4. real \in Bubbles /\ real.id = c.got.msgs[1].id /\ real.st = "sent" /\ real.read = c.got.msgs[1].read
    BY <2>3 DEF Bubbles, Marks
  <2> HIDE DEF real
  <2>5. QED BY <2>3, <2>4 DEF Known, Real
<1>4. /\ at \in 0..Len(ms) /\ (at # 0 => ms[at].id = c.temp /\ c.temp # 0) /\ (at = 0 => c.temp = 0 \/ c.temp \notin Ids(ms))
  <2>1. ms \in Seq(Bubbles)
    BY <1>1
  <2> HIDE DEF ms
  <2>2. LET x == Leftmost(PlacesOf(ms, c.temp)) IN x \in 0..Len(ms) /\ (x # 0 => ms[x].id = c.temp) /\ (x = 0 => c.temp \notin Ids(ms))
    BY <2>1, IndexFacts
  <2>3. Len(ms) \in Nat
    BY <2>1
  <2>4. QED BY <2>2, <2>3
<1>5. posted(s, c) = IF d.id = NoConv THEN s ELSE IF at # 0 THEN Show(s, place)
                     ELSE IF screen = "panel" \/ real.id \in Ids(ms) THEN s ELSE Show(s, added)
  <2> DEFINE hits == {i \in DOMAIN ms : ms[i].id = c.temp /\ c.temp # 0}
  <2>0. /\ c.temp = 0 => hits = {}
        /\ c.temp # 0 => hits = PlacesOf(ms, c.temp)
    BY DEF PlacesOf
  <2>1. Leftmost(hits) = at
    <3> HIDE DEF hits
    <3>1. Leftmost({}) = 0
      BY DEF Leftmost
    <3>2. QED BY <2>0, <3>1
  <2> HIDE DEF at
  <2>2. at = IF hits = {} THEN 0 ELSE CHOOSE i \in hits : \A j \in hits : i <= j
    BY <2>1 DEF Leftmost
  <2> HIDE DEF place, added
  <2>3. posted(s, c) = IF d.id = NoConv THEN s ELSE IF at # 0 THEN Show(s, [d EXCEPT !.msgs[at] = real])
                     ELSE IF screen = "panel" \/ real.id \in Ids(ms) THEN s ELSE Show(s, [d EXCEPT !.msgs = Append(@, real)])
    BY <2>2 DEF posted, IndexOf
  <2>4. QED BY <2>3 DEF place, added
<1>6. /\ at # 0 => place = [d EXCEPT !.msgs = Puts(ms, at, real)]
      /\ added = [d EXCEPT !.msgs = Puts(ms, Len(ms) + 1, real)]
  <2>1. at # Len(ms) + 1
    <3> HIDE DEF at, ms
    <3>1. QED BY <1>1, <1>4
  <2> HIDE DEF at, real
  <2>2. QED BY <2>1 DEF Puts
<1>7. Shaped(s)
  BY TalkingShaped
<1> HIDE DEF at, place, added, real
<1>8. \A i \in DOMAIN s.calls : Posted(s.calls[i]) => Real(s.calls[i]) # real.id
  BY <1>3 DEF Outstanding
<1>9. \A x : x \in Carried(c) => x = c.temp \/ x \in Ids(c.rest)
  BY <1>2 DEF Carried
<1>10. ASSUME at # 0 PROVE Talking(Show(s, place), n, R, E, Ids(c.rest))
  <2>1. d.id # NoConv /\ at \in DOMAIN ms /\ at \in 1..(Len(ms) + 1)
    BY <1>1, <1>4, <1>10
  <2>2. real.id \notin Ids(ms)
    <3>1. c.temp # 0 /\ c.temp \in Ids(ms)
      BY <1>4, <1>10, <2>1 DEF Ids
    <3>2. QED BY <1>3, <3>1 DEF Outstanding, Brings
  <2>3. ms[at].id < 0
    BY <1>2, <1>4, <1>10
  <2>4. ASSUME NEW i \in DOMAIN ms, ms[i].id \in Carried(c), ms[i].st = "sending", i # at PROVE ms[i].id \in Ids(c.rest)
    <3>1. ms[i].id # ms[at].id
      BY <1>1, <2>1, <2>3, <2>4 DEF IdsApart
    <3>2. QED BY <1>4, <1>9, <1>10, <2>4, <3>1
  <2>5. Fits(s, [d EXCEPT !.msgs = Puts(ms, at, real)], n, R, Ids(c.rest))
    BY <1>3, <1>8, <2>1, <2>2, <2>3, <2>4, PutFits
  <2>6. Fits(s, place, n, R, Ids(c.rest))
    BY <1>6, <1>10, <2>5
  <2>7. QED BY <2>6, ShowTalks DEF Fits
<1>11. ASSUME at = 0, NEW i \in DOMAIN ms, ms[i].id \in Carried(c), ms[i].st = "sending" PROVE ms[i].id \in Ids(c.rest)
  <2>1. ms[i].id # 0 /\ ms[i].id \in Ids(ms)
    BY <1>1, <1>11 DEF Known, Ids
  <2>2. QED BY <1>4, <1>9, <1>11, <2>1
<1>12. ASSUME at = 0 PROVE Talking(s, n, R, E, Ids(c.rest))
  <2>1. Going(d, s.calls, Ids(c.rest))
    <3>1. Going(d, s.calls, Carried(c))
      BY DEF Talking
    <3>2. QED BY <1>11, <1>12, <3>1 DEF Going, ToSet
  <2>2. QED BY <2>1 DEF Talking
<1>13. ASSUME at = 0, d.id # NoConv, real.id \notin Ids(ms) PROVE Talking(Show(s, added), n, R, E, Ids(c.rest))
  <2> DEFINE k == Len(ms) + 1
  <2>1. k \in 1..(Len(ms) + 1) /\ k \notin DOMAIN ms
    BY <1>1
  <2>2. added = [d EXCEPT !.msgs = Puts(ms, k, real)]
    BY <1>6
  <2> HIDE DEF k
  <2>3. Fits(s, [d EXCEPT !.msgs = Puts(ms, k, real)], n, R, Ids(c.rest))
    BY <1>3, <1>8, <1>11, <1>13, <2>1, PutFits
  <2>4. Fits(s, added, n, R, Ids(c.rest))
    BY <2>2, <2>3
  <2>5. QED BY <2>4, ShowTalks DEF Fits
<1>14. d.id = NoConv => at = 0
  <2>1. d.id = NoConv => Len(ms) = 0
    BY <1>1
  <2>2. QED BY <1>4, <2>1
<1>15. posted(s, c).ui.temps = s.ui.temps
  BY <1>5, <1>7, ShowFacts
<1>16. QED BY <1>5, <1>10, <1>12, <1>13, <1>14, <1>15

LEMMA UnpostedTalks ==
    ASSUME NEW s, NEW n \in Nat, NEW R, NEW E, NEW c, Talking(s, n, R, E, Carried(c)),
           IsCall(c, s.ui.temps, n, R, E), c.op = "post"
    PROVE  Talking(unposted(s, c), n, R, E, Ids(c.rest)) /\ unposted(s, c).ui.temps = s.ui.temps
<1> DEFINE d == s.ui.conv
           ms == d.msgs
           Y == Ids(c.rest)
           marked == [i \in DOMAIN ms |-> IF ms[i].id = c.temp THEN [ms[i] EXCEPT !.st = "sent"] ELSE ms[i]]
           left == Kept(ms, {b \in ToSet(ms) : b.id # c.temp})
           t == [s EXCEPT !.ui.conv.msgs = marked]
           u == [s EXCEPT !.ui.conv.msgs = left, !.ui.error = TRUE]
<1>1. /\ d \in Details /\ ms \in Seq(Bubbles)
      /\ \A i \in DOMAIN ms : ms[i] \in Bubbles /\ ms[i].id \in Int /\ Known(ms[i], n, R)
  BY ShownFacts
<1>2. c.temp \in Int /\ c.temp <= 0
  BY DEF IsCall
<1>3. \A x : x \in Carried(c) => x = c.temp \/ x \in Y
  BY DEF Carried
<1>4. Shaped(s) /\ Links(s, E) /\ Caches(s, n, R)
  BY TalkingShaped
<1>5. unposted(s, c) = IF screen = "panel" THEN t ELSE u
  BY DEF unposted
<1>6. ASSUME screen = "panel" PROVE Talking(t, n, R, E, Y) /\ t.ui.temps = s.ui.temps
  <2>1. \A i \in DOMAIN ms : LET b == [ms[i] EXCEPT !.st = "sent"]
                             IN  b \in Bubbles /\ b.id = ms[i].id /\ b.st = "sent" /\ b.read = ms[i].read
    <3>1. \A m \in Bubbles : LET b == [m EXCEPT !.st = "sent"]
                             IN  b \in Bubbles /\ b.id = m.id /\ b.st = "sent" /\ b.read = m.read
      BY DEF Bubbles, Marks
    <3>2. QED BY <1>1, <3>1
  <2>2. marked \in Seq(Bubbles) /\ DOMAIN marked = DOMAIN ms
    <3>1. DOMAIN marked = DOMAIN ms /\ \A i \in DOMAIN ms : marked[i] \in Bubbles
      BY <1>1, <2>1
    <3>2. ms \in Seq(Bubbles)
      BY <1>1
    <3>3. DOMAIN ms = 1..Len(ms) /\ Len(ms) \in Nat
      BY <3>2
    <3>4. marked = [i \in 1..Len(ms) |-> marked[i]]
      BY <3>3
    <3> HIDE DEF marked, ms
    <3>5. QED BY <3>1, <3>3, <3>4
  <2>3. ASSUME NEW i \in DOMAIN marked
        PROVE  /\ marked[i].id = ms[i].id /\ Known(marked[i], n, R)
               /\ marked[i].st = "sending" => ms[i].st = "sending" /\ (marked[i].id \in Carried(c) => marked[i].id \in Y)
    <3>0. i \in DOMAIN ms
      BY <2>2
    <3> DEFINE b == [ms[i] EXCEPT !.st = "sent"]
    <3>1. b.id = ms[i].id /\ b.st = "sent" /\ b.read = ms[i].read
      BY <2>1, <3>0
    <3>2. marked[i] = IF ms[i].id = c.temp THEN b ELSE ms[i]
      BY <3>0
    <3>3. Known(ms[i], n, R) /\ ms[i].id \in Int
      BY <1>1, <3>0
    <3> HIDE DEF b, marked, ms
    <3>4. Known(b, n, R)
      BY <1>6, <3>1, <3>3 DEF Known
    <3>5. CASE ms[i].id = c.temp
      BY <3>1, <3>2, <3>4, <3>5
    <3>6. CASE ms[i].id # c.temp
      BY <1>3, <3>2, <3>3, <3>6
    <3>7. QED BY <3>5, <3>6
  <2> HIDE DEF marked, t
  <2>4. Fits(s, [d EXCEPT !.msgs = marked], n, R, Y)
    BY <2>2, <2>3, RemarkFits
  <2>5. /\ Shaped(t) /\ Links(t, E) /\ Caches(t, n, R) /\ t.ui.temps = s.ui.temps /\ t.ui.conv = [d EXCEPT !.msgs = marked]
        /\ t.calls = s.calls /\ t.wire.down = s.wire.down
    BY <1>4 DEF t, Shaped, Links, Caches, BlankChat
  <2>6. QED BY <2>4, <2>5, Becomes
<1>7. ASSUME screen # "panel" PROVE Talking(u, n, R, E, Y) /\ u.ui.temps = s.ui.temps
  <2>1. left = Kept(s.ui.conv.msgs, {b \in ToSet(s.ui.conv.msgs) : b.id # c.temp}) /\ Carried(c) \subseteq Y \cup {c.temp}
    BY <1>3
  <2> HIDE DEF left, u
  <2>2. Fits(s, [d EXCEPT !.msgs = left], n, R, Y)
    BY <1>2, <1>7, <2>1, DropFits
  <2>3. /\ Shaped(u) /\ Links(u, E) /\ Caches(u, n, R) /\ u.ui.temps = s.ui.temps /\ u.ui.conv = [d EXCEPT !.msgs = left]
        /\ u.calls = s.calls /\ u.wire.down = s.wire.down
    BY <1>4 DEF u, Shaped, Links, Caches, BlankChat
  <2>4. QED BY <2>2, <2>3, Becomes
<1> HIDE DEF t, u
<1>8. QED BY <1>5, <1>6, <1>7

LEMMA AnsweredTalks ==
    ASSUME NEW s, NEW n \in Nat, NEW R, NEW E, Begins(E), NEW c, Talking(s, n, R, E, Carried(c)),
           Outstanding(s, c, n, R, E), c.op = "post"
    PROVE  Talking(Answered(s, c), n, R, E, {})
<1> DEFINE t == IF c.st = "ok" THEN posted(s, c) ELSE unposted(s, c)
           u == [t EXCEPT !.ui.sending = FALSE]
<1>1. Talking(t, n, R, E, Ids(c.rest)) /\ t.ui.temps = s.ui.temps
  BY PostedTalks, UnpostedTalks DEF Outstanding, Posted
<1>2. /\ c.conv \in E /\ c.rest \in Seq(Bubbles) /\ \A i \in DOMAIN c.rest : -s.ui.temps <= c.rest[i].id /\ c.rest[i].id < 0
  BY DEF Outstanding, IsCall, Placed
<1>3. Answered(s, c) = IF c.rest # <<>> THEN Post(t, c.conv, c.rest)
                       ELSE IF screen = "panel" \/ (c.temp = 0 /\ c.st = "no") THEN u
                       ELSE loadConversations(t, "unlock")
  BY DEF Answered
<1> HIDE DEF t
<1>4. c.rest # <<>> => Talking(Post(t, c.conv, c.rest), n, R, E, {})
  BY <1>1, <1>2, PostTalks
<1>5. c.rest = <<>> => Talking(t, n, R, E, {})
  <2>1. c.rest = <<>> => Ids(c.rest) = {}
    BY DEF Ids
  <2>2. QED BY <1>1, <2>1
<1>6. c.rest = <<>> => Talking(u, n, R, E, {})
  <2> SUFFICES ASSUME c.rest = <<>> PROVE Talking(u, n, R, E, {})
    OBVIOUS
  <2>1. Shaped(t) /\ Links(t, E) /\ Caches(t, n, R)
    BY <1>1, TalkingShaped
  <2>2. Shaped(u) /\ Links(u, E) /\ Caches(u, n, R) /\ Resembles(t, u)
    BY <2>1 DEF Shaped, Links, Caches, Resembles, BlankChat
  <2> HIDE DEF u
  <2>3. QED BY <1>5, <2>2, Aside
<1>7. c.rest = <<>> => Talking(loadConversations(t, "unlock"), n, R, E, {})
  BY <1>5, LoadsAll
<1> HIDE DEF u
<1>8. QED BY <1>3, <1>4, <1>6, <1>7

-----------------------------------------------------------------------------
(***************************************************************************)
(* The answers to the other calls.                                         *)
(***************************************************************************)
LEMMA OpensTalks ==
    ASSUME NEW s, NEW n \in Nat, NEW R, NEW E, Begins(E), NEW X, Talking(s, n, R, E, X), NEW c \in E, NEW got, Answers(got, n, R)
    PROVE  /\ Talking(Show([s EXCEPT !.ui.active = c, !.wire = reconnected(@)], got), n, R, E, X)
           /\ Talking(Show([s EXCEPT !.ui.active = c, !.ui.creating = FALSE, !.wire = reconnected(@)], got), n, R, E, X)
<1> DEFINE w == reconnected(s.wire)
           t == [s EXCEPT !.ui.active = c, !.wire = w]
           u == [s EXCEPT !.ui.active = c, !.ui.creating = FALSE, !.wire = w]
<1>1. Shaped(s) /\ Links(s, E) /\ Caches(s, n, R) /\ c \in Convs /\ c # NoConv
  BY TalkingShaped, ChatAssumption DEF Begins
<1>2. DOMAIN w = DOMAIN NoWire /\ w.down = <<>>
  BY <1>1 DEF Shaped, NoWire, reconnected, connect
<1>3. /\ t = [s EXCEPT !.ui.active = c, !.wire = reconnected(@)]
      /\ u = [s EXCEPT !.ui.active = c, !.ui.creating = FALSE, !.wire = reconnected(@)]
  OBVIOUS
<1> HIDE DEF w
<1>4. Shaped(t) /\ Links(t, E) /\ Caches(t, n, R) /\ Resembles(s, t)
  BY <1>1, <1>2 DEF Shaped, Links, Caches, Resembles, BlankChat
<1>5. Shaped(u) /\ Links(u, E) /\ Caches(u, n, R) /\ Resembles(s, u)
  BY <1>1, <1>2 DEF Shaped, Links, Caches, Resembles, BlankChat
<1> HIDE DEF t, u
<1>6. Talking(t, n, R, E, X) /\ Talking(u, n, R, E, X)
  BY <1>4, <1>5, Aside
<1>7. Talking(Show(t, got), n, R, E, X) /\ Talking(Show(u, got), n, R, E, X)
  BY <1>6, AnswerShows
<1>8. QED BY <1>3, <1>7

LEMMA CreatedTalks ==
    ASSUME NEW s, NEW n \in Nat, NEW R, NEW E, Begins(E), NEW X, Talking(s, n, R, E, X), NEW c,
           IsCall(c, s.ui.temps, n, R, E), c.op = "create", c.st # "sent"
    PROVE  Talking(Created(s, c), n, R, E, X)
<1> DEFINE t == [s EXCEPT !.ui.file = FALSE, !.ui.form = FALSE]
           no == [s EXCEPT !.ui.sending = @ /\ screen = "panel", !.ui.creating = FALSE]
           p == [t EXCEPT !.ui.listing = TRUE]
           call == [Call("list", c.conv) EXCEPT !.then = "open", !.got = c.got]
           v == Show([t EXCEPT !.ui.active = c.conv, !.wire = reconnected(@)], c.got)
<1>1. Shaped(s) /\ Links(s, E) /\ Caches(s, n, R)
  BY TalkingShaped
<1>2. c.st = "no" \/ (c.st = "ok" /\ c.conv \in E /\ Answers(c.got, n, R))
  BY DEF IsCall
<1>3. Talking(no, n, R, E, X)
  <2>1. Shaped(no) /\ Links(no, E) /\ Caches(no, n, R) /\ Resembles(s, no)
    BY <1>1 DEF Shaped, Links, Caches, Resembles, BlankChat
  <2> HIDE DEF no
  <2>2. QED BY <2>1, Aside
<1>4. Talking(t, n, R, E, X)
  <2>1. Shaped(t) /\ Links(t, E) /\ Caches(t, n, R) /\ Resembles(s, t)
    BY <1>1 DEF Shaped, Links, Caches, Resembles, BlankChat
  <2> HIDE DEF t
  <2>2. QED BY <2>1, Aside
<1>5. Created(s, c) = IF c.st = "no" THEN no ELSE IF screen = "panel" THEN Sent(p, call)
                      ELSE loadConversations(loadConversation(v, c.conv, FALSE), "unlock")
  BY DEF Created
<1> HIDE DEF t, no
<1>6. Talking(p, n, R, E, X)
  <2>0. Shaped(t) /\ Links(t, E) /\ Caches(t, n, R)
    BY <1>4, TalkingShaped
  <2>1. Shaped(p) /\ Links(p, E) /\ Caches(p, n, R) /\ Resembles(t, p)
    BY <2>0 DEF Shaped, Links, Caches, Resembles, BlankChat
  <2> HIDE DEF p
  <2>2. QED BY <1>4, <2>1, Aside
<1> HIDE DEF p
<1>7. ASSUME c.st # "no" PROVE Talking(Sent(p, call), n, R, E, X)
  <2>1. IsCall(call, p.ui.temps, n, R, E)
    BY <1>2, <1>7, CreatedCall
  <2>2. call.op = "list"
    BY DEF Call
  <2> HIDE DEF call
  <2>3. QED BY <1>6, <2>1, <2>2, SendsAside
<1>8. ASSUME c.st # "no" PROVE Talking(loadConversations(loadConversation(v, c.conv, FALSE), "unlock"), n, R, E, X)
  <2>1. Talking(v, n, R, E, X)
    BY <1>2, <1>4, <1>8, OpensTalks
  <2> HIDE DEF v
  <2>2. Talking(loadConversation(v, c.conv, FALSE), n, R, E, X)
    BY <1>2, <1>8, <2>1, LoadsOne
  <2>3. QED BY <2>2, LoadsAll
<1> HIDE DEF v, call
<1>9. QED BY <1>3, <1>5, <1>7, <1>8

LEMMA ListReplyTalks ==
    ASSUME NEW s, NEW n \in Nat, NEW R, NEW E, Begins(E), NEW X, Talking(s, n, R, E, X), NEW c,
           IsCall(c, s.ui.temps, n, R, E)
    PROVE  Talking(ShowCreated(Listed(s, IF c.st = "ok" THEN c.list ELSE IF screen = "panel" THEN {} ELSE s.ui.list, c.then), c), n, R, E, X)
<1> DEFINE list == IF c.st = "ok" THEN c.list ELSE IF screen = "panel" THEN {} ELSE s.ui.list
           t == Listed(s, list, c.then)
<1>1. Links(s, E)
  BY TalkingShaped
<1>2. list \subseteq E /\ (c.then = "leave" => screen = "panel")
  BY <1>1 DEF IsCall, Links
<1> HIDE DEF list
<1>3. Talking(t, n, R, E, X)
  BY <1>2, ListedTalks
<1> HIDE DEF t
<1>4. c.then = "open" => c.conv \in E /\ Answers(c.got, n, R)
  BY DEF IsCall
<1>5. Talking(ShowCreated(t, c), n, R, E, X)
  BY <1>3, <1>4, OpensTalks DEF ShowCreated
<1>6. QED BY <1>5 DEF t, list

LEMMA OlderTalks ==
    ASSUME NEW s, NEW n \in Nat, NEW R, NEW E, Begins(E), NEW X, Talking(s, n, R, E, X), NEW c,
           IsCall(c, s.ui.temps, n, R, E), Below(s, c), c.op = "older"
    PROVE  Talking(OlderLoaded(s, c), n, R, E, X)
<1> DEFINE older == Kept(c.got.msgs, {b \in ToSet(c.got.msgs) : b.id \notin Ids(s.ui.conv.msgs)})
           t == [s EXCEPT !.ui.older = FALSE]
           e == [s.ui.conv EXCEPT !.msgs = older \o @, !.more = c.got.more]
<1>1. Shaped(s) /\ Links(s, E) /\ Caches(s, n, R)
  BY TalkingShaped
<1>2. Shaped(t) /\ Links(t, E) /\ Caches(t, n, R) /\ Resembles(s, t) /\ t.wire = s.wire
  BY <1>1 DEF Shaped, Links, Caches, Resembles, BlankChat
<1>3. OlderLoaded(s, c) = IF c.st = "ok" /\ s.ui.conv.id = c.conv THEN Show(t, e) ELSE t
  BY DEF OlderLoaded
<1> HIDE DEF t
<1>4. Talking(t, n, R, E, X)
  BY <1>2, Aside
<1>5. ASSUME c.st = "ok", s.ui.conv.id = c.conv PROVE Talking(Show(t, e), n, R, E, X)
  <2>1. c.conv \in Convs /\ c.conv # NoConv
    BY ChatAssumption DEF IsCall, Placed, Begins
  <2>2. older = Kept(c.got.msgs, {b \in ToSet(c.got.msgs) : b.id \notin Ids(s.ui.conv.msgs)})
    OBVIOUS
  <2> HIDE DEF older
  <2>3. Fits(s, e, n, R, X)
    BY <1>5, <2>1, <2>2, OlderFits
  <2> HIDE DEF e
  <2>4. Shows(e, t.ui.temps, n, R) /\ News(e, t.calls, t.wire.down) /\ Going(e, t.calls, X)
    BY <1>2, <2>3 DEF Fits, Resembles
  <2>5. QED BY <1>4, <2>4, ShowTalks
<1>6. QED BY <1>3, <1>4, <1>5

LEMMA DetailTalks ==
    ASSUME NEW s, NEW n \in Nat, NEW R, NEW E, Begins(E), NEW X, Talking(s, n, R, E, X), NEW c,
           IsCall(c, s.ui.temps, n, R, E), c.op = "detail"
    PROVE  Talking(DetailLoaded(s, c), n, R, E, X)
<1> DEFINE t == IF c.silent THEN s ELSE [s EXCEPT !.ui.loading = FALSE]
           u == [t EXCEPT !.ui.conv = NothingShown]
<1>1. Shaped(s) /\ Links(s, E) /\ Caches(s, n, R)
  BY TalkingShaped
<1>2. Talking(t, n, R, E, X)
  <2>1. Shaped(t) /\ Links(t, E) /\ Caches(t, n, R) /\ Resembles(s, t)
    BY <1>1 DEF Shaped, Links, Caches, Resembles, BlankChat
  <2> HIDE DEF t
  <2>2. QED BY <2>1, Aside
<1>3. DetailLoaded(s, c) = IF c.st = "ok" THEN Show(t, c.got) ELSE IF screen = "panel" THEN u ELSE t
  BY DEF DetailLoaded
<1> HIDE DEF t
<1>4. c.st = "ok" => Talking(Show(t, c.got), n, R, E, X)
  BY <1>2, AnswerShows DEF IsCall
<1>5. Talking(u, n, R, E, X)
  <2> DEFINE r == Show(t, NothingShown)
  <2>1. Talking(r, n, R, E, X)
    BY <1>2, NothingAnswers, AnswerShows
  <2>2. Shaped(t) /\ r.ui.temps = t.ui.temps /\ r.ui.conv = NothingShown /\ r.calls = t.calls /\ r.wire = t.wire
    BY <1>2, TalkingShaped, ShowFacts
  <2> HIDE DEF r
  <2>3. Links(t, E) /\ Caches(t, n, R)
    BY <1>2, TalkingShaped
  <2>4. Shaped(u) /\ Links(u, E) /\ Caches(u, n, R) /\ Resembles(r, u)
    BY <2>2, <2>3 DEF Shaped, Links, Caches, Resembles, BlankChat
  <2> HIDE DEF u
  <2>5. QED BY <2>1, <2>4, Aside
<1> HIDE DEF u
<1>6. QED BY <1>2, <1>3, <1>4, <1>5

LEMMA ReloadsTalk ==
    ASSUME NEW s, NEW n \in Nat, NEW R, NEW E, Begins(E), NEW X, Talking(s, n, R, E, X), NEW c,
           IsCall(c, s.ui.temps, n, R, E)
    PROVE  /\ c.op \in {"close", "claim"} => Talking(Closed(s, c), n, R, E, X)
           /\ c.op = "card" => Talking(CardSent(s, c), n, R, E, X)
<1> DEFINE t == [s EXCEPT !.ui.popup = FALSE, !.ui.query = 0]
           u == [s EXCEPT !.ui.error = TRUE, !.ui.sending = FALSE]
<1>1. Shaped(s) /\ Links(s, E) /\ Caches(s, n, R)
  BY TalkingShaped
<1>2. Talking(t, n, R, E, X)
  <2>1. Shaped(t) /\ Links(t, E) /\ Caches(t, n, R) /\ Resembles(s, t)
    BY <1>1 DEF Shaped, Links, Caches, Resembles, BlankChat
  <2> HIDE DEF t
  <2>2. QED BY <2>1, Aside
<1>3. Talking(u, n, R, E, X)
  <2>1. Shaped(u) /\ Links(u, E) /\ Caches(u, n, R) /\ Resembles(s, u)
    BY <1>1 DEF Shaped, Links, Caches, Resembles, BlankChat
  <2> HIDE DEF u
  <2>2. QED BY <2>1, Aside
<1>4. CardSent(s, c) = IF c.st = "no" THEN u ELSE loadConversations(loadConversation(t, c.conv, FALSE), "unlock")
  BY DEF CardSent
<1> HIDE DEF t, u
<1>5. c.op \in {"close", "claim", "card"} => c.conv \in E
  BY DEF IsCall, Placed
<1>6. c.op = "card" => Talking(CardSent(s, c), n, R, E, X)
  <2>1. c.op = "card" => Talking(loadConversation(t, c.conv, FALSE), n, R, E, X)
    BY <1>2, <1>5, LoadsOne
  <2>2. c.op = "card" => Talking(loadConversations(loadConversation(t, c.conv, FALSE), "unlock"), n, R, E, X)
    BY <2>1, LoadsAll
  <2>3. QED BY <1>3, <1>4, <2>2
<1>7. c.op \in {"close", "claim"} => Talking(Closed(s, c), n, R, E, X)
  <2>1. screen = "panel" => Talking(loadConversations(s, "leave"), n, R, E, X)
    BY LoadsAll
  <2>2. c.op \in {"close", "claim"} => Talking(loadConversation(s, c.conv, FALSE), n, R, E, X)
    BY <1>5, LoadsOne
  <2>3. c.op \in {"close", "claim"} => Talking(loadConversations(loadConversation(s, c.conv, FALSE), "none"), n, R, E, X)
    BY <2>2, LoadsAll
  <2>4. QED BY <2>1, <2>3 DEF Closed
<1>8. QED BY <1>6, <1>7

LEMMA SettlesTalk ==
    ASSUME NEW s, NEW n, NEW R, NEW E, NEW X, Talking(s, n, R, E, X), NEW c
    PROVE  Talking(Uploaded(s, c), n, R, E, X) /\ Talking(Found(s, c), n, R, E, X) /\ Talking(InboxLoaded(s, c), n, R, E, X)
<1>1. Shaped(s) /\ Links(s, E) /\ Caches(s, n, R)
  BY TalkingShaped
<1>2. ASSUME NEW t, Shaped(t) /\ Links(t, E) /\ Caches(t, n, R) /\ Resembles(s, t) PROVE Talking(t, n, R, E, X)
  BY <1>2, Aside
<1>3. LET t == Uploaded(s, c) IN Shaped(t) /\ Links(t, E) /\ Caches(t, n, R) /\ Resembles(s, t)
  BY <1>1 DEF Uploaded, Shaped, Links, Caches, Resembles, BlankChat
<1>4. LET t == Found(s, c) IN Shaped(t) /\ Links(t, E) /\ Caches(t, n, R) /\ Resembles(s, t)
  BY <1>1 DEF Found, Shaped, Links, Caches, Resembles, BlankChat
<1>5. LET t == InboxLoaded(s, c) IN Shaped(t) /\ Links(t, E) /\ Caches(t, n, R) /\ Resembles(s, t)
  BY <1>1 DEF InboxLoaded, Shaped, Links, Caches, Resembles, BlankChat
<1>6. QED BY <1>2, <1>3, <1>4, <1>5

-----------------------------------------------------------------------------
(***************************************************************************)
(* A call is answered.                                                     *)
(***************************************************************************)
LEMMA RestFacts ==
    ASSUME NEW cs, cs \in Seq(ToSet(cs)), NEW i \in DOMAIN cs, NEW rs, rs = RemoveAt(cs, i)
    PROVE  rs \in Seq(ToSet(rs)) /\ \A m \in DOMAIN cs : m # i => \E j \in DOMAIN rs : rs[j] = cs[m]
<1> DEFINE D == ToSet(cs)
<1> HIDE DEF D
<1>0. cs \in Seq(D)
  BY Zenon DEF D
<1>1. cs \in Seq(D) /\ i \in 1..Len(cs) /\ DOMAIN cs = 1..Len(cs) /\ Len(cs) \in Nat
  BY <1>0
<1>2. /\ rs \in Seq(D) /\ Len(rs) = Len(cs) - 1
      /\ \A j \in 1..Len(rs) : rs[j] = cs[IF j < i THEN j ELSE j + 1]
  BY <1>1, RemoveAtFacts, Zenon
<1>3. DOMAIN rs = 1..Len(rs) /\ rs \in Seq(ToSet(rs))
  <2>1. rs \in [1..Len(rs) -> ToSet(rs)]
    BY <1>2 DEF ToSet
  <2>2. QED BY <1>2, <2>1
<1>4. ASSUME NEW m \in DOMAIN cs, m # i PROVE \E j \in DOMAIN rs : rs[j] = cs[m]
  <2> DEFINE j == IF m < i THEN m ELSE m - 1
  <2>1. m \in 1..Len(cs) /\ j \in 1..Len(rs) /\ m = (IF j < i THEN j ELSE j + 1)
    BY <1>1, <1>2, <1>4
  <2> HIDE DEF j
  <2>2. QED BY <1>2, <1>3, <2>1
<1>5. QED BY <1>3, <1>4

LEMMA RemovedTalks ==
    ASSUME NEW s, NEW n \in Nat, NEW R, NEW E, Talking(s, n, R, E, {}), NEW i \in DOMAIN s.calls,
           NEW t, Shaped(t), Links(t, E), Caches(t, n, R), t.ui = s.ui, t.wire = s.wire, t.calls = RemoveAt(s.calls, i)
    PROVE  Talking(t, n, R, E, Carried(s.calls[i])) /\ Outstanding(t, s.calls[i], n, R, E)
<1> DEFINE c == s.calls[i]
           cs == s.calls
           rs == t.calls
<1>1. cs \in Seq(ToSet(cs)) /\ rs = RemoveAt(cs, i)
  BY DEF Talking
<1>2. /\ rs \in Seq(ToSet(rs)) /\ \A m \in DOMAIN cs : m # i => \E j \in DOMAIN rs : rs[j] = cs[m]
      /\ \A j, k \in DOMAIN rs : \E l, m \in DOMAIN cs : l # i /\ m # i /\ rs[j] = cs[l] /\ rs[k] = cs[m] /\ (l = m => j = k)
  <2> HIDE DEF cs, rs
  <2>1. i \in DOMAIN cs
    BY DEF cs
  <2>2. rs \in Seq(ToSet(rs)) /\ \A m \in DOMAIN cs : m # i => \E j \in DOMAIN rs : rs[j] = cs[m]
    BY <1>1, <2>1, RestFacts
  <2>3. \A j, k \in DOMAIN rs : \E l, m \in DOMAIN cs : l # i /\ m # i /\ rs[j] = cs[l] /\ rs[k] = cs[m] /\ (l = m => j = k)
    BY <1>1, <2>1, RemainingFacts
  <2>4. QED BY <2>2, <2>3
<1>3. \A j \in DOMAIN rs : \E l \in DOMAIN cs : l # i /\ rs[j] = cs[l]
  BY <1>2
<1>4. \A j \in DOMAIN cs : IsCall(cs[j], s.ui.temps, n, R, E)
  BY DEF Talking
<1>5. News(s.ui.conv, cs, s.wire.down)
  BY DEF Talking
<1> HIDE DEF rs, cs
<1>6. ASSUME NEW x, Brings(x, s.ui.conv, cs, s.wire.down) PROVE Brings(x, t.ui.conv, rs, t.wire.down)
  BY <1>3, <1>6 DEF Brings
<1>7. News(t.ui.conv, rs, t.wire.down)
  <2> SUFFICES ASSUME NEW j \in DOMAIN rs, Posted(rs[j])
               PROVE  /\ Brings(rs[j], t.ui.conv, rs, t.wire.down)
                      /\ \A k \in DOMAIN rs : Posted(rs[k]) /\ Real(rs[j]) = Real(rs[k]) => j = k
    BY DEF News
  <2>1. Brings(rs[j], t.ui.conv, rs, t.wire.down)
    BY <1>3, <1>5, <1>6 DEF News
  <2>2. ASSUME NEW k \in DOMAIN rs, Posted(rs[k]), Real(rs[j]) = Real(rs[k]) PROVE j = k
    BY <1>2, <1>5, <2>2 DEF News
  <2>3. QED BY <2>1, <2>2
<1>8. Going(t.ui.conv, rs, Carried(c))
  <2>1. Going(s.ui.conv, cs, {})
    BY DEF Talking, cs
  <2>2. SUFFICES ASSUME NEW b \in ToSet(t.ui.conv.msgs), b.st = "sending", b.id \notin Carried(c)
                 PROVE  \E j \in DOMAIN rs : b.id \in Carried(rs[j])
    BY DEF Going
  <2>3. PICK m \in DOMAIN cs : b.id \in Carried(cs[m])
    BY <2>1, <2>2 DEF Going
  <2>4. m # i
    BY <2>2, <2>3 DEF cs
  <2>5. QED BY <1>2, <2>3, <2>4
<1>9. Talking(t, n, R, E, Carried(c))
  <2>1. \A j \in DOMAIN rs : IsCall(rs[j], t.ui.temps, n, R, E)
    BY <1>3, <1>4
  <2>2. QED BY <1>2, <1>7, <1>8, <2>1 DEF Talking, Shaped, Links, Caches, rs
<1>10. Outstanding(t, c, n, R, E)
  <2>1. IsCall(c, t.ui.temps, n, R, E)
    BY <1>4 DEF cs
  <2>2. i \in DOMAIN cs /\ c = cs[i]
    BY DEF cs
  <2>3. ASSUME Posted(c)
        PROVE  Brings(c, t.ui.conv, rs, t.wire.down) /\ \A j \in DOMAIN rs : Posted(rs[j]) => Real(rs[j]) # Real(c)
    <3>1. Brings(c, s.ui.conv, cs, s.wire.down)
      BY <1>5, <2>2, <2>3 DEF News
    <3>2. \A j \in DOMAIN rs : Posted(rs[j]) => Real(rs[j]) # Real(c)
      BY <1>3, <1>5, <2>2, <2>3 DEF News
    <3>3. QED BY <1>6, <3>1, <3>2
  <2>4. Below(t, c)
    <3> SUFFICES ASSUME c.op = "older", NEW j \in DOMAIN rs, Posted(rs[j]), rs[j].temp # 0, rs[j].temp \in Ids(t.ui.conv.msgs)
                 PROVE  c.before < Real(rs[j])
      BY DEF Below, rs
    <3>1. PICK m \in DOMAIN cs : rs[j] = cs[m]
      BY <1>3
    <3>2. Brings(cs[m], s.ui.conv, cs, s.wire.down)
      BY <1>5, <3>1 DEF News
    <3>3. QED BY <2>2, <3>1, <3>2 DEF Brings
  <2>5. QED BY <2>1, <2>3, <2>4 DEF Outstanding, rs
<1>11. QED BY <1>9, <1>10

LEMMA ReceivedTalks ==
    ASSUME NEW n \in Nat, NEW R, NEW E, Begins(E), Talking(Here, n, R, E, {}), NEW i \in DOMAIN calls
    PROVE  Talking(Received(i), n, R, E, Carried(calls[i])) /\ Outstanding(Received(i), calls[i], n, R, E)
<1> DEFINE c == calls[i]
           rs == RemoveAt(calls, i)
           s == [Here EXCEPT !.calls = rs]
           a == [s EXCEPT !.cache.detail[c.conv] = IF c.st = "ok" THEN c.got ELSE NoDetail]
           b == [s EXCEPT !.cache.list = IF c.st = "ok" THEN c.list ELSE {}]
           d == [s EXCEPT !.cache = [list |-> {}, detail |-> [k \in Convs |-> NoDetail]]]
           e == [s EXCEPT !.cache.detail[c.conv] = NoDetail]
           Like(t) == Shaped(t) /\ Links(t, E) /\ Caches(t, n, R) /\ t.ui = Here.ui /\ t.wire = Here.wire /\ t.calls = rs
<1>1. Shaped(Here) /\ Links(Here, E) /\ Caches(Here, n, R) /\ Here.calls = calls
  BY TalkingShaped DEF Here
<1>2. IsCall(c, ui.temps, n, R, E)
  BY DEF Talking, Here
<1>3. /\ c.list \subseteq E
      /\ c.op = "detail" => c.conv \in Convs /\ (c.st = "ok" => Answers(c.got, n, R))
      /\ c.op = "claim" => c.conv \in Convs
  BY <1>2 DEF IsCall, Placed, Begins
<1>4. Answers(NoDetail, n, R)
  BY NothingAnswers DEF NoDetail
<1>5. Received(i) = IF c.op = "detail" THEN a ELSE IF c.op = "list" THEN b
                    ELSE IF c.op = "create" /\ c.st = "ok" THEN d ELSE IF c.op = "claim" /\ c.st = "ok" THEN e ELSE s
  BY DEF Received
<1> HIDE DEF c, rs
<1>6. Like(s)
  BY <1>1 DEF Shaped, Links, Caches
<1> HIDE DEF s
<1>7. c.op = "detail" => Like(a)
  <2> DEFINE got == IF c.st = "ok" THEN c.got ELSE NoDetail
  <2>1. c.op = "detail" => Answers(got, n, R)
    BY <1>3, <1>4
  <2>2. a = [s EXCEPT !.cache.detail[c.conv] = got]
    OBVIOUS
  <2> HIDE DEF got, a
  <2>3. QED BY <1>3, <1>6, <2>1, <2>2 DEF Shaped, Links, Caches
<1>8. Like(b)
  BY <1>3, <1>6 DEF Shaped, Links, Caches
<1>9. Like(d)
  BY <1>4, <1>6 DEF Shaped, Links, Caches
<1>10. c.op = "claim" => Like(e)
  BY <1>3, <1>4, <1>6 DEF Shaped, Links, Caches
<1> HIDE DEF a, b, d, e
<1>11. Like(Received(i))
  BY <1>5, <1>6, <1>7, <1>8, <1>9, <1>10
<1>12. QED BY <1>1, <1>11, RemovedTalks DEF rs, c

LEMMA ReplyTalks ==
    ASSUME NEW s, NEW n \in Nat, NEW R, NEW E, Begins(E), NEW c, Talking(s, n, R, E, Carried(c)),
           Outstanding(s, c, n, R, E), c.st # "sent"
    PROVE  Talking(Reply(s, c), n, R, E, {})
<1>1. IsCall(c, s.ui.temps, n, R, E) /\ Below(s, c)
  BY DEF Outstanding
<1>2. c.op # "post" => Carried(c) = {}
  BY DEF Carried
<1>3. CASE c.op = "post"
  <2>1. Reply(s, c) = Answered(s, c)
    BY <1>3 DEF Reply
  <2>2. QED BY <1>3, <2>1, AnsweredTalks
<1>4. CASE c.op = "detail"
  BY <1>1, <1>2, <1>4, DetailTalks DEF Reply
<1>5. CASE c.op = "list"
  BY <1>1, <1>2, <1>5, ListReplyTalks DEF Reply
<1>6. CASE c.op = "older"
  BY <1>1, <1>2, <1>6, OlderTalks DEF Reply
<1>7. CASE c.op = "create"
  BY <1>1, <1>2, <1>7, CreatedTalks DEF Reply
<1>8. CASE c.op \in {"card", "close", "claim"}
  BY <1>1, <1>2, <1>8, ReloadsTalk DEF Reply
<1>9. CASE c.op \notin {"post", "detail", "list", "older", "create", "card", "close", "claim"}
  BY <1>2, <1>9, SettlesTalk DEF Reply
<1>10. QED BY <1>3, <1>4, <1>5, <1>6, <1>7, <1>8, <1>9

\* The lists of conversations hold those that have begun.
LEMMA Beginning == ASSUME Conversations(chat) PROVE Begins(Begun(chat))
BY DEF Conversations, Begins, Begun

-----------------------------------------------------------------------------
(***************************************************************************)
(* Steps of the page: the page that is mounted stays, and so does what is  *)
(* known under it.                                                         *)
(***************************************************************************)
LEMMA SameKnown == ASSUME screen' = screen PROVE \A b, n, R : Known(b, n, R)' <=> Known(b, n, R)
BY DEF Known
LEMMA SameMe == ASSUME screen' = screen PROVE Me' = Me
BY DEF Me
LEMMA SameTalk ==
    ASSUME screen' = screen
    PROVE  /\ \A ch : Conversations(ch)' <=> Conversations(ch)
           /\ \A s, n, R, E, X : Talking(s, n, R, E, X)' <=> Talking(s, n, R, E, X)
<1>1. \A b, n, R : Known(b, n, R)' <=> Known(b, n, R)
  BY SameKnown
<1>2. Me' = Me
  BY SameMe
<1>3. \A d, n, R : Answers(d, n, R)' <=> Answers(d, n, R)
  BY <1>1 DEF Answers
<1>4. \A d, t, n, R : Shows(d, t, n, R)' <=> Shows(d, t, n, R)
  BY <1>1 DEF Shows
<1>5. \A c, t, n, R, E : IsCall(c, t, n, R, E)' <=> IsCall(c, t, n, R, E)
  BY <1>1, <1>2, <1>3 DEF IsCall
<1>6. \A c, d, cs, w : Brings(c, d, cs, w)' <=> Brings(c, d, cs, w)
  BY DEF Brings
<1>7. \A d, cs, w : News(d, cs, w)' <=> News(d, cs, w)
  BY <1>6 DEF News
<1>8. \A ch : Conversations(ch)' <=> Conversations(ch)
  BY <1>2 DEF Conversations, Conversation
<1>9. \A s, n, R, E, X : Talking(s, n, R, E, X)' <=> Talking(s, n, R, E, X)
  BY <1>3, <1>4, <1>5, <1>7 DEF Talking
<1>10. QED BY <1>8, <1>9

LEMMA Numbering ==
    ASSUME NEW ch, Conversations(ch)
    PROVE  /\ \A k \in Given(ch) : k \in Nat \ {0}
           /\ \A n \in Nat : Numbered(ch, n) => Max(Given(ch)) = n
<1>1. \A k \in Given(ch) : k \in Nat \ {0}
  <2> SUFFICES ASSUME NEW c \in Convs, NEW i \in DOMAIN ch[c].msgs PROVE ch[c].msgs[i].id \in Nat \ {0}
    BY DEF Given, Ids
  <2>1. ch[c].msgs \in Seq(Messages)
    BY DEF Conversations, Conversation
  <2>2. ch[c].msgs[i] \in Messages
    BY <2>1
  <2>3. QED BY <2>2 DEF Messages
<1>2. ASSUME NEW n \in Nat, Numbered(ch, n) PROVE Max(Given(ch)) = n
  <2> DEFINE G == Given(ch)
  <2>1. n \in G /\ \A k \in G : k <= n /\ k \in Nat
    BY <1>1, <1>2 DEF Numbered
  <2> HIDE DEF G
  <2>2. n \in G /\ \A k \in G : n >= k
    BY <2>1
  <2>3. \A m \in G : (\A k \in G : m >= k) => m = n
    BY <2>1
  <2>4. (CHOOSE m \in G : \A k \in G : m >= k) = n
    BY <2>2, <2>3
  <2>5. Max(G) = n
    BY <2>4 DEF Max
  <2>6. QED BY <2>5 DEF G
<1>3. QED BY <1>1, <1>2

LEMMA Goes ==
    ASSUME screen \in Screens, screen' = screen, NEW ch, ch = chat', Conversations(ch),
           NEW n \in Nat, Numbered(ch, n), NEW k, k = Here', Talking(k, n, ReadOnes(ch), Begun(ch), {})
    PROVE  Conversing'
<1>1. Conversations(chat)' /\ (screen \in Screens)'
  BY SameTalk DEF Screens, Talks
<1>2. NextId' = 1 + Max(Given(ch))
  BY DEF NextId, Given, Ids
<1>3. NextId' = 1 + n /\ NextId' - 1 = n
  BY <1>2, Numbering
<1>4. Numbered(chat, NextId - 1)' /\ (NextId \in Nat)'
  BY <1>3 DEF Numbered, Given, Ids
<1>5. ReadOnes(chat)' = ReadOnes(ch) /\ Begun(chat)' = Begun(ch)
  BY DEF ReadOnes, Begun
<1>6. Talking(k, n, ReadOnes(ch), Begun(ch), {})'
  BY SameTalk
<1>7. Talking(Here, NextId - 1, ReadOnes(chat), Begun(chat), {})'
  BY <1>3, <1>5, <1>6
<1>8. QED BY <1>1, <1>4, <1>7 DEF Conversing

\* What was said stays; when more is read, and when a conversation changes hands.
LEMMA SameSaid ==
    ASSUME NEW ch, Conversations(ch), NEW dh, dh = [c \in Convs |-> dh[c]],
           \A c \in Convs : dh[c] \in Conversation /\ dh[c].msgs = ch[c].msgs /\ ch[c].read \subseteq dh[c].read
    PROVE  /\ Conversations(dh) /\ Given(dh) = Given(ch) /\ Begun(dh) = Begun(ch) /\ ReadOnes(ch) \subseteq ReadOnes(dh)
           /\ \A n : Numbered(ch, n) => Numbered(dh, n)
<1>1. dh \in [Convs -> Conversation]
  OBVIOUS
<1>2. Given(dh) = Given(ch) /\ Begun(dh) = Begun(ch)
  BY DEF Given, Begun
<1>3. ReadOnes(ch) \subseteq ReadOnes(dh)
  BY DEF ReadOnes
<1>4. QED BY <1>1, <1>2, <1>3 DEF Conversations, Numbered

LEMMA ReadsMore ==
    ASSUME NEW ch, Conversations(ch), NEW dh, dh = [c \in Convs |-> dh[c]],
           \A c \in Convs : \E S : dh[c] = [ch[c] EXCEPT !.read = @ \cup (S \cap (Nat \ {0}))]
    PROVE  /\ Conversations(dh) /\ Given(dh) = Given(ch) /\ Begun(dh) = Begun(ch) /\ ReadOnes(ch) \subseteq ReadOnes(dh)
           /\ \A n : Numbered(ch, n) => Numbered(dh, n)
<1>1. ASSUME NEW c \in Convs PROVE dh[c] \in Conversation /\ dh[c].msgs = ch[c].msgs /\ ch[c].read \subseteq dh[c].read
  <2>1. PICK S : dh[c] = [ch[c] EXCEPT !.read = @ \cup (S \cap (Nat \ {0}))]
    OBVIOUS
  <2>2. ch[c] \in Conversation
    BY DEF Conversations
  <2>3. QED BY <2>1, <2>2 DEF Conversation
<1>2. QED BY <1>1, SameSaid

\* A step that a handler takes alone.
Mine(s) == Talking(s, NextId - 1, ReadOnes(chat), Begun(chat), {})
LEMMA Pages ==
    ASSUME Conversing, NEW s, Mine(s), Page(s)
    PROVE  Conversing'
<1> DEFINE n == NextId - 1
           ids(c) == {m.id : m \in ToSet(chat[c].msgs)}
<1>1. /\ Conversations(chat) /\ screen \in Screens /\ n \in Nat /\ Numbered(chat, n)
      /\ Talking(s, n, ReadOnes(chat), Begun(chat), {})
  <2>1. NextId \in Nat /\ Numbered(chat, NextId - 1) /\ Conversations(chat)
    BY DEF Conversing
  <2>2. NextId - 1 \in Nat
    BY <2>1, Numbering DEF Numbered
  <2>3. QED BY <2>2 DEF Conversing, Mine
<1>2. screen' = screen /\ ui' = s.ui /\ wire' = s.wire /\ calls' = s.calls /\ cache' = s.cache
  BY DEF Page
<1>3. PICK ch : ch = chat'
  OBVIOUS
<1>4. ch = chat \/ ch = [c \in Convs |-> [chat[c] EXCEPT !.read = @ \cup (s.acks \cap ids(c))]]
  BY <1>3 DEF Page
<1>5. \A c \in Convs : ids(c) \subseteq Nat \ {0}
  <2> SUFFICES ASSUME NEW c \in Convs, NEW m \in ToSet(chat[c].msgs) PROVE m.id \in Nat \ {0}
    OBVIOUS
  <2>1. chat[c].msgs \in Seq(Messages)
    BY <1>1 DEF Conversations, Conversation
  <2>2. m \in Messages
    BY <2>1 DEF ToSet
  <2>3. QED BY <2>2 DEF Messages
<1>6. /\ Conversations(ch) /\ Given(ch) = Given(chat) /\ Begun(ch) = Begun(chat) /\ ReadOnes(chat) \subseteq ReadOnes(ch)
  <2>1. CASE ch = chat
    BY <1>1, <2>1
  <2>2. CASE ch = [c \in Convs |-> [chat[c] EXCEPT !.read = @ \cup (s.acks \cap ids(c))]]
    <3>1. \A c \in Convs : s.acks \cap ids(c) = (s.acks \cap ids(c)) \cap (Nat \ {0})
      BY <1>5
    <3> HIDE DEF ids
    <3>2. ch = [c \in Convs |-> ch[c]] /\ \A c \in Convs : \E S : ch[c] = [chat[c] EXCEPT !.read = @ \cup (S \cap (Nat \ {0}))]
      BY <2>2, <3>1
    <3>3. QED BY <1>1, <3>2, ReadsMore
  <2>3. QED BY <1>4, <2>1, <2>2
<1>7. PICK k : k = Here'
  OBVIOUS
<1>8. k.ui = s.ui /\ k.wire = s.wire /\ k.calls = s.calls /\ k.cache = s.cache /\ DOMAIN k = {"ui", "wire", "calls", "cache", "acks"}
  BY <1>2, <1>7 DEF Here
<1> HIDE DEF n
<1>9. Talking(k, n, ReadOnes(chat), Begun(chat), {})
  BY <1>1, <1>8 DEF Talking
<1>10. Talking(k, n, ReadOnes(ch), Begun(ch), {})
  BY <1>1, <1>6, <1>9, TalkingGrows
<1>11. Numbered(ch, n)
  BY <1>1, <1>6 DEF Numbered
<1>12. QED BY <1>1, <1>2, <1>3, <1>6, <1>7, <1>10, <1>11, Goes

LEMMA ConversingFacts ==
    ASSUME Conversing
    PROVE  /\ Mine(Here) /\ NextId - 1 \in Nat /\ Begins(Begun(chat)) /\ Conversations(chat)
           /\ Shaped(Here) /\ Links(Here, Begun(chat)) /\ Caches(Here, NextId - 1, ReadOnes(chat))
           /\ Here.ui = ui /\ Here.wire = wire /\ Here.calls = calls /\ Here.cache = cache
<1>1. Conversations(chat) /\ Numbered(chat, NextId - 1) /\ Talking(Here, NextId - 1, ReadOnes(chat), Begun(chat), {})
  BY DEF Conversing
<1>2. NextId - 1 \in Nat
  BY <1>1, Numbering DEF Numbered
<1>3. Here.ui = ui /\ Here.wire = wire /\ Here.calls = calls /\ Here.cache = cache
  BY DEF Here
<1>4. QED BY <1>1, <1>2, <1>3, Beginning, TalkingShaped DEF Mine

\* A handler that sets only what no part of the invariant speaks of; one that also sends a call.
LEMMA Sets ==
    ASSUME Conversing, NEW t, Shaped(t), Links(t, Begun(chat)), Caches(t, NextId - 1, ReadOnes(chat)), Resembles(Here, t)
    PROVE  Mine(t)
BY ConversingFacts, Aside DEF Mine
LEMMA SetsSend ==
    ASSUME Conversing, NEW t, Mine(t), NEW c, IsCall(c, t.ui.temps, NextId - 1, ReadOnes(chat), Begun(chat)), c.op \notin {"post", "older"}
    PROVE  Mine(Sent(t, c))
BY SendsAside DEF Mine

LEMMA SimpleSteps ==
    ASSUME Conversing, ToggleNewForm \/ removeAttachment \/ ChooseFilter \/ FoldOrders \/ ShowPopup \/ HidePopup \/ TypeQuery
    PROVE  Conversing'
<1>1. /\ Shaped(Here) /\ Links(Here, Begun(chat)) /\ Caches(Here, NextId - 1, ReadOnes(chat))
  BY ConversingFacts
<1> DEFINE Like(t) == Shaped(t) /\ Links(t, Begun(chat)) /\ Caches(t, NextId - 1, ReadOnes(chat)) /\ Resembles(Here, t)
<1>2. /\ Like([Here EXCEPT !.ui.form = ~@]) /\ Like([Here EXCEPT !.ui.file = FALSE])
      /\ Like([Here EXCEPT !.ui.folded = ~@]) /\ Like([Here EXCEPT !.ui.popup = TRUE]) /\ Like([Here EXCEPT !.ui.popup = FALSE])
      /\ \A x : Like([Here EXCEPT !.ui.filter = x]) /\ Like([Here EXCEPT !.ui.query = x])
  BY <1>1 DEF Shaped, Links, Caches, Resembles, BlankChat
<1>3. \A t : Like(t) => Mine(t)
  BY Sets
<1> HIDE DEF Like
<1>4. \E t : Like(t) /\ Do(t)
  BY <1>2 DEF ToggleNewForm, removeAttachment, ChooseFilter, FoldOrders, ShowPopup, HidePopup, TypeQuery
<1>5. QED BY <1>3, <1>4, Pages DEF Do

LEMMA LoadingSteps ==
    ASSUME Conversing, Poll \/ Navigate \/ openConversation
    PROVE  Conversing'
<1> DEFINE E == Begun(chat)
           f == [Here EXCEPT !.ui.form = FALSE]
<1>1. Mine(Here) /\ NextId - 1 \in Nat /\ Begins(E) /\ Links(Here, E) /\ Here.ui = ui
  BY ConversingFacts
<1>2. Mine(f)
  <2>1. Shaped(f) /\ Links(f, E) /\ Caches(f, NextId - 1, ReadOnes(chat)) /\ Resembles(Here, f)
    BY ConversingFacts DEF Shaped, Links, Caches, Resembles, BlankChat
  <2> HIDE DEF f
  <2>2. QED BY <2>1, Sets
<1> HIDE DEF f
<1>3. \A c \in E : Mine(Select(Here, c)) /\ Mine(Select(f, c)) /\ Mine(loadConversation(Here, c, TRUE))
  <2> SUFFICES ASSUME NEW c \in E PROVE Mine(Select(Here, c)) /\ Mine(Select(f, c)) /\ Mine(loadConversation(Here, c, TRUE))
    OBVIOUS
  <2>1. Talking(Here, NextId - 1, ReadOnes(chat), E, {}) /\ Talking(f, NextId - 1, ReadOnes(chat), E, {})
    BY <1>1, <1>2 DEF Mine
  <2>2. QED BY <1>1, <2>1, Selects, LoadsOne DEF Mine
<1>4. ui.list \subseteq E /\ ui.active \in E \cup {NoConv} /\ (screen = "agent" => ui.active # NoConv)
  BY <1>1 DEF Links
<1> HIDE DEF E
<1>5. CASE Poll
  <2>1. ui.active \in E /\ Page(loadConversation(Here, ui.active, TRUE))
    BY <1>4, <1>5 DEF Poll, Do
  <2>2. QED BY <1>3, <2>1, Pages
<1>6. CASE Navigate
  <2>1. PICK c \in ui.list : Page(Select(Here, c))
    BY <1>6 DEF Navigate, Op
  <2>2. QED BY <1>3, <1>4, <2>1, Pages
<1>7. CASE openConversation
  <2>1. PICK c \in ui.list : Page(Select(f, c))
    BY <1>7 DEF openConversation, Op, f
  <2>2. QED BY <1>3, <1>4, <2>1, Pages
<1>8. QED BY <1>5, <1>6, <1>7

LEMMA AskingSteps ==
    ASSUME Conversing, handleClose \/ handleMarkReplied \/ handleForceTakeover \/ handleUpload \/ handleCreate \/ SendCard
    PROVE  Conversing'
<1> DEFINE E == Begun(chat)
           a == [Here EXCEPT !.ui.uploading = TRUE]
           b == [Here EXCEPT !.ui.creating = TRUE]
           d == [Here EXCEPT !.ui.sending = TRUE]
           Asks(t, c) == Mine(t) /\ IsCall(c, t.ui.temps, NextId - 1, ReadOnes(chat), E) /\ c.op \notin {"post", "older"}
<1>1. /\ Mine(Here) /\ NextId - 1 \in Nat /\ Begins(E) /\ Links(Here, E) /\ Here.ui = ui
  BY ConversingFacts
<1>2. Mine(a) /\ Mine(b) /\ Mine(d)
  <2>1. /\ Shaped(a) /\ Links(a, E) /\ Caches(a, NextId - 1, ReadOnes(chat)) /\ Resembles(Here, a)
        /\ Shaped(b) /\ Links(b, E) /\ Caches(b, NextId - 1, ReadOnes(chat)) /\ Resembles(Here, b)
        /\ Shaped(d) /\ Links(d, E) /\ Caches(d, NextId - 1, ReadOnes(chat)) /\ Resembles(Here, d)
    BY ConversingFacts DEF Shaped, Links, Caches, Resembles, BlankChat
  <2> HIDE DEF a, b, d
  <2>2. QED BY <2>1, Sets
<1>3. ui.active \in E \cup {NoConv} /\ (screen \in {"agent", "tools"} => ui.active # NoConv)
  BY <1>1 DEF Links
<1>4. \A t, c : Asks(t, c) => Mine(Sent(t, c))
  BY SetsSend
<1> HIDE DEF a, b, d, E
<1>5. ASSUME NEW t, Mine(t)
      PROVE  /\ \A c \in E : Asks(t, Call("close", c)) /\ Asks(t, Call("claim", c)) /\ Asks(t, [Call("card", c) EXCEPT !.kind = "card"])
             /\ \A c \in Convs : Asks(t, Call("create", c))
             /\ Asks(t, Call("upload", NoConv))
  <2>1. ASSUME NEW c \in E
        PROVE  Asks(t, Call("close", c)) /\ Asks(t, Call("claim", c)) /\ Asks(t, [Call("card", c) EXCEPT !.kind = "card"])
    <3>1. /\ IsCall(Call("close", c), t.ui.temps, NextId - 1, ReadOnes(chat), E)
          /\ IsCall(Call("claim", c), t.ui.temps, NextId - 1, ReadOnes(chat), E)
          /\ IsCall([Call("card", c) EXCEPT !.kind = "card"], t.ui.temps, NextId - 1, ReadOnes(chat), E)
      BY <1>1, PlainCall
    <3>2. Call("close", c).op = "close" /\ Call("claim", c).op = "claim" /\ [Call("card", c) EXCEPT !.kind = "card"].op = "card"
      BY DEF Call
    <3>3. QED BY <1>5, <3>1, <3>2
  <2>2. ASSUME NEW c \in Convs PROVE Asks(t, Call("create", c))
    <3>1. IsCall(Call("create", c), t.ui.temps, NextId - 1, ReadOnes(chat), E) /\ Call("create", c).op = "create"
      BY <1>1, OtherCall DEF Call
    <3>2. QED BY <1>5, <3>1
  <2>3. Asks(t, Call("upload", NoConv))
    <3>1. IsCall(Call("upload", NoConv), t.ui.temps, NextId - 1, ReadOnes(chat), E) /\ Call("upload", NoConv).op = "upload"
      BY <1>1, OtherCall DEF Call
    <3>2. QED BY <1>5, <3>1
  <2>4. QED BY <2>1, <2>2, <2>3
<1> HIDE DEF Asks
<1>6. \E t, c : Asks(t, c) /\ Page(Sent(t, c))
  <2>1. CASE handleClose \/ handleMarkReplied
    <3>1. ui.active \in E /\ \E op \in {"close", "claim"} : Page(Sent(Here, Call(op, ui.active)))
      BY <1>3, <2>1 DEF handleClose, handleMarkReplied, Op
    <3>2. QED BY <1>1, <1>5, <3>1
  <2>2. CASE handleForceTakeover
    <3>1. ui.active \in E /\ Page(Sent(Here, Call("claim", ui.active)))
      BY <1>3, <2>2 DEF handleForceTakeover, Op
    <3>2. QED BY <1>1, <1>5, <3>1
  <2>3. CASE handleUpload
    <3>1. Page(Sent(a, Call("upload", NoConv)))
      BY <2>3 DEF handleUpload, Op, a
    <3>2. QED BY <1>2, <1>5, <3>1
  <2>4. CASE SendCard
    <3>1. ui.active \in E /\ Page(Sent(d, [Call("card", ui.active) EXCEPT !.kind = "card"]))
      BY <1>3, <2>4 DEF SendCard, Do, d
    <3>2. QED BY <1>2, <1>5, <3>1
  <2>5. CASE handleCreate
    <3> DEFINE c == CHOOSE c \in Late : chat[c].msgs = <<>>
    <3>1. c \in Convs
      <4>1. \E x \in Late : chat[x].msgs = <<>>
        BY <2>5, ChatAssumption DEF handleCreate
      <4>2. QED BY <4>1, ChatAssumption
    <3>2. Page(Sent(IF screen = "panel" THEN b ELSE d, Call("create", c)))
      BY <2>5 DEF handleCreate, Op, b, d
    <3> HIDE DEF c
    <3>3. QED BY <1>2, <1>5, <3>1, <3>2
  <2>6. QED BY <2>1, <2>2, <2>3, <2>4, <2>5
<1>7. QED BY <1>4, <1>6, Pages

LEMMA SearchingSteps ==
    ASSUME Conversing, Debounced \/ InboxChange
    PROVE  Conversing'
<1> DEFINE E == Begun(chat)
           Like(t) == Shaped(t) /\ Links(t, E) /\ Caches(t, NextId - 1, ReadOnes(chat)) /\ Resembles(Here, t)
           asked == [Here EXCEPT !.ui.asked = ui.query]
<1>1. NextId - 1 \in Nat /\ Begins(E) /\ Like(Here)
  BY ConversingFacts DEF Resembles
<1>2. \A t : Like(t) => Mine(t)
  BY Sets
<1>3. ASSUME NEW t, Mine(t), NEW op \in {"search", "inbox"}, NEW before, NEW kind
      PROVE  /\ Mine(Sent(t, [Call(op, NoConv) EXCEPT !.before = before]))
             /\ Mine(Sent(t, [Call(op, NoConv) EXCEPT !.before = before, !.kind = kind]))
  <2> DEFINE c == [Call(op, NoConv) EXCEPT !.before = before]
             d == [Call(op, NoConv) EXCEPT !.before = before, !.kind = kind]
  <2>1. IsCall(c, t.ui.temps, NextId - 1, ReadOnes(chat), E) /\ IsCall(d, t.ui.temps, NextId - 1, ReadOnes(chat), E)
    BY <1>1, OtherCall
  <2>2. c.op = op /\ d.op = op
    BY DEF Call
  <2> HIDE DEF c, d
  <2>3. Mine(Sent(t, c)) /\ Mine(Sent(t, d))
    BY <1>3, <2>1, <2>2, SetsSend
  <2>4. QED BY <2>3 DEF c, d
<1> HIDE DEF E
<1>4. ASSUME Debounced PROVE Conversing'
  <2>1. Like(asked) /\ Like([asked EXCEPT !.ui.found = 0])
    BY <1>1 DEF Shaped, Links, Caches, Resembles, BlankChat
  <2> HIDE DEF Like
  <2>2. Mine(asked) /\ Mine([asked EXCEPT !.ui.found = 0])
    BY <1>2, <2>1
  <2>3. Page([asked EXCEPT !.ui.found = 0]) \/ Page(Sent(asked, [Call("search", NoConv) EXCEPT !.before = ui.query]))
    BY <1>4 DEF Debounced, Do
  <2> HIDE DEF asked
  <2>4. QED BY <1>3, <2>2, <2>3, Pages
<1>5. ASSUME NEW t, Like(t), Page(fetchData(t)) PROVE Conversing'
  <2> DEFINE u == [t EXCEPT !.ui.loading = TRUE, !.ui.error = FALSE]
  <2>1. Like(u)
    BY <1>5 DEF Shaped, Links, Caches, Resembles, BlankChat
  <2>2. fetchData(t) = Sent(u, [Call("inbox", NoConv) EXCEPT !.before = t.ui.query, !.kind = t.ui.filter])
    BY DEF fetchData
  <2> HIDE DEF Like, u
  <2>3. QED BY <1>2, <1>3, <1>5, <2>1, <2>2, Pages
<1>6. ASSUME InboxChange PROVE Conversing'
  <2>1. /\ \A q : Like([Here EXCEPT !.ui.query = q])
        /\ \A f : Like([Here EXCEPT !.ui.filter = f, !.ui.query = 1])
        /\ Like([Here EXCEPT !.ui.folded = ~@])
    BY <1>1 DEF Shaped, Links, Caches, Resembles, BlankChat
  <2>2. Like(Here)
    BY <1>1
  <2> HIDE DEF Like
  <2>3. \E t : Like(t) /\ Page(fetchData(t))
    BY <1>6, <2>1, <2>2 DEF InboxChange, Do
  <2>4. QED BY <1>5, <2>3
<1>7. QED BY <1>4, <1>6

LEMMA OlderStep ==
    ASSUME Conversing, handleLoadOlder
    PROVE  Conversing'
<1> DEFINE n == NextId - 1
           E == Begun(chat)
           R == ReadOnes(chat)
           t == [Here EXCEPT !.ui.older = TRUE]
           call == [Call("older", ui.conv.id) EXCEPT !.before = ui.conv.msgs[1].id]
<1>1. /\ n \in Nat /\ Begins(E) /\ Talking(Here, n, R, E, {}) /\ Here.ui = ui /\ Here.calls = calls /\ Here.wire = wire
  BY ConversingFacts DEF Mine
<1>2. screen # "panel" /\ ui.conv.id # NoConv /\ Page(Sent(t, call))
  BY DEF handleLoadOlder, ListOffers, Reading, Op
<1>3. Mine(t) /\ t.ui.conv = ui.conv /\ t.calls = calls
  <2>1. Shaped(t) /\ Links(t, E) /\ Caches(t, n, R) /\ Resembles(Here, t)
    BY ConversingFacts DEF Shaped, Links, Caches, Resembles, BlankChat
  <2> HIDE DEF t
  <2>2. QED BY <1>1, <2>1, Sets DEF Resembles
<1> HIDE DEF n, E, R, t
<1>4. /\ ui.conv \in Details /\ ui.conv.msgs \in Seq(Bubbles) /\ ui.conv.msgs # <<>>
      /\ \A i \in DOMAIN ui.conv.msgs : Known(ui.conv.msgs[i], n, R) /\ ui.conv.msgs[i].id \in Int
  BY <1>1, <1>2, ShownFacts
<1>5. ui.conv.msgs[1].id \in Int /\ ui.conv.msgs[1].id <= n /\ ui.conv.id \in Convs
  <2>1. 1 \in DOMAIN ui.conv.msgs
    BY <1>4
  <2>2. ui.conv.id \in Convs
    BY <1>2, <1>4 DEF Details
  <2>3. QED BY <1>4, <2>1, <2>2 DEF Known
<1>6. /\ DOMAIN call = CallFields /\ call.op = "older" /\ call.conv = ui.conv.id /\ call.before = ui.conv.msgs[1].id
      /\ call.st = "sent" /\ call.list = {} /\ call.then = "none"
  BY DEF Call, CallFields
<1> HIDE DEF call
<1>7. IsCall(call, t.ui.temps, n, R, E)
  BY <1>5, <1>6 DEF IsCall, Placed
<1>8. Below(t, call)
  <2>1. News(ui.conv, calls, wire.down)
    BY <1>1 DEF Talking
  <2>2. QED BY <1>2, <1>3, <1>6, <2>1 DEF Below, News, Brings
<1>9. Mine(Sent(t, call))
  <2>1. ~Posted(call) /\ Carried(call) = {}
    BY <1>6 DEF Posted, Carried
  <2>2. Talking(t, n, R, E, {})
    BY <1>3 DEF Mine, n, R, E
  <2>3. Talking(Sent(t, call), n, R, E, {})
    BY <1>7, <1>8, <2>1, <2>2, SentTalks
  <2>4. QED BY <2>3 DEF Mine, n, R, E
<1>10. QED BY <1>2, <1>9, Pages

LEMMA CardStep ==
    ASSUME Conversing, handleSendProductCard
    PROVE  Conversing'
<1> DEFINE n == NextId - 1
           E == Begun(chat)
           R == ReadOnes(chat)
           t == [Here EXCEPT !.ui.sending = TRUE]
           call == [Call("post", ui.active) EXCEPT !.kind = "card"]
<1>1. n \in Nat /\ Begins(E) /\ Links(Here, E) /\ Here.ui = ui /\ Here.ui.temps \in Nat
  BY ConversingFacts, TalkingShaped DEF Mine
<1>2. ui.active \in E /\ Page(Sent(t, call))
  BY <1>1 DEF handleSendProductCard, Op, Links
<1>3. Mine(t) /\ t.ui.temps = ui.temps
  <2>1. Shaped(t) /\ Links(t, E) /\ Caches(t, n, R) /\ Resembles(Here, t)
    BY ConversingFacts DEF Shaped, Links, Caches, Resembles, BlankChat
  <2> HIDE DEF t
  <2>2. QED BY <1>1, <2>1, Sets DEF Resembles
<1>4. /\ DOMAIN call = CallFields /\ call.op = "post" /\ call.conv = ui.active /\ call.temp = 0 /\ call.rest = <<>>
      /\ call.kind = "card" /\ call.st = "sent" /\ call.list = {} /\ call.then = "none"
  BY DEF Call, CallFields
<1> HIDE DEF n, R, t, call, E
<1>5. IsCall(call, t.ui.temps, n, R, E)
  <2>1. ui.active \in Convs
    BY <1>1, <1>2 DEF Begins
  <2>2. call.rest \in Seq(Bubbles) /\ DOMAIN call.rest = {}
    BY <1>4
  <2>3. t.ui.temps \in Nat /\ call.temp \in Int
    BY <1>1, <1>3, <1>4
  <2>4. -t.ui.temps <= call.temp /\ call.temp <= 0
    BY <1>4, <2>3
  <2>5. QED BY <1>2, <1>4, <2>1, <2>2, <2>3, <2>4 DEF IsCall, Placed, Kinds
<1>6. Mine(Sent(t, call))
  <2>1. ~Posted(call) /\ Below(t, call)
    BY <1>4 DEF Posted, Below
  <2>2. Talking(t, n, R, E, {})
    BY <1>3 DEF Mine, n, R, E
  <2>3. Talking(Sent(t, call), n, R, E, {})
    BY <1>5, <2>1, <2>2, SentTalks
  <2>4. QED BY <2>3 DEF Mine, n, R, E
<1>7. QED BY <1>2, <1>6, Pages

\* What is sent is shown at once, under ids that no bubble had.
LEMMA FreshTalks ==
    ASSUME NEW s, NEW n \in Nat, NEW R, NEW E, Talking(s, n, R, E, {}), s.ui.conv.id # NoConv, NEW temps \in Seq(Bubbles),
           \A i \in DOMAIN temps : temps[i].id = -(s.ui.temps + i) /\ temps[i].st = "sending" /\ (temps[i].read => screen # "panel"),
           NEW t, Shaped(t), Links(t, E), Caches(t, n, R), t.ui.temps = s.ui.temps + Len(temps), t.calls = s.calls, t.wire = s.wire,
           t.ui.conv = [s.ui.conv EXCEPT !.msgs = @ \o temps]
    PROVE  Talking(t, n, R, E, Ids(temps))
<1> DEFINE d == s.ui.conv
           ms == d.msgs
           ns == ms \o temps
           e == [d EXCEPT !.msgs = ns]
<1>1. /\ d \in Details /\ ms \in Seq(Bubbles) /\ IdsApart(ms) /\ s.ui.temps \in Nat
      /\ \A i \in DOMAIN ms : ms[i] \in Bubbles /\ ms[i].id \in Int /\ Known(ms[i], n, R) /\ -s.ui.temps <= ms[i].id
      /\ ms # <<>> /\ (screen # "panel" => ms[1].id > 0)
  BY ShownFacts
<1>2. Len(temps) \in Nat /\ t.ui.temps \in Nat /\ s.ui.temps <= t.ui.temps /\ t.ui.temps = s.ui.temps + Len(temps)
  BY <1>1
<1>3. ASSUME NEW i \in DOMAIN temps
      PROVE  /\ temps[i].id \in Int /\ temps[i].id < -s.ui.temps /\ -t.ui.temps <= temps[i].id /\ temps[i].id < 0
             /\ Known(temps[i], n, R) /\ \A j \in DOMAIN temps : temps[i].id = temps[j].id => i = j
  <2>1. i \in 1..Len(temps) /\ temps[i].id = -(s.ui.temps + i)
    BY <1>2
  <2>2. temps[i].id \in Int /\ temps[i].id < -s.ui.temps /\ -t.ui.temps <= temps[i].id /\ temps[i].id < 0
    BY <1>1, <1>2, <2>1
  <2>3. Known(temps[i], n, R)
    BY <2>2 DEF Known
  <2>4. ASSUME NEW j \in DOMAIN temps, temps[i].id = temps[j].id PROVE i = j
    <3>1. j \in 1..Len(temps) /\ temps[j].id = -(s.ui.temps + j)
      BY <1>2
    <3>2. QED BY <1>1, <1>2, <2>1, <2>4, <3>1
  <2>5. QED BY <2>2, <2>3, <2>4
<1>4. ns \in Seq(Bubbles) /\ ns # <<>>
  <2> HIDE DEF ms
  <2>1. QED BY <1>1, ConcatFacts, ConcatPlaces
<1>5. /\ \A i \in DOMAIN ns : \/ i \in DOMAIN ms /\ ns[i] = ms[i]
                              \/ \E k \in DOMAIN temps : i = Len(ms) + k /\ ns[i] = temps[k]
      /\ 1 \in DOMAIN ms /\ ns[1] = ms[1]
  <2> HIDE DEF ms
  <2>1. \A i \in DOMAIN ns : \/ i \in DOMAIN ms /\ ns[i] = ms[i]
                             \/ \E k \in DOMAIN temps : i = Len(ms) + k /\ ns[i] = temps[k]
    BY <1>1, BubblesPlaces
  <2>2. 1 \in DOMAIN ms /\ ns[1] = ms[1]
    BY <1>1, BubblesPlaces
  <2>3. QED BY <2>1, <2>2
<1>6. e \in Details /\ e.msgs = ns /\ e.id = d.id
  <2> HIDE DEF ns
  <2>1. QED BY <1>1, <1>4 DEF Details
<1>7. t.ui.conv = e
  OBVIOUS
<1> HIDE DEF ns, e
<1>8. IdsApart(ns)
  <2> SUFFICES ASSUME NEW i \in DOMAIN ns, NEW j \in DOMAIN ns, i # j, ns[i].id = ns[j].id, ns[i].id # 0 PROVE FALSE
    BY DEF IdsApart
  <2>1. CASE i \in DOMAIN ms /\ ns[i] = ms[i] /\ j \in DOMAIN ms /\ ns[j] = ms[j]
    BY <1>1, <2>1 DEF IdsApart
  <2>2. ASSUME NEW k \in DOMAIN temps, i = Len(ms) + k, ns[i] = temps[k],
               NEW l \in DOMAIN temps, j = Len(ms) + l, ns[j] = temps[l]
        PROVE  FALSE
    BY <1>3, <2>2
  <2>3. ASSUME NEW k \in DOMAIN temps, NEW l \in DOMAIN ms, temps[k].id = ms[l].id PROVE FALSE
    BY <1>1, <1>3, <2>3
  <2>4. QED BY <1>5, <2>1, <2>2, <2>3
<1>9. Shows(e, t.ui.temps, n, R)
  <2>1. \A i \in DOMAIN ns : Known(ns[i], n, R) /\ -t.ui.temps <= ns[i].id
    <3>0. -t.ui.temps <= -s.ui.temps /\ -t.ui.temps \in Int /\ -s.ui.temps \in Int
      BY <1>1, <1>2
    <3>1. \A i \in DOMAIN ms : -t.ui.temps <= ms[i].id
      <4> HIDE DEF ms
      <4>1. QED BY <1>1, <3>0
    <3>2. QED BY <1>1, <1>3, <1>5, <3>1
  <2>2. QED BY <1>1, <1>4, <1>5, <1>6, <1>8, <2>1 DEF Shows
<1>10. ASSUME NEW x \in Ids(ns) PROVE x \in Ids(ms) \/ (x \in Int /\ x < 0 /\ x < -s.ui.temps)
  <2>1. PICK i \in DOMAIN ns : x = ns[i].id
    BY DEF Ids
  <2>2. QED BY <1>3, <1>5, <2>1 DEF Ids
<1>11. \A i \in DOMAIN s.calls : IsCall(s.calls[i], s.ui.temps, n, R, E)
  BY DEF Talking
<1>12. News(e, s.calls, s.wire.down)
  <2>1. News(d, s.calls, s.wire.down)
    BY DEF Talking
  <2>2. ASSUME NEW i \in DOMAIN s.calls, Posted(s.calls[i]) PROVE Brings(s.calls[i], e, s.calls, s.wire.down)
    <3>1. Brings(s.calls[i], d, s.calls, s.wire.down)
      BY <2>1, <2>2 DEF News
    <3>2. s.calls[i].temp \in Int /\ -s.ui.temps <= s.calls[i].temp
      BY <1>11, <2>2 DEF IsCall, Posted
    <3>3. Real(s.calls[i]) \in Int /\ Real(s.calls[i]) > 0
      <4>1. PICK k \in 1..n : s.calls[i].got.msgs = <<Bubble(k, Me, s.calls[i].kind)>>
        BY <1>11, <2>2 DEF IsCall, Posted
      <4>2. QED BY <4>1 DEF Real, Bubble
    <3>4. s.calls[i].temp \in Ids(ns) => s.calls[i].temp \in Ids(ms)
      BY <1>1, <1>10, <3>2
    <3>5. Real(s.calls[i]) \in Ids(ns) => Real(s.calls[i]) \in Ids(ms)
      BY <1>10, <3>3
    <3>6. QED BY <1>5, <1>6, <3>1, <3>4, <3>5 DEF Brings
  <2>3. QED BY <2>1, <2>2 DEF News
<1>13. Going(e, s.calls, Ids(temps))
  <2>1. Going(d, s.calls, {})
    BY DEF Talking
  <2>2. SUFFICES ASSUME NEW i \in DOMAIN ns, ns[i].st = "sending"
                 PROVE  ns[i].id \in Ids(temps) \/ \E j \in DOMAIN s.calls : ns[i].id \in Carried(s.calls[j])
    BY <1>6 DEF Going, ToSet
  <2>3. CASE i \in DOMAIN ms /\ ns[i] = ms[i]
    <3>1. ms[i] \in ToSet(ms)
      BY <2>3 DEF ToSet
    <3>2. QED BY <2>1, <2>2, <2>3, <3>1 DEF Going
  <2>4. CASE \E k \in DOMAIN temps : ns[i] = temps[k]
    BY <2>4 DEF Ids
  <2>5. QED BY <1>5, <2>3, <2>4
<1>14. \A i \in DOMAIN s.calls : IsCall(s.calls[i], t.ui.temps, n, R, E)
  BY <1>1, <1>2, <1>11, CallsGrow
<1>15. QED BY <1>2, <1>7, <1>9, <1>12, <1>13, <1>14 DEF Talking, Shaped, Links, Caches

LEMMA SendStep ==
    ASSUME Conversing, handleSend
    PROVE  Conversing'
<1> DEFINE n == NextId - 1
           E == Begun(chat)
           R == ReadOnes(chat)
           temps(typed) == [i \in DOMAIN Pending(typed) |-> [Bubble(-(ui.temps + i), Me, Pending(typed)[i])
                             EXCEPT !.st = "sending", !.read = screen # "panel"]]
           sent(typed) == [Here EXCEPT !.ui.file = FALSE, !.ui.error = FALSE, !.ui.sending = TRUE,
                             !.ui.temps = @ + Len(temps(typed)), !.ui.conv.msgs = @ \o temps(typed)]
<1>1. /\ n \in Nat /\ Begins(E) /\ Talking(Here, n, R, E, {}) /\ Shaped(Here) /\ Links(Here, E) /\ Caches(Here, n, R)
      /\ Here.ui = ui /\ Here.calls = calls /\ Here.wire = wire /\ ui.temps \in Nat
  <2>1. n \in Nat /\ Begins(E) /\ Talking(Here, n, R, E, {}) /\ Here.ui = ui /\ Here.calls = calls /\ Here.wire = wire
    BY ConversingFacts DEF Mine
  <2>2. QED BY <2>1, TalkingShaped
<1>2. PICK typed \in {TRUE, ~ui.file} : Page(Post(sent(typed), ui.active, temps(typed)))
  BY DEF handleSend, Op
<1>3. ui.active \in E /\ ui.conv.id # NoConv
  BY <1>1 DEF handleSend, InputOffers, Reading, Links
<1> DEFINE ts == temps(typed)
           t == sent(typed)
<1>4. Pending(typed) \in Seq(Kinds) /\ Pending(typed) # <<>>
  <2> DEFINE a == IF typed THEN <<"text">> ELSE <<>>
             b == IF ui.file THEN <<"image">> ELSE <<>>
  <2>1. a \in Seq(Kinds) /\ b \in Seq(Kinds)
    <3>1. "text" \in Kinds /\ "image" \in Kinds
      BY DEF Kinds
    <3>2. <<>> \in Seq(Kinds) /\ <<"text">> \in Seq(Kinds) /\ <<"image">> \in Seq(Kinds)
      BY <3>1
    <3>3. QED BY <3>2
  <2>2. <<"text">> # <<>> /\ <<"image">> # <<>>
    OBVIOUS
  <2>3. a # <<>> \/ b # <<>>
    BY <1>2, <2>2
  <2>4. Pending(typed) = a \o b
    BY DEF Pending
  <2> HIDE DEF a, b
  <2>5. a \o b \in Seq(Kinds)
    BY <2>1, ConcatFacts
  <2>6. a \o b # <<>>
    <3>1. a = <<>> => a \o b = b
      BY <2>1, ConcatPlaces
    <3>2. a # <<>> => 1 \in DOMAIN (a \o b)
      BY <2>1, <2>5
    <3>3. QED BY <2>3, <3>1, <3>2
  <2>7. QED BY <2>4, <2>5, <2>6
<1>5. /\ ts \in Seq(Bubbles) /\ ts # <<>>
      /\ \A i \in DOMAIN ts : ts[i].id = -(ui.temps + i) /\ ts[i].st = "sending" /\ (ts[i].read => screen # "panel")
  <2> DEFINE q == Pending(typed)
  <2>1. q \in Seq(Kinds) /\ q # <<>>
    BY <1>4
  <2>2. ts = [i \in 1..Len(q) |-> [Bubble(-(ui.temps + i), Me, q[i]) EXCEPT !.st = "sending", !.read = screen # "panel"]]
    <3>1. DOMAIN q = 1..Len(q)
      BY <2>1
    <3>2. QED BY <3>1
  <2>3. Me \in Parties
    BY DEF Me, Parties
  <2> HIDE DEF q, ts
  <2>4. \A i \in 1..Len(q) : ts[i] \in Bubbles /\ ts[i].id = -(ui.temps + i) /\ ts[i].st = "sending" /\ (ts[i].read => screen # "panel")
    <3> SUFFICES ASSUME NEW i \in 1..Len(q)
                 PROVE  ts[i] \in Bubbles /\ ts[i].id = -(ui.temps + i) /\ ts[i].st = "sending" /\ (ts[i].read => screen # "panel")
      OBVIOUS
    <3>1. ts[i] = [Bubble(-(ui.temps + i), Me, q[i]) EXCEPT !.st = "sending", !.read = screen # "panel"]
      BY <2>2
    <3>2. q[i] \in Kinds /\ -(ui.temps + i) \in Int
      BY <1>1, <2>1
    <3> DEFINE b == Bubble(-(ui.temps + i), Me, q[i])
    <3>3. b \in Bubbles /\ b.id = -(ui.temps + i)
      BY <2>3, <3>2 DEF Bubble, Bubbles, Marks
    <3> HIDE DEF b
    <3>4. LET a == [b EXCEPT !.st = "sending", !.read = screen # "panel"]
          IN  a \in Bubbles /\ a.id = b.id /\ a.st = "sending" /\ (a.read => screen # "panel")
      BY <3>3 DEF Bubbles, Marks
    <3>5. QED BY <3>1, <3>3, <3>4 DEF b
  <2>5. DOMAIN ts = 1..Len(q) /\ Len(q) \in Nat /\ Len(q) # 0
    <3>1. DOMAIN ts = 1..Len(q)
      BY <2>2
    <3>2. Len(q) \in Nat /\ Len(q) # 0
      BY <2>1
    <3>3. QED BY <3>1, <3>2
  <2>6. ts \in Seq(Bubbles) /\ ts # <<>>
    <3>1. ts = [i \in 1..Len(q) |-> ts[i]]
      BY <2>2
    <3>2. QED BY <2>4, <2>5, <3>1
  <2>7. QED BY <2>4, <2>5, <2>6
<1> HIDE DEF temps, ts, n, E, R
<1>6. /\ Shaped(t) /\ Links(t, E) /\ Caches(t, n, R) /\ t.ui.temps = ui.temps + Len(ts) /\ t.calls = calls /\ t.wire = wire
      /\ t.ui.conv = [ui.conv EXCEPT !.msgs = @ \o ts]
  BY <1>1 DEF Shaped, Links, Caches, BlankChat, ts
<1> HIDE DEF sent, t
<1>7. Talking(t, n, R, E, Ids(ts))
  BY <1>1, <1>3, <1>5, <1>6, FreshTalks
<1>8. Talking(Post(t, ui.active, ts), n, R, E, {})
  <2>1. \A i \in DOMAIN ts : -t.ui.temps <= ts[i].id /\ ts[i].id < 0
    <3> SUFFICES ASSUME NEW i \in DOMAIN ts PROVE -t.ui.temps <= ts[i].id /\ ts[i].id < 0
      OBVIOUS
    <3>1. i \in 1..Len(ts) /\ Len(ts) \in Nat /\ ts[i].id = -(ui.temps + i) /\ t.ui.temps = ui.temps + Len(ts)
      BY <1>5, <1>6
    <3>2. QED BY <1>1, <3>1
  <2>2. QED BY <1>1, <1>3, <1>5, <1>7, <2>1, PostTalks
<1>9. Page(Post(t, ui.active, ts))
  BY <1>2 DEF t, ts
<1>10. QED BY <1>8, <1>9, Pages DEF Mine, n, E, R

LEMMA DeliverStep ==
    ASSUME Conversing, NEW i \in DOMAIN calls, Deliver(i)
    PROVE  Conversing'
<1> DEFINE n == NextId - 1
           E == Begun(chat)
           R == ReadOnes(chat)
<1>1. n \in Nat /\ Begins(E) /\ Talking(Here, n, R, E, {})
  BY ConversingFacts DEF Mine
<1> HIDE DEF n, E, R
<1>2. Talking(Received(i), n, R, E, Carried(calls[i])) /\ Outstanding(Received(i), calls[i], n, R, E)
  BY <1>1, ReceivedTalks
<1>3. Talking(Reply(Received(i), calls[i]), n, R, E, {}) /\ Page(Reply(Received(i), calls[i]))
  BY <1>1, <1>2, ReplyTalks DEF Deliver, Do
<1>4. QED BY <1>3, Pages DEF Mine, n, E, R

LEMMA WaitingSteps ==
    ASSUME Conversing, Expire \/ WireRetries
    PROVE  Conversing'
<1> DEFINE E == Begun(chat)
           Like(t) == Shaped(t) /\ Links(t, E) /\ Caches(t, NextId - 1, ReadOnes(chat)) /\ Resembles(Here, t)
           w == connect(wire)
<1>1. Shaped(Here) /\ Links(Here, E) /\ Caches(Here, NextId - 1, ReadOnes(chat)) /\ Here.wire = wire
  BY ConversingFacts
<1>2. Answers(NoDetail, NextId - 1, ReadOnes(chat))
  BY ConversingFacts, NothingAnswers DEF NoDetail
<1> HIDE DEF E
<1>3. \A c \in Convs : Like([Here EXCEPT !.cache.detail[c] = NoDetail])
  BY <1>1, <1>2 DEF Shaped, Links, Caches, Resembles
<1>4. Like([Here EXCEPT !.cache.list = {}])
  BY <1>1 DEF Shaped, Links, Caches, Resembles
<1>5. Like([Here EXCEPT !.wire = connect(@)])
  <2>1. DOMAIN w = DOMAIN NoWire /\ w.down = <<>>
    BY <1>1 DEF Shaped, NoWire, connect
  <2>2. [Here EXCEPT !.wire = connect(@)] = [Here EXCEPT !.wire = w]
    BY <1>1
  <2> HIDE DEF w
  <2>3. Like([Here EXCEPT !.wire = w])
    BY <1>1, <2>1 DEF Shaped, Links, Caches, Resembles
  <2>4. QED BY <2>2, <2>3
<1>6. \A t : Like(t) => Mine(t)
  BY Sets DEF E
<1> HIDE DEF Like
<1>7. \E t : Like(t) /\ Page(t)
  BY <1>3, <1>4, <1>5 DEF Expire, WireRetries, Do
<1>8. QED BY <1>6, <1>7, Pages

-----------------------------------------------------------------------------
(***************************************************************************)
(* Frames.                                                                 *)
(***************************************************************************)
LEMMA MergedFits ==
    ASSUME NEW s, NEW n \in Nat, NEW R, NEW E, Talking(s, n, R, E, {}), s.ui.conv.id # NoConv,
           NEW real \in Bubbles, real.id >= 0, real.id <= n, real.id = 0 => screen = "panel", real.st = "none", ~real.read,
           \A i \in DOMAIN s.calls : Posted(s.calls[i]) => Real(s.calls[i]) # real.id
    PROVE  Fits(s, merged(s.ui.conv, real), n, R, {})
<1> DEFINE d == s.ui.conv
           ms == d.msgs
           byId == Leftmost(PlacesOf(ms, real.id))
           temp == IF real.by = Me THEN Leftmost(MinePlaces(ms)) ELSE 0
           at == IF byId # 0 THEN byId ELSE temp
           shown == IF real.by = Me THEN [real EXCEPT !.st = "sent"] ELSE real
           place == IF at = 0 THEN Len(ms) + 1 ELSE at
<1>1. d \in Details /\ ms \in Seq(Bubbles) /\ \A i \in DOMAIN ms : ms[i].id \in Int
  BY ShownFacts
<1>2. /\ byId \in 0..Len(ms) /\ (byId # 0 => ms[byId].id = real.id) /\ (byId = 0 => real.id \notin Ids(ms))
      /\ temp \in 0..Len(ms) /\ (temp # 0 => ms[temp].id < 0)
  <2>1. ms \in Seq(Bubbles)
    BY <1>1
  <2> HIDE DEF ms
  <2>2. Len(ms) \in Nat
    BY <2>1
  <2>3. LET x == Leftmost(PlacesOf(ms, real.id)) IN x \in 0..Len(ms) /\ (x # 0 => ms[x].id = real.id) /\ (x = 0 => real.id \notin Ids(ms))
    BY <2>1, IndexFacts
  <2>4. LET x == Leftmost(MinePlaces(ms)) IN x \in 0..Len(ms) /\ (x # 0 => ms[x].id < 0)
    BY <2>1, IndexFacts
  <2>5. QED BY <2>2, <2>3, <2>4
<1>3. shown \in Bubbles /\ shown.id = real.id /\ Known(shown, n, R) /\ real.id \in Int
  BY DEF Bubbles, Marks, Known
<1>4. merged(d, real) = IF at = 0 THEN [d EXCEPT !.msgs = Append(@, shown)] ELSE [d EXCEPT !.msgs[at] = shown]
  <2> DEFINE hits == {i \in DOMAIN ms : ms[i].id = real.id}
             mine == {i \in DOMAIN ms : ms[i].id < 0 /\ ms[i].by = Me}
  <2>1. byId = IF hits = {} THEN 0 ELSE CHOOSE i \in hits : \A j \in hits : i <= j
    BY DEF Leftmost, PlacesOf
  <2>2. Leftmost(MinePlaces(ms)) = IF mine = {} THEN 0 ELSE CHOOSE i \in mine : \A j \in mine : i <= j
    BY DEF Leftmost, MinePlaces
  <2>3. QED BY <2>1, <2>2 DEF merged, IndexOf
<1> HIDE DEF byId, temp, shown
<1>5. merged(d, real) = [d EXCEPT !.msgs = Puts(ms, place, shown)]
  <2>1. at # 0 => at # Len(ms) + 1
    <3> HIDE DEF ms
    <3>1. QED BY <1>1, <1>2
  <2> HIDE DEF at
  <2>2. QED BY <1>4, <2>1 DEF Puts
<1>6. /\ place \in 1..(Len(ms) + 1)
      /\ place \in DOMAIN ms => ms[place].id = real.id \/ ms[place].id < 0
      /\ real.id \notin Ids(ms) \/ (place \in DOMAIN ms /\ ms[place].id = real.id)
  <2> HIDE DEF ms
  <2>1. Len(ms) \in Nat /\ DOMAIN ms = 1..Len(ms) /\ Len(ms) + 1 \notin DOMAIN ms
    BY <1>1
  <2>2. CASE at = 0
    BY <1>2, <2>1, <2>2
  <2>3. CASE at # 0
    <3>1. at \in 1..Len(ms) /\ place = at /\ at \in DOMAIN ms
      BY <1>2, <2>1, <2>3
    <3>2. QED BY <1>2, <2>1, <2>3, <3>1
  <2>4. QED BY <2>2, <2>3
<1> HIDE DEF place, at
<1>7. Fits(s, [d EXCEPT !.msgs = Puts(ms, place, shown)], n, R, {})
  <2>1. shown.id >= 0 /\ (shown.id = 0 \/ shown.id \notin Ids(ms) \/ (place \in DOMAIN ms /\ ms[place].id = shown.id))
    BY <1>3, <1>6
  <2>2. place \in DOMAIN ms => ms[place].id = shown.id \/ ms[place].id < 0
    BY <1>3, <1>6
  <2>3. \A i \in DOMAIN s.calls : Posted(s.calls[i]) => Real(s.calls[i]) # shown.id
    BY <1>3
  <2> DEFINE X == {}
             p == place
             b == shown
  <2>4. /\ p \in 1..(Len(s.ui.conv.msgs) + 1) /\ b \in Bubbles /\ Known(b, n, R) /\ b.id >= 0
        /\ b.id = 0 \/ b.id \notin Ids(s.ui.conv.msgs) \/ (p \in DOMAIN s.ui.conv.msgs /\ s.ui.conv.msgs[p].id = b.id)
        /\ p \in DOMAIN s.ui.conv.msgs => s.ui.conv.msgs[p].id = b.id \/ s.ui.conv.msgs[p].id < 0
        /\ \A i \in DOMAIN s.calls : Posted(s.calls[i]) => Real(s.calls[i]) # b.id
    BY <1>3, <1>6, <2>1, <2>2, <2>3
  <2>5. Talking(s, n, R, E, X) /\ \A i : s.ui.conv.msgs[i].id \notin X
    OBVIOUS
  <2> HIDE DEF X, p, b
  <2>6. Fits(s, [s.ui.conv EXCEPT !.msgs = Puts(s.ui.conv.msgs, p, b)], n, R, X)
    BY <2>4, <2>5, PutFits
  <2>7. QED BY <2>6 DEF X, p, b
<1>8. QED BY <1>5, <1>7

Seen(b) == [b EXCEPT !.st = "read", !.read = TRUE]
LEMMA ReceiptFits ==
    ASSUME NEW s, NEW n \in Nat, NEW R, NEW E, NEW X, Talking(s, n, R, E, X), NEW k \in R, k \in Nat \ {0},
           NEW ns, DOMAIN ns = DOMAIN s.ui.conv.msgs, ns = [i \in DOMAIN ns |-> ns[i]],
           \A i \in DOMAIN ns : ns[i] = IF s.ui.conv.msgs[i].id = k THEN Seen(s.ui.conv.msgs[i]) ELSE s.ui.conv.msgs[i]
    PROVE  Fits(s, [s.ui.conv EXCEPT !.msgs = ns], n, R, X)
<1> DEFINE ms == s.ui.conv.msgs
<1>1. ms \in Seq(Bubbles) /\ \A i \in DOMAIN ms : ms[i] \in Bubbles /\ Known(ms[i], n, R) /\ ms[i].id \in Int
  BY ShownFacts
<1>2. \A b \in Bubbles : Seen(b) \in Bubbles /\ Seen(b).id = b.id /\ Seen(b).st = "read"
  BY DEF Seen, Bubbles, Marks
<1>3. \A i \in DOMAIN ms : ns[i] = IF ms[i].id = k THEN Seen(ms[i]) ELSE ms[i]
  OBVIOUS
<1>4. DOMAIN ns = DOMAIN ms /\ ns = [i \in DOMAIN ns |-> ns[i]]
  OBVIOUS
<1> HIDE DEF ms
<1>5. ASSUME NEW i \in DOMAIN ms
      PROVE  ns[i] \in Bubbles /\ ns[i].id = ms[i].id /\ Known(ns[i], n, R) /\ (ns[i].st = "sending" => ms[i].st = "sending")
  <2>0. ms[i] \in Bubbles /\ Known(ms[i], n, R) /\ ms[i].id \in Int
    BY <1>1
  <2>1. CASE ms[i].id = k
    <3>1. ns[i] \in Bubbles /\ ns[i].id = ms[i].id /\ ns[i].st = "read"
      BY <1>2, <1>3, <2>0, <2>1
    <3>2. k <= n
      BY <2>0, <2>1 DEF Known
    <3>3. ns[i].id = k
      BY <2>1, <3>1
    <3>4. Known(ns[i], n, R)
      BY <3>1, <3>2, <3>3 DEF Known
    <3>5. QED BY <3>1, <3>4
  <2>2. CASE ms[i].id # k
    BY <1>1, <1>3, <2>2
  <2>3. QED BY <2>1, <2>2
<1>6. ns \in Seq(Bubbles)
  <2>1. DOMAIN ms = 1..Len(ms) /\ Len(ms) \in Nat
    BY <1>1
  <2>2. DOMAIN ns = 1..Len(ms) /\ \A i \in 1..Len(ms) : ns[i] \in Bubbles
    BY <1>4, <1>5, <2>1
  <2>3. ns \in [1..Len(ms) -> Bubbles]
    BY <1>4, <2>2
  <2>4. QED BY <2>1, <2>3
<1>7. QED BY <1>4, <1>5, <1>6, RemarkFits DEF ms

\* A frame that has come, and what is under way beside it.
LEMMA FrameTaken ==
    ASSUME NEW s, NEW n \in Nat, NEW R, NEW E, Talking(s, n, R, E, {}), s.wire.down # <<>>,
           NEW t, Shaped(t), Links(t, E), Caches(t, n, R), t.ui = s.ui, t.calls = s.calls, t.wire.down = Tail(s.wire.down)
    PROVE  LET f == Head(s.wire.down)
           IN  /\ Talking(t, n, R, E, {}) /\ IsFrame(f, n, R)
               /\ f.type = "message" => \A i \in DOMAIN t.calls : Posted(t.calls[i]) => Real(t.calls[i]) # f.id
<1> DEFINE down == s.wire.down
           f == Head(down)
           rest == Tail(down)
<1>1. down \in Seq(Frames) /\ (\A k \in DOMAIN down : IsFrame(down[k], n, R)) /\ News(s.ui.conv, s.calls, down)
  BY DEF Talking
<1>2. /\ 1 \in DOMAIN down /\ f = down[1] /\ rest \in Seq(Frames)
      /\ \A k \in DOMAIN rest : k + 1 \in DOMAIN down /\ rest[k] = down[k + 1]
  <2>1. down \in Seq(Frames) /\ down # <<>>
    BY <1>1
  <2> HIDE DEF down
  <2>2. QED BY <2>1
<1> HIDE DEF f, rest, down
<1>3. ASSUME NEW c, Brings(c, s.ui.conv, s.calls, down)
      PROVE  Brings(c, s.ui.conv, s.calls, rest) /\ (f.type = "message" => f.id # Real(c))
  BY <1>2, <1>3 DEF Brings
<1>4. News(t.ui.conv, t.calls, rest)
  BY <1>1, <1>3 DEF News
<1>5. Talking(t, n, R, E, {})
  <2>1. \A k \in DOMAIN rest : IsFrame(rest[k], n, R)
    BY <1>1, <1>2
  <2>2. t.wire.down = rest
    BY DEF rest, down
  <2>3. QED BY <1>2, <1>4, <2>1, <2>2 DEF Talking, Shaped, Links, Caches
<1>6. IsFrame(f, n, R)
  BY <1>1, <1>2
<1>7. f.type = "message" => \A i \in DOMAIN t.calls : Posted(t.calls[i]) => Real(t.calls[i]) # f.id
  BY <1>1, <1>3 DEF News
<1>8. QED BY <1>5, <1>6, <1>7 DEF f, down

LEMMA FrameFits ==
    ASSUME NEW s, NEW n \in Nat, NEW R, NEW E, Talking(s, n, R, E, {}), NEW f, IsFrame(f, n, R),
           f.type = "message" => \A i \in DOMAIN s.calls : Posted(s.calls[i]) => Real(s.calls[i]) # f.id
    PROVE  Fits(s, IF screen = "panel" THEN panelMerge(s.ui.conv, f) ELSE mergeWsMessage(s.ui.conv, f), n, R, {})
<1> DEFINE d == s.ui.conv
<1>1. Fits(s, d, n, R, {})
  BY DEF Talking, Fits
<1>2. f \in Frames /\ f.id \in Nat \ {0} /\ f.by \in Parties /\ (f.type = "message" => f.id <= n) /\ (f.type = "read_receipt" => f.id \in R)
  BY DEF IsFrame, Frames
<1>3. ASSUME NEW id \in Nat, NEW by \in Parties
      PROVE  Bubble(id, by, "text") \in Bubbles /\ Bubble(id, by, "text").id = id /\ Bubble(id, by, "text").st = "none" /\ ~Bubble(id, by, "text").read
  BY DEF Bubble, Bubbles, Kinds, Marks
<1>4. \A i \in DOMAIN s.calls : Posted(s.calls[i]) => Real(s.calls[i]) # 0
  <2> SUFFICES ASSUME NEW i \in DOMAIN s.calls, Posted(s.calls[i]) PROVE Real(s.calls[i]) # 0
    OBVIOUS
  <2>1. IsCall(s.calls[i], s.ui.temps, n, R, E)
    BY DEF Talking
  <2>2. PICK k \in 1..n : s.calls[i].got.msgs = <<Bubble(k, Me, s.calls[i].kind)>>
    BY <2>1 DEF IsCall, Posted
  <2>3. QED BY <2>2 DEF Real, Bubble
<1>5. CASE screen = "panel" /\ d.id # NoConv
  <2> DEFINE by == IF f.type = "message" THEN f.by ELSE "user"
             b == Bubble(0, by, "text")
  <2>1. panelMerge(d, f) = merged(d, b)
    BY <1>5 DEF panelMerge
  <2>2. by \in Parties
    BY <1>2 DEF Parties
  <2> HIDE DEF by
  <2>3. b \in Bubbles /\ b.id = 0 /\ b.st = "none" /\ ~b.read
    BY <1>3, <2>2
  <2> HIDE DEF b
  <2>4. Fits(s, merged(d, b), n, R, {})
    <3>1. b.id >= 0 /\ b.id <= n /\ (b.id = 0 => screen = "panel")
      BY <1>5, <2>3
    <3>2. \A i \in DOMAIN s.calls : Posted(s.calls[i]) => Real(s.calls[i]) # b.id
      BY <1>4, <2>3
    <3>3. QED BY <1>5, <2>3, <3>1, <3>2, MergedFits
  <2>5. QED BY <1>5, <2>1, <2>4
<1>6. CASE screen # "panel" /\ d.id # NoConv /\ f.type = "message"
  <2> DEFINE b == Bubble(f.id, f.by, "text")
  <2>1. mergeWsMessage(d, f) = merged(d, b)
    BY <1>6 DEF mergeWsMessage
  <2>2. b \in Bubbles /\ b.id = f.id /\ b.st = "none" /\ ~b.read
    BY <1>2, <1>3
  <2> HIDE DEF b
  <2>3. Fits(s, merged(d, b), n, R, {})
    BY <1>2, <1>6, <2>2, MergedFits
  <2>4. QED BY <1>6, <2>1, <2>3
<1>7. CASE screen # "panel" /\ d.id # NoConv /\ f.type = "read_receipt"
  <2> DEFINE ns == [i \in DOMAIN d.msgs |-> IF d.msgs[i].id = f.id THEN [d.msgs[i] EXCEPT !.st = "read", !.read = TRUE] ELSE d.msgs[i]]
  <2>1. mergeWsMessage(d, f) = [d EXCEPT !.msgs = ns]
    BY <1>7 DEF mergeWsMessage
  <2>2. /\ DOMAIN ns = DOMAIN d.msgs /\ ns = [i \in DOMAIN ns |-> ns[i]]
        /\ \A i \in DOMAIN ns : ns[i] = IF d.msgs[i].id = f.id THEN Seen(d.msgs[i]) ELSE d.msgs[i]
    BY DEF Seen
  <2> HIDE DEF ns
  <2>3. Fits(s, [s.ui.conv EXCEPT !.msgs = ns], n, R, {})
    BY <1>2, <1>7, <2>2, ReceiptFits
  <2>4. QED BY <1>7, <2>1, <2>3
<1>8. CASE d.id = NoConv
  BY <1>1, <1>8 DEF panelMerge, mergeWsMessage
<1>9. f.type \in {"message", "read_receipt"}
  BY <1>2 DEF Frames
<1>10. QED BY <1>5, <1>6, <1>7, <1>8, <1>9

LEMMA FrameStep ==
    ASSUME Conversing, FrameArrives
    PROVE  Conversing'
<1> DEFINE n == NextId - 1
           E == Begun(chat)
           R == ReadOnes(chat)
           f == Head(wire.down)
           s == [Here EXCEPT !.wire.down = Tail(@)]
           a == IF f.type # "message" \/ f.by = Me \/ screen = "panel" THEN s
                ELSE IF Me = "admin" THEN [s EXCEPT !.acks = @ \cup {f.id}] ELSE sendAck(s, {f.id})
           d == IF screen = "panel" THEN panelMerge(s.ui.conv, f) ELSE mergeWsMessage(s.ui.conv, f)
<1>1. /\ n \in Nat /\ Talking(Here, n, R, E, {}) /\ Shaped(Here) /\ Links(Here, E) /\ Caches(Here, n, R)
      /\ Here.ui = ui /\ Here.calls = calls /\ Here.wire = wire
  BY ConversingFacts DEF Mine
<1>2. wire.down # <<>> /\ Page(Show(a, d))
  BY DEF FrameArrives, Do, onmessage
<1>3. Shaped(s) /\ Links(s, E) /\ Caches(s, n, R) /\ s.ui = ui /\ s.calls = calls /\ s.wire.down = Tail(wire.down)
  BY <1>1 DEF Shaped, Links, Caches, NoWire
<1> HIDE DEF n, E, R, s
<1>4. /\ Talking(s, n, R, E, {}) /\ IsFrame(f, n, R)
      /\ f.type = "message" => \A i \in DOMAIN s.calls : Posted(s.calls[i]) => Real(s.calls[i]) # f.id
  BY <1>1, <1>2, <1>3, FrameTaken
<1> HIDE DEF f
<1>5. Fits(s, d, n, R, {})
  BY <1>1, <1>4, FrameFits
<1>6. /\ Shaped(a) /\ a.ui = s.ui /\ a.wire = s.wire /\ a.calls = s.calls /\ a.cache = s.cache
  BY <1>3 DEF Shaped, sendAck
<1> HIDE DEF a, d
<1>7. Talking(a, n, R, E, {})
  <2>1. Links(a, E) /\ Caches(a, n, R) /\ Resembles(s, a)
    BY <1>3, <1>6 DEF Links, Caches, Resembles
  <2>2. QED BY <1>4, <1>6, <2>1, Aside
<1>8. Talking(Show(a, d), n, R, E, {})
  BY <1>5, <1>6, <1>7, ShowTalks DEF Fits
<1>9. QED BY <1>2, <1>8, Pages DEF Mine, n, E, R

-----------------------------------------------------------------------------
(***************************************************************************)
(* The server: a message is numbered, a conversation is told.              *)
(***************************************************************************)
LEMMA SaidFacts ==
    ASSUME NEW ch, Conversations(ch), NEW n \in Nat, Numbered(ch, n), NEW c \in Convs, NEW m \in Messages, m.id = n + 1,
           NEW dh, dh = [x \in Convs |-> dh[x]], \A x \in Convs : x # c => dh[x] = ch[x],
           dh[c] \in Conversation, dh[c].msgs = Append(ch[c].msgs, m), dh[c].read = ch[c].read
    PROVE  Conversations(dh) /\ Numbered(dh, n + 1) /\ ReadOnes(dh) = ReadOnes(ch) /\ Begun(dh) = Begun(ch) \cup {c}
<1>1. dh \in [Convs -> Conversation]
  <2>1. \A x \in Convs : dh[x] \in Conversation
    BY DEF Conversations, Conversation
  <2>2. QED BY <2>1
<1>2. /\ ch[c].msgs \in Seq(Messages) /\ IdsApart(ch[c].msgs)
      /\ \A i \in DOMAIN ch[c].msgs : ch[c].msgs[i].id \in Nat /\ ch[c].msgs[i].id <= n
  <2>1. ch[c].msgs \in Seq(Messages) /\ IdsApart(ch[c].msgs)
    BY DEF Conversations, Conversation
  <2>2. \A i \in DOMAIN ch[c].msgs : ch[c].msgs[i].id \in Given(ch)
    BY DEF Given, Ids
  <2>3. QED BY <2>1, <2>2, Numbering DEF Numbered
<1> DEFINE ms == ch[c].msgs
           ns == dh[c].msgs
<1>3. /\ ns # <<>> /\ ns \in Seq(Messages) /\ (\A i : i \in DOMAIN ns <=> i \in DOMAIN ms \/ i = Len(ms) + 1)
      /\ ns[Len(ms) + 1] = m /\ (\A i \in DOMAIN ms : ns[i] = ms[i]) /\ Len(ms) + 1 \notin DOMAIN ms
  <2>1. ms \in Seq(Messages) /\ ns = Append(ms, m)
    BY <1>2
  <2> HIDE DEF ms, ns
  <2>2. QED BY <2>1
<1> HIDE DEF ms, ns
<1>4. IdsApart(ns)
  <2> SUFFICES ASSUME NEW i \in DOMAIN ns, NEW j \in DOMAIN ns, i # j, ns[i].id = ns[j].id PROVE FALSE
    BY DEF IdsApart
  <2>1. CASE i \in DOMAIN ms /\ j \in DOMAIN ms
    <3>1. ms[i].id = ms[j].id /\ ms[i].id # 0
      <4>1. ms \in Seq(Messages)
        BY <1>2 DEF ms
      <4>2. ms[i] \in Messages
        BY <2>1, <4>1
      <4>3. QED BY <1>3, <2>1, <4>2 DEF Messages
    <3>2. QED BY <1>2, <2>1, <3>1 DEF IdsApart, ms
  <2>2. \A k \in DOMAIN ms : ns[k].id # n + 1
    BY <1>2, <1>3 DEF ms
  <2>3. QED BY <1>3, <2>1, <2>2
<1>5. Ids(ns) = Ids(ms) \cup {n + 1}
  BY <1>3 DEF Ids
<1>6. \A x \in Convs : IdsApart(dh[x].msgs)
  BY <1>4 DEF Conversations, ns
<1>7. Given(dh) = Given(ch) \cup {n + 1}
  <2>1. Given(dh) \subseteq Given(ch) \cup {n + 1}
    <3> SUFFICES ASSUME NEW x \in Convs, NEW k \in Ids(dh[x].msgs) PROVE k \in Given(ch) \cup {n + 1}
      BY DEF Given
    <3>1. QED BY <1>5 DEF Given, ms, ns
  <2>2. Given(ch) \subseteq Given(dh)
    <3> SUFFICES ASSUME NEW x \in Convs, NEW k \in Ids(ch[x].msgs) PROVE k \in Given(dh)
      BY DEF Given
    <3>1. k \in Ids(dh[x].msgs)
      BY <1>5 DEF ms, ns
    <3>2. QED BY <3>1 DEF Given
  <2>3. n + 1 \in Given(dh)
    BY <1>5 DEF Given, ns
  <2>4. QED BY <2>1, <2>2, <2>3
<1>8. Numbered(dh, n + 1)
  <2>1. \A k \in Given(ch) : k \in Nat /\ k <= n
    BY Numbering DEF Numbered
  <2>2. QED BY <1>7, <2>1 DEF Numbered
<1>9. ReadOnes(dh) = ReadOnes(ch)
  <2>1. \A x \in Convs : dh[x].read = ch[x].read
    OBVIOUS
  <2>2. QED BY <2>1 DEF ReadOnes
<1>10. Begun(dh) = Begun(ch) \cup {c}
  <2>1. \A x \in Convs : dh[x].msgs # <<>> <=> (ch[x].msgs # <<>> \/ x = c)
    BY <1>3 DEF ns
  <2>2. QED BY <2>1 DEF Begun
<1>11. Me = "admin" => Begun(dh) = Convs
  BY <1>10 DEF Conversations, Conversation
<1>12. QED BY <1>1, <1>6, <1>8, <1>9, <1>10, <1>11 DEF Conversations, Conversation

LEMMA LastFacts ==
    ASSUME NEW ms \in Seq(Messages), NEW ls, ls = LastOf(ms)
    PROVE  /\ ls \in Seq(Messages) /\ ToSet(ls) \subseteq ToSet(ms) /\ (ms # <<>> => ls # <<>>)
           /\ IdsApart(ms) => IdsApart(ls)
<1> DEFINE a == IF Len(ms) > Window THEN Len(ms) - Window + 1 ELSE 1
<1>1. /\ Len(ms) \in Nat /\ DOMAIN ms = 1..Len(ms) /\ Window \in Nat /\ Window > 0
      /\ a \in 1..(Len(ms) + 1) /\ (Len(ms) # 0 => a <= Len(ms))
  BY ChatAssumption
<1>2. ls = SubSeq(ms, a, Len(ms))
  BY DEF LastOf
<1> HIDE DEF a
<1>3. /\ ls \in Seq(Messages) /\ Len(ls) = Len(ms) - a + 1 /\ DOMAIN ls = 1..Len(ls)
      /\ \A i \in 1..Len(ls) : a + i - 1 \in 1..Len(ms) /\ ls[i] = ms[a + i - 1]
  BY <1>1, <1>2
<1>4. ToSet(ls) \subseteq ToSet(ms)
  BY <1>1, <1>3 DEF ToSet
<1>5. ms # <<>> => ls # <<>>
  <2>1. ms # <<>> => Len(ms) # 0
    OBVIOUS
  <2>2. QED BY <1>1, <1>3, <2>1
<1>6. ASSUME IdsApart(ms) PROVE IdsApart(ls)
  <2> SUFFICES ASSUME NEW i \in 1..Len(ls), NEW j \in 1..Len(ls), i # j PROVE ls[i].id # ls[j].id \/ ls[i].id = 0
    BY <1>3 DEF IdsApart
  <2> DEFINE x == a + i - 1
             y == a + j - 1
  <2>1. x # y /\ x \in DOMAIN ms /\ y \in DOMAIN ms /\ ls[i] = ms[x] /\ ls[j] = ms[y]
    BY <1>1, <1>3
  <2> HIDE DEF x, y
  <2>2. QED BY <1>6, <2>1 DEF IdsApart
<1>7. QED BY <1>3, <1>4, <1>5, <1>6

\* What the server tells of a part of a conversation.
LEMMA Transformed ==
    ASSUME Conversations(chat), NEW n \in Nat, Numbered(chat, n), NEW c \in Convs,
           NEW ls \in Seq(Messages), IdsApart(ls), ToSet(ls) \subseteq ToSet(chat[c].msgs),
           NEW bs, DOMAIN bs = DOMAIN ls, bs = [i \in DOMAIN bs |-> bs[i]],
           \A i \in DOMAIN ls : bs[i] = transformChatMessage(ls[i], c)
    PROVE  /\ bs \in Seq(Bubbles) /\ IdsApart(bs) /\ DOMAIN bs = DOMAIN ls
           /\ \A i \in DOMAIN bs : bs[i].id = ls[i].id /\ bs[i].id > 0 /\ Known(bs[i], n, ReadOnes(chat))
<1> DEFINE R == ReadOnes(chat)
<1>1. \A i \in DOMAIN ls : ls[i] \in Messages /\ ls[i].id \in Nat \ {0} /\ ls[i].id <= n
  <2> SUFFICES ASSUME NEW i \in DOMAIN ls PROVE ls[i] \in Messages /\ ls[i].id \in Nat \ {0} /\ ls[i].id <= n
    OBVIOUS
  <2>a. ls[i] \in Messages
    OBVIOUS
  <2>1. ls[i] \in Messages /\ ls[i].id \in Nat \ {0}
    BY <2>a DEF Messages
  <2>2. ls[i] \in ToSet(chat[c].msgs)
    BY DEF ToSet
  <2>3. ls[i].id \in Given(chat)
    BY <2>2 DEF Given, Ids, ToSet
  <2>4. QED BY <2>1, <2>3 DEF Numbered
<1>2. \A k : k \in chat[c].read => k \in R
  BY DEF ReadOnes
<1>3. ASSUME NEW m \in Messages, m.id <= n
      PROVE  LET b == transformChatMessage(m, c) IN b \in Bubbles /\ b.id = m.id /\ Known(b, n, R)
  <2> DEFINE p == Bubble(m.id, m.by, m.kind)
             b == [p EXCEPT !.read = m.id \in chat[c].read]
  <2>1. p \in Bubbles /\ p.id = m.id /\ p.st = "none"
    BY DEF Bubble, Bubbles, Marks, Messages
  <2>2. m.id \in Nat \ {0}
    BY DEF Messages
  <2>3. transformChatMessage(m, c) = b
    BY DEF transformChatMessage
  <2> HIDE DEF p, R
  <2>4. b \in Bubbles /\ b.id = m.id /\ b.st = "none" /\ (b.read => m.id \in chat[c].read)
    <3>1. PICK x \in BOOLEAN : x <=> m.id \in chat[c].read
      OBVIOUS
    <3>2. b = [p EXCEPT !.read = x]
      BY <3>1
    <3>3. [p EXCEPT !.read = x] \in Bubbles /\ [p EXCEPT !.read = x].id = p.id /\ [p EXCEPT !.read = x].st = p.st
          /\ [p EXCEPT !.read = x].read = x
      BY <2>1 DEF Bubbles
    <3> HIDE DEF b
    <3>4. QED BY <2>1, <3>1, <3>2, <3>3
  <2> HIDE DEF b
  <2>5. Known(b, n, R)
    BY <1>2, <1>3, <2>2, <2>4 DEF Known
  <2>6. QED BY <2>3, <2>4, <2>5
<1> HIDE DEF R
<1>5. \A i \in DOMAIN ls : bs[i] \in Bubbles /\ bs[i].id = ls[i].id /\ Known(bs[i], n, R)
  BY <1>1, <1>3
<1>6. bs \in Seq(Bubbles)
  <2>1. DOMAIN ls = 1..Len(ls) /\ Len(ls) \in Nat
    OBVIOUS
  <2>2. bs \in [1..Len(ls) -> Bubbles]
    BY <1>5, <2>1
  <2>3. QED BY <2>1, <2>2
<1>7. IdsApart(bs)
  BY <1>5 DEF IdsApart
<1>8. QED BY <1>1, <1>5, <1>6, <1>7 DEF R

LEMMA DetailAnswers ==
    ASSUME Conversations(chat), NEW n \in Nat, Numbered(chat, n), NEW c \in Begun(chat)
    PROVE  Answers(transformDetail(c), n, ReadOnes(chat))
<1> DEFINE ms == chat[c].msgs
           ls == LastOf(ms)
           bs == [i \in DOMAIN ls |-> transformChatMessage(ls[i], c)]
           d == transformDetail(c)
<1>1. c \in Convs /\ c # NoConv /\ ms \in Seq(Messages) /\ IdsApart(ms) /\ ms # <<>>
  BY ChatAssumption DEF Conversations, Conversation, Begun
<1>2. chat[c].status \in {"open", "closed"} /\ chat[c].holder \in {"none", "me", "other"} /\ (Len(ms) > Window) \in BOOLEAN
  BY <1>1 DEF Conversations, Conversation
<1> HIDE DEF ms
<1>3. ls \in Seq(Messages) /\ IdsApart(ls) /\ ToSet(ls) \subseteq ToSet(ms) /\ ls # <<>>
  BY <1>1, LastFacts
<1>4. d.id = c /\ d.msgs = bs /\ DOMAIN d = {"id", "status", "more", "holder", "msgs"} /\ d = [id |-> c, status |-> chat[c].status, more |-> Len(ms) > Window, holder |-> chat[c].holder, msgs |-> bs]
  BY DEF transformDetail, ms
<1> HIDE DEF ls
<1>5. /\ DOMAIN bs = DOMAIN ls /\ bs = [i \in DOMAIN bs |-> bs[i]]
      /\ \A i \in DOMAIN ls : bs[i] = transformChatMessage(ls[i], c)
  OBVIOUS
<1> HIDE DEF bs
<1>6. /\ bs \in Seq(Bubbles) /\ IdsApart(bs) /\ DOMAIN bs = DOMAIN ls
      /\ \A i \in DOMAIN bs : bs[i].id = ls[i].id /\ bs[i].id > 0 /\ Known(bs[i], n, ReadOnes(chat))
  BY <1>1, <1>3, <1>5, Transformed DEF ms
<1>7. bs # <<>>
  BY <1>3, <1>6
<1> HIDE DEF d
<1>8. d \in Details
  BY <1>1, <1>2, <1>4, <1>6 DEF Details
<1>9. QED BY <1>1, <1>4, <1>6, <1>7, <1>8 DEF Answers, d

LEMMA OlderAnswers ==
    ASSUME Conversations(chat), NEW n \in Nat, Numbered(chat, n), NEW call, call.conv \in Convs,
           NEW bs, DOMAIN bs = DOMAIN Older(call), bs = [i \in DOMAIN bs |-> bs[i]],
           \A i \in DOMAIN Older(call) : bs[i] = transformChatMessage(Older(call)[i], call.conv)
    PROVE  /\ bs \in Seq(Bubbles) /\ IdsApart(bs)
           /\ \A i \in DOMAIN bs : bs[i].id < call.before /\ bs[i].id > 0 /\ Known(bs[i], n, ReadOnes(chat))
<1> DEFINE ms == chat[call.conv].msgs
           S == {m \in ToSet(ms) : m.id < call.before}
           ks == Kept(ms, S)
           ls == Older(call)
<1>1. ms \in Seq(Messages) /\ IdsApart(ms)
  BY DEF Conversations, Conversation
<1>2. \A i \in DOMAIN ms : ms[i].id # 0
  <2>1. \A m \in Messages : m.id # 0
    BY DEF Messages
  <2> HIDE DEF ms
  <2>2. \A i \in DOMAIN ms : ms[i] \in Messages
    BY <1>1
  <2>3. QED BY <2>1, <2>2
<1>3. ls = LastOf(ks)
  BY DEF Older
<1> HIDE DEF S, ms
<1>4. ks \in Seq(Messages) /\ ToSet(ks) = ToSet(ms) \cap S /\ IdsApart(ks)
  BY <1>1, <1>2, KeptIds
<1> HIDE DEF ks, ls
<1>5. ls \in Seq(Messages) /\ ToSet(ls) \subseteq ToSet(ks) /\ IdsApart(ls)
  BY <1>3, <1>4, LastFacts
<1>6. DOMAIN bs = DOMAIN ls /\ \A i \in DOMAIN ls : bs[i] = transformChatMessage(ls[i], call.conv)
  BY DEF ls
<1>7. /\ bs \in Seq(Bubbles) /\ IdsApart(bs) /\ DOMAIN bs = DOMAIN ls
      /\ \A i \in DOMAIN bs : bs[i].id = ls[i].id /\ bs[i].id > 0 /\ Known(bs[i], n, ReadOnes(chat))
  BY <1>4, <1>5, <1>6, Transformed DEF ms
<1>8. \A i \in DOMAIN ls : ls[i].id < call.before
  <2>1. \A i \in DOMAIN ls : ls[i] \in S
    BY <1>4, <1>5 DEF ToSet
  <2>2. QED BY <2>1 DEF S
<1>9. QED BY <1>7, <1>8

-----------------------------------------------------------------------------
(***************************************************************************)
(* The server carries out a call and answers it.                           *)
(***************************************************************************)
\* The answer takes the place of the call.
LEMMA AnsweredCall ==
    ASSUME NEW s, NEW n, NEW R, NEW E, NEW X, Talking(s, n, R, E, X),
           NEW i \in DOMAIN s.calls, ~Posted(s.calls[i]), NEW c, IsCall(c, s.ui.temps, n, R, E),
           c.op = s.calls[i].op, c.before = s.calls[i].before, Carried(c) = Carried(s.calls[i]),
           NEW t, Shaped(t), t.ui = s.ui, t.wire = s.wire, t.cache = s.cache, t.calls = [s.calls EXCEPT ![i] = c],
           Posted(c) => /\ Brings(c, s.ui.conv, s.calls, s.wire.down)
                        /\ \A j \in DOMAIN s.calls : Posted(s.calls[j]) => Real(s.calls[j]) # Real(c)
    PROVE  Talking(t, n, R, E, X)
<1> DEFINE cs == s.calls
           ds == t.calls
<1>1. cs \in Seq(ToSet(cs)) /\ \A j \in DOMAIN cs : IsCall(cs[j], s.ui.temps, n, R, E)
  BY DEF Talking
<1>2. DOMAIN ds = DOMAIN cs /\ ds[i] = c /\ \A j \in DOMAIN cs : j # i => ds[j] = cs[j]
  BY <1>1
<1>3. ds \in Seq(ToSet(ds))
  <2>1. Len(cs) \in Nat /\ DOMAIN cs = 1..Len(cs)
    BY <1>1
  <2>2. \A j \in 1..Len(cs) : ds[j] \in ToSet(ds)
    BY <1>2, <2>1 DEF ToSet
  <2>3. ds = [j \in 1..Len(cs) |-> ds[j]]
    BY <1>1, <2>1
  <2> HIDE DEF cs, ds
  <2>4. ds \in [1..Len(cs) -> ToSet(ds)]
    BY <2>2, <2>3
  <2>5. QED BY <2>1, <2>4
<1> HIDE DEF cs, ds
<1>4. \A j \in DOMAIN ds : IsCall(ds[j], s.ui.temps, n, R, E)
  BY <1>1, <1>2
<1>5. \A e : Brings(e, s.ui.conv, cs, s.wire.down) => Brings(e, s.ui.conv, ds, s.wire.down)
  BY <1>2 DEF Brings, cs
<1>6. News(s.ui.conv, ds, s.wire.down)
  <2>1. News(s.ui.conv, cs, s.wire.down)
    BY DEF Talking, cs
  <2>2. ASSUME NEW j \in DOMAIN ds, Posted(ds[j])
        PROVE  /\ Brings(ds[j], s.ui.conv, ds, s.wire.down)
               /\ \A k \in DOMAIN ds : Posted(ds[k]) /\ Real(ds[j]) = Real(ds[k]) => j = k
    <3>1. CASE j = i
      BY <1>2, <1>5, <2>2, <3>1 DEF cs
    <3>2. CASE j # i
      <4>1. Posted(cs[j]) /\ ds[j] = cs[j]
        BY <1>2, <2>2, <3>2
      <4>2. /\ Brings(cs[j], s.ui.conv, cs, s.wire.down)
            /\ \A k \in DOMAIN cs : Posted(cs[k]) /\ Real(cs[j]) = Real(cs[k]) => j = k
        BY <1>2, <2>1, <4>1 DEF News
      <4>3. QED BY <1>2, <1>5, <4>1, <4>2 DEF cs
    <3>3. QED BY <3>1, <3>2
  <2>3. QED BY <2>2 DEF News
<1>7. Going(s.ui.conv, ds, X)
  <2>1. Going(s.ui.conv, cs, X)
    BY DEF Talking, cs
  <2>2. \A j \in DOMAIN cs : j \in DOMAIN ds /\ Carried(ds[j]) = Carried(cs[j])
    BY <1>2 DEF cs
  <2>3. QED BY <2>1, <2>2 DEF Going
<1>8. t.calls \in Seq(ToSet(t.calls)) /\ (\A j \in DOMAIN t.calls : IsCall(t.calls[j], t.ui.temps, n, R, E))
      /\ News(t.ui.conv, t.calls, t.wire.down) /\ Going(t.ui.conv, t.calls, X)
  BY <1>3, <1>4, <1>6, <1>7 DEF ds
<1>9. QED BY <1>8 DEF Talking, Shaped

LEMMA FailedCall ==
    ASSUME NEW c, NEW t, NEW n, NEW R, NEW E, IsCall(c, t, n, R, E), c.st = "sent", NEW e, e = [c EXCEPT !.st = "no"]
    PROVE  /\ IsCall(e, t, n, R, E) /\ ~Posted(e) /\ e.op = c.op /\ e.before = c.before /\ Carried(e) = Carried(c)
<1>1. /\ DOMAIN e = DOMAIN c /\ e.op = c.op /\ e.conv = c.conv /\ e.st = "no" /\ e.temp = c.temp /\ e.kind = c.kind
      /\ e.rest = c.rest /\ e.then = c.then /\ e.before = c.before /\ e.got = c.got /\ e.list = c.list
  BY DEF IsCall, CallFields
<1>2. QED BY <1>1 DEF IsCall, Posted, Carried

\* What the server's conversations become.
LEMMA AppliedFacts ==
    ASSUME Conversations(chat), NEW n \in Nat, Numbered(chat, n), NextId = n + 1, NEW call, NEW t, NEW R,
           IsCall(call, t, n, R, Begun(chat)), call.st = "sent", NEW ch, ch = Applied(call)
    PROVE  /\ Conversations(ch) /\ ReadOnes(ch) = ReadOnes(chat)
           /\ call.op \in Writes => call.conv \in Convs /\ Numbered(ch, n + 1) /\ Begun(ch) = Begun(chat) \cup {call.conv}
           /\ call.op \notin Writes => Numbered(ch, n) /\ Begun(ch) = Begun(chat)
<1> DEFINE c == call.conv
           msg(by, kind) == [id |-> NextId, by |-> by, kind |-> kind]
           Says(dh, m) == /\ m \in Messages /\ m.id = n + 1 /\ dh = [x \in Convs |-> dh[x]] /\ (\A x \in Convs : x # c => dh[x] = chat[x])
                          /\ dh[c] \in Conversation /\ dh[c].msgs = Append(chat[c].msgs, m) /\ dh[c].read = chat[c].read
           Goal(dh) == Conversations(dh) /\ Numbered(dh, n + 1) /\ ReadOnes(dh) = ReadOnes(chat) /\ Begun(dh) = Begun(chat) \cup {c}
<1>1. chat \in [Convs -> Conversation]
  BY DEF Conversations
<1>2. c \in Convs => \A m, dh : Says(dh, m) => Goal(dh)
  <2> SUFFICES ASSUME c \in Convs, NEW m, NEW dh, Says(dh, m) PROVE Goal(dh)
    OBVIOUS
  <2> HIDE DEF c
  <2>1. m \in Messages /\ m.id = n + 1
    OBVIOUS
  <2>2. dh = [x \in Convs |-> dh[x]]
    OBVIOUS
  <2>3. \A x \in Convs : x # c => dh[x] = chat[x]
    OBVIOUS
  <2>4. dh[c] \in Conversation /\ dh[c].msgs = Append(chat[c].msgs, m) /\ dh[c].read = chat[c].read
    OBVIOUS
  <2> HIDE DEF Says
  <2>5. QED BY <2>1, <2>2, <2>3, <2>4, SaidFacts
<1>3. \A by \in Parties, kind \in Kinds : msg(by, kind) \in Messages /\ msg(by, kind).id = n + 1
  BY DEF Messages
<1> HIDE DEF c
<1>4. c \in Convs => \A m \in Messages : Append(chat[c].msgs, m) \in Seq(Messages)
  BY <1>1 DEF Conversation
<1>5. ASSUME c \in Convs, NEW by \in Parties, NEW kind \in Kinds
      PROVE  /\ Says(Said(c, by, kind), msg(by, kind)) /\ Says([Said(c, by, kind) EXCEPT ![c].holder = "me"], msg(by, kind))
             /\ Says([Said(c, by, kind) EXCEPT ![c].status = "closed", ![c].holder = "none"], msg(by, kind))
  <2> DEFINE m == msg(by, kind)
  <2>1. m \in Messages /\ m.id = n + 1 /\ Said(c, by, kind) = [chat EXCEPT ![c].msgs = Append(@, m)]
    BY <1>3 DEF Said
  <2> HIDE DEF msg
  <2> HIDE DEF m
  <2>2. Append(chat[c].msgs, m) \in Seq(Messages) /\ chat[c] \in Conversation
    BY <1>1, <1>4, <1>5, <2>1
  <2>3. Says([chat EXCEPT ![c].msgs = Append(@, m)], m)
    BY <1>1, <1>5, <2>1, <2>2 DEF Conversation
  <2>4. Says([[chat EXCEPT ![c].msgs = Append(@, m)] EXCEPT ![c].holder = "me"], m)
    BY <1>1, <1>5, <2>1, <2>2 DEF Conversation
  <2>5. Says([[chat EXCEPT ![c].msgs = Append(@, m)] EXCEPT ![c].status = "closed", ![c].holder = "none"], m)
    BY <1>1, <1>5, <2>1, <2>2 DEF Conversation
  <2>6. QED BY <2>1, <2>3, <2>4, <2>5 DEF m
<1> HIDE DEF Says, Goal, msg
<1>5a. ASSUME c \in Convs, NEW by \in Parties, NEW kind \in Kinds
       PROVE  /\ Goal(Said(c, by, kind)) /\ Goal([Said(c, by, kind) EXCEPT ![c].holder = "me"])
              /\ Goal([Said(c, by, kind) EXCEPT ![c].status = "closed", ![c].holder = "none"])
  BY <1>2, <1>5, <1>5a
<1>6. Me \in Parties /\ {"user", "admin"} \subseteq Parties /\ "text" \in Kinds
  BY DEF Me, Parties, Kinds
<1>7. CASE call.op \in {"post", "card"}
  <2>1. c \in Convs /\ call.kind \in Kinds
    BY <1>7, ChatAssumption DEF IsCall, Placed, Begun, c
  <2>2. ch = Said(c, Me, call.kind) \/ ch = [Said(c, Me, call.kind) EXCEPT ![c].holder = "me"]
    BY <1>7 DEF Applied, Held, c
  <2>3. Goal(ch)
    BY <1>5a, <1>6, <2>1, <2>2
  <2>4. QED BY <1>7, <2>1, <2>3 DEF Writes, Goal, c
<1>8. CASE call.op = "create"
  <2>1. c \in Convs /\ ch = Said(c, "user", "text")
    BY <1>8 DEF IsCall, Applied, c
  <2>2. Goal(ch)
    BY <1>5a, <1>6, <2>1
  <2>3. QED BY <1>8, <2>1, <2>2 DEF Writes, Goal, c
<1>9. CASE call.op = "close"
  <2>1. c \in Convs
    BY <1>9 DEF IsCall, Placed, Begun, c
  <2> DEFINE dh == [Said(c, "admin", "text") EXCEPT ![c].status = "closed", ![c].holder = "none"]
  <2>2. ch = dh
    BY <1>9 DEF Applied, c
  <2>3. Goal(ch)
    <3>1. "admin" \in Parties /\ "text" \in Kinds
      BY <1>6
    <3>2. Goal(dh)
      BY <1>5a, <2>1, <3>1, Zenon
    <3> HIDE DEF dh
    <3>3. QED BY <2>2, <3>2
  <2>4. QED BY <1>9, <2>1, <2>3 DEF Writes, Goal, c
<1>10. CASE call.op = "claim"
  <2>1. c \in Convs /\ ch = [chat EXCEPT ![c].holder = "me"]
    BY <1>10 DEF IsCall, Placed, Begun, Applied, c
  <2>2. ch = [x \in Convs |-> ch[x]] /\ \A x \in Convs : ch[x] \in Conversation /\ ch[x].msgs = chat[x].msgs /\ ch[x].read = chat[x].read
    <3>1. ch = [x \in Convs |-> ch[x]] /\ \A x \in Convs : ch[x] = chat[x] \/ ch[x] = [chat[x] EXCEPT !.holder = "me"]
      BY <1>1, <2>1
    <3>2. \A x \in Convs : chat[x] \in Conversation
      BY <1>1
    <3>3. \A k \in Conversation : LET h == [k EXCEPT !.holder = "me"] IN h \in Conversation /\ h.msgs = k.msgs /\ h.read = k.read
      BY DEF Conversation
    <3>4. QED BY <3>1, <3>2, <3>3
  <2>3. Conversations(ch) /\ Begun(ch) = Begun(chat) /\ Numbered(ch, n)
    BY <2>2, SameSaid
  <2>4. ReadOnes(ch) = ReadOnes(chat)
    BY <2>2 DEF ReadOnes
  <2>5. QED BY <1>10, <2>3, <2>4 DEF Writes
<1>11. CASE call.op \notin {"post", "card", "create", "close", "claim"}
  BY <1>11 DEF Applied, Writes
<1>12. QED BY <1>7, <1>8, <1>9, <1>10, <1>11

\* The answer to a call is one of its kind.
LEMMA AnswerFits ==
    ASSUME Conversations(chat), NEW n \in Nat, Numbered(chat, n), NextId = n + 1, NEW call, NEW t \in Nat,
           IsCall(call, t, n, ReadOnes(chat), Begun(chat)), call.st = "sent",
           NEW m \in Nat, n <= m, NEW F, Begun(chat) \subseteq F,
           call.op \in Writes => m = n + 1 /\ call.conv \in F, NEW e, e = Answer(call)
    PROVE  /\ IsCall(e, t, m, ReadOnes(chat), F) /\ e.op = call.op /\ e.before = call.before /\ Carried(e) = Carried(call)
           /\ Posted(e) => Real(e) = n + 1
<1> DEFINE R == ReadOnes(chat)
           c == call.conv
           made == [NothingShown EXCEPT !.id = c, !.msgs = <<Bubble(NextId, "user", "text")>>]
           older == [i \in DOMAIN Older(call) |-> transformChatMessage(Older(call)[i], c)]
           above == [NothingShown EXCEPT !.msgs = older, !.more = Len(Older(call)) = Window]
           told == [NothingShown EXCEPT !.msgs = <<Bubble(NextId, Me, call.kind)>>]
<1>1. IsCall(call, t, m, R, F)
  <2>1. IsCall(call, t, n, R, Begun(chat)) /\ t <= t /\ R \subseteq R
    OBVIOUS
  <2> HIDE DEF R
  <2>2. QED BY <2>1, CallsGrow
<1>2. DOMAIN call = CallFields
  BY DEF IsCall
<1>3. /\ DOMAIN e = CallFields /\ e.st = "ok" /\ e.op = call.op /\ e.conv = c /\ e.temp = call.temp /\ e.kind = call.kind
      /\ e.rest = call.rest /\ e.then = call.then /\ e.before = call.before
      /\ e.list = IF call.op = "list" THEN Exists ELSE call.list
      /\ (call.op = "detail" => e.got = transformDetail(c)) /\ (call.op = "older" => e.got = above)
      /\ (call.op = "post" => e.got = told) /\ (call.op = "create" => e.got = made)
      /\ (call.op \notin {"detail", "older", "post", "create"} => e.got = call.got)
  <2> HIDE DEF made, above, told
  <2>1. CASE call.op = "detail"
    BY <1>2, <2>1 DEF Answer, CallFields
  <2>2. CASE call.op = "list"
    BY <1>2, <2>2 DEF Answer, CallFields
  <2>3. CASE call.op = "older"
    <3>1. e = [call EXCEPT !.st = "ok", !.got = above]
      BY <2>3 DEF Answer, above
    <3>2. QED BY <1>2, <2>3, <3>1 DEF CallFields
  <2>4. CASE call.op = "post"
    <3>1. e = [call EXCEPT !.st = "ok", !.got = told]
      BY <2>4 DEF Answer, told
    <3>2. QED BY <1>2, <2>4, <3>1 DEF CallFields
  <2>5. CASE call.op = "create"
    <3>1. e = [call EXCEPT !.st = "ok", !.got = made]
      BY <2>5 DEF Answer, made
    <3>2. QED BY <1>2, <2>5, <3>1 DEF CallFields
  <2>6. CASE call.op \notin {"detail", "list", "older", "post", "create"}
    <3>1. e = [call EXCEPT !.st = "ok"]
      BY <2>6 DEF Answer
    <3>2. QED BY <1>2, <2>6, <3>1 DEF CallFields
  <2>7. QED BY <2>1, <2>2, <2>3, <2>4, <2>5, <2>6
<1>4. Exists \subseteq F
  BY DEF Exists, Begun
<1>5. call.op = "detail" => Answers(transformDetail(c), m, R)
  <2> SUFFICES ASSUME call.op = "detail" PROVE Answers(transformDetail(c), m, R)
    OBVIOUS
  <2>1. c \in Begun(chat)
    BY DEF IsCall, Placed
  <2> HIDE DEF c
  <2>2. Answers(transformDetail(c), n, R)
    BY <2>1, DetailAnswers
  <2> HIDE DEF R
  <2>3. QED BY <2>2, AnswersGrow
<1>6. call.op = "create" => Answers(made, m, R)
  <2> SUFFICES ASSUME call.op = "create" PROVE Answers(made, m, R)
    OBVIOUS
  <2>1. c \in Convs /\ c # NoConv /\ m = n + 1
    BY ChatAssumption DEF IsCall, Writes
  <2> DEFINE b == Bubble(NextId, "user", "text")
  <2>2. b \in Bubbles /\ b.id = m /\ b.st = "none" /\ ~b.read /\ m > 0
    BY <2>1 DEF Bubble, Bubbles, Parties, Kinds, Marks
  <2>3. Known(b, m, R)
    BY <2>2 DEF Known
  <2> HIDE DEF b
  <2>4. /\ made.id = c /\ made.msgs = <<b>> /\ made = [NothingShown EXCEPT !.id = c, !.msgs = <<b>>]
    BY DEF NothingShown, b
  <2>5. <<b>> \in Seq(Bubbles) /\ <<b>> # <<>> /\ DOMAIN <<b>> = {1} /\ <<b>>[1] = b
    BY <2>2
  <2>6. made \in Details
    BY <2>1, <2>4, <2>5 DEF Details, NothingShown
  <2> HIDE DEF made, c
  <2>7. QED BY <2>1, <2>2, <2>3, <2>4, <2>5, <2>6 DEF Answers, IdsApart
<1>7. ASSUME call.op = "older"
      PROVE  /\ above.msgs \in Seq(Bubbles) /\ IdsApart(above.msgs) /\ above.more \in BOOLEAN
             /\ \A i \in DOMAIN above.msgs : above.msgs[i].id < call.before /\ Known(above.msgs[i], m, R) /\ above.msgs[i].id > 0
  <2>1. above.msgs = older /\ above.more = (Len(Older(call)) = Window)
    BY DEF NothingShown
  <2>2. c \in Convs
    BY <1>7 DEF IsCall
  <2>3. /\ DOMAIN older = DOMAIN Older(call) /\ older = [i \in DOMAIN older |-> older[i]]
        /\ \A i \in DOMAIN Older(call) : older[i] = transformChatMessage(Older(call)[i], c)
    OBVIOUS
  <2> HIDE DEF above, older
  <2>4. /\ older \in Seq(Bubbles) /\ IdsApart(older)
        /\ \A i \in DOMAIN older : older[i].id < call.before /\ older[i].id > 0 /\ Known(older[i], n, R)
    BY <2>2, <2>3, OlderAnswers
  <2>5. \A b \in Bubbles : Known(b, n, R) => Known(b, m, R)
    BY DEF Known, Bubbles
  <2>6. \A i \in DOMAIN older : older[i] \in Bubbles
    BY <2>4
  <2>7. QED BY <2>1, <2>4, <2>5, <2>6
<1>8. call.op = "post" => m \in 1..m /\ told.msgs = <<Bubble(m, Me, call.kind)>> /\ told.msgs[1].id = n + 1
  <2> SUFFICES ASSUME call.op = "post" PROVE m \in 1..m /\ told.msgs = <<Bubble(m, Me, call.kind)>> /\ told.msgs[1].id = n + 1
    OBVIOUS
  <2>1. m = n + 1 /\ NextId = m
    BY DEF Writes
  <2> DEFINE b == Bubble(m, Me, call.kind)
  <2>2. b.id = m
    BY DEF Bubble
  <2>3. told = [NothingShown EXCEPT !.msgs = <<b>>]
    BY <2>1
  <2> HIDE DEF b, told
  <2>4. told.msgs = <<b>> /\ told.msgs[1] = b
    BY <2>3 DEF NothingShown
  <2>5. QED BY <2>1, <2>2, <2>4 DEF b
<1> HIDE DEF made, above, told, older, R, c
<1>9. Carried(e) = Carried(call)
  BY <1>3 DEF Carried
<1>10. Posted(e) => Real(e) = n + 1
  BY <1>3, <1>8 DEF Posted, Real
<1>11. /\ e.conv \in Convs \cup {NoConv} /\ e.list \subseteq F /\ e.st \in {"sent", "ok", "no"}
       /\ e.op \in Placed \/ (e.op = "create" /\ e.st = "ok") \/ e.then = "open" => e.conv \in F
       /\ e.op \in {"create", "older"} => e.conv \in Convs
       /\ (e.then = "leave" => screen = "panel") /\ (e.then = "open" => e.op = "list")
       /\ e.op = "older" => e.before \in Int /\ e.before <= m
       /\ e.op \in {"post", "card"} => e.kind \in Kinds
  BY <1>1, <1>3, <1>4 DEF IsCall, Writes, c
<1>12. (e.op \in {"detail", "create"} /\ e.st = "ok") \/ e.then = "open" => Answers(e.got, m, R)
  BY <1>1, <1>3, <1>5, <1>6 DEF IsCall
<1>13. e.op = "older" /\ e.st = "ok" =>
       /\ e.got.msgs \in Seq(Bubbles) /\ IdsApart(e.got.msgs) /\ e.got.more \in BOOLEAN
       /\ \A i \in DOMAIN e.got.msgs : e.got.msgs[i].id < e.before /\ Known(e.got.msgs[i], m, R) /\ e.got.msgs[i].id > 0
  BY <1>3, <1>7
<1>14. e.op = "post" =>
       /\ e.temp \in Int /\ -t <= e.temp /\ e.temp <= 0 /\ e.rest \in Seq(Bubbles)
       /\ \A i \in DOMAIN e.rest : -t <= e.rest[i].id /\ e.rest[i].id < 0
       /\ e.st = "ok" => \E k \in 1..m : e.got.msgs = <<Bubble(k, Me, e.kind)>>
  BY <1>1, <1>3, <1>8 DEF IsCall
<1>15. IsCall(e, t, m, R, F)
  BY <1>3, <1>11, <1>12, <1>13, <1>14 DEF IsCall
<1>16. QED BY <1>3, <1>9, <1>10, <1>15 DEF R

\* What the page knows is older than the message that a post becomes.
LEMMA NextIsNew ==
    ASSUME NEW s, NEW n \in Nat, NEW R, NEW E, NEW X, Talking(s, n, R, E, X), NEW e, Real(e) = n + 1
    PROVE  /\ Brings(e, s.ui.conv, s.calls, s.wire.down)
           /\ \A j \in DOMAIN s.calls : Posted(s.calls[j]) => Real(s.calls[j]) # Real(e)
<1> DEFINE d == s.ui.conv
           ms == d.msgs
<1>1. d \in Details /\ ms \in Seq(Bubbles) /\ \A i \in DOMAIN ms : ms[i].id \in Int /\ Known(ms[i], n, R)
  BY ShownFacts
<1>2. \A i \in DOMAIN ms : ms[i].id \in Int /\ ms[i].id <= n
  BY <1>1 DEF Known
<1>3. \A j \in DOMAIN s.calls : IsCall(s.calls[j], s.ui.temps, n, R, E)
  BY DEF Talking
<1>4. s.wire.down \in Seq(Frames) /\ \A k \in DOMAIN s.wire.down : IsFrame(s.wire.down[k], n, R)
  BY DEF Talking
<1>5. \A k \in DOMAIN s.wire.down : s.wire.down[k].type = "message" => s.wire.down[k].id # Real(e)
  BY <1>4 DEF IsFrame, Frames
<1>6. \A j \in DOMAIN s.calls : s.calls[j].op = "older" => s.calls[j].before < Real(e)
  BY <1>3 DEF IsCall
<1>7. ASSUME e.temp \in Ids(ms) PROVE Real(e) \notin Ids(ms) /\ ms[1].id < Real(e)
  <2>1. Real(e) \notin Ids(ms)
    BY <1>2 DEF Ids
  <2>2. 1 \in DOMAIN ms
    <3>1. PICK i \in DOMAIN ms : TRUE
      BY <1>7 DEF Ids
    <3>2. DOMAIN ms = 1..Len(ms) /\ Len(ms) \in Nat
      BY <1>1
    <3> HIDE DEF ms
    <3>3. QED BY <3>1, <3>2
  <2>3. QED BY <1>2, <2>1, <2>2
<1>8. Brings(e, s.ui.conv, s.calls, s.wire.down)
  BY <1>5, <1>6, <1>7 DEF Brings
<1>9. ASSUME NEW j \in DOMAIN s.calls, Posted(s.calls[j]) PROVE Real(s.calls[j]) # Real(e)
  <2>1. PICK k \in 1..n : s.calls[j].got.msgs = <<Bubble(k, Me, s.calls[j].kind)>>
    BY <1>3, <1>9 DEF IsCall, Posted
  <2>2. Real(s.calls[j]) = k
    BY <2>1 DEF Real, Bubble
  <2>3. QED BY <2>2
<1>10. QED BY <1>8, <1>9

LEMMA ServeStep ==
    ASSUME Conversing, NEW i \in DOMAIN calls, Serve(i)
    PROVE  Conversing'
<1> DEFINE n == NextId - 1
           E == Begun(chat)
           R == ReadOnes(chat)
           call == calls[i]
<1>1. /\ n \in Nat /\ Talking(Here, n, R, E, {}) /\ Shaped(Here) /\ Conversations(chat) /\ Numbered(chat, n) /\ NextId = n + 1
      /\ screen \in Screens /\ Here.ui = ui /\ Here.calls = calls /\ Here.wire = wire /\ Here.cache = cache
  BY ConversingFacts DEF Mine, Conversing
<1>2. call.st = "sent" /\ screen' = screen /\ ui' = ui /\ wire' = wire /\ cache' = cache
  BY DEF Serve
<1>3. PICK ch : ch = chat'
  OBVIOUS
<1>4. PICK k : k = Here'
  OBVIOUS
<1>5. PICK e : /\ calls' = [calls EXCEPT ![i] = e]
               /\ \/ e = Answer(call) /\ ch = Applied(call)
                  \/ e = [call EXCEPT !.st = "no"] /\ ch \in {chat, Applied(call)}
  BY <1>3 DEF Serve
<1> HIDE DEF n, E, R
<1>6. IsCall(call, ui.temps, n, R, E) /\ ui.temps \in Nat
  BY <1>1 DEF Talking
<1>7. PICK m \in Nat : /\ n <= m /\ Conversations(ch) /\ Numbered(ch, m) /\ ReadOnes(ch) = R /\ E \subseteq Begun(ch)
                       /\ e = Answer(call) => (call.op \in Writes => m = n + 1 /\ call.conv \in Begun(ch))
  <2> HIDE DEF call
  <2>1. CASE ch = Applied(call)
    <3>1. /\ Conversations(ch) /\ ReadOnes(ch) = R
          /\ call.op \in Writes => call.conv \in Convs /\ Numbered(ch, n + 1) /\ Begun(ch) = E \cup {call.conv}
          /\ call.op \notin Writes => Numbered(ch, n) /\ Begun(ch) = E
      BY <1>1, <1>2, <1>6, <2>1, AppliedFacts DEF E, R
    <3>2. CASE call.op \in Writes
      <4>1. n + 1 \in Nat /\ n <= n + 1
        BY <1>1
      <4>2. QED BY <3>1, <3>2, <4>1
    <3>3. CASE call.op \notin Writes
      <4>1. n <= n
        BY <1>1
      <4>2. QED BY <1>1, <3>1, <3>3, <4>1
    <3>4. QED BY <3>2, <3>3
  <2>2. CASE e # Answer(call) /\ ch = chat
    <3>1. n <= n
      BY <1>1
    <3>2. QED BY <1>1, <2>2, <3>1 DEF E, R
  <2>3. CASE e = Answer(call) /\ ch # Applied(call)
    <3>1. e = [call EXCEPT !.st = "no"]
      BY <1>5, <2>3 DEF call
    <3>2. e.st = "no" /\ e.st = "ok"
      <4>1. DOMAIN call = CallFields
        BY <1>6 DEF IsCall
      <4>2. e.st = "no"
        BY <3>1, <4>1 DEF CallFields
      <4>3. e.st = "ok"
        BY <2>3, <4>1 DEF Answer, CallFields
      <4>4. QED BY <4>2, <4>3
    <3>3. QED BY <3>2
  <2>4. QED BY <1>5, <2>1, <2>2, <2>3 DEF call
<1>8. /\ IsCall(e, ui.temps, m, R, Begun(ch)) /\ e.op = call.op /\ e.before = call.before /\ Carried(e) = Carried(call)
      /\ Posted(e) => Real(e) = n + 1
  <2> HIDE DEF call
  <2>1. CASE e = Answer(call)
    BY <1>1, <1>2, <1>6, <1>7, <2>1, AnswerFits DEF E, R
  <2>2. CASE e = [call EXCEPT !.st = "no"]
    <3>1. /\ IsCall(e, ui.temps, n, R, E) /\ ~Posted(e) /\ e.op = call.op /\ e.before = call.before /\ Carried(e) = Carried(call)
      BY <1>2, <1>6, <2>2, FailedCall
    <3>2. ui.temps <= ui.temps /\ R \subseteq R
      BY <1>6
    <3>3. IsCall(e, ui.temps, m, R, Begun(ch))
      BY <1>1, <1>6, <1>7, <3>1, <3>2, CallsGrow
    <3>4. QED BY <3>1, <3>3
  <2>3. QED BY <1>5, <2>1, <2>2 DEF call
<1>9. /\ k.ui = ui /\ k.wire = wire /\ k.cache = cache /\ k.calls = [calls EXCEPT ![i] = e] /\ Shaped(k)
  <2>1. DOMAIN k = {"ui", "wire", "calls", "cache", "acks"} /\ k.ui = ui /\ k.wire = wire /\ k.cache = cache /\ k.calls = [calls EXCEPT ![i] = e]
    BY <1>2, <1>4, <1>5 DEF Here
  <2>2. QED BY <1>1, <2>1 DEF Shaped
<1>10. Talking(k, m, R, Begun(ch), {})
  <2>1. Posted(e) => /\ Brings(e, ui.conv, calls, wire.down)
                     /\ \A j \in DOMAIN calls : Posted(calls[j]) => Real(calls[j]) # Real(e)
    BY <1>1, <1>8, NextIsNew
  <2>2. R \subseteq R
    OBVIOUS
  <2>3. Talking(Here, m, R, Begun(ch), {})
    BY <1>1, <1>7, <2>2, TalkingGrows
  <2>4. ~Posted(call)
    BY <1>2 DEF Posted
  <2>5. QED BY <1>1, <1>8, <1>9, <2>1, <2>3, <2>4, AnsweredCall
<1>11. QED BY <1>1, <1>2, <1>3, <1>4, <1>7, <1>10, Goes DEF R

-----------------------------------------------------------------------------
(***************************************************************************)
(* The socket and the other parties.                                       *)
(***************************************************************************)
LEMMA FramedTalks ==
    ASSUME NEW s, NEW n, NEW R, NEW E, NEW X, Talking(s, n, R, E, X), NEW f, IsFrame(f, n, R),
           f.type = "message" => \A j \in DOMAIN s.calls : Posted(s.calls[j]) => Real(s.calls[j]) # f.id,
           NEW t, Shaped(t), t.ui = s.ui, t.calls = s.calls, t.cache = s.cache, t.wire.down = Append(s.wire.down, f)
    PROVE  Talking(t, n, R, E, X)
<1> DEFINE fs == s.wire.down
           gs == t.wire.down
<1>1. fs \in Seq(Frames) /\ f \in Frames /\ \A k \in DOMAIN fs : IsFrame(fs[k], n, R)
  BY DEF Talking, IsFrame
<1>2. gs = Append(fs, f)
  OBVIOUS
<1> HIDE DEF fs, gs
<1>3. gs \in Seq(Frames) /\ \A k \in DOMAIN gs : gs[k] = f \/ (k \in DOMAIN fs /\ gs[k] = fs[k])
  BY <1>1, <1>2
<1>4. \A k \in DOMAIN gs : IsFrame(gs[k], n, R)
  BY <1>1, <1>3
<1>5. News(s.ui.conv, s.calls, gs)
  <2>1. News(s.ui.conv, s.calls, fs)
    BY DEF Talking, fs
  <2>2. ASSUME NEW j \in DOMAIN s.calls, Posted(s.calls[j]) PROVE Brings(s.calls[j], s.ui.conv, s.calls, gs)
    <3>1. Brings(s.calls[j], s.ui.conv, s.calls, fs)
      BY <2>1, <2>2 DEF News
    <3>2. \A k \in DOMAIN gs : gs[k].type = "message" => gs[k].id # Real(s.calls[j])
      BY <1>3, <2>2, <3>1 DEF Brings
    <3>3. QED BY <3>1, <3>2 DEF Brings
  <2>3. QED BY <2>1, <2>2 DEF News
<1>6. t.wire.down \in Seq(Frames) /\ (\A k \in DOMAIN t.wire.down : IsFrame(t.wire.down[k], n, R)) /\ News(t.ui.conv, t.calls, t.wire.down)
  BY <1>3, <1>4, <1>5 DEF gs
<1>7. QED BY <1>6 DEF Talking, Shaped

\* A step that leaves the page alone: what the server knows grows, and the socket loses or gets frames.
LEMMA AroundStep ==
    ASSUME Conversing, screen' = screen, ui' = ui, calls' = calls, cache' = cache,
           NEW ch, ch = chat', Conversations(ch), NEW m \in Nat, NextId - 1 <= m, Numbered(ch, m),
           ReadOnes(chat) \subseteq ReadOnes(ch), Begun(chat) \subseteq Begun(ch),
           DOMAIN wire' = DOMAIN NoWire, NEW f,
           \/ wire'.down \in {wire.down, <<>>}
           \/ wire'.down = Append(wire.down, f) /\ IsFrame(f, m, ReadOnes(ch)) /\ (f.type = "message" => f.id = NextId)
    PROVE  Conversing'
<1> DEFINE n == NextId - 1
           E == Begun(chat)
           R == ReadOnes(chat)
           Q == ReadOnes(ch)
           F == Begun(ch)
<1>1. /\ n \in Nat /\ Talking(Here, n, R, E, {}) /\ Shaped(Here) /\ NextId = n + 1
      /\ screen \in Screens /\ Here.ui = ui /\ Here.calls = calls /\ Here.wire = wire /\ Here.cache = cache
  BY ConversingFacts DEF Mine, Conversing
<1>2. PICK k : k = Here'
  OBVIOUS
<1>3. PICK w : w = wire'
  OBVIOUS
<1>4. /\ k.ui = ui /\ k.wire = w /\ k.cache = cache /\ k.calls = calls /\ Shaped(k)
  <2>1. DOMAIN k = {"ui", "wire", "calls", "cache", "acks"} /\ k.ui = ui /\ k.wire = w /\ k.cache = cache /\ k.calls = calls
    BY <1>2, <1>3 DEF Here
  <2>2. QED BY <1>1, <1>3, <2>1 DEF Shaped
<1> HIDE DEF n, E, R, Q, F
<1>5. Talking(Here, m, Q, F, {})
  BY <1>1, TalkingGrows DEF n, E, R, Q, F
<1>6. Talking(k, m, Q, F, {})
  <2>1. CASE w.down \in {wire.down, <<>>}
    <3>1. Links(k, F) /\ Caches(k, m, Q) /\ Resembles(Here, k)
      <4>1. Links(Here, F) /\ Caches(Here, m, Q)
        BY <1>5, TalkingShaped
      <4>2. QED BY <1>1, <1>4, <2>1, <4>1 DEF Links, Caches, Resembles
    <3>2. QED BY <1>4, <1>5, <3>1, Aside
  <2>2. CASE w.down = Append(wire.down, f) /\ IsFrame(f, m, Q) /\ (f.type = "message" => f.id = NextId)
    <3>1. ASSUME NEW j \in DOMAIN calls, Posted(calls[j]) PROVE Real(calls[j]) # NextId
      <4>1. IsCall(calls[j], ui.temps, n, R, E)
        BY <1>1 DEF Talking
      <4>2. PICK x \in 1..n : calls[j].got.msgs = <<Bubble(x, Me, calls[j].kind)>>
        BY <3>1, <4>1 DEF IsCall, Posted
      <4>3. Real(calls[j]) = x
        BY <4>2 DEF Real, Bubble
      <4>4. QED BY <1>1, <4>3
    <3>2. QED BY <1>1, <1>4, <1>5, <2>2, <3>1, FramedTalks
  <2>3. QED BY <1>3, <2>1, <2>2 DEF Q
<1>7. QED BY <1>1, <1>2, <1>6, Goes DEF Q, F

LEMMA UnreadOnes ==
    ASSUME Conversations(chat), NEW c \in Convs, NEW by
    PROVE  Unread(c, by) \subseteq Nat \ {0}
<1>1. chat[c].msgs \in Seq(Messages)
  BY DEF Conversations, Conversation
<1>2. ToSet(chat[c].msgs) \subseteq Messages
  BY <1>1 DEF ToSet
<1>3. \A m \in Messages : m.id \in Nat \ {0}
  BY DEF Messages
<1>4. QED BY <1>2, <1>3 DEF Unread

LEMMA WireSteps ==
    ASSUME Conversing, WireOpens \/ WireDrops
    PROVE  Conversing'
<1>1. /\ NextId - 1 \in Nat /\ Shaped(Here) /\ Links(Here, Begun(chat)) /\ Conversations(chat)
      /\ Numbered(chat, NextId - 1) /\ Here.wire = wire /\ Here.ui = ui
  BY ConversingFacts DEF Conversing
<1>2. screen' = screen /\ ui' = ui /\ calls' = calls /\ cache' = cache
  BY DEF WireOpens, WireDrops
<1>3. PICK ch : ch = chat'
  OBVIOUS
<1>4. DOMAIN wire = DOMAIN NoWire
  BY <1>1 DEF Shaped
<1>5. DOMAIN wire' = DOMAIN NoWire /\ wire'.down \in {wire.down, <<>>}
  BY <1>4 DEF WireOpens, WireDrops, Dropped, NoWire
<1>6. Conversations(ch) /\ Numbered(ch, NextId - 1) /\ ReadOnes(chat) \subseteq ReadOnes(ch) /\ Begun(ch) = Begun(chat)
  <2>1. CASE WireDrops
    BY <1>1, <1>3, <2>1 DEF WireDrops
  <2>2. CASE WireOpens
    <3> DEFINE c == ui.active
               S == Unread(c, Other)
    <3>1. c \in Convs /\ ch = [chat EXCEPT ![c].read = @ \cup S]
      BY <1>1, <1>3, <2>2 DEF WireOpens, Links, Begun
    <3>2. S \subseteq Nat \ {0}
      BY <1>1, <3>1, UnreadOnes
    <3> HIDE DEF c, S
    <3>3. chat \in [Convs -> Conversation]
      BY <1>1 DEF Conversations
    <3>4. ch = [x \in Convs |-> ch[x]] /\ \A x \in Convs : ch[x] = chat[x] \/ ch[x] = [chat[x] EXCEPT !.read = @ \cup S]
      BY <3>1, <3>3
    <3>5. \A x \in Conversation : LET h == [x EXCEPT !.read = @ \cup S] IN h \in Conversation /\ h.msgs = x.msgs /\ x.read \subseteq h.read
      BY <3>2 DEF Conversation
    <3>6. \A x \in Convs : ch[x] \in Conversation /\ ch[x].msgs = chat[x].msgs /\ chat[x].read \subseteq ch[x].read
      BY <3>3, <3>4, <3>5
    <3>7. QED BY <1>1, <3>4, <3>6, SameSaid
  <2>3. QED BY <2>1, <2>2
<1>7. NextId - 1 <= NextId - 1
  BY <1>1
<1>8. QED BY <1>1, <1>2, <1>3, <1>5, <1>6, <1>7, AroundStep

LEMMA FramedFacts ==
    ASSUME DOMAIN wire = DOMAIN NoWire, NEW f, wire' \in {wire, Framed(wire, f)}
    PROVE  DOMAIN wire' = DOMAIN NoWire /\ (wire'.down \in {wire.down, <<>>} \/ wire'.down = Append(wire.down, f))
BY DEF Framed, NoWire

LEMMA PartySteps ==
    ASSUME Conversing, Speaks \/ Reads \/ Takes
    PROVE  Conversing'
<1> DEFINE n == NextId - 1
<1>1. /\ n \in Nat /\ NextId = n + 1 /\ Shaped(Here) /\ Conversations(chat) /\ Numbered(chat, n) /\ Here.wire = wire
      /\ \A c \in Exists : c \in Convs /\ c \in Begun(chat)
  BY ConversingFacts DEF Conversing, Exists, Begun
<1>2. screen' = screen /\ ui' = ui /\ calls' = calls /\ cache' = cache
  BY DEF Speaks, Reads, Takes
<1>3. PICK ch : ch = chat'
  OBVIOUS
<1>4. DOMAIN wire = DOMAIN NoWire /\ chat \in [Convs -> Conversation]
  BY <1>1 DEF Shaped, Conversations
<1>5. Me \in Parties /\ Other \in Parties /\ "text" \in Kinds
  BY DEF Me, Other, Parties, Kinds
<1>6. CASE Speaks
  <2>1. PICK c \in Exists, by \in {Me, Other} :
           /\ ch = Said(c, by, "text")
           /\ \/ wire' = IF c = ui.active THEN Framed(wire, [type |-> "message", id |-> NextId, by |-> by]) ELSE wire
              \/ by = Other /\ wire' = wire
    BY <1>3, <1>6 DEF Speaks
  <2> DEFINE m == [id |-> NextId, by |-> by, kind |-> "text"]
             f == [type |-> "message", id |-> NextId, by |-> by]
  <2>2. m \in Messages /\ m.id = n + 1 /\ f \in Frames /\ f.type = "message" /\ f.id = NextId
    BY <1>1, <1>5, <2>1 DEF Messages, Frames
  <2>3. wire' \in {wire, Framed(wire, f)}
    BY <2>1
  <2>4. ch = [chat EXCEPT ![c].msgs = Append(@, m)]
    BY <2>1 DEF Said
  <2> HIDE DEF m, f
  <2>5. /\ ch = [x \in Convs |-> ch[x]] /\ (\A x \in Convs : x # c => ch[x] = chat[x]) /\ c \in Convs
        /\ ch[c] = [chat[c] EXCEPT !.msgs = Append(@, m)]
    BY <1>1, <1>4, <2>1, <2>4
  <2>6. ch[c] \in Conversation /\ ch[c].msgs = Append(chat[c].msgs, m) /\ ch[c].read = chat[c].read
    <3>1. chat[c] \in Conversation
      BY <1>4, <2>5
    <3>2. Append(chat[c].msgs, m) \in Seq(Messages)
      BY <2>2, <3>1 DEF Conversation
    <3>3. QED BY <2>5, <3>1, <3>2 DEF Conversation
  <2> HIDE DEF n
  <2>7. Conversations(ch) /\ Numbered(ch, n + 1) /\ ReadOnes(ch) = ReadOnes(chat) /\ Begun(ch) = Begun(chat) \cup {c}
    BY <1>1, <2>2, <2>5, <2>6, SaidFacts
  <2>8. n + 1 \in Nat /\ NextId - 1 <= n + 1 /\ IsFrame(f, n + 1, ReadOnes(ch))
    BY <1>1, <2>2 DEF IsFrame, n
  <2>9. DOMAIN wire' = DOMAIN NoWire /\ (wire'.down \in {wire.down, <<>>} \/ wire'.down = Append(wire.down, f))
    BY <1>4, <2>3, FramedFacts
  <2>10. ReadOnes(chat) \subseteq ReadOnes(ch) /\ Begun(chat) \subseteq Begun(ch)
    BY <2>7
  <2>11. QED BY <1>2, <1>3, <2>2, <2>7, <2>8, <2>9, <2>10, AroundStep
<1>7. CASE Reads
  <2>0. PICK c \in Exists : \E id \in Unread(c, Me) \ chat[c].read :
           /\ ch = [chat EXCEPT ![c].read = @ \cup {id}]
           /\ wire' = IF c = ui.active THEN Framed(wire, [type |-> "read_receipt", id |-> id, by |-> Other]) ELSE wire
    BY <1>3, <1>7 DEF Reads
  <2>1. PICK id \in Unread(c, Me) \ chat[c].read :
           /\ ch = [chat EXCEPT ![c].read = @ \cup {id}]
           /\ wire' = IF c = ui.active THEN Framed(wire, [type |-> "read_receipt", id |-> id, by |-> Other]) ELSE wire
    BY <2>0
  <2> DEFINE f == [type |-> "read_receipt", id |-> id, by |-> Other]
  <2>2. c \in Convs /\ id \in Nat \ {0}
    BY <1>1, <2>1, UnreadOnes
  <2>3. f \in Frames /\ f.type = "read_receipt" /\ f.id = id /\ wire' \in {wire, Framed(wire, f)}
    BY <1>5, <2>1, <2>2 DEF Frames
  <2> HIDE DEF f
  <2> DEFINE S == {id}
  <2>4. ch = [x \in Convs |-> ch[x]] /\ \A x \in Convs : ch[x] = chat[x] \/ ch[x] = [chat[x] EXCEPT !.read = @ \cup S]
    BY <1>4, <2>1
  <2>4a. S \subseteq Nat \ {0} /\ \A x \in Convs : chat[x] \in Conversation
    BY <1>4, <2>2
  <2> HIDE DEF S
  <2>5. \A x \in Conversation : LET h == [x EXCEPT !.read = @ \cup S] IN h \in Conversation /\ h.msgs = x.msgs /\ x.read \subseteq h.read
    BY <2>4a DEF Conversation
  <2>6. \A x \in Convs : ch[x] \in Conversation /\ ch[x].msgs = chat[x].msgs /\ chat[x].read \subseteq ch[x].read
    <3> SUFFICES ASSUME NEW x \in Convs
                 PROVE  ch[x] \in Conversation /\ ch[x].msgs = chat[x].msgs /\ chat[x].read \subseteq ch[x].read
      OBVIOUS
    <3>1. chat[x] \in Conversation /\ (ch[x] = chat[x] \/ ch[x] = [chat[x] EXCEPT !.read = @ \cup S])
      BY <2>4, <2>4a
    <3>2. CASE ch[x] = chat[x]
      BY <3>1, <3>2
    <3>3. CASE ch[x] = [chat[x] EXCEPT !.read = @ \cup S]
      BY <2>5, <3>1, <3>3
    <3>4. QED BY <3>1, <3>2, <3>3
  <2>7. Conversations(ch) /\ Numbered(ch, n) /\ ReadOnes(chat) \subseteq ReadOnes(ch) /\ Begun(ch) = Begun(chat)
    BY <1>1, <2>4, <2>6, SameSaid
  <2>8. id \in ReadOnes(ch)
    <3>1. id \in ch[c].read
      BY <1>4, <2>1, <2>2
    <3>2. QED BY <2>2, <3>1 DEF ReadOnes
  <2>9. IsFrame(f, n, ReadOnes(ch)) /\ f.type # "message"
    BY <2>3, <2>8 DEF IsFrame
  <2>10. DOMAIN wire' = DOMAIN NoWire /\ (wire'.down \in {wire.down, <<>>} \/ wire'.down = Append(wire.down, f))
    BY <1>4, <2>3, FramedFacts
  <2>11. NextId - 1 <= n /\ Begun(chat) \subseteq Begun(ch)
    BY <1>1, <2>7
  <2>12. QED BY <1>1, <1>2, <1>3, <2>7, <2>9, <2>10, <2>11, AroundStep
<1>8. CASE Takes
  <2>1. PICK c \in Exists : ch = [chat EXCEPT ![c].holder = "other"] /\ wire' = wire
    BY <1>3, <1>8 DEF Takes
  <2>2. ch = [x \in Convs |-> ch[x]] /\ \A x \in Convs : ch[x] = chat[x] \/ ch[x] = [chat[x] EXCEPT !.holder = "other"]
    BY <1>4, <2>1
  <2>3. \A x \in Conversation : LET h == [x EXCEPT !.holder = "other"] IN h \in Conversation /\ h.msgs = x.msgs /\ x.read \subseteq h.read
    BY DEF Conversation
  <2>4. \A x \in Convs : ch[x] \in Conversation /\ ch[x].msgs = chat[x].msgs /\ chat[x].read \subseteq ch[x].read
    BY <1>4, <2>2, <2>3
  <2>5. Conversations(ch) /\ Numbered(ch, n) /\ ReadOnes(chat) \subseteq ReadOnes(ch) /\ Begun(ch) = Begun(chat)
    BY <1>1, <2>2, <2>4, SameSaid
  <2>6. DOMAIN wire' = DOMAIN NoWire /\ wire'.down \in {wire.down, <<>>}
    BY <1>4, <2>1
  <2>7. NextId - 1 <= n /\ Begun(chat) \subseteq Begun(ch)
    BY <1>1, <2>5
  <2>8. QED BY <1>1, <1>2, <1>3, <2>5, <2>6, <2>7, AroundStep
<1>9. QED BY <1>6, <1>7, <1>8

-----------------------------------------------------------------------------
(***************************************************************************)
(* A page is opened.                                                       *)
(***************************************************************************)
LEMMA QuietTalks ==
    ASSUME NEW s, NEW n \in Nat, NEW R, NEW E, Shaped(s), Links(s, E), Caches(s, n, R),
           s.ui.temps = 0, Answers(s.ui.conv, n, R), s.calls = <<>>, s.wire.down = <<>>
    PROVE  Talking(s, n, R, E, {})
<1> DEFINE d == s.ui.conv
<1>1. d \in Details /\ \A i \in DOMAIN d.msgs : Known(d.msgs[i], n, R) /\ d.msgs[i].id > 0
  BY DEF Answers
<1> HIDE DEF d
<1>2. d.msgs \in Seq(Bubbles)
  BY <1>1 DEF Details
<1>3. \A i \in DOMAIN d.msgs : d.msgs[i] \in Bubbles
  BY <1>2
<1>4. \A i \in DOMAIN d.msgs : d.msgs[i].id \in Int /\ d.msgs[i].id > 0 /\ d.msgs[i].st # "sending"
  BY <1>1, <1>3 DEF Bubbles, Known
<1>5. d.msgs # <<>> => d.msgs[1].id > 0
  BY <1>2, <1>4
<1>6. Shows(d, 0, n, R)
  BY <1>1, <1>4, <1>5 DEF Shows, Answers, d
<1>7. Going(d, <<>>, {})
  BY <1>4 DEF Going, ToSet
<1>8. News(d, <<>>, <<>>)
  BY DEF News
<1>9. QED BY <1>6, <1>7, <1>8 DEF Talking, Shaped, Links, Caches, ToSet, d

LEMMA OpenedTalks ==
    ASSUME screen \in Screens, Conversations(chat), NEW n \in Nat, Numbered(chat, n), First \in Begun(chat)
    PROVE  Talking(Opened, n, ReadOnes(chat), Begun(chat), {})
<1> DEFINE R == ReadOnes(chat)
           E == Begun(chat)
           nothing == [c \in Convs |-> NoDetail]
           blank == [ui |-> BlankChat, wire |-> NoWire, calls |-> <<>>, acks |-> {}, cache |-> [list |-> {}, detail |-> nothing]]
           inbox == [blank EXCEPT !.ui.query = 1]
           tools == [blank EXCEPT !.ui.active = First, !.ui.list = {First}, !.ui.conv = transformDetail(First)]
           listed == loadConversations(blank, "none")
           list == [blank EXCEPT !.ui.list = Convs, !.ui.listing = FALSE, !.ui.sending = FALSE]
           agent == [list EXCEPT !.ui.active = First, !.wire = reconnected(@)]
<1>1. Begins(E) /\ First \in E /\ First \in Convs /\ First # NoConv /\ (Me = "admin" => E = Convs)
  BY Beginning, ChatAssumption DEF Begun, Begins
<1>2. Answers(NothingShown, n, R) /\ Answers(transformDetail(First), n, R)
  BY NothingAnswers, DetailAnswers
<1> HIDE DEF R, E
<1>3. DOMAIN nothing = Convs /\ \A c \in Convs : nothing[c] = NothingShown
  BY DEF NoDetail
<1> HIDE DEF nothing
<1>4. /\ Shaped(blank) /\ Caches(blank, n, R) /\ blank.ui.temps = 0 /\ blank.ui.conv = NothingShown
      /\ blank.calls = <<>> /\ blank.wire = NoWire /\ blank.ui.list = {} /\ blank.ui.active = NoConv /\ blank.cache.list = {}
      /\ blank.ui.sending = FALSE
  BY <1>2, <1>3 DEF Shaped, Caches, BlankChat
<1>5. NoWire.down = <<>> /\ DOMAIN reconnected(NoWire) = DOMAIN NoWire /\ reconnected(NoWire).down = <<>>
  BY DEF NoWire, reconnected, connect
<1>6. Opened = IF screen = "inbox" THEN fetchData(inbox) ELSE IF screen = "tools" THEN tools
               ELSE IF screen = "agent" THEN Select(listed, First) ELSE listed
  BY DEF Opened, nothing
<1> HIDE DEF blank
<1>7. CASE screen = "tools"
  <2>1. /\ Shaped(tools) /\ Links(tools, E) /\ Caches(tools, n, R) /\ tools.ui.temps = 0 /\ tools.ui.conv = transformDetail(First)
        /\ tools.calls = <<>> /\ tools.wire.down = <<>>
    BY <1>1, <1>4, <1>5 DEF Shaped, Links, Caches, BlankChat
  <2>2. Opened = tools
    BY <1>6, <1>7
  <2> HIDE DEF tools
  <2>3. QED BY <1>2, <2>1, <2>2, QuietTalks DEF R, E
<1>8. CASE screen = "agent"
  <2>1. Me = "admin"
    BY <1>8 DEF Me
  <2>2. listed = list
    BY <1>4, <1>8, <2>1 DEF loadConversations, Listed
  <2>3. Opened = loadConversation(agent, First, FALSE)
    BY <1>6, <1>8, <2>2 DEF Select
  <2>4. list.wire = NoWire /\ agent = [list EXCEPT !.ui.active = First, !.wire = reconnected(NoWire)]
    BY <1>4 DEF Shaped
  <2>5. /\ Shaped(agent) /\ Links(agent, E) /\ Caches(agent, n, R) /\ agent.ui.temps = 0 /\ agent.ui.conv = NothingShown
        /\ agent.calls = <<>> /\ agent.wire.down = <<>>
    <3> DEFINE w == reconnected(NoWire)
    <3>1. agent = [list EXCEPT !.ui.active = First, !.wire = w] /\ DOMAIN w = DOMAIN NoWire /\ w.down = <<>>
      BY <1>5, <2>4
    <3> HIDE DEF w, agent
    <3>2. QED BY <1>1, <1>4, <2>1, <3>1 DEF Shaped, Links, Caches, BlankChat
  <2> HIDE DEF agent
  <2>6. Talking(agent, n, R, E, {})
    BY <1>2, <2>5, QuietTalks
  <2>7. QED BY <1>1, <2>3, <2>6, LoadsOne DEF R, E
<1>9. CASE screen = "inbox"
  <2>1. Opened = fetchData(inbox)
    BY <1>6, <1>9
  <2> DEFINE u == [inbox EXCEPT !.ui.loading = TRUE, !.ui.error = FALSE]
             call == [Call("inbox", NoConv) EXCEPT !.before = inbox.ui.query, !.kind = inbox.ui.filter]
  <2>2. fetchData(inbox) = Sent(u, call)
    BY DEF fetchData
  <2>3. /\ Shaped(inbox) /\ Links(inbox, E) /\ Caches(inbox, n, R) /\ inbox.ui.temps = 0 /\ inbox.ui.conv = NothingShown
        /\ inbox.calls = <<>> /\ inbox.wire.down = <<>>
    BY <1>4, <1>5, <1>9 DEF Shaped, Links, Caches, BlankChat
  <2> HIDE DEF inbox
  <2>4. /\ Shaped(u) /\ Links(u, E) /\ Caches(u, n, R) /\ u.ui.temps = 0 /\ u.ui.conv = NothingShown
        /\ u.calls = <<>> /\ u.wire.down = <<>>
    BY <2>3 DEF Shaped, Links, Caches, BlankChat
  <2> HIDE DEF u
  <2>5. Talking(u, n, R, E, {})
    BY <1>2, <2>4, QuietTalks
  <2>6. IsCall(call, u.ui.temps, n, R, E)
    BY <1>1, OtherCall
  <2>7. call.op = "inbox"
    BY DEF Call
  <2> HIDE DEF call
  <2>8. QED BY <2>1, <2>2, <2>5, <2>6, <2>7, SendsAside DEF R, E
<1>10. CASE screen \notin {"tools", "agent", "inbox"}
  <2>1. Opened = listed
    BY <1>6, <1>10
  <2>2. Links(blank, E)
    BY <1>4, <1>10 DEF Links
  <2>3. Talking(blank, n, R, E, {})
    BY <1>2, <1>4, <1>5, <2>2, QuietTalks
  <2>4. Talking(listed, n, R, E, {})
    BY <1>1, <2>3, LoadsAll
  <2>5. QED BY <2>1, <2>4 DEF R, E
<1>11. QED BY <1>7, <1>8, <1>9, <1>10

LEMMA Opens == Init => Conversing
<1> SUFFICES ASSUME Init PROVE Conversing
  OBVIOUS
<1>1. PICK by \in Parties : \E no \in IF Me = "admin" THEN Bijection(Convs, 1..Cardinality(Convs)) ELSE {[c \in Convs |-> 1]} :
       chat = [c \in Convs |-> [msgs |-> IF Me = "admin" \/ c = First THEN <<[id |-> no[c], by |-> by, kind |-> "text"]>> ELSE <<>>,
                               read |-> {}, status |-> "open", holder |-> "none"]]
  BY DEF Init, Parties
<1>2. PICK no \in IF Me = "admin" THEN Bijection(Convs, 1..Cardinality(Convs)) ELSE {[c \in Convs |-> 1]} :
       chat = [c \in Convs |-> [msgs |-> IF Me = "admin" \/ c = First THEN <<[id |-> no[c], by |-> by, kind |-> "text"]>> ELSE <<>>,
                               read |-> {}, status |-> "open", holder |-> "none"]]
  BY <1>1
<1> DEFINE told == {c \in Convs : Me = "admin" \/ c = First}
           n == IF Me = "admin" THEN Cardinality(Convs) ELSE 1
           m(c) == [id |-> no[c], by |-> by, kind |-> "text"]
<1>3. First \in Convs
  BY ChatAssumption DEF First
<1>4. Cardinality(Convs) \in Nat \ {0}
  BY <1>3, ChatAssumption, FS_CardinalityType, FS_EmptySet
<1>5. n \in Nat \ {0} /\ (\A c \in told : no[c] \in 1..n) /\ \E c \in told : no[c] = n
  <2>1. CASE Me = "admin"
    <3>1. no \in [Convs -> 1..Cardinality(Convs)] /\ \A t \in 1..Cardinality(Convs) : \E c \in Convs : no[c] = t
      BY <1>2, <2>1 DEF Bijection, Injection, Surjection
    <3>2. Cardinality(Convs) \in 1..Cardinality(Convs)
      BY <1>4
    <3>3. QED BY <1>4, <2>1, <3>1, <3>2
  <2>2. CASE Me # "admin"
    BY <1>2, <1>3, <2>2
  <2>3. QED BY <2>1, <2>2
<1>6. /\ chat = [c \in Convs |-> chat[c]]
      /\ \A c \in Convs : /\ chat[c].msgs = IF c \in told THEN <<m(c)>> ELSE <<>>
                          /\ DOMAIN chat[c] = {"msgs", "read", "status", "holder"} /\ chat[c].read = {} /\ chat[c].status = "open" /\ chat[c].holder = "none"
                          /\ chat[c] = [msgs |-> chat[c].msgs, read |-> {}, status |-> "open", holder |-> "none"]
  BY <1>2
<1>7. \A c \in told : m(c) \in Messages /\ m(c).id = no[c]
  BY <1>5 DEF Messages, Kinds
<1> HIDE DEF m, n
<1>8. \A c \in Convs : chat[c].msgs \in Seq(Messages) /\ IdsApart(chat[c].msgs)
  <2> SUFFICES ASSUME NEW c \in Convs PROVE chat[c].msgs \in Seq(Messages) /\ IdsApart(chat[c].msgs)
    OBVIOUS
  <2>1. CASE c \in told
    <3>1. chat[c].msgs = <<m(c)>> /\ m(c) \in Messages
      BY <1>6, <1>7, <2>1
    <3>2. QED BY <3>1 DEF IdsApart
  <2>2. CASE c \notin told
    <3>1. chat[c].msgs = <<>>
      BY <1>6, <2>2
    <3>2. QED BY <3>1 DEF IdsApart
  <2>3. QED BY <2>1, <2>2
<1>9. Begun(chat) = told
  <2>1. \A c \in Convs : <<m(c)>> # <<>>
    OBVIOUS
  <2>2. \A c \in Convs : chat[c].msgs # <<>> <=> c \in told
    <3> HIDE DEF told
    <3>1. QED BY <1>6, <2>1
  <2>3. told \subseteq Convs
    OBVIOUS
  <2> HIDE DEF told
  <2>4. QED BY <2>2, <2>3 DEF Begun
<1>10. Given(chat) = {no[c] : c \in told}
  <2>1. \A c \in Convs : Ids(chat[c].msgs) = IF c \in told THEN {no[c]} ELSE {}
    <3> SUFFICES ASSUME NEW c \in Convs PROVE Ids(chat[c].msgs) = IF c \in told THEN {no[c]} ELSE {}
      OBVIOUS
    <3>1. CASE c \in told
      <4>1. chat[c].msgs = <<m(c)>> /\ m(c).id = no[c]
        BY <1>6, <1>7, <3>1
      <4>2. QED BY <3>1, <4>1 DEF Ids
    <3>2. CASE c \notin told
      <4>1. chat[c].msgs = <<>>
        BY <1>6, <3>2
      <4>2. QED BY <3>2, <4>1 DEF Ids
    <3>3. QED BY <3>1, <3>2
  <2>2. told \subseteq Convs
    OBVIOUS
  <2> HIDE DEF told
  <2>3. Given(chat) \subseteq {no[c] : c \in told}
    <3> SUFFICES ASSUME NEW c \in Convs, NEW k \in Ids(chat[c].msgs) PROVE k \in {no[x] : x \in told}
      BY DEF Given
    <3>1. QED BY <2>1
  <2>4. \A c \in told : no[c] \in Given(chat)
    <3> SUFFICES ASSUME NEW c \in told PROVE no[c] \in Given(chat)
      OBVIOUS
    <3>1. c \in Convs /\ no[c] \in Ids(chat[c].msgs)
      BY <2>1, <2>2
    <3>2. QED BY <3>1 DEF Given
  <2>5. QED BY <2>3, <2>4
<1>11. Conversations(chat)
  <2>1. ASSUME NEW c \in Convs PROVE chat[c] \in Conversation
    <3> DEFINE ms == chat[c].msgs
    <3>1. ms \in Seq(Messages) /\ chat[c] = [msgs |-> ms, read |-> {}, status |-> "open", holder |-> "none"]
      BY <1>6, <1>8
    <3> HIDE DEF ms
    <3>2. QED BY <3>1 DEF Conversation
  <2>2. chat \in [Convs -> Conversation]
    BY <1>6, <2>1
  <2>3. Me = "admin" => Begun(chat) = Convs
    BY <1>9
  <2>4. QED BY <1>8, <2>2, <2>3 DEF Conversations
<1>12. Numbered(chat, n)
  BY <1>5, <1>10 DEF Numbered
<1>13. NextId = 1 + n
  <2>1. NextId = 1 + Max(Given(chat))
    BY DEF NextId, Given
  <2>2. QED BY <1>5, <1>11, <1>12, <2>1, Numbering
<1>14. screen \in Screens /\ First \in Begun(chat)
  BY <1>3, <1>9 DEF Init
<1>15. Talking(Opened, n, ReadOnes(chat), Begun(chat), {})
  BY <1>5, <1>11, <1>12, <1>14, OpenedTalks
<1>16. Talking(Here, n, ReadOnes(chat), Begun(chat), {})
  <2> DEFINE E == Begun(chat)
             R == ReadOnes(chat)
             s == Opened
  <2>1. ui = s.ui /\ wire = s.wire /\ calls = s.calls /\ cache = s.cache
    BY DEF Init
  <2> HIDE DEF s, E, R
  <2>2. Shaped(s) /\ Links(s, E) /\ Caches(s, n, R) /\ Talking(s, n, R, E, {})
    BY <1>15, TalkingShaped DEF s, E, R
  <2>3. Shaped(Here) /\ Links(Here, E) /\ Caches(Here, n, R) /\ Resembles(s, Here)
    BY <2>1, <2>2 DEF Here, Shaped, Links, Caches, Resembles
  <2>4. QED BY <2>2, <2>3, Aside DEF E, R
<1>17. NextId \in Nat /\ NextId - 1 = n
  BY <1>5, <1>13
<1>18. QED BY <1>11, <1>12, <1>14, <1>16, <1>17 DEF Conversing

-----------------------------------------------------------------------------
(***************************************************************************)
(* The theorems.                                                           *)
(***************************************************************************)
LEMMA Stays == Conversing /\ UNCHANGED vars => Conversing'
<1> SUFFICES ASSUME Conversing, UNCHANGED vars PROVE Conversing'
  OBVIOUS
<1>1. screen' = screen /\ chat = chat' /\ Here = Here'
  BY DEF vars, Here
<1>2. /\ Conversations(chat) /\ screen \in Screens /\ NextId - 1 \in Nat /\ Numbered(chat, NextId - 1)
      /\ Talking(Here, NextId - 1, ReadOnes(chat), Begun(chat), {})
  BY ConversingFacts DEF Conversing
<1> DEFINE n == NextId - 1
           k == Here
           ch == chat
<1>3. screen' = screen /\ ch = chat' /\ k = Here'
  BY <1>1
<1>4. screen \in Screens /\ Conversations(ch) /\ n \in Nat /\ Numbered(ch, n) /\ Talking(k, n, ReadOnes(ch), Begun(ch), {})
  BY <1>2
<1> HIDE DEF n, k, ch
<1>5. QED BY <1>3, <1>4, Goes

LEMMA Continues == Conversing /\ [Next]_vars => Conversing'
<1> SUFFICES ASSUME Conversing, [Next]_vars PROVE Conversing'
  OBVIOUS
<1>1. CASE PageNext
  <2>1. CASE Poll \/ Navigate \/ openConversation
    BY <2>1, LoadingSteps
  <2>2. CASE handleSend
    BY <2>2, SendStep
  <2>3. CASE handleSendProductCard
    BY <2>3, CardStep
  <2>4. CASE handleClose \/ handleMarkReplied \/ handleForceTakeover \/ handleUpload \/ handleCreate
    BY <2>4, AskingSteps
  <2>5. CASE ToggleNewForm \/ removeAttachment
    BY <2>5, SimpleSteps
  <2>6. CASE handleLoadOlder
    BY <2>6, OlderStep
  <2>7. QED BY <1>1, <2>1, <2>2, <2>3, <2>4, <2>5, <2>6 DEF PageNext
<1>2. CASE ToolsNext
  <2>1. CASE ChooseFilter \/ FoldOrders \/ ShowPopup \/ HidePopup \/ TypeQuery
    BY <2>1, SimpleSteps
  <2>2. CASE Debounced
    BY <2>2, SearchingSteps
  <2>3. CASE SendCard
    BY <2>3, AskingSteps
  <2>4. QED BY <1>2, <2>1, <2>2, <2>3 DEF ToolsNext
<1>3. CASE InboxChange
  BY <1>3, SearchingSteps
<1>4. CASE \E i \in DOMAIN calls : Serve(i) \/ Deliver(i)
  BY <1>4, ServeStep, DeliverStep
<1>5. CASE Expire \/ WireRetries
  BY <1>5, WaitingSteps
<1>6. CASE WireOpens \/ WireDrops
  BY <1>6, WireSteps
<1>7. CASE FrameArrives
  BY <1>7, FrameStep
<1>8. CASE screen \in Talks /\ (Speaks \/ Reads \/ Takes)
  BY <1>8, PartySteps
<1>9. CASE UNCHANGED vars
  BY <1>9, Stays
<1>10. QED BY <1>1, <1>2, <1>3, <1>4, <1>5, <1>6, <1>7, <1>8, <1>9 DEF Next

\* What the page and the server know of each other holds throughout: the numbers of the messages, the
\* conversations that have begun, the calls and the frames under way.
THEOREM Converses == Spec => []Conversing
BY Opens, Continues, PTL DEF Spec

\* No message is shown twice, in whichever order the answers of posts, the reloads, the older pages and
\* the frames of the socket come in (Chat.tsx, AdminChatDetail.tsx, mergeWsMessage).
THEOREM NoneTwice == Spec => []NoDuplicates
<1>1. Conversing => NoDuplicates
  BY ShownFacts, ConversingFacts DEF Mine, Talking, Shows, IdsApart, NoDuplicates, Here
<1>2. QED BY <1>1, Converses, PTL

\* A bubble that says it is being sent belongs to a post under way or to one that waits for it, also
\* after a failure, a reload or an answer that overtakes another (Chat.tsx, handleSend).
THEOREM BubblesEnd == Spec => []NoGhostBubble
<1>1. ASSUME Conversing PROVE NoGhostBubble
  <2>1. Going(ui.conv, calls, {})
    BY <1>1, ConversingFacts DEF Mine, Talking
  <2>2. ASSUME NEW b \in ToSet(ui.conv.msgs), b.st = "sending"
        PROVE  \E i \in DOMAIN calls : calls[i].op = "post" /\ b.id \in {calls[i].temp} \cup Ids(calls[i].rest)
    <3>1. PICK i \in DOMAIN calls : b.id \in Carried(calls[i])
      BY <2>1, <2>2 DEF Going
    <3>2. QED BY <3>1 DEF Carried
  <2>3. QED BY <2>2 DEF NoGhostBubble
<1>2. QED BY <1>1, Converses, PTL

\* A message of one's own that is shown as read was read by the other party, whichever of the answers,
\* frames, receipts and reloads the mark came from (Chat.tsx and AdminChatDetail.tsx, mapMessage).
THEOREM ReadWasRead == Spec => []ReadIsRead
<1>1. ASSUME Conversing PROVE ReadIsRead
  <2> DEFINE ms == ui.conv.msgs
             shown == [i \in DOMAIN ms |-> mapMessage(ms[i])]
             S == {b \in ToSet(shown) : ui.filter = "all" \/ b.kind = ui.filter}
             n == NextId - 1
             R == ReadOnes(chat)
  <2>1. n \in Nat /\ Talking(Here, n, R, Begun(chat), {}) /\ Here.ui = ui
    BY <1>1, ConversingFacts DEF Mine
  <2> HIDE DEF n
  <2>2. ms \in Seq(Bubbles) /\ \A i \in DOMAIN ms : ms[i] \in Bubbles /\ ms[i].id \in Int /\ Known(ms[i], n, R)
    BY <2>1, ShownFacts
  <2> HIDE DEF ms
  <2>3. shown \in Seq(ToSet(shown))
    <3>1. Len(ms) \in Nat /\ DOMAIN ms = 1..Len(ms)
      BY <2>2
    <3>2. \A i \in 1..Len(ms) : shown[i] \in ToSet(shown)
      BY <3>1 DEF ToSet
    <3>3. shown = [i \in 1..Len(ms) |-> shown[i]]
      BY <3>1
    <3> HIDE DEF shown
    <3>4. QED BY <3>1, <3>2, <3>3
  <2>4. filteredMessages = Kept(shown, S)
    BY DEF filteredMessages, ms
  <2>5. ToSet(filteredMessages) \subseteq ToSet(shown)
    <3> HIDE DEF shown, S
    <3>1. ToSet(Kept(shown, S)) = ToSet(shown) \cap S
      BY <2>3, KeptFacts
    <3>2. QED BY <2>4, <3>1
  <2>6. ASSUME NEW p \in Bubbles, Known(p, n, R), mapMessage(p).receipt = "read" PROVE mapMessage(p).id \in R
    <3>1. Receipt(p) = "read" /\ mapMessage(p).id = p.id
      BY <2>6 DEF mapMessage
    <3>2. p.st = "read" \/ (p.st = "none" /\ p.read)
      BY <3>1 DEF Receipt
    <3>3. p.id \in Int
      BY DEF Bubbles
    <3>4. QED BY <2>6, <3>1, <3>2, <3>3 DEF Known
  <2>7. ASSUME NEW b \in ToSet(filteredMessages), b.receipt = "read" PROVE b.id \in R
    <3>1. PICK i \in DOMAIN ms : b = mapMessage(ms[i])
      BY <2>5 DEF ToSet
    <3>2. QED BY <2>2, <2>6, <2>7, <3>1
  <2>8. QED BY <2>7 DEF ReadIsRead, ReadOnes
<1>2. QED BY <1>1, Converses, PTL
=============================================================================
