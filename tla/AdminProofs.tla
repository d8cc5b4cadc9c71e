----------------------------- MODULE AdminProofs -----------------------------
(***************************************************************************)
(* Theorems about the pages of the administration console, for any rows,   *)
(* views, numbers of calls and of writes.                                  *)
(***************************************************************************)
EXTENDS AdminPages, DataTheorems

(***************************************************************************)
(* The invariants.  A state of the browser is s, the server's rows are D,  *)
(* what the user was told is saved is A.                                   *)
(***************************************************************************)
Caching == {"brands", "tags", "categories", "products", "coupons", "recycle"}
Plain == {"create", "update", "delete"}
WritesOf ==
  [brands |-> Plain, tags |-> Plain, coupons |-> Plain, categories |-> Plain \cup {"migrate"},
   products |-> {"shelf", "delete", "batch", "task"}, recycle |-> {"restore", "permanent"}]

Maybe == Rows \cup {NoRow}
Forms == [kind : {"none", "create", "edit"}, row : Maybe, text : {"initial", "typed", "blank"}]
Statuses == Live \cup {"absent", "gone"}
Table == [Rows -> [st : Statuses, ver : Nat]]
AtLeast(rows, A) == \A r \in Rows : A[r] <= rows[r].ver
AtMost(rows, D) == \A r \in Rows : rows[r].ver <= D[r].ver

\* An answer is no newer than the server; a list asked for after the last write that was answered
\* holds what that write saved.
CallType ==
  [op : {"load"} \cup WritesOf[page], rows : SUBSET Maybe, view : Views[page], to : Statuses \cup {"same", "refresh"}, from : SUBSET Statuses,
   st : {"sent", "ok", "no", "conflict", "orphan"}, got : Table, base : Table, then : Rows \cup {NoRow}, old : BOOLEAN]
Truthful(c, D, A) ==
  /\ c.op = "load" => c.st # "orphan"
  /\ c.op = "task" => c.st = "orphan"
  /\ c.to = "refresh" => c.op = "load"
  /\ c.st = "ok" => AtMost(c.got, D)
  /\ c.op = "load" /\ c.st = "ok" /\ ~c.old => AtLeast(c.got, A)
Traffic(D, A) == {c \in CallType : Truthful(c, D, A)}

UiFields == {"view", "shown", "rows", "loading", "error", "form", "leave", "doomed", "busy", "picked", "waiting", "super", "mode"}
HistFields == {"acked", "overtaken", "writes", "others"}
IsUi(u) == UiFields \subseteq DOMAIN u /\ u.view \in Views[page] /\ u.rows \in Table
IsHist(h, D) == DOMAIN h = HistFields /\ h.acked \in [Rows -> Nat] /\ \A r \in Rows : h.acked[r] <= D[r].ver
IsCache(k, h) ==
  /\ k \in [Keys -> Table \cup {NoList}]
  /\ \A v \in Views[page] : k[v] # NoList /\ v \notin h.overtaken => AtLeast(k[v], h.acked)
Consistent(s, D) ==
  /\ DOMAIN s = {"ui", "net", "cache", "hist"}
  /\ IsUi(s.ui) /\ IsHist(s.hist, D) /\ s.net \in Seq(Traffic(D, s.hist.acked)) /\ IsCache(s.cache, s.hist)
Loading(cs) == \E i \in DOMAIN cs : cs[i].op = "load"
Shown(s) == Loading(s.net) \/ s.ui.error \/ s.ui.shown \in s.hist.overtaken \/ AtLeast(s.ui.rows, s.hist.acked)

Safe(s, D) == Consistent(s, D) /\ Shown(s)

\* What the user opened, picked or was asked about are rows.
Picks(u) ==
  /\ UiFields \subseteq DOMAIN u
  /\ u.form \in Forms /\ u.doomed \in Maybe /\ u.picked \subseteq Maybe
  /\ page = "categories" => {"node", "nodeVer", "urlId", "creating", "asking", "source", "target"} \subseteq DOMAIN u /\ u.node \in Maybe /\ u.urlId \in Maybe

Console == page \in Caching => db \in Table /\ Safe(Here, db) /\ Picks(ui)

\* A row is held by one shelf action or reload, and its buttons are dead.
Holds(c) == c.op \in {"shelf", "load"} /\ c.st # "orphan"
Apart(cs) == \A i, j \in DOMAIN cs : i # j /\ Holds(cs[i]) /\ Holds(cs[j]) => cs[i].rows \cap cs[j].rows = {}
HeldBy(cs, waiting) == Apart(cs) /\ \A i \in DOMAIN cs : Holds(cs[i]) => cs[i].rows \subseteq waiting
HeldRows == page = "products" => HeldBy(net, ui.waiting)

-----------------------------------------------------------------------------
(***************************************************************************)
(* The paths: on these pages a write that succeeded drops the kept list,   *)
(* except a batch, which has only begun.                                   *)
(***************************************************************************)
LEMMA ThreeSegments ==
    ASSUME NEW a, NEW b, NEW c
    PROVE  Last(<<a, b, c>>) = c /\ Front(<<a, b, c>>) = <<a, b>> /\ <<a, b, c>> # <<>>
<1>1. Last(<<a, b, c>>) = c /\ <<a, b, c>> # <<>>
  BY DEF Last
<1>2. Front(<<a, b, c>>) = <<a, b>>
  <2> DEFINE s == <<a, b, c>>
             t == SubSeq(s, 1, 2)
  <2>1. Len(s) = 3 /\ s[1] = a /\ s[2] = b
    OBVIOUS
  <2>2. t \in Seq({a, b}) /\ Len(t) = 2 /\ t[1] = s[1] /\ t[2] = s[2]
    <3>1. \A i \in 1..2 : s[i] \in {a, b}
      BY <2>1
    <3> HIDE DEF s
    <3>2. t \in Seq({a, b}) /\ Len(t) = (IF 1 <= 2 THEN 2 - 1 + 1 ELSE 0) /\ \A i \in 1..(2 - 1 + 1) : t[i] = s[1 + i - 1]
      BY <3>1, SubSeqProperties
    <3> HIDE DEF t
    <3>3. QED BY <3>2
  <2> HIDE DEF t
  <2>3. t = <<a, b>>
    BY <2>1, <2>2
  <2>4. QED BY <2>1, <2>3 DEF Front, t
<1>3. QED BY <1>1, <1>2

LEMMA FourSegments ==
    ASSUME NEW a, NEW b, NEW c, NEW d
    PROVE  Last(<<a, b, c, d>>) = d /\ Front(<<a, b, c, d>>) = <<a, b, c>> /\ <<a, b, c, d>> # <<>>
<1>1. Last(<<a, b, c, d>>) = d /\ <<a, b, c, d>> # <<>>
  BY DEF Last
<1>2. Front(<<a, b, c, d>>) = <<a, b, c>>
  <2> DEFINE s == <<a, b, c, d>>
             t == SubSeq(s, 1, 3)
  <2>1. Len(s) = 4 /\ s[1] = a /\ s[2] = b /\ s[3] = c
    OBVIOUS
  <2>2. t \in Seq({a, b, c}) /\ Len(t) = 3 /\ t[1] = s[1] /\ t[2] = s[2] /\ t[3] = s[3]
    <3>1. \A i \in 1..3 : s[i] \in {a, b, c}
      BY <2>1
    <3> HIDE DEF s
    <3>2. t \in Seq({a, b, c}) /\ Len(t) = (IF 1 <= 3 THEN 3 - 1 + 1 ELSE 0) /\ \A i \in 1..(3 - 1 + 1) : t[i] = s[1 + i - 1]
      BY <3>1, SubSeqProperties
    <3> HIDE DEF t
    <3>3. QED BY <3>2
  <2> HIDE DEF t
  <2>3. t = <<a, b, c>>
    BY <2>1, <2>2
  <2>4. QED BY <2>1, <2>3 DEF Front, t
<1>3. QED BY <1>1, <1>2

LEMMA TwoSegments ==
    ASSUME NEW a, NEW b
    PROVE  Last(<<a, b>>) = b /\ <<a, b>> # <<>>
BY DEF Last

LEMMA Begins ==
    ASSUME NEW a, NEW b, NEW c
    PROVE  IsPrefix(<<a, b>>, <<a, b>>) /\ IsPrefix(<<a, b>>, <<a, b, c>>)
BY DEF IsPrefix

LEMMA Bases ==
    ASSUME NEW a, NEW b, NEW x \in ActionNames, b \notin ActionNames, b # "#"
    PROVE  /\ ResourceBase(Path(<<a, b, x>>)) = Path(<<a, b>>)
           /\ ResourceBase(Path(<<a, b, "#", x>>)) = Path(<<a, b>>)
           /\ Covers(Path(<<a, b>>), Path(<<a, b>>))
           /\ \A c : Covers(Path(<<a, b>>), Path(<<a, b, c>>))
<1>1. ResourceBase(Path(<<a, b, x>>)) = Path(<<a, b>>)
  <2>1. /\ Last(<<a, b, x>>) = x /\ Front(<<a, b, x>>) = <<a, b>> /\ <<a, b, x>> # <<>>
    BY ThreeSegments
  <2>1a. Last(<<a, b>>) = b
    BY TwoSegments
  <2>2. Path(<<a, b, x>>).segs = <<a, b, x>> /\ ~Path(<<a, b, x>>).slash
    BY DEF Path
  <2>3. QED BY <2>1, <2>1a, <2>2 DEF ResourceBase
<1>2. ResourceBase(Path(<<a, b, "#", x>>)) = Path(<<a, b>>)
  <2>1. /\ Last(<<a, b, "#", x>>) = x /\ Front(<<a, b, "#", x>>) = <<a, b, "#">> /\ <<a, b, "#", x>> # <<>>
    BY FourSegments
  <2>1a. Last(<<a, b, "#">>) = "#" /\ Front(<<a, b, "#">>) = <<a, b>> /\ <<a, b, "#">> # <<>>
    BY ThreeSegments
  <2>2. Path(<<a, b, "#", x>>).segs = <<a, b, "#", x>> /\ ~Path(<<a, b, "#", x>>).slash
    BY DEF Path
  <2>3. QED BY <2>1, <2>1a, <2>2 DEF ResourceBase
<1>3. \A c : Covers(Path(<<a, b>>), Path(<<a, b, c>>))
  BY Begins, TwoSegments DEF Covers, Path
<1>4. Covers(Path(<<a, b>>), Path(<<a, b>>))
  BY Begins, TwoSegments DEF Covers, Path
<1>5. QED BY <1>1, <1>2, <1>3, <1>4

LEMMA WritesDrop ==
    ASSUME page \in Caching, NEW op \in WritesOf[page], op \notin {"batch", "task"}
    PROVE  Drops(op)
<1> DEFINE of(a, b, x) == ResourceBase(Path(<<a, b, x>>))
           on(a, b, x) == ResourceBase(Path(<<a, b, "#", x>>))
<1>1. \A x \in {"create", "update", "delete", "migrate", "shelf", "restore", "permanent"} : x \in ActionNames
  BY DEF ActionNames
<1>2. \A b \in {"brand", "tag", "category", "spu", "coupon", "recycle"} : b \notin ActionNames /\ b # "#"
  BY DEF ActionNames
<1>3. op \notin {"load", "detail"}
  BY DEF Caching, WritesOf, Plain
<1>4. CASE page = "brands"
  <2>1. op \in Plain
    BY <1>4 DEF WritesOf
  <2>2. Api[page][op] = BrandApi[op] /\ Api[page]["load"] = Path(<<"goods", "brand">>)
    BY <1>4 DEF Api, BrandApi
  <2>3. ResourceBase(BrandApi[op]) = Path(<<"goods", "brand">>)
    <3>1. ResourceBase(BrandApi["create"]) = Path(<<"goods", "brand">>)
      BY <1>1, <1>2, Bases DEF BrandApi
    <3>2. ResourceBase(BrandApi["update"]) = Path(<<"goods", "brand">>)
      BY <1>1, <1>2, Bases DEF BrandApi
    <3>3. ResourceBase(BrandApi["delete"]) = Path(<<"goods", "brand">>)
      BY <1>1, <1>2, Bases DEF BrandApi
    <3>4. QED BY <2>1, <3>1, <3>2, <3>3 DEF Plain
  <2>4. QED BY <1>1, <1>2, <1>3, <2>2, <2>3, Bases DEF Drops, Invalidates
<1>5. CASE page = "tags"
  <2>1. op \in Plain
    BY <1>5 DEF WritesOf
  <2>2. Api[page][op] = TagApi[op] /\ Api[page]["load"] = Path(<<"goods", "tag">>)
    BY <1>5 DEF Api, TagApi
  <2>3. ResourceBase(TagApi[op]) = Path(<<"goods", "tag">>)
    <3>1. ResourceBase(TagApi["create"]) = Path(<<"goods", "tag">>)
      BY <1>1, <1>2, Bases DEF TagApi
    <3>2. ResourceBase(TagApi["update"]) = Path(<<"goods", "tag">>)
      BY <1>1, <1>2, Bases DEF TagApi
    <3>3. ResourceBase(TagApi["delete"]) = Path(<<"goods", "tag">>)
      BY <1>1, <1>2, Bases DEF TagApi
    <3>4. QED BY <2>1, <3>1, <3>2, <3>3 DEF Plain
  <2>4. QED BY <1>1, <1>2, <1>3, <2>2, <2>3, Bases DEF Drops, Invalidates
<1>6. CASE page = "categories"
  <2>1. op \in Plain \cup {"migrate"}
    BY <1>6 DEF WritesOf
  <2>2. Api[page][op] = CategoryApi[op] /\ Api[page]["load"] = Path(<<"goods", "category", "subtree">>)
    BY <1>6 DEF Api, CategoryApi
  <2>3. ResourceBase(CategoryApi[op]) = Path(<<"goods", "category">>)
    <3>1. ResourceBase(CategoryApi["create"]) = Path(<<"goods", "category">>)
      BY <1>1, <1>2, Bases DEF CategoryApi
    <3>2. ResourceBase(CategoryApi["update"]) = Path(<<"goods", "category">>)
      BY <1>1, <1>2, Bases DEF CategoryApi
    <3>3. ResourceBase(CategoryApi["delete"]) = Path(<<"goods", "category">>)
      BY <1>1, <1>2, Bases DEF CategoryApi
    <3>4. ResourceBase(CategoryApi["migrate"]) = Path(<<"goods", "category">>)
      BY <1>1, <1>2, Bases DEF CategoryApi
    <3>5. QED BY <2>1, <3>1, <3>2, <3>3, <3>4 DEF Plain
  <2>4. QED BY <1>1, <1>2, <1>3, <2>2, <2>3, Bases DEF Drops, Invalidates
<1>7. CASE page = "products"
  <2>1. op \in {"shelf", "delete"}
    BY <1>7 DEF WritesOf
  <2>2. Api[page][op] = ProductApi[op] /\ Api[page]["load"] = Path(<<"goods", "spu", "admin">>)
    BY <1>7 DEF Api, ProductApi
  <2>3. ResourceBase(ProductApi[op]) = Path(<<"goods", "spu">>)
    <3>1. ResourceBase(ProductApi["shelf"]) = Path(<<"goods", "spu">>)
      BY <1>1, <1>2, Bases DEF ProductApi
    <3>2. ResourceBase(ProductApi["delete"]) = Path(<<"goods", "spu">>)
      BY <1>1, <1>2, Bases DEF ProductApi
    <3>3. QED BY <2>1, <3>1, <3>2
  <2>4. QED BY <1>1, <1>2, <1>3, <2>2, <2>3, Bases DEF Drops, Invalidates
<1>8. CASE page = "coupons"
  <2>1. op \in Plain
    BY <1>8 DEF WritesOf
  <2>2. Api[page][op] = CouponApi[op] /\ Api[page]["load"] = Path(<<"promotion", "coupon">>)
    BY <1>8 DEF Api, CouponApi
  <2>3. ResourceBase(CouponApi[op]) = Path(<<"promotion", "coupon">>)
    <3>1. ResourceBase(CouponApi["create"]) = Path(<<"promotion", "coupon">>)
      BY <1>1, <1>2, Bases DEF CouponApi
    <3>2. ResourceBase(CouponApi["update"]) = Path(<<"promotion", "coupon">>)
      BY <1>1, <1>2, Bases DEF CouponApi
    <3>3. ResourceBase(CouponApi["delete"]) = Path(<<"promotion", "coupon">>)
      BY <1>1, <1>2, Bases DEF CouponApi
    <3>4. QED BY <2>1, <3>1, <3>2, <3>3 DEF Plain
  <2>4. QED BY <1>1, <1>2, <1>3, <2>2, <2>3, Bases DEF Drops, Invalidates
<1>9. CASE page = "recycle"
  <2>1. op \in {"restore", "permanent"}
    BY <1>9 DEF WritesOf
  <2>2. Api[page][op] = RecycleApi[op] /\ Api[page]["load"] = Path(<<"goods", "recycle">>)
    BY <1>9 DEF Api, RecycleApi
  <2>3. ResourceBase(RecycleApi[op]) = Path(<<"goods", "recycle">>)
    <3>1. ResourceBase(RecycleApi["restore"]) = Path(<<"goods", "recycle">>)
      BY <1>1, <1>2, Bases DEF RecycleApi
    <3>2. ResourceBase(RecycleApi["permanent"]) = Path(<<"goods", "recycle">>)
      BY <1>1, <1>2, Bases DEF RecycleApi
    <3>3. QED BY <2>1, <3>1, <3>2
  <2>4. QED BY <1>1, <1>2, <1>3, <2>2, <2>3, Bases DEF Drops, Invalidates
<1>10. QED BY <1>4, <1>5, <1>6, <1>7, <1>8, <1>9 DEF Caching

-----------------------------------------------------------------------------
(***************************************************************************)
(* What every handler is built from.                                       *)
(***************************************************************************)
LEMMA SeqWider ==
    ASSUME NEW S, NEW T, S \subseteq T, NEW s \in Seq(S)
    PROVE  s \in Seq(T)
<1>1. s \in [1..Len(s) -> S] /\ Len(s) \in Nat
  OBVIOUS
<1>2. s \in [1..Len(s) -> T]
  BY <1>1
<1>3. QED BY <1>1, <1>2, SeqDef

\* An element of a sequence replaced.
LEMMA SeqUpdate ==
    ASSUME NEW S, NEW s \in Seq(S), NEW i \in 1..Len(s), NEW e \in S
    PROVE  [s EXCEPT ![i] = e] \in Seq(S)
<1>1. s \in [1..Len(s) -> S] /\ Len(s) \in Nat
  OBVIOUS
<1>2. [s EXCEPT ![i] = e] \in [1..Len(s) -> S]
  BY <1>1
<1>3. QED BY <1>1, <1>2, SeqDef

LEMMA FirstType ==
    BlankRows \in Table
<1>1. [st |-> "absent", ver |-> 0] \in [st : Statuses, ver : Nat]
  BY DEF Statuses
<1>2. QED BY <1>1 DEF BlankRows, Table

\* A call that has just been sent.
LEMMA SentCall ==
    ASSUME NEW op \in {"load"} \cup WritesOf[page], op # "task", NEW rows \in SUBSET Maybe, NEW v \in Views[page],
           NEW to \in Statuses \cup {"same"}, NEW from \in SUBSET Statuses, NEW D, NEW A
    PROVE  /\ Call(op, rows, v, to, from) \in Traffic(D, A)
           /\ Call(op, rows, v, to, from).op = op /\ Call(op, rows, v, to, from).rows = rows
<1>1. Call(op, rows, v, to, from) \in CallType
  BY FirstType DEF Call, CallType
<1>2. to # "refresh"
  BY DEF Statuses, Live
<1>3. QED BY <1>1, <1>2 DEF Traffic, Truthful, Call

LEMMA AppendCall ==
    ASSUME NEW S, NEW cs \in Seq(S), NEW c \in S
    PROVE  /\ Append(cs, c) \in Seq(S) /\ Len(Append(cs, c)) = Len(cs) + 1 /\ Append(cs, c)[Len(cs) + 1] = c
           /\ Append(cs, c) # cs
           /\ Loading(cs) \/ c.op = "load" => Loading(Append(cs, c))
<1>1. /\ Append(cs, c) \in Seq(S) /\ Len(Append(cs, c)) = Len(cs) + 1 /\ Append(cs, c)[Len(cs) + 1] = c
      /\ \A i \in 1..Len(cs) : Append(cs, c)[i] = cs[i]
  OBVIOUS
<1>2. DOMAIN cs = 1..Len(cs) /\ DOMAIN Append(cs, c) = 1..(Len(cs) + 1) /\ Len(cs) \in Nat
  OBVIOUS
<1>3. Loading(cs) => Loading(Append(cs, c))
  BY <1>1, <1>2 DEF Loading
<1>4. c.op = "load" => Loading(Append(cs, c))
  BY <1>1, <1>2 DEF Loading
<1>5. Append(cs, c) # cs
  <2>1. \A n \in Nat : n + 1 # n
    OBVIOUS
  <2>2. QED BY <1>1, <1>2, <2>1
<1>6. QED BY <1>1, <1>3, <1>4, <1>5

\* A list is loaded: from what is kept, or by a call; nothing need be known of what was shown.
LEMMA LoadViewSafe ==
    ASSUME page \in Caching, NEW s, NEW D, Consistent(s, D), NEW v \in Views[page]
    PROVE  /\ Safe(LoadView(s, v), D)
           /\ LoadView(s, v).ui.view = s.ui.view /\ LoadView(s, v).ui.waiting = s.ui.waiting
           /\ \/ s.cache[v] # NoList /\ LoadView(s, v).net = s.net
              \/ s.cache[v] = NoList /\ LoadView(s, v).net = Append(s.net, Call("load", {}, v, "same", {}))
<1> DEFINE A == s.hist.acked
           c == Call("load", {}, v, "same", {})
           t == LoadView(s, v)
<1>1. /\ DOMAIN s = {"ui", "net", "cache", "hist"} /\ UiFields \subseteq DOMAIN s.ui /\ s.ui.view \in Views[page] /\ s.ui.rows \in Table
      /\ IsHist(s.hist, D) /\ s.net \in Seq(Traffic(D, A)) /\ IsCache(s.cache, s.hist)
  BY DEF Consistent, IsUi
<1>2. c \in Traffic(D, A) /\ c.op = "load"
  <2>1. "load" \in {"load"} \cup WritesOf[page] /\ "load" # "task" /\ {} \in SUBSET Maybe /\ "same" \in Statuses \cup {"same"} /\ {} \in SUBSET Statuses
    OBVIOUS
  <2>2. QED BY <2>1, SentCall
<1>3. CASE s.cache[v] = NoList
  <2>1. /\ DOMAIN t = {"ui", "net", "cache", "hist"} /\ t.net = Append(s.net, c) /\ t.cache = s.cache /\ t.hist = s.hist
        /\ UiFields \subseteq DOMAIN t.ui /\ t.ui.view = s.ui.view /\ t.ui.rows = s.ui.rows /\ t.ui.waiting = s.ui.waiting
    BY <1>1, <1>3 DEF LoadView, UiFields
  <2>2. t.net \in Seq(Traffic(D, A)) /\ Loading(t.net)
    BY <1>1, <1>2, <2>1, AppendCall
  <2>3. QED BY <1>1, <1>3, <2>1, <2>2 DEF Safe, Consistent, Shown, IsUi
<1>4. CASE s.cache[v] # NoList
  <2>1. /\ DOMAIN t = {"ui", "net", "cache", "hist"} /\ t.net = s.net /\ t.cache = s.cache /\ t.hist = s.hist
        /\ UiFields \subseteq DOMAIN t.ui /\ t.ui.view = s.ui.view /\ t.ui.rows = s.cache[v] /\ t.ui.shown = v /\ t.ui.waiting = s.ui.waiting
    BY <1>1, <1>4 DEF LoadView, UiFields
  <2>2. s.cache[v] \in Table /\ (v \notin s.hist.overtaken => AtLeast(s.cache[v], A))
    BY <1>1, <1>4 DEF IsCache, Keys
  <2>3. QED BY <1>1, <1>4, <2>1, <2>2 DEF Safe, Consistent, Shown, IsUi
<1>5. QED BY <1>3, <1>4

\* What is neither the table shown, nor its view, nor a success said of it, may change.
Alike(s, t) ==
  /\ DOMAIN t = {"ui", "net", "cache", "hist"} /\ t.net = s.net /\ t.cache = s.cache /\ t.hist = s.hist
  /\ UiFields \subseteq DOMAIN t.ui /\ t.ui.view = s.ui.view /\ t.ui.rows = s.ui.rows /\ t.ui.shown = s.ui.shown
  /\ s.ui.error => t.ui.error
LEMMA AlikeSafe ==
    ASSUME NEW s, NEW t, NEW D, Alike(s, t)
    PROVE  (Consistent(s, D) => Consistent(t, D)) /\ (Safe(s, D) => Safe(t, D))
BY DEF Alike, Safe, Consistent, Shown, IsUi

LEMMA SendSafe ==
    ASSUME NEW s, NEW D, Consistent(s, D), NEW op \in WritesOf[page], op # "task", NEW rows \in SUBSET Maybe,
           NEW to \in Statuses \cup {"same"}, NEW from \in SUBSET Statuses
    PROVE  /\ Consistent(Send(s, op, rows, to, from), D)
           /\ Shown(s) => Safe(Send(s, op, rows, to, from), D)
           /\ Send(s, op, rows, to, from).ui = s.ui
           /\ Send(s, op, rows, to, from).net = Append(s.net, Call(op, rows, s.ui.view, to, from))
<1> DEFINE A == s.hist.acked
           c == Call(op, rows, s.ui.view, to, from)
           t == Send(s, op, rows, to, from)
<1>1. /\ DOMAIN s = {"ui", "net", "cache", "hist"} /\ s.ui.view \in Views[page] /\ DOMAIN s.hist = HistFields
      /\ s.net \in Seq(Traffic(D, A))
  BY DEF Consistent, IsUi, IsHist
<1>2. c \in Traffic(D, A)
  BY <1>1, SentCall
<1>3. /\ DOMAIN t = {"ui", "net", "cache", "hist"} /\ t.net = Append(s.net, c) /\ t.cache = s.cache /\ t.ui = s.ui
      /\ DOMAIN t.hist = HistFields /\ t.hist.acked = A /\ t.hist.overtaken = s.hist.overtaken
  BY <1>1 DEF Send, HistFields
<1>4. t.net \in Seq(Traffic(D, A)) /\ (Loading(s.net) => Loading(t.net))
  BY <1>1, <1>2, <1>3, AppendCall
<1> HIDE DEF t, c
<1>5. Consistent(t, D)
  BY <1>3, <1>4 DEF Consistent, IsHist, IsCache
<1>6. Shown(s) => Shown(t)
  BY <1>3, <1>4 DEF Shown
<1>7. QED BY <1>3, <1>5, <1>6 DEF Safe, t, c

\* A call under way to which the handler adds what its answer is for.
LEMMA TaggedSafe ==
    ASSUME NEW s, NEW D, Consistent(s, D), NEW i \in DOMAIN s.net, NEW c,
           c.op = s.net[i].op, c \in Traffic(D, s.hist.acked)
    PROVE  /\ Consistent([s EXCEPT !.net[i] = c], D)
           /\ Safe(s, D) => Safe([s EXCEPT !.net[i] = c], D)
<1> DEFINE A == s.hist.acked
           t == [s EXCEPT !.net[i] = c]
<1>1. DOMAIN s = {"ui", "net", "cache", "hist"} /\ s.net \in Seq(Traffic(D, A)) /\ i \in 1..Len(s.net)
  BY DEF Consistent
<1>2. /\ DOMAIN t = {"ui", "net", "cache", "hist"} /\ t.net = [s.net EXCEPT ![i] = c] /\ t.cache = s.cache /\ t.ui = s.ui
      /\ t.hist = s.hist
  BY <1>1
<1>3. t.net \in Seq(Traffic(D, A))
  BY <1>1, <1>2, SeqUpdate
<1>4. DOMAIN t.net = DOMAIN s.net /\ \A j \in DOMAIN t.net : t.net[j].op = s.net[j].op
  BY <1>1, <1>2
<1>5. Loading(s.net) <=> Loading(t.net)
  BY <1>4 DEF Loading
<1> HIDE DEF t
<1>6. Consistent(t, D)
  BY <1>2, <1>3 DEF Consistent
<1>7. Shown(s) => Shown(t)
  BY <1>2, <1>5 DEF Shown
<1>8. QED BY <1>6, <1>7 DEF Safe, t

\* A step of anybody's, and a handler's state that becomes the next one.
LEMMA Goes ==
    ASSUME page \in Caching, page' = page, NEW k, k = Here', NEW D, D = db', D \in Table, Safe(k, D), Picks(k.ui)
    PROVE  Console'
<1>1. Traffic(D, k.hist.acked)' = Traffic(D, k.hist.acked)
  BY DEF Traffic, CallType, Truthful, AtMost, AtLeast
<1>2. Keys' = Keys /\ (Loading(k.net)' <=> Loading(k.net))
  BY DEF Keys, Loading
<1>3. Consistent(k, D)'
  BY <1>1, <1>2 DEF Safe, Consistent, IsUi, IsHist, IsCache, AtLeast
<1>4. Shown(k)'
  BY <1>2 DEF Safe, Shown, AtLeast
<1>5. Safe(Here, db)'
  BY <1>3, <1>4 DEF Safe
<1>6. Picks(ui)'
  BY DEF Picks, Forms, Maybe, Here
<1>7. QED BY <1>5, <1>6 DEF Console

LEMMA DoSafe ==
    ASSUME page \in Caching, db \in Table, NEW s, Safe(s, db), Picks(s.ui), Do(s)
    PROVE  Console'
<1>1. page' = page /\ db' = db /\ ui' = s.ui /\ cache' = s.cache /\ net' = s.net /\ hist' = s.hist
  BY DEF Do
<1>2. PICK k : k = Here'
  OBVIOUS
<1>3. DOMAIN k = {"ui", "net", "cache", "hist"} /\ k.ui = s.ui /\ k.cache = s.cache /\ k.net = s.net /\ k.hist = s.hist
  BY <1>1, <1>2 DEF Here
<1>4. Safe(k, db)
  BY <1>3 DEF Safe, Consistent, Shown
<1>5. PICK D : D = db
  OBVIOUS
<1>6. QED BY <1>1, <1>2, <1>3, <1>4, <1>5, Goes

-----------------------------------------------------------------------------
(***************************************************************************)
(* What the client makes of an answer, and of a call that gets none.       *)
(***************************************************************************)
Replied(s, c, D) ==
  /\ Consistent(s, D) /\ c \in CallType /\ c.op # "task"
  /\ IF c.op = "load" THEN Safe(Loaded(s, c), D) ELSE (c.st = "ok" /\ c.op # "batch") \/ Shown(s)

\* On these pages a call is a load or a write.
LEMMA NoDetail ==
    ASSUME page \in Caching, NEW c \in CallType
    PROVE  /\ IsGet(c) <=> c.op = "load"
           /\ c.op # "load" => c.op \in WritesOf[page]
           /\ c.op = "load" => KeyOf(c) = c.view
<1>1. "detail" \notin WritesOf[page] /\ "load" \notin WritesOf[page]
  BY DEF Caching, WritesOf, Plain
<1>2. QED BY <1>1 DEF CallType, IsGet, KeyOf

\* The calls that stay when one is taken out.
LEMMA Others ==
    ASSUME NEW S, NEW cs \in Seq(S), NEW i \in DOMAIN cs
    PROVE  /\ RemoveAt(cs, i) \in Seq(S)
           /\ cs[i].op # "load" => (Loading(RemoveAt(cs, i)) <=> Loading(cs))
<1> DEFINE rs == RemoveAt(cs, i)
<1>1. i \in 1..Len(cs) /\ DOMAIN cs = 1..Len(cs) /\ Len(cs) \in Nat
  OBVIOUS
<1>2. /\ rs \in Seq(S) /\ Len(rs) = Len(cs) - 1
      /\ \A j \in 1..Len(rs) : rs[j] = cs[IF j < i THEN j ELSE j + 1]
  BY <1>1, RemoveAtFacts
<1> HIDE DEF rs
<1>3. DOMAIN rs = 1..(Len(cs) - 1)
  BY <1>2
<1>4. Loading(rs) => Loading(cs)
  <2> SUFFICES ASSUME NEW j \in DOMAIN rs, rs[j].op = "load" PROVE Loading(cs)
    BY DEF Loading
  <2>1. (IF j < i THEN j ELSE j + 1) \in DOMAIN cs
    BY <1>1, <1>3
  <2>2. QED BY <1>2, <1>3, <2>1 DEF Loading
<1>5. ASSUME cs[i].op # "load", Loading(cs) PROVE Loading(rs)
  <2>1. PICK k \in DOMAIN cs : cs[k].op = "load"
    BY <1>5 DEF Loading
  <2>2. k # i
    BY <1>5, <2>1
  <2>3. CASE k < i
    <3>1. k \in DOMAIN rs
      BY <1>1, <1>3, <2>3
    <3>2. rs[k] = cs[k]
      BY <1>2, <1>3, <3>1, <2>3
    <3>3. QED BY <2>1, <3>1, <3>2 DEF Loading
  <2>4. CASE k > i
    <3>1. k - 1 \in DOMAIN rs /\ ~(k - 1 < i) /\ (k - 1) + 1 = k
      BY <1>1, <1>3, <2>4
    <3>2. rs[k - 1] = cs[k]
      BY <1>2, <1>3, <3>1
    <3>3. QED BY <2>1, <3>1, <3>2 DEF Loading
  <2>5. QED BY <1>1, <2>2, <2>3, <2>4
<1>6. QED BY <1>2, <1>4, <1>5 DEF rs

\* Calls that were overtaken by a write.
LEMMA Overtaken ==
    ASSUME NEW D, NEW A, NEW B, NEW cs \in Seq(Traffic(D, A)), NEW os, os = [j \in DOMAIN cs |-> [cs[j] EXCEPT !.old = TRUE]]
    PROVE  os \in Seq(Traffic(D, B)) /\ (Loading(os) <=> Loading(cs))
<1>1. DOMAIN cs = 1..Len(cs) /\ Len(cs) \in Nat
  OBVIOUS
<1>2. ASSUME NEW j \in DOMAIN cs PROVE os[j] \in Traffic(D, B) /\ os[j].op = cs[j].op
  <2>1. cs[j] \in CallType /\ Truthful(cs[j], D, A)
    BY <1>2 DEF Traffic
  <2>2. os[j] = [cs[j] EXCEPT !.old = TRUE]
    BY <1>2
  <2>3. os[j] \in CallType /\ os[j].old
    BY <2>1, <2>2 DEF CallType
  <2>4. os[j].op = cs[j].op /\ os[j].st = cs[j].st /\ os[j].to = cs[j].to /\ os[j].got = cs[j].got
    BY <2>1, <2>2 DEF CallType
  <2>5. QED BY <2>1, <2>3, <2>4 DEF Traffic, Truthful
<1>3. os \in [1..Len(cs) -> Traffic(D, B)]
  BY <1>1, <1>2
<1>4. os \in Seq(Traffic(D, B))
  BY <1>1, <1>3, SeqDef
<1>5. Loading(os) <=> Loading(cs)
  BY <1>2 DEF Loading
<1>6. QED BY <1>4, <1>5

LEMMA ReceivedSafe ==
    ASSUME page \in Caching, db \in Table, Safe(Here, db), NEW i \in DOMAIN net, net[i].st \in {"ok", "no", "conflict"}
    PROVE  Replied(Received(i, Drops(net[i].op)), net[i], db)
<1> DEFINE c == net[i]
           A == hist.acked
           drops == Drops(c.op)
           saved == ~IsGet(c) /\ c.st = "ok"
           w == WithoutCall(i)
           s == Received(i, drops)
<1>1. /\ IsUi(ui) /\ IsHist(hist, db) /\ net \in Seq(Traffic(db, A)) /\ IsCache(cache, hist)
      /\ DOMAIN hist = HistFields /\ A \in [Rows -> Nat] /\ \A r \in Rows : A[r] <= db[r].ver
  BY DEF Safe, Consistent, Here, IsHist
<1>2. c \in CallType /\ Truthful(c, db, A)
  BY <1>1 DEF Traffic
<1>3. c.op # "task"
  BY <1>2 DEF Truthful
<1>4. w \in Seq(Traffic(db, A)) /\ (c.op # "load" => (Loading(w) <=> Loading(net)))
  BY <1>1, Others DEF WithoutCall
<1>5. (IsGet(c) <=> c.op = "load") /\ (c.op # "load" => c.op \in WritesOf[page]) /\ (c.op = "load" => KeyOf(c) = c.view)
  BY <1>2, NoDetail
<1>6. Shown(Here) <=> Loading(net) \/ ui.error \/ ui.shown \in hist.overtaken \/ AtLeast(ui.rows, A)
  BY DEF Shown, Here
<1>7. DOMAIN s = {"ui", "net", "cache", "hist"} /\ s.ui = ui /\ s.net = [j \in DOMAIN w |-> IF saved THEN [w[j] EXCEPT !.old = TRUE] ELSE w[j]]
  BY DEF Received
<1>8. CASE c.op = "load"
  <2>1. ~saved
    BY <1>5, <1>8
  <2>2. s.net = w
    BY <1>4, <1>7, <2>1
  <2>3. s.cache = [cache EXCEPT ![c.view] = IF c.st = "ok" THEN c.got ELSE NoList]
    BY <1>5, <1>8, <2>1 DEF Received
  <2>4. /\ c.st = "ok" => s.hist = [hist EXCEPT !.overtaken = IF c.old THEN @ \cup {c.view} ELSE @ \ {c.view}]
        /\ c.st # "ok" => s.hist = hist
    BY <1>8, <2>1 DEF Received
  <2>5. /\ DOMAIN s.hist = HistFields /\ s.hist.acked = A
        /\ c.st = "ok" => s.hist.overtaken = IF c.old THEN hist.overtaken \cup {c.view} ELSE hist.overtaken \ {c.view}
        /\ c.st # "ok" => s.hist.overtaken = hist.overtaken
    BY <1>1, <2>4 DEF HistFields
  <2>6. c.view \in Views[page] /\ c.got \in Table /\ c.view \in Keys
    BY <1>2 DEF CallType, Keys
  <2>7. c.st = "ok" /\ ~c.old => AtLeast(c.got, A)
    BY <1>2, <1>8 DEF Truthful
  <2> HIDE DEF s, w, saved, A
  <2>8. IsCache(s.cache, s.hist)
    <3>1. cache \in [Keys -> Table \cup {NoList}] /\ \A v \in Views[page] : cache[v] # NoList /\ v \notin hist.overtaken => AtLeast(cache[v], A)
      BY <1>1 DEF IsCache, A
    <3>2. s.cache \in [Keys -> Table \cup {NoList}]
      BY <2>3, <2>6, <3>1
    <3>3. ASSUME NEW v \in Views[page], s.cache[v] # NoList, v \notin s.hist.overtaken PROVE AtLeast(s.cache[v], A)
      <4>1. v \in Keys
        BY DEF Keys
      <4>2. CASE v = c.view
        <5>1. c.st = "ok" /\ s.cache[v] = c.got
          BY <2>3, <3>1, <3>3, <4>1, <4>2
        <5>2. ~c.old
          BY <2>5, <3>3, <4>2, <5>1
        <5>3. QED BY <2>7, <5>1, <5>2
      <4>3. CASE v # c.view
        <5>1. s.cache[v] = cache[v] /\ v \notin hist.overtaken
          BY <2>3, <2>5, <3>1, <3>3, <4>1, <4>3
        <5>2. QED BY <3>1, <3>3, <5>1
      <4>4. QED BY <4>2, <4>3
    <3>4. QED BY <2>5, <3>2, <3>3 DEF IsCache
  <2>9. Consistent(s, db)
    BY <1>1, <1>4, <1>7, <2>2, <2>5, <2>8 DEF Consistent, IsHist, A
  <2> DEFINE t == Loaded(s, c)
  <2>10. /\ DOMAIN t = {"ui", "net", "cache", "hist"} /\ t.net = s.net /\ t.cache = s.cache /\ t.hist = s.hist
         /\ UiFields \subseteq DOMAIN t.ui /\ t.ui.view = ui.view
         /\ c.st = "ok" => t.ui.rows = c.got /\ t.ui.shown = c.view
         /\ c.st # "ok" => t.ui.error /\ t.ui.rows = ui.rows
    BY <1>1, <1>7 DEF Loaded, IsUi, UiFields
  <2> HIDE DEF t
  <2>11. IsUi(t.ui)
    BY <1>1, <2>6, <2>10 DEF IsUi
  <2>12. Consistent(t, db)
    BY <2>9, <2>10, <2>11 DEF Consistent
  <2>13. Shown(t)
    <3>1. CASE c.st = "ok"
      <4>1. c.old => t.ui.shown \in t.hist.overtaken
        BY <2>5, <2>10, <3>1
      <4>2. ~c.old => AtLeast(t.ui.rows, t.hist.acked)
        BY <2>5, <2>7, <2>10, <3>1
      <4>3. QED BY <4>1, <4>2 DEF Shown
    <3>2. CASE c.st # "ok"
      BY <2>10, <3>2 DEF Shown
    <3>3. QED BY <3>1, <3>2
  <2>14. QED BY <1>2, <1>3, <1>8, <2>9, <2>12, <2>13 DEF Replied, Safe, t, s
<1>9. CASE c.op # "load" /\ ~saved
  <2>1. s.net = w
    BY <1>4, <1>7, <1>9
  <2>2. s.cache = cache /\ s.hist = hist
    BY <1>5, <1>9 DEF Received
  <2>3. c.st # "ok"
    BY <1>5, <1>9
  <2> HIDE DEF s, w, saved, A
  <2>4. Consistent(s, db)
    BY <1>1, <1>4, <1>7, <2>1, <2>2 DEF Consistent, A
  <2>5. Shown(s)
    BY <1>4, <1>6, <1>7, <1>9, <2>1, <2>2 DEF Shown, A, Safe
  <2>6. QED BY <1>2, <1>3, <1>9, <2>4, <2>5 DEF Replied, s
<1>10. CASE c.op # "load" /\ saved
  <2> DEFINE B == s.hist.acked
  <2>1. s.net = [j \in DOMAIN w |-> [w[j] EXCEPT !.old = TRUE]]
    BY <1>7, <1>10
  <2>2. s.cache = IF drops THEN [k \in Keys |-> NoList] ELSE cache
    BY <1>10 DEF Received
  <2>3. s.hist = IF c.op # "batch" THEN [hist EXCEPT !.acked = [r \in Rows |-> IF r \in c.rows THEN c.got[r].ver ELSE @[r]]] ELSE hist
    BY <1>10 DEF Received
  <2>4. /\ DOMAIN s.hist = HistFields /\ s.hist.overtaken = hist.overtaken
        /\ B = IF c.op # "batch" THEN [r \in Rows |-> IF r \in c.rows THEN c.got[r].ver ELSE A[r]] ELSE A
    BY <1>1, <2>3 DEF HistFields
  <2>5. c.got \in Table /\ AtMost(c.got, db) /\ c.st = "ok"
    BY <1>2, <1>10 DEF CallType, Truthful
  <2>6. B \in [Rows -> Nat] /\ \A r \in Rows : B[r] <= db[r].ver
    <3> HIDE DEF B, A
    <3>1. \A r \in Rows : c.got[r].ver \in Nat /\ c.got[r].ver <= db[r].ver
      BY <2>5 DEF Table, AtMost
    <3>2. QED BY <1>1, <2>4, <3>1
  <2>7. c.op # "batch" => drops
    BY <1>3, <1>5, <1>10, WritesDrop
  <2> HIDE DEF s, w, saved, A, drops
  <2>8. IsCache(s.cache, s.hist)
    <3>1. CASE drops
      BY <2>2, <3>1 DEF IsCache, Keys
    <3>2. CASE ~drops
      BY <1>1, <2>2, <2>4, <2>7, <3>2 DEF IsCache, A
    <3>3. QED BY <3>1, <3>2
  <2>9. s.net \in Seq(Traffic(db, B)) /\ (Loading(s.net) <=> Loading(w))
    BY <1>4, <2>1, Overtaken
  <2>10. Consistent(s, db)
    BY <1>1, <1>7, <2>4, <2>6, <2>8, <2>9 DEF Consistent, IsHist
  <2>11. c.op = "batch" => Shown(s)
    BY <1>4, <1>6, <1>7, <1>10, <2>4, <2>9 DEF Shown, A, Safe
  <2>12. QED BY <1>2, <1>3, <1>10, <2>5, <2>10, <2>11 DEF Replied, s, drops
<1>11. QED BY <1>8, <1>9, <1>10

LEMMA GivenUpSafe ==
    ASSUME page \in Caching, db \in Table, Safe(Here, db), NEW i \in DOMAIN net, net[i].op # "task"
    PROVE  Replied(GivenUp(i), [net[i] EXCEPT !.st = "no"], db)
<1> DEFINE n == net[i]
           c == [n EXCEPT !.st = "no"]
           A == hist.acked
           s == GivenUp(i)
<1>1. /\ IsUi(ui) /\ IsHist(hist, db) /\ net \in Seq(Traffic(db, A)) /\ IsCache(cache, hist)
      /\ DOMAIN Here = {"ui", "net", "cache", "hist"} /\ Here.ui = ui /\ Here.net = net /\ Here.cache = cache /\ Here.hist = hist
  BY DEF Safe, Consistent, Here
<1>2. n \in CallType /\ Truthful(n, db, A) /\ i \in 1..Len(net)
  BY <1>1 DEF Traffic
<1>3. /\ c \in CallType /\ c.op = n.op /\ c.st = "no" /\ c.op # "task"
  BY <1>2 DEF CallType
<1>4. (IsGet(n) <=> n.op = "load") /\ (n.op = "load" => KeyOf(n) = n.view)
  BY <1>2, NoDetail
<1>5. Shown(Here) <=> Loading(net) \/ ui.error \/ ui.shown \in hist.overtaken \/ AtLeast(ui.rows, A)
  BY DEF Shown, Here
<1>6. CASE n.op = "load"
  <2>1. /\ DOMAIN s = {"ui", "net", "cache", "hist"} /\ s.ui = ui /\ s.net = WithoutCall(i) /\ s.hist = hist
        /\ s.cache = [cache EXCEPT ![n.view] = NoList]
    BY <1>1, <1>4, <1>6 DEF GivenUp
  <2> HIDE DEF s
  <2>2. s.net \in Seq(Traffic(db, A))
    BY <1>1, <2>1, Others DEF WithoutCall
  <2>3. IsCache(s.cache, s.hist)
    BY <1>1, <2>1 DEF IsCache, Keys
  <2>4. Consistent(s, db)
    BY <1>1, <2>1, <2>2, <2>3 DEF Consistent
  <2> DEFINE t == Loaded(s, c)
  <2> HIDE DEF c
  <2>5. /\ DOMAIN t = {"ui", "net", "cache", "hist"} /\ t.net = s.net /\ t.cache = s.cache /\ t.hist = s.hist
        /\ UiFields \subseteq DOMAIN t.ui /\ t.ui.view = ui.view /\ t.ui.error /\ t.ui.rows = ui.rows
    BY <1>1, <1>3, <2>1 DEF Loaded, IsUi, UiFields
  <2> HIDE DEF t
  <2>6. Consistent(t, db) /\ Shown(t)
    BY <1>1, <2>4, <2>5 DEF Consistent, IsUi, Shown
  <2>7. QED BY <1>3, <1>6, <2>4, <2>6 DEF Replied, Safe, t, s, c
<1>7. CASE n.op # "load"
  <2> DEFINE o == [n EXCEPT !.st = "orphan"]
  <2>1. /\ DOMAIN s = {"ui", "net", "cache", "hist"} /\ s.ui = ui /\ s.hist = hist /\ s.cache = cache
        /\ s.net = [net EXCEPT ![i] = o]
    BY <1>1, <1>4, <1>7 DEF GivenUp
  <2>2. o \in CallType /\ o.op = n.op /\ o.st = "orphan" /\ o.to = n.to
    BY <1>2 DEF CallType
  <2>3. o \in Traffic(db, A)
    BY <1>2, <1>7, <2>2 DEF Traffic, Truthful
  <2> DEFINE t == [Here EXCEPT !.net[i] = o]
  <2>4. Safe(t, db)
    BY <1>1, <2>2, <2>3, TaggedSafe DEF Safe
  <2>5. DOMAIN t = {"ui", "net", "cache", "hist"} /\ t.ui = ui /\ t.hist = hist /\ t.cache = cache /\ t.net = s.net
    BY <1>1, <2>1
  <2> HIDE DEF s, o, t
  <2>6. Safe(s, db)
    BY <2>1, <2>4, <2>5 DEF Safe, Consistent, Shown
  <2>7. QED BY <1>3, <1>7, <2>6 DEF Replied, Safe, s
<1>8. QED BY <1>6, <1>7

-----------------------------------------------------------------------------
(***************************************************************************)
(* The user's steps.                                                       *)
(***************************************************************************)
LEMMA HereFields ==
    ASSUME page \in Caching, Console
    PROVE  /\ DOMAIN Here = {"ui", "net", "cache", "hist"} /\ Here.ui = ui /\ Here.net = net /\ Here.cache = cache /\ Here.hist = hist
           /\ UiFields \subseteq DOMAIN ui /\ Picks(ui) /\ ui.view \in Views[page] /\ db \in Table /\ Safe(Here, db)
BY DEF Console, Safe, Consistent, IsUi, Here

LEMMA KeptGoes ==
    ASSUME page \in Caching, Console, NEW x, Alike(Here, x), Picks(x.ui), Do(x)
    PROVE  Console'
BY DoSafe, AlikeSafe DEF Console

LEMMA SentGoes ==
    ASSUME page \in Caching, Console, NEW op \in WritesOf[page], op # "task", NEW rows \in SUBSET Maybe,
           NEW to \in Statuses \cup {"same"}, NEW from \in SUBSET Statuses,
           NEW x, Alike(Send(Here, op, rows, to, from), x), Picks(x.ui), Do(x)
    PROVE  Console'
<1>1. Consistent(Here, db) /\ Shown(Here) /\ db \in Table
  BY DEF Console, Safe
<1>2. Safe(Send(Here, op, rows, to, from), db)
  BY <1>1, SendSafe
<1>3. Safe(x, db)
  BY <1>2, AlikeSafe
<1>4. QED BY <1>1, <1>3, DoSafe

LEMMA SendFields ==
    ASSUME page \in Caching, Console, NEW op, NEW rows, NEW to, NEW from
    PROVE  LET s == Send(Here, op, rows, to, from)
           IN  DOMAIN s = {"ui", "net", "cache", "hist"} /\ s.ui = ui /\ s.net = Append(net, Call(op, rows, ui.view, to, from))
               /\ s.cache = cache /\ s.hist = [hist EXCEPT !.writes = @ + 1]
BY HereFields DEF Send

LEMMA LoadViewPicks ==
    ASSUME NEW s, NEW v, DOMAIN s = {"ui", "net", "cache", "hist"}, Picks(s.ui)
    PROVE  Picks(LoadView(s, v).ui)
<1> DEFINE t == LoadView(s, v)
<1>1. UiFields \subseteq DOMAIN s.ui
  BY DEF Picks
<1>2. /\ DOMAIN t.ui = DOMAIN s.ui /\ t.ui.form = s.ui.form /\ t.ui.doomed = s.ui.doomed /\ t.ui.picked = s.ui.picked
      /\ t.ui.node = s.ui.node /\ t.ui.urlId = s.ui.urlId
  BY <1>1 DEF LoadView, UiFields
<1> HIDE DEF t
<1>3. QED BY <1>2 DEF Picks, t

LEMMA LoadGoes ==
    ASSUME page \in Caching, Console, NEW s, Consistent(s, db), Picks(s.ui), NEW v \in Views[page], Do(LoadView(s, v))
    PROVE  Console'
<1>1. DOMAIN s = {"ui", "net", "cache", "hist"} /\ db \in Table
  BY DEF Consistent, Console
<1>2. Safe(LoadView(s, v), db) /\ Picks(LoadView(s, v).ui)
  BY <1>1, LoadViewSafe, LoadViewPicks
<1>3. QED BY <1>1, <1>2, DoSafe

\* What the dialogs do to a page's state.
LEMMA Touched ==
    ASSUME NEW s, DOMAIN s = {"ui", "net", "cache", "hist"}, Picks(s.ui), NEW f \in Forms, NEW l, NEW d \in Maybe, NEW b
    PROVE  /\ LET x == [s EXCEPT !.ui.form = f, !.ui.leave = l] IN Alike(s, x) /\ Picks(x.ui)
           /\ LET x == [s EXCEPT !.ui.form = f] IN Alike(s, x) /\ Picks(x.ui)
           /\ LET x == [s EXCEPT !.ui.leave = l] IN Alike(s, x) /\ Picks(x.ui)
           /\ LET x == [s EXCEPT !.ui.doomed = d] IN Alike(s, x) /\ Picks(x.ui)
           /\ LET x == [s EXCEPT !.ui.busy = b] IN Alike(s, x) /\ Picks(x.ui)
<1> USE DEF UiFields
<1>1. LET x == [s EXCEPT !.ui.form = f, !.ui.leave = l] IN Alike(s, x) /\ Picks(x.ui)
  BY DEF Alike, Picks
<1>2. LET x == [s EXCEPT !.ui.form = f] IN Alike(s, x) /\ Picks(x.ui)
  BY DEF Alike, Picks
<1>3. LET x == [s EXCEPT !.ui.leave = l] IN Alike(s, x) /\ Picks(x.ui)
  BY DEF Alike, Picks
<1>4. LET x == [s EXCEPT !.ui.doomed = d] IN Alike(s, x) /\ Picks(x.ui)
  BY DEF Alike, Picks
<1>5. LET x == [s EXCEPT !.ui.busy = b] IN Alike(s, x) /\ Picks(x.ui)
  BY DEF Alike, Picks
<1>6. QED BY <1>1, <1>2, <1>3, <1>4, <1>5

LEMMA FormSteps ==
    ASSUME page \in Caching, Console, NEW f \in Forms, NEW l, NEW d \in Maybe, NEW b
    PROVE  /\ LET x == [Here EXCEPT !.ui.form = f, !.ui.leave = l] IN Alike(Here, x) /\ Picks(x.ui)
           /\ LET x == [Here EXCEPT !.ui.form = f] IN Alike(Here, x) /\ Picks(x.ui)
           /\ LET x == [Here EXCEPT !.ui.leave = l] IN Alike(Here, x) /\ Picks(x.ui)
           /\ LET x == [Here EXCEPT !.ui.doomed = d] IN Alike(Here, x) /\ Picks(x.ui)
           /\ LET x == [Here EXCEPT !.ui.busy = b] IN Alike(Here, x) /\ Picks(x.ui)
<1>1. PICK s : s = Here
  OBVIOUS
<1>2. DOMAIN s = {"ui", "net", "cache", "hist"} /\ Picks(s.ui)
  BY <1>1, HereFields
<1>3. QED BY <1>1, <1>2, Touched

LEMMA FormKinds ==
    NoForm \in Forms /\ NewForm \in Forms /\ \A r \in Maybe : EditForm(r) \in Forms
BY DEF NoForm, NewForm, EditForm, Forms, Maybe

LEMMA DialogSteps ==
    ASSUME page \in Caching, Console, TypeForm \/ CloseDialog \/ Discard \/ Keep \/ CancelConfirm \/ ForceUnlock
    PROVE  Console'
<1>1. NoForm \in Forms /\ NoRow \in Maybe /\ ui.form \in Forms /\ "form" \in DOMAIN ui
  BY FormKinds, HereFields DEF Maybe, Picks, UiFields
<1>2. CASE TypeForm
  <2>1. PICK text \in {"initial", "typed", "blank"} : Do([Here EXCEPT !.ui.form.text = text])
    BY <1>2 DEF TypeForm
  <2> DEFINE f == [ui.form EXCEPT !.text = text]
  <2>2. f \in Forms
    BY <1>1 DEF Forms
  <2>3. [Here EXCEPT !.ui.form.text = text] = [Here EXCEPT !.ui.form = f]
    BY <1>1, HereFields
  <2> HIDE DEF f
  <2> DEFINE x == [Here EXCEPT !.ui.form = f]
  <2>4. Alike(Here, x) /\ Picks(x.ui)
    BY <1>1, <2>2, FormSteps
  <2> HIDE DEF x
  <2>5. QED BY <2>1, <2>3, <2>4, KeptGoes DEF x
<1>3. CASE CloseDialog
  BY <1>1, <1>3, FormSteps, KeptGoes DEF CloseDialog, RequestClose, CloseForm
<1>4. CASE Discard
  BY <1>1, <1>4, FormSteps, KeptGoes DEF Discard, CloseForm
<1>5. CASE Keep
  BY <1>1, <1>5, FormSteps, KeptGoes DEF Keep
<1>6. CASE CancelConfirm
  BY <1>1, <1>6, FormSteps, KeptGoes DEF CancelConfirm, Doom
<1>7. CASE ForceUnlock
  BY <1>1, <1>7, FormSteps, KeptGoes DEF ForceUnlock, Unlock
<1>8. QED BY <1>2, <1>3, <1>4, <1>5, <1>6, <1>7

\* A row's form or its question opened, as on every page that has them.
LEMMA OpenSteps ==
    ASSUME page \in Caching, Console, NEW r \in Maybe,
           Do(OpenForm(Here, NewForm)) \/ Do(OpenForm(Here, EditForm(r))) \/ Do(Doom(Here, r))
    PROVE  Console'
<1>1. CASE Do(OpenForm(Here, NewForm))
  BY <1>1, FormKinds, FormSteps, KeptGoes DEF OpenForm
<1>2. CASE Do(OpenForm(Here, EditForm(r)))
  BY <1>2, FormKinds, FormSteps, KeptGoes DEF OpenForm
<1>3. CASE Do(Doom(Here, r))
  BY <1>3, FormKinds, FormSteps, KeptGoes DEF Doom
<1>4. QED BY <1>1, <1>2, <1>3

\* A record created, updated or deleted, under the lock or not.
LEMMA PlainSteps ==
    ASSUME page \in Caching, Console, Plain \subseteq WritesOf[page], NEW r \in Maybe,
           \/ Do(Create(Here, r)) \/ Do(Lock(Create(Here, r)))
           \/ Do(Update(Here, r)) \/ Do(Lock(Update(Here, r)))
           \/ Do(Delete(Here, r))
    PROVE  Console'
<1> USE HereFields, SendFields DEF UiFields
<1>1. ASSUME NEW op \in Plain, NEW to \in Statuses \cup {"same"}, NEW from \in SUBSET Statuses,
             \/ Do(Send(Here, op, {r}, to, from)) \/ Do(Lock(Send(Here, op, {r}, to, from)))
      PROVE  Console'
  <2> DEFINE s == Send(Here, op, {r}, to, from)
             l == [s EXCEPT !.ui.busy = TRUE]
  <2>1. op \in WritesOf[page] /\ op # "task" /\ {r} \in SUBSET Maybe
    BY DEF Plain
  <2>2. DOMAIN s = {"ui", "net", "cache", "hist"} /\ s.ui = ui /\ Picks(ui)
    OBVIOUS
  <2> HIDE DEF s
  <2>3. Alike(s, s) /\ Alike(s, l) /\ Picks(s.ui) /\ Picks(l.ui)
    BY <2>2 DEF Alike, Picks
  <2> HIDE DEF l
  <2>4. Do(s) \/ Do(l)
    BY <1>1 DEF Lock, s, l
  <2>5. QED BY <2>1, <2>3, <2>4, SentGoes DEF s
<1>2. "on" \in Statuses /\ "gone" \in Statuses /\ {"absent"} \in SUBSET Statuses /\ Live \in SUBSET Statuses
  BY DEF Statuses, Live
<1>3. QED BY <1>1, <1>2 DEF Create, Update, Delete, Plain

LEMMA AlikeTrans ==
    ASSUME NEW s, NEW t, NEW u, Alike(s, t), Alike(t, u)
    PROVE  Alike(s, u)
BY DEF Alike

LEMMA Reload ==
    ASSUME page \in Caching, NEW s, NEW D, Consistent(s, D), NEW t, Alike(s, t), Picks(t.ui), NEW v \in Views[page]
    PROVE  Safe(LoadView(t, v), D) /\ Picks(LoadView(t, v).ui)
<1>1. Consistent(t, D) /\ DOMAIN t = {"ui", "net", "cache", "hist"}
  BY AlikeSafe DEF Alike
<1>2. QED BY <1>1, LoadViewSafe, LoadViewPicks

LEMMA LoadedPicks ==
    ASSUME NEW s, DOMAIN s = {"ui", "net", "cache", "hist"}, Picks(s.ui), NEW c
    PROVE  Picks(Loaded(s, c).ui)
<1> DEFINE t == Loaded(s, c)
<1>1. UiFields \subseteq DOMAIN s.ui
  BY DEF Picks
<1>2. /\ DOMAIN t.ui = DOMAIN s.ui /\ t.ui.form = s.ui.form /\ t.ui.doomed = s.ui.doomed /\ t.ui.picked = s.ui.picked
      /\ t.ui.node = s.ui.node /\ t.ui.urlId = s.ui.urlId
  BY <1>1 DEF Loaded, UiFields
<1> HIDE DEF t
<1>3. QED BY <1>2 DEF Picks, t

\* What a page's answers need of the state they are given, and what they leave.
LEMMA RepliedFacts ==
    ASSUME page \in Caching, NEW s, NEW c, NEW D, Replied(s, c, D), Picks(s.ui)
    PROVE  /\ Consistent(s, D) /\ DOMAIN s = {"ui", "net", "cache", "hist"} /\ s.ui.view \in Views[page] /\ c.view \in Views[page]
           /\ c.op # "load" /\ ~(c.st = "ok" /\ c.op # "batch") => Safe(s, D)
           /\ c.op = "load" => Safe(Loaded(s, c), D) /\ Picks(Loaded(s, c).ui)
           /\ \A t : Alike(s, t) /\ Picks(t.ui) =>
                /\ \A v \in Views[page] : Safe(LoadView(t, v), D) /\ Picks(LoadView(t, v).ui)
                /\ Safe(Load(t), D) /\ Picks(Load(t).ui)
                /\ c.op # "load" /\ ~(c.st = "ok" /\ c.op # "batch") => Safe(t, D)
<1>1. Consistent(s, D) /\ DOMAIN s = {"ui", "net", "cache", "hist"} /\ s.ui.view \in Views[page] /\ c.view \in Views[page]
  BY DEF Replied, Consistent, IsUi, CallType
<1>2. c.op # "load" /\ ~(c.st = "ok" /\ c.op # "batch") => Safe(s, D)
  BY DEF Replied, Safe
<1>3. c.op = "load" => Safe(Loaded(s, c), D) /\ Picks(Loaded(s, c).ui)
  BY <1>1, LoadedPicks DEF Replied
<1>4. ASSUME NEW t, Alike(s, t), Picks(t.ui)
      PROVE  /\ \A v \in Views[page] : Safe(LoadView(t, v), D) /\ Picks(LoadView(t, v).ui)
             /\ Safe(Load(t), D) /\ Picks(Load(t).ui)
             /\ c.op # "load" /\ ~(c.st = "ok" /\ c.op # "batch") => Safe(t, D)
  <2>1. \A v \in Views[page] : Safe(LoadView(t, v), D) /\ Picks(LoadView(t, v).ui)
    BY <1>1, <1>4, Reload
  <2>2. t.ui.view \in Views[page]
    BY <1>1, <1>4 DEF Alike
  <2>3. Safe(Load(t), D) /\ Picks(Load(t).ui)
    BY <2>1, <2>2 DEF Load
  <2>4. QED BY <1>2, <1>4, <2>1, <2>3, AlikeSafe
<1>5. QED BY <1>1, <1>2, <1>3, <1>4

-----------------------------------------------------------------------------
(***************************************************************************)
(* Brands and tags.                                                        *)
(***************************************************************************)
LEMMA BrandsReplySafe ==
    ASSUME page = "brands", NEW s, NEW c, NEW D, Replied(s, c, D), Picks(s.ui)
    PROVE  Safe(BrandsReply(s, c), D) /\ Picks(BrandsReply(s, c).ui)
<1>1. page \in Caching /\ NoForm \in Forms /\ NoRow \in Maybe /\ c.op # "batch"
  BY FormKinds DEF Caching, Maybe, Replied, CallType, WritesOf, Plain
<1>2. DOMAIN s = {"ui", "net", "cache", "hist"}
  BY <1>1, RepliedFacts
<1>3. CASE c.op = "load"
  BY <1>1, <1>3, RepliedFacts DEF BrandsReply
<1>4. CASE c.op = "delete"
  <2>1. Alike(s, Doom(s, NoRow)) /\ Picks(Doom(s, NoRow).ui)
    BY <1>1, <1>2, Touched DEF Doom
  <2>2. QED BY <1>1, <1>4, <2>1, RepliedFacts DEF BrandsReply, BrandsDeleted
<1>5. CASE c.op \notin {"load", "delete"}
  <2>1. Alike(s, Unlock(s)) /\ Picks(Unlock(s).ui)
    BY <1>1, <1>2, Touched DEF Unlock
  <2>2. Alike(Unlock(s), CloseForm(Unlock(s))) /\ Picks(CloseForm(Unlock(s)).ui)
    <3>1. PICK t : t = Unlock(s)
      OBVIOUS
    <3>2. DOMAIN t = {"ui", "net", "cache", "hist"} /\ Picks(t.ui)
      BY <2>1, <3>1 DEF Alike
    <3>3. QED BY <1>1, <3>1, <3>2, Touched DEF CloseForm
  <2>3. Alike(s, CloseForm(Unlock(s)))
    BY <2>1, <2>2, AlikeTrans
  <2>4. QED BY <1>1, <1>5, <2>1, <2>2, <2>3, RepliedFacts DEF BrandsReply, BrandsSaved
<1>6. QED BY <1>3, <1>4, <1>5

LEMMA BrandsSteps ==
    ASSUME page = "brands", Console, BrandsNext
    PROVE  Console'
<1>1. page \in Caching /\ Plain \subseteq WritesOf[page] /\ Rows \subseteq Maybe /\ NoRow \in Maybe
  BY DEF Caching, WritesOf, Maybe
<1>2. ui.form.row \in Maybe /\ ui.doomed \in Maybe
  BY <1>1, HereFields DEF Picks, Forms
<1>3. CASE BrandsOpenCreate \/ BrandsOpenEdit \/ BrandsAskDelete
  BY <1>1, <1>3, OpenSteps DEF BrandsOpenCreate, BrandsOpenEdit, BrandsAskDelete
<1>4. CASE BrandsSave \/ BrandsDelete
  BY <1>1, <1>2, <1>4, PlainSteps DEF BrandsSave, BrandsDelete, Fresh
<1>5. CASE TypeForm \/ CloseDialog \/ Discard \/ Keep \/ CancelConfirm \/ ForceUnlock
  BY <1>1, <1>5, DialogSteps
<1>6. QED BY <1>3, <1>4, <1>5 DEF BrandsNext

LEMMA TagsReplySafe ==
    ASSUME page = "tags", NEW s, NEW c, NEW D, Replied(s, c, D), Picks(s.ui)
    PROVE  Safe(TagsReply(s, c), D) /\ Picks(TagsReply(s, c).ui)
<1>1. page \in Caching /\ NoForm \in Forms /\ NoRow \in Maybe /\ c.op # "batch"
  BY FormKinds DEF Caching, Maybe, Replied, CallType, WritesOf, Plain
<1>2. DOMAIN s = {"ui", "net", "cache", "hist"}
  BY <1>1, RepliedFacts
<1>3. CASE c.op = "load"
  BY <1>1, <1>3, RepliedFacts DEF TagsReply
<1>4. CASE c.op = "delete"
  <2>1. Alike(s, Doom(s, NoRow)) /\ Picks(Doom(s, NoRow).ui)
    BY <1>1, <1>2, Touched DEF Doom
  <2>2. QED BY <1>1, <1>4, <2>1, RepliedFacts DEF TagsReply, TagsDeleted
<1>5. CASE c.op \notin {"load", "delete"}
  <2>1. Alike(s, CloseForm(s)) /\ Picks(CloseForm(s).ui)
    BY <1>1, <1>2, Touched DEF CloseForm
  <2>2. QED BY <1>1, <1>5, <2>1, RepliedFacts DEF TagsReply, TagsSaved
<1>6. QED BY <1>3, <1>4, <1>5

LEMMA TagsSteps ==
    ASSUME page = "tags", Console, TagsNext
    PROVE  Console'
<1>1. page \in Caching /\ Plain \subseteq WritesOf[page] /\ Rows \subseteq Maybe /\ NoRow \in Maybe
  BY DEF Caching, WritesOf, Maybe
<1>2. ui.form.row \in Maybe /\ ui.doomed \in Maybe
  BY <1>1, HereFields DEF Picks, Forms
<1>3. CASE TagsOpenCreate \/ TagsOpenEdit \/ TagsAskDelete
  BY <1>1, <1>3, OpenSteps DEF TagsOpenCreate, TagsOpenEdit, TagsAskDelete
<1>4. CASE TagsSave \/ TagsDelete
  BY <1>1, <1>2, <1>4, PlainSteps DEF TagsSave, TagsDelete, Fresh
<1>5. CASE TypeForm \/ CloseDialog \/ Discard \/ Keep \/ CancelConfirm
  BY <1>1, <1>5, DialogSteps
<1>6. QED BY <1>3, <1>4, <1>5 DEF TagsNext

-----------------------------------------------------------------------------
(***************************************************************************)
(* Categories: every handler is followed by the effect that selects what   *)
(* the URL names.                                                          *)
(***************************************************************************)
LEMMA ReplayAlike ==
    ASSUME page = "categories", NEW s, DOMAIN s = {"ui", "net", "cache", "hist"}, Picks(s.ui)
    PROVE  Alike(s, CategoriesReplay(s)) /\ Picks(CategoriesReplay(s).ui)
<1> DEFINE id == s.ui.urlId
           t == CategoriesSelected(s, id)
<1>1. id \in Maybe /\ EditForm(id) \in Forms
  BY FormKinds DEF Picks
<1>2. Alike(s, s)
  BY DEF Alike, Picks
<1>3. Alike(s, t)
  BY DEF CategoriesSelected, Alike, Picks, UiFields
<1>4. DOMAIN t.ui = DOMAIN s.ui /\ t.ui.form = EditForm(id) /\ t.ui.doomed = s.ui.doomed /\ t.ui.picked = s.ui.picked
      /\ t.ui.node = id /\ t.ui.urlId = id
  BY DEF CategoriesSelected, Picks, UiFields
<1> HIDE DEF t, id
<1>5. Picks(t.ui)
  BY <1>1, <1>4 DEF Picks
<1>6. QED BY <1>2, <1>3, <1>5 DEF CategoriesReplay, t, id

LEMMA CategoryGoes ==
    ASSUME page = "categories", Console, NEW x, Picks(x.ui), CategoriesDo(x),
           \/ Alike(Here, x)
           \/ \E op \in {"create", "update", "delete", "migrate"}, rows \in SUBSET Maybe, to \in Statuses \cup {"same"}, from \in SUBSET Statuses :
                Alike(Send(Here, op, rows, to, from), x)
    PROVE  Console'
<1>1. page \in Caching /\ DOMAIN x = {"ui", "net", "cache", "hist"}
  BY DEF Caching, Alike
<1> DEFINE y == CategoriesReplay(x)
<1>2. Alike(x, y) /\ Picks(y.ui) /\ Do(y)
  BY <1>1, ReplayAlike DEF CategoriesDo
<1> HIDE DEF y
<1>3. CASE Alike(Here, x)
  BY <1>1, <1>2, <1>3, AlikeTrans, KeptGoes
<1>4. ASSUME NEW op \in {"create", "update", "delete", "migrate"}, NEW rows \in SUBSET Maybe, NEW to \in Statuses \cup {"same"}, NEW from \in SUBSET Statuses,
             Alike(Send(Here, op, rows, to, from), x)
      PROVE  Console'
  <2>1. op \in WritesOf[page] /\ op # "task"
    BY DEF WritesOf, Plain
  <2>2. Alike(Send(Here, op, rows, to, from), y)
    BY <1>2, <1>4, AlikeTrans
  <2>3. QED BY <1>1, <1>2, <2>1, <2>2, SentGoes
<1>5. QED BY <1>3, <1>4

LEMMA CategoriesReplySafe ==
    ASSUME page = "categories", NEW s, NEW c, NEW D, Replied(s, c, D), Picks(s.ui)
    PROVE  Safe(CategoriesReply(s, c), D) /\ Picks(CategoriesReply(s, c).ui)
<1> DEFINE x == IF c.op = "load" THEN Loaded(s, c)
                ELSE IF c.op = "delete" THEN CategoriesDeleted(s, c)
                ELSE IF c.op = "migrate" THEN CategoriesMigrated(s, c)
                ELSE CategoriesSaved(s, c)
<1>1. page \in Caching /\ NoRow \in Maybe /\ c.op # "batch"
  BY DEF Caching, Maybe, Replied, CallType, WritesOf, Plain
<1>2. DOMAIN s = {"ui", "net", "cache", "hist"}
  BY <1>1, RepliedFacts
<1>3. Safe(x, D) /\ Picks(x.ui)
  <2>1. CASE c.op = "load"
    BY <1>1, <2>1, RepliedFacts
  <2>2. CASE c.op = "delete"
    <3> DEFINE a == [s EXCEPT !.ui.node = NoRow, !.ui.nodeVer = 0, !.ui.asking = FALSE]
               b == [s EXCEPT !.ui.asking = FALSE]
    <3>1. Alike(s, a) /\ Picks(a.ui) /\ Alike(s, b) /\ Picks(b.ui)
      BY <1>1, <1>2 DEF Alike, Picks, UiFields
    <3> HIDE DEF a, b
    <3>2. c.st = "ok" => Safe(Load(a), D) /\ Picks(Load(a).ui)
      BY <1>1, <3>1, RepliedFacts
    <3>3. c.st # "ok" => Safe(b, D)
      BY <1>1, <2>2, <3>1, RepliedFacts
    <3>4. x = IF c.st = "ok" THEN Load(a) ELSE b
      BY <2>2 DEF CategoriesDeleted, a, b
    <3>5. QED BY <3>1, <3>2, <3>3, <3>4
  <2>3. CASE c.op = "migrate"
    <3> DEFINE a == [s EXCEPT !.ui.mode = "view"]
    <3>1. Alike(s, a) /\ Picks(a.ui)
      BY <1>2 DEF Alike, Picks, UiFields
    <3> HIDE DEF a
    <3>2. c.st = "ok" => Safe(Load(a), D) /\ Picks(Load(a).ui)
      BY <1>1, <3>1, RepliedFacts
    <3>3. c.st # "ok" => Safe(s, D)
      BY <1>1, <2>3, RepliedFacts
    <3>4. x = IF c.st = "ok" THEN Load(a) ELSE s
      BY <2>3 DEF CategoriesMigrated, a
    <3>5. QED BY <3>2, <3>3, <3>4
  <2>4. CASE c.op \notin {"load", "delete", "migrate"}
    <3> DEFINE a == IF c.op = "update" THEN Unlock(s) ELSE s
               l == Load(a)
               m == [l EXCEPT !.ui.mode = "view"]
    <3>1. Alike(s, a) /\ Picks(a.ui)
      BY <1>2 DEF Unlock, Alike, Picks, UiFields
    <3>2. x = IF c.st = "ok" THEN m ELSE a
      BY <2>4 DEF CategoriesSaved
    <3> HIDE DEF a
    <3>3. Safe(l, D) /\ Picks(l.ui)
      BY <1>1, <3>1, RepliedFacts
    <3>4. c.st # "ok" => Safe(a, D)
      BY <1>1, <2>4, <3>1, RepliedFacts
    <3> HIDE DEF l
    <3>5. Alike(l, m) /\ Picks(m.ui)
      BY <3>3 DEF Alike, Picks, UiFields, Safe, Consistent
    <3>6. Safe(m, D)
      BY <3>3, <3>5, AlikeSafe
    <3>7. QED BY <3>1, <3>2, <3>4, <3>5, <3>6
  <2>5. QED BY <2>1, <2>2, <2>3, <2>4
<1>4. CategoriesReply(s, c) = CategoriesReplay(x)
  BY DEF CategoriesReply
<1> HIDE DEF x
<1>5. QED BY <1>3, <1>4, ReplayAlike, AlikeSafe DEF Safe, Consistent

LEMMA CategoriesSteps ==
    ASSUME page = "categories", Console, CategoriesNext
    PROVE  Console'
<1>1. page \in Caching /\ Rows \subseteq Maybe /\ NoRow \in Maybe
  BY DEF Caching, Maybe
<1>2. NewForm \in Forms /\ \A r \in Maybe : EditForm(r) \in Forms
  BY FormKinds
<1>3. ui.node \in Maybe /\ ui.form \in Forms
  BY <1>1, HereFields DEF Picks
<1>4. DOMAIN Here = {"ui", "net", "cache", "hist"} /\ Here.ui = ui /\ Picks(ui) /\ ui.view \in Views[page]
  BY <1>1, HereFields
<1>5. CASE CategoriesSelect
  <2>1. PICK r \in Rows : CategoriesDo(CategoriesSelected(Here, r))
    BY <1>5 DEF CategoriesSelect, Present
  <2> DEFINE x == CategoriesSelected(Here, r)
  <2>2. Alike(Here, x) /\ Picks(x.ui)
    BY <1>1, <1>2, <1>4 DEF CategoriesSelected, Alike, Picks, UiFields
  <2> HIDE DEF x
  <2>3. QED BY <2>1, <2>2, CategoryGoes DEF x
<1>6. CASE CategoriesCreate
  <2> DEFINE x == [Here EXCEPT !.ui.creating = TRUE, !.ui.node = NoRow, !.ui.nodeVer = 0, !.ui.mode = "create",
                            !.ui.form = NewForm, !.ui.urlId = NoRow]
  <2>1. Alike(Here, x) /\ Picks(x.ui)
    BY <1>1, <1>2, <1>4 DEF Alike, Picks, UiFields
  <2>2. CategoriesDo(x)
    BY <1>6 DEF CategoriesCreate
  <2> HIDE DEF x
  <2>3. QED BY <2>1, <2>2, CategoryGoes
<1>7. CASE CategoriesType
  <2>1. PICK text \in {"initial", "typed", "blank"} : CategoriesDo([Here EXCEPT !.ui.form.text = text])
    BY <1>7 DEF CategoriesType
  <2> DEFINE f == [ui.form EXCEPT !.text = text]
             x == [Here EXCEPT !.ui.form.text = text]
  <2>2. f \in Forms
    BY <1>3 DEF Forms
  <2>3. Alike(Here, x) /\ UiFields \subseteq DOMAIN x.ui /\ DOMAIN x.ui = DOMAIN ui /\ x.ui.form = f /\ x.ui.doomed = ui.doomed
        /\ x.ui.picked = ui.picked /\ x.ui.node = ui.node /\ x.ui.urlId = ui.urlId
    BY <1>4 DEF Alike, Picks, UiFields
  <2> HIDE DEF x, f
  <2>4. Picks(x.ui)
    BY <1>4, <2>2, <2>3 DEF Picks
  <2>5. QED BY <2>1, <2>3, <2>4, CategoryGoes DEF x
<1>8. CASE CategoriesMode \/ CategoriesAim
  <2> DEFINE m(v) == [Here EXCEPT !.ui.mode = v]
             n(v, w) == [Here EXCEPT !.ui.mode = v, !.ui.source = w]
             a(v) == [Here EXCEPT !.ui.asking = v]
             b(v) == [Here EXCEPT !.ui.source = v]
             d(v) == [Here EXCEPT !.ui.target = v]
  <2>1. \A v, w : /\ Alike(Here, m(v)) /\ Picks(m(v).ui) /\ Alike(Here, n(v, w)) /\ Picks(n(v, w).ui)
                  /\ Alike(Here, a(v)) /\ Picks(a(v).ui) /\ Alike(Here, b(v)) /\ Picks(b(v).ui)
                  /\ Alike(Here, d(v)) /\ Picks(d(v).ui)
    <3> TAKE v, w
    <3>1. Alike(Here, m(v)) /\ Picks(m(v).ui)
      BY <1>4 DEF Alike, Picks, UiFields
    <3>2. Alike(Here, n(v, w)) /\ Picks(n(v, w).ui)
      BY <1>4 DEF Alike, Picks, UiFields
    <3>3. Alike(Here, a(v)) /\ Picks(a(v).ui)
      BY <1>4 DEF Alike, Picks, UiFields
    <3>4. Alike(Here, b(v)) /\ Picks(b(v).ui)
      BY <1>4 DEF Alike, Picks, UiFields
    <3>5. Alike(Here, d(v)) /\ Picks(d(v).ui)
      BY <1>4 DEF Alike, Picks, UiFields
    <3> HIDE DEF m, n, a, b, d
    <3>6. QED BY <3>1, <3>2, <3>3, <3>4, <3>5
  <2>2. \E v, w : CategoriesDo(m(v)) \/ CategoriesDo(n(v, w)) \/ CategoriesDo(a(v)) \/ CategoriesDo(b(v)) \/ CategoriesDo(d(v))
    BY <1>8 DEF CategoriesMode, CategoriesAim
  <2> HIDE DEF m, n, a, b, d
  <2>3. QED BY <2>1, <2>2, CategoryGoes
<1>9. CASE CategoriesRetry
  <2> DEFINE x == Load(Here)
  <2>1. Safe(x, db) /\ Picks(x.ui) /\ CategoriesDo(x)
    BY <1>1, <1>4, <1>9, HereFields, LoadViewSafe, LoadViewPicks DEF CategoriesRetry, Load, Safe
  <2> HIDE DEF x
  <2>2. Safe(CategoriesReplay(x), db) /\ Picks(CategoriesReplay(x).ui)
    BY <2>1, ReplayAlike, AlikeSafe DEF Safe, Consistent
  <2>3. QED BY <1>1, <2>1, <2>2, DoSafe, HereFields DEF CategoriesDo
<1>10. CASE CategoriesSave \/ CategoriesDelete \/ CategoriesMigrate
  <2> DEFINE c(op, rows, to, from) == Send(Here, op, rows, to, from)
             l(op, rows, to, from) == Lock(c(op, rows, to, from))
  <2>1. \A op, rows, to, from :
          /\ Alike(c(op, rows, to, from), c(op, rows, to, from)) /\ Picks(c(op, rows, to, from).ui)
          /\ Alike(c(op, rows, to, from), l(op, rows, to, from)) /\ Picks(l(op, rows, to, from).ui)
    <3> TAKE op, rows, to, from
    <3> DEFINE s == c(op, rows, to, from)
    <3>1. DOMAIN s = {"ui", "net", "cache", "hist"} /\ s.ui = ui
      BY <1>1, SendFields
    <3> HIDE DEF c, s
    <3>2. Alike(s, s) /\ Picks(s.ui) /\ Alike(s, Lock(s)) /\ Picks(Lock(s).ui)
      BY <1>4, <3>1 DEF Lock, Alike, Picks, UiFields
    <3>3. QED BY <3>2 DEF s
  <2>2. "on" \in Statuses /\ "gone" \in Statuses /\ {"absent"} \in SUBSET Statuses /\ Live \in SUBSET Statuses
    BY DEF Statuses, Live
  <2>3. \E op \in {"create", "update", "delete", "migrate"}, rows \in SUBSET Maybe, to \in Statuses \cup {"same"}, from \in SUBSET Statuses :
          CategoriesDo(c(op, rows, to, from)) \/ CategoriesDo(l(op, rows, to, from))
    BY <1>1, <1>3, <1>10, <2>2 DEF CategoriesSave, CategoriesDelete, CategoriesMigrate, Create, Update, Delete, Fresh
  <2> HIDE DEF l
  <2>4. QED BY <2>1, <2>3, CategoryGoes
<1>11. CASE ForceUnlock
  BY <1>1, <1>11, DialogSteps
<1>12. QED BY <1>5, <1>6, <1>7, <1>8, <1>9, <1>10, <1>11 DEF CategoriesNext

-----------------------------------------------------------------------------
(***************************************************************************)
(* Coupons and the recycle bin.                                            *)
(***************************************************************************)
LEMMA GoToGoes ==
    ASSUME page \in Caching, Console, NEW url, GoTo(url)
    PROVE  Console'
<1> DEFINE s == [Here EXCEPT !.ui.view = url]
<1>1. url \in Views[page] /\ Do(IF url = ui.view THEN Here ELSE Load(s))
  BY DEF GoTo
<1>2. CASE url = ui.view
  BY <1>1, <1>2, HereFields, DoSafe
<1>3. CASE url # ui.view
  <2>1. Consistent(s, db) /\ Picks(s.ui) /\ s.ui.view = url
    BY <1>1, HereFields DEF Safe, Consistent, IsUi, Picks, UiFields
  <2> HIDE DEF s
  <2>2. QED BY <1>1, <1>3, <2>1, LoadGoes DEF Load
<1>4. QED BY <1>2, <1>3

LEMMA RetryGoes ==
    ASSUME page \in Caching, Console, Do(Load(Here))
    PROVE  Console'
<1>1. Consistent(Here, db) /\ Picks(Here.ui) /\ Here.ui.view \in Views[page]
  BY HereFields DEF Safe
<1>2. QED BY <1>1, LoadGoes DEF Load

LEMMA CouponsReplySafe ==
    ASSUME page = "coupons", NEW s, NEW c, NEW D, Replied(s, c, D), Picks(s.ui)
    PROVE  Safe(CouponsReply(s, c), D) /\ Picks(CouponsReply(s, c).ui)
<1>1. page \in Caching /\ NoForm \in Forms /\ NoRow \in Maybe /\ c.op # "batch"
  BY FormKinds DEF Caching, Maybe, Replied, CallType, WritesOf, Plain
<1>2. DOMAIN s = {"ui", "net", "cache", "hist"} /\ c.view \in Views[page] /\ Consistent(s, D)
  BY <1>1, RepliedFacts
<1>3. CASE c.op = "load"
  BY <1>1, <1>3, RepliedFacts DEF CouponsReply
<1>4. CASE c.op = "delete"
  <2> DEFINE a == Doom(s, NoRow)
             r == KeyOf(c)
             b == [a EXCEPT !.ui.rows[r] = c.got[r]]
  <2>1. Alike(s, a) /\ Picks(a.ui)
    BY <1>1, <1>2, Touched DEF Doom
  <2>2. CouponsReply(s, c) = IF c.st = "ok" THEN LoadView(b, c.view) ELSE a
    BY <1>4 DEF CouponsReply, CouponsDeleted
  <2>3. c.got \in Table
    BY DEF Replied, CallType
  <2>4. Consistent(a, D)
    BY <1>2, <2>1, AlikeSafe
  <2> HIDE DEF a, r
  <2>5. /\ DOMAIN b = {"ui", "net", "cache", "hist"} /\ b.net = a.net /\ b.cache = a.cache /\ b.hist = a.hist
        /\ DOMAIN b.ui = DOMAIN a.ui /\ b.ui.view = a.ui.view /\ b.ui.rows = [a.ui.rows EXCEPT ![r] = c.got[r]]
        /\ b.ui.form = a.ui.form /\ b.ui.doomed = a.ui.doomed /\ b.ui.picked = a.ui.picked
    BY <2>1, <2>4 DEF Consistent, IsUi, UiFields
  <2> HIDE DEF b
  <2>6. b.ui.rows \in Table
    <3>1. a.ui.rows \in Table
      BY <2>4 DEF Consistent, IsUi
    <3>2. QED BY <2>3, <2>5, <3>1 DEF Table
  <2>7. Consistent(b, D) /\ Picks(b.ui)
    BY <2>1, <2>4, <2>5, <2>6 DEF Consistent, IsUi, Picks
  <2>8. Safe(LoadView(b, c.view), D) /\ Picks(LoadView(b, c.view).ui)
    BY <1>1, <1>2, <2>5, <2>7, LoadViewSafe, LoadViewPicks
  <2>9. c.st # "ok" => Safe(a, D)
    BY <1>1, <1>4, <2>1, RepliedFacts
  <2>10. QED BY <2>1, <2>2, <2>8, <2>9
<1>5. CASE c.op \notin {"load", "delete"}
  <2> DEFINE a == Unlock(s)
             b == [a EXCEPT !.ui.form = NoForm]
  <2>1. Alike(s, a) /\ Picks(a.ui)
    BY <1>1, <1>2, Touched DEF Unlock
  <2>2. CouponsReply(s, c) = IF c.st = "ok" THEN LoadView(b, c.view) ELSE a
    BY <1>5 DEF CouponsReply, CouponsSaved
  <2> HIDE DEF a
  <2>3. Alike(a, b) /\ Picks(b.ui)
    <3>1. DOMAIN a = {"ui", "net", "cache", "hist"}
      BY <2>1 DEF Alike
    <3>2. QED BY <1>1, <2>1, <3>1, Touched
  <2> HIDE DEF b
  <2>4. Alike(s, b)
    BY <2>1, <2>3, AlikeTrans
  <2>5. QED BY <1>1, <1>2, <1>5, <2>1, <2>2, <2>3, <2>4, RepliedFacts
<1>6. QED BY <1>3, <1>4, <1>5

LEMMA CouponsSteps ==
    ASSUME page = "coupons", Console, CouponsNext
    PROVE  Console'
<1>1. page \in Caching /\ Plain \subseteq WritesOf[page] /\ Rows \subseteq Maybe /\ NoRow \in Maybe
  BY DEF Caching, WritesOf, Maybe
<1>2. ui.form.row \in Maybe /\ ui.doomed \in Maybe
  BY <1>1, HereFields DEF Picks, Forms
<1>3. CASE CouponsOpenCreate \/ CouponsOpenEdit \/ CouponsAskDelete
  BY <1>1, <1>3, OpenSteps DEF CouponsOpenCreate, CouponsOpenEdit, CouponsAskDelete
<1>4. CASE CouponsSave \/ CouponsDelete
  BY <1>1, <1>2, <1>4, PlainSteps DEF CouponsSave, CouponsDelete, Fresh
<1>5. CASE CouponsSearch \/ CouponsTurnPage
  BY <1>1, <1>5, GoToGoes DEF CouponsSearch, CouponsTurnPage, TurnPage
<1>6. CASE TypeForm \/ CloseDialog \/ Discard \/ Keep \/ CancelConfirm \/ ForceUnlock
  BY <1>1, <1>6, DialogSteps
<1>7. QED BY <1>3, <1>4, <1>5, <1>6 DEF CouponsNext

LEMMA RecycleReplySafe ==
    ASSUME page = "recycle", NEW s, NEW c, NEW D, Replied(s, c, D), Picks(s.ui)
    PROVE  Safe(RecycleReply(s, c), D) /\ Picks(RecycleReply(s, c).ui)
<1>1. page \in Caching /\ c.op # "batch"
  BY DEF Caching, Replied, CallType, WritesOf
<1>2. Alike(s, s)
  BY <1>1, RepliedFacts DEF Alike, Picks
<1>3. QED BY <1>1, <1>2, RepliedFacts DEF RecycleReply

LEMMA RecycleSteps ==
    ASSUME page = "recycle", Console, RecycleNext
    PROVE  Console'
<1>1. page \in Caching /\ Rows \subseteq Maybe /\ NoRow \in Maybe
  BY DEF Caching, Maybe
<1>2. DOMAIN Here = {"ui", "net", "cache", "hist"} /\ Here.ui = ui /\ Picks(ui) /\ UiFields \subseteq DOMAIN ui /\ ui.doomed \in Maybe
  BY <1>1, HereFields DEF Picks
<1>3. CASE RecycleRetry
  BY <1>1, <1>3, RetryGoes DEF RecycleRetry
<1>4. CASE RecycleAsk
  <2>1. PICK r \in Rows : Do([Doom(Here, r) EXCEPT !.ui.mode = "restore"]) \/ Do([Doom(Here, r) EXCEPT !.ui.mode = "first", !.ui.twice = r])
    BY <1>4 DEF RecycleAsk
  <2> DEFINE x == [Doom(Here, r) EXCEPT !.ui.mode = "restore"]
             y == [Doom(Here, r) EXCEPT !.ui.mode = "first", !.ui.twice = r]
  <2>2. Alike(Here, x) /\ Picks(x.ui)
    BY <1>1, <1>2 DEF Doom, Alike, Picks, UiFields
  <2>3. Alike(Here, y) /\ Picks(y.ui)
    BY <1>1, <1>2 DEF Doom, Alike, Picks, UiFields
  <2> HIDE DEF x, y
  <2>4. QED BY <1>1, <2>1, <2>2, <2>3, KeptGoes DEF x, y
<1>5. CASE RecycleCancel
  <2> DEFINE x == [Doom(Here, NoRow) EXCEPT !.ui.mode = "view", !.ui.twice = NoRow]
  <2>1. Alike(Here, x) /\ Picks(x.ui)
    BY <1>1, <1>2 DEF Doom, Alike, Picks, UiFields
  <2>2. Do(x)
    BY <1>5 DEF RecycleCancel
  <2> HIDE DEF x
  <2>3. QED BY <1>1, <2>1, <2>2, KeptGoes
<1>6. CASE RecycleContinue
  <2> DEFINE x == [Here EXCEPT !.ui.mode = "second"]
  <2>1. Alike(Here, x) /\ Picks(x.ui)
    BY <1>1, <1>2 DEF Alike, Picks, UiFields
  <2>2. Do(x)
    BY <1>6 DEF RecycleContinue
  <2> HIDE DEF x
  <2>3. QED BY <1>1, <2>1, <2>2, KeptGoes
<1>7. CASE RecycleRestore \/ RecyclePermanent
  <2> DEFINE a == [Doom(Here, NoRow) EXCEPT !.ui.mode = "view"]
             b == [Doom(Here, NoRow) EXCEPT !.ui.mode = "view", !.ui.twice = NoRow]
             x == Send(a, "restore", {ui.doomed}, "gone", Live)
             y == Send(b, "permanent", {ui.doomed}, "gone", Live)
  <2>1. "restore" \in WritesOf[page] /\ "permanent" \in WritesOf[page] /\ {ui.doomed} \in SUBSET Maybe
        /\ "gone" \in Statuses \cup {"same"} /\ Live \in SUBSET Statuses
    BY <1>2 DEF WritesOf, Statuses
  <2>2. Alike(Send(Here, "restore", {ui.doomed}, "gone", Live), x) /\ Picks(x.ui)
    BY <1>1, <1>2, SendFields DEF Send, Doom, Alike, Picks, UiFields
  <2>3. Alike(Send(Here, "permanent", {ui.doomed}, "gone", Live), y) /\ Picks(y.ui)
    BY <1>1, <1>2, SendFields DEF Send, Doom, Alike, Picks, UiFields
  <2>4. Do(x) \/ Do(y)
    BY <1>7 DEF RecycleRestore, RecyclePermanent
  <2> HIDE DEF x, y
  <2>5. QED BY <1>1, <2>1, <2>2, <2>3, <2>4, SentGoes
<1>8. QED BY <1>3, <1>4, <1>5, <1>6, <1>7 DEF RecycleNext

-----------------------------------------------------------------------------
(***************************************************************************)
(* Products, and the refresh button.                                       *)
(***************************************************************************)
\* The call a handler has just added is given the rows its answer releases, or the button it is of.
LEMMA TagLast ==
    ASSUME page \in Caching, NEW s, NEW D, Consistent(s, D), Picks(s.ui), NEW v \in Views[page],
           s.cache[v] = NoList, NEW rows \in SUBSET Maybe
    PROVE  LET t == LoadView(s, v)
               x == [t EXCEPT !.net[Len(t.net)].rows = rows]
               y == [t EXCEPT !.net[Len(t.net)].to = "refresh"]
           IN  Safe(x, D) /\ Picks(x.ui) /\ Safe(y, D) /\ Picks(y.ui)
<1> DEFINE t == LoadView(s, v)
           n == Len(t.net)
           c == Call("load", {}, v, "same", {})
           cx == [t.net[n] EXCEPT !.rows = rows]
           cy == [t.net[n] EXCEPT !.to = "refresh"]
           x == [t EXCEPT !.net[n] = cx]
           y == [t EXCEPT !.net[n] = cy]
<1>1. Consistent(s, D) /\ DOMAIN s = {"ui", "net", "cache", "hist"} /\ s.net \in Seq(Traffic(D, s.hist.acked))
  BY DEF Safe, Consistent
<1>2. Safe(t, D) /\ t.net = Append(s.net, c) /\ Picks(t.ui)
  BY <1>1, LoadViewSafe, LoadViewPicks
<1>3. n = Len(s.net) + 1 /\ t.net[n] = c /\ n \in DOMAIN t.net
  BY <1>1, <1>2
<1>4. c \in CallType /\ c.op = "load" /\ c.st = "sent"
  <2>1. "load" \in {"load"} \cup WritesOf[page] /\ "load" # "task" /\ {} \in SUBSET Maybe /\ "same" \in Statuses \cup {"same"} /\ {} \in SUBSET Statuses
    OBVIOUS
  <2>2. c \in Traffic(D, s.hist.acked) /\ c.op = "load"
    BY <2>1, SentCall
  <2>3. QED BY <2>2 DEF Traffic, Call
<1> HIDE DEF t, n, c
<1>5. cx \in CallType /\ cx.op = "load" /\ cx.st = "sent" /\ cy \in CallType /\ cy.op = "load" /\ cy.st = "sent"
  BY <1>3, <1>4 DEF CallType
<1>6. cx \in Traffic(D, t.hist.acked) /\ cy \in Traffic(D, t.hist.acked)
  BY <1>5 DEF Traffic, Truthful
<1>7. Safe(x, D) /\ Safe(y, D)
  BY <1>2, <1>3, <1>4, <1>5, <1>6, TaggedSafe DEF Safe
<1>8. x.ui = t.ui /\ y.ui = t.ui
  BY <1>2 DEF Safe, Consistent
<1>9. x = [t EXCEPT !.net[n].rows = rows] /\ y = [t EXCEPT !.net[n].to = "refresh"]
  OBVIOUS
<1>10. QED BY <1>2, <1>7, <1>8, <1>9 DEF t, n

LEMMA RefreshGoes ==
    ASSUME page \in Caching, Console, Refresh
    PROVE  Console'
<1> DEFINE t == Load(Here)
           y == [t EXCEPT !.net[Len(t.net)].to = "refresh"]
<1>1. Safe(Here, db) /\ Consistent(Here, db) /\ Picks(Here.ui) /\ ui.view \in Views[page] /\ Here.ui = ui /\ Here.cache = cache /\ Here.net = net
      /\ DOMAIN Here = {"ui", "net", "cache", "hist"} /\ db \in Table
  BY HereFields DEF Safe
<1>2. t = LoadView(Here, ui.view)
  BY <1>1 DEF Load
<1>3. Safe(t, db) /\ Picks(t.ui)
  BY <1>1, <1>2, LoadViewSafe, LoadViewPicks
<1>4. cache[ui.view] = NoList => Safe(y, db) /\ Picks(y.ui)
  BY <1>1, <1>2, TagLast
<1>5. cache[ui.view] # NoList => t.net = net
  BY <1>1, <1>2, LoadViewSafe
<1>6. Do(IF t.net = net THEN t ELSE y)
  BY <1>1 DEF Refresh, RefreshLoad
<1> HIDE DEF t, y
<1>7. QED BY <1>1, <1>3, <1>4, <1>5, <1>6, DoSafe

LEMMA ProductsReplySafe ==
    ASSUME page = "products", NEW s, NEW c, NEW D, Replied(s, c, D), Picks(s.ui)
    PROVE  Safe(ProductsReply(s, c), D) /\ Picks(ProductsReply(s, c).ui)
<1>1. page \in Caching
  BY DEF Caching
<1>2. DOMAIN s = {"ui", "net", "cache", "hist"} /\ UiFields \subseteq DOMAIN s.ui /\ Consistent(s, D) /\ c.view \in Views[page] /\ c.rows \in SUBSET Maybe
  BY <1>1, RepliedFacts DEF Picks, Replied, CallType
<1>3. \A a, w : Picks(a.ui) /\ DOMAIN a = {"ui", "net", "cache", "hist"}
                => Alike(a, [a EXCEPT !.ui.waiting = w]) /\ Picks([a EXCEPT !.ui.waiting = w].ui)
  BY DEF Alike, Picks, UiFields
<1>4. CASE c.op = "load"
  <2> DEFINE a == Loaded(s, c)
             x == [a EXCEPT !.ui.waiting = @ \ c.rows]
  <2>1. Safe(a, D) /\ Picks(a.ui)
    BY <1>1, <1>4, RepliedFacts
  <2>2. ProductsReply(s, c) = x
    BY <1>4 DEF ProductsReply, ProductsLoaded
  <2> HIDE DEF a
  <2>3. Alike(a, x) /\ Picks(x.ui)
    BY <1>3, <2>1 DEF Safe, Consistent
  <2> HIDE DEF x
  <2>4. QED BY <2>1, <2>2, <2>3, AlikeSafe
<1>5. CASE c.op = "shelf"
  <2> DEFINE a == LoadView(s, c.view)
             x == [a EXCEPT !.ui.waiting = @ \ c.rows]
             y == [a EXCEPT !.net[Len(a.net)].rows = c.rows]
  <2>1. Safe(a, D) /\ Picks(a.ui)
    BY <1>1, <1>2, LoadViewSafe, LoadViewPicks
  <2>2. ProductsReply(s, c) = IF s.cache[c.view] # NoList THEN x ELSE y
    BY <1>5 DEF ProductsReply, ProductsShelved
  <2>3. s.cache[c.view] = NoList => Safe(y, D) /\ Picks(y.ui)
    BY <1>1, <1>2, TagLast
  <2> HIDE DEF a, y
  <2>4. Alike(a, x) /\ Picks(x.ui)
    BY <1>3, <2>1 DEF Safe, Consistent
  <2> HIDE DEF x
  <2>5. QED BY <2>1, <2>2, <2>3, <2>4, AlikeSafe
<1>6. CASE c.op = "batch"
  <2> DEFINE a == [s EXCEPT !.ui.picked = {}]
             b == [s EXCEPT !.ui.error = TRUE]
  <2>1. Alike(s, a) /\ Picks(a.ui) /\ Alike(s, b) /\ Picks(b.ui)
    BY <1>2 DEF Alike, Picks, UiFields
  <2>2. ProductsReply(s, c) = IF c.st = "ok" THEN Load(a) ELSE b
    BY <1>6 DEF ProductsReply, ProductsBatched
  <2> HIDE DEF a, b
  <2>3. QED BY <1>1, <1>6, <2>1, <2>2, RepliedFacts
<1>7. CASE c.op \notin {"load", "shelf", "batch"}
  <2> DEFINE b == [s EXCEPT !.ui.error = TRUE]
  <2>1. Alike(s, b) /\ Picks(b.ui) /\ Alike(s, s)
    BY <1>2 DEF Alike, Picks, UiFields
  <2>2. ProductsReply(s, c) = IF c.st = "ok" THEN LoadView(s, c.view) ELSE b
    BY <1>7 DEF ProductsReply
  <2> HIDE DEF b
  <2>3. QED BY <1>1, <1>2, <1>7, <2>1, <2>2, RepliedFacts
<1>8. QED BY <1>4, <1>5, <1>6, <1>7

LEMMA ProductsSteps ==
    ASSUME page = "products", Console, ProductsNext
    PROVE  Console'
<1>1. page \in Caching /\ Rows \subseteq Maybe /\ NoRow \in Maybe
  BY DEF Caching, Maybe
<1>2. DOMAIN Here = {"ui", "net", "cache", "hist"} /\ Here.ui = ui /\ Picks(ui) /\ UiFields \subseteq DOMAIN ui
      /\ ui.doomed \in Maybe /\ ui.picked \in SUBSET Maybe /\ ui.rows \in Table
  BY <1>1, HereFields DEF Picks, Safe, Consistent, IsUi
<1>3. CASE ProductsShelf
  <2>1. PICK r \in Rows, to \in Live : Do(Send([Here EXCEPT !.ui.waiting = @ \cup {r}], "shelf", {r}, to, {ui.rows[r].st}))
    BY <1>3 DEF ProductsShelf
  <2> DEFINE x == Send([Here EXCEPT !.ui.waiting = @ \cup {r}], "shelf", {r}, to, {ui.rows[r].st})
  <2>2. "shelf" \in WritesOf[page] /\ {r} \in SUBSET Maybe /\ to \in Statuses \cup {"same"} /\ {ui.rows[r].st} \in SUBSET Statuses
    BY <1>1, <1>2 DEF WritesOf, Statuses, Table
  <2>3. Alike(Send(Here, "shelf", {r}, to, {ui.rows[r].st}), x) /\ Picks(x.ui)
    BY <1>1, <1>2, SendFields DEF Send, Alike, Picks, UiFields
  <2> HIDE DEF x
  <2>4. QED BY <1>1, <2>1, <2>2, <2>3, SentGoes DEF x
<1>4. CASE ProductsAskDelete
  BY <1>1, <1>4, OpenSteps DEF ProductsAskDelete
<1>5. CASE ProductsDelete
  <2> DEFINE x == Send(Doom(Here, NoRow), "delete", {ui.doomed}, "gone", Live)
  <2>1. "delete" \in WritesOf[page] /\ {ui.doomed} \in SUBSET Maybe /\ "gone" \in Statuses \cup {"same"} /\ Live \in SUBSET Statuses
    BY <1>2 DEF WritesOf, Statuses
  <2>2. Alike(Send(Here, "delete", {ui.doomed}, "gone", Live), x) /\ Picks(x.ui)
    BY <1>1, <1>2, SendFields DEF Send, Doom, Alike, Picks, UiFields
  <2>3. Do(x)
    BY <1>5 DEF ProductsDelete, Delete
  <2> HIDE DEF x
  <2>4. QED BY <1>1, <2>1, <2>2, <2>3, SentGoes
<1>6. CASE ProductsBatch
  <2>1. PICK to \in {"on", "off"} : Do(Send(Here, "batch", ui.picked, to, Live))
    BY <1>6 DEF ProductsBatch
  <2> DEFINE x == Send(Here, "batch", ui.picked, to, Live)
  <2>2. "batch" \in WritesOf[page] /\ to \in Statuses \cup {"same"} /\ Live \in SUBSET Statuses
    BY DEF WritesOf, Statuses, Live
  <2>3. DOMAIN x = {"ui", "net", "cache", "hist"} /\ x.ui = ui
    BY <1>1, SendFields
  <2>4. Do(x)
    BY <2>1
  <2>5. x = Send(Here, "batch", ui.picked, to, Live)
    OBVIOUS
  <2> HIDE DEF x
  <2>6. Alike(x, x) /\ Picks(x.ui)
    BY <1>2, <2>3 DEF Alike
  <2>7. QED BY <1>1, <1>2, <2>2, <2>4, <2>5, <2>6, SentGoes
<1>7. CASE ProductsPick
  <2>1. PICK p \in SUBSET Maybe : Do([Here EXCEPT !.ui.picked = p])
    <3>1. Listed \subseteq Rows /\ ProductsListed \subseteq Rows
      BY DEF Listed, Present, ProductsListed
    <3>2. CASE \E r \in Rows : ToggleRow(r)
      <4>1. PICK r \in Rows : ToggleRow(r)
        BY <3>2
      <4>2. (IF r \in ui.picked THEN ui.picked \ {r} ELSE ui.picked \cup {r}) \in SUBSET Maybe
        BY <1>1, <1>2
      <4>3. Do([Here EXCEPT !.ui.picked = IF r \in ui.picked THEN ui.picked \ {r} ELSE ui.picked \cup {r}])
        BY <1>2, <4>1 DEF ToggleRow
      <4>4. QED BY <4>2, <4>3
    <3>3. CASE \E all \in {{}, ProductsListed} : Do([Here EXCEPT !.ui.picked = all])
      BY <1>1, <3>1, <3>3
    <3>4. CASE ToggleAll
      <4>1. (IF Listed \subseteq ui.picked THEN ui.picked \ Listed ELSE ui.picked \cup Listed) \in SUBSET Maybe
        BY <1>1, <1>2, <3>1
      <4>2. Do([Here EXCEPT !.ui.picked = IF Listed \subseteq ui.picked THEN ui.picked \ Listed ELSE ui.picked \cup Listed])
        BY <1>2, <3>4 DEF ToggleAll
      <4>3. QED BY <4>1, <4>2
    <3>5. QED BY <1>7, <3>2, <3>3, <3>4 DEF ProductsPick
  <2> DEFINE x == [Here EXCEPT !.ui.picked = p]
  <2>2. Alike(Here, x) /\ Picks(x.ui)
    BY <1>2 DEF Alike, Picks, UiFields
  <2> HIDE DEF x
  <2>3. QED BY <1>1, <2>1, <2>2, KeptGoes DEF x
<1>8. CASE ProductsFilter
  BY <1>1, <1>8, GoToGoes DEF ProductsFilter, ChooseFilter, TurnPage
<1>9. CASE CancelConfirm
  BY <1>1, <1>9, DialogSteps
<1>10. QED BY <1>3, <1>4, <1>5, <1>6, <1>7, <1>8, <1>9 DEF ProductsNext

-----------------------------------------------------------------------------
(***************************************************************************)
(* The server.                                                             *)
(***************************************************************************)
Answered(cs, i, st, got) == IF cs[i].st = "orphan" THEN RemoveAt(cs, i) ELSE [cs EXCEPT ![i].st = st, ![i].got = got]
LEMMA AnswerSafe ==
    ASSUME NEW D, NEW A, NEW cs \in Seq(Traffic(D, A)), NEW i \in DOMAIN cs,
           NEW st \in {"ok", "no", "conflict"}, NEW got \in Table, AtMost(got, D), cs[i].op = "load" /\ st = "ok" => AtLeast(got, A)
    PROVE  Answered(cs, i, st, got) \in Seq(Traffic(D, A)) /\ (Loading(cs) => Loading(Answered(cs, i, st, got)))
<1> DEFINE os == Answered(cs, i, st, got)
           c == cs[i]
           e == [c EXCEPT !.st = st, !.got = got]
<1>1. i \in 1..Len(cs) /\ DOMAIN cs = 1..Len(cs) /\ Len(cs) \in Nat /\ c \in CallType /\ Truthful(c, D, A)
  BY DEF Traffic
<1>2. CASE c.st = "orphan"
  <2>1. c.op # "load"
    BY <1>1, <1>2 DEF Truthful
  <2>2. QED BY <1>2, <2>1, Others DEF Answered
<1>3. CASE c.st # "orphan"
  <2>1. e \in CallType /\ e.op = c.op /\ e.st = st /\ e.got = got /\ e.to = c.to
    BY <1>1 DEF CallType
  <2>2. c.op # "task"
    BY <1>1, <1>3 DEF Truthful
  <2>3. e \in Traffic(D, A)
    BY <1>1, <2>1, <2>2 DEF Traffic, Truthful
  <2>4. os = [cs EXCEPT ![i] = e]
    BY <1>3 DEF Answered
  <2> HIDE DEF e, c, os
  <2>5. os \in Seq(Traffic(D, A))
    <3>1. [cs EXCEPT ![i] = e] \in Seq(Traffic(D, A))
      BY <1>1, <2>3, SeqUpdate
    <3>2. QED BY <2>4, <3>1
  <2>6. DOMAIN os = DOMAIN cs /\ \A j \in DOMAIN cs : os[j].op = cs[j].op
    BY <1>1, <2>1, <2>4 DEF c
  <2>7. Loading(cs) => Loading(os)
    BY <2>6 DEF Loading
  <2>8. QED BY <2>5, <2>7 DEF os
<1>4. QED BY <1>2, <1>3

LEMMA WrittenType ==
    ASSUME page \in Caching, db \in Table, NEW c \in CallType, c.to # "refresh", NEW D, D = Written(c)
    PROVE  D \in Table /\ \A r \in Rows : db[r].ver <= D[r].ver
<1>1. ASSUME NEW r \in Rows PROVE D[r] \in [st : Statuses, ver : Nat] /\ db[r].ver <= D[r].ver
  <2>1. db[r] \in [st : Statuses, ver : Nat] /\ c.to \in Statuses \cup {"same"}
    BY DEF Table, CallType
  <2>2. D[r] = IF r \in c.rows /\ db[r].st \in c.from
                 THEN [st |-> IF c.to = "same" THEN db[r].st ELSE c.to, ver |-> db[r].ver + 1]
                 ELSE db[r]
    BY DEF Written
  <2>3. QED BY <2>1, <2>2
<1>2. D = [r \in Rows |-> D[r]]
  BY DEF Written
<1>3. QED BY <1>1, <1>2 DEF Table

LEMMA ServeGoes ==
    ASSUME page \in Caching, Console, NEW i \in DOMAIN net, Serve(i)
    PROVE  Console'
<1> DEFINE c == net[i]
           A == hist.acked
<1>1. db \in Table /\ IsHist(hist, db) /\ net \in Seq(Traffic(db, A)) /\ IsUi(ui) /\ IsCache(cache, hist)
      /\ Shown(Here) /\ Picks(ui) /\ A \in [Rows -> Nat]
  BY DEF Console, Safe, Consistent, Here, IsHist
<1>2. c \in CallType /\ Truthful(c, db, A)
  BY <1>1 DEF Traffic
<1>3. page' = page /\ ui' = ui /\ cache' = cache /\ hist' = hist
  BY DEF Serve
<1>4. PICK D, m : D = db' /\ m = net'
  OBVIOUS
<1>5. IsGet(c) <=> c.op = "load"
  BY <1>2, NoDetail
<1>6. BlankRows \in Table /\ AtMost(BlankRows, db) /\ AtMost(db, db) /\ AtLeast(db, A)
  <2>1. BlankRows \in Table /\ \A r \in Rows : BlankRows[r].ver = 0 /\ db[r].ver \in Nat
    BY <1>1, FirstType DEF BlankRows, Table
  <2>2. QED BY <1>1, <2>1 DEF AtMost, AtLeast, IsHist
<1>7. D \in Table /\ (\A r \in Rows : db[r].ver <= D[r].ver) /\ m \in Seq(Traffic(D, A)) /\ (Loading(net) => Loading(m))
  <2> DEFINE answer(st, got) == Answered(net, i, st, got)
  <2>1. CASE D = db
    <3>1. \A r \in Rows : db[r].ver <= D[r].ver
      BY <1>1, <2>1 DEF Table
    <3>2. \A st \in {"ok", "no", "conflict"}, got \in {db, BlankRows} :
             (st = "ok" => got = db) => answer(st, got) \in Seq(Traffic(db, A)) /\ (Loading(net) => Loading(answer(st, got)))
      <4> TAKE st \in {"ok", "no", "conflict"}, got \in {db, BlankRows}
      <4> HAVE st = "ok" => got = db
      <4>1. got \in Table /\ AtMost(got, db) /\ (c.op = "load" /\ st = "ok" => AtLeast(got, A))
        BY <1>1, <1>6
      <4>2. QED BY <1>1, <4>1, AnswerSafe
    <3>3. IsGet(c) => Found(c) = db
      <4>1. page # "ads"
        BY DEF Caching
      <4>2. Found(c) = [r \in Rows |-> db[r]]
        BY <4>1 DEF Found
      <4>3. QED BY <1>1, <4>2 DEF Table
    <3> DEFINE task == [c EXCEPT !.op = "task", !.st = "orphan"]
    <3>4. \/ \E st \in {"ok", "no", "conflict"}, got \in {db, BlankRows} : (st = "ok" => got = db) /\ m = answer(st, got)
          \/ c.op = "batch" /\ m = Append(answer("ok", db), task)
          \/ ~IsGet(c) /\ c.op # "batch" /\ ~Conflicts(c) /\ D = Written(c) /\ m = answer("ok", Written(c))
      BY <1>4, <3>3 DEF Serve, WithoutCall, Answered
    <3>5. c.op = "batch" => task \in Traffic(db, A)
      <4> SUFFICES ASSUME c.op = "batch" PROVE task \in Traffic(db, A)
        OBVIOUS
      <4>1. "task" \in WritesOf[page]
        BY <1>2 DEF CallType, WritesOf, Caching, Plain
      <4>2. task \in CallType /\ task.op = "task" /\ task.st = "orphan" /\ task.to = c.to
        BY <1>2, <4>1 DEF CallType
      <4>3. c.to # "refresh"
        BY <1>2 DEF Truthful
      <4>4. QED BY <4>2, <4>3 DEF Traffic, Truthful
    <3> HIDE DEF answer, task
    <3>6. ASSUME c.op = "batch", m = Append(answer("ok", db), task) PROVE m \in Seq(Traffic(db, A)) /\ (Loading(net) => Loading(m))
      <4>1. answer("ok", db) \in Seq(Traffic(db, A)) /\ (Loading(net) => Loading(answer("ok", db)))
        BY <3>2
      <4>2. QED BY <3>5, <3>6, <4>1, AppendCall
    <3>7. QED BY <1>1, <2>1, <3>1, <3>2, <3>4, <3>6
  <2>2. CASE ~IsGet(c) /\ c.op # "batch" /\ D = Written(c) /\ m = answer("ok", Written(c))
    <3>1. c.to # "refresh"
      BY <1>2, <1>5, <2>2 DEF Truthful
    <3>2. D \in Table /\ \A r \in Rows : db[r].ver <= D[r].ver
      BY <1>1, <1>2, <2>2, <3>1, WrittenType
    <3>3. net \in Seq(Traffic(D, A))
      <4>1. Traffic(db, A) \subseteq Traffic(D, A)
        <5> SUFFICES ASSUME NEW e \in Traffic(db, A) PROVE e \in Traffic(D, A)
          OBVIOUS
        <5>1. e \in CallType /\ Truthful(e, db, A) /\ e.got \in Table
          BY DEF Traffic, CallType
        <5>2. AtMost(e.got, db) => AtMost(e.got, D)
          <6>1. \A r \in Rows : e.got[r].ver \in Nat /\ db[r].ver \in Nat /\ D[r].ver \in Nat
            BY <1>1, <3>2, <5>1 DEF Table
          <6>2. QED BY <3>2, <6>1 DEF AtMost
        <5>3. QED BY <5>1, <5>2 DEF Traffic, Truthful
      <4>2. QED BY <1>1, <4>1, SeqWider
    <3>4. AtMost(D, D) /\ c.op # "load"
      <4>1. \A r \in Rows : D[r].ver \in Nat
        BY <3>2 DEF Table
      <4>2. QED BY <1>5, <2>2, <4>1 DEF AtMost
    <3>5. m \in Seq(Traffic(D, A)) /\ (Loading(net) => Loading(m))
      BY <2>2, <3>2, <3>3, <3>4, AnswerSafe
    <3>6. QED BY <3>2, <3>5
  <2>3. QED BY <1>4, <2>1, <2>2 DEF Serve, WithoutCall, Answered
<1>8. PICK k : k = Here'
  OBVIOUS
<1>9. DOMAIN k = {"ui", "net", "cache", "hist"} /\ k.ui = ui /\ k.cache = cache /\ k.net = m /\ k.hist = hist
  BY <1>3, <1>4, <1>8 DEF Here
<1>10. IsHist(hist, D)
  <2>1. \A r \in Rows : A[r] \in Nat /\ db[r].ver \in Nat /\ D[r].ver \in Nat
    BY <1>1, <1>7 DEF Table
  <2>2. QED BY <1>1, <1>7, <2>1 DEF IsHist
<1>11. Shown(k)
  BY <1>1, <1>7, <1>9 DEF Shown, Here
<1>12. Safe(k, D) /\ Picks(k.ui)
  BY <1>1, <1>7, <1>9, <1>10, <1>11 DEF Safe, Consistent
<1>13. QED BY <1>3, <1>4, <1>7, <1>8, <1>12, Goes

-----------------------------------------------------------------------------
(***************************************************************************)
(* The invariant of the whole console.                                     *)
(***************************************************************************)
LEMMA ReplySafe ==
    ASSUME page \in Caching, NEW s, NEW c, NEW D, Replied(s, c, D), Picks(s.ui)
    PROVE  Safe(Reply(s, c), D) /\ Picks(Reply(s, c).ui)
<1>1. CASE page = "brands"
  BY <1>1, BrandsReplySafe DEF Reply
<1>2. CASE page = "tags"
  BY <1>2, TagsReplySafe DEF Reply
<1>3. CASE page = "categories"
  BY <1>3, CategoriesReplySafe DEF Reply
<1>4. CASE page = "products"
  BY <1>4, ProductsReplySafe DEF Reply
<1>5. CASE page = "coupons"
  BY <1>5, CouponsReplySafe DEF Reply
<1>6. CASE page = "recycle"
  BY <1>6, RecycleReplySafe DEF Reply
<1>7. QED BY <1>1, <1>2, <1>3, <1>4, <1>5, <1>6 DEF Caching

LEMMA ReplyGoes ==
    ASSUME page \in Caching, Console, NEW i \in DOMAIN net, Deliver(i) \/ GiveUp(i)
    PROVE  Console'
<1>1. db \in Table /\ Safe(Here, db) /\ Picks(ui)
  BY DEF Console
<1>2. CASE Deliver(i)
  <2> DEFINE s == Received(i, Drops(net[i].op))
             t == Reply(s, net[i])
  <2>1. net[i].st \in {"ok", "no", "conflict"} /\ Do(t)
    BY <1>2 DEF Deliver
  <2>2. Replied(s, net[i], db)
    BY <1>1, <2>1, ReceivedSafe
  <2>3. s.ui = ui
    BY DEF Received
  <2> HIDE DEF s
  <2>4. Safe(t, db) /\ Picks(t.ui)
    BY <1>1, <2>2, <2>3, ReplySafe
  <2> HIDE DEF t
  <2>5. QED BY <1>1, <2>1, <2>4, DoSafe
<1>3. CASE GiveUp(i)
  <2> DEFINE s == GivenUp(i)
             c == [net[i] EXCEPT !.st = "no"]
             t == Reply(s, c)
  <2>1. net[i].op # "task" /\ Do(t)
    BY <1>3 DEF GiveUp
  <2>2. Replied(s, c, db)
    BY <1>1, <2>1, GivenUpSafe
  <2>3. s.ui = ui
    BY HereFields DEF GivenUp
  <2> HIDE DEF s, c
  <2>4. Safe(t, db) /\ Picks(t.ui)
    BY <1>1, <2>2, <2>3, ReplySafe
  <2> HIDE DEF t
  <2>5. QED BY <1>1, <2>1, <2>4, DoSafe
<1>4. QED BY <1>2, <1>3

LEMMA ExpireGoes ==
    ASSUME page \in Caching, Console, NEW q \in Keys, Expire(q)
    PROVE  Console'
<1> DEFINE s == [Here EXCEPT !.cache[q] = NoList]
<1>1. db \in Table /\ Safe(Here, db) /\ Picks(ui) /\ Do(s)
  BY DEF Console, Expire
<1>2. DOMAIN s = {"ui", "net", "cache", "hist"} /\ s.ui = ui /\ s.net = net /\ s.hist = hist /\ s.cache = [cache EXCEPT ![q] = NoList]
  BY HereFields
<1> HIDE DEF s
<1>3. IsCache(cache, hist)
  BY <1>1, HereFields DEF Safe, Consistent
<1>4. IsCache(s.cache, s.hist)
  BY <1>2, <1>3 DEF IsCache, Keys
<1>5. Safe(s, db)
  BY <1>1, <1>2, <1>4, HereFields DEF Safe, Consistent, Shown
<1>6. QED BY <1>1, <1>2, <1>5, DoSafe

LEMMA ConsoleInit ==
    Init => Console
<1> SUFFICES ASSUME Init, page \in Caching PROVE db \in Table /\ Safe(Here, db) /\ Picks(ui)
  BY DEF Console
<1>0. PICK present \in SUBSET FirstRows[page] : \E start \in [present -> Starts(page)] :
        db = [r \in Rows |-> IF r \in present THEN [st |-> start[r], ver |-> 1] ELSE [st |-> "absent", ver |-> 0]]
  BY DEF Init
<1>1. PICK start \in [present -> Starts(page)] :
        db = [r \in Rows |-> IF r \in present THEN [st |-> start[r], ver |-> 1] ELSE [st |-> "absent", ver |-> 0]]
  BY <1>0
<1>2. Starts(page) = {"on"}
  BY DEF Starts, Caching
<1>3. db \in Table
  <2>1. \A r \in present : start[r] = "on"
    BY <1>1, <1>2
  <2>2. [st |-> "on", ver |-> 1] \in [st : Statuses, ver : Nat] /\ [st |-> "absent", ver |-> 0] \in [st : Statuses, ver : Nat]
    BY DEF Statuses, Live
  <2>3. ASSUME NEW r \in Rows PROVE db[r] \in [st : Statuses, ver : Nat]
    BY <1>1, <2>1, <2>2
  <2>4. db = [r \in Rows |-> db[r]]
    BY <1>1
  <2>5. QED BY <2>3, <2>4 DEF Table
<1>4. PICK v \in IF page \in UrlPages THEN Views[page] ELSE {AllRows}, super \in BOOLEAN :
        Mounted([Ui(page, v) EXCEPT !.super = super])
  BY DEF Init
<1> DEFINE u == [Ui(page, v) EXCEPT !.super = super]
           c == Call("load", {}, v, "same", {})
<1>5. page \in Pages
  BY DEF Init
<1>6. v \in Views[page] /\ AllRows \in Views[page] /\ (page \notin UrlPages => v = AllRows)
  BY <1>4, <1>5, ViewsAssumption
<1>7. /\ UiFields \subseteq DOMAIN u /\ u.view \in Views[page] /\ u.rows = BlankRows /\ u.form = NoForm /\ u.doomed = NoRow /\ u.picked = {}
      /\ u.view = v
      /\ page = "categories" => {"node", "nodeVer", "urlId", "creating", "asking", "source", "target"} \subseteq DOMAIN u /\ u.node = NoRow /\ u.urlId = NoRow
  <2>1. CASE page \in {"brands", "tags", "products", "coupons"}
    BY <1>6, <2>1 DEF Ui, BlankUi, UiFields
  <2>2. CASE page = "categories"
    <3> DEFINE w == CategoriesUi
    <3>1. /\ UiFields \cup {"node", "nodeVer", "urlId", "creating", "asking", "source", "target"} \subseteq DOMAIN w
          /\ w.view = AllRows /\ w.rows = BlankRows /\ w.form = NoForm /\ w.doomed = NoRow /\ w.picked = {} /\ w.node = NoRow /\ w.urlId = NoRow
      BY DEF CategoriesUi, BlankUi, UiFields, Beside
    <3>2. u = [w EXCEPT !.super = super]
      BY <2>2 DEF Ui
    <3> HIDE DEF w
    <3>3. QED BY <1>6, <2>2, <3>1, <3>2 DEF UiFields, UrlPages
  <2>3. CASE page = "recycle"
    <3> DEFINE w == RecycleUi
    <3>1. /\ UiFields \subseteq DOMAIN w
          /\ w.view = AllRows /\ w.rows = BlankRows /\ w.form = NoForm /\ w.doomed = NoRow /\ w.picked = {}
      BY DEF RecycleUi, BlankUi, UiFields, Beside
    <3>2. u = [w EXCEPT !.super = super]
      BY <2>3 DEF Ui
    <3> HIDE DEF w
    <3>3. QED BY <1>6, <2>3, <3>1, <3>2 DEF UiFields, UrlPages
  <2>4. QED BY <2>1, <2>2, <2>3 DEF Caching
<1>8. ui = u /\ net = <<Call("load", {}, u.view, "same", {})>>
  BY <1>4 DEF Mounted, Caching
<1>9. hist = [acked |-> [r \in Rows |-> 0], overtaken |-> {}, writes |-> 0, others |-> {}] /\ cache = [k \in Keys |-> NoList]
  BY DEF Init, TableInit
<1> HIDE DEF u
<1>10. BlankRows \in Table /\ NoForm \in Forms /\ NoRow \in Maybe
  BY FirstType, FormKinds DEF Maybe
<1>11. IsUi(ui) /\ Picks(ui)
  BY <1>7, <1>8, <1>10 DEF IsUi, Picks
<1>12. IsHist(hist, db) /\ IsCache(cache, hist)
  <2>1. \A r \in Rows : db[r].ver \in Nat
    BY <1>3 DEF Table
  <2>2. IsHist(hist, db)
    BY <1>9, <2>1 DEF IsHist, HistFields
  <2>3. IsCache(cache, hist)
    BY <1>9 DEF IsCache, Keys
  <2>4. QED BY <2>2, <2>3
<1>13. net \in Seq(Traffic(db, hist.acked)) /\ Loading(net)
  <2>1. "load" \in {"load"} \cup WritesOf[page] /\ "load" # "task" /\ {} \in SUBSET Maybe /\ "same" \in Statuses \cup {"same"} /\ {} \in SUBSET Statuses
    OBVIOUS
  <2>2. c \in Traffic(db, hist.acked) /\ c.op = "load"
    BY <1>6, <2>1, SentCall
  <2> HIDE DEF c
  <2>3. <<c>> \in Seq(Traffic(db, hist.acked)) /\ 1 \in DOMAIN <<c>> /\ <<c>>[1] = c
    BY <2>2
  <2>4. Loading(<<c>>)
    BY <2>2, <2>3 DEF Loading
  <2>5. QED BY <1>7, <1>8, <2>3, <2>4 DEF c
<1>14. DOMAIN Here = {"ui", "net", "cache", "hist"} /\ Here.ui = ui /\ Here.net = net /\ Here.cache = cache /\ Here.hist = hist
  BY DEF Here
<1>15. QED BY <1>3, <1>11, <1>12, <1>13, <1>14 DEF Safe, Consistent, Shown

LEMMA PageStays ==
    ASSUME [Next]_vars
    PROVE  page' = page
<1> USE DEF Do
<1>1. CASE PromoNext
  BY <1>1 DEF PromoNext, PromoRetry, PromoToggle, PromoAskDelete, PromoDelete, CancelConfirm, PromoOpenGenerate, PromoCloseGenerate, PromoGenerate
<1>2. CASE OrdersNext
  BY <1>2 DEF OrdersNext, OrdersFilter, OrdersReload, OrdersDetail, OrdersCloseDetail, OrdersAsk, OrdersWrite, CancelConfirm, ChooseFilter, TurnPage, GoTo
<1>3. CASE NoticeNext
  BY <1>3 DEF NoticeNext, NoticeTab, NoticeTurnPage, NoticeRefresh, NoticeRead, NoticeReadAll, TurnPage, GoTo
<1>4. CASE EmailNext
  BY <1>4 DEF EmailNext, EmailPick, EmailMode, EmailType, EmailSave, EmailAskReset, EmailReset, CancelConfirm
<1>5. CASE AdsNext
  BY <1>5 DEF AdsNext, AdsCommit, AdsDiscard, AdsSave, AdsRetry, AdsTurnPage, AdsHistory, AdsCloseHistory, TurnPage, GoTo
<1>6. CASE Refresh \/ (\E q \in Keys : Expire(q)) \/ Elsewhere \/ UNCHANGED vars
  BY <1>6 DEF Refresh, Expire, Elsewhere, ChangedElsewhere, vars
<1>7. CASE \E i \in DOMAIN net : Serve(i) \/ Deliver(i) \/ GiveUp(i)
  BY <1>7 DEF Serve, Deliver, GiveUp
<1>8. CASE BrandsNext \/ TagsNext
  BY <1>8 DEF BrandsNext, BrandsOpenCreate, BrandsOpenEdit, BrandsAskDelete, BrandsSave, BrandsDelete,
       TagsNext, TagsOpenCreate, TagsOpenEdit, TagsAskDelete, TagsSave, TagsDelete,
       TypeForm, CloseDialog, Discard, Keep, CancelConfirm, ForceUnlock
<1>9. CASE CategoriesNext
  BY <1>9 DEF CategoriesDo, CategoriesNext, CategoriesSelect, CategoriesCreate, CategoriesType, CategoriesMode, CategoriesRetry,
       CategoriesSave, CategoriesDelete, CategoriesAim, CategoriesMigrate, ForceUnlock
<1>10. CASE ProductsNext
  BY <1>10 DEF ProductsNext, ProductsShelf, ProductsAskDelete, ProductsDelete, ProductsBatch, ProductsPick, ToggleRow, ToggleAll,
       ProductsFilter, ChooseFilter, TurnPage, GoTo, CancelConfirm
<1>11. CASE CouponsNext
  BY <1>11 DEF CouponsNext, CouponsSearch, CouponsTurnPage, CouponsOpenCreate, CouponsOpenEdit, CouponsAskDelete, CouponsSave, CouponsDelete,
       TurnPage, GoTo, TypeForm, CloseDialog, Discard, Keep, CancelConfirm, ForceUnlock
<1>12. CASE RecycleNext
  BY <1>12 DEF RecycleNext, RecycleRetry, RecycleAsk, RecycleCancel, RecycleRestore, RecycleContinue, RecyclePermanent
<1>13. QED BY <1>1, <1>2, <1>3, <1>4, <1>5, <1>6, <1>7, <1>8, <1>9, <1>10, <1>11, <1>12 DEF Next

LEMMA ConsoleStep ==
    Console /\ [Next]_vars => Console'
<1> SUFFICES ASSUME Console, [Next]_vars PROVE Console'
  OBVIOUS
<1>1. CASE page \notin Caching
  BY <1>1, PageStays DEF Console
<1>2. CASE page \in Caching /\ UNCHANGED vars
  <2>1. Safe(Here, db) /\ db \in Table /\ Picks(ui)
    BY <1>2 DEF Console
  <2>2. PICK k, D : k = Here' /\ D = db'
    OBVIOUS
  <2>3. k = Here /\ D = db /\ k.ui = ui
    BY <1>2, <2>2, HereFields DEF vars, Here
  <2>4. QED BY <1>2, <2>1, <2>2, <2>3, Goes DEF vars
<1>3. CASE page \in Caching /\ Next
  <2>1. CASE page = "brands" /\ BrandsNext
    BY <2>1, BrandsSteps
  <2>2. CASE page = "tags" /\ TagsNext
    BY <2>2, TagsSteps
  <2>3. CASE page = "categories" /\ CategoriesNext
    BY <2>3, CategoriesSteps
  <2>4. CASE page = "products" /\ ProductsNext
    BY <2>4, ProductsSteps
  <2>5. CASE page = "coupons" /\ CouponsNext
    BY <2>5, CouponsSteps
  <2>6. CASE page = "recycle" /\ RecycleNext
    BY <2>6, RecycleSteps
  <2>7. CASE Refresh
    BY <1>3, <2>7, RefreshGoes
  <2>8. CASE \E i \in DOMAIN net : Serve(i) \/ Deliver(i) \/ GiveUp(i)
    BY <1>3, <2>8, ServeGoes, ReplyGoes
  <2>9. CASE \E q \in Keys : Expire(q)
    BY <1>3, <2>9, ExpireGoes
  <2>10. QED BY <1>3, <2>1, <2>2, <2>3, <2>4, <2>5, <2>6, <2>7, <2>8, <2>9 DEF Next, Caching, Elsewhere
<1>4. QED BY <1>1, <1>2, <1>3

\* What the client keeps, what is under way and what is shown stay true of the server's rows.
THEOREM ConsoleInv ==
    Spec => []Console
<1>1. Init => Console
  BY ConsoleInit
<1>2. Console /\ [Next]_vars => Console'
  BY ConsoleStep
<1>3. QED BY <1>1, <1>2, PTL DEF Spec

LEMMA ConsoleShows ==
    Console => AckedWritesShown
<1> SUFFICES ASSUME Console, page \in Caching, ~ui.loading, ~ui.error, \A i \in DOMAIN net : net[i].op # "load", ui.shown \notin hist.overtaken,
                    NEW r \in Rows
             PROVE  ui.rows[r].ver >= hist.acked[r]
  BY DEF AckedWritesShown, Caching
<1>1. Shown(Here) /\ Here.ui = ui /\ Here.net = net /\ Here.hist = hist
  BY HereFields DEF Safe
<1>2. AtLeast(ui.rows, hist.acked)
  BY <1>1 DEF Shown, Loading
<1>3. ui.rows[r].ver \in Nat /\ hist.acked[r] \in Nat
  BY HereFields DEF Safe, Consistent, IsUi, IsHist, Table
<1>4. QED BY <1>2, <1>3 DEF AtLeast

\* A page that said a write was saved shows it once its list is loaded again.
THEOREM ShowsAckedWrites ==
    Spec => []AckedWritesShown
BY ConsoleInv, ConsoleShows, PTL

-----------------------------------------------------------------------------
(***************************************************************************)
(* The rows held by shelf actions.                                         *)
(***************************************************************************)
LEMMA HeldAppend ==
    ASSUME NEW S, NEW cs \in Seq(S), NEW c \in S, NEW W, HeldBy(cs, W), c.rows \cap W = {}
    PROVE  HeldBy(Append(cs, c), W \cup c.rows)
<1> DEFINE os == Append(cs, c)
           n == Len(cs)
<1>1. n \in Nat /\ DOMAIN cs = 1..n /\ DOMAIN os = 1..(n + 1) /\ os[n + 1] = c /\ \A i \in 1..n : os[i] = cs[i]
  OBVIOUS
<1> HIDE DEF os, n
<1>2. \A i \in DOMAIN os : (i \in DOMAIN cs /\ os[i] = cs[i]) \/ (i = n + 1 /\ os[i] = c)
  BY <1>1
<1>3. \A i \in DOMAIN os : Holds(os[i]) => os[i].rows \subseteq W \cup c.rows
  BY <1>2 DEF HeldBy
<1>4. ASSUME NEW i \in DOMAIN os, NEW j \in DOMAIN os, i # j, Holds(os[i]), Holds(os[j])
      PROVE  os[i].rows \cap os[j].rows = {}
  <2>1. CASE i \in DOMAIN cs /\ os[i] = cs[i] /\ j \in DOMAIN cs /\ os[j] = cs[j]
    BY <1>4, <2>1 DEF HeldBy, Apart
  <2>2. CASE i \in DOMAIN cs /\ os[i] = cs[i] /\ os[j] = c
    BY <1>4, <2>2 DEF HeldBy
  <2>3. CASE j \in DOMAIN cs /\ os[j] = cs[j] /\ os[i] = c
    BY <1>4, <2>3 DEF HeldBy
  <2>4. QED BY <1>2, <1>4, <2>1, <2>2, <2>3
<1>5. QED BY <1>3, <1>4 DEF HeldBy, Apart, os

LEMMA IdleAppend ==
    ASSUME NEW S, NEW cs \in Seq(S), NEW c \in S, NEW W, HeldBy(cs, W), ~Holds(c)
    PROVE  HeldBy(Append(cs, c), W)
<1> DEFINE os == Append(cs, c)
           n == Len(cs)
<1>1. n \in Nat /\ DOMAIN cs = 1..n /\ DOMAIN os = 1..(n + 1) /\ os[n + 1] = c /\ \A i \in 1..n : os[i] = cs[i]
  OBVIOUS
<1> HIDE DEF os, n
<1>2. \A i \in DOMAIN os : Holds(os[i]) => i \in DOMAIN cs /\ os[i] = cs[i]
  BY <1>1
<1>3. QED BY <1>2 DEF HeldBy, Apart, os

\* The calls that stay, each holding what it held or nothing.
LEMMA HeldSame ==
    ASSUME NEW cs, NEW os, NEW W, HeldBy(cs, W), DOMAIN os = DOMAIN cs,
           \A j \in DOMAIN cs : Holds(os[j]) => Holds(cs[j]) /\ os[j].rows = cs[j].rows
    PROVE  /\ HeldBy(os, W)
           /\ \A i \in DOMAIN cs : Holds(cs[i]) /\ ~Holds(os[i]) => HeldBy(os, W \ cs[i].rows) /\ cs[i].rows \subseteq W
BY DEF HeldBy, Apart

LEMMA HeldRemove ==
    ASSUME NEW S, NEW cs \in Seq(S), NEW i \in DOMAIN cs, NEW W, HeldBy(cs, W)
    PROVE  /\ HeldBy(RemoveAt(cs, i), W)
           /\ Holds(cs[i]) => HeldBy(RemoveAt(cs, i), W \ cs[i].rows) /\ cs[i].rows \subseteq W
<1> DEFINE rs == RemoveAt(cs, i)
           at(j) == IF j < i THEN j ELSE j + 1
<1>1. i \in 1..Len(cs) /\ DOMAIN cs = 1..Len(cs) /\ Len(cs) \in Nat
  OBVIOUS
<1>2. /\ rs \in Seq(S) /\ Len(rs) = Len(cs) - 1
      /\ \A j \in 1..Len(rs) : rs[j] = cs[at(j)]
  BY <1>1, RemoveAtFacts
<1> HIDE DEF rs
<1>3. DOMAIN rs = 1..(Len(cs) - 1)
  BY <1>2
<1>4. \A j \in DOMAIN rs : at(j) \in DOMAIN cs /\ at(j) # i /\ rs[j] = cs[at(j)]
  BY <1>1, <1>2, <1>3
<1>5. \A j, k \in DOMAIN rs : j # k => at(j) # at(k)
  BY <1>1, <1>3
<1> HIDE DEF at
<1>6. Apart(rs)
  BY <1>4, <1>5 DEF HeldBy, Apart
<1>7. \A j \in DOMAIN rs : Holds(rs[j]) => rs[j].rows \subseteq W
  BY <1>4 DEF HeldBy
<1>8. Holds(cs[i]) => (\A j \in DOMAIN rs : Holds(rs[j]) => rs[j].rows \subseteq W \ cs[i].rows) /\ cs[i].rows \subseteq W
  BY <1>4, <1>7 DEF HeldBy, Apart
<1>9. QED BY <1>6, <1>7, <1>8 DEF HeldBy, rs

LEMMA HeldDo ==
    ASSUME page = "products", NEW s, Do(s), HeldBy(s.net, s.ui.waiting)
    PROVE  HeldRows'
BY DEF Do, HeldRows, HeldBy, Apart, Holds

\* A list loaded: the call for it holds nothing.
LEMMA LoadViewHeld ==
    ASSUME page \in Caching, NEW s, NEW D, Consistent(s, D), NEW v \in Views[page], HeldBy(s.net, s.ui.waiting)
    PROVE  HeldBy(LoadView(s, v).net, LoadView(s, v).ui.waiting)
<1> DEFINE c == Call("load", {}, v, "same", {})
           t == LoadView(s, v)
<1>1. t.ui.waiting = s.ui.waiting /\ (t.net = s.net \/ t.net = Append(s.net, c))
  BY LoadViewSafe
<1>2. s.net \in Seq(Traffic(D, s.hist.acked)) /\ c \in Traffic(D, s.hist.acked) /\ c.rows = {}
  <2>1. "load" \in {"load"} \cup WritesOf[page] /\ "load" # "task" /\ {} \in SUBSET Maybe /\ "same" \in Statuses \cup {"same"} /\ {} \in SUBSET Statuses
    OBVIOUS
  <2>2. QED BY <2>1, SentCall DEF Consistent
<1> HIDE DEF c, t
<1>3. HeldBy(Append(s.net, c), s.ui.waiting)
  BY <1>2, HeldAppend
<1>4. QED BY <1>1, <1>3 DEF t

LEMMA SeqFunction ==
    ASSUME NEW S, NEW s \in Seq(S)
    PROVE  s \in [1..Len(s) -> S] /\ Len(s) \in Nat
OBVIOUS

WithLast(cs, e) == [cs EXCEPT ![Len(cs)] = e]
LEMMA AppendLast ==
    ASSUME NEW S, NEW cs \in Seq(S), NEW c \in S, NEW e
    PROVE  WithLast(Append(cs, c), e) = Append(cs, e)
<1>1. cs \in Seq(S \cup {e}) /\ e \in S \cup {e}
  BY SeqWider
<1>2. PICK n, as, es : n = Len(cs) /\ as = Append(cs, c) /\ es = Append(cs, e)
  OBVIOUS
<1>3. n \in Nat /\ as \in Seq(S) /\ Len(as) = n + 1 /\ \A i \in 1..n : as[i] = cs[i]
  BY <1>2
<1>4. es \in Seq(S \cup {e}) /\ Len(es) = n + 1 /\ es[n + 1] = e /\ \A i \in 1..n : es[i] = cs[i]
  BY <1>1, <1>2
<1>5. as \in [1..(n + 1) -> S]
  <2>1. as \in Seq(S)
    BY <1>3
  <2>2. as \in [1..Len(as) -> S]
    BY <2>1, SeqFunction
  <2>3. QED BY <1>3, <2>2
<1>6. es \in [1..(n + 1) -> S \cup {e}]
  <2>1. es \in [1..Len(es) -> S \cup {e}]
    BY <1>4
  <2>2. QED BY <1>4, <2>1
<1>7. \A i \in 1..(n + 1) : i = n + 1 \/ i \in 1..n
  BY <1>3
<1>8. WithLast(as, e) = [i \in 1..(n + 1) |-> IF i = n + 1 THEN e ELSE as[i]]
  BY <1>3, <1>5 DEF WithLast
<1>9. es = [i \in 1..(n + 1) |-> es[i]]
  BY <1>6
<1>10. \A i \in 1..(n + 1) : es[i] = IF i = n + 1 THEN e ELSE as[i]
  BY <1>3, <1>4, <1>7
<1>11. WithLast(as, e) = es
  BY <1>8, <1>9, <1>10
<1>12. QED BY <1>2, <1>11

\* What an answer was for is released, or held by the reload it starts.
LEMMA ReplyHeld ==
    ASSUME page = "products", NEW s, NEW D, Consistent(s, D), NEW c \in CallType,
           IF c.op \in {"load", "shelf"} THEN HeldBy(s.net, s.ui.waiting \ c.rows) /\ c.rows \subseteq s.ui.waiting
           ELSE HeldBy(s.net, s.ui.waiting)
    PROVE  HeldBy(ProductsReply(s, c).net, ProductsReply(s, c).ui.waiting)
<1> DEFINE W == s.ui.waiting
           T == Traffic(D, s.hist.acked)
<1>1. /\ page \in Caching /\ c.view \in Views[page] /\ s.net \in Seq(T) /\ s.ui.view \in Views[page]
      /\ DOMAIN s = {"ui", "net", "cache", "hist"} /\ UiFields \subseteq DOMAIN s.ui
  BY DEF Caching, CallType, Consistent, IsUi
<1>2. CASE c.op = "load"
  <2> DEFINE x == [Loaded(s, c) EXCEPT !.ui.waiting = @ \ c.rows]
  <2>1. x.net = s.net /\ x.ui.waiting = W \ c.rows
    BY <1>1 DEF Loaded, UiFields
  <2>2. ProductsReply(s, c) = x
    BY <1>2 DEF ProductsReply, ProductsLoaded
  <2> HIDE DEF x
  <2>3. QED BY <1>2, <2>1, <2>2
<1>3. CASE c.op = "shelf"
  <2> DEFINE a == LoadView(s, c.view)
             x == [a EXCEPT !.ui.waiting = @ \ c.rows]
             y == [a EXCEPT !.net[Len(a.net)].rows = c.rows]
             b == Call("load", {}, c.view, "same", {})
             e == [b EXCEPT !.rows = c.rows]
  <2>1. ProductsReply(s, c) = IF s.cache[c.view] # NoList THEN x ELSE y
    BY <1>3 DEF ProductsReply, ProductsShelved
  <2>2. /\ Safe(a, D) /\ a.ui.waiting = W
        /\ s.cache[c.view] # NoList => a.net = s.net
        /\ s.cache[c.view] = NoList => a.net = Append(s.net, b)
    BY <1>1, LoadViewSafe
  <2>3. b \in T /\ b.op = "load" /\ b \in CallType /\ b.st = "sent"
    <3>1. "load" \in {"load"} \cup WritesOf[page] /\ "load" # "task" /\ {} \in SUBSET Maybe /\ "same" \in Statuses \cup {"same"} /\ {} \in SUBSET Statuses
      OBVIOUS
    <3>2. b \in T /\ b.op = "load"
      BY <1>1, <3>1, SentCall
    <3>3. QED BY <3>2 DEF Traffic, Call
  <2> HIDE DEF a, b
  <2>4. DOMAIN a = {"ui", "net", "cache", "hist"} /\ "waiting" \in DOMAIN a.ui
    BY <2>2 DEF Safe, Consistent, IsUi, UiFields
  <2>5. x.net = a.net /\ x.ui.waiting = W \ c.rows /\ y.ui.waiting = W
    BY <2>2, <2>4
  <2>6. CASE s.cache[c.view] # NoList
    BY <1>3, <2>1, <2>2, <2>5, <2>6
  <2>7. CASE s.cache[c.view] = NoList
    <3>1. y.net = [a.net EXCEPT ![Len(a.net)] = [a.net[Len(a.net)] EXCEPT !.rows = c.rows]]
      BY <2>4
    <3>2. a.net[Len(a.net)] = b
      BY <1>1, <2>2, <2>3, <2>7, AppendCall
    <3>3. y.net = WithLast(Append(s.net, b), e)
      BY <2>2, <2>7, <3>1, <3>2 DEF WithLast
    <3>4. y.net = Append(s.net, e)
      BY <1>1, <2>3, <3>3, AppendLast
    <3>5. e \in CallType /\ e.rows = c.rows /\ e.op = "load" /\ e.st = "sent"
      BY <2>3 DEF CallType
    <3> DEFINE V == W \ c.rows
    <3>6. HeldBy(s.net, V) /\ c.rows \cap V = {} /\ V \cup c.rows = W
      BY <1>3
    <3>7. s.net \in Seq(T \cup {e}) /\ e \in T \cup {e}
      BY <1>1, SeqWider
    <3> HIDE DEF V, e, T
    <3>8. HeldBy(Append(s.net, e), V \cup e.rows)
      BY <3>5, <3>6, <3>7, HeldAppend
    <3>9. QED BY <2>1, <2>5, <2>7, <3>4, <3>5, <3>6, <3>8
  <2>8. QED BY <2>6, <2>7
<1>4. CASE c.op = "batch"
  <2> DEFINE a == [s EXCEPT !.ui.picked = {}]
             b == [s EXCEPT !.ui.error = TRUE]
  <2>1. /\ a.net = s.net /\ a.ui.waiting = W /\ b.net = s.net /\ b.ui.waiting = W /\ a.ui.view = s.ui.view
        /\ Alike(s, a)
    BY <1>1 DEF UiFields, Alike
  <2>2. ProductsReply(s, c) = IF c.st = "ok" THEN LoadView(a, a.ui.view) ELSE b
    BY <1>4 DEF ProductsReply, ProductsBatched, Load
  <2> HIDE DEF a, b
  <2>3. Consistent(a, D)
    BY <2>1, AlikeSafe
  <2>4. HeldBy(LoadView(a, a.ui.view).net, LoadView(a, a.ui.view).ui.waiting)
    BY <1>1, <1>4, <2>1, <2>3, LoadViewHeld
  <2>5. QED BY <1>4, <2>1, <2>2, <2>4
<1>5. CASE c.op \notin {"load", "shelf", "batch"}
  <2> DEFINE b == [s EXCEPT !.ui.error = TRUE]
  <2>1. b.net = s.net /\ b.ui.waiting = W
    BY <1>1 DEF UiFields
  <2>2. ProductsReply(s, c) = IF c.st = "ok" THEN LoadView(s, c.view) ELSE b
    BY <1>5 DEF ProductsReply
  <2> HIDE DEF b
  <2>3. HeldBy(LoadView(s, c.view).net, LoadView(s, c.view).ui.waiting)
    BY <1>1, <1>5, LoadViewHeld
  <2>4. QED BY <1>5, <2>1, <2>2, <2>3
<1>6. QED BY <1>2, <1>3, <1>4, <1>5

LEMMA HeldRowsInit ==
    Init => HeldRows
<1> SUFFICES ASSUME Init, page = "products" PROVE HeldBy(net, ui.waiting)
  BY DEF HeldRows
<1>1. PICK u : Mounted(u)
  BY DEF Init
<1> DEFINE c == Call("load", {}, u.view, "same", {})
<1>2. net = <<c>> /\ c.rows = {}
  BY <1>1 DEF Mounted, Call
<1> HIDE DEF c
<1>3. DOMAIN net = {1} /\ net[1] = c
  BY <1>2
<1>4. QED BY <1>2, <1>3 DEF HeldBy, Apart

LEMMA HeldSteps ==
    ASSUME page = "products", Console, HeldRows, ProductsNext \/ Refresh \/ \E q \in Keys : Expire(q)
    PROVE  HeldRows'
<1>1. page \in Caching /\ HeldBy(net, ui.waiting)
  BY DEF Caching, HeldRows
<1>2. /\ DOMAIN Here = {"ui", "net", "cache", "hist"} /\ Here.ui = ui /\ Here.net = net /\ UiFields \subseteq DOMAIN ui
      /\ Consistent(Here, db) /\ ui.view \in Views[page] /\ ui.rows \in Table /\ ui.doomed \in Maybe /\ ui.picked \in SUBSET Maybe
  BY <1>1, HereFields DEF Safe, Consistent, IsUi, Picks
<1> DEFINE T == Traffic(db, hist.acked)
<1>3. net \in Seq(T)
  BY <1>1, HereFields DEF Safe, Consistent
<1>4. ASSUME NEW op \in {"delete", "batch"}, NEW rows \in SUBSET Maybe, NEW to \in Statuses
      PROVE  HeldBy(Append(net, Call(op, rows, ui.view, to, Live)), ui.waiting)
  <2> DEFINE c == Call(op, rows, ui.view, to, Live)
  <2>1. op \in {"load"} \cup WritesOf[page] /\ op # "task" /\ to \in Statuses \cup {"same"} /\ Live \in SUBSET Statuses
    BY DEF WritesOf, Statuses
  <2>2. c \in T /\ c.op = op
    BY <1>2, <2>1, SentCall
  <2>3. ~Holds(c)
    BY <2>2 DEF Holds
  <2> HIDE DEF c
  <2>4. QED BY <1>1, <1>3, <2>2, <2>3, IdleAppend DEF c
<1>5. CASE ProductsShelf
  <2>0. PICK r \in Rows : \E to \in ProductsRowOffers(r) \cap Live :
          Do(Send([Here EXCEPT !.ui.waiting = @ \cup {r}], "shelf", {r}, to, {ui.rows[r].st}))
    BY <1>5 DEF ProductsShelf
  <2>1. PICK to \in ProductsRowOffers(r) \cap Live : Do(Send([Here EXCEPT !.ui.waiting = @ \cup {r}], "shelf", {r}, to, {ui.rows[r].st}))
    BY <2>0
  <2> DEFINE x == Send([Here EXCEPT !.ui.waiting = @ \cup {r}], "shelf", {r}, to, {ui.rows[r].st})
             c == Call("shelf", {r}, ui.view, to, {ui.rows[r].st})
  <2>2. r \notin ui.waiting
    BY DEF ProductsRowOffers, Live
  <2>3. x.net = Append(net, c) /\ x.ui.waiting = ui.waiting \cup {r}
    BY <1>2 DEF Send, UiFields
  <2>4. c \in T /\ c.rows = {r}
    <3>1. "shelf" \in {"load"} \cup WritesOf[page] /\ "shelf" # "task" /\ {r} \in SUBSET Maybe /\ to \in Statuses \cup {"same"} /\ {ui.rows[r].st} \in SUBSET Statuses
      BY <1>2 DEF WritesOf, Maybe, Statuses, Table
    <3>2. QED BY <1>2, <3>1, SentCall
  <2> HIDE DEF x, c
  <2>5. c.rows \cap ui.waiting = {}
    BY <2>2, <2>4
  <2>6. HeldBy(Append(net, c), ui.waiting \cup c.rows)
    BY <1>1, <1>3, <2>4, <2>5, HeldAppend
  <2>7. HeldBy(x.net, x.ui.waiting)
    BY <2>3, <2>4, <2>6
  <2>8. QED BY <2>1, <2>7, HeldDo DEF x
<1>6. CASE ProductsAskDelete \/ CancelConfirm
  <2>1. PICK r : Do(Doom(Here, r))
    BY <1>6 DEF ProductsAskDelete, CancelConfirm
  <2>2. Doom(Here, r).net = net /\ Doom(Here, r).ui.waiting = ui.waiting
    BY <1>2 DEF Doom, UiFields
  <2>3. QED BY <1>1, <2>1, <2>2, HeldDo
<1>7. CASE ProductsDelete
  <2> DEFINE x == Send(Doom(Here, NoRow), "delete", {ui.doomed}, "gone", Live)
  <2>1. x.net = Append(net, Call("delete", {ui.doomed}, ui.view, "gone", Live)) /\ x.ui.waiting = ui.waiting
    BY <1>2 DEF Send, Doom, UiFields
  <2>2. Do(x)
    BY <1>7 DEF ProductsDelete, Delete
  <2>3. {ui.doomed} \in SUBSET Maybe /\ "gone" \in Statuses
    BY <1>2 DEF Statuses
  <2> HIDE DEF x
  <2>4. HeldBy(x.net, x.ui.waiting)
    BY <1>4, <2>1, <2>3
  <2>5. QED BY <2>2, <2>4, HeldDo
<1>8. CASE ProductsBatch
  <2>1. PICK to \in {"on", "off"} : Do(Send(Here, "batch", ui.picked, to, Live))
    BY <1>8 DEF ProductsBatch
  <2> DEFINE x == Send(Here, "batch", ui.picked, to, Live)
  <2>2. x.net = Append(net, Call("batch", ui.picked, ui.view, to, Live)) /\ x.ui.waiting = ui.waiting
    BY <1>2 DEF Send
  <2>3. to \in Statuses
    BY DEF Statuses, Live
  <2>4. Do(x)
    BY <2>1
  <2> HIDE DEF x
  <2>5. HeldBy(x.net, x.ui.waiting)
    BY <1>2, <1>4, <2>2, <2>3
  <2>6. QED BY <2>4, <2>5, HeldDo
<1>9. CASE ProductsPick
  <2>1. PICK p : Do([Here EXCEPT !.ui.picked = p])
    <3>1. CASE \E r \in Rows : ToggleRow(r)
      BY <3>1 DEF ToggleRow
    <3>2. CASE ToggleAll
      BY <3>2 DEF ToggleAll
    <3>3. QED BY <1>9, <3>1, <3>2 DEF ProductsPick
  <2>2. [Here EXCEPT !.ui.picked = p].net = net /\ [Here EXCEPT !.ui.picked = p].ui.waiting = ui.waiting
    BY <1>2 DEF UiFields
  <2>3. QED BY <1>1, <2>1, <2>2, HeldDo
<1>10. CASE ProductsFilter
  <2>1. PICK url : GoTo(url)
    BY <1>10 DEF ProductsFilter, ChooseFilter, TurnPage
  <2> DEFINE s == [Here EXCEPT !.ui.view = url]
  <2>2. url \in Views[page] /\ Do(IF url = ui.view THEN Here ELSE Load(s))
    BY <2>1 DEF GoTo
  <2>3. Consistent(s, db) /\ s.ui.view = url /\ s.net = net /\ s.ui.waiting = ui.waiting
    BY <1>2, <2>2 DEF Consistent, IsUi, UiFields
  <2> HIDE DEF s
  <2>4. HeldBy(LoadView(s, url).net, LoadView(s, url).ui.waiting)
    BY <1>1, <2>2, <2>3, LoadViewHeld
  <2>5. QED BY <1>1, <1>2, <2>2, <2>3, <2>4, HeldDo DEF Load
<1>11. CASE Refresh
  <2> DEFINE a == LoadView(Here, ui.view)
             y == [a EXCEPT !.net[Len(a.net)].to = "refresh"]
  <2>1. HeldBy(a.net, a.ui.waiting)
    BY <1>1, <1>2, LoadViewHeld
  <2>2. Do(IF a.net = net THEN a ELSE y)
    BY <1>2, <1>11 DEF Refresh, RefreshLoad, Load
  <2>3. DOMAIN a = {"ui", "net", "cache", "hist"} /\ a.net \in Seq(Traffic(db, a.hist.acked))
    BY <1>1, <1>2, LoadViewSafe DEF Safe, Consistent
  <2> HIDE DEF a
  <2>4. y.ui = a.ui /\ DOMAIN y.net = DOMAIN a.net
        /\ \A j \in DOMAIN a.net : y.net[j] = IF j = Len(a.net) THEN [a.net[j] EXCEPT !.to = "refresh"] ELSE a.net[j]
    BY <2>3
  <2>5. \A j \in DOMAIN a.net : a.net[j] \in CallType
    BY <2>3 DEF Traffic
  <2>6. \A j \in DOMAIN a.net : y.net[j].op = a.net[j].op /\ y.net[j].st = a.net[j].st /\ y.net[j].rows = a.net[j].rows
    BY <2>4, <2>5 DEF CallType
  <2> HIDE DEF y
  <2>7. HeldBy(y.net, y.ui.waiting)
    BY <2>1, <2>4, <2>6, HeldSame DEF Holds
  <2>8. QED BY <2>1, <2>2, <2>7, HeldDo
<1>12. CASE \E q \in Keys : Expire(q)
  <2>1. PICK q \in Keys : Do([Here EXCEPT !.cache[q] = NoList])
    BY <1>12 DEF Expire
  <2>2. [Here EXCEPT !.cache[q] = NoList].net = net /\ [Here EXCEPT !.cache[q] = NoList].ui = ui
    BY <1>2
  <2>3. QED BY <1>1, <2>1, <2>2, HeldDo
<1>13. QED BY <1>5, <1>6, <1>7, <1>8, <1>9, <1>10, <1>11, <1>12 DEF ProductsNext

LEMMA HeldServe ==
    ASSUME page = "products", Console, HeldRows, NEW i \in DOMAIN net, Serve(i)
    PROVE  HeldRows'
<1> DEFINE c == net[i]
           W == ui.waiting
           T == Traffic(db, hist.acked)
<1>1. page \in Caching /\ HeldBy(net, W)
  BY DEF Caching, HeldRows
<1>2. net \in Seq(T) /\ \A j \in DOMAIN net : net[j] \in CallType
  BY <1>1, HereFields DEF Safe, Consistent, Traffic
<1>3. \A st, got : st # "orphan" => HeldBy(Answered(net, i, st, got), W)
  <2> TAKE st, got
  <2> HAVE st # "orphan"
  <2>1. CASE c.st = "orphan"
    BY <1>1, <1>2, <2>1, HeldRemove DEF Answered
  <2>2. CASE c.st # "orphan"
    <3> DEFINE os == Answered(net, i, st, got)
    <3>1. os = [net EXCEPT ![i] = [c EXCEPT !.st = st, !.got = got]]
      BY <2>2 DEF Answered
    <3> HIDE DEF os
    <3>2. DOMAIN os = DOMAIN net /\ \A j \in DOMAIN net : Holds(os[j]) => Holds(net[j]) /\ os[j].rows = net[j].rows
      BY <1>2, <2>2, <3>1 DEF Holds, CallType
    <3>3. QED BY <1>1, <3>2, HeldSame DEF os
  <2>3. QED BY <2>1, <2>2
<1>4. PICK m : m = net'
  OBVIOUS
<1> DEFINE task == [c EXCEPT !.op = "task", !.st = "orphan"]
<1>5. \/ m \in {Answered(net, i, "ok", Found(c)), Answered(net, i, "ok", Written(c)), Answered(net, i, "conflict", BlankRows), Answered(net, i, "no", BlankRows)}
      \/ m = Append(Answered(net, i, "ok", db), task)
  BY <1>4 DEF Serve, WithoutCall, Answered
<1>6. ~Holds(task)
  BY <1>2 DEF Holds, CallType
<1>7. ASSUME m = Append(Answered(net, i, "ok", db), task) PROVE HeldBy(m, W)
  <2> DEFINE os == Answered(net, i, "ok", db)
  <2>1. \E S : os \in Seq(S)
    <3>1. CASE c.st = "orphan"
      BY <1>2, <3>1, Others DEF Answered
    <3>2. CASE c.st # "orphan"
      <4> DEFINE e == [c EXCEPT !.st = "ok", !.got = db]
      <4>1. os = [net EXCEPT ![i] = e]
        BY <3>2 DEF Answered
      <4>2. net \in Seq(T \cup {e}) /\ e \in T \cup {e} /\ i \in 1..Len(net)
        BY <1>2, SeqWider
      <4> HIDE DEF e
      <4>3. QED BY <4>1, <4>2, SeqUpdate
    <3>3. QED BY <3>1, <3>2
  <2>2. HeldBy(os, W)
    BY <1>3
  <2> HIDE DEF os, task
  <2>3. PICK S : os \in Seq(S)
    BY <2>1
  <2>4. os \in Seq(S \cup {task}) /\ task \in S \cup {task}
    BY <2>3, SeqWider
  <2>5. HeldBy(Append(os, task), W)
    BY <1>6, <2>2, <2>4, IdleAppend
  <2>6. QED BY <1>7, <2>5 DEF os
<1>8. HeldBy(m, W)
  BY <1>3, <1>5, <1>7
<1>9. QED BY <1>4, <1>8 DEF HeldRows, HeldBy, Apart, Holds, Serve

LEMMA HeldReply ==
    ASSUME page = "products", Console, HeldRows, NEW i \in DOMAIN net, Deliver(i) \/ GiveUp(i)
    PROVE  HeldRows'
<1> DEFINE n == net[i]
           W == ui.waiting
           T == Traffic(db, hist.acked)
<1>1. page \in Caching /\ HeldBy(net, W) /\ db \in Table /\ Safe(Here, db)
  BY HereFields DEF Caching, HeldRows
<1>2. net \in Seq(T) /\ \A j \in DOMAIN net : net[j] \in CallType /\ Truthful(net[j], db, hist.acked)
  BY <1>1, HereFields DEF Safe, Consistent, Traffic
<1>3. (IsGet(n) <=> n.op = "load") /\ (n.op = "load" => n.st # "orphan")
  BY <1>1, <1>2, NoDetail DEF Truthful
<1>4. /\ HeldBy(WithoutCall(i), W)
      /\ Holds(n) => HeldBy(WithoutCall(i), W \ n.rows) /\ n.rows \subseteq W
  BY <1>1, <1>2, HeldRemove DEF WithoutCall
<1>5. CASE Deliver(i)
  <2> DEFINE s == Received(i, Drops(n.op))
             t == Reply(s, n)
  <2>1. n.st \in {"ok", "no", "conflict"} /\ Do(t)
    BY <1>5 DEF Deliver
  <2>2. Consistent(s, db)
    BY <1>1, <2>1, ReceivedSafe DEF Replied
  <2>3. s.ui = ui /\ s.net = [j \in DOMAIN WithoutCall(i) |-> IF ~IsGet(n) /\ n.st = "ok" THEN [WithoutCall(i)[j] EXCEPT !.old = TRUE] ELSE WithoutCall(i)[j]]
    BY DEF Received
  <2>4. \A j \in DOMAIN WithoutCall(i) : WithoutCall(i)[j] \in CallType
    <3>1. WithoutCall(i) \in Seq(T)
      BY <1>2, Others DEF WithoutCall
    <3>2. QED BY <3>1 DEF Traffic
  <2> HIDE DEF s
  <2>5. DOMAIN s.net = DOMAIN WithoutCall(i) /\ \A j \in DOMAIN WithoutCall(i) : Holds(s.net[j]) => Holds(WithoutCall(i)[j]) /\ s.net[j].rows = WithoutCall(i)[j].rows
    BY <2>3, <2>4 DEF Holds, CallType
  <2>6. \A V : HeldBy(WithoutCall(i), V) => HeldBy(s.net, V)
    BY <2>5, HeldSame
  <2>7. n.op \in {"load", "shelf"} => Holds(n)
    BY <2>1 DEF Holds
  <2>8. t = ProductsReply(s, n)
    BY DEF Reply
  <2>9. HeldBy(t.net, t.ui.waiting)
    BY <1>2, <1>4, <2>2, <2>3, <2>6, <2>7, <2>8, ReplyHeld
  <2> HIDE DEF t
  <2>10. QED BY <2>1, <2>9, HeldDo
<1>6. CASE GiveUp(i)
  <2> DEFINE s == GivenUp(i)
             c == [n EXCEPT !.st = "no"]
             t == Reply(s, c)
  <2>1. n.op # "task" /\ n.st = "sent" /\ Do(t)
    BY <1>6 DEF GiveUp
  <2>2. Consistent(s, db)
    BY <1>1, <2>1, GivenUpSafe DEF Replied
  <2>3. s.ui = ui /\ s.net = IF IsGet(n) THEN WithoutCall(i) ELSE [net EXCEPT ![i].st = "orphan"]
    BY <1>1, HereFields DEF GivenUp
  <2>4. c \in CallType /\ c.op = n.op /\ c.rows = n.rows
    BY <1>2 DEF CallType
  <2>5. t = ProductsReply(s, c)
    BY DEF Reply
  <2> HIDE DEF s, c
  <2>6. IF n.op \in {"load", "shelf"} THEN HeldBy(s.net, W \ n.rows) /\ n.rows \subseteq W ELSE HeldBy(s.net, W)
    <3>1. CASE n.op = "load"
      <4>1. Holds(n)
        BY <2>1, <3>1 DEF Holds
      <4>2. QED BY <1>3, <1>4, <2>3, <3>1, <4>1
    <3>2. CASE n.op # "load"
      <4>1. s.net = [net EXCEPT ![i] = [n EXCEPT !.st = "orphan"]]
        BY <1>3, <2>3, <3>2
      <4>2. DOMAIN s.net = DOMAIN net /\ (\A j \in DOMAIN net : Holds(s.net[j]) => Holds(net[j]) /\ s.net[j].rows = net[j].rows) /\ ~Holds(s.net[i])
        BY <1>2, <4>1 DEF Holds, CallType
      <4>3. HeldBy(s.net, W) /\ (Holds(n) => HeldBy(s.net, W \ n.rows) /\ n.rows \subseteq W)
        BY <1>1, <4>2, HeldSame
      <4>4. n.op = "shelf" => Holds(n)
        BY <2>1 DEF Holds
      <4>5. QED BY <3>2, <4>3, <4>4
    <3>3. QED BY <3>1, <3>2
  <2>7. HeldBy(t.net, t.ui.waiting)
    BY <2>2, <2>3, <2>4, <2>5, <2>6, ReplyHeld
  <2> HIDE DEF t
  <2>8. QED BY <2>1, <2>7, HeldDo
<1>7. QED BY <1>5, <1>6

LEMMA HeldRowsStep ==
    Console /\ HeldRows /\ [Next]_vars => HeldRows'
<1> SUFFICES ASSUME Console, HeldRows, [Next]_vars PROVE HeldRows'
  OBVIOUS
<1>1. CASE page \notin Caching
  BY <1>1, PageStays DEF HeldRows, Caching
<1>2. CASE page \in Caching \ {"products"}
  <2>1. page' = page
    BY <1>2, PageStays
  <2>2. QED BY <1>2, <2>1 DEF HeldRows
<1>3. CASE page = "products" /\ UNCHANGED vars
  BY <1>3 DEF HeldRows, HeldBy, Apart, Holds, vars
<1>4. CASE page = "products" /\ Next
  BY <1>4, HeldSteps, HeldServe, HeldReply DEF Next, Elsewhere
<1>5. QED BY <1>1, <1>2, <1>3, <1>4 DEF Caching

\* The calls that hold rows hold different ones, and the page shows each as waiting.
THEOREM HeldRowsInv ==
    Spec => []HeldRows
<1>1. Init => Console /\ HeldRows
  BY ConsoleInit, HeldRowsInit
<1>2. Console /\ HeldRows /\ [Next]_vars => (Console /\ HeldRows)'
  BY ConsoleStep, HeldRowsStep
<1>3. Spec => [](Console /\ HeldRows)
  BY <1>1, <1>2, PTL DEF Spec
<1>4. QED BY <1>3, PTL

LEMMA HeldRowsOffer ==
    HeldRows => ShelfActionHoldsRow
<1> SUFFICES ASSUME HeldRows, page = "products", NEW i \in DOMAIN net, net[i].op \in {"shelf", "load"}, net[i].st # "orphan", NEW r \in net[i].rows
             PROVE  ProductsRowOffers(r) \cap Live = {}
  BY DEF ShelfActionHoldsRow
<1>1. r \in ui.waiting
  BY DEF HeldRows, HeldBy, Holds
<1>2. QED BY <1>1 DEF ProductsRowOffers, Live

\* A product whose shelf action or reload is under way offers no other shelf action.
THEOREM ShelfHoldsRow ==
    Spec => []ShelfActionHoldsRow
BY HeldRowsInv, HeldRowsOffer, PTL
==============================================================================
