---------------------------- MODULE StorefrontProofs ----------------------------
(***************************************************************************)
(* Theorems about the pages of the shop, one page at a time, for any       *)
(* products, users and pages, and any number of calls, acts and failures.  *)
(***************************************************************************)
EXTENDS Storefront, DataTheorems

\* Each page has steps of its own, and none of them leaves it but a link.
Stays == screen' = screen

LEMMA DoStays == ASSUME NEW s, Do(s) \/ Op(s) PROVE Stays
BY DEF Do, Op, Stays

LEMMA ListSteps == ListNext => screen = "list" /\ Stays
BY DoStays, ZenonT(40) DEF ListNext, ChangeFilter, Intersect, toggleFavorite
LEMMA DialogSteps == DialogNext => screen = "dialog" /\ Stays
BY DoStays DEF DialogNext, openQuickAdd, closeQuickAdd, PickThumb, PickSpec, StepQty, DialogAdd, DialogCloses, DialogHeart
LEMMA ProductSteps == ProductNext => screen = "product" /\ Stays
BY DoStays DEF ProductNext, handleAddToCart, handleToggleFavorite, handleSubmitReview
LEMMA CartSteps == CartNext => screen = "cart" /\ Stays
BY DoStays DEF CartNext, addItem, updateQuantity, RemovePressed, removeItem, clearCart, HoldToast, LeaveToast, HideToast, Dropdown
LEMMA FavoritesSteps == handleRemove => screen = "favorites" /\ Stays
BY DoStays DEF handleRemove
LEMMA NoticesSteps == NoticesNext => screen = "notices" /\ Stays
BY DoStays DEF NoticesNext, handleLoadMore, handleMarkRead, handleMarkAllRead
LEMMA CheckoutSteps == CheckoutNext => screen = "checkout" /\ Stays
BY DoStays DEF CheckoutNext, ChooseCoupon, ChooseMethod, handlePlaceOrder
LEMMA PaymentSteps == poll \/ runScenario => screen \in {"return", "mock"} /\ Stays
BY DoStays DEF poll, runScenario
LEMMA OrderSteps == OrderNext => screen = "order" /\ Stays
BY DoStays DEF OrderNext, OpenDialog, DismissDialog, TypeReason, Confirm
LEMMA SessionSteps == SessionNext => SignedPages /\ Stays
BY DoStays DEF SessionNext, RetryUser, openPage, Leave, handleLoginAgain, handleToggle, handleSubmit, handleSocialLogin,
   PollWindow, handleRegister, handleAdminLogin, RoleProtectedRoute, SignedPages
LEMMA AccountSteps == AccountNext => AccountPages /\ Stays
BY DoStays DEF AccountNext, ProfileNext, goTab, ChooseStatus, AddressNext, handleSaveNickname, handleSendCode, handleChangePw,
   CoolsDown, CouponsNext, claim, handleTrack, ForgotNext, SetPasswordNext, AccountPages
LEMMA ShellSteps == ShellNext => ShellPages /\ Stays
BY DoStays, ZenonT(40) DEF ShellNext, PollNotifs, LayoutNext, HeaderNext, Toggle, toggleSidebar, PressLink, PressNotice, handleLogout, TypeSearch,
   SearchDue, FocusSearch, LeaveSearch, PressFound, OpenPalette, ClosePalette, onKeyDown, RefreshPressed, NavNext,
   handleAvatarChange, NavSaveNickname, ChoosePlatform, ShellPages
WidgetPages == {"bar", "gallery", "preview", "toasts", "lazy", "logo"}
LEMMA WidgetsSteps == WidgetsNext => screen \in WidgetPages /\ Stays
BY DoStays, ZenonT(40) DEF WidgetsNext, BarNext, GalleryNext, PreviewNext, ToastsNext, LazyNext, LogoNext, WidgetPages,
   setCurrency, setLang, onUpload, readWithProgress, VideoAdded, VideoUnread, PressGallery, onKey, generate, StepDue,
   showToast, removeToast, ToastExits, notify, dismiss, OpenRoute, lazyWithReload, ChunkLost, PageReloads, reloadCooldown,
   handleReset, Release, handleFiles, Stays
LEMMA PicturesSteps == PicturesNext => screen = "pictures" /\ Stays
BY DoStays DEF PicturesNext, Loads, Fails, ShowAnother, CdnTurns, TimePasses, Stays

\* What a page does not do itself is done by the network, or leaves it.
Untouched == UNCHANGED <<srv, ui, calls>>
LEMMA PageLeft == [Next]_vars => Stays \/ screen' = "elsewhere"
<1>1. OthersAct \/ Expire \/ (\E i \in DOMAIN calls : Serve(i)) => Stays
  BY DEF OthersAct, Expire, Serve, Stays
<1>2. (\E i \in DOMAIN calls : Deliver(i)) => Stays
  BY DoStays DEF Deliver
<1>3. Follow => screen' = "elsewhere"
  BY DEF Follow
<1>4. UserNext => Stays \/ screen' = "elsewhere"
  BY <1>3, ListSteps, DialogSteps, ProductSteps, CartSteps, FavoritesSteps, NoticesSteps, CheckoutSteps, PaymentSteps,
     OrderSteps, SessionSteps, AccountSteps, ShellSteps, WidgetsSteps, PicturesSteps DEF UserNext
<1>5. UNCHANGED vars => Stays
  BY DEF vars, Stays
<1>6. QED BY <1>1, <1>2, <1>4, <1>5 DEF Next

LEMMA PageSteps ==
    ASSUME [Next]_vars, screen' \in {"list", "dialog", "checkout"}
    PROVE  /\ screen' = screen
           /\ \/ Untouched
              \/ screen = "list" /\ ListNext
              \/ screen = "dialog" /\ DialogNext
              \/ screen = "checkout" /\ CheckoutNext
              \/ \E i \in DOMAIN calls : Serve(i) \/ Deliver(i)
<1>1. screen' = screen
  BY PageLeft DEF Stays
<1>2. OthersAct \/ Expire \/ UNCHANGED vars => Untouched
  BY <1>1 DEF OthersAct, Expire, vars, Untouched, SessionActs, SignedPages
<1>3. UserNext => ListNext \/ DialogNext \/ CheckoutNext
  <2>1. ~Follow
    BY <1>1 DEF Follow
  <2>2. QED
    BY <1>1, <2>1, ProductSteps, CartSteps, FavoritesSteps, NoticesSteps, PaymentSteps, OrderSteps, SessionSteps, AccountSteps,
       ShellSteps, WidgetsSteps, PicturesSteps DEF UserNext, SignedPages, AccountPages, ShellPages, WidgetPages
<1>4. QED BY <1>1, <1>2, <1>3, ListSteps, DialogSteps, CheckoutSteps DEF Next

-----------------------------------------------------------------------------
(***************************************************************************)
(* Browser states and calls.                                               *)
(***************************************************************************)
Browser(s) == DOMAIN s = {"ui", "calls", "cache"} /\ s.calls \in Seq(ToSet(s.calls))
IsCall(c) == DOMAIN c = {"op", "arg", "gen", "st", "got"}
Alike(c, d) == IsCall(d) /\ d.op = c.op /\ d.arg = c.arg /\ d.gen = c.gen

LEMMA CallFacts ==
    ASSUME NEW op, NEW arg
    PROVE  IsCall(Call(op, arg)) /\ Call(op, arg).op = op /\ Call(op, arg).arg = arg /\ Call(op, arg).gen = 0
           /\ Call(op, arg).st = "sent"
BY DEF Call, IsCall

\* A call is sent behind those that are out.
LEMMA SendFacts ==
    ASSUME NEW s, Browser(s), NEW c
    PROVE  /\ Browser(Send(s, c)) /\ Send(s, c).ui = s.ui /\ Send(s, c).cache = s.cache
           /\ Send(s, c).calls = Append(s.calls, c)
           /\ ToSet(Send(s, c).calls) = ToSet(s.calls) \cup {c}
<1> DEFINE D == ToSet(s.calls) \cup {c}
<1>1. s.calls \in Seq(D) /\ c \in D
  BY DEF Browser
<1>2. Append(s.calls, c) \in Seq(D) /\ ToSet(Append(s.calls, c)) = D
  <2> HIDE DEF D
  <2>1. Append(s.calls, c) \in Seq(D) /\ ToSet(Append(s.calls, c)) = ToSet(s.calls) \cup {c}
    BY <1>1, AppendFacts
  <2>2. QED BY <2>1 DEF D
<1> HIDE DEF D
<1>3. /\ DOMAIN Send(s, c) = {"ui", "calls", "cache"} /\ Send(s, c).ui = s.ui /\ Send(s, c).cache = s.cache
      /\ Send(s, c).calls = Append(s.calls, c)
  BY DEF Browser, Send
<1>4. QED BY <1>2, <1>3 DEF Browser, D

LEMMA GetFacts ==
    ASSUME NEW s, Browser(s), NEW c, IsCall(c)
    PROVE  \E d : Alike(c, d) /\ Get(s, c) = Send(s, d)
<1>1. Alike(c, c)
  BY DEF Alike
<1>2. Alike(c, [c EXCEPT !.st = "ok", !.got = s.cache[Key(c)]])
  BY DEF Alike, IsCall
<1>3. QED BY <1>1, <1>2 DEF Get

LEMMA HereFacts == ASSUME calls \in Seq(ToSet(calls)) PROVE Browser(Here) /\ Here.ui = ui /\ Here.calls = calls
BY DEF Browser, Here

LEMMA DoFacts ==
    ASSUME NEW s, Do(s) \/ Op(s)
    PROVE  ui' = s.ui /\ calls' = s.calls /\ cache' = s.cache /\ screen' = screen /\ srv' = srv
BY DEF Do, Op

\* The call that came back is taken out, the others stay as they are.
LEMMA ReceivedFacts ==
    ASSUME calls \in Seq(ToSet(calls)), NEW i \in DOMAIN calls
    PROVE  /\ Browser(Received(i)) /\ Received(i).ui = ui
           /\ Received(i).calls = RemoveAt(calls, i)
           /\ ToSet(Received(i).calls) \subseteq ToSet(calls)
<1> DEFINE D == ToSet(calls)
<1>1. calls \in Seq(D) /\ i \in 1..Len(calls)
  OBVIOUS
<1>2. \A j \in DOMAIN calls : calls[j] \in D
  BY DEF ToSet
<1> HIDE DEF D
<1>3. /\ RemoveAt(calls, i) \in Seq(D) /\ Len(RemoveAt(calls, i)) = Len(calls) - 1
      /\ \A j \in 1..Len(RemoveAt(calls, i)) : RemoveAt(calls, i)[j] = calls[IF j < i THEN j ELSE j + 1]
  BY <1>1, RemoveAtFacts
<1> DEFINE r == RemoveAt(calls, i)
<1>4. r \in Seq(ToSet(r)) /\ ToSet(r) \subseteq D
  <2> HIDE DEF r
  <2>1. r \in Seq(D)
    BY <1>3 DEF r
  <2>2. QED BY <2>1, ToSetFacts DEF ToSet
<1> HIDE DEF r
<1>5. DOMAIN Received(i) = {"ui", "calls", "cache"} /\ Received(i).ui = ui /\ Received(i).calls = r
  BY DEF Received, r
<1>6. QED BY <1>4, <1>5 DEF Browser, D, r

\* The server answers one call and touches nothing else of the browser's.
LEMMA ServeFacts ==
    ASSUME NEW i \in DOMAIN calls, Serve(i), calls \in Seq(ToSet(calls)), \A c \in ToSet(calls) : IsCall(c)
    PROVE  /\ ui' = ui /\ calls[i].st = "sent" /\ DOMAIN calls' = DOMAIN calls
           /\ \A j \in DOMAIN calls : j # i => calls'[j] = calls[j]
           /\ Alike(calls[i], calls'[i])
           /\ calls' \in Seq(ToSet(calls'))
           /\ \A c \in ToSet(calls') : c \in ToSet(calls) \/ c = calls'[i]
<1>1. ui' = ui /\ calls[i].st = "sent" /\ \E st, got : Answer(i, st, got)
  BY DEF Serve
<1>2. PICK st, got : calls' = [calls EXCEPT ![i].st = st, ![i].got = got]
  BY <1>1 DEF Answer
<1>3. IsCall(calls[i])
  BY DEF ToSet
<1>4. DOMAIN calls' = DOMAIN calls /\ \A j \in DOMAIN calls : j # i => calls'[j] = calls[j]
  BY <1>2
<1>5. Alike(calls[i], calls'[i])
  <2> DEFINE c == calls[i]
             d == [[c EXCEPT !.st = st] EXCEPT !.got = got]
  <2>1. calls'[i] = d
    BY <1>2
  <2> HIDE DEF c
  <2>2. IsCall(c)
    BY <1>3 DEF c
  <2>3. Alike(c, d)
    BY <2>2 DEF IsCall, Alike
  <2>4. QED BY <2>1, <2>3 DEF c
<1>6. calls' \in Seq(ToSet(calls'))
  <2> DEFINE n == Len(calls)
             S == ToSet(calls')
  <2>1. n \in Nat /\ DOMAIN calls = 1..n
    OBVIOUS
  <2>2. \A j \in 1..n : calls'[j] \in S
    BY <1>4, <2>1 DEF ToSet
  <2>3. calls' = [j \in 1..n |-> calls'[j]]
    BY <1>2, <2>1
  <2> HIDE DEF n, S
  <2>4. calls' \in [1..n -> S]
    BY <2>2, <2>3
  <2>5. QED BY <2>1, <2>4, SeqDef DEF S
<1>7. QED BY <1>1, <1>4, <1>5, <1>6 DEF ToSet

-----------------------------------------------------------------------------
(***************************************************************************)
(* The quick-add dialog.                                                   *)
(***************************************************************************)
DialogFields == {"at", "seq", "detail", "spec", "qty", "shot", "adding", "loading", "error", "fav", "favLoading"}
DialogOps == {"detail", "favs", "add", "like", "unlike"}
\* What opening number n asked for is what the dialog is open for, as long as it is.
OpeningAsked(u, c) ==
  /\ IsCall(c) /\ c.op \in DialogOps
  /\ c.op = "detail" => c.gen \in Nat /\ c.gen <= u.seq /\ (c.gen = u.seq /\ u.at # NoProduct => c.arg = u.at)
DialogState(u, cs) ==
  /\ DOMAIN u = DialogFields /\ u.seq \in Nat
  /\ u.at # NoProduct /\ u.detail # NoProduct => u.detail = u.at
  /\ cs \in Seq(ToSet(cs)) /\ \A c \in ToSet(cs) : OpeningAsked(u, c)
OfOneProduct == screen = "dialog" => DialogState(ui, calls)

\* A handler that opens nothing and sends nothing leaves the calls as they are.
SameOpening(u, v) == DOMAIN v = DialogFields /\ v.seq = u.seq /\ v.at \in {u.at, NoProduct}
                     /\ (v.detail = u.detail \/ v.detail \in {v.at, NoProduct})
LEMMA OpeningKept ==
    ASSUME NEW u, NEW cs, DialogState(u, cs), NEW v, SameOpening(u, v),
           NEW ds, ds \in Seq(ToSet(ds)), \A d \in ToSet(ds) : d \in ToSet(cs) \/ OpeningAsked(v, d)
    PROVE  DialogState(v, ds)
BY DEF DialogState, SameOpening, OpeningAsked

LEMMA DialogSends ==
    ASSUME NEW s, Browser(s), NEW u, NEW cs, DialogState(u, cs), SameOpening(u, s.ui), ToSet(s.calls) \subseteq ToSet(cs),
           NEW c, OpeningAsked(s.ui, c)
    PROVE  DialogState(Send(s, c).ui, Send(s, c).calls)
<1>1. /\ Browser(Send(s, c)) /\ Send(s, c).ui = s.ui
      /\ ToSet(Send(s, c).calls) = ToSet(s.calls) \cup {c}
  BY SendFacts
<1>2. QED BY <1>1, OpeningKept DEF Browser

LEMMA DialogStays ==
    ASSUME NEW s, Browser(s), NEW u, NEW cs, DialogState(u, cs), SameOpening(u, s.ui), ToSet(s.calls) \subseteq ToSet(cs)
    PROVE  DialogState(s.ui, s.calls)
BY OpeningKept DEF Browser

LEMMA DialogActs ==
    ASSUME screen = "dialog", DialogState(ui, calls), DialogNext
    PROVE  DialogState(ui', calls')
<1>0. calls \in Seq(ToSet(calls)) /\ DOMAIN ui = DialogFields /\ ui.seq \in Nat
  BY DEF DialogState
<1>1. Browser(Here) /\ Here.ui = ui /\ Here.calls = calls
  BY <1>0, HereFacts
<1>2. ASSUME openQuickAdd PROVE DialogState(ui', calls')
  <2>1. PICK p \in Products : Op(DialogOpens(Here, p))
    BY <1>2 DEF openQuickAdd
  <2> DEFINE s == [Here EXCEPT !.ui = [BlankDialog EXCEPT !.at = p, !.seq = ui.seq + 1, !.loading = TRUE, !.favLoading = ui.favLoading]]
             c == [Call("detail", p) EXCEPT !.gen = ui.seq + 1]
  <2>2. DialogOpens(Here, p) = Get(s, c)
    BY <1>1 DEF DialogOpens
  <2>3. Browser(s) /\ s.calls = calls
    BY <1>1 DEF Browser
  <2>4. DOMAIN s.ui = DialogFields /\ s.ui.seq = ui.seq + 1 /\ s.ui.at = p /\ s.ui.detail = NoProduct
    BY <1>1 DEF BlankDialog, DialogFields, Browser
  <2>5. IsCall(c) /\ c.op = "detail" /\ c.arg = p /\ c.gen = ui.seq + 1
    BY CallFacts DEF IsCall
  <2> HIDE DEF s, c
  <2>6. PICK d : Alike(c, d) /\ Get(s, c) = Send(s, d)
    BY <2>3, <2>5, GetFacts
  <2>7. Browser(Send(s, d)) /\ Send(s, d).ui = s.ui /\ ToSet(Send(s, d).calls) = ToSet(calls) \cup {d}
    BY <2>3, SendFacts
  <2>8. OpeningAsked(s.ui, d)
    BY <1>0, <2>4, <2>5, <2>6 DEF Alike, OpeningAsked, DialogOps
  <2>9. \A e \in ToSet(calls) : OpeningAsked(s.ui, e)
    BY <1>0, <2>4 DEF DialogState, OpeningAsked
  <2>10. DialogState(Send(s, d).ui, Send(s, d).calls)
    BY <1>0, <2>4, <2>7, <2>8, <2>9 DEF DialogState, Browser
  <2>11. QED BY <2>1, <2>2, <2>6, <2>10, DoFacts
<1>3. ASSUME NEW s, Do(s), Browser(s), s.calls = calls, SameOpening(ui, s.ui) PROVE DialogState(ui', calls')
  BY <1>3, DialogStays, DoFacts
<1>4. ASSUME NEW s, NEW c, Op(Send(s, c)), Browser(s), s.calls = calls, SameOpening(ui, s.ui), OpeningAsked(s.ui, c)
      PROVE  DialogState(ui', calls')
  BY <1>4, DialogSends, DoFacts
<1>5. CASE closeQuickAdd \/ DialogCloses
  <2>1. Do(Shut(Here))
    BY <1>5 DEF closeQuickAdd, DialogCloses
  <2>2. Browser(Shut(Here)) /\ Shut(Here).calls = calls /\ SameOpening(ui, Shut(Here).ui)
    BY <1>0, <1>1 DEF Shut, Browser, SameOpening, DialogFields
  <2>3. QED BY <1>3, <2>1, <2>2
<1>6. CASE PickThumb \/ StepQty
  <2>1. ASSUME NEW x, Do([Here EXCEPT !.ui.shot = x]) PROVE DialogState(ui', calls')
    <3> DEFINE s == [Here EXCEPT !.ui.shot = x]
    <3>1. Browser(s) /\ s.calls = calls /\ SameOpening(ui, s.ui)
      BY <1>0, <1>1 DEF Browser, SameOpening, DialogFields
    <3> HIDE DEF s
    <3>2. QED BY <1>3, <2>1, <3>1 DEF s
  <2>2. ASSUME NEW x, Do([Here EXCEPT !.ui.qty = x]) PROVE DialogState(ui', calls')
    <3> DEFINE s == [Here EXCEPT !.ui.qty = x]
    <3>1. Browser(s) /\ s.calls = calls /\ SameOpening(ui, s.ui)
      BY <1>0, <1>1 DEF Browser, SameOpening, DialogFields
    <3> HIDE DEF s
    <3>2. QED BY <1>3, <2>2, <3>1 DEF s
  <2>3. CASE PickThumb
    BY <2>1, <2>3 DEF PickThumb
  <2>4. CASE StepQty
    <3>1. Do([Here EXCEPT !.ui.qty = Here.ui.qty - 1]) \/ Do([Here EXCEPT !.ui.qty = Here.ui.qty + 1])
      BY <2>4 DEF StepQty
    <3>2. QED BY <2>2, <3>1
  <2>5. QED BY <1>6, <2>3, <2>4
<1>7. CASE PickSpec
  <2>1. PICK x, y : Do([Here EXCEPT !.ui.spec = x, !.ui.shot = y])
    BY <1>7 DEF PickSpec
  <2> DEFINE s == [Here EXCEPT !.ui.spec = x, !.ui.shot = y]
  <2>2. Browser(s) /\ s.calls = calls /\ SameOpening(ui, s.ui)
    BY <1>0, <1>1 DEF Browser, SameOpening, DialogFields
  <2> HIDE DEF s
  <2>3. QED BY <1>3, <2>1, <2>2 DEF s
<1>8. CASE DialogAdd
  <2>1. PICK sku : Op(Send([Here EXCEPT !.ui.adding = TRUE], Call("add", [of |-> ui.detail, sku |-> sku, qty |-> ui.qty])))
    BY <1>8 DEF DialogAdd
  <2> DEFINE s == [Here EXCEPT !.ui.adding = TRUE]
             a == [of |-> ui.detail, sku |-> sku, qty |-> ui.qty]
  <2> HIDE DEF a
  <2>2. Browser(s) /\ s.calls = calls /\ SameOpening(ui, s.ui)
    BY <1>0, <1>1 DEF Browser, SameOpening, DialogFields
  <2> HIDE DEF s
  <2>3. OpeningAsked(s.ui, Call("add", a))
    BY CallFacts DEF OpeningAsked, DialogOps
  <2>4. QED BY <1>4, <2>1, <2>2, <2>3 DEF s, a
<1>9. CASE DialogHeart
  <2> DEFINE c == [Call(IF ui.fav THEN "unlike" ELSE "like", ui.at) EXCEPT !.gen = ui.seq]
             s == [Here EXCEPT !.ui.favLoading = TRUE, !.ui.fav = ~ui.fav]
  <2>1. Op(Send(s, c))
    BY <1>1, <1>9 DEF DialogHeart
  <2>2. Browser(s) /\ s.calls = calls /\ SameOpening(ui, s.ui)
    BY <1>0, <1>1 DEF Browser, SameOpening, DialogFields
  <2>3. OpeningAsked(s.ui, c)
    <3>1. PICK op \in {"like", "unlike"} : c = [Call(op, ui.at) EXCEPT !.gen = ui.seq]
      OBVIOUS
    <3>2. IsCall(c) /\ c.op = op
      BY <3>1, CallFacts DEF IsCall
    <3> HIDE DEF c
    <3>3. QED BY <3>2 DEF OpeningAsked, DialogOps
  <2> HIDE DEF s, c
  <2>4. QED BY <1>4, <2>1, <2>2, <2>3
<1>10. QED BY <1>2, <1>5, <1>6, <1>7, <1>8, <1>9 DEF DialogNext

LEMMA DialogAnswered ==
    ASSUME NEW s, Browser(s), NEW c, NEW cs, c \in ToSet(cs), DialogState(s.ui, cs), ToSet(s.calls) \subseteq ToSet(cs)
    PROVE  DialogState(DialogReply(s, c).ui, DialogReply(s, c).calls)
<1>0. /\ DOMAIN s.ui = DialogFields /\ s.ui.seq \in Nat /\ OpeningAsked(s.ui, c)
      /\ SameOpening(s.ui, s.ui)
  BY DEF DialogState, SameOpening
<1>1. CASE DialogReply(s, c) = s
  BY <1>0, <1>1, DialogStays
<1>2. CASE c.op = "detail"
  <2>1. CASE s.ui.at = NoProduct \/ c.gen # s.ui.seq
    BY <1>1, <1>2, <2>1 DEF DialogReply, DialogLoaded
  <2>2. CASE s.ui.at # NoProduct /\ c.gen = s.ui.seq /\ c.st = "no"
    <3> DEFINE t == [s EXCEPT !.ui.error = TRUE, !.ui.loading = FALSE]
    <3>1. DialogReply(s, c) = t
      BY <1>2, <2>2 DEF DialogReply, DialogLoaded
    <3>2. Browser(t) /\ t.calls = s.calls /\ SameOpening(s.ui, t.ui)
      BY <1>0 DEF Browser, SameOpening, DialogFields
    <3> HIDE DEF t
    <3>3. QED BY <3>1, <3>2, DialogStays
  <2>3. CASE s.ui.at # NoProduct /\ c.gen = s.ui.seq /\ c.st # "no"
    <3> DEFINE x == Unchosen(c.arg)
    <3> HIDE DEF x
    <3> DEFINE t == [s EXCEPT !.ui.detail = c.arg, !.ui.spec = x]
               f == [Call("favs", 1) EXCEPT !.gen = c.gen]
    <3>1. DialogReply(s, c) = Get(t, f)
      BY <1>2, <2>3 DEF DialogReply, DialogLoaded, x
    <3>2. Browser(t) /\ t.calls = s.calls /\ DOMAIN t.ui = DialogFields /\ t.ui.seq = s.ui.seq /\ t.ui.at = s.ui.at /\ t.ui.detail = c.arg
      BY <1>0 DEF Browser, DialogFields
    <3>3. c.arg = t.ui.at
      BY <1>0, <1>2, <2>3, <3>2 DEF OpeningAsked
    <3>4. IsCall(f) /\ f.op = "favs"
      BY CallFacts DEF IsCall
    <3> HIDE DEF t, f
    <3>5. PICK d : Alike(f, d) /\ Get(t, f) = Send(t, d)
      BY <3>2, <3>4, GetFacts
    <3>6. OpeningAsked(t.ui, d)
      BY <3>4, <3>5 DEF Alike, OpeningAsked, DialogOps
    <3>7. SameOpening(s.ui, t.ui)
      BY <3>2, <3>3 DEF SameOpening
    <3>8. DialogState(Send(t, d).ui, Send(t, d).calls)
      BY <3>2, <3>6, <3>7, DialogSends
    <3>9. QED BY <3>1, <3>5, <3>8
  <2>4. QED BY <2>1, <2>2, <2>3
<1>3. CASE c.op = "favs"
  <2>1. CASE s.ui.at = NoProduct \/ c.gen # s.ui.seq
    BY <1>1, <1>3, <2>1 DEF DialogReply, DialogHearts
  <2>2. CASE ~(s.ui.at = NoProduct \/ c.gen # s.ui.seq)
    <3>1. PICK x : DialogReply(s, c) = [s EXCEPT !.ui.loading = FALSE, !.ui.fav = x]
      BY <1>3, <2>2 DEF DialogReply, DialogHearts
    <3> DEFINE t == [s EXCEPT !.ui.loading = FALSE, !.ui.fav = x]
    <3>2. Browser(t) /\ t.calls = s.calls /\ SameOpening(s.ui, t.ui)
      BY <1>0 DEF Browser, SameOpening, DialogFields
    <3> HIDE DEF t
    <3>3. QED BY <3>1, <3>2, DialogStays DEF t
  <2>3. QED BY <2>1, <2>2
<1>4. CASE c.op = "add"
  BY <1>1, <1>4 DEF DialogReply
<1>5. CASE c.op \notin {"detail", "favs", "add"}
  <2>1. PICK x : DialogReply(s, c) = [s EXCEPT !.ui.favLoading = FALSE, !.ui.fav = x]
    BY <1>5 DEF DialogReply, DialogTurned
  <2> DEFINE t == [s EXCEPT !.ui.favLoading = FALSE, !.ui.fav = x]
  <2>2. Browser(t) /\ t.calls = s.calls /\ SameOpening(s.ui, t.ui)
    BY <1>0 DEF Browser, SameOpening, DialogFields
  <2> HIDE DEF t
  <2>3. QED BY <2>1, <2>2, DialogStays DEF t
<1>6. QED BY <1>2, <1>3, <1>4, <1>5

LEMMA DialogInit == Init => OfOneProduct
<1> SUFFICES ASSUME Init, screen = "dialog" PROVE DialogState(ui, calls)
  BY DEF OfOneProduct
<1>1. Mounted("dialog", Bare(BlankDialog))
  BY DEF Init, InitShop, InitBag, InitPurchase, InitAccount, InitSession, InitShell, InitWidgets, InitPictures, Mounted
<1>2. ui = BlankDialog /\ calls = <<>>
  BY <1>1 DEF Mounted, Bare
<1>3. <<>> \in Seq(ToSet(<<>>)) /\ ToSet(<<>>) = {}
  BY DEF ToSet
<1>4. QED BY <1>2, <1>3 DEF DialogState, BlankDialog, DialogFields

LEMMA DialogKept == OfOneProduct /\ [Next]_vars => OfOneProduct'
<1> SUFFICES ASSUME OfOneProduct, [Next]_vars, screen' = "dialog" PROVE DialogState(ui', calls')
  BY DEF OfOneProduct
<1>1. screen = "dialog" /\ (Untouched \/ DialogNext \/ \E i \in DOMAIN calls : Serve(i) \/ Deliver(i))
  BY PageSteps, ListSteps, CheckoutSteps
<1>2. DialogState(ui, calls)
  BY <1>1 DEF OfOneProduct
<1>3. calls \in Seq(ToSet(calls)) /\ \A c \in ToSet(calls) : IsCall(c) /\ OpeningAsked(ui, c)
  BY <1>2 DEF DialogState, OpeningAsked
<1>4. CASE Untouched
  BY <1>2, <1>4 DEF Untouched
<1>5. CASE DialogNext
  BY <1>1, <1>2, <1>5, DialogActs
<1>6. ASSUME NEW i \in DOMAIN calls, Serve(i) PROVE DialogState(ui', calls')
  <2>1. /\ ui' = ui /\ Alike(calls[i], calls'[i]) /\ calls' \in Seq(ToSet(calls'))
        /\ \A c \in ToSet(calls') : c \in ToSet(calls) \/ c = calls'[i]
    BY <1>3, <1>6, ServeFacts
  <2>2. calls[i] \in ToSet(calls)
    BY DEF ToSet
  <2>3. OpeningAsked(ui', calls'[i])
    BY <1>3, <2>1, <2>2 DEF OpeningAsked, Alike
  <2>4. SameOpening(ui, ui')
    BY <1>2, <2>1 DEF SameOpening, DialogState
  <2>5. QED BY <1>2, <2>1, <2>3, <2>4, OpeningKept
<1>7. ASSUME NEW i \in DOMAIN calls, Deliver(i) PROVE DialogState(ui', calls')
  <2>1. Do(DialogReply(Received(i), calls[i]))
    BY <1>1, <1>7 DEF Deliver, Reply, ShopReply, SignedPages, AccountPages, ShellPages
  <2>2. calls[i] \in ToSet(calls)
    BY DEF ToSet
  <2>3. QED BY <1>2, <1>3, <2>1, <2>2, ReceivedFacts, DialogAnswered, DoFacts
<1>8. QED BY <1>1, <1>4, <1>5, <1>6, <1>7

\* Whatever is opened and closed while answers are under way, the dialog shows and adds
\* the product it is open for, for any catalogue (ProductDetailModal.tsx).
THEOREM DialogShowsItsProduct == Spec => []DetailIsOpened
<1>1. OfOneProduct => DetailIsOpened
  BY DEF OfOneProduct, DialogState, DetailIsOpened, Seen
<1>2. QED BY <1>1, DialogInit, DialogKept, PTL DEF Spec

-----------------------------------------------------------------------------
(***************************************************************************)
(* The checkout.                                                           *)
(***************************************************************************)
CheckoutOps == {"coupons", "checkout", "clear", "pay"}
CheckoutCalls(cs) == cs \in Seq(ToSet(cs)) /\ \A c \in ToSet(cs) : IsCall(c) /\ c.op \in CheckoutOps
\* What was ordered is in no other order, and no longer in the cart.
Apart(bag) ==
  /\ DOMAIN bag = {"cart", "orders"} /\ bag.orders \in Seq(ToSet(bag.orders))
  /\ \A i \in DOMAIN bag.orders : bag.orders[i] \cap bag.cart = {}
  /\ \A i, j \in DOMAIN bag.orders : i # j => bag.orders[i] \cap bag.orders[j] = {}
OrdersApart == screen = "checkout" => Apart(srv) /\ CheckoutCalls(calls)

LEMMA CheckoutSends ==
    ASSUME NEW s, Browser(s), CheckoutCalls(s.calls), NEW c, IsCall(c), c.op \in CheckoutOps
    PROVE  Browser(Send(s, c)) /\ CheckoutCalls(Send(s, c).calls) /\ Send(s, c).ui = s.ui
<1>1. /\ Browser(Send(s, c)) /\ Send(s, c).ui = s.ui
      /\ ToSet(Send(s, c).calls) = ToSet(s.calls) \cup {c}
  BY SendFacts
<1>2. Send(s, c).calls \in Seq(ToSet(Send(s, c).calls))
  BY <1>1 DEF Browser
<1>3. \A d \in ToSet(Send(s, c).calls) : IsCall(d) /\ d.op \in CheckoutOps
  BY <1>1 DEF CheckoutCalls
<1>4. QED BY <1>1, <1>2, <1>3 DEF CheckoutCalls

LEMMA CheckoutActs ==
    ASSUME screen = "checkout", CheckoutCalls(calls), CheckoutNext
    PROVE  srv' = srv /\ CheckoutCalls(calls')
<1>1. Browser(Here) /\ Here.calls = calls
  BY HereFacts DEF CheckoutCalls
<1>2. CASE ChooseCoupon \/ ChooseMethod
  <2>1. ASSUME NEW x, Do([Here EXCEPT !.ui.coupon = x]) \/ Do([Here EXCEPT !.ui.method = x])
        PROVE  srv' = srv /\ calls' = calls
    <3>1. [Here EXCEPT !.ui.coupon = x].calls = calls /\ [Here EXCEPT !.ui.method = x].calls = calls
      BY <1>1 DEF Browser
    <3>2. QED BY <2>1, <3>1, DoFacts
  <2>2. (\E x : Do([Here EXCEPT !.ui.coupon = x])) \/ (\E x : Do([Here EXCEPT !.ui.method = x]))
    BY <1>2 DEF ChooseCoupon, ChooseMethod
  <2>3. QED BY <2>1, <2>2
<1>3. CASE handlePlaceOrder
  <2> DEFINE a == [items |-> ui.items, coupon |-> ui.coupon, off |-> calculateCouponDiscount]
  <2> HIDE DEF a
  <2> DEFINE s == [Here EXCEPT !.ui.loading = TRUE, !.ui.error = FALSE]
  <2>1. Op(Send(s, Call("checkout", a)))
    BY <1>3 DEF handlePlaceOrder, a
  <2>2. Browser(s) /\ s.calls = calls
    BY <1>1 DEF Browser
  <2> HIDE DEF s
  <2>3. QED BY <2>1, <2>2, CallFacts, CheckoutSends, DoFacts DEF CheckoutOps
<1>4. QED BY <1>2, <1>3 DEF CheckoutNext

LEMMA CheckoutAnswered ==
    ASSUME NEW s, Browser(s), CheckoutCalls(s.calls), NEW c
    PROVE  CheckoutCalls(CheckoutReply(s, c).calls)
<1>1. CASE CheckoutReply(s, c).calls = s.calls
  BY <1>1
<1>2. CASE s.ui.left = "no" /\ c.op = "checkout" /\ c.st = "ok"
  <2> DEFINE t == Send(s, Call("clear", 1))
             p == [Call("pay", c.got) EXCEPT !.gen = t.ui.method]
  <2>1. CheckoutReply(s, c) = Send(t, [Call("pay", c.got) EXCEPT !.gen = s.ui.method])
    BY <1>2 DEF CheckoutReply, OrderPlaced
  <2>2. Browser(t) /\ CheckoutCalls(t.calls) /\ t.ui = s.ui
    BY CheckoutSends, CallFacts DEF CheckoutOps
  <2>3. IsCall(p) /\ p.op = "pay"
    BY CallFacts DEF IsCall
  <2>4. CheckoutReply(s, c) = Send(t, p)
    BY <2>1, <2>2
  <2> HIDE DEF t, p
  <2>5. QED BY <2>2, <2>3, <2>4, CheckoutSends DEF CheckoutOps
<1>3. CASE ~(s.ui.left = "no" /\ c.op = "checkout" /\ c.st = "ok")
  <2>1. \/ CheckoutReply(s, c) = s
        \/ \E x, y : CheckoutReply(s, c) = [s EXCEPT !.ui.listing = x, !.ui.coupons = y]
        \/ \E x, y : CheckoutReply(s, c) = [s EXCEPT !.ui.error = x, !.ui.loading = y]
        \/ \E x : CheckoutReply(s, c) = [s EXCEPT !.ui.left = x]
        \/ \E x : CheckoutReply(s, c) = [s EXCEPT !.ui.items = x]
    BY <1>3 DEF CheckoutReply, OrderPlaced, PaymentCreated
  <2>2. CheckoutReply(s, c).calls = s.calls
    BY <2>1 DEF Browser
  <2>3. QED BY <2>2
<1>4. QED BY <1>2, <1>3

LEMMA OrderedApart ==
    ASSUME NEW bag, Apart(bag), NEW c
    PROVE  Apart(Ordered(bag, c)) /\ Apart([bag EXCEPT !.cart = {}])
<1> DEFINE new == c.arg.items \cap bag.cart
           D == ToSet(bag.orders) \cup {new}
           os == Append(bag.orders, new)
           n == Len(bag.orders)
<1>1. n \in Nat /\ DOMAIN bag.orders = 1..n
  BY DEF Apart
<1>2. os \in Seq(D) /\ ToSet(os) = D
  <2>1. bag.orders \in Seq(D) /\ new \in D
    BY DEF Apart
  <2> HIDE DEF D, new
  <2>2. os \in Seq(D) /\ ToSet(os) = ToSet(bag.orders) \cup {new}
    BY <2>1, AppendFacts
  <2>3. QED BY <2>2 DEF D
<1>3. DOMAIN os = 1..(n + 1) /\ os[n + 1] = new /\ \A i \in 1..n : os[i] = bag.orders[i]
  BY DEF Apart
<1> DEFINE cart == bag.cart \ c.arg.items
<1>4. DOMAIN Ordered(bag, c) = {"cart", "orders"} /\ Ordered(bag, c).cart = cart /\ Ordered(bag, c).orders = os
  BY DEF Apart, Ordered
<1>5. \A i \in 1..n : bag.orders[i] \cap bag.cart = {}
  BY <1>1 DEF Apart
<1>6. \A i \in 1..(n + 1) : i \in 1..n \/ i = n + 1
  BY <1>1
<1>7. new \cap cart = {} /\ new \subseteq bag.cart /\ cart \subseteq bag.cart
  OBVIOUS
<1>8. \A i, j \in 1..n : i # j => bag.orders[i] \cap bag.orders[j] = {}
  BY <1>1 DEF Apart
<1> HIDE DEF new, cart, os, D, n
<1>9. \A i \in 1..(n + 1) : os[i] \cap cart = {}
  BY <1>3, <1>5, <1>6, <1>7
<1>10. \A i, j \in 1..(n + 1) : i # j => os[i] \cap os[j] = {}
  BY <1>3, <1>5, <1>6, <1>7, <1>8
<1>11. Apart(Ordered(bag, c))
  BY <1>2, <1>3, <1>4, <1>9, <1>10 DEF Apart
<1>12. Apart([bag EXCEPT !.cart = {}])
  BY DEF Apart
<1>13. QED BY <1>11, <1>12

LEMMA CheckoutServed ==
    ASSUME screen = "checkout", Apart(srv), NEW i \in DOMAIN calls, IsCall(calls[i]), calls[i].op \in CheckoutOps, Serve(i)
    PROVE  Apart(srv')
<1> DEFINE c == calls[i]
<1>1. srv' = srv \/ srv' = After(c) \/ srv' \in {Lost(c, srv), Lost(c, After(c))}
  BY DEF Serve
<1>2. Lost(c, srv) = srv /\ Lost(c, After(c)) = After(c)
  BY DEF Lost, CheckoutOps
<1>3. After(c) \in {srv, Ordered(srv, c), [srv EXCEPT !.cart = {}]}
  BY DEF After, AccountPages, SignedPages, ShellPages, CheckoutOps
<1>4. Apart(Ordered(srv, c)) /\ Apart([srv EXCEPT !.cart = {}])
  BY OrderedApart
<1> HIDE DEF c
<1>5. QED BY <1>1, <1>2, <1>3, <1>4

LEMMA CheckoutInit == Init => OrdersApart
<1> SUFFICES ASSUME Init, screen = "checkout" PROVE Apart(srv) /\ CheckoutCalls(calls)
  BY DEF OrdersApart
<1>1. InitPurchase
  BY DEF Init, InitShop, InitBag, InitAccount, InitSession, InitShell, InitWidgets, InitPictures, Mounted
<1>2. PICK items, c : srv = [cart |-> items, orders |-> <<>>]
                      /\ Mounted("checkout", Send(Bare(BlankCheckout(srv.cart, c)), Call("coupons", 1)))
  BY <1>1 DEF InitPurchase, Mounted
<1>3. <<>> \in Seq(ToSet(<<>>)) /\ ToSet(<<>>) = {} /\ DOMAIN <<>> = {}
  BY DEF ToSet
<1>4. Apart(srv)
  BY <1>2, <1>3 DEF Apart
<1> DEFINE b == Bare(BlankCheckout(srv.cart, c))
<1>5. Browser(b) /\ CheckoutCalls(b.calls)
  BY <1>3 DEF Bare, Browser, CheckoutCalls
<1>6. calls = Send(b, Call("coupons", 1)).calls
  BY <1>2 DEF Mounted
<1> HIDE DEF b
<1>7. CheckoutCalls(calls)
  BY <1>5, <1>6, CheckoutSends, CallFacts DEF CheckoutOps
<1>8. QED BY <1>4, <1>7

LEMMA CheckoutKept == OrdersApart /\ [Next]_vars => OrdersApart'
<1> SUFFICES ASSUME OrdersApart, [Next]_vars, screen' = "checkout" PROVE Apart(srv') /\ CheckoutCalls(calls')
  BY DEF OrdersApart
<1>1. screen = "checkout" /\ (Untouched \/ CheckoutNext \/ \E i \in DOMAIN calls : Serve(i) \/ Deliver(i))
  BY PageSteps, ListSteps, DialogSteps
<1>2. Apart(srv) /\ CheckoutCalls(calls)
  BY <1>1 DEF OrdersApart
<1>3. calls \in Seq(ToSet(calls)) /\ \A c \in ToSet(calls) : IsCall(c)
  BY <1>2 DEF CheckoutCalls
<1>4. CASE Untouched
  BY <1>2, <1>4 DEF Untouched
<1>5. CASE CheckoutNext
  BY <1>1, <1>2, <1>5, CheckoutActs
<1>6. ASSUME NEW i \in DOMAIN calls, Serve(i) PROVE Apart(srv') /\ CheckoutCalls(calls')
  <2>1. /\ Alike(calls[i], calls'[i]) /\ calls' \in Seq(ToSet(calls'))
        /\ \A c \in ToSet(calls') : c \in ToSet(calls) \/ c = calls'[i]
    BY <1>3, <1>6, ServeFacts
  <2>2. calls[i] \in ToSet(calls)
    BY DEF ToSet
  <2>3. CheckoutCalls(calls')
    BY <1>2, <2>1, <2>2 DEF CheckoutCalls, Alike
  <2>4. QED BY <1>1, <1>2, <1>6, <2>2, <2>3, CheckoutServed DEF CheckoutCalls
<1>7. ASSUME NEW i \in DOMAIN calls, Deliver(i) PROVE Apart(srv') /\ CheckoutCalls(calls')
  <2>1. Do(CheckoutReply(Received(i), calls[i]))
    BY <1>1, <1>7 DEF Deliver, Reply, ShopReply, SignedPages, AccountPages, ShellPages
  <2>2. Browser(Received(i)) /\ CheckoutCalls(Received(i).calls)
    BY <1>2, <1>3, ReceivedFacts DEF CheckoutCalls, Browser
  <2>3. QED BY <1>2, <2>1, <2>2, CheckoutAnswered, DoFacts
<1>8. QED BY <1>1, <1>4, <1>5, <1>6, <1>7

\* However often the customer presses again, and whatever is lost on the way, no item is
\* in two orders: ordering takes it out of the cart in the same step (Checkout.tsx).
THEOREM NothingOrderedTwice == Spec => []NoItemTwice
<1>1. OrdersApart => NoItemTwice
  BY DEF OrdersApart, Apart, NoItemTwice
<1>2. QED BY <1>1, CheckoutInit, CheckoutKept, PTL DEF Spec

-----------------------------------------------------------------------------
(***************************************************************************)
(* The endless list.                                                       *)
(***************************************************************************)
LEMMA CatalogueFacts ==
    ASSUME NEW f \in Filters
    PROVE  Catalogue[f] \in Seq(Products) /\ Distinct(Catalogue[f])
BY ShopAssumption DEF Filters, IsInjective, Distinct

LEMMA PageFacts ==
    ASSUME NEW f \in Filters, NEW n \in Nat \ {0}
    PROVE  /\ PageOfList(Catalogue[f], n) \in Seq(Products)
           /\ n <= Len(Catalogue[f]) => PageOfList(Catalogue[f], n) = <<Catalogue[f][n]>> /\ Catalogue[f][n] \in Products
           /\ n > Len(Catalogue[f]) => PageOfList(Catalogue[f], n) = <<>>
<1> DEFINE cat == Catalogue[f]
<1>1. cat \in Seq(Products)
  BY CatalogueFacts
<1> HIDE DEF cat
<1>2. (n \in DOMAIN cat <=> n <= Len(cat)) /\ (n <= Len(cat) => cat[n] \in Products) /\ Len(cat) \in Nat
  BY <1>1
<1>3. QED BY <1>2 DEF PageOfList, cat

LEMMA KeptOfOne ==
    ASSUME NEW D, NEW x \in D, NEW S, NEW s, s = <<x>>, NEW k, k = Kept(s, S)
    PROVE  (x \in S => k = <<x>>) /\ (x \notin S => k = <<>>)
<1>1. s \in Seq(D) /\ Distinct(s) /\ ToSet(s) = {x}
  BY DEF Distinct, ToSet
<1>2. k \in Seq(D) /\ ToSet(k) = {x} \cap S /\ Distinct(k)
  BY <1>1, KeptFacts, Zenon
<1>3. Len(k) \in Nat /\ DOMAIN k = 1..Len(k)
  BY <1>2
<1>4. \A i \in 1..Len(k) : k[i] = x /\ x \in S
  <2>1. \A i \in 1..Len(k) : k[i] \in ToSet(k)
    BY <1>3 DEF ToSet
  <2>2. QED BY <1>2, <2>1
<1>5. Len(k) <= 1
  <2> SUFFICES ASSUME ~ (Len(k) <= 1) PROVE FALSE
    OBVIOUS
  <2>1. 1 \in 1..Len(k) /\ 2 \in 1..Len(k)
    BY <1>3
  <2>2. k[1] = k[2]
    BY <1>4, <2>1
  <2>3. QED BY <1>2, <1>3, <2>1, <2>2 DEF Distinct
<1>6. ASSUME x \in S PROVE k = <<x>>
  <2>1. x \in ToSet(k)
    BY <1>2, <1>6
  <2>2. \E i \in 1..Len(k) : k[i] = x
    BY <1>3, <2>1 DEF ToSet
  <2>3. Len(k) = 1
    BY <1>5, <2>2, Len(k) \in Nat
  <2>4. QED BY <1>2, <1>4, <2>3
<1>7. ASSUME x \notin S PROVE k = <<>>
  <2>1. Len(k) = 0
    BY <1>3, <1>4, <1>7
  <2>2. QED BY <1>2, <2>1
<1>8. QED BY <1>6, <1>7

LEMMA NothingIn ==
    ASSUME NEW D, NEW k \in Seq(D), ToSet(k) = {}
    PROVE  k = <<>>
<1>1. DOMAIN k = 1..Len(k) /\ Len(k) \in Nat
  OBVIOUS
<1>2. \A i \in 1..Len(k) : k[i] \in ToSet(k)
  BY <1>1 DEF ToSet
<1>3. Len(k) = 0
  BY <1>1, <1>2
<1>4. QED BY <1>3

LEMMA OneMore ==
    ASSUME NEW D, NEW ps \in Seq(D), NEW x \in D, NEW qs, qs = ps \o <<x>>
    PROVE  qs \in Seq(D) /\ Len(qs) = Len(ps) + 1 /\ qs[Len(ps) + 1] = x /\ \A i \in 1..Len(ps) : qs[i] = ps[i]
OBVIOUS

\* A page that leaves no gap is appended, or is there already.
Begins(ps, cat) == Len(ps) <= Len(cat) /\ \A i \in 1..Len(ps) : ps[i] = cat[i]
Reaches(ps, cat, n) == n <= Len(ps) \/ Len(ps) = Len(cat)
IsPage(page, cat, n) == (n <= Len(cat) => page = <<cat[n]>> /\ cat[n] \in Products) /\ (n > Len(cat) => page = <<>>)
Joined(qs, ps, page) == qs = ps \o Kept(page, ToSet(page) \ ToSet(ps))

LEMMA BeginsIsPrefix ==
    ASSUME NEW cat \in Seq(Products), NEW ps \in Seq(Products), Begins(ps, cat)
    PROVE  IsPrefix(ps, cat)
<1> DEFINE n == Len(ps)
           t == SubSeq(cat, 1, n)
<1>1. n \in Nat /\ n <= Len(cat) /\ \A i \in 1..n : ps[i] = cat[i]
  BY DEF Begins
<1>2. t \in Seq(Products) /\ Len(t) = n /\ \A i \in 1..n : t[i] = cat[i]
  BY <1>1, SubSeqProperties
<1> HIDE DEF t
<1>3. t = ps
  BY <1>1, <1>2, SeqEqual
<1>4. QED BY <1>1, <1>3 DEF IsPrefix, t

LEMMA OneMoreBegins ==
    ASSUME NEW cat \in Seq(Products), NEW ps \in Seq(Products), Begins(ps, cat), Len(ps) + 1 <= Len(cat),
           NEW x \in Products, x = cat[Len(ps) + 1], NEW qs, qs = ps \o <<x>>
    PROVE  qs \in Seq(Products) /\ Begins(qs, cat) /\ Len(qs) = Len(ps) + 1
<1>1. qs \in Seq(Products) /\ Len(qs) = Len(ps) + 1 /\ qs[Len(ps) + 1] = x /\ \A i \in 1..Len(ps) : qs[i] = ps[i]
  BY OneMore
<1>2. \A i \in 1..(Len(ps) + 1) : i \in 1..Len(ps) \/ i = Len(ps) + 1
  OBVIOUS
<1>3. \A i \in 1..Len(ps) : qs[i] = cat[i]
  BY <1>1 DEF Begins
<1>4. \A i \in 1..Len(qs) : qs[i] = cat[i]
  BY <1>1, <1>2, <1>3
<1>5. QED BY <1>1, <1>4 DEF Begins

LEMMA NothingNew ==
    ASSUME NEW ps \in Seq(Products), NEW page, NEW qs, Joined(qs, ps, page), NEW x \in ToSet(ps), x \in Products, page = <<x>>
    PROVE  qs = ps
<1> DEFINE S == ToSet(page) \ ToSet(ps)
           k == Kept(page, S)
<1>1. x \notin S
  OBVIOUS
<1>2. qs = ps \o k
  BY DEF Joined
<1> HIDE DEF S
<1>3. k = <<>>
  BY <1>1, KeptOfOne
<1> HIDE DEF k
<1>4. QED BY <1>2, <1>3, ConcatEmptySeq

LEMMA OneNew ==
    ASSUME NEW ps \in Seq(Products), NEW page, NEW qs, Joined(qs, ps, page), NEW x \in Products, x \notin ToSet(ps), page = <<x>>
    PROVE  qs = ps \o <<x>>
<1> DEFINE S == ToSet(page) \ ToSet(ps)
           k == Kept(page, S)
<1>1. x \in S
  BY DEF ToSet
<1>2. qs = ps \o k
  BY DEF Joined
<1> HIDE DEF S
<1>3. k = <<x>>
  BY <1>1, KeptOfOne
<1> HIDE DEF k
<1>4. QED BY <1>2, <1>3

LEMMA EmptyPage ==
    ASSUME NEW ps \in Seq(Products), NEW page, NEW qs, Joined(qs, ps, page), page \in Seq(Products), ToSet(page) = {}
    PROVE  qs = ps
<1> DEFINE S == ToSet(page) \ ToSet(ps)
           k == Kept(page, S)
<1>2. qs = ps \o k
  BY DEF Joined
<1> HIDE DEF S
<1>3. k \in Seq(Products) /\ ToSet(k) = {}
  BY KeptFacts
<1> HIDE DEF k
<1>4. k = <<>>
  BY <1>3, NothingIn
<1>5. QED BY <1>2, <1>4, ConcatEmptySeq

LEMMA JoinedFacts ==
    ASSUME NEW ps \in Seq(Products), NEW page \in Seq(Products), NEW qs, Joined(qs, ps, page)
    PROVE  qs \in Seq(Products)
<1> DEFINE k == Kept(page, ToSet(page) \ ToSet(ps))
<1>1. k \in Seq(Products)
  BY KeptFacts
<1>2. qs = ps \o k
  BY DEF Joined
<1> HIDE DEF k
<1>3. QED BY <1>1, <1>2

LEMMA FirstPage ==
    ASSUME NEW cat \in Seq(Products), NEW page, IsPage(page, cat, 1)
    PROVE  Begins(page, cat) /\ Reaches(page, cat, 1)
<1>1. Len(cat) \in Nat
  OBVIOUS
<1>2. CASE 1 <= Len(cat)
  <2> DEFINE x == cat[1]
  <2>1. page = <<x>>
    BY <1>2 DEF IsPage
  <2> HIDE DEF x
  <2>2. Len(page) = 1 /\ page[1] = x
    BY <2>1
  <2>3. QED BY <1>2, <2>2 DEF Begins, Reaches, x
<1>3. CASE ~ (1 <= Len(cat))
  <2>1. page = <<>> /\ Len(cat) = 0
    BY <1>1, <1>3 DEF IsPage
  <2>2. Len(page) = 0
    BY <2>1
  <2>3. QED BY <2>1, <2>2 DEF Begins, Reaches
<1>4. QED BY <1>2, <1>3

LEMMA PageAppended ==
    ASSUME NEW cat \in Seq(Products), Distinct(cat), NEW n \in Nat \ {0}, NEW ps \in Seq(Products), NEW page,
           IsPage(page, cat, n), NEW qs, Joined(qs, ps, page), Begins(ps, cat), n - 1 <= Len(ps)
    PROVE  qs \in Seq(Products) /\ Begins(qs, cat) /\ Reaches(qs, cat, n) /\ Len(ps) <= Len(qs)
<1>1. Len(cat) \in Nat /\ Len(ps) \in Nat /\ Len(ps) <= Len(cat) /\ DOMAIN cat = 1..Len(cat) /\ DOMAIN ps = 1..Len(ps)
      /\ \A i \in 1..Len(ps) : ps[i] = cat[i]
  BY DEF Begins
<1> DEFINE l == Len(cat)
           m == Len(ps)
<1>0. l \in Nat /\ m \in Nat /\ m <= l /\ n - 1 <= m /\ n \in Nat
  BY <1>1
<1>2. CASE n > Len(cat)
  <2>1. page = <<>>
    BY <1>2 DEF IsPage
  <2>2. page \in Seq(Products) /\ ToSet(page) = {}
    BY <2>1 DEF ToSet
  <2>3. qs = ps
    BY <2>2, EmptyPage
  <2>4. Reaches(ps, cat, n) /\ Len(ps) <= Len(ps)
    <3>1. n > l
      BY <1>2
    <3> HIDE DEF l, m
    <3>2. m = l /\ m <= m
      BY <1>0, <3>1
    <3>3. QED BY <3>2 DEF Reaches, l, m
  <2>5. QED BY <2>3, <2>4, Zenon
<1>3. CASE n <= Len(ps)
  <2>1. page = <<cat[n]>> /\ cat[n] \in Products
    BY <1>1, <1>3 DEF IsPage
  <2>2. n \in 1..Len(ps) /\ ps[n] = cat[n]
    BY <1>1, <1>3
  <2>3. cat[n] \in ToSet(ps)
    BY <1>1, <2>2 DEF ToSet
  <2>4. qs = ps
    BY <2>1, <2>3, NothingNew
  <2>5. Reaches(ps, cat, n) /\ Len(ps) <= Len(ps)
    <3>1. n <= m
      BY <1>3
    <3> HIDE DEF l, m
    <3>2. m <= m
      BY <1>0
    <3>3. QED BY <3>1, <3>2 DEF Reaches, l, m
  <2>6. QED BY <2>4, <2>5, Zenon
<1>4. CASE n = Len(ps) + 1 /\ n <= Len(cat)
  <2>1. page = <<cat[n]>> /\ cat[n] \in Products
    BY <1>4 DEF IsPage
  <2>2. cat[n] \notin ToSet(ps)
    <3> SUFFICES ASSUME NEW i \in 1..Len(ps), ps[i] = cat[n] PROVE FALSE
      BY <1>1 DEF ToSet
    <3>1. cat[i] = cat[n] /\ i \in DOMAIN cat /\ n \in DOMAIN cat /\ i # n
      BY <1>1, <1>4
    <3>2. QED BY <3>1 DEF Distinct
  <2>3. qs = ps \o <<cat[n]>>
    BY <2>1, <2>2, OneNew
  <2>4. qs \in Seq(Products) /\ Begins(qs, cat) /\ Len(qs) = Len(ps) + 1
    BY <1>4, <2>1, <2>3, OneMoreBegins
  <2>5. QED BY <1>1, <1>4, <2>4 DEF Reaches
<1>5. QED BY <1>1, <1>2, <1>3, <1>4

ListFields == {"filter", "gen", "page", "products", "total", "busy", "trig", "loading", "more", "error", "first", "favs", "favBusy"}
ListUi(u) ==
  /\ DOMAIN u = ListFields /\ u.filter \in Filters /\ u.gen \in Nat /\ u.first \in Nat /\ u.first <= u.gen
  /\ u.page \in Nat \ {0} /\ u.products \in Seq(Products) /\ u.loading \in BOOLEAN
  /\ u.loading => u.first # u.gen
  /\ u.first = u.gen => /\ Begins(u.products, Catalogue[u.filter]) /\ u.total = Len(Catalogue[u.filter])
                        /\ Reaches(u.products, Catalogue[u.filter], u.page)
\* A call of the present generation asks for a page of the present filter: the first one
\* while the list loads, and later none that would leave a gap.
PageAsked(u, c) ==
  /\ IsCall(c) /\ c.op \in {"list", "favs", "like", "unlike"}
  /\ c.op = "list" =>
       /\ c.arg.filter \in Filters /\ c.arg.page \in Nat \ {0} /\ c.gen \in Nat /\ c.gen <= u.gen
       /\ c.st \in {"sent", "ok", "no"}
       /\ c.st = "ok" => c.got = [items |-> PageOfList(Catalogue[c.arg.filter], c.arg.page), total |-> Len(Catalogue[c.arg.filter])]
       /\ c.gen = u.gen => /\ c.arg.filter = u.filter /\ (u.loading <=> c.arg.page = 1)
                           /\ u.first = u.gen => c.arg.page - 1 <= Len(u.products)
Opens(u, c) == c.op = "list" /\ c.gen = u.gen /\ c.arg.page = 1
OneOpens(u, cs) == \A i, j \in DOMAIN cs : Opens(u, cs[i]) /\ Opens(u, cs[j]) => i = j
ListState(u, cs) ==
  /\ ListUi(u) /\ cs \in Seq(ToSet(cs)) /\ (\A c \in ToSet(cs) : PageAsked(u, c)) /\ OneOpens(u, cs)
OfOneFilter == screen = "list" => ListState(ui, calls)

LEMMA OneOpensStays ==
    ASSUME NEW u, NEW v, v.gen = u.gen, NEW cs, cs \in Seq(ToSet(cs)), OneOpens(u, cs)
    PROVE  /\ OneOpens(v, cs)
           /\ \A i \in DOMAIN cs : \A rs : rs = RemoveAt(cs, i) =>
                 OneOpens(v, rs) /\ (Opens(u, cs[i]) => \A c \in ToSet(rs) : ~Opens(v, c))
           /\ \A c : ~Opens(u, c) => OneOpens(v, Append(cs, c))
<1>1. OneOpens(v, cs)
  BY DEF OneOpens, Opens
<1>2. ASSUME NEW i \in DOMAIN cs, NEW rs, rs = RemoveAt(cs, i)
      PROVE  OneOpens(v, rs) /\ (Opens(u, cs[i]) => \A c \in ToSet(rs) : ~Opens(v, c))
  <2>1. \A j, k \in DOMAIN rs : \E m, n \in DOMAIN cs : m # i /\ n # i /\ rs[j] = cs[m] /\ rs[k] = cs[n] /\ (m = n => j = k)
    BY <1>2, RemainingFacts
  <2>2. OneOpens(v, rs)
    BY <1>1, <2>1 DEF OneOpens
  <2>3. ASSUME Opens(u, cs[i]), NEW j \in DOMAIN rs PROVE ~Opens(v, rs[j])
    <3>1. PICK m \in DOMAIN cs : m # i /\ rs[j] = cs[m]
      BY <2>1
    <3>2. QED BY <2>3, <3>1 DEF OneOpens, Opens
  <2>4. QED BY <2>2, <2>3 DEF ToSet
<1>3. ASSUME NEW c, ~Opens(u, c) PROVE OneOpens(v, Append(cs, c))
  <2> DEFINE t == Append(cs, c)
  <2>1. /\ DOMAIN t = 1..(Len(cs) + 1) /\ t[Len(cs) + 1] = c /\ DOMAIN cs = 1..Len(cs) /\ Len(cs) \in Nat
        /\ \A i \in 1..Len(cs) : t[i] = cs[i]
    OBVIOUS
  <2> HIDE DEF t
  <2>2. \A i \in DOMAIN t : Opens(v, t[i]) => i \in DOMAIN cs /\ Opens(v, cs[i])
    <3>1. ~Opens(v, c)
      BY <1>3 DEF Opens
    <3>2. \A i \in 1..(Len(cs) + 1) : i \in 1..Len(cs) \/ i = Len(cs) + 1
      BY <2>1
    <3>3. QED BY <2>1, <3>1, <3>2
  <2>3. OneOpens(v, t)
    BY <1>1, <2>2 DEF OneOpens
  <2>4. QED BY <2>3 DEF t
<1>4. QED BY <1>1, <1>2, <1>3

\* The list as far as the invariant speaks of it.
SameList(u, v) ==
  /\ DOMAIN v = ListFields /\ v.filter = u.filter /\ v.gen = u.gen /\ v.first = u.first /\ v.page = u.page
  /\ v.products = u.products /\ v.total = u.total /\ v.loading = u.loading

LEMMA SameListFacts ==
    ASSUME NEW u, NEW cs, ListState(u, cs), NEW v, SameList(u, v)
    PROVE  /\ ListState(v, cs)
           /\ \A c : PageAsked(u, c) => PageAsked(v, c)
<1>1. ListUi(v)
  BY DEF ListState, ListUi, SameList
<1>2. \A c : PageAsked(u, c) => PageAsked(v, c)
  BY DEF PageAsked, SameList
<1>3. OneOpens(v, cs)
  BY OneOpensStays DEF ListState, SameList
<1>4. QED BY <1>1, <1>2, <1>3 DEF ListState

LEMMA ListSends ==
    ASSUME NEW s, Browser(s), ListState(s.ui, s.calls), NEW c, PageAsked(s.ui, c), ~Opens(s.ui, c)
    PROVE  ListState(Send(s, c).ui, Send(s, c).calls)
<1>1. /\ Browser(Send(s, c)) /\ Send(s, c).ui = s.ui /\ Send(s, c).calls = Append(s.calls, c)
      /\ ToSet(Send(s, c).calls) = ToSet(s.calls) \cup {c}
  BY SendFacts
<1>2. OneOpens(s.ui, Append(s.calls, c))
  BY OneOpensStays DEF ListState
<1>3. QED BY <1>1, <1>2 DEF ListState, Browser

Loaded(u, c, v) ==
  /\ c.gen # u.gen \/ (c.arg.page # 1 /\ c.st = "no") => SameList(u, v)
  /\ c.gen = u.gen /\ c.arg.page = 1 /\ c.st = "no" => SameList([u EXCEPT !.loading = FALSE], v)
  /\ c.gen = u.gen /\ c.arg.page = 1 /\ c.st # "no" =>
        /\ DOMAIN v = ListFields /\ v.filter = u.filter /\ v.gen = u.gen /\ v.first = u.gen
        /\ v.page = 1 /\ v.products = c.got.items /\ v.total = c.got.total /\ v.loading = FALSE
  /\ c.gen = u.gen /\ c.arg.page # 1 /\ c.st # "no" =>
        /\ DOMAIN v = ListFields /\ v.filter = u.filter /\ v.gen = u.gen /\ v.first = u.first
        /\ v.page = c.arg.page /\ v.total = c.got.total /\ v.loading = u.loading
        /\ Joined(v.products, u.products, c.got.items)

LEMMA LoadedFacts ==
    ASSUME NEW s, DOMAIN s = {"ui", "calls", "cache"}, DOMAIN s.ui = ListFields, NEW c, NEW t, t = ListLoaded(s, c)
    PROVE  DOMAIN t = {"ui", "calls", "cache"} /\ t.calls = s.calls /\ Loaded(s.ui, c, t.ui)
<1> USE DEF Loaded
<1> DEFINE fresh == Kept(c.got.items, ToSet(c.got.items) \ ToSet(s.ui.products))
           a == [s EXCEPT !.ui.loading = FALSE, !.ui.trig = FALSE]
           b == [s EXCEPT !.ui.busy = FALSE, !.ui.more = FALSE, !.ui.trig = s.ui.trig /\ s.ui.loading]
           u == [s.ui EXCEPT !.loading = FALSE]
           Whole(r) == DOMAIN r = {"ui", "calls", "cache"} /\ r.calls = s.calls
<1>1. Whole(a) /\ SameList(u, a.ui)
  BY DEF SameList, ListFields
<1>2. Whole(b) /\ SameList(s.ui, b.ui)
  BY DEF SameList, ListFields
<1>3. c.gen # s.ui.gen => t = s \/ t = b
  BY DEF ListLoaded
<1>4. c.gen = s.ui.gen /\ c.arg.page = 1 /\ c.st = "no" => t = [a EXCEPT !.ui.error = TRUE]
  BY DEF ListLoaded
<1>5. c.gen = s.ui.gen /\ c.arg.page = 1 /\ c.st # "no" =>
         t = [a EXCEPT !.ui.products = c.got.items, !.ui.total = c.got.total, !.ui.page = 1, !.ui.first = s.ui.gen]
  BY DEF ListLoaded
<1>6. c.gen = s.ui.gen /\ c.arg.page # 1 /\ c.st = "no" => t = [b EXCEPT !.ui.error = TRUE]
  BY DEF ListLoaded
<1>7. c.gen = s.ui.gen /\ c.arg.page # 1 /\ c.st # "no" =>
         t = [b EXCEPT !.ui.products = b.ui.products \o fresh, !.ui.total = c.got.total, !.ui.page = c.arg.page]
  BY DEF ListLoaded
<1>8. SameList(s.ui, s.ui) /\ Whole(s)
  BY DEF SameList
<1>9. DOMAIN u = ListFields /\ u.filter = s.ui.filter /\ u.gen = s.ui.gen /\ u.first = s.ui.first
  BY DEF ListFields
<1> DEFINE joined == b.ui.products \o fresh
<1>10. Joined(joined, s.ui.products, c.got.items)
  BY <1>2 DEF Joined, SameList
<1> HIDE DEF a, b, u, joined
<1>11. CASE c.gen # s.ui.gen
  BY <1>2, <1>3, <1>8, <1>11
<1>12. CASE c.gen = s.ui.gen /\ c.arg.page = 1 /\ c.st = "no"
  <2>1. DOMAIN t = {"ui", "calls", "cache"} /\ t.calls = s.calls /\ SameList(u, t.ui)
    BY <1>1, <1>4, <1>12 DEF SameList, ListFields
  <2>2. QED BY <1>12, <2>1 DEF u
<1>13. CASE c.gen = s.ui.gen /\ c.arg.page = 1 /\ c.st # "no"
  <2>1. /\ DOMAIN t = {"ui", "calls", "cache"} /\ t.calls = s.calls
        /\ DOMAIN t.ui = ListFields /\ t.ui.filter = a.ui.filter /\ t.ui.gen = a.ui.gen /\ t.ui.first = s.ui.gen
        /\ t.ui.page = 1 /\ t.ui.products = c.got.items /\ t.ui.total = c.got.total /\ t.ui.loading = a.ui.loading
    <3> DEFINE x == c.got.items
               y == c.got.total
               z == s.ui.gen
               v == a.ui
    <3>1. t = [a EXCEPT !.ui.products = x, !.ui.total = y, !.ui.page = 1, !.ui.first = z]
      BY <1>5, <1>13
    <3>2. DOMAIN v = ListFields /\ DOMAIN a = {"ui", "calls", "cache"} /\ a.calls = s.calls
      BY <1>1 DEF SameList
    <3> HIDE DEF x, y, z
    <3>3. DOMAIN t = DOMAIN a /\ t.calls = a.calls /\ t.ui = [v EXCEPT !.products = x, !.total = y, !.page = 1, !.first = z]
      BY <3>1, <3>2
    <3> HIDE DEF v
    <3>4. /\ DOMAIN t.ui = ListFields /\ t.ui.filter = v.filter /\ t.ui.gen = v.gen /\ t.ui.first = z
          /\ t.ui.page = 1 /\ t.ui.products = x /\ t.ui.total = y /\ t.ui.loading = v.loading
      BY <3>2, <3>3 DEF ListFields
    <3>5. QED BY <3>2, <3>3, <3>4 DEF x, y, z, v
  <2>2. a.ui.filter = s.ui.filter /\ a.ui.gen = s.ui.gen /\ a.ui.loading = FALSE
    BY DEF ListFields, a
  <2>3. QED BY <1>13, <2>1, <2>2
<1>14. CASE c.gen = s.ui.gen /\ c.arg.page # 1 /\ c.st = "no"
  <2>1. DOMAIN t = {"ui", "calls", "cache"} /\ t.calls = s.calls /\ SameList(s.ui, t.ui)
    BY <1>2, <1>6, <1>14 DEF SameList, ListFields
  <2>2. QED BY <1>14, <2>1
<1>15. CASE c.gen = s.ui.gen /\ c.arg.page # 1 /\ c.st # "no"
  <2>1. t = [b EXCEPT !.ui.products = joined, !.ui.total = c.got.total, !.ui.page = c.arg.page]
    BY <1>7, <1>15 DEF joined
  <2>2. /\ DOMAIN t = {"ui", "calls", "cache"} /\ t.calls = s.calls
        /\ DOMAIN t.ui = ListFields /\ t.ui.filter = s.ui.filter /\ t.ui.gen = s.ui.gen /\ t.ui.first = s.ui.first
        /\ t.ui.page = c.arg.page /\ t.ui.total = c.got.total /\ t.ui.loading = s.ui.loading /\ t.ui.products = joined
    <3> DEFINE y == c.got.total
               z == c.arg.page
               v == b.ui
    <3>1. t = [b EXCEPT !.ui.products = joined, !.ui.total = y, !.ui.page = z]
      BY <2>1
    <3>2. DOMAIN v = ListFields /\ DOMAIN b = {"ui", "calls", "cache"} /\ b.calls = s.calls /\ SameList(s.ui, v)
      BY <1>2 DEF SameList
    <3> HIDE DEF y, z
    <3>3. DOMAIN t = DOMAIN b /\ t.calls = b.calls /\ t.ui = [v EXCEPT !.products = joined, !.total = y, !.page = z]
      BY <3>1, <3>2
    <3> HIDE DEF v
    <3>4. /\ DOMAIN t.ui = ListFields /\ t.ui.filter = v.filter /\ t.ui.gen = v.gen /\ t.ui.first = v.first
          /\ t.ui.page = z /\ t.ui.products = joined /\ t.ui.total = y /\ t.ui.loading = v.loading
      BY <3>2, <3>3 DEF ListFields
    <3>5. QED BY <3>2, <3>3, <3>4 DEF y, z, v, SameList
  <2>3. QED BY <1>10, <1>15, <2>2
<1>16. QED BY <1>11, <1>12, <1>13, <1>14, <1>15

LEMMA ListAnswered ==
    ASSUME ListState(ui, calls), NEW i \in DOMAIN calls, calls[i].st # "sent"
    PROVE  ListState(ListReply(Received(i), calls[i]).ui, ListReply(Received(i), calls[i]).calls)
<1> DEFINE s == Received(i)
           c == calls[i]
           t == ListReply(s, c)
           rs == RemoveAt(calls, i)
<1>0. calls \in Seq(ToSet(calls)) /\ OneOpens(ui, calls) /\ ListUi(ui) /\ (\A d \in ToSet(calls) : PageAsked(ui, d)) /\ c \in ToSet(calls)
  BY DEF ListState, ToSet
<1>1. Browser(s) /\ s.ui = ui /\ s.calls = rs /\ ToSet(rs) \subseteq ToSet(calls)
  BY <1>0, ReceivedFacts
<1>2. DOMAIN s = {"ui", "calls", "cache"} /\ rs \in Seq(ToSet(rs)) /\ DOMAIN s.ui = ListFields /\ DOMAIN ui = ListFields
  BY <1>0, <1>1 DEF Browser, ListUi
<1>3. PageAsked(ui, c) /\ c.st # "sent"
  BY <1>0
<1> SUFFICES ListState(t.ui, t.calls)
  OBVIOUS
<1> HIDE DEF s, c, t, rs
<1>4. OneOpens(ui, rs)
  BY <1>0, OneOpensStays DEF rs
<1>5. ListState(ui, rs)
  BY <1>0, <1>1, <1>2, <1>4 DEF ListState
<1>6. ASSUME t.calls = rs, SameList(ui, t.ui) PROVE ListState(t.ui, t.calls)
  BY <1>5, <1>6, SameListFacts
<1>7. CASE c.op = "list"
  <2>0. t = ListLoaded(s, c)
    BY <1>7 DEF t, ListReply
  <2>1. DOMAIN t = {"ui", "calls", "cache"} /\ t.calls = rs /\ Loaded(ui, c, t.ui)
    <3>1. DOMAIN t = {"ui", "calls", "cache"} /\ t.calls = s.calls /\ Loaded(s.ui, c, t.ui)
      BY <1>2, <2>0, LoadedFacts
    <3>2. QED BY <1>1, <3>1
  <2> DEFINE cat == Catalogue[c.arg.filter]
             page == PageOfList(cat, c.arg.page)
  <2>2. /\ c.arg.filter \in Filters /\ c.arg.page \in Nat \ {0} /\ c.gen \in Nat /\ c.gen <= ui.gen /\ c.st \in {"ok", "no"}
        /\ c.st = "ok" => c.got = [items |-> page, total |-> Len(cat)]
        /\ c.gen = ui.gen => /\ c.arg.filter = ui.filter /\ (ui.loading <=> c.arg.page = 1)
                             /\ ui.first = ui.gen => c.arg.page - 1 <= Len(ui.products)
    BY <1>3, <1>7 DEF PageAsked
  <2>3. c.gen = ui.gen /\ c.arg.page = 1 => \A d \in ToSet(rs) : ~Opens(ui, d)
    <3>1. c.gen = ui.gen /\ c.arg.page = 1 => Opens(ui, calls[i])
      BY <1>7 DEF Opens, c
    <3>2. QED BY <1>0, <3>1, OneOpensStays DEF rs
  <2>4. cat \in Seq(Products) /\ Distinct(cat) /\ page \in Seq(Products) /\ IsPage(page, cat, c.arg.page)
    BY <2>2, CatalogueFacts, PageFacts DEF IsPage
  <2>5. c.st = "ok" => c.got.items = page /\ c.got.total = Len(cat)
    BY <2>2
  <2> HIDE DEF cat, page
  <2>6. CASE c.gen # ui.gen \/ (c.arg.page # 1 /\ c.st = "no")
    BY <1>6, <2>1, <2>6 DEF Loaded
  <2>7. CASE c.gen = ui.gen /\ c.arg.page = 1
    <3>1. /\ DOMAIN t.ui = ListFields /\ t.ui.filter = ui.filter /\ t.ui.gen = ui.gen /\ t.ui.loading = FALSE
          /\ \/ t.ui.first = ui.gen /\ t.ui.page = 1 /\ t.ui.products = page /\ t.ui.total = Len(cat)
             \/ t.ui.first = ui.first /\ t.ui.page = ui.page /\ t.ui.products = ui.products /\ t.ui.total = ui.total
      <4>1. CASE c.st = "no"
        BY <1>2, <2>1, <2>7, <4>1 DEF Loaded, SameList, ListFields
      <4>2. CASE c.st # "no"
        BY <2>1, <2>2, <2>5, <2>7, <4>2 DEF Loaded
      <4>3. QED BY <4>1, <4>2
    <3>2. ui.first # ui.gen
      BY <1>0, <2>2, <2>7 DEF ListUi
    <3>3. ListUi(t.ui)
      <4>1. CASE t.ui.first = ui.gen /\ t.ui.page = 1 /\ t.ui.products = page /\ t.ui.total = Len(cat)
        <5>1. Begins(page, cat) /\ Reaches(page, cat, 1)
          BY <2>4, <2>7, FirstPage
        <5>2. cat = Catalogue[t.ui.filter]
          BY <2>2, <2>7, <3>1 DEF cat
        <5>3. /\ Begins(t.ui.products, Catalogue[t.ui.filter]) /\ t.ui.total = Len(Catalogue[t.ui.filter])
              /\ Reaches(t.ui.products, Catalogue[t.ui.filter], t.ui.page) /\ t.ui.products \in Seq(Products)
          BY <2>4, <4>1, <5>1, <5>2, Zenon
        <5>4. /\ t.ui.filter \in Filters /\ t.ui.gen \in Nat /\ t.ui.first \in Nat /\ t.ui.first <= t.ui.gen
              /\ t.ui.page \in Nat \ {0} /\ t.ui.loading \in BOOLEAN /\ t.ui.loading = FALSE /\ DOMAIN t.ui = ListFields
          <6>1. ui.filter \in Filters /\ ui.gen \in Nat /\ ui.gen <= ui.gen /\ 1 \in Nat \ {0}
            BY <1>0 DEF ListUi
          <6>2. QED BY <3>1, <4>1, <6>1, Zenon
        <5>5. QED BY <5>3, <5>4 DEF ListUi
      <4>2. CASE t.ui.first = ui.first /\ t.ui.page = ui.page /\ t.ui.products = ui.products /\ t.ui.total = ui.total
        BY <1>0, <3>1, <3>2, <4>2 DEF ListUi
      <4>3. QED BY <3>1, <4>1, <4>2
    <3>4. ASSUME NEW d \in ToSet(rs) PROVE PageAsked(t.ui, d) /\ ~Opens(t.ui, d)
      <4>1. PageAsked(ui, d) /\ ~Opens(ui, d)
        BY <1>0, <1>1, <2>3, <2>7
      <4>2. d.op = "list" => d.gen # ui.gen
        BY <2>2, <2>7, <4>1 DEF PageAsked, Opens
      <4>3. QED BY <3>1, <4>1, <4>2 DEF PageAsked, Opens
    <3>5. OneOpens(t.ui, rs)
      BY <3>4 DEF OneOpens, ToSet
    <3>6. QED BY <1>2, <2>1, <3>3, <3>4, <3>5 DEF ListState
  <2>8. CASE c.gen = ui.gen /\ c.arg.page # 1 /\ c.st # "no"
    <3>1. /\ DOMAIN t.ui = ListFields /\ t.ui.filter = ui.filter /\ t.ui.gen = ui.gen /\ t.ui.first = ui.first
          /\ t.ui.page = c.arg.page /\ t.ui.total = Len(cat) /\ t.ui.loading = ui.loading
          /\ Joined(t.ui.products, ui.products, page)
      BY <2>1, <2>2, <2>5, <2>8 DEF Loaded
    <3>2. cat = Catalogue[ui.filter] /\ ui.products \in Seq(Products)
      BY <1>0, <2>2, <2>8 DEF cat, ListUi
    <3>3. t.ui.products \in Seq(Products)
      BY <2>4, <3>1, <3>2, JoinedFacts
    <3>4. ui.first = ui.gen => Begins(t.ui.products, cat) /\ Reaches(t.ui.products, cat, c.arg.page) /\ Len(ui.products) <= Len(t.ui.products)
      BY <1>0, <2>2, <2>4, <2>8, <3>1, <3>2, PageAppended DEF ListUi
    <3>5. ListUi(t.ui)
      BY <1>0, <2>2, <3>1, <3>2, <3>3, <3>4 DEF ListUi
    <3>6. ASSUME NEW d, PageAsked(ui, d) PROVE PageAsked(t.ui, d)
      <4>1. Len(ui.products) \in Nat /\ Len(t.ui.products) \in Nat
        BY <3>2, <3>3
      <4>2. QED BY <3>1, <3>4, <3>6, <4>1 DEF PageAsked
    <3>7. OneOpens(t.ui, rs)
      BY <1>2, <1>4, <3>1, OneOpensStays
    <3>8. QED BY <1>2, <1>5, <2>1, <3>5, <3>6, <3>7 DEF ListState
  <2>9. QED BY <2>6, <2>7, <2>8
<1>8. CASE c.op # "list"
  <2>1. s.calls = rs /\ SameList(ui, s.ui)
    BY <1>1, <1>2 DEF SameList
  <2>2. ASSUME NEW r, DOMAIN r = {"ui", "calls", "cache"}, r.calls = rs, SameList(ui, r.ui), NEW x
        PROVE  /\ DOMAIN [r EXCEPT !.ui.favs = x] = {"ui", "calls", "cache"}
               /\ [r EXCEPT !.ui.favs = x].calls = rs /\ SameList(ui, [r EXCEPT !.ui.favs = x].ui)
    BY <2>2 DEF SameList, ListFields
  <2>3. CASE c.op = "favs"
    <3>1. t = s \/ t = [s EXCEPT !.ui.favs = c.got]
      BY <2>3 DEF t, ListReply
    <3>2. QED BY <1>2, <1>6, <2>1, <2>2, <3>1
  <2>4. CASE c.op # "favs"
    <3> DEFINE r == [s EXCEPT !.ui.favBusy = NoProduct]
    <3>1. DOMAIN r = {"ui", "calls", "cache"} /\ r.calls = rs /\ SameList(ui, r.ui)
      BY <1>2, <2>1 DEF SameList, ListFields
    <3>2. t = r \/ \E x : t = [r EXCEPT !.ui.favs = x]
      BY <1>8, <2>4 DEF t, ListReply, FavoriteTurned
    <3> HIDE DEF r
    <3>3. QED BY <1>6, <2>2, <3>1, <3>2
  <2>5. QED BY <2>3, <2>4
<1>9. QED BY <1>7, <1>8

LEMMA ListActs ==
    ASSUME ListState(ui, calls), ListNext
    PROVE  ListState(ui', calls')
<1>0. calls \in Seq(ToSet(calls)) /\ ListUi(ui) /\ DOMAIN ui = ListFields /\ ui.gen \in Nat
  BY DEF ListState, ListUi
<1>1. Browser(Here) /\ Here.ui = ui /\ Here.calls = calls /\ DOMAIN Here = {"ui", "calls", "cache"}
  BY <1>0, HereFacts DEF Browser
<1>2. CASE ChangeFilter
  <2>1. PICK f \in Filters \ {ui.filter} :
          Op(fetchPage([Here EXCEPT !.ui.filter = f, !.ui.gen = Here.ui.gen + 1, !.ui.busy = FALSE,
                                    !.ui.loading = TRUE, !.ui.more = FALSE, !.ui.error = FALSE], 1))
    BY <1>2 DEF ChangeFilter
  <2> DEFINE h == Here
             g == ui.gen + 1
             s == [h EXCEPT !.ui.filter = f, !.ui.gen = g, !.ui.busy = FALSE, !.ui.loading = TRUE, !.ui.more = FALSE, !.ui.error = FALSE]
             v == [ui EXCEPT !.filter = f, !.gen = g, !.busy = FALSE, !.loading = TRUE, !.more = FALSE, !.error = FALSE]
             c == [Call("list", [filter |-> s.ui.filter, page |-> 1]) EXCEPT !.gen = s.ui.gen]
  <2>2. Op(Send(s, c))
    BY <1>1, <2>1 DEF fetchPage
  <2>3. h.ui = ui /\ h.calls = calls /\ DOMAIN h = {"ui", "calls", "cache"}
    BY <1>1
  <2> HIDE DEF h, g
  <2>4. DOMAIN s = {"ui", "calls", "cache"} /\ s.calls = calls /\ s.ui = v
    BY <1>0, <2>3 DEF ListFields
  <2>5. /\ DOMAIN v = ListFields /\ v.filter = f /\ v.gen = g /\ v.loading = TRUE
        /\ v.first = ui.first /\ v.page = ui.page /\ v.products = ui.products /\ v.total = ui.total
    BY <1>0 DEF ListFields
  <2> HIDE DEF s, v
  <2>6. Browser(s)
    BY <1>0, <2>4 DEF Browser
  <2>7. IsCall(c) /\ c.op = "list" /\ c.gen = g /\ c.arg.filter = f /\ c.arg.page = 1 /\ c.st = "sent"
    <3> DEFINE a == [filter |-> s.ui.filter, page |-> 1]
               b == s.ui.gen
    <3>1. a.filter = f /\ a.page = 1 /\ b = g
      BY <2>4, <2>5
    <3> HIDE DEF a, b
    <3>2. IsCall(Call("list", a)) /\ Call("list", a).op = "list" /\ Call("list", a).arg = a /\ Call("list", a).st = "sent"
      BY CallFacts
    <3> DEFINE d == Call("list", a)
               e == [d EXCEPT !.gen = b]
    <3> HIDE DEF d
    <3>3. DOMAIN e = DOMAIN d /\ e.op = d.op /\ e.arg = d.arg /\ e.gen = b /\ e.st = d.st
      BY <3>2 DEF d, IsCall
    <3>4. c = e
      BY DEF a, b, d
    <3> HIDE DEF e, c
    <3>5. QED BY <3>1, <3>2, <3>3, <3>4 DEF d, IsCall
  <2> HIDE DEF c
  <2>8. /\ Browser(Send(s, c)) /\ Send(s, c).ui = v /\ Send(s, c).calls = Append(calls, c)
        /\ ToSet(Send(s, c).calls) = ToSet(calls) \cup {c}
    BY <2>4, <2>6, SendFacts
  <2>9. g = ui.gen + 1 /\ g \in Nat /\ ui.first \in Nat /\ ui.first <= ui.gen
    BY <1>0 DEF g, ListUi
  <2>10. ListUi(v)
    <3>1. ui.first # g /\ ui.first <= g
      BY <1>0, <2>9
    <3>2. ui.page \in Nat \ {0} /\ ui.products \in Seq(Products)
      BY <1>0 DEF ListUi
    <3>3. QED BY <2>5, <2>9, <3>1, <3>2, Zenon DEF ListUi
  <2>11. PageAsked(v, c)
    BY <2>5, <2>7, <2>9 DEF PageAsked
  <2>12. ASSUME NEW d \in ToSet(calls) PROVE PageAsked(v, d) /\ ~Opens(v, d)
    <3>1. PageAsked(ui, d)
      BY DEF ListState
    <3>2. d.op = "list" => d.gen \in Nat /\ d.gen <= ui.gen
      BY <3>1 DEF PageAsked
    <3>3. d.op = "list" => d.gen <= v.gen /\ d.gen # v.gen
      BY <1>0, <2>5, <2>9, <3>2
    <3>4. QED BY <3>1, <3>3 DEF PageAsked, Opens
  <2>13. OneOpens(v, Append(calls, c))
    <3> DEFINE t == Append(calls, c)
    <3>1. DOMAIN t = 1..(Len(calls) + 1) /\ DOMAIN calls = 1..Len(calls) /\ Len(calls) \in Nat
          /\ \A i \in 1..Len(calls) : t[i] = calls[i]
      BY <1>0
    <3> HIDE DEF t
    <3>2. \A i \in 1..Len(calls) : ~Opens(v, t[i])
      BY <2>12, <3>1 DEF ToSet
    <3>3. OneOpens(v, t)
      BY <3>1, <3>2 DEF OneOpens
    <3>4. QED BY <3>3 DEF t
  <2>14. ListState(Send(s, c).ui, Send(s, c).calls)
    BY <2>8, <2>10, <2>11, <2>12, <2>13 DEF ListState, Browser
  <2>15. QED BY <2>2, <2>14, DoFacts
<1>3. ASSUME NEW s, NEW c, Browser(s), s.calls = calls, SameList(ui, s.ui), Op(Send(s, c)), PageAsked(s.ui, c), ~Opens(s.ui, c)
      PROVE  ListState(ui', calls')
  <2>1. ListState(s.ui, s.calls)
    BY <1>3, SameListFacts
  <2>2. QED BY <1>3, <2>1, ListSends, DoFacts
<1>4. CASE Intersect
  <2>1. CASE ui.busy
    <3> DEFINE h == Here
               s == [h EXCEPT !.ui.trig = TRUE]
    <3>1. Op(s)
      BY <1>4, <2>1 DEF Intersect
    <3>2. h.ui = ui /\ h.calls = calls /\ DOMAIN h = {"ui", "calls", "cache"}
      BY <1>1
    <3> HIDE DEF h
    <3>3. s.calls = calls /\ SameList(ui, s.ui)
      BY <1>0, <3>2 DEF SameList, ListFields
    <3> HIDE DEF s
    <3>4. QED BY <3>1, <3>3, SameListFacts, DoFacts
  <2>2. CASE ~ui.busy
    <3> DEFINE h == Here
               s == [h EXCEPT !.ui.trig = TRUE, !.ui.busy = TRUE, !.ui.more = TRUE]
               n == ui.page + 1
               c == [Call("list", [filter |-> s.ui.filter, page |-> n]) EXCEPT !.gen = s.ui.gen]
    <3>1. Op(Send(s, c)) /\ ~ui.loading /\ hasMore
      BY <1>4, <2>2 DEF Intersect, fetchPage
    <3>2. h.ui = ui /\ h.calls = calls /\ DOMAIN h = {"ui", "calls", "cache"}
      BY <1>1
    <3> HIDE DEF h, n
    <3>3. DOMAIN s = {"ui", "calls", "cache"} /\ s.calls = calls /\ SameList(ui, s.ui)
      BY <1>0, <3>2 DEF SameList, ListFields
    <3> HIDE DEF s
    <3>4. Browser(s)
      BY <1>0, <3>3 DEF Browser
    <3>5. IsCall(c) /\ c.op = "list" /\ c.gen = ui.gen /\ c.arg.filter = ui.filter /\ c.arg.page = n /\ c.st = "sent"
      <4> DEFINE a == [filter |-> s.ui.filter, page |-> n]
                 b == s.ui.gen
      <4>1. a.filter = ui.filter /\ a.page = n /\ b = ui.gen
        BY <3>3 DEF SameList
      <4> HIDE DEF a, b
      <4>2. IsCall(Call("list", a)) /\ Call("list", a).op = "list" /\ Call("list", a).arg = a /\ Call("list", a).st = "sent"
        BY CallFacts
      <4> DEFINE d == Call("list", a)
                 e == [d EXCEPT !.gen = b]
      <4> HIDE DEF d
      <4>3. DOMAIN e = DOMAIN d /\ e.op = d.op /\ e.arg = d.arg /\ e.gen = b /\ e.st = d.st
        BY <4>2 DEF d, IsCall
      <4>4. c = e
        BY DEF a, b, d
      <4> HIDE DEF e, c
      <4>5. QED BY <4>1, <4>2, <4>3, <4>4 DEF d, IsCall
    <3> HIDE DEF c
    <3>6. n \in Nat \ {0, 1} /\ n - 1 = ui.page
      BY <1>0 DEF ListUi, n
    <3>7. ui.first = ui.gen => ui.page <= Len(ui.products)
      BY <1>0, <3>1 DEF ListUi, Reaches, hasMore
    <3>8. PageAsked(ui, c) /\ ~Opens(ui, c)
      BY <1>0, <3>1, <3>5, <3>6, <3>7 DEF PageAsked, Opens, ListUi
    <3>9. PageAsked(s.ui, c) /\ ~Opens(s.ui, c)
      BY <3>3, <3>8, SameListFacts DEF Opens, SameList
    <3>10. QED BY <1>3, <3>1, <3>3, <3>4, <3>9
  <2>3. QED BY <2>1, <2>2
<1>5. CASE toggleFavorite
  <2>1. PICK p, x, op : op \in {"like", "unlike"} /\ Op(Send([Here EXCEPT !.ui.favs = x, !.ui.favBusy = p], Call(op, p)))
    <3>1. PICK p : Op(Send([Here EXCEPT !.ui.favs = Turned(Here.ui.favs, p, p \notin ui.favs), !.ui.favBusy = p],
                           Call(IF p \notin ui.favs THEN "like" ELSE "unlike", p)))
      BY <1>5 DEF toggleFavorite
    <3> DEFINE x == Turned(Here.ui.favs, p, p \notin ui.favs)
               op == IF p \notin ui.favs THEN "like" ELSE "unlike"
    <3>2. Op(Send([Here EXCEPT !.ui.favs = x, !.ui.favBusy = p], Call(op, p))) /\ op \in {"like", "unlike"}
      BY <3>1
    <3> HIDE DEF x, op
    <3>3. QED BY <3>2
  <2> DEFINE h == Here
             s == [h EXCEPT !.ui.favs = x, !.ui.favBusy = p]
  <2>2. h.ui = ui /\ h.calls = calls /\ DOMAIN h = {"ui", "calls", "cache"}
    BY <1>1
  <2> HIDE DEF h
  <2>3. DOMAIN s = {"ui", "calls", "cache"} /\ s.calls = calls /\ SameList(ui, s.ui)
    BY <1>0, <2>2 DEF SameList, ListFields
  <2>4. Op(Send(s, Call(op, p)))
    BY <2>1 DEF h
  <2> HIDE DEF s
  <2>5. Browser(s)
    BY <1>0, <2>3 DEF Browser
  <2>6. PageAsked(s.ui, Call(op, p)) /\ ~Opens(s.ui, Call(op, p))
    BY <2>1, CallFacts DEF PageAsked, Opens
  <2>7. QED BY <1>3, <2>3, <2>4, <2>5, <2>6
<1>6. QED BY <1>2, <1>4, <1>5 DEF ListNext

LEMMA ListServed ==
    ASSUME screen = "list", ListState(ui, calls), NEW i \in DOMAIN calls, Serve(i)
    PROVE  ListState(ui', calls')
<1>0. calls \in Seq(ToSet(calls)) /\ OneOpens(ui, calls) /\ ListUi(ui) /\ (\A d \in ToSet(calls) : PageAsked(ui, d)) /\ calls[i] \in ToSet(calls)
  BY DEF ListState, ToSet
<1>1. \A d \in ToSet(calls) : IsCall(d)
  BY <1>0 DEF PageAsked
<1>2. /\ ui' = ui /\ calls[i].st = "sent" /\ DOMAIN calls' = DOMAIN calls
      /\ \A j \in DOMAIN calls : j # i => calls'[j] = calls[j]
      /\ Alike(calls[i], calls'[i])
      /\ calls' \in Seq(ToSet(calls'))
      /\ \A c \in ToSet(calls') : c \in ToSet(calls) \/ c = calls'[i]
  BY <1>0, <1>1, ServeFacts
<1> DEFINE c == calls[i]
           d == calls'[i]
<1>3. PageAsked(ui, c) /\ IsCall(c)
  BY <1>0, <1>1
<1>4. c.op = "list" => \/ d.st = "no"
                       \/ d.st = "ok" /\ d.got = [items |-> PageOfList(Catalogue[c.arg.filter], c.arg.page), total |-> Len(Catalogue[c.arg.filter])]
  <2> SUFFICES ASSUME c.op = "list"
               PROVE  \/ d.st = "no"
                      \/ d.st = "ok" /\ d.got = [items |-> PageOfList(Catalogue[c.arg.filter], c.arg.page), total |-> Len(Catalogue[c.arg.filter])]
    OBVIOUS
  <2>1. ASSUME NEW st, NEW got, Answer(i, st, got) PROVE d.st = st /\ d.got = got
    <3> DEFINE e == [[c EXCEPT !.st = st] EXCEPT !.got = got]
    <3>1. d = e
      BY <2>1 DEF Answer
    <3> HIDE DEF c, d
    <3>2. e.st = st /\ e.got = got
      BY <1>3 DEF IsCall
    <3> HIDE DEF e
    <3>3. QED BY <3>1, <3>2
  <2>2. Answers(c) = {[items |-> PageOfList(Catalogue[c.arg.filter], c.arg.page), total |-> Len(Catalogue[c.arg.filter])]}
    BY DEF Answers, AccountPages, SignedPages, ShellPages
  <2>3. Refusal(c) = "no" /\ c.op \notin NeedsSession
    BY DEF Refusal, SignedPages, NeedsSession
  <2>4. \/ \E a \in Answers(c) : Answer(i, "ok", a)
        \/ Answer(i, "no", 0)
    BY <2>3 DEF Serve
  <2> HIDE DEF c, d
  <2>5. QED BY <2>1, <2>2, <2>4
<1> HIDE DEF c, d
<1>5. Alike(c, d)
  BY <1>2 DEF c, d
<1>6. PageAsked(ui, d)
  BY <1>3, <1>4, <1>5 DEF PageAsked, Alike
<1>7. OneOpens(ui, calls')
  <2>1. \A j \in DOMAIN calls' : Opens(ui, calls'[j]) => j \in DOMAIN calls /\ Opens(ui, calls[j])
    BY <1>2 DEF Opens, Alike
  <2>2. QED BY <1>0, <2>1 DEF OneOpens
<1>8. QED BY <1>0, <1>2, <1>6, <1>7 DEF ListState, d

LEMMA ListInit == Init => OfOneFilter
<1> SUFFICES ASSUME Init, screen = "list" PROVE ListState(ui, calls)
  BY DEF OfOneFilter
<1> DEFINE a == [filter |-> BlankList.filter, page |-> 1]
           c == [Call("list", a) EXCEPT !.gen = 1]
           b == Bare(BlankList)
           s == Send(b, Call("favs", 1))
           f == BlankList.filter
<1>1. Mounted("list", Send(s, c))
  BY DEF Init, InitShop, InitBag, InitPurchase, InitAccount, InitSession, InitShell, InitWidgets, InitPictures, Mounted
<1>2. f \in Filters
  BY ShopAssumption DEF Filters, BlankList
<1>3. a.filter = f /\ a.page = 1
  OBVIOUS
<1> HIDE DEF a
<1>4. IsCall(c) /\ c.op = "list" /\ c.arg = a /\ c.gen = 1 /\ c.st = "sent"
  BY CallFacts DEF IsCall
<1> HIDE DEF c
<1>5. Browser(b) /\ b.ui = BlankList /\ b.calls = <<>>
  <2>1. <<>> \in Seq(ToSet(<<>>)) /\ ToSet(<<>>) = {}
    BY DEF ToSet
  <2>2. QED BY <2>1 DEF Bare, Browser
<1> HIDE DEF b
<1>6. Browser(s) /\ s.ui = BlankList /\ s.calls = Append(<<>>, Call("favs", 1))
  BY <1>5, SendFacts
<1> HIDE DEF s
<1>7. ListUi(BlankList) /\ BlankList.gen = 1 /\ BlankList.first = 0 /\ BlankList.loading = TRUE
  <2>1. /\ DOMAIN BlankList = ListFields /\ BlankList.gen = 1 /\ BlankList.first = 0 /\ BlankList.page = 1
        /\ BlankList.products = <<>> /\ BlankList.loading = TRUE
    BY DEF BlankList, ListFields
  <2>2. <<>> \in Seq(Products)
    OBVIOUS
  <2>3. 1 \in Nat \ {0} /\ 0 \in Nat /\ 0 <= 1 /\ 0 # 1
    OBVIOUS
  <2>4. QED BY <1>2, <2>1, <2>2, <2>3, Zenon DEF ListUi
<1>8. s.calls = <<Call("favs", 1)>> /\ ToSet(s.calls) = {Call("favs", 1)} /\ DOMAIN s.calls = {1}
  BY <1>6 DEF ToSet
<1>9. PageAsked(BlankList, Call("favs", 1)) /\ ~Opens(BlankList, Call("favs", 1))
  BY CallFacts DEF PageAsked, Opens
<1>10. PageAsked(BlankList, c)
  BY <1>2, <1>3, <1>4, <1>7 DEF PageAsked
<1>11. /\ Browser(Send(s, c)) /\ Send(s, c).ui = BlankList /\ Send(s, c).calls = Append(s.calls, c)
       /\ \A d \in ToSet(Send(s, c).calls) : d = Call("favs", 1) \/ d = c
  <2> DEFINE e == Call("favs", 1)
  <2> HIDE DEF e
  <2>1. Browser(Send(s, c)) /\ Send(s, c).ui = s.ui /\ Send(s, c).calls = Append(s.calls, c)
        /\ ToSet(Send(s, c).calls) = ToSet(s.calls) \cup {c}
    BY <1>6, SendFacts
  <2>2. ToSet(s.calls) = {e}
    BY <1>8 DEF e
  <2>3. \A d \in ToSet(Send(s, c).calls) : d = e \/ d = c
    BY <2>1, <2>2
  <2>4. QED BY <1>6, <2>1, <2>3 DEF e
<1>12. OneOpens(BlankList, Append(s.calls, c))
  <2> DEFINE t == Append(s.calls, c)
             e == Call("favs", 1)
  <2>1. DOMAIN t = {1, 2} /\ t[1] = e
    BY <1>8
  <2> HIDE DEF t, e
  <2>2. ~Opens(BlankList, t[1])
    BY <1>9, <2>1 DEF e
  <2>3. OneOpens(BlankList, t)
    BY <2>1, <2>2 DEF OneOpens
  <2>4. QED BY <2>3 DEF t
<1>13. ListState(Send(s, c).ui, Send(s, c).calls)
  BY <1>7, <1>9, <1>10, <1>11, <1>12 DEF ListState, Browser
<1>14. QED BY <1>1, <1>13 DEF Mounted

LEMMA ListKept == OfOneFilter /\ [Next]_vars => OfOneFilter'
<1> SUFFICES ASSUME OfOneFilter, [Next]_vars, screen' = "list" PROVE ListState(ui', calls')
  BY DEF OfOneFilter
<1>1. screen = "list" /\ (Untouched \/ ListNext \/ \E i \in DOMAIN calls : Serve(i) \/ Deliver(i))
  BY PageSteps, DialogSteps, CheckoutSteps
<1>2. ListState(ui, calls)
  BY <1>1 DEF OfOneFilter
<1>3. CASE Untouched
  BY <1>2, <1>3 DEF Untouched
<1>4. CASE ListNext
  BY <1>2, <1>4, ListActs
<1>5. ASSUME NEW i \in DOMAIN calls, Serve(i) PROVE ListState(ui', calls')
  BY <1>1, <1>2, <1>5, ListServed
<1>6. ASSUME NEW i \in DOMAIN calls, Deliver(i) PROVE ListState(ui', calls')
  <2>1. Do(ListReply(Received(i), calls[i])) /\ calls[i].st # "sent"
    BY <1>1, <1>6 DEF Deliver, Reply, ShopReply, SignedPages, AccountPages, ShellPages
  <2>2. QED BY <1>2, <2>1, ListAnswered, DoFacts
<1>7. QED BY <1>1, <1>3, <1>4, <1>5, <1>6

\* Whatever the filters that are chosen, the pages that are scrolled to and the answers that
\* are late or lost, the list is the beginning of its filter's (useProducts.ts).
THEOREM ListOfOneFilter == Spec => []PagesOfOneFilter
<1>1. OfOneFilter => PagesOfOneFilter
  <2> SUFFICES ASSUME OfOneFilter, screen = "list", ui.first = ui.gen PROVE IsPrefix(ui.products, Catalogue[ui.filter])
    BY DEF PagesOfOneFilter
  <2> DEFINE ps == ui.products
             cat == Catalogue[ui.filter]
  <2>1. ps \in Seq(Products) /\ Begins(ps, cat) /\ ui.filter \in Filters
    BY DEF OfOneFilter, ListState, ListUi
  <2>2. cat \in Seq(Products)
    BY <2>1, CatalogueFacts
  <2> HIDE DEF ps, cat
  <2>3. IsPrefix(ps, cat)
    BY <2>1, <2>2, BeginsIsPrefix
  <2>4. QED BY <2>3 DEF ps, cat
<1>2. QED BY <1>1, ListInit, ListKept, PTL DEF Spec

-----------------------------------------------------------------------------
(***************************************************************************)
(* Signing in, and the session that is refreshed behind the calls.         *)
(***************************************************************************)
SessionFields == {"page", "user", "loading", "retries", "waiting", "modal", "error", "social", "busy", "codes", "eff"}
\* The calls that are sent only for one who is known.
Guarded == {"fetch", "matrix", "roles"}
SessionOps == {"me", "signin", "signout", "register", "providers", "social", "refresh"} \cup Guarded
\* Somebody is signed in, or was: until then nothing shows a user.
Identified(sv) == sv.who # NoUser \/ sv.ended
Over(sv) == sv.ended \/ sv.lost
Server(sv) ==
  /\ DOMAIN sv = {"who", "access", "refresh", "rotated", "ended", "lost"}
  /\ sv.rotated => sv.ended
  /\ sv.access \/ sv.refresh => sv.who # NoUser
  /\ sv.who # NoUser => sv.refresh \/ sv.ended
Allowed(c, sv) ==
  /\ IsCall(c) /\ c.op \in SessionOps
  /\ c.op \in Guarded => Identified(sv)
  /\ c.op \in {"me", "social"} /\ c.st = "ok" => Identified(sv)
SessionCall(c, sv) ==
  /\ Allowed(c, sv)
  /\ c.st = "reauth" => sv.ended
  /\ c.st = "401" => c.op \in Guarded \cup {"me", "signin"}
Waiter(c, sv) == Allowed(c, sv) /\ c.op \in Guarded \cup {"me"} /\ c.st = "401"
Held(s, sv) ==
  /\ Browser(s) /\ DOMAIN s.ui = SessionFields /\ s.ui.waiting \in Seq(ToSet(s.ui.waiting))
  /\ \A c \in ToSet(s.calls) : SessionCall(c, sv)
  /\ \A c \in ToSet(s.ui.waiting) : Waiter(c, sv)
  /\ s.ui.modal => Over(sv)
  /\ s.ui.user # NoUser => Identified(sv)
  /\ \A k \in DOMAIN s.cache : k[1] = "me" => Identified(sv)
Refreshes(cs) == {i \in DOMAIN cs : cs[i].op = "refresh"}
\* One refresh is out while calls wait for it, and none when nothing waits.
Alone(s) ==
  /\ \A i, j \in Refreshes(s.calls) : i = j
  /\ (s.ui.waiting = <<>>) <=> (Refreshes(s.calls) = {})
\* When the server refused a refresh before anybody had signed in, nothing waits for it but
\* the lookup of who it is, and nothing else joins it: an access token outlives it.
Fruitless(s, sv) ==
  \/ \A c \in ToSet(s.calls) : c.op = "refresh" => c.st \in {"sent", "ok"}
  \/ Over(sv)
  \/ /\ sv.who # NoUser => sv.access
     /\ \A c \in ToSet(s.calls) : c.op \in Guarded => c.st # "401"
     /\ \A c \in ToSet(s.ui.waiting) : c.op = "me"
SessionState(s, sv) == Server(sv) /\ Held(s, sv) /\ Alone(s) /\ Fruitless(s, sv)
OneSession == SignedPages => SessionState(Here, srv)

\* A handler that neither refreshes nor makes a call wait.
Undisturbed(s, t) ==
  /\ t.ui.waiting = s.ui.waiting /\ Refreshes(t.calls) = Refreshes(s.calls)
  /\ \A c \in ToSet(t.calls) : c \in ToSet(s.calls) \/ (c.op # "refresh" /\ c.st \in {"sent", "ok"})
Passes(s, t, sv) == Held(t, sv) /\ Undisturbed(s, t)

LEMMA PassesAlso ==
    ASSUME NEW s, NEW t, NEW u, NEW sv, Passes(s, t, sv), Passes(t, u, sv)
    PROVE  Passes(s, u, sv)
BY DEF Passes, Undisturbed

LEMMA PassesSelf ==
    ASSUME NEW s, NEW sv, Held(s, sv)
    PROVE  Passes(s, s, sv)
BY DEF Passes, Undisturbed

LEMMA QuietSession ==
    ASSUME NEW s, NEW t, NEW sv, SessionState(s, sv), Passes(s, t, sv)
    PROVE  SessionState(t, sv)
<1>1. Alone(t)
  BY DEF SessionState, Passes, Undisturbed, Alone
<1>2. Fruitless(t, sv)
  BY DEF SessionState, Passes, Undisturbed, Fruitless
<1>3. QED BY <1>1, <1>2 DEF SessionState, Passes

\* An edit of the page.
LEMMA Edited ==
    ASSUME NEW s, NEW sv, Held(s, sv), NEW t, DOMAIN t = {"ui", "calls", "cache"}, t.calls = s.calls, t.cache = s.cache,
           DOMAIN t.ui = SessionFields, t.ui.waiting = s.ui.waiting, t.ui.modal => s.ui.modal \/ Over(sv),
           t.ui.user \in {s.ui.user, NoUser} \/ Identified(sv)
    PROVE  Passes(s, t, sv)
<1>1. Held(t, sv)
  BY DEF Held, Browser
<1>2. QED BY <1>1 DEF Passes, Undisturbed

LEMMA RefreshesAppended ==
    ASSUME NEW cs, cs \in Seq(ToSet(cs)), NEW c
    PROVE  /\ c.op # "refresh" => Refreshes(Append(cs, c)) = Refreshes(cs)
           /\ c.op = "refresh" => Refreshes(Append(cs, c)) = Refreshes(cs) \cup {Len(cs) + 1}
<1> DEFINE t == Append(cs, c)
<1>1. /\ DOMAIN t = 1..(Len(cs) + 1) /\ t[Len(cs) + 1] = c /\ DOMAIN cs = 1..Len(cs) /\ Len(cs) \in Nat
      /\ \A i \in 1..Len(cs) : t[i] = cs[i]
  OBVIOUS
<1> HIDE DEF t
<1>2. \A i : i \in 1..(Len(cs) + 1) <=> i \in 1..Len(cs) \/ i = Len(cs) + 1
  BY <1>1
<1>3. ~ (Len(cs) + 1 \in 1..Len(cs))
  BY <1>1
<1>4. QED BY <1>1, <1>2, <1>3 DEF Refreshes, t

LEMMA Sent ==
    ASSUME NEW s, NEW sv, Held(s, sv), NEW c, SessionCall(c, sv), c.op # "refresh", c.st \in {"sent", "ok"}
    PROVE  Passes(s, Send(s, c), sv)
<1>1. /\ Browser(Send(s, c)) /\ Send(s, c).ui = s.ui /\ Send(s, c).cache = s.cache
      /\ Send(s, c).calls = Append(s.calls, c)
      /\ ToSet(Send(s, c).calls) = ToSet(s.calls) \cup {c}
  BY SendFacts DEF Held
<1>2. Refreshes(Send(s, c).calls) = Refreshes(s.calls)
  BY <1>1, RefreshesAppended DEF Held, Browser
<1>3. QED BY <1>1, <1>2 DEF Passes, Held, Undisturbed

LEMMA Gotten ==
    ASSUME NEW s, NEW sv, Held(s, sv), NEW c, Allowed(c, sv), c.op \notin {"refresh", "social"}, c.st = "sent"
    PROVE  Passes(s, Get(s, c), sv)
<1>1. SessionCall(c, sv)
  BY DEF SessionCall
<1>2. CASE Key(c) \notin DOMAIN s.cache
  <2>1. Get(s, c) = Send(s, c)
    BY <1>2 DEF Get
  <2>2. QED BY <1>1, <2>1, Sent
<1>3. CASE Key(c) \in DOMAIN s.cache
  <2> DEFINE d == [c EXCEPT !.st = "ok", !.got = s.cache[Key(c)]]
  <2>1. Get(s, c) = Send(s, d)
    BY <1>3 DEF Get
  <2>2. IsCall(d) /\ d.op = c.op /\ d.st = "ok"
    BY DEF Allowed, IsCall
  <2>3. c.op = "me" => Identified(sv)
    BY <1>3 DEF Held, Key
  <2>4. SessionCall(d, sv)
    <3> HIDE DEF d
    <3>1. QED BY <2>2, <2>3 DEF SessionCall, Allowed
  <2> HIDE DEF d
  <2>5. QED BY <2>1, <2>2, <2>4, Sent
<1>4. QED BY <1>2, <1>3

LEMMA AskFacts ==
    ASSUME NEW op, NEW arg, NEW then
    PROVE  IsCall(Ask(op, arg, then)) /\ Ask(op, arg, then).op = op /\ Ask(op, arg, then).arg = arg /\ Ask(op, arg, then).st = "sent"
BY CallFacts DEF Ask, IsCall

LEMMA UserSet ==
    ASSUME NEW s, NEW sv, Held(s, sv), NEW u, u = NoUser \/ Identified(sv)
    PROVE  Passes(s, setUser(s, u), sv)
<1>1. PICK x, y : \/ setUser(s, u) = [s EXCEPT !.ui.user = u, !.ui.eff = x, !.ui.codes = y]
                  \/ /\ u # NoUser
                     /\ \E e : setUser(s, u) = Get([s EXCEPT !.ui.user = u, !.ui.eff = x, !.ui.codes = y], Ask("matrix", 1, e))
  BY DEF setUser
<1> DEFINE t == [s EXCEPT !.ui.user = u, !.ui.eff = x, !.ui.codes = y]
<1>2. DOMAIN s = {"ui", "calls", "cache"} /\ DOMAIN s.ui = SessionFields
  BY DEF Held, Browser
<1>3. /\ DOMAIN t = {"ui", "calls", "cache"} /\ t.calls = s.calls /\ t.cache = s.cache /\ DOMAIN t.ui = SessionFields
      /\ t.ui.waiting = s.ui.waiting /\ t.ui.modal = s.ui.modal /\ t.ui.user = u
  BY <1>2 DEF SessionFields
<1> HIDE DEF t
<1>4. Passes(s, t, sv)
  BY <1>3, Edited
<1>5. ASSUME NEW e, u # NoUser PROVE Passes(s, Get(t, Ask("matrix", 1, e)), sv)
  <2>1. Allowed(Ask("matrix", 1, e), sv) /\ Ask("matrix", 1, e).op = "matrix" /\ Ask("matrix", 1, e).st = "sent"
    BY <1>5, AskFacts DEF Allowed, SessionOps, Guarded
  <2>2. Passes(t, Get(t, Ask("matrix", 1, e)), sv)
    BY <1>4, <2>1, Gotten DEF Passes
  <2>3. QED BY <1>4, <2>2, PassesAlso
<1>6. QED BY <1>1, <1>4, <1>5 DEF t

LEMMA IsSettled ==
    ASSUME NEW s, NEW sv, Held(s, sv), NEW then
    PROVE  Passes(s, Settled(s, then), sv)
<1> DEFINE t == [s EXCEPT !.ui.loading = FALSE]
<1>1. DOMAIN s = {"ui", "calls", "cache"} /\ DOMAIN s.ui = SessionFields
  BY DEF Held, Browser
<1>2. /\ DOMAIN t = {"ui", "calls", "cache"} /\ t.calls = s.calls /\ t.cache = s.cache /\ DOMAIN t.ui = SessionFields
      /\ t.ui.waiting = s.ui.waiting /\ t.ui.modal = s.ui.modal /\ t.ui.user = s.ui.user
  BY <1>1 DEF SessionFields
<1>3. \/ Settled(s, then) = t
      \/ Settled(s, then) = [t EXCEPT !.ui.page = "shop"]
      \/ Settled(s, then) = Send(setUser([t EXCEPT !.ui.error = TRUE, !.ui.busy = FALSE], NoUser), Ask("signout", 1, "none"))
      \/ Settled(s, then) = [t EXCEPT !.ui.page = "products", !.ui.busy = FALSE]
  BY DEF Settled
<1> HIDE DEF t
<1>4. ASSUME NEW r, DOMAIN r = {"ui", "calls", "cache"}, r.calls = t.calls, r.cache = t.cache, DOMAIN r.ui = SessionFields,
             r.ui.waiting = t.ui.waiting, r.ui.modal = t.ui.modal, r.ui.user = t.ui.user
      PROVE  Passes(s, r, sv)
  BY <1>2, <1>4, Edited
<1>5. Passes(s, t, sv) /\ Passes(s, [t EXCEPT !.ui.page = "shop"], sv)
  <2> DEFINE r == [t EXCEPT !.ui.page = "shop"]
  <2>1. /\ DOMAIN r = {"ui", "calls", "cache"} /\ r.calls = t.calls /\ r.cache = t.cache /\ DOMAIN r.ui = SessionFields
        /\ r.ui.waiting = t.ui.waiting /\ r.ui.modal = t.ui.modal /\ r.ui.user = t.ui.user
    BY <1>2 DEF SessionFields
  <2> HIDE DEF r
  <2>2. Passes(s, r, sv) /\ Passes(s, t, sv)
    BY <1>2, <1>4, <2>1
  <2>3. QED BY <2>2 DEF r
<1>6. Passes(s, [t EXCEPT !.ui.page = "products", !.ui.busy = FALSE], sv)
  <2> DEFINE r == [t EXCEPT !.ui.page = "products", !.ui.busy = FALSE]
  <2>1. /\ DOMAIN r = {"ui", "calls", "cache"} /\ r.calls = t.calls /\ r.cache = t.cache /\ DOMAIN r.ui = SessionFields
        /\ r.ui.waiting = t.ui.waiting /\ r.ui.modal = t.ui.modal /\ r.ui.user = t.ui.user
    BY <1>2 DEF SessionFields
  <2> HIDE DEF r
  <2>2. Passes(s, r, sv)
    BY <1>4, <2>1
  <2>3. QED BY <2>2 DEF r
<1>7. Passes(s, Send(setUser([t EXCEPT !.ui.error = TRUE, !.ui.busy = FALSE], NoUser), Ask("signout", 1, "none")), sv)
  <2> DEFINE r == [t EXCEPT !.ui.error = TRUE, !.ui.busy = FALSE]
             q == setUser(r, NoUser)
             c == Ask("signout", 1, "none")
  <2>1. /\ DOMAIN r = {"ui", "calls", "cache"} /\ r.calls = t.calls /\ r.cache = t.cache /\ DOMAIN r.ui = SessionFields
        /\ r.ui.waiting = t.ui.waiting /\ r.ui.modal = t.ui.modal /\ r.ui.user = t.ui.user
    BY <1>2 DEF SessionFields
  <2> HIDE DEF r
  <2>2. Passes(s, r, sv)
    BY <1>4, <2>1
  <2>3. Passes(r, q, sv)
    BY <2>2, UserSet DEF Passes
  <2>4. SessionCall(c, sv) /\ c.op = "signout" /\ c.st = "sent"
    BY AskFacts DEF SessionCall, Allowed, SessionOps, Guarded
  <2> HIDE DEF q, c
  <2>5. Passes(q, Send(q, c), sv)
    BY <2>3, <2>4, Sent DEF Passes
  <2>6. Passes(s, Send(q, c), sv)
    BY <2>2, <2>3, <2>5, PassesAlso
  <2>7. QED BY <2>6 DEF r, q, c
<1>8. QED BY <1>3, <1>5, <1>6, <1>7

LEMMA LookedUp ==
    ASSUME NEW s, NEW sv, Held(s, sv), NEW try, NEW then
    PROVE  Passes(s, refreshUser(s, try, then), sv)
<1> DEFINE a == Ask("me", 1, then)
           c == [a EXCEPT !.gen.try = try]
<1>1. IsCall(a) /\ a.op = "me" /\ a.st = "sent"
  BY AskFacts
<1>2. refreshUser(s, try, then) = Get(s, c)
  BY DEF refreshUser
<1> HIDE DEF a
<1>3. IsCall(c) /\ c.op = "me" /\ c.st = "sent"
  BY <1>1 DEF IsCall
<1> HIDE DEF c
<1>4. Allowed(c, sv)
  BY <1>3 DEF Allowed, SessionOps, Guarded
<1>5. QED BY <1>2, <1>3, <1>4, Gotten

LEMMA UserKnown ==
    ASSUME NEW s, NEW sv, Held(s, sv), NEW c, Allowed(c, sv), c.op = "me"
    PROVE  Passes(s, UserAnswered(s, c), sv)
<1>1. ASSUME NEW u, u = NoUser \/ Identified(sv) PROVE Passes(s, Settled(setUser(s, u), c.gen.then), sv)
  <2> DEFINE q == setUser(s, u)
  <2>1. Passes(s, q, sv)
    BY <1>1, UserSet
  <2> HIDE DEF q
  <2>2. Passes(q, Settled(q, c.gen.then), sv)
    BY <2>1, IsSettled DEF Passes
  <2>3. Passes(s, Settled(q, c.gen.then), sv)
    BY <2>1, <2>2, PassesAlso
  <2>4. QED BY <2>3 DEF q
<1>2. Passes(s, Settled(s, c.gen.then), sv)
  BY IsSettled
<1>3. ASSUME NEW x PROVE Passes(s, [s EXCEPT !.ui.retries = x], sv)
  <2> DEFINE t == [s EXCEPT !.ui.retries = x]
  <2>1. DOMAIN s = {"ui", "calls", "cache"} /\ DOMAIN s.ui = SessionFields
    BY DEF Held, Browser
  <2>2. /\ DOMAIN t = {"ui", "calls", "cache"} /\ t.calls = s.calls /\ t.cache = s.cache /\ DOMAIN t.ui = SessionFields
        /\ t.ui.waiting = s.ui.waiting /\ t.ui.modal = s.ui.modal /\ t.ui.user = s.ui.user
    BY <2>1 DEF SessionFields
  <2> HIDE DEF t
  <2>3. Passes(s, t, sv)
    BY <2>2, Edited
  <2>4. QED BY <2>3 DEF t
<1>4. c.st = "ok" => Identified(sv)
  BY DEF Allowed
<1>5. \/ c.st = "ok" /\ UserAnswered(s, c) = Settled(setUser(s, c.got), c.gen.then)
      \/ UserAnswered(s, c) = Settled(setUser(s, NoUser), c.gen.then)
      \/ \E x : UserAnswered(s, c) = [s EXCEPT !.ui.retries = x]
      \/ UserAnswered(s, c) = Settled(s, c.gen.then)
  BY DEF UserAnswered
<1>6. QED BY <1>1, <1>2, <1>3, <1>4, <1>5

\* An edit that touches neither who it is nor what waits.
Tuned(s, t) ==
  /\ DOMAIN t = {"ui", "calls", "cache"} /\ t.calls = s.calls /\ t.cache = s.cache /\ DOMAIN t.ui = SessionFields
  /\ t.ui.waiting = s.ui.waiting /\ t.ui.modal = s.ui.modal /\ t.ui.user = s.ui.user

LEMMA TunedPasses ==
    ASSUME NEW s, NEW sv, Held(s, sv), NEW t, Tuned(s, t)
    PROVE  Passes(s, t, sv)
BY Edited DEF Tuned

LEMMA Tunes ==
    ASSUME NEW s, NEW sv, Held(s, sv)
    PROVE  /\ \A x : Passes(s, [s EXCEPT !.ui.error = x], sv)
           /\ \A x, y : Passes(s, [s EXCEPT !.ui.error = x, !.ui.busy = y], sv)
           /\ \A x, y : Passes(s, [s EXCEPT !.ui.busy = x, !.ui.error = y], sv)
           /\ \A x : Passes(s, [s EXCEPT !.ui.social = x], sv)
           /\ \A x, y : Passes(s, [s EXCEPT !.ui.social = x, !.ui.error = y], sv)
           /\ \A x : Passes(s, [s EXCEPT !.ui.page = x], sv)
           /\ \A x, y : Passes(s, [s EXCEPT !.ui.page = x, !.ui.social = y], sv)
           /\ \A x, y, z : Passes(s, [s EXCEPT !.ui.page = x, !.ui.error = y, !.ui.social = z], sv)
           /\ \A x : Passes(s, [s EXCEPT !.ui.codes = x], sv)
           /\ \A x : Passes(s, [s EXCEPT !.ui.retries = x], sv)
<1>1. DOMAIN s = {"ui", "calls", "cache"} /\ DOMAIN s.ui = SessionFields
  BY DEF Held, Browser
<1>2. \A x, y : Tuned(s, [s EXCEPT !.ui.error = x]) /\ Tuned(s, [s EXCEPT !.ui.error = x, !.ui.busy = y])
  BY <1>1 DEF Tuned, SessionFields
<1>3. \A x, y : Tuned(s, [s EXCEPT !.ui.busy = x, !.ui.error = y]) /\ Tuned(s, [s EXCEPT !.ui.social = x])
  BY <1>1 DEF Tuned, SessionFields
<1>4. \A x, y : Tuned(s, [s EXCEPT !.ui.social = x, !.ui.error = y]) /\ Tuned(s, [s EXCEPT !.ui.page = x])
  BY <1>1 DEF Tuned, SessionFields
<1>5. \A x, y : Tuned(s, [s EXCEPT !.ui.page = x, !.ui.social = y]) /\ Tuned(s, [s EXCEPT !.ui.codes = x])
  BY <1>1 DEF Tuned, SessionFields
<1>6. \A x : Tuned(s, [s EXCEPT !.ui.retries = x])
  BY <1>1 DEF Tuned, SessionFields
<1>9. ASSUME NEW x, NEW y, NEW z PROVE Tuned(s, [s EXCEPT !.ui.page = x, !.ui.error = y, !.ui.social = z])
  <2> DEFINE t == [s EXCEPT !.ui.page = x, !.ui.error = y, !.ui.social = z]
             u == s.ui
  <2>1. DOMAIN t = DOMAIN s /\ t.calls = s.calls /\ t.cache = s.cache
    BY <1>1
  <2>2. t.ui = [u EXCEPT !.page = x, !.error = y, !.social = z]
    BY <1>1
  <2>3. DOMAIN u = SessionFields
    BY <1>1
  <2> HIDE DEF t, u
  <2>4. DOMAIN t.ui = SessionFields /\ t.ui.waiting = u.waiting /\ t.ui.modal = u.modal /\ t.ui.user = u.user
    BY <2>2, <2>3 DEF SessionFields
  <2>5. Tuned(s, t)
    BY <1>1, <2>1, <2>4 DEF Tuned, u
  <2>6. QED BY <2>5 DEF t
<1>7. \A t : Tuned(s, t) => Passes(s, t, sv)
  BY TunedPasses
<1>8. QED BY <1>2, <1>3, <1>4, <1>5, <1>6, <1>7, <1>9, Zenon

LEMMA RightsKnown ==
    ASSUME NEW s, NEW sv, Held(s, sv), NEW c, Allowed(c, sv), c.op \in {"matrix", "roles"}
    PROVE  Passes(s, RightsAnswered(s, c), sv)
<1>1. Identified(sv)
  BY DEF Allowed, Guarded
<1> DEFINE d == Ask("roles", 1, c.gen.then)
<1>2. Allowed(d, sv) /\ d.op = "roles" /\ d.st = "sent"
  BY <1>1, AskFacts DEF Allowed, SessionOps, Guarded
<1> HIDE DEF d
<1>3. Passes(s, Get(s, d), sv)
  BY <1>2, Gotten
<1>4. RightsAnswered(s, c) \in {s, Get(s, d), [s EXCEPT !.ui.codes = TRUE]}
  BY DEF RightsAnswered, d
<1>5. Passes(s, [s EXCEPT !.ui.codes = TRUE], sv) /\ Passes(s, s, sv)
  BY Tunes, PassesSelf, Zenon
<1>6. QED BY <1>3, <1>4, <1>5, Zenon

\* Whatever an answer makes of the page, nobody is shown before somebody signed in, and
\* the calls that wait go on waiting.
LEMMA SessionReplied ==
    ASSUME NEW s, NEW sv, Held(s, sv), NEW c, Allowed(c, sv)
    PROVE  Passes(s, SessionReply(s, c), sv)
<1>1. CASE c.op = "me"
  BY <1>1, UserKnown DEF SessionReply
<1>2. CASE c.op = "signin"
  <2>1. SessionReply(s, c) \in {[s EXCEPT !.ui.error = TRUE, !.ui.busy = FALSE], refreshUser(s, 0, "form")}
    BY <1>2 DEF SessionReply, SignInAnswered
  <2>2. Passes(s, [s EXCEPT !.ui.error = TRUE, !.ui.busy = FALSE], sv)
    BY Tunes, Zenon
  <2>3. Passes(s, refreshUser(s, 0, "form"), sv)
    BY LookedUp
  <2>4. QED BY <2>1, <2>2, <2>3, Zenon
<1>3. CASE c.op = "register"
  <2> DEFINE d == Ask("signin", c.arg, "form")
  <2>1. SessionReply(s, c) \in {[s EXCEPT !.ui.error = TRUE], Send(s, d)}
    BY <1>3 DEF SessionReply, RegisterAnswered
  <2>2. SessionCall(d, sv) /\ d.op = "signin" /\ d.st = "sent"
    BY AskFacts DEF SessionCall, Allowed, SessionOps, Guarded
  <2> HIDE DEF d
  <2>3. Passes(s, Send(s, d), sv)
    BY <2>2, Sent
  <2>4. Passes(s, [s EXCEPT !.ui.error = TRUE], sv)
    BY Tunes, Zenon
  <2>5. QED BY <2>1, <2>3, <2>4, Zenon
<1>4. CASE c.op = "providers"
  <2>1. SessionReply(s, c) \in {[s EXCEPT !.ui.social = "window"], [s EXCEPT !.ui.social = "no", !.ui.error = TRUE]}
    BY <1>4 DEF SessionReply, SocialAsked
  <2>2. Passes(s, [s EXCEPT !.ui.social = "window"], sv) /\ Passes(s, [s EXCEPT !.ui.social = "no", !.ui.error = TRUE], sv)
    BY Tunes, Zenon
  <2>3. QED BY <2>1, <2>2, Zenon
<1>5. CASE c.op = "social"
  <2>1. CASE Shut401(c)
    <3>1. SessionReply(s, c) = [s EXCEPT !.ui.error = TRUE]
      BY <1>5, <2>1 DEF SessionReply, SocialDone
    <3>2. QED BY <3>1, Tunes
  <2>2. CASE ~Shut401(c)
    <3> DEFINE q == setUser(s, c.got.user)
    <3>1. Passes(s, q, sv)
      BY <1>5, <2>2, UserSet DEF Allowed, Shut401
    <3>2. \E x : SessionReply(s, c) = [q EXCEPT !.ui.page = x, !.ui.social = "no"]
      BY <1>5, <2>2 DEF SessionReply, SocialDone
    <3> HIDE DEF q
    <3>3. \A x : Passes(q, [q EXCEPT !.ui.page = x, !.ui.social = "no"], sv)
      BY <3>1, Tunes, Zenon DEF Passes
    <3>4. PICK x : SessionReply(s, c) = [q EXCEPT !.ui.page = x, !.ui.social = "no"]
      BY <3>2
    <3>5. Passes(q, SessionReply(s, c), sv)
      BY <3>3, <3>4, Zenon
    <3>6. QED BY <3>1, <3>5, PassesAlso
  <2>3. QED BY <2>1, <2>2
<1>6. CASE c.op \in {"matrix", "roles"}
  <2>1. SessionReply(s, c) = RightsAnswered(s, c)
    BY <1>6 DEF SessionReply
  <2>2. QED BY <1>6, <2>1, RightsKnown
<1>7. CASE c.op \notin {"me", "signin", "register", "providers", "social", "matrix", "roles"}
  <2>1. SessionReply(s, c) = s
    BY <1>7 DEF SessionReply
  <2>2. QED BY <2>1, PassesSelf
<1>8. QED BY <1>1, <1>2, <1>3, <1>4, <1>5, <1>6, <1>7

-----------------------------------------------------------------------------
\* What the user does.
LEMMA SentBehind ==
    ASSUME NEW s, NEW t, NEW sv, Passes(s, t, sv), NEW op, NEW arg, NEW then,
           op \in SessionOps \ {"refresh"}, op \in Guarded => Identified(sv)
    PROVE  Passes(s, Send(t, Ask(op, arg, then)), sv) /\ (op # "social" => Passes(s, Get(t, Ask(op, arg, then)), sv))
<1> DEFINE c == Ask(op, arg, then)
<1>1. IsCall(c) /\ c.op = op /\ c.st = "sent"
  BY AskFacts
<1> HIDE DEF c
<1>2. SessionCall(c, sv) /\ Allowed(c, sv) /\ c.op # "refresh"
  BY <1>1 DEF SessionCall, Allowed
<1>3. Passes(t, Send(t, c), sv)
  BY <1>1, <1>2, Sent DEF Passes
<1>4. op # "social" => Passes(t, Get(t, c), sv)
  BY <1>1, <1>2, Gotten DEF Passes
<1>5. QED BY <1>3, <1>4, PassesAlso DEF c

LEMMA LoggedOut ==
    ASSUME NEW s, NEW sv, Held(s, sv)
    PROVE  Passes(s, logout(s), sv)
BY UserSet, SentBehind DEF logout, SessionOps, Guarded

LEMMA SessionActed ==
    ASSUME Held(Here, srv), SessionNext
    PROVE  \E s : (Do(s) \/ Op(s)) /\ Passes(Here, s, srv)
<1>1. Passes(Here, Here, srv)
  BY PassesSelf
<1>2. CASE RetryUser
  <2>1. PICK i, g : Do(refreshUser([Here EXCEPT !.ui.retries = RemoveAt(Here.ui.retries, i)], g.try + 1, g.then))
    BY <1>2 DEF RetryUser
  <2> DEFINE t == [Here EXCEPT !.ui.retries = RemoveAt(Here.ui.retries, i)]
  <2>2. Passes(Here, t, srv)
    BY Tunes, Zenon
  <2> HIDE DEF t
  <2>3. Passes(Here, refreshUser(t, g.try + 1, g.then), srv)
    BY <2>2, LookedUp, PassesAlso DEF Passes
  <2>4. QED BY <2>1, <2>3 DEF t
<1>3. CASE openPage
  <2>1. Op(Send(Here, Ask("fetch", 1, "none"))) /\ Here.ui.user # NoUser
    BY <1>3 DEF openPage, Here
  <2>2. Identified(srv)
    BY <2>1 DEF Held
  <2>3. Passes(Here, Send(Here, Ask("fetch", 1, "none")), srv)
    BY <1>1, <2>2, SentBehind DEF SessionOps, Guarded
  <2>4. QED BY <2>1, <2>3
<1>4. CASE Leave
  <2> DEFINE t == logout(Here)
  <2>1. PICK x : Op([t EXCEPT !.ui.page = x])
    BY <1>4 DEF Leave
  <2>2. Passes(Here, t, srv)
    BY LoggedOut
  <2> HIDE DEF t
  <2>3. Passes(t, [t EXCEPT !.ui.page = x], srv)
    BY <2>2, Tunes, Zenon DEF Passes
  <2>4. QED BY <2>1, <2>2, <2>3, PassesAlso
<1>5. CASE handleLoginAgain
  <2> DEFINE t == logout(Here)
             q == [t EXCEPT !.ui.modal = FALSE, !.ui.page = "login"]
  <2>1. Op(Send(q, Ask("signout", 1, "none")))
    BY <1>5 DEF handleLoginAgain
  <2>2. Passes(Here, t, srv)
    BY LoggedOut
  <2> HIDE DEF t
  <2>3. DOMAIN t = {"ui", "calls", "cache"} /\ DOMAIN t.ui = SessionFields /\ Held(t, srv)
    BY <2>2 DEF Passes, Held, Browser
  <2>4. /\ DOMAIN q = {"ui", "calls", "cache"} /\ q.calls = t.calls /\ q.cache = t.cache /\ DOMAIN q.ui = SessionFields
        /\ q.ui.waiting = t.ui.waiting /\ q.ui.modal = FALSE /\ q.ui.user = t.ui.user
    BY <2>3 DEF SessionFields
  <2> HIDE DEF q
  <2>5. Passes(t, q, srv)
    BY <2>3, <2>4, Edited
  <2>6. Passes(Here, q, srv)
    BY <2>2, <2>5, PassesAlso
  <2>7. Passes(Here, Send(q, Ask("signout", 1, "none")), srv)
    BY <2>6, SentBehind DEF SessionOps, Guarded
  <2>8. QED BY <2>1, <2>7
<1>6. CASE handleToggle
  <2>1. PICK p : Do([Here EXCEPT !.ui.page = p, !.ui.error = FALSE, !.ui.social = "no"])
    BY <1>6 DEF handleToggle
  <2>2. Passes(Here, [Here EXCEPT !.ui.page = p, !.ui.error = FALSE, !.ui.social = "no"], srv)
    BY Tunes, Zenon
  <2>3. QED BY <2>1, <2>2
<1>7. ASSUME NEW op \in {"signin", "register"}, NEW arg, NEW then, Op(Send([Here EXCEPT !.ui.error = FALSE], Ask(op, arg, then)))
      PROVE  \E s : (Do(s) \/ Op(s)) /\ Passes(Here, s, srv)
  <2> DEFINE t == [Here EXCEPT !.ui.error = FALSE]
  <2>1. Passes(Here, t, srv)
    BY Tunes, Zenon
  <2> HIDE DEF t
  <2>2. Passes(Here, Send(t, Ask(op, arg, then)), srv)
    BY <2>1, SentBehind DEF SessionOps, Guarded
  <2>3. QED BY <1>7, <2>2 DEF t
<1>8. ASSUME Do([Here EXCEPT !.ui.error = TRUE]) PROVE \E s : (Do(s) \/ Op(s)) /\ Passes(Here, s, srv)
  <2>1. Passes(Here, [Here EXCEPT !.ui.error = TRUE], srv)
    BY Tunes, Zenon
  <2>2. QED BY <1>8, <2>1
<1>9. CASE handleSubmit
  BY <1>7, <1>8, <1>9 DEF handleSubmit
<1>10. CASE handleRegister
  BY <1>7, <1>8, <1>10 DEF handleRegister
<1>11. CASE handleSocialLogin
  <2> DEFINE t == [Here EXCEPT !.ui.social = "asking", !.ui.error = FALSE]
  <2>1. Op(Get(t, Ask("providers", 1, "none")))
    BY <1>11 DEF handleSocialLogin
  <2>2. Passes(Here, t, srv)
    BY Tunes, Zenon
  <2> HIDE DEF t
  <2>3. Passes(Here, Get(t, Ask("providers", 1, "none")), srv)
    BY <2>2, SentBehind DEF SessionOps, Guarded
  <2>4. QED BY <2>1, <2>3
<1>12. CASE PollWindow
  <2> DEFINE t == [Here EXCEPT !.ui.social = "stuck"]
  <2>1. Do([Here EXCEPT !.ui.social = "no"]) \/ Op(Send(t, Ask("social", 1, "none"))) \/ Do(t)
    BY <1>12 DEF PollWindow
  <2>2. Passes(Here, t, srv) /\ Passes(Here, [Here EXCEPT !.ui.social = "no"], srv)
    BY Tunes, Zenon
  <2> HIDE DEF t
  <2>3. Passes(Here, Send(t, Ask("social", 1, "none")), srv)
    BY <2>2, SentBehind DEF SessionOps, Guarded
  <2>4. QED BY <2>1, <2>2, <2>3
<1>13. CASE handleAdminLogin
  <2> DEFINE t == [Here EXCEPT !.ui.busy = TRUE, !.ui.error = FALSE]
  <2>1. PICK u : Op(Send(t, Ask("signin", u, "form")))
    BY <1>13 DEF handleAdminLogin
  <2>2. Passes(Here, t, srv)
    BY Tunes, Zenon
  <2> HIDE DEF t
  <2>3. Passes(Here, Send(t, Ask("signin", u, "form")), srv)
    BY <2>2, SentBehind DEF SessionOps, Guarded
  <2>4. QED BY <2>1, <2>3
<1>14. CASE RoleProtectedRoute
  <2>1. PICK x : Do([Here EXCEPT !.ui.page = x])
    BY <1>14 DEF RoleProtectedRoute
  <2>2. Passes(Here, [Here EXCEPT !.ui.page = x], srv)
    BY Tunes, Zenon
  <2>3. QED BY <2>1, <2>2
<1>15. QED BY <1>2, <1>3, <1>4, <1>5, <1>6, <1>9, <1>10, <1>11, <1>12, <1>13, <1>14 DEF SessionNext

-----------------------------------------------------------------------------
\* The interceptors.
LEMMA OthersRemain ==
    ASSUME NEW cs, cs \in Seq(ToSet(cs)), NEW i \in DOMAIN cs, NEW rs, rs = RemoveAt(cs, i)
    PROVE  \A m \in DOMAIN cs : m # i => \E j \in DOMAIN rs : rs[j] = cs[m]
<1> DEFINE D == ToSet(cs)
<1> HIDE DEF D
<1>0. cs \in Seq(D)
  BY Zenon DEF D
<1>1. cs \in Seq(D) /\ i \in 1..Len(cs) /\ DOMAIN cs = 1..Len(cs) /\ Len(cs) \in Nat
  BY <1>0
<1>2. /\ rs \in Seq(D) /\ Len(rs) = Len(cs) - 1
      /\ \A j \in 1..Len(rs) : rs[j] = cs[IF j < i THEN j ELSE j + 1]
  BY <1>1, RemoveAtFacts, Zenon
<1>3. DOMAIN rs = 1..Len(rs)
  BY <1>2
<1> SUFFICES ASSUME NEW m \in 1..Len(cs), m # i PROVE \E j \in DOMAIN rs : rs[j] = cs[m]
  BY <1>1
<1> DEFINE j == IF m < i THEN m ELSE m - 1
<1>4. j \in 1..Len(rs) /\ m = IF j < i THEN j ELSE j + 1
  BY <1>1, <1>2
<1> HIDE DEF j
<1>5. rs[j] = cs[m]
  BY <1>2, <1>4
<1>6. QED BY <1>3, <1>4, <1>5

LEMMA RefreshesRemain ==
    ASSUME NEW cs, cs \in Seq(ToSet(cs)), NEW i \in DOMAIN cs, NEW rs, rs = RemoveAt(cs, i),
           \A m, n \in Refreshes(cs) : m = n
    PROVE  /\ \A j, k \in Refreshes(rs) : j = k
           /\ cs[i].op = "refresh" => Refreshes(rs) = {}
           /\ cs[i].op # "refresh" => ((Refreshes(rs) = {}) <=> (Refreshes(cs) = {}))
<1>1. \A j, k \in DOMAIN rs : \E m, n \in DOMAIN cs : m # i /\ n # i /\ rs[j] = cs[m] /\ rs[k] = cs[n] /\ (m = n => j = k)
  BY RemainingFacts
<1>2. \A m \in DOMAIN cs : m # i => \E j \in DOMAIN rs : rs[j] = cs[m]
  BY OthersRemain
<1>3. \A j \in Refreshes(rs) : \E m \in Refreshes(cs) : m # i
  <2> SUFFICES ASSUME NEW j \in DOMAIN rs, rs[j].op = "refresh" PROVE \E m \in Refreshes(cs) : m # i
    BY DEF Refreshes
  <2>1. PICK m \in DOMAIN cs : m # i /\ rs[j] = cs[m]
    BY <1>1
  <2>2. QED BY <2>1 DEF Refreshes
<1>4. ASSUME NEW j \in Refreshes(rs), NEW k \in Refreshes(rs) PROVE j = k
  <2>1. j \in DOMAIN rs /\ k \in DOMAIN rs /\ rs[j].op = "refresh" /\ rs[k].op = "refresh"
    BY DEF Refreshes
  <2>2. PICK m \in DOMAIN cs, n \in DOMAIN cs : rs[j] = cs[m] /\ rs[k] = cs[n] /\ (m = n => j = k)
    BY <1>1, <2>1
  <2>3. m \in Refreshes(cs) /\ n \in Refreshes(cs)
    BY <2>1, <2>2 DEF Refreshes
  <2>4. QED BY <2>2, <2>3
<1>5. cs[i].op = "refresh" => Refreshes(rs) = {}
  <2>1. cs[i].op = "refresh" => i \in Refreshes(cs)
    BY DEF Refreshes
  <2>2. QED BY <1>3, <2>1
<1>6. ASSUME cs[i].op # "refresh", NEW m \in Refreshes(cs) PROVE Refreshes(rs) # {}
  <2>1. m \in DOMAIN cs /\ cs[m].op = "refresh" /\ m # i
    BY <1>6 DEF Refreshes
  <2>2. PICK j \in DOMAIN rs : rs[j] = cs[m]
    BY <1>2, <2>1
  <2>3. j \in Refreshes(rs)
    BY <2>1, <2>2 DEF Refreshes
  <2>4. QED BY <2>3
<1>7. QED BY <1>3, <1>4, <1>5, <1>6

LEMMA CacheReceived ==
    ASSUME NEW i \in DOMAIN calls
    PROVE  \A k \in DOMAIN Received(i).cache : k \in DOMAIN cache \/ (k = Key(calls[i]) /\ calls[i].st = "ok")
BY DEF Received

LEMMA SessionReceived ==
    ASSUME SessionState(Here, srv), NEW i \in DOMAIN calls
    PROVE  /\ Held(Received(i), srv) /\ Received(i).ui = ui /\ SessionCall(calls[i], srv) /\ calls[i] \in ToSet(calls)
           /\ ToSet(Received(i).calls) \subseteq ToSet(calls)
           /\ calls[i].op = "refresh" => Refreshes(Received(i).calls) = {}
           /\ calls[i].op # "refresh" => Alone(Received(i)) /\ Fruitless(Received(i), srv)
<1> DEFINE s == Received(i)
           c == calls[i]
<1>0. Here.ui = ui /\ Here.calls = calls /\ Here.cache = cache
  BY DEF Here
<1>1. Held(Here, srv) /\ Alone(Here) /\ Fruitless(Here, srv) /\ calls \in Seq(ToSet(calls)) /\ c \in ToSet(calls)
  BY <1>0 DEF SessionState, Held, Browser, ToSet
<1>2. Browser(s) /\ s.ui = ui /\ s.calls = RemoveAt(calls, i) /\ ToSet(s.calls) \subseteq ToSet(calls)
  BY <1>1, ReceivedFacts
<1>3. SessionCall(c, srv)
  BY <1>0, <1>1 DEF Held
<1>4. \A k \in DOMAIN s.cache : k \in DOMAIN cache \/ (k = Key(c) /\ c.st = "ok")
  BY CacheReceived
<1> HIDE DEF s, c
<1>5. \A k \in DOMAIN s.cache : k[1] = "me" => Identified(srv)
  <2> SUFFICES ASSUME NEW k \in DOMAIN s.cache, k[1] = "me" PROVE Identified(srv)
    OBVIOUS
  <2>1. CASE k \in DOMAIN cache
    BY <1>0, <1>1, <2>1 DEF Held
  <2>2. CASE k = Key(c) /\ c.st = "ok"
    <3>1. c.op = "me"
      BY <2>2 DEF Key
    <3>2. QED BY <1>3, <2>2, <3>1 DEF SessionCall, Allowed
  <2>3. QED BY <1>4, <2>1, <2>2
<1>6. Held(s, srv)
  BY <1>0, <1>1, <1>2, <1>5 DEF Held
<1>7. /\ \A j, k \in Refreshes(s.calls) : j = k
      /\ c.op = "refresh" => Refreshes(s.calls) = {}
      /\ c.op # "refresh" => ((Refreshes(s.calls) = {}) <=> (Refreshes(calls) = {}))
  BY <1>0, <1>1, <1>2, RefreshesRemain DEF Alone, c
<1>8. c.op # "refresh" => Alone(s)
  BY <1>0, <1>1, <1>2, <1>7 DEF Alone
<1>9. Fruitless(s, srv)
  BY <1>0, <1>1, <1>2 DEF Fruitless
<1>10. QED BY <1>1, <1>2, <1>3, <1>6, <1>7, <1>8, <1>9 DEF s, c

\* A call that waited goes out again, or is refused.
Resumed(s, c, d) == IF c.st = "ok" THEN Resent(s, d) ELSE Refused(s, d)
Released(s) == [s EXCEPT !.ui.waiting = <<>>]
\* What the recursion inside Refreshed asks of the browser states it goes through.
Resumes(f, s, c) ==
    f = [n \in 0..Len(s.ui.waiting) |-> IF n = 0 THEN [s EXCEPT !.ui.waiting = <<>>]
                                        ELSE IF c.st = "ok" THEN Resent(f[n - 1], s.ui.waiting[n])
                                        ELSE Refused(f[n - 1], s.ui.waiting[n])]

LEMMA ResumesExists ==
    ASSUME NEW s, NEW c, NEW N \in Nat, N = Len(s.ui.waiting)
    PROVE  \E f : Resumes(f, s, c)
<1> DEFINE w == s.ui.waiting
           Runs(f, n) == f = [k \in 0..n |-> f[k]] /\ f[0] = Released(s) /\ \A k \in 1..n : f[k] = Resumed(f[k - 1], c, w[k])
           Good(n) == \E f : Runs(f, n)
           Bad == {n \in 0..N : ~ Good(n)}
<1>1. Bad = {}
  <2> SUFFICES ASSUME Bad # {} PROVE FALSE
    OBVIOUS
  <2>1. PICK m \in Bad : \A k \in Bad : m <= k
    BY LeastNumber, Bad \in SUBSET Nat
  <2>2. m \in 0..N /\ ~ Good(m)
    BY <2>1
  <2>3. m # 0
    <3> DEFINE z == [i \in 0..0 |-> Released(s)]
    <3>1. z = [k \in 0..0 |-> z[k]] /\ z[0] = Released(s)
      OBVIOUS
    <3>2. Good(0)
      <4> HIDE DEF z
      <4>1. \A k \in 1..0 : FALSE
        OBVIOUS
      <4>2. Runs(z, 0)
        BY <3>1, <4>1
      <4>3. QED BY <4>2
    <3> HIDE DEF Good
    <3>3. QED BY <3>2, <2>2
  <2>4. Good(m - 1)
    <3> HIDE DEF Good
    <3>1. m - 1 \in 0..N /\ ~ (m <= m - 1)
      BY <2>2, <2>3
    <3>2. QED BY <3>1, <2>1
  <2>5. PICK f : Runs(f, m - 1)
    BY <2>4
  <2> DEFINE last == Resumed(f[m - 1], c, w[m])
             g == [i \in 0..m |-> IF i = m THEN last ELSE f[i]]
  <2>6. g[0] = Released(s) /\ \A k \in 1..m : g[k] = Resumed(g[k - 1], c, w[k])
    <3>1. \A k \in 0..(m - 1) : g[k] = f[k]
      <4>1. \A k \in 0..(m - 1) : k \in 0..m /\ k # m
        BY <2>2
      <4>2. QED BY <4>1, Zenon
    <3>2. g[m] = last
      BY <2>2
    <3> HIDE DEF g
    <3>3. g[0] = Released(s)
      BY <3>1, <2>5, <2>2, <2>3
    <3>4. ASSUME NEW k \in 1..m PROVE g[k] = Resumed(g[k - 1], c, w[k])
      <4>1. k - 1 \in 0..(m - 1) /\ (k = m \/ (k \in 1..(m - 1) /\ k \in 0..(m - 1)))
        BY <2>2
      <4>2. CASE k = m
        BY <4>1, <4>2, <3>1, <3>2, Zenon
      <4>3. CASE k \in 1..(m - 1) /\ k \in 0..(m - 1)
        BY <4>1, <4>3, <3>1, <2>5, Zenon
      <4>4. QED BY <4>1, <4>2, <4>3
    <3>5. QED BY <3>3, <3>4
  <2>7. g = [k \in 0..m |-> g[k]]
    OBVIOUS
  <2>8. Runs(g, m)
    <3> HIDE DEF g
    <3>1. QED BY <2>6, <2>7
  <2> HIDE DEF Runs
  <2>9. Good(m)
    BY <2>8
  <2> HIDE DEF Good
  <2>10. QED BY <2>9, <2>2
<1>2. Good(N)
  <2> HIDE DEF Good
  <2>1. N \in 0..N
    OBVIOUS
  <2>2. QED BY <1>1, <2>1
<1>3. PICK f : Runs(f, N)
  BY <1>2
<1>4. Resumes(f, s, c)
  <2> DEFINE h == [n \in 0..N |-> IF n = 0 THEN [s EXCEPT !.ui.waiting = <<>>]
                                  ELSE IF c.st = "ok" THEN Resent(f[n - 1], w[n]) ELSE Refused(f[n - 1], w[n])]
  <2>1. \A n \in 0..N : f[n] = h[n]
    <3> HIDE DEF Good, Bad
    <3>1. f[0] = h[0]
      BY <1>3 DEF Released
    <3>2. ASSUME NEW n \in 1..N PROVE f[n] = h[n]
      <4>1. h[n] = Resumed(f[n - 1], c, w[n])
        <5>1. n \in 0..N /\ n # 0
          OBVIOUS
        <5>2. QED BY <5>1, Zenon DEF Resumed
      <4>2. QED BY <4>1, <1>3, Zenon
    <3> HIDE DEF h
    <3>3. \A n \in 0..N : n = 0 \/ n \in 1..N
      OBVIOUS
    <3>4. QED BY <3>1, <3>2, <3>3, Zenon
  <2>2. f = h
    BY <2>1, <1>3
  <2>3. QED BY <2>2, Zenon DEF Resumes
<1>5. QED BY <1>4

LEMMA WaiterResumed ==
    ASSUME NEW s, NEW sv, Held(s, sv), NEW c, NEW d, Waiter(d, sv), c.st = "ok" \/ Over(sv) \/ d.op = "me"
    PROVE  Passes(s, Resumed(s, c, d), sv)
<1>1. IsCall(d) /\ Allowed(d, sv) /\ d.op \in Guarded \cup {"me"}
  BY DEF Waiter, Allowed
<1>2. Passes(s, Resent(s, d), sv)
  <2> DEFINE e == [d EXCEPT !.st = "sent", !.got = 0, !.gen.retried = TRUE]
  <2>1. IsCall(e) /\ e.op = d.op /\ e.st = "sent"
    BY <1>1 DEF IsCall
  <2> HIDE DEF e
  <2>2. Allowed(e, sv)
    BY <1>1, <2>1 DEF Allowed
  <2>3. Passes(s, Get(s, e), sv)
    BY <1>1, <2>1, <2>2, Gotten DEF Guarded
  <2>4. QED BY <2>3 DEF Resent, e
<1>3. ASSUME Over(sv) \/ d.op = "me" PROVE Passes(s, Refused(s, d), sv)
  <2> DEFINE t == Asked(s, d)
  <2>1. Passes(s, t, sv)
    <3>1. CASE d.op = "me"
      BY <3>1, PassesSelf DEF Asked
    <3>2. CASE d.op # "me"
      <4> DEFINE u == [s EXCEPT !.ui.modal = TRUE]
      <4>1. t = u
        BY <3>2 DEF Asked
      <4>2. DOMAIN s = {"ui", "calls", "cache"} /\ DOMAIN s.ui = SessionFields
        BY DEF Held, Browser
      <4>3. /\ DOMAIN u = {"ui", "calls", "cache"} /\ u.calls = s.calls /\ u.cache = s.cache /\ DOMAIN u.ui = SessionFields
            /\ u.ui.waiting = s.ui.waiting /\ u.ui.user = s.ui.user
        BY <4>2 DEF SessionFields
      <4> HIDE DEF u, t
      <4>4. Passes(s, u, sv)
        BY <1>3, <3>2, <4>3, Edited
      <4>5. QED BY <4>1, <4>4
    <3>3. QED BY <3>1, <3>2
  <2> HIDE DEF t
  <2>2. Passes(t, SessionReply(t, d), sv)
    BY <1>1, <2>1, SessionReplied DEF Passes
  <2>3. QED BY <2>1, <2>2, PassesAlso DEF Refused, t
<1>4. QED BY <1>2, <1>3 DEF Resumed

\* The calls that waited are all released by the refresh that came back.
LEMMA AllResumed ==
    ASSUME NEW s, NEW sv, Held(s, sv), NEW c, c.st = "ok" \/ Over(sv) \/ \A d \in ToSet(s.ui.waiting) : d.op = "me"
    PROVE  Passes(Released(s), Refreshed(s, c), sv)
<1> DEFINE w == s.ui.waiting
           N == Len(w)
           after == CHOOSE f : Resumes(f, s, c)
<1>1. N \in Nat /\ \A n \in 1..N : w[n] \in ToSet(w)
  BY DEF Held, ToSet
<1>2. Resumes(after, s, c)
  BY <1>1, ResumesExists
<1>3. Refreshed(s, c) = after[N]
  BY DEF Refreshed, Resumes
<1>4. /\ after[0] = Released(s)
      /\ \A n \in 1..N : after[n] = Resumed(after[n - 1], c, w[n])
  <2> HIDE DEF after
  <2>1. \A n \in 0..N : after[n] = IF n = 0 THEN [s EXCEPT !.ui.waiting = <<>>]
                                   ELSE IF c.st = "ok" THEN Resent(after[n - 1], w[n]) ELSE Refused(after[n - 1], w[n])
    BY <1>2, Zenon DEF Resumes
  <2>2. 0 \in 0..N /\ \A n \in 1..N : n \in 0..N /\ n # 0
    BY <1>1
  <2>3. QED BY <2>1, <2>2, Zenon DEF Released, Resumed
<1>5. Held(Released(s), sv)
  <2> DEFINE r == Released(s)
  <2>1. DOMAIN s = {"ui", "calls", "cache"} /\ DOMAIN s.ui = SessionFields
    BY DEF Held, Browser
  <2>2. /\ DOMAIN r = {"ui", "calls", "cache"} /\ r.calls = s.calls /\ r.cache = s.cache /\ DOMAIN r.ui = SessionFields
        /\ r.ui.waiting = <<>> /\ r.ui.user = s.ui.user /\ r.ui.modal = s.ui.modal
    BY <2>1 DEF SessionFields, Released
  <2> HIDE DEF r
  <2>3. <<>> \in Seq(ToSet(<<>>)) /\ ToSet(<<>>) = {}
    BY DEF ToSet
  <2> DEFINE W == r.ui.waiting
  <2>4. W \in Seq(ToSet(W)) /\ \A d \in ToSet(W) : Waiter(d, sv)
    BY <2>2, <2>3
  <2> HIDE DEF W
  <2>5. Browser(r) /\ (r.ui.modal => Over(sv)) /\ (r.ui.user # NoUser => Identified(sv))
    BY <2>2 DEF Held, Browser
  <2>6. /\ \A d \in ToSet(r.calls) : SessionCall(d, sv)
        /\ \A k \in DOMAIN r.cache : k[1] = "me" => Identified(sv)
    BY <2>2 DEF Held
  <2>7. DOMAIN r.ui = SessionFields
    BY <2>2
  <2>8. Held(r, sv)
    BY <2>4, <2>5, <2>6, <2>7 DEF Held, W
  <2>9. QED BY <2>8 DEF r
<1> HIDE DEF after
<1> DEFINE Fine(n) == Passes(Released(s), after[n], sv)
           Bad == {n \in 0..N : ~ Fine(n)}
<1>6. Bad = {}
  <2> SUFFICES ASSUME Bad # {} PROVE FALSE
    OBVIOUS
  <2>1. PICK m \in Bad : \A k \in Bad : m <= k
    BY LeastNumber, Bad \in SUBSET Nat
  <2>2. m \in 0..N /\ ~ Fine(m)
    BY <2>1
  <2>3. Fine(0)
    BY <1>4, <1>5, PassesSelf
  <2> HIDE DEF Fine
  <2>4. m # 0
    BY <2>2, <2>3
  <2>5. m \in 1..N /\ m - 1 \in 0..N /\ ~ (m <= m - 1)
    BY <2>2, <2>4, <1>1
  <2>6. Fine(m - 1)
    BY <2>1, <2>5
  <2>7. Waiter(w[m], sv) /\ (c.st = "ok" \/ Over(sv) \/ w[m].op = "me")
    BY <1>1, <2>5 DEF Held
  <2>8. Passes(after[m - 1], Resumed(after[m - 1], c, w[m]), sv)
    BY <2>6, <2>7, WaiterResumed DEF Fine, Passes
  <2>9. Passes(Released(s), Resumed(after[m - 1], c, w[m]), sv)
    BY <2>6, <2>8, PassesAlso DEF Fine
  <2>10. after[m] = Resumed(after[m - 1], c, w[m])
    BY <1>4, <2>5
  <2>11. QED BY <2>2, <2>9, <2>10 DEF Fine
<1>7. Fine(N)
  <2> HIDE DEF Fine
  <2>1. N \in 0..N
    BY <1>1
  <2>2. QED BY <1>6, <2>1
<1>8. QED BY <1>3, <1>7

\* The first call that is refused sends the refresh, and the others wait with it.
LEMMA JoinsWaiters ==
    ASSUME SessionState(Here, srv), NEW s, SessionState(s, srv), ToSet(s.calls) \subseteq ToSet(calls), s.ui.waiting = ui.waiting,
           NEW c \in ToSet(calls), c.op # "refresh", Waiter(c, srv)
    PROVE  SessionState(Unauthorised(s, c), srv)
<1> DEFINE w == s.ui.waiting
           t == [s EXCEPT !.ui.waiting = Append(w, c)]
           v == Append(w, c)
           D == ToSet(w) \cup {c}
<1>1. Held(s, srv) /\ Alone(s) /\ Fruitless(s, srv) /\ Server(srv) /\ Browser(s) /\ DOMAIN s.ui = SessionFields
  BY DEF SessionState, Held
<1>2. v \in Seq(ToSet(v)) /\ ToSet(v) = D /\ v # <<>>
  <2> HIDE DEF w
  <2>1. w \in Seq(ToSet(w))
    BY <1>1 DEF Held, w
  <2>2. w \in Seq(D) /\ c \in D
    BY <2>1
  <2> HIDE DEF D
  <2>3. Append(w, c) \in Seq(D) /\ ToSet(Append(w, c)) = ToSet(w) \cup {c}
    BY <2>2, AppendFacts
  <2>4. ToSet(Append(w, c)) = D
    BY <2>3 DEF D
  <2>5. Append(w, c) # <<>>
    BY <2>1
  <2>6. QED BY <2>3, <2>4, <2>5
<1>3. /\ DOMAIN t = {"ui", "calls", "cache"} /\ t.calls = s.calls /\ t.cache = s.cache /\ DOMAIN t.ui = SessionFields
      /\ t.ui.waiting = v /\ t.ui.user = s.ui.user /\ t.ui.modal = s.ui.modal
  BY <1>1 DEF SessionFields, Browser
<1>4. Unauthorised(s, c) = IF w = <<>> THEN Send(t, Call("refresh", 1)) ELSE t
  BY DEF Unauthorised
<1> HIDE DEF t, v
<1>5. \A d \in ToSet(v) : d = c \/ d \in ToSet(w)
  BY <1>2
<1>6. Held(t, srv)
  <2>1. \A d \in ToSet(v) : Waiter(d, srv)
    BY <1>1, <1>5 DEF Held
  <2>2. Browser(t) /\ (t.ui.modal => Over(srv)) /\ (t.ui.user # NoUser => Identified(srv))
    BY <1>1, <1>3 DEF Held, Browser
  <2>3. /\ \A d \in ToSet(t.calls) : SessionCall(d, srv)
        /\ \A k \in DOMAIN t.cache : k[1] = "me" => Identified(srv)
    BY <1>1, <1>3 DEF Held
  <2>4. t.ui.waiting \in Seq(ToSet(t.ui.waiting)) /\ (\A d \in ToSet(t.ui.waiting) : Waiter(d, srv)) /\ DOMAIN t.ui = SessionFields
    BY <1>2, <1>3, <2>1
  <2>5. QED BY <2>2, <2>3, <2>4 DEF Held
<1>7. \/ \A d \in ToSet(calls) : d.op = "refresh" => d.st \in {"sent", "ok"}
      \/ Over(srv)
      \/ /\ srv.who # NoUser => srv.access
         /\ \A d \in ToSet(calls) : d.op \in Guarded => d.st # "401"
         /\ \A d \in ToSet(ui.waiting) : d.op = "me"
  BY DEF SessionState, Fruitless, Here
<1>8. c.st = "401" /\ c.op \in Guarded \cup {"me"}
  BY DEF Waiter
<1>9. ASSUME NEW x, x.ui.waiting = v, \A d \in ToSet(x.calls) : d \in ToSet(calls) \/ (d.op = "refresh" /\ d.st = "sent")
      PROVE  Fruitless(x, srv)
  <2>1. CASE \A d \in ToSet(calls) : d.op = "refresh" => d.st \in {"sent", "ok"}
    BY <1>9, <2>1 DEF Fruitless
  <2>2. CASE Over(srv)
    BY <2>2 DEF Fruitless
  <2>3. CASE /\ srv.who # NoUser => srv.access
             /\ \A d \in ToSet(calls) : d.op \in Guarded => d.st # "401"
             /\ \A d \in ToSet(ui.waiting) : d.op = "me"
    <3>1. c.op = "me"
      BY <1>8, <2>3
    <3>2. \A d \in ToSet(x.ui.waiting) : d.op = "me"
      BY <1>5, <1>9, <2>3, <3>1
    <3>3. \A d \in ToSet(x.calls) : d.op \in Guarded => d.st # "401"
      BY <1>9, <2>3
    <3>4. QED BY <2>3, <3>2, <3>3 DEF Fruitless
  <2>4. QED BY <1>7, <2>1, <2>2, <2>3
<1>10. CASE w = <<>>
  <2> DEFINE r == Call("refresh", 1)
             x == Send(t, r)
  <2>1. IsCall(r) /\ r.op = "refresh" /\ r.st = "sent"
    BY CallFacts
  <2> HIDE DEF r
  <2>2. /\ Browser(x) /\ x.ui = t.ui /\ x.cache = t.cache /\ x.calls = Append(t.calls, r)
        /\ ToSet(x.calls) = ToSet(t.calls) \cup {r}
    BY <1>6, SendFacts DEF Held
  <2> HIDE DEF x
  <2>3. SessionCall(r, srv)
    BY <2>1 DEF SessionCall, Allowed, SessionOps, Guarded
  <2>4. Held(x, srv)
    BY <1>6, <2>2, <2>3 DEF Held
  <2>5. Refreshes(t.calls) = {}
    BY <1>1, <1>3, <1>10 DEF Alone
  <2>6. Refreshes(x.calls) = {Len(t.calls) + 1}
    BY <1>6, <2>1, <2>2, <2>5, RefreshesAppended DEF Held, Browser
  <2>7. Alone(x)
    BY <1>2, <1>3, <2>2, <2>6 DEF Alone
  <2>8. Fruitless(x, srv)
    BY <1>3, <1>9, <2>1, <2>2
  <2>9. QED BY <1>1, <1>4, <1>10, <2>4, <2>7, <2>8 DEF SessionState, x, r
<1>11. CASE w # <<>>
  <2>1. Alone(t)
    BY <1>1, <1>2, <1>3, <1>11 DEF Alone
  <2>2. Fruitless(t, srv)
    BY <1>3, <1>9
  <2>3. QED BY <1>1, <1>4, <1>6, <1>11, <2>1, <2>2 DEF SessionState
<1>12. QED BY <1>10, <1>11

LEMMA SessionAnswered ==
    ASSUME SessionState(Here, srv), NEW i \in DOMAIN calls, calls[i].st # "sent"
    PROVE  SessionState(Intercepted(Received(i), calls[i]), srv)
<1> DEFINE s == Received(i)
           c == calls[i]
<1>1. /\ Held(s, srv) /\ s.ui = ui /\ SessionCall(c, srv) /\ c \in ToSet(calls)
      /\ ToSet(s.calls) \subseteq ToSet(calls)
      /\ c.op = "refresh" => Refreshes(s.calls) = {}
      /\ c.op # "refresh" => Alone(s) /\ Fruitless(s, srv)
  BY SessionReceived
<1>2. Server(srv) /\ Fruitless(Here, srv) /\ Here.ui = ui /\ Here.calls = calls
  BY DEF SessionState, Here
<1>3. Allowed(c, srv) /\ IsCall(c)
  BY <1>1 DEF SessionCall, Allowed
<1> HIDE DEF s, c
<1>4. CASE c.op = "refresh"
  <2> DEFINE r == Released(s)
  <2>1. c.st = "ok" \/ Over(srv) \/ \A d \in ToSet(s.ui.waiting) : d.op = "me"
    BY <1>1, <1>2, <1>4 DEF Fruitless, c
  <2>2. Passes(r, Refreshed(s, c), srv)
    BY <1>1, <2>1, AllResumed
  <2>3. DOMAIN s = {"ui", "calls", "cache"} /\ DOMAIN s.ui = SessionFields
    BY <1>1 DEF Held, Browser
  <2>4. r.calls = s.calls /\ r.ui.waiting = <<>>
    BY <2>3 DEF Released, SessionFields
  <2> HIDE DEF r
  <2>5. Refreshes(Refreshed(s, c).calls) = {} /\ Refreshed(s, c).ui.waiting = <<>> /\ Held(Refreshed(s, c), srv)
    BY <1>1, <1>4, <2>2, <2>4 DEF Passes, Undisturbed
  <2> DEFINE x == Refreshed(s, c)
  <2> HIDE DEF x
  <2>6. \A d \in ToSet(x.calls) : d.op # "refresh"
    <3> SUFFICES ASSUME NEW d \in ToSet(x.calls), d.op = "refresh" PROVE FALSE
      OBVIOUS
    <3>1. PICK j \in DOMAIN x.calls : x.calls[j] = d
      BY DEF ToSet
    <3>2. j \in Refreshes(x.calls)
      BY <3>1 DEF Refreshes
    <3>3. QED BY <2>5, <3>2 DEF x
  <2>7. Alone(x) /\ Fruitless(x, srv)
    BY <2>5, <2>6 DEF Alone, Fruitless, x
  <2>8. SessionState(x, srv)
    BY <1>2, <2>5, <2>7 DEF SessionState, x
  <2>9. Intercepted(s, c) = x
    BY <1>4 DEF Intercepted, x
  <2>10. QED BY <2>8, <2>9 DEF s, c
<1>5. CASE c.op # "refresh"
  <2>1. SessionState(s, srv)
    BY <1>1, <1>2, <1>5 DEF SessionState
  <2>2. CASE c.st = "reauth"
    <3> DEFINE t == [s EXCEPT !.ui.modal = TRUE]
               d == [c EXCEPT !.st = "401"]
    <3>1. Over(srv)
      BY <1>1, <2>2 DEF SessionCall, Over
    <3>2. DOMAIN s = {"ui", "calls", "cache"} /\ DOMAIN s.ui = SessionFields
      BY <1>1 DEF Held, Browser
    <3>3. /\ DOMAIN t = {"ui", "calls", "cache"} /\ t.calls = s.calls /\ t.cache = s.cache /\ DOMAIN t.ui = SessionFields
          /\ t.ui.waiting = s.ui.waiting /\ t.ui.user = s.ui.user
      BY <3>2 DEF SessionFields
    <3>4. IsCall(d) /\ d.op = c.op /\ d.st = "401"
      BY <1>3 DEF IsCall
    <3>5. Intercepted(s, c) = SessionReply(t, d)
      BY <1>5, <2>2 DEF Intercepted
    <3> HIDE DEF t, d
    <3>6. Passes(s, t, srv)
      BY <1>1, <3>1, <3>3, Edited
    <3>7. Allowed(d, srv)
      BY <1>3, <3>4 DEF Allowed
    <3>8. Passes(t, SessionReply(t, d), srv)
      BY <3>6, <3>7, SessionReplied DEF Passes
    <3>9. Passes(s, SessionReply(t, d), srv)
      BY <3>6, <3>8, PassesAlso
    <3>10. QED BY <2>1, <3>5, <3>9, QuietSession DEF s, c
  <2>3. CASE c.st = "401" /\ ~c.gen.retried /\ c.op \notin AuthEndpoints
    <3>1. Waiter(c, srv)
      BY <1>1, <1>3, <2>3 DEF Waiter, SessionCall, AuthEndpoints
    <3>2. SessionState(Unauthorised(s, c), srv)
      BY <1>1, <1>5, <2>1, <3>1, JoinsWaiters
    <3>3. Intercepted(s, c) = Unauthorised(s, c)
      BY <1>5, <2>3 DEF Intercepted
    <3>4. QED BY <3>2, <3>3 DEF s, c
  <2>4. CASE c.st # "reauth" /\ ~ (c.st = "401" /\ ~c.gen.retried /\ c.op \notin AuthEndpoints)
    <3>1. Intercepted(s, c) = SessionReply(s, c)
      BY <1>5, <2>4 DEF Intercepted
    <3>2. Passes(s, SessionReply(s, c), srv)
      BY <1>1, <1>3, SessionReplied
    <3>3. QED BY <2>1, <3>1, <3>2, QuietSession DEF s, c
  <2>5. QED BY <2>2, <2>3, <2>4
<1>6. QED BY <1>4, <1>5

-----------------------------------------------------------------------------
\* What the server does: who was known stays known, and what has ended has ended.
Grows(sv, tv) == Server(tv) /\ (Identified(sv) => Identified(tv)) /\ (sv.ended => tv.ended) /\ (Over(sv) => Over(tv))

LEMMA AfterGrows ==
    ASSUME Server(srv), NEW c
    PROVE  /\ Grows(srv, SessionAfter(c)) /\ Grows(srv, Lost(c, srv)) /\ Grows(srv, Lost(c, SessionAfter(c)))
           /\ c.op = "refresh" => Over(Lost(c, srv)) /\ Over(Lost(c, SessionAfter(c)))
           /\ c.op # "refresh" => Lost(c, srv) = srv /\ Lost(c, SessionAfter(c)) = SessionAfter(c)
           /\ c.op = "social" => Identified(SessionAfter(c))
           /\ c.op # "refresh" => SessionAfter(c) = srv \/ SessionAfter(c).access \/ SessionAfter(c).ended
<1> DEFINE t == SessionAfter(c)
<1>1. ASSUME NEW u \in Users, NEW v, v = [SignedIn(u) EXCEPT !.ended = srv.ended, !.lost = srv.lost]
      PROVE  Grows(srv, v) /\ v.access /\ Identified(v)
  <2>1. /\ DOMAIN v = {"who", "access", "refresh", "rotated", "ended", "lost"}
        /\ v.who = u /\ v.access /\ v.refresh /\ ~v.rotated /\ v.ended = srv.ended /\ v.lost = srv.lost
    BY <1>1 DEF SignedIn, NoSession
  <2>2. u # NoUser
    BY SessionAssumption
  <2>3. QED BY <2>1, <2>2 DEF Grows, Server, Identified, Over
<1>2. ASSUME NEW v, v = [NoSession EXCEPT !.ended = TRUE, !.lost = srv.lost]
      PROVE  Grows(srv, v) /\ v.ended
  BY <1>2 DEF NoSession, Grows, Server, Identified, Over
<1>3. ASSUME NEW v, v = [srv EXCEPT !.access = TRUE], srv.refresh
      PROVE  Grows(srv, v)
  BY <1>3 DEF Grows, Server, Identified, Over
<1>4. Grows(srv, srv)
  BY DEF Grows
<1>5. (CHOOSE u \in Users : TRUE) \in Users
  BY SessionAssumption
<1>6. \/ c.op \in {"signin", "social"} /\ \E u \in Users : t = [SignedIn(u) EXCEPT !.ended = srv.ended, !.lost = srv.lost]
      \/ c.op = "signout" /\ t = [NoSession EXCEPT !.ended = TRUE, !.lost = srv.lost]
      \/ c.op = "refresh" /\ srv.refresh /\ t = [srv EXCEPT !.access = TRUE]
      \/ c.op # "social" /\ t = srv
  BY <1>5 DEF SessionAfter
<1> HIDE DEF t
<1>7. /\ Grows(srv, t)
      /\ c.op = "social" => Identified(t)
      /\ c.op # "refresh" => t = srv \/ t.access \/ t.ended
  BY <1>1, <1>2, <1>3, <1>4, <1>6
<1>8. ASSUME NEW s, Grows(srv, s), NEW v, v = [s EXCEPT !.lost = TRUE]
      PROVE  Grows(srv, v) /\ Over(v)
  BY <1>8 DEF Grows, Server, Identified, Over
<1>9. Grows(srv, [srv EXCEPT !.lost = TRUE]) /\ Over([srv EXCEPT !.lost = TRUE])
  BY <1>4, <1>8
<1>10. Grows(srv, [t EXCEPT !.lost = TRUE]) /\ Over([t EXCEPT !.lost = TRUE])
  BY <1>7, <1>8
<1>11. QED BY <1>4, <1>7, <1>9, <1>10 DEF Lost, t

LEMMA CallGrows ==
    ASSUME NEW sv, NEW tv, Grows(sv, tv), NEW c
    PROVE  (SessionCall(c, sv) => SessionCall(c, tv)) /\ (Waiter(c, sv) => Waiter(c, tv))
BY DEF Grows, SessionCall, Waiter, Allowed

\* How the server answers a call.
LEMMA SessionServes ==
    ASSUME NEW i \in DOMAIN calls, Serve(i), SignedPages, calls[i].op \in SessionOps
    PROVE  \/ SessionStatus(calls[i]) # "ok" /\ srv' = srv /\ Answer(i, SessionStatus(calls[i]), 0)
           \/ SessionStatus(calls[i]) = "ok" /\ srv' = SessionAfter(calls[i]) /\ \E a : Answer(i, "ok", a)
           \/ srv' \in {Lost(calls[i], srv), Lost(calls[i], SessionAfter(calls[i]))} /\ Answer(i, "no", 0)
<1> DEFINE c == calls[i]
<1>1. Refuses(c) <=> SessionStatus(c) # "ok"
  BY DEF Refuses, SignedPages, AccountPages
<1>2. After(c) = SessionAfter(c) /\ Refusal(c) = SessionStatus(c)
  BY DEF After, Refusal, SignedPages, AccountPages
<1>3. c.op \notin NeedsSession
  BY DEF NeedsSession, SessionOps, Guarded
<1>4. \/ Refuses(c) /\ Answer(i, Refusal(c), 0) /\ srv' = srv
      \/ ~Refuses(c) /\ srv' = After(c) /\ \E a : Answer(i, "ok", a)
      \/ srv' \in {Lost(c, srv), Lost(c, After(c))} /\ Answer(i, "no", 0)
  BY <1>3 DEF Serve
<1> HIDE DEF c
<1>5. QED BY <1>1, <1>2, <1>4 DEF c

LEMMA AnswerFacts ==
    ASSUME NEW i \in DOMAIN calls, IsCall(calls[i]), NEW st, NEW got, Answer(i, st, got)
    PROVE  calls'[i].st = st
<1> DEFINE c == calls[i]
           d == [[c EXCEPT !.st = st] EXCEPT !.got = got]
<1>1. calls'[i] = d
  BY DEF Answer
<1> HIDE DEF c
<1>2. DOMAIN c = {"op", "arg", "gen", "st", "got"}
  BY DEF IsCall, c
<1>3. d.st = st
  BY <1>2
<1>4. QED BY <1>1, <1>3

LEMMA SessionServed ==
    ASSUME SessionState(Here, srv), SignedPages, NEW i \in DOMAIN calls, Serve(i)
    PROVE  SessionState(Here, srv)'
<1> DEFINE c == calls[i]
           d == calls'[i]
<1>1. /\ Server(srv) /\ Held(Here, srv) /\ Alone(Here) /\ Fruitless(Here, srv)
      /\ Here.ui = ui /\ Here.calls = calls /\ Here.cache = cache
  BY DEF SessionState, Here
<1>2. /\ calls \in Seq(ToSet(calls)) /\ (\A x \in ToSet(calls) : SessionCall(x, srv) /\ IsCall(x))
      /\ c \in ToSet(calls) /\ SessionCall(c, srv) /\ IsCall(c) /\ c.op \in SessionOps
  BY <1>1 DEF Held, Browser, SessionCall, Allowed, ToSet
<1>3. /\ ui' = ui /\ c.st = "sent" /\ DOMAIN calls' = DOMAIN calls
      /\ \A j \in DOMAIN calls : j # i => calls'[j] = calls[j]
      /\ Alike(c, d) /\ calls' \in Seq(ToSet(calls'))
      /\ \A x \in ToSet(calls') : x \in ToSet(calls) \/ x = d
  BY <1>2, ServeFacts
<1>4. cache' = cache
  BY DEF Serve
<1>5. \/ SessionStatus(c) # "ok" /\ srv' = srv /\ d.st = SessionStatus(c)
      \/ SessionStatus(c) = "ok" /\ srv' = SessionAfter(c) /\ d.st = "ok"
      \/ srv' \in {Lost(c, srv), Lost(c, SessionAfter(c))} /\ d.st = "no"
  BY <1>2, SessionServes, AnswerFacts
<1>6. /\ Grows(srv, srv) /\ Grows(srv, SessionAfter(c)) /\ Grows(srv, Lost(c, srv)) /\ Grows(srv, Lost(c, SessionAfter(c)))
      /\ c.op = "refresh" => Over(Lost(c, srv)) /\ Over(Lost(c, SessionAfter(c)))
      /\ c.op # "refresh" => Lost(c, srv) = srv /\ Lost(c, SessionAfter(c)) = SessionAfter(c)
      /\ c.op = "social" => Identified(SessionAfter(c))
      /\ c.op # "refresh" => SessionAfter(c) = srv \/ SessionAfter(c).access \/ SessionAfter(c).ended
  BY <1>1, AfterGrows DEF Grows
<1>7. d.op = c.op /\ IsCall(d)
  BY <1>3 DEF Alike
<1> HIDE DEF c, d
<1>8. Grows(srv, srv')
  BY <1>5, <1>6
<1>9. SessionCall(d, srv')
  <2>1. c.op \in Guarded => Identified(srv')
    BY <1>2, <1>8 DEF SessionCall, Allowed, Grows
  <2>2. CASE SessionStatus(c) # "ok" /\ srv' = srv /\ d.st = SessionStatus(c)
    <3>1. d.st \in {"401", "no", "reauth"}
      BY <2>2 DEF SessionStatus, Admitted
    <3>2. d.st = "reauth" => srv.ended
      BY <1>1, <2>2 DEF SessionStatus, Admitted, Server
    <3>3. d.st = "401" => c.op \in Guarded \cup {"me", "signin"}
      BY <1>2, <2>2 DEF SessionStatus, Admitted, SessionOps
    <3>4. QED BY <1>2, <1>7, <2>1, <2>2, <3>1, <3>2, <3>3 DEF SessionCall, Allowed
  <2>3. CASE SessionStatus(c) = "ok" /\ srv' = SessionAfter(c) /\ d.st = "ok"
    <3>1. c.op = "me" => Identified(srv)
      BY <1>1, <2>3 DEF SessionStatus, Admitted, Server, Identified
    <3>2. c.op \in {"me", "social"} => Identified(srv')
      BY <1>6, <1>8, <2>3, <3>1 DEF Grows
    <3>3. QED BY <1>2, <1>7, <2>1, <2>3, <3>2 DEF SessionCall, Allowed
  <2>4. CASE d.st = "no"
    BY <1>2, <1>7, <2>1, <2>4 DEF SessionCall, Allowed
  <2>5. QED BY <1>5, <2>2, <2>3, <2>4
<1> DEFINE t == [ui |-> ui, calls |-> calls', cache |-> cache]
<1>10. t.ui = ui /\ t.calls = calls' /\ t.cache = cache /\ DOMAIN t = {"ui", "calls", "cache"}
  OBVIOUS
<1>11. t = Here'
  BY <1>3, <1>4 DEF Here
<1> HIDE DEF t
<1>12. Held(t, srv')
  <2>1. \A x \in ToSet(t.calls) : SessionCall(x, srv')
    BY <1>2, <1>3, <1>8, <1>9, <1>10, CallGrows
  <2>2. \A x \in ToSet(t.ui.waiting) : Waiter(x, srv')
    BY <1>1, <1>8, <1>10, CallGrows DEF Held
  <2>3. /\ t.ui.modal => Over(srv')
        /\ t.ui.user # NoUser => Identified(srv')
        /\ \A k \in DOMAIN t.cache : k[1] = "me" => Identified(srv')
    BY <1>1, <1>8, <1>10 DEF Held, Grows
  <2>4. Browser(t) /\ DOMAIN t.ui = SessionFields /\ t.ui.waiting \in Seq(ToSet(t.ui.waiting))
    BY <1>1, <1>3, <1>10 DEF Held, Browser
  <2>5. QED BY <2>1, <2>2, <2>3, <2>4 DEF Held
<1>13. Refreshes(t.calls) = Refreshes(calls)
  <2>1. \A j \in DOMAIN calls : calls'[j].op = calls[j].op
    BY <1>3, <1>7 DEF c, d
  <2>2. QED BY <1>3, <1>10, <2>1 DEF Refreshes
<1>14. Alone(t)
  BY <1>1, <1>10, <1>13 DEF Alone
<1>15. Fruitless(t, srv')
  <2>1. \/ \A x \in ToSet(calls) : x.op = "refresh" => x.st \in {"sent", "ok"}
        \/ Over(srv)
        \/ /\ srv.who # NoUser => srv.access
           /\ \A x \in ToSet(calls) : x.op \in Guarded => x.st # "401"
           /\ \A x \in ToSet(ui.waiting) : x.op = "me"
    BY <1>1 DEF Fruitless
  <2>2. ASSUME Over(srv) PROVE Fruitless(t, srv')
    BY <1>8, <2>2 DEF Fruitless, Grows
  <2>3. CASE c.op = "refresh"
    <3>1. CASE d.st = "ok"
      <4>1. \A x \in ToSet(calls') : x.op = "refresh" => x.st \in {"sent", "ok"}
        <5> SUFFICES ASSUME NEW x \in ToSet(calls'), x.op = "refresh" PROVE x = d
          BY <3>1
        <5>1. PICK j \in DOMAIN calls' : x = calls'[j]
          BY DEF ToSet
        <5>2. calls[j].op = "refresh" /\ j \in DOMAIN calls
          BY <1>3, <1>7, <2>3, <5>1 DEF c, d
        <5>3. j = i
          BY <1>1, <2>3, <5>2 DEF Alone, Refreshes, c
        <5>4. QED BY <5>1, <5>3 DEF d
      <4>2. QED BY <1>10, <4>1 DEF Fruitless
    <3>2. CASE srv' \in {Lost(c, srv), Lost(c, SessionAfter(c))}
      <4>1. Over(srv')
        BY <1>6, <2>3, <3>2
      <4>2. QED BY <4>1 DEF Fruitless
    <3>3. CASE SessionStatus(c) # "ok" /\ srv' = srv /\ d.st = SessionStatus(c)
      <4>1. ~srv.refresh \/ srv.rotated
        BY <2>3, <3>3 DEF SessionStatus
      <4>2. srv.who = NoUser \/ srv.ended
        BY <1>1, <4>1 DEF Server
      <4>3. CASE srv.ended
        BY <2>2, <4>3 DEF Over
      <4>4. CASE ~srv.ended
        <5>1. ~Identified(srv) /\ srv.who = NoUser
          BY <4>2, <4>4 DEF Identified
        <5>2. \A x \in ToSet(calls') : x.op \notin Guarded
          BY <1>2, <1>3, <1>7, <2>3, <5>1 DEF SessionCall, Allowed, Guarded
        <5>3. \A x \in ToSet(ui.waiting) : x.op = "me"
          BY <1>1, <5>1 DEF Held, Waiter, Allowed
        <5>4. QED BY <1>10, <3>3, <5>1, <5>2, <5>3 DEF Fruitless
      <4>5. QED BY <4>3, <4>4
    <3>4. QED BY <1>5, <3>1, <3>2, <3>3
  <2>4. CASE c.op # "refresh"
    <3>1. CASE \A x \in ToSet(calls) : x.op = "refresh" => x.st \in {"sent", "ok"}
      <4>1. \A x \in ToSet(calls') : x.op = "refresh" => x.st \in {"sent", "ok"}
        BY <1>3, <1>7, <2>4, <3>1
      <4>2. QED BY <1>10, <4>1 DEF Fruitless
    <3>2. CASE /\ ~ Over(srv) /\ ~ Over(srv')
               /\ srv.who # NoUser => srv.access
               /\ \A x \in ToSet(calls) : x.op \in Guarded => x.st # "401"
               /\ \A x \in ToSet(ui.waiting) : x.op = "me"
      <4>1. srv' = srv \/ srv'.access
        BY <1>5, <1>6, <2>4, <3>2 DEF Over
      <4>2. srv'.who # NoUser => srv'.access
        BY <3>2, <4>1
      <4>3. c.op \in Guarded => d.st # "401"
        <5> SUFFICES ASSUME c.op \in Guarded, d.st = "401" PROVE FALSE
          OBVIOUS
        <5>1. SessionStatus(c) = "401" /\ ~srv.access
          BY <1>5 DEF SessionStatus, Admitted, Guarded
        <5>2. Identified(srv)
          BY <1>2 DEF SessionCall, Allowed
        <5>3. QED BY <3>2, <5>1, <5>2 DEF Identified, Over
      <4>4. \A x \in ToSet(calls') : x.op \in Guarded => x.st # "401"
        BY <1>3, <1>7, <3>2, <4>3
      <4>5. QED BY <1>10, <3>2, <4>2, <4>4 DEF Fruitless
    <3>3. CASE Over(srv')
      BY <3>3 DEF Fruitless
    <3>4. QED BY <2>1, <2>2, <3>1, <3>2, <3>3
  <2>5. QED BY <2>3, <2>4
<1>16. Server(srv')
  BY <1>8 DEF Grows
<1>17. SessionState(t, srv')
  BY <1>12, <1>14, <1>15, <1>16 DEF SessionState
<1>18. QED BY <1>11, <1>17

\* The session ends, or its access runs out while nothing waits.
LEMMA ServerActs ==
    ASSUME NEW s, NEW sv, SessionState(s, sv), NEW tv, Grows(sv, tv), tv = sv \/ Over(tv) \/ Refreshes(s.calls) = {}
    PROVE  SessionState(s, tv)
<1>1. Server(tv) /\ Held(s, sv) /\ Alone(s) /\ Fruitless(s, sv)
  BY DEF SessionState, Grows
<1>2. Held(s, tv)
  <2>1. (\A c \in ToSet(s.calls) : SessionCall(c, tv)) /\ (\A c \in ToSet(s.ui.waiting) : Waiter(c, tv))
    BY <1>1, CallGrows DEF Held
  <2>2. QED BY <1>1, <2>1 DEF Held, Grows
<1>3. CASE tv = sv
  BY <1>3
<1>4. CASE Over(tv)
  BY <1>1, <1>2, <1>4 DEF SessionState, Fruitless
<1>5. CASE Refreshes(s.calls) = {}
  <2>1. \A c \in ToSet(s.calls) : c.op # "refresh"
    BY <1>5 DEF Refreshes, ToSet
  <2>2. QED BY <1>1, <1>2, <2>1 DEF SessionState, Fruitless
<1>6. QED BY <1>3, <1>4, <1>5

LEMMA OthersActed ==
    ASSUME SessionState(Here, srv), SessionActs, UNCHANGED <<ui, calls, cache>>
    PROVE  SessionState(Here, srv)'
<1>1. Server(srv) /\ Alone(Here) /\ Here.ui = ui /\ Here.calls = calls /\ Here' = Here
  BY DEF SessionState, Here
<1>2. CASE srv.access /\ ui.waiting = <<>> /\ srv' = [srv EXCEPT !.access = FALSE]
  <2>1. Grows(srv, srv')
    BY <1>1, <1>2 DEF Grows, Server, Identified, Over
  <2>2. Refreshes(Here.calls) = {}
    BY <1>1, <1>2 DEF Alone
  <2>3. SessionState(Here, srv')
    BY <2>1, <2>2, ServerActs
  <2>4. QED BY <1>1, <2>3
<1>3. CASE \/ srv.refresh /\ srv' = [srv EXCEPT !.refresh = FALSE, !.ended = TRUE]
           \/ ~srv.rotated /\ srv' = [srv EXCEPT !.rotated = TRUE, !.ended = TRUE]
  <2>1. Grows(srv, srv') /\ Over(srv')
    BY <1>1, <1>3 DEF Grows, Server, Identified, Over, SessionActs
  <2>2. SessionState(Here, srv')
    BY <2>1, ServerActs
  <2>3. QED BY <1>1, <2>2
<1>4. QED BY <1>2, <1>3 DEF SessionActs

LEMMA SignedSteps ==
    ASSUME [Next]_vars, SignedPages'
    PROVE  /\ SignedPages
           /\ \/ UNCHANGED <<srv, ui, calls>> /\ DOMAIN cache' \subseteq DOMAIN cache
              \/ SessionActs /\ UNCHANGED <<ui, calls, cache>>
              \/ SessionNext
              \/ \E i \in DOMAIN calls : Serve(i) \/ Deliver(i)
<1>1. screen' = screen /\ SignedPages
  BY PageLeft DEF Stays, SignedPages
<1>2. OthersAct => SessionActs /\ UNCHANGED <<ui, calls, cache>>
  BY <1>1 DEF OthersAct, SignedPages
<1>3. Expire \/ UNCHANGED vars => UNCHANGED <<srv, ui, calls>> /\ DOMAIN cache' \subseteq DOMAIN cache
  BY DEF Expire, vars
<1>4. UserNext => SessionNext
  <2>1. ~Follow
    BY <1>1 DEF Follow, SignedPages
  <2>2. QED
    BY <1>1, <2>1, ListSteps, DialogSteps, ProductSteps, CartSteps, FavoritesSteps, NoticesSteps, CheckoutSteps, PaymentSteps, OrderSteps,
       AccountSteps, ShellSteps, WidgetsSteps, PicturesSteps DEF UserNext, SignedPages, AccountPages, ShellPages, WidgetPages
<1>5. QED BY <1>1, <1>2, <1>3, <1>4 DEF Next

LEMMA SessionInit == Init => OneSession
<1> SUFFICES ASSUME Init, SignedPages PROVE SessionState(Here, srv)
  BY DEF OneSession
<1>1. InitSession /\ cache = <<>>
  BY DEF Init, InitPictures, InitAccount, InitShell, InitWidgets, InitShop, InitBag, InitPurchase, Mounted, SignedPages
<1>2. PICK p : ui = refreshUser(Bare(BlankSession(p)), 0, "boot").ui /\ calls = refreshUser(Bare(BlankSession(p)), 0, "boot").calls
  BY <1>1 DEF InitSession, Mounted
<1> DEFINE b == Bare(BlankSession(p))
           x == refreshUser(b, 0, "boot")
<1>3. /\ DOMAIN b = {"ui", "calls", "cache"} /\ b.ui = BlankSession(p) /\ b.calls = <<>> /\ b.cache = <<>>
      /\ DOMAIN b.ui = SessionFields /\ b.ui.waiting = <<>> /\ b.ui.modal = FALSE /\ b.ui.user = NoUser
  BY DEF Bare, BlankSession, SessionFields
<1> HIDE DEF b
<1>4. <<>> \in Seq(ToSet(<<>>)) /\ ToSet(<<>>) = {} /\ DOMAIN <<>> = {}
  BY DEF ToSet
<1>5. Server(srv)
  <2>1. ASSUME NEW u \in Users, NEW a \in BOOLEAN, srv = [SignedIn(u) EXCEPT !.access = a] PROVE Server(srv)
    BY <2>1, SessionAssumption DEF SignedIn, NoSession, Server
  <2>2. Server(NoSession)
    BY DEF NoSession, Server
  <2>3. QED BY <1>1, <2>1, <2>2 DEF InitSession
<1>6. Held(b, srv)
  BY <1>3, <1>4 DEF Held, Browser
<1>7. Passes(b, x, srv)
  BY <1>6, LookedUp
<1> HIDE DEF x
<1>8. /\ Held(x, srv) /\ x.ui.waiting = <<>> /\ Refreshes(x.calls) = {}
  BY <1>3, <1>4, <1>7 DEF Passes, Undisturbed, Refreshes
<1>9. /\ DOMAIN Here = {"ui", "calls", "cache"} /\ Here.ui = x.ui /\ Here.calls = x.calls /\ DOMAIN Here.cache = {}
  BY <1>1, <1>2, <1>4 DEF Here, x, b
<1> DEFINE h == Here
<1> HIDE DEF h
<1>10. Held(h, srv)
  BY <1>8, <1>9 DEF Held, Browser, h
<1>11. Alone(h)
  BY <1>8, <1>9 DEF Alone, h
<1>12. Fruitless(h, srv)
  BY <1>8, <1>9 DEF Fruitless, Refreshes, ToSet, h
<1>13. QED BY <1>5, <1>10, <1>11, <1>12 DEF SessionState, h

LEMMA SessionKept == OneSession /\ [Next]_vars => OneSession'
<1> SUFFICES ASSUME OneSession, [Next]_vars, SignedPages' PROVE SessionState(Here, srv)'
  BY DEF OneSession
<1>1. SignedPages /\ SessionState(Here, srv)
  BY SignedSteps DEF OneSession
<1>2. CASE UNCHANGED <<srv, ui, calls>> /\ DOMAIN cache' \subseteq DOMAIN cache
  <2> DEFINE h == Here
             k == [ui |-> ui, calls |-> calls, cache |-> cache']
  <2>1. h.ui = ui /\ h.calls = calls /\ h.cache = cache
    BY DEF Here
  <2>2. k.ui = ui /\ k.calls = calls /\ k.cache = cache' /\ DOMAIN k = {"ui", "calls", "cache"} /\ k = Here'
    BY <1>2 DEF Here
  <2>3. SessionState(h, srv)
    BY <1>1
  <2> HIDE DEF h, k
  <2>4. Held(k, srv) /\ Alone(k) /\ Fruitless(k, srv)
    BY <1>2, <2>1, <2>2, <2>3 DEF SessionState, Held, Browser, Alone, Fruitless
  <2>5. SessionState(k, srv)
    BY <2>3, <2>4 DEF SessionState
  <2>6. QED BY <1>2, <2>2, <2>5
<1>3. CASE SessionActs /\ UNCHANGED <<ui, calls, cache>>
  BY <1>1, <1>3, OthersActed
<1>4. ASSUME NEW s, Do(s) \/ Op(s), SessionState(s, srv) PROVE SessionState(Here, srv)'
  <2>1. ui' = s.ui /\ calls' = s.calls /\ cache' = s.cache /\ srv' = srv
    BY <1>4, DoFacts
  <2>2. DOMAIN s = {"ui", "calls", "cache"}
    BY <1>4 DEF SessionState, Held, Browser
  <2> DEFINE k == [ui |-> s.ui, calls |-> s.calls, cache |-> s.cache]
  <2>3. k.ui = s.ui /\ k.calls = s.calls /\ k.cache = s.cache /\ DOMAIN k = {"ui", "calls", "cache"} /\ k = Here'
    BY <2>1 DEF Here
  <2> HIDE DEF k
  <2>4. SessionState(k, srv)
    BY <1>4, <2>3 DEF SessionState, Held, Browser, Alone, Fruitless
  <2>5. QED BY <2>1, <2>3, <2>4
<1>5. CASE SessionNext
  <2>1. PICK s : (Do(s) \/ Op(s)) /\ Passes(Here, s, srv)
    BY <1>1, <1>5, SessionActed DEF SessionState
  <2>2. SessionState(s, srv)
    BY <1>1, <2>1, QuietSession
  <2>3. QED BY <1>4, <2>1, <2>2
<1>6. ASSUME NEW i \in DOMAIN calls, Serve(i) PROVE SessionState(Here, srv)'
  BY <1>1, <1>6, SessionServed
<1>7. ASSUME NEW i \in DOMAIN calls, Deliver(i) PROVE SessionState(Here, srv)'
  <2>1. Do(Intercepted(Received(i), calls[i])) /\ calls[i].st # "sent"
    BY <1>1, <1>7 DEF Deliver, Reply
  <2>2. QED BY <1>1, <1>4, <2>1, SessionAnswered
<1>8. QED BY <1>2, <1>3, <1>5, <1>6, <1>7, SignedSteps

\* Nobody is asked to sign in again unless a session has ended or its refresh was lost
\* (request.ts:130-168).
THEOREM AskedForAReason == Spec => []AskedOnlyWhenEnded
<1>1. OneSession => AskedOnlyWhenEnded
  BY DEF OneSession, SessionState, Held, Here, AskedOnlyWhenEnded, Over
<1>2. QED BY <1>1, SessionInit, SessionKept, PTL DEF Spec

\* However many calls are refused, and in whatever order they are answered, one refresh is
\* out while any of them waits, and none when nothing waits (request.ts:44-52, 86-103, 130-168).
THEOREM OneRefresh == Spec => []OneRefreshForAll
<1>1. OneSession => OneRefreshForAll
  <2> SUFFICES ASSUME SignedPages, Alone(Here)
               PROVE  Cardinality({i \in DOMAIN calls : calls[i].op = "refresh"}) = IF ui.waiting = <<>> THEN 0 ELSE 1
    BY DEF OneSession, SessionState, OneRefreshForAll
  <2> DEFINE R == {i \in DOMAIN calls : calls[i].op = "refresh"}
  <2>1. (\A i, j \in R : i = j) /\ ((ui.waiting = <<>>) <=> (R = {}))
    BY DEF Alone, Refreshes, Here
  <2> HIDE DEF R
  <2>2. CASE ui.waiting = <<>>
    BY <2>1, <2>2, FS_EmptySet DEF R
  <2>3. CASE ui.waiting # <<>>
    <3>1. PICK i \in R : TRUE
      BY <2>1, <2>3
    <3>2. R = {i}
      BY <2>1, <3>1
    <3>3. Cardinality(R) = 1
      BY <3>2, FS_Singleton
    <3>4. QED BY <2>3, <3>3 DEF R
  <2>4. QED BY <2>2, <2>3
<1>2. QED BY <1>1, SessionInit, SessionKept, PTL DEF Spec
=============================================================================
