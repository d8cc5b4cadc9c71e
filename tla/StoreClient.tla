----------------------------- MODULE StoreClient -----------------------------
(***************************************************************************)
(* What the pages of the shop share: one page is mounted, its calls go     *)
(* through the caching client (api/request.ts) to the server, and a        *)
(* handler is a function from a browser state to a browser state, so that  *)
(* one that writes and then reads again is one step.                       *)
(***************************************************************************)
EXTENDS ApiClient, Integers, TLC

CONSTANTS MaxCalls,   \* bound: calls in flight, by page
          MaxOps,     \* bound: calls the user makes, by page
          MaxEvents   \* bound: failures, expiries and acts of others, by page

ASSUME StoreAssumption ==
  /\ DOMAIN MaxCalls = DOMAIN MaxOps /\ DOMAIN MaxCalls = DOMAIN MaxEvents
  /\ \A p \in DOMAIN MaxCalls : {MaxCalls[p], MaxOps[p], MaxEvents[p]} \subseteq Nat

VARIABLES screen,  \* the mounted page
          srv,     \* what the server holds of it
          ui,      \* the page's React state
          calls,   \* calls in flight, in the order they were sent
          cache,   \* the answers the client keeps, by what was asked
          used     \* calls and events so far, for the bounds

vars == <<screen, srv, ui, calls, cache, used>>

(* A call asks for something (op and arg); gen is what its handler remembers. *)
Call(op, arg) == [op |-> op, arg |-> arg, gen |-> 0, st |-> "sent", got |-> 0]
Key(c) == <<c.op, c.arg>>
Here == [ui |-> ui, calls |-> calls, cache |-> cache]
Do(s) == ui' = s.ui /\ calls' = s.calls /\ cache' = s.cache /\ UNCHANGED <<screen, srv, used>>
Op(s) == /\ used.ops < MaxOps[screen] /\ used' = [used EXCEPT !.ops = @ + 1]
         /\ ui' = s.ui /\ calls' = s.calls /\ cache' = s.cache /\ UNCHANGED <<screen, srv>>
Event == used.events < MaxEvents[screen] /\ used' = [used EXCEPT !.events = @ + 1]
Room(n) == Len(calls) + n <= MaxCalls[screen]

Send(s, c) == [s EXCEPT !.calls = Append(@, c)]
(* A GET whose answer is kept is answered without the server, as late as any. *)
Get(s, c) == Send(s, IF Key(c) \in DOMAIN s.cache THEN [c EXCEPT !.st = "ok", !.got = s.cache[Key(c)]] ELSE c)

(* The URLs of the calls, by page: a GET is kept, and a write drops what its URL
   covers. *)
CartUrl == [cart |-> PathSlash(<<"cart">>), add |-> PathSlash(<<"cart", "items">>), update |-> PathSlash(<<"cart", "items", "#">>),
            remove |-> PathSlash(<<"cart", "items", "#", "remove">>), clear |-> PathSlash(<<"cart", "clear">>)]
GoodsUrl == [list |-> Path(<<"goods", "spu">>), detail |-> Path(<<"goods", "spu", "#">>), tree |-> Path(<<"goods", "category", "tree">>), favs |-> PathSlash(<<"lovegoods">>),
             like |-> PathSlash(<<"lovegoods", "#">>), unlike |-> PathSlash(<<"lovegoods", "#">>), review |-> PathSlash(<<"review", "create">>)]
NoticeUrl == [notices |-> PathSlash(<<"notification">>), read |-> PathSlash(<<"notification", "#", "read">>), readAll |-> PathSlash(<<"notification", "read-all">>)]
OrderUrl == [checkout |-> PathSlash(<<"order", "checkout">>), order |-> PathSlash(<<"order", "no">>), cancel |-> PathSlash(<<"order", "no", "cancel">>),
             pay |-> PathSlash(<<"payment", "create">>), status |-> PathSlash(<<"payment", "status", "no">>),
             refunds |-> PathSlash(<<"payment", "refunds">>), refund |-> PathSlash(<<"payment", "refund">>),
             mock |-> PathSlash(<<"payment", "mock", "no", "complete">>), coupons |-> PathSlash(<<"promotion", "my">>)]
UserUrl == [me |-> PathSlash(<<"users", "me">>), rename |-> PathSlash(<<"users", "me">>), avatar |-> PathSlash(<<"users", "upload-avatar">>),
            signin |-> PathSlash(<<"users", "session", "login">>), signout |-> PathSlash(<<"users", "session", "logout">>),
            register |-> PathSlash(<<"users", "register">>), providers |-> PathSlash(<<"users", "social", "providers">>),
            social |-> PathSlash(<<"users", "social", "login">>), setPassword |-> PathSlash(<<"users", "social", "set-password">>),
            password |-> PathSlash(<<"users", "password">>), sendCode |-> PathSlash(<<"users", "password", "email-code", "send">>)]
AccountUrl == [orders |-> PathSlash(<<"order">>), aftersales |-> PathSlash(<<"order", "aftersale", "mine">>), reviews |-> PathSlash(<<"review", "my">>),
               addresses |-> PathSlash(<<"address">>), createAddress |-> PathSlash(<<"address">>),
               deleteAddress |-> PathSlash(<<"address", "#">>), setDefault |-> PathSlash(<<"address", "#">>),
               mine |-> PathSlash(<<"promotion", "my">>), center |-> PathSlash(<<"promotion">>), claim |-> PathSlash(<<"promotion", "code", "claim">>),
               promo |-> PathSlash(<<"promotion", "promo", "code">>), coupon |-> PathSlash(<<"promotion", "code">>)]
InsightUrl == [overview |-> Path(<<"ads", "insight", "overview">>), metrics |-> Path(<<"ads", "insight", "platform-metrics">>),
               hot |-> Path(<<"ads", "insight", "hot-products">>), weekly |-> Path(<<"ads", "insight", "product-weekly">>), spus |-> Path(<<"goods", "spu">>)]
ConsoleUrl == [matrix |-> Path(<<"rbac", "matrix">>), roles |-> PathSlash(<<"admin", "users">>), unread |-> PathSlash(<<"notification", "unread_count">>),
               recent |-> PathSlash(<<"notification">>), search |-> Path(<<"goods", "spu", "admin">>), products |-> Path(<<"goods", "spu", "admin">>),
               afterSales |-> PathSlash(<<"order", "admin", "aftersale">>), sales |-> PathSlash(<<"order", "admin", "list">>)]
Url == CartUrl @@ GoodsUrl @@ NoticeUrl @@ OrderUrl @@ UserUrl @@ AccountUrl @@ InsightUrl @@ ConsoleUrl
(* The calls that write, or that the client does not keep. *)
Posts == {"add", "update", "remove", "clear", "like", "unlike", "review", "read", "readAll", "checkout", "cancel", "pay", "refund", "mock",
          "rename", "avatar", "signin", "signout", "register", "social", "setPassword", "password", "sendCode",
          "createAddress", "deleteAddress", "setDefault", "claim"}
Gets == DOMAIN Url \ Posts
Cached(c) == c.op \in Gets
Reads(key) == IF key[1] \in DOMAIN Url THEN Url[key[1]] ELSE Path(<<>>)

(* Call i comes back: its answer is kept, a failed GET's is dropped, and a write
   drops those its URL covers. *)
Received(i) ==
  LET c == calls[i]
      kept == DOMAIN cache
      left == IF Cached(c) THEN kept \ {Key(c)}
              ELSE IF c.st = "ok" /\ c.op \in DOMAIN Url THEN {k \in kept : ~Invalidates(Url[c.op], Reads(k))} ELSE kept
      now == IF Cached(c) /\ c.st = "ok" THEN left \cup {Key(c)} ELSE left
  IN  [ui |-> ui, calls |-> RemoveAt(calls, i), cache |-> [k \in now |-> IF k \in left THEN cache[k] ELSE c.got]]
(* A kept answer goes after 30 s. *)
Expire == \E k \in DOMAIN cache :
  /\ cache' = [j \in DOMAIN cache \ {k} |-> cache[j]] /\ Event /\ UNCHANGED <<screen, srv, ui, calls>>
==============================================================================
