------------------------------- MODULE Session -------------------------------
(***************************************************************************)
(* Who is signed in.  The client's interceptors (api/request.ts) refresh   *)
(* the session behind a call that was answered 401, once for all the calls *)
(* that wait; the providers (UserContext.tsx, AdminAuthContext.tsx) keep   *)
(* who it is; the forms of pages/Auth and AdminLogin.tsx change it.        *)
(***************************************************************************)
EXTENDS Purchase

CONSTANTS Users, NoUser,
          Admins,      \* the superusers
          MaxRetries   \* how often a provider asks again who it is

ASSUME SessionAssumption == Users # {} /\ NoUser \notin Users /\ Admins \subseteq Users /\ MaxRetries \in Nat

(* The session at the server; `ended` and `lost` remember that one ended and that a
   refresh failed on the way. *)
NoSession == [who |-> NoUser, access |-> FALSE, refresh |-> FALSE, rotated |-> FALSE, ended |-> FALSE, lost |-> FALSE]
SignedIn(u) == [NoSession EXCEPT !.who = u, !.access = TRUE, !.refresh = TRUE]

SignedPages == screen \in {"session", "console"}
BlankSession(page) ==
  [page |-> page, user |-> NoUser, loading |-> TRUE, retries |-> <<>>, waiting |-> <<>>, modal |-> FALSE,
   error |-> FALSE, social |-> "no", busy |-> FALSE, codes |-> FALSE, eff |-> 0]
Ask(op, arg, then) == [Call(op, arg) EXCEPT !.gen = [retried |-> FALSE, try |-> 0, then |-> then]]

(***************************************************************************)
(* The providers.                                                          *)
(***************************************************************************)
deriveRole(u) == IF u \in Admins THEN "superadmin" ELSE "none"
(* The rights of one who is no superuser are looked up behind. *)
setUser(s, u) ==
  LET t == [s EXCEPT !.ui.user = u, !.ui.eff = IF screen = "console" /\ u # s.ui.user THEN @ + 1 ELSE @,
                     !.ui.codes = @ /\ u = s.ui.user]
  IN  IF screen = "console" /\ u \notin Admins \cup {NoUser, s.ui.user}
        THEN Get(t, Ask("matrix", 1, t.ui.eff)) ELSE t
(* The form that signed in goes on when it is known who it is, or not to be known. *)
Settled(s, then) ==
  LET t == [s EXCEPT !.ui.loading = FALSE]
      u == t.ui.user
  IN  IF then # "form" THEN t
      ELSE IF screen = "session" THEN [t EXCEPT !.ui.page = "shop"]
      ELSE IF deriveRole(u) = "none"
        THEN Send(setUser([t EXCEPT !.ui.error = TRUE, !.ui.busy = FALSE], NoUser), Ask("signout", 1, "none"))
      ELSE [t EXCEPT !.ui.page = "products", !.ui.busy = FALSE]
refreshUser(s, try, then) == Get(s, [Ask("me", 1, then) EXCEPT !.gen.try = try])
UserAnswered(s, c) ==
  IF c.st = "ok" THEN Settled(setUser(s, c.got), c.gen.then)
  ELSE IF c.st = "401" THEN Settled(setUser(s, NoUser), c.gen.then)
  ELSE IF c.gen.try < MaxRetries THEN [s EXCEPT !.ui.retries = Append(@, c.gen)]
  ELSE Settled(s, c.gen.then)
RetryUser == SignedPages /\ \E i \in DOMAIN ui.retries :
  LET g == ui.retries[i]
  IN  Do(refreshUser([Here EXCEPT !.ui.retries = RemoveAt(@, i)], g.try + 1, g.then))

(***************************************************************************)
(* The forms.                                                              *)
(***************************************************************************)
Shut401(c) == c.st # "ok"
SignInAnswered(s, c) ==
  IF Shut401(c) THEN [s EXCEPT !.ui.error = TRUE, !.ui.busy = FALSE] ELSE refreshUser(s, 0, "form")
RegisterAnswered(s, c) ==
  IF Shut401(c) THEN [s EXCEPT !.ui.error = TRUE] ELSE Send(s, Ask("signin", c.arg, "form"))
(* The window of a provider, if it could be opened. *)
SocialAsked(s, c) ==
  IF c.st = "ok" /\ c.got = "window" THEN [s EXCEPT !.ui.social = "window"]
  ELSE [s EXCEPT !.ui.social = "no", !.ui.error = TRUE]
SocialDone(s, c) ==
  IF Shut401(c) THEN [s EXCEPT !.ui.error = TRUE]
  ELSE [setUser(s, c.got.user) EXCEPT !.ui.page = IF c.got.new THEN "setPassword" ELSE "shop", !.ui.social = "no"]
RightsAnswered(s, c) ==
  IF c.st # "ok" \/ c.gen.then # s.ui.eff THEN s
  ELSE IF c.op = "matrix" THEN Get(s, Ask("roles", 1, c.gen.then)) ELSE [s EXCEPT !.ui.codes = TRUE]
SessionReply(s, c) ==
  IF c.op = "me" THEN UserAnswered(s, c)
  ELSE IF c.op = "signin" THEN SignInAnswered(s, c)
  ELSE IF c.op = "register" THEN RegisterAnswered(s, c)
  ELSE IF c.op = "providers" THEN SocialAsked(s, c)
  ELSE IF c.op = "social" THEN SocialDone(s, c)
  ELSE IF c.op \in {"matrix", "roles"} THEN RightsAnswered(s, c)
  ELSE s

(***************************************************************************)
(* The interceptors.                                                       *)
(***************************************************************************)
AuthEndpoints == {"signin", "signout", "register", "refresh"}
\* Mutant of Asked: whoever is not signed in is asked to sign in again.
AskedAnyway(s, c) == [s EXCEPT !.ui.modal = TRUE]
(* Nobody is asked to sign in again because it was looked up who it is. *)
Asked(s, c) == IF c.op = "me" THEN s ELSE [s EXCEPT !.ui.modal = TRUE]
Resent(s, c) == Get(s, [c EXCEPT !.st = "sent", !.got = 0, !.gen.retried = TRUE])
Refused(s, c) == SessionReply(Asked(s, c), c)
\* Mutant of Unauthorised: every call refreshes for itself.
UnauthorisedAlone(s, c) == Send([s EXCEPT !.ui.waiting = Append(@, c)], Call("refresh", 1))
(* The first call that is refused sends the refresh, the others wait with it. *)
Unauthorised(s, c) ==
  LET t == [s EXCEPT !.ui.waiting = Append(@, c)]
  IN  IF s.ui.waiting = <<>> THEN Send(t, Call("refresh", 1)) ELSE t
Refreshed(s, c) ==
  LET w == s.ui.waiting
      after[n \in 0..Len(w)] ==
        IF n = 0 THEN [s EXCEPT !.ui.waiting = <<>>]
        ELSE IF c.st = "ok" THEN Resent(after[n - 1], w[n]) ELSE Refused(after[n - 1], w[n])
  IN  after[Len(w)]
Intercepted(s, c) ==
  IF c.op = "refresh" THEN Refreshed(s, c)
  ELSE IF c.st = "reauth" THEN SessionReply([s EXCEPT !.ui.modal = TRUE], [c EXCEPT !.st = "401"])
  ELSE IF c.st = "401" /\ ~c.gen.retried /\ c.op \notin AuthEndpoints THEN Unauthorised(s, c)
  ELSE SessionReply(s, c)

(***************************************************************************)
(* What the user does.                                                     *)
(***************************************************************************)
openPage == SignedPages /\ ui.user # NoUser /\ ui.page \in {"shop", "products"} /\ Room(1) /\ Op(Send(Here, Ask("fetch", 1, "none")))
logout(s) == Send(setUser(s, NoUser), Ask("signout", 1, "none"))
Leave == SignedPages /\ ui.user # NoUser /\ Room(1) /\ Op([logout(Here) EXCEPT !.ui.page = IF screen = "session" THEN @ ELSE "login"])
(* The question to sign in again ends both sessions of the browser. *)
handleLoginAgain == /\ SignedPages /\ ui.modal /\ Room(2)
                    /\ Op(Send([logout(Here) EXCEPT !.ui.modal = FALSE, !.ui.page = "login"], Ask("signout", 1, "none")))
handleToggle == screen = "session" /\ \E p \in {"shop", "login", "register"} \ {ui.page} : Do([Here EXCEPT !.ui.page = p, !.ui.error = FALSE, !.ui.social = "no"])
(* The login form: its fields, the terms, then the server.  An error is shown, of
   whatever kind. *)
LoginOffers == IF ui.page # "login" THEN {}
               ELSE {"submit", "register", "forgot"} \cup (IF ui.social = "no" THEN {"google", "facebook"} ELSE {})
handleSubmit == /\ screen = "session" /\ "submit" \in LoginOffers
                /\ \/ Do([Here EXCEPT !.ui.error = TRUE])
                   \/ Room(1) /\ \E u \in Users \cup {NoUser} : Op(Send([Here EXCEPT !.ui.error = FALSE], Ask("signin", u, "form")))
handleSocialLogin == /\ screen = "session" /\ "google" \in LoginOffers /\ Room(1)
                     /\ Op(Get([Here EXCEPT !.ui.social = "asking", !.ui.error = FALSE], Ask("providers", 1, "none")))
(* The window is closed, or brings a token, or is given up after a minute; the
   buttons stay off but for the first. *)
PollWindow == /\ screen = "session" /\ ui.page = "login" /\ ui.social = "window"
              /\ \/ Do([Here EXCEPT !.ui.social = "no"])
                 \/ Room(1) /\ Op(Send([Here EXCEPT !.ui.social = "stuck"], Ask("social", 1, "none")))
                 \/ Do([Here EXCEPT !.ui.social = "stuck"])
(* The registration: a password has to meet every rule. *)
Rules == {"length", "upper", "lower", "digitOrSpecial"}
evaluatePassword(met) == IF met = Rules THEN "strong" ELSE IF Cardinality(met) = 3 THEN "good" ELSE IF Cardinality(met) = 2 THEN "fair" ELSE "weak"
handleRegister == /\ screen = "session" /\ ui.page = "register"
                  /\ \E met \in {{}, Rules} :
                       \/ Do([Here EXCEPT !.ui.error = TRUE])
                       \/ evaluatePassword(met) = "strong" /\ Room(1) /\ \E u \in Users : Op(Send([Here EXCEPT !.ui.error = FALSE], Ask("register", u, "none")))
(* The console's form; whoever is a superuser has left it. *)
handleAdminLogin == /\ screen = "console" /\ ui.page = "login" /\ ~ui.busy /\ Room(1)
                    /\ \E u \in Users \cup {NoUser} : Op(Send([Here EXCEPT !.ui.busy = TRUE, !.ui.error = FALSE], Ask("signin", u, "form")))
RoleProtectedRoute == /\ screen = "console" /\ ~ui.loading
                      /\ \/ ui.page # "login" /\ deriveRole(ui.user) = "none" /\ Do([Here EXCEPT !.ui.page = "login"])
                         \/ ui.page = "login" /\ deriveRole(ui.user) # "none" /\ Do([Here EXCEPT !.ui.page = "products"])
AdminMenu == IF deriveRole(ui.user) = "none" THEN {} ELSE {"dashboard", "products", "ads", "categories", "brands", "chat", "notifications", "coupons", "emailTemplates"}
SessionNext == \/ RetryUser \/ openPage \/ Leave \/ handleLoginAgain \/ handleToggle \/ handleSubmit \/ handleSocialLogin
               \/ PollWindow \/ handleRegister \/ handleAdminLogin \/ RoleProtectedRoute

(***************************************************************************)
(* The server's part.                                                      *)
(***************************************************************************)
Admitted(c) == IF ~srv.access THEN "401" ELSE IF srv.rotated THEN "reauth" ELSE "ok"
SessionAfter(c) ==
  IF c.op = "signin" /\ c.arg \in Users THEN [SignedIn(c.arg) EXCEPT !.ended = srv.ended, !.lost = srv.lost]
  ELSE IF c.op = "social" THEN [SignedIn(CHOOSE u \in Users : TRUE) EXCEPT !.ended = srv.ended, !.lost = srv.lost]
  ELSE IF c.op = "signout" THEN [NoSession EXCEPT !.ended = TRUE, !.lost = srv.lost]
  ELSE IF c.op = "refresh" /\ srv.refresh /\ ~srv.rotated THEN [srv EXCEPT !.access = TRUE]
  ELSE srv
SessionStatus(c) ==
  IF c.op = "signin" THEN IF c.arg \in Users THEN "ok" ELSE "401"
  ELSE IF c.op = "refresh" THEN IF srv.refresh /\ ~srv.rotated THEN "ok" ELSE "no"
  ELSE IF c.op \in {"signout", "providers", "register", "social"} THEN "ok"
  ELSE Admitted(c)
SessionAnswers(c) ==
  IF c.op = "me" THEN {srv.who}
  ELSE IF c.op = "providers" THEN {"window", "none"}
  ELSE IF c.op = "social" THEN {[user |-> CHOOSE u \in Users : TRUE, new |-> b] : b \in BOOLEAN}
  ELSE {0}
(* An access or a refresh token expires, or the password or role is changed elsewhere.
   An access token lives longer than a call to refresh the session takes. *)
SessionActs == /\ SignedPages /\ srv.who # NoUser
               /\ \/ srv.access /\ ui.waiting = <<>> /\ srv' = [srv EXCEPT !.access = FALSE]
                  \/ srv.refresh /\ srv' = [srv EXCEPT !.refresh = FALSE, !.ended = TRUE]
                  \/ ~srv.rotated /\ srv' = [srv EXCEPT !.rotated = TRUE, !.ended = TRUE]
==============================================================================
