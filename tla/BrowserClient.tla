----------------------------- MODULE BrowserClient -----------------------------
(******************************************************************************)
(* One browser tab: the pages (App, SlotMachine, Cashier, AccountPanel,       *)
(* TransactionHistory) over the API client (casinoApi.js), which keeps the    *)
(* game session and the account token in storage. A task is what one mount or *)
(* click sets off: API functions called one after the other, each made of     *)
(* requests. JavaScript runs to completion: the arrival of an answer and the  *)
(* sending of the next request are one step. (Requests that a page sends side *)
(* by side are sent one after the other here.) The server answers a request   *)
(* in one step; requests and answers get lost, sessions and tokens expire.    *)
(******************************************************************************)
EXTENDS Integers, Sequences

CONSTANTS
  Tasks,     \* bound: what the player sets off
  Overlap,   \* whether the player leaves a page before it is answered
  None

OverlapAssumption == Overlap \in BOOLEAN /\ None \notin Nat

VARIABLES
  sid, tok,   \* storage: the game session and the account token
  page,       \* the page that is mounted, and what it shows
  visit,      \* the number of the mount
  task,       \* task -> where it is, or Idle
  sess,       \* server: demo_sessions [account, protected, gone]
  auths,      \* server: auth_sessions [account, live]
  effects,    \* server: rounds settled and payments created [task, account, key]
  player      \* history: "guest", "player" once logged in, "told" once told to sign in,
              \* "unaware" when the account page forgot the token and did not show it

client == <<sid, tok, page, visit>>
server == <<sess, auths, effects>>
vars == <<client, task, server, player>>

Idle == [fn |-> "idle"]
Done == [fn |-> "done"]
Lost == [fn |-> "lost"]   \* a spin or a payment that the player was told has failed
Running(c) == task[c].fn \notin {"idle", "done", "lost"}
Mounted(c) == task[c].visit = visit

Functions == {"open", "me", "wallet", "spin", "login", "register", "logout", "create", "payments"}
Handlers == {"load", "refresh", "signin", "create", "spin", "logout"}
Shows == {"loading", "auth", "ready", "error", "submitting", "spinning"}
Known == 0..Len(sess)

TypeOK ==
  /\ sid \in (1..Len(sess)) \cup {None} /\ tok \in (1..Len(auths)) \cup {None}
  /\ page \in [name : {"none", "casino", "cashier", "account", "history"}, shows : Shows]
  /\ \A c \in Tasks : Running(c) =>
       /\ task[c].by \in Handlers /\ task[c].fn \in Functions /\ task[c].at \in Functions
       /\ task[c].ans \in {"none", "ok", "session", "auth", "limited", "failed"}
       /\ (task[c].at # task[c].fn => task[c].at = "open" /\ task[c].fn \in {"wallet", "spin"})
  /\ \A s \in 1..Len(sess) : sess[s].account \in Known
  /\ \A t \in 1..Len(auths) : auths[t].account \in Known
  /\ player \in {"guest", "player", "unaware", "told"}

-----------------------------------------------------------------------------
(* casinoApi.js: what is sent *)

RequestAfterOpening(fn, s) == IF fn # "open" /\ s = None THEN "open" ELSE fn

(* The request a function makes first: without a session, a wallet or a spin opens one. *)
Request(fn, s) == IF fn \in {"wallet", "spin"} /\ s = None THEN "open" ELSE fn

WithSession == {"open", "wallet", "spin", "register", "logout"}
WithAuth == Functions \ {"login", "register"}

Asking(v, by, fn, todo, again, s, t) ==
  LET at == Request(fn, s) IN
  [by |-> by, fn |-> fn, at |-> at, todo |-> todo, again |-> again, ans |-> "none", visit |-> v,
   sid |-> IF at \in WithSession THEN s ELSE None, tok |-> IF at \in WithAuth THEN t ELSE None,
   got |-> 0]

(* The same function, now that a session is opened, or after one that was gone.         *)
Again(c, again, s) == Asking(task[c].visit, task[c].by, task[c].fn, task[c].todo, again, s, tok)

(* The next function of a task. getAccountProfile without a token asks nothing.        *)
Following(c, todo, s, t) ==
  IF todo = <<>> \/ (Head(todo) = "me" /\ t = None) THEN Done
  ELSE Asking(task[c].visit, task[c].by, Head(todo), Tail(todo), FALSE, s, t)

-----------------------------------------------------------------------------
(* The server, one request at a time *)

Dead(t) == t # None /\ ~auths[t].live
Caller(t) == IF t # None /\ auths[t].live THEN auths[t].account ELSE None
Usable(s, a) == s # None /\ ~sess[s].gone /\ (~sess[s].protected \/ sess[s].account = a)

NewSession(a) == [account |-> a, protected |-> TRUE, gone |-> FALSE]
GuestSession(a) == [account |-> a, protected |-> FALSE, gone |-> FALSE]

(* A guest's account is numbered like the session it comes with; 0 is an account that *)
(* was registered before.                                                             *)
Fresh == Len(sess) + 1

Answered(c, ans, got) == task' = [task EXCEPT ![c].ans = ans, ![c].got = got]
Replayed(c, a) == \E e \in effects : e.account = a /\ e.task = c
Effect(c, a) == effects' = IF Replayed(c, a) THEN effects
                           ELSE effects \cup {[task |-> c, account |-> a, key |-> task[c].fn]}

Serve(c) ==
  LET s == task[c].sid t == task[c].tok at == task[c].at a == Caller(t) IN
  /\ Running(c) /\ task[c].ans = "none"
  /\ \/ /\ Dead(t) \/ (t = None /\ at \in {"me", "logout", "create", "payments"})
        /\ Answered(c, "auth", 0) /\ UNCHANGED server
     \/ /\ ~Dead(t) /\ at = "open"
        /\ IF Usable(s, a) THEN Answered(c, "ok", s) /\ UNCHANGED server
           ELSE /\ sess' = Append(sess, IF a = None THEN GuestSession(Fresh) ELSE NewSession(a))
                /\ Answered(c, "ok", Fresh) /\ UNCHANGED <<auths, effects>>
     \/ /\ ~Dead(t) /\ at \in {"wallet", "spin"} /\ ~Usable(s, a)
        /\ Answered(c, "session", 0) /\ UNCHANGED server
     \/ /\ ~Dead(t) /\ at \in {"wallet", "spin"} /\ Usable(s, a)
        /\ IF at = "spin" THEN Effect(c, sess[s].account) ELSE UNCHANGED effects
        /\ Answered(c, "ok", 0) /\ UNCHANGED <<sess, auths>>
     \/ /\ a # None /\ at \in {"me", "payments"}
        /\ Answered(c, "ok", 0) /\ UNCHANGED server
     \/ /\ a # None /\ at = "create"
        /\ Effect(c, a) /\ Answered(c, "ok", 0) /\ UNCHANGED <<sess, auths>>
     \/ /\ at = "login"
        /\ sess' = Append(sess, NewSession(0))
        /\ auths' = Append(auths, [account |-> 0, live |-> TRUE])
        /\ Answered(c, "ok", Fresh) /\ UNCHANGED effects
     \/ /\ at = "register" /\ s # None /\ Usable(s, None)
        /\ sess' = [sess EXCEPT ![s].protected = TRUE]
        /\ auths' = Append(auths, [account |-> sess[s].account, live |-> TRUE])
        /\ Answered(c, "ok", s) /\ UNCHANGED effects
     \/ /\ at = "register" /\ s # None /\ ~Usable(s, None)
        /\ Answered(c, "session", 0) /\ UNCHANGED server
     \/ /\ at = "register" /\ s = None
        /\ sess' = Append(sess, NewSession(Fresh))
        /\ auths' = Append(auths, [account |-> Fresh, live |-> TRUE])
        /\ Answered(c, "ok", Fresh) /\ UNCHANGED effects
     \/ /\ a # None /\ at = "logout"
        /\ sess' = IF Usable(s, a) THEN [sess EXCEPT ![s].gone = TRUE] ELSE sess
        /\ auths' = [auths EXCEPT ![t].live = FALSE]
        /\ Answered(c, "ok", 0) /\ UNCHANGED effects
  /\ UNCHANGED <<client, player>>

(* The request or its answer is lost, or the server answers with another error; a spin may *)
(* also be refused for its rate or for want of credits.                                    *)
Lose(c) ==
  /\ Running(c) /\ UNCHANGED <<client, server, player>>
  /\ \/ task[c].ans # "failed" /\ Answered(c, "failed", 0)
     \/ task[c].ans = "none" /\ task[c].at = "spin" /\ Answered(c, "limited", 0)

ExpireSession(s) ==
  /\ ~sess[s].gone /\ sess' = [sess EXCEPT ![s].gone = TRUE]
  /\ UNCHANGED <<client, task, auths, effects, player>>
ExpireToken(t) ==
  /\ auths[t].live /\ auths' = [auths EXCEPT ![t].live = FALSE]
  /\ UNCHANGED <<client, task, sess, effects, player>>

-----------------------------------------------------------------------------
(* casinoApi.js and the pages: what an answer does *)

Becomes(c, show) == page' = IF Mounted(c) THEN [page EXCEPT !.shows = show] ELSE page
Stored(s, t) == sid' = s /\ tok' = t
Told(asked) == IF player \in {"player", "unaware"} /\ asked THEN "told" ELSE player
Then(c, next) == task' = [task EXCEPT ![c] = next] /\ visit' = visit

(* An API function returned: the next one is called, or the page shows what it got. A *)
(* page without a profile asks to sign in.                                            *)
Returned(c, s, t) ==
  LET next == Following(c, task[c].todo, s, t) IN
  /\ Then(c, next)
  /\ IF next # Done THEN UNCHANGED page
     ELSE Becomes(c, IF task[c].todo = <<>> THEN "ready" ELSE "auth")

AfterErrorAsBefore(by, ans) == page.shows

(* What a page shows when its handler catches an error. The casino goes offline unless    *)
(* the spin was only limited; the cashier and the account without a profile show the form *)
(* to sign in; a payment that fails, or whose page could not be read again, leaves the    *)
(* cashier ready; a refresh that fails leaves what was shown.                             *)
AfterError(by, ans) ==
  CASE by = "spin" /\ ans = "limited" -> "ready"
    [] by = "spin" -> "error"
    [] by = "load" /\ page.name = "casino" -> "error"
    [] by = "load" /\ page.name = "history" /\ ans = "failed" -> "error"
    [] by \in {"load", "signin"} -> "auth"
    [] by = "create" /\ page.shows # "auth" -> "ready"
    [] OTHER -> page.shows

ForgetsAny(c) == task[c].at = "me"

(* getAccountProfile forgets a token that was refused. *)
Forgets(c) == task[c].at = "me" /\ task[c].ans = "auth"

(* What tells the player to sign in: the form to do so, or the message of a refused token *)
(* beside what is shown. The casino only says that it is offline.                         *)
Asks(by, ans) ==
  \/ by \in {"load", "signin"} /\ page.name # "casino" /\ ans \in {"session", "auth"}
  \/ by \in {"refresh", "create"} /\ ans = "auth"

(* A refresh of the account page keeps its error to itself: the page is still loading, and *)
(* while it is that is all it shows.                                                       *)
Hidden(by) == by = "refresh" /\ page.name = "account"

Thrown(c, ans) ==
  /\ Then(c, IF ans = "failed" /\ task[c].by \in {"create", "spin"} THEN Lost ELSE Done)
  /\ Becomes(c, AfterError(task[c].by, ans))
  /\ player' = IF Hidden(task[c].by) THEN IF player = "player" /\ Forgets(c) THEN "unaware" ELSE player
               ELSE Told(Mounted(c) /\ Asks(task[c].by, ans))

Arrived(c, ans) == Running(c) /\ task[c].ans = ans

(* The session of an answered open is stored; a wallet or a spin then goes ahead. *)
Opened(c) ==
  /\ Arrived(c, "ok") /\ task[c].at = "open"
  /\ Stored(task[c].got, tok)
  /\ IF task[c].fn = "open" THEN Returned(c, task[c].got, tok)
     ELSE /\ Then(c, Again(c, task[c].again, task[c].got))
          /\ UNCHANGED page
  /\ UNCHANGED <<server, player>>

SignedSessionKept(c) == IF sid # None THEN sid ELSE task[c].got

(* Signing in replaces the session as well as the token. *)
SignedSession(c) == task[c].got

SignedIn(c) ==
  /\ Arrived(c, "ok") /\ task[c].at \in {"login", "register"}
  /\ Stored(SignedSession(c), Len(auths))
  /\ Returned(c, SignedSession(c), Len(auths))
  /\ player' = "player" /\ UNCHANGED server

Read(c) ==
  /\ Arrived(c, "ok") /\ task[c].at \in {"me", "wallet", "spin", "create", "payments"}
  /\ Stored(sid, tok) /\ Returned(c, sid, tok) /\ UNCHANGED <<server, player>>

(* logoutAccount forgets session and token whatever the answer was. *)
LoggedOut(c) ==
  /\ Running(c) /\ task[c].fn = "logout" /\ task[c].ans # "none"
  /\ Stored(None, None) /\ Then(c, Done) /\ Becomes(c, "auth")
  /\ player' = "guest" /\ UNCHANGED server

RecoverableAny(c) == task[c].at \in {"wallet", "spin"} /\ ~task[c].again

(* A session that is gone is replaced once, by wallet and spin, and never because the *)
(* token was refused.                                                                 *)
Recoverable(c) == task[c].at \in {"wallet", "spin"} /\ ~task[c].again /\ task[c].ans = "session"

Recover(c) ==
  /\ Running(c) /\ task[c].ans \in {"session", "auth", "failed"} /\ Recoverable(c)
  /\ Stored(None, tok)
  /\ Then(c, Again(c, TRUE, None))
  /\ UNCHANGED <<page, server, player>>

Refused(c) ==
  /\ Running(c) /\ task[c].ans \in {"session", "auth", "limited", "failed"} /\ task[c].fn # "logout"
  /\ ~Recoverable(c)
  /\ Stored(sid, IF Forgets(c) THEN None ELSE tok)
  /\ Thrown(c, task[c].ans) /\ UNCHANGED server

-----------------------------------------------------------------------------
(* The player *)

Quiet == \A c \in Tasks : ~Running(c)
Start(c, v, by, fn, todo) == task' = [task EXCEPT ![c] = Asking(v, by, fn, todo, FALSE, sid, tok)]

(* A page is mounted and loads: the casino opens a session, the account and the cashier *)
(* ask for the profile, the history for the payments.                                   *)
Loads(name) == CASE name = "casino" -> <<"open">>
                 [] name = "account" -> <<"me", "wallet">>
                 [] name = "cashier" -> <<"me", "wallet", "payments">>
                 [] OTHER -> <<"payments">>

Visit(c, name) ==
  /\ task[c] = Idle /\ page.name # name /\ (Overlap \/ Quiet)
  /\ visit' = visit + 1
  /\ LET calls == Loads(name) asks == ~(Head(calls) = "me" /\ tok = None) IN
     /\ page' = [name |-> name, shows |-> IF ~asks THEN "auth"
                                         ELSE IF name = "casino" THEN "ready" ELSE "loading"]
     /\ IF asks THEN Start(c, visit + 1, "load", Head(calls), Tail(calls)) ELSE task' = [task EXCEPT ![c] = Done]
     /\ player' = Told(~asks)
  /\ UNCHANGED <<sid, tok, server>>

Click(c, name, from, to, by, fn, todo) ==
  /\ task[c] = Idle /\ page.name = name /\ page.shows \in from /\ (Overlap \/ Quiet)
  /\ visit' = visit /\ page' = [page EXCEPT !.shows = to]
  /\ Start(c, visit, by, fn, todo)
  /\ UNCHANGED <<sid, tok, server, player>>

Spin(c) == Click(c, "casino", {"ready"}, "spinning", "spin", "spin", <<>>)
SignIn(c) == \E fn \in {"login", "register"} :
               Click(c, "cashier", {"auth"}, "loading", "signin", fn, <<"me", "wallet", "payments">>)
Create(c) == Click(c, "cashier", {"ready"}, "submitting", "create", "create",
                   <<"me", "wallet", "payments">>)

(* The account page loads again, and says so; the cashier is refreshed in place. Without a *)
(* token both turn to the form to sign in and ask nothing.                                 *)
Refresh(c) ==
  /\ tok # None
  /\ \/ Click(c, "cashier", {"ready", "submitting"}, page.shows, "refresh", "me",
              <<"wallet", "payments">>)
     \/ Click(c, "account", {"ready"}, "loading", "refresh", "me", <<"wallet">>)

RefreshSignedOut(c) ==
  /\ tok = None /\ task[c] = Idle /\ (Overlap \/ Quiet)
  /\ \/ page.name = "cashier" /\ page.shows \in {"ready", "submitting"}
     \/ page.name = "account" /\ page.shows = "ready"
  /\ task' = [task EXCEPT ![c] = Done] /\ page' = [page EXCEPT !.shows = "auth"]
  /\ player' = Told(TRUE) /\ UNCHANGED <<sid, tok, visit, server>>

Logout(c) ==
  /\ tok # None
  /\ \E name \in {"cashier", "account"} :
       Click(c, name, {"ready", "submitting"}, page.shows, "logout", "logout", <<>>)

(* Without a token, logging out only forgets the session. *)
Forget(c) ==
  /\ tok = None /\ sid # None /\ task[c] = Idle /\ (Overlap \/ Quiet)
  /\ page.name \in {"cashier", "account"} /\ page.shows \in {"ready", "submitting"}
  /\ sid' = None /\ task' = [task EXCEPT ![c] = Done]
  /\ page' = [page EXCEPT !.shows = "auth"] /\ player' = "guest"
  /\ UNCHANGED <<tok, visit, server>>

Init ==
  /\ sid = None /\ tok = None /\ visit = 0
  /\ page = [name |-> "none", shows |-> "ready"]
  /\ task = [c \in Tasks |-> Idle]
  /\ sess = <<>> /\ auths = <<>> /\ effects = {} /\ player = "guest"

Arrive(c) == Opened(c) \/ SignedIn(c) \/ Read(c) \/ LoggedOut(c) \/ Recover(c) \/ Refused(c)

Next ==
  \/ \E c \in Tasks :
       \/ Serve(c) \/ Lose(c) \/ Arrive(c)
       \/ Spin(c) \/ SignIn(c) \/ Create(c) \/ Refresh(c) \/ RefreshSignedOut(c) \/ Logout(c)
       \/ Forget(c)
       \/ \E name \in {"casino", "cashier", "account", "history"} : Visit(c, name)
  \/ \E s \in 1..Len(sess) : ExpireSession(s)
  \/ \E t \in 1..Len(auths) : ExpireToken(t)

Spec == Init /\ [][Next]_vars

-----------------------------------------------------------------------------
(* Properties *)

(* One press of a button has at most one effect, though a spin whose session was gone is *)
(* sent a second time, for another session and perhaps another account.                  *)
OneEffectPerClick == \A e, f \in effects : e.task = f.task => e = f

(* A token that expired is not answered by playing on as a guest: whoever has signed in    *)
(* keeps a session that belongs to his account until he was told to sign in again, or a    *)
(* refresh of the account page forgot the token.                                           *)
NoSilentDowngrade == player = "player" /\ sid # None => sess[sid].protected

(* Whoever has signed in and was not told since has no guest's session, also after a refresh *)
(* of the account page: what the architecture says of every expired token.                   *)
ExpiryIsSurfaced == player \in {"player", "unaware"} /\ sid # None => sess[sid].protected

(* The token and the session the browser keeps are of the same account.               *)
SameAccount == tok # None /\ sid # None => sess[sid].account = auths[tok].account

(* A page shows work in progress. (The account page is left out: a refresh that fails *)
(* leaves it loading.)                                                                *)
Busy == page.shows \in {"loading", "submitting", "spinning"} /\ page.name # "account"
================================================================================
