------------------------------ MODULE StaffConsole ------------------------------
(******************************************************************************)
(* One tab with the operations console (OperationsConsole.jsx over            *)
(* operationsApi.js) and the routes that answer it: who is signed in, what    *)
(* its handlers ask for, several of them at once, and what an answer does to  *)
(* the state that is shown. An operation is decided by this console, by other *)
(* staff or by the provider. A token is named by its account: the tokens of   *)
(* one account are not told apart.                                            *)
(******************************************************************************)
EXTENDS PaymentRules, FiniteSets

CONSTANTS
  Accounts, Roles,   \* account -> its roles
  Ops, Kind,         \* payment operation -> its kind
  Players,           \* accounts that a search finds
  Tasks,             \* bound: handlers at work at a time
  Reassigns,         \* whether the roles of staff are changed
  None

ConsoleAssumption ==
  /\ Roles \in [Accounts -> SUBSET {"player", "support", "compliance", "finance", "admin"}]
  /\ Kind \in [Ops -> Kinds] /\ Reassigns \in BOOLEAN
  /\ None \notin Accounts \cup Ops \cup Players
  /\ \A caps \in SUBSET {"operations", "manage", "audit", "reconciliation", "player", "session"} :
       None # caps

VARIABLES
  ui,       \* the state of the page
  tok,      \* storage: the account token
  task,     \* task -> the handler it runs and its requests
  live,     \* server: the accounts whose token is good
  roles,    \* server: accounts.roles
  status,   \* server: payment_operations.status
  decided   \* history: what the console had decided [op, to, may: what the account might do when it pressed]

server == <<live, roles, status>>
vars == <<ui, tok, task, server, decided>>

-----------------------------------------------------------------------------
(* accessControl.js *)

Capabilities == {"operations", "manage", "audit", "reconciliation", "player", "session"}
RoleCapabilities(r) ==
  CASE r = "support" -> {"operations", "player", "session"}
    [] r = "compliance" -> {"operations", "audit", "player", "session"}
    [] r = "finance" -> {"operations", "manage", "reconciliation"}
    [] r = "admin" -> Capabilities
    [] OTHER -> {}
MayOf(rs) == UNION {RoleCapabilities(r) : r \in rs}

-----------------------------------------------------------------------------
(* The page and its tasks *)

Hidden == [op \in Ops |-> "none"]
Blank == [overview |-> None, state |-> "none", queue |-> Hidden, access |-> "checking",
          busy |-> None, evidence |-> {}, results |-> FALSE, selected |-> None,
          sessions |-> None, security |-> "idle"]

Requests == {"login", "logout", "overview", "queue", "audit", "reconciliation",
             "players", "sessions", "transition"}
Handlers == {"refresh", "login", "logout", "search", "select", "transition"}

NoCalls == [q \in {} |-> 0]
Idle == [by |-> "idle", calls |-> NoCalls]
Running(c) == DOMAIN task[c].calls # {}

Sent(a) == [tok |-> a, ans |-> "sent", got |-> None]
Asked(qs, a) == [q \in qs |-> Sent(a)]
Answers == {"sent", "admitted", "ok", "401", "403", "failed"}

TypeOK ==
  /\ ui.overview = None \/ ui.overview \in SUBSET Capabilities
  /\ ui.state \in {"none", "checking", "login", "forbidden", "error", "ready"}
  /\ ui.queue \in [Ops -> Statuses]
  /\ ui.access \in {"checking", "allowed", "not-permitted", "denied", "error"}
  /\ ui.busy \in Ops \cup {None} /\ ui.evidence \subseteq {"audit", "reconciliation"}
  /\ ui.selected \in Players \cup {None} /\ ui.sessions \in Players \cup {None}
  /\ ui.security \in {"idle", "loading", "loading-sessions", "ready", "error"}
  /\ tok \in Accounts \cup {None} /\ live \subseteq Accounts
  /\ \A c \in Tasks : Running(c) => /\ task[c].by \in Handlers
                                    /\ DOMAIN task[c].calls \subseteq Requests
                                    /\ \A q \in DOMAIN task[c].calls : task[c].calls[q].ans \in Answers
  /\ status \in [Ops -> Statuses] /\ \A d \in decided : d.op \in Ops /\ d.to \in Statuses

(* The requests left of a task once q is handled and others are asked for; a handler *)
(* whose requests are all answered is done.                                          *)
Left(c, q, asked) ==
  LET rest == [p \in DOMAIN task[c].calls \ {q} |-> task[c].calls[p]]
      calls == [p \in DOMAIN rest \cup DOMAIN asked |->
                  IF p \in DOMAIN asked THEN asked[p] ELSE rest[p]] IN
  IF DOMAIN calls = {} THEN Idle ELSE [task[c] EXCEPT !.calls = calls]

Goes(c, next) == task' = [task EXCEPT ![c] = next]
Answered(c, q, ans, got) ==
  Goes(c, [task[c] EXCEPT !.calls[q].ans = ans, !.calls[q].got = got])

-----------------------------------------------------------------------------
(* The server *)

NeedsToRead(q) == CASE q \in {"overview", "transition"} -> "operations"
                    [] q = "queue" -> "manage"
                    [] q = "players" -> "player"
                    [] q = "sessions" -> "session"
                    [] OTHER -> q

Needs(q) == CASE q = "overview" -> "operations"
              [] q \in {"queue", "transition"} -> "manage"
              [] q = "players" -> "player"
              [] q = "sessions" -> "session"
              [] OTHER -> q

(* requiredProfile: 401 without a good token, 403 without the capability. *)
Gate(a, q) == IF a \notin live THEN "401" ELSE IF Needs(q) \notin MayOf(roles[a]) THEN "403" ELSE "ok"

Reads(c, q) ==
  CASE q = "overview" -> MayOf(roles[task[c].calls[q].tok])
    [] q = "queue" -> status
    [] q = "sessions" -> task[c].player
    [] OTHER -> None

Serve(c, q) ==
  /\ Running(c) /\ q \in DOMAIN task[c].calls /\ task[c].calls[q].ans = "sent"
  /\ LET a == task[c].calls[q].tok g == Gate(a, q) IN
     \/ /\ q = "login" /\ live' = live \cup {task[c].who} /\ Answered(c, q, "ok", None)
     \/ /\ q = "login" /\ Answered(c, q, "401", None) /\ UNCHANGED live
     \/ /\ q = "logout" /\ live' = live \ {a}
        /\ Answered(c, q, IF a \in live THEN "ok" ELSE "401", None)
     \/ /\ q \notin {"login", "logout"} /\ UNCHANGED live
        /\ IF g # "ok" THEN Answered(c, q, g, None)
           ELSE Answered(c, q, IF q = "transition" THEN "admitted" ELSE "ok", Reads(c, q))
  /\ UNCHANGED <<ui, tok, roles, status, decided>>

OutcomeAsShown(op, action) == {r.to : r \in {r \in Table : r.kind = Kind[op] /\ r.action = action}}

(* The status after an action, if the rules have it from where the operation stands. *)
Outcome(op, action) ==
  {r.to : r \in {r \in Table : r.kind = Kind[op] /\ r.from = status[op] /\ r.action = action}}

(* The transition itself, later than the check. *)
Decide(c) ==
  /\ Running(c) /\ "transition" \in DOMAIN task[c].calls
  /\ task[c].calls["transition"].ans = "admitted"
  /\ LET op == task[c].op IN
     \/ \E to \in Outcome(op, task[c].action) :
          /\ status' = [status EXCEPT ![op] = to]
          /\ decided' = decided \cup {[op |-> op, to |-> to, may |-> task[c].may]}
          /\ Answered(c, "transition", "ok", None)
     \/ /\ Outcome(op, task[c].action) = {}
        /\ Answered(c, "transition", "failed", None) /\ UNCHANGED <<status, decided>>
  /\ UNCHANGED <<ui, tok, live, roles>>

(* A request or its answer is lost, or the server answers with another error. *)
Lose(c, q) ==
  /\ Running(c) /\ q \in DOMAIN task[c].calls /\ task[c].calls[q].ans # "failed"
  /\ Answered(c, q, "failed", None) /\ UNCHANGED <<ui, tok, server, decided>>

Expire(a) ==
  /\ a \in live /\ live' = live \ {a}
  /\ UNCHANGED <<ui, tok, task, roles, status, decided>>
Reassign(a) ==
  /\ Reassigns /\ \E rs \in {{"player"}, {"support"}} : roles[a] # rs /\ roles' = [roles EXCEPT ![a] = rs]
  /\ UNCHANGED <<ui, tok, task, live, status, decided>>
Elsewhere(op) ==
  /\ \E r \in Table : r.kind = Kind[op] /\ r.from = status[op] /\ status' = [status EXCEPT ![op] = r.to]
  /\ UNCHANGED <<ui, tok, task, live, roles, decided>>

-----------------------------------------------------------------------------
(* What an answer does *)

Arrived(c, q, ans) == Running(c) /\ q \in DOMAIN task[c].calls /\ task[c].calls[q].ans \in ans
Failures == {"401", "403", "failed"}

(* refreshFinanceQueue and refreshEvidence on an overview: what is not permitted is *)
(* emptied at once, the rest is asked for.                                          *)
Asks(caps) == (IF "manage" \in caps THEN {"queue"} ELSE {}) \cup (caps \cap {"audit", "reconciliation"})

WithQueueOfBefore(u, caps) == IF "manage" \in caps THEN u ELSE [u EXCEPT !.queue = Hidden]

WithoutQueue(u, caps) ==
  IF "manage" \in caps THEN u ELSE [u EXCEPT !.queue = Hidden, !.access = "not-permitted"]
Loading(u, caps) ==
  [WithoutQueue(u, caps) EXCEPT !.overview = caps, !.state = "ready", !.evidence = @ \cap caps]

CaughtInPlace(u, by, ans) == IF by = "refresh" THEN [u EXCEPT !.overview = None, !.queue = Hidden] ELSE u

(* The catch of a handler, of its first failure: later ones are ignored, but what the *)
(* answers that still arrive set is set.                                              *)
Caught(u, by, ans) ==
  LET state == CASE ans = "403" -> "forbidden" [] ans = "401" -> "login"
                 [] OTHER -> IF by = "login" THEN "login" ELSE "error" IN
  CASE by = "refresh" -> [u EXCEPT !.overview = None, !.queue = Hidden, !.state = state]
    [] by = "login" -> [u EXCEPT !.state = state]
    [] OTHER -> u

Rejected(c, q, u, ans) ==
  /\ ui' = IF task[c].caught THEN u ELSE Caught(u, task[c].by, ans)
  /\ LET left == Left(c, q, NoCalls) IN
     Goes(c, IF left = Idle THEN Idle ELSE [left EXCEPT !.caught = TRUE])

FinishedWhenRefreshed(by, u) == IF by = "transition" /\ u.access = "allowed" THEN [u EXCEPT !.busy = None] ELSE u

Finished(by, u) == IF by = "transition" THEN [u EXCEPT !.busy = None] ELSE u

OverviewRead(c) ==
  /\ Arrived(c, "overview", {"ok"})
  /\ LET caps == task[c].calls["overview"].got IN
     IF task[c].by = "transition"
     THEN /\ ui' = IF "manage" \in caps THEN [ui EXCEPT !.overview = caps]
                   ELSE Finished("transition", [WithoutQueue(ui, caps) EXCEPT !.overview = caps])
          /\ Goes(c, Left(c, "overview", Asked(Asks(caps) \cap {"queue"}, tok)))
     ELSE /\ ui' = Loading(ui, caps)
          /\ Goes(c, Left(c, "overview", Asked(Asks(caps), tok)))
  /\ UNCHANGED <<tok, server, decided>>

(* Without an overview a login is taken back before the page says so. *)
OverviewRefused(c) ==
  /\ Arrived(c, "overview", Failures)
  /\ LET ans == task[c].calls["overview"].ans IN
     IF task[c].by = "login"
     THEN /\ ui' = ui
          /\ Goes(c, [Left(c, "overview", Asked({"logout"}, tok)) EXCEPT !.error = ans])
     ELSE Rejected(c, "overview", Finished(task[c].by, ui), ans)
  /\ UNCHANGED <<tok, server, decided>>

QueueRead(c) ==
  /\ Arrived(c, "queue", {"ok", "403", "failed"})
  /\ LET r == task[c].calls["queue"] IN
     ui' = Finished(task[c].by,
             [ui EXCEPT !.queue = IF r.ans = "ok" THEN r.got ELSE Hidden,
                        !.access = CASE r.ans = "ok" -> "allowed" [] r.ans = "403" -> "denied"
                                     [] OTHER -> "error"])
  /\ Goes(c, Left(c, "queue", NoCalls)) /\ UNCHANGED <<tok, server, decided>>

QueueRefused(c) ==
  /\ Arrived(c, "queue", {"401"})
  /\ Rejected(c, "queue", Finished(task[c].by, [ui EXCEPT !.queue = Hidden]), "401")
  /\ UNCHANGED <<tok, server, decided>>

EvidenceRead(c, q) ==
  /\ Arrived(c, q, {"ok", "403", "failed", "401"})
  /\ LET ans == task[c].calls[q].ans
         u == [ui EXCEPT !.evidence = IF ans = "ok" THEN @ \cup {q} ELSE @ \ {q}] IN
     IF ans = "401" THEN Rejected(c, q, u, ans)
     ELSE ui' = u /\ Goes(c, Left(c, q, NoCalls))
  /\ UNCHANGED <<tok, server, decided>>

LoggedIn(c) ==
  /\ Arrived(c, "login", {"ok"})
  /\ tok' = task[c].who
  /\ Goes(c, Left(c, "login", Asked({"overview"}, task[c].who)))
  /\ UNCHANGED <<ui, server, decided>>

LoginRefused(c) ==
  /\ Arrived(c, "login", Failures)
  /\ Rejected(c, "login", ui, task[c].calls["login"].ans) /\ UNCHANGED <<tok, server, decided>>

ResetQueueOnly == [ui EXCEPT !.queue = Hidden, !.access = "checking"]

(* handleLogout resets the page whatever the answer was. *)
ResetPage == [Blank EXCEPT !.state = "login", !.busy = ui.busy]

LoggedOut(c) ==
  /\ Arrived(c, "logout", Failures \cup {"ok"})
  /\ tok' = None
  /\ IF task[c].by = "login" THEN Rejected(c, "logout", ui, task[c].error)
     ELSE ui' = ResetPage /\ Goes(c, Idle)
  /\ UNCHANGED <<server, decided>>

PlayersRead(c) ==
  /\ Arrived(c, "players", Failures \cup {"ok"})
  /\ LET ok == task[c].calls["players"].ans = "ok" IN
     ui' = [ui EXCEPT !.results = ok, !.security = IF ok THEN "ready" ELSE "error"]
  /\ Goes(c, Idle) /\ UNCHANGED <<tok, server, decided>>

SessionsRead(c) ==
  /\ Arrived(c, "sessions", Failures \cup {"ok"})
  /\ LET r == task[c].calls["sessions"] IN
     ui' = IF r.ans = "ok" THEN [ui EXCEPT !.sessions = r.got, !.security = "ready"]
           ELSE [ui EXCEPT !.security = "error"]
  /\ Goes(c, Idle) /\ UNCHANGED <<tok, server, decided>>

(* A decision is followed by a new overview and queue; finally the row is released. *)
Transitioned(c) ==
  /\ Arrived(c, "transition", Failures \cup {"ok"})
  /\ IF task[c].calls["transition"].ans = "ok"
     THEN ui' = ui /\ Goes(c, Left(c, "transition", Asked({"overview"}, tok)))
     ELSE ui' = Finished("transition", ui) /\ Goes(c, Idle)
  /\ UNCHANGED <<tok, server, decided>>

-----------------------------------------------------------------------------
(* The buttons *)

MayNow == IF tok \in Accounts THEN MayOf(roles[tok]) ELSE {}
Press(c, by, q, who, op, action, player) ==
  /\ task[c] = Idle
  /\ Goes(c, [by |-> by, calls |-> Asked({q}, tok), who |-> who, op |-> op, action |-> action,
              player |-> player, error |-> "none", caught |-> FALSE,
              may |-> IF by = "transition" THEN MayNow ELSE {}])
  /\ UNCHANGED <<tok, server, decided>>
Plain(c, by, q) == Press(c, by, q, None, None, "none", None)

Mount(c) == ui.state = "none" /\ Plain(c, "refresh", "overview") /\ ui' = [ui EXCEPT !.state = "checking"]
Refresh(c) == ui.state = "ready" /\ Plain(c, "refresh", "overview") /\ ui' = ui
Login(c) == \E a \in Accounts :
  /\ ui.state \in {"login", "error"} /\ Press(c, "login", "login", a, None, "none", None)
  /\ ui' = [ui EXCEPT !.state = "checking"]
Logout(c) == ui.state \in {"ready", "forbidden"} /\ tok # None /\ Plain(c, "logout", "logout") /\ ui' = ui
Close ==
  /\ ui.state \in {"ready", "forbidden"} /\ tok = None
  /\ ui' = ResetPage /\ UNCHANGED <<tok, task, server, decided>>

MaySearch == ui.state = "ready" /\ ui.overview # None /\ {"player", "session"} \subseteq ui.overview

SearchingOn == [ui EXCEPT !.security = "loading", !.selected = None]

Searching == [ui EXCEPT !.security = "loading", !.selected = None, !.sessions = None]

Search(c) ==
  /\ MaySearch /\ ui.security # "loading" /\ Plain(c, "search", "players")
  /\ ui' = Searching
Select(c, p) ==
  /\ MaySearch /\ ui.results /\ Press(c, "select", "sessions", None, None, "none", p)
  /\ ui' = [ui EXCEPT !.security = "loading-sessions", !.selected = p, !.sessions = None]

RejectAfterApproval(kind, st) ==
  CASE kind = "deposit" /\ st = "pending" -> {"complete", "fail"}
    [] kind = "withdrawal" /\ st = "reserved" -> {"approve", "reject", "fail"}
    [] kind = "withdrawal" /\ st = "approved" -> {"complete", "reject", "fail"}
    [] OTHER -> {}

(* paymentActions, and the buttons of a row that is not being worked on. *)
PaymentActions(kind, st) ==
  CASE kind = "deposit" /\ st = "pending" -> {"complete", "fail"}
    [] kind = "withdrawal" /\ st = "reserved" -> {"approve", "reject", "fail"}
    [] kind = "withdrawal" /\ st = "approved" -> {"complete", "fail"}
    [] OTHER -> {}

Offered(op) == IF ui.state = "ready" /\ ui.access = "allowed" THEN PaymentActions(Kind[op], ui.queue[op]) ELSE {}

Transition(c, op) ==
  /\ ui.busy # op
  /\ \E action \in Offered(op) : Press(c, "transition", "transition", None, op, action, None)
  /\ ui' = [ui EXCEPT !.busy = op]

Init ==
  /\ ui = Blank /\ task = [c \in Tasks |-> Idle]
  /\ live = Accounts /\ tok \in Accounts \cup {None} /\ roles = Roles
  /\ status = [op \in Ops |-> Initial(Kind[op])] /\ decided = {}

Arrive(c) ==
  \/ OverviewRead(c) \/ OverviewRefused(c) \/ QueueRead(c) \/ QueueRefused(c)
  \/ \E q \in {"audit", "reconciliation"} : EvidenceRead(c, q)
  \/ LoggedIn(c) \/ LoginRefused(c) \/ LoggedOut(c) \/ PlayersRead(c) \/ SessionsRead(c)
  \/ Transitioned(c)

ServeAny(c) == Decide(c) \/ \E q \in Requests : Serve(c, q)

Next ==
  \/ \E c \in Tasks :
       \/ ServeAny(c) \/ Arrive(c) \/ \E q \in Requests : Lose(c, q)
       \/ Mount(c) \/ Refresh(c) \/ Login(c) \/ Logout(c) \/ Search(c)
       \/ \E p \in Players : Select(c, p)
       \/ \E op \in Ops : Transition(c, op)
  \/ Close
  \/ \E a \in Accounts : Expire(a) \/ Reassign(a)
  \/ \E op \in Ops : Elsewhere(op)

Spec == Init /\ [][Next]_vars

-----------------------------------------------------------------------------
(* Properties *)

(* Whatever answers arrive in whatever order, the console is never open without an *)
(* overview and no operation is listed unless the list was allowed.                *)
ConsoleIsWhole ==
  /\ ui.state = "ready" => ui.overview # None
  /\ ui.queue # Hidden => ui.access = "allowed"

(* A row says that it is worked on only while its decision is under way.                *)
BusyMeansWorking ==
  ui.busy # None => \E c \in Tasks : Running(c) /\ task[c].by = "transition" /\ task[c].op = ui.busy

(* Every button offers a transition that the server's rules have from the status shown, *)
(* and every such transition has a button: two tables in two files.                     *)
ButtonsAreRules ==
  \A op \in Ops : ui.state = "ready" /\ ui.access = "allowed" =>
    Offered(op) = {r.action : r \in {r \in Table : r.kind = Kind[op] /\ r.from = ui.queue[op]}}

(* Where no rule leads on from. *)
Final == {"completed", "rejected", "failed"}

(* Nothing is decided for an account that had lost the right to manage payments before it   *)
(* pressed, though an overview older than that still shows it the buttons (a right lost later *)
(* is noticed by the check or not at all); and what is decided for good stands, whatever the  *)
(* staff, the provider or a handler that still shows an older row asks for later.             *)
DecisionsStand ==
  \A d \in decided : "manage" \in d.may /\ (d.to \in Final => status[d.op] = d.to)

(* The list of payments is shown to an account that may manage them.                     *)
QueueAsGranted ==
  ui.state = "ready" /\ ui.access = "allowed" => ui.overview # None /\ "manage" \in ui.overview

(* An open console belongs to someone signed in.                                       *)
OpenMeansSignedIn == ui.state = "ready" => tok # None

(* The sessions that are shown are those of the player that is shown.                     *)
SessionsOfSelected == ui.sessions # None => ui.sessions = ui.selected

(* One handler at a time: the staff waits for the console.                                *)
HandlersAwaited == \A c, d \in Tasks : c = d

(* What an open console shows is whole, what it shows as under way is, and its buttons are  *)
(* the rules; when its handlers are awaited it is also for whoever is signed in, as the     *)
(* server last granted it.                                                                  *)
ConsoleHolds ==
  /\ TypeOK /\ ConsoleIsWhole /\ BusyMeansWorking /\ ButtonsAreRules
  /\ HandlersAwaited => QueueAsGranted /\ OpenMeansSignedIn /\ SessionsOfSelected
================================================================================
