------------------------- MODULE ClientsProofs -------------------------
(***************************************************************************)
(* Safety of Clients, of each of its parts under its own specification:    *)
(* the console of the staff, the provider behind its webhook, and a player *)
(* in a browser.                                                           *)
(***************************************************************************)
EXTENDS Clients, Sequences, TLAPS

-----------------------------------------------------------------------------
(* The inductive invariant of the console *)

(* What a request brings: nothing, capabilities, a list of payments or a player. *)
Got == (SUBSET Capabilities) \cup [Ops -> Statuses] \cup Players \cup {None}

Call == [tok : Accounts \cup {None}, ans : Answers, got : Got]
Calls == UNION {[Q -> Call] : Q \in SUBSET Requests}
Work == [by : Handlers, calls : Calls, who : Accounts \cup {None}, op : Ops \cup {None},
         action : Actions \cup {"none"}, player : Players \cup {None},
         error : Answers \cup {"none"}, caught : BOOLEAN, may : SUBSET Capabilities]

(* The requests of each handler. *)
Evidence == {"audit", "reconciliation"}
RequestsOf(by) ==
  CASE by = "refresh" -> {"overview", "queue"} \cup Evidence
    [] by = "login" -> {"login", "logout", "overview", "queue"} \cup Evidence
    [] by = "logout" -> {"logout"}
    [] by = "search" -> {"players"}
    [] by = "select" -> {"sessions"}
    [] by = "transition" -> {"transition", "overview", "queue"}

(* A handler asks for one thing after the other, but for what an overview permits. *)
InTurn(w) ==
  \/ \E q \in Requests : DOMAIN w.calls = {q}
  \/ DOMAIN w.calls \subseteq {"queue"} \cup Evidence

(* What was let through by the server was asked with a token, and brings what it should. *)
Brings(w, q) ==
  LET r == w.calls[q] IN
  /\ r.ans \in {"ok", "admitted"} =>
       /\ q \notin {"login", "logout"} => r.tok # None
       /\ q = "overview" => r.got \in SUBSET Capabilities
       /\ q = "queue" => r.got \in [Ops -> Statuses]
       /\ q = "sessions" => r.got = w.player
  /\ r.ans = "admitted" => q = "transition"

WorkOK(w) ==
  /\ w \in Work
  /\ DOMAIN w.calls # {} /\ DOMAIN w.calls \subseteq RequestsOf(w.by)
  /\ InTurn(w)
  /\ \A q \in DOMAIN w.calls : Brings(w, q)
  /\ w.by = "login" => w.who \in Accounts
  /\ w.by = "select" => w.player \in Players
  /\ w.by = "transition" => w.op \in Ops
  /\ "logout" \in DOMAIN w.calls /\ w.by = "login" => w.error \in Failures

TasksOK == \A c \in Tasks : task[c] = Idle \/ WorkOK(task[c])

Page == [overview : (SUBSET Capabilities) \cup {None},
         state : {"none", "checking", "login", "forbidden", "error", "ready"},
         queue : [Ops -> Statuses],
         access : {"checking", "allowed", "not-permitted", "denied", "error"},
         busy : Ops \cup {None}, evidence : SUBSET Evidence, results : BOOLEAN,
         selected : Players \cup {None}, sessions : Players \cup {None},
         security : {"idle", "loading", "loading-sessions", "ready", "error"}]

TypesOK ==
  /\ ConsoleAssumption
  /\ ui \in Page
  /\ task \in [Tasks -> Work \cup {Idle}]
  /\ tok \in Accounts \cup {None} /\ live \subseteq Accounts
  /\ roles \in [Accounts -> SUBSET {"player", "support", "compliance", "finance", "admin"}]
  /\ status \in [Ops -> Statuses]
  /\ \A d \in decided : d.op \in Ops /\ d.to \in Statuses

(* With one handler at a time: it works with the token that is kept, for the page that it *)
(* was started from.                                                                      *)
Awaited(c) ==
  task[c] # Idle =>
    /\ \A q \in DOMAIN task[c].calls : task[c].calls[q].tok = tok
    /\ task[c].by = "login" /\ DOMAIN task[c].calls \cap {"login", "logout", "overview"} # {} =>
         ui.state # "ready"
    /\ task[c].by = "select" => ui.state = "ready" /\ ui.selected = task[c].player
    /\ "queue" \in DOMAIN task[c].calls /\ ui.state = "ready" =>
         ui.overview # None /\ "manage" \in ui.overview

AwaitedHolds ==
  /\ \A c \in Tasks : Awaited(c)
  /\ QueueAsGranted /\ OpenMeansSignedIn /\ SessionsOfSelected

Inv ==
  /\ TypesOK
  /\ TasksOK
  /\ ConsoleIsWhole
  /\ BusyMeansWorking
  /\ HandlersAwaited => AwaitedHolds

-----------------------------------------------------------------------------
(* Tasks *)

(* A task that is not idle is running. *)
LEMMA RunningWorks ==
  ASSUME Inv, NEW c \in Tasks
  PROVE  /\ Running(c) => task[c] # Idle
         /\ task[c] # Idle => WorkOK(task[c]) /\ Running(c) /\ task[c] \in Work
<1>1. DOMAIN NoCalls = {}
  BY DEF NoCalls
<1>2. Idle.calls = NoCalls
  BY DEF Idle
<1> QED
  BY <1>1, <1>2 DEF Running, Inv, TasksOK, WorkOK

(* A request of a task. *)
LEMMA CallIsCall ==
  ASSUME NEW w \in Work, NEW q \in DOMAIN w.calls
  PROVE  w.calls[q] \in Call /\ q \in Requests
<1>1. PICK Q \in SUBSET Requests : w.calls \in [Q -> Call]
  BY DEF Work, Calls
<1> QED
  BY <1>1

(* A request is answered. *)
Reply(w, q, ans, got) == [w EXCEPT !.calls[q].ans = ans, !.calls[q].got = got]

(* It is still a request, beside the others. *)
LEMMA Replied ==
  ASSUME NEW w \in Work, NEW q \in DOMAIN w.calls, NEW ans \in Answers, NEW got \in Got
  PROVE  LET n == Reply(w, q, ans, got) IN
         /\ n \in Work /\ DOMAIN n.calls = DOMAIN w.calls
         /\ n.by = w.by /\ n.who = w.who /\ n.op = w.op /\ n.action = w.action
         /\ n.player = w.player /\ n.error = w.error /\ n.caught = w.caught /\ n.may = w.may
         /\ n.calls[q].ans = ans /\ n.calls[q].got = got /\ n.calls[q].tok = w.calls[q].tok
         /\ \A p \in DOMAIN w.calls \ {q} : n.calls[p] = w.calls[p]
<1>1. PICK Q \in SUBSET Requests : w.calls \in [Q -> Call] /\ q \in Q /\ DOMAIN w.calls = Q
  BY DEF Work, Calls
<1> DEFINE r == [[w.calls[q] EXCEPT !.ans = ans] EXCEPT !.got = got]
           calls == [w.calls EXCEPT ![q] = r]
<1>2. r \in Call /\ r.ans = ans /\ r.got = got /\ r.tok = w.calls[q].tok
  BY <1>1 DEF Call
<1>3. Reply(w, q, ans, got) = [w EXCEPT !.calls = calls]
  BY <1>1 DEF Reply, Work
<1> HIDE DEF r
<1>4. /\ calls \in [Q -> Call] /\ DOMAIN calls = Q /\ calls[q] = r
      /\ \A p \in Q \ {q} : calls[p] = w.calls[p]
  BY <1>1, <1>2
<1> HIDE DEF calls
<1>5. calls \in Calls
  BY <1>4 DEF Calls
<1>6. /\ [w EXCEPT !.calls = calls] \in Work /\ [w EXCEPT !.calls = calls].calls = calls
      /\ [w EXCEPT !.calls = calls].by = w.by /\ [w EXCEPT !.calls = calls].who = w.who
      /\ [w EXCEPT !.calls = calls].op = w.op /\ [w EXCEPT !.calls = calls].action = w.action
      /\ [w EXCEPT !.calls = calls].player = w.player /\ [w EXCEPT !.calls = calls].error = w.error
      /\ [w EXCEPT !.calls = calls].caught = w.caught /\ [w EXCEPT !.calls = calls].may = w.may
  BY <1>5 DEF Work
<1> QED
  BY <1>1, <1>2, <1>3, <1>4, <1>6

(* What is left of a task. *)
LEMMA WhatIsLeft ==
  ASSUME NEW c \in Tasks, task[c] \in Work, NEW q \in DOMAIN task[c].calls, NEW asked \in Calls
  PROVE  LET D == (DOMAIN task[c].calls \ {q}) \cup DOMAIN asked
             n == Left(c, q, asked) IN
         IF D = {} THEN n = Idle
         ELSE /\ n \in Work /\ DOMAIN n.calls = D
              /\ n.by = task[c].by /\ n.who = task[c].who /\ n.op = task[c].op
              /\ n.player = task[c].player /\ n.error = task[c].error /\ n.caught = task[c].caught
              /\ \A p \in DOMAIN asked : n.calls[p] = asked[p]
              /\ \A p \in (DOMAIN task[c].calls \ {q}) \ DOMAIN asked :
                   n.calls[p] = task[c].calls[p]
<1>1. PICK Q \in SUBSET Requests : task[c].calls \in [Q -> Call] /\ DOMAIN task[c].calls = Q
  BY DEF Work, Calls
<1>2. PICK A \in SUBSET Requests : asked \in [A -> Call] /\ DOMAIN asked = A
  BY DEF Calls
<1> DEFINE D == (Q \ {q}) \cup A
           rest == [p \in Q \ {q} |-> task[c].calls[p]]
           calls == [p \in DOMAIN rest \cup A |-> IF p \in A THEN asked[p] ELSE rest[p]]
<1>3. /\ calls \in [D -> Call] /\ DOMAIN calls = D
      /\ \A p \in A : calls[p] = asked[p]
      /\ \A p \in (Q \ {q}) \ A : calls[p] = task[c].calls[p]
  BY <1>1, <1>2
<1>4. Left(c, q, asked) = IF DOMAIN calls = {} THEN Idle ELSE [task[c] EXCEPT !.calls = calls]
  BY <1>1, <1>2 DEF Left
<1> HIDE DEF calls
<1>5. calls \in Calls
  BY <1>3 DEF Calls
<1>6. /\ [task[c] EXCEPT !.calls = calls] \in Work
      /\ [task[c] EXCEPT !.calls = calls].calls = calls
      /\ [task[c] EXCEPT !.calls = calls].by = task[c].by
      /\ [task[c] EXCEPT !.calls = calls].who = task[c].who
      /\ [task[c] EXCEPT !.calls = calls].op = task[c].op
      /\ [task[c] EXCEPT !.calls = calls].player = task[c].player
      /\ [task[c] EXCEPT !.calls = calls].error = task[c].error
      /\ [task[c] EXCEPT !.calls = calls].caught = task[c].caught
  BY <1>5 DEF Work
<1> QED
  BY <1>1, <1>2, <1>3, <1>4, <1>6

(* An answer leaves a task in order if it brings what it should. *)
LEMMA ReplyOK ==
  ASSUME NEW w, WorkOK(w), NEW q \in DOMAIN w.calls, NEW ans \in Answers, NEW got \in Got,
         NEW n, n = Reply(w, q, ans, got), Brings(n, q)
  PROVE  WorkOK(n) /\ n # Idle
<1>1. /\ n \in Work /\ DOMAIN n.calls = DOMAIN w.calls
      /\ n.by = w.by /\ n.who = w.who /\ n.op = w.op
      /\ n.player = w.player /\ n.error = w.error
      /\ \A p \in DOMAIN w.calls \ {q} : n.calls[p] = w.calls[p]
  BY Replied DEF WorkOK
<1>2. \A p \in DOMAIN w.calls \ {q} : Brings(n, p)
  BY <1>1 DEF WorkOK, Brings
<1>3. WorkOK(n)
  BY <1>1, <1>2 DEF WorkOK, InTurn
<1> QED
  BY <1>3 DEF WorkOK, Idle, NoCalls

(* So does one that is handled. *)
LEMMA LeftOK ==
  ASSUME NEW c \in Tasks, WorkOK(task[c]), NEW q \in DOMAIN task[c].calls, NEW asked \in Calls,
         \A p \in DOMAIN asked : asked[p].ans = "sent",
         DOMAIN asked \subseteq RequestsOf(task[c].by) \ {"logout"},
         \/ DOMAIN asked = {}
         \/ /\ DOMAIN task[c].calls = {q}
            /\ \/ \E p \in Requests : DOMAIN asked = {p}
               \/ DOMAIN asked \subseteq {"queue"} \cup Evidence,
         NEW n, n = Left(c, q, asked)
  PROVE  n = Idle \/ WorkOK(n)
<1> DEFINE D == (DOMAIN task[c].calls \ {q}) \cup DOMAIN asked
<1>1. \/ n = Idle
      \/ /\ D # {}
         /\ n \in Work /\ DOMAIN n.calls = D
         /\ n.by = task[c].by /\ n.who = task[c].who /\ n.op = task[c].op
         /\ n.player = task[c].player /\ n.error = task[c].error
         /\ \A p \in DOMAIN asked : n.calls[p] = asked[p]
         /\ \A p \in (DOMAIN task[c].calls \ {q}) \ DOMAIN asked : n.calls[p] = task[c].calls[p]
  BY WhatIsLeft DEF WorkOK
<1> SUFFICES ASSUME n # Idle
             PROVE  WorkOK(n)
  OBVIOUS
<1>2. \A p \in D : Brings(n, p)
  BY <1>1 DEF WorkOK, Brings
<1>3. InTurn(n)
  BY <1>1 DEF WorkOK, InTurn
<1> QED
  BY <1>1, <1>2, <1>3 DEF WorkOK

(* A task that waits for one answer. *)
Only(w, q) == DOMAIN w.calls = {q}

(* What is left of it is what it asks for next. *)
LEMMA LeftOfOne ==
  ASSUME NEW c \in Tasks, task[c] \in Work, NEW q, Only(task[c], q),
         NEW asked \in Calls, DOMAIN asked # {},
         NEW n, n = Left(c, q, asked)
  PROVE  /\ n # Idle /\ n \in Work /\ DOMAIN n.calls = DOMAIN asked
         /\ \A p \in DOMAIN asked : n.calls[p] = asked[p]
         /\ n.by = task[c].by /\ n.who = task[c].who /\ n.op = task[c].op
         /\ n.player = task[c].player /\ n.error = task[c].error /\ n.caught = task[c].caught
<1>1. q \in DOMAIN task[c].calls /\ (DOMAIN task[c].calls \ {q}) \cup DOMAIN asked = DOMAIN asked
  BY DEF Only
<1>2. /\ n \in Work /\ DOMAIN n.calls = DOMAIN asked
      /\ \A p \in DOMAIN asked : n.calls[p] = asked[p]
      /\ n.by = task[c].by /\ n.who = task[c].who /\ n.op = task[c].op
      /\ n.player = task[c].player /\ n.error = task[c].error /\ n.caught = task[c].caught
  BY <1>1, WhatIsLeft
<1>3. n # Idle
  BY <1>2 DEF Idle, NoCalls
<1> QED
  BY <1>2, <1>3

(* Nothing is. *)
LEMMA NothingIsLeft ==
  ASSUME NEW c \in Tasks, task[c] \in Work, NEW q, Only(task[c], q),
         NEW asked \in Calls, DOMAIN asked = {},
         NEW n, n = Left(c, q, asked)
  PROVE  n = Idle
<1>1. q \in DOMAIN task[c].calls /\ (DOMAIN task[c].calls \ {q}) \cup DOMAIN asked = {}
  BY DEF Only
<1> QED
  BY <1>1, WhatIsLeft

(* What is asked for is sent. *)
LEMMA AskedIsSent ==
  ASSUME NEW Q \in SUBSET Requests, NEW a \in Accounts \cup {None}
  PROVE  /\ Asked(Q, a) \in Calls /\ DOMAIN Asked(Q, a) = Q
         /\ \A p \in Q : /\ Asked(Q, a)[p].ans = "sent" /\ Asked(Q, a)[p].tok = a
                         /\ Asked(Q, a)[p].got = None
<1>1. Sent(a) \in Call /\ Sent(a).ans = "sent" /\ Sent(a).tok = a /\ Sent(a).got = None
  <2>1. None \in Got
    BY Zenon DEF Got
  <2> QED
    BY <2>1 DEF Sent, Call, Answers
<1>2. Asked(Q, a) \in [Q -> Call]
  BY <1>1 DEF Asked
<1> QED
  BY <1>1, <1>2 DEF Asked, Calls

(* Nothing is asked for. *)
LEMMA NothingIsAsked == NoCalls \in Calls /\ DOMAIN NoCalls = {}
<1>1. NoCalls \in [{} -> Call]
  BY DEF NoCalls
<1> QED
  BY <1>1 DEF Calls

(* One task moves. *)
LEMMA Moves ==
  ASSUME Inv, NEW c \in Tasks, NEW next, Goes(c, next), next = Idle \/ WorkOK(next)
  PROVE  /\ TasksOK' /\ task' \in [Tasks -> Work \cup {Idle}]
         /\ task'[c] = next /\ \A d \in Tasks \ {c} : task'[d] = task[d]
<1>1. next \in Work \cup {Idle}
  BY DEF WorkOK
<1>2. /\ task' \in [Tasks -> Work \cup {Idle}]
      /\ task'[c] = next /\ \A d \in Tasks \ {c} : task'[d] = task[d]
  BY <1>1 DEF Goes, Inv, TypesOK
<1>3. WorkOK(next) => WorkOK(next)'
  BY DEF WorkOK, InTurn, Brings
<1>4. \A d \in Tasks : WorkOK(task[d]) /\ task'[d] = task[d] => WorkOK(task'[d])
  OBVIOUS
<1> QED
  BY <1>2, <1>3, <1>4 DEF Inv, TasksOK

(* A row stays busy while its task works. *)
LEMMA StaysBusy ==
  ASSUME Inv, NEW c \in Tasks, NEW next, Goes(c, next), next = Idle \/ WorkOK(next),
         \/ ui'.busy = None
         \/ /\ ui'.busy = ui.busy
            /\ task[c] = Idle \/ task[c].by # "transition"
         \/ /\ ui'.busy = ui.busy
            /\ next # Idle /\ next.by = task[c].by /\ next.op = task[c].op
         \/ next # Idle /\ next.by = "transition" /\ next.op = ui'.busy
  PROVE  BusyMeansWorking'
<1>1. task'[c] = next /\ \A d \in Tasks \ {c} : task'[d] = task[d]
  BY Moves
<1>2. next # Idle => DOMAIN next.calls # {}
  BY DEF WorkOK
<1>3. \A d \in Tasks \ {c} : Running(d) => Running(d)'
  BY <1>1 DEF Running
<1>4. next # Idle => Running(c)'
  BY <1>1, <1>2 DEF Running
<1>5. task[c] = Idle => ~Running(c)
  BY DEF Running, Idle, NoCalls
<1> QED
  BY <1>1, <1>3, <1>4, <1>5 DEF Inv, BusyMeansWorking

(* With one handler at a time there is no other. *)
LEMMA NoOther ==
  ASSUME HandlersAwaited, NEW c \in Tasks, Awaited(c)'
  PROVE  \A d \in Tasks : Awaited(d)'
  BY DEF HandlersAwaited

(* What a task may ask for at once. *)
MayAsk(w, Q) ==
  /\ Q \in SUBSET Requests /\ Q \subseteq RequestsOf(w.by) \ {"logout"}
  /\ (\E p \in Requests : Q = {p}) \/ Q \subseteq {"queue"} \cup Evidence

(* The task that has asked for it. *)
AsksFor(w, next, Q, a) ==
  /\ WorkOK(next) /\ next # Idle /\ DOMAIN next.calls = Q
  /\ \A p \in Q : next.calls[p].tok = a
  /\ next.by = w.by /\ next.op = w.op /\ next.player = w.player
  /\ next.who = w.who /\ next.caught = w.caught

(* A task that waited for one answer asks for what comes next. *)
LEMMA AsksNext ==
  ASSUME NEW c \in Tasks, WorkOK(task[c]), NEW q, Only(task[c], q),
         NEW Q, MayAsk(task[c], Q), Q # {}, NEW a \in Accounts \cup {None},
         NEW next, next = Left(c, q, Asked(Q, a))
  PROVE  AsksFor(task[c], next, Q, a)
<1>1. PICK asked : asked = Asked(Q, a)
  OBVIOUS
<1>2. Q \in SUBSET Requests /\ asked \in Calls /\ DOMAIN asked = Q
  BY <1>1, AskedIsSent DEF MayAsk
<1>3. \A p \in Q : asked[p].ans = "sent" /\ asked[p].tok = a
  BY <1>1, <1>2, AskedIsSent
<1>4. task[c] \in Work /\ q \in DOMAIN task[c].calls /\ next = Left(c, q, asked)
  BY <1>1 DEF WorkOK, Only
<1>5. next = Idle \/ WorkOK(next)
  BY <1>2, <1>3, <1>4, LeftOK DEF Only, MayAsk
<1>6. /\ next # Idle /\ DOMAIN next.calls = DOMAIN asked
      /\ \A p \in DOMAIN asked : next.calls[p] = asked[p]
      /\ next.by = task[c].by /\ next.op = task[c].op /\ next.player = task[c].player
      /\ next.who = task[c].who /\ next.caught = task[c].caught
  BY <1>2, <1>4, LeftOfOne
<1> QED
  BY <1>2, <1>3, <1>5, <1>6 DEF AsksFor

(* A task that asks for nothing more is done. *)
LEMMA AsksNothing ==
  ASSUME NEW c \in Tasks, WorkOK(task[c]), NEW q, Only(task[c], q),
         NEW a \in Accounts \cup {None}, NEW next,
         next = Left(c, q, Asked({}, a)) \/ next = Left(c, q, NoCalls)
  PROVE  next = Idle
<1>1. /\ Asked({}, a) \in Calls /\ DOMAIN Asked({}, a) = {}
      /\ NoCalls \in Calls /\ DOMAIN NoCalls = {} /\ task[c] \in Work
  BY AskedIsSent, NothingIsAsked DEF WorkOK
<1> QED
  BY <1>1, NothingIsLeft


-----------------------------------------------------------------------------
(* The page *)

(* Payments that may not be managed are hidden. *)
LEMMA QueuePage ==
  ASSUME NEW u \in Page, NEW caps
  PROVE  LET l == WithoutQueue(u, caps) IN
         /\ l \in Page /\ l.state = u.state
         /\ l.busy = u.busy /\ l.selected = u.selected /\ l.sessions = u.sessions
         /\ "manage" \in caps => l = u
         /\ "manage" \notin caps => l.queue = Hidden /\ l.access = "not-permitted"
<1>1. Hidden \in [Ops -> Statuses]
  BY DEF Hidden, Statuses
<1>2. CASE "manage" \in caps
  BY <1>2 DEF WithoutQueue
<1>3. CASE "manage" \notin caps
  <2>1. WithoutQueue(u, caps) = [u EXCEPT !.queue = Hidden, !.access = "not-permitted"]
    BY <1>3 DEF WithoutQueue
  <2> QED
    BY <1>1, <1>3, <2>1 DEF Page
<1> QED
  BY <1>2, <1>3

(* The parts of the page that an overview sets. *)
LEMMA LoadingPage ==
  ASSUME NEW u \in Page, NEW caps \in SUBSET Capabilities
  PROVE  LET l == Loading(u, caps) IN
         /\ l \in Page /\ l.overview = caps /\ l.state = "ready"
         /\ l.busy = u.busy /\ l.selected = u.selected /\ l.sessions = u.sessions
         /\ "manage" \in caps => l.queue = u.queue /\ l.access = u.access
         /\ "manage" \notin caps => l.queue = Hidden /\ l.access = "not-permitted"
<1>1. PICK w : w = WithoutQueue(u, caps)
  OBVIOUS
<1>2. w \in Page
  BY <1>1, QueuePage
<1>3. Loading(u, caps) =
        [w EXCEPT !.overview = caps, !.state = "ready", !.evidence = w.evidence \cap caps]
  BY <1>1, <1>2 DEF Loading, Page
<1>4. LET l == Loading(u, caps) IN
      /\ l \in Page /\ l.overview = caps /\ l.state = "ready"
      /\ l.busy = w.busy /\ l.selected = w.selected /\ l.sessions = w.sessions
      /\ l.queue = w.queue /\ l.access = w.access
  <2>1. PICK e : e = w.evidence \cap caps
    OBVIOUS
  <2>3. PICK l : l = [w EXCEPT !.overview = caps, !.state = "ready", !.evidence = e]
    OBVIOUS
  <2>2. e \in SUBSET Evidence
    <3>1. w.evidence \in SUBSET Evidence
      BY <1>2 DEF Page
    <3> QED
      BY <2>1, <3>1
  <2> QED
    BY <1>2, <1>3, <2>1, <2>2, <2>3 DEF Page
<1> QED
  BY <1>1, <1>4, QueuePage

(* A decision reads the overview and not the rest. *)
Reread(u, caps) == [u EXCEPT !.overview = caps]

(* It leaves everything else as it was. *)
LEMMA RereadPage ==
  ASSUME NEW u \in Page, NEW caps \in SUBSET Capabilities
  PROVE  LET l == Reread(WithoutQueue(u, caps), caps)
             k == Reread(u, caps) IN
         /\ l \in Page /\ l.overview = caps /\ l.state = u.state
         /\ l.busy = u.busy /\ l.selected = u.selected /\ l.sessions = u.sessions
         /\ "manage" \notin caps => l.queue = Hidden /\ l.access = "not-permitted"
         /\ k \in Page /\ k.overview = caps /\ k.state = u.state /\ k.busy = u.busy
         /\ k.selected = u.selected /\ k.sessions = u.sessions
         /\ k.queue = u.queue /\ k.access = u.access
<1>1. PICK w : w = WithoutQueue(u, caps)
  OBVIOUS
<1>2. w \in Page
  BY <1>1, QueuePage
<1>3. LET l == Reread(w, caps) IN
      /\ l \in Page /\ l.overview = caps /\ l.state = w.state
      /\ l.busy = w.busy /\ l.selected = w.selected /\ l.sessions = w.sessions
      /\ l.queue = w.queue /\ l.access = w.access
  BY <1>2 DEF Reread, Page
<1>4. LET k == Reread(u, caps) IN
      /\ k \in Page /\ k.overview = caps /\ k.state = u.state /\ k.busy = u.busy
      /\ k.selected = u.selected /\ k.sessions = u.sessions
      /\ k.queue = u.queue /\ k.access = u.access
  BY DEF Reread, Page
<1> QED
  BY <1>1, <1>3, <1>4, QueuePage

(* The row is released in the end. *)
LEMMA FinishedPage ==
  ASSUME NEW u \in Page, NEW by
  PROVE  LET l == Finished(by, u) IN
         /\ l \in Page /\ l.overview = u.overview /\ l.state = u.state
         /\ l.queue = u.queue /\ l.access = u.access
         /\ l.selected = u.selected /\ l.sessions = u.sessions
         /\ l.busy = IF by = "transition" THEN None ELSE u.busy
  BY DEF Finished, Page

(* The same of a page with a name. *)
FinishedAs(by, u, l) ==
  /\ l \in Page /\ l.overview = u.overview /\ l.state = u.state
  /\ l.queue = u.queue /\ l.access = u.access
  /\ l.selected = u.selected /\ l.sessions = u.sessions
  /\ l.busy = IF by = "transition" THEN None ELSE u.busy

(* So says this. *)
LEMMA FinishedIsPage ==
  ASSUME NEW u \in Page, NEW by, NEW l, l = Finished(by, u)
  PROVE  FinishedAs(by, u, l)
  BY FinishedPage DEF FinishedAs

(* A failure is caught. *)
LEMMA CaughtPage ==
  ASSUME NEW u \in Page, NEW by \in Handlers, NEW ans
  PROVE  LET l == Caught(u, by, ans) IN
         /\ l \in Page /\ l.busy = u.busy /\ l.selected = u.selected /\ l.sessions = u.sessions
         /\ l.access = u.access
         /\ l = u \/ l.state \in {"forbidden", "login", "error"}
         /\ l.queue = u.queue \/ l.queue = Hidden
         /\ by \in {"refresh", "login"} => l.state \in {"forbidden", "login", "error"}
         /\ by \notin {"refresh", "login"} => l = u
<1>1. Hidden \in [Ops -> Statuses]
  BY DEF Hidden, Statuses
<1> DEFINE s == CASE ans = "403" -> "forbidden" [] ans = "401" -> "login"
                  [] OTHER -> IF by = "login" THEN "login" ELSE "error"
<1>2. s \in {"forbidden", "login", "error"}
  OBVIOUS
<1>6. None \in (SUBSET Capabilities) \cup {None}
  BY Zenon
<1>3. CASE by = "refresh"
  <2>1. Caught(u, by, ans) = [u EXCEPT !.overview = None, !.queue = Hidden, !.state = s]
    BY <1>3 DEF Caught
  <2> HIDE DEF s
  <2> QED
    BY <1>1, <1>2, <1>3, <1>6, <2>1 DEF Page
<1>4. CASE by = "login"
  <2>1. Caught(u, by, ans) = [u EXCEPT !.state = s]
    BY <1>4 DEF Caught
  <2> HIDE DEF s
  <2> QED
    BY <1>2, <1>4, <2>1 DEF Page
<1>5. CASE by \notin {"refresh", "login"}
  BY <1>5 DEF Caught
<1> QED
  BY <1>3, <1>4, <1>5

(* The page is reset. *)
LEMMA ResetIsPage ==
  ASSUME ui \in Page
  PROVE  /\ ResetPage \in Page /\ ResetPage.state = "login" /\ ResetPage.queue = Hidden
         /\ ResetPage.busy = ui.busy /\ ResetPage.sessions = None
<1>1. Hidden \in [Ops -> Statuses]
  BY DEF Hidden, Statuses
<1>2. /\ None \in (SUBSET Capabilities) \cup {None} /\ None \in Players \cup {None}
      /\ {} \in SUBSET Evidence /\ None \in Ops \cup {None}
  BY Zenon
<1>3. Blank \in Page /\ Blank.queue = Hidden /\ Blank.sessions = None
  BY <1>1, <1>2 DEF Blank, Page
<1> QED
  BY <1>1, <1>3 DEF ResetPage, Page

(* A page that keeps its queue and overview, or is not open, is whole. *)
LEMMA StaysWhole ==
  ASSUME Inv,
         ui'.state = "ready" => ui'.overview # None,
         \/ ui'.queue = Hidden \/ ui'.access = "allowed"
         \/ ui'.queue = ui.queue /\ ui'.access = ui.access
  PROVE  ConsoleIsWhole'
  BY DEF Inv, ConsoleIsWhole, Hidden

-----------------------------------------------------------------------------
(* The server's steps *)

(* Nothing of the page or of the tokens changes. *)
LEMMA Replies ==
  ASSUME Inv, NEW c \in Tasks, NEW q \in DOMAIN task[c].calls, task[c] # Idle,
         NEW ans \in Answers, NEW got \in Got, Answered(c, q, ans, got),
         Brings(Reply(task[c], q, ans, got), q), UNCHANGED <<ui, tok>>
  PROVE  /\ TasksOK' /\ task' \in [Tasks -> Work \cup {Idle}]
         /\ ConsoleIsWhole' /\ BusyMeansWorking'
         /\ HandlersAwaited => AwaitedHolds'
<1> DEFINE n == Reply(task[c], q, ans, got)
<1>1. WorkOK(task[c]) /\ task[c] \in Work
  BY RunningWorks
<1>2. Goes(c, n)
  BY DEF Answered, Reply
<1>3. WorkOK(n) /\ n # Idle
  BY <1>1, ReplyOK
<1>4. /\ DOMAIN n.calls = DOMAIN task[c].calls
      /\ n.by = task[c].by /\ n.op = task[c].op /\ n.player = task[c].player
      /\ \A p \in DOMAIN task[c].calls : n.calls[p].tok = task[c].calls[p].tok
  BY <1>1, Replied
<1> HIDE DEF n
<1>5. /\ TasksOK' /\ task' \in [Tasks -> Work \cup {Idle}] /\ task'[c] = n
  BY <1>2, <1>3, Moves
<1>6. BusyMeansWorking'
  BY <1>2, <1>3, <1>4, StaysBusy
<1>7. ASSUME HandlersAwaited PROVE AwaitedHolds'
  <2>1. Awaited(c)'
    BY <1>4, <1>5, <1>7 DEF Inv, AwaitedHolds, Awaited
  <2>2. \A d \in Tasks : Awaited(d)'
    BY <1>7, <2>1, NoOther
  <2> QED
    BY <1>7, <2>2 DEF Inv, AwaitedHolds, QueueAsGranted, OpenMeansSignedIn, SessionsOfSelected
<1> QED
  BY <1>5, <1>6, <1>7 DEF Inv, ConsoleIsWhole, Hidden

(* A request is answered with what it may see, if its token may see it. *)
LEMMA ServeInv ==
  ASSUME Inv, NEW c \in Tasks, NEW q \in Requests, Serve(c, q)
  PROVE  Inv'
<1> DEFINE a == task[c].calls[q].tok
           g == Gate(a, q)
<1>1. /\ Running(c) /\ q \in DOMAIN task[c].calls
      /\ UNCHANGED <<ui, tok, roles, status, decided>>
  BY DEF Serve
<1>2. task[c] # Idle /\ WorkOK(task[c]) /\ task[c] \in Work
  BY <1>1, RunningWorks
<1>3. a \in Accounts \cup {None} /\ task[c].who \in Accounts \cup {None}
  BY <1>1, <1>2, CallIsCall DEF Call, Work
<1>4. \E ans \in Answers, got \in Got :
        /\ Answered(c, q, ans, got)
        /\ Brings(Reply(task[c], q, ans, got), q)
        /\ live' \subseteq Accounts
  <2>1. /\ None \in Got /\ {"ok", "401", "403", "admitted"} \subseteq Answers
        /\ live \subseteq Accounts
    BY DEF Got, Answers, Inv, TypesOK
  <2>2. CASE q = "login"
    <3>1. task[c].who \in Accounts
      BY <1>1, <1>2, <2>2 DEF WorkOK, RequestsOf, Work, Handlers, Evidence
    <3>2. PICK ans \in {"ok", "401"} : Answered(c, q, ans, None) /\ live' \subseteq Accounts
      BY <2>1, <2>2, <3>1 DEF Serve
    <3>3. Brings(Reply(task[c], q, ans, None), q)
      BY <1>1, <1>2, <2>1, <2>2, <3>2, Replied DEF Brings
    <3> QED
      BY <2>1, <3>2, <3>3
  <2>3. CASE q = "logout"
    <3>1. PICK ans \in {"ok", "401"} : Answered(c, q, ans, None) /\ live' \subseteq Accounts
      BY <2>1, <2>3 DEF Serve
    <3>2. Brings(Reply(task[c], q, ans, None), q)
      BY <1>1, <1>2, <2>1, <2>3, <3>1, Replied DEF Brings
    <3> QED
      BY <2>1, <3>1, <3>2
  <2>4. CASE q \notin {"login", "logout"} /\ g # "ok"
    <3>1. Answered(c, q, g, None) /\ g \in {"401", "403"} /\ live' = live
      BY <2>4 DEF Serve, Gate
    <3>2. Brings(Reply(task[c], q, g, None), q)
      BY <1>1, <1>2, <2>1, <3>1, Replied DEF Brings
    <3> QED
      BY <2>1, <3>1, <3>2
  <2>5. CASE q \notin {"login", "logout"} /\ g = "ok"
    <3>1. PICK ans, got : /\ ans = (IF q = "transition" THEN "admitted" ELSE "ok")
                          /\ got = Reads(c, q)
      OBVIOUS
    <3>2. Answered(c, q, ans, got) /\ live' = live
      BY <2>5, <3>1 DEF Serve
    <3>3. a \in live /\ Needs(q) \in MayOf(roles[a])
      BY <2>5 DEF Gate
    <3>4. MayOf(roles[a]) \in SUBSET Capabilities /\ a # None
      BY <2>1, <3>3 DEF Inv, TypesOK, ConsoleAssumption, MayOf, RoleCapabilities, Capabilities
    <3>5. /\ q = "overview" => got = MayOf(roles[a])
          /\ q = "queue" => got = status
          /\ q = "sessions" => got = task[c].player
          /\ q \notin {"overview", "queue", "sessions"} => got = None
      BY <3>1 DEF Reads
    <3>6. got \in Got
      <4>1. task[c].player \in Players \cup {None} /\ status \in [Ops -> Statuses]
        BY <1>2 DEF Work, Inv, TypesOK
      <4> QED
        BY <2>1, <3>4, <3>5, <4>1 DEF Got
    <3>8. Brings(Reply(task[c], q, ans, got), q)
      <4>1. ans \in Answers
        BY <2>1, <3>1
      <4>2. PICK n : n = Reply(task[c], q, ans, got)
        OBVIOUS
      <4>3. /\ n.calls[q].ans = ans /\ n.calls[q].got = got /\ n.calls[q].tok = a
            /\ n.player = task[c].player
        BY <1>1, <1>2, <3>6, <4>1, <4>2, Replied
      <4>4. status \in [Ops -> Statuses]
        BY DEF Inv, TypesOK
      <4> QED
        BY <3>1, <3>4, <3>5, <4>2, <4>3, <4>4 DEF Brings
    <3> QED
      BY <2>1, <3>1, <3>2, <3>6, <3>8
  <2> QED
    BY <2>2, <2>3, <2>4, <2>5
<1>5. /\ TasksOK' /\ task' \in [Tasks -> Work \cup {Idle}]
      /\ ConsoleIsWhole' /\ BusyMeansWorking'
      /\ HandlersAwaited => AwaitedHolds'
  BY <1>1, <1>2, <1>4, Replies
<1> QED
  BY <1>1, <1>4, <1>5 DEF Inv, TypesOK

(* The transition is made, or refused by the rules. *)
LEMMA DecideInv ==
  ASSUME Inv, NEW c \in Tasks, Decide(c)
  PROVE  Inv'
<1> DEFINE op == task[c].op
           to == Outcome(op, task[c].action)
<1>1. /\ Running(c) /\ "transition" \in DOMAIN task[c].calls
      /\ task[c].calls["transition"].ans = "admitted"
      /\ UNCHANGED <<ui, tok, live, roles>>
  BY DEF Decide
<1>2. task[c] # Idle /\ WorkOK(task[c]) /\ task[c] \in Work
  BY <1>1, RunningWorks
<1>4. op \in Ops
  BY <1>1, <1>2 DEF WorkOK, RequestsOf, Work, Handlers, Evidence
<1>5. \E ans \in Answers : /\ ans \in {"ok", "failed"}
                           /\ Answered(c, "transition", ans, None)
  BY DEF Decide, Answers
<1>6. PICK ans \in {"ok", "failed"} : Answered(c, "transition", ans, None)
  BY <1>5
<1>7. None \in Got /\ ans \in Answers
  BY <1>6 DEF Got, Answers
<1>8. Brings(Reply(task[c], "transition", ans, None), "transition")
  <2>1. PICK n : n = Reply(task[c], "transition", ans, None)
    OBVIOUS
  <2>2. /\ n.calls["transition"].ans = ans /\ n.calls["transition"].got = None
        /\ n.calls["transition"].tok = task[c].calls["transition"].tok
    BY <1>1, <1>2, <1>7, <2>1, Replied
  <2>3. task[c].calls["transition"].tok # None
    BY <1>1, <1>2 DEF WorkOK, Brings
  <2> QED
    BY <1>6, <2>1, <2>2, <2>3 DEF Brings
<1>9. /\ TasksOK' /\ task' \in [Tasks -> Work \cup {Idle}]
      /\ ConsoleIsWhole' /\ BusyMeansWorking'
      /\ HandlersAwaited => AwaitedHolds'
  BY <1>1, <1>2, <1>6, <1>7, <1>8, Replies
<1>10. to \subseteq Statuses
  BY DEF Outcome, Table, Rule, Statuses
<1>11. status' \in [Ops -> Statuses] /\ \A e \in decided' : e.op \in Ops /\ e.to \in Statuses
  <2>1. CASE UNCHANGED <<status, decided>>
    BY <2>1 DEF Inv, TypesOK
  <2>2. CASE \E t \in to : /\ status' = [status EXCEPT ![op] = t]
                           /\ decided' = decided \cup {[op |-> op, to |-> t, may |-> task[c].may]}
    BY <1>4, <1>10, <2>2 DEF Inv, TypesOK
  <2> QED
    BY <2>1, <2>2 DEF Decide
<1> QED
  BY <1>1, <1>9, <1>11 DEF Inv, TypesOK

(* An answer is lost. *)
LEMMA LoseInv ==
  ASSUME Inv, NEW c \in Tasks, NEW q \in Requests, Lose(c, q)
  PROVE  Inv'
<1>1. /\ Running(c) /\ q \in DOMAIN task[c].calls
      /\ Answered(c, q, "failed", None) /\ UNCHANGED <<ui, tok, live, roles, status, decided>>
  BY DEF Lose, server
<1>2. task[c] # Idle /\ WorkOK(task[c]) /\ task[c] \in Work
  BY <1>1, RunningWorks
<1>3. None \in Got /\ "failed" \in Answers
  BY DEF Got, Answers
<1>4. Brings(Reply(task[c], q, "failed", None), q)
  BY <1>1, <1>2, <1>3, Replied DEF Brings
<1>5. /\ TasksOK' /\ task' \in [Tasks -> Work \cup {Idle}]
      /\ ConsoleIsWhole' /\ BusyMeansWorking'
      /\ HandlersAwaited => AwaitedHolds'
  BY <1>1, <1>2, <1>3, <1>4, Replies
<1> QED
  BY <1>1, <1>5 DEF Inv, TypesOK

(* Tokens expire, roles are changed, payments go on without the console. *)
LEMMA ElsewhereInv ==
  ASSUME Inv, \/ \E a \in Accounts : Expire(a) \/ Reassign(a)
              \/ \E op \in Ops : Elsewhere(op)
  PROVE  Inv'
<1>1. UNCHANGED <<ui, tok, task, decided>>
  BY DEF Expire, Reassign, Elsewhere
<1>2. TypesOK'
  <2>1. \A r \in Table : r.to \in Statuses
    BY DEF Table, Rule, Statuses
  <2>2. live' \subseteq Accounts
    BY DEF Expire, Reassign, Elsewhere, Inv, TypesOK
  <2>3. status' \in [Ops -> Statuses]
    BY <2>1 DEF Expire, Reassign, Elsewhere, Inv, TypesOK
  <2>4. roles' \in [Accounts -> SUBSET {"player", "support", "compliance", "finance", "admin"}]
    BY DEF Expire, Reassign, Elsewhere, Inv, TypesOK
  <2> QED
    BY <1>1, <2>2, <2>3, <2>4 DEF Inv, TypesOK
<1>3. TasksOK' /\ BusyMeansWorking'
  BY <1>1 DEF Inv, TasksOK, WorkOK, InTurn, Brings, BusyMeansWorking, Running
<1>4. AwaitedHolds => AwaitedHolds'
  BY <1>1 DEF AwaitedHolds, Awaited, QueueAsGranted, OpenMeansSignedIn, SessionsOfSelected
<1> QED
  BY <1>1, <1>2, <1>3, <1>4 DEF Inv, ConsoleIsWhole, Hidden

(* Nothing happens. *)
LEMMA IdleInv ==
  ASSUME Inv, UNCHANGED vars
  PROVE  Inv'
<1>1. UNCHANGED <<ui, tok, task, decided, live, roles, status>>
  BY DEF vars, server
<1>2. TypesOK' /\ TasksOK' /\ BusyMeansWorking'
  BY <1>1 DEF Inv, TypesOK, TasksOK, WorkOK, InTurn, Brings, BusyMeansWorking, Running
<1>3. AwaitedHolds => AwaitedHolds'
  BY <1>1 DEF AwaitedHolds, Awaited, QueueAsGranted, OpenMeansSignedIn, SessionsOfSelected
<1> QED
  BY <1>1, <1>2, <1>3 DEF Inv, ConsoleIsWhole, Hidden

-----------------------------------------------------------------------------
(* What an answer does *)

(* What a step of one task on the page and the token has to keep. *)
LEMMA TaskMoves ==
  ASSUME Inv, NEW c \in Tasks, NEW next, Goes(c, next), next = Idle \/ WorkOK(next),
         ui' \in Page, tok' \in Accounts \cup {None}, UNCHANGED <<live, roles, status, decided>>,
         ui'.state = "ready" => ui'.overview # None,
         \/ ui'.queue = Hidden \/ ui'.access = "allowed"
         \/ ui'.queue = ui.queue /\ ui'.access = ui.access,
         \/ ui'.busy = None
         \/ ui'.busy = ui.busy /\ (task[c] = Idle \/ task[c].by # "transition")
         \/ /\ ui'.busy = ui.busy
            /\ next # Idle /\ next.by = task[c].by /\ next.op = task[c].op
         \/ next # Idle /\ next.by = "transition" /\ next.op = ui'.busy,
         HandlersAwaited /\ AwaitedHolds =>
           /\ task'[c] = next => Awaited(c)'
           /\ QueueAsGranted' /\ OpenMeansSignedIn' /\ SessionsOfSelected'
  PROVE  Inv'
<1>1. TasksOK' /\ task' \in [Tasks -> Work \cup {Idle}] /\ task'[c] = next
  BY Moves
<1>2. ConsoleIsWhole'
  BY StaysWhole
<1>3. BusyMeansWorking'
  BY StaysBusy
<1>4. ASSUME HandlersAwaited PROVE AwaitedHolds'
  <2>1. Awaited(c)' /\ QueueAsGranted' /\ OpenMeansSignedIn' /\ SessionsOfSelected'
    BY <1>1, <1>4 DEF Inv
  <2> QED
    BY <1>4, <2>1, NoOther DEF AwaitedHolds
<1> QED
  BY <1>1, <1>2, <1>3, <1>4 DEF Inv, TypesOK, HandlersAwaited

(* A request whose answer is looked at. *)
LEMMA Arriving ==
  ASSUME Inv, NEW c \in Tasks, NEW q, NEW ans, Arrived(c, q, ans)
  PROVE  /\ task[c] # Idle /\ task[c] \in Work /\ WorkOK(task[c])
         /\ q \in DOMAIN task[c].calls /\ q \in RequestsOf(task[c].by) /\ Brings(task[c], q)
         /\ task[c].calls[q].ans \in ans /\ task[c].calls[q] \in Call
         /\ task[c].by \in Handlers /\ ui \in Page
         /\ (q \notin {"queue"} \cup Evidence => DOMAIN task[c].calls = {q})
         /\ HandlersAwaited => Awaited(c)
<1>1. task[c] # Idle /\ WorkOK(task[c]) /\ task[c] \in Work
  BY RunningWorks DEF Arrived
<1>2. q \in DOMAIN task[c].calls /\ task[c].calls[q].ans \in ans
  BY DEF Arrived
<1>3. DOMAIN task[c].calls = {q} \/ q \in {"queue"} \cup Evidence
  BY <1>1, <1>2 DEF WorkOK, InTurn
<1>4. task[c].by \in Handlers /\ ui \in Page
  BY <1>1 DEF Work, Inv, TypesOK
<1> QED
  BY <1>1, <1>2, <1>3, <1>4, CallIsCall DEF WorkOK, Inv, AwaitedHolds

(* The overview of a decision. *)
LEMMA OverviewOfDecision ==
  ASSUME Inv, NEW c \in Tasks, OverviewRead(c), task[c].by = "transition"
  PROVE  Inv'
<1>0. PICK caps, asks, next :
        /\ caps = task[c].calls["overview"].got
        /\ asks = Asks(caps) \cap {"queue"} /\ next = Left(c, "overview", Asked(asks, tok))
  OBVIOUS
<1>1. /\ task[c] # Idle /\ task[c] \in Work /\ WorkOK(task[c])
      /\ DOMAIN task[c].calls = {"overview"} /\ Brings(task[c], "overview")
      /\ task[c].calls["overview"].ans = "ok" /\ ui \in Page
      /\ HandlersAwaited => Awaited(c)
  BY Arriving DEF OverviewRead, Evidence
<1>2. caps \in SUBSET Capabilities
  BY <1>0, <1>1 DEF Brings
<1>3. /\ asks = IF "manage" \in caps THEN {"queue"} ELSE {}
      /\ asks \in SUBSET Requests
  BY <1>0 DEF Asks, Requests
<1>4. tok \in Accounts \cup {None} /\ UNCHANGED <<tok, live, roles, status, decided>>
  BY DEF Inv, TypesOK, OverviewRead, server
<1>5. /\ next = Idle \/ WorkOK(next)
      /\ asks = {} => next = Idle
      /\ asks # {} => /\ next # Idle /\ DOMAIN next.calls = asks
                       /\ \A p \in asks : next.calls[p].tok = tok
                       /\ next.by = task[c].by /\ next.op = task[c].op
  <2>1. Only(task[c], "overview") /\ MayAsk(task[c], asks)
    BY <1>1, <1>3 DEF Only, MayAsk, RequestsOf, Handlers, Evidence
  <2>2. CASE asks = {}
    BY <1>0, <1>1, <1>4, <2>1, <2>2, AsksNothing
  <2>3. CASE asks # {}
    <3>1. AsksFor(task[c], next, asks, tok)
      BY <1>0, <1>1, <1>4, <2>1, <2>3, AsksNext
    <3> QED
      BY <2>3, <3>1 DEF AsksFor
  <2> QED
    BY <2>2, <2>3
<1>6. Goes(c, next)
  BY <1>0 DEF OverviewRead
<1>7. next = Idle \/ WorkOK(next)
  BY <1>5
<1>8. IF asks = {} THEN next = Idle
      ELSE /\ next # Idle /\ DOMAIN next.calls = {"queue"} /\ next.calls["queue"].tok = tok
           /\ next.by = "transition" /\ next.op = task[c].op
  BY <1>1, <1>3, <1>5
<1>9. CASE "manage" \in caps
  <2>1. ui' = Reread(ui, caps)
    BY <1>0, <1>9 DEF OverviewRead, Reread
  <2>2. /\ ui' \in Page /\ ui'.overview = caps /\ ui'.state = ui.state /\ ui'.busy = ui.busy
        /\ ui'.selected = ui.selected /\ ui'.sessions = ui.sessions
        /\ ui'.queue = ui.queue /\ ui'.access = ui.access
    BY <1>1, <1>2, <2>1, RereadPage
  <2>3. caps # None
    BY <1>2 DEF Inv, TypesOK, ConsoleAssumption, Capabilities
  <2>4. HandlersAwaited /\ AwaitedHolds =>
          /\ task'[c] = next => Awaited(c)'
          /\ QueueAsGranted' /\ OpenMeansSignedIn' /\ SessionsOfSelected'
    BY <1>3, <1>4, <1>8, <1>9, <2>2, <2>3
    DEF AwaitedHolds, Awaited, QueueAsGranted, OpenMeansSignedIn, SessionsOfSelected
  <2> QED
    BY <1>1, <1>3, <1>4, <1>6, <1>7, <1>8, <1>9, <2>2, <2>3, <2>4, TaskMoves
<1>10. CASE "manage" \notin caps
  <2>1. ui' = Finished("transition", Reread(WithoutQueue(ui, caps), caps))
    BY <1>0, <1>10 DEF OverviewRead, Reread
  <2>2. /\ ui' \in Page /\ ui'.overview = caps /\ ui'.state = ui.state /\ ui'.busy = None
        /\ ui'.selected = ui.selected /\ ui'.sessions = ui.sessions
        /\ ui'.queue = Hidden /\ ui'.access = "not-permitted"
    <3>1. PICK l : l = Reread(WithoutQueue(ui, caps), caps)
      OBVIOUS
    <3>2. /\ l \in Page /\ l.overview = caps /\ l.state = ui.state
          /\ l.selected = ui.selected /\ l.sessions = ui.sessions
          /\ l.queue = Hidden /\ l.access = "not-permitted"
      BY <1>1, <1>2, <1>10, <3>1, RereadPage
    <3> QED
      BY <2>1, <3>1, <3>2, FinishedPage
  <2>3. caps # None
    BY <1>2 DEF Inv, TypesOK, ConsoleAssumption, Capabilities
  <2>4. HandlersAwaited /\ AwaitedHolds =>
          /\ task'[c] = next => Awaited(c)'
          /\ QueueAsGranted' /\ OpenMeansSignedIn' /\ SessionsOfSelected'
    BY <1>3, <1>4, <1>8, <1>10, <2>2, <2>3
    DEF AwaitedHolds, Awaited, QueueAsGranted, OpenMeansSignedIn, SessionsOfSelected
  <2> QED
    BY <1>1, <1>4, <1>6, <1>7, <2>2, <2>3, <2>4, TaskMoves
<1> QED
  BY <1>9, <1>10

(* The overview of a page that loads. *)
LEMMA OverviewOfPage ==
  ASSUME Inv, NEW c \in Tasks, OverviewRead(c), task[c].by # "transition"
  PROVE  Inv'
<1>0. PICK caps, asks, next :
        /\ caps = task[c].calls["overview"].got
        /\ asks = Asks(caps) /\ next = Left(c, "overview", Asked(asks, tok))
  OBVIOUS
<1>1. /\ task[c] # Idle /\ task[c] \in Work /\ WorkOK(task[c])
      /\ DOMAIN task[c].calls = {"overview"} /\ Brings(task[c], "overview")
      /\ "overview" \in RequestsOf(task[c].by) /\ task[c].by \in Handlers
      /\ task[c].calls["overview"].ans = "ok" /\ ui \in Page
      /\ HandlersAwaited => Awaited(c)
  BY Arriving DEF OverviewRead, Evidence
<1>2. caps \in SUBSET Capabilities /\ task[c].calls["overview"].tok # None
  BY <1>0, <1>1 DEF Brings
<1>3. /\ "queue" \in asks <=> "manage" \in caps
      /\ asks \subseteq {"queue"} \cup Evidence
      /\ asks \in SUBSET Requests
  BY <1>0 DEF Asks, Requests, Evidence
<1>4. tok \in Accounts \cup {None} /\ UNCHANGED <<tok, live, roles, status, decided>>
  BY DEF Inv, TypesOK, OverviewRead, server
<1>5. /\ next = Idle \/ WorkOK(next)
      /\ asks = {} => next = Idle
      /\ asks # {} => /\ next # Idle /\ DOMAIN next.calls = asks
                       /\ \A p \in asks : next.calls[p].tok = tok
                       /\ next.by = task[c].by /\ next.op = task[c].op
  <2>1. Only(task[c], "overview") /\ MayAsk(task[c], asks)
    BY <1>1, <1>3 DEF Only, MayAsk, RequestsOf, Handlers, Evidence
  <2>2. CASE asks = {}
    BY <1>0, <1>1, <1>4, <2>1, <2>2, AsksNothing
  <2>3. CASE asks # {}
    <3>1. AsksFor(task[c], next, asks, tok)
      BY <1>0, <1>1, <1>4, <2>1, <2>3, AsksNext
    <3> QED
      BY <2>3, <3>1 DEF AsksFor
  <2> QED
    BY <2>2, <2>3
<1>6. Goes(c, next) /\ ui' = Loading(ui, caps)
  BY <1>0 DEF OverviewRead
<1>7. task[c].by \in {"refresh", "login"}
  BY <1>1 DEF RequestsOf, Handlers
<1>8. next = Idle \/ WorkOK(next)
  BY <1>5
<1>9. \/ next = Idle
      \/ /\ DOMAIN next.calls = asks /\ \A p \in asks : next.calls[p].tok = tok
         /\ next.by = task[c].by
  BY <1>5
<1>10. /\ ui' \in Page /\ ui'.overview = caps /\ ui'.state = "ready" /\ ui'.busy = ui.busy
       /\ ui'.selected = ui.selected /\ ui'.sessions = ui.sessions
       /\ "manage" \in caps => ui'.queue = ui.queue /\ ui'.access = ui.access
       /\ "manage" \notin caps => ui'.queue = Hidden /\ ui'.access = "not-permitted"
  BY <1>1, <1>2, <1>6, LoadingPage
<1>11. caps # None
  BY <1>2 DEF Inv, TypesOK, ConsoleAssumption, Capabilities
<1>12. HandlersAwaited /\ AwaitedHolds =>
         /\ task'[c] = next => Awaited(c)'
         /\ QueueAsGranted' /\ OpenMeansSignedIn' /\ SessionsOfSelected'
  <2> SUFFICES ASSUME HandlersAwaited, AwaitedHolds
               PROVE  /\ task'[c] = next => Awaited(c)'
                      /\ QueueAsGranted' /\ OpenMeansSignedIn' /\ SessionsOfSelected'
    OBVIOUS
  <2>1. tok # None
    BY <1>1, <1>2 DEF Awaited
  <2>2. task'[c] = next => Awaited(c)'
    BY <1>3, <1>4, <1>7, <1>9, <1>10, <1>11 DEF Awaited, Evidence
  <2> QED
    BY <1>4, <1>10, <1>11, <2>1, <2>2
    DEF AwaitedHolds, QueueAsGranted, OpenMeansSignedIn, SessionsOfSelected
<1> QED
  BY <1>1, <1>4, <1>6, <1>7, <1>8, <1>10, <1>11, <1>12, TaskMoves

(* The rest of a task once an answer is handled and nothing more is asked for. *)
Keeps(w, next, q) ==
  \/ next = Idle
  \/ /\ WorkOK(next) /\ next # Idle /\ q \notin DOMAIN next.calls
     /\ DOMAIN next.calls \subseteq DOMAIN w.calls \cap ({"queue"} \cup Evidence)
     /\ \A p \in DOMAIN next.calls : next.calls[p].tok = w.calls[p].tok
     /\ next.by = w.by /\ next.by # "select" /\ next.op = w.op

(* Left is such a rest. *)
LEMMA KeepsRest ==
  ASSUME NEW c \in Tasks, WorkOK(task[c]), NEW q \in DOMAIN task[c].calls,
         NEW next, next = Left(c, q, NoCalls)
  PROVE  Keeps(task[c], next, q)
<1> DEFINE D == DOMAIN task[c].calls \ {q}
<1>1. NoCalls \in Calls /\ DOMAIN NoCalls = {} /\ task[c] \in Work
  BY NothingIsAsked DEF WorkOK
<1>2. next = Idle \/ WorkOK(next)
  BY <1>1, LeftOK
<1>3. \/ next = Idle
      \/ /\ D # {}
         /\ next \in Work /\ DOMAIN next.calls = D
         /\ next.by = task[c].by /\ next.op = task[c].op
         /\ \A p \in D : next.calls[p] = task[c].calls[p]
  BY <1>1, WhatIsLeft
<1> SUFFICES ASSUME next # Idle
             PROVE  Keeps(task[c], next, q)
  BY DEF Keeps
<1>4. DOMAIN task[c].calls \subseteq {"queue"} \cup Evidence
  BY <1>3 DEF WorkOK, InTurn
<1>5. next.by # "select"
  BY <1>2, <1>3, <1>4 DEF WorkOK, RequestsOf, Evidence
<1> QED
  BY <1>2, <1>3, <1>4, <1>5 DEF Keeps

(* Nothing is left of a task that waited for one answer. *)
LEMMA KeepsNothing ==
  ASSUME NEW c \in Tasks, NEW q, Only(task[c], q), NEW next, Keeps(task[c], next, q)
  PROVE  next = Idle
  BY DEF Keeps, Only, WorkOK

(* A task notes that it has caught a failure, or which. *)
Noting(w, f, x) == [w EXCEPT ![f] = x]

(* It goes on as it was. *)
LEMMA NotingOK ==
  ASSUME NEW w, WorkOK(w), NEW f, NEW x,
         (f = "caught" /\ x \in BOOLEAN) \/ (f = "error" /\ x \in Failures)
  PROVE  /\ WorkOK(Noting(w, f, x)) /\ Noting(w, f, x) # Idle /\ Noting(w, f, x).calls = w.calls
         /\ Noting(w, f, x).by = w.by /\ Noting(w, f, x).op = w.op
         /\ Noting(w, f, x).player = w.player
<1>1. PICK n : n = Noting(w, f, x)
  OBVIOUS
<1>2. /\ n \in Work /\ n.calls = w.calls /\ n.by = w.by /\ n.who = w.who /\ n.op = w.op
      /\ n.player = w.player /\ (n.error = w.error \/ n.error \in Failures)
  BY <1>1 DEF Noting, WorkOK, Work, Failures, Answers
<1>3. WorkOK(n)
  BY <1>2 DEF WorkOK, InTurn, Brings
<1>4. n # Idle
  BY <1>3 DEF WorkOK, Idle, NoCalls
<1> QED
  BY <1>1, <1>2, <1>3, <1>4

(* The page after a failure is caught. *)
CaughtAs(u, l) ==
  /\ l \in Page /\ l.busy = u.busy /\ l.selected = u.selected /\ l.sessions = u.sessions
  /\ l.access = u.access
  /\ l = u \/ l.state \in {"forbidden", "login", "error"}
  /\ l.queue = u.queue \/ l.queue = Hidden

(* The page is that, and the task is left. *)
LEMMA RejectedKeeps ==
  ASSUME Inv, NEW c \in Tasks, WorkOK(task[c]), NEW q \in DOMAIN task[c].calls,
         NEW u \in Page, NEW ans, Rejected(c, q, u, ans)
  PROVE  CaughtAs(u, ui') /\ \E next : Goes(c, next) /\ Keeps(task[c], next, q)
<1>1. task[c].by \in Handlers
  BY DEF WorkOK, Work
<1>2. CaughtAs(u, ui')
  <2>1. CASE task[c].caught
    <3>1. ui' = u
      BY <2>1 DEF Rejected
    <3> QED
      BY <3>1 DEF CaughtAs
  <2>2. CASE ~task[c].caught
    <3>1. PICK l : l = Caught(u, task[c].by, ans)
      OBVIOUS
    <3>2. ui' = l
      BY <2>2, <3>1 DEF Rejected
    <3>3. CaughtAs(u, l)
      BY <1>1, <3>1, CaughtPage DEF CaughtAs
    <3> QED
      BY <3>2, <3>3
  <2> QED
    BY <2>1, <2>2
<1>3. PICK left : left = Left(c, q, NoCalls)
  OBVIOUS
<1>4. Keeps(task[c], left, q)
  BY <1>3, KeepsRest
<1>5. CASE left = Idle
  BY <1>2, <1>3, <1>4, <1>5 DEF Rejected
<1>6. CASE left # Idle
  <2>1. PICK n : n = Noting(left, "caught", TRUE)
    OBVIOUS
  <2>2. Goes(c, n)
    BY <1>3, <1>6, <2>1 DEF Rejected, Noting
  <2>3. WorkOK(left)
    BY <1>4, <1>6 DEF Keeps
  <2>4. WorkOK(n) /\ n # Idle /\ n.calls = left.calls /\ n.by = left.by /\ n.op = left.op
    BY <2>1, <2>3, NotingOK
  <2>5. Keeps(task[c], n, q)
    BY <1>4, <1>6, <2>4 DEF Keeps
  <2> QED
    BY <1>2, <2>2, <2>5
<1> QED
  BY <1>5, <1>6

(* What the handling of an answer has to keep when nothing more is asked for. *)
LEMMA Handled ==
  ASSUME Inv, NEW c \in Tasks, NEW q, NEW ans, Arrived(c, q, ans),
         NEW next, Goes(c, next), Keeps(task[c], next, q),
         ui' \in Page, UNCHANGED <<tok, server, decided>>,
         ui'.state # "ready" \/ (ui'.state = ui.state /\ ui'.overview = ui.overview),
         \/ ui'.queue = Hidden \/ ui'.access = "allowed"
         \/ ui'.queue = ui.queue /\ ui'.access = ui.access,
         ui'.access # "allowed" \/ ui'.access = ui.access \/ q = "queue",
         ui'.selected = ui.selected,
         ui'.sessions = ui.sessions \/ (task[c].by = "select" /\ ui'.sessions = task[c].player),
         \/ ui'.busy = None
         \/ ui'.busy = ui.busy /\ task[c].by # "transition"
         \/ ui'.busy = ui.busy /\ next # Idle
  PROVE  Inv'
<1>1. /\ task[c] # Idle /\ WorkOK(task[c]) /\ q \in DOMAIN task[c].calls
      /\ HandlersAwaited => Awaited(c)
  BY Arriving
<1>2. next = Idle \/ WorkOK(next)
  BY DEF Keeps
<1>3. UNCHANGED <<tok, live, roles, status, decided>>
  BY DEF server
<1>4. tok' \in Accounts \cup {None}
  BY <1>3 DEF Inv, TypesOK
<1>5. ui'.state = "ready" => ui'.overview # None
  BY DEF Inv, ConsoleIsWhole
<1>6. HandlersAwaited /\ AwaitedHolds =>
        /\ task'[c] = next => Awaited(c)'
        /\ QueueAsGranted' /\ OpenMeansSignedIn' /\ SessionsOfSelected'
  <2> SUFFICES ASSUME HandlersAwaited, AwaitedHolds
               PROVE  /\ task'[c] = next => Awaited(c)'
                      /\ QueueAsGranted' /\ OpenMeansSignedIn' /\ SessionsOfSelected'
    OBVIOUS
  <2>1. task'[c] = next => Awaited(c)'
    <3>1. CASE next = Idle
      BY <3>1 DEF Awaited
    <3>2. CASE next # Idle
      <4>1. /\ \A p \in DOMAIN next.calls : next.calls[p].tok = tok
            /\ DOMAIN next.calls \cap {"login", "logout", "overview"} = {}
            /\ next.by # "select"
            /\ "queue" \in DOMAIN next.calls => "queue" \in DOMAIN task[c].calls
        BY <1>1, <3>2 DEF Keeps, Awaited, Evidence
      <4>2. "queue" \in DOMAIN next.calls /\ ui'.state = "ready" =>
              ui'.overview # None /\ "manage" \in ui'.overview
        BY <1>1, <4>1 DEF Awaited
      <4> QED
        BY <1>3, <4>1, <4>2 DEF Awaited
    <3> QED
      BY <3>1, <3>2
  <2>2. QueueAsGranted'
    BY <1>1 DEF Awaited, AwaitedHolds, QueueAsGranted
  <2>3. OpenMeansSignedIn'
    BY <1>3 DEF AwaitedHolds, OpenMeansSignedIn
  <2>4. SessionsOfSelected'
    BY <1>1 DEF Awaited, AwaitedHolds, SessionsOfSelected
  <2> QED
    BY <2>1, <2>2, <2>3, <2>4
<1>7. next # Idle => next.by = task[c].by /\ next.op = task[c].op
  BY DEF Keeps
<1> QED
  BY <1>1, <1>2, <1>3, <1>4, <1>5, <1>6, <1>7, TaskMoves

(* The list of payments, or that it may not be shown. *)
LEMMA QueueReadInv ==
  ASSUME Inv, NEW c \in Tasks, QueueRead(c)
  PROVE  Inv'
<1>1. PICK r, next : r = task[c].calls["queue"] /\ next = Left(c, "queue", NoCalls)
  OBVIOUS
<1>2. /\ Arrived(c, "queue", {"ok", "403", "failed"}) /\ Goes(c, next)
      /\ UNCHANGED <<tok, server, decided>>
  BY <1>1 DEF QueueRead
<1>3. /\ WorkOK(task[c]) /\ "queue" \in DOMAIN task[c].calls /\ Brings(task[c], "queue")
      /\ ui \in Page
      /\ "queue" \in RequestsOf(task[c].by) /\ task[c].by \in Handlers
  BY <1>2, Arriving
<1>4. Keeps(task[c], next, "queue")
  BY <1>1, <1>3, KeepsRest
<1>5. PICK q, a : /\ q = (IF r.ans = "ok" THEN r.got ELSE Hidden)
                  /\ a = CASE r.ans = "ok" -> "allowed" [] r.ans = "403" -> "denied"
                         [] OTHER -> "error"
  OBVIOUS
<1>6. PICK u : u = [ui EXCEPT !.queue = q, !.access = a]
  OBVIOUS
<1>7. ui' = Finished(task[c].by, u)
  BY <1>1, <1>5, <1>6 DEF QueueRead
<1>8. /\ q \in [Ops -> Statuses] /\ a \in {"allowed", "denied", "error"}
      /\ q = Hidden \/ a = "allowed"
  <2>1. Hidden \in [Ops -> Statuses]
    BY DEF Hidden, Statuses
  <2>2. r.ans = "ok" => r.got \in [Ops -> Statuses]
    BY <1>1, <1>3 DEF Brings
  <2> QED
    BY <1>5, <2>1, <2>2
<1>9. /\ u \in Page /\ u.state = ui.state /\ u.overview = ui.overview /\ u.queue = q /\ u.access = a
      /\ u.selected = ui.selected /\ u.sessions = ui.sessions /\ u.busy = ui.busy
  BY <1>3, <1>6, <1>8 DEF Page
<1>10. /\ ui' \in Page /\ ui'.state = ui.state /\ ui'.overview = ui.overview
       /\ ui'.queue = q /\ ui'.access = a
       /\ ui'.selected = ui.selected /\ ui'.sessions = ui.sessions
       /\ ui'.busy = IF task[c].by = "transition" THEN None ELSE ui.busy
  BY <1>7, <1>9, FinishedPage
<1> QED
  BY <1>2, <1>4, <1>8, <1>10, Handled

(* The token is not good any more. *)
LEMMA QueueRefusedInv ==
  ASSUME Inv, NEW c \in Tasks, QueueRefused(c)
  PROVE  Inv'
<1>1. PICK v, u : v = [ui EXCEPT !.queue = Hidden] /\ u = Finished(task[c].by, v)
  OBVIOUS
<1>2. /\ Arrived(c, "queue", {"401"}) /\ UNCHANGED <<tok, server, decided>>
      /\ Rejected(c, "queue", u, "401")
  BY <1>1 DEF QueueRefused
<1>3. WorkOK(task[c]) /\ "queue" \in DOMAIN task[c].calls /\ ui \in Page
  BY <1>2, Arriving
<1>4. /\ v \in Page /\ v.state = ui.state /\ v.overview = ui.overview /\ v.queue = Hidden
      /\ v.access = ui.access /\ v.selected = ui.selected /\ v.sessions = ui.sessions
      /\ v.busy = ui.busy
  <2>1. Hidden \in [Ops -> Statuses]
    BY DEF Hidden, Statuses
  <2> QED
    BY <1>1, <1>3, <2>1 DEF Page
<1>5. /\ u \in Page /\ u.state = ui.state /\ u.overview = ui.overview /\ u.queue = Hidden
      /\ u.access = ui.access /\ u.selected = ui.selected /\ u.sessions = ui.sessions
      /\ u.busy = IF task[c].by = "transition" THEN None ELSE ui.busy
  <2>1. FinishedAs(task[c].by, v, u)
    BY <1>1, <1>4, FinishedIsPage
  <2> QED
    BY <1>4, <2>1 DEF FinishedAs
<1>6. PICK next : Goes(c, next) /\ Keeps(task[c], next, "queue") /\ CaughtAs(u, ui')
  BY <1>2, <1>3, <1>5, RejectedKeeps
<1>7. /\ ui' \in Page /\ ui'.busy = u.busy /\ ui'.selected = ui.selected
      /\ ui'.sessions = ui.sessions /\ ui'.access = ui.access /\ ui'.queue = Hidden
      /\ ui'.state # "ready" \/ (ui'.state = ui.state /\ ui'.overview = ui.overview)
  BY <1>5, <1>6 DEF CaughtAs
<1> QED
  BY <1>2, <1>5, <1>6, <1>7, Handled

(* Evidence, or that it may not be shown. *)
LEMMA EvidenceReadInv ==
  ASSUME Inv, NEW c \in Tasks, NEW q \in Evidence, EvidenceRead(c, q)
  PROVE  Inv'
<1>1. PICK ans, e, u : /\ ans = task[c].calls[q].ans
                       /\ e = (IF ans = "ok" THEN ui.evidence \cup {q} ELSE ui.evidence \ {q})
                       /\ u = [ui EXCEPT !.evidence = e]
  OBVIOUS
<1>2. /\ Arrived(c, q, {"ok", "403", "failed", "401"}) /\ UNCHANGED <<tok, server, decided>>
  BY DEF EvidenceRead
<1>3. /\ WorkOK(task[c]) /\ q \in DOMAIN task[c].calls /\ ui \in Page
      /\ q \in RequestsOf(task[c].by) /\ task[c].by \in Handlers
  BY <1>2, Arriving
<1>4. task[c].by # "transition" /\ q # "queue"
  BY <1>3 DEF RequestsOf, Evidence
<1>5. /\ u \in Page /\ u.state = ui.state /\ u.overview = ui.overview /\ u.queue = ui.queue
      /\ u.access = ui.access /\ u.selected = ui.selected /\ u.sessions = ui.sessions
      /\ u.busy = ui.busy
  <2>1. e \in SUBSET Evidence
    BY <1>1, <1>3 DEF Page
  <2> QED
    BY <1>1, <1>3, <2>1 DEF Page
<1>6. u = [ui EXCEPT !.evidence = IF ans = "ok" THEN @ \cup {q} ELSE @ \ {q}]
  BY <1>1, <1>3 DEF Page
<1>7. CASE ans = "401"
  <2>1. Rejected(c, q, u, ans)
    BY <1>1, <1>6, <1>7 DEF EvidenceRead
  <2>2. PICK next : Goes(c, next) /\ Keeps(task[c], next, q) /\ CaughtAs(u, ui')
    BY <1>3, <1>5, <2>1, RejectedKeeps
  <2>3. /\ ui' \in Page /\ ui'.busy = ui.busy /\ ui'.selected = ui.selected
        /\ ui'.sessions = ui.sessions /\ ui'.access = ui.access
        /\ ui'.queue = Hidden \/ ui'.queue = ui.queue
        /\ ui'.state # "ready" \/ (ui'.state = ui.state /\ ui'.overview = ui.overview)
    BY <1>5, <2>2 DEF CaughtAs
  <2> QED
    BY <1>2, <1>4, <2>2, <2>3, Handled
<1>8. CASE ans # "401"
  <2>1. ui' = u /\ Goes(c, Left(c, q, NoCalls))
    BY <1>1, <1>6, <1>8 DEF EvidenceRead
  <2>2. Keeps(task[c], Left(c, q, NoCalls), q)
    BY <1>3, KeepsRest
  <2> QED
    BY <1>2, <1>4, <1>5, <2>1, <2>2, Handled
<1> QED
  BY <1>7, <1>8

(* A login that the server refuses. *)
LEMMA LoginRefusedInv ==
  ASSUME Inv, NEW c \in Tasks, LoginRefused(c)
  PROVE  Inv'
<1>1. PICK ans : ans = task[c].calls["login"].ans
  OBVIOUS
<1>2. /\ Arrived(c, "login", Failures) /\ UNCHANGED <<tok, server, decided>>
      /\ Rejected(c, "login", ui, ans)
  BY <1>1 DEF LoginRefused
<1>3. /\ WorkOK(task[c]) /\ "login" \in DOMAIN task[c].calls /\ ui \in Page
      /\ "login" \in RequestsOf(task[c].by) /\ task[c].by \in Handlers
  BY <1>2, Arriving
<1>4. task[c].by # "transition"
  BY <1>3 DEF RequestsOf
<1>5. PICK next : Goes(c, next) /\ Keeps(task[c], next, "login") /\ CaughtAs(ui, ui')
  BY <1>2, <1>3, RejectedKeeps
<1>6. /\ ui' \in Page /\ ui'.busy = ui.busy /\ ui'.selected = ui.selected
      /\ ui'.sessions = ui.sessions /\ ui'.access = ui.access
      /\ ui'.queue = Hidden \/ ui'.queue = ui.queue
      /\ ui'.state # "ready" \/ (ui'.state = ui.state /\ ui'.overview = ui.overview)
  BY <1>5 DEF CaughtAs
<1> QED
  BY <1>2, <1>4, <1>5, <1>6, Handled

(* An overview that the server refuses to a page, and to a decision. *)
LEMMA OverviewRefusedInv ==
  ASSUME Inv, NEW c \in Tasks, OverviewRefused(c), task[c].by # "login"
  PROVE  Inv'
<1>1. PICK ans, u : ans = task[c].calls["overview"].ans /\ u = Finished(task[c].by, ui)
  OBVIOUS
<1>2. /\ Arrived(c, "overview", Failures) /\ UNCHANGED <<tok, server, decided>>
      /\ Rejected(c, "overview", u, ans)
  BY <1>1 DEF OverviewRefused
<1>3. /\ WorkOK(task[c]) /\ "overview" \in DOMAIN task[c].calls /\ ui \in Page
  BY <1>2, Arriving
<1>4. FinishedAs(task[c].by, ui, u)
  BY <1>1, <1>3, FinishedIsPage
<1>5. u \in Page
  BY <1>4 DEF FinishedAs
<1>6. PICK next : Goes(c, next) /\ Keeps(task[c], next, "overview") /\ CaughtAs(u, ui')
  BY <1>2, <1>3, <1>5, RejectedKeeps
<1>7. /\ ui' \in Page /\ ui'.selected = ui.selected
      /\ ui'.sessions = ui.sessions /\ ui'.access = ui.access
      /\ ui'.queue = Hidden \/ ui'.queue = ui.queue
      /\ ui'.state # "ready" \/ (ui'.state = ui.state /\ ui'.overview = ui.overview)
      /\ ui'.busy = IF task[c].by = "transition" THEN None ELSE ui.busy
  BY <1>4, <1>6 DEF CaughtAs, FinishedAs
<1> QED
  BY <1>2, <1>6, <1>7, Handled

(* An overview that the server refuses after a login: the login is taken back. *)
LEMMA TakesBackInv ==
  ASSUME Inv, NEW c \in Tasks, OverviewRefused(c), task[c].by = "login"
  PROVE  Inv'
<1>1. PICK ans, asked, left, next :
        /\ ans = task[c].calls["overview"].ans /\ asked = Asked({"logout"}, tok)
        /\ left = Left(c, "overview", asked) /\ next = Noting(left, "error", ans)
  OBVIOUS
<1>2. /\ Arrived(c, "overview", Failures) /\ UNCHANGED <<tok, live, roles, status, decided>>
      /\ ui' = ui /\ Goes(c, next)
  BY <1>1 DEF OverviewRefused, server, Noting
<1>3. /\ task[c] # Idle /\ task[c] \in Work /\ WorkOK(task[c])
      /\ DOMAIN task[c].calls = {"overview"} /\ ui \in Page /\ ans \in Failures
      /\ HandlersAwaited => Awaited(c)
  BY <1>1, <1>2, Arriving DEF Evidence
<1>4. tok \in Accounts \cup {None} /\ tok' \in Accounts \cup {None}
  BY <1>2 DEF Inv, TypesOK
<1>5. /\ asked \in Calls /\ DOMAIN asked = {"logout"}
      /\ asked["logout"].ans = "sent" /\ asked["logout"].tok = tok
  BY <1>1, <1>4, AskedIsSent DEF Requests
<1>6. /\ left # Idle /\ left \in Work /\ DOMAIN left.calls = {"logout"}
      /\ left.calls["logout"] = asked["logout"]
      /\ left.by = "login" /\ left.who = task[c].who
  <2>1. Only(task[c], "overview") /\ DOMAIN asked # {}
    BY <1>3, <1>5 DEF Only
  <2> QED
    BY <1>1, <1>3, <1>5, <2>1, LeftOfOne
<1>7. /\ next \in Work /\ next.calls = left.calls /\ next.by = "login" /\ next.who = task[c].who
      /\ next.error = ans
  BY <1>1, <1>3, <1>6 DEF Noting, Work, Failures, Answers
<1>8. WorkOK(next)
  <2>1. DOMAIN next.calls = {"logout"} /\ next.calls["logout"].ans = "sent"
    BY <1>5, <1>6, <1>7
  <2>2. InTurn(next)
    BY <2>1 DEF InTurn, Requests
  <2>3. Brings(next, "logout")
    BY <2>1 DEF Brings
  <2>4. next.who \in Accounts
    BY <1>3, <1>7 DEF WorkOK
  <2> QED
    BY <1>3, <1>7, <2>1, <2>2, <2>3, <2>4 DEF WorkOK, RequestsOf
<1>9. HandlersAwaited /\ AwaitedHolds =>
        /\ task'[c] = next => Awaited(c)'
        /\ QueueAsGranted' /\ OpenMeansSignedIn' /\ SessionsOfSelected'
  <2>1. HandlersAwaited /\ task'[c] = next => Awaited(c)'
    BY <1>2, <1>3, <1>5, <1>6, <1>7 DEF Awaited
  <2> QED
    BY <1>2, <2>1 DEF AwaitedHolds, QueueAsGranted, OpenMeansSignedIn, SessionsOfSelected
<1>10. ui.state = "ready" => ui.overview # None
  BY DEF Inv, ConsoleIsWhole
<1> QED
  BY <1>2, <1>3, <1>4, <1>8, <1>9, <1>10, TaskMoves

(* A login: the token is kept, and with it the overview is asked for. *)
LEMMA LoggedInInv ==
  ASSUME Inv, NEW c \in Tasks, LoggedIn(c)
  PROVE  Inv'
<1>1. PICK who, next : who = task[c].who /\ next = Left(c, "login", Asked({"overview"}, who))
  OBVIOUS
<1>2. /\ Arrived(c, "login", {"ok"}) /\ UNCHANGED <<ui, live, roles, status, decided>>
      /\ tok' = who /\ Goes(c, next)
  BY <1>1 DEF LoggedIn, server
<1>3. /\ task[c] # Idle /\ WorkOK(task[c]) /\ DOMAIN task[c].calls = {"login"} /\ ui \in Page
      /\ "login" \in RequestsOf(task[c].by) /\ task[c].by \in Handlers
      /\ HandlersAwaited => Awaited(c)
  BY <1>2, Arriving DEF Evidence
<1>4. task[c].by = "login"
  BY <1>3 DEF RequestsOf, Handlers, Evidence
<1>5. who \in Accounts
  BY <1>1, <1>3, <1>4 DEF WorkOK
<1>6. AsksFor(task[c], next, {"overview"}, who)
  <2>1. Only(task[c], "login") /\ MayAsk(task[c], {"overview"})
    BY <1>3, <1>4 DEF Only, MayAsk, RequestsOf, Requests
  <2> QED
    BY <1>1, <1>3, <1>5, <2>1, AsksNext
<1>7. /\ WorkOK(next) /\ next # Idle /\ DOMAIN next.calls = {"overview"}
      /\ next.calls["overview"].tok = who /\ next.by = "login"
  BY <1>4, <1>6 DEF AsksFor
<1>8. HandlersAwaited /\ AwaitedHolds =>
        /\ task'[c] = next => Awaited(c)'
        /\ QueueAsGranted' /\ OpenMeansSignedIn' /\ SessionsOfSelected'
  <2>1. HandlersAwaited => ui.state # "ready"
    BY <1>3, <1>4 DEF Awaited
  <2>2. HandlersAwaited /\ task'[c] = next => Awaited(c)'
    BY <1>2, <1>7, <2>1 DEF Awaited
  <2> QED
    BY <1>2, <2>1, <2>2 DEF AwaitedHolds, QueueAsGranted, OpenMeansSignedIn, SessionsOfSelected
<1>9. ui.state = "ready" => ui.overview # None
  BY DEF Inv, ConsoleIsWhole
<1> QED
  BY <1>2, <1>3, <1>4, <1>5, <1>7, <1>8, <1>9, TaskMoves

(* A logout, whatever the answer was: of a login that is taken back, or of the page. *)
LEMMA LoggedOutInv ==
  ASSUME Inv, NEW c \in Tasks, LoggedOut(c)
  PROVE  Inv'
<1>1. /\ Arrived(c, "logout", Failures \cup {"ok"}) /\ UNCHANGED <<live, roles, status, decided>>
      /\ tok' = None /\ None \in Accounts \cup {None}
  BY DEF LoggedOut, server
<1>2. /\ task[c] # Idle /\ WorkOK(task[c]) /\ DOMAIN task[c].calls = {"logout"} /\ ui \in Page
      /\ "logout" \in RequestsOf(task[c].by) /\ task[c].by \in Handlers
      /\ HandlersAwaited => Awaited(c)
  BY <1>1, Arriving DEF Evidence
<1>3. task[c].by # "transition" /\ (ui.state = "ready" => ui.overview # None)
  BY <1>2 DEF RequestsOf, Inv, ConsoleIsWhole
<1>4. CASE task[c].by = "login"
  <2>1. PICK ans : ans = task[c].error
    OBVIOUS
  <2>2. Rejected(c, "logout", ui, ans)
    BY <1>4, <2>1 DEF LoggedOut
  <2>3. PICK next : Goes(c, next) /\ Keeps(task[c], next, "logout") /\ CaughtAs(ui, ui')
    BY <1>2, <2>2, RejectedKeeps
  <2>4. next = Idle
    BY <1>2, <2>3, KeepsNothing DEF Only
  <2>5. /\ ui' \in Page /\ ui'.busy = ui.busy /\ ui'.selected = ui.selected
        /\ ui'.sessions = ui.sessions /\ ui'.access = ui.access
        /\ ui'.queue = Hidden \/ ui'.queue = ui.queue
        /\ ui'.state # "ready" \/ (ui'.state = ui.state /\ ui'.overview = ui.overview)
    BY <2>3 DEF CaughtAs
  <2>6. HandlersAwaited /\ AwaitedHolds =>
          /\ task'[c] = next => Awaited(c)'
          /\ QueueAsGranted' /\ OpenMeansSignedIn' /\ SessionsOfSelected'
    <3>1. HandlersAwaited => ui'.state # "ready"
      BY <1>2, <1>4, <2>5 DEF Awaited
    <3>2. task'[c] = next => Awaited(c)'
      BY <2>4 DEF Awaited
    <3> QED
      BY <2>5, <3>1, <3>2 DEF AwaitedHolds, QueueAsGranted, OpenMeansSignedIn, SessionsOfSelected
  <2> QED
    BY <1>1, <1>2, <1>3, <2>3, <2>4, <2>5, <2>6, TaskMoves
<1>5. CASE task[c].by # "login"
  <2>1. Goes(c, Idle) /\ ui' = ResetPage
    BY <1>5 DEF LoggedOut
  <2>2. /\ ui' \in Page /\ ui'.state = "login" /\ ui'.queue = Hidden
        /\ ui'.busy = ui.busy /\ ui'.sessions = None
    BY <1>2, <2>1, ResetIsPage
  <2>3. HandlersAwaited /\ AwaitedHolds =>
          /\ task'[c] = Idle => Awaited(c)'
          /\ QueueAsGranted' /\ OpenMeansSignedIn' /\ SessionsOfSelected'
    BY <2>2 DEF Awaited, QueueAsGranted, OpenMeansSignedIn, SessionsOfSelected
  <2> QED
    BY <1>1, <1>3, <2>1, <2>2, <2>3, TaskMoves
<1> QED
  BY <1>4, <1>5

(* The players that a search finds. *)
LEMMA PlayersReadInv ==
  ASSUME Inv, NEW c \in Tasks, PlayersRead(c)
  PROVE  Inv'
<1>1. PICK ok, s : /\ ok = (task[c].calls["players"].ans = "ok")
                   /\ s = IF ok THEN "ready" ELSE "error"
  OBVIOUS
<1>2. /\ Arrived(c, "players", Failures \cup {"ok"}) /\ UNCHANGED <<tok, server, decided>>
      /\ Goes(c, Idle) /\ ui' = [ui EXCEPT !.results = ok, !.security = s]
  BY <1>1 DEF PlayersRead
<1>3. /\ ui \in Page /\ "players" \in RequestsOf(task[c].by) /\ task[c].by \in Handlers
  BY <1>2, Arriving
<1>4. task[c].by # "transition"
  BY <1>3 DEF RequestsOf
<1>5. /\ ui' \in Page /\ ui'.state = ui.state /\ ui'.overview = ui.overview
      /\ ui'.queue = ui.queue /\ ui'.access = ui.access /\ ui'.busy = ui.busy
      /\ ui'.selected = ui.selected /\ ui'.sessions = ui.sessions
  <2>1. ok \in BOOLEAN /\ s \in {"ready", "error"}
    BY <1>1
  <2> QED
    BY <1>2, <1>3, <2>1 DEF Page
<1>6. Keeps(task[c], Idle, "players")
  BY DEF Keeps
<1> QED
  BY <1>2, <1>4, <1>5, <1>6, Handled

(* The sessions of the player that was selected. *)
LEMMA SessionsReadInv ==
  ASSUME Inv, NEW c \in Tasks, SessionsRead(c)
  PROVE  Inv'
<1>1. PICK r : r = task[c].calls["sessions"]
  OBVIOUS
<1>2. /\ Arrived(c, "sessions", Failures \cup {"ok"}) /\ UNCHANGED <<tok, server, decided>>
      /\ Goes(c, Idle)
      /\ ui' = IF r.ans = "ok" THEN [ui EXCEPT !.sessions = r.got, !.security = "ready"]
               ELSE [ui EXCEPT !.security = "error"]
  BY <1>1 DEF SessionsRead
<1>3. /\ ui \in Page /\ "sessions" \in RequestsOf(task[c].by) /\ task[c].by \in Handlers
      /\ WorkOK(task[c]) /\ Brings(task[c], "sessions")
  BY <1>2, Arriving
<1>4. task[c].by = "select"
  BY <1>3 DEF RequestsOf, Handlers, Evidence
<1>5. task[c].player \in Players /\ (r.ans = "ok" => r.got = task[c].player)
  BY <1>1, <1>3, <1>4 DEF WorkOK, Brings
<1>6. /\ ui' \in Page /\ ui'.state = ui.state /\ ui'.overview = ui.overview
      /\ ui'.queue = ui.queue /\ ui'.access = ui.access /\ ui'.busy = ui.busy
      /\ ui'.selected = ui.selected
      /\ ui'.sessions = ui.sessions \/ ui'.sessions = task[c].player
  <2>1. CASE r.ans = "ok"
    BY <1>2, <1>3, <1>5, <2>1 DEF Page
  <2>2. CASE r.ans # "ok"
    BY <1>2, <1>3, <2>2 DEF Page
  <2> QED
    BY <2>1, <2>2
<1>7. Keeps(task[c], Idle, "sessions")
  BY DEF Keeps
<1> QED
  BY <1>2, <1>4, <1>6, <1>7, Handled

(* A decision that was made asks for the overview anew; one that was not is over. *)
LEMMA TransitionedInv ==
  ASSUME Inv, NEW c \in Tasks, Transitioned(c)
  PROVE  Inv'
<1>1. /\ Arrived(c, "transition", Failures \cup {"ok"})
      /\ UNCHANGED <<tok, server, decided>> /\ UNCHANGED <<tok, live, roles, status, decided>>
  BY DEF Transitioned, server
<1>2. /\ task[c] # Idle /\ WorkOK(task[c]) /\ DOMAIN task[c].calls = {"transition"} /\ ui \in Page
      /\ "transition" \in RequestsOf(task[c].by) /\ task[c].by \in Handlers
      /\ HandlersAwaited => Awaited(c)
  BY <1>1, Arriving DEF Evidence
<1>3. /\ task[c].by = "transition" /\ tok \in Accounts \cup {None}
      /\ (ui.state = "ready" => ui.overview # None)
  BY <1>2 DEF RequestsOf, Handlers, Evidence, Inv, TypesOK, ConsoleIsWhole
<1>4. CASE task[c].calls["transition"].ans = "ok"
  <2>1. PICK next : next = Left(c, "transition", Asked({"overview"}, tok))
    OBVIOUS
  <2>2. ui' = ui /\ Goes(c, next)
    BY <1>4, <2>1 DEF Transitioned
  <2>3. AsksFor(task[c], next, {"overview"}, tok)
    <3>1. Only(task[c], "transition") /\ MayAsk(task[c], {"overview"})
      BY <1>2, <1>3 DEF Only, MayAsk, RequestsOf, Requests
    <3> QED
      BY <1>2, <1>3, <2>1, <3>1, AsksNext
  <2>4. /\ WorkOK(next) /\ next # Idle /\ DOMAIN next.calls = {"overview"}
        /\ next.calls["overview"].tok = tok /\ next.by = "transition" /\ next.op = task[c].op
    BY <1>3, <2>3 DEF AsksFor
  <2>5. HandlersAwaited /\ AwaitedHolds =>
          /\ task'[c] = next => Awaited(c)'
          /\ QueueAsGranted' /\ OpenMeansSignedIn' /\ SessionsOfSelected'
    <3>1. task'[c] = next => Awaited(c)'
      BY <1>1, <2>4 DEF Awaited
    <3> QED
      BY <1>1, <2>2, <3>1 DEF AwaitedHolds, QueueAsGranted, OpenMeansSignedIn, SessionsOfSelected
  <2> QED
    BY <1>1, <1>2, <1>3, <2>2, <2>4, <2>5, TaskMoves
<1>5. CASE task[c].calls["transition"].ans # "ok"
  <2>1. ui' = Finished("transition", ui) /\ Goes(c, Idle)
    BY <1>5 DEF Transitioned
  <2>2. FinishedAs("transition", ui, ui')
    BY <1>2, <2>1, FinishedIsPage
  <2>3. /\ ui' \in Page /\ ui'.overview = ui.overview /\ ui'.state = ui.state
        /\ ui'.queue = ui.queue /\ ui'.access = ui.access
        /\ ui'.selected = ui.selected /\ ui'.sessions = ui.sessions /\ ui'.busy = None
    BY <2>2 DEF FinishedAs
  <2>4. Keeps(task[c], Idle, "transition")
    BY DEF Keeps
  <2> QED
    BY <1>1, <2>1, <2>3, <2>4, Handled
<1> QED
  BY <1>4, <1>5

-----------------------------------------------------------------------------
(* The buttons *)

(* The task that a button starts. *)
PressedFor(next, by, q, op, chosen) ==
  /\ WorkOK(next) /\ next # Idle /\ DOMAIN next.calls = {q} /\ next.calls[q].tok = tok
  /\ next.by = by /\ next.op = op /\ next.player = chosen
  /\ next.may = IF by = "transition" THEN MayNow ELSE {}

(* It is what Press starts. *)
LEMMA Pressed ==
  ASSUME Inv, NEW c \in Tasks, NEW by \in Handlers, NEW q \in Requests, q \in RequestsOf(by),
         q = "logout" => by # "login",
         NEW who \in Accounts \cup {None}, NEW op \in Ops \cup {None},
         NEW action \in Actions \cup {"none"}, NEW chosen \in Players \cup {None},
         by = "login" => who \in Accounts, by = "select" => chosen \in Players,
         by = "transition" => op \in Ops,
         Press(c, by, q, who, op, action, chosen)
  PROVE  \E next : Goes(c, next) /\ PressedFor(next, by, q, op, chosen)
<1>1. PICK calls : calls = Asked({q}, tok)
  OBVIOUS
<1>2. tok \in Accounts \cup {None}
  BY DEF Inv, TypesOK
<1>3. calls \in Calls /\ DOMAIN calls = {q} /\ calls[q].ans = "sent" /\ calls[q].tok = tok
  BY <1>1, <1>2, AskedIsSent
<1>4. PICK next : next = [by |-> by, calls |-> calls, who |-> who, op |-> op, action |-> action,
                          player |-> chosen, error |-> "none", caught |-> FALSE,
                          may |-> IF by = "transition" THEN MayNow ELSE {}]
  OBVIOUS
<1>5. Goes(c, next)
  BY <1>1, <1>4 DEF Press
<1>10. PICK may : may = IF by = "transition" THEN MayNow ELSE {}
  OBVIOUS
<1>11. may \in SUBSET Capabilities
  BY <1>10 DEF MayNow, MayOf, RoleCapabilities, Capabilities
<1>6. /\ next \in Work /\ next.calls = calls /\ next.by = by /\ next.who = who /\ next.op = op
      /\ next.player = chosen /\ next.may = may
  BY <1>3, <1>4, <1>10, <1>11 DEF Work
<1>7. InTurn(next)
  BY <1>3, <1>6 DEF InTurn
<1>8. Brings(next, q)
  BY <1>3, <1>6 DEF Brings
<1>9. WorkOK(next) /\ next # Idle
  <2>1. WorkOK(next)
    BY <1>3, <1>6, <1>7, <1>8 DEF WorkOK
  <2> QED
    BY <2>1 DEF WorkOK, Idle, NoCalls
<1> QED
  BY <1>3, <1>5, <1>6, <1>9, <1>10 DEF PressedFor

(* What a button has to keep of the page. *)
LEMMA Started ==
  ASSUME Inv, NEW c \in Tasks, task[c] = Idle, NEW by, NEW q, NEW op, NEW chosen,
         \E next : Goes(c, next) /\ PressedFor(next, by, q, op, chosen),
         ui' \in Page, UNCHANGED <<tok, server, decided>>,
         ui'.state = "ready" => ui.state = "ready" /\ ui'.overview = ui.overview,
         ui'.queue = ui.queue /\ ui'.access = ui.access,
         ui'.busy = ui.busy \/ (by = "transition" /\ ui'.busy = op),
         by = "login" => ui'.state # "ready",
         by = "select" => ui'.state = "ready" /\ ui'.selected = chosen,
         q # "queue",
         ui'.sessions = None \/ (ui'.sessions = ui.sessions /\ ui'.selected = ui.selected)
  PROVE  Inv'
<1>1. PICK next : Goes(c, next) /\ PressedFor(next, by, q, op, chosen)
  OBVIOUS
<1>2. /\ WorkOK(next) /\ next # Idle /\ DOMAIN next.calls = {q} /\ next.calls[q].tok = tok
      /\ next.by = by /\ next.op = op /\ next.player = chosen
  BY <1>1 DEF PressedFor
<1>3. UNCHANGED <<tok, live, roles, status, decided>> /\ tok' \in Accounts \cup {None}
  BY DEF server, Inv, TypesOK
<1>4. ui'.state = "ready" => ui'.overview # None
  BY DEF Inv, ConsoleIsWhole
<1>5. HandlersAwaited /\ AwaitedHolds =>
        /\ task'[c] = next => Awaited(c)'
        /\ QueueAsGranted' /\ OpenMeansSignedIn' /\ SessionsOfSelected'
  <2>1. task'[c] = next => Awaited(c)'
    BY <1>2, <1>3 DEF Awaited
  <2> QED
    BY <1>3, <2>1 DEF AwaitedHolds, QueueAsGranted, OpenMeansSignedIn, SessionsOfSelected
<1> QED
  BY <1>1, <1>2, <1>3, <1>4, <1>5, TaskMoves

(* A button that asks for one thing without more to it. *)
LEMMA PlainPressed ==
  ASSUME Inv, NEW c \in Tasks, NEW by \in {"refresh", "logout", "search"}, NEW q \in RequestsOf(by),
         q # "queue", Plain(c, by, q), ui' \in Page,
         ui'.state = "ready" => ui.state = "ready" /\ ui'.overview = ui.overview,
         ui'.queue = ui.queue /\ ui'.access = ui.access /\ ui'.busy = ui.busy,
         ui'.sessions = None \/ (ui'.sessions = ui.sessions /\ ui'.selected = ui.selected)
  PROVE  Inv'
<1>1. /\ Press(c, by, q, None, None, "none", None) /\ task[c] = Idle
      /\ UNCHANGED <<tok, server, decided>>
  BY DEF Plain, Press
<1>2. by \in Handlers /\ q \in Requests /\ (q = "logout" => by # "login")
  BY DEF Handlers, Requests, RequestsOf, Evidence
<1>3. \E next : Goes(c, next) /\ PressedFor(next, by, q, None, None)
  BY <1>1, <1>2, Pressed
<1> QED
  BY <1>1, <1>3, Started

(* The console opens or is read again, a logout, a search. *)
LEMMA ButtonsInv ==
  ASSUME Inv, NEW c \in Tasks, Mount(c) \/ Refresh(c) \/ Logout(c) \/ Search(c)
  PROVE  Inv'
<1>0. ui \in Page
  BY DEF Inv, TypesOK
<1>1. CASE Mount(c)
  <2>1. Plain(c, "refresh", "overview") /\ ui' = [ui EXCEPT !.state = "checking"]
    BY <1>1 DEF Mount
  <2>2. /\ ui' \in Page /\ ui'.state = "checking" /\ ui'.queue = ui.queue /\ ui'.access = ui.access
        /\ ui'.busy = ui.busy /\ ui'.sessions = ui.sessions /\ ui'.selected = ui.selected
    BY <1>0, <2>1 DEF Page
  <2>3. "overview" \in RequestsOf("refresh")
    BY DEF RequestsOf
  <2> QED
    BY <2>1, <2>2, <2>3, PlainPressed
<1>2. CASE Refresh(c)
  <2>1. Plain(c, "refresh", "overview") /\ ui' = ui /\ "overview" \in RequestsOf("refresh")
    BY <1>2 DEF Refresh, RequestsOf
  <2> QED
    BY <1>0, <2>1, PlainPressed
<1>3. CASE Logout(c)
  <2>1. Plain(c, "logout", "logout") /\ ui' = ui /\ "logout" \in RequestsOf("logout")
    BY <1>3 DEF Logout, RequestsOf
  <2> QED
    BY <1>0, <2>1, PlainPressed
<1>4. CASE Search(c)
  <2>1. Plain(c, "search", "players") /\ ui' = Searching /\ "players" \in RequestsOf("search")
    BY <1>4 DEF Search, RequestsOf
  <2>2. None \in Players \cup {None}
    OBVIOUS
  <2>3. /\ ui' \in Page /\ ui'.state = ui.state /\ ui'.overview = ui.overview
        /\ ui'.queue = ui.queue /\ ui'.access = ui.access /\ ui'.busy = ui.busy
        /\ ui'.sessions = None
    BY <1>0, <2>1, <2>2 DEF Searching, Page
  <2> QED
    BY <2>1, <2>3, PlainPressed
<1> QED
  BY <1>1, <1>2, <1>3, <1>4

(* A login. *)
LEMMA LoginInv ==
  ASSUME Inv, NEW c \in Tasks, Login(c)
  PROVE  Inv'
<1>1. PICK a \in Accounts : /\ Press(c, "login", "login", a, None, "none", None)
                            /\ ui' = [ui EXCEPT !.state = "checking"]
  BY DEF Login
<1>2. task[c] = Idle /\ UNCHANGED <<tok, server, decided>> /\ ui \in Page
  BY <1>1 DEF Press, Inv, TypesOK
<1>3. "login" \in Handlers /\ "login" \in Requests /\ "login" \in RequestsOf("login")
  BY DEF Handlers, Requests, RequestsOf
<1>4. \E next : Goes(c, next) /\ PressedFor(next, "login", "login", None, None)
  BY <1>1, <1>3, Pressed
<1>5. /\ ui' \in Page /\ ui'.state = "checking" /\ ui'.queue = ui.queue /\ ui'.access = ui.access
      /\ ui'.busy = ui.busy /\ ui'.sessions = ui.sessions /\ ui'.selected = ui.selected
  BY <1>1, <1>2 DEF Page
<1> QED
  BY <1>2, <1>4, <1>5, Started

(* A player is selected. *)
LEMMA SelectInv ==
  ASSUME Inv, NEW c \in Tasks, NEW p \in Players, Select(c, p)
  PROVE  Inv'
<1>1. /\ Press(c, "select", "sessions", None, None, "none", p) /\ ui.state = "ready"
      /\ ui' = [ui EXCEPT !.security = "loading-sessions", !.selected = p, !.sessions = None]
  BY DEF Select, MaySearch
<1>2. task[c] = Idle /\ UNCHANGED <<tok, server, decided>> /\ ui \in Page
  BY <1>1 DEF Press, Inv, TypesOK
<1>3. "select" \in Handlers /\ "sessions" \in Requests /\ "sessions" \in RequestsOf("select")
  BY DEF Handlers, Requests, RequestsOf
<1>4. \E next : Goes(c, next) /\ PressedFor(next, "select", "sessions", None, p)
  BY <1>1, <1>3, Pressed
<1>5. None \in Players \cup {None}
  OBVIOUS
<1>6. /\ ui' \in Page /\ ui'.state = "ready" /\ ui'.overview = ui.overview /\ ui'.queue = ui.queue
      /\ ui'.access = ui.access /\ ui'.busy = ui.busy /\ ui'.sessions = None /\ ui'.selected = p
  BY <1>1, <1>2, <1>5 DEF Page
<1> QED
  BY <1>1, <1>2, <1>4, <1>6, Started

(* A decision. *)
LEMMA TransitionInv ==
  ASSUME Inv, NEW c \in Tasks, NEW op \in Ops, Transition(c, op)
  PROVE  Inv'
<1>1. PICK action \in Offered(op) : Press(c, "transition", "transition", None, op, action, None)
  BY DEF Transition
<1>2. /\ task[c] = Idle /\ UNCHANGED <<tok, server, decided>> /\ ui \in Page
      /\ ui' = [ui EXCEPT !.busy = op]
  BY <1>1 DEF Press, Transition, Inv, TypesOK
<1>3. /\ "transition" \in Handlers /\ "transition" \in Requests
      /\ "transition" \in RequestsOf("transition")
  BY DEF Handlers, Requests, RequestsOf
<1>4. action \in Actions \cup {"none"}
  BY <1>1 DEF Offered, PaymentActions, Actions
<1>5. \E next : Goes(c, next) /\ PressedFor(next, "transition", "transition", op, None)
  BY <1>1, <1>3, <1>4, Pressed
<1>6. /\ ui' \in Page /\ ui'.state = ui.state /\ ui'.overview = ui.overview /\ ui'.queue = ui.queue
      /\ ui'.access = ui.access /\ ui'.busy = op /\ ui'.sessions = ui.sessions
      /\ ui'.selected = ui.selected
  BY <1>2 DEF Page
<1> QED
  BY <1>2, <1>5, <1>6, Started

(* A console whose tab has lost the token is closed; with one handler at a time it is *)
(* not open then, and no selection is under way.                                      *)
LEMMA CloseInv ==
  ASSUME Inv, Close
  PROVE  Inv'
<1>1. /\ ui.state \in {"ready", "forbidden"} /\ tok = None
      /\ ui' = ResetPage /\ UNCHANGED <<tok, task, live, roles, status, decided>>
  BY DEF Close, server
<1>2. /\ ui' \in Page /\ ui'.state = "login" /\ ui'.queue = Hidden
      /\ ui'.busy = ui.busy /\ ui'.sessions = None
  BY <1>1, ResetIsPage DEF Inv, TypesOK
<1>3. TypesOK' /\ TasksOK' /\ BusyMeansWorking'
  BY <1>1, <1>2 DEF Inv, TypesOK, TasksOK, WorkOK, InTurn, Brings, BusyMeansWorking, Running
<1>4. AwaitedHolds => AwaitedHolds'
  <2> SUFFICES ASSUME AwaitedHolds
               PROVE  AwaitedHolds'
    OBVIOUS
  <2>1. ui.state # "ready"
    BY <1>1 DEF AwaitedHolds, OpenMeansSignedIn
  <2>2. \A c \in Tasks : Awaited(c)'
    BY <1>1, <1>2, <2>1 DEF AwaitedHolds, Awaited
  <2> QED
    BY <1>2, <2>2 DEF AwaitedHolds, QueueAsGranted, OpenMeansSignedIn, SessionsOfSelected
<1>5. ConsoleIsWhole'
  BY <1>2 DEF ConsoleIsWhole, Hidden
<1> QED
  BY <1>1, <1>3, <1>4, <1>5 DEF Inv, HandlersAwaited

-----------------------------------------------------------------------------
(* The console as a whole *)

(* A console that is not open yet. *)
LEMMA ConsoleInit ==
  ASSUME ConsoleAssumption, Init
  PROVE  Inv
<1>1. Hidden \in [Ops -> Statuses]
  BY DEF Hidden, Statuses
<1>2. /\ None \in (SUBSET Capabilities) \cup {None} /\ None \in Players \cup {None}
      /\ {} \in SUBSET Evidence /\ None \in Ops \cup {None}
  BY Zenon
<1>3. ui = Blank /\ ui \in Page
  BY <1>1, <1>2 DEF Init, Blank, Page
<1>4. ui.state = "none" /\ ui.queue = Hidden /\ ui.busy = None /\ ui.sessions = None
  BY <1>3 DEF Blank
<1>5. status \in [Ops -> Statuses]
  BY DEF Init, Initial, Statuses
<1>6. TypesOK /\ TasksOK
  BY <1>3, <1>5 DEF Init, TypesOK, TasksOK, ConsoleAssumption
<1>7. AwaitedHolds
  BY <1>4 DEF Init, AwaitedHolds, Awaited, QueueAsGranted, OpenMeansSignedIn, SessionsOfSelected
<1>8. ConsoleIsWhole /\ BusyMeansWorking
  BY <1>4 DEF Init, ConsoleIsWhole, BusyMeansWorking
<1> QED
  BY <1>6, <1>7, <1>8 DEF Inv

(* Every answer is handled well. *)
LEMMA ArriveInv ==
  ASSUME Inv, NEW c \in Tasks, Arrive(c)
  PROVE  Inv'
<1>1. CASE OverviewRead(c)
  BY <1>1, OverviewOfDecision, OverviewOfPage
<1>2. CASE OverviewRefused(c)
  BY <1>2, OverviewRefusedInv, TakesBackInv
<1>3. CASE QueueRead(c)
  BY <1>3, QueueReadInv
<1>4. CASE QueueRefused(c)
  BY <1>4, QueueRefusedInv
<1>5. CASE \E q \in {"audit", "reconciliation"} : EvidenceRead(c, q)
  BY <1>5, EvidenceReadInv DEF Evidence
<1>6. CASE LoggedIn(c)
  BY <1>6, LoggedInInv
<1>7. CASE LoginRefused(c)
  BY <1>7, LoginRefusedInv
<1>8. CASE LoggedOut(c)
  BY <1>8, LoggedOutInv
<1>9. CASE PlayersRead(c)
  BY <1>9, PlayersReadInv
<1>10. CASE SessionsRead(c)
  BY <1>10, SessionsReadInv
<1>11. CASE Transitioned(c)
  BY <1>11, TransitionedInv
<1> QED
  BY <1>1, <1>2, <1>3, <1>4, <1>5, <1>6, <1>7, <1>8, <1>9, <1>10, <1>11 DEF Arrive

(* Every step keeps the invariant. *)
LEMMA ConsoleStep ==
  ASSUME Inv, [Next]_vars
  PROVE  Inv'
<1>1. CASE \E c \in Tasks : ServeAny(c)
  BY <1>1, DecideInv, ServeInv DEF ServeAny
<1>2. CASE \E c \in Tasks : Arrive(c)
  BY <1>2, ArriveInv
<1>3. CASE \E c \in Tasks, q \in Requests : Lose(c, q)
  BY <1>3, LoseInv
<1>4. CASE \E c \in Tasks : Mount(c) \/ Refresh(c) \/ Logout(c) \/ Search(c)
  BY <1>4, ButtonsInv
<1>5. CASE \E c \in Tasks : Login(c)
  BY <1>5, LoginInv
<1>6. CASE \E c \in Tasks, p \in Players : Select(c, p)
  BY <1>6, SelectInv
<1>7. CASE \E c \in Tasks, op \in Ops : Transition(c, op)
  BY <1>7, TransitionInv
<1>8. CASE Close
  BY <1>8, CloseInv
<1>9. CASE (\E a \in Accounts : Expire(a) \/ Reassign(a)) \/ (\E op \in Ops : Elsewhere(op))
  BY <1>9, ElsewhereInv
<1>10. CASE UNCHANGED vars
  BY <1>10, IdleInv
<1> QED
  BY <1>1, <1>2, <1>3, <1>4, <1>5, <1>6, <1>7, <1>8, <1>9, <1>10 DEF Next

(* So it always holds. *)
LEMMA InvAlways == ConsoleAssumption => (Spec => []Inv)
<1>1. ConsoleAssumption /\ Init => Inv
  BY ConsoleInit
<1>2. Inv /\ [Next]_vars => Inv'
  BY ConsoleStep
<1> QED
  BY <1>1, <1>2, PTL DEF Spec

(* It contains the types that the runs check. *)
LEMMA InvTypes ==
  ASSUME Inv
  PROVE  TypeOK
<1>1. ui \in Page
  BY DEF Inv, TypesOK
<1>2. ASSUME NEW c \in Tasks, Running(c)
      PROVE  /\ task[c].by \in Handlers /\ DOMAIN task[c].calls \subseteq Requests
             /\ \A q \in DOMAIN task[c].calls : task[c].calls[q].ans \in Answers
  <2>1. task[c] \in Work
    BY <1>2, RunningWorks
  <2>2. \A q \in DOMAIN task[c].calls : task[c].calls[q].ans \in Answers /\ q \in Requests
    BY <2>1, CallIsCall DEF Call
  <2> QED
    BY <2>1, <2>2 DEF Work
<1> QED
  BY <1>1, <1>2 DEF Inv, TypesOK, TypeOK, Page, Evidence

(* The types of the console. *)
THEOREM TypeCorrect == ConsoleAssumption => (Spec => []TypeOK)
<1>1. Inv => TypeOK
  BY InvTypes
<1> QED
  BY <1>1, InvAlways, PTL

(* The two tables of transitions are one. *)
LEMMA ButtonsOfRules ==
  ASSUME NEW kind \in Kinds, NEW st \in Statuses
  PROVE  PaymentActions(kind, st) = {r.action : r \in {r \in Table : r.kind = kind /\ r.from = st}}
<1>1. \A r \in Table : r.kind = kind /\ r.from = st => r.action \in PaymentActions(kind, st)
  BY DEF Table, Rule, PaymentActions
<1>2. ASSUME NEW action \in PaymentActions(kind, st)
      PROVE  \E to : Rule(kind, st, action, to) \in Table
  BY DEF PaymentActions, Table
<1>3. \A action, to : LET r == Rule(kind, st, action, to) IN
        r.kind = kind /\ r.from = st /\ r.action = action
  BY DEF Rule
<1> QED
  BY <1>1, <1>2, <1>3

(* The buttons are the rules (OperationsConsole.jsx:44 against sandboxPaymentService.js:7). *)
LEMMA InvButtons ==
  ASSUME Inv
  PROVE  ButtonsAreRules
<1> SUFFICES ASSUME NEW op \in Ops, ui.state = "ready", ui.access = "allowed"
             PROVE  Offered(op) = {r.action : r \in {r \in Table : /\ r.kind = Kind[op]
                                                                    /\ r.from = ui.queue[op]}}
  BY DEF ButtonsAreRules
<1>1. PICK kind, st : kind = Kind[op] /\ st = ui.queue[op]
  OBVIOUS
<1>2. kind \in Kinds /\ st \in Statuses
  BY <1>1 DEF Inv, TypesOK, ConsoleAssumption, Page
<1>3. Offered(op) = PaymentActions(kind, st)
  BY <1>1 DEF Offered
<1> QED
  BY <1>1, <1>2, <1>3, ButtonsOfRules

(* The console is never open without an overview and lists operations only if the list was *)
(* allowed, its buttons are the server's transitions, a row is busy only while its decision *)
(* is under way, and with handlers that are awaited what is shown is for whoever is signed  *)
(* in (OperationsConsole.jsx).                                                              *)
THEOREM ConsoleAlwaysHolds == ConsoleAssumption => (Spec => []ConsoleHolds)
<1>1. Inv => ConsoleHolds
  BY InvTypes, InvButtons DEF Inv, AwaitedHolds, ConsoleHolds
<1> QED
  BY <1>1, InvAlways, PTL

-----------------------------------------------------------------------------
(* Decisions.  A request to decide that the server would let through now was pressed by an  *)
(* account that might manage payments then, because nobody is given that right later; and    *)
(* from where an operation has come to its end no rule leads on.                             *)

MayManage(a) == "manage" \in MayOf(roles[a])

Rightful(w) ==
  "transition" \in DOMAIN w.calls =>
    LET r == w.calls["transition"] IN
    /\ r.ans = "sent" /\ r.tok \in Accounts /\ MayManage(r.tok) => "manage" \in w.may
    /\ r.ans = "admitted" => "manage" \in w.may

RightsOK == \A c \in Tasks : Rightful(task[c])

(* One task moves, and is still rightful. *)
LEMMA OneMoves ==
  ASSUME Inv, RightsOK, NEW c \in Tasks, NEW next, Goes(c, next), Rightful(next), UNCHANGED roles
  PROVE  RightsOK'
<1>1. DOMAIN task = Tasks
  BY DEF Inv, TypesOK
<1>2. task'[c] = next /\ \A d \in Tasks \ {c} : task'[d] = task[d]
  BY <1>1 DEF Goes
<1>3. \A w : Rightful(w) => Rightful(w)'
  BY DEF Rightful, MayManage
<1> QED
  BY <1>2, <1>3 DEF RightsOK, Rightful, MayManage

(* Rights are only taken away. *)
LEMMA TakenAway ==
  ASSUME RightsOK, UNCHANGED task, \A a \in Accounts : MayManage(a)' => MayManage(a)
  PROVE  RightsOK'
  BY DEF RightsOK, Rightful

(* A request is answered. *)
LEMMA ReplyRights ==
  ASSUME Inv, RightsOK, NEW c \in Tasks, task[c] # Idle, NEW q \in DOMAIN task[c].calls,
         NEW ans \in Answers, NEW got \in Got, Answered(c, q, ans, got), UNCHANGED roles,
         q = "transition" => ans # "sent" /\ (ans = "admitted" => "manage" \in task[c].may)
  PROVE  RightsOK'
<1>1. PICK n : n = Reply(task[c], q, ans, got)
  OBVIOUS
<1>2. task[c] \in Work
  BY RunningWorks
<1>3. /\ DOMAIN n.calls = DOMAIN task[c].calls /\ n.may = task[c].may /\ n.calls[q].ans = ans
      /\ \A p \in DOMAIN task[c].calls \ {q} : n.calls[p] = task[c].calls[p]
  BY <1>1, <1>2, Replied
<1>4. Goes(c, n)
  BY <1>1 DEF Answered, Reply
<1>5. Rightful(n)
  BY <1>3 DEF RightsOK, Rightful
<1> QED
  BY <1>4, <1>5, OneMoves

(* A decision is let through for an account that may manage payments now, hence might when it pressed. *)
LEMMA ServeRights ==
  ASSUME Inv, RightsOK, NEW c \in Tasks, NEW q \in Requests, Serve(c, q)
  PROVE  RightsOK'
<1> DEFINE a == task[c].calls[q].tok
           g == Gate(a, q)
<1>1. /\ Running(c) /\ q \in DOMAIN task[c].calls /\ task[c].calls[q].ans = "sent"
      /\ UNCHANGED <<ui, tok, roles, status, decided>>
  BY DEF Serve
<1>2. task[c] # Idle /\ task[c] \in Work
  BY <1>1, RunningWorks
<1>3. None \in Got /\ {"ok", "401", "403", "admitted"} \subseteq Answers
  BY DEF Got, Answers
<1>4. CASE \E ans \in {"ok", "401", "403"} : Answered(c, q, ans, None)
  BY <1>1, <1>2, <1>3, <1>4, ReplyRights
<1>5. CASE q \notin {"login", "logout", "transition"} /\ g = "ok"
  <2>1. PICK got : got = Reads(c, q)
    OBVIOUS
  <2>2. Answered(c, q, "ok", got)
    BY <1>5, <2>1 DEF Serve
  <2>3. got \in Got
    <3>1. g = "ok" => a \in live
      BY DEF Gate
    <3>2. a \in Accounts
      BY <1>5, <3>1 DEF Inv, TypesOK
    <3>3. MayOf(roles[a]) \in SUBSET Capabilities
      BY DEF MayOf, RoleCapabilities, Capabilities
    <3>4. task[c].player \in Players \cup {None} /\ status \in [Ops -> Statuses]
      BY <1>2 DEF Work, Inv, TypesOK
    <3>5. got = MayOf(roles[a]) \/ got = status \/ got = task[c].player \/ got = None
      BY <2>1 DEF Reads
    <3> QED
      BY <1>3, <3>3, <3>4, <3>5 DEF Got
  <2> QED
    BY <1>1, <1>2, <1>3, <1>5, <2>2, <2>3, ReplyRights
<1>6. CASE q = "transition" /\ g = "ok"
  <2>1. Answered(c, q, "admitted", None)
    BY <1>6 DEF Serve, Reads
  <2>2. a \in live /\ "manage" \in MayOf(roles[a])
    BY <1>6 DEF Gate, Needs
  <2>3. a \in Accounts /\ MayManage(a)
    BY <2>2 DEF Inv, TypesOK, MayManage
  <2>4. "manage" \in task[c].may
    BY <1>1, <1>6, <2>3 DEF RightsOK, Rightful
  <2> QED
    BY <1>1, <1>2, <1>3, <1>6, <2>1, <2>4, ReplyRights
<1>7. CASE q \notin {"login", "logout"} /\ g # "ok"
  BY <1>4, <1>7 DEF Serve, Gate
<1>8. CASE q \in {"login", "logout"}
  BY <1>4, <1>8 DEF Serve
<1> QED
  BY <1>5, <1>6, <1>7, <1>8

(* What is done or lost asks for no more rights. *)
LEMMA AnswerRights ==
  ASSUME Inv, RightsOK, NEW c \in Tasks, Decide(c) \/ \E q \in Requests : Lose(c, q)
  PROVE  RightsOK'
<1>1. PICK q \in Requests, ans \in {"ok", "failed"} :
        Running(c) /\ q \in DOMAIN task[c].calls /\ Answered(c, q, ans, None) /\ UNCHANGED roles
  BY DEF Decide, Lose, Requests, server
<1>2. None \in Got /\ ans \in Answers
  BY DEF Got, Answers
<1> QED
  BY <1>1, <1>2, RunningWorks, ReplyRights

(* A task after an answer: it is done, or asks for something that is no decision. *)
Onward(c, next) ==
  \E q \in Requests, asked \in Calls :
    /\ Arrived(c, q, Answers) /\ "transition" \notin DOMAIN asked
    /\ \E left : /\ left = Left(c, q, asked)
                 /\ \/ next = left
                    \/ left # Idle /\ next = [left EXCEPT !.caught = TRUE]
                    \/ left # Idle /\ \E e : next = [left EXCEPT !.error = e]

(* Such a task is rightful. *)
LEMMA OnwardRights ==
  ASSUME Inv, RightsOK, NEW c \in Tasks, NEW next, Goes(c, next), next = Idle \/ Onward(c, next),
         UNCHANGED roles
  PROVE  RightsOK'
<1>1. "transition" \notin DOMAIN Idle.calls
  BY DEF Idle, NoCalls
<1>2. ASSUME Onward(c, next)
      PROVE  "transition" \notin DOMAIN next.calls
  <2>0. PICK q \in Requests, asked \in Calls :
          /\ Arrived(c, q, Answers) /\ "transition" \notin DOMAIN asked
          /\ \E left : /\ left = Left(c, q, asked)
                       /\ \/ next = left
                          \/ left # Idle /\ next = [left EXCEPT !.caught = TRUE]
                          \/ left # Idle /\ \E e : next = [left EXCEPT !.error = e]
    BY <1>2 DEF Onward
  <2>1. PICK left :
          /\ Arrived(c, q, Answers) /\ "transition" \notin DOMAIN asked /\ left = Left(c, q, asked)
          /\ \/ next = left
             \/ left # Idle /\ next = [left EXCEPT !.caught = TRUE]
             \/ left # Idle /\ \E e : next = [left EXCEPT !.error = e]
    BY <2>0
  <2>2. /\ task[c] \in Work /\ WorkOK(task[c]) /\ q \in DOMAIN task[c].calls
        /\ (q \notin {"queue"} \cup Evidence => DOMAIN task[c].calls = {q})
    BY <2>1, Arriving
  <2>3. "transition" \notin DOMAIN task[c].calls \ {q}
    BY <2>2 DEF WorkOK, InTurn, Evidence
  <2>4. left = Idle \/ (left \in Work /\ "transition" \notin DOMAIN left.calls)
    BY <2>1, <2>2, <2>3, WhatIsLeft
  <2>5. left \in Work => /\ [left EXCEPT !.caught = TRUE].calls = left.calls
                         /\ \A e : [left EXCEPT !.error = e].calls = left.calls
    BY DEF Work
  <2> QED
    BY <1>1, <2>1, <2>4, <2>5
<1>3. Rightful(next)
  BY <1>1, <1>2 DEF Rightful
<1> QED
  BY <1>3, OneMoves

(* An answer is handled. *)
LEMMA ArriveRights ==
  ASSUME Inv, RightsOK, NEW c \in Tasks, Arrive(c)
  PROVE  RightsOK' /\ UNCHANGED <<roles, status, decided>>
<1>1. /\ NoCalls \in Calls /\ DOMAIN NoCalls = {} /\ tok \in Accounts \cup {None}
      /\ \A a \in Accounts \cup {None} : \A Q \in SUBSET Requests : Asked(Q, a) \in Calls /\ DOMAIN Asked(Q, a) = Q
  BY NothingIsAsked, AskedIsSent DEF Inv, TypesOK
<1>2. \A q, ans : Arrived(c, q, ans) => q \in Requests /\ Arrived(c, q, Answers)
  <2> TAKE q, ans
  <2> HAVE Arrived(c, q, ans)
  <2>1. task[c] \in Work /\ q \in DOMAIN task[c].calls
    BY Arriving
  <2> QED
    BY <2>1, CallIsCall DEF Arrived, Call
<1>3. ASSUME NEW q, NEW asked \in Calls, NEW ans, Arrived(c, q, ans), "transition" \notin DOMAIN asked,
             Goes(c, Left(c, q, asked)), UNCHANGED roles
      PROVE  RightsOK'
  <2>1. Onward(c, Left(c, q, asked))
    BY <1>2, <1>3 DEF Onward
  <2> QED
    BY <1>3, <2>1, OnwardRights
<1>4. ASSUME NEW q, NEW ans, Arrived(c, q, ans), NEW u, NEW error, Rejected(c, q, u, error), UNCHANGED roles
      PROVE  RightsOK'
  <2>1. PICK left : left = Left(c, q, NoCalls)
    OBVIOUS
  <2>2. PICK next : /\ next = IF left = Idle THEN Idle ELSE [left EXCEPT !.caught = TRUE]
                    /\ Goes(c, next)
    BY <1>4, <2>1 DEF Rejected
  <2>3. next = Idle \/ Onward(c, next)
    BY <1>1, <1>2, <1>4, <2>1, <2>2 DEF Onward
  <2> QED
    BY <1>4, <2>2, <2>3, OnwardRights
<1>5. CASE OverviewRead(c)
  <2>1. PICK caps, Q, asked, next :
          /\ caps = task[c].calls["overview"].got /\ Q \in {Asks(caps), Asks(caps) \cap {"queue"}}
          /\ asked = Asked(Q, tok) /\ next = Left(c, "overview", asked) /\ Goes(c, next)
          /\ Arrived(c, "overview", {"ok"}) /\ UNCHANGED <<tok, server, decided>>
    BY <1>5 DEF OverviewRead
  <2>2. Q \in SUBSET Requests /\ "transition" \notin Q
    BY <2>1 DEF Asks, Requests
  <2> QED
    BY <1>1, <1>3, <2>1, <2>2 DEF server
<1>6. CASE OverviewRefused(c)
  <2>1. Arrived(c, "overview", Failures) /\ UNCHANGED <<tok, roles, status, decided>>
    BY <1>6 DEF OverviewRefused, server
  <2>2. CASE task[c].by # "login"
    <3>1. \E u, error : Rejected(c, "overview", u, error)
      BY <1>6, <2>2 DEF OverviewRefused
    <3> QED
      BY <1>4, <2>1, <3>1
  <2>3. CASE task[c].by = "login"
    <3>1. PICK asked, left, e, next :
            /\ asked = Asked({"logout"}, tok) /\ left = Left(c, "overview", asked)
            /\ next = [left EXCEPT !.error = e] /\ Goes(c, next)
      BY <1>6, <2>3 DEF OverviewRefused
    <3>2. asked \in Calls /\ DOMAIN asked = {"logout"}
      BY <1>1, <3>1 DEF Requests
    <3>3. left # Idle
      <4>1. task[c] \in Work /\ Only(task[c], "overview")
        BY <2>1, Arriving DEF Evidence, Only
      <4> QED
        BY <3>1, <3>2, <4>1, LeftOfOne
    <3>4. Onward(c, next)
      BY <1>2, <2>1, <3>1, <3>2, <3>3 DEF Onward
    <3> QED
      BY <2>1, <3>1, <3>4, OnwardRights
  <2> QED
    BY <2>1, <2>2, <2>3
<1>7. CASE QueueRead(c)
  BY <1>1, <1>3, <1>7 DEF QueueRead, server
<1>8. CASE QueueRefused(c)
  BY <1>4, <1>8 DEF QueueRefused, server
<1>9. CASE \E q \in {"audit", "reconciliation"} : EvidenceRead(c, q)
  <2>1. PICK q : EvidenceRead(c, q)
    BY <1>9
  <2>2. Arrived(c, q, {"ok", "403", "failed", "401"}) /\ UNCHANGED <<roles, status, decided>>
    BY <2>1 DEF EvidenceRead, server
  <2>3. (\E u : Rejected(c, q, u, task[c].calls[q].ans)) \/ Goes(c, Left(c, q, NoCalls))
    BY <2>1 DEF EvidenceRead
  <2> QED
    BY <1>1, <1>3, <1>4, <2>2, <2>3
<1>10. CASE LoggedIn(c)
  <2>1. PICK a : a = task[c].who
    OBVIOUS
  <2>2. /\ Arrived(c, "login", {"ok"}) /\ Goes(c, Left(c, "login", Asked({"overview"}, a)))
        /\ UNCHANGED <<roles, status, decided>>
    BY <1>10, <2>1 DEF LoggedIn, server
  <2>3. a \in Accounts \cup {None} /\ {"overview"} \in SUBSET Requests
    BY <2>1, <2>2, Arriving DEF Work, Requests
  <2> QED
    BY <1>1, <1>3, <2>2, <2>3
<1>11. CASE LoginRefused(c)
  BY <1>4, <1>11 DEF LoginRefused, server
<1>12. CASE LoggedOut(c)
  <2>1. Arrived(c, "logout", Failures \cup {"ok"}) /\ UNCHANGED <<roles, status, decided>>
    BY <1>12 DEF LoggedOut, server
  <2>2. (\E u, error : Rejected(c, "logout", u, error)) \/ Goes(c, Idle)
    BY <1>12 DEF LoggedOut
  <2> QED
    BY <1>4, <2>1, <2>2, OnwardRights
<1>13. CASE PlayersRead(c)
  BY <1>13, OnwardRights DEF PlayersRead, server
<1>14. CASE SessionsRead(c)
  BY <1>14, OnwardRights DEF SessionsRead, server
<1>15. CASE Transitioned(c)
  <2>1. Arrived(c, "transition", Failures \cup {"ok"}) /\ UNCHANGED <<roles, status, decided>>
    BY <1>15 DEF Transitioned, server
  <2>2. Goes(c, Idle) \/ Goes(c, Left(c, "transition", Asked({"overview"}, tok)))
    BY <1>15 DEF Transitioned
  <2>3. {"overview"} \in SUBSET Requests
    BY DEF Requests
  <2> QED
    BY <1>1, <1>3, <2>1, <2>2, <2>3, OnwardRights
<1> QED
  BY <1>5, <1>6, <1>7, <1>8, <1>9, <1>10, <1>11, <1>12, <1>13, <1>14, <1>15 DEF Arrive

(* A button: what the account may do is kept with a decision. *)
LEMMA PressRights ==
  ASSUME Inv, RightsOK, NEW c \in Tasks, NEW by, NEW q, NEW who, NEW op, NEW action, NEW chosen,
         q = "transition" => by = "transition", Press(c, by, q, who, op, action, chosen)
  PROVE  RightsOK' /\ UNCHANGED <<roles, status, decided>>
<1>1. PICK calls, may : calls = Asked({q}, tok) /\ may = IF by = "transition" THEN MayNow ELSE {}
  OBVIOUS
<1>2. PICK next : next = [by |-> by, calls |-> calls, who |-> who, op |-> op, action |-> action,
                          player |-> chosen, error |-> "none", caught |-> FALSE, may |-> may]
  OBVIOUS
<1>3. Goes(c, next) /\ UNCHANGED <<roles, status, decided>>
  BY <1>1, <1>2 DEF Press, server
<1>4. DOMAIN calls = {q} /\ calls[q].tok = tok /\ calls[q].ans = "sent"
  BY <1>1 DEF Asked, Sent
<1>5. next.calls = calls /\ next.may = may
  BY <1>2
<1>6. q = "transition" /\ tok \in Accounts => may = MayOf(roles[tok])
  BY <1>1 DEF MayNow
<1>7. Rightful(next)
  BY <1>4, <1>5, <1>6 DEF Rightful, MayManage
<1> QED
  BY <1>3, <1>7, OneMoves

(* Roles are only taken away, tokens end, payments go on. *)
LEMMA ElsewhereRights ==
  ASSUME Inv, RightsOK, \/ \E a \in Accounts : Expire(a) \/ Reassign(a)
                        \/ \E op \in Ops : Elsewhere(op)
  PROVE  RightsOK' /\ UNCHANGED decided
<1>1. UNCHANGED <<task, decided>>
  BY DEF Expire, Reassign, Elsewhere
<1>2. \A a \in Accounts : roles'[a] = roles[a] \/ roles'[a] \in {{"player"}, {"support"}}
  BY DEF Expire, Reassign, Elsewhere, Inv, TypesOK
<1>3. \A rs \in {{"player"}, {"support"}} : "manage" \notin MayOf(rs)
  BY DEF MayOf, RoleCapabilities
<1>4. \A a \in Accounts : MayManage(a)' => MayManage(a)
  BY <1>2, <1>3 DEF MayManage
<1> QED
  BY <1>1, <1>4, TakenAway

(* What the rules make of an operation does not undo what was final. *)
LEMMA FinalStands ==
  ASSUME DecisionsStand, Inv, NEW op \in Ops, NEW r \in Table, r.from = status[op],
         status' = [status EXCEPT ![op] = r.to]
  PROVE  \A d \in decided : d.to \in Final => status'[d.op] = d.to
<1>1. r.from \notin Final
  BY DEF Table, Rule, Final
<1>2. \A d \in decided : d.to \in Final => status[d.op] = d.to /\ d.op # op /\ d.op \in Ops
  BY <1>1 DEF DecisionsStand, Inv, TypesOK
<1> QED
  BY <1>2 DEF Inv, TypesOK

(* A decision is right when it is made. *)
LEMMA DecideStands ==
  ASSUME DecisionsStand, Inv, RightsOK, NEW c \in Tasks, Decide(c)
  PROVE  DecisionsStand'
<1>1. /\ Running(c) /\ "transition" \in DOMAIN task[c].calls
      /\ task[c].calls["transition"].ans = "admitted"
  BY DEF Decide
<1>2. "manage" \in task[c].may
  BY <1>1 DEF RightsOK, Rightful
<1>3. PICK op, may : op = task[c].op /\ may = task[c].may
  OBVIOUS
<1>4. op \in Ops
  <2>1. WorkOK(task[c])
    BY <1>1, RunningWorks
  <2> QED
    BY <1>1, <1>3, <2>1 DEF WorkOK, RequestsOf, Work, Handlers, Evidence
<1>5. CASE UNCHANGED <<status, decided>>
  BY <1>5 DEF DecisionsStand
<1>6. CASE \E to \in Outcome(op, task[c].action) :
             /\ status' = [status EXCEPT ![op] = to]
             /\ decided' = decided \cup {[op |-> op, to |-> to, may |-> may]}
  <2>1. PICK r \in Table : /\ r.from = status[op] /\ status' = [status EXCEPT ![op] = r.to]
                           /\ decided' = decided \cup {[op |-> op, to |-> r.to, may |-> may]}
    BY <1>6 DEF Outcome
  <2>2. \A d \in decided : d.to \in Final => status'[d.op] = d.to
    BY <1>4, <2>1, FinalStands
  <2>3. status'[op] = r.to
    BY <1>4, <2>1 DEF Inv, TypesOK
  <2> QED
    BY <1>2, <1>3, <2>1, <2>2, <2>3 DEF DecisionsStand
<1> QED
  BY <1>3, <1>5, <1>6 DEF Decide

(* Every step keeps both. *)
LEMMA DecisionStep ==
  ASSUME Inv, RightsOK, DecisionsStand, [Next]_vars
  PROVE  RightsOK' /\ DecisionsStand'
<1>0. UNCHANGED <<status, decided>> => DecisionsStand'
  BY DEF DecisionsStand
<1>1. CASE \E c \in Tasks : Decide(c)
  BY <1>1, DecideStands, AnswerRights
<1>2. CASE \E c \in Tasks, q \in Requests : Serve(c, q)
  BY <1>0, <1>2, ServeRights DEF Serve
<1>3. CASE \E c \in Tasks, q \in Requests : Lose(c, q)
  BY <1>0, <1>3, AnswerRights DEF Lose, server
<1>4. CASE \E c \in Tasks : Arrive(c)
  BY <1>0, <1>4, ArriveRights
<1>5. CASE \E c \in Tasks : Mount(c) \/ Refresh(c) \/ Logout(c) \/ Search(c)
  BY <1>0, <1>5, PressRights DEF Mount, Refresh, Logout, Search, Plain
<1>6. CASE \E c \in Tasks : Login(c) \/ (\E p \in Players : Select(c, p)) \/ (\E op \in Ops : Transition(c, op))
  <2>1. PICK c \in Tasks : Login(c) \/ (\E p \in Players : Select(c, p)) \/ (\E op \in Ops : Transition(c, op))
    BY <1>6
  <2>2. CASE Login(c)
    <3>1. PICK a \in Accounts : Press(c, "login", "login", a, None, "none", None)
      BY <2>2 DEF Login
    <3> QED
      BY <1>0, <3>1, PressRights
  <2>3. CASE \E p \in Players : Select(c, p)
    <3>1. PICK p \in Players : Press(c, "select", "sessions", None, None, "none", p)
      BY <2>3 DEF Select
    <3> QED
      BY <1>0, <3>1, PressRights
  <2>4. CASE \E op \in Ops : Transition(c, op)
    <3>1. PICK op \in Ops : Transition(c, op)
      BY <2>4
    <3>2. PICK action \in Offered(op) : Press(c, "transition", "transition", None, op, action, None)
      BY <3>1 DEF Transition
    <3> QED
      BY <1>0, <3>2, PressRights
  <2> QED
    BY <2>1, <2>2, <2>3, <2>4
<1>7. CASE Close \/ UNCHANGED vars
  <2>1. UNCHANGED <<task, roles, status, decided>>
    BY <1>7 DEF Close, vars, server
  <2> QED
    BY <1>0, <2>1, TakenAway DEF MayManage
<1>8. CASE \E a \in Accounts : Expire(a) \/ Reassign(a)
  BY <1>0, <1>8, ElsewhereRights DEF Expire, Reassign
<1>9. CASE \E op \in Ops : Elsewhere(op)
  <2>1. PICK op \in Ops, r \in Table : r.from = status[op] /\ status' = [status EXCEPT ![op] = r.to] /\ UNCHANGED decided
    BY <1>9 DEF Elsewhere
  <2>2. \A d \in decided : d.to \in Final => status'[d.op] = d.to
    BY <2>1, FinalStands
  <2> QED
    BY <1>9, <2>1, <2>2, ElsewhereRights DEF DecisionsStand
<1> QED
  BY <1>1, <1>2, <1>3, <1>4, <1>5, <1>6, <1>7, <1>8, <1>9 DEF Next, ServeAny

(* Nothing is decided for an account that had lost the right to manage payments before it *)
(* pressed, and what is decided for good stands (sandboxPaymentHttpServer.js:260,          *)
(* sandboxPaymentService.js:263).                                                          *)
THEOREM DecisionsAlwaysStand == ConsoleAssumption => (Spec => []DecisionsStand)
<1>1. ConsoleAssumption /\ Init => RightsOK /\ DecisionsStand
  BY DEF Init, RightsOK, Rightful, Idle, NoCalls, DecisionsStand
<1>2. Inv /\ RightsOK /\ DecisionsStand /\ [Next]_vars => RightsOK' /\ DecisionsStand'
  BY DecisionStep
<1> QED
  BY <1>1, <1>2, InvAlways, PTL DEF Spec

-----------------------------------------------------------------------------
(* The provider.  Its events are accepted in order because a list has two    *)
(* entries at most and the second one is final: what has been accepted after *)
(* it would have to leave a status that no transition leaves.                *)

(* What can be recorded of an operation: its events, and decisions of the staff. *)
Entries(o) == {e \in Provider!Events : e.op = o} \cup {Provider!StaffEvent(o)}

(* What has been recorded of an operation explains where it stands. *)
RecordOK ==
  /\ applied \in [Payments -> Seq(UNION {Entries(o) : o \in Payments})]
  /\ \A o \in Payments :
       /\ \A i \in 1..Len(applied[o]) : /\ applied[o][i] \in Entries(o)
                                        /\ applied[o][i].n >= 2 => reported[o] \in Final
       /\ applied[o] = <<>> <=> reported[o] = Initial(KindOf[o])

(* The inductive invariant of the webhook. *)
Delivering ==
  /\ Provider!WebhooksAssumption /\ Provider!ScriptAssumption
  /\ Provider!TypeOK
  /\ RecordOK
  /\ Provider!InProviderOrder
  /\ Provider!ToldIsApplied

(* An event is one of a list. *)
LEMMA EventOfList ==
  ASSUME Provider!WebhooksAssumption, NEW e \in Provider!Events
  PROVE  /\ e.op \in Payments /\ e.n \in 1..Len(Script[e.op]) /\ e.n \in Nat /\ e.n # 0
         /\ Script[e.op][e.n] \in Actions
         /\ e = [op |-> e.op, n |-> e.n]
<1>1. PICK o \in Payments : e \in [op : {o}, n : 1..Len(Script[o])]
  BY DEF Provider!Events
<1>2. Script[o] \in Seq(Actions)
  BY DEF Provider!WebhooksAssumption, Provider!Actions, Actions
<1> QED
  BY <1>1, <1>2

(* The two modules have one table. *)
LEMMA SameTable ==
  /\ Provider!Table = Table /\ Provider!Kinds = Kinds /\ Provider!Statuses = Statuses
  /\ Provider!Actions = Actions
  /\ \A k : Provider!Initial(k) = Initial(k)
  /\ \A k, f, a, t : Provider!Rule(k, f, a, t) = Rule(k, f, a, t)
  BY DEF Provider!Table, Table, Provider!Kinds, Kinds, Provider!Statuses, Statuses, Provider!Actions,
         Actions, Provider!Initial, Initial, Provider!Rule, Rule

(* Two actions follow upon each other only if the first approves and the second ends. *)
LEMMA SecondEnds ==
  ASSUME Provider!WebhooksAssumption, Provider!ScriptAssumption,
         NEW o \in Payments, NEW n \in 1..Len(Script[o]), n >= 2
  PROVE  Script[o][n] \in {"complete", "fail"}
<1>1. PICK path \in [0..Len(Script[o]) -> Statuses] :
        /\ path[0] = Initial(KindOf[o])
        /\ \A m \in 1..Len(Script[o]) : Rule(KindOf[o], path[m - 1], Script[o][m], path[m]) \in Table
  BY SameTable DEF Provider!ScriptAssumption
<1>2. \A m \in 2..Len(Script[o]) : path[m - 1] # Initial(KindOf[o])
  <2>1. \A k, f, a, t : Rule(k, f, a, t) \in Table => t # Initial(k)
    BY DEF Rule, Table, Initial
  <2>2. Len(Script[o]) \in Nat
    BY DEF Provider!WebhooksAssumption
  <2>3. \A m \in 2..Len(Script[o]) : m - 1 \in 1..Len(Script[o])
    BY <2>2
  <2> QED
    BY <1>1, <2>1, <2>3
<1>3. \A k, f, a, t : Rule(k, f, a, t) \in Table /\ f # Initial(k) => a \in {"complete", "fail"}
  BY DEF Rule, Table, Initial
<1> QED
  BY <1>1, <1>2, <1>3
(* A transition of the webhook is one of the rules. *)
LEMMA RuleOf ==
  ASSUME Delivering, NEW o \in Payments, NEW action \in Actions, NEW e, Provider!Change(o, action, e)
  PROVE  \E to \in Statuses :
           /\ Rule(KindOf[o], reported[o], action, to) \in Table
           /\ reported' = [reported EXCEPT ![o] = to]
           /\ applied' = [applied EXCEPT ![o] = Append(@, e)]
<1>1. PICK r \in Table : /\ r.kind = KindOf[o] /\ r.from = reported[o] /\ r.action = action
                         /\ reported' = [reported EXCEPT ![o] = r.to]
                         /\ applied' = [applied EXCEPT ![o] = Append(@, e)]
  BY SameTable DEF Provider!Change, Provider!Rules
<1>2. r = Rule(r.kind, r.from, r.action, r.to) /\ r.to \in Statuses
  BY DEF Table, Rule, Statuses
<1> QED
  BY <1>1, <1>2

(* What is recorded of one operation: the rest stays, and the event stands last. *)
LEMMA Recorded ==
  ASSUME Delivering, NEW o \in Payments, NEW action \in Actions,
         NEW e \in Entries(o), Provider!Change(o, action, e),
         e.n >= 2 => action \in {"complete", "fail"},
         e.n # 0 => ~Provider!IsReplay(e)
  PROVE  /\ RecordOK' /\ Provider!InProviderOrder' /\ reported' \in [Payments -> Statuses]
         /\ \A f : Provider!IsReplay(f) => Provider!IsReplay(f)'
         /\ e.n # 0 => Provider!IsReplay(e)'
<1>1. PICK to \in Statuses : /\ Rule(KindOf[o], reported[o], action, to) \in Table
                             /\ reported' = [reported EXCEPT ![o] = to]
                             /\ applied' = [applied EXCEPT ![o] = Append(@, e)]
  BY RuleOf
<1>2. /\ reported[o] \notin Final /\ to # Initial(KindOf[o])
      /\ action \in {"complete", "fail"} => to \in Final
  BY <1>1 DEF Rule, Table, Initial, Final
<1>3. reported \in [Payments -> Statuses]
  BY SameTable DEF Delivering, Provider!TypeOK
<1>4. PICK old : old = applied[o]
  OBVIOUS
<1>5. /\ old \in Seq(UNION {Entries(p) : p \in Payments}) /\ Len(old) \in Nat
      /\ \A i \in 1..Len(old) : old[i] \in Entries(o) /\ ~(old[i].n >= 2)
  BY <1>2, <1>4 DEF Delivering, RecordOK
<1>6. PICK new : new = Append(old, e)
  OBVIOUS
<1>7. /\ new \in Seq(UNION {Entries(p) : p \in Payments}) /\ Len(new) = Len(old) + 1
      /\ new[Len(new)] = e /\ \A i \in 1..Len(old) : new[i] = old[i]
      /\ new # <<>>
  BY <1>5, <1>6
<1>8. /\ applied'[o] = new /\ applied' \in [Payments -> Seq(UNION {Entries(p) : p \in Payments})]
      /\ \A p \in Payments \ {o} : applied'[p] = applied[p] /\ reported'[p] = reported[p]
      /\ reported'[o] = to /\ reported' \in [Payments -> Statuses]
  BY <1>1, <1>3, <1>4, <1>6, <1>7 DEF Delivering, RecordOK
<1>9. \A i \in 1..Len(new) : i \in 1..Len(old) \/ i = Len(new)
  BY <1>5, <1>7
<1>10. RecordOK'
  <2>1. \A i \in 1..Len(new) : new[i] \in Entries(o) /\ (new[i].n >= 2 => to \in Final)
    BY <1>2, <1>5, <1>7, <1>9
  <2>2. \A p : Entries(p)' = Entries(p)
    BY DEF Entries, Provider!Events, Provider!StaffEvent
  <2> QED
    BY <1>2, <1>7, <1>8, <2>1, <2>2 DEF Delivering, RecordOK, Final
<1>11. \A f \in Entries(o) : f.n \in Nat /\ (f.n # 0 => f \in Provider!Events /\ f = [op |-> o, n |-> f.n])
  BY EventOfList DEF Entries, Provider!StaffEvent, Delivering
<1>12. Provider!InProviderOrder'
  <2> SUFFICES ASSUME NEW p \in Payments, NEW i \in 1..Len(applied'[p]), NEW j \in 1..Len(applied'[p]),
                      i < j, applied'[p][i].n # 0, applied'[p][j].n # 0
               PROVE  applied'[p][i].n < applied'[p][j].n
    BY DEF Provider!InProviderOrder
  <2>1. CASE p # o
    BY <1>8, <2>1 DEF Delivering, Provider!InProviderOrder
  <2>2. CASE p = o /\ j \in 1..Len(old)
    <3>1. i \in 1..Len(old)
      BY <1>5, <1>7, <1>8, <2>2
    <3> QED
      BY <1>4, <1>7, <1>8, <2>2, <3>1 DEF Delivering, Provider!InProviderOrder
  <2>3. CASE p = o /\ j = Len(new)
    <3>1. i \in 1..Len(old) /\ new[i] = old[i]
      BY <1>5, <1>7, <1>8, <2>3
    <3>2. old[i].n = 1 /\ old[i] = [op |-> o, n |-> 1]
      <4>1. old[i] \in Entries(o) /\ ~(old[i].n >= 2) /\ old[i].n # 0
        BY <1>5, <1>8, <2>3, <3>1
      <4>2. old[i].n \in Nat /\ old[i] = [op |-> o, n |-> old[i].n]
        BY <1>11, <4>1
      <4> QED
        BY <4>1, <4>2
    <3>3. e.n # 0 /\ e.n \in Nat /\ e = [op |-> o, n |-> e.n]
      BY <1>7, <1>8, <1>11, <2>3
    <3>4. e.n # 1
      <4> SUFFICES ASSUME e.n = 1 PROVE FALSE
        OBVIOUS
      <4>1. old[i] = e /\ e.op = o
        BY <3>2, <3>3
      <4> QED
        BY <1>4, <3>1, <3>3, <4>1 DEF Provider!IsReplay, Provider!Contains
    <3> QED
      BY <1>7, <1>8, <2>3, <3>1, <3>2, <3>3, <3>4
  <2> QED
    BY <1>8, <1>9, <2>1, <2>2, <2>3
<1>13. \A f : Provider!IsReplay(f) => Provider!IsReplay(f)'
  <2> SUFFICES ASSUME NEW f, Provider!IsReplay(f) PROVE Provider!IsReplay(f)'
    OBVIOUS
  <2>1. CASE f.op = o
    <3>1. PICK i \in 1..Len(old) : old[i] = f
      BY <1>4, <2>1 DEF Provider!IsReplay, Provider!Contains
    <3>2. i \in 1..Len(new) /\ new[i] = f
      BY <1>5, <1>7, <3>1
    <3> QED
      BY <1>8, <2>1, <3>2 DEF Provider!IsReplay, Provider!Contains
  <2>2. CASE f.op # o
    <3>1. applied'[f.op] = applied[f.op]
      BY <1>1, <2>2 DEF Delivering, RecordOK
    <3> QED
      BY <3>1 DEF Provider!IsReplay, Provider!Contains
  <2> QED
    BY <2>1, <2>2
<1>14. e.n # 0 => Provider!IsReplay(e)'
  <2>1. Len(new) \in 1..Len(new)
    BY <1>5, <1>7
  <2> QED
    BY <1>7, <1>8, <1>11, <2>1 DEF Provider!IsReplay, Provider!Contains
<1> QED
  BY <1>8, <1>10, <1>12, <1>13, <1>14
(* The types of the record follow from what it holds. *)
LEMMA TypesFollow ==
  ASSUME RecordOK', reported' \in [Payments -> Statuses], now' \in 0..MaxTime,
         wire' \subseteq [event : Provider!Events, at : (0 - Skew)..(MaxTime + Skew)],
         told' \subseteq Provider!Events, worker' \in [Workers -> Provider!Events \cup {None}]
  PROVE  Provider!TypeOK'
<1>1. \A o \in Payments : \A i \in 1..Len(applied'[o]) :
        applied'[o][i] \in Provider!Events \cup {Provider!StaffEvent(o)}
  BY DEF RecordOK, Entries, Provider!Events, Provider!StaffEvent
<1> QED
  BY <1>1, SameTable DEF RecordOK, Provider!TypeOK, Provider!Events, Provider!StaffEvent

(* What leaves the record alone keeps what is true of it. *)
LEMMA Untouched ==
  ASSUME Delivering, NEW w \in Workers, worker' = [worker EXCEPT ![w] = None],
         UNCHANGED <<now, wire, reported, applied>>,
         \A f \in told' : f \in Provider!Events /\ Provider!IsReplay(f)
  PROVE  Delivering'
<1>1. Provider!TypeOK'
  BY DEF Delivering, Provider!TypeOK
<1>2. Provider!ToldIsApplied'
  BY DEF Provider!ToldIsApplied, Provider!IsReplay, Provider!Contains
<1> QED
  BY <1>1, <1>2 DEF Delivering, Provider!WebhooksAssumption, Provider!ScriptAssumption, RecordOK,
     Provider!InProviderOrder

(* The invariant at the start. *)
LEMMA DeliveringInit ==
  ASSUME Provider!WebhooksAssumption, Provider!ScriptAssumption, Provider!Init
  PROVE  Delivering
<1>1. \A o \in Payments : KindOf[o] \in Kinds /\ Initial(KindOf[o]) \in Statuses
  BY SameTable DEF Provider!WebhooksAssumption, Initial, Statuses
<1>2. now = 0 /\ 0 \in 0..MaxTime
  BY DEF Provider!Init, Provider!WebhooksAssumption
<1>3. Provider!TypeOK
  BY <1>1, <1>2, SameTable DEF Provider!Init, Provider!TypeOK
<1>4. RecordOK
  BY SameTable DEF Provider!Init, RecordOK
<1>5. Provider!InProviderOrder /\ Provider!ToldIsApplied
  BY DEF Provider!Init, Provider!InProviderOrder, Provider!ToldIsApplied
<1> QED
  BY <1>3, <1>4, <1>5 DEF Delivering

(* An event the server accepts. *)
LEMMA AcceptDelivers ==
  ASSUME Delivering, NEW w \in Workers, Provider!Accept(w)
  PROVE  Delivering'
<1>1. PICK e : e = worker[w]
  OBVIOUS
<1>2. /\ e # None /\ ~Provider!IsReplay(e) /\ Provider!Change(e.op, Script[e.op][e.n], e)
      /\ told' \in {told, told \cup {e}} /\ worker' = [worker EXCEPT ![w] = None]
      /\ UNCHANGED <<now, wire>>
  BY <1>1 DEF Provider!Accept, Provider!Answered, Provider!Free, Provider!ActionOf
<1>3. e \in Provider!Events
  BY <1>1, <1>2 DEF Delivering, Provider!TypeOK
<1>4. /\ e.op \in Payments /\ e.n \in 1..Len(Script[e.op]) /\ e.n # 0
      /\ Script[e.op][e.n] \in Actions
  BY <1>3, EventOfList DEF Delivering
<1>5. e \in Entries(e.op)
  BY <1>3 DEF Entries
<1>6. e.n >= 2 => Script[e.op][e.n] \in {"complete", "fail"}
  BY <1>4, SecondEnds DEF Delivering
<1>7. /\ RecordOK' /\ Provider!InProviderOrder' /\ reported' \in [Payments -> Statuses]
      /\ \A f : Provider!IsReplay(f) => Provider!IsReplay(f)'
      /\ Provider!IsReplay(e)'
  BY <1>2, <1>4, <1>5, <1>6, Recorded
<1>8. Provider!TypeOK' /\ Provider!ToldIsApplied'
  <2>1. told' \subseteq Provider!Events /\ \A f \in told' : Provider!IsReplay(f)'
    BY <1>2, <1>3, <1>7 DEF Delivering, Provider!TypeOK, Provider!ToldIsApplied
  <2> QED
    BY <1>2, <1>7, <2>1, TypesFollow DEF Delivering, Provider!TypeOK, Provider!ToldIsApplied
<1> QED
  BY <1>7, <1>8 DEF Delivering, Provider!WebhooksAssumption, Provider!ScriptAssumption

(* An answer that changes nothing of the record. *)
LEMMA AnswerDelivers ==
  ASSUME Delivering, NEW w \in Workers, Provider!Replay(w) \/ Provider!Refuse(w)
  PROVE  Delivering'
<1>1. UNCHANGED <<now, wire, reported, applied>> /\ worker' = [worker EXCEPT ![w] = None]
  BY DEF Provider!Replay, Provider!Refuse, Provider!Free
<1>2. \A f \in told' : f \in Provider!Events /\ Provider!IsReplay(f)
  BY DEF Delivering, Provider!TypeOK, Provider!ToldIsApplied, Provider!Replay, Provider!Refuse,
         Provider!Answered
<1> QED
  BY <1>1, <1>2, Untouched

(* The staff decides. *)
LEMMA DecideDelivers ==
  ASSUME Delivering, NEW o \in Payments, NEW action \in StaffActions, Provider!Decide(o, action)
  PROVE  Delivering'
<1>1. PICK e : e = Provider!StaffEvent(o)
  OBVIOUS
<1>2. e.n = 0 /\ e \in Entries(o) /\ action \in Actions
  BY <1>1, SameTable DEF Delivering, Entries, Provider!StaffEvent, Provider!WebhooksAssumption
<1>3. Provider!Change(o, action, e) /\ UNCHANGED <<now, wire, told, worker>>
  BY <1>1 DEF Provider!Decide
<1>4. /\ RecordOK' /\ Provider!InProviderOrder' /\ reported' \in [Payments -> Statuses]
      /\ \A f : Provider!IsReplay(f) => Provider!IsReplay(f)'
  BY <1>2, <1>3, Recorded
<1>5. Provider!TypeOK'
  BY <1>3, <1>4, TypesFollow DEF Delivering, Provider!TypeOK
<1>6. Provider!ToldIsApplied'
  BY <1>3, <1>4 DEF Delivering, Provider!ToldIsApplied
<1> QED
  BY <1>4, <1>5, <1>6 DEF Delivering, Provider!WebhooksAssumption, Provider!ScriptAssumption

(* Sending, receiving and the clock. *)
LEMMA WireDelivers ==
  ASSUME Delivering,
         \/ \E e \in Provider!Events : Provider!Send(e) \/ \E w \in Workers : Provider!Receive(w, e)
         \/ Provider!Tick \/ UNCHANGED Provider!vars
  PROVE  Delivering'
<1>1. UNCHANGED <<told, reported, applied>>
  BY DEF Provider!Send, Provider!Receive, Provider!Tick, Provider!vars
<1>2. /\ Skew \in Nat /\ MaxTime \in Nat /\ now \in 0..MaxTime
      /\ wire \subseteq [event : Provider!Events, at : (0 - Skew)..(MaxTime + Skew)]
      /\ worker \in [Workers -> Provider!Events \cup {None}]
  BY DEF Delivering, Provider!TypeOK, Provider!WebhooksAssumption
<1>3. /\ now' \in 0..MaxTime
      /\ wire' \subseteq [event : Provider!Events, at : (0 - Skew)..(MaxTime + Skew)]
      /\ worker' \in [Workers -> Provider!Events \cup {None}]
  <2>1. CASE \E e \in Provider!Events : Provider!Send(e)
    <3>1. PICK e \in Provider!Events, at \in (now - Skew)..(now + Skew) :
            wire' = wire \cup {[event |-> e, at |-> at]} /\ UNCHANGED <<now, worker>>
      BY <2>1 DEF Provider!Send
    <3>2. at \in (0 - Skew)..(MaxTime + Skew)
      BY <1>2, <3>1
    <3> QED
      BY <1>2, <3>1, <3>2
  <2>2. CASE \E e \in Provider!Events, w \in Workers : Provider!Receive(w, e)
    BY <1>2, <2>2 DEF Provider!Receive
  <2>3. CASE Provider!Tick
    BY <1>2, <2>3 DEF Provider!Tick
  <2>4. CASE UNCHANGED Provider!vars
    BY <1>2, <2>4 DEF Provider!vars
  <2> QED
    BY <2>1, <2>2, <2>3, <2>4
<1>4. Provider!TypeOK'
  BY <1>1, <1>3, TypesFollow DEF Delivering, Provider!TypeOK
<1> QED
  BY <1>1, <1>4 DEF Delivering, Provider!WebhooksAssumption, Provider!ScriptAssumption, RecordOK,
     Provider!InProviderOrder, Provider!ToldIsApplied, Provider!IsReplay, Provider!Contains

(* Every step of the provider, the server and the staff. *)
LEMMA DeliveringStep == Delivering /\ [Provider!Next]_Provider!vars => Delivering'
  BY AcceptDelivers, AnswerDelivers, DecideDelivers, WireDelivers DEF Provider!Next, Provider!Handle

(* However the provider's events arrive, and whatever the staff decides meanwhile, those that *)
(* take effect do so in the order of its list and once, and an event it was told to be        *)
(* accepted has taken effect (sandboxPaymentHttpServer.js:199).                               *)
THEOREM ProviderAlwaysFollowed ==
  Provider!WebhooksAssumption /\ Provider!ScriptAssumption => (Provider!Spec => []ProviderIsFollowed)
<1>1. Delivering => ProviderIsFollowed
  BY DEF Delivering, ProviderIsFollowed
<1>2. Provider!WebhooksAssumption /\ Provider!ScriptAssumption /\ Provider!Init => Delivering
  BY DeliveringInit
<1> QED
  BY <1>1, <1>2, DeliveringStep, PTL DEF Provider!Spec

-----------------------------------------------------------------------------
(* The player.  A press has its one effect because a spin or a payment is     *)
(* sent again only when the server has refused the first.                     *)

(* What a task still has to call never has an effect. *)
Later == {"me", "wallet", "payments"}

Ended == {Pages!Idle, Pages!Done, Pages!Lost}
Jobs == [by : Pages!Handlers, fn : Pages!Functions, at : Pages!Functions, todo : Seq(Later),
         again : BOOLEAN, ans : {"none", "ok", "session", "auth", "limited", "failed"}, visit : Nat,
         sid : Nat \cup {None}, tok : Nat \cup {None}, got : Nat]

JobOK(t) ==
  /\ t \in Jobs
  /\ t.at # t.fn => t.at = "open" /\ t.fn \in {"wallet", "spin"}
  /\ t.sid \in (1..Len(sess)) \cup {None} /\ t.tok \in (1..Len(auths)) \cup {None}
  /\ t.ans = "ok" /\ t.at \in {"open", "login", "register"} => t.got \in 1..Len(sess)
  /\ t.ans = "ok" /\ t.at \in {"login", "register"} => auths # <<>>

JobsOK == /\ work \in [Presses -> Ended \cup Jobs]
          /\ \A c \in Presses : work[c] \notin Ended => JobOK(work[c])

SessionRows == [account : Nat, protected : BOOLEAN, gone : BOOLEAN]
TokenRows == [account : Nat, live : BOOLEAN]
RowsOK ==
  /\ sess \in Seq(SessionRows) /\ auths \in Seq(TokenRows)
  /\ \A s \in 1..Len(sess) : sess[s].account \in 0..Len(sess)
  /\ \A t \in 1..Len(auths) : auths[t].account \in 0..Len(sess)

Pagings == [name : {"none", "casino", "cashier", "account", "history"}, shows : Pages!Shows]
TabOK ==
  /\ sid \in (1..Len(sess)) \cup {None} /\ token \in (1..Len(auths)) \cup {None}
  /\ page \in Pagings /\ visit \in Nat /\ player \in {"guest", "player", "unaware", "told"}

(* A task that has had its effect sends nothing that could have another. *)
Spent(t) ==
  /\ t.fn # "idle"
  /\ t.fn \in {"spin", "create"} => t.at = t.fn /\ t.ans \in {"ok", "failed"}

EffectsOK == \A e \in effects : e.task \in Presses /\ Spent(work[e.task])

(* The inductive invariant, however many pages and buttons are pressed at once. *)
Pressing == None \notin Nat /\ RowsOK /\ TabOK /\ JobsOK /\ EffectsOK /\ Pages!OneEffectPerClick

(* What a task becomes when the browser has handled an answer or a click: ended, or a request *)
(* with what the browser keeps from then on.                                                  *)
AsksOf(n, s, t) ==
  /\ JobOK(n) /\ n.ans = "none"
  /\ n.at \in Pages!WithSession => n.sid = s
  /\ n.at \in Pages!WithAuth => n.tok = t

MovesTo(c, n) ==
  /\ work' = [work EXCEPT ![c] = n] /\ UNCHANGED <<sess, auths, effects>>
  /\ n \in {Pages!Done, Pages!Lost} \/ AsksOf(n, sid', token')
  /\ Spent(work[c]) => Spent(n)
  /\ TabOK'

(* A task that runs is a job. *)
LEMMA RunningIsJob ==
  ASSUME Pressing, NEW c \in Presses, Pages!Running(c)
  PROVE  JobOK(work[c]) /\ work[c] \in Jobs /\ work[c] \notin Ended
<1>1. work[c] \notin Ended
  BY DEF Pages!Running, Ended, Pages!Idle, Pages!Done, Pages!Lost
<1> QED
  BY <1>1 DEF Pressing, JobsOK, JobOK

(* The request a function makes. *)
LEMMA AskingAsks ==
  ASSUME Pressing, NEW v \in Nat, NEW by \in Pages!Handlers, NEW fn \in Pages!Functions,
         NEW todo \in Seq(Later), NEW again \in BOOLEAN, NEW s \in (1..Len(sess)) \cup {None},
         NEW t \in (1..Len(auths)) \cup {None}
  PROVE  /\ AsksOf(Pages!Asking(v, by, fn, todo, again, s, t), s, t)
         /\ Pages!Asking(v, by, fn, todo, again, s, t).visit = v
         /\ Pages!Asking(v, by, fn, todo, again, s, t).fn = fn
<1>1. PICK at : at = Pages!Request(fn, s)
  OBVIOUS
<1>2. at \in Pages!Functions /\ (at # fn => at = "open" /\ fn \in {"wallet", "spin"})
  BY <1>1 DEF Pages!Request, Pages!Functions
<1>3. PICK n : n = Pages!Asking(v, by, fn, todo, again, s, t)
  OBVIOUS
<1>4. n = [by |-> by, fn |-> fn, at |-> at, todo |-> todo, again |-> again, ans |-> "none", visit |-> v,
           sid |-> IF at \in Pages!WithSession THEN s ELSE None,
           tok |-> IF at \in Pages!WithAuth THEN t ELSE None, got |-> 0]
  BY <1>1, <1>3 DEF Pages!Asking
<1>5. Len(sess) \in Nat /\ Len(auths) \in Nat
  BY DEF Pressing, RowsOK
<1>6. n \in Jobs
  BY <1>2, <1>4, <1>5 DEF Jobs
<1> QED
  BY <1>2, <1>3, <1>4, <1>6 DEF AsksOf, JobOK

(* The function after one that returned. *)
LEMMA FollowingAsks ==
  ASSUME Pressing, NEW c \in Presses, Pages!Running(c), NEW s \in (1..Len(sess)) \cup {None},
         NEW t \in (1..Len(auths)) \cup {None}, NEW n, n = Pages!Following(c, work[c].todo, s, t)
  PROVE  \/ n = Pages!Done
         \/ AsksOf(n, s, t) /\ n.visit = work[c].visit /\ n.fn \in Later
<1>1. work[c] \in Jobs
  BY RunningIsJob
<1>2. PICK todo : todo = work[c].todo
  OBVIOUS
<1>3. todo \in Seq(Later) /\ work[c].visit \in Nat /\ work[c].by \in Pages!Handlers
  BY <1>1, <1>2 DEF Jobs
<1>4. CASE todo # <<>>
  <2>1. PICK v, by, fn, rest : v = work[c].visit /\ by = work[c].by /\ fn = Head(todo) /\ rest = Tail(todo)
    OBVIOUS
  <2>2. v \in Nat /\ by \in Pages!Handlers /\ fn \in Later /\ fn \in Pages!Functions /\ rest \in Seq(Later)
    BY <1>3, <1>4, <2>1 DEF Later, Pages!Functions
  <2>3. PICK no \in BOOLEAN : no = FALSE
    OBVIOUS
  <2>4. PICK m : /\ m = Pages!Asking(v, by, fn, rest, no, s, t)
                 /\ AsksOf(m, s, t) /\ m.visit = v /\ m.fn = fn
    BY <2>2, AskingAsks
  <2>5. n = Pages!Done \/ n = m
    BY <1>2, <2>1, <2>3, <2>4 DEF Pages!Following
  <2> QED
    BY <2>1, <2>2, <2>4, <2>5
<1> QED
  BY <1>2, <1>4 DEF Pages!Following

(* A step of the browser keeps the invariant. *)
LEMMA MovesPress ==
  ASSUME Pressing, NEW c \in Presses, NEW n, MovesTo(c, n)
  PROVE  Pressing'
<1>1. RowsOK' /\ TabOK'
  BY DEF MovesTo, Pressing, RowsOK
<1>2. n \in Ended \/ JobOK(n)'
  BY DEF MovesTo, AsksOf, JobOK, Ended
<1>3. n \in Ended \cup Jobs
  BY DEF MovesTo, AsksOf, JobOK, Ended
<1>4. work' \in [Presses -> Ended \cup Jobs] /\ work'[c] = n /\ \A d \in Presses \ {c} : work'[d] = work[d]
  BY <1>3 DEF MovesTo, Pressing, JobsOK
<1>5. \A d \in Presses : work'[d] \in Ended \/ JobOK(work'[d])
  BY <1>2, <1>4 DEF MovesTo, Pressing, JobsOK, JobOK
<1>6. JobsOK'
  BY <1>4, <1>5 DEF MovesTo, JobsOK, JobOK, Ended, Pages!Idle, Pages!Done, Pages!Lost
<1>7. EffectsOK' /\ Pages!OneEffectPerClick'
  BY <1>4 DEF MovesTo, Pressing, EffectsOK, Pages!OneEffectPerClick, Spent
<1> QED
  BY <1>1, <1>6, <1>7 DEF Pressing
(* An answer the browser handles, and a click or a visit. *)
Arrives(c, n) ==
  /\ MovesTo(c, n) /\ visit' = visit
  /\ n \in {Pages!Done, Pages!Lost} \/ n.visit = work[c].visit

Starts(c, n) ==
  /\ MovesTo(c, n) /\ work[c] = Pages!Idle /\ (Overlap \/ Pages!Quiet)
  /\ n \in {Pages!Done, Pages!Lost} \/ n.visit = visit'

(* What a page shows is one of what pages show. *)
LEMMA PageStays ==
  ASSUME Pressing, NEW c \in Presses, NEW show \in Pages!Shows, Pages!Becomes(c, show)
  PROVE  page' \in Pagings
  BY DEF Pressing, TabOK, Pages!Becomes, Pagings

LEMMA ErrorShows ==
  ASSUME Pressing, NEW by, NEW ans
  PROVE  Pages!AfterError(by, ans) \in Pages!Shows
<1>1. page \in Pagings
  BY DEF Pressing, TabOK
<1> QED
  BY <1>1 DEF Pagings, Pages!AfterError, Pages!Shows

(* A function returns with what the browser stores. *)
LEMMA ReturnedArrives ==
  ASSUME Pressing, NEW c \in Presses, Pages!Running(c),
         NEW s \in (1..Len(sess)) \cup {None}, NEW t \in (1..Len(auths)) \cup {None},
         Pages!Stored(s, t), Pages!Returned(c, s, t), UNCHANGED <<sess, auths, effects>>,
         player' \in {"guest", "player", "unaware", "told"}
  PROVE  \E n : Arrives(c, n)
<1>1. PICK n : n = Pages!Following(c, work[c].todo, s, t)
  OBVIOUS
<1>2. n = Pages!Done \/ (AsksOf(n, s, t) /\ n.visit = work[c].visit /\ n.fn \in Later)
  BY <1>1, FollowingAsks
<1>3. /\ work' = [work EXCEPT ![c] = n] /\ visit' = visit
      /\ \/ page' = page
         \/ \E show \in {"ready", "auth"} : Pages!Becomes(c, show)
  BY <1>1 DEF Pages!Returned, Pages!Then
<1>4. page' \in Pagings
  BY <1>3, PageStays DEF Pressing, TabOK, Pages!Shows
<1>5. TabOK'
  BY <1>3, <1>4 DEF Pressing, TabOK, Pages!Stored
<1>6. Spent(n)
  BY <1>2 DEF Spent, Later, Pages!Done
<1>7. n = Pages!Done \/ AsksOf(n, sid', token')
  BY <1>2 DEF Pages!Stored
<1> QED
  BY <1>2, <1>3, <1>5, <1>6, <1>7 DEF Arrives, MovesTo

(* A handler catches an error. *)
LEMMA ThrownArrives ==
  ASSUME Pressing, NEW c \in Presses, NEW ans, Pages!Thrown(c, ans),
         sid' = sid, token' \in {token, None}, UNCHANGED <<sess, auths, effects>>
  PROVE  \E n : Arrives(c, n)
<1>1. PICK n \in {Pages!Done, Pages!Lost} : work' = [work EXCEPT ![c] = n] /\ visit' = visit
  BY DEF Pages!Thrown, Pages!Then
<1>2. page' \in Pagings /\ player' \in {"guest", "player", "unaware", "told"}
  <2>1. page' \in Pagings
    BY PageStays, ErrorShows DEF Pages!Thrown
  <2>2. player' \in {player, "unaware", "told"}
    BY DEF Pages!Thrown, Pages!Told
  <2> QED
    BY <2>1, <2>2 DEF Pressing, TabOK
<1>3. TabOK'
  BY <1>1, <1>2 DEF Pressing, TabOK
<1>4. Spent(n)
  BY <1>1 DEF Spent, Pages!Done, Pages!Lost
<1> QED
  BY <1>1, <1>3, <1>4 DEF Arrives, MovesTo

(* A function is called again, with what is stored now. *)
LEMMA AgainArrives ==
  ASSUME Pressing, NEW c \in Presses, Pages!Running(c), NEW again \in BOOLEAN,
         NEW s \in (1..Len(sess)) \cup {None}, Pages!Stored(s, token),
         Pages!Then(c, Pages!Again(c, again, s)), UNCHANGED <<page, player, sess, auths, effects>>,
         ~Spent(work[c]) \/ work[c].fn = "wallet"
  PROVE  \E n : Arrives(c, n)
<1>1. work[c] \in Jobs
  BY RunningIsJob
<1>2. PICK v, by, fn, todo : v = work[c].visit /\ by = work[c].by /\ fn = work[c].fn /\ todo = work[c].todo
  OBVIOUS
<1>3. v \in Nat /\ by \in Pages!Handlers /\ fn \in Pages!Functions /\ todo \in Seq(Later)
      /\ token \in (1..Len(auths)) \cup {None}
  BY <1>1, <1>2 DEF Jobs, Pressing, TabOK
<1>4. PICK n : /\ n = Pages!Asking(v, by, fn, todo, again, s, token)
               /\ AsksOf(n, s, token) /\ n.visit = v /\ n.fn = fn
  BY <1>3, AskingAsks
<1>5. work' = [work EXCEPT ![c] = n] /\ visit' = visit /\ sid' = s /\ token' = token
  BY <1>2, <1>4 DEF Pages!Then, Pages!Again, Pages!Stored
<1>6. TabOK'
  BY <1>5 DEF Pressing, TabOK
<1>7. Spent(work[c]) => Spent(n)
  BY <1>2, <1>4 DEF Spent
<1> QED
  BY <1>2, <1>4, <1>5, <1>6, <1>7 DEF Arrives, MovesTo

(* An answer, whatever it is. *)
LEMMA ArriveArrives ==
  ASSUME Pressing, NEW c \in Presses, Pages!Arrive(c)
  PROVE  Pages!Running(c) /\ \E n : Arrives(c, n)
<1>1. Pages!Running(c)
  BY DEF Pages!Arrive, Pages!Opened, Pages!SignedIn, Pages!Read, Pages!LoggedOut, Pages!Recover,
         Pages!Refused, Pages!Arrived
<1>2. JobOK(work[c]) /\ work[c] \in Jobs
  BY <1>1, RunningIsJob
<1>3. /\ sid \in (1..Len(sess)) \cup {None} /\ token \in (1..Len(auths)) \cup {None}
      /\ player \in {"guest", "player", "unaware", "told"} /\ page \in Pagings
      /\ Len(sess) \in Nat /\ Len(auths) \in Nat
  BY DEF Pressing, TabOK, RowsOK
<1>4. CASE Pages!Opened(c)
  <2>1. work[c].ans = "ok" /\ work[c].at = "open" /\ work[c].got \in 1..Len(sess)
    BY <1>2, <1>4 DEF Pages!Opened, Pages!Arrived, JobOK
  <2>2. PICK got \in (1..Len(sess)) \cup {None} : got = work[c].got
    BY <2>1
  <2>3. Pages!Stored(got, token) /\ UNCHANGED <<sess, auths, effects, player>>
    BY <1>4, <2>2 DEF Pages!Opened, Pages!server
  <2>4. CASE work[c].fn = "open"
    <3>1. Pages!Returned(c, got, token)
      BY <1>4, <2>2, <2>4 DEF Pages!Opened
    <3> QED
      BY <1>1, <1>3, <2>3, <3>1, ReturnedArrives
  <2>5. CASE work[c].fn # "open"
    <3>1. work[c].fn = "wallet" \/ ~Spent(work[c])
      BY <1>2, <2>1, <2>5 DEF JobOK, Spent
    <3>2. PICK again \in BOOLEAN : again = work[c].again
      BY <1>2 DEF Jobs
    <3>3. Pages!Then(c, Pages!Again(c, again, got)) /\ UNCHANGED page
      BY <1>4, <2>2, <2>5, <3>2 DEF Pages!Opened
    <3> QED
      BY <1>1, <2>3, <3>1, <3>3, AgainArrives
  <2> QED
    BY <1>1, <2>4, <2>5
<1>5. CASE Pages!SignedIn(c)
  <2>1. work[c].got \in 1..Len(sess) /\ auths # <<>>
    BY <1>2, <1>5 DEF Pages!SignedIn, Pages!Arrived, JobOK
  <2>2. Len(auths) \in 1..Len(auths)
    BY <2>1 DEF Pressing, RowsOK
  <2>3. PICK s, t : s = work[c].got /\ t = Len(auths)
    OBVIOUS
  <2>4. /\ Pages!Stored(s, t) /\ Pages!Returned(c, s, t) /\ UNCHANGED <<sess, auths, effects>>
        /\ player' = "player"
    BY <1>5, <2>3 DEF Pages!SignedIn, Pages!SignedSession, Pages!server
  <2> QED
    BY <1>1, <2>1, <2>2, <2>3, <2>4, ReturnedArrives
<1>6. CASE Pages!Read(c)
  <2>1. Pages!Stored(sid, token) /\ Pages!Returned(c, sid, token) /\ UNCHANGED <<sess, auths, effects, player>>
    BY <1>6 DEF Pages!Read, Pages!server
  <2> QED
    BY <1>1, <1>3, <2>1, ReturnedArrives
<1>7. CASE Pages!LoggedOut(c)
  <2>1. /\ work' = [work EXCEPT ![c] = Pages!Done] /\ visit' = visit
        /\ sid' = None /\ token' = None /\ UNCHANGED <<sess, auths, effects>> /\ player' = "guest"
        /\ Pages!Becomes(c, "auth")
    BY <1>7 DEF Pages!LoggedOut, Pages!Stored, Pages!Then, Pages!server
  <2>2. page' \in Pagings
    BY <2>1, PageStays DEF Pages!Shows
  <2>3. TabOK'
    BY <2>1, <2>2 DEF Pressing, TabOK
  <2>4. Spent(Pages!Done)
    BY DEF Spent, Pages!Done
  <2> QED
    BY <1>1, <2>1, <2>3, <2>4 DEF Arrives, MovesTo
<1>8. CASE Pages!Recover(c)
  <2>1. PICK again \in BOOLEAN : again = TRUE
    OBVIOUS
  <2>2. /\ Pages!Stored(None, token) /\ Pages!Then(c, Pages!Again(c, again, None))
        /\ UNCHANGED <<page, sess, auths, effects, player>>
    BY <1>8, <2>1 DEF Pages!Recover, Pages!server
  <2>3. work[c].at \in {"wallet", "spin"} /\ work[c].ans = "session"
    BY <1>8 DEF Pages!Recover, Pages!Recoverable
  <2>4. work[c].fn = "wallet" \/ ~Spent(work[c])
    BY <1>2, <2>3 DEF JobOK, Spent
  <2> QED
    BY <1>1, <2>2, <2>4, AgainArrives
<1>9. CASE Pages!Refused(c)
  <2>1. /\ sid' = sid /\ token' \in {token, None} /\ UNCHANGED <<sess, auths, effects>>
        /\ Pages!Thrown(c, work[c].ans)
    BY <1>9 DEF Pages!Refused, Pages!Stored, Pages!server
  <2> QED
    BY <1>1, <2>1, ThrownArrives
<1> QED
  BY <1>4, <1>5, <1>6, <1>7, <1>8, <1>9 DEF Pages!Arrive
(* The task that a visit or a click starts. *)
LEMMA StartedStarts ==
  ASSUME Pressing, NEW c \in Presses, work[c] = Pages!Idle, Overlap \/ Pages!Quiet,
         NEW v \in Nat, NEW by \in Pages!Handlers, NEW fn \in Pages!Functions, NEW todo \in Seq(Later),
         Pages!Start(c, v, by, fn, todo), visit' = v, page' \in Pagings,
         player' \in {"guest", "player", "unaware", "told"}, UNCHANGED <<sid, token, sess, auths, effects>>
  PROVE  \E n : Starts(c, n)
<1>1. sid \in (1..Len(sess)) \cup {None} /\ token \in (1..Len(auths)) \cup {None}
  BY DEF Pressing, TabOK
<1>2. PICK no \in BOOLEAN : no = FALSE
  OBVIOUS
<1>3. PICK n : /\ n = Pages!Asking(v, by, fn, todo, no, sid, token)
               /\ AsksOf(n, sid, token) /\ n.visit = v
  BY <1>1, AskingAsks
<1>4. work' = [work EXCEPT ![c] = n]
  BY <1>2, <1>3 DEF Pages!Start
<1>5. TabOK' /\ ~Spent(work[c])
  BY DEF Pressing, TabOK, Spent, Pages!Idle
<1> QED
  BY <1>3, <1>4, <1>5 DEF Starts, MovesTo

LEMMA ClickStarts ==
  ASSUME Pressing, NEW c \in Presses, NEW name, NEW from, NEW to \in Pages!Shows,
         NEW by \in Pages!Handlers, NEW fn \in Pages!Functions, NEW todo \in Seq(Later),
         Pages!Click(c, name, from, to, by, fn, todo)
  PROVE  Starts(c, work'[c]) /\ UNCHANGED <<sid, token, player>>
<1>1. /\ work[c] = Pages!Idle /\ (Overlap \/ Pages!Quiet) /\ Pages!Start(c, visit, by, fn, todo)
      /\ visit' = visit /\ page' = [page EXCEPT !.shows = to]
      /\ UNCHANGED <<sid, token, player, sess, auths, effects>>
  BY DEF Pages!Click, Pages!server
<1>2. page' \in Pagings /\ visit \in Nat /\ player \in {"guest", "player", "unaware", "told"}
  BY <1>1 DEF Pressing, TabOK, Pagings
<1>3. PICK n : Starts(c, n)
  BY <1>1, <1>2, StartedStarts
<1>4. work'[c] = n
  BY <1>3 DEF Starts, MovesTo, Pressing, JobsOK
<1> QED
  BY <1>1, <1>3, <1>4

(* A button that is pressed. *)
Button(c) ==
  Pages!Spin(c) \/ Pages!SignIn(c) \/ Pages!Create(c) \/ Pages!Refresh(c) \/ Pages!Logout(c)

LEMMA ButtonStarts ==
  ASSUME Pressing, NEW c \in Presses, Button(c)
  PROVE  Starts(c, work'[c]) /\ UNCHANGED <<sid, token, player>>
<1>1. /\ <<>> \in Seq(Later) /\ <<"wallet">> \in Seq(Later) /\ <<"wallet", "payments">> \in Seq(Later)
      /\ <<"me", "wallet", "payments">> \in Seq(Later)
  BY DEF Later
<1>2. /\ {"spinning", "loading", "submitting", page.shows} \subseteq Pages!Shows
      /\ {"spin", "signin", "create", "refresh", "logout"} \subseteq Pages!Handlers
      /\ {"spin", "login", "register", "create", "me", "logout"} \subseteq Pages!Functions
  BY DEF Pressing, TabOK, Pagings, Pages!Shows, Pages!Handlers, Pages!Functions
<1>3. CASE Pages!Spin(c)
  BY <1>1, <1>2, <1>3, ClickStarts DEF Pages!Spin
<1>4. CASE Pages!SignIn(c)
  BY <1>1, <1>2, <1>4, ClickStarts DEF Pages!SignIn
<1>5. CASE Pages!Create(c)
  BY <1>1, <1>2, <1>5, ClickStarts DEF Pages!Create
<1>6. CASE Pages!Refresh(c)
  BY <1>1, <1>2, <1>6, ClickStarts DEF Pages!Refresh
<1>7. CASE Pages!Logout(c)
  BY <1>1, <1>2, <1>7, ClickStarts DEF Pages!Logout
<1> QED
  BY <1>3, <1>4, <1>5, <1>6, <1>7 DEF Button

(* A page that is mounted. *)
LEMMA VisitStarts ==
  ASSUME Pressing, NEW c \in Presses, NEW name \in {"casino", "cashier", "account", "history"},
         Pages!Visit(c, name)
  PROVE  /\ \E n : Starts(c, n)
         /\ UNCHANGED <<sid, token>> /\ (player' \in {player, "told"})
<1>1. PICK first, rest, asks :
        /\ first = Head(Pages!Loads(name)) /\ rest = Tail(Pages!Loads(name))
        /\ asks = ~(first = "me" /\ token = None)
  OBVIOUS
<1>2. first \in {"open", "me", "payments"} /\ rest \in Seq(Later)
  <2>1. Pages!Loads(name) \in {<<"open">>, <<"me", "wallet">>, <<"me", "wallet", "payments">>, <<"payments">>}
    BY DEF Pages!Loads
  <2>2. \A loads \in {<<"open">>, <<"me", "wallet">>, <<"me", "wallet", "payments">>, <<"payments">>} :
          Head(loads) \in {"open", "me", "payments"} /\ Tail(loads) \in Seq(Later)
    <3>1. /\ Head(<<"open">>) = "open" /\ Tail(<<"open">>) \in Seq(Later)
          /\ Head(<<"payments">>) = "payments" /\ Tail(<<"payments">>) \in Seq(Later)
      BY DEF Later
    <3>2. Head(<<"me", "wallet">>) = "me" /\ Tail(<<"me", "wallet">>) = <<"wallet">>
      OBVIOUS
    <3>3. /\ Head(<<"me", "wallet", "payments">>) = "me"
          /\ Tail(<<"me", "wallet", "payments">>) = <<"wallet", "payments">>
      OBVIOUS
    <3>4. <<"wallet">> \in Seq(Later) /\ <<"wallet", "payments">> \in Seq(Later)
      BY DEF Later
    <3> QED
      BY <3>1, <3>2, <3>3, <3>4
  <2> QED
    BY <1>1, <2>1, <2>2
<1>3. /\ work[c] = Pages!Idle /\ (Overlap \/ Pages!Quiet) /\ visit' = visit + 1
      /\ page' \in Pagings /\ player' = Pages!Told(~asks)
      /\ UNCHANGED <<sid, token, sess, auths, effects>>
      /\ IF asks THEN Pages!Start(c, visit + 1, "load", first, rest)
                  ELSE work' = [work EXCEPT ![c] = Pages!Done]
  <2>1. /\ work[c] = Pages!Idle /\ (Overlap \/ Pages!Quiet) /\ visit' = visit + 1
        /\ UNCHANGED <<sid, token, sess, auths, effects>>
    BY DEF Pages!Visit, Pages!server
  <2>2. /\ page' = [name |-> name, shows |-> IF ~asks THEN "auth"
                                         ELSE IF name = "casino" THEN "ready" ELSE "loading"]
        /\ IF asks THEN Pages!Start(c, visit + 1, "load", first, rest)
                    ELSE work' = [work EXCEPT ![c] = Pages!Done]
        /\ player' = Pages!Told(~asks)
    BY <1>1 DEF Pages!Visit
  <2>3. page' \in Pagings
    BY <2>2 DEF Pagings, Pages!Shows
  <2> QED
    BY <2>1, <2>2, <2>3
<1>4. player' \in {player, "told"}
  BY <1>3 DEF Pages!Told
<1>5. player' \in {"guest", "player", "unaware", "told"} /\ visit + 1 \in Nat
  BY <1>4 DEF Pressing, TabOK
<1>6. CASE asks
  <2>1. PICK v : v = visit + 1
    OBVIOUS
  <2>2. v \in Nat /\ visit' = v /\ Pages!Start(c, v, "load", first, rest)
    BY <1>3, <1>5, <1>6, <2>1
  <2>3. "load" \in Pages!Handlers /\ first \in Pages!Functions
    BY <1>2 DEF Pages!Handlers, Pages!Functions
  <2>4. \E n : Starts(c, n)
    BY <1>2, <1>3, <1>5, <2>2, <2>3, StartedStarts
  <2> QED
    BY <1>3, <1>4, <2>4
<1>7. CASE ~asks
  <2>1. TabOK'
    BY <1>3, <1>5 DEF Pressing, TabOK
  <2>2. Spent(Pages!Done)
    BY DEF Spent, Pages!Done
  <2>3. Starts(c, Pages!Done)
    BY <1>3, <1>7, <2>1, <2>2 DEF Starts, MovesTo
  <2> QED
    BY <1>3, <1>4, <2>3
<1> QED
  BY <1>6, <1>7

(* Logging out without a token. *)
LEMMA ForgetStarts ==
  ASSUME Pressing, NEW c \in Presses, Pages!Forget(c)
  PROVE  Starts(c, Pages!Done) /\ sid' = None /\ token = None /\ token' = token /\ player' = "guest"
<1>1. /\ work[c] = Pages!Idle /\ (Overlap \/ Pages!Quiet) /\ token = None
      /\ sid' = None /\ work' = [work EXCEPT ![c] = Pages!Done] /\ visit' = visit
      /\ page' = [page EXCEPT !.shows = "auth"] /\ player' = "guest"
      /\ UNCHANGED <<token, sess, auths, effects>>
  BY DEF Pages!Forget, Pages!server
<1>2. page' \in Pagings
  BY <1>1 DEF Pressing, TabOK, Pagings, Pages!Shows
<1>3. TabOK'
  BY <1>1, <1>2 DEF Pressing, TabOK
<1>4. Spent(Pages!Done)
  BY DEF Spent, Pages!Done
<1> QED
  BY <1>1, <1>3, <1>4 DEF Starts, MovesTo

(* A refresh without a token. *)
LEMMA RefreshSignedOutStarts ==
  ASSUME Pressing, NEW c \in Presses, Pages!RefreshSignedOut(c)
  PROVE  Starts(c, Pages!Done) /\ UNCHANGED <<sid, token>> /\ player' \in {player, "told"}
<1>1. /\ work[c] = Pages!Idle /\ (Overlap \/ Pages!Quiet)
      /\ work' = [work EXCEPT ![c] = Pages!Done] /\ page' = [page EXCEPT !.shows = "auth"]
      /\ player' = Pages!Told(TRUE) /\ UNCHANGED <<sid, token, visit, sess, auths, effects>>
  BY DEF Pages!RefreshSignedOut, Pages!server
<1>2. page' \in Pagings
  BY <1>1 DEF Pressing, TabOK, Pagings, Pages!Shows
<1>3. player' \in {player, "told"}
  BY <1>1 DEF Pages!Told
<1>4. TabOK'
  BY <1>1, <1>2, <1>3 DEF Pressing, TabOK
<1>5. Spent(Pages!Done)
  BY DEF Spent, Pages!Done
<1> QED
  BY <1>1, <1>3, <1>4, <1>5 DEF Starts, MovesTo

(* What the server's rows keep, whatever is added to them. *)
KeepsRows ==
  /\ RowsOK'
  /\ Len(sess) <= Len(sess') /\ Len(auths) <= Len(auths')
  /\ \A s \in 1..Len(sess) :
       sess'[s].account = sess[s].account /\ (sess[s].protected => sess'[s].protected)
  /\ \A t \in 1..Len(auths) : auths'[t].account = auths[t].account

(* An answer of the server, or the loss of one. *)
Serves(c, a, g) ==
  /\ work' = [work EXCEPT ![c].ans = a, ![c].got = g]
  /\ UNCHANGED <<sid, token, page, visit, player>>
  /\ a \in {"ok", "session", "auth", "limited", "failed"} /\ g \in Nat
  /\ KeepsRows
  /\ a = "ok" /\ work[c].at \in {"open", "login", "register"} => g \in 1..Len(sess')
  /\ a = "ok" /\ work[c].at = "open" /\ work[c].tok # None =>
       g = work[c].sid \/ (sess'[g].account = auths'[work[c].tok].account /\ sess'[g].protected)
  /\ a = "ok" /\ work[c].at \in {"login", "register"} =>
       auths' # <<>> /\ sess'[g].account = auths'[Len(auths')].account /\ sess'[g].protected
  /\ a = "failed" \/ work[c].ans = "none"
  /\ \/ effects' = effects
     \/ /\ work[c].ans = "none" /\ work[c].at \in {"spin", "create"} /\ a = "ok"
        /\ \E e : e.task = c /\ effects' = effects \cup {e}

(* An answer keeps the invariant: a request that has an effect had none before. *)
LEMMA ServesPress ==
  ASSUME Pressing, NEW c \in Presses, Pages!Running(c), NEW a, NEW g, Serves(c, a, g)
  PROVE  Pressing'
<1>1. JobOK(work[c]) /\ work[c] \in Jobs
  BY RunningIsJob
<1>2. PICK n : n = [work[c] EXCEPT !.ans = a, !.got = g]
  OBVIOUS
<1>3. n \in Jobs /\ n.ans = a /\ n.got = g /\ n.at = work[c].at /\ n.fn = work[c].fn
      /\ n.sid = work[c].sid /\ n.tok = work[c].tok
  BY <1>1, <1>2 DEF Jobs, Serves
<1>4. /\ work' \in [Presses -> Ended \cup Jobs] /\ work'[c] = n
      /\ \A d \in Presses \ {c} : work'[d] = work[d]
  BY <1>2, <1>3 DEF Serves, Pressing, JobsOK
<1>5. Len(sess) \in Nat /\ Len(auths) \in Nat /\ Len(sess') \in Nat /\ Len(auths') \in Nat
  BY DEF Pressing, RowsOK, Serves, KeepsRows
<1>6. (1..Len(sess)) \subseteq (1..Len(sess')) /\ (1..Len(auths)) \subseteq (1..Len(auths'))
      /\ (auths # <<>> => auths' # <<>>)
  BY <1>5 DEF Serves, KeepsRows, Pressing, RowsOK
<1>7. JobOK(n)'
  BY <1>1, <1>3, <1>6 DEF JobOK, Serves
<1>8. JobsOK'
  <2>1. ASSUME NEW d \in Presses \ {c}, work[d] \notin Ended PROVE JobOK(work[d])
    BY <2>1 DEF Pressing, JobsOK
  <2> QED
    BY <1>4, <1>6, <1>7, <2>1 DEF JobsOK, JobOK, Ended, Pages!Idle, Pages!Done, Pages!Lost
<1>9. RowsOK' /\ TabOK'
  BY <1>6 DEF Serves, KeepsRows, Pressing, TabOK
<1>10. Spent(work[c]) => Spent(n)
  BY <1>3 DEF Spent, Serves
<1>11. EffectsOK' /\ Pages!OneEffectPerClick'
  <2>1. CASE effects' = effects
    BY <1>4, <1>10, <2>1 DEF Pressing, EffectsOK, Pages!OneEffectPerClick, Spent
  <2>2. CASE effects' # effects
    <3>1. PICK e : e.task = c /\ effects' = effects \cup {e}
      BY <2>2 DEF Serves
    <3>2. ~Spent(work[c]) /\ Spent(n)
      BY <1>1, <1>3, <2>2 DEF Serves, Spent, JobOK, Jobs, Pages!Functions
    <3>3. \A f \in effects : f.task # c
      BY <3>2 DEF Pressing, EffectsOK
    <3> QED
      BY <1>4, <3>1, <3>2, <3>3 DEF Pressing, EffectsOK, Pages!OneEffectPerClick, Spent
  <2> QED
    BY <2>1, <2>2
<1> QED
  BY <1>8, <1>9, <1>11 DEF Pressing

(* A request that gets lost. *)
LEMMA LoseServes ==
  ASSUME Pressing, NEW c \in Presses, Pages!Lose(c)
  PROVE  Pages!Running(c) /\ \E a : Serves(c, a, 0)
<1>1. PICK a \in {"failed", "limited"} :
        Pages!Answered(c, a, 0) /\ (a = "limited" => work[c].ans = "none")
  BY DEF Pages!Lose
<1>2. Serves(c, a, 0)
  BY <1>1 DEF Pages!Lose, Pages!Answered, Pages!client, Pages!server, Serves, KeepsRows, Pressing, RowsOK
<1> QED
  BY <1>2 DEF Pages!Lose

(* A row is changed in place, or one is added. *)
LEMMA RowChanged ==
  ASSUME NEW S, NEW q \in Seq(S), NEW i \in 1..Len(q), NEW x \in S
  PROVE  /\ [q EXCEPT ![i] = x] \in Seq(S) /\ Len([q EXCEPT ![i] = x]) = Len(q)
         /\ [q EXCEPT ![i] = x][i] = x
         /\ \A j \in 1..Len(q) : j # i => [q EXCEPT ![i] = x][j] = q[j]
  OBVIOUS

LEMMA RowAdded ==
  ASSUME NEW S, NEW q \in Seq(S), NEW x \in S
  PROVE  /\ Append(q, x) \in Seq(S) /\ Len(Append(q, x)) = Len(q) + 1 /\ Len(q) \in Nat
         /\ Append(q, x)[Len(q) + 1] = x
         /\ \A j \in 1..Len(q) : Append(q, x)[j] = q[j]
  OBVIOUS

SessionsChange ==
  \/ sess' = sess
  \/ \E x \in SessionRows : x.account \in 0..(Len(sess) + 1) /\ sess' = Append(sess, x)
  \/ \E s \in 1..Len(sess), x \in SessionRows :
       /\ x.account = sess[s].account /\ (sess[s].protected => x.protected)
       /\ sess' = [sess EXCEPT ![s] = x]

TokensChange ==
  \/ auths' = auths
  \/ \E x \in TokenRows : x.account \in 0..Len(sess') /\ auths' = Append(auths, x)
  \/ \E t \in 1..Len(auths), x \in TokenRows :
       x.account = auths[t].account /\ auths' = [auths EXCEPT ![t] = x]

LEMMA ChangesKeep ==
  ASSUME Pressing, SessionsChange, TokensChange
  PROVE  KeepsRows
<1>1. /\ sess \in Seq(SessionRows) /\ auths \in Seq(TokenRows) /\ Len(sess) \in Nat /\ Len(auths) \in Nat
      /\ \A s \in 1..Len(sess) : sess[s].account \in 0..Len(sess)
      /\ \A t \in 1..Len(auths) : auths[t].account \in 0..Len(sess)
  BY DEF Pressing, RowsOK
<1>2. /\ sess' \in Seq(SessionRows) /\ Len(sess') \in Nat /\ Len(sess) <= Len(sess')
      /\ \A s \in 1..Len(sess) :
           sess'[s].account = sess[s].account /\ (sess[s].protected => sess'[s].protected)
      /\ \A s \in 1..Len(sess') : sess'[s].account \in 0..Len(sess')
  <2>1. CASE sess' = sess
    BY <1>1, <2>1
  <2>2. CASE \E x \in SessionRows : x.account \in 0..(Len(sess) + 1) /\ sess' = Append(sess, x)
    <3>1. PICK x \in SessionRows : x.account \in 0..(Len(sess) + 1) /\ sess' = Append(sess, x)
      BY <2>2
    <3>2. /\ sess' \in Seq(SessionRows) /\ Len(sess') = Len(sess) + 1 /\ sess'[Len(sess) + 1] = x
          /\ \A j \in 1..Len(sess) : sess'[j] = sess[j]
      BY <1>1, <3>1, RowAdded
    <3>3. \A s \in 1..Len(sess') : s \in 1..Len(sess) \/ s = Len(sess) + 1
      BY <1>1, <3>2
    <3> QED
      BY <1>1, <3>1, <3>2, <3>3
  <2>3. CASE \E s \in 1..Len(sess), x \in SessionRows :
               /\ x.account = sess[s].account /\ (sess[s].protected => x.protected)
               /\ sess' = [sess EXCEPT ![s] = x]
    <3>1. PICK s \in 1..Len(sess), x \in SessionRows :
            /\ x.account = sess[s].account /\ (sess[s].protected => x.protected)
            /\ sess' = [sess EXCEPT ![s] = x]
      BY <2>3
    <3>2. /\ sess' \in Seq(SessionRows) /\ Len(sess') = Len(sess) /\ sess'[s] = x
          /\ \A j \in 1..Len(sess) : j # s => sess'[j] = sess[j]
      BY <1>1, <3>1, RowChanged
    <3> QED
      BY <1>1, <3>1, <3>2
  <2> QED
    BY <2>1, <2>2, <2>3 DEF SessionsChange
<1>3. /\ auths' \in Seq(TokenRows) /\ Len(auths') \in Nat /\ Len(auths) <= Len(auths')
      /\ \A t \in 1..Len(auths) : auths'[t].account = auths[t].account
      /\ \A t \in 1..Len(auths') : auths'[t].account \in 0..Len(sess')
  <2>1. CASE auths' = auths
    BY <1>1, <1>2, <2>1
  <2>2. CASE \E x \in TokenRows : x.account \in 0..Len(sess') /\ auths' = Append(auths, x)
    <3>1. PICK x \in TokenRows : x.account \in 0..Len(sess') /\ auths' = Append(auths, x)
      BY <2>2
    <3>2. /\ auths' \in Seq(TokenRows) /\ Len(auths') = Len(auths) + 1 /\ auths'[Len(auths) + 1] = x
          /\ \A j \in 1..Len(auths) : auths'[j] = auths[j]
      BY <1>1, <3>1, RowAdded
    <3>3. \A t \in 1..Len(auths') : t \in 1..Len(auths) \/ t = Len(auths) + 1
      BY <1>1, <3>2
    <3> QED
      BY <1>1, <1>2, <3>1, <3>2, <3>3
  <2>3. CASE \E t \in 1..Len(auths), x \in TokenRows :
               x.account = auths[t].account /\ auths' = [auths EXCEPT ![t] = x]
    <3>1. PICK t \in 1..Len(auths), x \in TokenRows :
            x.account = auths[t].account /\ auths' = [auths EXCEPT ![t] = x]
      BY <2>3
    <3>2. /\ auths' \in Seq(TokenRows) /\ Len(auths') = Len(auths) /\ auths'[t] = x
          /\ \A j \in 1..Len(auths) : j # t => auths'[j] = auths[j]
      BY <1>1, <3>1, RowChanged
    <3> QED
      BY <1>1, <1>2, <3>1, <3>2
  <2> QED
    BY <2>1, <2>2, <2>3 DEF TokensChange
<1> QED
  BY <1>2, <1>3 DEF KeepsRows, RowsOK

(* What expires does so by itself. *)
LEMMA ExpireKeeps ==
  ASSUME Pressing,
         \/ \E s \in 1..Len(sess) : Pages!ExpireSession(s)
         \/ \E t \in 1..Len(auths) : Pages!ExpireToken(t)
  PROVE  /\ KeepsRows /\ Len(sess') = Len(sess) /\ Len(auths') = Len(auths)
         /\ UNCHANGED <<work, effects, sid, token, page, visit, player>>
<1>1. /\ UNCHANGED <<work, effects, sid, token, page, visit, player>>
  BY DEF Pages!ExpireSession, Pages!ExpireToken, Pages!client
<1>2. sess \in Seq(SessionRows) /\ auths \in Seq(TokenRows)
  BY DEF Pressing, RowsOK
<1>3. CASE \E s \in 1..Len(sess) : Pages!ExpireSession(s)
  <2>1. PICK s \in 1..Len(sess) : sess' = [sess EXCEPT ![s].gone = TRUE] /\ auths' = auths
    BY <1>3 DEF Pages!ExpireSession
  <2>2. PICK x : x = [sess[s] EXCEPT !.gone = TRUE]
    OBVIOUS
  <2>3. sess[s] \in SessionRows
    BY <1>2
  <2>4. /\ x \in SessionRows /\ x.account = sess[s].account /\ x.protected = sess[s].protected
        /\ sess' = [sess EXCEPT ![s] = x]
    BY <2>1, <2>2, <2>3 DEF SessionRows
  <2>5. KeepsRows
    BY <2>1, <2>4, ChangesKeep DEF SessionsChange, TokensChange
  <2> QED
    BY <1>1, <1>2, <2>1, <2>4, <2>5, RowChanged
<1>4. CASE \E t \in 1..Len(auths) : Pages!ExpireToken(t)
  <2>1. PICK t \in 1..Len(auths) : auths' = [auths EXCEPT ![t].live = FALSE] /\ sess' = sess
    BY <1>4 DEF Pages!ExpireToken
  <2>2. PICK x : x = [auths[t] EXCEPT !.live = FALSE]
    OBVIOUS
  <2>3. auths[t] \in TokenRows
    BY <1>2
  <2>4. x \in TokenRows /\ x.account = auths[t].account /\ auths' = [auths EXCEPT ![t] = x]
    BY <2>1, <2>2, <2>3 DEF TokenRows
  <2>5. KeepsRows
    BY <2>1, <2>4, ChangesKeep DEF SessionsChange, TokensChange
  <2> QED
    BY <1>1, <1>2, <2>1, <2>4, <2>5, RowChanged
<1> QED
  BY <1>3, <1>4
(* What the server makes of a request. *)
LEMMA ServeServes ==
  ASSUME Pressing, NEW c \in Presses, Pages!Serve(c)
  PROVE  Pages!Running(c) /\ \E ans, got : Serves(c, ans, got)
<1>1. Pages!Running(c) /\ work[c].ans = "none" /\ UNCHANGED <<sid, token, page, visit, player>>
  BY DEF Pages!Serve, Pages!client
<1>2. JobOK(work[c]) /\ work[c] \in Jobs
  BY <1>1, RunningIsJob
<1>3. PICK s, t, at, a : s = work[c].sid /\ t = work[c].tok /\ at = work[c].at /\ a = Pages!Caller(t)
  OBVIOUS
<1>4. /\ s \in (1..Len(sess)) \cup {None} /\ t \in (1..Len(auths)) \cup {None}
      /\ Len(sess) \in Nat /\ Len(auths) \in Nat /\ None \notin Nat
      /\ sess \in Seq(SessionRows) /\ auths \in Seq(TokenRows)
  BY <1>2, <1>3 DEF JobOK, Pressing, RowsOK
<1>5. /\ a # None => t \in 1..Len(auths) /\ a = auths[t].account /\ a \in 0..Len(sess)
      /\ ~Pages!Dead(t) /\ t # None => a # None
  BY <1>3, <1>4 DEF Pages!Caller, Pages!Dead, Pressing, RowsOK
<1>6. ASSUME NEW ans \in {"ok", "session", "auth", "limited"}, NEW got \in Nat, Pages!Answered(c, ans, got),
             UNCHANGED <<sess, auths>>, UNCHANGED effects,
             ans = "ok" => at \notin {"open", "login", "register"}
      PROVE  Serves(c, ans, got)
  BY <1>1, <1>3, <1>6 DEF Serves, Pages!Answered, KeepsRows, Pressing, RowsOK
<1>7. ASSUME NEW x, Pages!Effect(c, x), Pages!Answered(c, "ok", 0), UNCHANGED <<sess, auths>>,
             at \in {"spin", "create"}
      PROVE  Serves(c, "ok", 0)
  <2>1. effects' = effects \/ \E e : e.task = c /\ effects' = effects \cup {e}
    BY <1>7 DEF Pages!Effect
  <2> QED
    BY <1>1, <1>3, <1>7, <2>1 DEF Serves, Pages!Answered, KeepsRows, Pressing, RowsOK
<1>8. 0 \in Nat /\ Pages!Fresh = Len(sess) + 1 /\ Len(sess) + 1 \in Nat
  BY <1>4 DEF Pages!Fresh
<1>9. CASE /\ Pages!Dead(t) \/ (t = None /\ at \in {"me", "logout", "create", "payments"})
           /\ Pages!Answered(c, "auth", 0) /\ UNCHANGED Pages!server
  BY <1>1, <1>6, <1>8, <1>9 DEF Pages!server
<1>10. CASE /\ ~Pages!Dead(t) /\ at = "open" /\ Pages!Usable(s, a)
            /\ Pages!Answered(c, "ok", s) /\ UNCHANGED Pages!server
  <2>1. s \in 1..Len(sess) /\ s \in Nat
    BY <1>4, <1>10 DEF Pages!Usable
  <2>2. Serves(c, "ok", s)
    BY <1>1, <1>3, <1>10, <2>1 DEF Serves, Pages!Answered, Pages!server, KeepsRows, Pressing, RowsOK
  <2> QED
    BY <1>1, <2>2
<1>11. CASE /\ ~Pages!Dead(t) /\ at = "open"
            /\ sess' = Append(sess, IF a = None THEN Pages!GuestSession(Pages!Fresh) ELSE Pages!NewSession(a))
            /\ Pages!Answered(c, "ok", Pages!Fresh) /\ UNCHANGED <<auths, effects>>
  <2>1. PICK x : x = IF a = None THEN Pages!GuestSession(Pages!Fresh) ELSE Pages!NewSession(a)
    OBVIOUS
  <2>2. x \in SessionRows /\ x.account \in 0..(Len(sess) + 1) /\ (a # None => x.account = a /\ x.protected)
    BY <1>4, <1>5, <1>8, <2>1 DEF Pages!GuestSession, Pages!NewSession, SessionRows
  <2>3. KeepsRows
    BY <1>11, <2>1, <2>2, ChangesKeep DEF SessionsChange, TokensChange
  <2>4. Len(sess') = Len(sess) + 1 /\ sess'[Len(sess) + 1] = x
    BY <1>4, <1>11, <2>1, <2>2, RowAdded
  <2>5. Len(sess) + 1 \in 1..Len(sess')
    BY <1>4, <2>4
  <2>6. t # None => sess'[Len(sess) + 1].account = auths'[t].account /\ sess'[Len(sess) + 1].protected
    BY <1>5, <1>11, <2>2, <2>4
  <2>7. Serves(c, "ok", Len(sess) + 1)
    BY <1>1, <1>3, <1>8, <1>11, <2>3, <2>5, <2>6 DEF Serves, Pages!Answered
  <2> QED
    BY <1>1, <2>7
<1>12. CASE /\ ~Pages!Dead(t) /\ at \in {"wallet", "spin"} /\ ~Pages!Usable(s, a)
            /\ Pages!Answered(c, "session", 0) /\ UNCHANGED Pages!server
  BY <1>1, <1>6, <1>8, <1>12 DEF Pages!server
<1>13. CASE /\ ~Pages!Dead(t) /\ at \in {"wallet", "spin"} /\ Pages!Usable(s, a)
            /\ IF at = "spin" THEN Pages!Effect(c, sess[s].account) ELSE UNCHANGED effects
            /\ Pages!Answered(c, "ok", 0) /\ UNCHANGED <<sess, auths>>
  <2>1. CASE at = "spin"
    BY <1>1, <1>7, <1>13, <2>1
  <2>2. CASE at # "spin"
    BY <1>1, <1>6, <1>8, <1>13, <2>2
  <2> QED
    BY <2>1, <2>2
<1>14. CASE /\ a # None /\ at \in {"me", "payments"}
            /\ Pages!Answered(c, "ok", 0) /\ UNCHANGED Pages!server
  BY <1>1, <1>6, <1>8, <1>14 DEF Pages!server
<1>15. CASE /\ a # None /\ at = "create"
            /\ Pages!Effect(c, a) /\ Pages!Answered(c, "ok", 0) /\ UNCHANGED <<sess, auths>>
  BY <1>1, <1>7, <1>15
<1>16. CASE /\ at = "login"
            /\ sess' = Append(sess, Pages!NewSession(0))
            /\ auths' = Append(auths, [account |-> 0, live |-> TRUE])
            /\ Pages!Answered(c, "ok", Pages!Fresh) /\ UNCHANGED effects
  <2>1. PICK x, y : x = Pages!NewSession(0) /\ y = [account |-> 0, live |-> TRUE]
    OBVIOUS
  <2>2. x \in SessionRows /\ x.account = 0 /\ x.protected /\ y \in TokenRows /\ y.account = 0
    BY <2>1 DEF Pages!NewSession, SessionRows, TokenRows
  <2>3. /\ Len(sess') = Len(sess) + 1 /\ sess'[Len(sess) + 1] = x
        /\ Len(auths') = Len(auths) + 1 /\ auths'[Len(auths) + 1] = y /\ auths' \in Seq(TokenRows)
    BY <1>4, <1>16, <2>1, <2>2, RowAdded
  <2>4. KeepsRows
    <3>1. x.account \in 0..(Len(sess) + 1) /\ y.account \in 0..Len(sess')
      BY <1>4, <2>2, <2>3
    <3> QED
      BY <1>16, <2>1, <2>2, <3>1, ChangesKeep DEF SessionsChange, TokensChange
  <2>5. Len(sess) + 1 \in 1..Len(sess') /\ auths' # <<>>
    BY <1>4, <2>3
  <2>6. Serves(c, "ok", Len(sess) + 1)
    BY <1>1, <1>3, <1>8, <1>16, <2>2, <2>3, <2>4, <2>5 DEF Serves, Pages!Answered
  <2> QED
    BY <1>1, <2>6
<1>17. CASE /\ at = "register" /\ s # None /\ Pages!Usable(s, None)
            /\ sess' = [sess EXCEPT ![s].protected = TRUE]
            /\ auths' = Append(auths, [account |-> sess[s].account, live |-> TRUE])
            /\ Pages!Answered(c, "ok", s) /\ UNCHANGED effects
  <2>1. s \in 1..Len(sess) /\ sess[s] \in SessionRows /\ s \in Nat
    BY <1>4, <1>17
  <2>2. PICK x, y : x = [sess[s] EXCEPT !.protected = TRUE] /\ y = [account |-> sess[s].account, live |-> TRUE]
    OBVIOUS
  <2>3. /\ x \in SessionRows /\ x.account = sess[s].account /\ x.protected /\ sess' = [sess EXCEPT ![s] = x]
        /\ y \in TokenRows /\ y.account = sess[s].account
    BY <1>4, <1>17, <2>1, <2>2 DEF SessionRows, TokenRows
  <2>4. /\ Len(sess') = Len(sess) /\ sess'[s] = x
        /\ Len(auths') = Len(auths) + 1 /\ auths'[Len(auths) + 1] = y /\ auths' \in Seq(TokenRows)
    <3>1. Len(sess') = Len(sess) /\ sess'[s] = x
      BY <1>4, <2>1, <2>3, RowChanged
    <3>2. auths' = Append(auths, y)
      BY <1>17, <2>2
    <3> QED
      BY <1>4, <2>3, <3>1, <3>2, RowAdded
  <2>5. KeepsRows
    <3>1. y.account \in 0..Len(sess')
      BY <2>1, <2>3, <2>4 DEF Pressing, RowsOK
    <3>2. TokensChange
      BY <1>17, <2>2, <2>3, <3>1 DEF TokensChange
    <3>3. SessionsChange
      BY <2>1, <2>3 DEF SessionsChange
    <3> QED
      BY <3>2, <3>3, ChangesKeep
  <2>6. s \in 1..Len(sess') /\ auths' # <<>>
    BY <1>4, <2>1, <2>4
  <2>7. Serves(c, "ok", s)
    BY <1>1, <1>3, <1>17, <2>1, <2>3, <2>4, <2>5, <2>6 DEF Serves, Pages!Answered
  <2> QED
    BY <1>1, <2>7
<1>18. CASE /\ at = "register" /\ s # None /\ ~Pages!Usable(s, None)
            /\ Pages!Answered(c, "session", 0) /\ UNCHANGED Pages!server
  BY <1>1, <1>6, <1>8, <1>18 DEF Pages!server
<1>19. CASE /\ at = "register" /\ s = None
            /\ sess' = Append(sess, Pages!NewSession(Pages!Fresh))
            /\ auths' = Append(auths, [account |-> Pages!Fresh, live |-> TRUE])
            /\ Pages!Answered(c, "ok", Pages!Fresh) /\ UNCHANGED effects
  <2>1. PICK x, y : x = Pages!NewSession(Len(sess) + 1) /\ y = [account |-> Len(sess) + 1, live |-> TRUE]
    OBVIOUS
  <2>2. /\ x \in SessionRows /\ x.account = Len(sess) + 1 /\ x.protected
        /\ y \in TokenRows /\ y.account = Len(sess) + 1
    BY <1>8, <2>1 DEF Pages!NewSession, SessionRows, TokenRows
  <2>3. /\ Len(sess') = Len(sess) + 1 /\ sess'[Len(sess) + 1] = x
        /\ Len(auths') = Len(auths) + 1 /\ auths'[Len(auths) + 1] = y /\ auths' \in Seq(TokenRows)
    BY <1>4, <1>8, <1>19, <2>1, <2>2, RowAdded
  <2>4. KeepsRows
    <3>1. x.account \in 0..(Len(sess) + 1) /\ y.account \in 0..Len(sess')
      BY <1>4, <2>2, <2>3
    <3> QED
      BY <1>8, <1>19, <2>1, <2>2, <3>1, ChangesKeep DEF SessionsChange, TokensChange
  <2>5. Len(sess) + 1 \in 1..Len(sess') /\ auths' # <<>>
    BY <1>4, <2>3
  <2>6. Serves(c, "ok", Len(sess) + 1)
    BY <1>1, <1>3, <1>8, <1>19, <2>2, <2>3, <2>4, <2>5 DEF Serves, Pages!Answered
  <2> QED
    BY <1>1, <2>6
<1>20. CASE /\ a # None /\ at = "logout"
            /\ sess' = IF Pages!Usable(s, a) THEN [sess EXCEPT ![s].gone = TRUE] ELSE sess
            /\ auths' = [auths EXCEPT ![t].live = FALSE]
            /\ Pages!Answered(c, "ok", 0) /\ UNCHANGED effects
  <2>1. t \in 1..Len(auths) /\ auths[t] \in TokenRows
    BY <1>4, <1>5, <1>20
  <2>2. TokensChange
    <3>1. PICK y : y = [auths[t] EXCEPT !.live = FALSE]
      OBVIOUS
    <3>2. y \in TokenRows /\ y.account = auths[t].account /\ auths' = [auths EXCEPT ![t] = y]
      BY <1>20, <2>1, <3>1 DEF TokenRows
    <3> QED
      BY <2>1, <3>2 DEF TokensChange
  <2>3. SessionsChange
    <3>1. CASE Pages!Usable(s, a)
      <4>1. s \in 1..Len(sess) /\ sess[s] \in SessionRows
        BY <1>4, <3>1 DEF Pages!Usable
      <4>2. PICK x : x = [sess[s] EXCEPT !.gone = TRUE]
        OBVIOUS
      <4>3. /\ x \in SessionRows /\ x.account = sess[s].account /\ x.protected = sess[s].protected
            /\ sess' = [sess EXCEPT ![s] = x]
        BY <1>20, <3>1, <4>1, <4>2 DEF SessionRows
      <4> QED
        BY <4>1, <4>3 DEF SessionsChange
    <3>2. CASE ~Pages!Usable(s, a)
      BY <1>20, <3>2 DEF SessionsChange
    <3> QED
      BY <3>1, <3>2
  <2>4. KeepsRows
    BY <2>2, <2>3, ChangesKeep
  <2>5. Serves(c, "ok", 0)
    BY <1>1, <1>3, <1>20, <2>4 DEF Serves, Pages!Answered
  <2> QED
    BY <1>1, <2>5
<1> QED
  BY <1>3, <1>9, <1>10, <1>11, <1>12, <1>13, <1>14, <1>15, <1>16, <1>17, <1>18, <1>19, <1>20
     DEF Pages!Serve
(* The invariant at the start. *)
LEMMA PressingInit ==
  ASSUME None \notin Nat, Pages!Init
  PROVE  Pressing
<1>1. JobsOK
  BY DEF Pages!Init, JobsOK, Ended
<1>2. RowsOK /\ TabOK
  BY DEF Pages!Init, RowsOK, TabOK, Pagings, Pages!Shows
<1> QED
  BY <1>1, <1>2 DEF Pressing, Pages!Init, EffectsOK, Pages!OneEffectPerClick

(* The steps of the player, the browser, the network and the server. *)
Plays(c) ==
  \/ Pages!Serve(c) \/ Pages!Lose(c) \/ Pages!Arrive(c) \/ Button(c) \/ Pages!Forget(c)
  \/ Pages!RefreshSignedOut(c)
  \/ \E name \in {"casino", "cashier", "account", "history"} : Pages!Visit(c, name)

Expires ==
  \/ \E s \in 1..Len(sess) : Pages!ExpireSession(s)
  \/ \E t \in 1..Len(auths) : Pages!ExpireToken(t)

LEMMA PagesNext == Pages!Next <=> (\E c \in Presses : Plays(c)) \/ Expires
  BY DEF Pages!Next, Plays, Expires, Button

LEMMA ExpirePresses ==
  ASSUME Pressing, Expires
  PROVE  Pressing'
<1>1. /\ KeepsRows /\ Len(sess') = Len(sess) /\ Len(auths') = Len(auths)
      /\ UNCHANGED <<work, effects, sid, token, page, visit, player>>
  BY ExpireKeeps DEF Expires
<1>2. RowsOK' /\ TabOK'
  BY <1>1 DEF KeepsRows, Pressing, TabOK
<1>3. auths # <<>> => auths' # <<>>
  BY <1>1 DEF Pressing, RowsOK, KeepsRows
<1>4. JobsOK'
  BY <1>1, <1>3 DEF Pressing, JobsOK, JobOK, Ended, Pages!Idle, Pages!Done, Pages!Lost
<1> QED
  BY <1>1, <1>2, <1>4 DEF Pressing, EffectsOK, Pages!OneEffectPerClick, Spent

LEMMA PlaysPress ==
  ASSUME Pressing, NEW c \in Presses, Plays(c)
  PROVE  Pressing'
<1>1. CASE Pages!Serve(c) \/ Pages!Lose(c)
  BY <1>1, ServeServes, LoseServes, ServesPress
<1>2. CASE Pages!Arrive(c)
  BY <1>2, ArriveArrives, MovesPress DEF Arrives
<1>3. CASE Button(c)
  BY <1>3, ButtonStarts, MovesPress DEF Starts
<1>4. CASE Pages!Forget(c)
  BY <1>4, ForgetStarts, MovesPress DEF Starts
<1>5. CASE \E name \in {"casino", "cashier", "account", "history"} : Pages!Visit(c, name)
  BY <1>5, VisitStarts, MovesPress DEF Starts
<1>6. CASE Pages!RefreshSignedOut(c)
  BY <1>6, RefreshSignedOutStarts, MovesPress DEF Starts
<1> QED
  BY <1>1, <1>2, <1>3, <1>4, <1>5, <1>6 DEF Plays

LEMMA PressingStep == Pressing /\ [Pages!Next]_Pages!vars => Pressing'
<1>1. ASSUME Pressing, UNCHANGED Pages!vars PROVE Pressing'
  BY <1>1 DEF Pages!vars, Pages!client, Pages!server, Pressing, RowsOK, TabOK, JobsOK, JobOK, EffectsOK,
     Spent, Pages!OneEffectPerClick, Ended, Pages!Idle, Pages!Done, Pages!Lost
<1> QED
  BY <1>1, PagesNext, PlaysPress, ExpirePresses

(* However many pages are left and buttons pressed before an answer arrives, a click has one *)
(* effect at most (casinoApi.js:204).                                                        *)
THEOREM OneEffectAlways == Pages!OverlapAssumption => (Pages!Spec => []Pages!OneEffectPerClick)
<1>1. Pages!OverlapAssumption /\ Pages!Init => Pressing
  BY PressingInit DEF Pages!OverlapAssumption
<1>2. Pressing => Pages!OneEffectPerClick
  BY DEF Pressing
<1> QED
  BY <1>1, <1>2, PressingStep, PTL DEF Pages!Spec

-----------------------------------------------------------------------------
(* A player who waits for each page.  The one request under way was sent with *)
(* what the browser keeps, so what it brings fits to that.                     *)

Alone == \A c, d \in Presses : Pages!Running(c) /\ Pages!Running(d) => c = d

(* What asks for the profile is of a page that says so when it is refused; the casino, the *)
(* history and a logout ask for nothing else.                                              *)
Fits(t, name) ==
  \/ name \in {"cashier", "account"} /\ t.by \in {"load", "signin", "create", "refresh"}
  \/ t.fn # "me" /\ t.todo = <<>>

(* A request and its answer belong to the page, the session and the token of the browser. *)
UpToDate(c) ==
  /\ work[c].visit = visit /\ Fits(work[c], page.name)
  /\ work[c].at \in Pages!WithSession => work[c].sid = sid
  /\ work[c].at \in Pages!WithAuth => work[c].tok = token
  /\ work[c].ans = "ok" /\ work[c].at = "open" /\ token # None =>
       sess[work[c].got].account = auths[token].account
  /\ work[c].ans = "ok" /\ work[c].at = "open" /\ player = "player" => sess[work[c].got].protected
  /\ work[c].ans = "ok" /\ work[c].at \in {"login", "register"} =>
       sess[work[c].got].account = auths[Len(auths)].account /\ sess[work[c].got].protected

(* Whoever plays as a player has a token, and a guest has none. *)
Known == (player = "guest" => token = None) /\ (player = "player" => token # None)

(* The inductive invariant for a player who waits. *)
Paging ==
  /\ ~Overlap
  /\ Pressing
  /\ Alone
  /\ \A c \in Presses : Pages!Running(c) => UpToDate(c)
  /\ Known
  /\ Pages!SameAccount /\ Pages!NoSilentDowngrade

(* The page of a task that goes on stays the same, and so does what it asks for. *)
LEMMA ArriveFits ==
  ASSUME Pressing, NEW c \in Presses, Pages!Arrive(c), Fits(work[c], page.name), Pages!Running(c)'
  PROVE  Fits(work[c], page.name)'
<1>1. DOMAIN work = Presses
  BY DEF Pressing, JobsOK
<1>2. work'[c] \notin {Pages!Done, Pages!Lost}
  BY DEF Pages!Running, Pages!Done, Pages!Lost
<1>3. ASSUME NEW s, NEW t, Pages!Returned(c, s, t)
      PROVE  Fits(work[c], page.name)'
  <2>1. PICK todo : todo = work[c].todo
    OBVIOUS
  <2>2. work'[c] = Pages!Following(c, todo, s, t)
    BY <1>1, <1>3, <2>1 DEF Pages!Returned, Pages!Then
  <2>3. todo # <<>> /\ work'[c].by = work[c].by
    BY <1>2, <2>2 DEF Pages!Following, Pages!Asking
  <2>4. page' = page
    BY <1>1, <1>2, <1>3 DEF Pages!Returned, Pages!Then
  <2> QED
    BY <2>1, <2>3, <2>4 DEF Fits
<1>4. ASSUME NEW again, NEW s, Pages!Then(c, Pages!Again(c, again, s)), UNCHANGED page
      PROVE  Fits(work[c], page.name)'
  <2>1. work'[c].by = work[c].by /\ work'[c].fn = work[c].fn /\ work'[c].todo = work[c].todo
    BY <1>1, <1>4 DEF Pages!Then, Pages!Again, Pages!Asking
  <2> QED
    BY <1>4, <2>1 DEF Fits
<1>5. CASE Pages!Opened(c) \/ Pages!SignedIn(c) \/ Pages!Read(c)
  BY <1>3, <1>4, <1>5 DEF Pages!Opened, Pages!SignedIn, Pages!Read
<1>6. CASE Pages!LoggedOut(c)
  BY <1>1, <1>2, <1>6 DEF Pages!LoggedOut, Pages!Then
<1>7. CASE Pages!Recover(c)
  BY <1>4, <1>7 DEF Pages!Recover
<1>8. CASE Pages!Refused(c)
  BY <1>1, <1>2, <1>8 DEF Pages!Refused, Pages!Thrown, Pages!Then
<1> QED
  BY <1>5, <1>6, <1>7, <1>8 DEF Pages!Arrive

(* What the player sets off is of the page he sees. *)
LEMMA ClickFits ==
  ASSUME Pressing, NEW c \in Presses, NEW name, NEW from, NEW to, NEW by, NEW fn, NEW todo,
         Pages!Click(c, name, from, to, by, fn, todo),
         \/ name \in {"cashier", "account"} /\ by \in {"load", "signin", "create", "refresh"}
         \/ fn # "me" /\ todo = <<>>
  PROVE  Fits(work[c], page.name)'
<1>1. page'.name = name /\ work' = [work EXCEPT ![c] = Pages!Asking(visit, by, fn, todo, FALSE, sid, token)]
  BY DEF Pages!Click, Pages!Start, Pressing, TabOK, Pagings
<1>2. work'[c].by = by /\ work'[c].fn = fn /\ work'[c].todo = todo
  BY <1>1 DEF Pressing, JobsOK, Pages!Asking
<1> QED
  BY <1>1, <1>2 DEF Fits

LEMMA ButtonFits ==
  ASSUME Pressing, NEW c \in Presses, Button(c)
  PROVE  Fits(work[c], page.name)'
<1>1. CASE Pages!Spin(c)
  BY <1>1, ClickFits DEF Pages!Spin
<1>2. CASE Pages!SignIn(c)
  BY <1>2, ClickFits DEF Pages!SignIn
<1>3. CASE Pages!Create(c)
  BY <1>3, ClickFits DEF Pages!Create
<1>4. CASE Pages!Refresh(c)
  BY <1>4, ClickFits DEF Pages!Refresh
<1>5. CASE Pages!Logout(c)
  BY <1>5, ClickFits DEF Pages!Logout
<1> QED
  BY <1>1, <1>2, <1>3, <1>4, <1>5 DEF Button

LEMMA VisitFits ==
  ASSUME Pressing, NEW c \in Presses, NEW name \in {"casino", "cashier", "account", "history"},
         Pages!Visit(c, name), Pages!Running(c)'
  PROVE  Fits(work[c], page.name)'
<1>1. DOMAIN work = Presses
  BY DEF Pressing, JobsOK
<1>2. work'[c] # Pages!Done
  BY DEF Pages!Running, Pages!Done
<1>3. PICK calls : calls = Pages!Loads(name)
  OBVIOUS
<1>4. page'.name = name /\ Pages!Start(c, visit + 1, "load", Head(calls), Tail(calls))
  BY <1>1, <1>2, <1>3 DEF Pages!Visit
<1>5. work'[c].by = "load" /\ work'[c].fn = Head(calls) /\ work'[c].todo = Tail(calls)
  BY <1>1, <1>4 DEF Pages!Start, Pages!Asking
<1>6. name \in {"casino", "history"} => Head(calls) # "me" /\ Tail(calls) = <<>>
  BY <1>3 DEF Pages!Loads
<1> QED
  BY <1>4, <1>5, <1>6 DEF Fits

(* A new request is up to date. *)
LEMMA MovesPages ==
  ASSUME Paging, NEW c \in Presses, NEW n, MovesTo(c, n), Pages!Running(c) \/ Pages!Quiet,
         n \in {Pages!Done, Pages!Lost} \/ n.visit = visit',
         Pages!Running(c)' => Fits(work[c], page.name)',
         Known', Pages!SameAccount', Pages!NoSilentDowngrade'
  PROVE  Paging'
<1>1. Pressing'
  BY MovesPress DEF Paging
<1>2. work'[c] = n /\ \A d \in Presses \ {c} : work'[d] = work[d]
  BY DEF MovesTo, Paging, Pressing, JobsOK
<1>3. \A d \in Presses \ {c} : ~Pages!Running(d) /\ ~Pages!Running(d)'
  BY <1>2 DEF Paging, Alone, Pages!Quiet, Pages!Running
<1>4. Alone'
  BY <1>3 DEF Alone
<1>5. ASSUME Pages!Running(c)'
      PROVE  UpToDate(c)'
  <2>1. n \notin {Pages!Done, Pages!Lost}
    BY <1>2, <1>5 DEF Pages!Running, Pages!Done, Pages!Lost
  <2>2. AsksOf(n, sid', token') /\ n.visit = visit'
    BY <2>1 DEF MovesTo
  <2> QED
    BY <1>2, <1>5, <2>2 DEF UpToDate, AsksOf, Pages!WithSession, Pages!WithAuth
<1> QED
  BY <1>1, <1>3, <1>4, <1>5 DEF Paging
(* The answers of the server that the browser stores. *)
LEMMA ArrivePages ==
  ASSUME Paging, NEW c \in Presses, Pages!Arrive(c)
  PROVE  Paging'
<1>1. Pressing
  BY DEF Paging
<1>2. Pages!Running(c)
  BY <1>1, ArriveArrives
<1>3. PICK n : Arrives(c, n)
  BY <1>1, ArriveArrives
<1>4. UpToDate(c) /\ JobOK(work[c]) /\ work[c] \in Jobs
  BY <1>1, <1>2, RunningIsJob DEF Paging
<1>5. MovesTo(c, n) /\ (n \in {Pages!Done, Pages!Lost} \/ n.visit = visit')
  BY <1>3, <1>4 DEF Arrives, UpToDate
<1>6. /\ UNCHANGED <<sess, auths>> /\ None \notin Nat /\ Len(sess) \in Nat /\ Len(auths) \in Nat
      /\ auths \in Seq(TokenRows)
  BY <1>1, <1>5 DEF MovesTo, Pressing, RowsOK
<1>7. Known /\ Pages!SameAccount /\ Pages!NoSilentDowngrade
  BY DEF Paging
<1>0. Pages!Running(c)' => Fits(work[c], page.name)'
  BY <1>1, <1>4, ArriveFits DEF UpToDate
<1>8. CASE Pages!Opened(c)
  <2>1. /\ work[c].ans = "ok" /\ work[c].at = "open" /\ sid' = work[c].got /\ token' = token
        /\ player' = player
    BY <1>8 DEF Pages!Opened, Pages!Arrived, Pages!Stored
  <2>2. Known' /\ Pages!SameAccount' /\ Pages!NoSilentDowngrade'
    BY <1>4, <1>6, <1>7, <2>1 DEF UpToDate, Known, Pages!SameAccount, Pages!NoSilentDowngrade
  <2> QED
    BY <1>0, <1>2, <1>5, <2>2, MovesPages
<1>9. CASE Pages!SignedIn(c)
  <2>1. /\ work[c].ans = "ok" /\ work[c].at \in {"login", "register"} /\ sid' = work[c].got
        /\ token' = Len(auths) /\ player' = "player"
    BY <1>9 DEF Pages!SignedIn, Pages!Arrived, Pages!Stored, Pages!SignedSession
  <2>2. Known' /\ Pages!SameAccount' /\ Pages!NoSilentDowngrade'
    BY <1>4, <1>6, <2>1 DEF UpToDate, Known, Pages!SameAccount, Pages!NoSilentDowngrade
  <2> QED
    BY <1>0, <1>2, <1>5, <2>2, MovesPages
<1>10. CASE Pages!Read(c)
  <2>1. UNCHANGED <<sid, token, player>>
    BY <1>10 DEF Pages!Read, Pages!Stored
  <2>2. Known' /\ Pages!SameAccount' /\ Pages!NoSilentDowngrade'
    BY <1>6, <1>7, <2>1 DEF Known, Pages!SameAccount, Pages!NoSilentDowngrade
  <2> QED
    BY <1>0, <1>2, <1>5, <2>2, MovesPages
<1>11. CASE Pages!LoggedOut(c)
  <2>1. token' = None /\ player' = "guest"
    BY <1>11 DEF Pages!LoggedOut, Pages!Stored
  <2>2. Known' /\ Pages!SameAccount' /\ Pages!NoSilentDowngrade'
    BY <2>1 DEF Known, Pages!SameAccount, Pages!NoSilentDowngrade
  <2> QED
    BY <1>0, <1>2, <1>5, <2>2, MovesPages
<1>12. CASE Pages!Recover(c)
  <2>1. sid' = None /\ UNCHANGED <<token, player>>
    BY <1>12 DEF Pages!Recover, Pages!Stored
  <2>2. Known' /\ Pages!SameAccount' /\ Pages!NoSilentDowngrade'
    BY <1>7, <2>1 DEF Known, Pages!SameAccount, Pages!NoSilentDowngrade
  <2> QED
    BY <1>0, <1>2, <1>5, <2>2, MovesPages
<1>13. CASE Pages!Refused(c)
  <2>1. /\ sid' = sid /\ token' = (IF Pages!Forgets(c) THEN None ELSE token)
        /\ Pages!Thrown(c, work[c].ans)
    BY <1>13 DEF Pages!Refused, Pages!Stored
  <2>2. player' \in {player, "unaware", "told"}
    BY <2>1 DEF Pages!Thrown, Pages!Told
  <2>3. Pages!Forgets(c) /\ player = "player" => player' # "player"
    <3>1. ASSUME Pages!Forgets(c), player = "player" PROVE player' # "player"
      <4>1. work[c].at = "me" /\ work[c].ans = "auth" /\ Pages!Mounted(c)
        BY <1>4, <3>1 DEF Pages!Forgets, Pages!Mounted, UpToDate
      <4>2. work[c].fn = "me"
        BY <1>4, <4>1 DEF JobOK
      <4>3. page.name # "casino" /\ work[c].by \in {"load", "signin", "create", "refresh"}
        BY <1>4, <4>2 DEF UpToDate, Fits
      <4>4. Pages!Asks(work[c].by, work[c].ans)
        BY <4>1, <4>3 DEF Pages!Asks
      <4> QED
        BY <2>1, <3>1, <4>1, <4>4 DEF Pages!Thrown, Pages!Told
    <3> QED
      BY <3>1
  <2>4. player = "guest" => player' = "guest"
    BY <2>1 DEF Pages!Thrown, Pages!Told
  <2>5. Known'
    BY <1>7, <2>1, <2>2, <2>3 DEF Known
  <2>6. Pages!SameAccount' /\ Pages!NoSilentDowngrade'
    BY <1>6, <1>7, <2>1, <2>2 DEF Pages!SameAccount, Pages!NoSilentDowngrade
  <2> QED
    BY <1>0, <1>2, <1>5, <2>5, <2>6, MovesPages
<1> QED
  BY <1>8, <1>9, <1>10, <1>11, <1>12, <1>13 DEF Pages!Arrive

(* What the player does, once everything is answered. *)
LEMMA StartPages ==
  ASSUME Paging, NEW c \in Presses, NEW n, Starts(c, n), token' = token,
         Pages!Running(c)' => Fits(work[c], page.name)',
         \/ sid' = sid /\ (player' \in {player, "told"})
         \/ token = None /\ player' = "guest"
  PROVE  Paging'
<1>1. MovesTo(c, n) /\ Pages!Quiet /\ (n \in {Pages!Done, Pages!Lost} \/ n.visit = visit')
  BY DEF Starts, Paging
<1>2. UNCHANGED <<sess, auths>>
  BY <1>1 DEF MovesTo
<1>3. Known' /\ Pages!SameAccount' /\ Pages!NoSilentDowngrade'
  BY <1>2 DEF Paging, Known, Pages!SameAccount, Pages!NoSilentDowngrade
<1> QED
  BY <1>1, <1>3, MovesPages

(* The answer to a request that is up to date is as well. *)
LEMMA ServesPages ==
  ASSUME Paging, NEW c \in Presses, Pages!Running(c), NEW a, NEW g, Serves(c, a, g)
  PROVE  Paging'
<1>1. Pressing /\ Pressing' /\ None \notin Nat
  BY ServesPress DEF Paging, Pressing
<1>2. JobOK(work[c]) /\ work[c] \in Jobs /\ UpToDate(c)
  BY <1>1, RunningIsJob DEF Paging
<1>3. PICK n : n = [work[c] EXCEPT !.ans = a, !.got = g]
  OBVIOUS
<1>4. /\ n.ans = a /\ n.got = g /\ n.at = work[c].at /\ n.fn = work[c].fn /\ n.visit = work[c].visit
      /\ n.by = work[c].by /\ n.todo = work[c].todo
      /\ n.sid = work[c].sid /\ n.tok = work[c].tok
  BY <1>2, <1>3 DEF Jobs
<1>5. work'[c] = n /\ \A d \in Presses \ {c} : work'[d] = work[d]
  BY <1>1, <1>3 DEF Serves, Pressing, JobsOK
<1>6. \A d \in Presses \ {c} : ~Pages!Running(d)'
  BY <1>5 DEF Paging, Alone, Pages!Running
<1>7. /\ UNCHANGED <<sid, token, page, visit, player>> /\ KeepsRows
      /\ sid \in (1..Len(sess)) \cup {None} /\ token \in (1..Len(auths)) \cup {None}
  BY <1>1 DEF Serves, Pressing, TabOK
<1>8. Pages!SameAccount' /\ Pages!NoSilentDowngrade'
  BY <1>7 DEF Paging, KeepsRows, Pages!SameAccount, Pages!NoSilentDowngrade
<1>11. Fits(n, page.name)
  BY <1>2, <1>4 DEF UpToDate, Fits
<1>9. UpToDate(c)'
  <2>1. ASSUME a = "ok", n.at = "open", token # None
        PROVE  /\ sess'[g].account = auths'[token].account
               /\ player = "player" => sess'[g].protected
    <3>1. work[c].sid = sid /\ work[c].tok = token
      BY <1>2, <1>4, <2>1 DEF UpToDate, Pages!WithSession, Pages!WithAuth, Pages!Functions
    <3>2. g \in Nat /\ (g = sid \/ (sess'[g].account = auths'[token].account /\ sess'[g].protected))
      BY <1>4, <2>1, <3>1 DEF Serves
    <3>3. CASE g = sid
      BY <1>1, <1>7, <1>8, <2>1, <3>2, <3>3 DEF Pages!SameAccount, Pages!NoSilentDowngrade
    <3> QED
      BY <3>2, <3>3
  <2>2. a = "ok" /\ n.at \in {"login", "register"} =>
          sess'[g].account = auths'[Len(auths')].account /\ sess'[g].protected
    BY <1>4 DEF Serves
  <2>3. player = "player" => token # None
    BY DEF Paging, Known
  <2> QED
    BY <1>2, <1>4, <1>5, <1>7, <1>11, <2>1, <2>2, <2>3 DEF UpToDate, Pages!WithSession, Pages!WithAuth
<1>10. Known'
  BY <1>7 DEF Paging, Known
<1> QED
  BY <1>1, <1>6, <1>8, <1>9, <1>10 DEF Paging, Alone

LEMMA ExpirePages ==
  ASSUME Paging, Expires
  PROVE  Paging'
<1>1. Pressing /\ Pressing'
  BY ExpirePresses DEF Paging
<1>2. /\ KeepsRows /\ Len(sess') = Len(sess) /\ Len(auths') = Len(auths)
      /\ UNCHANGED <<work, effects, sid, token, page, visit, player>>
  BY <1>1, ExpireKeeps DEF Expires
<1>3. sid \in (1..Len(sess)) \cup {None} /\ token \in (1..Len(auths)) \cup {None}
  BY <1>1 DEF Pressing, TabOK
<1>4. Pages!SameAccount' /\ Pages!NoSilentDowngrade' /\ Known' /\ Alone'
  BY <1>2, <1>3 DEF Paging, KeepsRows, Known, Alone, Pages!SameAccount, Pages!NoSilentDowngrade, Pages!Running
<1>5. ASSUME NEW c \in Presses, Pages!Running(c)
      PROVE  UpToDate(c)'
  <2>1. JobOK(work[c]) /\ UpToDate(c)
    BY <1>1, <1>5, RunningIsJob DEF Paging
  <2>2. auths # <<>> => Len(auths) \in 1..Len(auths)
    BY <1>1 DEF Pressing, RowsOK
  <2> QED
    BY <1>2, <1>3, <2>1, <2>2 DEF UpToDate, JobOK, KeepsRows, Fits, Pages!WithSession, Pages!WithAuth
<1> QED
  BY <1>1, <1>2, <1>4, <1>5 DEF Paging, Pages!Running

LEMMA PlaysPages ==
  ASSUME Paging, NEW c \in Presses, Plays(c)
  PROVE  Paging'
<1>1. Pressing
  BY DEF Paging
<1>2. CASE Pages!Serve(c) \/ Pages!Lose(c)
  BY <1>1, <1>2, ServeServes, LoseServes, ServesPages
<1>3. CASE Pages!Arrive(c)
  BY <1>3, ArrivePages
<1>4. CASE Button(c)
  <2>1. Starts(c, work'[c]) /\ UNCHANGED <<sid, token, player>>
    BY <1>1, <1>4, ButtonStarts
  <2>2. PICK n : n = work'[c]
    OBVIOUS
  <2>3. Fits(work[c], page.name)'
    BY <1>1, <1>4, ButtonFits
  <2> QED
    BY <2>1, <2>2, <2>3, StartPages
<1>5. ASSUME Starts(c, Pages!Done) PROVE ~Pages!Running(c)'
  BY <1>1, <1>5 DEF Starts, MovesTo, Pressing, JobsOK, Pages!Running, Pages!Done
<1>6. CASE Pages!Forget(c)
  BY <1>1, <1>5, <1>6, ForgetStarts, StartPages
<1>7. CASE Pages!RefreshSignedOut(c)
  BY <1>1, <1>5, <1>7, RefreshSignedOutStarts, StartPages
<1>8. CASE \E name \in {"casino", "cashier", "account", "history"} : Pages!Visit(c, name)
  BY <1>1, <1>8, VisitStarts, VisitFits, StartPages
<1> QED
  BY <1>2, <1>3, <1>4, <1>6, <1>7, <1>8 DEF Plays

LEMMA PagingInit ==
  ASSUME Pages!OverlapAssumption, ~Overlap, Pages!Init
  PROVE  Paging
<1>1. Pressing
  BY PressingInit DEF Pages!OverlapAssumption
<1> QED
  BY <1>1 DEF Pages!Init, Paging, Alone, Pages!Running, Pages!Idle, Known, Pages!SameAccount,
     Pages!NoSilentDowngrade

LEMMA PagingStep == Paging /\ [Pages!Next]_Pages!vars => Paging'
<1>1. ASSUME Paging, UNCHANGED Pages!vars PROVE Paging'
  <2>1. Pressing'
    BY <1>1, PressingStep DEF Paging
  <2> QED
    BY <1>1, <2>1 DEF Pages!vars, Pages!client, Pages!server, Paging, Alone, UpToDate, Known,
       Fits, Pages!SameAccount, Pages!NoSilentDowngrade, Pages!Running, Pages!WithSession, Pages!WithAuth
<1> QED
  BY <1>1, PagesNext, PlaysPages, ExpirePages

LEMMA PagingAlways == Pages!OverlapAssumption /\ ~Overlap => (Pages!Spec => []Paging)
<1>1. Pages!OverlapAssumption /\ ~Overlap /\ Pages!Init => Paging
  BY PagingInit
<1> QED
  BY <1>1, PagingStep, PTL DEF Pages!Spec

(* The types that the runs check. *)
LEMMA PagesTypes == Pressing => Pages!TypeOK
<1> SUFFICES ASSUME Pressing PROVE Pages!TypeOK
  OBVIOUS
<1>1. ASSUME NEW c \in Presses, Pages!Running(c)
      PROVE  /\ work[c].by \in Pages!Handlers /\ work[c].fn \in Pages!Functions
             /\ work[c].at \in Pages!Functions
             /\ work[c].ans \in {"none", "ok", "session", "auth", "limited", "failed"}
             /\ (work[c].at # work[c].fn => work[c].at = "open" /\ work[c].fn \in {"wallet", "spin"})
  BY <1>1, RunningIsJob DEF JobOK, Jobs
<1> QED
  BY <1>1 DEF Pressing, RowsOK, TabOK, Pagings, Pages!TypeOK, Pages!Known

(* One press has one effect, and the session the browser keeps is one of the account of its *)
(* token, for a player who waits for each page (casinoApi.js:204, :176).                    *)
THEOREM PressesAlwaysCountOnce ==
  Pages!OverlapAssumption /\ ~Overlap => (Pages!Spec => []PressesCountOnce)
<1>1. Paging => PressesCountOnce
  BY PagesTypes DEF Paging, Pressing, PressesCountOnce
<1> QED
  BY <1>1, PagingAlways, PTL

(* Such a player keeps a session of his own until he was told to sign in again, unless a    *)
(* refresh of the account page noticed that his token has expired (casinoApi.js:148).        *)
THEOREM NeverDowngraded ==
  Pages!OverlapAssumption /\ ~Overlap => (Pages!Spec => []NeverDowngradedSilently)
<1>1. Paging => NeverDowngradedSilently
  BY DEF Paging, NeverDowngradedSilently
<1> QED
  BY <1>1, PagingAlways, PTL
=============================================================================
