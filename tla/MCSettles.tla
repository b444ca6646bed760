-------------------------------- MODULE MCSettles --------------------------------
(***************************************************************************)
(* What is begun ends, on small instances of AuditTrail (a signalled       *)
(* server), Migrations (a start), IntegrationQueue (a pull request),       *)
(* ProviderWebhooks (an event), BrowserClient and StaffConsole (a page).   *)
(* A behaviour is about the instance that part names; variables of the     *)
(* same name and the calls c1 to c3 serve each in turn; a variable a part  *)
(* lacks holds None. There is no symmetry, which liveness does not allow.  *)
(***************************************************************************)
EXTENDS Integers, Sequences, FiniteSets, TLC

CONSTANTS None, c1, c2, c3, e1, w1, p1, p2, support

VARIABLES
  part,
  effects, tok, task, status,                                      \* of two modules
  process, starts, call, open, lines, rows, write, waiting,        \* of AuditTrail
  pc, lock, seen, at, tx, ran, cause,                              \* of Migrations
  main, pr, ci, waves, queue, wave, events, stood, landed,         \* of IntegrationQueue
  now, wire, told, worker, applied,                                \* of ProviderWebhooks
  sid, page, visit, sess, auths, player,                           \* of BrowserClient
  ui, live, roles, decided                                         \* of StaffConsole

C == {c1, c2, c3}

-----------------------------------------------------------------------------
(* Instances *)

(* A request and its retry in one life of the server. *)
RequestAndRetry == [c \in {c1, c2} |-> e1]
Ending == INSTANCE AuditTrail WITH
  Calls <- {c1, c2}, Effects <- {e1}, EffectOf <- RequestAndRetry, MaxStarts <- 1

(* Starts of an older and of a newer release. *)
Releases == [c \in C |-> IF c = c1 THEN 2 ELSE 3]
Migrating == INSTANCE Migrations WITH Starts <- C, Release <- Releases, Nobody <- None

(* A wave of two, one pull request of the queue, and CI that accepts everything. *)
OwnFiles == [c \in ((1 .. 3) \X (1 .. 2)) \cup {<<0, 1>>} |-> {<<"own", c[1]>>}]
Landing == INSTANCE IntegrationQueue WITH
  PRs <- 1 .. 3, Wave <- {1, 2}, Depends <- [p \in 1 .. 3 |-> {}],
  Touches <- OwnFiles, BlockedPaths <- {}, Broken <- {}, Conflicts <- {},
  MinBatch <- 2, MaxBatch <- 3, MaxVersions <- 2, MaxEvents <- 1, MaxByHand <- 0, Failing <- FALSE

(* A withdrawal that the provider approves and completes, and nobody else decides. *)
Telling == INSTANCE ProviderWebhooks WITH
  Ops <- {w1}, Kind <- [o \in {w1} |-> "withdrawal"],
  Script <- [o \in {w1} |-> <<"approve", "complete">>], Workers <- {c1, c2},
  Tolerance <- 1, Skew <- 1, MaxTime <- 1, StaffActions <- {}

(* A player who goes from page to page, waiting for each. *)
Playing == INSTANCE BrowserClient WITH Tasks <- C, Overlap <- FALSE

(* Support, who searches for players and does not wait. *)
Searching == INSTANCE StaffConsole WITH
  Accounts <- {support}, Roles <- [a \in {support} |-> {"player", "support"}],
  Ops <- {}, Kind <- [o \in {} |-> "deposit"], Players <- {p1}, Tasks <- {c1, c2},
  Reassigns <- FALSE

ASSUME Ending!TrailAssumption /\ Migrating!MigrationsAssumption
ASSUME Landing!QueueAssumption
ASSUME Telling!WebhooksAssumption
ASSUME Playing!OverlapAssumption
ASSUME Searching!ConsoleAssumption

-----------------------------------------------------------------------------
(* One instance at a time *)

auditVars == <<process, starts, call, open, lines, rows, write, waiting>>
migrationVars == <<pc, lock, seen, at, tx, ran, cause>>
queueVars == <<main, pr, ci, waves, queue, wave, events, stood, landed>>
webhookVars == <<now, wire, told, worker, applied>>
pageVars == <<sid, page, visit, sess, auths, player>>
consoleVars == <<ui, live, roles, decided>>
vars == <<part, effects, tok, task, status, auditVars, migrationVars, queueVars, webhookVars,
          pageVars, consoleVars>>

NoAudit ==
  /\ process = None /\ starts = None /\ call = None /\ open = None
  /\ lines = None /\ rows = None /\ write = None /\ waiting = None
NoMigrations ==
  /\ pc = None /\ lock = None /\ seen = None /\ at = None /\ tx = None /\ ran = None /\ cause = None
NoQueue ==
  /\ main = None /\ pr = None /\ ci = None /\ waves = None /\ queue = None
  /\ wave = None /\ events = None /\ stood = None /\ landed = None
NoWebhooks == now = None /\ wire = None /\ told = None /\ worker = None /\ applied = None
NoPages == sid = None /\ page = None /\ visit = None /\ sess = None /\ auths = None /\ player = None
NoConsole == ui = None /\ live = None /\ roles = None /\ decided = None

Init ==
  \/ /\ part = "ending" /\ Ending!Init
     /\ NoMigrations /\ NoQueue /\ NoWebhooks /\ NoPages /\ NoConsole
     /\ tok = None /\ task = None /\ status = None
  \/ /\ part = "migrating" /\ Migrating!Init
     /\ NoAudit /\ NoQueue /\ NoWebhooks /\ NoPages /\ NoConsole
     /\ effects = None /\ tok = None /\ task = None /\ status = None
  \/ /\ part = "landing" /\ Landing!Init
     /\ NoAudit /\ NoMigrations /\ NoWebhooks /\ NoPages /\ NoConsole
     /\ effects = None /\ tok = None /\ task = None /\ status = None
  \/ /\ part = "telling" /\ Telling!Init
     /\ NoAudit /\ NoMigrations /\ NoQueue /\ NoPages /\ NoConsole
     /\ effects = None /\ tok = None /\ task = None
  \/ /\ part = "playing" /\ Playing!Init
     /\ NoAudit /\ NoMigrations /\ NoQueue /\ NoWebhooks /\ NoConsole /\ status = None
  \/ /\ part = "searching" /\ Searching!Init
     /\ NoAudit /\ NoMigrations /\ NoQueue /\ NoWebhooks /\ NoPages /\ effects = None

OnlyEnding == UNCHANGED <<part, tok, task, status, migrationVars, queueVars, webhookVars, pageVars, consoleVars>>
OnlyMigrating ==
  UNCHANGED <<part, effects, tok, task, status, auditVars, queueVars, webhookVars, pageVars, consoleVars>>
OnlyLanding ==
  UNCHANGED <<part, effects, tok, task, status, auditVars, migrationVars, webhookVars, pageVars, consoleVars>>
OnlyTelling == UNCHANGED <<part, effects, tok, task, auditVars, migrationVars, queueVars, pageVars, consoleVars>>
OnlyPlaying == UNCHANGED <<part, status, auditVars, migrationVars, queueVars, webhookVars, consoleVars>>
OnlySearching == UNCHANGED <<part, effects, auditVars, migrationVars, queueVars, webhookVars, pageVars>>

Next ==
  \/ part = "ending" /\ Ending!Next /\ OnlyEnding
  \/ part = "migrating" /\ Migrating!Next /\ OnlyMigrating
  \/ part = "landing" /\ Landing!Next /\ OnlyLanding
  \/ part = "telling" /\ Telling!Next /\ OnlyTelling
  \/ part = "playing" /\ Playing!Next /\ OnlyPlaying
  \/ part = "searching" /\ Searching!Next /\ OnlySearching

-----------------------------------------------------------------------------
(* The fairness of each module: a behaviour is of one, and fairness of a    *)
(* disjunction over them is fairness of its action.                         *)

(* Handlers return, statements are answered, the server answers, both workers and CI run. *)
Served(c) ==
  \/ part = "ending" /\ c # c3 /\ Ending!Handler(c) /\ OnlyEnding
  \/ part = "migrating" /\ Migrating!Step(c) /\ OnlyMigrating
  \/ /\ part = "landing" /\ OnlyLanding
     /\ CASE c = c1 -> Landing!QueueStep
          [] c = c2 -> Landing!WaveStep
          [] OTHER -> \E head \in DOMAIN ci : Landing!FinishCi(head)
  \/ part = "telling" /\ c # c3 /\ Telling!Handle(c) /\ OnlyTelling
  \/ part = "playing" /\ Playing!Serve(c) /\ OnlyPlaying
  \/ part = "searching" /\ c # c3 /\ Searching!ServeAny(c) /\ OnlySearching

(* Writes settle, and answers arrive. *)
Arrives(c) ==
  \/ part = "ending" /\ c # c3 /\ Ending!Writing(c) /\ OnlyEnding
  \/ part = "playing" /\ Playing!Arrive(c) /\ OnlyPlaying
  \/ part = "searching" /\ c # c3 /\ Searching!Arrive(c) /\ OnlySearching

(* An answered connection is closed when its time is over; the provider sends its n-th event. *)
Passes(c) ==
  \/ part = "ending" /\ c # c3 /\ Ending!HangUp(c) /\ OnlyEnding
  \/ /\ part = "telling" /\ c # c3 /\ OnlyTelling
     /\ Telling!Send([op |-> w1, n |-> IF c = c1 THEN 1 ELSE 2])

Ends == part = "ending" /\ (Ending!Close \/ Ending!Flushed \/ Ending!Exit) /\ OnlyEnding

(* An event that is sent again and again is received, and its answer heard, again and again. *)
Hears(n) == part = "telling" /\ Telling!Heard([op |-> w1, n |-> n]) /\ OnlyTelling
Receives(n) ==
  part = "telling" /\ (\E w \in {c1, c2} : Telling!Receive(w, [op |-> w1, n |-> n])) /\ OnlyTelling

Spec ==
  /\ Init /\ [][Next]_vars
  /\ \A c \in C : WF_vars(Served(c)) /\ WF_vars(Arrives(c)) /\ WF_vars(Passes(c))
  /\ WF_vars(Ends)
  /\ \A n \in 1 .. 2 : SF_vars(Hears(n)) /\ SF_vars(Receives(n))

-----------------------------------------------------------------------------
(* Properties *)

(* A signalled process ends: neither connections nor handlers nor writes hold it up for ever. *)
(* Every start that asks for the advisory lock comes up or fails: it is given back on every   *)
(* path. A pull request that nothing stands against any more is merged, by whichever worker,  *)
(* unless the queue has updated it and nobody approves the run of the commit this made; the   *)
(* wave approves its own runs. A provider that goes on sending is told of every event, though *)
(* the first answer is lost.                                                                  *)
ServerWorks ==
  CASE part = "ending" -> process \in {"closing", "flushing", "ending"}
    [] part = "migrating" -> \E c \in C : pc[c] \notin {"off", "up", "failed"}
    [] part = "landing" -> Landing!Clear /\ Landing!Unfinished # {}
    [] part = "telling" -> told # Telling!Events
    [] OTHER -> FALSE

WorkEnds == ServerWorks ~> ~ServerWorks

(* No page of the player loads, submits or spins for ever, whatever becomes of its requests,  *)
(* unless he leaves it; no check of the access to the console and no search is shown for      *)
(* ever. (The account page is left out: a refresh that fails leaves it loading.)              *)
PageWorks ==
  CASE part = "playing" -> Playing!Busy
    [] part = "searching" -> ui.state = "checking" \/ ui.security \in {"loading", "loading-sessions"}
    [] OTHER -> FALSE

PagesSettle == PageWorks ~> ~PageWorks
==================================================================================
