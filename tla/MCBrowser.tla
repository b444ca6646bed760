--------------------------------- MODULE MCBrowser ---------------------------------
(***************************************************************************)
(* A small instance of Clients, with a second console (Hurried) whose      *)
(* buttons are pressed while answers are outstanding. Its parts share no   *)
(* state: a behaviour is about the one that part names, one of those that  *)
(* the run is for, and the others stay as they began.                      *)
(***************************************************************************)
EXTENDS Clients, Sequences, TLC

CONSTANTS
  Parts,   \* the parts a run is for
  t1, t3, t4, finance, support, d1, w1, p1, p2, o1, h1, h2

VARIABLES
  part,
  screen, stored, handlers, signed, granted, recorded, decisions       \* of Hurried

-----------------------------------------------------------------------------
(* Instances *)

(* One staff member after the other uses the console and waits for it. *)
MCRoles == [a \in {finance, support} |-> IF a = finance THEN {"finance"} ELSE {"support"}]
MCKind == [o \in {w1} |-> "withdrawal"]

FinanceOnly == [a \in {finance} |-> {"finance"}]

Hurried == INSTANCE StaffConsole WITH
  Accounts <- {finance}, Roles <- FinanceOnly, Ops <- {d1}, Kind <- [o \in {d1} |-> "deposit"],
  Players <- {p1}, Tasks <- {t3, t4}, Reassigns <- FALSE,
  ui <- screen, tok <- stored, task <- handlers, live <- signed, roles <- granted,
  status <- recorded, decided <- decisions

(* The provider reports a withdrawal that the staff may decide at the same time. *)
MCKindOf == [o \in {o1} |-> "withdrawal"]
ApprovedCompleted == [o \in {o1} |-> <<"approve", "complete">>]

ASSUME ConsoleAssumption /\ Hurried!ConsoleAssumption
ASSUME Pages!OverlapAssumption
ASSUME Provider!WebhooksAssumption /\ Provider!ScriptAssumption

pageVars == <<sid, token, page, visit, work, sess, auths, effects, player>>
webhookVars == <<now, wire, told, worker, reported, applied>>
hurriedVars == <<screen, stored, handlers, signed, granted, recorded, decisions>>
allVars == <<part, vars, pageVars, webhookVars, hurriedVars>>

MCInit ==
  /\ part \in Parts
  /\ Init /\ Pages!Init /\ Provider!Init /\ Hurried!Init
  /\ (part # "waits" => tok = None) /\ (part # "hurries" => stored = None)

MCNext ==
  /\ \/ part = "waits" /\ Next /\ UNCHANGED <<pageVars, webhookVars, hurriedVars>>
     \/ part = "hurries" /\ Hurried!Next /\ UNCHANGED <<vars, pageVars, webhookVars>>
     \/ part = "pages" /\ Pages!Next /\ UNCHANGED <<vars, webhookVars, hurriedVars>>
     \/ part = "reported" /\ Provider!Next /\ UNCHANGED <<vars, pageVars, hurriedVars>>
  /\ UNCHANGED part

MCSpec == MCInit /\ [][MCNext]_allVars

(* Bound: those who wait see roles change or tokens end, not both. *)
RolesOrTokens == part = "waits" => roles = Roles \/ live = Accounts

(* Bound: the token of those who hurry ends before the deposit is decided, or not at all. *)
TokensOrDecisions == part = "hurries" => signed = {finance} \/ recorded[d1] = Hurried!Initial("deposit")

(* Bound: presses are told apart by their numbers only, so the first one unused is taken; the *)
(* fifth one comes when three pages have been visited.                                         *)
PressedInOrder ==
  /\ \A c \in Presses : c > 1 /\ work[c] # Pages!Idle => work[c - 1] # Pages!Idle
  /\ \A c \in Presses : c > 4 /\ work[c] # Pages!Idle => visit >= 3

(* No action tells two tasks apart (those who wait have t1). *)
Symmetry == Permutations({t3, t4})

-----------------------------------------------------------------------------
(* With several handlers at work, too, an open console is whole and a row is busy only while
   its decision is under way, and decisions stand though another handler has an older row. *)
HurriedConsoleHolds == Hurried!ConsoleHolds /\ Hurried!DecisionsStand
====================================================================================
