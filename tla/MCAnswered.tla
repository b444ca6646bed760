------------------------------- MODULE MCAnswered -------------------------------
(***************************************************************************)
(* Every request is answered, on small instances of the components whose   *)
(* statements wait for row locks, keys and clients of the pool: GameRound, *)
(* SandboxPayments, AuthSessions, Accounts. Each calls the database on its *)
(* own: a behaviour is about the instance that part names; variables of    *)
(* the same name and the calls c1 to c5 serve each in turn; a variable it  *)
(* lacks holds None. Symmetry is not sound for liveness: there is none.    *)
(***************************************************************************)
EXTENDS Integers, FiniteSets, TLC

CONSTANTS None, c1, c2, c3, c4, c5, a1, a2, s1, s2, k1, k2, e1, p0

VARIABLES
  part,
  pc, answer, account, auth, rounds, ask, session, owner,                    \* of several modules
  req, seen, draw, told, state, balance, house,                              \* of GameRound
  order, move, rule, held, status, events, postings, available, reserved, wallets, clearing,
  won, played,                                                               \* of SandboxPayments
  stamp, password, token, targets, current, before, committed, now,          \* of AuthSessions
  who, game                                                                  \* of Accounts

(* Two requests of two accounts, each of which may ask for the session of the other, with the
   fewest clients of the pool that do (the run game_round_pool has one less). *)
Rounds == INSTANCE GameRound WITH
  Accounts <- {a1, a2}, NoAccount <- None, SessionIds <- {s1, s2}, Requests <- {c1, c2},
  Keys <- {k1}, Bets <- {1, 2}, AllowedBets <- {2}, Payouts <- {0, 3}, StartingBalance <- 2,
  PoolSize <- 3, InitialSession <- (s1 :> a1 @@ s2 :> a2), InitialAuth <- {s2}

Payments == INSTANCE SandboxPayments WITH
  Accounts <- {a1}, Operations <- {c1, c2}, Transitions <- {c3}, Keys <- {k1, k2}, Events <- {e1},
  Amounts <- {1, 3}, StartingBalance <- 2, Nets <- {1, -1}, MaxRounds <- 0

Auth == INSTANCE AuthSessions WITH
  Logins <- {c1}, Issues <- {c2, c3}, Resets <- {c4}, StepUps <- {c5}, OldPassword <- p0,
  Delay <- 0, IdleTtl <- 1, AbsoluteTtl <- 1, TokenTtl <- 1, MaxTime <- 0

(* A guest upgrades while a session of his is opened and played. *)
Upgrade == INSTANCE Accounts WITH
  Guests <- {a1}, Registers <- {c1}, Logins <- {}, Logouts <- {}, Opens <- {c2}, Rotations <- {},
  Deletes <- {}, Spins <- {c3}, Emails <- {e1}

ASSUME Payments!CallsAssumption /\ Payments!AmountsAssumption /\ Payments!AskAssumption /\ Payments!BalanceAssumption
ASSUME Auth!CallsAssumption /\ Auth!TimesAssumption
ASSUME Upgrade!RequestsAssumption

roundVars == <<req, seen, draw, told, state, balance, house>>
paymentVars == <<order, move, rule, held, status, events, postings, available, reserved, wallets,
                 clearing, won, played>>
authVars == <<stamp, password, token, targets, current, before, committed, now>>
accountVars == <<who, game>>
sharedVars == <<pc, answer, account, auth, rounds, ask, session, owner>>
vars == <<part, sharedVars, roundVars, paymentVars, authVars, accountVars>>

NoRounds == req = None /\ seen = None /\ draw = None /\ told = None /\ state = None /\ balance = None /\ house = None
NoPayments ==
  /\ order = None /\ move = None /\ rule = None /\ held = None /\ status = None /\ events = None
  /\ postings = None /\ available = None /\ reserved = None /\ wallets = None /\ clearing = None
  /\ won = None /\ played = None
NoAuth ==
  /\ stamp = None /\ password = None /\ token = None /\ targets = None /\ current = None
  /\ before = None /\ committed = None /\ now = None
NoAccounts == who = None /\ game = None

Init ==
  \/ /\ part = "rounds" /\ Rounds!Init
     /\ NoPayments /\ NoAuth /\ NoAccounts /\ ask = None /\ session = None
  \/ /\ part = "payments" /\ Payments!Init
     /\ NoRounds /\ NoAuth /\ NoAccounts
     /\ account = None /\ auth = None /\ rounds = None /\ ask = None /\ session = None /\ owner = None
  \/ /\ part = "auth" /\ Auth!Init
     /\ NoRounds /\ NoPayments /\ NoAccounts
     /\ account = None /\ auth = None /\ rounds = None /\ owner = None
  \/ /\ part = "upgrade" /\ Upgrade!AccountsInit
     /\ NoRounds /\ NoPayments /\ NoAuth

OnlyRounds == UNCHANGED <<part, paymentVars, authVars, accountVars, ask, session>>
OnlyPayments ==
  UNCHANGED <<part, roundVars, authVars, accountVars, account, auth, rounds, ask, session, owner>>
OnlyAuth == UNCHANGED <<part, roundVars, paymentVars, accountVars, account, auth, rounds, owner>>
OnlyUpgrade == UNCHANGED <<part, roundVars, paymentVars, authVars>>

Next ==
  \/ part = "rounds" /\ Rounds!Next /\ OnlyRounds
  \/ part = "payments" /\ Payments!Next /\ OnlyPayments
  \/ part = "auth" /\ Auth!Next /\ OnlyAuth
  \/ part = "upgrade" /\ Upgrade!AccountsNext /\ OnlyUpgrade

(* The fairness of each module: the event loop goes on with every call, PostgreSQL grants a
   lock that stays free and breaks deadlocks. *)
Goes(c) ==
  \/ part = "rounds" /\ c \in {c1, c2} /\ Rounds!Step(c) /\ OnlyRounds
  \/ part = "payments" /\ c \in {c1, c2, c3} /\ Payments!Step(c) /\ OnlyPayments
  \/ part = "auth" /\ (Auth!Step(c) \/ Auth!AbortVictim(c)) /\ OnlyAuth
  \/ part = "upgrade" /\ c \in {c1, c2, c3} /\ (Upgrade!Step(c) \/ Upgrade!AbortVictim(c)) /\ OnlyUpgrade

Callers == {c1, c2, c3, c4, c5}

Spec == Init /\ [][Next]_vars /\ \A c \in Callers : WF_vars(Goes(c))

-----------------------------------------------------------------------------
(* Every call that was sent is answered: the orders in which rounds lock session, key, wallet
   and house, and payments their wallets, have no cycle that PostgreSQL does not end, and the
   pool always serves somebody. A call is sent once, so in the end no answer is outstanding. *)
Answered == <>[](\A c \in DOMAIN pc : pc[c] \in {"idle", "done"})
=============================================================================
