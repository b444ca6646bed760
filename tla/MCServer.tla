--------------------------------- MODULE MCServer ---------------------------------
(***************************************************************************)
(* A small instance of Server, and of what a server computes with: the     *)
(* games and their certification (SlotGames, GameCertification), and the   *)
(* amounts of requests (AmountTexts). They share no state: a behaviour is  *)
(* about the part that is named so. The others of Server stay in their     *)
(* initial states, so that what each promises is checked as Server states  *)
(* it, and the variables of the rest hold None.                            *)
(***************************************************************************)
EXTENDS Server, Sequences, TLC

CONSTANTS
  q1, q2, q3, k1, k2,      \* of JsonSessionStore: spins and their keys
  c1, c2, c3, s1, s2,      \* of RateLimiter: callers and what they are counted by
  r1, r2, r3, e1, e2,      \* of AuditTrail: calls and their effects
  i1, i2, i3,              \* of Migrations: starts
  g1, g2, g3               \* of GameCertification: games

VARIABLES
  part,
  step,                                                                       \* of both below
  config, played, sticky, awarded, baseWin, bonusWin, drawn, carried, shown,  \* of SlotGames
  offered, adapters, catalog, next, completed, flaws, results, answered,      \* of GameCertification
  text, scale                                                                 \* of AmountTexts

(* Two players behind one address and one behind another. *)
TwoBehindOne == [c \in {c1, c2, c3} |-> IF c = c3 THEN s2 ELSE s1]

(* A request, its retry, and a request for something else. *)
RequestAndRetry == [r \in {r1, r2, r3} |-> IF r = r3 THEN e2 ELSE e1]

(* Starts of an older and of a newer release. *)
OldAndNew == [i \in {i1, i2, i3} |-> IF i = i1 THEN 2 ELSE 3]

-----------------------------------------------------------------------------
(* Games and amounts *)

(* Two regular symbols, a wild that pays more than both, and a scatter. *)
Symbol(id, kind, weight, multiplier) == [id |-> id, kind |-> kind, weight |-> weight, multiplier |-> multiplier]
FourSymbols == <<Symbol("crown", "regular", 2, 3), Symbol("gem", "regular", 3, 2), Symbol("wild", "wild", 1, 4), Symbol("scatter", "scatter", 1, 0)>>
RowsAndDiagonal == <<<<<<1, 1>>, <<1, 2>>>>, <<<<2, 1>>, <<2, 2>>>>, <<<<1, 1>>, <<2, 2>>>>>>
RowsAndZigzag == <<<<<<1, 1>>, <<1, 2>>, <<1, 3>>>>, <<<<2, 1>>, <<2, 2>>, <<2, 3>>>>, <<<<1, 1>>, <<2, 2>>, <<1, 3>>>>>>
TwoThresholds == [n \in {2, 3} |-> n]
OneAndAHalf == [num |-> 3, den |-> 2]
AllConfigurations == [expandingWild : BOOLEAN, stickyWild : BOOLEAN]
PlainStickyOrBoth == {c \in AllConfigurations : c.expandingWild => c.stickyWild}

(* Every grid of the base spin and of two free spins. *)
Rounds == INSTANCE SlotGames WITH
  Symbols <- FourSymbols, Rows <- 2, Reels <- 2, Paylines <- RowsAndDiagonal,
  pc <- step, ScatterPayouts <- TwoThresholds, TriggerCount <- 3, FreeSpins <- 2,
  BonusMultiplier <- OneAndAHalf, Bet <- 25, Configurations <- PlainStickyOrBoth

(* A wider grid, one free spin, with every combination of features. *)
Families == INSTANCE SlotGames WITH
  Symbols <- FourSymbols, Rows <- 2, Reels <- 3, Paylines <- RowsAndZigzag,
  pc <- step, ScatterPayouts <- TwoThresholds, TriggerCount <- 5, FreeSpins <- 1,
  BonusMultiplier <- OneAndAHalf, Bet <- 25, Configurations <- AllConfigurations

(* Every catalog of up to two entries against every registry of up to two adapters. *)
Certified == INSTANCE GameCertification WITH
  pc <- step, failures <- flaws, Ids <- {g1, g2, g3}, Samples <- 2, MaxEntries <- 2

(* Texts of up to three digits after the point, scales up to three. *)
Texts == INSTANCE AmountTexts WITH MaxWhole <- 12, MaxDigits <- 3, MaxScale <- 3

ASSUME Rounds!EngineAssumption /\ Families!EngineAssumption
ASSUME Certified!SamplesAssumption
ASSUME MoneyAssumption /\ BoundsAssumption
ASSUME Limiter!LimiterAssumption /\ Trail!TrailAssumption /\ Migrate!MigrationsAssumption

-----------------------------------------------------------------------------
(* One part at a time *)

limiterVars == <<clock, admitted, events, told>>
trailVars == <<process, starts, call, open, effects, lines, rows, write, waiting>>
migrateVars == <<stage, lock, seen, at, tx, ran, cause>>
serverVars == <<vars, limiterVars, trailVars, migrateVars>>
gameVars == <<config, played, sticky, awarded, baseWin, bonusWin, drawn, carried, shown>>
catalogVars == <<offered, adapters, catalog, next, completed, flaws, results, answered>>
textVars == <<text, scale>>

NoGame ==
  /\ config = None /\ played = None /\ sticky = None /\ awarded = None
  /\ baseWin = None /\ bonusWin = None /\ drawn = None /\ carried = None /\ shown = None
NoCatalog ==
  /\ offered = None /\ adapters = None /\ catalog = None /\ next = None
  /\ completed = None /\ flaws = None /\ results = None /\ answered = None
NoText == text = None /\ scale = None

MCInit ==
  /\ Init /\ Limiter!Init /\ Trail!Init /\ Migrate!Init
  /\ \/ /\ part \in {"playing", "limiting", "telling", "migrating"}
        /\ NoGame /\ NoCatalog /\ NoText /\ step = None
     \/ part = "rounds" /\ Rounds!Init /\ NoCatalog /\ NoText
     \/ part = "families" /\ Families!Init /\ NoCatalog /\ NoText
     \/ part = "certified" /\ Certified!Init /\ NoGame /\ NoText
     \/ part = "texts" /\ Texts!Init /\ NoGame /\ NoCatalog /\ step = None

ServerNext ==
  \/ part = "playing" /\ Next /\ UNCHANGED <<limiterVars, trailVars, migrateVars>>
  \/ part = "limiting" /\ Limiter!Next /\ UNCHANGED <<vars, trailVars, migrateVars>>
  \/ part = "telling" /\ Trail!Next /\ UNCHANGED <<vars, limiterVars, migrateVars>>
  \/ part = "migrating" /\ Migrate!Next /\ UNCHANGED <<vars, limiterVars, trailVars>>

MCNext ==
  /\ \/ ServerNext /\ UNCHANGED <<step, gameVars, catalogVars, textVars>>
     \/ part = "rounds" /\ Rounds!Next /\ UNCHANGED <<serverVars, catalogVars, textVars>>
     \/ part = "families" /\ Families!Next /\ UNCHANGED <<serverVars, catalogVars, textVars>>
     \/ part = "certified" /\ Certified!Next /\ UNCHANGED <<serverVars, gameVars, textVars>>
     \/ part = "texts" /\ Texts!StoreAndShow /\ UNCHANGED <<serverVars, step, gameVars, catalogVars>>
  /\ UNCHANGED part

MCSpec == MCInit /\ [][MCNext]_<<part, serverVars, step, gameVars, catalogVars, textVars>>

(* Bound: three spins for one session while nothing fails, or two for one key while the *)
(* process and the clock have their way, and a write fails or there is a second session. *)
Asked == {r \in Requests : pc[r] # "idle"}
SpinOrRestart ==
  \/ issued <= 1 /\ now = 0 /\ restarts = 0 /\ failures = 0
  \/ /\ Cardinality(Asked) <= 2 /\ (issued <= 1 \/ failures = 0)
     /\ \A r, s \in Asked : ask[r].bet = 1 /\ ask[r].key = ask[s].key

(* No action tells two spins apart. *)
Symmetry == Permutations({q1, q2, q3})

-----------------------------------------------------------------------------
(* Properties; those of Server are checked as it states them *)

(* What a round pays is what the rules of the game say of the grids as they are drawn: it has
   the free spins of its base spin and no others, the wild features never cost a win, and a
   sticky wild goes only where a scatter is drawn. Draws follow the weights, and the two engine
   families agree on grids that both can show. The report on the games names everything there
   is, and one that is in order vouches for every game that can be played. *)
GamesKeepTheRules ==
  /\ part = "rounds" =>
       /\ Rounds!TypeOK /\ Rounds!PaysByTheRules
       /\ Rounds!NoRetrigger /\ Rounds!SticksUnlessScatter
  /\ part = "families" =>
       /\ Families!TypeOK /\ Families!DrawsFollowWeights
       /\ Families!FamiliesAgree /\ Families!WildsNeverCost
  /\ part = "certified" =>
       /\ Certified!TypeOK /\ Certified!ReportIsComplete /\ Certified!CertifiedIsSettleable

(* A text is stored as the units it says, refused exactly when it says no whole number of
   them, and shown as what it was stored as. *)
AmountsAreExact == part = "texts" => Texts!ExactOrRefused /\ Texts!ShowsWhatIsStored
===================================================================================
