------------------------------- MODULE SlotGames -------------------------------
(***************************************************************************)
(* The slot engines: createFeatureSlotEngine with its free spins, wilds and   *)
(* scatters, resolved spin by spin, and the lines of createClassicSlotEngine. *)
(* A grid is drawn cell by cell from the weights; a round is the base spin    *)
(* and the free spins it awards, which carry sticky wilds from one to the     *)
(* next. Money is in hundredths, as roundMoney leaves it.                     *)
(***************************************************************************)
EXTENDS Integers, FiniteSetsExt, SequencesExt

CONSTANTS
  Symbols,        \* sequence of [id, kind, weight, multiplier], at most one wild and one scatter
  Rows, Reels,
  Paylines,       \* sequence of lines, each a sequence of <<row, reel>>
  ScatterPayouts, \* scatter count -> multiplier
  TriggerCount, FreeSpins,
  BonusMultiplier, \* [num, den]
  Bet,            \* in hundredths
  Configurations  \* the wild features, [expandingWild, stickyWild]

Cells == (1 .. Rows) \X (1 .. Reels)
Kind(k) == {s \in Range(Symbols) : s.kind = k}

(* What the factory refuses to build an engine from *)
AssertSymbols ==
  /\ \A s \in Range(Symbols) : s.weight \in Nat \ {0} /\ s.multiplier \in Nat /\ s.kind \in {"regular", "wild", "scatter"}
  /\ IsInjective([i \in DOMAIN Symbols |-> Symbols[i].id])
  /\ Cardinality(Kind("wild")) <= 1 /\ Cardinality(Kind("scatter")) <= 1
AssertPaylines == Paylines # <<>> /\ \A l \in Range(Paylines) : Len(l) = Reels /\ Range(l) \subseteq Cells
NormalizeFreeSpins == TriggerCount \in Nat \ {0} /\ FreeSpins \in 1 .. 50
NormalizeScatterPayouts == \A n \in DOMAIN ScatterPayouts : n \in Nat \ {0} /\ ScatterPayouts[n] \in Nat
AssertFeatures ==
  /\ BonusMultiplier.num > 0 /\ BonusMultiplier.den > 0 /\ Kind("scatter") # {}
  /\ \A c \in Configurations : (c.expandingWild \/ c.stickyWild) => Kind("wild") # {}

EngineAssumption == AssertSymbols /\ AssertPaylines /\ NormalizeFreeSpins /\ NormalizeScatterPayouts /\ AssertFeatures

VARIABLES
  config,   \* the wild features of the engine
  pc,       \* the next spin of the round: base, bonus, or none
  played,   \* free spins played
  sticky,   \* sticky wild positions carried into the next spin
  awarded, baseWin, bonusWin,
  drawn,    \* history: the last grid as it was drawn
  carried,  \* history: the sticky positions that grid was evaluated with
  shown     \* the evaluation of the last grid

vars == <<config, pc, played, sticky, awarded, baseWin, bonusWin, drawn, carried, shown>>

-----------------------------------------------------------------------------

(* Number((n / d).toFixed(2)) for an n in hundredths *)
RoundMoney(n, d) == (2 * n + d) \div (2 * d)
Once == [num |-> 1, den |-> 1]
Sum(seq) == FoldSeq(+, 0, seq)

Wild == CHOOSE s \in Kind("wild") : TRUE
TotalWeight == Sum([i \in DOMAIN Symbols |-> Symbols[i].weight])
Below(i) == Sum([j \in 1 .. i |-> Symbols[j].weight])

PickAtMost(cursor) ==
  LET fits == {i \in DOMAIN Symbols : cursor <= Below(i)} IN Symbols[IF fits = {} THEN Len(Symbols) ELSE Min(fits)]

PickSymbol(cursor) ==
  LET fits == {i \in DOMAIN Symbols : cursor < Below(i)} IN Symbols[IF fits = {} THEN Len(Symbols) ELSE Min(fits)]
Grids == [Cells -> {PickSymbol(cursor) : cursor \in 0 .. TotalWeight - 1}]

StickEverywhere(grid, positions) ==
  IF ~config.stickyWild THEN grid ELSE [c \in Cells |-> IF c \in positions THEN Wild ELSE grid[c]]

ApplyStickyWilds(grid, positions) ==
  IF ~config.stickyWild THEN grid
  ELSE [c \in Cells |-> IF c \in positions /\ grid[c].kind # "scatter" THEN Wild ELSE grid[c]]

ApplyExpandingWilds(grid) ==
  IF ~config.expandingWild THEN grid
  ELSE LET HasWild(reel) == \E row \in 1 .. Rows : grid[row, reel].kind = "wild" IN
       [c \in Cells |-> IF HasWild(c[2]) /\ grid[c].kind # "scatter" THEN Wild ELSE grid[c]]

PositionsFromZero(grid) == IF config.stickyWild THEN {<<c[1] - 1, c[2] - 1>> : c \in {d \in Cells : grid[d].kind = "wild"}} ELSE {}

WildPositions(grid) == IF config.stickyWild THEN {c \in Cells : grid[c].kind = "wild"} ELSE {}

FirstOf(line, grid) == grid[line[1]]

(* A line wins with its first symbol that is not wild, or wild, if all the others match it. *)
Target(line, grid) ==
  LET plain == {i \in DOMAIN line : grid[line[i]].kind # "wild"} IN IF plain = {} THEN Wild ELSE grid[line[Min(plain)]]

AllButTheLast(line, grid) == \A i \in 1 .. Len(line) - 1 : grid[line[i]].kind # "scatter" /\ grid[line[i]].id = Target(line, grid).id

LineWins(line, grid) ==
  /\ \A i \in DOMAIN line : grid[line[i]].kind # "scatter"
  /\ \A i \in DOMAIN line : grid[line[i]].kind = "wild" \/ grid[line[i]].id = Target(line, grid).id
LinePayouts(grid, by) ==
  [l \in DOMAIN Paylines |->
     IF LineWins(Paylines[l], grid) THEN RoundMoney(Bet * Target(Paylines[l], grid).multiplier * by.num, by.den) ELSE 0]

ScatterMultiplierFor(count) ==
  LET reached == {n \in DOMAIN ScatterPayouts : n <= count} IN IF reached = {} THEN 0 ELSE ScatterPayouts[Max(reached)]
ScatterCount(grid) == Cardinality({c \in Cells : grid[c].kind = "scatter"})

EvaluateForgetful(grid, by, positions) ==
  LET processed == ApplyExpandingWilds(ApplyStickyWilds(grid, positions)) IN
  [grid |-> processed,
   scatters |-> ScatterCount(grid),
   totalWin |-> Sum(LinePayouts(processed, by)) + RoundMoney(Bet * ScatterMultiplierFor(ScatterCount(grid)) * by.num, by.den),
   sticky |-> WildPositions(grid)]

EvaluateGrid(grid, by, positions) ==
  LET processed == ApplyExpandingWilds(ApplyStickyWilds(grid, positions)) IN
  [grid |-> processed,
   scatters |-> ScatterCount(grid),
   totalWin |-> Sum(LinePayouts(processed, by)) + RoundMoney(Bet * ScatterMultiplierFor(ScatterCount(grid)) * by.num, by.den),
   sticky |-> WildPositions(processed)]

(* classicSlotEngine.js: all symbols of a line are the same, and there are no others than regular ones. *)
ClassicWin(grid) ==
  Sum([l \in DOMAIN Paylines |->
         LET first == grid[Paylines[l][1]] IN
         IF \A i \in DOMAIN Paylines[l] : grid[Paylines[l][i]].id = first.id THEN Bet * first.multiplier ELSE 0])

-----------------------------------------------------------------------------
(* resolve *)

ResolveBase ==
  /\ pc = "base"
  /\ \E grid \in Grids :
       LET base == EvaluateGrid(grid, Once, {}) IN
       /\ drawn' = grid /\ shown' = base /\ carried' = {}
       /\ baseWin' = base.totalWin
       /\ awarded' = IF base.scatters >= TriggerCount THEN FreeSpins ELSE 0
       /\ pc' = IF awarded' > 0 THEN "bonus" ELSE "done"
  /\ UNCHANGED <<config, played, sticky, bonusWin>>

ResolveBonusRetriggered ==
  /\ pc = "bonus"
  /\ \E grid \in Grids :
       LET bonus == EvaluateGrid(grid, BonusMultiplier, sticky) IN
       /\ drawn' = grid /\ shown' = bonus /\ carried' = sticky
       /\ bonusWin' = bonusWin + bonus.totalWin
       /\ sticky' = bonus.sticky
       /\ played' = played + 1
       /\ pc' = IF played' >= awarded /\ bonus.scatters < TriggerCount THEN "done" ELSE "bonus"
       /\ played < FreeSpins + 1
  /\ UNCHANGED <<config, awarded, baseWin>>

ResolveBonus ==
  /\ pc = "bonus"
  /\ \E grid \in Grids :
       LET bonus == EvaluateGrid(grid, BonusMultiplier, sticky) IN
       /\ drawn' = grid /\ shown' = bonus /\ carried' = sticky
       /\ bonusWin' = bonusWin + bonus.totalWin
       /\ sticky' = bonus.sticky
       /\ played' = played + 1
       /\ pc' = IF played' = awarded THEN "done" ELSE "bonus"
  /\ UNCHANGED <<config, awarded, baseWin>>

Init ==
  /\ config \in Configurations /\ pc = "base"
  /\ played = 0 /\ sticky = {} /\ awarded = 0 /\ baseWin = 0 /\ bonusWin = 0 /\ carried = {}
  /\ drawn = [c \in Cells |-> Symbols[1]]
  /\ shown = [grid |-> drawn, scatters |-> 0, totalWin |-> 0, sticky |-> {}]
Next == ResolveBase \/ ResolveBonus
Spec == Init /\ [][Next]_vars

-----------------------------------------------------------------------------
(* Properties *)

Multiplier == IF carried # {} \/ played > 0 THEN BonusMultiplier ELSE Once

TypeOK ==
  /\ config \in Configurations /\ pc \in {"base", "bonus", "done"}
  /\ played \in Nat /\ awarded \in {0, FreeSpins} /\ sticky \subseteq Cells
  /\ baseWin \in Nat /\ bonusWin \in Nat
  /\ drawn \in [Cells -> Range(Symbols)] /\ shown.grid \in [Cells -> Range(Symbols)]

(* What a spin pays is what the rules of the game say: a line pays the best symbol that its
   cells can all stand for, a scatter never stands for anything, and wilds stick and expand
   around scatters. *)
PaysByTheRules ==
  LET regular(c) == drawn[c].kind # "scatter"
      stuck(c) == drawn[c].kind = "wild" \/ (config.stickyWild /\ c \in carried /\ regular(c))
      wild(c) == regular(c) /\ (stuck(c) \/ (config.expandingWild /\ \E row \in 1 .. Rows : stuck(<<row, c[2]>>)))
      stands(c, s) == regular(c) /\ (wild(c) \/ drawn[c].id = s.id)
      best(line) == Max({0} \cup {s.multiplier : s \in {t \in Range(Symbols) : t.kind # "scatter" /\ \A c \in Range(line) : stands(c, t)}})
      pay(m) == RoundMoney(Bet * m * Multiplier.num, Multiplier.den)
      scatters == Cardinality({c \in Cells : ~regular(c)})
      scatterPay == Max({0} \cup {ScatterPayouts[n] : n \in {k \in DOMAIN ScatterPayouts : k <= scatters}})
  IN  pc # "base" => shown.totalWin = Sum([l \in DOMAIN Paylines |-> pay(best(Paylines[l]))]) + pay(scatterPay)

(* The wild features never cost a win that the grid as drawn would have paid. *)
WildsNeverCost ==
  pc # "base" => shown.totalWin >=
    Sum(LinePayouts(drawn, Multiplier)) + RoundMoney(Bet * ScatterMultiplierFor(ScatterCount(drawn)) * Multiplier.num, Multiplier.den)

(* The two engine families agree on grids that both can show. *)
FamiliesAgree ==
  pc # "base" /\ played = 0 /\ (\A c \in Cells : drawn[c].kind = "regular") => shown.totalWin = ClassicWin(drawn)

(* A symbol is drawn for as many of the cursor's values as its weight says. *)
DrawsFollowWeights ==
  pc = "base" => \A i \in DOMAIN Symbols : Cardinality({cursor \in 0 .. TotalWeight - 1 : PickSymbol(cursor) = Symbols[i]}) = Symbols[i].weight

(* A round has the free spins of its base spin and no others, whatever the free spins show. *)
NoRetrigger == pc = "done" => played = awarded

(* A sticky wild goes only where a scatter is drawn on it. *)
SticksUnlessScatter ==
  pc # "base" /\ config.stickyWild => \A c \in carried \ sticky : drawn[c].kind = "scatter"
=============================================================================
