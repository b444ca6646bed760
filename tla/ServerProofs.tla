------------------------------ MODULE ServerProofs ------------------------------
(*****************************************************************************)
(* Safety of Server, of each of its parts under its own specification: the   *)
(* sessions and rounds of the JSON store, for any number of requests,        *)
(* sessions, restarts and failing writes; the sliding windows, for any       *)
(* callers, limit and window; the audit trail, of which an orderly exit      *)
(* loses nothing; the migrations, for any starts and releases.               *)
(*****************************************************************************)
EXTENDS Server, Sequences, AmountsProofs

-----------------------------------------------------------------------------
(* The sessions and rounds of the JSON store.  The invariant explains every  *)
(* row, in memory and in the file, by rounds of its chain (MapOK).           *)

Counters == restarts \in 0..MaxRestarts /\ failures \in Nat

(* A request has asked for a session there has been, and has no answer before it is done. *)
RequestsOK ==
  \A r \in Requests :
    /\ pc[r] # "idle" => ask[r].session \in 1..issued
    /\ pc[r] # "done" => answer[r] = NoAnswer

(* A chain starts with a session that was issued; an id that was not is its own root. *)
RootsOK ==
  \A i \in Ids : /\ i \in 1..issued => root[i] \in 1..issued
                 /\ i \notin 1..issued => root[i] = i

(* A request settles one round, and is done with it. *)
SettledOK ==
  /\ IsFiniteSet(settled)
  /\ \A s \in settled : /\ s.round.owner \in 1..issued /\ s.life <= restarts
                        /\ pc[s.round.by] = "done"
  /\ \A s, t \in settled : s.round.by = t.round.by => s = t

(* The rounds in memory are those of this life of the process. *)
RoundsOfThisLife ==
  /\ \A x \in rounds : \E s \in settled : s.life = restarts /\ s.round = x
  /\ \A s \in settled : s.life = restarts => s.round \in rounds

(* What is kept of a chain is one row, with the age of its first session, that its rounds *)
(* explain.                                                                               *)
MapOK(f) ==
  /\ DOMAIN f \subseteq 1..issued
  /\ \A i \in DOMAIN f : /\ f[i] \in Row
                         /\ f[i].created = born[root[i]]
                         /\ Explained(i, f[i])
  /\ \A i, j \in DOMAIN f : root[i] = root[j] => i = j

(* The inductive invariant. *)
Inv ==
  /\ MoneyAssumption /\ BoundsAssumption
  /\ TypeOK
  /\ Counters
  /\ RequestsOK
  /\ RootsOK
  /\ SettledOK
  /\ RoundsOfThisLife
  /\ MapOK(sessions)
  /\ MapOK(disk)
  /\ OneRoundPerOwnerKey
  /\ ChainDeadline

-----------------------------------------------------------------------------
(* Maps *)

(* Setting a key of a map. *)
LEMMA Puts ==
  ASSUME NEW f, NEW i, NEW row
  PROVE  /\ DOMAIN With(f, i, row) = DOMAIN f \cup {i}
         /\ With(f, i, row)[i] = row
         /\ \A j \in DOMAIN f \ {i} : With(f, i, row)[j] = f[j]
BY DEF With

(* Deleting one. *)
LEMMA Drops ==
  ASSUME NEW f, NEW i
  PROVE  /\ DOMAIN Without(f, i) = DOMAIN f \ {i}
         /\ \A j \in DOMAIN f \ {i} : Without(f, i)[j] = f[j]
BY DEF Without

(* The bounds are numbers, and what is issued is an id. *)
LEMMA Numbers ==
  ASSUME Inv
  PROVE  /\ MaxSessions \in Nat \ {0} /\ MaxTime \in Nat /\ MaxRestarts \in Nat
         /\ IdleTtl \in Nat /\ AbsoluteTtl \in Nat /\ MaxFailures \in Nat
         /\ issued \in Nat /\ now \in Nat /\ restarts \in Nat /\ 1..issued \subseteq Ids
BY DEF Inv, BoundsAssumption, TypeOK, Counters, Ids

(* Columns of a row that a statement does not set. *)
LEMMA RowColumns ==
  ASSUME Inv, NEW row \in Row
  PROVE  /\ Touch(row) \in Row /\ RotatedRow(row) \in Row
         /\ Touch(row).balance = row.balance /\ RotatedRow(row).balance = row.balance
         /\ Touch(row).spins = row.spins /\ RotatedRow(row).spins = row.spins
         /\ Touch(row).created = row.created /\ RotatedRow(row).created = row.created
BY DEF Touch, RotatedRow, Row, Inv, TypeOK

-----------------------------------------------------------------------------
(* What the rounds of a chain explain *)

(* A step that acknowledges no round, whatever it settles. *)
Calm ==
  /\ settled \subseteq settled' /\ issued \in 0..MaxSessions /\ issued' \in issued..MaxSessions
  /\ \A i \in 1..issued : root'[i] = root[i] /\ born'[i] = born[i]
  /\ \A r \in Requests : answer'[r].kind = "settled" => answer'[r] = answer[r]
  /\ \A s \in settled' \ settled : \A r \in Requests :
       answer[r] # [kind |-> "settled", round |-> s.round]

(* A row that keeps balance and count stays explained, under an id of the same chain. *)
LEMMA StaysExplained ==
  ASSUME Inv, Calm, NEW i \in 1..issued, NEW j, root'[j] = root[i], NEW row, NEW new,
         new.balance = row.balance, new.spins = row.spins, Explained(i, row)
  PROVE  Explained(j, new)'
<1>1. PICK T \in SUBSET Chain(i) : /\ Acknowledged(i) \subseteq T
                                   /\ Cardinality(T) = row.spins
                                   /\ row.balance = StartingBalance + Net(T)
  BY DEF Explained
<1>2. T \in SUBSET Chain(j)'
  BY <1>1 DEF Chain, Calm, Inv, SettledOK
<1>3. Acknowledged(j)' \subseteq T
  <2> SUFFICES ASSUME NEW s \in Acknowledged(j)' PROVE s \in T
    OBVIOUS
  <2>1. PICK r \in Requests : answer'[r] = [kind |-> "settled", round |-> s.round]
    BY DEF Acknowledged
  <2>2. answer[r] = [kind |-> "settled", round |-> s.round]
    BY <2>1 DEF Calm
  <2>3. s \in settled /\ root'[s.round.owner] = root[i]
    BY <2>2 DEF Acknowledged, Chain, Calm
  <2>4. s \in Acknowledged(i)
    BY <2>2, <2>3 DEF Acknowledged, Chain, Calm, Inv, SettledOK
  <2> QED
    BY <1>1, <2>4
<1>4. Net(T)' = Net(T)
  BY DEF Net
<1> QED
  BY <1>1, <1>2, <1>3, <1>4 DEF Explained

(* Rows taken over from a map that is in order make one. *)
LEMMA SessionsFrom ==
  ASSUME Inv, Calm, NEW f, MapOK(f), DOMAIN sessions' \subseteq DOMAIN f,
         \A i \in DOMAIN sessions' : /\ sessions'[i] \in Row
                                     /\ sessions'[i].balance = f[i].balance
                                     /\ sessions'[i].spins = f[i].spins
                                     /\ sessions'[i].created = f[i].created
  PROVE  MapOK(sessions)'
<1>1. DOMAIN f \subseteq 1..issued /\ 1..issued \subseteq 1..issued'
  BY DEF MapOK, Calm
<1>2. \A i \in DOMAIN sessions' : root'[i] = root[i] /\ root[i] \in 1..issued
  BY <1>1, Numbers DEF Calm, Inv, RootsOK
<1>3. ASSUME NEW i \in DOMAIN sessions' PROVE Explained(i, sessions[i])'
  <2>1. Explained(i, f[i])
    BY <1>3 DEF MapOK
  <2> QED
    BY <1>1, <1>2, <1>3, <2>1, StaysExplained
<1>4. \A i \in DOMAIN sessions' : sessions'[i].created = born'[root'[i]]
  BY <1>1, <1>2 DEF MapOK, Calm
<1> QED
  BY <1>1, <1>2, <1>3, <1>4 DEF MapOK

(* The file stays in order while it is not written. *)
LEMMA DiskStays ==
  ASSUME Inv, Calm, disk' = disk
  PROVE  MapOK(disk)'
<1>1. DOMAIN disk \subseteq 1..issued /\ 1..issued \subseteq 1..issued'
  BY DEF Inv, MapOK, Calm
<1>2. \A i \in DOMAIN disk : root'[i] = root[i] /\ root[i] \in 1..issued
  BY <1>1, Numbers DEF Calm, Inv, RootsOK
<1>3. ASSUME NEW i \in DOMAIN disk PROVE Explained(i, disk[i])'
  <2>1. Explained(i, disk[i])
    BY <1>3 DEF Inv, MapOK
  <2> QED
    BY <1>1, <1>2, <1>3, <2>1, StaysExplained
<1>4. \A i \in DOMAIN disk : disk[i].created = born'[root'[i]]
  BY <1>1, <1>2 DEF Inv, MapOK, Calm
<1> QED
  BY <1>1, <1>2, <1>3, <1>4 DEF Inv, MapOK

(* A write leaves the file as it was or like the map. *)
LEMMA Written ==
  ASSUME Inv, MapOK(sessions)', disk' = sessions' \/ (disk' = disk /\ Calm)
  PROVE  MapOK(disk)'
<1>1. CASE disk' = sessions'
  BY <1>1 DEF MapOK
<1>2. CASE disk' = disk /\ Calm
  BY <1>2, DiskStays
<1> QED
  BY <1>1, <1>2

(* The net of one more round. *)
LEMMA NetAdd ==
  ASSUME NEW T, IsFiniteSet(T), NEW e, e \notin T,
         \A x \in T \cup {e} : x.round.payout \in Int /\ x.round.bet \in Int
  PROVE  Net(T \cup {e}) = Net(T) + e.round.payout - e.round.bet /\ Net(T) \in Int
<1> DEFINE f == [x \in T \cup {e} |-> x.round.payout - x.round.bet]
           g == [x \in T |-> x.round.payout - x.round.bet]
<1>1. \A x \in T \cup {e} : f[x] \in Int
  OBVIOUS
<1>2. SumFunctionOnSet(f, T \cup {e}) = f[e] + SumFunctionOnSet(f, T)
  BY <1>1, SumAdd
<1>3. SumFunctionOnSet(f, T) = SumFunctionOnSet(g, T)
  <2>1. \A x \in T : f[x] = g[x]
    OBVIOUS
  <2> HIDE DEF f, g
  <2> QED
    BY <2>1, SumSame
<1>4. SumFunctionOnSet(g, T) \in Int
  <2>1. \A x \in T : g[x] \in Int
    OBVIOUS
  <2> HIDE DEF g
  <2> QED
    BY <2>1, SumInt
<1>5. Net(T \cup {e}) = SumFunctionOnSet(f, T \cup {e}) /\ Net(T) = SumFunctionOnSet(g, T)
  BY DEF Net
<1>6. f[e] = e.round.payout - e.round.bet /\ f[e] \in Int
  OBVIOUS
<1> HIDE DEF f, g
<1>7. e.round.payout \in Int /\ e.round.bet \in Int
  OBVIOUS
<1> QED
  BY <1>2, <1>3, <1>4, <1>5, <1>6, <1>7

-----------------------------------------------------------------------------
(* What a step of a request can do *)

(* The step of applySpin that settles a round. *)
Settles(r, ok) ==
  /\ Apply(r, ok) /\ Finds(ask[r].session) /\ Kept(r) = {}
  /\ sessions' = With(sessions, ask[r].session, Played(r, sessions[ask[r].session]))
  /\ rounds' = rounds \cup {RoundOf(r)}
  /\ settled' = settled \cup {[round |-> RoundOf(r), life |-> restarts, at |-> now]}
  /\ Save(ok)
  /\ IF ok THEN Answer(r, [kind |-> "settled", round |-> RoundOf(r)]) ELSE Fail(r)

Unsettled == {"missing", "conflict", "refused", "changed", "failed"}

(* An answer of a step that settles nothing is a refusal or a round that is kept. *)
Tells(r, a) ==
  \/ \E kind \in Unsettled : a = [kind |-> kind]
  \/ \E x \in rounds : x.bet = ask[r].bet /\ a = [kind |-> "replayed", round |-> x]

(* The request goes on, or is answered. *)
GoesOn(r) ==
  \/ answer' = answer /\ \E to \in {"lookup", "draw", "apply"} : pc' = [pc EXCEPT ![r] = to]
  \/ \E a : Tells(r, a) /\ answer' = [answer EXCEPT ![r] = a] /\ pc' = [pc EXCEPT ![r] = "done"]

(* The map loses a session, or one of its sessions is touched. *)
Looks ==
  \/ sessions' = sessions
  \/ \E i \in DOMAIN sessions : \/ sessions' = With(sessions, i, Touch(sessions[i]))
                                \/ sessions' = Without(sessions, i)

(* Writing the file. *)
LEMMA Writes ==
  ASSUME Inv, NEW ok \in BOOLEAN, Save(ok)
  PROVE  (disk' = disk \/ disk' = sessions') /\ failures' \in Nat
BY DEF Save, Inv, Counters

(* What an expired session leaves. *)
LEMMA Expires ==
  ASSUME Inv, NEW i, NEW ok \in BOOLEAN, DropExpired(i, ok)
  PROVE  Looks /\ (disk' = disk \/ disk' = sessions') /\ failures' \in Nat
BY Writes DEF DropExpired, Has, Looks

(* A step of a request that settles nothing. *)
LEMMA Steps ==
  ASSUME Inv, NEW r \in Requests, NEW ok \in BOOLEAN, Step(r, ok), ~Settles(r, ok)
  PROVE  /\ UNCHANGED <<rounds, settled, ask, issued, root, born, restarts, now>>
         /\ pc[r] \in {"get", "lookup", "draw", "apply"} /\ GoesOn(r) /\ Looks
         /\ disk' = disk \/ disk' = sessions'
         /\ failures' \in Nat
         /\ balance' \in [Requests -> Int] /\ payout' \in [Requests -> Payouts]
<1>0. failures \in Nat /\ balance \in [Requests -> Int] /\ payout \in [Requests -> Payouts]
  BY DEF Inv, TypeOK, Counters
<1>1. ASSUME NEW kind \in Unsettled, Answer(r, [kind |-> kind]) PROVE GoesOn(r)
  BY <1>1 DEF Answer, GoesOn, Tells
<1>2. Fail(r) => GoesOn(r)
  BY <1>1 DEF Fail, Unsettled
<1>3. ASSUME NEW x \in Kept(r), ReplyKept(r, x) PROVE GoesOn(r)
  <2>1. x \in rounds
    BY DEF Kept
  <2> QED
    BY <1>1, <1>3, <2>1 DEF ReplyKept, Answer, GoesOn, Tells, Unsettled
<1>4. ASSUME NEW to \in {"lookup", "draw", "apply"}, Goto(r, to) PROVE GoesOn(r)
  BY <1>4 DEF Goto, GoesOn
<1>5. CASE GetSession(r, ok)
  <2>1. GoesOn(r)
    BY <1>1, <1>2, <1>4, <1>5 DEF GetSession, Unsettled
  <2>2. Looks /\ (disk' = disk \/ disk' = sessions') /\ failures' \in Nat
    BY <1>0, <1>5, Expires, Writes DEF GetSession, Finds, Has, Looks, NoSave
  <2>3. balance' \in [Requests -> Int]
    <3>1. Finds(ask[r].session) => sessions[ask[r].session].balance \in Int
      BY DEF Finds, Has, Inv, TypeOK, Row
    <3> QED
      BY <1>0, <1>5, <3>1 DEF GetSession
  <2> QED
    BY <1>0, <1>5, <2>1, <2>2, <2>3 DEF GetSession
<1>6. CASE Lookup(r)
  <2>1. GoesOn(r)
    BY <1>1, <1>3, <1>4, <1>6 DEF Lookup, Unsettled
  <2> QED
    BY <1>0, <1>6, <2>1 DEF Lookup, Looks, mapVars, historyVars
<1>7. CASE Draw(r)
  <2>1. GoesOn(r)
    BY <1>2, <1>4, <1>7 DEF Draw
  <2> QED
    BY <1>0, <1>7, <2>1 DEF Draw, Looks, mapVars, historyVars
<1>8. CASE Apply(r, ok)
  <2>0. pc[r] = "apply" /\ UNCHANGED <<ask, balance, payout, issued, root, born, restarts, now>>
    BY <1>8 DEF Apply
  <2>1. CASE /\ \E x \in Kept(r) : ReplyKept(r, x)
             /\ NoSave /\ UNCHANGED <<sessions, rounds, settled>>
    BY <1>0, <1>3, <2>0, <2>1 DEF NoSave, Looks
  <2>2. CASE /\ DropExpired(ask[r].session, ok)
             /\ IF ok THEN Answer(r, [kind |-> "changed"]) ELSE Fail(r)
             /\ UNCHANGED <<rounds, settled>>
    BY <1>0, <1>1, <1>2, <2>0, <2>2, Expires DEF Unsettled
  <2>3. CASE /\ Answer(r, [kind |-> "changed"])
             /\ NoSave /\ UNCHANGED <<sessions, rounds, settled>>
    BY <1>0, <1>1, <2>0, <2>3 DEF NoSave, Looks, Unsettled
  <2> QED
    BY <1>8, <2>1, <2>2, <2>3 DEF Apply, Settles, KeptByApply, SaveRound
<1> QED
  BY <1>5, <1>6, <1>7, <1>8 DEF Step

(* A map that is looked at is in order. *)
LEMMA LooksOK ==
  ASSUME Inv, Calm, Looks
  PROVE  MapOK(sessions)'
<1>1. \A i \in DOMAIN sessions : sessions[i] \in Row
  BY DEF Inv, MapOK
<1>2. MapOK(sessions)
  BY DEF Inv
<1>3. CASE sessions' = sessions
  BY <1>1, <1>2, <1>3, SessionsFrom
<1>4. ASSUME NEW i \in DOMAIN sessions, sessions' = With(sessions, i, Touch(sessions[i]))
      PROVE  MapOK(sessions)'
  <2>1. /\ Touch(sessions[i]) \in Row /\ Touch(sessions[i]).balance = sessions[i].balance
        /\ Touch(sessions[i]).spins = sessions[i].spins
        /\ Touch(sessions[i]).created = sessions[i].created
    BY <1>1, RowColumns
  <2>2. /\ DOMAIN sessions' = DOMAIN sessions /\ sessions'[i] = Touch(sessions[i])
        /\ \A j \in DOMAIN sessions \ {i} : sessions'[j] = sessions[j]
    BY <1>4, Puts
  <2> QED
    BY <1>1, <1>2, <2>1, <2>2, SessionsFrom
<1>5. ASSUME NEW i \in DOMAIN sessions, sessions' = Without(sessions, i)
      PROVE  MapOK(sessions)'
  <2>1. /\ DOMAIN sessions' = DOMAIN sessions \ {i}
        /\ \A j \in DOMAIN sessions \ {i} : sessions'[j] = sessions[j]
    BY <1>5, Drops
  <2> QED
    BY <1>1, <1>2, <2>1, SessionsFrom
<1> QED
  BY <1>3, <1>4, <1>5 DEF Looks

(* The settled rounds and those in memory, while no round is settled. *)
OncePerLife ==
  \A s, t \in settled :
    (s.life = t.life /\ s.round.owner = t.round.owner /\ s.round.key = t.round.key) => s = t
ToldOK ==
  \A r \in Requests : Told(r) =>
    /\ \E s \in settled : s.round = answer[r].round
    /\ answer[r].round.bet = ask[r].bet

(* A step that settles nothing leaves the rounds and their history in order. *)
LEMMA HistoryStays ==
  ASSUME Inv, UNCHANGED <<settled, rounds, restarts>>, issued' \in issued..MaxSessions,
         \A i \in 1..issued : root'[i] = root[i] /\ born'[i] = born[i],
         \A r \in Requests : pc[r] = "done" => pc'[r] = "done"
  PROVE  SettledOK' /\ RoundsOfThisLife' /\ OncePerLife' /\ ChainDeadline'
<1>1. 1..issued \subseteq 1..issued' /\ 1..issued \subseteq Ids
  BY Numbers
<1>2. SettledOK'
  <2>1. \A s \in settled : s.round.by \in Requests
    BY DEF Inv, TypeOK, Round
  <2> QED
    BY <1>1, <2>1 DEF Inv, SettledOK
<1>3. RoundsOfThisLife' /\ OncePerLife'
  BY DEF Inv, RoundsOfThisLife, OncePerLife, OneRoundPerOwnerKey
<1>4. ChainDeadline'
  <2>1. \A s \in settled : s.round.owner \in 1..issued /\ root[s.round.owner] \in 1..issued
    BY <1>1 DEF Inv, SettledOK, RootsOK
  <2> QED
    BY <2>1 DEF Inv, ChainDeadline
<1> QED
  BY <1>2, <1>3, <1>4

-----------------------------------------------------------------------------
(* Every action keeps the invariant *)

(* What the clients were told is kept when nobody is answered. *)
LEMMA NobodyAnswered ==
  ASSUME Inv, UNCHANGED answer, settled \subseteq settled',
         \A r \in Requests : Told(r) => ask'[r] = ask[r]
  PROVE  ToldOK'
BY DEF Inv, OneRoundPerOwnerKey, ToldOK, Told

(* A request that goes on, or is refused, or is told what was kept. *)
LEMMA StepInv ==
  ASSUME Inv, NEW r \in Requests, NEW ok \in BOOLEAN, Step(r, ok), ~Settles(r, ok)
  PROVE  Inv'
<1>1. /\ UNCHANGED <<rounds, settled, ask, issued, root, born, restarts, now>>
      /\ pc[r] \in {"get", "lookup", "draw", "apply"} /\ GoesOn(r) /\ Looks
      /\ disk' = disk \/ disk' = sessions'
      /\ failures' \in Nat
      /\ balance' \in [Requests -> Int] /\ payout' \in [Requests -> Payouts]
  BY Steps
<1>2. issued' \in issued..MaxSessions /\ issued \in 0..MaxSessions
  BY <1>1, Numbers DEF Inv, TypeOK
<1>3. PICK a : \/ answer' = answer
               \/ /\ Tells(r, a) /\ answer' = [answer EXCEPT ![r] = a]
                  /\ pc' = [pc EXCEPT ![r] = "done"]
  BY <1>1 DEF GoesOn
<1>4. /\ \A q \in Requests \ {r} : answer'[q] = answer[q] /\ pc'[q] = pc[q]
      /\ answer'[r] = answer[r] \/ (answer'[r] = a /\ Tells(r, a))
      /\ pc'[r] \in {"lookup", "draw", "apply", "done"}
      /\ pc'[r] # "done" => answer'[r] = answer[r]
      /\ pc' \in [Requests -> {"idle", "get", "lookup", "draw", "apply", "done"}]
  BY <1>1, <1>3 DEF GoesOn, Inv, TypeOK
<1>5. Tells(r, a) => /\ a \in Answers /\ a.kind # "settled"
                     /\ a.kind = "replayed" => a.round \in rounds /\ a.round.bet = ask[r].bet
  BY DEF Tells, Unsettled, Answers, Inv, TypeOK
<1>6. Calm
  <2>1. \A q \in Requests : answer'[q].kind = "settled" => answer'[q] = answer[q]
    BY <1>4, <1>5
  <2> QED
    BY <1>1, <1>2, <2>1 DEF Calm
<1>7. MapOK(sessions)' /\ MapOK(disk)'
  BY <1>1, <1>6, LooksOK, Written
<1>8. TypeOK'
  <2>1. answer' \in [Requests -> Answers]
    BY <1>3, <1>5 DEF Inv, TypeOK
  <2> QED
    BY <1>1, <1>4, <1>7, <2>1 DEF MapOK, Inv, TypeOK
<1>9. RequestsOK' /\ RootsOK' /\ Counters'
  BY <1>1, <1>4 DEF Inv, RequestsOK, RootsOK, Counters
<1>10. SettledOK' /\ RoundsOfThisLife' /\ OncePerLife' /\ ChainDeadline'
  <2>1. \A q \in Requests : pc[q] = "done" => pc'[q] = "done"
    BY <1>1, <1>4
  <2> QED
    BY <1>1, <1>2, <2>1, HistoryStays
<1>11. ToldOK'
  <2> SUFFICES ASSUME NEW q \in Requests, Told(q)'
               PROVE  /\ \E s \in settled : s.round = answer'[q].round
                      /\ answer'[q].round.bet = ask[q].bet
    BY <1>1 DEF ToldOK
  <2>1. CASE answer'[q] = answer[q]
    BY <2>1 DEF Told, Inv, OneRoundPerOwnerKey
  <2>2. CASE q = r /\ answer'[r] = a /\ Tells(r, a)
    <3>1. a.kind = "replayed"
      BY <1>5, <2>2 DEF Told
    <3> QED
      BY <1>5, <2>2, <3>1 DEF Inv, RoundsOfThisLife
  <2> QED
    BY <1>4, <2>1, <2>2
<1> QED
  BY <1>7, <1>8, <1>9, <1>10, <1>11 DEF Inv, OncePerLife, ToldOK, OneRoundPerOwnerKey

(* Asking for a spin. *)
LEMMA SendInv ==
  ASSUME Inv, NEW r \in Requests, Send(r)
  PROVE  Inv'
<1>1. PICK a \in [session : 1..issued, key : Keys, bet : Bets] : ask' = [ask EXCEPT ![r] = a]
  BY DEF Send
<1>2. /\ pc[r] = "idle" /\ pc' = [pc EXCEPT ![r] = "get"] /\ ask'[r] = a
      /\ UNCHANGED <<sessions, rounds, disk, answer, balance, payout, now>>
      /\ UNCHANGED <<settled, issued, root, born, restarts, failures>>
  BY <1>1 DEF Send, Goto, mapVars, historyVars, Inv, TypeOK
<1>3. issued' \in issued..MaxSessions /\ issued \in 0..MaxSessions
  BY <1>2, Numbers DEF Inv, TypeOK
<1>4. Calm
  BY <1>2, <1>3 DEF Calm
<1>5. MapOK(sessions)' /\ MapOK(disk)'
  BY <1>2, <1>4, LooksOK, Written DEF Looks
<1>6. TypeOK'
  <2>1. a \in Ask
    BY Numbers DEF Ask
  <2> QED
    BY <1>1, <1>2, <2>1 DEF Inv, TypeOK
<1>7. RequestsOK' /\ RootsOK' /\ Counters'
  BY <1>1, <1>2 DEF Inv, RequestsOK, RootsOK, Counters, TypeOK
<1>8. SettledOK' /\ RoundsOfThisLife' /\ OncePerLife' /\ ChainDeadline'
  <2>1. \A q \in Requests : pc[q] = "done" => pc'[q] = "done"
    BY <1>2 DEF Inv, TypeOK
  <2> QED
    BY <1>2, <1>3, <2>1, HistoryStays
<1>9. ToldOK'
  <2>1. ~Told(r)
    BY <1>2 DEF Told, Inv, RequestsOK, NoAnswer
  <2>2. \A q \in Requests : Told(q) => ask'[q] = ask[q]
    BY <1>1, <2>1 DEF Inv, TypeOK
  <2> QED
    BY <1>2, <2>2, NobodyAnswered
<1> QED
  BY <1>5, <1>6, <1>7, <1>8, <1>9 DEF Inv, OncePerLife, ToldOK, OneRoundPerOwnerKey

(* Time passes. *)
LEMMA TickInv ==
  ASSUME Inv, Tick
  PROVE  Inv'
<1>1. /\ UNCHANGED <<sessions, rounds, disk, pc, ask, balance, payout, answer>>
      /\ UNCHANGED <<settled, issued, root, born, restarts, failures>>
      /\ now' \in 0..MaxTime
  BY Numbers DEF Tick, mapVars, callVars, historyVars, Inv, TypeOK
<1>2. issued' \in issued..MaxSessions /\ issued \in 0..MaxSessions
  BY <1>1, Numbers DEF Inv, TypeOK
<1>3. Calm
  BY <1>1, <1>2 DEF Calm
<1>4. MapOK(sessions)' /\ MapOK(disk)'
  BY <1>1, <1>3, LooksOK, Written DEF Looks
<1>5. TypeOK' /\ RequestsOK' /\ RootsOK' /\ Counters'
  BY <1>1 DEF Inv, TypeOK, RequestsOK, RootsOK, Counters
<1>6. SettledOK' /\ RoundsOfThisLife' /\ OncePerLife' /\ ChainDeadline' /\ ToldOK'
  BY <1>1, <1>2, HistoryStays, NobodyAnswered
<1> QED
  BY <1>4, <1>5, <1>6 DEF Inv, OncePerLife, ToldOK, OneRoundPerOwnerKey

(* The process starts anew with what is in the file. *)
LEMMA RestartInv ==
  ASSUME Inv, Restart
  PROVE  Inv'
<1>1. /\ restarts' = restarts + 1 /\ restarts' \in 0..MaxRestarts
      /\ disk' = sessions' /\ rounds' = {}
      /\ UNCHANGED <<ask, balance, payout, settled, issued, root, born, failures, now>>
  BY Numbers DEF Restart, Inv, Counters
<1>2. \A r \in Requests :
        /\ pc'[r] = IF pc[r] = "idle" THEN "idle" ELSE "done"
        /\ answer'[r] = IF pc[r] \in {"idle", "done"} THEN answer[r] ELSE [kind |-> "failed"]
  BY DEF Restart
<1>3. issued' \in issued..MaxSessions /\ issued \in 0..MaxSessions
  BY <1>1, Numbers DEF Inv, TypeOK
<1>4. Calm
  BY <1>1, <1>2, <1>3 DEF Calm
<1>5. MapOK(sessions)' /\ MapOK(disk)'
  <2>1. DOMAIN sessions' \subseteq DOMAIN disk /\ \A i \in DOMAIN sessions' : sessions'[i] = disk[i]
    BY DEF Restart
  <2>2. MapOK(disk) /\ \A i \in DOMAIN disk : disk[i] \in Row
    BY DEF Inv, MapOK
  <2>3. MapOK(sessions)'
    BY <1>4, <2>1, <2>2, SessionsFrom
  <2> QED
    BY <1>1, <2>3, Written
<1>6. TypeOK'
  <2>1. answer' \in [Requests -> Answers]
    BY <1>2 DEF Restart, Inv, TypeOK, Answers
  <2>2. pc' \in [Requests -> {"idle", "get", "lookup", "draw", "apply", "done"}]
    BY DEF Restart
  <2> QED
    BY <1>1, <1>5, <2>1, <2>2 DEF MapOK, Inv, TypeOK
<1>7. RequestsOK' /\ RootsOK' /\ Counters'
  BY <1>1, <1>2 DEF Inv, RequestsOK, RootsOK, Counters
<1>8. SettledOK' /\ RoundsOfThisLife' /\ OncePerLife' /\ ChainDeadline'
  <2>1. \A s \in settled : s.life <= restarts /\ s.life \in Nat /\ s.round.by \in Requests
    BY DEF Inv, SettledOK, TypeOK, Round
  <2>2. SettledOK'
    BY <1>1, <1>2, <2>1, Numbers DEF Inv, SettledOK
  <2>3. RoundsOfThisLife'
    BY <1>1, <2>1, Numbers DEF RoundsOfThisLife
  <2> QED
    BY <1>1, <2>2, <2>3 DEF Inv, OncePerLife, ChainDeadline, OneRoundPerOwnerKey
<1>9. ToldOK'
  BY <1>1, <1>2 DEF Inv, OneRoundPerOwnerKey, ToldOK, Told
<1> QED
  BY <1>1, <1>5, <1>6, <1>7, <1>8, <1>9 DEF Inv, OncePerLife, ToldOK, OneRoundPerOwnerKey

(* The ids that a step may issue. *)
Issues == UNCHANGED <<issued, root, born>> \/ \E i \in 1..(issued + 1) : Issue(i)

(* An id that is issued is the next one, and joins a chain or starts one. *)
LEMMA Issued ==
  ASSUME Inv, NEW i \in 1..(issued + 1), Issue(i)
  PROVE  /\ issued + 1 \in Ids /\ issued' = issued + 1
         /\ root'[issued + 1] = root[i] /\ root[i] \in 1..issued'
         /\ i \in 1..issued => root[i] \in 1..issued
         /\ i = issued + 1 => root[i] = i
         /\ born'[issued + 1] = now
         /\ \A j \in Ids \ {issued + 1} : root'[j] = root[j] /\ born'[j] = born[j]
         /\ root' \in [Ids -> Ids] /\ born' \in [Ids -> 0..MaxTime]
<1>1. /\ issued < MaxSessions /\ issued' = issued + 1
      /\ root' = [root EXCEPT ![issued + 1] = root[i]] /\ born' = [born EXCEPT ![issued + 1] = now]
  BY DEF Issue
<1>2. issued + 1 \in Ids /\ i \in Ids
  BY <1>1, Numbers DEF Ids
<1>3. root \in [Ids -> Ids] /\ born \in [Ids -> 0..MaxTime] /\ now \in 0..MaxTime
  BY DEF Inv, TypeOK
<1>4. /\ i \in 1..issued => root[i] \in 1..issued
      /\ i = issued + 1 => root[i] = i
      /\ root[i] \in 1..issued'
  BY <1>1, <1>2, Numbers DEF Inv, RootsOK
<1> QED
  BY <1>1, <1>2, <1>3, <1>4

(* A step on sessions acknowledges nothing. *)
LEMMA IssuesCalm ==
  ASSUME Inv, UNCHANGED <<settled, answer>>, Issues
  PROVE  Calm
<1>1. issued \in 0..MaxSessions
  BY DEF Inv, TypeOK
<1>2. CASE UNCHANGED <<issued, root, born>>
  BY <1>1, <1>2, Numbers DEF Calm
<1>3. ASSUME NEW i \in 1..(issued + 1), Issue(i) PROVE Calm
  <2>1. issued' \in issued..MaxSessions
    BY <1>3, Numbers DEF Issue
  <2>2. \A j \in 1..issued : root'[j] = root[j] /\ born'[j] = born[j]
    BY <1>3, Issued, Numbers
  <2> QED
    BY <1>1, <2>1, <2>2 DEF Calm
<1> QED
  BY <1>2, <1>3 DEF Issues

(* It leaves everything in order if it does the map. *)
LEMMA SessionsInv ==
  ASSUME Inv, UNCHANGED <<rounds, callVars, settled, restarts, now>>, Issues, failures' \in Nat,
         disk' = disk \/ disk' = sessions', MapOK(sessions)'
  PROVE  Inv'
<1>0. UNCHANGED <<pc, ask, balance, payout, answer>>
  BY DEF callVars
<1>1. Calm
  BY <1>0, IssuesCalm
<1>2. MapOK(disk)'
  BY <1>1, Written
<1>3. /\ 1..issued \subseteq 1..issued'
      /\ issued' \in 0..MaxSessions /\ issued' \in issued..MaxSessions
  BY <1>1, Numbers DEF Calm
<1>4. root' \in [Ids -> Ids] /\ born' \in [Ids -> 0..MaxTime] /\ RootsOK'
  <2>1. CASE UNCHANGED <<issued, root, born>>
    BY <2>1 DEF Inv, TypeOK, RootsOK
  <2>2. ASSUME NEW i \in 1..(issued + 1), Issue(i)
        PROVE  root' \in [Ids -> Ids] /\ born' \in [Ids -> 0..MaxTime] /\ RootsOK'
    <3>1. /\ issued' = issued + 1
          /\ root'[issued + 1] \in 1..issued'
          /\ \A j \in Ids \ {issued + 1} : root'[j] = root[j]
          /\ root' \in [Ids -> Ids] /\ born' \in [Ids -> 0..MaxTime]
      BY <2>2, Issued
    <3>2. \A j \in Ids \ {issued + 1} : j \in 1..issued' <=> j \in 1..issued
      BY <3>1, Numbers DEF Ids
    <3>3. \A j \in Ids : j # issued + 1 => /\ j \in 1..issued' => root'[j] \in 1..issued'
                                           /\ j \notin 1..issued' => root'[j] = j
      BY <1>3, <3>1, <3>2 DEF Inv, RootsOK
    <3>4. issued + 1 \in 1..issued'
      BY <3>1, Numbers
    <3> QED
      BY <3>1, <3>3, <3>4 DEF RootsOK
  <2> QED
    BY <2>1, <2>2 DEF Issues
<1>5. TypeOK'
  BY <1>0, <1>2, <1>3, <1>4 DEF MapOK, Inv, TypeOK
<1>6. RequestsOK' /\ Counters'
  BY <1>0, <1>3 DEF Inv, RequestsOK, Counters
<1>7. SettledOK' /\ RoundsOfThisLife' /\ OncePerLife' /\ ChainDeadline'
  <2>1. \A i \in 1..issued : root'[i] = root[i] /\ born'[i] = born[i]
    BY <1>1 DEF Calm
  <2> QED
    BY <1>0, <1>3, <2>1, HistoryStays
<1>8. ToldOK'
  BY <1>0, NobodyAnswered
<1> QED
  BY <1>2, <1>4, <1>5, <1>6, <1>7, <1>8 DEF Inv, OncePerLife, ToldOK, OneRoundPerOwnerKey

(* Looking at a session, and ending it. *)
LEMMA ResumeInv ==
  ASSUME Inv, NEW i \in 1..issued, NEW ok \in BOOLEAN, Resume(i, ok) \/ Invalidate(i, ok)
  PROVE  Inv'
<1>1. Looks /\ (disk' = disk \/ disk' = sessions') /\ failures' \in Nat
  BY Expires, Writes DEF Resume, Invalidate, Finds, Has, Looks
<1>2. UNCHANGED <<rounds, callVars, settled, restarts, now>> /\ Issues
  BY DEF Resume, Invalidate, Issues
<1>3. Calm
  BY <1>2, IssuesCalm DEF callVars
<1> QED
  BY <1>1, <1>2, <1>3, LooksOK, SessionsInv

(* No round is explained by an empty chain, and none has to be. *)
LEMMA NothingToExplain ==
  ASSUME NEW i, NEW row, Chain(i)' = {}, row.spins = 0, row.balance = StartingBalance,
         MoneyAssumption
  PROVE  Explained(i, row)'
<1>1. Net({}) = 0
  BY SumEmpty DEF Net
<1>2. Cardinality({}) = 0
  BY FS_EmptySet
<1>3. Acknowledged(i)' \subseteq Chain(i)' /\ {} \in SUBSET (Chain(i)')
  BY DEF Acknowledged
<1>4. StartingBalance = StartingBalance + Net({})'
  BY <1>1 DEF MoneyAssumption, Net
<1> QED
  BY <1>2, <1>3, <1>4 DEF Explained

(* Opening a session starts a chain. *)
LEMMA OpenInv ==
  ASSUME Inv, NEW ok \in BOOLEAN, Open(ok)
  PROVE  Inv'
<1>n. PICK n : n = issued + 1
  OBVIOUS
<1>0. /\ Issue(n) /\ Save(ok) /\ sessions' = With(sessions, n, NewRow)
      /\ UNCHANGED <<rounds, callVars, settled, restarts, now>>
      /\ n \in 1..(issued + 1)
  BY <1>n, Numbers DEF Open
<1>1. Issues /\ Calm
  BY <1>0, IssuesCalm DEF Issues, callVars
<1>2. (disk' = disk \/ disk' = sessions') /\ failures' \in Nat
  BY <1>0, Writes
<1>3. /\ n \in Ids /\ issued' = n /\ root'[n] = n /\ born'[n] = now /\ n \notin 1..issued
      /\ \A j \in 1..issued : root'[j] = root[j] /\ root[j] \in 1..issued /\ born'[j] = born[j]
  BY <1>n, <1>0, Issued, Numbers DEF Inv, RootsOK
<1>4. /\ NewRow \in Row /\ NewRow.created = now /\ NewRow.spins = 0
      /\ NewRow.balance = StartingBalance
  BY Numbers DEF NewRow, Row, Inv, MoneyAssumption
<1>5. /\ DOMAIN sessions' = DOMAIN sessions \cup {n} /\ sessions'[n] = NewRow
      /\ \A j \in DOMAIN sessions : j \in 1..issued /\ sessions'[j] = sessions[j]
  <2>1. \A j \in DOMAIN sessions : j \in 1..issued
    BY DEF Inv, MapOK
  <2> QED
    <3>1. \A j \in DOMAIN sessions : j \in DOMAIN sessions \ {n}
      BY <1>3, <2>1
    <3>2. /\ DOMAIN sessions' = DOMAIN sessions \cup {n} /\ sessions'[n] = NewRow
          /\ \A j \in DOMAIN sessions \ {n} : sessions'[j] = sessions[j]
      <4>1. /\ DOMAIN With(sessions, n, NewRow) = DOMAIN sessions \cup {n}
            /\ With(sessions, n, NewRow)[n] = NewRow
            /\ \A j \in DOMAIN sessions \ {n} : With(sessions, n, NewRow)[j] = sessions[j]
        BY DEF With
      <4> QED
        BY <1>0, <4>1
    <3> QED
      BY <2>1, <3>1, <3>2
<1>6. Explained(n, sessions[n])'
  <2>1. \A x \in settled : x.round.owner \in 1..issued
    BY DEF Inv, SettledOK
  <2>2. Chain(n)' = {}
    BY <1>0, <1>3, <2>1 DEF Chain
  <2> QED
    BY <1>4, <1>5, <2>2, NothingToExplain DEF Inv
<1>7. \A j \in DOMAIN sessions : Explained(j, sessions[j])'
  BY <1>1, <1>3, <1>5, StaysExplained DEF Inv, MapOK
<1>8. MapOK(sessions)'
  <2>1. DOMAIN sessions' \subseteq 1..issued'
    <3>1. 1..issued \subseteq 1..issued' /\ n \in 1..issued'
      BY <1>n, <1>3, Numbers
    <3> QED
      BY <1>5, <3>1
  <2>2. \A j \in DOMAIN sessions : sessions[j] \in Row /\ sessions[j].created = born[root[j]]
    BY DEF Inv, MapOK
  <2>3. \A j \in DOMAIN sessions' : /\ sessions'[j] \in Row
                                    /\ sessions'[j].created = born'[root'[j]]
                                    /\ Explained(j, sessions[j])'
    BY <1>3, <1>4, <1>5, <1>6, <1>7, <2>2
  <2>4. \A j, k \in DOMAIN sessions' : root'[j] = root'[k] => j = k
    BY <1>3, <1>5 DEF Inv, MapOK
  <2> QED
    BY <2>1, <2>3, <2>4 DEF MapOK
<1> QED
  BY <1>0, <1>1, <1>2, <1>8, SessionsInv

(* A rotation goes on with the chain. *)
LEMMA RotateInv ==
  ASSUME Inv, NEW i \in 1..issued, NEW ok \in BOOLEAN, Rotate(i, ok)
  PROVE  Inv'
<1>1. CASE DropExpired(i, ok) /\ UNCHANGED <<issued, root, born>>
  <2>1. Looks /\ (disk' = disk \/ disk' = sessions') /\ failures' \in Nat
    BY <1>1, Expires
  <2>2. UNCHANGED <<rounds, callVars, settled, restarts, now>> /\ Issues
    BY <1>1 DEF Rotate, Issues
  <2>3. Calm
    BY <2>2, IssuesCalm DEF callVars
  <2> QED
    BY <2>1, <2>2, <2>3, LooksOK, SessionsInv
<1>2. CASE /\ Finds(i) /\ Issue(i) /\ Save(ok)
           /\ sessions' = With(Without(sessions, i), issued + 1, RotatedRow(sessions[i]))
  <2>n. PICK n : n = issued + 1
    OBVIOUS
  <2> DEFINE row == RotatedRow(sessions[i])
  <2>0. UNCHANGED <<rounds, callVars, settled, restarts, now>>
    BY DEF Rotate
  <2>1. Issues /\ Calm
    BY <1>2, <2>0, IssuesCalm, Numbers DEF Issues, callVars
  <2>2. (disk' = disk \/ disk' = sessions') /\ failures' \in Nat
    BY <1>2, Writes
  <2>3. /\ n \in Ids /\ issued' = n /\ root'[n] = root[i] /\ n \notin 1..issued
        /\ root[i] \in 1..issued
        /\ \A j \in 1..issued : root'[j] = root[j] /\ root[j] \in 1..issued /\ born'[j] = born[j]
    BY <1>2, <2>n, Issued, Numbers DEF Inv, RootsOK
  <2>4. i \in DOMAIN sessions /\ sessions[i] \in Row /\ sessions[i].created = born[root[i]]
        /\ Explained(i, sessions[i])
    BY <1>2 DEF Finds, Has, Inv, MapOK
  <2>5. /\ row \in Row /\ row.balance = sessions[i].balance /\ row.spins = sessions[i].spins
        /\ row.created = sessions[i].created
    BY <2>4, RowColumns
  <2>6. /\ DOMAIN sessions' = (DOMAIN sessions \ {i}) \cup {n} /\ sessions'[n] = row
        /\ \A j \in DOMAIN sessions \ {i} : j \in 1..issued /\ sessions'[j] = sessions[j]
    <3>1. \A j \in DOMAIN sessions : j \in 1..issued
      BY DEF Inv, MapOK
    <3> QED
      <4> DEFINE rest == Without(sessions, i)
      <4>1. \A j \in DOMAIN sessions \ {i} : j \in DOMAIN rest \ {n} /\ rest[j] = sessions[j]
        BY <2>3, <3>1, Drops
      <4>2. DOMAIN rest = DOMAIN sessions \ {i}
        BY Drops
      <4>3. sessions' = With(rest, n, row)
        BY <1>2, <2>n
      <4> HIDE DEF rest, row
      <4>4. /\ DOMAIN sessions' = DOMAIN rest \cup {n} /\ sessions'[n] = row
            /\ \A j \in DOMAIN rest \ {n} : sessions'[j] = rest[j]
        <5>1. /\ DOMAIN With(rest, n, row) = DOMAIN rest \cup {n}
              /\ With(rest, n, row)[n] = row
              /\ \A j \in DOMAIN rest \ {n} : With(rest, n, row)[j] = rest[j]
          BY DEF With
        <5> QED
          BY <4>3, <5>1
      <4> QED
        BY <3>1, <4>1, <4>2, <4>4
  <2>7. Explained(n, sessions[n])'
    BY <2>1, <2>3, <2>4, <2>5, <2>6, StaysExplained
  <2>8. \A j \in DOMAIN sessions \ {i} : Explained(j, sessions[j])'
    BY <2>1, <2>3, <2>6, StaysExplained DEF Inv, MapOK
  <2>9. MapOK(sessions)'
    <3>1. DOMAIN sessions' \subseteq 1..issued'
      <4>1. 1..issued \subseteq 1..issued' /\ n \in 1..issued'
        BY <2>n, <2>3, Numbers
      <4> QED
        BY <2>6, <4>1
    <3>0. \A j \in DOMAIN sessions : sessions[j] \in Row /\ sessions[j].created = born[root[j]]
      BY DEF Inv, MapOK
    <3>2. \A j \in DOMAIN sessions' : /\ sessions'[j] \in Row
                                      /\ sessions'[j].created = born'[root'[j]]
                                      /\ Explained(j, sessions[j])'
      BY <2>3, <2>4, <2>5, <2>6, <2>7, <2>8, <3>0
    <3>3. \A j, k \in DOMAIN sessions' : root'[j] = root'[k] => j = k
      BY <2>3, <2>4, <2>6 DEF Inv, MapOK
    <3> QED
      BY <3>1, <3>2, <3>3 DEF MapOK
  <2> QED
    BY <2>0, <2>1, <2>2, <2>9, SessionsInv
<1> QED
  BY <1>1, <1>2 DEF Rotate

(* The settled round as it is kept. *)
NewRecord(r) == [round |-> RoundOf(r), life |-> restarts, at |-> now]

(* A round that is being settled is nobody's yet. *)
LEMMA RecordIsNew ==
  ASSUME Inv, NEW r \in Requests, NEW ok \in BOOLEAN, Settles(r, ok)
  PROVE  /\ RoundOf(r) \in Round /\ RoundOf(r).by = r /\ RoundOf(r).owner = ask[r].session
         /\ NewRecord(r).round = RoundOf(r) /\ NewRecord(r).life = restarts /\ NewRecord(r).at = now
         /\ pc[r] = "apply" /\ ask[r].session \in 1..issued
         /\ \A s \in settled : s.round.by # r
         /\ \A q \in Requests : Told(q) => answer[q].round # RoundOf(r)
         /\ NewRecord(r) \notin settled /\ settled' = settled \cup {NewRecord(r)}
         /\ UNCHANGED <<ask, balance, payout, issued, root, born, restarts, now>>
<1>1. /\ pc[r] = "apply" /\ UNCHANGED <<ask, balance, payout, issued, root, born, restarts, now>>
  BY DEF Settles, Apply
<1>2. ask[r] \in Ask /\ payout[r] \in Payouts
  BY DEF Inv, TypeOK
<1>3. RoundOf(r) \in Round /\ RoundOf(r).by = r /\ RoundOf(r).owner = ask[r].session
  BY <1>2 DEF RoundOf, Round, Ask
<1>4. NewRecord(r).round = RoundOf(r) /\ NewRecord(r).life = restarts /\ NewRecord(r).at = now
  BY DEF NewRecord
<1>5. \A s \in settled : s.round.by # r
  BY <1>1 DEF Inv, SettledOK
<1>6. \A q \in Requests : Told(q) => answer[q].round # RoundOf(r)
  BY <1>3, <1>5 DEF Inv, OneRoundPerOwnerKey
<1>7. NewRecord(r) \notin settled
  BY <1>3, <1>4, <1>5
<1>8. ask[r].session \in 1..issued /\ settled' = settled \cup {NewRecord(r)}
  BY <1>1 DEF Inv, RequestsOK, Settles, NewRecord
<1> QED
  BY <1>1, <1>3, <1>4, <1>5, <1>6, <1>7, <1>8

(* The session that was played explains the new round with the old. *)
LEMMA PlayedIsExplained ==
  ASSUME Inv, NEW r \in Requests, NEW ok \in BOOLEAN, Settles(r, ok),
         NEW i, i = ask[r].session, NEW row \in Row, Explained(i, row),
         NEW new, new.spins = row.spins + 1,
         new.balance = row.balance - RoundOf(r).bet + RoundOf(r).payout
  PROVE  Explained(i, new)'
<1>n. PICK e : e = NewRecord(r)
  OBVIOUS
<1>0. /\ RoundOf(r) \in Round /\ RoundOf(r).by = r /\ RoundOf(r).owner = i
      /\ e.round = RoundOf(r) /\ root' = root
      /\ \A s \in settled : s.round.by # r
      /\ e \notin settled /\ settled' = settled \cup {e}
  BY <1>n, RecordIsNew
<1>1. PICK T \in SUBSET Chain(i) : /\ Acknowledged(i) \subseteq T
                                   /\ Cardinality(T) = row.spins
                                   /\ row.balance = StartingBalance + Net(T)
  BY DEF Explained
<1>2. T \cup {e} \in SUBSET (Chain(i)') /\ e \notin T
  BY <1>0, <1>1 DEF Chain
<1>3. Acknowledged(i)' \subseteq T \cup {e}
  <2> SUFFICES ASSUME NEW s \in Acknowledged(i)', s # e PROVE s \in T
    OBVIOUS
  <2>1. PICK q \in Requests : answer'[q] = [kind |-> "settled", round |-> s.round]
    BY DEF Acknowledged
  <2>2. s \in settled /\ s \in Chain(i)
    BY <1>0 DEF Acknowledged, Chain
  <2>3. q # r
    <3>1. \A a : answer' = [answer EXCEPT ![r] = a] => answer'[r] = a
      BY DEF Inv, TypeOK
    <3>2. \/ answer'[r] = [kind |-> "settled", round |-> RoundOf(r)]
          \/ answer'[r] = [kind |-> "failed"]
      BY <3>1 DEF Settles, Answer, Fail
    <3>3. s.round # RoundOf(r)
      BY <1>0, <2>2
    <3> QED
      BY <2>1, <3>2, <3>3
  <2>4. answer'[q] = answer[q]
    BY <2>3 DEF Settles, Answer, Fail, Inv, TypeOK
  <2> QED
    BY <1>1, <2>1, <2>2, <2>4 DEF Acknowledged
<1>4. IsFiniteSet(T)
  BY <1>1, FS_Subset DEF Chain, Inv, SettledOK
<1>5. Cardinality(T \cup {e}) = new.spins
  BY <1>1, <1>2, <1>4, FS_AddElement
<1>6. \A x \in T \cup {e} : x.round.payout \in Int /\ x.round.bet \in Int
  <2>1. \A x \in T \cup {e} : x.round \in Round
    BY <1>0, <1>1 DEF Chain, Inv, TypeOK
  <2> QED
    <3>1. \A y \in Round : y.payout \in Payouts /\ y.bet \in Bets
      BY DEF Round
    <3>2. Payouts \subseteq Int /\ Bets \subseteq Int
      BY DEF Inv, MoneyAssumption
    <3> QED
      BY <2>1, <3>1, <3>2
<1>7. /\ Net(T \cup {e}) = Net(T) + e.round.payout - e.round.bet
      /\ Net(T) \in Int
  BY <1>2, <1>4, <1>6, NetAdd
<1>8. new.balance = StartingBalance + Net(T \cup {e})
  <2>1. e.round.payout \in Int /\ e.round.bet \in Int /\ StartingBalance \in Int
    BY <1>6 DEF Inv, MoneyAssumption
  <2> QED
    BY <1>0, <1>1, <1>7, <2>1
<1>9. Net(T \cup {e})' = Net(T \cup {e})
  BY DEF Net
<1> QED
  BY <1>2, <1>3, <1>5, <1>8, <1>9 DEF Explained

(* Nothing new is acknowledged of another chain. *)
LEMMA OthersExplained ==
  ASSUME Inv, NEW r \in Requests, NEW ok \in BOOLEAN, Settles(r, ok),
         NEW j, NEW row, Explained(j, row), root[j] # root[ask[r].session]
  PROVE  Explained(j, row)'
<1>0. /\ NewRecord(r).round.owner = ask[r].session /\ root' = root
      /\ settled' = settled \cup {NewRecord(r)}
      /\ \A s \in settled : s.round # RoundOf(r)
  BY RecordIsNew
<1>1. PICK T \in SUBSET Chain(j) : /\ Acknowledged(j) \subseteq T
                                   /\ Cardinality(T) = row.spins
                                   /\ row.balance = StartingBalance + Net(T)
  BY DEF Explained
<1>2. Chain(j)' = Chain(j)
  BY <1>0 DEF Chain
<1>3. Acknowledged(j)' \subseteq Acknowledged(j)
  <2> SUFFICES ASSUME NEW s \in Chain(j), NEW q \in Requests,
                      answer'[q] = [kind |-> "settled", round |-> s.round]
               PROVE  answer[q] = [kind |-> "settled", round |-> s.round]
    BY <1>2 DEF Acknowledged
  <2>1. s.round # RoundOf(r)
    BY <1>0 DEF Chain
  <2>2. \A a : answer' = [answer EXCEPT ![r] = a] => answer'[r] = a
    BY DEF Inv, TypeOK
  <2>3. q # r
    BY <2>1, <2>2 DEF Settles, Answer, Fail
  <2> QED
    BY <2>3 DEF Settles, Answer, Fail, Inv, TypeOK
<1>4. Net(T)' = Net(T)
  BY DEF Net
<1> QED
  BY <1>1, <1>2, <1>3, <1>4 DEF Explained

(* What a settled round makes of the row of its session. *)
LEMMA PlayedIsRow ==
  ASSUME NEW r, NEW row \in Row, SettledBalance(r, row) \in Int, now \in Nat
  PROVE  /\ Played(r, row) \in Row /\ Played(r, row).created = row.created
         /\ Played(r, row).spins = row.spins + 1
         /\ Played(r, row).balance = SettledBalance(r, row)
<1> DEFINE paid == [row EXCEPT !.balance = SettledBalance(r, row)]
           counted == [paid EXCEPT !.spins = row.spins + 1]
<1>1. /\ paid \in Row /\ paid.created = row.created
      /\ paid.spins = row.spins /\ paid.balance = SettledBalance(r, row)
  BY DEF Row
<1>2. row.spins + 1 \in Nat
  BY DEF Row
<1>3. Played(r, row) = [counted EXCEPT !.seen = now]
  BY <1>1 DEF Played, paid
<1> HIDE DEF paid
<1>4. /\ counted \in Row /\ counted.created = row.created
      /\ counted.balance = SettledBalance(r, row) /\ counted.spins = row.spins + 1
  BY <1>1, <1>2 DEF Row
<1> HIDE DEF counted
<1>5. [counted EXCEPT !.seen = now] \in Row
  BY <1>4 DEF Row
<1> QED
  BY <1>3, <1>4, <1>5 DEF Row

(* Settling a round. *)
LEMMA SettleInv ==
  ASSUME Inv, NEW r \in Requests, NEW ok \in BOOLEAN, Settles(r, ok)
  PROVE  Inv'
<1>n. PICK i, e : i = ask[r].session /\ e = NewRecord(r)
  OBVIOUS
<1> DEFINE row == Played(r, sessions[i])
<1>1. /\ RoundOf(r) \in Round /\ RoundOf(r).by = r /\ RoundOf(r).owner = i
      /\ e.round = RoundOf(r) /\ e.life = restarts /\ e.at = now
      /\ pc[r] = "apply" /\ i \in 1..issued
      /\ \A s \in settled : s.round.by # r
      /\ \A q \in Requests : Told(q) => answer[q].round # RoundOf(r)
      /\ e \notin settled /\ settled' = settled \cup {e}
      /\ UNCHANGED <<ask, balance, payout, issued, root, born, restarts, now>>
  BY <1>n, RecordIsNew
<1>2. /\ Finds(i) /\ Kept(r) = {} /\ sessions' = With(sessions, i, row)
      /\ rounds' = rounds \cup {RoundOf(r)} /\ Save(ok)
  BY <1>n DEF Settles
<1>3. /\ i \in DOMAIN sessions /\ sessions[i] \in Row /\ sessions[i].created = born[root[i]]
      /\ Explained(i, sessions[i])
  BY <1>2 DEF Finds, Has, Inv, MapOK
<1>4. /\ RoundOf(r).bet = ask[r].bet /\ RoundOf(r).payout = payout[r]
      /\ payout[r] \in Nat /\ ask[r].bet \in Nat
  BY DEF RoundOf, Inv, TypeOK, Ask, MoneyAssumption
<1>5. /\ row \in Row /\ row.created = sessions[i].created /\ row.spins = sessions[i].spins + 1
      /\ row.balance = sessions[i].balance - RoundOf(r).bet + RoundOf(r).payout
  <2>1. SettledBalance(r, sessions[i]) = sessions[i].balance - RoundOf(r).bet + RoundOf(r).payout
    BY <1>4 DEF SettledBalance
  <2>2. sessions[i].balance \in Int /\ now \in Nat
    BY <1>3, Numbers DEF Row
  <2>3. SettledBalance(r, sessions[i]) \in Int
    BY <1>4, <2>1, <2>2
  <2> QED
    <3>1. /\ Played(r, sessions[i]) \in Row
          /\ Played(r, sessions[i]).created = sessions[i].created
          /\ Played(r, sessions[i]).spins = sessions[i].spins + 1
          /\ Played(r, sessions[i]).balance = SettledBalance(r, sessions[i])
      BY <1>3, <2>2, <2>3, PlayedIsRow
    <3> QED
      BY <2>1, <3>1
<1>6. /\ DOMAIN sessions' = DOMAIN sessions /\ sessions'[i] = row
      /\ \A j \in DOMAIN sessions \ {i} : sessions'[j] = sessions[j]
  <2>1. /\ DOMAIN With(sessions, i, row) = DOMAIN sessions \cup {i}
        /\ With(sessions, i, row)[i] = row
        /\ \A j \in DOMAIN sessions \ {i} : With(sessions, i, row)[j] = sessions[j]
    BY DEF With
  <2> HIDE DEF row
  <2> QED
    BY <1>2, <1>3, <2>1
<1>7. MapOK(sessions)'
  <2>1. Explained(i, sessions[i])'
    BY <1>n, <1>3, <1>5, <1>6, PlayedIsExplained
  <2>2. \A j \in DOMAIN sessions \ {i} : Explained(j, sessions[j])'
    <3>1. \A j \in DOMAIN sessions \ {i} :
            Explained(j, sessions[j]) /\ root[j] # root[ask[r].session]
      BY <1>n, <1>3 DEF Inv, MapOK
    <3> SUFFICES ASSUME NEW j \in DOMAIN sessions \ {i} PROVE Explained(j, sessions[j])'
      OBVIOUS
    <3>2. PICK old : old = sessions[j]
      OBVIOUS
    <3>3. Explained(j, old)'
      BY <3>1, <3>2, OthersExplained
    <3> QED
      BY <1>6, <3>2, <3>3 DEF Explained
  <2>3. \A j \in DOMAIN sessions : /\ j \in 1..issued /\ sessions[j] \in Row
                                   /\ sessions[j].created = born[root[j]]
    BY DEF Inv, MapOK
  <2>4. \A j, k \in DOMAIN sessions : root[j] = root[k] => j = k
    BY DEF Inv, MapOK
  <2> HIDE DEF row
  <2>5. \A j \in DOMAIN sessions' : /\ sessions'[j] \in Row
                                    /\ sessions'[j].created = born'[root'[j]]
                                    /\ Explained(j, sessions[j])'
    BY <1>1, <1>5, <1>6, <2>1, <2>2, <2>3
  <2> QED
    BY <1>1, <1>6, <2>3, <2>4, <2>5 DEF MapOK
<1>8. /\ answer' = [answer EXCEPT ![r] =
                       IF ok THEN [kind |-> "settled", round |-> RoundOf(r)]
                             ELSE [kind |-> "failed"]]
      /\ pc' = [pc EXCEPT ![r] = "done"]
  BY DEF Settles, Answer, Fail
<1>9. MapOK(disk)'
  <2>1. CASE ok
    BY <1>2, <1>7, <2>1 DEF Save, MapOK
  <2>2. CASE ~ok
    <3>1. issued \in 0..MaxSessions /\ issued' \in issued..MaxSessions
      BY <1>1, Numbers DEF Inv, TypeOK
    <3>2. \A q \in Requests : answer'[q].kind = "settled" => answer'[q] = answer[q]
      BY <1>8, <2>2 DEF Inv, TypeOK
    <3>3. \A q \in Requests : answer[q] # [kind |-> "settled", round |-> e.round]
      BY <1>1 DEF Told
    <3>4. Calm
      BY <1>1, <3>1, <3>2, <3>3 DEF Calm
    <3> QED
      BY <1>2, <2>2, <3>4, DiskStays DEF Save
  <2> QED
    BY <2>1, <2>2
<1>10. TypeOK'
  <2>1. /\ answer' \in [Requests -> Answers]
        /\ pc' \in [Requests -> {"idle", "get", "lookup", "draw", "apply", "done"}]
    BY <1>1, <1>8 DEF Inv, TypeOK, Answers
  <2>2. \A s \in settled' : s.round \in Round /\ s.life \in 0..MaxRestarts /\ s.at \in 0..MaxTime
    BY <1>1 DEF Inv, TypeOK, Counters
  <2>3. rounds' \subseteq Round
    BY <1>1, <1>2 DEF Inv, TypeOK
  <2> QED
    BY <1>1, <1>7, <1>9, <2>1, <2>2, <2>3 DEF MapOK, Inv, TypeOK
<1>11. RequestsOK' /\ RootsOK' /\ Counters'
  BY <1>1, <1>2, <1>8, Writes DEF Inv, RequestsOK, RootsOK, Counters, TypeOK
<1>12. SettledOK'
  <2>1. IsFiniteSet(settled')
    BY <1>1, FS_AddElement DEF Inv, SettledOK
  <2>2. \A s \in settled : s.round.by \in Requests
    BY DEF Inv, TypeOK, Round
  <2>3. \A s \in settled' : /\ s.round.owner \in 1..issued' /\ s.life <= restarts'
                            /\ pc'[s.round.by] = "done"
    BY <1>1, <1>8, <2>2, Numbers DEF Inv, SettledOK, TypeOK
  <2> QED
    BY <1>1, <2>1, <2>3 DEF Inv, SettledOK
<1>13. RoundsOfThisLife'
  BY <1>1, <1>2 DEF Inv, RoundsOfThisLife
<1>14. OncePerLife'
  <2>1. \A s \in settled :
          ~(s.life = e.life /\ s.round.owner = e.round.owner /\ s.round.key = e.round.key)
    <3>1. RoundOf(r).key = ask[r].key
      BY DEF RoundOf
    <3> QED
      BY <1>n, <1>1, <1>2, <3>1 DEF Inv, RoundsOfThisLife, Kept
  <2> QED
    BY <1>1, <2>1 DEF Inv, OncePerLife, OneRoundPerOwnerKey
<1>15. ChainDeadline'
  <2>1. now <= sessions[i].created + AbsoluteTtl
    BY <1>2, <1>3, Numbers DEF Finds, Expired, Row
  <2> QED
    BY <1>1, <1>3, <2>1 DEF Inv, ChainDeadline
<1>16. ToldOK'
  <2> SUFFICES ASSUME NEW q \in Requests, Told(q)'
               PROVE  /\ \E s \in settled' : s.round = answer'[q].round
                      /\ answer'[q].round.bet = ask[q].bet
    BY <1>1 DEF ToldOK
  <2>1. CASE q # r
    <3>1. answer'[q] = answer[q]
      BY <1>8, <2>1 DEF Inv, TypeOK
    <3> QED
      BY <1>1, <3>1 DEF Told, Inv, OneRoundPerOwnerKey
  <2>2. CASE q = r
    <3>1. answer'[r] =
            IF ok THEN [kind |-> "settled", round |-> RoundOf(r)] ELSE [kind |-> "failed"]
      BY <1>8 DEF Inv, TypeOK
    <3>2. answer'[r].round = RoundOf(r)
      BY <2>2, <3>1 DEF Told
    <3> QED
      BY <1>1, <1>4, <2>2, <3>2
  <2> QED
    BY <2>1, <2>2
<1> QED
  BY <1>1, <1>7, <1>9, <1>10, <1>11, <1>12, <1>13, <1>14, <1>15, <1>16
  DEF Inv, OncePerLife, ToldOK, OneRoundPerOwnerKey

-----------------------------------------------------------------------------
(* The theorems *)

(* At first there is nothing. *)
LEMMA InitInv ==
  ASSUME MoneyAssumption, BoundsAssumption, Init
  PROVE  Inv
<1> USE DEF Init
<1>1. DOMAIN sessions = {} /\ DOMAIN disk = {}
  OBVIOUS
<1>2. MaxSessions \in Nat \ {0} /\ MaxTime \in Nat /\ MaxRestarts \in Nat
  BY DEF BoundsAssumption
<1>3. \E a \in Ask : TRUE
  <2>1. 1 \in Ids
    BY <1>2 DEF Ids
  <2>2. PICK k \in Keys, b \in Bets : TRUE
    BY DEF MoneyAssumption
  <2>3. [session |-> 1, key |-> k, bet |-> b] \in Ask
    BY <2>1, <2>2 DEF Ask
  <2> QED
    BY <2>3
<1>4. TypeOK
  <2>1. ask \in [Requests -> Ask] /\ payout \in [Requests -> Payouts]
    BY <1>3 DEF MoneyAssumption
  <2>2. answer \in [Requests -> Answers]
    BY DEF Answers, NoAnswer
  <2>3. root \in [Ids -> Ids] /\ born \in [Ids -> 0..MaxTime]
    BY <1>2
  <2> QED
    BY <1>1, <1>2, <2>1, <2>2, <2>3 DEF TypeOK
<1>5. RequestsOK /\ RootsOK /\ Counters /\ RoundsOfThisLife /\ ChainDeadline
  BY <1>2 DEF RequestsOK, RootsOK, Counters, RoundsOfThisLife, ChainDeadline
<1>6. SettledOK
  BY FS_EmptySet DEF SettledOK
<1>7. MapOK(sessions) /\ MapOK(disk)
  BY <1>1 DEF MapOK
<1>8. OneRoundPerOwnerKey
  BY DEF OneRoundPerOwnerKey, Told, NoAnswer
<1> QED
  BY <1>4, <1>5, <1>6, <1>7, <1>8 DEF Inv

(* Nothing happens. *)
LEMMA IdleInv ==
  ASSUME Inv, UNCHANGED vars
  PROVE  Inv'
<1>1. /\ UNCHANGED <<sessions, rounds, disk, pc, ask, balance, payout, answer, now>>
      /\ UNCHANGED <<settled, issued, root, born, restarts, failures>>
  BY DEF vars, mapVars, callVars, historyVars
<1>2. UNCHANGED callVars /\ Issues /\ Looks /\ failures' \in Nat
  BY <1>1 DEF callVars, Issues, Looks, Inv, Counters
<1>3. MapOK(sessions)'
  BY <1>1, <1>2, IssuesCalm, LooksOK
<1> QED
  BY <1>1, <1>2, <1>3, SessionsInv

(* The invariant is inductive. *)
LEMMA InvStep ==
  ASSUME Inv, [Next]_vars
  PROVE  Inv'
<1>1. ASSUME NEW ok \in BOOLEAN, Open(ok) PROVE Inv'
  BY <1>1, OpenInv
<1>2. ASSUME NEW ok \in BOOLEAN, NEW i \in 1..issued,
             Resume(i, ok) \/ Rotate(i, ok) \/ Invalidate(i, ok)
      PROVE  Inv'
  BY <1>2, ResumeInv, RotateInv
<1>3. ASSUME NEW ok \in BOOLEAN, NEW r \in Requests, Step(r, ok) PROVE Inv'
  BY <1>3, StepInv, SettleInv
<1> QED
  BY <1>1, <1>2, <1>3, SendInv, RestartInv, TickInv, IdleInv DEF Next

(* The invariant holds throughout. *)
THEOREM Invariant == MoneyAssumption /\ BoundsAssumption => (Spec => []Inv)
<1>1. MoneyAssumption /\ BoundsAssumption /\ Init => Inv
  BY InitInv
<1>2. Inv /\ [Next]_vars => Inv'
  BY InvStep
<1> QED
  BY <1>1, <1>2, PTL DEF Spec

(* Every row, round and answer has its type. *)
THEOREM TypeCorrect == MoneyAssumption /\ BoundsAssumption => (Spec => []TypeOK)
<1>1. Inv => TypeOK
  BY DEF Inv
<1> QED
  BY <1>1, Invariant, PTL

(* For any number of requests, sessions, restarts and failing writes: a session and key   *)
(* settle one round in each life of the process, and every retry is told that round; no   *)
(* round is settled past the absolute limit of its chain; what was answered is in the     *)
(* file; and every balance, in memory and in the file, is the starting balance and rounds *)
(* of its chain.                                                                          *)
THEOREM StoreAlwaysHolds == MoneyAssumption /\ BoundsAssumption => (Spec => []JsonStoreHolds)
<1>1. Inv => JsonStoreHolds
  BY DEF Inv, MapOK, JsonStoreHolds, AnsweredIsSaved, BalanceIsRounds
<1> QED
  BY <1>1, Invariant, PTL

----------------------------------------------------------------------------
(* The sliding window.  All of it rests on one fact: there is room exactly *)
(* if the Limit-th last admission of the key is a whole window old         *)
(* (RoomByTheTail).                                                        *)
Count(k) == Len(admitted[k])

InOrder ==
  \A k \in Sources :
    /\ \A i, j \in 1..Count(k) : i <= j => admitted[k][i] <= admitted[k][j]
    /\ \A i \in 1..Count(k) : admitted[k][i] <= clock

KeepsTheRecent ==
  \A k \in Sources : \A i \in 1..Count(k) :
    admitted[k][i] + Window > clock => i \in events[k]

\* A caller still waiting was told when the Limit-th last admission leaves.
ToldByTheTail ==
  \A c \in Callers : told[c] # None =>
    LET k == KeyOf[c] IN
    /\ Count(k) >= Limit
    /\ told[c] = admitted[k][Count(k) - Limit + 1] + Window

Sliding == InOrder /\ KeepsTheRecent /\ Limiter!WindowHolds

Limiting == Limiter!LimiterAssumption /\ Limiter!TypeOK /\ Sliding /\ ToldByTheTail

----------------------------------------------------------------------------
(* RateLimiter counts with the cardinality of FiniteSets.                    *)
LEMMA SameCardinality == \A S : Limiter!Cardinality(S) = Cardinality(S)
  BY DEF Limiter!Cardinality, Cardinality

(* The array the limiter keeps misses no admission of the window.            *)
LEMMA RecentEntry ==
  ASSUME Limiter!TypeOK, KeepsTheRecent, NEW k \in Sources
  PROVE  Limiter!Recent(k) = {i \in 1..Count(k) : admitted[k][i] + Window > clock}
  BY DEF Limiter!TypeOK, KeepsTheRecent, Limiter!Recent, Count

(* Its size is a number, and pruning only makes it smaller.                  *)
LEMMA RecentFinite ==
  ASSUME Limiter!TypeOK, NEW k \in Sources
  PROVE  /\ IsFiniteSet(events[k])
         /\ IsFiniteSet(Limiter!Recent(k))
         /\ Cardinality(Limiter!Recent(k)) \in Nat
         /\ Cardinality(Limiter!Recent(k)) <= Cardinality(events[k])
<1>1. Len(admitted[k]) \in Nat /\ events[k] \subseteq 1..Len(admitted[k])
  BY DEF Limiter!TypeOK
<1>2. IsFiniteSet(1..Len(admitted[k]))
  BY <1>1, FS_Interval
<1>3. IsFiniteSet(events[k])
  BY <1>1, <1>2, FS_Subset
<1>4. Limiter!Recent(k) \subseteq events[k]
  BY DEF Limiter!Recent
<1> QED
  BY <1>3, <1>4, FS_Subset, FS_CardinalityType

(* There is room exactly if the Limit-th last admission is a window old.     *)
LEMMA RoomByTheTail ==
  ASSUME Limiter!LimiterAssumption, Limiter!TypeOK, InOrder, KeepsTheRecent, NEW k \in Sources
  PROVE  Limiter!Room(k) <=> \/ Count(k) < Limit
                     \/ admitted[k][Count(k) - Limit + 1] + Window <= clock
<1> DEFINE n == Count(k)
           first == n - Limit + 1
<1>1. n \in Nat /\ Limit \in Nat \ {0} /\ Window \in Nat \ {0} /\ clock \in Nat /\ first \in Int
  BY DEF Limiter!LimiterAssumption, Limiting, Limiter!TypeOK, Count
<1>2. \A i \in 1..n : admitted[k][i] \in Nat
  BY DEF Limiter!TypeOK, Count
<1>3. Limiter!Recent(k) = {i \in 1..n : admitted[k][i] + Window > clock}
  BY RecentEntry
<1>4. IsFiniteSet(Limiter!Recent(k)) /\ Cardinality(Limiter!Recent(k)) \in Nat
  BY RecentFinite
<1>5. ASSUME n < Limit
      PROVE  Limiter!Room(k)
  <2>1. IsFiniteSet(1..n) /\ Cardinality(1..n) = n
    BY <1>1, FS_Interval
  <2>2. Cardinality(Limiter!Recent(k)) <= n
    BY <1>3, <2>1, FS_Subset
  <2> QED
    BY <1>1, <1>4, <1>5, <2>2, SameCardinality DEF Limiter!Room
<1>6. ASSUME ~(n < Limit), admitted[k][first] + Window <= clock
      PROVE  Limiter!Room(k)
  <2>1. first \in 1..n
    BY <1>1, <1>6
  <2>2. \A i \in 1..n : i <= first => admitted[k][i] <= admitted[k][first]
    BY <2>1 DEF InOrder
  <2>3. Limiter!Recent(k) \subseteq (first + 1)..n
    BY <1>1, <1>2, <1>3, <1>6, <2>1, <2>2
  <2>4. IsFiniteSet((first + 1)..n) /\ Cardinality((first + 1)..n) = Limit - 1
    <3>1. first + 1 \in Int /\ n \in Int
      BY <1>1
    <3>2. /\ IsFiniteSet((first + 1)..n)
          /\ Cardinality((first + 1)..n) =
               IF first + 1 > n THEN 0 ELSE n - (first + 1) + 1
      BY <3>1, FS_Interval
    <3>3. (IF first + 1 > n THEN 0 ELSE n - (first + 1) + 1) = Limit - 1
      BY <1>1, <1>6
    <3> QED
      BY <3>2, <3>3
  <2>5. Cardinality(Limiter!Recent(k)) <= Limit - 1
    BY <2>3, <2>4, FS_Subset
  <2> QED
    BY <1>1, <1>4, <2>5, SameCardinality DEF Limiter!Room
<1>7. ASSUME ~(n < Limit), ~(admitted[k][first] + Window <= clock)
      PROVE  ~Limiter!Room(k)
  <2>1. first \in 1..n
    BY <1>1, <1>7
  <2>2. \A i \in 1..n : first <= i => admitted[k][first] <= admitted[k][i]
    BY <2>1 DEF InOrder
  <2>3. first..n \subseteq Limiter!Recent(k)
    BY <1>1, <1>2, <1>3, <1>7, <2>1, <2>2
  <2>4. Cardinality(first..n) = Limit
    BY <1>1, <1>7, FS_Interval
  <2>5. Limit <= Cardinality(Limiter!Recent(k))
    BY <1>4, <2>3, <2>4, FS_Subset
  <2> QED
    BY <1>1, <1>4, <2>5, SameCardinality DEF Limiter!Room
<1> QED
  BY <1>5, <1>6, <1>7

(* A refused caller is told when the Limit-th last admission leaves.         *)
LEMMA ToldTheTail ==
  ASSUME Limiter!LimiterAssumption, Limiter!TypeOK, Sliding, NEW k \in Sources, ~Limiter!Room(k)
  PROVE  /\ Count(k) >= Limit
         /\ Limiter!FreeAgain(k) = admitted[k][Count(k) - Limit + 1] + Window
         /\ Limiter!Recent(k) = (Count(k) - Limit + 1)..Count(k)
         /\ Limiter!FreeAgain(k) \in Nat
<1> DEFINE n == Count(k)
           first == n - Limit + 1
<1>1. n \in Nat /\ Limit \in Nat \ {0} /\ Window \in Nat \ {0} /\ clock \in Nat /\ first \in Int
  BY DEF Limiter!LimiterAssumption, Limiting, Limiter!TypeOK, Count
<1>2. \A i \in 1..n : admitted[k][i] \in Nat
  BY DEF Limiter!TypeOK, Count
<1>3. n >= Limit /\ admitted[k][first] + Window > clock
  <2>1. ~(n < Limit) /\ ~(admitted[k][first] + Window <= clock)
    BY RoomByTheTail DEF Sliding
  <2>2. first \in 1..n
    BY <1>1, <2>1
  <2> QED
    BY <1>1, <1>2, <2>1, <2>2
<1>4. first \in 1..n /\ n \in 1..n
  BY <1>1, <1>3
<1>5. Limiter!Recent(k) = {i \in 1..n : admitted[k][i] + Window > clock}
  BY RecentEntry DEF Sliding
<1>6. \A i \in 1..n : i < first => admitted[k][i] + Window <= clock
  <2>1. \A i \in 1..n : n >= i + Limit => admitted[k][n] >= admitted[k][i] + Window
    BY <1>4 DEF Sliding, Limiter!WindowHolds, Count
  <2>2. admitted[k][n] <= clock
    BY <1>4 DEF Sliding, InOrder
  <2> QED
    BY <1>1, <1>2, <1>4, <2>1, <2>2
<1>7. \A i \in 1..n : first <= i => admitted[k][first] <= admitted[k][i]
  BY <1>4 DEF Sliding, InOrder
<1>8. Limiter!Recent(k) = first..n
  BY <1>1, <1>2, <1>3, <1>4, <1>5, <1>6, <1>7
<1>9. (CHOOSE i \in Limiter!Recent(k) : \A j \in Limiter!Recent(k) : i <= j) = first
  <2>1. first \in Limiter!Recent(k) /\ \A j \in Limiter!Recent(k) : first <= j
    BY <1>1, <1>4, <1>8
  <2>2. \A i \in Limiter!Recent(k) : (\A j \in Limiter!Recent(k) : i <= j) => i = first
    BY <1>1, <1>8, <2>1
  <2> QED
    BY <2>1, <2>2
<1> QED
  BY <1>1, <1>2, <1>3, <1>4, <1>8, <1>9 DEF Limiter!FreeAgain
----------------------------------------------------------------------------
(* The inductive invariant at the start.                                     *)
LEMMA LimitingInit == Limiter!LimiterAssumption /\ Limiter!Init => Limiting
<1> SUFFICES ASSUME Limiter!LimiterAssumption, Limiter!Init PROVE Limiting
  OBVIOUS
<1>1. \A k \in Sources : Count(k) = 0
  BY DEF Limiter!Init, Count
<1>2. Limiter!TypeOK
  BY <1>1 DEF Limiter!Init, Limiter!TypeOK, Count
<1>3. Sliding
  BY <1>1 DEF Sliding, InOrder, KeepsTheRecent, Limiter!WindowHolds, Count
<1>4. ToldByTheTail
  BY DEF Limiter!Init, ToldByTheTail
<1> QED
  BY <1>2, <1>3, <1>4 DEF Limiting

(* An admission: the new entry is the last one and the window before it was *)
(* not full.                                                                *)
LEMMA AdmitLimits ==
  ASSUME Limiting, NEW c \in Callers, Limiter!Admit(c)
  PROVE  Limiting'
<1> DEFINE k == KeyOf[c]
           n == Count(k)
<1>1. k \in Sources /\ Limit \in Nat \ {0} /\ Window \in Nat \ {0}
  BY DEF Limiter!LimiterAssumption, Limiting
<1>2. n \in Nat /\ clock \in Nat /\ clock' = clock /\ \A i \in 1..n : admitted[k][i] \in Nat
  BY <1>1 DEF Limiting, Limiter!TypeOK, Count, Limiter!Admit
<1>3. /\ admitted' = [admitted EXCEPT ![k] = Append(@, clock)]
      /\ events' = [events EXCEPT ![k] = Limiter!Recent(k) \cup {n + 1}]
  BY DEF Limiter!Admit, Count
<1>4. \A l \in Sources \ {k} : admitted'[l] = admitted[l] /\ events'[l] = events[l]
  BY <1>3 DEF Limiting, Limiter!TypeOK
<1>5. /\ admitted'[k] = Append(admitted[k], clock)
      /\ events'[k] = Limiter!Recent(k) \cup {n + 1}
  BY <1>1, <1>3 DEF Limiting, Limiter!TypeOK
<1>6. /\ Count(k)' = n + 1
      /\ \A i \in 1..n : admitted'[k][i] = admitted[k][i]
      /\ admitted'[k][n + 1] = clock
  BY <1>1, <1>2, <1>5 DEF Limiting, Limiter!TypeOK, Count
<1>7. \A l \in Sources \ {k} : Count(l)' = Count(l)
  BY <1>4 DEF Count
<1>8. Limiter!Recent(k) = {i \in 1..n : admitted[k][i] + Window > clock}
  BY <1>1, RecentEntry DEF Limiting, Sliding
<1>9. Limiter!TypeOK'
  <2>1. admitted' \in [Sources -> Seq(Nat)]
    BY <1>1, <1>2, <1>3 DEF Limiting, Limiter!TypeOK
  <2>2. events' \in [Sources -> SUBSET Nat]
    BY <1>1, <1>2, <1>3, <1>8 DEF Limiting, Limiter!TypeOK
  <2>3. \A l \in Sources : events'[l] \subseteq 1..Len(admitted'[l])
    BY <1>2, <1>4, <1>5, <1>6, <1>8 DEF Limiting, Limiter!TypeOK, Count
  <2>4. told' \in [Callers -> Nat \cup {None}]
    BY DEF Limiting, Limiter!TypeOK, Limiter!Admit
  <2> QED
    BY <1>2, <2>1, <2>2, <2>3, <2>4 DEF Limiter!TypeOK
<1>10. InOrder'
  <2> SUFFICES ASSUME NEW l \in Sources
               PROVE  /\ \A i, j \in 1..Count(l)' : i <= j => admitted'[l][i] <= admitted'[l][j]
                      /\ \A i \in 1..Count(l)' : admitted'[l][i] <= clock'
    BY DEF InOrder
  <2>1. CASE l = k
    <3>1. /\ \A i, j \in 1..n : i <= j => admitted[k][i] <= admitted[k][j]
          /\ \A i \in 1..n : admitted[k][i] <= clock
      BY <1>1 DEF Limiting, Sliding, InOrder
    <3>2. \A i \in 1..(n + 1) : i \in 1..n \/ i = n + 1
      BY <1>2
    <3>3. \A i \in 1..(n + 1) : admitted'[k][i] <= clock
      BY <1>2, <1>6, <3>1, <3>2
    <3>4. ASSUME NEW i \in 1..(n + 1), NEW j \in 1..(n + 1), i <= j
          PROVE  admitted'[k][i] <= admitted'[k][j]
      <4>1. CASE j \in 1..n
        <5>1. i \in 1..n
          BY <1>2, <3>2, <3>4, <4>1
        <5> QED
          BY <1>6, <3>1, <3>4, <4>1, <5>1
      <4>2. CASE j = n + 1
        BY <1>6, <3>3, <4>2
      <4> QED
        BY <3>2, <4>1, <4>2
    <3> QED
      BY <1>2, <1>6, <2>1, <3>3, <3>4
  <2>2. CASE l # k
    BY <1>2, <1>4, <1>7, <2>2 DEF Limiting, Sliding, InOrder
  <2> QED
    BY <2>1, <2>2
<1>11. KeepsTheRecent'
  <2> SUFFICES ASSUME NEW l \in Sources, NEW i \in 1..Count(l)',
                      admitted'[l][i] + Window > clock'
               PROVE  i \in events'[l]
    BY DEF KeepsTheRecent
  <2>1. CASE l = k
    <3>1. i \in 1..n \/ i = n + 1
      BY <1>2, <1>6, <2>1
    <3> QED
      BY <1>2, <1>5, <1>6, <1>8, <2>1, <3>1
  <2>2. CASE l # k
    BY <1>2, <1>4, <1>7, <2>2 DEF Limiting, Sliding, KeepsTheRecent
  <2> QED
    BY <2>1, <2>2
<1>12. Limiter!WindowHolds'
  <2> SUFFICES ASSUME NEW l \in Sources, NEW i \in 1..Count(l)', NEW j \in 1..Count(l)',
                      j >= i + Limit
               PROVE  admitted'[l][j] >= admitted'[l][i] + Window
    BY DEF Limiter!WindowHolds, Count
  <2>1. CASE l = k /\ j \in 1..n
    <3>1. i \in 1..n
      BY <1>1, <1>2, <2>1
    <3> QED
      BY <1>1, <1>6, <2>1, <3>1 DEF Limiting, Sliding, Limiter!WindowHolds, Count
  <2>2. CASE l = k /\ j = n + 1
    <3>1. Limiter!Room(k)
      BY DEF Limiter!Admit
    <3>2. i \in 1..n /\ n >= Limit /\ i <= n - Limit + 1 /\ n - Limit + 1 \in 1..n
      BY <1>1, <1>2, <1>6, <2>2
    <3>3. admitted[k][n - Limit + 1] + Window <= clock
      BY <1>1, <1>2, <3>1, <3>2, RoomByTheTail DEF Limiting, Sliding
    <3>4. admitted[k][i] <= admitted[k][n - Limit + 1]
      BY <1>1, <3>2 DEF Limiting, Sliding, InOrder
    <3> QED
      BY <1>1, <1>2, <1>6, <2>2, <3>2, <3>3, <3>4
  <2>3. CASE l # k
    BY <1>4, <1>7, <2>3 DEF Limiting, Sliding, Limiter!WindowHolds, Count
  <2>4. l = k => j \in 1..n \/ j = n + 1
    BY <1>2, <1>6
  <2> QED
    BY <2>1, <2>2, <2>3, <2>4
<1>13. ToldByTheTail'
  <2> SUFFICES ASSUME NEW d \in Callers, told'[d] # None
               PROVE  /\ Count(KeyOf[d])' >= Limit
                      /\ told'[d] = admitted'[KeyOf[d]][Count(KeyOf[d])' - Limit + 1] + Window
    BY DEF ToldByTheTail
  <2>1. KeyOf[d] # k /\ told'[d] = told[d]
    BY DEF Limiter!Admit
  <2>2. KeyOf[d] \in Sources
    BY DEF Limiter!LimiterAssumption, Limiting
  <2> QED
    BY <1>4, <1>7, <2>1, <2>2 DEF Limiting, ToldByTheTail
<1> QED
  BY <1>9, <1>10, <1>11, <1>12, <1>13 DEF Limiting, Sliding

(* A refusal drops entries that have left the window and promises the time *)
(* the oldest of the others leaves it.                                     *)
LEMMA RefuseLimits ==
  ASSUME Limiting, NEW c \in Callers, Limiter!Refuse(c)
  PROVE  Limiting'
<1> DEFINE k == KeyOf[c]
<1>1. k \in Sources
  BY DEF Limiter!LimiterAssumption, Limiting
<1>2. clock' = clock /\ admitted' = admitted /\ \A l \in Sources : Count(l)' = Count(l)
  BY DEF Limiter!Refuse, Count
<1>3. /\ Count(k) >= Limit
      /\ Limiter!FreeAgain(k) = admitted[k][Count(k) - Limit + 1] + Window
      /\ Limiter!FreeAgain(k) \in Nat
  BY <1>1, ToldTheTail DEF Limiting, Limiter!Refuse
<1>4. Limiter!Recent(k) \subseteq events[k]
  BY DEF Limiter!Recent
<1>5. /\ events' = [events EXCEPT ![k] = Limiter!Recent(k)]
      /\ told' = [told EXCEPT ![c] = Limiter!FreeAgain(k)]
  BY DEF Limiter!Refuse
<1>6. Limiter!TypeOK'
  BY <1>1, <1>2, <1>3, <1>4, <1>5 DEF Limiting, Limiter!TypeOK
<1>7. InOrder' /\ Limiter!WindowHolds'
  BY <1>2 DEF Limiting, Sliding, InOrder, Limiter!WindowHolds, Count
<1>8. KeepsTheRecent'
  <2> SUFFICES ASSUME NEW l \in Sources, NEW i \in 1..Count(l),
                      admitted[l][i] + Window > clock
               PROVE  i \in events'[l]
    BY <1>2 DEF KeepsTheRecent
  <2>1. i \in events[l]
    BY DEF Limiting, Sliding, KeepsTheRecent
  <2>2. CASE l = k
    BY <1>1, <1>5, <2>1, <2>2 DEF Limiting, Limiter!TypeOK, Limiter!Recent
  <2>3. CASE l # k
    BY <1>1, <1>5, <2>1, <2>3 DEF Limiting, Limiter!TypeOK
  <2> QED
    BY <2>2, <2>3
<1>9. ToldByTheTail'
  <2> SUFFICES ASSUME NEW d \in Callers, told'[d] # None
               PROVE  /\ Count(KeyOf[d])' >= Limit
                      /\ told'[d] = admitted'[KeyOf[d]][Count(KeyOf[d])' - Limit + 1] + Window
    BY DEF ToldByTheTail
  <2>1. KeyOf[d] \in Sources
    BY DEF Limiter!LimiterAssumption, Limiting
  <2>2. CASE d = c
    BY <1>2, <1>3, <1>5, <2>1, <2>2 DEF Limiting, Limiter!TypeOK
  <2>3. CASE d # c
    BY <1>2, <1>5, <2>1, <2>3 DEF Limiting, Limiter!TypeOK, ToldByTheTail
  <2> QED
    BY <2>2, <2>3
<1> QED
  BY <1>6, <1>7, <1>8, <1>9 DEF Limiting, Sliding

(* Time makes admissions older and disturbs nothing else.                    *)
LEMMA TickLimits ==
  ASSUME Limiting, Limiter!Tick
  PROVE  Limiting'
<1>1. /\ clock \in Nat /\ clock' = clock + 1
      /\ admitted' = admitted /\ events' = events /\ told' = told
  BY DEF Limiting, Limiter!TypeOK, Limiter!Tick
<1>2. Window \in Nat /\ \A k \in Sources : \A i \in 1..Count(k) : admitted[k][i] \in Nat
  BY DEF Limiter!LimiterAssumption, Limiting, Limiter!TypeOK, Count
<1>3. Limiter!TypeOK'
  BY <1>1 DEF Limiting, Limiter!TypeOK
<1>4. InOrder' /\ KeepsTheRecent'
  BY <1>1, <1>2 DEF Limiting, Sliding, InOrder, KeepsTheRecent, Count
<1>5. Limiter!WindowHolds' /\ ToldByTheTail'
  BY <1>1 DEF Limiting, Sliding, Limiter!WindowHolds, ToldByTheTail, Count
<1> QED
  BY <1>3, <1>4, <1>5 DEF Limiting, Sliding

(* Every step preserves the inductive invariant.                             *)
LEMMA LimitingStep ==
  ASSUME Limiting, [Limiter!Next]_(Limiter!vars)
  PROVE  Limiting'
<1>1. ASSUME NEW c \in Callers, Limiter!Admit(c)
      PROVE  Limiting'
  BY <1>1, AdmitLimits
<1>2. ASSUME NEW c \in Callers, Limiter!Refuse(c)
      PROVE  Limiting'
  BY <1>2, RefuseLimits
<1>3. CASE Limiter!Tick
  BY <1>3, TickLimits
<1>4. CASE UNCHANGED Limiter!vars
  BY <1>4
  DEF Limiter!vars, Limiting, Limiter!TypeOK, Sliding, InOrder, KeepsTheRecent, Limiter!WindowHolds,
      ToldByTheTail, Count
<1> QED
  BY <1>1, <1>2, <1>3, <1>4 DEF Limiter!Next

----------------------------------------------------------------------------
(* No window of any length and limit admits one request too many, whoever *)
(* shares the key and however often it is refused (rateLimiter.js:9-24).  *)
LEMMA WindowAlwaysHolds ==
  Limiter!LimiterAssumption => (Limiter!Spec => [](Limiter!TypeOK /\ Limiter!WindowHolds))
<1>1. Limiting => Limiter!TypeOK /\ Limiter!WindowHolds
  BY DEF Limiting, Sliding
<1> QED
  BY <1>1, LimitingInit, LimitingStep, PTL DEF Limiter!Spec

(* The Map keeps at most Limit entries of a key (rateLimiter.js:16).         *)
LEMMA EntriesAlwaysBounded ==
  Limiter!LimiterAssumption => (Limiter!Spec => []Limiter!EntriesBounded)
<1>1. Limiter!LimiterAssumption /\ Limiter!Init => Limiter!EntriesBounded
  BY FS_EmptySet, SameCardinality
  DEF Limiter!LimiterAssumption, Limiting, Limiter!Init, Limiter!EntriesBounded
<1>2. Limiting /\ Limiter!EntriesBounded /\ [Limiter!Next]_(Limiter!vars) => Limiter!EntriesBounded'
  <2> SUFFICES ASSUME Limiting, Limiter!EntriesBounded, [Limiter!Next]_(Limiter!vars),
                      NEW k \in Sources
               PROVE  Cardinality(events'[k]) <= Limit
    BY SameCardinality DEF Limiter!EntriesBounded
  <2>1. /\ IsFiniteSet(Limiter!Recent(k)) /\ Cardinality(Limiter!Recent(k)) \in Nat
        /\ Cardinality(Limiter!Recent(k)) <= Cardinality(events[k])
        /\ Cardinality(events[k]) <= Limit
        /\ Cardinality(events[k]) \in Nat
        /\ Limit \in Nat
    BY RecentFinite, FS_CardinalityType, SameCardinality
    DEF Limiter!LimiterAssumption, Limiting, Limiter!EntriesBounded
  <2>2. ASSUME NEW c \in Callers, Limiter!Admit(c)
        PROVE  Cardinality(events'[k]) <= Limit
    <3>1. CASE KeyOf[c] = k
      <4>1. events'[k] = Limiter!Recent(k) \cup {Len(admitted[k]) + 1}
        BY <2>2, <3>1 DEF Limiter!Admit, Limiting, Limiter!TypeOK
      <4>2. Cardinality(Limiter!Recent(k)) < Limit
        BY <2>2, <3>1, SameCardinality DEF Limiter!Admit, Limiter!Room
      <4>3. Cardinality(Limiter!Recent(k) \cup {Len(admitted[k]) + 1}) =
              IF Len(admitted[k]) + 1 \in Limiter!Recent(k)
              THEN Cardinality(Limiter!Recent(k)) ELSE Cardinality(Limiter!Recent(k)) + 1
        BY <2>1, FS_AddElement
      <4> QED
        BY <2>1, <4>1, <4>2, <4>3
    <3>2. CASE KeyOf[c] # k
      BY <2>1, <2>2, <3>2 DEF Limiter!Admit, Limiting, Limiter!TypeOK
    <3> QED
      BY <3>1, <3>2
  <2>3. ASSUME NEW c \in Callers, Limiter!Refuse(c)
        PROVE  Cardinality(events'[k]) <= Limit
    <3>1. CASE KeyOf[c] = k
      <4>1. events'[k] = Limiter!Recent(k)
        BY <2>3, <3>1 DEF Limiter!Refuse, Limiting, Limiter!TypeOK
      <4> QED
        BY <2>1, <4>1
    <3>2. CASE KeyOf[c] # k
      BY <2>1, <2>3, <3>2 DEF Limiter!Refuse, Limiting, Limiter!TypeOK
    <3> QED
      BY <3>1, <3>2
  <2>4. CASE Limiter!Tick
    BY <2>1, <2>4 DEF Limiter!Tick
  <2>5. CASE UNCHANGED Limiter!vars
    BY <2>1, <2>5 DEF Limiter!vars
  <2> QED
    BY <2>2, <2>3, <2>4, <2>5 DEF Limiter!Next
<1> QED
  BY <1>1, <1>2, LimitingInit, LimitingStep, PTL DEF Limiter!Spec

(* What is admitted and what is remembered stay within the limit (rateLimiter.js:9-24). *)
THEOREM LimitAlwaysHolds ==
  Limiter!LimiterAssumption => (Limiter!Spec => []LimitHolds)
<1>1. Limiter!TypeOK /\ Limiter!WindowHolds /\ Limiter!EntriesBounded => LimitHolds
  BY DEF LimitHolds, Limiter!LimitHolds
<1> QED
  BY <1>1, WindowAlwaysHolds, EntriesAlwaysBounded, PTL

(* Only a key whose own last window is full is refused (rateLimiter.js:14).  *)
LEMMA OnlyFullKeysRefused ==
  ASSUME Limiting, NEW c \in Callers
  PROVE  Limiter!FullWhenRefused(c)
<1> SUFFICES ASSUME Limiter!Refuse(c)
             PROVE  Cardinality({i \in 1..Len(admitted[KeyOf[c]]) :
                                   admitted[KeyOf[c]][i] + Window > clock}) = Limit
  BY SameCardinality DEF Limiter!FullWhenRefused
<1> DEFINE k == KeyOf[c]
<1>1. k \in Sources /\ ~Limiter!Room(k) /\ Limit \in Nat \ {0}
  BY DEF Limiter!LimiterAssumption, Limiting, Limiter!Refuse
<1>2. Limiter!Recent(k) = {i \in 1..Len(admitted[k]) : admitted[k][i] + Window > clock}
  BY <1>1, RecentEntry DEF Limiting, Sliding, Count
<1>3. Count(k) >= Limit /\ Limiter!Recent(k) = (Count(k) - Limit + 1)..Count(k)
  BY <1>1, ToldTheTail DEF Limiting
<1>4. Count(k) \in Nat
  BY <1>1 DEF Limiting, Limiter!TypeOK, Count
<1>5. Cardinality((Count(k) - Limit + 1)..Count(k)) = Limit
  BY <1>1, <1>3, <1>4, FS_Interval
<1> QED
  BY <1>2, <1>3, <1>5

(* The time a refused caller is told is exact: with no other admission of *)
(* the key in between it gets in from then on, and nobody before          *)
(* (rateLimiter.js:15).                                                   *)
LEMMA WaitingIsAlwaysEnough ==
  ASSUME Limiting, NEW c \in Callers
  PROVE  Limiter!WaitingIsEnough(c)
<1> DEFINE k == KeyOf[c]
<1> SUFFICES ASSUME told[c] # None
             PROVE  (Limiter!Refuse(c) => clock < told[c]) /\ (Limiter!Admit(c) => clock >= told[c])
  BY DEF Limiter!WaitingIsEnough
<1>1. k \in Sources /\ Limit \in Nat \ {0}
  BY DEF Limiter!LimiterAssumption, Limiting
<1>2. Count(k) >= Limit /\ told[c] = admitted[k][Count(k) - Limit + 1] + Window
  BY DEF Limiting, ToldByTheTail
<1>3. Count(k) \in Nat /\ clock \in Nat /\ told[c] \in Nat
  BY <1>1 DEF Limiting, Limiter!TypeOK, Count
<1>4. Limiter!Room(k) <=> told[c] <= clock
  BY <1>1, <1>2, <1>3, RoomByTheTail DEF Limiting, Sliding
<1> QED
  BY <1>3, <1>4 DEF Limiter!Refuse, Limiter!Admit

(* Refusals hit full windows only and name the earliest time that is free  *)
(* (rateLimiter.js:14-15).                                                 *)
THEOREM RefusalsAlwaysJust ==
  Limiter!LimiterAssumption => (Limiter!Spec => RefusalsAreJust)
<1>1. Limiting /\ [Limiter!Next]_(Limiter!vars) =>
        [Limiter!RefusalIsJust]_<<clock, admitted, events, told>>
  BY OnlyFullKeysRefused, WaitingIsAlwaysEnough DEF Limiter!RefusalIsJust, Limiter!vars
<1> QED
  BY <1>1, LimitingInit, LimitingStep, PTL
  DEF Limiter!Spec, RefusalsAreJust

----------------------------------------------------------------------------
(* The audit trail.  A call that tells of an effect is the only one, and   *)
(* once the last connection is closed the flush waits for the writes of    *)
(* everyone who was answered (AnsweredAreSeen).                            *)

\* The calls that have told of their effect or are about to.
Tellers == lines \cup {r \in Calls : call[r] = "committed"}

TellersAreTrue ==
  /\ \A r \in Tellers : EffectOf[r] \in effects
  /\ \A r, s \in Tellers : EffectOf[r] = EffectOf[s] => r = s

\* Nobody is answered any more once the last connection is closed, and the
\* flush has seen the writes of all who were.
AnsweredAreSeen ==
  /\ process \in {"flushing", "ending", "exited"} => open = {}
  /\ \A r \in Calls : call[r] = "accepted" =>
       /\ write[r] # "none"
       /\ process = "flushing" => r \notin Trail!Pending \/ r \in waiting
       /\ process \in {"ending", "exited"} => r \notin Trail!Pending

Telling == Trail!TrailAssumption /\ Trail!TypeOK /\ TellersAreTrue /\ AnsweredAreSeen

----------------------------------------------------------------------------
(* The inductive invariant at the start.                                     *)
LEMMA TellingInit ==
  ASSUME Trail!TrailAssumption, Trail!Init
  PROVE  Telling
  BY DEF Trail!TrailAssumption, Trail!Init, Telling, Trail!TypeOK, TellersAreTrue,
         Tellers, AnsweredAreSeen, Trail!Pending

(* A call that records is the first to tell of its effect.                   *)
LEMMA CommitTells ==
  ASSUME Telling, NEW r \in Calls, Trail!Commit(r)
  PROVE  Telling'
<1>1. Trail!TypeOK'
  BY DEF Trail!TrailAssumption, Trail!Commit, Telling, Trail!TypeOK
<1>2. Tellers' = Tellers \cup {r}
  BY DEF Trail!Commit, Telling, Trail!TypeOK, Tellers
<1>3. TellersAreTrue'
  BY <1>2 DEF Trail!Commit, Telling, TellersAreTrue
<1>4. AnsweredAreSeen'
  BY DEF Trail!Commit, Telling, Trail!TypeOK, AnsweredAreSeen, Trail!Pending
<1> QED
  BY <1>1, <1>3, <1>4 DEF Telling

LEMMA RecordTells ==
  ASSUME Telling, NEW r \in Calls, Trail!Record(r)
  PROVE  Telling'
<1>1. Trail!TypeOK'
  BY DEF Trail!Record, Trail!Recorded, Trail!Heard, Trail!Alive, Telling, Trail!TypeOK
<1>2. Tellers' = Tellers
  BY DEF Trail!Record, Trail!Recorded, Trail!Heard, Telling, Trail!TypeOK, Tellers
<1>3. TellersAreTrue'
  BY <1>2 DEF Trail!Record, Telling, TellersAreTrue
<1>4. AnsweredAreSeen'
  <2>1. process' = process /\ open' = open /\ waiting' = waiting
    BY DEF Trail!Record
  <2>2. \A s \in Calls \ {r} : call'[s] = call[s] /\ write'[s] = write[s]
    BY DEF Trail!Record, Trail!Recorded, Telling, Trail!TypeOK
  <2>3. call'[r] = "accepted" => process \notin {"flushing", "ending", "exited"}
    BY DEF Trail!Record, Trail!Heard, Telling, Trail!TypeOK, AnsweredAreSeen
  <2>4. write'[r] # "none"
    BY DEF Trail!Record, Trail!Recorded, Telling, Trail!TypeOK
  <2> QED
    BY <2>1, <2>2, <2>3, <2>4 DEF Telling, AnsweredAreSeen, Trail!Pending
<1> QED
  BY <1>1, <1>3, <1>4 DEF Telling

(* Replays, refusals and lost answers tell nothing.                          *)
LEMMA AnswerTells ==
  ASSUME Telling, NEW r \in Calls, Trail!Replay(r) \/ Trail!Throw(r)
  PROVE  Telling'
<1>1. Trail!TypeOK'
  BY DEF Trail!Replay, Trail!Throw, Trail!Heard, Telling, Trail!TypeOK
<1>2. Tellers' \subseteq Tellers /\ effects' = effects
  BY DEF Trail!Replay, Trail!Throw, Trail!Heard, Telling, Trail!TypeOK, Tellers
<1>3. TellersAreTrue'
  BY <1>2 DEF Telling, TellersAreTrue
<1>4. AnsweredAreSeen'
  BY DEF Trail!Replay, Trail!Throw, Trail!Heard, Telling, Trail!TypeOK, AnsweredAreSeen,
         Trail!Pending
<1> QED
  BY <1>1, <1>3, <1>4 DEF Telling

LEMMA ConnectionTells ==
  ASSUME Telling, NEW r \in Calls, Trail!Begin(r) \/ Trail!HangUp(r)
  PROVE  Telling'
<1>1. Trail!TypeOK'
  BY DEF Trail!Begin, Trail!HangUp, Telling, Trail!TypeOK
<1>2. Tellers' \subseteq Tellers /\ effects' = effects
  BY DEF Trail!Begin, Trail!HangUp, Telling, Trail!TypeOK, Tellers
<1>3. TellersAreTrue'
  BY <1>2 DEF Telling, TellersAreTrue
<1>4. AnsweredAreSeen'
  BY DEF Trail!Begin, Trail!HangUp, Telling, Trail!TypeOK, AnsweredAreSeen, Trail!Pending
<1> QED
  BY <1>1, <1>3, <1>4 DEF Telling

(* A write only ever leaves the pending ones.                                *)
LEMMA WritingTells ==
  ASSUME Telling, NEW r \in Calls, Trail!Writing(r)
  PROVE  Telling'
<1>1. write[r] # "none" /\ process' = process /\ UNCHANGED <<call, open, effects, lines, waiting>>
  BY DEF Trail!Writing, Trail!Land, Trail!Settle, Trail!Fail
<1>2. Trail!TypeOK'
  <2>1. r \in lines
    BY <1>1 DEF Telling, Trail!TypeOK
  <2> QED
    BY <2>1 DEF Trail!Writing, Trail!Land, Trail!Settle, Trail!Fail, Telling, Trail!TypeOK
<1>3. TellersAreTrue'
  BY <1>1 DEF Telling, TellersAreTrue, Tellers
<1>4. /\ Trail!Pending' \subseteq Trail!Pending
      /\ \A s \in Calls : write[s] # "none" => write'[s] # "none"
  BY DEF Trail!Writing, Trail!Land, Trail!Settle, Trail!Fail, Telling, Trail!TypeOK,
         Trail!Pending
<1>5. AnsweredAreSeen'
  BY <1>1, <1>4 DEF Telling, AnsweredAreSeen
<1> QED
  BY <1>2, <1>3, <1>5 DEF Telling

(* The life of the process.                                                  *)
LEMMA ProcessTells ==
  ASSUME Telling, \/ Trail!Signal \/ Trail!Close \/ Trail!Flushed
                  \/ Trail!Exit \/ Trail!Kill \/ Trail!Start
  PROVE  Telling'
<1>1. CASE Trail!Signal \/ Trail!Close \/ Trail!Flushed \/ Trail!Exit \/ Trail!Kill
  <2>1. /\ UNCHANGED <<call, effects, lines, write>>
        /\ Trail!Pending' = Trail!Pending /\ Tellers' = Tellers
    BY <1>1
    DEF Trail!Signal, Trail!Close, Trail!Flushed, Trail!Exit, Trail!Kill, Trail!Pending,
        Tellers
  <2>2. Trail!Pending \subseteq lines
    BY DEF Telling, Trail!TypeOK, Trail!Pending
  <2>3. Trail!TypeOK'
    BY <1>1, <2>2
    DEF Trail!Signal, Trail!Close, Trail!Flushed, Trail!Exit, Trail!Kill, Telling,
        Trail!TypeOK
  <2>4. TellersAreTrue'
    BY <2>1 DEF Telling, TellersAreTrue
  <2>5. AnsweredAreSeen'
    BY <1>1, <2>1
    DEF Trail!Signal, Trail!Close, Trail!Flushed, Trail!Exit, Trail!Kill, Trail!Alive,
        Telling, AnsweredAreSeen
  <2> QED
    BY <2>3, <2>4, <2>5 DEF Telling
<1>2. CASE Trail!Start
  <2>1. Trail!TypeOK'
    BY <1>2 DEF Trail!TrailAssumption, Trail!Start, Trail!Pending, Telling, Trail!TypeOK
  <2>2. Tellers' \subseteq Tellers /\ effects' = effects
    BY <1>2 DEF Trail!Start, Tellers, Telling, Trail!TypeOK
  <2>3. TellersAreTrue'
    BY <2>2 DEF Telling, TellersAreTrue
  <2>4. AnsweredAreSeen'
    BY <1>2
    DEF Trail!Start, Trail!Pending, Trail!Working, Telling, Trail!TypeOK, AnsweredAreSeen
  <2> QED
    BY <2>1, <2>3, <2>4 DEF Telling
<1> QED
  BY <1>1, <1>2

(* Every step preserves the inductive invariant.                             *)
LEMMA TellingStep ==
  ASSUME Telling, [Trail!Next]_(Trail!vars)
  PROVE  Telling'
<1>1. ASSUME NEW r \in Calls,
             Trail!Begin(r) \/ Trail!Handler(r) \/ Trail!HangUp(r) \/ Trail!Writing(r)
      PROVE  Telling'
  BY <1>1, CommitTells, RecordTells, AnswerTells, ConnectionTells,
     WritingTells
  DEF Trail!Handler
<1>2. CASE UNCHANGED Trail!vars
  BY <1>2
  DEF Trail!vars, Telling, Trail!TypeOK, TellersAreTrue, Tellers, AnsweredAreSeen,
      Trail!Pending
<1> QED
  BY <1>1, <1>2, ProcessTells DEF Trail!Next

(* Hence the invariant holds throughout.                                     *)
LEMMA TellingAlways == Trail!TrailAssumption => (Trail!Spec => []Telling)
<1>1. Trail!TrailAssumption /\ Trail!Init => Telling
  BY TellingInit
<1>2. Telling /\ [Trail!Next]_(Trail!vars) => Telling'
  BY TellingStep
<1> QED
  BY <1>1, <1>2, PTL DEF Trail!Spec

(* An orderly exit keeps the events of everyone who was answered *)
(* (index.js:126-132, auditLog.js:86-88).                        *)
THEOREM AnsweredIsAlwaysKept ==
  Trail!TrailAssumption => (Trail!Spec => []AnsweredIsKept)
<1>1. Telling => AnsweredIsKept
  BY DEF Telling, Trail!TypeOK, AnsweredAreSeen, AnsweredIsKept, Trail!AnsweredIsKept,
         Trail!Pending
<1> QED
  BY <1>1, TellingAlways, PTL DEF Trail!Spec

(* Each effect is told once and only if it happened *)
(* (sandboxPaymentService.js:254-261 and :330).     *)
THEOREM TrailIsAlwaysTrue ==
  Trail!TrailAssumption => (Trail!Spec => []TrailIsTrue)
<1>1. Telling => TrailIsTrue
  BY DEF Telling, TellersAreTrue, Tellers, Trail!ToldOnce, Trail!TellsWhatHappened,
         TrailIsTrue, Trail!TrailIsTrue
<1> QED
  BY <1>1, TellingAlways, PTL DEF Trail!Spec

----------------------------------------------------------------------------
(* Migrations.  The lock makes the starts take turns, so that what the one *)
(* whose turn it is has read and done is the whole truth about the applied *)
(* files (Knows).                                                          *)
Turn(i) == stage[i] \in {"reading", "scanning", "inserting", "committing",
                      "unlocking", "failing"}

TakeTurns == \A i \in Starts : Turn(i) => lock = i

\* The files applied are the ones read and the ones the loop has passed.
Knows ==
  \A i \in Starts :
    /\ stage[i] \in {"off", "locking", "reading"} => at[i] = 1
    /\ stage[i] \in {"scanning", "inserting", "committing", "unlocking"} =>
         /\ seen[i] \subseteq 1..Len(ran)
         /\ \A x \in 1..Len(ran) : x \in seen[i] \/ x < at[i]
         /\ at[i] <= Len(ran) + 1
    /\ stage[i] \in {"inserting", "committing"} =>
         tx[i] = at[i] /\ at[i] = Len(ran) + 1
    /\ stage[i] = "unlocking" => Release[i] < at[i]
    /\ stage[i] = "up" => Release[i] <= Len(ran)

Migrating ==
  /\ Migrate!MigrationsAssumption
  /\ Migrate!TypeOK
  /\ TakeTurns
  /\ Migrate!EachOnceInOrder
  /\ Knows
  /\ Migrate!NoneFailsAnother

----------------------------------------------------------------------------
(* In order means that the applied files are the first ones.                 *)
LEMMA AppliedAreFirst ==
  ASSUME Migrate!EachOnceInOrder
  PROVE  Migrate!Applied = 1..Len(ran)
  BY DEF Migrate!EachOnceInOrder, Migrate!Applied

(* The inductive invariant at the start.                                     *)
LEMMA MigratingInit ==
  ASSUME Migrate!MigrationsAssumption, Migrate!Init
  PROVE  Migrating
  BY DEF Migrate!MigrationsAssumption, Migrate!Init, Migrating,
         Migrate!TypeOK, TakeTurns, Turn, Migrate!EachOnceInOrder, Knows, Migrate!NoneFailsAnother

(* What happens to a start whose turn it is not, and to the applied files.   *)
LEMMA MigratingStep ==
  ASSUME Migrating, [Migrate!Next]_(Migrate!vars)
  PROVE  Migrating'
<1>0. /\ Len(ran) \in Nat
      /\ \A i \in Starts : Release[i] \in Nat /\ at[i] \in Nat \ {0} /\ tx[i] \in Nat
      /\ Nobody \notin Starts
  BY DEF Migrate!MigrationsAssumption, Migrating, Migrate!TypeOK
<1>1. ASSUME NEW i \in Starts, Migrate!Connect(i)
      PROVE  Migrating'
  BY <1>0, <1>1
  DEF Migrate!Connect, Migrate!Goto, Migrating, Migrate!TypeOK, TakeTurns, Turn,
      Migrate!EachOnceInOrder, Knows, Migrate!NoneFailsAnother
<1>2. ASSUME NEW i \in Starts, Migrate!Lock(i)
      PROVE  Migrating'
  BY <1>0, <1>2
  DEF Migrate!Lock, Migrate!Goto, Migrating, Migrate!TypeOK, TakeTurns, Turn,
      Migrate!EachOnceInOrder, Knows, Migrate!NoneFailsAnother
<1>3. ASSUME NEW i \in Starts, Migrate!Read(i)
      PROVE  Migrating'
  <2>1. Migrate!Applied = 1..Len(ran)
    BY AppliedAreFirst DEF Migrating
  <2>2. /\ seen' = [seen EXCEPT ![i] = 1..Len(ran)]
        /\ stage' = [stage EXCEPT ![i] = "scanning"]
        /\ UNCHANGED <<lock, at, tx, ran, cause>>
    BY <1>3, <2>1 DEF Migrate!Read, Migrate!Goto
  <2>3. 1..Len(ran) \in SUBSET Nat /\ at[i] = 1 /\ stage[i] = "reading"
    BY <1>0, <1>3 DEF Migrate!Read, Migrating, Knows
  <2>4. Migrate!TypeOK' /\ TakeTurns' /\ Migrate!EachOnceInOrder' /\ Migrate!NoneFailsAnother'
    BY <2>2, <2>3
    DEF Migrating, Migrate!TypeOK, TakeTurns, Turn, Migrate!EachOnceInOrder,
        Migrate!NoneFailsAnother
  <2>5. Knows'
    <3>1. seen'[i] = 1..Len(ran) /\ stage'[i] = "scanning"
      BY <2>2 DEF Migrating, Migrate!TypeOK
    <3>2. \A j \in Starts \ {i} : seen'[j] = seen[j] /\ stage'[j] = stage[j]
      BY <2>2 DEF Migrating, Migrate!TypeOK
    <3>3. 1 <= Len(ran) + 1
      BY <1>0
    <3> QED
      BY <2>2, <2>3, <3>1, <3>2, <3>3 DEF Migrating, Knows
  <2> QED
    BY <2>4, <2>5 DEF Migrating
<1>4. ASSUME NEW i \in Starts, Migrate!Skip(i)
      PROVE  Migrating'
  <2>1. /\ at' = [at EXCEPT ![i] = @ + 1]
        /\ stage[i] = "scanning" /\ at[i] \in seen[i]
        /\ UNCHANGED <<stage, lock, seen, tx, ran, cause>>
    BY <1>4 DEF Migrate!Skip
  <2>2. at[i] \in 1..Len(ran)
    BY <2>1 DEF Migrating, Knows
  <2>3. Migrate!TypeOK' /\ TakeTurns' /\ Migrate!EachOnceInOrder' /\ Migrate!NoneFailsAnother'
    BY <1>0, <2>1
    DEF Migrating, Migrate!TypeOK, TakeTurns, Turn, Migrate!EachOnceInOrder,
        Migrate!NoneFailsAnother
  <2>4. Knows'
    <3>1. at'[i] = at[i] + 1 /\ \A j \in Starts \ {i} : at'[j] = at[j]
      BY <2>1 DEF Migrating, Migrate!TypeOK
    <3> QED
      BY <1>0, <2>1, <2>2, <3>1 DEF Migrating, Knows
  <2> QED
    BY <2>3, <2>4 DEF Migrating
<1>5. ASSUME NEW i \in Starts, Migrate!Apply(i)
      PROVE  Migrating'
  <2>1. /\ stage[i] = "scanning" /\ at[i] \notin seen[i]
        /\ tx' = [tx EXCEPT ![i] = at[i]]
        /\ stage' = [stage EXCEPT ![i] = "inserting"]
        /\ UNCHANGED <<lock, seen, at, ran, cause>>
    BY <1>5 DEF Migrate!Apply, Migrate!Goto
  <2>2. at[i] = Len(ran) + 1
    <3>1. at[i] <= Len(ran) + 1 /\ at[i] \notin 1..Len(ran)
      BY <1>0, <2>1 DEF Migrating, Knows
    <3> QED
      BY <1>0, <3>1
  <2>3. Migrate!TypeOK' /\ TakeTurns' /\ Migrate!EachOnceInOrder' /\ Migrate!NoneFailsAnother'
    BY <1>0, <2>1
    DEF Migrating, Migrate!TypeOK, TakeTurns, Turn, Migrate!EachOnceInOrder,
        Migrate!NoneFailsAnother
  <2>4. Knows'
    <3>1. tx'[i] = at[i] /\ stage'[i] = "inserting"
      BY <2>1 DEF Migrating, Migrate!TypeOK
    <3>2. \A j \in Starts \ {i} : tx'[j] = tx[j] /\ stage'[j] = stage[j]
      BY <2>1 DEF Migrating, Migrate!TypeOK
    <3> QED
      BY <2>1, <2>2, <3>1, <3>2 DEF Migrating, Knows
  <2> QED
    BY <2>3, <2>4 DEF Migrating
<1>6. ASSUME NEW i \in Starts, Migrate!Insert(i)
      PROVE  Migrating'
  <2>1. tx[i] = Len(ran) + 1 /\ tx[i] \notin Migrate!Applied
    BY <1>0, <1>6, AppliedAreFirst DEF Migrate!Insert, Migrating, Knows
  <2>2. Migrate!Goto(i, "committing") /\ UNCHANGED <<lock, seen, at, tx, ran, cause>>
    BY <1>6, <2>1 DEF Migrate!Insert
  <2> QED
    BY <1>0, <1>6, <2>2
    DEF Migrate!Insert, Migrate!Goto, Migrating, Migrate!TypeOK, TakeTurns, Turn,
        Migrate!EachOnceInOrder, Knows, Migrate!NoneFailsAnother
<1>7. ASSUME NEW i \in Starts, Migrate!Commit(i)
      PROVE  Migrating'
  <2>1. tx[i] = Len(ran) + 1 /\ at[i] = Len(ran) + 1 /\ lock = i
    BY <1>7 DEF Migrate!Commit, Migrating, Knows, TakeTurns, Turn
  <2>2. /\ Len(ran') = Len(ran) + 1
        /\ \A k \in 1..Len(ran) : ran'[k] = ran[k]
        /\ ran'[Len(ran) + 1] = Len(ran) + 1
        /\ ran' \in Seq(Nat)
    BY <1>0, <1>7, <2>1 DEF Migrate!Commit, Migrating, Migrate!TypeOK
  <2>3. Migrate!EachOnceInOrder'
    BY <1>0, <2>2 DEF Migrating, Migrate!EachOnceInOrder
  <2>4. Migrate!TypeOK' /\ TakeTurns' /\ Migrate!NoneFailsAnother'
    BY <1>0, <1>7, <2>2
    DEF Migrate!Commit, Migrate!Goto, Migrating, Migrate!TypeOK, TakeTurns, Turn,
        Migrate!NoneFailsAnother
  <2>5. Knows'
    <3>1. \A j \in Starts \ {i} : ~Turn(j)
      BY <2>1 DEF Migrating, TakeTurns
    <3> QED
      BY <1>0, <1>7, <2>1, <2>2, <3>1
      DEF Migrate!Commit, Migrate!Goto, Migrating, Migrate!TypeOK, Turn, Knows
  <2> QED
    BY <2>3, <2>4, <2>5 DEF Migrating
<1>8. ASSUME NEW i \in Starts, Migrate!Finish(i)
      PROVE  Migrating'
  BY <1>0, <1>8
  DEF Migrate!Finish, Migrate!Goto, Migrating, Migrate!TypeOK, TakeTurns, Turn,
      Migrate!EachOnceInOrder, Knows, Migrate!NoneFailsAnother
<1>9. ASSUME NEW i \in Starts, Migrate!Refuse(i)
      PROVE  Migrating'
  BY <1>0, <1>9
  DEF Migrate!Refuse, Migrate!Goto, Migrating, Migrate!TypeOK, TakeTurns, Turn,
      Migrate!EachOnceInOrder, Knows, Migrate!NoneFailsAnother
<1>10. ASSUME NEW i \in Starts, Migrate!Unlock(i)
       PROVE  Migrating'
  <2>1. lock = i /\ lock' = Nobody
    BY <1>10 DEF Migrate!Unlock, Migrate!Freed, Migrating, TakeTurns, Turn
  <2>2. \A j \in Starts \ {i} : ~Turn(j)
    BY <2>1 DEF Migrating, TakeTurns
  <2>3. Migrate!TypeOK' /\ TakeTurns' /\ Migrate!EachOnceInOrder' /\ Migrate!NoneFailsAnother'
    BY <1>0, <1>10, <2>1, <2>2
    DEF Migrate!Unlock, Migrate!Goto, Migrating, Migrate!TypeOK, TakeTurns, Turn,
        Migrate!EachOnceInOrder, Migrate!NoneFailsAnother
  <2>4. Knows'
    BY <1>0, <1>10, <2>2
    DEF Migrate!Unlock, Migrate!Goto, Migrating, Migrate!TypeOK, Turn, Knows
  <2> QED
    BY <2>3, <2>4 DEF Migrating
<1>11. ASSUME NEW i \in Starts, Migrate!Lose(i)
       PROVE  Migrating'
  <2>1. /\ stage' = [stage EXCEPT ![i] = "failed"]
        /\ UNCHANGED <<seen, at>>
    BY <1>11 DEF Migrate!Lose, Migrate!Goto
  <2>2. \/ ran' = ran
        \/ /\ stage[i] = "committing"
           /\ lock = i
           /\ Len(ran') = Len(ran) + 1
           /\ \A k \in 1..Len(ran) : ran'[k] = ran[k]
           /\ ran'[Len(ran) + 1] = Len(ran) + 1
           /\ ran' \in Seq(Nat)
    <3>1. CASE ran' = ran
      BY <3>1
    <3>2. CASE stage[i] = "committing" /\ ran' = Append(ran, tx[i])
      <4>1. tx[i] = Len(ran) + 1 /\ lock = i
        BY <3>2 DEF Migrating, Knows, TakeTurns, Turn
      <4>2. ran \in Seq(Nat) /\ tx[i] \in Nat
        BY <1>0 DEF Migrating, Migrate!TypeOK
      <4> QED
        BY <3>2, <4>1, <4>2
    <3> QED
      BY <1>11, <3>1, <3>2 DEF Migrate!Lose
  <2>3. Migrate!EachOnceInOrder'
    BY <1>0, <2>2 DEF Migrating, Migrate!EachOnceInOrder
  <2>4. TakeTurns'
    BY <1>11, <2>1
    DEF Migrate!Lose, Migrate!Freed, Migrating, Migrate!TypeOK, TakeTurns, Turn
  <2>5. Migrate!TypeOK' /\ Migrate!NoneFailsAnother'
    BY <1>0, <1>11, <2>1, <2>2
    DEF Migrate!Lose, Migrate!Freed, Migrating, Migrate!TypeOK, Migrate!NoneFailsAnother
  <2>6. Knows'
    <3>1. ran' = ran \/ \A j \in Starts \ {i} : ~Turn(j)
      BY <2>2 DEF Migrating, TakeTurns
    <3>2. tx' = [tx EXCEPT ![i] = 0]
      BY <1>11 DEF Migrate!Lose
    <3>3. stage'[i] = "failed" /\ \A j \in Starts \ {i} : stage'[j] = stage[j] /\ tx'[j] = tx[j]
      BY <2>1, <3>2 DEF Migrating, Migrate!TypeOK
    <3>4. Len(ran') \in Nat /\ Len(ran') >= Len(ran)
      BY <1>0, <2>2
    <3>5. CASE ran' = ran
      BY <2>1, <3>3, <3>5 DEF Migrating, Knows
    <3>6. CASE \A j \in Starts \ {i} : ~Turn(j)
      BY <1>0, <2>1, <3>3, <3>4, <3>6 DEF Migrating, Turn, Knows
    <3> QED
      BY <3>1, <3>5, <3>6
  <2> QED
    BY <2>3, <2>4, <2>5, <2>6 DEF Migrating
<1>12. CASE UNCHANGED Migrate!vars
  BY <1>12
  DEF Migrate!vars, Migrating, Migrate!TypeOK, TakeTurns, Turn, Migrate!EachOnceInOrder,
      Knows, Migrate!NoneFailsAnother
<1> QED
  BY <1>1, <1>2, <1>3, <1>4, <1>5, <1>6, <1>7, <1>8, <1>9, <1>10, <1>11, <1>12
  DEF Migrate!Next, Migrate!Step

----------------------------------------------------------------------------
(* A start that comes up finds every migration of its release applied *)
(* (postgresSessionStore.js:60).                                      *)
LEMMA UpIsAlwaysMigrated ==
  ASSUME Migrating
  PROVE  Migrate!UpIsMigrated
<1> SUFFICES ASSUME NEW i \in Starts, stage[i] = "up"
             PROVE  1..Release[i] \subseteq Migrate!Applied
  BY DEF Migrate!UpIsMigrated
<1>1. Migrate!Applied = 1..Len(ran) /\ Release[i] <= Len(ran)
  BY AppliedAreFirst DEF Migrating, Knows
<1>2. Len(ran) \in Nat /\ Release[i] \in Nat
  BY DEF Migrate!MigrationsAssumption, Migrating, Migrate!TypeOK
<1> QED
  BY <1>1, <1>2

(* Each migration is applied once and in the order of its number, whoever is up *)
(* has those of its release, and no start runs into the primary key of          *)
(* schema_migrations (migrations.js:29-43).                                     *)
THEOREM SchemaAlwaysHolds ==
  Migrate!MigrationsAssumption => (Migrate!Spec => []SchemaHolds)
<1>1. Migrating => SchemaHolds
  BY UpIsAlwaysMigrated DEF Migrating, SchemaHolds, Migrate!SchemaHolds
<1>2. Migrate!MigrationsAssumption /\ Migrate!Init => Migrating
  BY MigratingInit
<1>3. Migrating /\ [Migrate!Next]_(Migrate!vars) => Migrating'
  BY MigratingStep
<1> QED
  BY <1>1, <1>2, <1>3, PTL DEF Migrate!Spec
=================================================================================
