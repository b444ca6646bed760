---------------------------- MODULE JsonSessionStore ----------------------------
(****************************************************************************)
(* The server without a database: SessionStore keeps guest sessions and the *)
(* settled rounds in maps of one process, JsonSessionPersistence writes the *)
(* sessions, and only them, to a file after every change, and               *)
(* CasinoService.spin plays on them.                                        *)
(*                                                                          *)
(* One process executes one handler at a time and gives way at each await:  *)
(* a spin is four steps, everything else is one. Writing the file fails     *)
(* when the disk does; the call then throws with the maps already changed.  *)
(****************************************************************************)
EXTENDS Integers, FiniteSets, Functions

CONSTANTS
  Requests,         \* calls of spin
  Keys,             \* idempotency keys
  Bets,             \* allowedBets, in cents
  Payouts,          \* totalWin of a draw, in cents
  StartingBalance,  \* of a new session, in cents
  IdleTtl,          \* idleTtlMs
  AbsoluteTtl,      \* absoluteTtlMs
  MaxSessions,      \* bound: session ids ever issued
  MaxTime,          \* bound: the clock
  MaxRestarts,      \* bound: stops of the process
  MaxFailures       \* bound: writes of the file that fail

MoneyAssumption ==
  /\ Bets \subseteq Nat \ {0} /\ Payouts \subseteq Nat /\ StartingBalance \in Nat
  /\ Keys # {} /\ Bets # {} /\ Payouts # {}
BoundsAssumption ==
  /\ {IdleTtl, AbsoluteTtl, MaxSessions, MaxTime, MaxRestarts, MaxFailures} \subseteq Nat
  /\ MaxSessions # 0

VARIABLES
  sessions,  \* SessionStore.sessions: id -> row
  rounds,    \* SessionStore.gameRounds: set of rounds
  disk,      \* the sessions in the file
  now,       \* the clock
  pc,        \* request -> what it does when it next runs
  ask,       \* request -> what was asked
  balance,   \* request -> session.balance as getSession returned it
  payout,    \* request -> totalWin it has drawn
  answer,    \* request -> its answer
  settled,   \* history: every round applied to a session, with the process that did it
  issued,    \* history: how many session ids were issued
  root,      \* history: id -> the session it was rotated from at first
  born,      \* history: id -> when it was issued
  restarts, failures  \* what has gone wrong so far

mapVars == <<sessions, rounds, disk>>
callVars == <<pc, ask, balance, payout, answer>>
historyVars == <<settled, issued, root, born, restarts, failures>>
vars == <<mapVars, callVars, historyVars, now>>

Ids == 1..MaxSessions
Row == [balance : Int, spins : Nat, created : Nat, seen : Nat]
Round == [owner : Ids, key : Keys, bet : Bets, payout : Payouts, by : Requests]
Ask == [session : Ids, key : Keys, bet : Bets]

NoAnswer == [kind |-> "none"]
Answers == [kind : {"none", "missing", "conflict", "refused", "changed", "failed"}]
  \cup [kind : {"settled", "replayed"}, round : Round]

TypeOK ==
  /\ DOMAIN sessions \subseteq 1..issued /\ \A i \in DOMAIN sessions : sessions[i] \in Row
  /\ DOMAIN disk \subseteq 1..issued /\ \A i \in DOMAIN disk : disk[i] \in Row
  /\ rounds \subseteq Round
  /\ now \in 0..MaxTime /\ issued \in 0..MaxSessions
  /\ pc \in [Requests -> {"idle", "get", "lookup", "draw", "apply", "done"}]
  /\ ask \in [Requests -> Ask]
  /\ balance \in [Requests -> Int]
  /\ payout \in [Requests -> Payouts]
  /\ answer \in [Requests -> Answers]
  /\ \A s \in settled : s.round \in Round /\ s.life \in 0..MaxRestarts /\ s.at \in 0..MaxTime
  /\ root \in [Ids -> Ids] /\ born \in [Ids -> 0..MaxTime]

-----------------------------------------------------------------------------
(* The maps and the file *)

Expired(row) == now - row.seen > IdleTtl \/ now - row.created > AbsoluteTtl

(* What findMutable finds, and the map it leaves. *)
Has(i) == i \in DOMAIN sessions
Finds(i) == Has(i) /\ ~Expired(sessions[i])
Without(f, i) == [j \in DOMAIN f \ {i} |-> f[j]]
With(f, i, row) == [j \in DOMAIN f \cup {i} |-> IF j = i THEN row ELSE f[j]]

Touch(row) == [row EXCEPT !.seen = now]

(* save writes a temporary file and renames it: the file is the old or the new *)
(* one. ok is FALSE when writing throws.                                       *)
Save(ok) ==
  /\ ok \/ failures < MaxFailures
  /\ failures' = IF ok THEN failures ELSE failures + 1
  /\ disk' = IF ok THEN sessions' ELSE disk

NoSave == UNCHANGED <<disk, failures>>

Answer(r, a) == answer' = [answer EXCEPT ![r] = a] /\ pc' = [pc EXCEPT ![r] = "done"]
Fail(r) == Answer(r, [kind |-> "failed"])
Goto(r, to) == pc' = [pc EXCEPT ![r] = to] /\ UNCHANGED answer

(* A session that findMutable finds expired is removed, and the file saved. *)
DropExpired(i, ok) ==
  /\ Has(i) /\ Expired(sessions[i])
  /\ sessions' = Without(sessions, i)
  /\ Save(ok)

-----------------------------------------------------------------------------
(* Sessions: openSession, getSession, rotateSession, invalidateSession *)

NewRow == [balance |-> StartingBalance, spins |-> 0, created |-> now, seen |-> now]

Issue(from) ==
  /\ issued < MaxSessions
  /\ issued' = issued + 1
  /\ root' = [root EXCEPT ![issued + 1] = root[from]]
  /\ born' = [born EXCEPT ![issued + 1] = now]

(* openSession without a session: create. *)
Open(ok) ==
  /\ Issue(issued + 1)
  /\ sessions' = With(sessions, issued + 1, NewRow)
  /\ Save(ok)
  /\ UNCHANGED <<rounds, callVars, settled, restarts, now>>

(* openSession or getSession of a live session; of an expired one, the row goes. *)
Resume(i, ok) ==
  /\ \/ Finds(i) /\ sessions' = With(sessions, i, Touch(sessions[i])) /\ Save(ok)
     \/ DropExpired(i, ok)
  /\ UNCHANGED <<rounds, callVars, settled, issued, root, born, restarts, now>>

RotatedFresh(row) == [row EXCEPT !.created = now, !.seen = now]

RotatedRow(row) == [row EXCEPT !.seen = now]

Rotate(i, ok) ==
  /\ \/ /\ Finds(i)
        /\ Issue(i)
        /\ sessions' = With(Without(sessions, i), issued + 1, RotatedRow(sessions[i]))
        /\ Save(ok)
     \/ DropExpired(i, ok) /\ UNCHANGED <<issued, root, born>>
  /\ UNCHANGED <<rounds, callVars, settled, restarts, now>>

Invalidate(i, ok) ==
  /\ Has(i)
  /\ sessions' = Without(sessions, i)
  /\ Save(ok)
  /\ UNCHANGED <<rounds, callVars, settled, issued, root, born, restarts, now>>

-----------------------------------------------------------------------------
(* CasinoService.spin *)

Send(r) ==
  /\ pc[r] = "idle"
  /\ \E a \in [session : 1..issued, key : Keys, bet : Bets] : ask' = [ask EXCEPT ![r] = a]
  /\ Goto(r, "get")
  /\ UNCHANGED <<mapVars, historyVars, balance, payout, now>>

GetSession(r, ok) ==
  LET i == ask[r].session IN
  /\ pc[r] = "get"
  /\ \/ /\ Finds(i)
        /\ sessions' = With(sessions, i, Touch(sessions[i]))
        /\ Save(ok)
        /\ balance' = [balance EXCEPT ![r] = sessions[i].balance]
        /\ IF ok THEN Goto(r, "lookup") ELSE Fail(r)
     \/ /\ DropExpired(i, ok)
        /\ IF ok THEN Answer(r, [kind |-> "missing"]) ELSE Fail(r)
        /\ UNCHANGED balance
     \/ /\ ~Has(i) /\ ok
        /\ Answer(r, [kind |-> "missing"])
        /\ NoSave /\ UNCHANGED <<sessions, balance>>
  /\ UNCHANGED <<rounds, ask, payout, settled, issued, root, born, restarts, now>>

(* The round kept under the owner and key of a request; the owner is the id of *)
(* the session.                                                                *)
Kept(r) == {x \in rounds : x.owner = ask[r].session /\ x.key = ask[r].key}

KeptNone(r) == {}

KeptByApply(r) == Kept(r)

(* The answer to a request whose key has a round: the round if the fingerprint, *)
(* here the bet, is the same.                                                   *)
ReplyKept(r, x) ==
  Answer(r, IF x.bet = ask[r].bet THEN [kind |-> "replayed", round |-> x] ELSE [kind |-> "conflict"])

Lookup(r) ==
  /\ pc[r] = "lookup"
  /\ \/ \E x \in Kept(r) : ReplyKept(r, x)
     \/ Kept(r) = {} /\ balance[r] < ask[r].bet /\ Answer(r, [kind |-> "refused"])
     \/ Kept(r) = {} /\ balance[r] >= ask[r].bet /\ Goto(r, "draw")
  /\ UNCHANGED <<mapVars, historyVars, ask, balance, payout, now>>

(* The rate limiter refuses, the adapter breaks its contract, or it draws. *)
Draw(r) ==
  /\ pc[r] = "draw"
  /\ \/ Fail(r) /\ UNCHANGED payout
     \/ Goto(r, "apply") /\ \E p \in Payouts : payout' = [payout EXCEPT ![r] = p]
  /\ UNCHANGED <<mapVars, historyVars, ask, balance, now>>

SettledFromSnapshot(r, row) == balance[r] - ask[r].bet + payout[r]

(* The balance a round leaves: from the session, not from what getSession saw. *)
SettledBalance(r, row) == row.balance - ask[r].bet + payout[r]

Played(r, row) == [row EXCEPT !.balance = SettledBalance(r, row), !.spins = @ + 1, !.seen = now]

RoundOf(r) == [owner |-> ask[r].session, key |-> ask[r].key, bet |-> ask[r].bet,
               payout |-> payout[r], by |-> r]

SaveLater(ok) == ok /\ NoSave

SaveRound(ok) == Save(ok)

(* applySpin: the maps change first; when the file cannot be written the round *)
(* is settled and the request fails.                                           *)
Apply(r, ok) ==
  LET i == ask[r].session IN
  /\ pc[r] = "apply"
  /\ \/ /\ Finds(i) /\ ok
        /\ \E x \in KeptByApply(r) : ReplyKept(r, x)
        /\ NoSave /\ UNCHANGED <<sessions, rounds, settled>>
     \/ /\ Finds(i) /\ KeptByApply(r) = {}
        /\ sessions' = With(sessions, i, Played(r, sessions[i]))
        /\ rounds' = rounds \cup {RoundOf(r)}
        /\ settled' = settled \cup {[round |-> RoundOf(r), life |-> restarts, at |-> now]}
        /\ SaveRound(ok)
        /\ IF ok THEN Answer(r, [kind |-> "settled", round |-> RoundOf(r)]) ELSE Fail(r)
     \/ /\ DropExpired(i, ok)
        /\ IF ok THEN Answer(r, [kind |-> "changed"]) ELSE Fail(r)
        /\ UNCHANGED <<rounds, settled>>
     \/ /\ ~Has(i) /\ ok
        /\ Answer(r, [kind |-> "changed"])
        /\ NoSave /\ UNCHANGED <<sessions, rounds, settled>>
  /\ UNCHANGED <<ask, balance, payout, issued, root, born, restarts, now>>

-----------------------------------------------------------------------------
(* The process stops and starts, time passes *)

(* The constructor loads the file and removes what has expired. A request that *)
(* was running has no answer.                                                  *)
Restart ==
  LET kept == {i \in DOMAIN disk : ~Expired(disk[i])} IN
  /\ restarts < MaxRestarts
  /\ restarts' = restarts + 1
  /\ sessions' = [i \in kept |-> disk[i]]
  /\ disk' = sessions'
  /\ rounds' = {}
  /\ pc' = [r \in Requests |-> IF pc[r] = "idle" THEN "idle" ELSE "done"]
  /\ answer' = [r \in Requests |-> IF pc[r] \in {"idle", "done"} THEN answer[r] ELSE [kind |-> "failed"]]
  /\ UNCHANGED <<ask, balance, payout, settled, issued, root, born, failures, now>>

Tick == now < MaxTime /\ now' = now + 1 /\ UNCHANGED <<mapVars, callVars, historyVars>>

Init ==
  /\ sessions = << >> /\ disk = << >> /\ rounds = {} /\ now = 0
  /\ pc = [r \in Requests |-> "idle"]
  /\ ask = [r \in Requests |-> CHOOSE a \in Ask : TRUE]
  /\ balance = [r \in Requests |-> 0]
  /\ payout = [r \in Requests |-> CHOOSE p \in Payouts : TRUE]
  /\ answer = [r \in Requests |-> NoAnswer]
  /\ settled = {} /\ issued = 0 /\ root = [i \in Ids |-> i] /\ born = [i \in Ids |-> 0]
  /\ restarts = 0 /\ failures = 0

Step(r, ok) == GetSession(r, ok) \/ (ok /\ Lookup(r)) \/ (ok /\ Draw(r)) \/ Apply(r, ok)

Next ==
  \/ \E ok \in BOOLEAN :
       \/ Open(ok)
       \/ \E i \in 1..issued : Resume(i, ok) \/ Rotate(i, ok) \/ Invalidate(i, ok)
       \/ \E r \in Requests : Step(r, ok)
  \/ \E r \in Requests : Send(r)
  \/ Restart
  \/ Tick

Spec == Init /\ [][Next]_vars

-----------------------------------------------------------------------------
(* Properties *)

Told(r) == answer[r].kind \in {"settled", "replayed"}

(* While one process runs, a session and key settle at most one round, and whoever *)
(* asks again with the same bet is told that round: retries that overlap between   *)
(* the lookup of spin and applySpin included.                                      *)
OneRoundPerOwnerKey ==
  /\ \A s, t \in settled :
       (s.life = t.life /\ s.round.owner = t.round.owner /\ s.round.key = t.round.key) => s = t
  /\ \A r \in Requests : Told(r) =>
       /\ \E s \in settled : s.round = answer[r].round
       /\ answer[r].round.bet = ask[r].bet

(* No round is settled later than the absolute limit after the first session of the *)
(* chain was opened, however often the session was rotated and saved since.         *)
ChainDeadline == \A s \in settled : s.at <= born[root[s.round.owner]] + AbsoluteTtl

Chain(i) == {s \in settled : root[s.round.owner] = root[i]}
Net(T) == SumFunctionOnSet([s \in T |-> s.round.payout - s.round.bet], T)
Acknowledged(i) ==
  {s \in Chain(i) : \E r \in Requests : answer[r] = [kind |-> "settled", round |-> s.round]}

(* Some of the rounds of its chain, all that applySpin has answered among them, *)
(* make up the balance and the spin count of a row.                             *)
Explained(i, row) ==
  \E T \in SUBSET Chain(i) : /\ Acknowledged(i) \subseteq T
                             /\ Cardinality(T) = row.spins
                             /\ row.balance = StartingBalance + Net(T)

(* A round whose settlement was answered is in the file, though writes of it may    *)
(* fail, sessions rotate and expire and the process restarts: no restart takes back *)
(* a result its player has seen.                                                    *)
AnsweredIsSaved == \A i \in DOMAIN disk : Explained(i, disk[i])

(* The balance of a running session is its starting balance and the rounds settled *)
(* on it, whatever interleaved between the balance getSession returned and         *)
(* applySpin.                                                                      *)
BalanceIsRounds == \A i \in DOMAIN sessions : Explained(i, sessions[i])

(* What the store promises of its rounds, with the process and the file as they are. *)
JsonStoreHolds ==
  TypeOK /\ OneRoundPerOwnerKey /\ ChainDeadline /\ AnsweredIsSaved /\ BalanceIsRounds
================================================================================
