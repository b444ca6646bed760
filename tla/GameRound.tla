------------------------------- MODULE GameRound -------------------------------
(****************************************************************************)
(* One spin of the PostgreSQL deployment: CasinoService.spin, the           *)
(* transaction of PostgresGameRoundExecutor.execute and the session         *)
(* statements of PostgresSessionStore that race with it.                    *)
(*                                                                          *)
(* A request is a process; its program counter names the statement it       *)
(* executes next. Each database statement is one step under READ COMMITTED, *)
(* and what a transaction has written is applied by its Commit, which is    *)
(* when other statements can see it. Row locks and the advisory lock are    *)
(* read off the program counters: a lock is held from the step that takes   *)
(* it to the step that ends the transaction, however it ends.               *)
(****************************************************************************)
EXTENDS Integers, FiniteSets, Functions

CONSTANTS
  Accounts,         \* player accounts, each with one DEMO wallet
  NoAccount,        \* "no account": an unauthenticated caller, an unused session id
  SessionIds,       \* session identifiers, the ones not issued yet included
  Requests,         \* spin requests; the id of a request is also its randomUUID spinId
  Keys,             \* idempotency keys
  Bets,             \* bets a client may ask for, in atomic units
  AllowedBets,      \* the bets the game's allowedBets lists
  Payouts,          \* payouts the random number generator can produce
  StartingBalance,  \* credit of a new account
  PoolSize,         \* clients of the connection pool
  InitialSession,   \* session id -> account it is issued for, or NoAccount
  InitialAuth       \* sessions with auth_required = TRUE at the start

ASSUME AccountsAssumption == NoAccount \notin Accounts
ASSUME BetsAssumption == Bets \subseteq Nat /\ AllowedBets \subseteq Bets \ {0}
ASSUME PayoutsAssumption == Payouts \subseteq Nat
ASSUME AskAssumption == SessionIds # {} /\ Keys # {} /\ Bets # {}
ASSUME BalanceAssumption == StartingBalance \in Nat
ASSUME PoolAssumption == PoolSize \in Nat \ {0}
ASSUME SessionAssumption ==
  /\ InitialSession \in [SessionIds -> Accounts \cup {NoAccount}]
  /\ InitialAuth \subseteq {s \in SessionIds : InitialSession[s] # NoAccount}

VARIABLES
  pc,        \* request -> next statement
  req,       \* request -> what the client sent
  owner,     \* request -> ownerId read by getSession
  seen,      \* request -> balance read by getSession, never read again from the database
  draw,      \* request -> set with the payout the generator drew, empty before
  answer,    \* request -> kind of answer the client was given
  told,      \* request -> set with the round the answer shows, or empty
  state,     \* demo_sessions: session id -> state of the row
  account,   \* demo_sessions: session id -> account_id
  auth,      \* sessions whose auth_required column is TRUE
  rounds,    \* committed rows of game_rounds
  balance,   \* committed available balance of each account
  house      \* committed balance of the demo house account

requestVars == <<pc, req, owner, seen, draw, answer, told>>
sessionVars == <<state, account, auth>>
moneyVars == <<rounds, balance, house>>
vars == <<requestVars, sessionVars, moneyVars>>

-----------------------------------------------------------------------------
(* Types *)

Row == [id : Requests, account : Accounts, key : Keys,
        bet : Nat, payout : Nat, balance : Nat]

Ask == [session : SessionIds, key : Keys, bet : Bets,
        caller : Accounts \cup {NoAccount}]

Kinds == {"none", "round", "replay", "conflict", "refused", "failed"}

PCs == {"idle", "get", "hydrate", "purge", "lookup", "connect", "lockSession",
        "purgeHeld", "lockKey", "replay", "lockWallet", "draw", "settle",
        "commit", "inDoubt", "respond", "done"}

(* Statements executed with a client of the pool checked out. *)
ClientPCs == {"lockSession", "purgeHeld", "lockKey", "replay", "lockWallet",
              "draw", "settle", "commit", "respond"}

(* Statements before which the lock has been taken and not yet released. *)
HousePCs == {"commit", "inDoubt"}
WalletPCs == {"draw", "settle"} \cup HousePCs

KeyPCsOfConnection == {"replay", "lockWallet", "respond", "done"} \cup WalletPCs

KeyPCs == {"replay", "lockWallet"} \cup WalletPCs
SessionPCs == {"lockKey"} \cup KeyPCs

TypeOK ==
  /\ pc \in [Requests -> PCs]
  /\ req \in [Requests -> Ask]
  /\ owner \in [Requests -> Accounts \cup {NoAccount}]
  /\ seen \in [Requests -> Nat]
  /\ draw \in [Requests -> SUBSET Payouts]
  /\ answer \in [Requests -> Kinds]
  /\ told \in [Requests -> SUBSET Row]
  /\ state \in [SessionIds -> {"unused", "live", "expired", "gone"}]
  /\ account \in [SessionIds -> Accounts \cup {NoAccount}]
  /\ auth \subseteq SessionIds
  /\ rounds \subseteq Row
  /\ balance \in [Accounts -> Nat]
  /\ house \in Int

-----------------------------------------------------------------------------
(* Reading the tables and the locks *)

ExistingByFingerprint(r) ==
  {x \in rounds : x.account = owner[r] /\ x.key = req[r].key /\ x.bet = req[r].bet}

(* The row a lookup by (account_id, idempotency_key) returns. *)
Existing(r) == {x \in rounds : x.account = owner[r] /\ x.key = req[r].key}

Account(r) == account[req[r].session]

(* The WHERE clause shared by the session statements: the row is inside both *)
(* time limits, and a session that requires authentication belongs to the    *)
(* caller. A statement carries the cutoffs of the moment it was built, so it *)
(* may still select a row that has expired since.                            *)
Authorized(r) == req[r].session \in auth => req[r].caller = Account(r)
Selects(r) == Authorized(r) /\ state[req[r].session] \in {"live", "expired"}
Misses(r) == ~Authorized(r) \/ state[req[r].session] # "live"

SessionFreeUnlocked(s) == TRUE

SessionFree(s) == ~ \E q \in Requests : pc[q] \in SessionPCs /\ req[q].session = s

KeyFreePerSession(r) ==
  ~ \E q \in Requests : /\ pc[q] \in KeyPCs
                        /\ req[q].session = req[r].session
                        /\ req[q].key = req[r].key

(* pg_advisory_xact_lock over "game-round:<owner>:<key>". *)
KeyFree(r) ==
  ~ \E q \in Requests : /\ pc[q] \in KeyPCs
                        /\ owner[q] = owner[r]
                        /\ req[q].key = req[r].key

(* The wallet row is free for SELECT ... FOR UPDATE. *)
WalletFree(r) == ~ \E q \in Requests : pc[q] \in WalletPCs /\ owner[q] = owner[r]

CannotPayAsSeen(r) == seen[r] < req[r].bet

(* The balance in the row the transaction has locked. *)
CannotPay(r) == balance[owner[r]] < req[r].bet

HouseFree == ~ \E q \in Requests : pc[q] \in HousePCs

(* A client of the pool is available, for a transaction or for one statement. *)
ClientFree == Cardinality({q \in Requests : pc[q] \in ClientPCs}) < PoolSize

-----------------------------------------------------------------------------
(* What a step does to the request *)

Goto(r, from, to) ==
  /\ pc[r] = from
  /\ pc' = [pc EXCEPT ![r] = to]

Reply(r, kind, row) ==
  /\ pc' = [pc EXCEPT ![r] = "done"]
  /\ answer' = [answer EXCEPT ![r] = kind]
  /\ told' = [told EXCEPT ![r] = row]

ReplyAnyExisting(r) == \E x \in Existing(r) : Reply(r, "replay", {x})

(* An existing round answers a request with the same fingerprint by its stored *)
(* response, and any other request by a conflict.                              *)
ReplyExisting(r) ==
  \E x \in Existing(r) :
    IF x.bet = req[r].bet THEN Reply(r, "replay", {x}) ELSE Reply(r, "conflict", {})

(* last_seen_at moves to the timestamp of the statement or transaction, which  *)
(* may bring a row back inside the idle limit but not inside the absolute one. *)
Touch(s) ==
  \E new \in {state[s], "live"} : state' = [state EXCEPT ![s] = new]

DeleteIfExpired(s) ==
  IF state[s] = "expired"
  THEN SessionFree(s) /\ state' = [state EXCEPT ![s] = "gone"]
  ELSE UNCHANGED state

-----------------------------------------------------------------------------
(* The statements of one spin *)

Send(r, a) ==
  /\ state[a.session] # "unused"
  /\ Goto(r, "idle", "get")
  /\ req' = [req EXCEPT ![r] = a]
  /\ UNCHANGED <<owner, seen, draw, answer, told, sessionVars, moneyVars>>

(* PostgresSessionStore.get: UPDATE ... SET last_seen_at. *)
GetSession(r) ==
  /\ ClientFree
  /\ \/ /\ Selects(r)
        /\ SessionFree(req[r].session)
        /\ Goto(r, "get", "hydrate")
        /\ owner' = [owner EXCEPT ![r] = Account(r)]
        /\ Touch(req[r].session)
     \/ /\ Misses(r)
        /\ Goto(r, "get", "purge")
        /\ UNCHANGED <<owner, state>>
  /\ UNCHANGED <<req, seen, draw, answer, told, account, auth, moneyVars>>

(* hydrate reads the wallet in a statement of its own; the bet and the key are *)
(* validated before anything else is read.                                     *)
Hydrate(r) ==
  /\ ClientFree
  /\ pc[r] = "hydrate"
  /\ seen' = [seen EXCEPT ![r] = balance[owner[r]]]
  /\ IF req[r].bet \in AllowedBets
     THEN Goto(r, "hydrate", "lookup") /\ UNCHANGED <<answer, told>>
     ELSE Reply(r, "refused", {})
  /\ UNCHANGED <<req, owner, draw, sessionVars, moneyVars>>

(* deleteExpiredSession after a get that found nothing, then SESSION_REQUIRED. *)
Purge(r) ==
  /\ ClientFree
  /\ pc[r] = "purge"
  /\ DeleteIfExpired(req[r].session)
  /\ Reply(r, "refused", {})
  /\ UNCHANGED <<req, owner, seen, draw, account, auth, moneyVars>>

(* getSpinReplay, outside any transaction, then the check of the balance that *)
(* getSession returned.                                                       *)
Lookup(r) ==
  /\ ClientFree
  /\ pc[r] = "lookup"
  /\ \/ ReplyExisting(r)
     \/ /\ Existing(r) = {}
        /\ IF seen[r] < req[r].bet
           THEN Reply(r, "refused", {})
           ELSE Goto(r, "lookup", "connect") /\ UNCHANGED <<answer, told>>
  /\ UNCHANGED <<req, owner, seen, draw, sessionVars, moneyVars>>

(* pool.connect and BEGIN. *)
Connect(r) ==
  /\ ClientFree
  /\ Goto(r, "connect", "lockSession")
  /\ UNCHANGED <<req, owner, seen, draw, answer, told, sessionVars, moneyVars>>

(* SELECT ... FROM demo_sessions ... FOR UPDATE; no row, or a row of another *)
(* account, rolls back.                                                      *)
LockSession(r) ==
  /\ pc[r] = "lockSession"
  /\ \/ /\ Selects(r)
        /\ SessionFree(req[r].session)
        /\ IF Account(r) = owner[r]
           THEN Goto(r, "lockSession", "lockKey") /\ UNCHANGED <<answer, told>>
           ELSE Reply(r, "refused", {})
     \/ /\ Misses(r)
        /\ Goto(r, "lockSession", "purgeHeld")
        /\ UNCHANGED <<answer, told>>
  /\ UNCHANGED <<req, owner, seen, draw, sessionVars, moneyVars>>

(* deleteExpiredSession goes to the pool for a second client while the first *)
(* one, whose transaction is over, is released only afterwards.              *)
PurgeHeld(r) ==
  /\ ClientFree
  /\ pc[r] = "purgeHeld"
  /\ DeleteIfExpired(req[r].session)
  /\ Reply(r, "refused", {})
  /\ UNCHANGED <<req, owner, seen, draw, account, auth, moneyVars>>

(* The advisory lock, then the lookup in a snapshot taken after it is held. *)
LockKey(r) ==
  /\ KeyFree(r)
  /\ Goto(r, "lockKey", IF Existing(r) # {} THEN "replay" ELSE "lockWallet")
  /\ UNCHANGED <<req, owner, seen, draw, answer, told, sessionVars, moneyVars>>

(* Touch the session and commit. *)
Replay(r) ==
  /\ pc[r] = "replay"
  /\ Touch(req[r].session)
  /\ ReplyExisting(r)
  /\ UNCHANGED <<req, owner, seen, draw, account, auth, moneyVars>>

(* SELECT balance_atomic ... FOR UPDATE and the check against the bet. *)
LockWallet(r) ==
  /\ pc[r] = "lockWallet"
  /\ WalletFree(r)
  /\ IF CannotPay(r)
     THEN Reply(r, "refused", {})
     ELSE Goto(r, "lockWallet", "draw") /\ UNCHANGED <<answer, told>>
  /\ UNCHANGED <<req, owner, seen, draw, sessionVars, moneyVars>>

(* resolveResult: the generator is invoked while the locks are held ... *)
Draw(r, payout) ==
  /\ Goto(r, "draw", "settle")
  /\ draw' = [draw EXCEPT ![r] = {payout}]
  /\ UNCHANGED <<req, owner, seen, answer, told, sessionVars, moneyVars>>

(* ... unless the rate limiter refuses first. *)
RateLimited(r) ==
  /\ pc[r] = "draw"
  /\ Reply(r, "refused", {})
  /\ UNCHANGED <<req, owner, seen, draw, sessionVars, moneyVars>>

(* settleDemoGame: the conditional UPDATE of the wallet, then the UPDATE that *)
(* locks the house account. The inserts that follow wait for nobody.          *)
Settle(r) ==
  /\ pc[r] = "settle"
  /\ IF CannotPay(r)
     THEN Reply(r, "refused", {})
     ELSE HouseFree /\ Goto(r, "settle", "commit") /\ UNCHANGED <<answer, told>>
  /\ UNCHANGED <<req, owner, seen, draw, sessionVars, moneyVars>>

Settlement(r, payout) ==
  [id |-> r, account |-> owner[r], key |-> req[r].key, bet |-> req[r].bet,
   payout |-> payout, balance |-> balance[owner[r]] - req[r].bet + payout]

PublishWithoutStake(r, from, to) ==
  /\ Goto(r, from, to)
  /\ \E payout \in draw[r] :
       /\ rounds' = rounds \cup {Settlement(r, payout)}
       /\ balance' = [balance EXCEPT ![owner[r]] = @ - req[r].bet + payout]
       /\ house' = house - payout
  /\ Touch(req[r].session)

(* COMMIT publishes the wallet, the house, the session and the round. *)
Publish(r, from, to) ==
  /\ Goto(r, from, to)
  /\ \E payout \in draw[r] :
       /\ rounds' = rounds \cup {Settlement(r, payout)}
       /\ balance' = [balance EXCEPT ![owner[r]] = @ - req[r].bet + payout]
       /\ house' = house + req[r].bet - payout
  /\ Touch(req[r].session)

(* INSERT INTO game_rounds fails on a duplicate (account_id, idempotency_key); *)
(* otherwise COMMIT.                                                           *)
Commit(r) ==
  /\ pc[r] = "commit"
  /\ IF Existing(r) # {}
     THEN Reply(r, "failed", {}) /\ UNCHANGED <<state, moneyVars>>
     ELSE Publish(r, "commit", "respond") /\ UNCHANGED <<answer, told>>
  /\ UNCHANGED <<req, owner, seen, draw, account, auth>>

(* The connection is lost, or the instance stops, while COMMIT is on its way: *)
(* the client has its error and the server still holds the transaction.       *)
LoseCommit(r) ==
  /\ Goto(r, "commit", "inDoubt")
  /\ Existing(r) = {}
  /\ answer' = [answer EXCEPT ![r] = "failed"]
  /\ UNCHANGED <<req, owner, seen, draw, told, sessionVars, moneyVars>>

(* The server commits what the client has given up, or finds the connection *)
(* gone and rolls back.                                                     *)
Resolve(r) ==
  /\ \/ Publish(r, "inDoubt", "done")
     \/ Goto(r, "inDoubt", "done") /\ UNCHANGED <<state, moneyVars>>
  /\ UNCHANGED <<req, owner, seen, draw, answer, told, account, auth>>

(* The client is released and the response of the committed round returned. *)
Respond(r) ==
  /\ pc[r] = "respond"
  /\ Reply(r, "round", {x \in rounds : x.id = r})
  /\ UNCHANGED <<req, owner, seen, draw, sessionVars, moneyVars>>

KnownOutcome == "refused"

(* The answer the client can draw no conclusion from. *)
UnknownOutcome == "failed"

(* Any statement, or the generator, throws; the connection is lost, before or *)
(* after the server has committed; or the instance stops, which ends every    *)
(* request it serves. PostgreSQL rolls back what was not committed, and the   *)
(* client is left with an error or without an answer.                         *)
Fail(r) ==
  /\ pc[r] \notin {"idle", "inDoubt", "done"}
  /\ Reply(r, UnknownOutcome, {})
  /\ UNCHANGED <<req, owner, seen, draw, sessionVars, moneyVars>>

Step(r) ==
  \/ GetSession(r) \/ Hydrate(r) \/ Purge(r) \/ Lookup(r) \/ Connect(r)
  \/ LockSession(r) \/ PurgeHeld(r) \/ LockKey(r) \/ Replay(r) \/ LockWallet(r)
  \/ \E payout \in Payouts : Draw(r, payout)
  \/ RateLimited(r) \/ Settle(r) \/ Commit(r) \/ Resolve(r) \/ Respond(r)

-----------------------------------------------------------------------------
(* Session statements of other requests *)

(* Time passes the idle or the absolute limit of a session. *)
Expire(s) ==
  /\ state[s] = "live"
  /\ state' = [state EXCEPT ![s] = "expired"]
  /\ UNCHANGED <<requestVars, account, auth, moneyVars>>

(* pruneExpired, run when an instance starts. *)
PruneExpired(s) ==
  /\ state[s] = "expired"
  /\ DeleteIfExpired(s)
  /\ UNCHANGED <<requestVars, account, auth, moneyVars>>

Invalidate(s) ==
  /\ state[s] \in {"live", "expired"}
  /\ SessionFree(s)
  /\ state' = [state EXCEPT ![s] = "gone"]
  /\ UNCHANGED <<requestVars, account, auth, moneyVars>>

(* The same row under a new random id. *)
Rotate(s, t) ==
  /\ state[s] \in {"live", "expired"}
  /\ state[t] = "unused"
  /\ SessionFree(s)
  /\ \E new \in {state[s], "live"} : state' = [state EXCEPT ![s] = "gone", ![t] = new]
  /\ account' = [account EXCEPT ![t] = account[s]]
  /\ auth' = IF s \in auth THEN auth \cup {t} ELSE auth
  /\ UNCHANGED <<requestVars, moneyVars>>

(* createForAccount: an account with credentials gets a further session. *)
OpenForAccount(t, a) ==
  /\ state[t] = "unused"
  /\ \E s \in auth : account[s] = a
  /\ state' = [state EXCEPT ![t] = "live"]
  /\ account' = [account EXCEPT ![t] = a]
  /\ auth' = auth \cup {t}
  /\ UNCHANGED <<requestVars, moneyVars>>

(* upgradeGuest turns auth_required on for a session, whatever its age, of an *)
(* account without credentials.                                               *)
RequireAuth(s) ==
  /\ state[s] \in {"live", "expired"}
  /\ \A t \in auth : account[t] # account[s]
  /\ SessionFree(s)
  /\ auth' = auth \cup {s}
  /\ UNCHANGED <<requestVars, state, account, moneyVars>>

SessionStatement ==
  \/ \E s \in SessionIds : \/ Expire(s) \/ PruneExpired(s)
                           \/ Invalidate(s) \/ RequireAuth(s)
  \/ \E s, t \in SessionIds : Rotate(s, t)
  \/ \E t \in SessionIds, a \in Accounts : OpenForAccount(t, a)

-----------------------------------------------------------------------------
(* The specification *)

Init ==
  /\ pc = [r \in Requests |-> "idle"]
  /\ req = [r \in Requests |-> CHOOSE a \in Ask : TRUE]
  /\ owner = [r \in Requests |-> NoAccount]
  /\ seen = [r \in Requests |-> 0]
  /\ draw = [r \in Requests |-> {}]
  /\ answer = [r \in Requests |-> "none"]
  /\ told = [r \in Requests |-> {}]
  /\ state = [s \in SessionIds |-> IF InitialSession[s] = NoAccount THEN "unused" ELSE "live"]
  /\ account = InitialSession
  /\ auth = InitialAuth
  /\ rounds = {}
  /\ balance = [a \in Accounts |-> StartingBalance]
  /\ house = 0

Terminated == (\A r \in Requests : pc[r] = "done") /\ UNCHANGED vars

Next ==
  \/ \E r \in Requests : \/ \E a \in Ask : Send(r, a)
                         \/ Step(r)
                         \/ Fail(r)
                         \/ LoseCommit(r)
  \/ SessionStatement
  \/ Terminated

(* The event loop keeps running every request and PostgreSQL grants each lock *)
(* that stays free; nothing makes a client send, a session end or a database  *)
(* fail.                                                                      *)
Spec == Init /\ [][Next]_vars /\ \A r \in Requests : WF_vars(Step(r))

-----------------------------------------------------------------------------
(* Properties *)

Drawn(r) == draw[r] # {}

(* The request is over and no round of its own was settled. *)
Abandoned(r) == pc[r] = "done" /\ \A x \in rounds : x.id # r

SameRound(q, r) == owner[q] = owner[r] /\ req[q].key = req[r].key

(* "A concurrent retry can therefore never rerun RNG": of two requests of one *)
(* account and key that have both drawn, one is over without a settled round, *)
(* whatever sessions or instances they came through.                          *)
OneLiveDraw ==
  \A q, r \in Requests :
    q # r /\ Drawn(q) /\ Drawn(r) /\ SameRound(q, r) => Abandoned(q) \/ Abandoned(r)

(* An account and an idempotency key have at most one settled round, however    *)
(* often, through however many sessions and with whatever bet it was asked for. *)
OneRoundPerKey ==
  \A x, y \in rounds : x.account = y.account /\ x.key = y.key => x = y

(* The response a client receives, first or replayed, is that of a committed *)
(* round of its own account and key, for the bet it asked: no client sees a  *)
(* round that was rolled back and no client is paid another request's round. *)
AnswersAreSettled ==
  \A r \in Requests :
    /\ answer[r] \in {"round", "replay"} => told[r] # {}
    /\ \A x \in told[r] :
         x \in rounds /\ x.account = owner[r] /\ x.key = req[r].key /\ x.bet = req[r].bet

(* A client told that nothing was settled (4xx) may use a new key: its request *)
(* has no round, even though the transaction had already drawn a result.       *)
RefusalSettlesNothing ==
  \A r \in Requests :
    answer[r] \in {"refused", "conflict", "replay"} => \A x \in rounds : x.id # r

(* What the rounds of a set added to the balances of their accounts. *)
Net(S) == SumFunctionOnSet([x \in S |-> x.payout - x.bet], S)
RoundsOf(a) == {x \in rounds : x.account = a}

(* Every committed round moved its stake and its payout exactly once: the     *)
(* balance of an account is its starting credit plus the net of its rounds,   *)
(* the house holds the opposite, and each stored response shows a balance the *)
(* account really had once some of its rounds were settled.                   *)
MoneyMatchesRounds ==
  /\ \A a \in Accounts : balance[a] = StartingBalance + Net(RoundsOf(a))
  /\ house = -Net(rounds)
  /\ \A x \in rounds :
       \E S \in SUBSET RoundsOf(x.account) : x \in S /\ x.balance = StartingBalance + Net(S)

(* A transaction past the session lock plays for a row that still exists, for *)
(* the account it was asked for and with that account's authorization, though *)
(* sessions rotate, expire, are invalidated and upgraded while it runs.       *)
PlaysOnOwnSession ==
  \A r \in Requests :
    pc[r] \in SessionPCs =>
      /\ state[req[r].session] \in {"live", "expired"}
      /\ Account(r) = owner[r]
      /\ req[r].session \in auth => req[r].caller = owner[r]

(* Every request that was sent is answered: the order session, key, wallet, *)
(* house of the locks leaves no cycle, and the pool always serves somebody. *)
Answered == \A r \in Requests : pc[r] = "get" ~> pc[r] = "done"

Promise == INSTANCE SpinPromise

(* The executor, with its sessions, locks, retries, rollbacks and lost answers, *)
(* is a way to keep the promise of SpinPromise: Commit settles, the last step   *)
(* of a request answers it, and every other step changes nothing it speaks of.  *)
ImplementsPromise == Promise!Spec

================================================================================
