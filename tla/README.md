# GMVKASINO: formal models

GMVKASINO is a demo casino: a browser client, a Node.js server, PostgreSQL (or,
without a `DATABASE_URL`, one process with a JSON file), a console for its staff, and
the workers that merge its pull requests. What has to be right in it is money and its
promises: a bet is settled once, a retry is answered by the round it retries, no wallet
goes negative, every posting balances; then who may act for whom, and that what a
person is shown or an auditor reads is what happened. This directory holds TLA+ models
of these parts, TLC configurations that check them on small instances, and proofs,
checked by TLAPS, that the main properties hold for every size.

Paths below are relative to the repository.

## 1. Inventory

| Component | State | Operations | Hard behaviour | Modules |
|---|---|---|---|---|
| Game rounds, `server/casinoService.js`, `server/postgresGameRoundExecutor.js` | `game_rounds`; the transaction of each round | `spin`, `execute` | retries through several sessions and instances, a lost COMMIT, crashes, four locks and a pool | `GameRound`, `SpinPromise` |
| Session store, `server/postgresSessionStore.js` | `demo_sessions` | create, get, resume, rotate, invalidate, expire, prune | a session changes under a running round or upgrade | `GameRound`, `Accounts` |
| DEMO ledger, `server/postgresLedger.js` | `ledger_accounts`, `ledger_transactions`, `ledger_entries` | settle a round | several sessions spend one wallet | `GameRound`, `Reconciliation` |
| Sandbox payments, `server/sandboxPaymentService.js`, `server/sandboxPaymentLedger.js` | `payment_operations`, `payment_events`, reserved wallets | create, transition | retried creates, reordered events, lock order of the ledger | `PaymentRules`, `SandboxPayments`, `PaymentPromise` |
| Provider webhooks, `server/paymentProviderAdapter.js`, `server/paymentWebhookVerifier.js`, `server/sandboxPaymentHttpServer.js` | none | verify, normalise, transition | late, repeated, reordered deliveries beside decisions of the staff; two clocks | `ProviderWebhooks`, `Clients` |
| Reconciliation of payments and of the ledger, restore drill | none | `reconcile`, summary, `verify-restore.mjs` | several reads without a snapshot; changes by hand | `Reconciliation` |
| Authentication, `server/accountAuthService.js`, `server/accountRecoveryService.js` | `accounts`, `auth_sessions`, recovery tokens | register, login, upgrade, reset, logout | login racing a reset, an upgrade racing a round, opposite lock orders | `AuthSessions`, `Accounts` |
| Step-up, `server/sessionStepUpService.js` | assurance columns of `auth_sessions` | `verifyAndUpgrade` | a timestamp taken before an await, a verifier awaited under a row lock | `AuthSessions` |
| HTTP, `server/httpServer.js`, `server/operationsHttpServer.js`, `server/sandboxPaymentHttpServer.js` | none | routes | sequences of calls that can stop half-way; a check that is older than the effect | `Accounts`, `StaffConsole`, `ProviderWebhooks` |
| JSON mode, `server/sessionStore.js`, `server/jsonSessionPersistence.js` | sessions in memory and in a file, rounds in memory only | as the session store, `applySpin` | overlapping spins, restarts, failing writes, rotation changing the owner | `JsonSessionStore`, `Server` |
| Rate limiter, `server/rateLimiter.js` | a window per key | `consume` | boundaries of a sliding window, callers that share a key | `RateLimiter`, `Server` |
| Audit log and shutdown, `server/auditLog.js`, `server/index.js` | pending writes, `audit_events` | record, flush, close | a write nobody awaits, handlers that outlive their connection, a second signal | `AuditTrail`, `Server` |
| Migrations, `server/migrations.js` | `schema_migrations` | `runMigrations` | several instances and releases starting at once, lost connections | `Migrations`, `Server` |
| Games, `server/gameRegistry.js`, `server/gameCertification.js`, `src/game/` | none | resolve, register, certify | wilds and scatters carried through free spins; adapters that are only sampled | `SlotGames`, `GameCertification` |
| Amounts, `server/amounts.js` | none | two conversions | digits beyond the scale, the sign of a fraction | `Amounts`, `AmountTexts` |
| Client, `src/api/casinoApi.js`, `src/components/` | session, token, what a page shows | open, spin, sign in, pay | lost answers, pages left while they load | `BrowserClient`, `Clients` |
| Operations console, `src/components/OperationsConsole.jsx` | what it shows, the token | refresh, search, select, decide | answers of several handlers in any order, roles that change | `StaffConsole`, `Clients` |
| Integration queue and wave, `scripts/ci/` | pull requests, waves, CI runs on GitHub | the two workers | two workers, authors, reviewers and merges by hand on one base | `IntegrationQueue` |

Interaction: the HTTP servers call `CasinoService`, the payment service and the
authentication service; each opens its own PostgreSQL transaction from one shared pool
and they meet in the rows of `accounts`, `demo_sessions`, `auth_sessions` and
`ledger_accounts`. There is no shared memory between instances except the database. The
client and the console meet the server in requests that get lost and answers that
arrive in any order. `PROJECT.json` lists every component with its status and every
hazard at its line with the properties about it.

## 2. Plan

Modelled and checked: everything in section 3. Proved: section 6. What is left, in
this order:

1. Proofs about `Reconciliation`: that what payments and rounds commit passes every
   check of both reconcilers, and that a drill that succeeds has restored every payment.
2. An abstract specification of the account (a token, its sessions, its address) that
   `Accounts` and `AuthSessions` both implement.
3. Proofs about what the engines of the games compute, once the provers can do the
   inductions over grids and free spins that these take.

A module composes another where the two meet: `StaffConsole`, `ProviderWebhooks`,
`Reconciliation` and `SandboxPayments` all run the transitions of `PaymentRules`;
`Server` and `Clients` put together the parts of one process and of whoever calls it;
`SandboxPayments` and `Reconciliation` play rounds on the wallets of `GameRound`;
`GameRound` takes a refusal of the limiter as a possible outcome, `RateLimiter` says
when there is one. No module holds a `RECURSIVE` operator; sums are the folds of the
community modules.

Where `PROJECT.json` names a mutant, the definition it would put in place stands just
before the one it replaces: `DeadlockedNever` before `Deadlocked`.

## 3. Modules

### GameRound

One process per spin request. `pc` names the statement the request executes next, and
every database statement is one step, because that is the unit PostgreSQL interleaves
under READ COMMITTED. `Send`, `GetSession`, `Hydrate`, `Lookup` are
`CasinoService.spin` up to the executor; `Connect` to `Commit` are
`PostgresGameRoundExecutor.execute`; `Settle` is `PostgresLedger.settleDemoGame`;
`Respond` is the rest of `spin`. `Fail` ends a request at any statement (an error, a
lost connection, a stopped instance); `LoseCommit` and `Resolve` are a COMMIT whose
outcome the client does not learn. A retry is another request with the same key: the
model does not tell a client's retry from a second client.

What a transaction writes becomes visible in `Commit`. This is exact because every
row it writes is locked by it from before its first write and nobody reads those rows
in a way that could see an uncommitted value. Locks are read off the program counters
(`SessionPCs`, `KeyPCs`, `WalletPCs`, `HousePCs`), each set adding one lock to the
next.

Sessions are rows in four states: not issued, inside both time limits, past one, gone.
A statement carries the cutoffs of the moment it was built, so `Selects` lets it find
a row that has expired since, and `Touch` may bring such a row back. `Rotate`,
`Invalidate`, `PruneExpired`, `Expire`, `OpenForAccount` and `RequireAuth` are the
statements of other requests that change a session under a running round.

Data left out: the game (every bet belongs to one game with its `allowedBets`), the
reels (a draw is a payout), the stored response (the round row is the response), spin
counters, ledger transaction and entry rows, metrics and audit calls. The fingerprint
of a request is its bet, given owner and game.

### SpinPromise

What a spin promises, in two actions: `Settle` moves a stake and a payout and records
the round, in one step; `Answer` tells a request something true. A request whose
client believes it lost ("failed") may still settle. `GameRound` implements it under
the identity mapping of `rounds`, `balance`, `house`, `answer`, `told`.

### PaymentRules and SandboxPayments

`PaymentRules` is the transition table, the posting each transition makes and what a
posting adds to each wallet; it has no state. `SandboxPayments` runs it: a process per
call of `createOperation` (named by the id it draws) and per call of `transition`
(finance staff and webhooks call the same method). Statements are steps as in
`GameRound`, but a transaction's locks depend on the operation it works on, so they
are explicit in `held`: a row lock, or the entry a transaction has inserted into a
unique index, on which another insert of the same key waits. `Wanted` is what the next
statement locks, `Take` gets it, `End` gives everything back.

A transaction's effect is one step, `Publish`, at its COMMIT. An `UPDATE ... WHERE
balance >= amount` that finds too little does not wait for the row
(`DebitAvailable`). `reserveWithdrawal` takes the available wallet and then the
reserved one, `releaseWithdrawal` the other way round: `Deadlocked` and `AbortVictim`
are PostgreSQL's answer to that. `Play` is a game round on the same wallet; it is
external here, and its settlement is the `Commit` of `GameRound`.

Data left out: transaction ids and entry rows (a posting is its idempotency key, its
entries the amounts it adds), request ids, actors, timestamps. The fingerprint of a
create call is its amount, given account and kind. The pool is not modelled: these
methods use one client and never ask for a second.

### PaymentPromise

`Effect` places an operation or applies a transition together with its event and its
money, once; `Reply` answers without one. `SandboxPayments` implements it with
`placed` mapped to the orders of the operations whose row is committed.

### ProviderWebhooks

The provider is external: it has a list of events per operation, signs each with the
time of its clock, and sends it until it is told that it was accepted. What was sent
stays on the wire and may arrive at any time, again, and out of order. `Receive` is the
route up to the verified envelope (`Within`, the tolerance in both directions),
`Accept`, `Replay` and `Refuse` are what `transition` makes of it; its statements are in
`SandboxPayments`, so it is one step here. `Decide` is the staff's route to the same
method. Signatures are taken to be right; the shape of envelopes, and one event id used
for two operations (in `SandboxPayments`), are left out. The instances use the withdrawal, a
deposit has one event only. What the provider does with an operation is a path of the
transition table (`ScriptAssumption`): it never reports what cannot follow.

### Reconciliation

`reconcile` of both reconcilers, run together as `reconciliationSummary` does, and the
restore drill. Each SELECT is a step with its own snapshot; what payments and rounds
commit is one step each. A database is one record, so that what a reconciler has read,
the copy in a dump and the present are compared with the same operators:
`PaymentMismatches` and `LedgerMismatches` are the checks applied to one instant, and
what a reader with mixed snapshots `found` is held against them (`seen`). `Tamper`
changes a row by hand: a pointer, a status, an event, a posting, the type of a posting,
an amount, a balance. Changes that give a history the application could have made (a
withdrawal failed without its approval, an amount of a pending deposit) or an equal sum
(doubled entries of a round that breaks even) are no faults here, as no check could tell.
There is one asset, so the mixed-asset check is left out; a mismatch is its code, counts
are not kept. Also no fault here: a balanced posting that no pointer names, which no check
sees (section 7). The clocks of the instances are at most one tick apart. Of the 13 tables the
drill counts (`Tables`), the model has those of payments and of the ledger, which only grow,
and `demo_sessions`, which `OpenSession` and `PruneSession` let grow and shrink. A row pruned in
the source makes up for one that the copy lacks, so equal counts show nothing of sessions and
`VerifiedIsWhole` claims nothing of them; `auth_sessions` is pruned in the same way. The other
tables are left out. `FINANCIAL_MUTATION_CONTROLS` is a table that nothing in the server reads.

### JsonSessionStore

The server without a database: the maps of `SessionStore`, the file behind them and
`CasinoService.spin` on top. One process runs one handler at a time and gives way at
each `await`, so a spin is four steps (`get`, `lookup`, `draw`, `apply`) and everything
else one. Saving fails when the disk does; the maps have changed by then. A restart
loads what was saved. `settled`, `root`, `born` are histories. Names of players and
damaged files are left out.

### Accounts

The routes that create, protect and end sessions, from the token a request presents to
the row locks: a new account, session or auth session is named by its request. Locks
are read off the program counters, a transaction is applied by its COMMIT.
`protected` is `auth_required`, `stale` a session past one of its limits, `row` the
session a rotated one came from. Logging out and upgrading are sequences of calls, with
what the second does when the first has failed. The wallet, replay and bet checks of a
round are in `GameRound`, the capability check in `StaffConsole`; headers, bodies, CORS,
static files and wording are left out.

### AuthSessions

One account: `login`, `logout`, `authenticate`, `pruneExpired`, the issuing and
consuming of recovery tokens, `resetPasswordWithRecovery` and `verifyAndUpgrade`,
statement by statement. A password is the reset that set it. `targets` is what an UPDATE
saw before it waits for the rows, `Delay` how old the timestamp of a statement can be
when it executes. The status of the account, its verified address and its MFA enrolment
are not kept: `Verify` may refuse whatever they would be.

### RateLimiter

`consume` is synchronous, hence one step. An admission is numbered and its time kept
for ever in `admitted`; the array of the limiter is the set of numbers `events[k]`.
Callers share keys as guests share the address of a proxy. The clock does not go back.
Keys are never removed from the Map (a hazard without a property: nothing promises it).

### AuditTrail

`record` between the request that commits and the shutdown that flushes. Two calls for
one effect are a request and its retry. A write to `audit_events` is left behind
unawaited (`flying`, `landed`, `stored`, `failed`; `late` once the pool has been ended).
The first signal stops the listener and waits for connections, not for handlers: a
handler whose caller hung up goes on beside the flush. `process.once` makes a second
signal of the same kind a kill. Left out: the ring of recent events, which no route
reads, and the contents of an event.

### Migrations

A start, or `db:migrate`, from `pool.connect()` to the released connection. A release
has the files 1..n, because files are only added behind others. `Lose` ends a
connection anywhere, with its lock and open transaction and, at a COMMIT, either
outcome; `Refuse` is a file PostgreSQL rejects. What the SQL does is left out.

### SlotGames

Both engine families: weighted draws, the evaluation of a grid with expanding and
sticky wilds, scatters, the base spin and its free spins. Money is in cents and
`RoundMoney` rounds as `toFixed(2)` does; ties are exact in the instances. The real
grids (5 reels of 3) cannot be enumerated, so the instances have two or three reels and
four symbols, and every grid of every spin is tried. The twelve titles are instances of
the engines; in `GameRound` a draw is any member of `Payouts`.

### GameCertification

The registry and `certifyGameCatalog`: adapters that answer anything to any sample, and
catalogs that need not agree with the registry.

### Amounts, AmountTexts

`Amounts` has the two conversions of `amounts.js` on texts already parsed (sign, whole
part, digits); `AmountTexts` is the way of an amount from a request to the ledger and to
the next answer. The pattern a text has to match, and the double `atomicToNumber` makes
of a large amount, are left out.

### BrowserClient

A tab with the casino, cashier, account and history pages. A task is what one mount or
click sets off: functions of `casinoApi.js` called one after the other, each made of
requests. An arriving answer and what it sends next are one step, because JavaScript
runs to completion. The server answers a request in one step and sessions and tokens
expire; `Overlap` says whether the player leaves a page, or clicks, before it is
answered. `player` tells what the player knows: what a handler catches counts as said only
where the page shows it (`Asks`), and the refresh of the account page does not (`Hidden`,
`unaware`). The requests a page sends side by side (wallet and payments of the cashier, payments
and spins of the history) are sent one after the other, and the spins of the history not at
all. Left out: `getDemoSession`, `rotateDemoSession` and `invalidateDemoSession`
(called by tests only), the migration from localStorage, the balances shown, the dialog
of the demo name.

### StaffConsole

`OperationsConsole.jsx` with its handlers in flight, over the routes that check token
and capability and over the transitions of `PaymentRules`. Roles, tokens and operations
change elsewhere. The tokens of one account are not told apart; an admitted decision
whose answer is lost happens before the loss is noticed or not at all; tables, counts
and dates are left out.

### IntegrationQueue

`integration-queue.mjs` and `integration-wave-v2.mjs`, one call of the GitHub API per
step. GitHub is external, and taken to refuse merging a branch that is behind its base,
to report a pull request as merged exactly if its head is in the base, and to run CI on
what a head contains. A commit is the set of changes it holds, so `Green` and `Dirty`
say which combinations pass and merge. The wave metadata is what the worker wrote.
A head that either worker updates gets a CI run that starts at once or waits for an approval
(`action_required`), as GitHub decides for commits made with the token of a workflow; the wave
approves the runs of its own pull request, the queue has no such step.
`dispatchVerificationCi` and `awaitRequiredCheck` are not called by the code.

### Server, Clients

`Server` is what one process keeps for itself: it extends `JsonSessionStore` and has an
instance of `RateLimiter`, of `AuditTrail` and of `Migrations`. `Clients` is whoever meets
the server over a network: it extends `StaffConsole` and has an instance of
`BrowserClient` and of `ProviderWebhooks`. The parts of either share no state, each keeps
its own specification, and the compositions tell their variables apart and state what
the parts promise, for the runs and for the theorems alike.

### The MC modules

`MCGameRound` and `MCSandboxPayments` extend one module and give its constants values;
their properties are stated in that module, and those about safety are proved of it. The
others put together components that share no state of the program: a behaviour of
`MCServer` (which extends `Server`), `MCBrowser` (which extends `Clients`), `MCRecords`,
`MCDelivery`, `MCSettles` or `MCAnswered` is a behaviour of one of several instances,
the one the variable `part` names; the others do not move. In `MCServer`, `MCBrowser`
and `MCDelivery` (which extends `IntegrationQueue` and `Accounts`) they stay in their
initial states, so that a property is checked as its module states it; `MCRecords`
extends one component, whose properties its run checks as that module states them. The
variables of the instances of `MCRecords` beside it, and those of the games and amounts
in `MCServer`, hold a model value while it is not their turn, and a property about them
speaks of the parts it is about. The specification of `Accounts` has names of its own
(`AccountsInit`, `AccountsNext`) for being extended beside another. That is a way of
running instances, not a claim about the system: what interacts is modelled in one
module. The two modules for liveness, `MCSettles` and `MCAnswered`, differ in their
specification: they have fairness, stated over all parts at once, and no symmetry.

### The proof modules

`GameRoundProofs`, `SandboxPaymentsProofs`, `AuthSessionsProofs`, `AccountsProofs` and
`IntegrationQueueProofs` hold the inductive invariants and the theorems about the module
they are named for, `ServerProofs` and `ClientsProofs` those about the parts of the two
compositions, `AmountsProofs` what is proved of amounts and of the sums of amounts that
rounds, payments and the JSON store share. Section 6.

## 4. Runs

Every run but the three marked † passes; section 7 tells what those show.

| Run | Parts and their bounds | Shows |
|---|---|---|
| `game_round_retry` | 3 requests through 2 sessions of one account, 4 pool clients, 1 wallet of 2 units, 2 keys; either all with one key, bets 1 and 2, or all with bet 2 | `OneLiveDraw`, `OneRoundPerKey`, `AnswersAreSettled`, `MoneyMatchesRounds`, `TypeOK` (no negative balance) |
| `game_round_sessions` | 2 requests, 1 guest session, 2 unissued ids, 2 keys | `PlaysOnOwnSession`, `RefusalSettlesNothing`, `ImplementsPromise` |
| `game_round_pool` † | 2 requests of 2 accounts, 2 pool clients | `Answered` |
| `payments` | 2 create calls, 2 transitions, 2 keys and 2 event ids, a wallet of 2, amounts 1 and 2, 1 round that loses | `OneOperationPerKey`, `EventsExplainStatus`, `MoneyFollowsStatus`, `AnswersMatchRecord`, `ImplementsPromise`, `TypeOK` (no wallet overdrawn) |
| `server` | *playing* (JSON): 3 spins, 2 keys, 2 sessions, rotations, 1 restart, 1 failing write; *limiting*: 3 callers, 2 of them behind one address, limit 2, window 3, 7 ticks; *telling*: 3 requests, one of them a retry, 2 lives of the server; *migrating*: 3 starts of 2 releases with 2 and 3 files; *rounds*: 2 x 2 grids, 4 symbols, 2 free spins, wilds plain, sticky or sticky and expanding; *families*: 2 x 3 grids, 1 free spin, all combinations of wild features; *certified*: catalogs and registries of up to 2 out of 3 ids, 2 samples; *texts*: up to 12.999 of either sign, scales up to 3 | `JsonStoreHolds`, `LimitHolds`, `RefusalsAreJust`, `AnsweredIsKept`, `TrailIsTrue`, `SchemaHolds`, `GamesKeepTheRules`, `AmountsAreExact` |
| `records` | *authenticating*: 1 login, and 2 tokens, 2 resets, 1 step-up and a tick, or 1 token, 1 reset, 2 step-ups and 2 ticks; *racing*: 2 operations, 3 commits, clocks a tick apart; *tampered*: 4 commits, every kind of change by hand; *watched*: changes by hand while the reconcilers run; *drilled*: 4 commits, 1 session at a time, beside a restore drill | `RecoveryIsFinal`, `StepUpsOnlyRaise`, `ChecksTellTheTruth`, `TypesOK` |
| `settles` | under fairness: a signalled server, 3 starts of 2 releases, 3 pull requests and one event, a provider's withdrawal, 3 tasks of a player, 2 handlers of the console; the pull requests depend on nothing | `WorkEnds`, `PagesSettle` |
| `delivery` | *upgrading*: 1 guest, 2 registrations of one address, a login, a logout, an opening, a rotation, a deletion, a spin; *merging*: 4 pull requests, 2 of them for the wave, a dependency, combinations that break or conflict, files that move, failing calls, 2 events of their authors and reviewers, 1 merge by hand | `MainHolds`, `LandedWasScreened`, `StandingIsRespected`, `UpgradesHold`, `AnonymousStaysOut` |
| `browser` | *waits*: finance and support, 1 withdrawal, 2 players, one handler at a time, roles change; *hurries*: finance, 1 deposit, 2 handlers at once; *reported*: a withdrawal, 2 handlers, tolerance and skew of a tick, staff that approves, rejects and fails; *pages*: 5 presses, one at a time, the fifth after three visited pages | `ConsoleHolds`, `DecisionsStand`, `HurriedConsoleHolds`, `ProviderIsFollowed`, `PressesCountOnce`, `NeverDowngradedSilently` |
| `silent_downgrade` † | *pages* of `browser` | `ExpiredTokenSurfaces` |
| `answered` | under fairness: 2 rounds on 3 pool clients; 2 withdrawals and a transition; a login, 2 tokens, a reset and a step-up; an upgrade, a renaming and a spin | `Answered` |
| `reconcile_false_alarm` † | 2 operations, 2 commits, both reconcilers | `PaymentsTellTheTruth` |

Most properties are conjunctions of named parts; each part is stated, with the code it is
about, in the module of its component, and `PROJECT.json` has a mutant for each part that
can be broken on its own. Type invariants are checked by the same runs.

The bounds of the payments. Two creates share a key or not; one of them repeats the
other, races it, or asks for another amount under its key. Two transitions take one
withdrawal to completion, release it, repeat an event or compete for a status; one event
id for two operations needs two of each. A wallet of 2 covers two withdrawals of 1 or one
of 2, and the losing round can take a unit of it between any two statements. One
withdrawal that is being released while the other reserves is the deadlock. `MaxRounds`
bounds the rounds played beside the payments. Symmetry is over operations, transitions,
keys and events.

The bounds of the rounds. Two requests make every race of a retry; the third makes a
request that arrives while one holds the key and another waits, and lets a failed request,
its retry and a conflicting one meet. A wallet of two units against a bet of two, with
payouts of 0 and 3, reaches the last units, a win that pays for another bet, and an
empty wallet. Three session ids give a rotation followed by a second one or by a
further session of the account. Symmetry over requests and keys
is used in safety runs only. It is sound because no action tells two of them apart;
the request that `Init` gives an idle process is never read before `Send` replaces it.

The other bounds. A withdrawal that is approved and completed needs three commits, and
a fourth is the commit between two reads; a fault has to stand before, during or after
them. Clocks a tick apart are those of instances kept in step. A restart, a failing write
and a rotation of the JSON store matter once between two spins of a key. Two registrations of one address with one guest
are the collision of addresses; one spin or rotation comes between any two statements
of an upgrade. Two recovery tokens and two resets present one token twice and two
tokens once. Seven ticks are more than two windows, so that entries come, are pruned
and come again; a limit of two tells an empty window from one that has room. Two lives
of the server put a killed process between a commit and its retry. Releases of two and
three files start in either order. Of the engines' wider grids only what a line, a
scatter count and a carried position do matters, and lines of two and three cells
already hold a wild first, last and alone. Five presses are a page, a sign-in, another
page, an effect or a refresh there, and the page after it. One session is enough for a row
that is lost in the copy and pruned in the source. Two handlers of the console are the least that overlap. Two
versions of a pull request make the one push that can come at the wrong time.

The state spaces are finite: requests, tasks and commits are bounded by constants, and
the bounds stand in the guards. `PressedInOrder` of `browser` numbers the presses, and lets the fifth come
after three visited pages only. The other state constraints
leave out behaviours that mix two questions of a run: `RetryOrSpend` of
`game_round_retry`, `SpinOrRestart` of `server`, `Bound` of `records`, `OneOrWave` and
`UpgradeOrLeave` of `delivery`, `RolesOrTokens` and `TokensOrDecisions` of `browser`;
`AmountsDifferOrDecided` of `payments` has operations of amount 2 created but not decided,
and `PlayedOrBothDecide` has the round beside one transition at most. Each is stated, with
what it leaves out, in its MC module. The theorems of section 6 have no such bound.

## 5. Fairness

`Spec` of `GameRound` has weak fairness of `Step(r)` for every request: Node's event
loop runs every continuation, and PostgreSQL wakes the waiters of a lock in order, so a
statement that stays possible is executed. There is none on `Send`, `Fail`,
`LoseCommit` or on the session statements: no client has to ask, and nothing has to
break. `Resolve` is fair because a server that lost its client ends the transaction one
way or the other.

`MCAnswered` has the same for the calls of `GameRound`, `SandboxPayments`,
`AuthSessions` and `Accounts` (`Goes`), and `AbortVictim` is part of it: PostgreSQL looks
for cycles after `deadlock_timeout`. The verifier a step-up awaits is taken to answer.

`MCSettles` (`Served`, `Arrives`, `Passes`, `Ends`, `Hears`, `Receives`):

- `Migrations`: each start goes on (`Step`); lost connections and refused files are not
  fair, they need not happen.
- `AuditTrail`: handlers return, connections that are closed or idle end, writes end one
  way or the other (the driver reports an ended pool), and the shutdown goes on.
- `ProviderWebhooks`: the provider goes on sending an event until it is told, and of
  infinitely many deliveries and answers some are heard (strong fairness). This is the
  assumption a retrying provider makes of a network, not a promise of the code; the
  property is that the code needs no more.
- `BrowserClient`, `StaffConsole`: a request is answered or lost, and an answer that has
  arrived is handled. No click is fair.
- `IntegrationQueue`: both workers are started again and again, every step of a run
  comes, and CI finishes. Their workflows run when CI completes, when a pull request
  changes and on dispatch; nothing is scheduled, so this assumes that the repository
  stays in use. Failing calls are off in `settles`, and so are combinations that
  fail CI, as nothing repairs those but a person. Nobody is assumed to approve a CI run but
  the wave, so `WorkEnds` leaves out a pull request whose head waits for that (`Unfinished`).

## 6. Proofs

Each proof about a machine is of one shape: an inductive invariant, which holds at first (`InitInv` or its
like) and which every action preserves, one step of the proof per action; the properties
follow from it, or are carried along with it. The invariants were first checked by TLC on
the instances of the runs.

`GameRoundProofs` proves, for all values of the constants that satisfy the
assumptions named in `GameRound` (amounts are naturals, allowed bets are positive, a
session is issued for an account or not at all), that `Spec` implies the invariance of
`TypeOK`, `OneRoundPerKey`, `OneLiveDraw`, `AnswersAreSettled`,
`RefusalSettlesNothing`, `PlaysOnOwnSession`, `MoneyMatchesRounds`, and the refinement
`ImplementsPromise`.

None of these is inductive alone. `IInv` adds:

- `LocksExclusive`: no two requests hold one advisory key, one wallet or the house;
- `PhaseOK`: what each program counter knows, above all that a request past `LockKey`
  found no round of its key, and that one past `LockWallet` can pay its bet;
- `RoundsOK`: a row belongs to the request that wrote it;
- `SessionsOK`: an issued session has an account.

The argument is the one the comment at `server/postgresGameRoundExecutor.js:122`
makes in a sentence: a request that holds the key and found no round stays the only one
that can make one, because every other has to take the same lock, and while it holds
the wallet nobody else can change the balance it compared. Each lemma treats the
actions one by one; `Invariant` combines them, and `Implementation` shows that each
step is a step of `SpinPromise` or leaves its variables alone. `MoneyIsRounds` needs the
sums of `AmountsProofs`: a COMMIT adds one round nobody has counted (`RoundsOK`), moves the
wallet and the house by its net (`NetAdds`), and the balance it stores is the sum over the
rounds of its account there are then; no other step moves money.

Half of `AmountsProofs` is about `SumFunctionOnSet` of the community modules, which is defined by
recursion over the subsets of a set with an arbitrary next element. It proves that this
recursion defines a function (`Exists`), and from that what an invariant uses: the sum is
an integer (`SumInt`), depends on the summands only (`SumSame`), is 0 for no summand
(`SumEmpty`) and grows by each one added (`SumAdd`). An induction over subsets would take a
library theorem that has an operator as parameter, which the prover cannot instantiate;
each one is a smallest counterexample instead, which exists because proper inclusion is
well-founded on the subsets of a finite set (`Smallest`).

`SandboxPaymentsProofs` proves all that `payments` checks, for any accounts, calls, keys and
events, amounts that are positive naturals and any number of rounds of any outcome; its
assumptions are the four named in `SandboxPayments`. `Inv` has two halves:

- `LocksExclude`: no two calls hold one row lock or one inserted unique key;
- what a call has locked and knows at each statement (`CreateInv`, `TransitionInv`,
  `PostingInv`, `AnswerInv`): a create past its insert holds its key, and no operation of it
  is there; a transition past its SELECT holds its operation, whose status is still the one
  its rule starts from; one about to commit holds its event id, recorded nowhere; whoever
  has debited a wallet holds it, and the money is still there.

Most statements change nothing but the call itself, and `PrivateSteps` settles them at once.
The work is `EffectiveStep`: a COMMIT publishes what its call has written, and because every
other call that knows something about these rows would have to hold the same locks, none of
them is contradicted. `StepCases` then says once what a step can do to the record and to the
answers, and `OneOperation`, `EventsAreOnePath`, `AnswersAreTrue`, `MoneyIsExplained` and
`Implementation` are proved over these few cases: the created operation is the only one of
its key; the new event leaves the status that no event had left; what an answer rests on is
never removed; the wallets and the totals by status move by the same amount
(`PostingMatchesStatus`, `CommitMoves`); and an effective COMMIT is the step `Effect` of
`PaymentPromise`, with `placed` mapped to the orders of the placed operations, an answer
without one its `Reply`, and every other statement none.

`AuthSessionsProofs` proves `TypeOK`, `RecoveryIsFinal` and `StepUpsOnlyRaise` for any number
of logins, tokens, resets and step-ups and any limits of time; it assumes that no call is of
two kinds and that the limits are naturals. Here locks are read off the program counters, so
`Inv` first says that they exclude (`AccountExclusive`, `TokenExclusive`,
`SessionExclusive`). What rests on them:

- `IssueKnows`: while an issue holds the account, the tokens that work are exactly those its
  UPDATE has found, so its COMMIT leaves one that works, its own;
- `ResetKnows`, `CommittedInv`: the token a reset has consumed works until that reset commits
  and never after, so no two committed resets share one;
- `BeforeInv`: a session that existed when the token was consumed is in the UPDATE of the
  reset or was revoked before, although the UPDATE sees the rows as they were before it
  waited: nobody makes a revoked session work again, and one that is created later was not
  there when the token was consumed;
- `StepUpKnows`: while the verifier is awaited the session is as it was read, unrevoked and of
  the same level, hence the comparison of ranks is still right when the UPDATE comes.

`AccountsProofs` proves `AccountsTypeOK`, `UpgradesHold` and `AnonymousStaysOut` for any guests,
registrations, logins, logouts, openings, rotations, deletions and spins. It assumes that no
request is of two kinds and that a guest is no request (`RequestsAssumption`). `Inv` says
what row locks mean here: one request at a time holds a session and one an address that it
has inserted (`SessionExclusive`, `EmailExclusive`), and what is locked is as it was read
(`HeldIsKnown`): the session an upgrade is about to attach is still the guest's. Two
additions close the induction: rows are named by the request that makes them and are new
when it makes them (`RowsAreNew`, `AccountsExist`), and an account has one session at most
that works without its token (`OneOpenSession`), which the COMMIT of an upgrade then closes.
That nobody acts for an account without its token (`AnonymousStaysOut`) is an action property
over the same invariant.

`ServerProofs` proves what `Server` promises, each part from its own specification; the
assumptions of a part are hypotheses of its theorems.

- `JsonStoreHolds` for any requests, sessions, restarts and failing writes. `MapOK` explains
  every row, of the map in memory and of the file alike: its balance and its count are those
  of a set of settled rounds of its chain, and two rows never belong to one chain. The file is
  a map of an earlier moment, so `MapOK(disk)` is what a restart needs. A round of this life of
  the process is in memory (`RoundsOfThisLife`), so that a key settles once per life and owner.
- `LimitHolds` (the types, `WindowHolds`, `EntriesBounded`) and `RefusalsAreJust` for any
  number of callers and keys, any limit and any window. Everything rests on `RoomByTheTail`: as
  admissions are in order and the array misses none of the window, there is room exactly if the
  `Limit`-th last admission of the key is a window old. `Limiting` adds the order of admissions
  (`InOrder`), that the array keeps the recent ones (`KeepsTheRecent`), and that a waiting
  caller was told the time the `Limit`-th last admission leaves (`ToldByTheTail`), which later
  admissions of other callers would otherwise be free to invalidate.
- `AnsweredIsKept` and `TrailIsTrue` for any number of calls, effects, retries and restarts.
  `Telling` speaks of `Tellers`, the calls that have recorded or are about to: they tell of
  committed effects, and no two of the same (`TellersAreTrue`); and it says what the shutdown
  knows at each stage, that no connection is open once it flushes and that no answered call has
  a pending write once it ends the pool (`AnsweredAreSeen`).
- `SchemaHolds` (`EachOnceInOrder`, `UpIsMigrated`, `NoneFailsAnother`) for any number of
  starts and releases. `Migrating` adds that whoever is past the lock holds it (`TakeTurns`) and
  that what it has read and done is the whole truth about the applied files (`Knows`): they are
  the first ones, so the next file is new to everybody.

`ClientsProofs` proves what `Clients` promises in the same way.

- `ConsoleHolds` and `DecisionsStand` for any staff, roles, operations, players and any
  number of handlers at once; so `HurriedConsoleHolds`, which `browser` checks, is an instance
  of both. A handler is a record of calls, and `WorkOK` says what each call brings (`Brings`).
  In the model the right to manage payments is
  only ever taken away (`Reassign`), so a decision that passed the check belongs to an account that
  had the right when it pressed (`may`), however old the overview that showed the button; a
  right lost after the press is noticed by the check or not at all. And no rule of `PaymentRules`
  leads on from a final status, so what is decided for good stands although buttons go by older
  rows. What a page shows is for whoever is signed in only while handlers are
  awaited; `AwaitedHolds` is that half of the invariant: the one handler there is works with the
  token that is kept, for the page it was started from.
- `ProviderIsFollowed` for any operations, clocks, tolerance and skew. The list of an operation
  has two events at most and the second is final (`ScriptAssumption`, the transition table), so
  what has been recorded explains where the operation stands (`RecordOK`): a late first event
  finds a status that it does not leave, and a repeated one is found by its id.
- `OneEffectPerClick` however many pages are left and buttons pressed before they are answered
  (`OneEffectAlways`): a task that has had its effect asks for nothing that could have another,
  because it is sent again only when the server refused it (`Spent`). `PressesCountOnce` and
  `NeverDowngradedSilently` need a player who waits for each page (`~Overlap`; section 7 tells
  what happens to others, among them whoever leaves a page before a refused profile is
  answered): then the one request under way was sent with the session and the token
  the browser keeps (`UpToDate`), and whoever plays as a player has a token (`Known`), until he
  is told or a refresh of the account page forgets it. For that exception the document's claim
  is false, as `silent_downgrade` shows.

`IntegrationQueueProofs` proves `MainHolds`, `LandedWasScreened` and `StandingIsRespected` for
any pull requests with any dependencies, files and results of CI, any sizes of a wave, any number
of pushes, reviews and merges by hand. It assumes that the pull requests are finitely many and
numbered from 1 and that CI accepts the base the workers start from (`QueueAssumption`). A run of a worker acts on what it has read, so `Inv` says, for each program
counter, what the run has learnt and in which form it is still true (`QueueRunOK`, `WaveRunOK`):

- what GitHub does not take back stays known: the base and the versions of a pull request only
  grow, a merged dependency stays merged, a commit CI has accepted stays accepted (`Grows`, and
  a lemma per fact that it preserves);
- what people can take back is known as of the reading: the files of a wave's sources were read
  at versions no older than those its head contains (`ScreenedAt`), and an objection that has
  stood since the run began is one the run has seen (`StoodOK`);
- a head contains the newest version of its pull request and what the base had when it was
  updated (`HeadsOK`), so that a merge adds exactly that version to the base (`Landing`), and the
  base is then the commit that CI accepted.

`AmountsProofs` proves `RoundTrip`: every amount written out at a scale and read back
at that scale is the same amount. That a power of ten is a positive natural is its
hypothesis, since the prover has no exponentiation; `server` evaluates it.

Model-checked only. Liveness (`Answered`, `WorkEnds`, `PagesSettle`) is out of the prover's
reach: it needs ENABLED. So is what the evaluation of a grid computes
(`GamesKeepTheRules`), which is an induction over data. Proofs about `Reconciliation`
(`ChecksTellTheTruth`), `GameCertification` and the refusals of `AmountTexts` are not written.

## 7. Findings

Three are runs that TLC ends with a behaviour of the code that a document or a message of
the repository says it does not have; `PROJECT.json` quotes the lines.

`game_round_pool`: a transaction whose session ended between `getSession`
and `SELECT ... FOR UPDATE` rolls back and calls `deleteExpiredSession`, which asks the
pool for a second client (`server/postgresSessionStore.js:75`) while its own is
released only in `finally` (`server/postgresGameRoundExecutor.js:199`). With as many
such requests as the pool has clients, all wait for ever: no query of the instance is
served any more, and no connection timeout is configured (`server/index.js:18`).
`answered` shows that one spare client is enough for two requests. Passing
the client to `deleteExpiredSession`, or releasing it first, removes the cycle.

`reconcile_false_alarm`: a transition that commits between two reads of the payment
reconciler is reported as a mismatch.

`silent_downgrade`: a refresh of the account page with an expired token forgets the token
(`src/api/casinoApi.js:148`), and the message it sets (`src/components/AccountPanel.jsx:114`) is
not rendered while the page is still loading (`:64`). The player sees "Loading account…", goes
back to the lobby, and plays there in a guest session, against `docs/ARCHITECTURE.md:67`.
Setting the state to `auth` in that catch, as the first load does, removes it.

The others are departures of the code from what a document of the repository asks, seen
in behaviours of these models, that are plain once said; no run is spent on them.

- JSON mode: two overlapping spins compare the same balance and `applySpin` subtracts both
  bets (`server/sessionStore.js:153`; `tests/httpServer.edge.test.js:149` expects spins to
  be blocked when credits are insufficient). Rounds are in memory only, so a retry after a
  restart settles again (`:164`, against `docs/PRODUCTION_CORE_STANDARD.md:83`), and so
  does one after a rotation, which changes the owner of the key
  (`server/casinoService.js:238`, against line 21 of that document).
- Authentication: a login that verified the old password inserts its session after a reset
  has revoked the others and before it commits (`server/accountAuthService.js:359`). A
  step-up writes a timestamp it took before it waited, behind a later activity
  (`server/sessionStepUpService.js:129`; `tests/accountAuthService.test.js:102`). An error
  of ending the game session is swallowed, and a rotation gives it another id, so a logout
  is confirmed and the session lives on (`server/httpServer.js:425`;
  `docs/ARCHITECTURE.md:65`).
- Reconciliation: a balanced posting of a known operation that no pointer names is seen by
  no check (`server/paymentReconciliation.js:313`). Events are ordered by the clocks of the
  instances that wrote them (`server/paymentEventSequence.js:41`), so clocks further apart
  than two events report a history that is right (`docs/PAYMENT_RECONCILIATION.md:7`). Both
  cases are outside the instances of `records`.
- Audit: the retry of a request whose COMMIT was not heard is accepted as a replay, and
  neither it nor the first try is in the audit log
  (`server/sandboxPaymentService.js:330`, against `docs/SANDBOX_PAYMENTS.md:82`).
- Client: a profile that is refused after its page was left forgets the token without
  telling anybody, and the lobby opens a guest session (`src/api/casinoApi.js:148`;
  `docs/ARCHITECTURE.md:67`). The answer to an `openDemoSession` sent as a guest replaces
  the session of a login that was answered first (`:176`). A payment submitted again after
  its answer was lost has a new key and happens twice (`src/components/Cashier.jsx:107`),
  and so does a spin. The list of payments is shown to whoever is signed in when it arrives
  (`src/components/OperationsConsole.jsx:91`; `docs/SANDBOX_CASHIER.md:24`). The instances
  of `browser` that check these properties have one page, or one handler, at a time.
- Games: a scatter drawn on a sticky wild stays a scatter, and the position is no longer
  sticky in the free spins that follow (`src/game/featureSlotEngine.js:221`;
  `tests/featureSlotTemplate.test.js:75` says it remains).
- Delivery: a push while a wave waits for CI is closed with its pull request and is not in
  the base (`scripts/ci/integration-wave-v2.mjs:416`; `docs/INTEGRATION_WAVE_V2.md:30`).
  Changes requested after a wave was built do not stop its promotion (`:349`; line 18).
  When the CI run of a head that the queue has updated waits for an approval, the queue
  neither approves it nor may (`scripts/ci/integration-queue.mjs:185`; its workflow has
  `actions: read`), and the pull request stays open until a person acts, though
  `docs/AUTOMATIC_INTEGRATION_QUEUE.md:33` says that fresh CI triggers the next worker.


## 8. Not modelled

- Observability reports, staging smoke and load scripts, the revision checks and the
  secret scan: they read or drive a deployment and hold no state other parts depend on.
- Of `server/postgresSessionStore.js`, `applySpin`: `CasinoService` builds an executor
  whenever its store has a pool and a ledger, so with this store it is never called.
- The trigger that rejects unbalanced ledger transactions: every posting modelled
  balances, which `Reconciliation` checks with `LedgerMismatches`.
- The policies of step-up and assurance, pure tables that the server does not call yet.
- Parsing of requests and of the configuration, headers, CORS, static files, rendering
  and wording.
- In the instances: five reels of three rows, and real limits and windows, which are
  out of TLC's reach; the proofs of section 6 cover the latter.
