---------------------------- MODULE SandboxPayments ----------------------------
(****************************************************************************)
(* Sandbox deposits and withdrawals: SandboxPaymentService.createOperation  *)
(* and transition with the statements of SandboxPaymentLedger they execute. *)
(*                                                                          *)
(* A call is a process and its program counter names its next statement.    *)
(* Each statement is one step under READ COMMITTED. A transaction holds row *)
(* locks and the unique keys it has inserted until it ends; what it has     *)
(* written is applied by its COMMIT. Rounds of the games move the same      *)
(* available wallets.                                                       *)
(****************************************************************************)
EXTENDS PaymentRules, FiniteSets, Functions

CONSTANTS
  Accounts,         \* player accounts
  Operations,       \* calls of createOperation; each is named by the operationId it draws
  Transitions,      \* calls of transition, by finance staff or by the provider webhook
  Keys,             \* idempotency keys of clients
  Events,           \* event ids
  Amounts,          \* amounts in atomic units
  StartingBalance,  \* available balance of an account at the start
  Nets,             \* what a round of a game can add to an available wallet
  MaxRounds         \* bound: rounds played beside the payments

ASSUME CallsAssumption == Operations \cap Transitions = {}
ASSUME AmountsAssumption == Amounts \subseteq Nat \ {0}
ASSUME AskAssumption ==
  Accounts # {} /\ Operations # {} /\ Keys # {} /\ Events # {} /\ Amounts # {}
ASSUME BalanceAssumption == StartingBalance \in Nat /\ Nets \subseteq Int /\ MaxRounds \in Nat

VARIABLES
  pc,         \* call -> next statement
  order,      \* operation -> what its creation was asked
  move,       \* transition -> what it was asked
  rule,       \* transition -> set with the rule that lets it happen, empty before
  held,       \* call -> locks of its transaction
  answer,     \* call -> kind of answer it was given
  status,     \* payment_operations: operation -> status, "none" before its commit
  events,     \* rows of payment_events
  postings,   \* idempotency keys of ledger_transactions, as operation and stage
  available,  \* account -> balance of its available wallet
  reserved,   \* account -> balance of its withdrawal_reserved wallet, 0 before there is one
  wallets,    \* accounts that have a withdrawal_reserved wallet
  clearing,   \* balance of sys_demo_payment_clearing
  won,        \* account -> net of the rounds it has played
  played      \* number of rounds played

callVars == <<pc, order, move, rule, held, answer>>
paymentVars == <<status, events, postings, wallets>>
moneyVars == <<available, reserved, clearing>>
roundVars == <<won, played>>
vars == <<callVars, paymentVars, moneyVars, roundVars>>

Calls == Operations \cup Transitions

-----------------------------------------------------------------------------
(* Types *)

Order == [account : Accounts, kind : Kinds, amount : Amounts, key : Keys]
Move == [op : Operations, action : Actions, event : Events]

Answers == {"none", "done", "replayed", "conflict", "refused", "failed"}

EventRow == [event : Events, op : Operations, action : Actions,
             from : Statuses, to : Statuses, call : Transitions]

PCs == {"idle", "insert", "existing", "post", "reserveWallet", "debitAvailable",
        "creditReserved", "lockOperation", "event", "creditAvailable", "debitReserved",
        "clearing", "insertEvent", "commit", "inDoubt", "done"}

Locks == [type : {"key"}, account : Accounts, kind : Kinds, key : Keys]
  \cup [type : {"operation"}, op : Operations]
  \cup [type : {"event"}, event : Events]
  \cup [type : {"posting"}, op : Operations, stage : Stages]
  \cup [type : {"wallet", "available", "reserved"}, account : Accounts]
  \cup [type : {"clearing"}]

TypeOK ==
  /\ pc \in [Calls -> PCs]
  /\ order \in [Operations -> Order]
  /\ move \in [Transitions -> Move]
  /\ rule \in [Transitions -> SUBSET Table]
  /\ held \in [Calls -> SUBSET Locks]
  /\ answer \in [Calls -> Answers]
  /\ status \in [Operations -> Statuses]
  /\ events \subseteq EventRow
  /\ postings \subseteq Operations \X Stages
  /\ available \in [Accounts -> Nat]
  /\ reserved \in [Accounts -> Nat]
  /\ wallets \subseteq Accounts
  /\ clearing \in Int
  /\ won \in [Accounts -> Int]
  /\ played \in 0..MaxRounds

-----------------------------------------------------------------------------
(* What a call is about *)

Op(c) == IF c \in Operations THEN c ELSE move[c].op
Account(c) == order[Op(c)].account
Kind(c) == order[Op(c)].kind
Amount(c) == order[Op(c)].amount

Stage(c) ==
  IF c \in Operations THEN CreateStage(Kind(c)) ELSE TransitionStage(Kind(c), move[c].action)

AllowedForKind(t) == {x \in Table : x.kind = Kind(t) /\ x.action = move[t].action}

Allowed(t) == {x \in Table : /\ x.kind = Kind(t)
                             /\ x.from = status[Op(t)]
                             /\ x.action = move[t].action}

(* The committed operation with the account, kind and key of a create call. *)
Existing(o) == {p \in Operations : /\ status[p] # "none"
                                   /\ order[p].account = order[o].account
                                   /\ order[p].kind = order[o].kind
                                   /\ order[p].key = order[o].key}

(* The committed row with the event id of a transition. *)
Recorded(t) == {e \in events : e.event = move[t].event}

-----------------------------------------------------------------------------
(* Locks *)

KeyLockNone(c) == {}

(* The entry of a create call in the unique index on account, kind and key. *)
KeyLock(c) ==
  {[type |-> "key", account |-> Account(c), kind |-> Kind(c), key |-> order[c].key]}

OperationLockNone(c) == {}

(* The row of the operation, SELECT ... FOR UPDATE. *)
OperationLock(c) == {[type |-> "operation", op |-> Op(c)]}

EventLock(c) == {[type |-> "event", event |-> move[c].event]}
PostingLock(c) == {[type |-> "posting", op |-> Op(c), stage |-> Stage(c)]}

AvailableLockNone(a) == {}

(* The row of the available wallet, which rounds update as well. *)
AvailableLock(a) == {[type |-> "available", account |-> a]}

ReservedLock(a) == {[type |-> "reserved", account |-> a]}
ClearingLock == {[type |-> "clearing"]}

(* The entry of a new withdrawal_reserved wallet in the unique index on the *)
(* wallets of an account.                                                   *)
WalletLock(a) == IF a \in wallets THEN {} ELSE {[type |-> "wallet", account |-> a]}

(* What the next statement of a call has to lock. *)
Wanted(c) ==
  CASE pc[c] = "insert" -> KeyLock(c)
    [] pc[c] = "lockOperation" -> OperationLock(c)
    [] pc[c] = "post" -> PostingLock(c)
    [] pc[c] = "reserveWallet" -> WalletLock(Account(c))
    [] pc[c] \in {"debitAvailable", "creditAvailable"} -> AvailableLock(Account(c))
    [] pc[c] \in {"creditReserved", "debitReserved"} -> ReservedLock(Account(c))
    [] pc[c] = "clearing" -> ClearingLock
    [] pc[c] = "insertEvent" -> EventLock(c)
    [] OTHER -> {}

WaitsFor(c, d) == c # d /\ Wanted(c) \cap held[d] # {}

Free(c) == \A d \in Calls : ~WaitsFor(c, d)

(* Every call of the set waits for another one of the set. *)
Deadlocked(c) ==
  \E S \in SUBSET Calls : c \in S /\ \A x \in S : \E y \in S : WaitsFor(x, y)

-----------------------------------------------------------------------------
(* What a statement does to its call *)

Goto(c, to) == pc' = [pc EXCEPT ![c] = to]

Pass(c, to) == Goto(c, to) /\ UNCHANGED <<held, answer>>

(* The statement gets its locks, which the transaction keeps until it ends. *)
Take(c, to) ==
  /\ Free(c)
  /\ held' = [held EXCEPT ![c] = @ \cup Wanted(c)]
  /\ Goto(c, to)
  /\ UNCHANGED answer

EndUnlessRefused(c, kind) ==
  /\ Goto(c, "done")
  /\ answer' = [answer EXCEPT ![c] = kind]
  /\ held' = [held EXCEPT ![c] = IF kind = "refused" THEN @ ELSE {}]

(* The transaction ends, by COMMIT or ROLLBACK, and the client is answered. *)
End(c, kind) ==
  /\ Goto(c, "done")
  /\ answer' = [answer EXCEPT ![c] = kind]
  /\ held' = [held EXCEPT ![c] = {}]

NothingWritten == UNCHANGED <<order, move, rule, paymentVars, moneyVars, roundVars>>

(* The statement after the last one of the posting. *)
Posted(c) == IF c \in Operations THEN "commit" ELSE "insertEvent"

-----------------------------------------------------------------------------
(* Creating an operation *)

Create(o, asked) ==
  /\ pc[o] = "idle"
  /\ order' = [order EXCEPT ![o] = asked]
  /\ Goto(o, "insert")
  /\ UNCHANGED <<move, rule, held, answer, paymentVars, moneyVars, roundVars>>

(* INSERT ... ON CONFLICT DO NOTHING waits for an uncommitted row of the key. *)
Insert(o) ==
  /\ pc[o] = "insert"
  /\ IF Existing(o) # {}
     THEN Pass(o, "existing")
     ELSE Take(o, IF Stage(o) = "none" THEN "commit" ELSE "post")
  /\ NothingWritten

(* The row found is the operation of an earlier call, if the fingerprint agrees. *)
ReplayExisting(o) ==
  \E p \in Existing(o) :
    End(o, IF order[p].amount = order[o].amount THEN "replayed" ELSE "conflict")

SelectExisting(o) ==
  /\ pc[o] = "existing"
  /\ ReplayExisting(o)
  /\ NothingWritten

-----------------------------------------------------------------------------
(* Accepting a transition *)

Request(t, asked) ==
  /\ pc[t] = "idle"
  /\ move' = [move EXCEPT ![t] = asked]
  /\ Goto(t, "lockOperation")
  /\ UNCHANGED <<order, rule, held, answer, paymentVars, moneyVars, roundVars>>

LockOperation(t) ==
  /\ pc[t] = "lockOperation"
  /\ IF status[Op(t)] = "none"
     THEN End(t, "refused")
     ELSE Take(t, "event")
  /\ NothingWritten

ReplayAnyEvent(t) == \E e \in Recorded(t) : End(t, "replayed")

(* An event id that is there answers the same transition of the same operation. *)
ReplayEvent(t) ==
  \E e \in Recorded(t) :
    End(t, IF e.op = Op(t) /\ e.action = move[t].action THEN "replayed" ELSE "conflict")

(* The event id is looked up before the transition table. *)
SelectEvent(t) ==
  /\ pc[t] = "event"
  /\ \/ ReplayEvent(t) /\ UNCHANGED rule
     \/ /\ Recorded(t) = {}
        /\ rule' = [rule EXCEPT ![t] = Allowed(t)]
        /\ IF Allowed(t) = {}
           THEN End(t, "refused")
           ELSE Pass(t, IF Stage(t) = "none" THEN "insertEvent" ELSE "post")
  /\ UNCHANGED <<order, move, paymentVars, moneyVars, roundVars>>

(* A primary key violation is an error like any other. *)
InsertEvent(t) ==
  /\ pc[t] = "insertEvent"
  /\ IF Recorded(t) # {} THEN End(t, "failed") ELSE Take(t, "commit")
  /\ NothingWritten

-----------------------------------------------------------------------------
(* The statements of a posting *)

(* createLedgerTransaction: an idempotency key that is there moves no money. *)
Post(c) ==
  /\ pc[c] = "post"
  /\ IF <<Op(c), Stage(c)>> \in postings
     THEN Pass(c, Posted(c))
     ELSE Take(c, IF Stage(c) = "credit" THEN "creditAvailable" ELSE "reserveWallet")
  /\ NothingWritten

ReserveWallet(c) ==
  /\ pc[c] = "reserveWallet"
  /\ Take(c, IF Stage(c) = "reserve" THEN "debitAvailable" ELSE "debitReserved")
  /\ NothingWritten

(* UPDATE ... WHERE balance >= amount: a row that does not qualify is not waited for. *)
DebitAvailable(c) ==
  /\ pc[c] = "debitAvailable"
  /\ IF available[Account(c)] < Amount(c) THEN End(c, "refused") ELSE Take(c, "creditReserved")
  /\ NothingWritten

CreditReserved(c) ==
  /\ pc[c] = "creditReserved"
  /\ Take(c, Posted(c))
  /\ NothingWritten

DebitReserved(c) ==
  /\ pc[c] = "debitReserved"
  /\ IF reserved[Account(c)] < Amount(c)
     THEN End(c, "failed")
     ELSE Take(c, IF Stage(c) = "settle" THEN "clearing" ELSE "creditAvailable")
  /\ NothingWritten

CreditAvailable(c) ==
  /\ pc[c] = "creditAvailable"
  /\ Take(c, IF Stage(c) = "credit" THEN "clearing" ELSE Posted(c))
  /\ NothingWritten

Clearing(c) ==
  /\ pc[c] = "clearing"
  /\ Take(c, Posted(c))
  /\ NothingWritten

-----------------------------------------------------------------------------
(* The end of a transaction *)

(* The transaction made its posting and did not find one of its key. *)
Moves(c) == PostingLock(c) \subseteq held[c]

Transfer(c) ==
  IF Moves(c)
  THEN /\ postings' = postings \cup {<<Op(c), Stage(c)>>}
       /\ wallets' = IF Stage(c) = "credit" THEN wallets ELSE wallets \cup {Account(c)}
       /\ available' = [available EXCEPT ![Account(c)] = @ + ToAvailable(Stage(c), Amount(c))]
       /\ reserved' = [reserved EXCEPT ![Account(c)] = @ + ToReserved(Stage(c), Amount(c))]
       /\ clearing' = clearing + ToClearing(Stage(c), Amount(c))
  ELSE UNCHANGED <<postings, wallets, moneyVars>>

(* A new operation has its initial status; an accepted transition has its new *)
(* one and the row of its event.                                              *)
Record(c) ==
  IF c \in Operations
  THEN status' = [status EXCEPT ![c] = Initial(Kind(c))] /\ UNCHANGED events
  ELSE \E x \in rule[c] :
         /\ status' = [status EXCEPT ![Op(c)] = x.to]
         /\ events' = events \cup {[event |-> move[c].event, op |-> Op(c), action |-> x.action,
                                    from |-> x.from, to |-> x.to, call |-> c]}

Publish(c) ==
  /\ Record(c)
  /\ Transfer(c)
  /\ UNCHANGED <<order, move, rule, roundVars>>

Commit(c) ==
  /\ pc[c] = "commit"
  /\ End(c, "done")
  /\ Publish(c)

(* The connection is lost while COMMIT is on its way. *)
LoseCommit(c) ==
  /\ pc[c] = "commit"
  /\ Goto(c, "inDoubt")
  /\ answer' = [answer EXCEPT ![c] = "failed"]
  /\ UNCHANGED held
  /\ NothingWritten

Resolve(c) ==
  /\ pc[c] = "inDoubt"
  /\ End(c, answer[c])
  /\ \/ Publish(c)
     \/ NothingWritten

(* A statement throws, the connection is lost or the instance stops. *)
Fail(c) ==
  /\ pc[c] \notin {"idle", "inDoubt", "done"}
  /\ End(c, "failed")
  /\ NothingWritten

(* PostgreSQL finds the cycle and aborts one of its transactions. *)
AbortVictim(c) ==
  /\ Deadlocked(c)
  /\ End(c, "failed")
  /\ NothingWritten

(* A round of a game settles on the available wallet. *)
Play(a, net) ==
  /\ played < MaxRounds
  /\ \A c \in Calls : AvailableLock(a) \cap held[c] = {}
  /\ available[a] + net >= 0
  /\ available' = [available EXCEPT ![a] = @ + net]
  /\ won' = [won EXCEPT ![a] = @ + net]
  /\ played' = played + 1
  /\ UNCHANGED <<callVars, paymentVars, reserved, clearing>>

-----------------------------------------------------------------------------
(* The specification *)

Init ==
  /\ pc = [c \in Calls |-> "idle"]
  /\ order = [o \in Operations |-> CHOOSE x \in Order : TRUE]
  /\ move = [t \in Transitions |-> CHOOSE x \in Move : TRUE]
  /\ rule = [t \in Transitions |-> {}]
  /\ held = [c \in Calls |-> {}]
  /\ answer = [c \in Calls |-> "none"]
  /\ status = [o \in Operations |-> "none"]
  /\ events = {}
  /\ postings = {}
  /\ available = [a \in Accounts |-> StartingBalance]
  /\ reserved = [a \in Accounts |-> 0]
  /\ wallets = {}
  /\ clearing = 0
  /\ won = [a \in Accounts |-> 0]
  /\ played = 0

CreateStep(o) == Insert(o) \/ SelectExisting(o) \/ DebitAvailable(o) \/ CreditReserved(o)

TransitionStep(t) ==
  \/ LockOperation(t) \/ SelectEvent(t) \/ InsertEvent(t)
  \/ DebitReserved(t) \/ CreditAvailable(t) \/ Clearing(t)

CallStep(c) == Post(c) \/ ReserveWallet(c) \/ Commit(c) \/ Resolve(c) \/ AbortVictim(c)

Step(c) ==
  \/ c \in Operations /\ CreateStep(c)
  \/ c \in Transitions /\ TransitionStep(c)
  \/ CallStep(c)

Terminated == (\A c \in Calls : pc[c] = "done") /\ UNCHANGED vars

Next ==
  \/ \E o \in Operations, asked \in Order : Create(o, asked)
  \/ \E t \in Transitions, asked \in Move : Request(t, asked)
  \/ \E c \in Calls : Step(c) \/ LoseCommit(c) \/ Fail(c)
  \/ \E a \in Accounts, net \in Nets : Play(a, net)
  \/ Terminated

Spec == Init /\ [][Next]_vars

-----------------------------------------------------------------------------
(* Properties *)

Placed(o) == status[o] # "none"
EventsOf(o) == {e \in events : e.op = o}

(* An account, kind and idempotency key have at most one operation, though   *)
(* create calls repeat while an earlier one is uncommitted, fails or commits *)
(* without its client learning of it.                                        *)
OneOperationPerKey == \A o \in Operations : Placed(o) => Existing(o) = {o}

(* The recorded events of an operation are one path through the transition  *)
(* table from its initial status to its current one, without a fork: no two *)
(* calls left the same status, and no status was reached without its event. *)
EventsExplainStatus ==
  \A o \in Operations :
    LET E == EventsOf(o)
        Reached == {Initial(order[o].kind)} \cup {e.to : e \in E}
    IN  /\ Placed(o) => Reached \ {e.from : e \in E} = {status[o]}
        /\ ~Placed(o) => E = {}
        /\ \A e, f \in E : e.from = f.from => e = f
        /\ \A e \in E : e.from \in Reached /\ Rule(order[o].kind, e.from, e.action, e.to) \in Table

Total(S) == SumFunctionOnSet([o \in Operations |-> order[o].amount], S)

Standing(kind, statuses) == {o \in Operations : order[o].kind = kind /\ status[o] \in statuses}
With(a, kind, statuses) == {o \in Standing(kind, statuses) : order[o].account = a}

(* The wallets hold what the statuses say: a completed deposit is available, a *)
(* withdrawal is reserved until it is completed, rejected or failed, the       *)
(* clearing account holds the opposite of what entered and left, and rounds    *)
(* account for the rest.                                                       *)
MoneyFollowsStatus ==
  /\ \A a \in Accounts :
       /\ reserved[a] = Total(With(a, "withdrawal", {"reserved", "approved"}))
       /\ available[a] = StartingBalance + won[a] + Total(With(a, "deposit", {"completed"}))
                          - Total(With(a, "withdrawal", {"reserved", "approved", "completed"}))
  /\ clearing = Total(Standing("withdrawal", {"completed"})) - Total(Standing("deposit", {"completed"}))

(* A call answered with success finds its operation, or its event with its own *)
(* operation and action, on record; a call answered otherwise than by success  *)
(* or by an error it cannot interpret has left nothing of its own.             *)
AnswersMatchRecord ==
  /\ \A o \in Operations :
       /\ answer[o] = "done" => Placed(o)
       /\ answer[o] = "replayed" => \E p \in Operations : Placed(p) /\ order[p] = order[o]
       /\ answer[o] \in {"replayed", "conflict", "refused"} => ~Placed(o)
  /\ \A t \in Transitions :
       /\ answer[t] \in {"done", "replayed"} =>
            \E e \in Recorded(t) : e.op = move[t].op /\ e.action = move[t].action
       /\ answer[t] \in {"replayed", "conflict", "refused"} => \A e \in events : e.call # t

Promise == INSTANCE PaymentPromise WITH
  placed <- [o \in Operations |-> IF Placed(o) THEN {order[o]} ELSE {}]

(* Transactions, locks, retries and lost answers are a way to keep the promise *)
(* of PaymentPromise: a COMMIT is the one step in which a call has its effect. *)
ImplementsPromise == Promise!Spec
================================================================================
