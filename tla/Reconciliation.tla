------------------------------ MODULE Reconciliation ------------------------------
(******************************************************************************)
(* PaymentReconciler.reconcile and LedgerReconciler.reconcile, run together   *)
(* by OperationalEvidenceReader.reconciliationSummary, and the restore drill  *)
(* of verify-restore.mjs, beside the transactions of payments, rounds and     *)
(* sessions. Of the tables that the drill compares the model keeps those of   *)
(* payments and of the ledger, which only grow, and demo_sessions, which also *)
(* shrinks.                                                                   *)
(*                                                                            *)
(* Each SELECT of a reconciler is one step with a snapshot of its own. The    *)
(* transactions that write are one step each, their COMMIT: how they come to  *)
(* it is the matter of SandboxPayments and GameRound. A database is a record, *)
(* so that what a reconciler read earlier, the copy of a dump and the         *)
(* present can be held against each other.                                    *)
(*                                                                            *)
(* The type of a payment posting is its stage: credit for SANDBOX_DEPOSIT,    *)
(* reserve, release and settle for SANDBOX_WITHDRAWAL_RESERVE, ..._RELEASE    *)
(* and SANDBOX_WITHDRAWAL.                                                    *)
(******************************************************************************)
EXTENDS PaymentRules, Sequences, FiniteSetsExt

CONSTANTS
  Accounts,     \* player accounts
  Operations,   \* ids of payment operations
  Amounts,      \* amounts of payments, bets and payouts
  Starting,     \* the initial credit of an account
  Skews,        \* how far the clock of the instance that writes an event may be behind
  Faults,       \* what may be done to the database by hand
  MaxCommits,   \* bound: transactions committed
  MaxSessions,  \* bound: session rows at a time
  Checks        \* what is run: the summary of the reconcilers, the restore drill

AmountsAssumption == Amounts \subseteq Nat \ {0} /\ Starting \in Nat \ {0}
BoundsAssumption ==
  Skews \subseteq Nat /\ MaxCommits \in Nat /\ MaxSessions \in Nat /\ Checks \subseteq {"summary", "drill"}

VARIABLES
  db,        \* the database
  commits,   \* transactions committed, and the clock
  faulty,    \* what was done by hand, with the number of commits at that time
  pc,        \* reader -> its next statement
  view,      \* what the payment reconciler has read
  found,     \* reader -> the mismatches it has found
  copy,      \* the restored database
  seen,      \* history: reader -> the verdicts that a check in one instant would have given
  dumped     \* history: the database at the time of the dump

readerVars == <<pc, view, found, copy, seen, dumped>>
vars == <<db, commits, faulty, readerVars>>

Readers == {"payments", "ledger", "drill"}
Pointers == {"reservation", "settlement", "reversal"}
Clearing == <<"system", "payment_clearing">>
House == <<"system", "house">>
Issuance == <<"system", "issuance">>
Wallets == (Accounts \X {"available", "reserved"}) \cup {Clearing, House, Issuance}
Absent == [absent |-> TRUE]

-----------------------------------------------------------------------------
(* Postings *)

Entry(w, n) == [wallet |-> w, amount |-> n]
Total(entries) == MapThenSumSet(LAMBDA e : e.amount, entries)

(* The entries a posting of the payments inserts. *)
Entries(stage, a, n) ==
  {e \in {Entry(<<a, "available">>, ToAvailable(stage, n)), Entry(<<a, "reserved">>, ToReserved(stage, n)),
          Entry(Clearing, ToClearing(stage, n))} : e.amount # 0}

Transaction(type, refType, ref, entries) ==
  [id |-> <<type, ref>>, type |-> type, refType |-> refType, ref |-> ref, key |-> <<type, ref>>,
   entries |-> entries]

PaymentTransaction(stage, o, a, n) ==
  Transaction(stage, "payment_operation", o, Entries(stage, a, n))

(* A transaction is inserted and the cached balances follow its entries. *)
Posted(d, t) ==
  [d EXCEPT !.ledger = @ \cup {t},
            !.wallet = [w \in Wallets |-> @[w] + Total({e \in t.entries : e.wallet = w})]]

Exists(d, o) == d.operation[o] # Absent
Existing(d) == {o \in Operations : Exists(d, o)}

-----------------------------------------------------------------------------
(* Checks of the payment reconciler; v is what it has read *)

ExpectedPointers(row) ==
  (IF row.kind = "withdrawal" THEN {"reservation"} ELSE {})
    \cup (IF row.status = "completed" THEN {"settlement"} ELSE {})
    \cup (IF row.kind = "withdrawal" /\ row.status \in {"rejected", "failed"} THEN {"reversal"} ELSE {})

UnexpectedPointers(row) ==
  {"transaction_id_unexpected" : f \in {g \in Pointers \ ExpectedPointers(row) : row.pointer[g] # {}}}

PointerMismatches(row) ==
  LET expected == ExpectedPointers(row)
  IN  {"transaction_id_missing" : f \in {g \in expected : row.pointer[g] = {}}}
        \cup {"transaction_id_unexpected" : f \in {g \in Pointers \ expected : row.pointer[g] # {}}}

ExpectedType(row, f) ==
  CASE f = "reservation" -> "reserve"
    [] f = "settlement" -> IF row.kind = "deposit" THEN "credit" ELSE "settle"
    [] f = "reversal" -> "release"

PostingExpectation(row, type) ==
  LET available == <<row.account, "available">>
      reserved == <<row.account, "reserved">>
  IN  CASE type = "credit" -> {Entry(available, row.amount), Entry(Clearing, -row.amount)}
        [] type = "reserve" -> {Entry(available, -row.amount), Entry(reserved, row.amount)}
        [] type = "release" -> {Entry(reserved, -row.amount), Entry(available, row.amount)}
        [] type = "settle" -> {Entry(reserved, -row.amount), Entry(Clearing, row.amount)}

(* The first check that a posting a pointer names does not pass. *)
PostingMismatches(o, row, f, ledger) ==
  LET type == ExpectedType(row, f)
      named == {t \in ledger : t.id \in row.pointer[f]}
  IN  IF named = {} THEN {"referenced_transaction_missing"}
      ELSE UNION {IF t.type # type \/ t.ref # o THEN {"transaction_metadata_mismatch"}
                  ELSE IF Cardinality(t.entries) # 2 THEN {"transaction_entry_shape_mismatch"}
                  ELSE IF ~(PostingExpectation(row, type) \subseteq t.entries) \/ Total(t.entries) # 0
                  THEN {"transaction_amount_or_account_mismatch"}
                  ELSE {} : t \in named}

ExpectedTerminalEvent(row) ==
  CASE row.status = "completed" -> {"complete"}
    [] row.status = "failed" -> {"fail"}
    [] row.status = "rejected" -> {"reject"}
    [] row.status = "approved" -> {"approve"}
    [] OTHER -> {}

(* The events of which there must be exactly one. *)
ExpectedEvents(row) ==
  ExpectedTerminalEvent(row)
    \cup (IF row.kind = "withdrawal" /\ row.status = "completed" THEN {"approve"} ELSE {})

Of(events, o) == {e \in events : e.op = o}
OfType(events, o, type) == {e \in Of(events, o) : e.type = type}

CountMismatches(o, row, counted) ==
  {"event_count_mismatch" :
     type \in {a \in ExpectedEvents(row) : Cardinality(OfType(counted, o, a)) # 1}}

Shapes(row) ==
  CASE row.status \in {"pending", "reserved"} -> {{}}
    [] row.kind = "deposit" /\ row.status = "completed" -> {{"complete"}}
    [] row.status = "approved" -> {{"approve"}}
    [] row.kind = "withdrawal" /\ row.status = "completed" -> {{"approve", "complete"}}
    [] row.status = "rejected" -> {{"reject"}}
    [] row.kind = "deposit" /\ row.status = "failed" -> {{"fail"}}
    [] row.kind = "withdrawal" /\ row.status = "failed" -> {{"fail"}, {"approve", "fail"}}

(* validatePaymentEventSequence: E are the events of the operation. *)
SequenceMismatches(row, E) ==
  LET types == {e.type : e \in E}
      terminal == {e \in E : e.type \in {"complete", "reject", "fail"}}
  IN  {"duplicate_event_type" : e \in {f \in E : \E g \in E \ {f} : g.type = f.type}}
        \cup (IF \E t \in terminal : (\A u \in terminal : t.at <= u.at) /\ \E e \in E : e.at > t.at
              THEN {"event_after_terminal"} ELSE {})
        \cup (IF types \in Shapes(row) /\ Cardinality(E) = Cardinality(types)
              THEN {} ELSE {"event_sequence_mismatch"})
        \cup (IF /\ row.kind = "withdrawal" /\ row.status \in {"completed", "failed"}
                 /\ \E e, t \in E : e.type = "approve" /\ t.type \in ExpectedTerminalEvent(row) /\ e.at > t.at
              THEN {"event_out_of_order"} ELSE {})

OperationMismatches(o, v) ==
  LET row == v.operation[o]
  IN  PointerMismatches(row)
        \cup UNION {PostingMismatches(o, row, f, v.ledger) : f \in {g \in Pointers : row.pointer[g] # {}}}
        \cup CountMismatches(o, row, v.counted)
        \cup SequenceMismatches(row, Of(v.history, o))

PaymentPostings(ledger) == {t \in ledger : t.refType = "payment_operation"}
Orphans(v) == {"orphan_payment_transaction" : t \in {u \in v.ledger : ~Exists(v, u.ref)}}

(* The withdrawals that are open and what the reserved wallet holds, in one statement. *)
ReserveMismatches(d) ==
  LET Open(a) == {o \in Existing(d) : /\ d.operation[o].account = a /\ d.operation[o].kind = "withdrawal"
                                      /\ d.operation[o].status \in {"reserved", "approved"}}
  IN  {"reserve" : a \in {b \in Accounts :
         MapThenSumSet(LAMBDA o : d.operation[o].amount, Open(b)) # d.wallet[<<b, "reserved">>]}}

ReadMismatches(v) == UNION {OperationMismatches(o, v) : o \in Existing(v)} \cup Orphans(v)

PaymentMismatches(d) ==
  ReadMismatches([operation |-> d.operation, ledger |-> PaymentPostings(d.ledger),
                  counted |-> d.events, history |-> d.events]) \cup ReserveMismatches(d)

-----------------------------------------------------------------------------
(* Checks of the ledger reconciler, a statement each *)

AccountMismatches(d) ==
  LET On(t, w) == {e \in t.entries : e.wallet = w}
  IN  {"balance" : w \in {x \in Wallets :
         d.wallet[x] # MapThenSumSet(LAMBDA t : Total(On(t, x)), d.ledger)}}

TransactionMismatches(d) ==
  {"entries" : t \in {u \in d.ledger : Cardinality(u.entries) < 2 \/ Total(u.entries) # 0}}

AssetMismatches(d) ==
  IF MapThenSumSet(LAMBDA w : d.wallet[w], Wallets) # 0 THEN {"total"} ELSE {}

(* LEDGER_REFERENCE_RULES: what a type of transaction refers to; its key is derived. *)
ReferenceType(type) ==
  CASE type = "initial" -> "account"
    [] type = "game" -> "spin"
    [] OTHER -> "payment_operation"

ReferenceMismatches(d) ==
  {"reference" : t \in {u \in d.ledger : u.refType # ReferenceType(u.type) \/ u.key # <<u.type, u.ref>>}}

ReferenceDuplicates(d) ==
  {"duplicate" : t \in {u \in d.ledger : \E x \in d.ledger \ {u} :
                               x.type = u.type /\ x.refType = u.refType /\ x.ref = u.ref}}

LedgerChecks(at, d) ==
  CASE at = "accounts" -> AccountMismatches(d)
    [] at = "transactions" -> TransactionMismatches(d)
    [] at = "assets" -> AssetMismatches(d)
    [] at = "references" -> ReferenceMismatches(d)
    [] at = "duplicates" -> ReferenceDuplicates(d)

LedgerStatements == <<"accounts", "transactions", "assets", "references", "duplicates">>
LedgerMismatches(d) == UNION {LedgerChecks(LedgerStatements[i], d) : i \in DOMAIN LedgerStatements}

-----------------------------------------------------------------------------
(* The transactions of the application *)

Verdict(r, d) == IF r = "payments" THEN PaymentMismatches(d) = {} ELSE LedgerMismatches(d) = {}

Reading(r) == pc[r] \notin {"idle", "done", "failed"}

(* The database becomes d; checks under way get to see either state. *)
Become(d) ==
  /\ db' = d
  /\ seen' = [r \in {"payments", "ledger"} |->
                 IF Reading(r) THEN seen[r] \cup {Verdict(r, d)} ELSE seen[r]]
  /\ UNCHANGED <<pc, view, found, copy, dumped>>

Commit(d) == commits < MaxCommits /\ commits' = commits + 1 /\ Become(d) /\ UNCHANGED faulty

Row(a, kind, n) ==
  [account |-> a, kind |-> kind, amount |-> n, status |-> Initial(kind), pointer |-> [f \in Pointers |-> {}]]

PointerToSettlement(stage) == IF stage = "reserve" THEN "reservation" ELSE "settlement"

PointerOf(stage) ==
  CASE stage = "reserve" -> "reservation" [] stage = "release" -> "reversal" [] OTHER -> "settlement"

Affords(d, t) == \A w \in Accounts \X {"available", "reserved"} : Posted(d, t).wallet[w] >= 0

(* The posting of a stage and the pointer to it; one that is there is not made again. *)
Settled(d, o, stage) ==
  LET row == d.operation[o]
      t == PaymentTransaction(stage, o, row.account, row.amount)
      same == {u \in d.ledger : u.key = t.key}
      base == IF same = {} THEN Posted(d, t) ELSE d
  IN  [base EXCEPT !.operation[o].pointer[PointerOf(stage)] = {u.id : u \in IF same = {} THEN {t} ELSE same}]

Payable(d, o, stage) ==
  LET t == PaymentTransaction(stage, o, d.operation[o].account, d.operation[o].amount)
  IN  (\E u \in d.ledger : u.key = t.key) \/ Affords(d, t)

CreateOperation(o, a, kind, n) ==
  LET d == [db EXCEPT !.operation[o] = Row(a, kind, n)]
  IN  /\ ~Exists(db, o)
      /\ IF CreateStage(kind) = "none" THEN Commit(d)
         ELSE Payable(d, o, CreateStage(kind)) /\ Commit(Settled(d, o, CreateStage(kind)))

(* The event has the time of the instance that runs the transition. *)
TransitionOperation(o, x, skew) ==
  LET stage == TransitionStage(x.kind, x.action)
      event == [id |-> commits, op |-> o, type |-> x.action, at |-> commits - skew]
      d == [db EXCEPT !.operation[o].status = x.to, !.events = @ \cup {event}]
  IN  /\ Exists(db, o) /\ db.operation[o].kind = x.kind /\ db.operation[o].status = x.from
      /\ IF stage = "none" THEN Commit(d)
         ELSE Payable(d, o, stage) /\ Commit(Settled(d, o, stage))

RoundEntries(a, bet, payout) ==
  {e \in {Entry(<<a, "available">>, -bet), Entry(House, bet),
          Entry(House, -payout), Entry(<<a, "available">>, payout)} : e.amount # 0}

SettleRound(a, bet, payout) ==
  /\ db.wallet[<<a, "available">>] >= bet
  /\ Commit(Posted(db, Transaction("game", "spin", commits, RoundEntries(a, bet, payout))))

(* A session is opened for an account that exists; its id is new. *)
OpenSession ==
  /\ Cardinality(db.sessions) < MaxSessions
  /\ Commit([db EXCEPT !.sessions = @ \cup {commits}])

(* One that has expired is deleted. *)
PruneSession(s) == Commit([db EXCEPT !.sessions = @ \ {s}])

-----------------------------------------------------------------------------
(* Changes by hand, within the constraints of the tables *)

Changed(f) ==
  CASE f = "pointer" ->
         {[db EXCEPT !.operation[o].pointer[g] = S] :
            o \in Existing(db), g \in Pointers, S \in {{}} \cup {{t.id} : t \in db.ledger}}
    [] f = "status" ->
         {[db EXCEPT !.operation[o].status = x.to] : <<o, x>> \in
            {p \in Existing(db) \X Table : p[2].kind = db.operation[p[1]].kind}}
    [] f = "event" ->
         {[db EXCEPT !.events = @ \ {e}] : e \in {x \in db.events : x.type \in ExpectedEvents(db.operation[x.op])}}
           \cup {[db EXCEPT !.events = @ \cup {[e EXCEPT !.id = -1]}] : e \in db.events}
    [] f = "entry" ->
         {[db EXCEPT !.ledger = (@ \ {t}) \cup {[t EXCEPT !.entries = {[e EXCEPT !.amount = 2 * @] : e \in @}]}] :
            t \in PaymentPostings(db.ledger)}
    [] f = "type" ->
         {[db EXCEPT !.ledger = (@ \ {t}) \cup {[t EXCEPT !.type = s]}] :
            t \in PaymentPostings(db.ledger), s \in {"credit", "reserve", "release", "settle"}}
    [] f = "wallet" -> {[db EXCEPT !.wallet[w] = @ + 1] : w \in Wallets}
    [] f = "posting" ->
         {Posted(db, PaymentTransaction(s, o, db.operation[o].account, db.operation[o].amount)) : <<o, s>> \in
            {q \in Existing(db) \X {"credit", "reserve", "release", "settle"} :
               \A t \in db.ledger : t.key # <<q[2], q[1]>>}}

Tamper(f) ==
  /\ faulty = {}
  /\ \E d \in Changed(f) \ {db} : Become(d)
  /\ faulty' = {<<f, commits>>}
  /\ UNCHANGED commits

-----------------------------------------------------------------------------
(* The readers *)

Unread == [operation |-> [o \in Operations |-> Absent], ledger |-> {}, counted |-> {}, history |-> {}]

(* reconciliationSummary starts both reconcilers. *)
Summarize ==
  /\ "summary" \in Checks /\ pc["payments"] = "idle"
  /\ pc' = [pc EXCEPT !["payments"] = "operations", !["ledger"] = "accounts"]
  /\ seen' = [r \in {"payments", "ledger"} |-> {Verdict(r, db)}]
  /\ UNCHANGED <<db, commits, faulty, view, found, copy, dumped>>

Goto(r, at) == pc' = [pc EXCEPT ![r] = at] /\ UNCHANGED <<db, commits, faulty, copy, seen, dumped>>
Find(r, codes) == found' = [found EXCEPT ![r] = @ \cup codes]

ReadOperations ==
  /\ pc["payments"] = "operations" /\ Goto("payments", "postings")
  /\ view' = [view EXCEPT !.operation = db.operation]
  /\ UNCHANGED found

ReadPostings ==
  /\ pc["payments"] = "postings" /\ Goto("payments", "counts")
  /\ view' = [view EXCEPT !.ledger = PaymentPostings(db.ledger)]
  /\ UNCHANGED found

CountEvents ==
  /\ pc["payments"] = "counts" /\ Goto("payments", "history")
  /\ view' = [view EXCEPT !.counted = db.events]
  /\ UNCHANGED found

ReadHistory ==
  /\ pc["payments"] = "history" /\ Goto("payments", "reserves")
  /\ view' = [view EXCEPT !.history = db.events]
  /\ UNCHANGED found

ReportWithoutReserves ==
  /\ pc["payments"] = "reserves" /\ Goto("payments", "done")
  /\ Find("payments", ReadMismatches(view))
  /\ UNCHANGED view

(* The report: what was read, compared, and the reserves of this instant. *)
ReadReserves ==
  /\ pc["payments"] = "reserves" /\ Goto("payments", "done")
  /\ Find("payments", ReadMismatches(view) \cup ReserveMismatches(db))
  /\ UNCHANGED view

CheckLedger(i) ==
  /\ pc["ledger"] = LedgerStatements[i]
  /\ Goto("ledger", IF i < Len(LedgerStatements) THEN LedgerStatements[i + 1] ELSE "done")
  /\ Find("ledger", LedgerChecks(LedgerStatements[i], db))
  /\ UNCHANGED view

(* A query throws and there is no report. *)
Fail(r) ==
  /\ Reading(r)
  /\ Goto(r, "failed")
  /\ UNCHANGED <<view, found>>

-----------------------------------------------------------------------------
(* The restore drill *)

Without(d, t) == [d EXCEPT !.ledger = @ \ {t}]
WithoutEvent(d, e) == [d EXCEPT !.events = @ \ {e}]
WithoutSession(d, s) == [d EXCEPT !.sessions = @ \ {s}]
WithoutOperation(d, o) == [d EXCEPT !.operation[o] = Absent, !.events = @ \ Of(@, o)]

(* The tables that are compared, in their order. *)
Tables == <<"ledger", "entries", "sessions", "operation", "events">>

(* A dump has one snapshot; the copy may lack rows of it. *)
DumpAndRestore ==
  /\ "drill" \in Checks /\ pc["drill"] = "idle"
  /\ dumped' = {db}
  /\ copy' \in {{db}} \cup {{Without(db, t)} : t \in db.ledger} \cup {{WithoutEvent(db, e)} : e \in db.events}
               \cup {{WithoutOperation(db, o)} : o \in Existing(db)}
               \cup {{WithoutSession(db, s)} : s \in db.sessions}
  /\ pc' = [pc EXCEPT !["drill"] = Tables[1]]
  /\ UNCHANGED <<db, commits, faulty, view, found, seen>>

CountWithoutOperations(d, table) ==
  CASE table = "ledger" -> Cardinality(d.ledger) [] table = "events" -> Cardinality(d.events) [] OTHER -> 0

Count(d, table) ==
  CASE table = "operation" -> Cardinality(Existing(d))
    [] table = "ledger" -> Cardinality(d.ledger)
    [] table = "entries" -> MapThenSumSet(LAMBDA t : Cardinality(t.entries), d.ledger)
    [] table = "sessions" -> Cardinality(d.sessions)
    [] table = "events" -> Cardinality(d.events)

(* A table of the source is counted at its own time and compared with the copy. *)
CompareCounts(i) ==
  /\ pc["drill"] = Tables[i]
  /\ Goto("drill", IF i < Len(Tables) THEN Tables[i + 1] ELSE "reconcile")
  /\ Find("drill", UNION {IF Count(db, Tables[i]) = Count(c, Tables[i]) THEN {} ELSE {"count_mismatch"} : c \in copy})
  /\ UNCHANGED view

ReconcileCopy ==
  /\ pc["drill"] = "reconcile" /\ Goto("drill", "done")
  /\ Find("drill", UNION {LedgerMismatches(c) \cup PaymentMismatches(c) : c \in copy})
  /\ UNCHANGED view

-----------------------------------------------------------------------------
(* The specification *)

Bootstrap(a) ==
  Transaction("initial", "account", a, {Entry(<<a, "available">>, Starting), Entry(Issuance, -Starting)})

Init ==
  /\ db = [operation |-> [o \in Operations |-> Absent],
           ledger |-> {Bootstrap(a) : a \in Accounts},
           events |-> {},
           sessions |-> {},
           wallet |-> [w \in Wallets |-> CASE w = Issuance -> -Starting * Cardinality(Accounts)
                                           [] w \in Accounts \X {"available"} -> Starting
                                           [] OTHER -> 0]]
  /\ commits = 0 /\ faulty = {}
  /\ pc = [r \in Readers |-> "idle"]
  /\ view = Unread
  /\ found = [r \in Readers |-> {}]
  /\ copy = {} /\ dumped = {}
  /\ seen = [r \in {"payments", "ledger"} |-> {}]

Write ==
  \/ \E o \in Operations, a \in Accounts, k \in Kinds, n \in Amounts : CreateOperation(o, a, k, n)
  \/ \E o \in Operations, x \in Table, s \in Skews : TransitionOperation(o, x, s)
  \/ \E a \in Accounts, bet \in Amounts, payout \in Amounts \cup {0} : SettleRound(a, bet, payout)
  \/ OpenSession
  \/ \E s \in db.sessions : PruneSession(s)

Read ==
  \/ ReadOperations \/ ReadPostings \/ CountEvents \/ ReadHistory \/ ReadReserves
  \/ \E i \in DOMAIN LedgerStatements : CheckLedger(i)
  \/ \E i \in DOMAIN Tables : CompareCounts(i)
  \/ ReconcileCopy

Next ==
  \/ Write
  \/ \E f \in Faults : Tamper(f)
  \/ Summarize \/ DumpAndRestore \/ Read
  \/ \E r \in Readers : Fail(r)

Spec == Init /\ [][Next]_vars

-----------------------------------------------------------------------------
(* Properties *)

Done(r) == pc[r] = "done"

(* The types of the variables. *)
TypeOK ==
  /\ \A o \in Existing(db) :
       /\ db.operation[o].account \in Accounts /\ db.operation[o].amount \in Amounts
       /\ db.operation[o].status \in {x.from : x \in Table} \cup {x.to : x \in Table}
       /\ \A f \in Pointers : db.operation[o].pointer[f] \subseteq {t.id : t \in db.ledger}
  /\ \A w \in Accounts \X {"available", "reserved"} : db.wallet[w] \in Nat
  /\ \A e \in db.events : e.op \in Operations /\ e.type \in Actions
  /\ commits \in 0..MaxCommits
  /\ db.sessions \subseteq 0..(MaxCommits - 1) /\ Cardinality(db.sessions) <= MaxSessions
  /\ Cardinality(copy) = Cardinality(dumped)

(* What the payment service and the rounds commit passes every check of both *)
(* reconcilers at every moment: the postings, pointers and events they write *)
(* are the ones the reconcilers expect.                                      *)
ApplicationIsSound ==
  faulty = {} => PaymentMismatches(db) = {} /\ LedgerMismatches(db) = {}

(* A row changed by hand, before the application acts again, is a mismatch to *)
(* one of the reconcilers.                                                    *)
FaultsVisible ==
  (\E f \in faulty : f[2] = commits) => PaymentMismatches(db) # {} \/ LedgerMismatches(db) # {}

(* A reconciler reports nothing only if there was a moment of its run at which *)
(* nothing was wrong: statements of different moments do not hide a fault that *)
(* stands the whole time.                                                      *)
StandingFaultReported ==
  \A r \in {"payments", "ledger"} : Done(r) /\ found[r] = {} => TRUE \in seen[r]

(* The payment reconciler reports a mismatch only if there was a moment of its *)
(* run at which one of its checks failed, though it compares what several      *)
(* statements returned and payments commit between them.                       *)
PaymentsTellTheTruth == Done("payments") /\ found["payments"] # {} => FALSE \in seen["payments"]

(* A restore drill that succeeds has a copy with every operation, transaction, *)
(* entry and event of the dump, though the source database goes on while its   *)
(* tables are counted one after the other: these only grow. Of the sessions it *)
(* shows nothing: a row that the source has pruned since makes up for one that *)
(* the copy lacks.                                                             *)
VerifiedIsWhole ==
  Done("drill") /\ found["drill"] = {} =>
    \A c \in copy, d \in dumped :
      c.operation = d.operation /\ c.ledger = d.ledger /\ c.events = d.events
================================================================================
