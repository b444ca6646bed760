-------------------------- MODULE SandboxPaymentsProofs --------------------------
(****************************************************************************)
(* Theorems about SandboxPayments, for every set of accounts, calls, keys,  *)
(* events and amounts, finite or not, and any number of rounds.             *)
(****************************************************************************)
EXTENDS SandboxPayments, AmountsProofs, TLAPS

-----------------------------------------------------------------------------
(* The inductive invariant of the locks *)

(* Where a call has locked nothing yet, or has ended. *)
Unlocked == {"idle", "insert", "existing", "lockOperation", "done"}

(* Where the transaction of a call has inserted its posting. *)
Posting == {"reserveWallet", "debitAvailable", "creditReserved", "debitReserved",
            "creditAvailable", "clearing"}

(* Where COMMIT is all that is left. *)
Committing == {"commit", "inDoubt"}

(* Where all that is left is to record the outcome. *)
Closing == Committing \cup {"insertEvent"}

(* No two calls hold one lock. *)
LocksExclude == \A c, d \in Calls : c # d => held[c] \cap held[d] = {}

(* A create that has its key finds no operation of it; one that has debited the *)
(* wallet holds it, with the money still there.                                 *)
CreateInv(o) ==
  /\ pc[o] # "done" => ~Placed(o)
  /\ pc[o] \notin Unlocked => KeyLock(o) \subseteq held[o] /\ Existing(o) = {}
  /\ pc[o] \in {"creditReserved"} \cup Committing /\ Stage(o) = "reserve" =>
       AvailableLock(Account(o)) \subseteq held[o] /\ available[Account(o)] >= Amount(o)

(* A transition past its lock holds the operation, whose rule still applies; one  *)
(* that is about to commit holds its event, recorded nowhere; one that has debited *)
(* the reserved wallet holds it, with the money still there.                      *)
TransitionInv(t) ==
  /\ pc[t] \notin Unlocked => OperationLock(t) \subseteq held[t] /\ Placed(Op(t))
  /\ pc[t] \notin Unlocked \cup {"event"} => rule[t] = Allowed(t) /\ rule[t] # {}
  /\ pc[t] \in Committing => EventLock(t) \subseteq held[t] /\ Recorded(t) = {}
  /\ pc[t] \in {"clearing", "creditAvailable"} \cup Closing /\ Stage(t) \in {"settle", "release"} =>
       ReservedLock(Account(t)) \subseteq held[t] /\ reserved[Account(t)] >= Amount(t)

(* A call past the insert of its posting holds the posting. *)
PostingInv(c) ==
  /\ pc[c] \in Posting \cup {"post"} => Stage(c) # "none"
  /\ pc[c] \in Posting \cup Closing /\ Stage(c) # "none" => PostingLock(c) \subseteq held[c]
  /\ \A o \in Operations : [type |-> "posting", op |-> o, stage |-> "none"] \notin held[c]

(* A call is answered as it ends, or when its COMMIT is lost. *)
AnswerInv(c) ==
  /\ pc[c] \notin {"inDoubt", "done"} => answer[c] = "none"
  /\ pc[c] = "inDoubt" => answer[c] = "failed"

(* A posting is only there if the status of its operation calls for it. *)
PostingsFollowStatus ==
  \A x \in postings :
    /\ Placed(x[1])
    /\ x[2] \in {"credit", "settle"} => status[x[1]] = "completed"
    /\ x[2] = "release" => status[x[1]] \in {"rejected", "failed"}

(* An event is recorded by a call that has ended. *)
EventsAreOfEndedCalls == \A e \in events : pc[e.call] = "done"

(* What every call has locked and knows at each of its statements; what it is  *)
(* about to write is still true when its COMMIT takes effect.                  *)
Inv ==
  /\ TypeOK
  /\ LocksExclude
  /\ \A o \in Operations : CreateInv(o)
  /\ \A t \in Transitions : TransitionInv(t)
  /\ \A c \in Calls : PostingInv(c) /\ AnswerInv(c)
  /\ PostingsFollowStatus
  /\ EventsAreOfEndedCalls

-----------------------------------------------------------------------------
(* Facts of the state *)

(* What a call is about exists. *)
LEMMA CallFacts ==
  ASSUME TypeOK, NEW c \in Calls
  PROVE  /\ Op(c) \in Operations
         /\ Account(c) \in Accounts /\ Kind(c) \in Kinds
         /\ Amount(c) \in Amounts /\ Amount(c) \in Nat
         /\ Stage(c) \in Stages
<1>1. Op(c) \in Operations
  BY DEF TypeOK, Op, Calls, Move
<1>2. order[Op(c)] \in Order
  BY <1>1 DEF TypeOK
<1>3. Stage(c) \in Stages
  BY DEF Stage, CreateStage, TransitionStage, Stages
<1>4. Account(c) \in Accounts /\ Kind(c) \in Kinds /\ Amount(c) \in Amounts
  BY <1>2 DEF Account, Kind, Amount, Order
<1>5. Amount(c) \in Nat
  BY <1>4, AmountsAssumption
<1> QED
  BY <1>1, <1>3, <1>4, <1>5

(* A statement asks only for locks there are. *)
LEMMA WantedIsLocks ==
  ASSUME TypeOK, NEW c \in Calls,
         pc[c] = "insert" => c \in Operations,
         pc[c] = "insertEvent" => c \in Transitions
  PROVE  Wanted(c) \subseteq Locks
<1>1. /\ Op(c) \in Operations /\ Account(c) \in Accounts
      /\ Kind(c) \in Kinds /\ Stage(c) \in Stages
  BY CallFacts
<1>2. KeyLock(c) \subseteq Locks \/ c \notin Operations
  BY <1>1 DEF KeyLock, Locks, TypeOK, Order
<1>3. OperationLock(c) \subseteq Locks /\ PostingLock(c) \subseteq Locks
  BY <1>1 DEF OperationLock, PostingLock, Locks
<1>4. /\ WalletLock(Account(c)) \subseteq Locks /\ AvailableLock(Account(c)) \subseteq Locks
      /\ ReservedLock(Account(c)) \subseteq Locks /\ ClearingLock \subseteq Locks
  BY <1>1 DEF WalletLock, AvailableLock, ReservedLock, ClearingLock, Locks
<1>5. EventLock(c) \subseteq Locks \/ c \notin Transitions
  BY DEF EventLock, Locks, TypeOK, Move
<1> QED BY <1>2, <1>3, <1>4, <1>5 DEF Wanted

(* The locks of each statement. *)
LEMMA WantedAt ==
  ASSUME NEW c
  PROVE  /\ pc[c] = "insert" => Wanted(c) = KeyLock(c)
         /\ pc[c] = "lockOperation" => Wanted(c) = OperationLock(c)
         /\ pc[c] = "post" => Wanted(c) = PostingLock(c)
         /\ pc[c] = "debitAvailable" => Wanted(c) = AvailableLock(Account(c))
         /\ pc[c] = "debitReserved" => Wanted(c) = ReservedLock(Account(c))
         /\ pc[c] = "insertEvent" => Wanted(c) = EventLock(c)
BY DEF Wanted

(* No lock but that of a posting has the type of one. *)
LEMMA OnlyPostLocksPostings ==
  ASSUME TypeOK, NEW c \in Calls, pc[c] = "post" => Stage(c) # "none",
         NEW o \in Operations
  PROVE  [type |-> "posting", op |-> o, stage |-> "none"] \notin Wanted(c)
<1> DEFINE l == [type |-> "posting", op |-> o, stage |-> "none"]
<1>1. l \notin KeyLock(c) /\ l \notin OperationLock(c) /\ l \notin EventLock(c)
  BY DEF KeyLock, OperationLock, EventLock
<1>2. l \notin WalletLock(Account(c)) /\ l \notin AvailableLock(Account(c))
  BY DEF WalletLock, AvailableLock
<1>3. l \notin ReservedLock(Account(c)) /\ l \notin ClearingLock
  BY DEF ReservedLock, ClearingLock
<1>4. pc[c] = "post" => l \notin PostingLock(c)
  BY DEF PostingLock
<1> QED BY <1>1, <1>2, <1>3, <1>4 DEF Wanted

(* What a call is about depends on the orders and the moves alone. *)
LEMMA Unmoved ==
  ASSUME UNCHANGED <<order, move>>, NEW c
  PROVE  /\ UNCHANGED <<Op(c), Account(c), Kind(c), Amount(c), Stage(c)>>
         /\ UNCHANGED <<KeyLock(c), OperationLock(c), EventLock(c), PostingLock(c)>>
BY DEF Op, Account, Kind, Amount, Stage, KeyLock, OperationLock, EventLock, PostingLock

(* What is recorded of a call depends on the operations and the events alone. *)
LEMMA Unrecorded ==
  ASSUME UNCHANGED <<order, move, status, events>>
  PROVE  \A c : UNCHANGED <<Placed(c), Existing(c), Allowed(c), Recorded(c)>>
BY DEF Placed, Existing, Allowed, Recorded, Kind, Op

-----------------------------------------------------------------------------
(* Steps that write nothing *)

(* Only the call itself changes, and it gets no lock of another one. *)
Private(c) ==
  /\ pc[c] # "done"
  /\ \E to \in PCs : pc' = [pc EXCEPT ![c] = to]
  /\ \E kind \in Answers : answer' = [answer EXCEPT ![c] = kind]
  /\ \E R \in SUBSET Table : rule' = [rule EXCEPT ![c] = R]
  /\ \E L \in SUBSET Locks : /\ held' = [held EXCEPT ![c] = L]
                             /\ \A d \in Calls : d # c => L \cap held[d] = {}
  /\ UNCHANGED <<order, move, paymentVars, moneyVars, roundVars>>

(* What the invariant says of one call. *)
OwnInv(c) ==
  /\ c \in Operations => CreateInv(c)
  /\ c \in Transitions => TransitionInv(c)
  /\ PostingInv(c) /\ AnswerInv(c)

(* A step that writes nothing can break only what is said of its own call. *)
LEMMA PrivateSteps ==
  ASSUME Inv, NEW c \in Calls, Private(c), OwnInv(c)'
  PROVE  Inv'
<1> USE DEF Private, paymentVars, moneyVars, roundVars
<1>0. TypeOK
  BY DEF Inv
<1>1. TypeOK'
  <2>1. pc' \in [Calls -> PCs] /\ answer' \in [Calls -> Answers] /\ held' \in [Calls -> SUBSET Locks]
    BY <1>0 DEF TypeOK
  <2>2. rule' \in [Transitions -> SUBSET Table]
    BY <1>0 DEF TypeOK
  <2> QED BY <1>0, <2>1, <2>2 DEF TypeOK
<1>2. LocksExclude'
  BY <1>0 DEF TypeOK, Inv, LocksExclude
<1>3. ASSUME NEW d \in Calls, d # c
      PROVE  UNCHANGED <<pc[d], held[d], answer[d], rule[d]>>
  BY <1>0, <1>3 DEF TypeOK
<1>4. /\ \A d : UNCHANGED <<Op(d), Account(d), Kind(d), Amount(d), Stage(d)>>
      /\ \A d : UNCHANGED <<KeyLock(d), OperationLock(d), EventLock(d), PostingLock(d)>>
      /\ \A d : UNCHANGED <<Placed(d), Existing(d), Allowed(d), Recorded(d)>>
      /\ \A d : UNCHANGED <<AvailableLock(Account(d)), ReservedLock(Account(d))>>
  BY Unmoved, Unrecorded DEF AvailableLock, ReservedLock
<1>5. ASSUME NEW o \in Operations PROVE CreateInv(o)'
  <2>1. CASE o = c
    BY <2>1 DEF OwnInv
  <2>2. CASE o # c
    BY <1>3, <1>4, <2>2 DEF Inv, CreateInv, Calls
  <2> QED BY <2>1, <2>2
<1>6. ASSUME NEW t \in Transitions PROVE TransitionInv(t)'
  <2>1. CASE t = c
    BY <2>1 DEF OwnInv
  <2>2. CASE t # c
    BY <1>3, <1>4, <2>2 DEF Inv, TransitionInv, Calls
  <2> QED BY <2>1, <2>2
<1>7. ASSUME NEW d \in Calls PROVE PostingInv(d)' /\ AnswerInv(d)'
  <2>1. CASE d = c
    BY <2>1 DEF OwnInv
  <2>2. CASE d # c
    BY <1>3, <1>4, <2>2 DEF Inv, PostingInv, AnswerInv
  <2> QED BY <2>1, <2>2
<1>8. PostingsFollowStatus'
  BY <1>4 DEF Inv, PostingsFollowStatus
<1>9. EventsAreOfEndedCalls'
  <2>1. \A e \in events : e.call \in Calls
    BY <1>0 DEF TypeOK, EventRow, Calls
  <2> QED BY <1>3, <2>1 DEF Inv, EventsAreOfEndedCalls
<1> QED BY <1>1, <1>2, <1>5, <1>6, <1>7, <1>8, <1>9 DEF Inv

(* A step that leaves every rule leaves that of a call. *)
LEMMA RuleUnchanged ==
  ASSUME TypeOK, NEW c \in Calls, UNCHANGED rule
  PROVE  \E R \in SUBSET Table : rule' = [rule EXCEPT ![c] = R]
<1>1. CASE c \in Transitions
  <2>1. rule[c] \in SUBSET Table /\ rule' = [rule EXCEPT ![c] = rule[c]]
    BY <1>1 DEF TypeOK
  <2> QED BY <2>1
<1>2. CASE c \notin Transitions
  <2>1. rule' = [rule EXCEPT ![c] = {}]
    BY <1>2 DEF TypeOK
  <2> QED BY <2>1
<1> QED BY <1>1, <1>2

(* A transaction that ends without a COMMIT. *)
LEMMA EndSteps ==
  ASSUME Inv, NEW c \in Calls, pc[c] # "done", NEW kind \in Answers, End(c, kind),
         \E R \in SUBSET Table : rule' = [rule EXCEPT ![c] = R],
         UNCHANGED <<order, move, paymentVars, moneyVars, roundVars>>
  PROVE  Inv'
<1>0. TypeOK
  BY DEF Inv
<1>1. pc'[c] = "done" /\ held'[c] = {}
  BY <1>0 DEF End, Goto, TypeOK
<1>2. Private(c)
  <2>1. \E L \in SUBSET Locks : /\ held' = [held EXCEPT ![c] = L]
                              /\ \A d \in Calls : d # c => L \cap held[d] = {}
    <3>1. held' = [held EXCEPT ![c] = {}]
      BY DEF End
    <3>2. \A d \in Calls : d # c => {} \cap held[d] = {}
      OBVIOUS
    <3> WITNESS {} \in SUBSET Locks
    <3> QED BY <3>1, <3>2
  <2> QED BY <2>1 DEF Private, End, Goto, PCs
<1>3. OwnInv(c)'
  BY <1>1 DEF OwnInv, CreateInv, TransitionInv, PostingInv, AnswerInv, Unlocked, Posting, Closing,
              Committing
<1> QED BY <1>2, <1>3, PrivateSteps

(* The same, for one that leaves the rule it found. *)
LEMMA EndQuietly ==
  ASSUME Inv, NEW c \in Calls, pc[c] # "done", NEW kind \in Answers, End(c, kind), NothingWritten
  PROVE  Inv'
<1>1. \E R \in SUBSET Table : rule' = [rule EXCEPT ![c] = R]
  BY RuleUnchanged DEF Inv, NothingWritten
<1> QED BY <1>1, EndSteps DEF NothingWritten

(* A statement that gets its locks. *)
Took(c, to) ==
  /\ Private(c)
  /\ pc'[c] = to /\ answer'[c] = answer[c] /\ rule' = rule
  /\ held'[c] = held[c] \cup Wanted(c)
  /\ \A o \in Operations : [type |-> "posting", op |-> o, stage |-> "none"] \notin held'[c]

(* Take gives its call the locks that nobody else holds. *)
LEMMA TakeSteps ==
  ASSUME Inv, NEW c \in Calls, pc[c] # "done", NEW to \in PCs, Take(c, to), NothingWritten,
         pc[c] = "insert" => c \in Operations,
         pc[c] = "insertEvent" => c \in Transitions
  PROVE  Took(c, to)
<1>0. TypeOK /\ LocksExclude
  BY DEF Inv
<1>1. held[c] \cup Wanted(c) \in SUBSET Locks
  BY <1>0, WantedIsLocks DEF TypeOK
<1>2. \A d \in Calls : d # c => (held[c] \cup Wanted(c)) \cap held[d] = {}
  BY <1>0 DEF Take, Free, WaitsFor, LocksExclude
<1>3. held' = [held EXCEPT ![c] = held[c] \cup Wanted(c)]
  BY DEF Take
<1>4. \E kind \in Answers : answer' = [answer EXCEPT ![c] = kind]
  BY <1>0 DEF Take, TypeOK
<1>5. \E R \in SUBSET Table : rule' = [rule EXCEPT ![c] = R]
  BY <1>0, RuleUnchanged DEF NothingWritten
<1>6. Private(c)
  BY <1>1, <1>2, <1>3, <1>4, <1>5 DEF Private, Take, Goto, NothingWritten
<1>7. \A o \in Operations : [type |-> "posting", op |-> o, stage |-> "none"] \notin held[c] \cup Wanted(c)
  BY <1>0, OnlyPostLocksPostings DEF Inv, PostingInv
<1>8. held'[c] = held[c] \cup Wanted(c)
  BY <1>0, <1>3 DEF TypeOK
<1> QED BY <1>0, <1>6, <1>7, <1>8 DEF Took, Take, Goto, TypeOK, NothingWritten

(* A statement that waits for nothing. *)
LEMMA PassSteps ==
  ASSUME Inv, NEW c \in Calls, pc[c] # "done", NEW to \in PCs, Pass(c, to),
         \E R \in SUBSET Table : rule' = [rule EXCEPT ![c] = R],
         UNCHANGED <<order, move, paymentVars, moneyVars, roundVars>>
  PROVE  /\ Private(c)
         /\ pc'[c] = to /\ answer'[c] = answer[c] /\ held'[c] = held[c]
<1>0. TypeOK /\ LocksExclude
  BY DEF Inv
<1>1. \E L \in SUBSET Locks : /\ held' = [held EXCEPT ![c] = L]
                            /\ \A d \in Calls : d # c => L \cap held[d] = {}
  <2>1. held[c] \in SUBSET Locks /\ held' = [held EXCEPT ![c] = held[c]]
    BY <1>0 DEF TypeOK, Pass
  <2> QED BY <1>0, <2>1 DEF LocksExclude
<1>2. \E kind \in Answers : answer' = [answer EXCEPT ![c] = kind]
  BY <1>0 DEF Pass, TypeOK
<1>3. Private(c)
  BY <1>1, <1>2 DEF Private, Pass, Goto
<1> QED BY <1>0, <1>3 DEF Pass, Goto, TypeOK

(* What OwnInv is about, after a step that writes nothing. *)
LEMMA Unchanged ==
  ASSUME UNCHANGED <<order, move, paymentVars, moneyVars, roundVars>>, NEW c
  PROVE  /\ UNCHANGED <<Op(c), Account(c), Kind(c), Amount(c), Stage(c)>>
         /\ UNCHANGED <<KeyLock(c), OperationLock(c), EventLock(c), PostingLock(c)>>
         /\ UNCHANGED <<AvailableLock(Account(c)), ReservedLock(Account(c))>>
         /\ UNCHANGED <<Placed(c), Placed(Op(c)), Existing(c), Allowed(c), Recorded(c)>>
         /\ UNCHANGED <<available[Account(c)], reserved[Account(c)]>>
  BY Unmoved, Unrecorded DEF AvailableLock, ReservedLock, paymentVars, moneyVars

(* The invariant, for one call. *)
LEMMA OwnFacts ==
  ASSUME Inv, NEW c \in Calls
  PROVE  /\ c \in Operations => CreateInv(c) /\ Op(c) = c /\ c \notin Transitions
         /\ c \in Transitions => TransitionInv(c) /\ c \notin Operations
         /\ PostingInv(c) /\ AnswerInv(c)
  BY CallsAssumption DEF Inv, Op

-----------------------------------------------------------------------------
(* The statements of createOperation *)

(* The key is taken, and no operation of it is there. *)
LEMMA InsertStep ==
  ASSUME Inv, NEW o \in Operations, Insert(o)
  PROVE  Inv'
<1>0. o \in Calls /\ TypeOK /\ pc[o] = "insert"
  BY DEF Calls, Inv, Insert
<1>1. UNCHANGED <<order, move, paymentVars, moneyVars, roundVars>>
  BY DEF Insert, NothingWritten
<1>2. CASE Existing(o) # {}
  <2>1. Private(o) /\ pc'[o] = "existing" /\ answer'[o] = answer[o] /\ held'[o] = held[o]
    BY <1>0, <1>1, <1>2, PassSteps, RuleUnchanged DEF Insert, NothingWritten, PCs
  <2>2. OwnInv(o)'
    BY <1>0, <1>1, <2>1, Unchanged, OwnFacts
       DEF OwnInv, CreateInv, PostingInv, AnswerInv, Unlocked, Posting, Closing, Committing
  <2> QED BY <1>0, <2>1, <2>2, PrivateSteps
<1>3. CASE Existing(o) = {}
  <2> DEFINE to == IF Stage(o) = "none" THEN "commit" ELSE "post"
  <2>1. Took(o, to)
    BY <1>0, <1>3, TakeSteps DEF Insert, PCs
  <2>2. OwnInv(o)'
    BY <1>0, <1>1, <1>3, <2>1, Unchanged, OwnFacts, WantedAt
       DEF Took, OwnInv, CreateInv, PostingInv, AnswerInv, Unlocked, Posting, Closing, Committing
  <2> QED BY <1>0, <2>1, <2>2, PrivateSteps DEF Took
<1> QED BY <1>2, <1>3

(* A repeated create ends without a change. *)
LEMMA SelectExistingStep ==
  ASSUME Inv, NEW o \in Operations, SelectExisting(o)
  PROVE  Inv'
<1>1. PICK kind \in Answers : End(o, kind)
  BY DEF SelectExisting, ReplayExisting, Answers
<1> QED BY <1>1, EndQuietly DEF SelectExisting, Calls

(* The available wallet is locked, and has the amount or refuses it. *)
LEMMA DebitAvailableStep ==
  ASSUME Inv, NEW o \in Operations, DebitAvailable(o)
  PROVE  Inv'
<1>0. o \in Calls /\ TypeOK /\ pc[o] = "debitAvailable"
  BY DEF Calls, Inv, DebitAvailable
<1>1. CASE available[Account(o)] < Amount(o)
  <2>1. End(o, "refused") /\ NothingWritten
    BY <1>1 DEF DebitAvailable
  <2> QED BY <1>0, <2>1, EndQuietly DEF Answers
<1>2. CASE ~(available[Account(o)] < Amount(o))
  <2>1. Took(o, "creditReserved")
    BY <1>0, <1>2, TakeSteps DEF DebitAvailable, PCs
  <2>2. available[Account(o)] >= Amount(o)
    BY <1>0, <1>2, CallFacts DEF TypeOK
  <2>3. UNCHANGED <<order, move, paymentVars, moneyVars, roundVars>>
    BY DEF DebitAvailable, NothingWritten
  <2>4. OwnInv(o)'
    BY <1>0, <2>1, <2>2, <2>3, Unchanged, OwnFacts, WantedAt
       DEF Took, OwnInv, CreateInv, PostingInv, AnswerInv, Unlocked, Posting, Closing, Committing
  <2> QED BY <1>0, <2>1, <2>4, PrivateSteps DEF Took
<1> QED BY <1>1, <1>2

(* The reserved wallet is locked; what was locked before still is. *)
LEMMA CreditReservedStep ==
  ASSUME Inv, NEW o \in Operations, CreditReserved(o)
  PROVE  Inv'
<1>0. o \in Calls /\ TypeOK /\ pc[o] = "creditReserved"
  BY DEF Calls, Inv, CreditReserved
<1>1. Took(o, "commit")
  BY <1>0, TakeSteps DEF CreditReserved, PCs, Posted
<1>2. UNCHANGED <<order, move, paymentVars, moneyVars, roundVars>>
  BY DEF CreditReserved, NothingWritten
<1>3. OwnInv(o)'
  BY <1>0, <1>1, <1>2, Unchanged, OwnFacts
     DEF Took, OwnInv, CreateInv, PostingInv, AnswerInv, Unlocked, Posting, Closing, Committing
<1> QED BY <1>0, <1>1, <1>3, PrivateSteps DEF Took

-----------------------------------------------------------------------------
(* The rules *)

(* What a rule of the table asks for, leads to and posts. *)
LEMMA TableFacts ==
  ASSUME NEW x \in Table
  PROVE  /\ x = Rule(x.kind, x.from, x.action, x.to)
         /\ x.kind \in Kinds /\ x.action \in Actions
         /\ x.from \in {"pending", "reserved", "approved"}
         /\ x.to \in {"approved", "completed", "rejected", "failed"}
         /\ x.kind = "deposit" <=> x.from = "pending"
         /\ x.to = "approved" => x.from = "reserved"
         /\ x.kind = "withdrawal" /\ x.to = "completed" => x.from = "approved"
  BY DEF Table, Rule, Kinds, Actions

(* What is posted follows from the kind and the status a rule leads to. *)
LEMMA StageFacts ==
  ASSUME NEW x \in Table
  PROVE  TransitionStage(x.kind, x.action) =
           IF x.to = "approved" THEN "none"
           ELSE IF x.kind = "deposit" THEN IF x.to = "completed" THEN "credit" ELSE "none"
           ELSE IF x.to = "completed" THEN "settle" ELSE "release"
  BY DEF Table, Rule, TransitionStage

(* The rule of a transition starts from the status of its operation. *)
LEMMA RuleFacts ==
  ASSUME NEW t \in Transitions, NEW x \in Allowed(t)
  PROVE  /\ x \in Table /\ x.kind = Kind(t) /\ x.from = status[Op(t)] /\ x.action = move[t].action
BY DEF Allowed

(* The stage of a transition is that of its rule. *)
LEMMA StageOfRule ==
  ASSUME Inv, NEW t \in Transitions, NEW x \in Allowed(t)
  PROVE  Stage(t) = TransitionStage(x.kind, x.action)
BY RuleFacts, OwnFacts DEF Stage, Calls

-----------------------------------------------------------------------------
(* The statements of transition *)

(* The row of a placed operation is locked. *)
LEMMA LockOperationStep ==
  ASSUME Inv, NEW t \in Transitions, LockOperation(t)
  PROVE  Inv'
<1>0. t \in Calls /\ TypeOK /\ pc[t] = "lockOperation"
  BY DEF Calls, Inv, LockOperation
<1>1. CASE status[Op(t)] = "none"
  <2>1. End(t, "refused") /\ NothingWritten
    BY <1>1 DEF LockOperation
  <2> QED BY <1>0, <2>1, EndQuietly DEF Answers
<1>2. CASE status[Op(t)] # "none"
  <2>1. Took(t, "event")
    BY <1>0, <1>2, TakeSteps DEF LockOperation, PCs
  <2>2. UNCHANGED <<order, move, paymentVars, moneyVars, roundVars>>
    BY DEF LockOperation, NothingWritten
  <2>3. Placed(Op(t))
    BY <1>2 DEF Placed
  <2>4. OwnInv(t)'
    BY <1>0, <2>1, <2>2, <2>3, Unchanged, OwnFacts, WantedAt
       DEF Took, OwnInv, TransitionInv, PostingInv, AnswerInv, Unlocked, Posting, Closing, Committing
  <2> QED BY <1>0, <2>1, <2>4, PrivateSteps DEF Took
<1> QED BY <1>1, <1>2

(* Under that lock the rule is chosen, or the transition ends: it is a repetition *)
(* or not allowed.                                                                *)
LEMMA SelectEventStep ==
  ASSUME Inv, NEW t \in Transitions, SelectEvent(t)
  PROVE  Inv'
<1>0. t \in Calls /\ TypeOK /\ pc[t] = "event"
  BY DEF Calls, Inv, SelectEvent
<1>1. UNCHANGED <<order, move, paymentVars, moneyVars, roundVars>>
  BY DEF SelectEvent
<1>2. CASE ReplayEvent(t) /\ UNCHANGED rule
  <2>1. PICK kind \in Answers : End(t, kind)
    BY <1>2 DEF ReplayEvent, Answers
  <2>2. NothingWritten
    BY <1>1, <1>2 DEF NothingWritten
  <2> QED BY <1>0, <2>1, <2>2, EndQuietly
<1>3. CASE Recorded(t) = {} /\ rule' = [rule EXCEPT ![t] = Allowed(t)]
  <2>1. \E R \in SUBSET Table : rule' = [rule EXCEPT ![t] = R]
    <3>1. Allowed(t) \in SUBSET Table
      BY DEF Allowed
    <3> QED BY <1>3, <3>1
  <2>2. CASE Allowed(t) = {}
    <3>1. End(t, "refused")
      BY <1>2, <1>3, <2>2 DEF SelectEvent, ReplayEvent
    <3> QED BY <1>0, <1>1, <2>1, <3>1, EndSteps DEF Answers
  <2>3. CASE Allowed(t) # {}
    <3> DEFINE to == IF Stage(t) = "none" THEN "insertEvent" ELSE "post"
    <3>1. Pass(t, to)
      BY <1>3, <2>3 DEF SelectEvent, ReplayEvent
    <3>2. Private(t) /\ pc'[t] = to /\ answer'[t] = answer[t] /\ held'[t] = held[t]
      BY <1>0, <1>1, <2>1, <3>1, PassSteps DEF PCs
    <3>3. rule'[t] = Allowed(t)
      BY <1>0, <1>3 DEF TypeOK
    <3>4. OwnInv(t)'
      BY <1>0, <1>1, <2>3, <3>2, <3>3, Unchanged, OwnFacts
         DEF OwnInv, TransitionInv, PostingInv, AnswerInv, Unlocked, Posting, Closing, Committing
    <3> QED BY <1>0, <3>2, <3>4, PrivateSteps
  <2> QED BY <2>2, <2>3
<1> QED BY <1>2, <1>3 DEF SelectEvent

(* The event is taken, and is recorded nowhere. *)
LEMMA InsertEventStep ==
  ASSUME Inv, NEW t \in Transitions, InsertEvent(t)
  PROVE  Inv'
<1>0. t \in Calls /\ TypeOK /\ pc[t] = "insertEvent"
  BY DEF Calls, Inv, InsertEvent
<1>1. CASE Recorded(t) # {}
  <2>1. End(t, "failed") /\ NothingWritten
    BY <1>1 DEF InsertEvent
  <2> QED BY <1>0, <2>1, EndQuietly DEF Answers
<1>2. CASE Recorded(t) = {}
  <2>1. Took(t, "commit")
    BY <1>0, <1>2, TakeSteps DEF InsertEvent, PCs
  <2>2. UNCHANGED <<order, move, paymentVars, moneyVars, roundVars>>
    BY DEF InsertEvent, NothingWritten
  <2>3. OwnInv(t)'
    BY <1>0, <1>2, <2>1, <2>2, Unchanged, OwnFacts, WantedAt
       DEF Took, OwnInv, TransitionInv, PostingInv, AnswerInv, Unlocked, Posting, Closing, Committing
  <2> QED BY <1>0, <2>1, <2>3, PrivateSteps DEF Took
<1> QED BY <1>1, <1>2

(* The reserved wallet is locked, and has the amount or refuses it. *)
LEMMA DebitReservedStep ==
  ASSUME Inv, NEW t \in Transitions, DebitReserved(t)
  PROVE  Inv'
<1>0. t \in Calls /\ TypeOK /\ pc[t] = "debitReserved"
  BY DEF Calls, Inv, DebitReserved
<1>1. CASE reserved[Account(t)] < Amount(t)
  <2>1. End(t, "failed") /\ NothingWritten
    BY <1>1 DEF DebitReserved
  <2> QED BY <1>0, <2>1, EndQuietly DEF Answers
<1>2. CASE ~(reserved[Account(t)] < Amount(t))
  <2> DEFINE to == IF Stage(t) = "settle" THEN "clearing" ELSE "creditAvailable"
  <2>1. Took(t, to)
    BY <1>0, <1>2, TakeSteps DEF DebitReserved, PCs
  <2>2. reserved[Account(t)] >= Amount(t)
    BY <1>0, <1>2, CallFacts DEF TypeOK
  <2>3. UNCHANGED <<order, move, paymentVars, moneyVars, roundVars>>
    BY DEF DebitReserved, NothingWritten
  <2>4. OwnInv(t)'
    BY <1>0, <2>1, <2>2, <2>3, Unchanged, OwnFacts, WantedAt
       DEF Took, OwnInv, TransitionInv, PostingInv, AnswerInv, Unlocked, Posting, Closing, Committing
  <2> QED BY <1>0, <2>1, <2>4, PrivateSteps DEF Took
<1> QED BY <1>1, <1>2

(* The available wallet is locked; what was locked before still is. *)
LEMMA CreditAvailableStep ==
  ASSUME Inv, NEW t \in Transitions, CreditAvailable(t)
  PROVE  Inv'
<1>0. t \in Calls /\ TypeOK /\ pc[t] = "creditAvailable"
  BY DEF Calls, Inv, CreditAvailable
<1> DEFINE to == IF Stage(t) = "credit" THEN "clearing" ELSE "insertEvent"
<1>1. Took(t, to)
  BY <1>0, TakeSteps, OwnFacts DEF CreditAvailable, PCs, Posted
<1>2. UNCHANGED <<order, move, paymentVars, moneyVars, roundVars>>
  BY DEF CreditAvailable, NothingWritten
<1>3. OwnInv(t)'
  BY <1>0, <1>1, <1>2, Unchanged, OwnFacts, CallFacts
     DEF Took, OwnInv, CreateInv, TransitionInv, PostingInv, AnswerInv,
         Unlocked, Posting, Closing, Committing
<1> QED BY <1>0, <1>1, <1>3, PrivateSteps DEF Took

(* So is the clearing account. *)
LEMMA ClearingStep ==
  ASSUME Inv, NEW t \in Transitions, Clearing(t)
  PROVE  Inv'
<1>0. t \in Calls /\ TypeOK /\ pc[t] = "clearing"
  BY DEF Calls, Inv, Clearing
<1> DEFINE to == "insertEvent"
<1>1. Took(t, to)
  BY <1>0, TakeSteps, OwnFacts DEF Clearing, PCs, Posted
<1>2. UNCHANGED <<order, move, paymentVars, moneyVars, roundVars>>
  BY DEF Clearing, NothingWritten
<1>3. OwnInv(t)'
  BY <1>0, <1>1, <1>2, Unchanged, OwnFacts
     DEF Took, OwnInv, CreateInv, TransitionInv, PostingInv, AnswerInv,
         Unlocked, Posting, Closing, Committing
<1> QED BY <1>0, <1>1, <1>3, PrivateSteps DEF Took

-----------------------------------------------------------------------------
(* The statements of a posting, and the ways in which any call can end *)

(* A call that is about to make its posting does not find it made. *)
LEMMA NotYetPosted ==
  ASSUME Inv, NEW c \in Calls, pc[c] = "post"
  PROVE  <<Op(c), Stage(c)>> \notin postings
<1> SUFFICES ASSUME <<Op(c), Stage(c)>> \in postings PROVE FALSE
  OBVIOUS
<1>0. TypeOK
  BY DEF Inv
<1>1. /\ Placed(Op(c))
      /\ Stage(c) \in {"credit", "settle"} => status[Op(c)] = "completed"
      /\ Stage(c) = "release" => status[Op(c)] \in {"rejected", "failed"}
  BY DEF Inv, PostingsFollowStatus
<1>2. CASE c \in Operations
  BY <1>1, <1>2, OwnFacts DEF CreateInv
<1>3. CASE c \in Transitions
  <2>1. PICK x \in Allowed(c) : TRUE
    BY <1>3, OwnFacts DEF TransitionInv, Unlocked
  <2>2. x \in Table /\ x.from = status[Op(c)] /\ Stage(c) = TransitionStage(x.kind, x.action)
    BY <1>3, <2>1, RuleFacts, StageOfRule
  <2>3. status[Op(c)] \in {"pending", "reserved", "approved"}
    BY <2>2, TableFacts
  <2>4. Stage(c) \in {"credit", "settle", "release"}
    BY <2>2, StageFacts, OwnFacts DEF PostingInv
  <2> QED BY <1>1, <2>3, <2>4
<1> QED BY <1>2, <1>3 DEF Calls

(* The posting is taken. *)
LEMMA PostStep ==
  ASSUME Inv, NEW c \in Calls, Post(c)
  PROVE  Inv'
<1>0. TypeOK /\ pc[c] = "post"
  BY DEF Inv, Post
<1> DEFINE to == IF Stage(c) = "credit" THEN "creditAvailable" ELSE "reserveWallet"
<1>1. Took(c, to)
  BY <1>0, NotYetPosted, TakeSteps DEF Post, PCs
<1>2. UNCHANGED <<order, move, paymentVars, moneyVars, roundVars>>
  BY DEF Post, NothingWritten
<1>3. OwnInv(c)'
  BY <1>0, <1>1, <1>2, Unchanged, OwnFacts, WantedAt
     DEF Took, OwnInv, CreateInv, TransitionInv, PostingInv, AnswerInv,
         Unlocked, Posting, Closing, Committing
<1> QED BY <1>0, <1>1, <1>3, PrivateSteps DEF Took

(* The wallet of a first withdrawal is created. *)
LEMMA ReserveWalletStep ==
  ASSUME Inv, NEW c \in Calls, ReserveWallet(c)
  PROVE  Inv'
<1>0. c \in Calls /\ TypeOK /\ pc[c] = "reserveWallet"
  BY DEF Calls, Inv, ReserveWallet
<1> DEFINE to == IF Stage(c) = "reserve" THEN "debitAvailable" ELSE "debitReserved"
<1>1. Took(c, to)
  BY <1>0, TakeSteps DEF ReserveWallet, PCs, Posted
<1>2. UNCHANGED <<order, move, paymentVars, moneyVars, roundVars>>
  BY DEF ReserveWallet, NothingWritten
<1>3. OwnInv(c)'
  BY <1>0, <1>1, <1>2, Unchanged, OwnFacts
     DEF Took, OwnInv, CreateInv, TransitionInv, PostingInv, AnswerInv,
         Unlocked, Posting, Closing, Committing
<1> QED BY <1>0, <1>1, <1>3, PrivateSteps DEF Took

(* The answer to a COMMIT is lost: it stays open whether it takes effect. *)
LEMMA LoseCommitStep ==
  ASSUME Inv, NEW c \in Calls, LoseCommit(c)
  PROVE  Inv'
<1>0. TypeOK /\ pc[c] = "commit"
  BY DEF Inv, LoseCommit
<1>1. UNCHANGED <<order, move, rule, held, paymentVars, moneyVars, roundVars>>
  BY DEF LoseCommit, NothingWritten
<1>2. pc'[c] = "inDoubt" /\ answer'[c] = "failed"
  BY <1>0 DEF LoseCommit, Goto, TypeOK
<1>3. \E L \in SUBSET Locks : /\ held' = [held EXCEPT ![c] = L]
                            /\ \A d \in Calls : d # c => L \cap held[d] = {}
  <2>1. held[c] \in SUBSET Locks /\ held' = [held EXCEPT ![c] = held[c]]
    BY <1>0, <1>1 DEF TypeOK
  <2> QED BY <2>1 DEF Inv, LocksExclude
<1>4. Private(c)
  BY <1>0, <1>1, <1>3, RuleUnchanged DEF Private, LoseCommit, Goto, PCs, Answers
<1>5. OwnInv(c)'
  BY <1>0, <1>1, <1>2, Unchanged, OwnFacts
     DEF OwnInv, CreateInv, TransitionInv, PostingInv, AnswerInv, Unlocked, Posting, Closing,
         Committing
<1> QED BY <1>4, <1>5, PrivateSteps

(* A call fails, and its transaction leaves nothing. *)
LEMMA FailStep ==
  ASSUME Inv, NEW c \in Calls, Fail(c)
  PROVE  Inv'
BY EndQuietly DEF Fail, Answers

(* A call that waits for a lock has not ended. *)
LEMMA AbortVictimStep ==
  ASSUME Inv, NEW c \in Calls, AbortVictim(c)
  PROVE  Inv'
<1>1. Wanted(c) # {}
  BY DEF AbortVictim, Deadlocked, WaitsFor
<1>2. pc[c] # "done"
  BY <1>1 DEF Wanted
<1> QED BY <1>2, EndQuietly DEF AbortVictim, Answers

-----------------------------------------------------------------------------
(* A COMMIT that takes effect *)

(* The transaction of a call takes effect, and the call ends. *)
Effective(c) ==
  /\ pc[c] \in Committing
  /\ pc' = [pc EXCEPT ![c] = "done"]
  /\ held' = [held EXCEPT ![c] = {}]
  /\ \E kind \in Answers : answer' = [answer EXCEPT ![c] = kind]
  /\ Publish(c)

(* It moves the money of its stage if it has one. *)
LEMMA MovesItsStage ==
  ASSUME Inv, NEW c \in Calls, pc[c] \in Committing
  PROVE  Moves(c) <=> Stage(c) # "none"
<1>1. Op(c) \in Operations
  BY CallFacts DEF Inv
<1> QED BY <1>1, OwnFacts DEF PostingInv, Moves, PostingLock, Closing

(* What it does to the wallets and the postings. *)
LEMMA TransferFacts ==
  ASSUME Inv, NEW c \in Calls, pc[c] \in Committing, Transfer(c)
  PROVE  /\ available' = [available EXCEPT ![Account(c)] = @ + ToAvailable(Stage(c), Amount(c))]
         /\ reserved' = [reserved EXCEPT ![Account(c)] = @ + ToReserved(Stage(c), Amount(c))]
         /\ clearing' = clearing + ToClearing(Stage(c), Amount(c))
         /\ postings' \subseteq postings \cup {<<Op(c), Stage(c)>>}
         /\ Stage(c) = "none" => postings' = postings
         /\ wallets' \subseteq wallets \cup {Account(c)}
<1>0. TypeOK
  BY DEF Inv
<1>1. Account(c) \in Accounts
  BY <1>0, CallFacts
<1>2. CASE Stage(c) # "none"
  BY <1>2, MovesItsStage DEF Transfer
<1>3. CASE Stage(c) = "none"
  <2>1. UNCHANGED <<postings, wallets, moneyVars>>
    BY <1>3, MovesItsStage DEF Transfer
  <2>2. /\ ToAvailable(Stage(c), Amount(c)) = 0 /\ ToReserved(Stage(c), Amount(c)) = 0
        /\ ToClearing(Stage(c), Amount(c)) = 0
    BY <1>3 DEF ToAvailable, ToReserved, ToClearing
  <2>3. available[Account(c)] \in Int /\ reserved[Account(c)] \in Int /\ clearing \in Int
    BY <1>0, <1>1 DEF TypeOK
  <2> QED BY <1>0, <1>1, <2>1, <2>2, <2>3 DEF TypeOK, moneyVars
<1> QED BY <1>2, <1>3

(* Every wallet it debits has the money. *)
LEMMA FundsSuffice ==
  ASSUME Inv, NEW c \in Calls, pc[c] \in Committing
  PROVE  /\ available[Account(c)] + ToAvailable(Stage(c), Amount(c)) \in Nat
         /\ reserved[Account(c)] + ToReserved(Stage(c), Amount(c)) \in Nat
         /\ ToClearing(Stage(c), Amount(c)) \in Int
<1>1. /\ available[Account(c)] \in Nat /\ reserved[Account(c)] \in Nat
      /\ Amount(c) \in Nat /\ Stage(c) \in Stages
  BY CallFacts DEF Inv, TypeOK
<1>2. CASE c \in Operations
  <2>1. Stage(c) \in {"reserve", "none"}
    BY <1>2 DEF Stage, CreateStage
  <2>2. Stage(c) = "reserve" => available[Account(c)] >= Amount(c)
    BY <1>2, OwnFacts DEF CreateInv
  <2> QED BY <1>1, <2>1, <2>2 DEF ToAvailable, ToReserved, ToClearing
<1>3. CASE c \in Transitions
  <2>1. Stage(c) # "reserve"
    BY <1>3, OwnFacts DEF Stage, TransitionStage
  <2>2. Stage(c) \in {"settle", "release"} => reserved[Account(c)] >= Amount(c)
    BY <1>3, OwnFacts DEF TransitionInv, Closing
  <2> QED BY <1>1, <2>1, <2>2 DEF ToAvailable, ToReserved, ToClearing, Stages
<1> QED BY <1>2, <1>3 DEF Calls

(* What it writes of its operation and of its event. *)
LEMMA RecordOfCreate ==
  ASSUME Inv, NEW o \in Operations, pc[o] \in Committing, Record(o)
  PROVE  /\ ~Placed(o) /\ Existing(o) = {} /\ Op(o) = o
         /\ status' = [status EXCEPT ![o] = Initial(Kind(o))]
         /\ events' = events
         /\ Initial(Kind(o)) \in {"pending", "reserved"}
         /\ Stage(o) = IF Kind(o) = "withdrawal" THEN "reserve" ELSE "none"
  BY OwnFacts DEF Record, CreateInv, Committing, Unlocked, Calls, Initial, Stage, CreateStage

(* The event that a transition by a rule records. *)
Row(t, x) == [event |-> move[t].event, op |-> Op(t), action |-> x.action,
              from |-> x.from, to |-> x.to, call |-> t]

(* A transition sets the status its rule leads to and records its event. *)
LEMMA RecordOfTransition ==
  ASSUME Inv, NEW t \in Transitions, pc[t] \in Committing, Record(t)
  PROVE  /\ Placed(Op(t)) /\ Recorded(t) = {}
         /\ \E x \in Allowed(t) : /\ status' = [status EXCEPT ![Op(t)] = x.to]
                                 /\ events' = events \cup {Row(t, x)}
                                 /\ Row(t, x) \in EventRow
<1>0. TypeOK
  BY DEF Inv
<1>1. Placed(Op(t)) /\ Recorded(t) = {} /\ rule[t] = Allowed(t)
  BY OwnFacts DEF TransitionInv, Committing, Unlocked, Calls
<1>2. t \notin Operations
  BY OwnFacts DEF Calls
<1>3. PICK x \in Allowed(t) : /\ status' = [status EXCEPT ![Op(t)] = x.to]
                             /\ events' = events \cup {Row(t, x)}
  BY <1>1, <1>2 DEF Record, Row
<1>4. x.action \in Actions /\ x.from \in Statuses /\ x.to \in Statuses
  BY RuleFacts, TableFacts DEF Statuses
<1>5. move[t].event \in Events /\ Op(t) \in Operations
  BY <1>0, CallFacts DEF TypeOK, Move, Calls
<1>6. Row(t, x) \in EventRow
  BY <1>4, <1>5 DEF Row, EventRow
<1> QED BY <1>1, <1>3, <1>6

(* Its operation is nobody else's: it is new, or its row is locked. *)
LEMMA OnlyItsOperation ==
  ASSUME Inv, NEW c \in Calls, pc[c] \in Committing, NEW d \in Calls, d # c,
         pc[d] \notin Unlocked \/ (d \in Operations /\ pc[d] # "done")
  PROVE  Op(d) # Op(c)
<1>1. CASE c \in Operations /\ d \in Operations
  BY <1>1, OwnFacts
<1>2. CASE c \in Operations /\ d \in Transitions
  BY <1>2, OwnFacts DEF CreateInv, TransitionInv, Committing
<1>3. CASE c \in Transitions /\ d \in Operations
  BY <1>3, OwnFacts DEF CreateInv, TransitionInv, Committing, Unlocked
<1>4. CASE c \in Transitions /\ d \in Transitions
  <2>1. OperationLock(c) \subseteq held[c] /\ OperationLock(d) \subseteq held[d]
    BY <1>4, OwnFacts DEF TransitionInv, Committing, Unlocked
  <2> QED BY <2>1 DEF Inv, LocksExclude, OperationLock
<1> QED BY <1>1, <1>2, <1>3, <1>4 DEF Calls

(* The status of that operation is set, to another one than "none". *)
LEMMA StatusFacts ==
  ASSUME Inv, NEW c \in Calls, pc[c] \in Committing, Record(c)
  PROVE  /\ \E s \in Statuses \ {"none"} : status' = [status EXCEPT ![Op(c)] = s]
         /\ status'[Op(c)] # "none"
         /\ \A o \in Operations : o # Op(c) => status'[o] = status[o]
         /\ \A o \in Operations : Placed(o) => Placed(o)'
<1>0. TypeOK /\ Op(c) \in Operations
  BY CallFacts DEF Inv
<1>1. \E s \in Statuses \ {"none"} : status' = [status EXCEPT ![Op(c)] = s]
  <2>1. CASE c \in Operations
    BY <2>1, RecordOfCreate DEF Statuses
  <2>2. CASE c \in Transitions
    <3>1. PICK x \in Allowed(c) : status' = [status EXCEPT ![Op(c)] = x.to]
      BY <2>2, RecordOfTransition
    <3>2. x.to \in Statuses \ {"none"}
      BY <2>2, RuleFacts, TableFacts DEF Statuses
    <3> QED BY <3>1, <3>2
  <2> QED BY <2>1, <2>2 DEF Calls
<1> QED BY <1>0, <1>1 DEF TypeOK, Placed

(* No event is lost, and a new one is of the call that commits. *)
LEMMA EventsFacts ==
  ASSUME Inv, NEW c \in Calls, pc[c] \in Committing, Record(c)
  PROVE  /\ events \subseteq events' /\ events' \subseteq EventRow
         /\ \A e \in events' :
              e \in events \/ (c \in Transitions /\ e.event = move[c].event /\ e.call = c)
<1>1. CASE c \in Operations
  BY <1>1, RecordOfCreate DEF Inv, TypeOK
<1>2. CASE c \in Transitions
  <2>1. PICK x \in Allowed(c) : events' = events \cup {Row(c, x)} /\ Row(c, x) \in EventRow
    BY <1>2, RecordOfTransition
  <2>2. Row(c, x).event = move[c].event /\ Row(c, x).call = c
    BY DEF Row
  <2> QED BY <1>2, <2>1, <2>2 DEF Inv, TypeOK
<1> QED BY <1>1, <1>2 DEF Calls

(* Nothing that another call knows under its locks is changed, whatever it has *)
(* done so far.                                                                *)
LEMMA EffectiveStep ==
  ASSUME Inv, NEW c \in Calls, Effective(c)
  PROVE  Inv'
<1>0. TypeOK /\ Op(c) \in Operations /\ Account(c) \in Accounts /\ pc[c] \in Committing
  BY CallFacts DEF Inv, Effective
<1>1. UNCHANGED <<order, move, rule, won, played>> /\ Record(c) /\ Transfer(c)
  BY DEF Effective, Publish, roundVars
<1>2. /\ pc'[c] = "done" /\ held'[c] = {}
      /\ \A d \in Calls : d # c => UNCHANGED <<pc[d], held[d], answer[d]>>
  BY <1>0 DEF Effective, TypeOK
<1>3. \A d : /\ UNCHANGED <<Op(d), Account(d), Kind(d), Amount(d), Stage(d)>>
            /\ UNCHANGED <<KeyLock(d), OperationLock(d), EventLock(d), PostingLock(d)>>
            /\ UNCHANGED <<AvailableLock(Account(d)), ReservedLock(Account(d))>>
  BY <1>1, Unmoved DEF AvailableLock, ReservedLock
<1>4. TypeOK'
  <2>1. pc' \in [Calls -> PCs] /\ held' \in [Calls -> SUBSET Locks] /\ answer' \in [Calls -> Answers]
    BY <1>0 DEF Effective, TypeOK, PCs
  <2>2. status' \in [Operations -> Statuses] /\ events' \subseteq EventRow
    BY <1>0, <1>1, StatusFacts, EventsFacts DEF TypeOK
  <2>3. available' \in [Accounts -> Nat] /\ reserved' \in [Accounts -> Nat] /\ clearing' \in Int
    BY <1>0, <1>1, TransferFacts, FundsSuffice DEF TypeOK
  <2>4. postings' \subseteq Operations \X Stages /\ wallets' \subseteq Accounts
    BY <1>0, <1>1, TransferFacts, CallFacts DEF TypeOK
  <2> QED BY <1>0, <1>1, <2>1, <2>2, <2>3, <2>4 DEF TypeOK
<1>5. LocksExclude'
  BY <1>2 DEF Inv, LocksExclude
<1>6. ASSUME NEW o \in Operations PROVE CreateInv(o)'
  <2>1. CASE o = c
    BY <1>2, <2>1 DEF CreateInv, Unlocked, Committing
  <2>2. CASE o # c
    <3>0. o \in Calls /\ Op(o) = o /\ CreateInv(o)
      BY OwnFacts DEF Calls
    <3>1. pc'[o] # "done" => ~Placed(o)'
      BY <1>0, <1>1, <1>2, <2>2, <3>0, OnlyItsOperation, StatusFacts DEF CreateInv, Placed
    <3>2. ASSUME pc'[o] \notin Unlocked
          PROVE  KeyLock(o)' \subseteq held'[o] /\ Existing(o)' = {}
      <4>1. KeyLock(o) \subseteq held[o] /\ Existing(o) = {}
        BY <1>2, <2>2, <3>0, <3>2 DEF CreateInv
      <4>2. ASSUME NEW p \in Existing(o)' PROVE FALSE
        <5>1. p = Op(c) /\ ~Placed(p)
          BY <1>0, <1>1, <4>1, <4>2, StatusFacts DEF Existing, Placed
        <5>2. c \in Operations /\ p = c
          BY <5>1, <1>0, <1>1, RecordOfTransition, OwnFacts DEF Calls
        <5>3. KeyLock(c) = KeyLock(o)
          BY <1>1, <3>0, <4>2, <5>2, OwnFacts DEF Existing, KeyLock, Account, Kind
        <5>4. KeyLock(c) \subseteq held[c]
          BY <1>0, <5>2, OwnFacts DEF CreateInv, Committing, Unlocked
        <5> QED BY <2>2, <3>0, <4>1, <5>3, <5>4 DEF Inv, LocksExclude, KeyLock
      <4> QED BY <1>2, <1>3, <2>2, <3>0, <4>1, <4>2
    <3>3. ASSUME pc'[o] \in {"creditReserved"} \cup Committing, Stage(o)' = "reserve"
          PROVE  AvailableLock(Account(o))' \subseteq held'[o] /\ available'[Account(o)'] >= Amount(o)'
      <4>1. AvailableLock(Account(o)) \subseteq held[o] /\ available[Account(o)] >= Amount(o)
        BY <1>2, <1>3, <2>2, <3>0, <3>3 DEF CreateInv
      <4>2. available'[Account(o)] >= Amount(o)
        <5>1. /\ Account(o) \in Accounts /\ Amount(o) \in Nat /\ Amount(c) \in Nat
              /\ Stage(c) \in Stages /\ available[Account(o)] \in Nat
          BY <1>0, <3>0, CallFacts DEF TypeOK
        <5>2. CASE Stage(c) = "reserve" /\ Account(c) = Account(o)
          <6>1. c \in Operations
            BY <5>2, OwnFacts DEF Stage, TransitionStage
          <6>2. AvailableLock(Account(c)) \subseteq held[c]
            BY <1>0, <5>2, <6>1, OwnFacts DEF CreateInv
          <6> QED BY <2>2, <3>0, <4>1, <5>2, <6>2 DEF Inv, LocksExclude, AvailableLock
        <5>3. CASE Stage(c) # "reserve"
          <6>1. ToAvailable(Stage(c), Amount(c)) \in Nat
            BY <5>1, <5>3 DEF ToAvailable
          <6>2. available' = [available EXCEPT ![Account(c)] = @ + ToAvailable(Stage(c), Amount(c))]
            BY <1>0, <1>1, TransferFacts
          <6> QED BY <1>0, <4>1, <5>1, <6>1, <6>2 DEF TypeOK
        <5>4. CASE Account(c) # Account(o)
          <6>1. available' = [available EXCEPT ![Account(c)] = @ + ToAvailable(Stage(c), Amount(c))]
            BY <1>0, <1>1, TransferFacts
          <6> QED BY <1>0, <4>1, <5>1, <5>4, <6>1 DEF TypeOK
        <5> QED BY <5>2, <5>3, <5>4
      <4> QED BY <1>2, <1>3, <2>2, <3>0, <4>1, <4>2
    <3> QED BY <3>1, <3>2, <3>3 DEF CreateInv
  <2> QED BY <2>1, <2>2
<1>7. ASSUME NEW t \in Transitions PROVE TransitionInv(t)'
  <2>1. CASE t = c
    BY <1>2, <2>1 DEF TransitionInv, Unlocked, Committing, Closing
  <2>2. CASE t # c
    <3>0. t \in Calls /\ TransitionInv(t) /\ Op(t) \in Operations
      BY <1>0, OwnFacts, CallFacts DEF Calls
    <3>1. ASSUME pc'[t] \notin Unlocked
          PROVE  OperationLock(t)' \subseteq held'[t] /\ Placed(Op(t))'
      <4>1. OperationLock(t) \subseteq held[t] /\ Placed(Op(t))
        BY <1>2, <2>2, <3>0, <3>1 DEF TransitionInv
      <4>2. Op(t)' = Op(t)
        BY <1>3
      <4> QED BY <1>0, <1>1, <1>2, <1>3, <2>2, <3>0, <4>1, <4>2, StatusFacts DEF Placed
    <3>2. ASSUME pc'[t] \notin Unlocked \cup {"event"}
          PROVE  rule'[t] = Allowed(t)' /\ rule'[t] # {}
      <4>1. rule[t] = Allowed(t) /\ rule[t] # {} /\ pc[t] \notin Unlocked
        BY <1>2, <2>2, <3>0, <3>2 DEF TransitionInv
      <4>2. status'[Op(t)] = status[Op(t)]
        <5>1. Op(t) # Op(c)
          BY <1>0, <2>2, <3>0, <4>1, OnlyItsOperation
        <5> QED BY <1>0, <1>1, <3>0, <5>1, StatusFacts
      <4>3. Allowed(t)' = Allowed(t)
        BY <1>1, <1>3, <4>2 DEF Allowed
      <4> QED BY <1>1, <4>1, <4>3
    <3>3. ASSUME pc'[t] \in Committing
          PROVE  EventLock(t)' \subseteq held'[t] /\ Recorded(t)' = {}
      <4>1. EventLock(t) \subseteq held[t] /\ Recorded(t) = {}
        BY <1>2, <2>2, <3>0, <3>3 DEF TransitionInv
      <4>2. ASSUME NEW e \in Recorded(t)' PROVE FALSE
        <5>1. e \in events' /\ e.event = move[t].event
          BY <1>1, <4>2 DEF Recorded
        <5>2. c \in Transitions /\ move[c].event = move[t].event
          BY <1>0, <1>1, <4>1, <5>1, EventsFacts DEF Recorded
        <5>3. EventLock(c) \subseteq held[c] /\ EventLock(c) = EventLock(t)
          BY <1>0, <5>2, OwnFacts DEF TransitionInv, EventLock
        <5> QED BY <2>2, <3>0, <4>1, <5>3 DEF Inv, LocksExclude, EventLock
      <4> QED BY <1>2, <1>3, <2>2, <3>0, <4>1, <4>2
    <3>4. ASSUME pc'[t] \in {"clearing", "creditAvailable"} \cup Closing,
                 Stage(t)' \in {"settle", "release"}
          PROVE  ReservedLock(Account(t))' \subseteq held'[t] /\ reserved'[Account(t)'] >= Amount(t)'
      <4>1. ReservedLock(Account(t)) \subseteq held[t] /\ reserved[Account(t)] >= Amount(t)
        BY <1>2, <1>3, <2>2, <3>0, <3>4 DEF TransitionInv
      <4>2. reserved'[Account(t)] >= Amount(t)
        <5>1. /\ Account(t) \in Accounts /\ Amount(t) \in Nat /\ Amount(c) \in Nat
              /\ Stage(c) \in Stages /\ reserved[Account(t)] \in Nat
          BY <1>0, <3>0, CallFacts DEF TypeOK
        <5>2. CASE Stage(c) \in {"settle", "release"} /\ Account(c) = Account(t)
          <6>1. c \in Transitions
            BY <5>2 DEF Stage, CreateStage, Calls
          <6>2. ReservedLock(Account(c)) \subseteq held[c]
            BY <1>0, <5>2, <6>1, OwnFacts DEF TransitionInv, Closing
          <6> QED BY <2>2, <3>0, <4>1, <5>2, <6>2 DEF Inv, LocksExclude, ReservedLock
        <5>3. CASE Stage(c) \notin {"settle", "release"}
          <6>1. ToReserved(Stage(c), Amount(c)) \in Nat
            BY <5>1, <5>3 DEF ToReserved
          <6>2. reserved' = [reserved EXCEPT ![Account(c)] = @ + ToReserved(Stage(c), Amount(c))]
            BY <1>0, <1>1, TransferFacts
          <6> QED BY <1>0, <4>1, <5>1, <6>1, <6>2 DEF TypeOK
        <5>4. CASE Account(c) # Account(t)
          <6>1. reserved' = [reserved EXCEPT ![Account(c)] = @ + ToReserved(Stage(c), Amount(c))]
            BY <1>0, <1>1, TransferFacts
          <6> QED BY <1>0, <4>1, <5>1, <5>4, <6>1 DEF TypeOK
        <5> QED BY <5>2, <5>3, <5>4
      <4> QED BY <1>2, <1>3, <2>2, <3>0, <4>1, <4>2
    <3> QED BY <3>1, <3>2, <3>3, <3>4 DEF TransitionInv
  <2> QED BY <2>1, <2>2
<1>8. ASSUME NEW d \in Calls PROVE PostingInv(d)' /\ AnswerInv(d)'
  <2>1. CASE d = c
    BY <1>2, <2>1 DEF PostingInv, AnswerInv, Posting, Closing, Committing
  <2>2. CASE d # c
    BY <1>2, <1>3, <2>2, OwnFacts DEF PostingInv, AnswerInv
  <2> QED BY <2>1, <2>2
<1>9. PostingsFollowStatus'
  <2> SUFFICES ASSUME NEW x \in postings'
               PROVE  /\ Placed(x[1])'
                      /\ x[2] \in {"credit", "settle"} => status'[x[1]] = "completed"
                      /\ x[2] = "release" => status'[x[1]] \in {"rejected", "failed"}
    BY DEF PostingsFollowStatus
  <2>1. CASE x \in postings /\ x[1] # Op(c)
    BY <1>0, <1>1, <2>1, StatusFacts DEF Inv, PostingsFollowStatus, TypeOK, Placed
  <2>2. CASE x \in postings /\ x[1] = Op(c)
    <3>1. c \in Transitions
      BY <1>0, <1>1, <2>2, RecordOfCreate DEF Inv, PostingsFollowStatus, Calls
    <3>2. PICK r \in Allowed(c) : TRUE
      BY <1>0, <1>1, <3>1, RecordOfTransition
    <3>3. status[Op(c)] \in {"pending", "reserved", "approved"}
      BY <3>1, <3>2, RuleFacts, TableFacts
    <3> QED BY <1>0, <1>1, <2>2, <3>3, StatusFacts DEF Inv, PostingsFollowStatus, Placed
  <2>3. CASE x = <<Op(c), Stage(c)>> /\ Stage(c) # "none"
    <3>1. Placed(x[1])'
      BY <1>0, <1>1, <2>3, StatusFacts DEF Placed
    <3>2. CASE c \in Operations
      <4>1. Stage(c) = "reserve"
        BY <2>3, <3>2 DEF Stage, CreateStage
      <4> QED BY <2>3, <3>1, <4>1
    <3>3. CASE c \in Transitions
      <4>1. PICK r \in Allowed(c) : status' = [status EXCEPT ![Op(c)] = r.to]
        BY <1>0, <1>1, <3>3, RecordOfTransition
      <4>2. r \in Table /\ Stage(c) = TransitionStage(r.kind, r.action)
        BY <3>3, RuleFacts, StageOfRule
      <4>3. /\ Stage(c) \in {"credit", "settle"} => r.to = "completed"
            /\ Stage(c) = "release" => r.to \in {"rejected", "failed"}
        BY <4>2, StageFacts, TableFacts
      <4>4. status'[Op(c)] = r.to
        BY <1>0, <4>1 DEF TypeOK
      <4> QED BY <2>3, <3>1, <4>3, <4>4
    <3> QED BY <3>2, <3>3 DEF Calls
  <2> QED BY <1>0, <1>1, <2>1, <2>2, <2>3, TransferFacts
<1>10. EventsAreOfEndedCalls'
  <2>1. \A e \in events : e.call \in Calls
    BY <1>0 DEF TypeOK, EventRow, Calls
  <2> QED BY <1>0, <1>1, <1>2, <2>1, EventsFacts DEF Inv, EventsAreOfEndedCalls
<1> QED BY <1>4, <1>5, <1>6, <1>7, <1>8, <1>9, <1>10 DEF Inv

(* COMMIT takes effect, and its answer arrives. *)
LEMMA CommitStep ==
  ASSUME Inv, NEW c \in Calls, Commit(c)
  PROVE  Inv'
<1>1. Effective(c)
  BY DEF Commit, Effective, End, Goto, Committing, Answers
<1> QED BY <1>1, EffectiveStep

(* A lost COMMIT turns out to have taken effect, or not to have. *)
LEMMA ResolveStep ==
  ASSUME Inv, NEW c \in Calls, Resolve(c)
  PROVE  Inv'
<1>0. answer[c] \in Answers
  BY DEF Inv, TypeOK
<1>1. CASE Publish(c)
  <2>1. Effective(c)
    BY <1>0, <1>1 DEF Resolve, Effective, End, Goto, Committing
  <2> QED BY <2>1, EffectiveStep
<1>2. CASE NothingWritten
  BY <1>0, <1>2, EndQuietly DEF Resolve
<1> QED BY <1>1, <1>2 DEF Resolve

-----------------------------------------------------------------------------
(* A new call, a round, and the whole of Next *)

(* A new create holds nothing, and nobody else is about its operation. *)
LEMMA CreateStartsEmpty ==
  ASSUME Inv, NEW o \in Operations, NEW asked \in Order, Create(o, asked)
  PROVE  Inv'
<1>0. TypeOK /\ o \in Calls /\ Op(o) = o /\ ~Placed(o) /\ pc[o] = "idle" /\ o \notin Transitions
  BY OwnFacts DEF Inv, Create, Calls, CreateInv
<1>1. /\ UNCHANGED <<move, rule, held, answer, status, events, postings, wallets>>
      /\ UNCHANGED <<available, reserved, clearing, won, played>>
  BY DEF Create, paymentVars, moneyVars, roundVars
<1>2. /\ pc' = [pc EXCEPT ![o] = "insert"] /\ order' = [order EXCEPT ![o] = asked]
      /\ pc'[o] = "insert" /\ \A d \in Calls : d # o => pc'[d] = pc[d]
      /\ \A p \in Operations : p # o => order'[p] = order[p]
  BY <1>0 DEF Create, Goto, TypeOK
<1>3. TypeOK'
  BY <1>0, <1>1, <1>2 DEF TypeOK, PCs
<1>4. LocksExclude' /\ PostingsFollowStatus'
  BY <1>1 DEF Inv, LocksExclude, PostingsFollowStatus, Placed
<1>5. \A d : Op(d)' = Op(d)
  BY <1>1 DEF Op
<1>6. ASSUME NEW d \in Calls, Op(d) # o
      PROVE  /\ UNCHANGED <<Account(d), Kind(d), Amount(d), Stage(d)>>
             /\ UNCHANGED <<OperationLock(d), EventLock(d), PostingLock(d)>>
             /\ UNCHANGED <<AvailableLock(Account(d)), ReservedLock(Account(d))>>
  <2>1. order'[Op(d)] = order[Op(d)]
    BY <1>0, <1>2, <1>6, CallFacts
  <2> QED BY <1>1, <1>5, <2>1 DEF Account, Kind, Amount, Stage, OperationLock, EventLock,
                                   PostingLock, AvailableLock, ReservedLock
<1>7. ASSUME NEW d \in Calls, Op(d) = o
      PROVE  pc[d] \in Unlocked /\ pc'[d] \in Unlocked
  BY <1>0, <1>2, <1>7, OwnFacts DEF TransitionInv, Unlocked, Calls
<1>8. ASSUME NEW p \in Operations PROVE CreateInv(p)'
  <2>1. CASE p = o
    BY <1>0, <1>1, <1>2, <2>1 DEF CreateInv, Unlocked, Committing, Placed
  <2>2. CASE p # o
    <3>0. p \in Calls /\ Op(p) = p /\ CreateInv(p) /\ order'[p] = order[p] /\ pc'[p] = pc[p]
      BY <1>2, <2>2, OwnFacts DEF Calls
    <3>1. KeyLock(p)' = KeyLock(p) /\ Placed(p)' = Placed(p)
      BY <1>1, <1>6, <2>2, <3>0 DEF KeyLock, Placed
    <3>2. Existing(p)' \subseteq Existing(p)
      BY <1>0, <1>1, <1>2, <3>0 DEF Existing, Placed
    <3> QED BY <1>1, <1>6, <2>2, <3>0, <3>1, <3>2 DEF CreateInv
  <2> QED BY <2>1, <2>2
<1>9. ASSUME NEW t \in Transitions PROVE TransitionInv(t)'
  <2>0. t \in Calls /\ TransitionInv(t) /\ pc'[t] = pc[t]
    BY <1>0, <1>2, OwnFacts DEF Calls
  <2>1. CASE Op(t) = o
    BY <1>7, <2>0, <2>1 DEF TransitionInv, Unlocked, Committing, Closing
  <2>2. CASE Op(t) # o
    <3>1. Recorded(t)' = Recorded(t) /\ Placed(Op(t))' = Placed(Op(t))
      BY <1>1, <1>5 DEF Recorded, Placed
    <3>2. Allowed(t)' = Allowed(t)
      BY <1>1, <1>5, <1>6, <2>0, <2>2 DEF Allowed
    <3> QED BY <1>1, <1>6, <2>0, <2>2, <3>1, <3>2 DEF TransitionInv
  <2> QED BY <2>1, <2>2
<1>10. ASSUME NEW d \in Calls PROVE PostingInv(d)' /\ AnswerInv(d)'
  <2>1. CASE Op(d) = o
    <3>1. pc'[d] \notin Posting \cup Closing \cup {"post"}
      BY <1>7, <2>1 DEF Unlocked, Posting, Closing, Committing
    <3> QED BY <1>0, <1>1, <1>2, <3>1, OwnFacts DEF PostingInv, AnswerInv
  <2>2. CASE Op(d) # o
    BY <1>0, <1>1, <1>2, <1>6, <2>2, OwnFacts DEF PostingInv, AnswerInv
  <2> QED BY <2>1, <2>2
<1>11. EventsAreOfEndedCalls'
  <2>1. \A e \in events : e.call \in Calls
    BY <1>0 DEF TypeOK, EventRow, Calls
  <2> QED BY <1>0, <1>1, <1>2, <2>1 DEF Inv, EventsAreOfEndedCalls
<1> QED BY <1>3, <1>4, <1>8, <1>9, <1>10, <1>11 DEF Inv

(* A new transition holds nothing. *)
LEMMA RequestStartsEmpty ==
  ASSUME Inv, NEW t \in Transitions, NEW asked \in Move, Request(t, asked)
  PROVE  Inv'
<1>0. TypeOK /\ t \in Calls /\ t \notin Operations /\ pc[t] = "idle"
  BY OwnFacts DEF Inv, Request, Calls
<1>1. /\ UNCHANGED <<order, rule, held, answer, status, events, postings, wallets>>
      /\ UNCHANGED <<available, reserved, clearing, won, played>>
  BY DEF Request, paymentVars, moneyVars, roundVars
<1>2. /\ pc' = [pc EXCEPT ![t] = "lockOperation"] /\ move' = [move EXCEPT ![t] = asked]
      /\ pc'[t] = "lockOperation" /\ \A d \in Calls : d # t => pc'[d] = pc[d]
      /\ \A d \in Transitions : d # t => move'[d] = move[d]
  BY <1>0 DEF Request, Goto, TypeOK
<1>3. TypeOK'
  BY <1>0, <1>1, <1>2 DEF TypeOK, PCs
<1>4. LocksExclude' /\ PostingsFollowStatus'
  BY <1>1 DEF Inv, LocksExclude, PostingsFollowStatus, Placed
<1>5. ASSUME NEW d \in Calls, d # t
      PROVE  /\ UNCHANGED <<Op(d), Account(d), Kind(d), Amount(d), Stage(d)>>
             /\ UNCHANGED <<OperationLock(d), PostingLock(d)>>
             /\ UNCHANGED <<AvailableLock(Account(d)), ReservedLock(Account(d))>>
  <2>1. Op(d)' = Op(d)
    BY <1>2, <1>5 DEF Op, Calls
  <2>2. Stage(d)' = Stage(d)
    BY <1>1, <1>2, <1>5, <2>1 DEF Stage, Kind, Calls
  <2> QED BY <1>1, <2>1, <2>2 DEF Account, Kind, Amount, OperationLock, PostingLock,
                                   AvailableLock, ReservedLock
<1>6. ASSUME NEW o \in Operations PROVE CreateInv(o)'
  <2>1. o \in Calls /\ o # t /\ CreateInv(o)
    BY <1>0, OwnFacts DEF Calls
  <2>2. KeyLock(o)' = KeyLock(o) /\ Existing(o)' = Existing(o) /\ Placed(o)' = Placed(o)
    BY <1>1, <1>5, <2>1 DEF KeyLock, Existing, Placed
  <2> QED BY <1>1, <1>2, <1>5, <2>1, <2>2 DEF CreateInv
<1>7. ASSUME NEW d \in Transitions PROVE TransitionInv(d)'
  <2>1. CASE d = t
    BY <1>2, <2>1 DEF TransitionInv, Unlocked, Committing, Closing
  <2>2. CASE d # t
    <3>0. d \in Calls /\ TransitionInv(d) /\ move'[d] = move[d] /\ pc'[d] = pc[d]
      BY <1>2, <2>2, OwnFacts DEF Calls
    <3>1. /\ EventLock(d)' = EventLock(d) /\ Recorded(d)' = Recorded(d)
          /\ Allowed(d)' = Allowed(d) /\ Placed(Op(d))' = Placed(Op(d))
      BY <1>1, <1>5, <2>2, <3>0 DEF EventLock, Recorded, Allowed, Placed
    <3> QED BY <1>1, <1>5, <2>2, <3>0, <3>1 DEF TransitionInv
  <2> QED BY <2>1, <2>2
<1>8. ASSUME NEW d \in Calls PROVE PostingInv(d)' /\ AnswerInv(d)'
  <2>1. CASE d = t
    BY <1>0, <1>1, <1>2, <2>1, OwnFacts DEF PostingInv, AnswerInv, Posting, Closing, Committing
  <2>2. CASE d # t
    BY <1>1, <1>2, <1>5, <2>2, OwnFacts DEF PostingInv, AnswerInv
  <2> QED BY <2>1, <2>2
<1>9. EventsAreOfEndedCalls'
  <2>1. \A e \in events : e.call \in Calls
    BY <1>0 DEF TypeOK, EventRow, Calls
  <2> QED BY <1>0, <1>1, <1>2, <2>1 DEF Inv, EventsAreOfEndedCalls
<1> QED BY <1>3, <1>4, <1>6, <1>7, <1>8, <1>9 DEF Inv

(* A round can take no money from under a call that has locked the wallet. *)
LEMMA PlayStep ==
  ASSUME Inv, NEW a \in Accounts, NEW net \in Nets, Play(a, net)
  PROVE  Inv'
<1>0. TypeOK
  BY DEF Inv
<1>1. /\ UNCHANGED <<pc, order, move, rule, held, answer, status, events, postings, wallets>>
      /\ UNCHANGED <<reserved, clearing>>
  BY DEF Play, callVars, paymentVars
<1>2. /\ available' = [available EXCEPT ![a] = available[a] + net]
      /\ won' = [won EXCEPT ![a] = won[a] + net] /\ played' = played + 1 /\ played < MaxRounds
      /\ available[a] + net >= 0 /\ net \in Int /\ MaxRounds \in Nat
      /\ \A c \in Calls : AvailableLock(a) \cap held[c] = {}
  BY BalanceAssumption DEF Play
<1>3. TypeOK'
  <2>1. available' \in [Accounts -> Nat] /\ won' \in [Accounts -> Int] /\ played' \in 0..MaxRounds
    BY <1>0, <1>2 DEF TypeOK
  <2> QED BY <1>0, <1>1, <2>1 DEF TypeOK
<1>4. \A c : /\ UNCHANGED <<Op(c), Account(c), Kind(c), Amount(c), Stage(c)>>
            /\ UNCHANGED <<KeyLock(c), OperationLock(c), EventLock(c), PostingLock(c)>>
            /\ UNCHANGED <<Placed(c), Existing(c), Allowed(c), Recorded(c)>>
            /\ UNCHANGED <<AvailableLock(Account(c)), ReservedLock(Account(c))>>
  BY <1>1, Unmoved, Unrecorded DEF AvailableLock, ReservedLock
<1>5. ASSUME NEW o \in Operations PROVE CreateInv(o)'
  <2>1. o \in Calls /\ CreateInv(o) /\ Account(o) \in Accounts
    BY <1>0, OwnFacts, CallFacts DEF Calls
  <2>2. AvailableLock(Account(o)) \subseteq held[o] => Account(o) # a
    BY <1>2, <2>1 DEF AvailableLock
  <2>3. Account(o) # a => available'[Account(o)] = available[Account(o)]
    BY <1>0, <1>2, <2>1 DEF TypeOK
  <2> QED BY <1>1, <1>4, <2>1, <2>2, <2>3 DEF CreateInv
<1>6. ASSUME NEW t \in Transitions PROVE TransitionInv(t)'
  BY <1>1, <1>4 DEF Inv, TransitionInv
<1>7. /\ \A c \in Calls : PostingInv(c)' /\ AnswerInv(c)'
      /\ LocksExclude' /\ PostingsFollowStatus' /\ EventsAreOfEndedCalls'
  BY <1>1, <1>4 DEF Inv, PostingInv, AnswerInv, LocksExclude, PostingsFollowStatus,
                    EventsAreOfEndedCalls
<1> QED BY <1>3, <1>5, <1>6, <1>7 DEF Inv

(* Nothing changes. *)
LEMMA StutterStep ==
  ASSUME Inv, UNCHANGED vars
  PROVE  Inv'
<1>1. /\ UNCHANGED <<pc, order, move, rule, held, answer, status, events, postings, wallets>>
      /\ UNCHANGED <<available, reserved, clearing, won, played>>
  BY DEF vars, callVars, paymentVars, moneyVars, roundVars
<1>2. TypeOK'
  BY <1>1 DEF Inv, TypeOK
<1>3. \A c : /\ UNCHANGED <<Op(c), Account(c), Kind(c), Amount(c), Stage(c)>>
            /\ UNCHANGED <<KeyLock(c), OperationLock(c), EventLock(c), PostingLock(c)>>
            /\ UNCHANGED <<Placed(c), Existing(c), Allowed(c), Recorded(c)>>
            /\ UNCHANGED <<AvailableLock(Account(c)), ReservedLock(Account(c))>>
  BY <1>1, Unmoved, Unrecorded DEF AvailableLock, ReservedLock
<1> QED BY <1>1, <1>2, <1>3 DEF Inv, LocksExclude, CreateInv, TransitionInv, PostingInv, AnswerInv,
                                PostingsFollowStatus, EventsAreOfEndedCalls

(* Every step of the specification. *)
LEMMA NextPreserves ==
  ASSUME Inv, [Next]_vars
  PROVE  Inv'
<1>1. ASSUME NEW o \in Operations, NEW asked \in Order, Create(o, asked) PROVE Inv'
  BY <1>1, CreateStartsEmpty
<1>2. ASSUME NEW t \in Transitions, NEW asked \in Move, Request(t, asked) PROVE Inv'
  BY <1>2, RequestStartsEmpty
<1>3. ASSUME NEW c \in Operations, CreateStep(c) PROVE Inv'
  BY <1>3, InsertStep, SelectExistingStep, DebitAvailableStep, CreditReservedStep DEF CreateStep
<1>4. ASSUME NEW c \in Transitions, TransitionStep(c) PROVE Inv'
  BY <1>4, LockOperationStep, SelectEventStep, InsertEventStep, DebitReservedStep,
     CreditAvailableStep, ClearingStep DEF TransitionStep
<1>5. ASSUME NEW c \in Calls, CallStep(c) PROVE Inv'
  BY <1>5, PostStep, ReserveWalletStep, CommitStep, ResolveStep, AbortVictimStep DEF CallStep
<1>6. ASSUME NEW c \in Calls, LoseCommit(c) \/ Fail(c) PROVE Inv'
  BY <1>6, LoseCommitStep, FailStep
<1>7. ASSUME NEW a \in Accounts, NEW net \in Nets, Play(a, net) PROVE Inv'
  BY <1>7, PlayStep
<1>8. CASE UNCHANGED vars
  BY <1>8, StutterStep
<1> QED BY <1>1, <1>2, <1>3, <1>4, <1>5, <1>6, <1>7, <1>8 DEF Next, Step, Terminated

(* At first there is no operation and no call has begun. *)
LEMMA InitHolds == ASSUME Init PROVE Inv
<1>1. (CHOOSE x \in Order : TRUE) \in Order
  <2>1. Order # {}
    <3>1. PICK a \in Accounts, n \in Amounts, k \in Keys : TRUE
      BY AskAssumption
    <3>2. [account |-> a, kind |-> "deposit", amount |-> n, key |-> k] \in Order
      BY DEF Order, Kinds
    <3> QED BY <3>2
  <2> QED BY <2>1
<1>2. (CHOOSE x \in Move : TRUE) \in Move
  <2>1. Move # {}
    <3>1. PICK o \in Operations, e \in Events : TRUE
      BY AskAssumption
    <3>2. [op |-> o, action |-> "complete", event |-> e] \in Move
      BY DEF Move, Actions
    <3> QED BY <3>2
  <2> QED BY <2>1
<1>3. TypeOK
  <2>1. pc \in [Calls -> PCs] /\ answer \in [Calls -> Answers] /\ status \in [Operations -> Statuses]
    BY DEF Init, PCs, Answers, Statuses
  <2>2. order \in [Operations -> Order] /\ move \in [Transitions -> Move]
    BY <1>1, <1>2 DEF Init
  <2>3. rule \in [Transitions -> SUBSET Table] /\ held \in [Calls -> SUBSET Locks]
    BY DEF Init
  <2>4. events \subseteq EventRow /\ postings \subseteq Operations \X Stages /\ wallets \subseteq Accounts
    BY DEF Init
  <2>5. /\ available \in [Accounts -> Nat] /\ reserved \in [Accounts -> Nat] /\ clearing \in Int
        /\ won \in [Accounts -> Int] /\ played \in 0..MaxRounds
    BY BalanceAssumption DEF Init
  <2> QED BY <2>1, <2>2, <2>3, <2>4, <2>5 DEF TypeOK
<1>4. LocksExclude /\ PostingsFollowStatus /\ EventsAreOfEndedCalls
  BY DEF Init, LocksExclude, PostingsFollowStatus, EventsAreOfEndedCalls
<1>5. \A c \in Calls : PostingInv(c) /\ AnswerInv(c)
  BY DEF Init, PostingInv, AnswerInv, Posting, Closing, Committing
<1>6. \A o \in Operations : CreateInv(o)
  BY DEF Init, CreateInv, Placed, Calls, Unlocked, Committing
<1>7. \A t \in Transitions : TransitionInv(t)
  BY DEF Init, TransitionInv, Calls, Unlocked, Committing, Closing
<1> QED BY <1>3, <1>4, <1>5, <1>6, <1>7 DEF Inv

(* The inductive invariant holds in every reachable state. *)
LEMMA Invariance == Spec => []Inv
<1>1. Init => Inv
  BY InitHolds
<1>2. Inv /\ [Next]_vars => Inv'
  BY NextPreserves
<1> QED BY <1>1, <1>2, PTL DEF Spec

-----------------------------------------------------------------------------
(* What a step does to the record and to the answers *)

(* A call is answered without a change, for the reason it is told. *)
Answering(c, kind) ==
  /\ pc[c] \notin {"inDoubt", "done"}
  /\ answer' = [answer EXCEPT ![c] = kind]
  /\ kind \in {"replayed", "conflict", "refused", "failed"}
  /\ c \in Operations => /\ kind = "replayed" => \E p \in Existing(c) : order[p] = order[c]
                         /\ kind = "conflict" => Existing(c) # {}
  /\ c \in Transitions =>
       /\ kind = "replayed" => \E e \in Recorded(c) : e.op = Op(c) /\ e.action = move[c].action
       /\ kind = "conflict" => Recorded(c) # {}

(* Nothing is written that outlives a call. *)
Silent == UNCHANGED <<order, move, paymentVars, moneyVars, roundVars>>

(* A COMMIT takes effect, and its call has that answer or an error. *)
Effect(c) ==
  /\ Effective(c)
  /\ \/ answer[c] = "none" /\ answer' = [answer EXCEPT ![c] = "done"]
     \/ answer[c] = "failed" /\ answer' = answer

(* All that a step can do to the record, the requests and the answers. *)
StepCase ==
  \/ \E c \in Calls : Effect(c)
  \/ \E o \in Operations, asked \in Order : Create(o, asked)
  \/ \E t \in Transitions, asked \in Move : Request(t, asked)
  \/ \E a \in Accounts, net \in Nets : Play(a, net)
  \/ Silent /\ \E c \in Calls, kind \in Answers : Answering(c, kind)
  \/ Silent /\ UNCHANGED answer

(* A call that ends without a COMMIT is refused or fails. *)
LEMMA QuietlyEnded ==
  ASSUME Inv, NEW c \in Calls, NEW kind \in {"refused", "failed"}, End(c, kind),
         pc[c] \notin {"inDoubt", "done"}, Silent
  PROVE  StepCase
<1>1. Answering(c, kind)
  BY DEF Answering, End
<1> QED BY <1>1 DEF StepCase, Answers

(* A statement in the middle of a call. *)
LEMMA TakenOrPassed ==
  ASSUME NEW c, NEW to, Take(c, to) \/ Pass(c, to), Silent
  PROVE  StepCase
BY DEF Take, Pass, StepCase

(* A create is told replayed if the operation of its key is the one it asked for. *)
LEMMA SelectExistingCase ==
  ASSUME Inv, NEW o \in Operations, SelectExisting(o)
  PROVE  StepCase
<1>0. TypeOK /\ o \in Calls /\ Op(o) = o /\ o \notin Transitions /\ pc[o] = "existing" /\ Silent
  BY OwnFacts DEF Inv, Calls, SelectExisting, NothingWritten, Silent
<1>1. PICK p \in Existing(o) :
        End(o, IF order[p].amount = order[o].amount THEN "replayed" ELSE "conflict")
  BY DEF SelectExisting, ReplayExisting
<1>2. CASE order[p].amount = order[o].amount
  <2>1. order[p] = order[o]
    <3>1. order[p] \in Order /\ order[o] \in Order
      BY <1>0 DEF TypeOK, Existing
    <3> QED BY <1>1, <1>2, <3>1 DEF Existing, Order
  <2>2. Answering(o, "replayed")
    BY <1>0, <1>1, <1>2, <2>1 DEF Answering, End
  <2> QED BY <1>0, <2>2 DEF StepCase, Answers
<1>3. CASE order[p].amount # order[o].amount
  <2>1. Answering(o, "conflict")
    BY <1>0, <1>1, <1>3 DEF Answering, End
  <2> QED BY <1>0, <2>1 DEF StepCase, Answers
<1> QED BY <1>2, <1>3

(* A transition is told replayed if the event is recorded for what it asked. *)
LEMMA SelectEventCase ==
  ASSUME Inv, NEW t \in Transitions, SelectEvent(t)
  PROVE  StepCase
<1>0. t \in Calls /\ t \notin Operations /\ pc[t] = "event" /\ Silent
  BY OwnFacts DEF Inv, Calls, SelectEvent, Silent
<1>1. CASE ReplayEvent(t)
  <2>1. PICK e \in Recorded(t) :
          End(t, IF e.op = Op(t) /\ e.action = move[t].action THEN "replayed" ELSE "conflict")
    BY <1>1 DEF ReplayEvent
  <2>2. CASE e.op = Op(t) /\ e.action = move[t].action
    <3>1. Answering(t, "replayed")
      BY <1>0, <2>1, <2>2 DEF Answering, End
    <3> QED BY <1>0, <3>1 DEF StepCase, Answers
  <2>3. CASE ~(e.op = Op(t) /\ e.action = move[t].action)
    <3>1. Answering(t, "conflict")
      BY <1>0, <2>1, <2>3 DEF Answering, End
    <3> QED BY <1>0, <3>1 DEF StepCase, Answers
  <2> QED BY <2>2, <2>3
<1>2. CASE ~ReplayEvent(t)
  <2>1. CASE Allowed(t) = {}
    <3>1. End(t, "refused")
      BY <1>2, <2>1 DEF SelectEvent
    <3> QED BY <1>0, <3>1, QuietlyEnded
  <2>2. CASE Allowed(t) # {}
    <3>1. Pass(t, IF Stage(t) = "none" THEN "insertEvent" ELSE "post")
      BY <1>2, <2>2 DEF SelectEvent
    <3> QED BY <1>0, <3>1, TakenOrPassed
  <2> QED BY <2>1, <2>2
<1> QED BY <1>1, <1>2

(* The other statements. *)
LEMMA StatementCases ==
  ASSUME Inv, NEW c \in Calls,
         \/ Insert(c) \/ DebitAvailable(c) \/ CreditReserved(c) \/ LockOperation(c)
         \/ InsertEvent(c) \/ DebitReserved(c) \/ CreditAvailable(c) \/ Clearing(c)
         \/ Post(c) \/ ReserveWallet(c) \/ Fail(c)
  PROVE  StepCase
<1>1. NothingWritten => Silent
  BY DEF NothingWritten, Silent
<1>2. CASE Insert(c) \/ CreditReserved(c) \/ CreditAvailable(c) \/ Clearing(c) \/ Post(c) \/ ReserveWallet(c)
  BY <1>1, <1>2, TakenOrPassed DEF Insert, CreditReserved, CreditAvailable, Clearing, Post, ReserveWallet
<1>3. CASE DebitAvailable(c)
  BY <1>1, <1>3, TakenOrPassed, QuietlyEnded DEF DebitAvailable
<1>4. CASE LockOperation(c)
  BY <1>1, <1>4, TakenOrPassed, QuietlyEnded DEF LockOperation
<1>5. CASE InsertEvent(c)
  BY <1>1, <1>5, TakenOrPassed, QuietlyEnded DEF InsertEvent
<1>6. CASE DebitReserved(c)
  BY <1>1, <1>6, TakenOrPassed, QuietlyEnded DEF DebitReserved
<1>7. CASE Fail(c)
  BY <1>1, <1>7, QuietlyEnded DEF Fail
<1> QED BY <1>2, <1>3, <1>4, <1>5, <1>6, <1>7

(* The ways in which a transaction ends. *)
LEMMA EndCases ==
  ASSUME Inv, NEW c \in Calls, Commit(c) \/ Resolve(c) \/ LoseCommit(c) \/ AbortVictim(c)
  PROVE  StepCase
<1>0. TypeOK /\ AnswerInv(c)
  BY DEF Inv
<1>1. NothingWritten => Silent
  BY DEF NothingWritten, Silent
<1>2. CASE Commit(c)
  <2>1. Effective(c) /\ answer' = [answer EXCEPT ![c] = "done"]
    BY <1>2 DEF Commit, Effective, End, Goto, Committing, Answers
  <2>2. answer[c] = "none"
    BY <1>0, <1>2 DEF Commit, AnswerInv
  <2> QED BY <2>1, <2>2 DEF StepCase, Effect
<1>3. CASE Resolve(c)
  <2>1. answer[c] = "failed" /\ answer' = answer
    <3>1. answer[c] = "failed" /\ answer' = [answer EXCEPT ![c] = answer[c]]
      BY <1>0, <1>3 DEF Resolve, AnswerInv, End
    <3> QED BY <1>0, <3>1 DEF TypeOK
  <2>2. CASE NothingWritten
    BY <1>1, <2>1, <2>2 DEF StepCase
  <2>3. CASE Publish(c)
    <3>1. answer' = [answer EXCEPT ![c] = "failed"]
      BY <1>3, <2>1 DEF Resolve, End
    <3>2. Effective(c)
      BY <1>3, <2>3, <3>1 DEF Resolve, Effective, End, Goto, Committing, Answers
    <3> QED BY <2>1, <3>2 DEF StepCase, Effect
  <2> QED BY <1>3, <2>2, <2>3 DEF Resolve
<1>4. CASE LoseCommit(c)
  <2>1. Answering(c, "failed")
    BY <1>4 DEF Answering, LoseCommit
  <2> QED BY <1>1, <1>4, <2>1 DEF StepCase, Answers, LoseCommit
<1>5. CASE AbortVictim(c)
  <2>1. Wanted(c) # {}
    BY <1>5 DEF AbortVictim, Deadlocked, WaitsFor
  <2>2. pc[c] \notin {"inDoubt", "done"}
    BY <2>1 DEF Wanted
  <2> QED BY <1>1, <1>5, <2>2, QuietlyEnded DEF AbortVictim
<1> QED BY <1>2, <1>3, <1>4, <1>5

(* Every step is one of the cases. *)
LEMMA StepCases ==
  ASSUME Inv, [Next]_vars
  PROVE  StepCase
<1>1. ASSUME NEW c \in Calls, Step(c) \/ LoseCommit(c) \/ Fail(c) PROVE StepCase
  BY <1>1, SelectExistingCase, SelectEventCase, StatementCases, EndCases
     DEF Step, CreateStep, TransitionStep, CallStep
<1>2. CASE UNCHANGED vars
  BY <1>2 DEF vars, callVars, paymentVars, moneyVars, roundVars, StepCase, Silent
<1> QED BY <1>1, <1>2 DEF Next, Terminated, StepCase

-----------------------------------------------------------------------------
(* One operation per key *)

(* At first no key has an operation. *)
LEMMA KeysInit == ASSUME Init PROVE OneOperationPerKey
BY DEF Init, OneOperationPerKey, Placed

(* A create that commits holds its key, and no operation of it is there. *)
LEMMA KeysStep ==
  ASSUME Inv, [Next]_vars, OneOperationPerKey
  PROVE  OneOperationPerKey'
<1>0. TypeOK
  BY DEF Inv
<1>1. ASSUME NEW c \in Calls, Effective(c) PROVE OneOperationPerKey'
  <2>0. UNCHANGED order /\ Record(c) /\ pc[c] \in Committing /\ Op(c) \in Operations
    BY <1>0, <1>1, CallFacts DEF Effective, Publish
  <2>1. CASE c \in Transitions
    <3>1. \A o \in Operations : Placed(o)' <=> Placed(o)
      BY <2>0, <2>1, RecordOfTransition, StatusFacts DEF Placed
    <3>2. \A o \in Operations : Existing(o)' = Existing(o)
      BY <2>0, <3>1 DEF Existing, Placed
    <3> QED BY <3>1, <3>2 DEF OneOperationPerKey
  <2>2. CASE c \in Operations
    <3>1. Existing(c) = {} /\ ~Placed(c) /\ Op(c) = c
      BY <2>0, <2>2, RecordOfCreate
    <3>2. \A p \in Operations : p # c => (Placed(p)' <=> Placed(p))
      BY <2>0, <3>1, StatusFacts DEF Placed
    <3>3. Placed(c)'
      BY <2>0, <3>1, StatusFacts DEF Placed
    <3>4. Existing(c)' = {c}
      BY <2>0, <2>2, <3>1, <3>2, <3>3 DEF Existing, Placed
    <3>5. ASSUME NEW o \in Operations, o # c, Placed(o)' PROVE Existing(o)' = {o}
      <4>1. Placed(o) /\ Existing(o) = {o}
        BY <3>2, <3>5 DEF OneOperationPerKey
      <4>2. o \notin Existing(c)
        BY <3>1
      <4>3. c \notin Existing(o)'
        BY <2>0, <2>2, <4>1, <4>2 DEF Existing, Placed
      <4>4. c \notin Existing(o)
        BY <3>1 DEF Existing, Placed
      <4>5. \A p \in Operations : p # c => (p \in Existing(o)' <=> p \in Existing(o))
        BY <2>0, <3>2 DEF Existing, Placed
      <4>6. Existing(o) \subseteq Operations /\ Existing(o)' \subseteq Operations
        BY DEF Existing
      <4> QED BY <4>1, <4>3, <4>4, <4>5, <4>6
    <3> QED BY <3>4, <3>5 DEF OneOperationPerKey
  <2> QED BY <2>1, <2>2 DEF Calls
<1>2. ASSUME NEW o \in Operations, NEW asked \in Order, Create(o, asked) PROVE OneOperationPerKey'
  <2>1. ~Placed(o)
    BY <1>2, OwnFacts DEF Create, CreateInv, Calls
  <2>2. status' = status /\ \A p \in Operations : p # o => order'[p] = order[p]
    BY <1>0, <1>2 DEF Create, paymentVars, TypeOK
  <2>3. \A p \in Operations : Placed(p) => Existing(p)' = Existing(p)
    BY <2>1, <2>2 DEF Existing, Placed
  <2> QED BY <2>2, <2>3 DEF OneOperationPerKey, Placed
<1>3. ASSUME UNCHANGED <<order, status>> PROVE OneOperationPerKey'
  BY <1>3 DEF OneOperationPerKey, Existing, Placed
<1> QED BY <1>1, <1>2, <1>3, StepCases
        DEF StepCase, Effect, Request, Play, callVars, Silent, paymentVars

(* An account, kind and key have one operation, however often its create call *)
(* is repeated and whatever becomes of each attempt.                          *)
THEOREM OneOperation == Spec => []OneOperationPerKey
BY KeysInit, KeysStep, Invariance, PTL DEF Spec

(* No transaction leaves the database or a call in a state that is not one,   *)
(* nor a wallet overdrawn.                                                    *)
THEOREM TypeCorrect == Spec => []TypeOK
<1>1. Inv => TypeOK
  BY DEF Inv
<1> QED BY <1>1, Invariance, PTL

-----------------------------------------------------------------------------
(* The events of an operation *)

(* The statuses the operation has had, and those it has left. *)
Reached(o) == {Initial(order[o].kind)} \cup {e.to : e \in EventsOf(o)}
Left(o) == {e.from : e \in EventsOf(o)}

(* EventsExplainStatus for one operation. *)
EventsExplain(o) ==
  /\ Placed(o) => Reached(o) \ Left(o) = {status[o]}
  /\ ~Placed(o) => EventsOf(o) = {}
  /\ \A e, f \in EventsOf(o) : e.from = f.from => e = f
  /\ \A e \in EventsOf(o) :
       e.from \in Reached(o) /\ Rule(order[o].kind, e.from, e.action, e.to) \in Table

(* The property is about each operation on its own. *)
LEMMA ExplainEach == EventsExplainStatus <=> \A o \in Operations : EventsExplain(o)
BY DEF EventsExplainStatus, EventsExplain, Reached, Left

(* At first there is no event. *)
LEMMA EventsInit == ASSUME Init PROVE EventsExplainStatus
BY ExplainEach DEF Init, EventsExplain, EventsOf, Placed

(* A status that a rule leads to has not been left yet, while the one the rule *)
(* starts from has not.                                                        *)
LEMMA NewStatusIsNotLeft ==
  ASSUME NEW o \in Operations, EventsExplain(o), Placed(o),
         NEW x \in Table, x.from = status[o], x.kind = order[o].kind
  PROVE  x.to \notin Left(o) /\ x.from \notin Left(o) /\ x.from \in Reached(o) /\ x.to # x.from
<1>1. Reached(o) \ Left(o) = {status[o]}
  BY DEF EventsExplain
<1>2. x.from \in Reached(o) /\ x.from \notin Left(o)
  BY <1>1
<1>3. /\ x.from \in {"pending", "reserved", "approved"}
      /\ x.to \in {"approved", "completed", "rejected", "failed"}
      /\ x.to = "approved" => x.from = "reserved"
  BY TableFacts
<1>4. ASSUME x.to \in Left(o) PROVE FALSE
  <2>1. PICK e \in EventsOf(o) : e.from = x.to
    BY <1>4 DEF Left
  <2>2. Rule(order[o].kind, e.from, e.action, e.to) \in Table /\ e.from \in Reached(o)
    BY <2>1 DEF EventsExplain
  <2>3. e.from \in {"pending", "reserved", "approved"}
    BY <2>2, TableFacts DEF Rule
  <2>4. x.to = "approved" /\ x.from = "reserved"
    BY <1>3, <2>1, <2>3
  <2>5. PICK f \in EventsOf(o) : f.to = "approved"
    BY <2>1, <2>2, <2>4 DEF Reached, Initial
  <2>6. Rule(order[o].kind, f.from, f.action, f.to) \in Table
    BY <2>5 DEF EventsExplain
  <2>7. f.from = "reserved"
    BY <2>5, <2>6, TableFacts DEF Rule
  <2> QED BY <1>2, <2>4, <2>5, <2>7 DEF Left
<1> QED BY <1>2, <1>3, <1>4

(* A transition that commits adds the event of the rule it leaves the status by. *)
LEMMA EventsStep ==
  ASSUME Inv, [Next]_vars, EventsExplainStatus
  PROVE  EventsExplainStatus'
<1>0. TypeOK /\ \A o \in Operations : EventsExplain(o)
  BY ExplainEach DEF Inv
<1>1. ASSUME NEW c \in Calls, Effective(c), NEW o \in Operations PROVE EventsExplain(o)'
  <2>0. UNCHANGED <<order, move>> /\ Record(c) /\ pc[c] \in Committing /\ Op(c) \in Operations
    BY <1>0, <1>1, CallFacts DEF Effective, Publish
  <2>1. CASE c \in Operations
    <3>1. /\ ~Placed(c) /\ events' = events /\ Op(c) = c
          /\ status' = [status EXCEPT ![c] = Initial(Kind(c))]
      BY <2>0, <2>1, RecordOfCreate
    <3>2. EventsOf(o)' = EventsOf(o) /\ Reached(o)' = Reached(o) /\ Left(o)' = Left(o)
      BY <2>0, <3>1 DEF EventsOf, Reached, Left
    <3>3. CASE o # c
      <4>1. status'[o] = status[o]
        BY <2>0, <3>1, <3>3, StatusFacts
      <4> QED BY <1>0, <2>0, <3>2, <4>1 DEF EventsExplain, Placed
    <3>4. CASE o = c
      <4>1. EventsOf(o) = {}
        BY <1>0, <3>1, <3>4 DEF EventsExplain
      <4>2. status'[o] = Initial(order[o].kind) /\ Placed(o)'
        BY <1>0, <2>0, <3>1, <3>4, StatusFacts DEF Kind, TypeOK, Placed
      <4>3. Reached(o) = {Initial(order[o].kind)} /\ Left(o) = {}
        BY <4>1 DEF Reached, Left
      <4> QED BY <3>2, <4>1, <4>2, <4>3 DEF EventsExplain
    <3> QED BY <3>3, <3>4
  <2>2. CASE c \in Transitions
    <3>1. Placed(Op(c))
      BY <2>0, <2>2, RecordOfTransition
    <3>2. PICK x \in Allowed(c) : /\ status' = [status EXCEPT ![Op(c)] = x.to]
                                 /\ events' = events \cup {Row(c, x)}
      BY <2>0, <2>2, RecordOfTransition
    <3>3. CASE o # Op(c)
      <4>1. status'[o] = status[o]
        BY <2>0, <3>3, StatusFacts
      <4>2. EventsOf(o)' = EventsOf(o)
        BY <3>2, <3>3 DEF EventsOf, Row
      <4>3. Reached(o)' = Reached(o) /\ Left(o)' = Left(o)
        BY <2>0, <4>2 DEF Reached, Left
      <4> QED BY <1>0, <2>0, <4>1, <4>2, <4>3 DEF EventsExplain, Placed
    <3>4. CASE o = Op(c)
      <4>1. x \in Table /\ x.kind = order[o].kind /\ x.from = status[o]
        BY <2>2, <3>2, <3>4, RuleFacts DEF Kind
      <4>2. x.to \notin Left(o) /\ x.from \notin Left(o) /\ x.from \in Reached(o) /\ x.to # x.from
        BY <1>0, <3>1, <3>4, <4>1, NewStatusIsNotLeft
      <4>3. Placed(o)' /\ status'[o] = x.to
        BY <1>0, <2>0, <3>2, <3>4, StatusFacts DEF TypeOK, Placed
      <4>4. EventsOf(o)' = EventsOf(o) \cup {Row(c, x)}
        BY <3>2, <3>4 DEF EventsOf, Row
      <4>5. Row(c, x).from = x.from /\ Row(c, x).to = x.to /\ Row(c, x).action = x.action
        BY DEF Row
      <4>6. Reached(o)' = Reached(o) \cup {x.to} /\ Left(o)' = Left(o) \cup {x.from}
        BY <2>0, <4>4, <4>5 DEF Reached, Left
      <4>7. Reached(o) \ Left(o) = {x.from}
        BY <1>0, <3>1, <3>4, <4>1 DEF EventsExplain
      <4>8. Reached(o)' \ Left(o)' = {status'[o]}
        BY <4>2, <4>3, <4>6, <4>7
      <4>9. \A e, f \in EventsOf(o)' : e.from = f.from => e = f
        BY <1>0, <4>2, <4>4, <4>5 DEF EventsExplain, Left
      <4>10. Rule(order[o].kind, x.from, x.action, x.to) \in Table
        BY <4>1, TableFacts
      <4>11. \A e \in EventsOf(o)' :
               e.from \in Reached(o)' /\ Rule(order'[o].kind, e.from, e.action, e.to) \in Table
        BY <1>0, <2>0, <4>2, <4>4, <4>5, <4>6, <4>10 DEF EventsExplain
      <4> QED BY <4>3, <4>8, <4>9, <4>11 DEF EventsExplain
    <3> QED BY <3>3, <3>4
  <2> QED BY <2>1, <2>2 DEF Calls
<1>2. ASSUME NEW p \in Operations, NEW asked \in Order, Create(p, asked), NEW o \in Operations
      PROVE  EventsExplain(o)'
  <2>0. ~Placed(p)
    BY <1>2, OwnFacts DEF Create, CreateInv, Calls
  <2>1. UNCHANGED <<status, events>> /\ (o # p => order'[o] = order[o])
    BY <1>0, <1>2 DEF Create, paymentVars, TypeOK
  <2>2. EventsOf(o)' = EventsOf(o) /\ Left(o)' = Left(o)
    BY <2>1 DEF EventsOf, Left
  <2>3. CASE o = p
    <3>1. EventsOf(o) = {} /\ ~Placed(o)'
      BY <1>0, <2>0, <2>1, <2>3 DEF EventsExplain, Placed
    <3> QED BY <2>2, <3>1 DEF EventsExplain
  <2>4. CASE o # p
    BY <1>0, <2>1, <2>2, <2>4 DEF EventsExplain, Reached, Placed
  <2> QED BY <2>3, <2>4
<1>3. ASSUME UNCHANGED <<order, status, events>>, NEW o \in Operations PROVE EventsExplain(o)'
  BY <1>0, <1>3 DEF EventsExplain, Reached, Left, EventsOf, Placed
<1>4. \A o \in Operations : EventsExplain(o)'
  BY <1>1, <1>2, <1>3, StepCases DEF StepCase, Effect, Request, Play, callVars, Silent, paymentVars
<1> QED BY <1>4 DEF EventsExplainStatus, EventsExplain, Reached, Left

(* The recorded events of an operation are one path through the table, whatever *)
(* calls raced for it.                                                          *)
THEOREM EventsAreOnePath == Spec => []EventsExplainStatus
BY EventsInit, EventsStep, Invariance, PTL DEF Spec

-----------------------------------------------------------------------------
(* The answers *)

(* At first nobody is answered. *)
LEMMA AnswersInit == ASSUME Init PROVE AnswersMatchRecord
BY DEF Init, AnswersMatchRecord, Calls

(* What an answer rests on is never taken off the record. *)
LEMMA AnswersStep ==
  ASSUME Inv, [Next]_vars, AnswersMatchRecord
  PROVE  AnswersMatchRecord'
<1> DEFINE OfCreate(o) ==
             /\ answer[o] = "done" => Placed(o)
             /\ answer[o] = "replayed" => \E p \in Operations : Placed(p) /\ order[p] = order[o]
             /\ answer[o] \in {"replayed", "conflict", "refused"} => ~Placed(o)
           OfTransition(t) ==
             /\ answer[t] \in {"done", "replayed"} =>
                  \E e \in Recorded(t) : e.op = move[t].op /\ e.action = move[t].action
             /\ answer[t] \in {"replayed", "conflict", "refused"} => \A e \in events : e.call # t
           Good == /\ \A o \in Operations : OfCreate(o)
                   /\ \A t \in Transitions : OfTransition(t)
<1>0. TypeOK /\ Good
  BY DEF Inv, AnswersMatchRecord
<1>f. \A c \in Calls : answer[c] \notin {"none", "failed"} => pc[c] = "done"
  BY DEF Inv, AnswerInv
<1>1. ASSUME NEW c \in Calls, Effect(c) PROVE Good'
  <2>0. /\ UNCHANGED <<order, move>> /\ Record(c) /\ pc[c] \in Committing /\ Op(c) \in Operations
        /\ Effective(c)
    BY <1>0, <1>1, CallFacts DEF Effect, Effective, Publish
  <2>1. /\ answer'[c] \in {"done", "failed"}
        /\ \A d \in Calls : d # c => answer'[d] = answer[d]
    BY <1>0, <1>1 DEF Effect, TypeOK
  <2>2. /\ \A o \in Operations : Placed(o) => Placed(o)'
        /\ \A o \in Operations : o # Op(c) => status'[o] = status[o]
        /\ status'[Op(c)] # "none"
    <3>1. /\ status'[Op(c)] # "none"
          /\ \A o \in Operations : o # Op(c) => status'[o] = status[o]
      BY <2>0, StatusFacts
    <3> QED BY <2>0, <3>1 DEF Placed
  <2>3. ASSUME NEW o \in Operations PROVE OfCreate(o)'
    <3>1. CASE o = c
      <4>1. Op(c) = c
        BY <3>1, OwnFacts
      <4>2. Placed(o)' /\ answer'[o] \in {"done", "failed"}
        BY <2>1, <2>2, <3>1, <4>1 DEF Placed
      <4> QED BY <4>2
    <3>2. CASE o # c
      <4>1. answer'[o] = answer[o] /\ o \in Calls
        BY <2>1, <3>2 DEF Calls
      <4>2. ASSUME answer[o] \in {"replayed", "conflict", "refused"} PROVE ~Placed(o)'
        <5>1. ~Placed(o)
          BY <1>0, <4>2
        <5>2. o # Op(c)
          BY <2>0, <3>2, <5>1, RecordOfTransition, OwnFacts DEF Calls
        <5> QED BY <2>2, <5>1, <5>2 DEF Placed
      <4> QED BY <1>0, <2>0, <2>2, <4>1, <4>2
    <3> QED BY <3>1, <3>2
  <2>4. ASSUME NEW t \in Transitions PROVE OfTransition(t)'
    <3>1. CASE t = c
      <4>1. PICK x \in Allowed(t) : events' = events \cup {Row(t, x)}
        BY <2>0, <3>1, RecordOfTransition
      <4>2. /\ Row(t, x) \in Recorded(t)' /\ Row(t, x).op = move[t].op
            /\ Row(t, x).action = move[t].action
        BY <2>0, <4>1, RuleFacts, OwnFacts DEF Row, Recorded, Op, Calls
      <4> QED BY <2>0, <2>1, <3>1, <4>2
    <3>2. CASE t # c
      <4>1. answer'[t] = answer[t] /\ events \subseteq events'
            /\ \A e \in events' : e \in events \/ e.call = c
        BY <2>0, <2>1, <3>2, EventsFacts DEF Calls
      <4>2. Recorded(t) \subseteq Recorded(t)'
        BY <2>0, <4>1 DEF Recorded
      <4> QED BY <1>0, <2>0, <3>2, <4>1, <4>2
    <3> QED BY <3>1, <3>2
  <2> QED BY <2>3, <2>4
<1>2. ASSUME NEW o \in Operations, NEW asked \in Order, Create(o, asked) PROVE Good'
  <2>0. ~Placed(o) /\ answer[o] = "none" /\ o \in Calls
    BY <1>2, OwnFacts DEF Create, CreateInv, AnswerInv, Calls
  <2>1. /\ UNCHANGED <<move, answer, status, events>>
        /\ \A p \in Operations : p # o => order'[p] = order[p]
    BY <1>0, <1>2 DEF Create, paymentVars, TypeOK
  <2>2. \A p \in Operations : Placed(p)' = Placed(p)
    BY <2>1 DEF Placed
  <2>3. ASSUME NEW p \in Operations PROVE OfCreate(p)'
    BY <1>0, <2>0, <2>1, <2>2
  <2>4. \A t \in Transitions : OfTransition(t)'
    BY <1>0, <2>1 DEF Recorded
  <2> QED BY <2>3, <2>4
<1>3. ASSUME NEW t \in Transitions, NEW asked \in Move, Request(t, asked) PROVE Good'
  <2>0. answer[t] = "none" /\ t \in Calls
    BY <1>3, OwnFacts DEF Request, AnswerInv, Calls
  <2>1. /\ UNCHANGED <<order, answer, status, events>>
        /\ \A d \in Transitions : d # t => move'[d] = move[d]
    BY <1>0, <1>3 DEF Request, paymentVars, TypeOK
  <2>2. \A d \in Transitions : d # t => Recorded(d)' = Recorded(d)
    BY <2>1 DEF Recorded
  <2>3. \A p \in Operations : OfCreate(p)'
    BY <1>0, <2>1 DEF Placed
  <2>4. ASSUME NEW d \in Transitions PROVE OfTransition(d)'
    BY <1>0, <2>0, <2>1, <2>2
  <2> QED BY <2>3, <2>4
<1>4. ASSUME NEW c \in Calls, NEW kind \in Answers, Silent, Answering(c, kind) PROVE Good'
  <2>0. /\ UNCHANGED <<order, move, status, events>>
        /\ \A o : Placed(o)' = Placed(o) /\ Recorded(o)' = Recorded(o)
    BY <1>4 DEF Silent, paymentVars, Placed, Recorded
  <2>1. answer'[c] = kind /\ \A d \in Calls : d # c => answer'[d] = answer[d]
    BY <1>0, <1>4 DEF Answering, TypeOK
  <2>2. kind # "done" /\ kind \in {"replayed", "conflict", "refused", "failed"}
    BY <1>4 DEF Answering
  <2>3. ASSUME NEW o \in Operations PROVE OfCreate(o)'
    <3>1. CASE o = c
      <4>1. ~Placed(o)
        BY <1>4, <3>1, OwnFacts DEF Answering, CreateInv
      <4>2. kind = "replayed" => \E p \in Operations : Placed(p) /\ order[p] = order[o]
        BY <1>4, <3>1 DEF Answering, Existing, Placed
      <4> QED BY <2>0, <2>1, <2>2, <3>1, <4>1, <4>2
    <3>2. CASE o # c
      BY <1>0, <2>0, <2>1, <3>2 DEF Calls
    <3> QED BY <3>1, <3>2
  <2>4. ASSUME NEW t \in Transitions PROVE OfTransition(t)'
    <3>1. CASE t = c
      <4>1. \A e \in events : e.call # t
        BY <1>4, <3>1 DEF Answering, Inv, EventsAreOfEndedCalls
      <4>2. kind = "replayed" => \E e \in Recorded(t) : e.op = move[t].op /\ e.action = move[t].action
        BY <1>4, <3>1, OwnFacts DEF Answering, Op
      <4> QED BY <2>0, <2>1, <2>2, <3>1, <4>1, <4>2
    <3>2. CASE t # c
      BY <1>0, <2>0, <2>1, <3>2 DEF Calls
    <3> QED BY <3>1, <3>2
  <2> QED BY <2>3, <2>4
<1>5. ASSUME UNCHANGED <<answer, order, move, status, events>> PROVE Good'
  BY <1>0, <1>5 DEF Placed, Recorded
<1>6. Good'
  BY <1>1, <1>2, <1>3, <1>4, <1>5, StepCases DEF StepCase, Play, callVars, Silent, paymentVars
<1> QED BY <1>6 DEF AnswersMatchRecord

(* What a client was told is on record, or nothing of its call is, through lost *)
(* answers, retries and races.                                                  *)
THEOREM AnswersAreTrue == Spec => []AnswersMatchRecord
BY AnswersInit, AnswersStep, Invariance, PTL DEF Spec

-----------------------------------------------------------------------------
(* The money *)

(* Finitely many operations have been placed, so that their amounts have a sum. *)
FinitelyMany == IsFiniteSet({o \in Operations : Placed(o)})

(* What an operation of status s and amount n adds to the total of the kind in *)
(* these statuses.                                                             *)
Counted(c, kind, statuses, s, n) == IF Kind(c) = kind /\ s \in statuses THEN n ELSE 0

(* A COMMIT moves between the wallets what the new status asks for. *)
LEMMA PostingMatchesStatus ==
  ASSUME Inv, NEW c \in Calls, pc[c] \in Committing, Record(c),
         NEW n, n = Amount(c), NEW b, b = status[Op(c)], NEW s, s = status'[Op(c)]
  PROVE  /\ ToReserved(Stage(c), n) =
              Counted(c, "withdrawal", {"reserved", "approved"}, s, n)
                - Counted(c, "withdrawal", {"reserved", "approved"}, b, n)
         /\ ToAvailable(Stage(c), n) =
              (Counted(c, "deposit", {"completed"}, s, n) - Counted(c, "deposit", {"completed"}, b, n))
                - (Counted(c, "withdrawal", {"reserved", "approved", "completed"}, s, n)
                    - Counted(c, "withdrawal", {"reserved", "approved", "completed"}, b, n))
         /\ ToClearing(Stage(c), n) =
              (Counted(c, "withdrawal", {"completed"}, s, n)
                 - Counted(c, "withdrawal", {"completed"}, b, n))
                - (Counted(c, "deposit", {"completed"}, s, n) - Counted(c, "deposit", {"completed"}, b, n))
<1>0. TypeOK /\ n \in Nat /\ Op(c) \in Operations /\ Kind(c) \in Kinds
  BY CallFacts DEF Inv
<1>1. CASE c \in Operations
  <2>1. /\ b = "none" /\ s = Initial(Kind(c))
        /\ Stage(c) = IF Kind(c) = "withdrawal" THEN "reserve" ELSE "none"
    BY <1>0, <1>1, RecordOfCreate DEF Placed, TypeOK
  <2>2. CASE Kind(c) = "deposit"
    BY <1>0, <2>1, <2>2 DEF Counted, Initial, ToReserved, ToAvailable, ToClearing
  <2>3. CASE Kind(c) = "withdrawal"
    BY <1>0, <2>1, <2>3 DEF Counted, Initial, ToReserved, ToAvailable, ToClearing
  <2> QED BY <1>0, <2>2, <2>3 DEF Kinds
<1>2. CASE c \in Transitions
  <2>1. PICK x \in Allowed(c) : status' = [status EXCEPT ![Op(c)] = x.to]
    BY <1>2, RecordOfTransition
  <2>2. /\ x \in Table /\ Kind(c) = x.kind /\ b = x.from /\ s = x.to
        /\ Stage(c) = TransitionStage(x.kind, x.action)
    BY <1>0, <1>2, <2>1, RuleFacts, StageOfRule DEF TypeOK
  <2>3. /\ Kind(c) = "deposit" => b = "pending"
        /\ Kind(c) = "withdrawal" => b \in {"reserved", "approved"}
        /\ s \in {"approved", "completed", "rejected", "failed"}
        /\ s = "approved" => b = "reserved"
        /\ Stage(c) = IF s = "approved" THEN "none"
                      ELSE IF Kind(c) = "deposit" THEN IF s = "completed" THEN "credit" ELSE "none"
                      ELSE IF s = "completed" THEN "settle" ELSE "release"
    BY <2>2, TableFacts, StageFacts DEF Kinds
  <2>4. CASE s = "approved"
    <3>1. Stage(c) = "none" /\ Kind(c) = "withdrawal" /\ b = "reserved"
      BY <1>0, <2>3, <2>4 DEF Kinds
    <3> QED BY <1>0, <2>4, <3>1 DEF Counted, ToReserved, ToAvailable, ToClearing
  <2>5. CASE s # "approved" /\ Kind(c) = "deposit" /\ s = "completed"
    <3>1. Stage(c) = "credit" /\ b = "pending"
      BY <2>3, <2>5
    <3> QED BY <1>0, <2>5, <3>1 DEF Counted, ToReserved, ToAvailable, ToClearing
  <2>6. CASE s # "approved" /\ Kind(c) = "deposit" /\ s # "completed"
    <3>1. Stage(c) = "none" /\ b = "pending"
      BY <2>3, <2>6
    <3> QED BY <1>0, <2>3, <2>6, <3>1 DEF Counted, ToReserved, ToAvailable, ToClearing
  <2>7. CASE s # "approved" /\ Kind(c) = "withdrawal" /\ s = "completed"
    <3>1. Stage(c) = "settle" /\ b \in {"reserved", "approved"}
      BY <2>3, <2>7
    <3> QED BY <1>0, <2>7, <3>1 DEF Counted, ToReserved, ToAvailable, ToClearing
  <2>8. CASE s # "approved" /\ Kind(c) = "withdrawal" /\ s # "completed"
    <3>1. Stage(c) = "release" /\ b \in {"reserved", "approved"} /\ s \in {"rejected", "failed"}
      BY <2>3, <2>8
    <3> QED BY <1>0, <2>8, <3>1 DEF Counted, ToReserved, ToAvailable, ToClearing
  <2> QED BY <1>0, <2>4, <2>5, <2>6, <2>7, <2>8 DEF Kinds
<1> QED BY <1>1, <1>2 DEF Calls

(* The sum over what counts moves by the one operation whose status changes. *)
LEMMA TotalMoves ==
  ASSUME TypeOK, TypeOK', UNCHANGED order, NEW S, NEW T, NEW o \in Operations,
         IsFiniteSet(S), IsFiniteSet(T), S \subseteq Operations, T \subseteq Operations,
         S \ {o} = T \ {o}
  PROVE  /\ Total(S) \in Int
         /\ SumFunctionOnSet([p \in Operations |-> order'[p].amount], T) =
              Total(S) + ((IF o \in T THEN order[o].amount ELSE 0)
                            - (IF o \in S THEN order[o].amount ELSE 0))
<1> DEFINE f == [p \in Operations |-> order[p].amount]
<1>1. \A p \in Operations : f[p] \in Int
  <2>1. ASSUME NEW p \in Operations PROVE order[p].amount \in Int
    <3>1. order[p].amount \in Amounts
      BY DEF TypeOK, Order
    <3>2. order[p].amount \in Nat
      BY <3>1, AmountsAssumption
    <3> QED BY <3>2
  <2> QED BY <2>1
<1>2. /\ \A p \in S : f[p] \in Int
      /\ \A p \in T : f[p] \in Int
  BY <1>1
<1>3. f[o] = order[o].amount /\ f[o] \in Int
  BY <1>1
<1>4. [p \in Operations |-> order'[p].amount] = f
  OBVIOUS
<1>5. SumFunctionOnSet(f, S) \in Int /\ SumFunctionOnSet(f, T) \in Int
  <2> HIDE DEF f
  <2> QED BY <1>2, SumInt
<1>6. /\ o \in S => SumFunctionOnSet(f, S) = f[o] + SumFunctionOnSet(f, S \ {o})
      /\ o \in T => SumFunctionOnSet(f, T) = f[o] + SumFunctionOnSet(f, T \ {o})
  <2> HIDE DEF f
  <2> QED BY <1>2, SumRemove
<1>7. SumFunctionOnSet(f, S \ {o}) \in Int
  <2>1. IsFiniteSet(S \ {o})
    BY FS_Difference
  <2>2. \A p \in S \ {o} : f[p] \in Int
    BY <1>2
  <2> HIDE DEF f
  <2> QED BY <2>1, <2>2, SumInt
<1>8. /\ o \notin S => S \ {o} = S
      /\ o \notin T => T \ {o} = T
  OBVIOUS
<1>9. SumFunctionOnSet(f, T) = SumFunctionOnSet(f, S) + ((IF o \in T THEN f[o] ELSE 0)
                                                          - (IF o \in S THEN f[o] ELSE 0))
  <2> DEFINE rest == SumFunctionOnSet(f, S \ {o})
  <2>1. /\ SumFunctionOnSet(f, S) = (IF o \in S THEN f[o] ELSE 0) + rest
        /\ SumFunctionOnSet(f, T) = (IF o \in T THEN f[o] ELSE 0) + rest
    <3> HIDE DEF f
    <3> QED BY <1>6, <1>7, <1>8
  <2> HIDE DEF f, rest
  <2> QED BY <1>3, <1>5, <1>7, <2>1 DEF rest
<1> QED BY <1>3, <1>4, <1>5, <1>9 DEF Total

(* So have those of any statuses. *)
LEMMA StandingFinite ==
  ASSUME FinitelyMany, NEW kind, NEW statuses, "none" \notin statuses
  PROVE  /\ IsFiniteSet(Standing(kind, statuses)) /\ Standing(kind, statuses) \subseteq Operations
         /\ \A a : IsFiniteSet(With(a, kind, statuses)) /\ With(a, kind, statuses) \subseteq Operations
<1>1. /\ Standing(kind, statuses) \subseteq {o \in Operations : Placed(o)}
      /\ \A a : With(a, kind, statuses) \subseteq {o \in Operations : Placed(o)}
  BY DEF Standing, With, Placed
<1> QED BY <1>1, FS_Subset DEF FinitelyMany

(* A step places at most one. *)
LEMMA FinitelyManyStep ==
  ASSUME Inv, [Next]_vars, FinitelyMany
  PROVE  FinitelyMany'
<1> DEFINE P == {o \in Operations : Placed(o)}
<1>1. \E o : P' \subseteq P \cup {o}
  <2>1. ASSUME NEW c \in Calls, Effective(c) PROVE P' \subseteq P \cup {Op(c)}
    <3>1. Record(c) /\ pc[c] \in Committing
      BY <2>1 DEF Effective, Publish
    <3> QED BY <3>1, StatusFacts DEF Placed
  <2>2. ASSUME UNCHANGED status PROVE P' \subseteq P
    BY <2>2 DEF Placed
  <2> QED BY <2>1, <2>2, StepCases DEF StepCase, Effect, Create, Request, Play, Silent, paymentVars
<1>2. PICK o : P' \subseteq P \cup {o}
  BY <1>1
<1>3. IsFiniteSet(P \cup {o})
  BY FS_AddElement DEF FinitelyMany
<1>4. IsFiniteSet(P')
  <2> HIDE DEF P
  <2> QED BY <1>2, <1>3, FS_Subset
<1> QED BY <1>4 DEF FinitelyMany

(* What a COMMIT adds to the total of a kind in these statuses, over all accounts *)
(* and for one of them.                                                           *)
LEMMA CommitMoves ==
  ASSUME Inv, Inv', FinitelyMany, FinitelyMany', NEW c \in Calls, Effective(c),
         NEW kind, NEW statuses, "none" \notin statuses
  PROVE  LET added == Counted(c, kind, statuses, status'[Op(c)], Amount(c))
                        - Counted(c, kind, statuses, status[Op(c)], Amount(c))
         IN  /\ Total(Standing(kind, statuses)) \in Int
             /\ Total(Standing(kind, statuses))' = Total(Standing(kind, statuses)) + added
             /\ \A a : /\ Total(With(a, kind, statuses)) \in Int
                      /\ Total(With(a, kind, statuses))' =
                           Total(With(a, kind, statuses)) + (IF Account(c) = a THEN added ELSE 0)
<1>0. /\ TypeOK /\ TypeOK' /\ Op(c) \in Operations /\ Record(c) /\ pc[c] \in Committing
      /\ UNCHANGED order /\ Amount(c) \in Nat /\ Amount(c) = order[Op(c)].amount
  BY CallFacts DEF Inv, Effective, Publish, Amount
<1>1. \A o \in Operations : o # Op(c) => status'[o] = status[o]
  BY <1>0, StatusFacts
<1> DEFINE o == Op(c)
           S == Standing(kind, statuses)
           W(a) == With(a, kind, statuses)
           added == Counted(c, kind, statuses, status'[o], Amount(c))
                      - Counted(c, kind, statuses, status[o], Amount(c))
<1>2. /\ IsFiniteSet(S) /\ S \subseteq Operations
      /\ \A a : IsFiniteSet(W(a)) /\ W(a) \subseteq Operations
  BY StandingFinite
<1>3. /\ IsFiniteSet(S') /\ S' \subseteq Operations
      /\ \A a : IsFiniteSet(W(a)') /\ W(a)' \subseteq Operations
  <2>1. /\ S' \subseteq {p \in Operations : Placed(p)}'
        /\ \A a : W(a)' \subseteq {p \in Operations : Placed(p)}'
    BY DEF Standing, With, Placed
  <2> QED BY <2>1, FS_Subset DEF FinitelyMany
<1>4. /\ S \ {o} = S' \ {o}
      /\ \A a : W(a) \ {o} = W(a)' \ {o}
  BY <1>0, <1>1 DEF Standing, With
<1>5. /\ o \in S <=> Kind(c) = kind /\ status[o] \in statuses
      /\ o \in S' <=> Kind(c) = kind /\ status'[o] \in statuses
      /\ \A a : (o \in W(a) <=> o \in S /\ Account(c) = a) /\ (o \in W(a)' <=> o \in S' /\ Account(c) = a)
  BY <1>0 DEF Standing, With, Kind, Account
<1>6. Counted(c, kind, statuses, status'[o], Amount(c)) = (IF o \in S' THEN order[o].amount ELSE 0)
  BY <1>0, <1>5 DEF Counted
<1>7. Counted(c, kind, statuses, status[o], Amount(c)) = (IF o \in S THEN order[o].amount ELSE 0)
  BY <1>0, <1>5 DEF Counted
<1>8. Total(S) \in Int /\ Total(S)' = Total(S) + added
  <2>1. /\ Total(S) \in Int
        /\ SumFunctionOnSet([p \in Operations |-> order'[p].amount], S') =
             Total(S) + ((IF o \in S' THEN order[o].amount ELSE 0)
                           - (IF o \in S THEN order[o].amount ELSE 0))
    <3> HIDE DEF S, o
    <3> QED BY <1>0, <1>2, <1>3, <1>4, TotalMoves DEF o
  <2>2. Total(S)' = SumFunctionOnSet([p \in Operations |-> order'[p].amount], S')
    BY DEF Total
  <2> QED BY <1>6, <1>7, <2>1, <2>2
<1>9. ASSUME NEW a
      PROVE  /\ Total(W(a)) \in Int
             /\ Total(W(a))' = Total(W(a)) + (IF Account(c) = a THEN added ELSE 0)
  <2>1. /\ Total(W(a)) \in Int
        /\ SumFunctionOnSet([p \in Operations |-> order'[p].amount], W(a)') =
             Total(W(a)) + ((IF o \in W(a)' THEN order[o].amount ELSE 0)
                           - (IF o \in W(a) THEN order[o].amount ELSE 0))
    <3> HIDE DEF W, o
    <3> QED BY <1>0, <1>2, <1>3, <1>4, TotalMoves DEF o
  <2>2. Total(W(a))' = SumFunctionOnSet([p \in Operations |-> order'[p].amount], W(a)')
    BY DEF Total
  <2>3. CASE Account(c) = a
    BY <1>5, <1>6, <1>7, <2>1, <2>2, <2>3
  <2>4. CASE Account(c) # a
    BY <1>5, <2>1, <2>2, <2>4
  <2> QED BY <2>1, <2>3, <2>4
<1> QED BY <1>8, <1>9

(* The totals MoneyFollowsStatus is about. *)
Reserved(a) == Total(With(a, "withdrawal", {"reserved", "approved"}))
Deposited(a) == Total(With(a, "deposit", {"completed"}))
Withdrawn(a) == Total(With(a, "withdrawal", {"reserved", "approved", "completed"}))
PaidOut == Total(Standing("withdrawal", {"completed"}))
PaidIn == Total(Standing("deposit", {"completed"}))

(* The property, in these totals. *)
LEMMA MoneyIs ==
  MoneyFollowsStatus <=>
    /\ \A a \in Accounts : /\ reserved[a] = Reserved(a)
                          /\ available[a] = StartingBalance + won[a] + Deposited(a) - Withdrawn(a)
    /\ clearing = PaidOut - PaidIn
BY DEF MoneyFollowsStatus, Reserved, Deposited, Withdrawn, PaidOut, PaidIn

(* The totals are numbers. *)
LEMMA TotalsAreInt ==
  ASSUME TypeOK, FinitelyMany
  PROVE  /\ PaidOut \in Int /\ PaidIn \in Int
         /\ \A a : Reserved(a) \in Int /\ Deposited(a) \in Int /\ Withdrawn(a) \in Int
<1> DEFINE f == [o \in Operations |-> order[o].amount]
<1>1. \A o \in Operations : f[o] \in Int
  <2>1. ASSUME NEW o \in Operations PROVE order[o].amount \in Int
    <3>1. order[o].amount \in Amounts
      BY DEF TypeOK, Order
    <3>2. order[o].amount \in Nat
      BY <3>1, AmountsAssumption
    <3> QED BY <3>2
  <2> QED BY <2>1
<1>2. ASSUME NEW S, IsFiniteSet(S), S \subseteq Operations PROVE Total(S) \in Int
  <2>1. \A o \in S : f[o] \in Int
    BY <1>1, <1>2
  <2>2. SumFunctionOnSet(f, S) \in Int
    <3> HIDE DEF f
    <3> QED BY <1>2, <2>1, SumInt
  <2> QED BY <2>2 DEF Total
<1> QED BY <1>2, StandingFinite DEF PaidOut, PaidIn, Reserved, Deposited, Withdrawn

(* The totals of what is standing do not see the order of a call not yet placed. *)
LEMMA TotalsUnmoved ==
  ASSUME FinitelyMany, UNCHANGED status, NEW o, ~Placed(o),
         \A p \in Operations : p # o => order'[p] = order[p]
  PROVE  /\ UNCHANGED <<PaidOut, PaidIn>>
         /\ \A a : UNCHANGED <<Reserved(a), Deposited(a), Withdrawn(a)>>
<1> DEFINE f == [p \in Operations |-> order[p].amount]
           g == [p \in Operations |-> order'[p].amount]
<1>1. ASSUME NEW S, IsFiniteSet(S), S \subseteq Operations, o \notin S
      PROVE  SumFunctionOnSet(g, S) = SumFunctionOnSet(f, S)
  <2>1. \A p \in S : f[p] = g[p]
    BY <1>1
  <2> HIDE DEF f, g
  <2> QED BY <1>1, <2>1, SumSame
<1>2. ASSUME NEW kind, NEW statuses, "none" \notin statuses
      PROVE  /\ Total(Standing(kind, statuses))' = Total(Standing(kind, statuses))
             /\ \A a : Total(With(a, kind, statuses))' = Total(With(a, kind, statuses))
  <2>1. /\ IsFiniteSet(Standing(kind, statuses)) /\ Standing(kind, statuses) \subseteq Operations
        /\ \A a : IsFiniteSet(With(a, kind, statuses)) /\ With(a, kind, statuses) \subseteq Operations
    BY <1>2, StandingFinite
  <2>2. o \notin Standing(kind, statuses) /\ \A a : o \notin With(a, kind, statuses)
    BY <1>2 DEF Standing, With, Placed
  <2>3. /\ Standing(kind, statuses)' = Standing(kind, statuses)
        /\ \A a : With(a, kind, statuses)' = With(a, kind, statuses)
    BY <1>2 DEF Standing, With, Placed
  <2> QED BY <1>1, <2>1, <2>2, <2>3 DEF Total
<1> QED BY <1>2 DEF PaidOut, PaidIn, Reserved, Deposited, Withdrawn

(* At first every wallet holds what it started with. *)
LEMMA MoneyInit == ASSUME Init PROVE MoneyFollowsStatus /\ FinitelyMany
<1>1. /\ \A kind, statuses : "none" \notin statuses => Standing(kind, statuses) = {}
      /\ \A a, kind, statuses : "none" \notin statuses => With(a, kind, statuses) = {}
  BY DEF Init, Standing, With
<1>2. Total({}) = 0
  BY SumEmpty DEF Total
<1>3. PaidOut = 0 /\ PaidIn = 0 /\ \A a : Reserved(a) = 0 /\ Deposited(a) = 0 /\ Withdrawn(a) = 0
  BY <1>1, <1>2 DEF PaidOut, PaidIn, Reserved, Deposited, Withdrawn
<1>4. {o \in Operations : Placed(o)} = {}
  BY DEF Init, Placed
<1>5. FinitelyMany
  BY <1>4, FS_EmptySet DEF FinitelyMany
<1> QED BY <1>3, <1>5, MoneyIs, BalanceAssumption DEF Init

(* A COMMIT moves the wallets and the totals alike. *)
LEMMA MoneyCommit ==
  ASSUME Inv, Inv', FinitelyMany, FinitelyMany', MoneyFollowsStatus, NEW c \in Calls, Effective(c)
  PROVE  /\ clearing' = PaidOut' - PaidIn'
         /\ \A a \in Accounts :
              /\ reserved'[a] = Reserved(a)'
              /\ available'[a] = StartingBalance + won'[a] + Deposited(a)' - Withdrawn(a)'
<1>0. /\ TypeOK /\ Record(c) /\ Transfer(c) /\ pc[c] \in Committing /\ UNCHANGED won
      /\ Account(c) \in Accounts
  BY CallFacts DEF Inv, Effective, Publish, roundVars
<1> DEFINE n == Amount(c)
           b == status[Op(c)]
           s == status'[Op(c)]
           dR == ToReserved(Stage(c), n)
           dA == ToAvailable(Stage(c), n)
           Added(kind, statuses) == Counted(c, kind, statuses, s, n) - Counted(c, kind, statuses, b, n)
<1>1. /\ dR = Added("withdrawal", {"reserved", "approved"})
      /\ dA = Added("deposit", {"completed"}) - Added("withdrawal", {"reserved", "approved", "completed"})
      /\ ToClearing(Stage(c), n) = Added("withdrawal", {"completed"}) - Added("deposit", {"completed"})
  BY <1>0, PostingMatchesStatus
<1>2. \A kind, statuses : Added(kind, statuses) \in Int
  <2>1. n \in Nat
    BY <1>0, CallFacts
  <2> QED BY <2>1 DEF Counted
<1>3. /\ PaidOut' = PaidOut + Added("withdrawal", {"completed"})
      /\ PaidIn' = PaidIn + Added("deposit", {"completed"})
      /\ \A a : /\ Reserved(a)' = Reserved(a)
                      + (IF Account(c) = a THEN Added("withdrawal", {"reserved", "approved"}) ELSE 0)
               /\ Deposited(a)' = Deposited(a)
                      + (IF Account(c) = a THEN Added("deposit", {"completed"}) ELSE 0)
               /\ Withdrawn(a)' = Withdrawn(a)
                      + (IF Account(c) = a
                         THEN Added("withdrawal", {"reserved", "approved", "completed"}) ELSE 0)
  <2>1. /\ PaidOut' = PaidOut + Added("withdrawal", {"completed"})
        /\ PaidIn' = PaidIn + Added("deposit", {"completed"})
    BY CommitMoves DEF PaidOut, PaidIn
  <2>2. ASSUME NEW a
        PROVE  Reserved(a)' = Reserved(a)
                 + (IF Account(c) = a THEN Added("withdrawal", {"reserved", "approved"}) ELSE 0)
    BY CommitMoves DEF Reserved
  <2>3. ASSUME NEW a
        PROVE  Deposited(a)' = Deposited(a)
                 + (IF Account(c) = a THEN Added("deposit", {"completed"}) ELSE 0)
    BY CommitMoves DEF Deposited
  <2>4. ASSUME NEW a
        PROVE  Withdrawn(a)' = Withdrawn(a)
                 + (IF Account(c) = a
                    THEN Added("withdrawal", {"reserved", "approved", "completed"}) ELSE 0)
    BY CommitMoves DEF Withdrawn
  <2> HIDE DEF Added
  <2> QED BY <2>1, <2>2, <2>3, <2>4
<1>4. /\ PaidOut \in Int /\ PaidIn \in Int /\ clearing \in Int
      /\ \A a : Reserved(a) \in Int /\ Deposited(a) \in Int /\ Withdrawn(a) \in Int
  BY <1>0, TotalsAreInt DEF TypeOK
<1>5. /\ available' = [available EXCEPT ![Account(c)] = @ + dA]
      /\ reserved' = [reserved EXCEPT ![Account(c)] = @ + dR]
      /\ clearing' = clearing + ToClearing(Stage(c), n)
  BY <1>0, TransferFacts
<1>6. /\ clearing = PaidOut - PaidIn
      /\ \A a \in Accounts : /\ reserved[a] = Reserved(a)
                            /\ available[a] = StartingBalance + won[a] + Deposited(a) - Withdrawn(a)
  BY MoneyIs
<1>7. clearing' = PaidOut' - PaidIn'
  <2> HIDE DEF Added
  <2> QED BY <1>1, <1>2, <1>3, <1>4, <1>5, <1>6
<1>8. ASSUME NEW a \in Accounts
      PROVE  /\ reserved'[a] = Reserved(a)'
             /\ available'[a] = StartingBalance + won'[a] + Deposited(a)' - Withdrawn(a)'
  <2>0. /\ StartingBalance \in Int /\ won[a] \in Int /\ won'[a] = won[a]
        /\ reserved[a] \in Int /\ available[a] \in Int
    BY <1>0, BalanceAssumption DEF TypeOK
  <2>1. CASE a = Account(c)
    <3>1. reserved'[a] = reserved[a] + dR /\ available'[a] = available[a] + dA
      BY <1>0, <1>5, <2>1 DEF TypeOK
    <3> HIDE DEF Added, dR, dA
    <3> QED BY <1>1, <1>2, <1>3, <1>4, <1>6, <2>0, <2>1, <3>1
  <2>2. CASE a # Account(c)
    <3>1. reserved'[a] = reserved[a] /\ available'[a] = available[a]
      BY <1>0, <1>5, <2>2 DEF TypeOK
    <3> HIDE DEF Added, dR, dA
    <3> QED BY <1>3, <1>4, <1>6, <2>0, <2>2, <3>1
  <2> QED BY <2>1, <2>2
<1> QED BY <1>7, <1>8

(* A round moves the available wallet by its net; every other step moves neither. *)
LEMMA MoneyStep ==
  ASSUME Inv, Inv', [Next]_vars, FinitelyMany, FinitelyMany', MoneyFollowsStatus
  PROVE  MoneyFollowsStatus'
<1> DEFINE Good == /\ clearing = PaidOut - PaidIn
                   /\ \A a \in Accounts :
                        /\ reserved[a] = Reserved(a)
                        /\ available[a] = StartingBalance + won[a] + Deposited(a) - Withdrawn(a)
<1>0. TypeOK /\ Good
  BY MoneyIs DEF Inv
<1>1. ASSUME NEW c \in Calls, Effective(c) PROVE Good'
  BY <1>1, MoneyCommit
<1>2. ASSUME NEW o \in Operations, NEW asked \in Order, Create(o, asked) PROVE Good'
  <2>1. ~Placed(o)
    BY <1>2, OwnFacts DEF Create, CreateInv, Calls
  <2>2. /\ UNCHANGED <<status, available, reserved, clearing, won>>
        /\ \A p \in Operations : p # o => order'[p] = order[p]
    BY <1>0, <1>2 DEF Create, paymentVars, moneyVars, roundVars, TypeOK
  <2>3. /\ UNCHANGED <<PaidOut, PaidIn>>
        /\ \A a : UNCHANGED <<Reserved(a), Deposited(a), Withdrawn(a)>>
    BY <2>1, <2>2, TotalsUnmoved
  <2> QED BY <1>0, <2>2, <2>3
<1>3. ASSUME UNCHANGED <<order, status>>
      PROVE  /\ UNCHANGED <<PaidOut, PaidIn>>
             /\ \A a : UNCHANGED <<Reserved(a), Deposited(a), Withdrawn(a)>>
  BY <1>3 DEF PaidOut, PaidIn, Reserved, Deposited, Withdrawn, Total, Standing, With
<1>4. ASSUME NEW a \in Accounts, NEW net \in Nets, Play(a, net) PROVE Good'
  <2>1. /\ UNCHANGED <<order, status, reserved, clearing>> /\ net \in Int
        /\ available' = [available EXCEPT ![a] = available[a] + net]
        /\ won' = [won EXCEPT ![a] = won[a] + net]
    BY <1>4, BalanceAssumption DEF Play, callVars, paymentVars
  <2>2. \A x \in Accounts : Deposited(x) \in Int /\ Withdrawn(x) \in Int
    BY <1>0, TotalsAreInt
  <2>3. ASSUME NEW x \in Accounts
        PROVE  available'[x] = StartingBalance + won'[x] + Deposited(x) - Withdrawn(x)
    <3>1. available[x] \in Int /\ won[x] \in Int /\ StartingBalance \in Int
      BY <1>0, BalanceAssumption DEF TypeOK
    <3>2. CASE x = a
      <4>1. available'[x] = available[x] + net /\ won'[x] = won[x] + net
        BY <1>0, <2>1, <3>2 DEF TypeOK
      <4> QED BY <1>0, <2>1, <2>2, <3>1, <4>1
    <3>3. CASE x # a
      <4>1. available'[x] = available[x] /\ won'[x] = won[x]
        BY <1>0, <2>1, <3>3 DEF TypeOK
      <4> QED BY <1>0, <4>1
    <3> QED BY <3>2, <3>3
  <2> QED BY <1>0, <1>3, <2>1, <2>3
<1>5. ASSUME UNCHANGED <<order, status, available, reserved, clearing, won>> PROVE Good'
  BY <1>0, <1>3, <1>5
<1>6. Good'
  BY <1>1, <1>2, <1>4, <1>5, StepCases
     DEF StepCase, Effect, Request, Silent, paymentVars, moneyVars, roundVars
<1> QED BY <1>6 DEF MoneyFollowsStatus, Reserved, Deposited, Withdrawn, PaidOut, PaidIn

(* Every wallet and the clearing account hold exactly what the statuses of the  *)
(* operations and the rounds say, whatever raced, failed or was repeated.       *)
THEOREM MoneyIsExplained == Spec => []MoneyFollowsStatus
<1>1. Init => MoneyFollowsStatus /\ FinitelyMany
  BY MoneyInit
<1>2. Inv /\ Inv' /\ [Next]_vars /\ MoneyFollowsStatus /\ FinitelyMany
        => (MoneyFollowsStatus /\ FinitelyMany)'
  BY MoneyStep, FinitelyManyStep
<1> QED BY <1>1, <1>2, Invariance, PTL DEF Spec

-----------------------------------------------------------------------------
(* The promise *)

(* A step of the promise, or none. *)
PromiseStep == [Promise!Next]_(Promise!vars)

(* At first nothing is promised. *)
LEMMA PromiseInit == ASSUME Init PROVE Promise!Init
  BY DEF Init, Promise!Init, Promise!Calls, Calls, Placed

(* The order of an operation counts for the promise once it is placed. *)
Kept == [o \in Operations |-> IF Placed(o) THEN {order[o]} ELSE {}]

(* A COMMIT that takes effect is the step of the promise that places or decides. *)
LEMMA PromiseEffect ==
  ASSUME Inv, Inv', NEW c \in Calls, Effect(c)
  PROVE  PromiseStep
<1>0. /\ TypeOK /\ Effective(c) /\ UNCHANGED order /\ Record(c) /\ Transfer(c)
      /\ pc[c] \in Committing /\ Op(c) \in Operations /\ Account(c) \in Accounts
      /\ order[Op(c)] \in Order
  BY CallFacts DEF Inv, TypeOK, Effect, Effective, Publish
<1>1. \/ answer[c] = "none" /\ Promise!Answered(c, "done")
      \/ answer[c] = "failed" /\ UNCHANGED answer
  BY DEF Effect, Promise!Answered
<1>x. PICK x : x = order[Op(c)]
  OBVIOUS
<1>2. Promise!Transfer(x, Stage(c))
  <2>1. /\ available' = [available EXCEPT ![x.account] = @ + ToAvailable(Stage(c), x.amount)]
        /\ reserved' = [reserved EXCEPT ![x.account] = @ + ToReserved(Stage(c), x.amount)]
        /\ clearing' = clearing + ToClearing(Stage(c), x.amount)
    BY <1>0, <1>x, TransferFacts DEF Account, Amount
  <2>2. available'[x.account] \in Nat /\ reserved'[x.account] \in Nat
    BY <1>0, <1>x DEF Inv, TypeOK, Account
  <2>3. available'[x.account] >= 0 /\ reserved'[x.account] >= 0
    BY <2>2
  <2> QED BY <2>1, <2>3 DEF Promise!Transfer, Promise!ToAvailable, Promise!ToReserved, Promise!ToClearing,
                           ToAvailable, ToReserved, ToClearing
<1>3. CASE c \in Operations
  <2>1. /\ ~Placed(c) /\ Existing(c) = {} /\ Op(c) = c
        /\ status' = [status EXCEPT ![c] = Initial(Kind(c))] /\ events' = events
    BY <1>0, <1>3, RecordOfCreate
  <2>2. Kept' = [Kept EXCEPT ![c] = {x}]
    <3>1. Placed(c)' /\ \A o \in Operations : o # c => (Placed(o)' <=> Placed(o))
      BY <1>0, <2>1, StatusFacts DEF Placed
    <3> QED BY <1>0, <1>x, <2>1, <3>1 DEF Kept
  <2>3. Kept[c] = {} /\ \A p \in Operations : \A y \in Kept[p] : ~Promise!SameKey(x, y)
    BY <1>x, <1>3, <2>1 DEF Kept, Existing, Placed, Promise!SameKey
  <2>4. Stage(c) = Promise!CreateStage(x.kind)
    BY <1>x, <1>3, <2>1 DEF Stage, CreateStage, Promise!CreateStage, Kind
  <2>5. Initial(Kind(c)) = Promise!Initial(x.kind)
    BY <1>x, <2>1 DEF Initial, Promise!Initial, Kind
  <2>6. Promise!Place(c, x)
    BY <1>2, <2>1, <2>2, <2>3, <2>4, <2>5 DEF Promise!Place, Kept
  <2>7. x \in Promise!Order
    BY <1>0, <1>x, <2>1 DEF Order, Promise!Order, Kinds, Promise!Kinds
  <2>8. Promise!Effect(c)
    <3>1. \E y \in Promise!Order : Promise!Place(c, y)
      BY <2>6, <2>7
    <3> QED BY <1>1, <1>3, <3>1, Zenon DEF Promise!Effect
  <2> QED BY <2>8 DEF PromiseStep, Promise!Next, Promise!Calls, Calls
<1>4. CASE c \in Transitions
  <2>1. Placed(Op(c)) /\ Recorded(c) = {}
    BY <1>0, <1>4, RecordOfTransition
  <2>2. PICK r \in Allowed(c) : /\ status' = [status EXCEPT ![Op(c)] = r.to]
                               /\ events' = events \cup {Row(c, r)}
    BY <1>0, <1>4, RecordOfTransition
  <2>3. r \in Table /\ r.kind = x.kind /\ r.from = status[Op(c)] /\ Stage(c) = TransitionStage(x.kind, r.action)
    BY <1>x, <1>4, <2>2, RuleFacts, StageOfRule DEF Kind
  <2>4. Kept' = Kept
    <3>1. \A o \in Operations : Placed(o)' <=> Placed(o)
      BY <1>0, <2>1, StatusFacts DEF Placed
    <3> QED BY <1>0, <3>1 DEF Kept
  <2>5. x \in Kept[Op(c)]
    BY <1>0, <1>x, <2>1 DEF Kept
  <2>6. \A e \in events : e.event # move[c].event /\ e.call # c
    BY <1>0, <2>1 DEF Recorded, Inv, EventsAreOfEndedCalls, Committing
  <2>7. Stage(c) = Promise!TransitionStage(x.kind, r.action)
    BY <2>3 DEF TransitionStage, Promise!TransitionStage
  <2>8. Promise!Apply(c, Op(c), move[c].event, x, r)
    BY <1>2, <2>2, <2>3, <2>4, <2>5, <2>6, <2>7 DEF Promise!Apply, Kept, Row
  <2>9. move[c].event \in Events /\ r \in Promise!Table
    BY <1>0, <1>4, <2>3 DEF TypeOK, Move, Table, Promise!Table, Rule, Promise!Rule
  <2>10. Promise!Effect(c)
    <3>1. \E o \in Operations, event \in Events, q \in Promise!Table :
            \E y \in [p \in Operations |-> IF Placed(p) THEN {order[p]} ELSE {}][o] :
              Promise!Apply(c, o, event, y, q)
      BY <1>0, <2>5, <2>8, <2>9, Zenon DEF Kept
    <3> QED BY <1>1, <1>4, <3>1, Zenon DEF Promise!Effect
  <2> QED BY <2>10 DEF PromiseStep, Promise!Next, Promise!Calls, Calls
<1> QED BY <1>3, <1>4 DEF Calls

(* An answer without a change is one the promise allows. *)
LEMMA PromiseReply ==
  ASSUME Inv, NEW c \in Calls, NEW kind, Answering(c, kind), Silent
  PROVE  PromiseStep
<1>0. TypeOK /\ answer[c] = "none" /\ Promise!Answered(c, kind)
  BY DEF Inv, AnswerInv, Answering, Promise!Answered
<1>1. UNCHANGED <<Kept, status, events, available, reserved, clearing>>
  BY DEF Silent, paymentVars, moneyVars, Kept, Placed
<1>2. ASSUME kind \in {"replayed", "conflict"}
      PROVE  IF c \in Operations THEN \E p \in Operations \ {c} : Kept[p] # {} ELSE events # {}
  <2>1. CASE c \in Operations
    <3>1. Existing(c) # {} /\ ~Placed(c)
      BY <1>2, <2>1, OwnFacts DEF Answering, CreateInv
    <3>2. PICK p \in Existing(c) : TRUE
      BY <3>1
    <3>3. p \in Operations \ {c} /\ Placed(p)
      BY <3>1, <3>2 DEF Existing, Placed
    <3> QED BY <2>1, <3>3 DEF Kept
  <2>2. CASE c \notin Operations
    BY <1>2, <2>2 DEF Answering, Recorded, Calls
  <2> QED BY <2>1, <2>2
<1>3. Promise!Reply(c, kind)
  BY <1>0, <1>1, <1>2 DEF Promise!Reply, Kept
<1> QED BY <1>3 DEF PromiseStep, Promise!Next, Promise!Calls, Calls, Answering

(* Every step maps to a step of the promise or to a stutter. *)
LEMMA StepKeepsPromise ==
  ASSUME Inv, Inv', [Next]_vars
  PROVE  PromiseStep
<1>0. TypeOK
  BY DEF Inv
<1>1. ASSUME UNCHANGED <<Kept, status, events, available, reserved, clearing, answer>> PROVE PromiseStep
  BY <1>1 DEF PromiseStep, Promise!vars, Kept
<1>2. ASSUME NEW o \in Operations, NEW asked \in Order, Create(o, asked) PROVE PromiseStep
  <2>1. ~Placed(o)
    BY <1>2, OwnFacts DEF Create, CreateInv, Calls
  <2>2. /\ UNCHANGED <<status, events, available, reserved, clearing, answer>>
        /\ \A p \in Operations : p # o => order'[p] = order[p]
    BY <1>0, <1>2 DEF Create, paymentVars, moneyVars, TypeOK
  <2>3. Kept' = Kept
    BY <2>1, <2>2 DEF Kept, Placed
  <2> QED BY <1>1, <2>2, <2>3
<1>3. ASSUME NEW t \in Transitions, NEW asked \in Move, Request(t, asked) PROVE PromiseStep
  BY <1>1, <1>3 DEF Request, paymentVars, moneyVars, Kept, Placed
<1>4. ASSUME NEW a \in Accounts, NEW net \in Nets, Play(a, net) PROVE PromiseStep
  <2>1. Promise!Play(a, net)
    BY <1>4 DEF Play, Promise!Play, callVars, paymentVars, Placed
  <2> QED BY <2>1 DEF PromiseStep, Promise!Next
<1>5. ASSUME Silent, UNCHANGED answer PROVE PromiseStep
  BY <1>1, <1>5 DEF Silent, paymentVars, moneyVars, Kept, Placed
<1> QED BY <1>2, <1>3, <1>4, <1>5, PromiseEffect, PromiseReply, StepCases DEF StepCase

(* Transactions, locks, retries and lost answers implement the promise. *)
THEOREM Implementation == Spec => ImplementsPromise
<1>1. Init => Promise!Init
  BY PromiseInit
<1>2. Inv /\ Inv' /\ [Next]_vars => [Promise!Next]_(Promise!vars)
  BY StepKeepsPromise DEF PromiseStep
<1> QED BY <1>1, <1>2, Invariance, PTL DEF Spec, ImplementsPromise, Promise!Spec
===============================================================================
