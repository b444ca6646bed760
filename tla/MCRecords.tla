-------------------------------- MODULE MCRecords --------------------------------
(****************************************************************************)
(* What PostgreSQL keeps of accounts and payments and who looks after it,   *)
(* on small instances: the password, sessions and recovery tokens of an     *)
(* account (AuthSessions) and what the reconcilers make of the database     *)
(* (Reconciliation). They share no state; a behaviour is about the instance *)
(* that part names. While that is another, AuthSessions stays in its        *)
(* initial state, and the variables of the rest hold None.                  *)
(****************************************************************************)
EXTENDS AuthSessions, Sequences, TLC

CONSTANTS
  a1, a2, b1, b2, c1, c2,  \* calls, in sets whose members no action tells apart
  w1, o1, o2, None

VARIABLES part, db, commits, faulty, check, view, found, copy, seen, dumped

-----------------------------------------------------------------------------
(* AuthSessions with two issues, two resets and one step-up in a short time, or with one *)
(* issue, one reset and two step-ups in a longer one.                                    *)
Sent(calls) == {c \in calls : pc[c] # "idle"}
Bound ==
  \/ Cardinality(Sent(StepUps)) <= 1 /\ now <= 1
  \/ Cardinality(Sent(Issues)) <= 1 /\ Cardinality(Sent(Resets)) <= 1

-----------------------------------------------------------------------------
(* Instances *)

ByHand == {"pointer", "status", "event", "entry", "type", "wallet"}

(* The reconcilers run while payments and rounds commit, with clocks that differ by less *)
(* than what separates two events.                                                       *)
Racing == INSTANCE Reconciliation WITH
  pc <- check, Accounts <- {w1}, Operations <- {o1, o2}, Amounts <- {1}, Starting <- 2, Skews <- {0, 1},
  Faults <- {}, MaxCommits <- 3, MaxSessions <- 0, Checks <- {"summary"}

(* A row is changed by hand at any moment of four transactions. *)
Tampered == INSTANCE Reconciliation WITH
  pc <- check, Accounts <- {w1}, Operations <- {o1, o2}, Amounts <- {1}, Starting <- 2, Skews <- {0},
  Faults <- ByHand, MaxCommits <- 4, MaxSessions <- 0, Checks <- {}

(* It is changed while the reconcilers run. *)
Watched == INSTANCE Reconciliation WITH
  pc <- check, Accounts <- {w1}, Operations <- {o1}, Amounts <- {1}, Starting <- 2, Skews <- {0},
  Faults <- ByHand, MaxCommits <- 2, MaxSessions <- 0, Checks <- {"summary"}

(* A restore drill while the source database goes on and a session is opened and pruned. *)
Drilled == INSTANCE Reconciliation WITH
  pc <- check, Accounts <- {w1}, Operations <- {o1, o2}, Amounts <- {1}, Starting <- 2, Skews <- {0},
  Faults <- {}, MaxCommits <- 4, MaxSessions <- 1, Checks <- {"drill"}

ASSUME Racing!AmountsAssumption /\ Racing!BoundsAssumption
ASSUME Tampered!AmountsAssumption /\ Tampered!BoundsAssumption
ASSUME Watched!AmountsAssumption /\ Watched!BoundsAssumption
ASSUME Drilled!AmountsAssumption /\ Drilled!BoundsAssumption

recordVars == <<db, commits, faulty, check, view, found, copy, seen, dumped>>

NoRecords ==
  /\ db = None /\ commits = None /\ faulty = None /\ check = None /\ view = None
  /\ found = None /\ copy = None /\ seen = None /\ dumped = None

MCInit ==
  /\ Init
  /\ \/ part = "authenticating" /\ NoRecords
     \/ part = "racing" /\ Racing!Init
     \/ part = "tampered" /\ Tampered!Init
     \/ part = "watched" /\ Watched!Init
     \/ part = "drilled" /\ Drilled!Init

MCNext ==
  /\ \/ part = "authenticating" /\ Next /\ UNCHANGED recordVars
     \/ /\ \/ part = "racing" /\ Racing!Next
           \/ part = "tampered" /\ Tampered!Next
           \/ part = "watched" /\ Watched!Next
           \/ part = "drilled" /\ Drilled!Next
        /\ UNCHANGED vars
  /\ UNCHANGED part

MCSpec == MCInit /\ [][MCNext]_<<part, vars, recordVars>>

(* No action tells two issues, resets or step-ups apart, nor two operations. *)
Symmetry ==
  {a @@ b @@ c : a \in Permutations({a1, a2}), b \in Permutations({b1, b2}), c \in Permutations({c1, c2})}
    \cup Permutations({o1, o2})

-----------------------------------------------------------------------------
(* Properties of Reconciliation; those of AuthSessions are checked as it states them *)

(* Every variable of the two has its type; no wallet of a player is overdrawn. *)
TypesOK ==
  /\ TypeOK
  /\ CASE part = "racing" -> Racing!TypeOK [] part = "tampered" -> Tampered!TypeOK
       [] part = "watched" -> Watched!TypeOK [] part = "drilled" -> Drilled!TypeOK [] OTHER -> TRUE

(* The reconcilers find nothing wrong in what payments and rounds commit, see every row that
   is changed by hand, and report what stands wrong during their run; a drill that succeeds
   has restored every payment, posting and event of the dump. *)
ChecksTellTheTruth ==
  /\ part = "racing" => Racing!ApplicationIsSound
  /\ part = "tampered" => Tampered!FaultsVisible
  /\ part = "watched" => Watched!StandingFaultReported
  /\ part = "drilled" => Drilled!VerifiedIsWhole
==================================================================================
