-------------------------------- MODULE MCDelivery --------------------------------
(***************************************************************************)
(* Two ways in which somebody else's step comes between what was read and  *)
(* what is done, on small instances: how a change reaches the program      *)
(* (IntegrationQueue), and how a guest becomes an account (Accounts). They *)
(* share no state; a behaviour is about the one that part names, and the   *)
(* other stays in its initial state.                                       *)
(***************************************************************************)
EXTENDS IntegrationQueue, Accounts

CONSTANTS u1, u2  \* of Accounts: registrations

VARIABLE part

-----------------------------------------------------------------------------
(* IntegrationQueue: two pull requests of the wave and two of the queue, one of which the *)
(* wave waits for.                                                                        *)
FirstWaitsForThird == [p \in 1 .. 4 |-> IF p = 1 THEN {3} ELSE {}]

(* Every pull request has a file of its own, but the first versions of the two of the wave *)
(* have one in common, and that of the first touches a protected path.                     *)
MovingFiles ==
  [c \in Changes |->
     CASE c = <<1, 1>> -> {<<"core", 0>>, <<"shared", 0>>} [] c = <<2, 1>> -> {<<"shared", 0>>}
       [] OTHER -> {<<"own", c[1]>>}]
Core == {<<"core", 0>>}

(* Green on their own, red together. *)
Breaks == {{<<2, 1>>, <<4, 1>>}, {<<3, 1>>, <<0, 1>>}}
(* Cannot be merged after each other. *)
Clashes == {{<<1, 1>>, <<4, 2>>}, {<<4, 1>>, <<0, 1>>}}

(* Bound: people do one thing, or merge by hand, or do two things to the pull requests of *)
(* the wave while nothing but them and what they wait for is merged.                      *)
OneOrWave ==
  \/ events = 0
  \/ events = 1 /\ <<0, 1>> \notin main
  \/ /\ \A p \in PRs \ Wave : pr[p].version = 1 /\ ~pr[p].held /\ ~pr[p].objected
     /\ main \subseteq {1, 2, 3} \X (1 .. MaxVersions)

ASSUME QueueAssumption

-----------------------------------------------------------------------------
(* Accounts: a guest, two registrations of one address, and one request of every other kind. *)

(* Bound: two registrations while the guest's session is rotated or played, or one while it *)
(* is both; or one with a login and a logout, with a logout and the end of the session, or   *)
(* with an opening.                                                                          *)
Sent(calls) == {c \in calls : pc[c] # "idle"}
UpgradeOrLeave ==
  /\ Cardinality(Sent(Registers)) <= 1 \/ Sent(Rotations) = {} \/ Sent(Spins) = {}
  /\ \/ Sent(Logins \cup Logouts \cup Deletes \cup Opens) = {}
     \/ /\ Cardinality(Sent(Registers)) <= 1 /\ Sent(Rotations \cup Spins) = {}
        /\ Cardinality(Sent(Logins \cup Deletes \cup Opens)) <= 1
        /\ Sent(Opens) = {} \/ Sent(Logouts) = {}

ASSUME RequestsAssumption

-----------------------------------------------------------------------------
(* One of the two at a time *)

MCInit == part \in {"merging", "upgrading"} /\ Init /\ AccountsInit

MCNext ==
  /\ \/ part = "merging" /\ Next /\ UNCHANGED accountsVars
     \/ part = "upgrading" /\ AccountsNext /\ UNCHANGED vars
  /\ UNCHANGED part

MCSpec == MCInit /\ [][MCNext]_<<part, vars, accountsVars>>

(* No action tells the two registrations apart. *)
Symmetry == Permutations({u1, u2})
===================================================================================
