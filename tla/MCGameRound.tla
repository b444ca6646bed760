------------------------------ MODULE MCGameRound ------------------------------
(* Instances of GameRound for TLC. *)
EXTENDS GameRound, TLC

CONSTANTS s1, s2, s3, a1, a2

(* Two sessions of one registered account. *)
OneAccountTwoSessions == (s1 :> a1 @@ s2 :> a1)

(* A guest session and two ids not issued yet. *)
GuestSession == (s1 :> a1 @@ s2 :> NoAccount @@ s3 :> NoAccount)

(* Sessions of two accounts. *)
TwoAccounts == (s1 :> a1 @@ s2 :> a2)

(* Bound: the requests that are sent share a key; or they are for a bet of 2, and *)
(* both sessions stay.                                                            *)
Sent == {r \in Requests : pc[r] # "idle"}
RetryOrSpend ==
  \/ \A q, r \in Sent : req[q].key = req[r].key
  \/ \A r \in Sent : req[r].bet = 2 /\ \A s \in SessionIds : state[s] = "live"

(* Next tells neither two requests nor two keys apart. *)
Symmetry == {r @@ k : r \in Permutations(Requests), k \in Permutations(Keys)}
================================================================================
