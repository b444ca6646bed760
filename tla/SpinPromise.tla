------------------------------ MODULE SpinPromise ------------------------------
(****************************************************************************)
(* What a spin promises, without sessions, locks, statements or retries: a  *)
(* request settles at most one round, in one step that moves the stake and  *)
(* the payout; an account and key have one round at most; and a request is  *)
(* answered at most once, by a settled round or by a refusal that is final. *)
(* GameRound implements it.                                                 *)
(****************************************************************************)
EXTENDS Integers

CONSTANTS Accounts, Requests, Keys, Bets, Payouts, StartingBalance

VARIABLES rounds, balance, house, answer, told

vars == <<rounds, balance, house, answer, told>>

Init ==
  /\ rounds = {}
  /\ balance = [a \in Accounts |-> StartingBalance]
  /\ house = 0
  /\ answer = [r \in Requests |-> "none"]
  /\ told = [r \in Requests |-> {}]

(* A request nobody has answered, or one that its client believes lost, plays *)
(* a round that its account can pay for.                                      *)
Settle(r, a, k, bet, payout) ==
  /\ answer[r] \in {"none", "failed"}
  /\ \A x \in rounds : x.id # r /\ ~(x.account = a /\ x.key = k)
  /\ 0 < bet /\ bet <= balance[a]
  /\ rounds' = rounds \cup {[id |-> r, account |-> a, key |-> k, bet |-> bet,
                             payout |-> payout, balance |-> balance[a] - bet + payout]}
  /\ balance' = [balance EXCEPT ![a] = @ - bet + payout]
  /\ house' = house + bet - payout
  /\ UNCHANGED <<answer, told>>

Tell(r, kind, row) ==
  /\ answer[r] = "none"
  /\ answer' = [answer EXCEPT ![r] = kind]
  /\ told' = [told EXCEPT ![r] = row]
  /\ UNCHANGED <<rounds, balance, house>>

OwnRound(r) == {x \in rounds : x.id = r}

(* A request is told its own round, the round of an earlier request, that its *)
(* key is taken, that it is refused, or nothing it could rely on.             *)
Answer(r) ==
  \/ OwnRound(r) # {} /\ Tell(r, "round", OwnRound(r))
  \/ \E x \in rounds \ OwnRound(r) : OwnRound(r) = {} /\ Tell(r, "replay", {x})
  \/ rounds # {} /\ OwnRound(r) = {} /\ Tell(r, "conflict", {})
  \/ OwnRound(r) = {} /\ Tell(r, "refused", {})
  \/ Tell(r, "failed", {})

Next ==
  \E r \in Requests :
    \/ \E a \in Accounts, k \in Keys, bet \in Bets, payout \in Payouts :
         Settle(r, a, k, bet, payout)
    \/ Answer(r)

Spec == Init /\ [][Next]_vars
================================================================================
