----------------------------- MODULE PaymentPromise -----------------------------
(***************************************************************************)
(* What sandbox payments promise, without transactions, locks or retries:  *)
(* a create call makes at most one operation and a key has at most one; a  *)
(* transition applies at most once, by a rule of the table, with a new     *)
(* event id; the money moves in the same step as the status; and a call is *)
(* answered at most once. SandboxPayments implements it.                   *)
(***************************************************************************)
EXTENDS PaymentRules

CONSTANTS Accounts, Operations, Transitions, Keys, Events, Amounts, StartingBalance, Nets

VARIABLES
  placed,     \* operation -> set with the order it was created by, empty before
  status, events, available, reserved, clearing, answer

vars == <<placed, status, events, available, reserved, clearing, answer>>

Calls == Operations \cup Transitions
Order == [account : Accounts, kind : Kinds, amount : Amounts, key : Keys]

(* Nobody has answered the call, or its client believes it lost. *)
Open(c) == answer[c] \in {"none", "failed"}

Answered(c, kind) == answer' = [answer EXCEPT ![c] = kind]

Transfer(x, stage) ==
  /\ available' = [available EXCEPT ![x.account] = @ + ToAvailable(stage, x.amount)]
  /\ reserved' = [reserved EXCEPT ![x.account] = @ + ToReserved(stage, x.amount)]
  /\ clearing' = clearing + ToClearing(stage, x.amount)
  /\ available'[x.account] >= 0 /\ reserved'[x.account] >= 0

SameKey(x, y) == x.account = y.account /\ x.kind = y.kind /\ x.key = y.key

Place(o, x) ==
  /\ placed[o] = {}
  /\ \A p \in Operations : \A y \in placed[p] : ~SameKey(x, y)
  /\ placed' = [placed EXCEPT ![o] = {x}]
  /\ status' = [status EXCEPT ![o] = Initial(x.kind)]
  /\ Transfer(x, CreateStage(x.kind))
  /\ UNCHANGED events

Apply(t, o, event, x, r) ==
  /\ x \in placed[o] /\ r.kind = x.kind /\ r.from = status[o]
  /\ \A e \in events : e.event # event /\ e.call # t
  /\ status' = [status EXCEPT ![o] = r.to]
  /\ events' = events \cup {[event |-> event, op |-> o, action |-> r.action,
                             from |-> r.from, to |-> r.to, call |-> t]}
  /\ Transfer(x, TransitionStage(x.kind, r.action))
  /\ UNCHANGED placed

(* An operation or a transition takes effect when its call is answered, or *)
(* after the client has given up.                                          *)
Effect(c) ==
  /\ \/ c \in Operations /\ \E x \in Order : Place(c, x)
     \/ /\ c \in Transitions
        /\ \E o \in Operations, event \in Events, r \in Table :
             \E x \in placed[o] : Apply(c, o, event, x, r)
  /\ \/ answer[c] = "none" /\ Answered(c, "done")
     \/ answer[c] = "failed" /\ UNCHANGED answer

(* A call that had no effect of its own may be answered by an earlier one, by   *)
(* a conflict with it or by a refusal; no answer to rely on is always possible. *)
Reply(c, kind) ==
  /\ answer[c] = "none"
  /\ kind \in {"replayed", "conflict"} =>
       IF c \in Operations THEN \E p \in Operations \ {c} : placed[p] # {} ELSE events # {}
  /\ Answered(c, kind)
  /\ UNCHANGED <<placed, status, events, available, reserved, clearing>>

Play(a, net) ==
  /\ available[a] + net >= 0
  /\ available' = [available EXCEPT ![a] = @ + net]
  /\ UNCHANGED <<placed, status, events, reserved, clearing, answer>>

Init ==
  /\ placed = [o \in Operations |-> {}]
  /\ status = [o \in Operations |-> "none"]
  /\ events = {}
  /\ available = [a \in Accounts |-> StartingBalance]
  /\ reserved = [a \in Accounts |-> 0]
  /\ clearing = 0
  /\ answer = [c \in Calls |-> "none"]

Next ==
  \/ \E c \in Calls : \/ Effect(c)
                      \/ \E kind \in {"replayed", "conflict", "refused", "failed"} : Reply(c, kind)
  \/ \E a \in Accounts, net \in Nets : Play(a, net)

Spec == Init /\ [][Next]_vars
================================================================================
