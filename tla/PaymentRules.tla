----------------------------- MODULE PaymentRules -----------------------------
(***************************************************************************)
(* The rules of sandbox payments that need no state: the transitions of    *)
(* SANDBOX_PAYMENT_ACTIONS and the ledger posting each of them makes.      *)
(***************************************************************************)
EXTENDS Integers

Kinds == {"deposit", "withdrawal"}
Actions == {"approve", "complete", "reject", "fail"}
Statuses == {"none", "pending", "reserved", "approved", "completed", "rejected", "failed"}
Stages == {"reserve", "credit", "settle", "release", "none"}

Initial(kind) == IF kind = "deposit" THEN "pending" ELSE "reserved"

Rule(kind, from, action, to) == [kind |-> kind, from |-> from, action |-> action, to |-> to]

Table == {Rule("deposit", "pending", "complete", "completed"),
          Rule("deposit", "pending", "fail", "failed"),
          Rule("withdrawal", "reserved", "approve", "approved"),
          Rule("withdrawal", "reserved", "reject", "rejected"),
          Rule("withdrawal", "reserved", "fail", "failed"),
          Rule("withdrawal", "approved", "complete", "completed"),
          Rule("withdrawal", "approved", "fail", "failed")}

(* The posting of a created operation and of a transition. *)
CreateStage(kind) == IF kind = "withdrawal" THEN "reserve" ELSE "none"

RejectedStage(kind, action) ==
  CASE kind = "deposit" /\ action = "complete" -> "credit"
    [] kind = "withdrawal" /\ action = "complete" -> "settle"
    [] kind = "withdrawal" /\ action = "reject" -> "release"
    [] OTHER -> "none"

TransitionStage(kind, action) ==
  CASE kind = "deposit" /\ action = "complete" -> "credit"
    [] kind = "withdrawal" /\ action = "complete" -> "settle"
    [] kind = "withdrawal" /\ action \in {"reject", "fail"} -> "release"
    [] OTHER -> "none"

(* What a posting of amount n adds to each of the wallets it names. *)
ToAvailable(stage, n) ==
  CASE stage = "reserve" -> -n
    [] stage \in {"credit", "release"} -> n
    [] OTHER -> 0

ToReserved(stage, n) ==
  CASE stage = "reserve" -> n
    [] stage \in {"settle", "release"} -> -n
    [] OTHER -> 0

ToClearing(stage, n) ==
  CASE stage = "settle" -> n
    [] stage = "credit" -> -n
    [] OTHER -> 0
================================================================================
