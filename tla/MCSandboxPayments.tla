--------------------------- MODULE MCSandboxPayments ---------------------------
(* An instance of SandboxPayments for TLC. *)
EXTENDS SandboxPayments, TLC

CONSTANTS o1, o2, t1, t2, k1, k2, e1, e2

LosesOne == {-1}

Sent == {c \in Calls : pc[c] # "idle"}

(* Bound: operations that differ in their amount are created, but not decided. *)
AmountsDifferOrDecided == Sent \subseteq Operations \/ \A o \in Sent \cap Operations : order[o].amount = 1

(* Bound: a round is played beside one transition at most. *)
PlayedOrBothDecide == played = 0 \/ Cardinality(Sent \cap Transitions) < 2

(* Next tells neither two calls of a kind nor two keys nor two events apart. *)
Symmetry == {o @@ t @@ k @@ e : o \in Permutations({o1, o2}), t \in Permutations({t1, t2}),
                                k \in Permutations({k1, k2}), e \in Permutations({e1, e2})}
================================================================================
