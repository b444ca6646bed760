----------------------------- MODULE AmountsProofs -----------------------------
(*****************************************************************************)
(* Amounts of money: what is stored is what is shown, for every amount and   *)
(* scale; and sums of amounts. The money properties of payments, rounds and  *)
(* sessions are written with SumFunctionOnSet, which the library defines by  *)
(* recursion over subsets, with a choice of the next element: it is shown    *)
(* that the recursion defines a function, that the choice does not matter,   *)
(* and that the sum depends on nothing but the summands. Each induction is a *)
(* smallest counterexample, which WFMin gives.                               *)
(*****************************************************************************)
EXTENDS Amounts, Functions, FiniteSets, WellFoundedInduction, FiniteSetTheorems, TLAPS

-----------------------------------------------------------------------------
(* Amounts *)

(* A text of a scale's own length is read as its whole part and its fraction together. *)
LEMMA ReadOwnScale ==
  ASSUME NEW text, NEW scale \in Nat, text.digits = scale
  PROVE  DecimalToAtomic(text, scale) = Units(Signed(text.negative, text.whole * Power(scale) + text.fraction))
  BY DEF DecimalToAtomic, TooFine, FractionUnits

(* Division with remainder. *)
LEMMA WholeAndRest ==
  ASSUME NEW a \in Nat, NEW f \in Nat \ {0}
  PROVE  (a \div f) * f + (a % f) = a
  BY Z3

(* An amount written out and read back is the same amount, negative ones and zero included. *)
THEOREM RoundTrip ==
  ASSUME NEW atomic \in Int, NEW scale \in Nat, Power(scale) \in Nat \ {0}
  PROVE  DecimalToAtomic(AtomicToDecimalString(atomic, scale), scale) = Units(atomic)
<1> DEFINE text == AtomicToDecimalString(atomic, scale)
<1>1. DecimalToAtomic(text, scale) = Units(Signed(text.negative, text.whole * Power(scale) + text.fraction))
  BY ReadOwnScale DEF AtomicToDecimalString
<1>2. Absolute(atomic) \in Nat
  BY DEF Absolute
<1>3. text.whole * Power(scale) + text.fraction = Absolute(atomic)
  BY <1>2, WholeAndRest DEF AtomicToDecimalString
<1>4. text.negative = (atomic < 0)
  BY DEF AtomicToDecimalString
<1>5. Signed(atomic < 0, Absolute(atomic)) = atomic
  <2>1. CASE atomic < 0
    BY <2>1 DEF Signed, Absolute
  <2>2. CASE ~(atomic < 0)
    BY <2>2 DEF Signed, Absolute
  <2> QED
    BY <2>1, <2>2
<1> QED
  BY <1>1, <1>3, <1>4, <1>5

-----------------------------------------------------------------------------
(* Sums *)

(* The element that the recursion takes from a set next. *)
Taken(s) == CHOOSE x \in s : TRUE

(* g is a recursion for the subsets of T; Recursion is the one the library takes. *)
Sums(g, f, T) ==
  g = [s \in SUBSET T |-> IF s = {} THEN 0 ELSE f[Taken(s)] + g[s \ {Taken(s)}]]

Recursion(f, T) == CHOOSE g : Sums(g, f, T)

(* The sum is what that recursion gives for the whole set. *)
LEMMA Unfolded ==
  ASSUME NEW f, NEW T
  PROVE  SumFunctionOnSet(f, T) = Recursion(f, T)[T]
BY DEF SumFunctionOnSet, FoldFunctionOnSet, MapThenFoldSet, Recursion, Sums, Taken

(* A collection of subsets of a finite set has a smallest member. *)
LEMMA Smallest ==
  ASSUME NEW S, IsFiniteSet(S), NEW Bad, Bad \subseteq SUBSET S, Bad # {}
  PROVE  \E T \in Bad : \A U \in Bad : U \subseteq T => U = T
<1>1. IsWellFoundedOn(StrictSubsetOrdering(S), SUBSET S)
  BY FS_StrictSubsetOrderingWellFounded, FS_FiniteSubsetsOfFinite
<1>2. PICK T \in Bad : \A U \in Bad : <<U, T>> \notin StrictSubsetOrdering(S)
  BY <1>1, WFMin, Zenon
<1>3. ASSUME NEW U \in Bad, U \subseteq T, U # T
      PROVE  FALSE
  BY <1>2, <1>3 DEF StrictSubsetOrdering
<1> QED
  BY <1>3

(* The recursion goes on with less. *)
LEMMA TakenIsIn ==
  ASSUME NEW s, s # {}
  PROVE  /\ Taken(s) \in s
         /\ s \ {Taken(s)} \subseteq s /\ s \ {Taken(s)} # s
BY DEF Taken

(* One step of a recursion. *)
LEMMA SumsAt ==
  ASSUME NEW g, NEW f, NEW T, NEW s, s \subseteq T, Sums(g, f, T)
  PROVE  g[s] = IF s = {} THEN 0 ELSE f[Taken(s)] + g[s \ {Taken(s)}]
BY DEF Sums

(* Two recursions agree wherever both are defined, if the summands do. *)
LEMMA Agree ==
  ASSUME NEW f, NEW h, NEW F, NEW H, NEW S, NEW T, NEW U, IsFiniteSet(U),
         Sums(F, f, S), Sums(H, h, T), U \subseteq S, U \subseteq T,
         \A x \in U : f[x] = h[x]
  PROVE  F[U] = H[U]
<1> DEFINE Bad == {V \in SUBSET U : F[V] # H[V]}
<1> SUFFICES ASSUME Bad # {} PROVE FALSE
  OBVIOUS
<1>1. PICK V \in Bad : \A W \in Bad : W \subseteq V => W = V
  <2>1. Bad \subseteq SUBSET U
    OBVIOUS
  <2> HIDE DEF Bad
  <2> QED BY <2>1, Smallest
<1>2. /\ F[V] = IF V = {} THEN 0 ELSE f[Taken(V)] + F[V \ {Taken(V)}]
      /\ H[V] = IF V = {} THEN 0 ELSE h[Taken(V)] + H[V \ {Taken(V)}]
  BY <1>1, SumsAt
<1>3. V # {}
  BY <1>1, <1>2
<1>4. F[V \ {Taken(V)}] = H[V \ {Taken(V)}]
  BY <1>1, <1>3, TakenIsIn
<1> QED
  BY <1>1, <1>2, <1>3, <1>4, TakenIsIn

(* The same of the recursions the library takes. *)
LEMMA RecursionsAgree ==
  ASSUME NEW f, NEW h, NEW S, NEW T, NEW U, IsFiniteSet(U), U \subseteq S, U \subseteq T,
         Sums(Recursion(f, S), f, S), Sums(Recursion(h, T), h, T),
         \A x \in U : f[x] = h[x]
  PROVE  Recursion(f, S)[U] = Recursion(h, T)[U]
<1> DEFINE F == Recursion(f, S)
           H == Recursion(h, T)
<1>1. Sums(F, f, S) /\ Sums(H, h, T)
  OBVIOUS
<1>2. F[U] = H[U]
  <2> HIDE DEF F, H
  <2> QED BY <1>1, Agree
<1> QED
  BY <1>2

(* One step of it, for the whole set. *)
LEMMA RecursionAt ==
  ASSUME NEW f, NEW T, Sums(Recursion(f, T), f, T)
  PROVE  Recursion(f, T)[T] = IF T = {} THEN 0 ELSE f[Taken(T)] + Recursion(f, T)[T \ {Taken(T)}]
<1> DEFINE F == Recursion(f, T)
<1>1. F[T] = IF T = {} THEN 0 ELSE f[Taken(T)] + F[T \ {Taken(T)}]
  <2>1. Sums(F, f, T) /\ T \subseteq T
    OBVIOUS
  <2> HIDE DEF F
  <2> QED BY <2>1, SumsAt
<1> QED
  BY <1>1

(* The recursion defines a function. *)
LEMMA Exists ==
  ASSUME NEW f, NEW S, IsFiniteSet(S)
  PROVE  Sums(Recursion(f, S), f, S)
<1> DEFINE Bad == {T \in SUBSET S : ~ Sums(Recursion(f, T), f, T)}
<1> SUFFICES ASSUME Bad # {} PROVE FALSE
  OBVIOUS
<1>1. PICK T \in Bad : \A U \in Bad : U \subseteq T => U = T
  <2>1. Bad \subseteq SUBSET S
    OBVIOUS
  <2> HIDE DEF Bad
  <2> QED BY <2>1, Smallest
<1> DEFINE Rest(s) == s \ {Taken(s)}
           Value(s) == IF s = {} THEN 0 ELSE f[Taken(s)] + Recursion(f, Rest(s))[Rest(s)]
           h == [s \in SUBSET T |-> Value(s)]
<1>2. ASSUME NEW s \in SUBSET T, s # T
      PROVE  Sums(Recursion(f, s), f, s)
  BY <1>1, <1>2
<1>3. ASSUME NEW s \in SUBSET T, s # {}
      PROVE  Rest(s) \in SUBSET T /\ Rest(s) # T /\ Rest(s) \subseteq s /\ IsFiniteSet(Rest(s))
  <2>1. Rest(s) \in SUBSET S
    BY <1>1
  <2> QED
    BY <1>3, <2>1, TakenIsIn, FS_Subset
<1>4. ASSUME NEW s \in SUBSET T, s # T
      PROVE  Recursion(f, s)[s] = Value(s)
  <2>1. Recursion(f, s)[s] = IF s = {} THEN 0 ELSE f[Taken(s)] + Recursion(f, s)[Rest(s)]
    BY <1>2, <1>4, RecursionAt
  <2>2. CASE s # {}
    <3>1. Sums(Recursion(f, Rest(s)), f, Rest(s)) /\ Sums(Recursion(f, s), f, s)
      BY <1>2, <1>3, <1>4, <2>2
    <3>2. Recursion(f, s)[Rest(s)] = Recursion(f, Rest(s))[Rest(s)]
      BY <1>3, <2>2, <3>1, RecursionsAgree
    <3> QED
      BY <2>1, <2>2, <3>2
  <2> QED
    BY <2>1, <2>2
<1>5. ASSUME NEW s \in SUBSET T
      PROVE  Value(s) = IF s = {} THEN 0 ELSE f[Taken(s)] + h[Rest(s)]
  <2>1. CASE s # {}
    <3>1. h[Rest(s)] = Value(Rest(s))
      BY <1>3, <2>1
    <3>2. Recursion(f, Rest(s))[Rest(s)] = Value(Rest(s))
      BY <1>3, <1>4, <2>1
    <3> QED
      BY <2>1, <3>1, <3>2
  <2> QED
    BY <2>1
<1>6. Sums(h, f, T)
  <2>1. h = [s \in SUBSET T |-> IF s = {} THEN 0 ELSE f[Taken(s)] + h[Rest(s)]]
    BY <1>5
  <2> HIDE DEF h
  <2> QED BY <2>1 DEF Sums
<1>7. Sums(Recursion(f, T), f, T)
  <2> HIDE DEF h
  <2> QED BY <1>6 DEF Recursion
<1> QED
  BY <1>1, <1>7

-----------------------------------------------------------------------------
(* The sum of nothing, and the sum of a set by the element that is taken first. *)
LEMMA SumRecursion ==
  ASSUME NEW f, NEW S, IsFiniteSet(S)
  PROVE  SumFunctionOnSet(f, S) =
           IF S = {} THEN 0 ELSE f[Taken(S)] + SumFunctionOnSet(f, S \ {Taken(S)})
<1> DEFINE r == S \ {Taken(S)}
<1>1. Sums(Recursion(f, S), f, S)
  BY Exists
<1>2. Recursion(f, S)[S] = IF S = {} THEN 0 ELSE f[Taken(S)] + Recursion(f, S)[r]
  BY <1>1, RecursionAt
<1>3. r \subseteq S /\ IsFiniteSet(r)
  BY FS_Subset
<1>4. Sums(Recursion(f, r), f, r)
  BY <1>3, Exists
<1>5. Recursion(f, S)[r] = Recursion(f, r)[r]
  BY <1>1, <1>3, <1>4, RecursionsAgree
<1> QED
  BY <1>2, <1>5, Unfolded

(* A sum depends on its summands only. *)
LEMMA SumSame ==
  ASSUME NEW f, NEW h, NEW S, IsFiniteSet(S), \A x \in S : f[x] = h[x]
  PROVE  SumFunctionOnSet(f, S) = SumFunctionOnSet(h, S)
<1>1. Sums(Recursion(f, S), f, S) /\ Sums(Recursion(h, S), h, S)
  BY Exists
<1>2. Recursion(f, S)[S] = Recursion(h, S)[S]
  BY <1>1, RecursionsAgree
<1> QED
  BY <1>2, Unfolded

(* A sum of integers is an integer. *)
LEMMA SumInt ==
  ASSUME NEW f, NEW S, IsFiniteSet(S), \A x \in S : f[x] \in Int
  PROVE  SumFunctionOnSet(f, S) \in Int
<1> DEFINE Bad == {T \in SUBSET S : SumFunctionOnSet(f, T) \notin Int}
<1> SUFFICES ASSUME Bad # {} PROVE FALSE
  OBVIOUS
<1>1. PICK T \in Bad : \A U \in Bad : U \subseteq T => U = T
  <2>1. Bad \subseteq SUBSET S
    OBVIOUS
  <2> HIDE DEF Bad
  <2> QED BY <2>1, Smallest
<1>2. SumFunctionOnSet(f, T) =
        IF T = {} THEN 0 ELSE f[Taken(T)] + SumFunctionOnSet(f, T \ {Taken(T)})
  BY SumRecursion, FS_Subset
<1>3. T # {}
  BY <1>1, <1>2
<1>4. SumFunctionOnSet(f, T \ {Taken(T)}) \in Int /\ Taken(T) \in S
  BY <1>1, <1>3, TakenIsIn
<1> QED
  BY <1>1, <1>2, <1>3, <1>4

(* Any element may be taken first. *)
LEMMA SumRemove ==
  ASSUME NEW f, NEW S, IsFiniteSet(S), \A x \in S : f[x] \in Int, NEW e \in S
  PROVE  SumFunctionOnSet(f, S) = f[e] + SumFunctionOnSet(f, S \ {e})
<1> DEFINE Sum(T) == SumFunctionOnSet(f, T)
           Bad == {T \in SUBSET S : \E x \in T : Sum(T) # f[x] + Sum(T \ {x})}
<1> SUFFICES ASSUME Bad # {} PROVE FALSE
  OBVIOUS
<1>1. PICK T \in Bad : \A U \in Bad : U \subseteq T => U = T
  <2>1. Bad \subseteq SUBSET S
    OBVIOUS
  <2> HIDE DEF Bad
  <2> QED BY <2>1, Smallest
<1>2. PICK x \in T : Sum(T) # f[x] + Sum(T \ {x})
  BY <1>1
<1> DEFINE t == Taken(T)
<1>3. t \in T
  BY <1>2, TakenIsIn
<1>4. \A U \in SUBSET S : IsFiniteSet(U)
  BY FS_Subset
<1>5. Sum(T) = f[t] + Sum(T \ {t})
  BY <1>1, <1>2, <1>4, SumRecursion
<1>6. x # t
  BY <1>2, <1>5
<1>7. Sum(T \ {t}) = f[x] + Sum((T \ {t}) \ {x})
  <2>1. T \ {t} \in SUBSET S /\ T \ {t} \notin Bad /\ x \in T \ {t}
    <3> HIDE DEF Sum, t
    <3> QED BY <1>1, <1>3, <1>6
  <2> QED
    <3> HIDE DEF Sum, t
    <3> QED BY <2>1
<1>8. Sum(T \ {x}) = f[t] + Sum((T \ {x}) \ {t})
  <2>1. T \ {x} \in SUBSET S /\ T \ {x} \notin Bad /\ t \in T \ {x}
    <3> HIDE DEF Sum, t
    <3> QED BY <1>1, <1>2, <1>3, <1>6
  <2> QED
    <3> HIDE DEF Sum, t
    <3> QED BY <2>1
<1>9. (T \ {t}) \ {x} = (T \ {x}) \ {t}
  OBVIOUS
<1>10. Sum((T \ {x}) \ {t}) \in Int
  BY <1>4, SumInt
<1>11. f[x] \in Int /\ f[t] \in Int
  BY <1>1, <1>2, <1>3
<1> DEFINE z == Sum((T \ {x}) \ {t})
<1>12. Sum(T) = f[t] + (f[x] + z) /\ Sum(T \ {x}) = f[t] + z
  BY <1>5, <1>7, <1>8, <1>9
<1> HIDE DEF Sum, t, z
<1>13. f[t] + (f[x] + z) = f[x] + (f[t] + z)
  BY <1>10, <1>11 DEF z
<1> QED
  BY <1>2, <1>12, <1>13

(* The sum of a set with one more element. *)
LEMMA SumAdd ==
  ASSUME NEW f, NEW S, IsFiniteSet(S), NEW e, e \notin S, \A x \in S \cup {e} : f[x] \in Int
  PROVE  SumFunctionOnSet(f, S \cup {e}) = f[e] + SumFunctionOnSet(f, S)
<1>1. IsFiniteSet(S \cup {e})
  BY FS_AddElement
<1>2. (S \cup {e}) \ {e} = S
  OBVIOUS
<1> QED
  BY <1>1, <1>2, SumRemove

(* The sum of nothing. *)
LEMMA SumEmpty ==
  ASSUME NEW f
  PROVE  SumFunctionOnSet(f, {}) = 0
BY SumRecursion, FS_EmptySet
=============================================================================
