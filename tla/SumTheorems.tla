---------------------------- MODULE SumTheorems ----------------------------
(***************************************************************************)
(* What the models use of a sum over a finite set, SumFunctionOnSet of the *)
(* community modules: it exists, takes its terms in any order, lies        *)
(* between what they allow and grows with the set and with the terms.  The *)
(* library's induction theorems are not at hand (they take an operator);   *)
(* each proof looks at a smallest subset that would be a counterexample    *)
(* instead.  And what they use of the order of a finite set of numbers.    *)
(***************************************************************************)
EXTENDS FiniteSetsExt, FiniteSetTheorems, TLAPS

\* Of finitely many subsets one contains no other.
LEMMA SmallestSubset ==
    ASSUME NEW S, IsFiniteSet(S), NEW B, B \subseteq SUBSET S, B # {}
    PROVE  \E T \in B : \A U \in B : U \subseteq T => U = T
<1>1. IsWellFoundedOn(StrictSubsetOrdering(S), SUBSET S)
  BY FS_StrictSubsetOrderingWellFounded, FS_FiniteSubsetsOfFinite
<1>2. PICK T \in B : \A U \in B : <<U, T>> \notin StrictSubsetOrdering(S)
  BY <1>1, WFMin
<1>3. \A U \in B : U \subseteq T => U = T
  BY <1>2 DEF StrictSubsetOrdering
<1> QED
  BY <1>3

\* A function of finitely many arguments has finitely many values.
LEMMA FiniteRange ==
    ASSUME NEW f, IsFiniteSet(DOMAIN f)
    PROVE  IsFiniteSet(Range(f))
<1> DEFINE g == [x \in DOMAIN f |-> f[x]]
<1>1. g \in Surjection(DOMAIN f, Range(f))
  BY DEF Surjection, Range
<1> QED
  BY <1>1, FS_Surjection

-----------------------------------------------------------------------------
(* The recursive function behind the sum.                                  *)

Pick(s) == CHOOSE x \in s : TRUE

\* h is the function the fold computes on the subsets of T.
Sums(h, f, T) ==
    h = [s \in SUBSET T |->
            IF s = {} THEN 0 ELSE f[Pick(s)] + h[s \ {Pick(s)}]]

\* The sum is the value such a function has at the whole set.
LEMMA SumsMeaning ==
    ASSUME NEW f, NEW S
    PROVE  SumFunctionOnSet(f, S) = (CHOOSE h : Sums(h, f, S))[S]
BY DEF SumFunctionOnSet, FoldFunctionOnSet, MapThenFoldSet, Sums, Pick

\* A set loses an element when its pick is taken away.
LEMMA PickTaken ==
    ASSUME NEW s, s # {}
    PROVE  Pick(s) \in s /\ s \ {Pick(s)} \subseteq s /\ s \ {Pick(s)} # s
BY DEF Pick

\* The equation of such a function, one subset at a time.
LEMMA SumsAt ==
    ASSUME NEW f, NEW T, NEW h, Sums(h, f, T), NEW s, s \subseteq T
    PROVE  h[s] = IF s = {} THEN 0 ELSE f[Pick(s)] + h[s \ {Pick(s)}]
BY DEF Sums

\* Two such functions agree wherever both are defined.
LEMMA SumsAgree ==
    ASSUME NEW f, NEW T, NEW U, U \subseteq T, IsFiniteSet(U),
           NEW g, Sums(g, f, T), NEW h, Sums(h, f, U)
    PROVE  \A s \in SUBSET U : g[s] = h[s]
<1> DEFINE B == {s \in SUBSET U : g[s] # h[s]}
<1>1. SUFFICES ASSUME B # {} PROVE FALSE
  OBVIOUS
<1>2. PICK m \in B : \A s \in B : s \subseteq m => s = m
  <2>1. B \subseteq SUBSET U
    OBVIOUS
  <2> HIDE DEF B
  <2> QED
    BY <1>1, <2>1, SmallestSubset
<1>3. /\ g[m] = IF m = {} THEN 0 ELSE f[Pick(m)] + g[m \ {Pick(m)}]
      /\ h[m] = IF m = {} THEN 0 ELSE f[Pick(m)] + h[m \ {Pick(m)}]
  BY SumsAt
<1>4. m # {} /\ g[m] # h[m]
  BY <1>3
<1>5. m \ {Pick(m)} \notin B /\ m \ {Pick(m)} \in SUBSET U
  BY <1>2, <1>4, PickTaken
<1>6. g[m \ {Pick(m)}] = h[m \ {Pick(m)}]
  BY <1>5
<1> QED
  BY <1>3, <1>4, <1>6

\* In particular at the smaller set.
LEMMA SumsAgreeThere ==
    ASSUME NEW f, NEW T, NEW U, U \subseteq T, IsFiniteSet(U),
           NEW g, Sums(g, f, T), NEW h, Sums(h, f, U)
    PROVE  g[U] = h[U]
BY SumsAgree

\* Such a function exists on the subsets of a finite set.
LEMMA SumsExist ==
    ASSUME NEW f, NEW S, IsFiniteSet(S)
    PROVE  \E h : Sums(h, f, S)
<1> DEFINE B == {T \in SUBSET S : ~\E h : Sums(h, f, T)}
<1>1. SUFFICES ASSUME B # {} PROVE FALSE
  OBVIOUS
<1>2. PICK T \in B : \A U \in B : U \subseteq T => U = T
  <2>1. B \subseteq SUBSET S
    OBVIOUS
  <2> HIDE DEF B
  <2> QED
    BY <1>1, <2>1, SmallestSubset
<1> DEFINE below == {U \in SUBSET T : U # T}
           H == [U \in below |-> CHOOSE h : Sums(h, f, U)]
           V == [U \in below |-> H[U][U]]
           g == [s \in SUBSET T |->
                    IF s = {} THEN 0 ELSE f[Pick(s)] + V[s \ {Pick(s)}]]
<1>3. \A U \in below : Sums(H[U], f, U) /\ IsFiniteSet(U)
  <2> SUFFICES ASSUME NEW U \in below PROVE Sums(H[U], f, U) /\ IsFiniteSet(U)
    OBVIOUS
  <2>1. U \notin B /\ U \in SUBSET S
    BY <1>2
  <2>2. \E h : Sums(h, f, U)
    BY <2>1
  <2>3. IsFiniteSet(U)
    BY <2>1, FS_Subset
  <2> QED
    BY <2>2, <2>3
<1>4. \A U \in below : g[U] = V[U]
  <2> SUFFICES ASSUME NEW U \in below PROVE g[U] = V[U]
    OBVIOUS
  <2>1. H[U][U] = IF U = {} THEN 0 ELSE f[Pick(U)] + H[U][U \ {Pick(U)}]
    <3>1. Sums(H[U], f, U) /\ U \subseteq U
      BY <1>3
    <3> HIDE DEF H
    <3> QED
      BY <3>1, SumsAt
  <2>2. CASE U = {}
    BY <2>1, <2>2
  <2>3. CASE U # {}
    <3> DEFINE W == U \ {Pick(U)}
    <3>1. W \in below /\ W \subseteq U /\ W \in SUBSET W
      BY <2>3, PickTaken
    <3>2. H[U][W] = H[W][W]
      <4>1. Sums(H[U], f, U) /\ Sums(H[W], f, W) /\ IsFiniteSet(W)
        BY <1>3, <3>1
      <4> HIDE DEF H, W, below, V, g, B
      <4> QED
        BY <3>1, <4>1, SumsAgreeThere
    <3> QED
      BY <2>1, <2>3, <3>1, <3>2
  <2> QED
    BY <2>2, <2>3
<1>5. \A s \in SUBSET T : s # {} => s \ {Pick(s)} \in below
  BY PickTaken
<1>6. Sums(g, f, T)
  <2>1. \A s \in SUBSET T : s # {} => V[s \ {Pick(s)}] = g[s \ {Pick(s)}]
    BY <1>4, <1>5
  <2> HIDE DEF V
  <2> QED
    BY <2>1 DEF Sums
<1> QED
  BY <1>2, <1>6

-----------------------------------------------------------------------------
\* An empty sum is 0, another one its picked term and the sum of the rest.
LEMMA SumStep ==
    ASSUME NEW f, NEW S, IsFiniteSet(S)
    PROVE  SumFunctionOnSet(f, S) =
              IF S = {} THEN 0
              ELSE f[Pick(S)] + SumFunctionOnSet(f, S \ {Pick(S)})
<1> DEFINE h(T) == CHOOSE g : Sums(g, f, T)
<1>1. \A T : IsFiniteSet(T) => Sums(h(T), f, T)
  BY SumsExist
<1>2. \A T : SumFunctionOnSet(f, T) = h(T)[T]
  BY SumsMeaning
<1>3. h(S)[S] = IF S = {} THEN 0 ELSE f[Pick(S)] + h(S)[S \ {Pick(S)}]
  <2>1. Sums(h(S), f, S) /\ S \subseteq S
    BY <1>1
  <2> HIDE DEF h
  <2> QED
    BY <2>1, SumsAt
<1>4. CASE S # {}
  <2> DEFINE W == S \ {Pick(S)}
  <2>1. W \subseteq S /\ W \in SUBSET W /\ IsFiniteSet(W)
    BY FS_Subset
  <2>2. Sums(h(S), f, S) /\ Sums(h(W), f, W)
    BY <1>1, <2>1
  <2>3. h(S)[W] = h(W)[W]
    <3> HIDE DEF h, W
    <3> QED
      BY <2>1, <2>2, SumsAgreeThere
  <2> QED
    BY <1>2, <1>3, <1>4, <2>3
<1> QED
  BY <1>2, <1>3, <1>4

\* The same as two facts.
LEMMA SumEmpty ==
    ASSUME NEW f
    PROVE  SumFunctionOnSet(f, {}) = 0
BY SumStep, FS_EmptySet

\* The sum over a nonempty set takes its pick first.
LEMMA SumNonempty ==
    ASSUME NEW f, NEW S, IsFiniteSet(S), S # {}
    PROVE  /\ Pick(S) \in S /\ IsFiniteSet(S \ {Pick(S)})
           /\ SumFunctionOnSet(f, S) =
                 f[Pick(S)] + SumFunctionOnSet(f, S \ {Pick(S)})
BY SumStep, PickTaken, FS_Subset

\* A sum of naturals is one.
LEMMA SumType ==
    ASSUME NEW f, NEW S, IsFiniteSet(S), \A x \in S : f[x] \in Nat
    PROVE  \A T \in SUBSET S : SumFunctionOnSet(f, T) \in Nat
<1> DEFINE B == {T \in SUBSET S : SumFunctionOnSet(f, T) \notin Nat}
<1>1. SUFFICES ASSUME B # {} PROVE FALSE
  OBVIOUS
<1>2. PICK T \in B : \A U \in B : U \subseteq T => U = T
  <2>1. B \subseteq SUBSET S
    OBVIOUS
  <2> HIDE DEF B
  <2> QED
    BY <1>1, <2>1, SmallestSubset
<1>3. T # {} /\ IsFiniteSet(T)
  <2>1. SumFunctionOnSet(f, {}) \in Nat
    BY SumEmpty
  <2> QED
    BY <2>1, FS_Subset
<1>4. T \ {Pick(T)} \notin B /\ T \ {Pick(T)} \in SUBSET S
  BY <1>2, <1>3, PickTaken
<1> QED
  BY <1>3, <1>4, SumNonempty

\* The terms may be taken in any order.
LEMMA SumAnyTerm ==
    ASSUME NEW f, NEW S, IsFiniteSet(S), \A x \in S : f[x] \in Nat
    PROVE  \A x \in S :
              SumFunctionOnSet(f, S) = f[x] + SumFunctionOnSet(f, S \ {x})
<1> DEFINE Any(T) == \A x \in T :
              SumFunctionOnSet(f, T) = f[x] + SumFunctionOnSet(f, T \ {x})
           B == {T \in SUBSET S : ~Any(T)}
<1>1. SUFFICES ASSUME B # {} PROVE FALSE
  OBVIOUS
<1>2. PICK T \in B : \A U \in B : U \subseteq T => U = T
  <2>1. B \subseteq SUBSET S
    OBVIOUS
  <2> HIDE DEF B
  <2> QED
    BY <1>1, <2>1, SmallestSubset
<1>3. PICK x \in T : SumFunctionOnSet(f, T) # f[x] + SumFunctionOnSet(f, T \ {x})
  OBVIOUS
<1> DEFINE p == Pick(T)
           W == T \ {p}
           R == T \ {x}
<1>4. /\ IsFiniteSet(T) /\ p \in T
      /\ SumFunctionOnSet(f, T) = f[p] + SumFunctionOnSet(f, W)
  BY SumNonempty, FS_Subset
<1>5. p # x /\ W # T /\ R # T /\ x \in W /\ p \in R /\ W \ {x} = R \ {p}
  BY <1>3, <1>4
<1>6. Any(W) /\ Any(R)
  BY <1>2, <1>5
<1>7. /\ SumFunctionOnSet(f, W) = f[x] + SumFunctionOnSet(f, W \ {x})
      /\ SumFunctionOnSet(f, R) = f[p] + SumFunctionOnSet(f, R \ {p})
  BY <1>5, <1>6
<1>8. /\ f[x] \in Nat /\ f[p] \in Nat
      /\ SumFunctionOnSet(f, W \ {x}) \in Nat
  BY <1>4, SumType
<1>9. SumFunctionOnSet(f, T) # f[x] + SumFunctionOnSet(f, R)
  BY <1>3
<1> HIDE DEF p, W, R, B, Any
<1>10. SumFunctionOnSet(f, R) = f[p] + SumFunctionOnSet(f, W \ {x})
  BY <1>5, <1>7
<1> QED
  BY <1>4, <1>7, <1>8, <1>9, <1>10

-----------------------------------------------------------------------------
(* What the components' proofs cite.                                       *)

\* A new term adds its amount.
LEMMA SumAdd ==
    ASSUME NEW f, NEW S, IsFiniteSet(S), NEW y, y \notin S,
           \A x \in S \cup {y} : f[x] \in Nat
    PROVE  /\ SumFunctionOnSet(f, S) \in Nat
           /\ SumFunctionOnSet(f, S \cup {y}) = SumFunctionOnSet(f, S) + f[y]
<1>1. IsFiniteSet(S \cup {y}) /\ (S \cup {y}) \ {y} = S
  BY FS_AddElement
<1>2. SumFunctionOnSet(f, S \cup {y}) = f[y] + SumFunctionOnSet(f, S)
  BY <1>1, SumAnyTerm
<1>3. SumFunctionOnSet(f, S) \in Nat
  BY SumType
<1> QED
  BY <1>2, <1>3

\* A part of a sum is no more than all of it.
LEMMA SumMonotone ==
    ASSUME NEW f, NEW S, IsFiniteSet(S), \A x \in S : f[x] \in Nat,
           NEW U, U \subseteq S
    PROVE  SumFunctionOnSet(f, U) <= SumFunctionOnSet(f, S)
<1> DEFINE B == {T \in SUBSET S :
                   U \subseteq T /\ ~(SumFunctionOnSet(f, U) <= SumFunctionOnSet(f, T))}
<1>1. SUFFICES ASSUME B # {} PROVE FALSE
  OBVIOUS
<1>2. PICK T \in B : \A V \in B : V \subseteq T => V = T
  <2>1. B \subseteq SUBSET S
    OBVIOUS
  <2> HIDE DEF B
  <2> QED
    BY <1>1, <2>1, SmallestSubset
<1>3. T # U /\ IsFiniteSet(T)
  <2>1. SumFunctionOnSet(f, T) \in Nat
    BY SumType
  <2> QED
    BY <2>1, FS_Subset
<1>4. PICK x \in T : x \notin U
  BY <1>3
<1>5. SumFunctionOnSet(f, T) = f[x] + SumFunctionOnSet(f, T \ {x})
  BY <1>3, SumAnyTerm
<1>6. SumFunctionOnSet(f, U) <= SumFunctionOnSet(f, T \ {x})
  BY <1>2, <1>4
<1>7. /\ SumFunctionOnSet(f, U) \in Nat /\ SumFunctionOnSet(f, T \ {x}) \in Nat
      /\ f[x] \in Nat
  BY SumType
<1> QED
  BY <1>5, <1>6, <1>7

\* Only the terms count.
LEMMA SumSame ==
    ASSUME NEW f, NEW g, NEW S, IsFiniteSet(S), \A x \in S : f[x] = g[x]
    PROVE  SumFunctionOnSet(f, S) = SumFunctionOnSet(g, S)
<1> DEFINE B == {T \in SUBSET S : SumFunctionOnSet(f, T) # SumFunctionOnSet(g, T)}
<1>1. SUFFICES ASSUME B # {} PROVE FALSE
  OBVIOUS
<1>2. PICK T \in B : \A U \in B : U \subseteq T => U = T
  <2>1. B \subseteq SUBSET S
    OBVIOUS
  <2> HIDE DEF B
  <2> QED
    BY <1>1, <2>1, SmallestSubset
<1>3. T # {} /\ IsFiniteSet(T)
  BY SumEmpty, FS_Subset
<1>4. T \ {Pick(T)} \notin B /\ T \ {Pick(T)} \in SUBSET S
  BY <1>2, <1>3, PickTaken
<1> QED
  BY <1>3, <1>4, SumNonempty

\* One factor less.
LEMMA OneTimesLess ==
    ASSUME NEW n \in Nat, NEW c \in Nat
    PROVE  (n + 1) * c = n * c + c
OBVIOUS

\* A sum lies between what its terms allow.
LEMMA SumBetween ==
    ASSUME NEW f, NEW S, IsFiniteSet(S), NEW low \in Nat, NEW high \in Nat,
           \A x \in S : f[x] \in low..high
    PROVE  /\ SumFunctionOnSet(f, S) \in Nat
           /\ Cardinality(S) * low <= SumFunctionOnSet(f, S)
           /\ SumFunctionOnSet(f, S) <= Cardinality(S) * high
<1> DEFINE Between(T) == /\ Cardinality(T) * low <= SumFunctionOnSet(f, T)
                         /\ SumFunctionOnSet(f, T) <= Cardinality(T) * high
           B == {T \in SUBSET S : ~Between(T)}
<1>0. \A x \in S : f[x] \in Nat /\ low <= f[x] /\ f[x] <= high
  OBVIOUS
<1>1. SUFFICES ASSUME B # {} PROVE FALSE
  <2>1. SumFunctionOnSet(f, S) \in Nat
    BY <1>0, SumType
  <2> QED
    BY <1>1, <2>1
<1>2. PICK T \in B : \A U \in B : U \subseteq T => U = T
  <2>1. B \subseteq SUBSET S
    OBVIOUS
  <2> HIDE DEF B
  <2> QED
    BY <1>1, <2>1, SmallestSubset
<1>3. T # {} /\ IsFiniteSet(T)
  <2>1. Between({})
    BY SumEmpty, FS_EmptySet
  <2> QED
    BY <2>1, FS_Subset
<1> DEFINE p == Pick(T)
           U == T \ {p}
<1>4. /\ p \in T /\ IsFiniteSet(U)
      /\ SumFunctionOnSet(f, T) = f[p] + SumFunctionOnSet(f, U)
  BY <1>3, SumNonempty
<1>5. Between(U)
  BY <1>2, <1>3, PickTaken
<1>6. /\ Cardinality(U) \in Nat
      /\ Cardinality(T) = Cardinality(U) + 1
  BY <1>3, <1>4, FS_RemoveElement, FS_CardinalityType
<1>7. SumFunctionOnSet(f, U) \in Nat
  BY <1>0, <1>4, SumType
<1>8. f[p] \in Nat /\ low <= f[p] /\ f[p] <= high
  BY <1>0, <1>4
<1> HIDE DEF p, U
<1>9. /\ Cardinality(T) * low = Cardinality(U) * low + low
      /\ Cardinality(T) * high = Cardinality(U) * high + high
  BY <1>6, OneTimesLess
<1>10. Cardinality(U) * low \in Nat /\ Cardinality(U) * high \in Nat
  BY <1>6
<1>11. Between(T)
  BY <1>4, <1>5, <1>7, <1>8, <1>9, <1>10
<1> QED
  BY <1>11

\* The sum over a whole function grows by the value of the one argument it
\* gains.
LEMMA SumGrows ==
    ASSUME NEW f, IsFiniteSet(DOMAIN f), \A x \in DOMAIN f : f[x] \in Nat,
           NEW y, y \notin DOMAIN f, NEW g, DOMAIN g = DOMAIN f \cup {y},
           g[y] \in Nat, \A x \in DOMAIN f : g[x] = f[x]
    PROVE  /\ SumFunction(f) \in Nat
           /\ SumFunction(g) = SumFunction(f) + g[y]
<1> DEFINE S == DOMAIN f
<1>1. SumFunctionOnSet(f, S) \in Nat
  BY SumType
<1>2. SumFunctionOnSet(f, S) = SumFunctionOnSet(g, S)
  BY SumSame
<1>3. SumFunctionOnSet(g, S \cup {y}) = SumFunctionOnSet(g, S) + g[y]
  <2>1. IsFiniteSet(S) /\ y \notin S /\ \A x \in S \cup {y} : g[x] \in Nat
    OBVIOUS
  <2> HIDE DEF S
  <2> QED
    BY <2>1, SumAdd
<1> QED
  BY <1>1, <1>2, <1>3 DEF SumFunction

-----------------------------------------------------------------------------
(* The members of a finite set of numbers have their places in it.         *)

Place(S, x) == Cardinality({y \in S : y <= x})

\* A place is a number up to the size of the set, and grows with the member.
LEMMA PlaceGrows ==
    ASSUME NEW S, S \subseteq Int, IsFiniteSet(S)
    PROVE  /\ Cardinality(S) \in Nat
           /\ \A x \in S : Place(S, x) \in 1..Cardinality(S)
           /\ \A x, y \in S : x < y => Place(S, x) < Place(S, y)
<1> DEFINE below(x) == {y \in S : y <= x}
<1>1. \A x : Place(S, x) = Cardinality(below(x))
  BY DEF Place
<1>2. \A x : /\ IsFiniteSet(below(x)) /\ Cardinality(below(x)) \in Nat
             /\ Cardinality(below(x)) <= Cardinality(S)
  <2>1. \A x : below(x) \subseteq S
    OBVIOUS
  <2> HIDE DEF below
  <2> QED
    BY <2>1, FS_Subset, FS_CardinalityType
<1>3. Cardinality(S) \in Nat
  BY FS_CardinalityType
<1>4. ASSUME NEW x \in S PROVE Place(S, x) \in 1..Cardinality(S)
  <2>1. below(x) # {}
    OBVIOUS
  <2> HIDE DEF below
  <2>2. Cardinality(below(x)) # 0
    BY <1>2, <2>1, FS_EmptySet
  <2> QED
    BY <1>1, <1>2, <1>3, <2>2
<1>5. ASSUME NEW x \in S, NEW y \in S, x < y
      PROVE  Place(S, x) < Place(S, y)
  <2>1. x \in Int /\ y \in Int /\ \A z \in S : z \in Int
    OBVIOUS
  <2>2. \A z \in S : z <= x => z <= y /\ z # y
    BY <1>5, <2>1
  <2>3. below(x) \cup {y} \subseteq below(y) /\ y \notin below(x)
    <3>1. \A z \in below(x) : z \in below(y) /\ z # y
      BY <2>2
    <3>2. y \in below(y)
      BY <2>1
    <3> HIDE DEF below
    <3> QED
      BY <3>1, <3>2
  <2> HIDE DEF below
  <2>4. Cardinality(below(x) \cup {y}) = Cardinality(below(x)) + 1
    BY <1>2, <2>3, FS_AddElement
  <2>5. Cardinality(below(x) \cup {y}) <= Cardinality(below(y))
    BY <1>2, <2>3, FS_Subset
  <2> QED
    BY <1>1, <1>2, <2>4, <2>5
<1> QED
  BY <1>3, <1>4, <1>5

\* Every place is taken, by one member.
LEMMA PlaceTaken ==
    ASSUME NEW S, S \subseteq Int, IsFiniteSet(S), NEW n \in 1..Cardinality(S)
    PROVE  /\ \E x \in S : Place(S, x) = n
           /\ \A x, y \in S : Place(S, x) = Place(S, y) => x = y
<1> DEFINE f == [x \in S |-> Place(S, x)]
           T == 1..Cardinality(S)
<1>1. /\ Cardinality(S) \in Nat
      /\ \A x \in S : Place(S, x) \in T
      /\ \A x, y \in S : x < y => Place(S, x) < Place(S, y)
  BY PlaceGrows
<1>2. ASSUME NEW x \in S, NEW y \in S, Place(S, x) = Place(S, y) PROVE x = y
  <2>1. x \in Int /\ y \in Int /\ Place(S, x) \in Int
    BY <1>1
  <2>2. ~(x < y) /\ ~(y < x)
    BY <1>1, <1>2, <2>1
  <2> QED
    BY <2>1, <2>2
<1>3. f \in Injection(S, T)
  BY <1>1, <1>2 DEF Injection, IsInjective
<1>4. IsFiniteSet(T) /\ Cardinality(T) = Cardinality(S)
  BY <1>1, FS_Interval
<1>5. f \in Surjection(S, T)
  <2> HIDE DEF f, T
  <2> QED
    BY <1>3, <1>4, FS_Injection
<1>6. \E x \in S : f[x] = n
  BY <1>5 DEF Surjection
<1> QED
  BY <1>2, <1>6

=============================================================================
