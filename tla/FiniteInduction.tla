-------------------------- MODULE FiniteInduction --------------------------
(***************************************************************************)
(* Induction without an operator as a parameter: a set of numbers has a    *)
(* least one, some finite sets a smallest one, a sum over a finite set may *)
(* be taken in any order, by section and under other names, and a fold     *)
(* from the left is a run of its steps.                                    *)
(***************************************************************************)
EXTENDS Integers, Sequences, FiniteSets, FiniteSetTheorems, WellFoundedInduction, TLAPS

Below == {p \in Nat \X Nat : p[1] < p[2]}

(* What every induction of the project rests on. *)
LEMMA LeastNumber ==
  ASSUME NEW T \in SUBSET Nat, T # {}
  PROVE  \E x \in T : \A y \in T : x <= y
  <1>1. OpToRel(<, Nat) = Below
    BY Zenon DEF OpToRel, Below
  <1>2. IsWellFoundedOn(Below, Nat)
    BY NatLessThanWellFounded, <1>1, Zenon
  <1>3. PICK x \in T : \A y \in T : ~ (<<y, x>> \in Below)
    BY <1>2, WFMin, Zenon
  <1>4. ASSUME NEW y \in T PROVE x <= y
    <2>1. x \in Nat /\ y \in Nat
      OBVIOUS
    <2>2. ~(y < x)
      BY <1>3, <2>1 DEF Below
    <2> QED
      BY <2>1, <2>2
  <1> QED
    BY <1>4

(* Of some finite sets one has the fewest elements. *)
LEMMA SmallestSet ==
  ASSUME NEW S, IsFiniteSet(S), NEW K \in SUBSET (SUBSET S), K # {}
  PROVE  \E T \in K : \A U \in K : Cardinality(T) <= Cardinality(U)
  <1> DEFINE N == {Cardinality(T) : T \in K}
  <1>1. N \in SUBSET Nat /\ N # {}
    BY FS_Subset, FS_CardinalityType
  <1>2. PICK n \in N : \A i \in N : n <= i
    BY <1>1, LeastNumber
  <1> QED
    BY <1>2

LEMMA OneLess ==
  ASSUME NEW T, IsFiniteSet(T), NEW x \in T
  PROVE  /\ IsFiniteSet(T \ {x}) /\ Cardinality(T) \in Nat /\ Cardinality(T \ {x}) \in Nat
         /\ Cardinality(T \ {x}) < Cardinality(T)
         /\ Cardinality(T \ {x}) = Cardinality(T) - 1
  BY FS_RemoveElement, FS_CardinalityType, SMTT(40)

(* The choice that MapThenSumSet makes. *)
AnyOf(s) == CHOOSE x \in s : TRUE

SumStep(w, f, s) == IF s = {} THEN 0 ELSE w[AnyOf(s)] + f[s \ {AnyOf(s)}]

(* f is the sum of w over the parts of S, as a fold defines it: a recursive
   function, of which nothing but CHOOSE says that there is one. *)
SumsUp(w, f, S) == f = [s \in SUBSET S |-> SumStep(w, f, s)]

(* There is one: by induction on how many elements the parts have. *)
LEMMA SumsExist ==
  ASSUME NEW S, IsFiniteSet(S), NEW w, \A x \in S : w[x] \in Nat
  PROVE  \E f \in [SUBSET S -> Nat] : SumsUp(w, f, S)
  <1> DEFINE Upto(n) == {T \in SUBSET S : Cardinality(T) <= n}
             Sums(n, f) == f \in [Upto(n) -> Nat] /\ \A T \in Upto(n) : f[T] = SumStep(w, f, T)
             N == {n \in Nat : ~(\E f : Sums(n, f))}
  <1>1. \A T \in SUBSET S : IsFiniteSet(T) /\ Cardinality(T) \in Nat
    BY FS_Subset, FS_CardinalityType
  <1>2. \A T \in SUBSET S : T # {} => AnyOf(T) \in T
    BY DEF AnyOf
  <1>3. N = {}
    <2> SUFFICES ASSUME N # {} PROVE FALSE
      OBVIOUS
    <2>1. PICK n \in N : \A i \in N : n <= i
      BY LeastNumber
    <2>2. n # 0
      <3>1. ASSUME NEW T \in Upto(0) PROVE T = {}
        <4>1. Cardinality(T) = 0
          BY <1>1
        <4> QED
          BY <1>1, <4>1, FS_EmptySet
      <3> DEFINE z == [T \in Upto(0) |-> 0]
      <3>2. Sums(0, z)
        BY <3>1 DEF SumStep
      <3> QED
        BY <3>2
    <2>a. n \in Nat
      BY <2>1
    <2>b. n - 1 \in Nat /\ ~(n <= n - 1)
      BY ONLY <2>2, <2>a
    <2>3. n - 1 \in Nat /\ n - 1 \notin N
      BY <2>1, <2>b
    <2>4. PICK f : Sums(n - 1, f)
      BY <2>3
    <2> DEFINE g == [T \in Upto(n) |-> SumStep(w, f, T)]
    <2>5. ASSUME NEW T \in Upto(n), T # {}
          PROVE  AnyOf(T) \in S /\ T \ {AnyOf(T)} \in Upto(n - 1)
      <3>1. AnyOf(T) \in T /\ IsFiniteSet(T)
        BY <1>1, <1>2, <2>5
      <3>2. Cardinality(T \ {AnyOf(T)}) = Cardinality(T) - 1 /\ Cardinality(T) \in Nat
        BY <3>1, OneLess
      <3>3. Cardinality(T) <= n
        OBVIOUS
      <3>4. Cardinality(T \ {AnyOf(T)}) <= n - 1
        BY <3>2, <3>3
      <3> QED
        BY <3>1, <3>4
    <2>6. ASSUME NEW T \in Upto(n) PROVE SumStep(w, f, T) \in Nat
      BY <2>4, <2>5 DEF SumStep
    <2>7. \A T \in Upto(n - 1) : T \in Upto(n) /\ g[T] = f[T]
      BY <1>1, <2>3, <2>4
    <2>8. ASSUME NEW T \in Upto(n) PROVE g[T] = SumStep(w, g, T)
      BY <2>5, <2>7 DEF SumStep
    <2>9. Sums(n, g)
      BY <2>6, <2>8
    <2> QED
      BY <2>1, <2>9
  <1>4. Cardinality(S) \in Nat /\ Upto(Cardinality(S)) = SUBSET S
    BY <1>1, FS_Subset
  <1>5. PICK f : Sums(Cardinality(S), f)
    BY <1>3, <1>4
  <1> QED
    BY <1>4, <1>5 DEF SumsUp

(* There is one only. *)
LEMMA SumsAgree ==
  ASSUME NEW S, IsFiniteSet(S), NEW w, NEW f, SumsUp(w, f, S), NEW R \in SUBSET S, NEW g, SumsUp(w, g, R)
  PROVE  \A T \in SUBSET R : g[T] = f[T]
  <1> DEFINE K == {T \in SUBSET R : g[T] # f[T]}
  <1> SUFFICES ASSUME K # {} PROVE FALSE
    OBVIOUS
  <1>1. IsFiniteSet(R)
    BY FS_Subset
  <1>2. PICK T \in K : \A U \in K : Cardinality(T) <= Cardinality(U)
    BY <1>1, SmallestSet
  <1>3. T \in SUBSET R /\ T \in SUBSET S /\ g[T] = SumStep(w, g, T) /\ f[T] = SumStep(w, f, T)
    BY <1>2 DEF SumsUp
  <1>4. T # {}
    BY <1>2, <1>3 DEF SumStep
  <1>5. AnyOf(T) \in T
    BY <1>4 DEF AnyOf
  <1> DEFINE U == T \ {AnyOf(T)}
  <1>6. ~(Cardinality(T) <= Cardinality(U))
    <2>1. IsFiniteSet(T)
      BY <1>1, <1>3, FS_Subset
    <2>2. Cardinality(U) < Cardinality(T) /\ Cardinality(U) \in Nat /\ Cardinality(T) \in Nat
      BY <1>5, <2>1, OneLess
    <2> QED
      BY <2>2
  <1>7. U \in SUBSET R /\ U \notin K
    BY <1>2, <1>3, <1>6
  <1>8. g[U] = f[U]
    BY <1>7
  <1> QED
    BY <1>2, <1>3, <1>4, <1>8 DEF SumStep

(* f takes from a set its elements one by one, in whatever order. *)
Additive(w, f, S) ==
  /\ f \in [SUBSET S -> Nat] /\ f[{}] = 0
  /\ \A T \in SUBSET S : \A x \in T : f[T] = w[x] + f[T \ {x}]

(* A fold's sum is additive. *)
LEMMA SumIs ==
  ASSUME NEW S, IsFiniteSet(S), NEW w, \A x \in S : w[x] \in Nat
  PROVE  \E f : Additive(w, f, S) /\ \A T \in SUBSET S : f[T] = (CHOOSE g : SumsUp(w, g, T))[T]
  <1>1. PICK f \in [SUBSET S -> Nat] : SumsUp(w, f, S)
    BY SumsExist
  <1>2. f[{}] = 0
    BY <1>1 DEF SumsUp, SumStep
  <1>3. ASSUME NEW T \in SUBSET S PROVE f[T] = (CHOOSE g : SumsUp(w, g, T))[T]
    <2>1. IsFiniteSet(T) /\ \A x \in T : w[x] \in Nat
      BY FS_Subset
    <2>2. \E g : SumsUp(w, g, T)
      BY <2>1, SumsExist
    <2>3. SumsUp(w, CHOOSE g : SumsUp(w, g, T), T)
      BY <2>2
    <2> QED
      BY <1>1, <2>3, SumsAgree
  <1> DEFINE Odd(T) == \E x \in T : f[T] # w[x] + f[T \ {x}]
             K == {T \in SUBSET S : Odd(T)}
  <1>4. K = {}
    <2> SUFFICES ASSUME K # {} PROVE FALSE
      OBVIOUS
    <2>1. PICK T \in K : \A U \in K : Cardinality(T) <= Cardinality(U)
      BY SmallestSet, ZenonT(60)
    <2>2. T \in SUBSET S /\ Odd(T)
      BY <2>1
    <2>3. PICK x \in T : f[T] # w[x] + f[T \ {x}]
      BY <2>2
    <2> DEFINE y == AnyOf(T)
               U == T \ {y}
    <2>4. y \in T
      BY <2>3 DEF AnyOf
    <2>5. f[T] = w[y] + f[U]
      BY <1>1, <2>2, <2>3 DEF SumsUp, SumStep
    <2>6. IsFiniteSet(T) /\ IsFiniteSet(U) /\ IsFiniteSet(T \ {x})
      BY <2>2, FS_Subset
    <2>7. U \in SUBSET S /\ U \notin K /\ T \ {x} \in SUBSET S /\ T \ {x} \notin K
      <3>1. /\ Cardinality(U) < Cardinality(T) /\ Cardinality(T \ {x}) < Cardinality(T)
            /\ Cardinality(U) \in Nat /\ Cardinality(T) \in Nat /\ Cardinality(T \ {x}) \in Nat
        BY <2>3, <2>4, <2>6, OneLess
      <3>2. ~(Cardinality(T) <= Cardinality(U)) /\ ~(Cardinality(T) <= Cardinality(T \ {x}))
        BY <3>1
      <3> QED
        BY <2>1, <2>2, <3>2
    <2>8. x # y
      BY <2>3, <2>5
    <2>9. f[U] = w[x] + f[U \ {x}]
      BY <2>3, <2>7, <2>8
    <2>10. f[T \ {x}] = w[y] + f[(T \ {x}) \ {y}]
      BY <2>4, <2>7, <2>8
    <2>11. (T \ {x}) \ {y} = U \ {x} /\ U \ {x} \in SUBSET S
      BY <2>2
    <2>12. w[x] \in Nat /\ w[y] \in Nat /\ f[U \ {x}] \in Nat
      BY <1>1, <2>2, <2>3, <2>4, <2>11
    <2> DEFINE i == w[x]
               j == w[y]
               k == f[U \ {x}]
    <2>13. i \in Nat /\ j \in Nat /\ k \in Nat
      BY <2>12
    <2>14. f[T] = j + (i + k) /\ f[T \ {x}] = j + k
      BY <2>5, <2>9, <2>10, <2>11
    <2> HIDE DEF i, j, k
    <2>15. f[T] = i + f[T \ {x}]
      BY <2>13, <2>14
    <2> QED
      BY <2>3, <2>15 DEF i
  <1>5. \A T \in SUBSET S : \A x \in T : f[T] = w[x] + f[T \ {x}]
    BY <1>4
  <1> QED
    BY <1>1, <1>2, <1>3, <1>5 DEF Additive

(* A set weighs no less than a part of it. *)
LEMMA SumGrows ==
  ASSUME NEW S, IsFiniteSet(S), NEW w, \A x \in S : w[x] \in Nat, NEW f, Additive(w, f, S),
         NEW A \in SUBSET S
  PROVE  \A B \in SUBSET S : A \subseteq B => f[A] <= f[B]
  <1> DEFINE K == {B \in SUBSET S : A \subseteq B /\ ~(f[A] <= f[B])}
  <1> SUFFICES ASSUME K # {} PROVE FALSE
    OBVIOUS
  <1>1. PICK B \in K : \A U \in K : Cardinality(B) <= Cardinality(U)
    <2>1. K \in SUBSET (SUBSET S) /\ K # {}
      OBVIOUS
    <2> HIDE DEF K
    <2> QED
      BY <2>1, SmallestSet
  <1>2. B \in SUBSET S /\ A \subseteq B /\ ~(f[A] <= f[B])
    BY <1>1
  <1>3. f[A] \in Nat /\ f[B] \in Nat
    BY <1>2 DEF Additive
  <1>4. PICK x \in B : x \notin A
    <2>1. A # B
      BY <1>2, <1>3
    <2> QED
      BY <1>2, <2>1
  <1> DEFINE U == B \ {x}
  <1>5. ~(Cardinality(B) <= Cardinality(U))
    <2>1. IsFiniteSet(B)
      BY <1>2, FS_Subset
    <2>2. Cardinality(U) < Cardinality(B) /\ Cardinality(U) \in Nat /\ Cardinality(B) \in Nat
      BY <1>4, <2>1, OneLess
    <2> QED
      BY <2>2
  <1>6. U \in SUBSET S /\ A \subseteq U /\ U \notin K
    BY <1>1, <1>2, <1>4, <1>5
  <1>7. f[A] <= f[U] /\ f[B] = w[x] + f[U] /\ w[x] \in Nat /\ f[U] \in Nat
    BY <1>2, <1>4, <1>6 DEF Additive
  <1> QED
    BY <1>2, <1>3, <1>7

(* A finite set of numbers has a greatest one. *)
LEMMA GreatestNumber ==
  ASSUME NEW S \in SUBSET Nat, IsFiniteSet(S), S # {}
  PROVE  \E x \in S : \A y \in S : x >= y
  <1> DEFINE Tops(U) == \E x \in U : \A y \in U : x >= y
             K == {U \in SUBSET S : U # {} /\ ~Tops(U)}
  <1> SUFFICES ASSUME K # {} PROVE FALSE
    OBVIOUS
  <1>1. PICK U \in K : \A T \in K : Cardinality(U) <= Cardinality(T)
    <2>1. K \in SUBSET (SUBSET S) /\ K # {}
      OBVIOUS
    <2> HIDE DEF K
    <2> QED
      BY <2>1, SmallestSet
  <1>2. U \in SUBSET S /\ U # {} /\ ~Tops(U)
    BY <1>1
  <1>3. PICK x \in U : TRUE
    BY <1>2
  <1>4. U \ {x} \notin K
    <2>1. IsFiniteSet(U)
      BY <1>2, FS_Subset
    <2>2. /\ Cardinality(U \ {x}) < Cardinality(U)
          /\ Cardinality(U \ {x}) \in Nat /\ Cardinality(U) \in Nat
      BY <2>1, OneLess
    <2>3. ~(Cardinality(U) <= Cardinality(U \ {x}))
      BY ONLY <2>2
    <2> QED
      BY <1>1, <2>3
  <1>5. U \ {x} = {} \/ Tops(U \ {x})
    BY <1>2, <1>4
  <1>6. CASE U \ {x} = {}
    <2>1. \A y \in U : x >= y
      BY <1>2, <1>6
    <2> QED
      BY <1>2, <2>1
  <1>7. CASE Tops(U \ {x})
    <2>1. PICK m \in U \ {x} : \A y \in U \ {x} : m >= y
      BY <1>7
    <2>2. m \in Nat /\ x \in Nat /\ \A y \in U : y \in Nat
      BY <1>2
    <2>3. CASE m >= x
      BY <1>2, <2>1, <2>2, <2>3
    <2>4. CASE x >= m
      BY <1>2, <2>1, <2>2, <2>4
    <2> QED
      BY <2>2, <2>3, <2>4
  <1> QED
    BY <1>5, <1>6, <1>7

-----------------------------------------------------------------------------
(* Sums of the same weights, by section and under other names. *)

(* What adds up is the sum that a fold defines. *)
LEMMA FoldedIs ==
  ASSUME NEW S, IsFiniteSet(S), NEW w, NEW f, Additive(w, f, S), NEW R \in SUBSET S, NEW g, SumsUp(w, g, R)
  PROVE  g[R] = f[R]
  <1> DEFINE K == {T \in SUBSET R : g[T] # f[T]}
  <1> SUFFICES ASSUME K # {} PROVE FALSE
    OBVIOUS
  <1>1. IsFiniteSet(R)
    BY FS_Subset
  <1>2. PICK T \in K : \A U \in K : Cardinality(T) <= Cardinality(U)
    BY <1>1, SmallestSet
  <1>3. T \in SUBSET R /\ T \in SUBSET S /\ g[T] # f[T] /\ g[T] = SumStep(w, g, T)
    BY <1>2 DEF SumsUp
  <1>4. T # {}
    BY <1>3 DEF SumStep, Additive
  <1> DEFINE x == AnyOf(T)
             U == T \ {x}
  <1>5. x \in T
    BY <1>4 DEF AnyOf
  <1>6. ~(Cardinality(T) <= Cardinality(U))
    <2>1. IsFiniteSet(T)
      BY <1>1, <1>3, FS_Subset
    <2>2. Cardinality(U) < Cardinality(T) /\ Cardinality(U) \in Nat /\ Cardinality(T) \in Nat
      BY <1>5, <2>1, OneLess
    <2> QED
      BY <2>2
  <1>7. U \in SUBSET R /\ U \notin K
    BY <1>2, <1>3, <1>6
  <1>8. g[U] = f[U]
    BY <1>7
  <1>9. g[T] = w[x] + g[U]
    BY <1>3, <1>4 DEF SumStep
  <1>10. f[T] = w[x] + f[U]
    BY <1>3, <1>5 DEF Additive
  <1> QED
    BY <1>3, <1>8, <1>9, <1>10

LEMMA AdditiveOnPart ==
  ASSUME NEW S, NEW w, NEW f, Additive(w, f, S), NEW T \in SUBSET S, NEW x \in T
  PROVE  f[T] = w[x] + f[T \ {x}]
  BY DEF Additive

(* Two sets without a common element weigh together what each weighs. *)
LEMMA SumOfBoth ==
  ASSUME NEW S, IsFiniteSet(S), NEW w, \A x \in S : w[x] \in Nat, NEW f, Additive(w, f, S),
         NEW A \in SUBSET S, NEW B \in SUBSET S, A \cap B = {}
  PROVE  f[A \cup B] = f[A] + f[B]
  <1> DEFINE K == {T \in SUBSET B : f[A \cup T] # f[A] + f[T]}
  <1> SUFFICES ASSUME K # {} PROVE FALSE
    OBVIOUS
  <1>1. IsFiniteSet(B)
    BY FS_Subset
  <1>2. PICK T \in K : \A U \in K : Cardinality(T) <= Cardinality(U)
    <2>1. K \in SUBSET (SUBSET B) /\ K # {}
      OBVIOUS
    <2> HIDE DEF K
    <2> QED
      BY <1>1, <2>1, SmallestSet
  <1>3. T \in SUBSET B /\ f[A \cup T] # f[A] + f[T]
    BY <1>2
  <1>4. f[A] \in Nat /\ f[{}] = 0
    BY DEF Additive
  <1>5. T # {}
    <2> SUFFICES ASSUME T = {} PROVE FALSE
      OBVIOUS
    <2>1. A \cup T = A
      OBVIOUS
    <2>2. f[A] = f[A] + f[T]
      BY <1>4
    <2> QED
      BY <1>3, <2>1, <2>2
  <1>6. PICK x \in T : TRUE
    BY <1>5
  <1> DEFINE U == T \ {x}
  <1>7. ~(Cardinality(T) <= Cardinality(U))
    <2>1. IsFiniteSet(T)
      BY <1>1, <1>3, FS_Subset
    <2>2. Cardinality(U) < Cardinality(T) /\ Cardinality(U) \in Nat /\ Cardinality(T) \in Nat
      BY <1>6, <2>1, OneLess
    <2> QED
      BY <2>2
  <1>8. U \in SUBSET B /\ U \notin K
    BY <1>2, <1>3, <1>7
  <1>9. f[A \cup U] = f[A] + f[U]
    BY <1>8
  <1>10. f[T] = w[x] + f[U]
    <2>1. T \in SUBSET S
      BY <1>3
    <2> QED
      BY <2>1, AdditiveOnPart
  <1>11. f[A \cup T] = w[x] + f[A \cup U]
    <2> DEFINE V == A \cup T
    <2>1. V \in SUBSET S /\ x \in V /\ V \ {x} = A \cup U
      BY <1>3
    <2> HIDE DEF V
    <2>2. f[V] = w[x] + f[V \ {x}]
      BY <2>1, AdditiveOnPart
    <2> QED
      BY <2>1, <2>2 DEF V
  <1>12. w[x] \in Nat /\ f[U] \in Nat
    <2>1. U \in SUBSET S /\ x \in S
      BY <1>3
    <2> QED
      BY <2>1 DEF Additive
  <1> DEFINE i1 == w[x]
             i2 == f[U]
             i3 == f[A]
  <1>13. i1 \in Nat /\ i2 \in Nat /\ i3 \in Nat /\ f[T] = i1 + i2 /\ f[A \cup T] = i1 + (i3 + i2)
    BY <1>4, <1>9, <1>10, <1>11, <1>12
  <1> HIDE DEF i1, i2, i3
  <1>14. f[A \cup T] = i3 + f[T]
    BY <1>13
  <1> QED
    BY <1>3, <1>14 DEF i3

(* f weighs the parts of the finite set S, whose elements weigh w. *)
Weighing(w, f, S) == IsFiniteSet(S) /\ (\A x \in S : w[x] \in Nat) /\ Additive(w, f, S)

(* v gives the share of each of the sections G in A, whose elements lab assigns. *)
Shares(v, G, lab, A, f) ==
  /\ \A x \in A : lab[x] \in G
  /\ \A g \in G : v[g] = f[{x \in A : lab[x] = g}]

(* The shares of the sections of A add up to A's. *)
LEMMA SumBySection ==
  ASSUME NEW S, NEW w, NEW f, Weighing(w, f, S), NEW A \in SUBSET S,
         NEW v, NEW G, NEW lab, Shares(v, G, lab, A, f), NEW h, Weighing(v, h, G)
  PROVE  h[G] = f[A]
  <1> USE DEF Weighing, Shares
  <1> DEFINE In2(H) == {x \in A : lab[x] \in H}
             K == {H \in SUBSET G : h[H] # f[In2(H)]}
  <1>1. K = {}
    <2> SUFFICES ASSUME K # {} PROVE FALSE
      OBVIOUS
    <2>1. PICK H \in K : \A U \in K : Cardinality(H) <= Cardinality(U)
      <3>1. K \in SUBSET (SUBSET G) /\ K # {}
        OBVIOUS
      <3> HIDE DEF K
      <3> QED
        BY <3>1, SmallestSet
    <2>2. H \in SUBSET G /\ h[H] # f[In2(H)]
      BY <2>1
    <2>3. H # {}
      <3>1. In2({}) = {}
        OBVIOUS
      <3>2. h[{}] = 0 /\ f[{}] = 0
        BY DEF Additive
      <3> QED
        BY <2>2, <3>1, <3>2
    <2>4. PICK g \in H : TRUE
      BY <2>3
    <2> DEFINE U == H \ {g}
               A1 == {x \in A : lab[x] = g}
               A2 == In2(U)
    <2>5. ~(Cardinality(H) <= Cardinality(U))
      <3>1. IsFiniteSet(H)
        BY <2>2, FS_Subset
      <3>2. Cardinality(U) < Cardinality(H) /\ Cardinality(U) \in Nat /\ Cardinality(H) \in Nat
        BY <2>4, <3>1, OneLess
      <3> QED
        BY <3>2
    <2>6. U \in SUBSET G /\ h[U] = f[A2]
      BY <2>1, <2>2, <2>5
    <2>7. h[H] = v[g] + h[U]
      BY <2>2, AdditiveOnPart
    <2>8. v[g] = f[A1]
      BY <2>2
    <2>9. A1 \in SUBSET S /\ A2 \in SUBSET S /\ A1 \cap A2 = {} /\ In2(H) = A1 \cup A2
      BY <2>2
    <2> HIDE DEF A1, A2
    <2>10. f[A1 \cup A2] = f[A1] + f[A2]
      <3>1. \A A3, A4 \in SUBSET S : A3 \cap A4 = {} => f[A3 \cup A4] = f[A3] + f[A4]
        BY SumOfBoth
      <3> QED
        BY <2>9, <3>1
    <2> QED
      BY <2>2, <2>6, <2>7, <2>8, <2>9, <2>10
  <1>2. In2(G) = A
    OBVIOUS
  <1> QED
    BY <1>1, <1>2

(* n renames what G holds and v weighs to what R holds and w weighs. *)
Renames(n, G, v, R, w) ==
  /\ \A g \in G : n[g] \in R /\ w[n[g]] = v[g]
  /\ \A x, y \in G : n[x] = n[y] => x = y
  /\ R = {n[g] : g \in G}

(* A sum does not depend on the names of what is summed. *)
LEMMA SumRenamed ==
  ASSUME NEW v, NEW h, NEW G, Weighing(v, h, G), NEW w, NEW f, NEW R, Weighing(w, f, R),
         NEW n, Renames(n, G, v, R, w)
  PROVE  f[R] = h[G]
  <1> USE DEF Weighing, Renames
  <1> DEFINE Named(H) == {n[g] : g \in H}
             K == {H \in SUBSET G : f[Named(H)] # h[H]}
  <1>1. K = {}
    <2> SUFFICES ASSUME K # {} PROVE FALSE
      OBVIOUS
    <2>1. PICK H \in K : \A U \in K : Cardinality(H) <= Cardinality(U)
      <3>1. K \in SUBSET (SUBSET G) /\ K # {}
        OBVIOUS
      <3> HIDE DEF K
      <3> QED
        BY <3>1, SmallestSet
    <2>2. H \in SUBSET G /\ f[Named(H)] # h[H]
      BY <2>1
    <2>3. H # {}
      <3>1. Named({}) = {}
        OBVIOUS
      <3>2. h[{}] = 0 /\ f[{}] = 0
        BY DEF Additive
      <3> QED
        BY <2>2, <3>1, <3>2
    <2>4. PICK g \in H : TRUE
      BY <2>3
    <2> DEFINE U == H \ {g}
    <2>5. ~(Cardinality(H) <= Cardinality(U))
      <3>1. IsFiniteSet(H)
        BY <2>2, FS_Subset
      <3>2. Cardinality(U) < Cardinality(H) /\ Cardinality(U) \in Nat /\ Cardinality(H) \in Nat
        BY <2>4, <3>1, OneLess
      <3> QED
        BY <3>2
    <2>6. U \in SUBSET G /\ f[Named(U)] = h[U]
      BY <2>1, <2>2, <2>5
    <2>7. h[H] = v[g] + h[U]
      BY <2>2, AdditiveOnPart
    <2>8. Named(H) \in SUBSET R /\ n[g] \in Named(H) /\ Named(H) \ {n[g]} = Named(U)
      BY <2>2
    <2>9. f[Named(H)] = w[n[g]] + f[Named(U)]
      <3> DEFINE V == Named(H)
                 x == n[g]
      <3>1. V \in SUBSET R /\ x \in V /\ V \ {x} = Named(U)
        BY <2>8
      <3> HIDE DEF V, x
      <3>2. f[V] = w[x] + f[V \ {x}]
        BY <3>1 DEF Additive
      <3> QED
        BY <3>1, <3>2 DEF V, x
    <2> QED
      BY <2>2, <2>6, <2>7, <2>9
  <1>2. Named(G) = R
    OBVIOUS
  <1> QED
    BY <1>1, <1>2

-----------------------------------------------------------------------------
(* Folds from the left. *)

(* The greatest number of a finite set, which a fold from the left takes last. *)
Top(T) == CHOOSE x \in T : \A y \in T : x >= y

LEMMA TopIs ==
  ASSUME NEW T \in SUBSET Nat, IsFiniteSet(T), T # {}
  PROVE  Top(T) \in T /\ \A y \in T : Top(T) >= y
  BY GreatestNumber DEF Top

(* op, a function of what has been folded and what comes next. *)
FoldStep(op, base, s, f, T) == IF T = {} THEN base ELSE op[<<f[T \ {Top(T)}], s[Top(T)]>>]

(* A fold from the left, over any part of a sequence. *)
FoldsUp(op, base, s, f, S) == \A T \in SUBSET S : f[T] = FoldStep(op, base, s, f, T)

(* Every fold is defined on every part. *)
LEMMA FoldsExist ==
  ASSUME NEW S \in SUBSET Nat, IsFiniteSet(S), NEW A, NEW C, NEW s, \A x \in S : s[x] \in C,
         NEW base \in A, NEW op \in [A \X C -> A]
  PROVE  \E f \in [SUBSET S -> A] : FoldsUp(op, base, s, f, S)
  <1> DEFINE Upto(n) == {T \in SUBSET S : Cardinality(T) <= n}
             Folds(n, f) == f \in [Upto(n) -> A] /\ \A T \in Upto(n) : f[T] = FoldStep(op, base, s, f, T)
             N == {n \in Nat : ~(\E f : Folds(n, f))}
  <1>1. \A T \in SUBSET S : IsFiniteSet(T) /\ Cardinality(T) \in Nat
    BY FS_Subset, FS_CardinalityType
  <1>2. \A T \in SUBSET S : T # {} => Top(T) \in T
    BY <1>1, TopIs
  <1>3. N = {}
    <2> SUFFICES ASSUME N # {} PROVE FALSE
      OBVIOUS
    <2>1. PICK n \in N : \A i \in N : n <= i
      BY LeastNumber
    <2>2. n # 0
      <3>1. ASSUME NEW T \in Upto(0) PROVE T = {}
        <4>1. Cardinality(T) = 0
          BY <1>1
        <4> QED
          BY <1>1, <4>1, FS_EmptySet
      <3> DEFINE z == [T \in Upto(0) |-> base]
      <3>2. Folds(0, z)
        BY <3>1 DEF FoldStep
      <3> HIDE DEF Folds, z
      <3>3. 0 \notin N
        BY <3>2
      <3> QED
        BY <3>3
    <2>a. n \in Nat
      BY <2>1
    <2>b. n - 1 \in Nat /\ ~(n <= n - 1)
      BY ONLY <2>2, <2>a
    <2>3. n - 1 \in Nat /\ n - 1 \notin N
      BY <2>1, <2>b
    <2>4. PICK f : Folds(n - 1, f)
      BY <2>3
    <2> DEFINE g == [T \in Upto(n) |-> FoldStep(op, base, s, f, T)]
    <2>5. ASSUME NEW T \in Upto(n), T # {}
          PROVE  Top(T) \in S /\ T \ {Top(T)} \in Upto(n - 1)
      <3>1. Top(T) \in T /\ IsFiniteSet(T)
        BY <1>1, <1>2, <2>5
      <3>2. Cardinality(T \ {Top(T)}) = Cardinality(T) - 1 /\ Cardinality(T) \in Nat
        BY <3>1, OneLess
      <3>3. Cardinality(T) <= n
        OBVIOUS
      <3>4. Cardinality(T \ {Top(T)}) <= n - 1
        BY <3>2, <3>3, <2>a
      <3> QED
        BY <3>1, <3>4
    <2>6. ASSUME NEW T \in Upto(n) PROVE FoldStep(op, base, s, f, T) \in A
      <3>1. CASE T = {}
        BY <3>1 DEF FoldStep
      <3>2. CASE T # {}
        <4>1. f[T \ {Top(T)}] \in A /\ s[Top(T)] \in C
          BY <2>4, <2>5, <3>2
        <4> QED
          BY <4>1, <3>2 DEF FoldStep
      <3> QED
        BY <3>1, <3>2
    <2>7. \A T \in Upto(n - 1) : T \in Upto(n) /\ g[T] = f[T]
      BY <1>1, <2>3, <2>4, <2>a
    <2>8. ASSUME NEW T \in Upto(n) PROVE g[T] = FoldStep(op, base, s, g, T)
      BY <2>5, <2>7 DEF FoldStep
    <2>9. Folds(n, g)
      BY <2>6, <2>8
    <2> QED
      BY <2>1, <2>9
  <1>4. Cardinality(S) \in Nat /\ Upto(Cardinality(S)) = SUBSET S
    BY <1>1, FS_Subset
  <1>5. PICK f : Folds(Cardinality(S), f)
    BY <1>3, <1>4
  <1> QED
    BY <1>4, <1>5 DEF FoldsUp

(* A function that folds as f does, one element after the other, is f. *)
LEMMA FoldsAgree ==
  ASSUME NEW S \in SUBSET Nat, IsFiniteSet(S), NEW f, NEW g, g[{}] = f[{}],
         \A T \in SUBSET S : T # {} /\ g[T \ {Top(T)}] = f[T \ {Top(T)}] => g[T] = f[T]
  PROVE  g[S] = f[S]
  <1> DEFINE K == {T \in SUBSET S : g[T] # f[T]}
  <1> SUFFICES ASSUME K # {} PROVE FALSE
    OBVIOUS
  <1>1. PICK T \in K : \A U \in K : Cardinality(T) <= Cardinality(U)
    <2>1. K \in SUBSET (SUBSET S) /\ K # {}
      OBVIOUS
    <2> HIDE DEF K
    <2> QED
      BY <2>1, SmallestSet
  <1>2. T \in SUBSET S /\ T # {} /\ g[T] # f[T]
    BY <1>1
  <1>3. IsFiniteSet(T) /\ Top(T) \in T
    BY <1>2, FS_Subset, TopIs
  <1> DEFINE U == T \ {Top(T)}
  <1>4. ~(Cardinality(T) <= Cardinality(U))
    <2>1. Cardinality(U) < Cardinality(T) /\ Cardinality(U) \in Nat /\ Cardinality(T) \in Nat
      BY <1>3, OneLess
    <2> QED
      BY <2>1
  <1>5. U \in SUBSET S /\ U \notin K
    BY <1>1, <1>2, <1>4
  <1> QED
    BY <1>2, <1>5

(* f folds every part of s, and p[k] is what its first k elements come to. *)
Folding(op, base, s, f, p) ==
  /\ f[{}] = base
  /\ \A T \in SUBSET DOMAIN s : T # {} =>
       /\ Top(T) \in DOMAIN s /\ T \ {Top(T)} \in SUBSET DOMAIN s
       /\ f[T] = op[<<f[T \ {Top(T)}], s[Top(T)]>>]
  /\ p[0] = base
  /\ \A k \in 1 .. Len(s) : p[k] = op[<<p[k - 1], s[k]>>]
  /\ p[Len(s)] = f[DOMAIN s]

LEMMA FoldIs ==
  ASSUME NEW A, NEW C, NEW s \in Seq(C), NEW base \in A, NEW op \in [A \X C -> A]
  PROVE  \E f \in [SUBSET DOMAIN s -> A], p \in [0 .. Len(s) -> A] : Folding(op, base, s, f, p)
  <1> DEFINE n == Len(s)
             S == 1 .. n
  <1>1. n \in Nat /\ DOMAIN s = S /\ IsFiniteSet(S) /\ S \in SUBSET Nat /\ \A x \in S : s[x] \in C
    BY FS_Interval
  <1> HIDE DEF S
  <1>2. PICK f \in [SUBSET S -> A] : FoldsUp(op, base, s, f, S)
    BY <1>1, FoldsExist
  <1>3. f[{}] = base
    BY <1>2 DEF FoldStep, FoldsUp
  <1>4. ASSUME NEW T \in SUBSET S, T # {}
        PROVE  /\ Top(T) \in S /\ T \ {Top(T)} \in SUBSET S
               /\ f[T] = op[<<f[T \ {Top(T)}], s[Top(T)]>>]
    <2>1. T \in SUBSET Nat /\ IsFiniteSet(T)
      BY <1>1, FS_Subset
    <2>2. Top(T) \in T
      BY <2>1, <1>4, TopIs
    <2> QED
      BY <1>2, <1>4, <2>2 DEF FoldStep, FoldsUp
  <1> DEFINE p == [k \in 0 .. n |-> f[1 .. k]]
  <1>5. p \in [0 .. n -> A]
    <2>1. ASSUME NEW k \in 0 .. n PROVE f[1 .. k] \in A
      <3>1. 1 .. k \in SUBSET S
        BY <1>1 DEF S
      <3> QED
        BY <3>1, <1>2
    <2> QED
      BY <2>1
  <1>6. p[0] = base
    <2>1. 1 .. 0 = {} /\ 0 \in 0 .. n
      BY <1>1
    <2> QED
      BY <2>1, <1>3
  <1>7. ASSUME NEW k \in 1 .. n PROVE p[k] = op[<<p[k - 1], s[k]>>]
    <2>1. 1 .. k \in SUBSET S /\ 1 .. k # {} /\ k \in 0 .. n /\ k - 1 \in 0 .. n
      BY <1>1 DEF S
    <2>2. Top(1 .. k) = k
      <3>1. 1 .. k \in SUBSET Nat /\ IsFiniteSet(1 .. k)
        BY <2>1, <1>1, FS_Interval
      <3>2. Top(1 .. k) \in 1 .. k /\ \A y \in 1 .. k : Top(1 .. k) >= y
        BY <3>1, <2>1, TopIs
      <3>3. k \in 1 .. k /\ k \in Nat
        BY <2>1
      <3> QED
        BY <3>2, <3>3
    <2>3. (1 .. k) \ {k} = 1 .. (k - 1)
      BY <2>1
    <2>4. f[1 .. k] = op[<<f[1 .. (k - 1)], s[k]>>]
      BY <1>4, <2>1, <2>2, <2>3
    <2> QED
      BY <2>1, <2>4
  <1>8. p[n] = f[S]
    BY <1>1 DEF S
  <1> HIDE DEF p
  <1>9. f \in [SUBSET DOMAIN s -> A]
    BY <1>1, <1>2
  <1> QED
    BY <1>1, <1>3, <1>4, <1>5, <1>6, <1>7, <1>8, <1>9 DEF Folding
=============================================================================
