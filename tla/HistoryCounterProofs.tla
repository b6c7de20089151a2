------------------------ MODULE HistoryCounterProofs ------------------------
(***************************************************************************)
(* A history counter answers exactly, tells nothing after its time and     *)
(* nothing twice, keeps its interval the sum of its slots and dumps in     *)
(* order, for every length of the interval, every batch and every number   *)
(* of dumpers.                                                             *)
(*                                                                         *)
(* The first part is about sums over finite sets.  Induction is done with  *)
(* sets of numbers: a set of numbers that is not empty has a smallest one. *)
(***************************************************************************)
EXTENDS HistoryCounter, FiniteSetTheorems, WellFoundedInduction, TLAPS

-----------------------------------------------------------------------------
(* Induction.                                                              *)

(* Every set of natural numbers that is not empty has a smallest one.      *)
LEMMA Smallest ==
  ASSUME NEW T, T \subseteq Nat, T # {}
  PROVE  \E x \in T : \A y \in T : x <= y
<1> DEFINE R == {p \in Nat \X Nat : p[1] < p[2]}
<1>1. IsWellFoundedOn(R, Nat)
  BY NatLessThanWellFounded DEF OpToRel
<1> HIDE DEF R
<1>2. PICK x \in T : \A y \in T : ~ (<<y, x>> \in R)
  BY <1>1, WFMin
<1>3. ASSUME NEW y \in T PROVE x <= y
  <2>1. x \in Nat /\ y \in Nat
    OBVIOUS
  <2>2. ~ (<<y, x>> \in R)
    BY <1>2
  <2> QED BY <2>1, <2>2 DEF R
<1> QED BY <1>3

(* What holds of 0, and of the next number whenever of a number, holds of  *)
(* all.                                                                    *)
LEMMA Counting ==
  ASSUME NEW F, 0 \in F, \A n \in Nat : n \in F => n + 1 \in F
  PROVE  Nat \subseteq F
<1> DEFINE Out == {n \in Nat : n \notin F}
<1> SUFFICES ASSUME Out # {} PROVE FALSE
  OBVIOUS
<1>1. PICK n \in Out : \A m \in Out : n <= m
  BY Smallest
<1>2. n # 0 /\ n - 1 \in Nat /\ n - 1 \notin Out
  BY <1>1
<1> QED BY <1>1, <1>2

(* The same for finite sets: what holds of the empty set, and of T with one*)
(* more member whenever of T, holds of S.                                  *)
LEMMA FiniteByAdding ==
  ASSUME NEW S, IsFiniteSet(S), NEW F, {} \in F,
         \A T \in SUBSET S : \A x \in S \ T : T \in F => T \cup {x} \in F
  PROVE  S \in F
<1> DEFINE K == {n \in Nat : \A T \in SUBSET S : IsFiniteSet(T) /\ Cardinality(T) = n => T \in F}
<1>1. 0 \in K
  BY FS_EmptySet
<1>2. ASSUME NEW n \in Nat, n \in K PROVE n + 1 \in K
  <2> SUFFICES ASSUME NEW T \in SUBSET S, IsFiniteSet(T), Cardinality(T) = n + 1 PROVE T \in F
    OBVIOUS
  <2>1. PICK x \in T : TRUE
    BY FS_EmptySet
  <2>2. IsFiniteSet(T \ {x}) /\ Cardinality(T \ {x}) = n
    <3>1. IsFiniteSet(T \ {x}) /\ Cardinality(T \ {x}) = Cardinality(T) - 1
      BY FS_RemoveElement
    <3> QED BY <3>1
  <2>3. T \ {x} \in F
    BY <1>2, <2>2
  <2>4. (T \ {x}) \cup {x} = T /\ x \in S \ (T \ {x}) /\ T \ {x} \in SUBSET S
    OBVIOUS
  <2> QED BY <2>3, <2>4
<1>3. Nat \subseteq K
  <2> HIDE DEF K
  <2> QED BY <1>1, <1>2, Counting
<1> QED BY <1>3, FS_CardinalityType

-----------------------------------------------------------------------------
(* Sums of batches.                                                        *)

Leq(a, b) == a.count <= b.count /\ a.summ <= b.summ

LEMMA PlusFacts ==
  ASSUME NEW a \in Sums, NEW b \in Sums, NEW c \in Sums
  PROVE  /\ Zero \in Sums /\ Plus(a, b) \in Sums
         /\ Plus(a, b) = Plus(b, a)
         /\ Plus(a, Plus(b, c)) = Plus(b, Plus(a, c))
         /\ Plus(a, Zero) = a /\ Minus(a, Zero) = a
         /\ Minus(Plus(a, b), a) = b
BY DEF Sums, Zero, Plus, Minus

LEMMA LeqFacts ==
  ASSUME NEW a \in Sums, NEW b \in Sums, NEW c \in Sums, NEW d \in Sums
  PROVE  /\ Leq(a, a) /\ Leq(Zero, a) /\ Leq(a, Plus(b, a))
         /\ Leq(a, b) /\ Leq(b, a) => a = b
         /\ Leq(a, b) /\ Leq(b, c) => Leq(a, c)
         /\ Leq(a, b) /\ Leq(c, d) => Leq(Plus(a, c), Plus(b, d))
BY DEF Sums, Zero, Plus, Leq

Some(T) == CHOOSE x \in T : TRUE

(* The sum is taken member by member.                                      *)
LEMMA SumIsRecursive ==
  ASSUME NEW S, IsFiniteSet(S), NEW f
  PROVE  \E g : /\ g = [T \in SUBSET S |-> IF T = {} THEN Zero
                                            ELSE Plus(f[Some(T)], g[T \ {Some(T)}])]
                /\ SumOver(f, S) = g[S]
<1> DEFINE Step(g, T) == IF T = {} THEN Zero ELSE Plus(f[Some(T)], g[T \ {Some(T)}])
           Good(g, n) == \A T \in SUBSET S : Cardinality(T) <= n => g[T] = Step(g, T)
           F == {n \in Nat : \E g : g = [T \in SUBSET S |-> g[T]] /\ Good(g, n)}
<1>1. SumOver(f, S) = (CHOOSE g : g = [T \in SUBSET S |-> Step(g, T)])[S]
  BY Zenon DEF SumOver, MapThenFoldSet, Some
<1>2. \A T \in SUBSET S : IsFiniteSet(T) /\ Cardinality(T) \in Nat /\ Cardinality(T) <= Cardinality(S)
  BY FS_Subset, FS_CardinalityType
<1>3. ASSUME NEW T \in SUBSET S, T # {}
      PROVE  T \ {Some(T)} \in SUBSET S /\ Cardinality(T \ {Some(T)}) = Cardinality(T) - 1
  <2>1. Some(T) \in T
    BY <1>3 DEF Some
  <2> QED BY <1>2, <2>1, FS_RemoveElement
<1>4. 0 \in F
  <2> DEFINE g == [T \in SUBSET S |-> Zero]
  <2>1. \A T \in SUBSET S : Cardinality(T) <= 0 => T = {}
    BY <1>2, FS_EmptySet
  <2>2. Good(g, 0) /\ g = [T \in SUBSET S |-> g[T]]
    BY <2>1
  <2> QED BY <2>2
<1>5. ASSUME NEW n \in Nat, n \in F PROVE n + 1 \in F
  <2>1. PICK g : g = [T \in SUBSET S |-> g[T]] /\ Good(g, n)
    BY <1>5
  <2> DEFINE h == [T \in SUBSET S |-> IF Cardinality(T) <= n THEN g[T] ELSE Step(g, T)]
  <2>2. ASSUME NEW T \in SUBSET S, Cardinality(T) <= n + 1 PROVE h[T] = Step(h, T)
    <3>1. h[T] = Step(g, T)
      BY <2>1
    <3>2. T # {} => h[T \ {Some(T)}] = g[T \ {Some(T)}]
      BY <1>2, <1>3, <2>2
    <3> QED BY <3>1, <3>2
  <2>3. h = [T \in SUBSET S |-> h[T]]
    OBVIOUS
  <2> HIDE DEF h
  <2>4. Good(h, n + 1)
    BY <2>2
  <2> HIDE DEF Good
  <2> QED BY <2>3, <2>4
<1>6. Nat \subseteq F
  <2> HIDE DEF F
  <2> QED BY <1>4, <1>5, Counting
<1>7. PICK g : g = [T \in SUBSET S |-> g[T]] /\ Good(g, Cardinality(S))
  BY <1>2, <1>6
<1>8. g = [T \in SUBSET S |-> Step(g, T)]
  BY <1>2, <1>7
<1> HIDE DEF Step
<1>9. \E h : h = [T \in SUBSET S |-> Step(h, T)]
  BY <1>8
<1> DEFINE h == CHOOSE h : h = [T \in SUBSET S |-> Step(h, T)]
<1>10. h = [T \in SUBSET S |-> Step(h, T)]
  BY <1>9
<1> QED BY <1>1, <1>10 DEF Step

LEMMA SumOfNone ==
  ASSUME NEW f
  PROVE  SumOver(f, {}) = Zero
<1>1. PICK g : /\ g = [T \in SUBSET {} |-> IF T = {} THEN Zero ELSE Plus(f[Some(T)], g[T \ {Some(T)}])]
               /\ SumOver(f, {}) = g[{}]
  BY FS_EmptySet, SumIsRecursive
<1> QED BY <1>1

LEMMA SumBySome ==
  ASSUME NEW S, IsFiniteSet(S), S # {}, NEW f
  PROVE  SumOver(f, S) = Plus(f[Some(S)], SumOver(f, S \ {Some(S)}))
<1> DEFINE R == S \ {Some(S)}
<1>1. R \in SUBSET S /\ IsFiniteSet(R)
  BY FS_Subset
<1>2. PICK g : /\ g = [T \in SUBSET S |-> IF T = {} THEN Zero ELSE Plus(f[Some(T)], g[T \ {Some(T)}])]
               /\ SumOver(f, S) = g[S]
  BY SumIsRecursive
<1>3. PICK h : /\ h = [T \in SUBSET R |-> IF T = {} THEN Zero ELSE Plus(f[Some(T)], h[T \ {Some(T)}])]
               /\ SumOver(f, R) = h[R]
  BY <1>1, SumIsRecursive
<1> DEFINE K == {n \in Nat : \A T \in SUBSET R : Cardinality(T) = n => g[T] = h[T]}
<1> HIDE DEF R
<1>4. \A T \in SUBSET R : IsFiniteSet(T) /\ Cardinality(T) \in Nat /\ T \in SUBSET S
  BY <1>1, FS_Subset, FS_CardinalityType
<1>5. 0 \in K
  <2> SUFFICES ASSUME NEW T \in SUBSET R, Cardinality(T) = 0 PROVE g[T] = h[T]
    OBVIOUS
  <2>1. T = {}
    BY <1>4, FS_EmptySet
  <2> QED BY <1>2, <1>3, <1>4, <2>1
<1>6. ASSUME NEW n \in Nat, n \in K PROVE n + 1 \in K
  <2> SUFFICES ASSUME NEW T \in SUBSET R, Cardinality(T) = n + 1 PROVE g[T] = h[T]
    OBVIOUS
  <2>1. T # {} /\ Some(T) \in T
    BY <1>4, FS_EmptySet DEF Some
  <2>2. T \ {Some(T)} \in SUBSET R /\ Cardinality(T \ {Some(T)}) = n
    <3>1. Cardinality(T \ {Some(T)}) = Cardinality(T) - 1
      BY <1>4, <2>1, FS_RemoveElement
    <3> QED BY <3>1
  <2>3. g[T \ {Some(T)}] = h[T \ {Some(T)}]
    BY <1>6, <2>2
  <2>4. g[T] = Plus(f[Some(T)], g[T \ {Some(T)}])
    BY <1>2, <1>4, <2>1
  <2>5. h[T] = Plus(f[Some(T)], h[T \ {Some(T)}])
    BY <1>3, <2>1
  <2> QED BY <2>3, <2>4, <2>5
<1>7. Nat \subseteq K
  <2> HIDE DEF K
  <2> QED BY <1>5, <1>6, Counting
<1>8. g[R] = h[R]
  BY <1>4, <1>7
<1>9. g[S] = Plus(f[Some(S)], g[R])
  BY <1>2 DEF R
<1> QED BY <1>2, <1>3, <1>8, <1>9 DEF R

LEMMA SumType ==
  ASSUME NEW S, IsFiniteSet(S), NEW f, \A y \in S : f[y] \in Sums
  PROVE  SumOver(f, S) \in Sums
<1> DEFINE K == {n \in Nat : \A T \in SUBSET S : Cardinality(T) = n => SumOver(f, T) \in Sums}
<1>1. \A T \in SUBSET S : IsFiniteSet(T) /\ Cardinality(T) \in Nat
  BY FS_Subset, FS_CardinalityType
<1>2. 0 \in K
  <2> SUFFICES ASSUME NEW T \in SUBSET S, Cardinality(T) = 0 PROVE SumOver(f, T) \in Sums
    OBVIOUS
  <2>1. T = {}
    BY <1>1, FS_EmptySet
  <2> QED BY <2>1, SumOfNone DEF Sums, Zero
<1>3. ASSUME NEW n \in Nat, n \in K PROVE n + 1 \in K
  <2> SUFFICES ASSUME NEW T \in SUBSET S, Cardinality(T) = n + 1 PROVE SumOver(f, T) \in Sums
    OBVIOUS
  <2> DEFINE R == T \ {Some(T)}
  <2>1. T # {} /\ Some(T) \in T
    BY <1>1, FS_EmptySet DEF Some
  <2>2. Cardinality(R) = Cardinality(T) - 1
    BY <1>1, <2>1, FS_RemoveElement
  <2>3. SumOver(f, R) \in Sums
    BY <1>3, <2>2
  <2>4. SumOver(f, T) = Plus(f[Some(T)], SumOver(f, R))
    BY <1>1, <2>1, SumBySome
  <2> QED BY <2>1, <2>3, <2>4, PlusFacts
<1>4. Nat \subseteq K
  <2> HIDE DEF K
  <2> QED BY <1>2, <1>3, Counting
<1> QED BY <1>1, <1>4

(* In whichever order.                                                     *)
LEMMA SumByAny ==
  ASSUME NEW S, IsFiniteSet(S), NEW f, \A y \in S : f[y] \in Sums, NEW x \in S
  PROVE  SumOver(f, S) = Plus(f[x], SumOver(f, S \ {x}))
<1> DEFINE P(T) == \A y \in T : SumOver(f, T) = Plus(f[y], SumOver(f, T \ {y}))
           K == {n \in Nat : \A T \in SUBSET S : Cardinality(T) = n => P(T)}
<1>1. \A T \in SUBSET S : IsFiniteSet(T) /\ Cardinality(T) \in Nat
  BY FS_Subset, FS_CardinalityType
<1>2. 0 \in K
  <2> SUFFICES ASSUME NEW T \in SUBSET S, Cardinality(T) = 0 PROVE P(T)
    OBVIOUS
  <2> QED BY <1>1, FS_EmptySet
<1>3. ASSUME NEW n \in Nat, n \in K PROVE n + 1 \in K
  <2> SUFFICES ASSUME NEW T \in SUBSET S, Cardinality(T) = n + 1,
                      NEW y \in T
               PROVE  SumOver(f, T) = Plus(f[y], SumOver(f, T \ {y}))
    OBVIOUS
  <2> DEFINE c == Some(T)
             U == (T \ {c}) \ {y}
  <2>1. T # {} /\ c \in T
    BY DEF Some
  <2>2. SumOver(f, T) = Plus(f[c], SumOver(f, T \ {c}))
    BY <1>1, <2>1, SumBySome
  <2> HIDE DEF c
  <2>3. ASSUME NEW z \in T PROVE P(T \ {z})
    <3>1. Cardinality(T \ {z}) = Cardinality(T) - 1
      BY <1>1, FS_RemoveElement
    <3> QED BY <1>3, <3>1
  <2>4. CASE y # c
    <3>1. U = (T \ {y}) \ {c} /\ y \in T \ {c} /\ c \in T \ {y}
      BY <2>1, <2>4
    <3>2. SumOver(f, T \ {c}) = Plus(f[y], SumOver(f, U)) /\ SumOver(f, T \ {y}) = Plus(f[c], SumOver(f, U))
      BY <2>1, <2>3, <3>1
    <3>3. SumOver(f, U) \in Sums
      BY <1>1, SumType
    <3>4. f[c] \in Sums /\ f[y] \in Sums
      BY <2>1
    <3>5. Plus(f[c], Plus(f[y], SumOver(f, U))) = Plus(f[y], Plus(f[c], SumOver(f, U)))
      <4> DEFINE a == f[c]
                 b == f[y]
                 u == SumOver(f, U)
      <4> HIDE DEF a, b, u, U
      <4>1. a \in Sums /\ b \in Sums /\ u \in Sums
        BY ONLY <3>3, <3>4 DEF a, b, u
      <4>2. Plus(a, Plus(b, u)) = Plus(b, Plus(a, u))
        BY ONLY <4>1, PlusFacts
      <4> QED BY ONLY <4>2 DEF a, b, u
    <3> QED BY <2>2, <3>2, <3>5
  <2> QED BY <2>2, <2>4
<1>4. Nat \subseteq K
  <2> HIDE DEF K
  <2> QED BY <1>2, <1>3, Counting
<1> QED BY <1>1, <1>4

LEMMA SumWithOneMore ==
  ASSUME NEW T, IsFiniteSet(T), NEW x, x \notin T,
         NEW f, \A y \in T \cup {x} : f[y] \in Sums
  PROVE  SumOver(f, T \cup {x}) = Plus(f[x], SumOver(f, T))
<1>1. (T \cup {x}) \ {x} = T /\ IsFiniteSet(T \cup {x})
  BY FS_AddElement
<1> QED BY <1>1, SumByAny

(* Only the values on S matter.                                            *)
LEMMA SumOfTheSame ==
  ASSUME NEW S, IsFiniteSet(S), NEW f, NEW g,
         \A x \in S : f[x] \in Sums /\ g[x] = f[x]
  PROVE  SumOver(g, S) = SumOver(f, S)
<1> DEFINE F == {T \in SUBSET S : SumOver(g, T) = SumOver(f, T)}
<1>1. {} \in F
  BY SumOfNone
<1>2. ASSUME NEW T \in SUBSET S, NEW x \in S \ T, T \in F PROVE T \cup {x} \in F
  <2>1. SumOver(g, T \cup {x}) = Plus(g[x], SumOver(g, T))
    BY FS_Subset, SumWithOneMore
  <2>2. SumOver(f, T \cup {x}) = Plus(f[x], SumOver(f, T))
    BY FS_Subset, SumWithOneMore
  <2> QED BY <1>2, <2>1, <2>2
<1>3. S \in F
  <2> HIDE DEF F
  <2> QED BY <1>1, <1>2, FiniteByAdding
<1> QED BY <1>3

(* Part by part.                                                           *)
LEMMA SumOfTwoParts ==
  ASSUME NEW S, IsFiniteSet(S), NEW A \in SUBSET S, NEW f, \A x \in S : f[x] \in Sums
  PROVE  SumOver(f, S) = Plus(SumOver(f, A), SumOver(f, S \ A))
<1> DEFINE B == S \ A
           F == {T \in SUBSET B : SumOver(f, A \cup T) = Plus(SumOver(f, A), SumOver(f, T))}
<1>1. IsFiniteSet(A) /\ IsFiniteSet(B) /\ SumOver(f, A) \in Sums
  BY FS_Subset, SumType
<1>2. {} \in F
  <2>1. A \cup {} = A
    OBVIOUS
  <2> QED BY <1>1, <2>1, SumOfNone, PlusFacts
<1>3. ASSUME NEW T \in SUBSET B, NEW x \in B \ T, T \in F PROVE T \cup {x} \in F
  <2>1. /\ IsFiniteSet(T) /\ IsFiniteSet(A \cup T) /\ x \notin A \cup T
        /\ A \cup (T \cup {x}) = (A \cup T) \cup {x}
        /\ A \cup T \cup {x} \subseteq S
    BY <1>1, FS_Subset
  <2>2. SumOver(f, A \cup (T \cup {x})) = Plus(f[x], SumOver(f, A \cup T))
    BY <2>1, SumWithOneMore
  <2>3. SumOver(f, T \cup {x}) = Plus(f[x], SumOver(f, T))
    BY <2>1, SumWithOneMore
  <2>4. SumOver(f, T) \in Sums /\ f[x] \in Sums
    BY <2>1, SumType
  <2>5. Plus(f[x], Plus(SumOver(f, A), SumOver(f, T))) = Plus(SumOver(f, A), Plus(f[x], SumOver(f, T)))
    BY <1>1, <2>4, PlusFacts
  <2> QED BY <1>3, <2>2, <2>3, <2>5
<1>4. B \in F
  <2> HIDE DEF F, B
  <2> QED BY <1>1, <1>2, <1>3, FiniteByAdding
<1>5. A \cup B = S
  OBVIOUS
<1> QED BY <1>4, <1>5

(* What is put into different boxes, one to each, at most fills them all.  *)
LEMMA SumInBoxes ==
  ASSUME NEW S, IsFiniteSet(S), NEW f, \A x \in S : f[x] \in Sums,
         NEW W, IsFiniteSet(W), NEW g, \A y \in W : g[y] \in Sums,
         NEW box, \A x \in S : box[x] \in W /\ Leq(f[x], g[box[x]]),
         \A x, y \in S : box[x] = box[y] => x = y
  PROVE  Leq(SumOver(f, S), SumOver(g, W))
<1> DEFINE Boxes(T) == {box[x] : x \in T}
           F == {T \in SUBSET S : Leq(SumOver(f, T), SumOver(g, Boxes(T)))}
<1>1. \A T \in SUBSET S : IsFiniteSet(T) /\ Boxes(T) \in SUBSET W /\ IsFiniteSet(Boxes(T))
  BY FS_Subset
<1>2. \A T \in SUBSET S : SumOver(f, T) \in Sums /\ SumOver(g, Boxes(T)) \in Sums
  BY <1>1, SumType
<1>3. {} \in F
  <2>1. Boxes({}) = {}
    OBVIOUS
  <2>2. SumOver(f, {}) = Zero /\ SumOver(g, {}) = Zero
    BY SumOfNone
  <2>3. Leq(Zero, Zero)
    BY DEF Leq, Zero
  <2> HIDE DEF Boxes
  <2> QED BY <2>1, <2>2, <2>3
<1>4. ASSUME NEW T \in SUBSET S, NEW x \in S \ T, T \in F PROVE T \cup {x} \in F
  <2>1. Boxes(T \cup {x}) = Boxes(T) \cup {box[x]} /\ box[x] \notin Boxes(T)
    OBVIOUS
  <2>2. SumOver(f, T \cup {x}) = Plus(f[x], SumOver(f, T))
    BY <1>1, SumWithOneMore
  <2> HIDE DEF Boxes
  <2>3. SumOver(g, Boxes(T \cup {x})) = Plus(g[box[x]], SumOver(g, Boxes(T)))
    BY <1>1, <2>1, SumWithOneMore
  <2>4. f[x] \in Sums /\ g[box[x]] \in Sums /\ Leq(f[x], g[box[x]])
    OBVIOUS
  <2> QED BY <1>2, <1>4, <2>2, <2>3, <2>4, LeqFacts
<1>5. S \in F
  <2> HIDE DEF F
  <2> QED BY <1>3, <1>4, FiniteByAdding
<1>6. SumOver(g, W) = Plus(SumOver(g, Boxes(S)), SumOver(g, W \ Boxes(S)))
  <2> HIDE DEF Boxes
  <2> QED BY <1>1, SumOfTwoParts
<1>7. SumOver(g, W \ Boxes(S)) \in Sums
  BY FS_Subset, SumType
<1>8. Leq(SumOver(g, Boxes(S)), SumOver(g, W))
  <2> HIDE DEF Boxes
  <2> QED BY <1>2, <1>6, <1>7, PlusFacts, LeqFacts
<1>9. SumOver(g, W) \in Sums
  BY SumType
<1> QED BY <1>2, <1>5, <1>8, <1>9, LeqFacts

LEMMA SumOfZeros ==
  ASSUME NEW S, IsFiniteSet(S), NEW f, \A x \in S : f[x] = Zero
  PROVE  SumOver(f, S) = Zero
<1> DEFINE F == {T \in SUBSET S : SumOver(f, T) = Zero}
<1>1. {} \in F
  BY SumOfNone
<1>2. ASSUME NEW T \in SUBSET S, NEW x \in S \ T, T \in F PROVE T \cup {x} \in F
  <2>1. Zero \in Sums /\ Plus(Zero, Zero) = Zero
    BY DEF Zero, Sums, Plus
  <2>2. /\ IsFiniteSet(T) /\ x \notin T
        /\ \A y \in T \cup {x} : f[y] = Zero
    BY FS_Subset
  <2>3. \A y \in T \cup {x} : f[y] \in Sums
    BY <2>1, <2>2
  <2>4. SumOver(f, T \cup {x}) = Plus(f[x], SumOver(f, T))
    BY <2>2, <2>3, SumWithOneMore
  <2> QED BY <1>2, <2>1, <2>2, <2>4
<1>3. S \in F
  <2> HIDE DEF F
  <2> QED BY <1>1, <1>2, FiniteByAdding
<1> QED BY <1>3

(* What is zero outside a part.                                            *)
LEMMA SumOfOnePart ==
  ASSUME NEW S, IsFiniteSet(S), NEW A \in SUBSET S, NEW f, \A x \in S : f[x] \in Sums,
         \A x \in S \ A : f[x] = Zero
  PROVE  SumOver(f, S) = SumOver(f, A)
<1>1. IsFiniteSet(A) /\ IsFiniteSet(S \ A)
  BY FS_Subset
<1>2. SumOver(f, S \ A) = Zero
  BY <1>1, SumOfZeros
<1>3. SumOver(f, A) \in Sums
  BY <1>1, SumType
<1>4. SumOver(f, S) = Plus(SumOver(f, A), SumOver(f, S \ A))
  BY SumOfTwoParts
<1> QED BY <1>2, <1>3, <1>4, PlusFacts

-----------------------------------------------------------------------------
(* The slots of the seconds.                                               *)

Lap == HistorySize + 1

LEMMA SlotsAreFinite == IsFiniteSet(Slots)
BY HistoryAssumption, FS_Interval DEF Slots

LEMMA Division ==
  ASSUME NEW s \in Int
  PROVE  /\ SlotOf(s) \in Slots
         /\ \E q \in Int : s = Lap * q + SlotOf(s)
<1> DEFINE M == Lap
<1>1. M \in Nat \ {0} /\ Slots = 0 .. M - 1 /\ SlotOf(s) = s % M
  BY HistoryAssumption DEF Slots, SlotOf, Lap
<1> HIDE DEF M
<1>2. s = M * (s \div M) + (s % M) /\ s % M \in 0 .. M - 1 /\ s \div M \in Int
  BY <1>1
<1> QED BY <1>1, <1>2 DEF M

LEMMA SmallMultiple ==
  ASSUME NEW m \in Nat, NEW q \in Int, m * q < m, - m < m * q
  PROVE  q = 0
OBVIOUS

LEMMA Multiples ==
  ASSUME NEW m \in Int, NEW p \in Int, NEW q \in Int
  PROVE  /\ m * p \in Int /\ m * (p - q) = m * p - m * q
         /\ m * (p + 1) = m * p + m /\ m * (p - 1) = m * p - m
OBVIOUS

LEMMA Remainders ==
  ASSUME NEW m \in Nat, NEW p \in Int, NEW q \in Int, NEW r \in Int, NEW u \in Int,
         NEW s \in Int, NEW t \in Int, s = m * p + r, t = m * q + u
  PROVE  /\ r = u /\ s - t < m /\ t - s < m => s = t
         /\ s = t /\ r - u < m /\ u - r < m => r = u
<1> DEFINE a == m * p
           b == m * q
<1>1. a \in Int /\ b \in Int /\ m * (p - q) = a - b /\ p - q \in Int
  BY Multiples
<1>2. a - b < m /\ - m < a - b => p - q = 0
  BY <1>1, SmallMultiple
<1>3. p - q = 0 => a = b
  OBVIOUS
<1>4. s = a + r /\ t = b + u
  OBVIOUS
<1> HIDE DEF a, b
<1> QED BY <1>1, <1>2, <1>3, <1>4

LEMMA SameRemainder ==
  ASSUME NEW m \in Nat, NEW p \in Int, NEW q \in Int, NEW r \in Int, NEW u \in Int,
         m * p + r = m * q + u, r - u < m, u - r < m
  PROVE  r = u
<1>1. m * p + r \in Int
  BY Multiples
<1> QED BY <1>1, Remainders

(* Two seconds less than a lap apart have two slots.                       *)
LEMMA SlotsApart ==
  ASSUME NEW s \in Int, NEW t \in Int, SlotOf(s) = SlotOf(t),
         s - t <= HistorySize, t - s <= HistorySize
  PROVE  s = t
<1>1. PICK p \in Int : s = Lap * p + SlotOf(s)
  BY Division
<1>2. PICK q \in Int : t = Lap * q + SlotOf(t)
  BY Division
<1>3. Lap \in Nat /\ s - t < Lap /\ t - s < Lap /\ SlotOf(s) \in Int /\ SlotOf(t) \in Int
  BY HistoryAssumption, Division DEF Lap, Slots
<1> HIDE DEF Lap
<1> QED BY ONLY <1>1, <1>2, <1>3, Remainders, SlotOf(s) = SlotOf(t)

LEMMA SlotIs ==
  ASSUME NEW s \in Int, NEW r \in Slots, \E q \in Int : s = Lap * q + r
  PROVE  SlotOf(s) = r
<1>1. PICK q \in Int : s = Lap * q + r
  OBVIOUS
<1>2. PICK p \in Int : s = Lap * p + SlotOf(s)
  BY Division
<1>3. /\ Lap \in Nat /\ SlotOf(s) \in Int /\ r \in Int
      /\ r - SlotOf(s) < Lap /\ SlotOf(s) - r < Lap
  BY HistoryAssumption, Division DEF Slots, Lap
<1> DEFINE u == SlotOf(s)
<1> HIDE DEF u
<1>4. s = Lap * p + u /\ u \in Int /\ r - u < Lap /\ u - r < Lap
  BY <1>2, <1>3 DEF u
<1>5. Lap * q + r = Lap * p + u
  BY <1>1, <1>4
<1>6. r = u
  BY ONLY <1>3, <1>4, <1>5, SameRemainder
<1> QED BY <1>6 DEF u

(* Within a lap every slot has its turn.                                   *)
LEMMA SlotsTurn ==
  ASSUME NEW i \in Slots, NEW c \in Int
  PROVE  \E s \in c + 1 .. c + Lap : SlotOf(s) = i
<1> DEFINE r == SlotOf(c + 1)
<1>1. r \in Slots /\ Lap \in Nat /\ r \in 0 .. Lap - 1 /\ i \in 0 .. Lap - 1
  BY HistoryAssumption, Division DEF Slots, Lap
<1>2. PICK q \in Int : c + 1 = Lap * q + r
  BY Division
<1> HIDE DEF r
<1> DEFINE a == Lap * q
<1>3. a \in Int /\ Lap * (q + 1) = a + Lap /\ c + 1 = a + r /\ q + 1 \in Int
  BY <1>1, <1>2, Multiples
<1>4. CASE r <= i
  <2> DEFINE s == c + 1 + (i - r)
  <2>1. s \in c + 1 .. c + Lap /\ s = a + i
    <3> HIDE DEF a
    <3> QED BY <1>1, <1>3, <1>4
  <2> HIDE DEF s
  <2>2. SlotOf(s) = i
    BY <2>1, SlotIs
  <2> QED BY <2>1, <2>2
<1>5. CASE r > i
  <2> DEFINE s == c + 1 + Lap - (r - i)
  <2>1. s \in c + 1 .. c + Lap /\ s = (a + Lap) + i
    <3> HIDE DEF a
    <3> QED BY <1>1, <1>3, <1>5
  <2> HIDE DEF s, a
  <2>2. \E p \in Int : s = Lap * p + i
    BY <1>3, <2>1
  <2>3. SlotOf(s) = i
    BY <2>1, <2>2, SlotIs
  <2> QED BY <2>1, <2>3
<1> QED BY <1>1, <1>4, <1>5

LEMMA SlotBefore ==
  ASSUME NEW s \in Int
  PROVE  lastSlot(SlotOf(s)) = SlotOf(s - 1)
<1> DEFINE r == SlotOf(s)
<1>1. r \in Slots /\ Lap \in Nat /\ r \in 0 .. Lap - 1 /\ HistorySize = Lap - 1
  BY HistoryAssumption, Division DEF Slots, Lap
<1>2. PICK q \in Int : s = Lap * q + r
  BY Division
<1> HIDE DEF r
<1> DEFINE a == Lap * q
<1>3. a \in Int /\ Lap * (q - 1) = a - Lap /\ s = a + r /\ q - 1 \in Int
  BY <1>1, <1>2, Multiples
<1>4. CASE r = 0
  <2>1. s - 1 = (a - Lap) + HistorySize /\ HistorySize \in Slots
    <3> HIDE DEF a
    <3> QED BY <1>1, <1>3, <1>4 DEF Slots
  <2>2. \E p \in Int : s - 1 = Lap * p + HistorySize
    BY <1>3, <2>1
  <2>3. SlotOf(s - 1) = HistorySize
    BY <2>1, <2>2, SlotIs
  <2> QED BY <2>3, <1>4 DEF lastSlot, r
<1>5. CASE r # 0
  <2>1. s - 1 = a + (r - 1) /\ r - 1 \in Slots
    <3> HIDE DEF a
    <3> QED BY <1>1, <1>3, <1>5 DEF Slots
  <2>2. SlotOf(s - 1) = r - 1
    BY <2>1, SlotIs
  <2> QED BY <2>2, <1>5 DEF lastSlot, r
<1> QED BY <1>4, <1>5

-----------------------------------------------------------------------------
(* The invariant.                                                          *)

In(a, second) == IF second \in DOMAIN a THEN a[second] ELSE Zero

(* Somebody has called at least once per interval: every slot has what was *)
(* added in its second.                                                    *)
ExactAt(r, index, second, a) ==
  /\ index = SlotOf(second)
  /\ \A s \in second - HistorySize .. second : r[SlotOf(s)] = In(a, s)

(* Always: a slot that is in use has one second of its own and not more    *)
(* than was added in it, and it has its turn within a lap of that second.  *)
(* After a long time without a call the second is not that of the slot.    *)
TimelyAt(r, index, second, a) ==
  \E live \in SUBSET Slots, home \in [Slots -> Int] :
    /\ index \in live /\ home[index] = second
    /\ \A i \in Slots \ live : r[i] = Zero
    /\ \A i, j \in live : home[i] = home[j] => i = j
    /\ \A i \in live : /\ home[i] <= second
                       /\ Leq(r[i], In(a, home[i]))
                       /\ \E turn \in second + 1 .. home[i] + Lap : SlotOf(turn) = i

NothingAhead == \A s \in DOMAIN added : s > current_rec => added[s] = Zero

(* What a dump was told of the interval is not above the total as it is, or*)
(* as the dump was told.                                                   *)
DumpOk(d, sums) ==
  ~ d.cleared =>
    /\ d.read >= 3 => d.value[<<"interval", "count">>] <= sums.count
    /\ d.read >= 4 => d.value[<<"interval", "summ">>] <= sums.summ
    /\ d.read >= 5 => d.value[<<"interval", "count">>] <= d.value[<<"total", "count">>]
    /\ d.read >= 6 => d.value[<<"interval", "summ">>] <= d.value[<<"total", "summ">>]

DumpInv == \A p \in Dumpers : DumpOk(dump[p], total)

RingInv ==
  /\ clock \in 0 .. MaxTime /\ current_rec \in 0 .. clock /\ rec_index \in Slots
  /\ recs \in [Slots -> Sums] /\ interval \in Sums /\ total \in Sums
  /\ added \in [0 .. MaxTime -> Sums] /\ abandoned \in BOOLEAN
  /\ IntervalIsSum
  /\ NothingAhead
  /\ ~ abandoned => ExactAt(recs, rec_index, current_rec, added)
  /\ TimelyAt(recs, rec_index, current_rec, added)
  /\ Leq(interval, total)

Dumps == [read : 0 .. 6, value : [Fields -> Nat], cleared : BOOLEAN]

DumpTypes == dump \in [Dumpers -> Dumps]

CounterInv == RingInv /\ DumpTypes /\ DumpInv

LEMMA CounterTypes == CounterInv => TypeOK
BY HistoryAssumption DEF CounterInv, RingInv, DumpTypes, Dumps, TypeOK

-----------------------------------------------------------------------------
(* What update makes of the ring.                                          *)

Late   == clock - current_rec > HistorySize
Passed == {SlotOf(s) : s \in current_rec + 1 .. clock}
Zeros  == [i \in Slots |-> Zero]

LEMMA UpdateIs ==
  /\ update.current_rec = clock
  /\ Late => update.recs = Zeros /\ update.interval = Zero /\ update.rec_index = rec_index
  /\ ~ Late => /\ update.recs = [i \in Slots |-> IF i \in Passed THEN Zero ELSE recs[i]]
               /\ update.interval = Minus(interval, SumOver(recs, Passed))
               /\ update.rec_index = IF clock = current_rec THEN rec_index ELSE SlotOf(clock)
BY DEF update, updateLate, updateStep, Late, Passed, Zeros

LEMMA PassedAreSlots ==
  ASSUME TypeOK
  PROVE  Passed \in SUBSET Slots /\ IsFiniteSet(Passed) /\ IsFiniteSet(Slots \ Passed)
<1>1. \A s \in current_rec + 1 .. clock : SlotOf(s) \in Slots
  BY Division DEF TypeOK
<1>2. Passed \in SUBSET Slots
  BY <1>1 DEF Passed
<1> QED BY <1>2, SlotsAreFinite, FS_Subset

LEMMA UpdateKeepsSum ==
  ASSUME TypeOK, IntervalIsSum
  PROVE  /\ update.recs \in [Slots -> Sums] /\ update.rec_index \in Slots
         /\ update.interval \in Sums /\ update.interval = SumOver(update.recs, Slots)
         /\ Leq(update.interval, interval)
<1>1. Zero \in Sums /\ interval \in Sums /\ recs \in [Slots -> Sums]
  BY DEF Zero, Sums, TypeOK
<1>2. CASE Late
  <2>1. Zeros \in [Slots -> Sums] /\ \A i \in Slots : Zeros[i] = Zero
    BY <1>1 DEF Zeros
  <2>2. SumOver(Zeros, Slots) = Zero
    BY <2>1, SlotsAreFinite, SumOfZeros
  <2>3. Leq(Zero, interval)
    BY <1>1, LeqFacts
  <2> QED BY <1>1, <1>2, <2>1, <2>2, <2>3, UpdateIs DEF TypeOK
<1>3. CASE ~ Late
  <2> DEFINE after  == [i \in Slots |-> IF i \in Passed THEN Zero ELSE recs[i]]
             gone   == SumOver(recs, Passed)
             rest   == SumOver(recs, Slots \ Passed)
  <2>1. after \in [Slots -> Sums] /\ \A i \in Passed : i \in Slots => after[i] = Zero
    BY <1>1
  <2>2. gone \in Sums /\ rest \in Sums
    BY <1>1, PassedAreSlots, SumType
  <2>3. interval = Plus(gone, rest)
    BY <1>1, PassedAreSlots, SlotsAreFinite, SumOfTwoParts DEF IntervalIsSum
  <2>4. SumOver(after, Slots \ Passed) = rest
    <3>1. \A i \in Slots \ Passed : recs[i] \in Sums /\ after[i] = recs[i]
      BY <1>1
    <3> HIDE DEF after
    <3> QED BY <3>1, PassedAreSlots, SumOfTheSame
  <2>5. SumOver(after, Slots) = SumOver(after, Slots \ Passed)
    <3>1. \A i \in Slots : after[i] \in Sums
      BY <2>1
    <3>2. \A i \in Slots \ (Slots \ Passed) : after[i] = Zero
      BY <2>1
    <3> HIDE DEF after
    <3> QED BY <3>1, <3>2, PassedAreSlots, SlotsAreFinite, SumOfOnePart
  <2>6. Minus(interval, gone) = rest /\ Leq(rest, interval)
    BY <2>2, <2>3, PlusFacts, LeqFacts
  <2>7. clock \in Int /\ SlotOf(clock) \in Slots /\ rec_index \in Slots
    BY Division DEF TypeOK
  <2> QED BY <1>3, <2>1, <2>2, <2>4, <2>5, <2>6, <2>7, UpdateIs
<1> QED BY <1>2, <1>3

LEMMA UpdateKeepsExact ==
  ASSUME TypeOK, NothingAhead, ~ Late, ExactAt(recs, rec_index, current_rec, added)
  PROVE  ExactAt(update.recs, update.rec_index, clock, added)
<1>1. update.rec_index = SlotOf(clock)
  BY UpdateIs DEF ExactAt
<1>2. HistorySize \in Nat /\ clock \in Nat /\ current_rec \in Nat /\ current_rec <= clock
      /\ clock - current_rec <= HistorySize
  BY HistoryAssumption DEF TypeOK, Late
<1>3. ASSUME NEW s \in clock - HistorySize .. clock PROVE update.recs[SlotOf(s)] = In(added, s)
  <2>1. s \in Int /\ SlotOf(s) \in Slots
    BY <1>2, Division
  <2>2. CASE s > current_rec
    <3>1. SlotOf(s) \in Passed
      BY <1>2, <2>2 DEF Passed
    <3>2. In(added, s) = Zero
      BY <2>2 DEF In, NothingAhead
    <3> QED BY <2>1, <3>1, <3>2, UpdateIs
  <2>3. CASE s <= current_rec
    <3>1. SlotOf(s) \notin Passed
      <4> SUFFICES ASSUME NEW t \in current_rec + 1 .. clock, SlotOf(t) = SlotOf(s) PROVE FALSE
        BY DEF Passed
      <4>1. t \in Int /\ s - t <= HistorySize /\ t - s <= HistorySize /\ s # t
        BY <1>2, <2>1, <2>3
      <4> QED BY <2>1, <4>1, SlotsApart
    <3>2. s \in current_rec - HistorySize .. current_rec
      BY <1>2, <2>1, <2>3
    <3> QED BY <2>1, <3>1, <3>2, UpdateIs DEF ExactAt
  <2> QED BY <1>2, <2>1, <2>2, <2>3
<1> QED BY <1>1, <1>3 DEF ExactAt

(* An empty ring, wherever it stands.                                      *)
LEMMA EmptyIsTimely ==
  ASSUME NEW index \in Slots, NEW second \in Nat, NEW a, \A s \in DOMAIN a : a[s] \in Sums
  PROVE  TimelyAt(Zeros, index, second, a)
<1> DEFINE home == [i \in Slots |-> second]
<1>1. {index} \in SUBSET Slots /\ home \in [Slots -> Int] /\ home[index] = second
  OBVIOUS
<1>2. \A i \in Slots : Zeros[i] = Zero
  BY DEF Zeros
<1>3. Leq(Zero, In(a, second))
  BY LeqFacts DEF In, Leq, Zero, Sums
<1>4. \E turn \in second + 1 .. home[index] + Lap : SlotOf(turn) = index
  BY <1>1, SlotsTurn
<1>5. /\ index \in {index}
      /\ \A i \in Slots \ {index} : Zeros[i] = Zero
      /\ \A i, j \in {index} : home[i] = home[j] => i = j
      /\ \A i \in {index} : /\ home[i] <= second
                            /\ Leq(Zeros[i], In(a, home[i]))
                            /\ \E turn \in second + 1 .. home[i] + Lap : SlotOf(turn) = i
  BY <1>1, <1>2, <1>3, <1>4
<1> HIDE DEF home
<1> QED BY <1>1, <1>5 DEF TimelyAt

LEMMA UpdateKeepsTimely ==
  ASSUME TypeOK, TimelyAt(recs, rec_index, current_rec, added)
  PROVE  TimelyAt(update.recs, update.rec_index, clock, added)
<1>1. /\ HistorySize \in Nat /\ clock \in Nat /\ current_rec \in Nat /\ current_rec <= clock
      /\ rec_index \in Slots /\ \A s \in DOMAIN added : added[s] \in Sums
      /\ SlotOf(clock) \in Slots
  <2>1. clock \in Nat /\ current_rec \in 0 .. clock /\ rec_index \in Slots
        /\ added \in [0 .. MaxTime -> Sums]
    BY DEF TypeOK
  <2>2. \A s \in DOMAIN added : added[s] \in Sums
    BY <2>1
  <2>3. HistorySize \in Nat /\ current_rec \in Nat /\ current_rec <= clock
    BY <2>1, HistoryAssumption
  <2>4. SlotOf(clock) \in Slots
    BY <2>1, Division
  <2> QED BY <2>1, <2>2, <2>3, <2>4
<1>2. CASE Late
  BY <1>1, <1>2, UpdateIs, EmptyIsTimely
<1>3. CASE ~ Late /\ clock = current_rec
  <2>1. Passed = {}
    BY <1>1, <1>3 DEF Passed
  <2>2. update.recs = recs /\ update.rec_index = rec_index
    BY <1>3, <2>1, UpdateIs DEF TypeOK
  <2> QED BY <1>3, <2>2
<1>4. CASE ~ Late /\ clock > current_rec
  <2> DEFINE k == SlotOf(clock)
             after == update.recs
  <2>1. PICK live \in SUBSET Slots, home \in [Slots -> Int] :
          /\ \A i \in Slots \ live : recs[i] = Zero
          /\ \A i, j \in live : home[i] = home[j] => i = j
          /\ \A i \in live : /\ home[i] <= current_rec
                             /\ Leq(recs[i], In(added, home[i]))
                             /\ \E turn \in current_rec + 1 .. home[i] + Lap : SlotOf(turn) = i
    BY DEF TimelyAt
  <2> DEFINE live2 == (live \ Passed) \cup {k}
             home2 == [home EXCEPT ![k] = clock]
  <2>2. k \in Passed /\ update.rec_index = k
    BY <1>1, <1>4, UpdateIs DEF Passed
  <2>3. \A i \in Slots : after[i] = IF i \in Passed THEN Zero ELSE recs[i]
    BY <1>4, UpdateIs
  <2>4. live2 \in SUBSET Slots /\ home2 \in [Slots -> Int] /\ k \in live2 /\ home2[k] = clock
        /\ \A i \in live2 : i = k \/ (i # k /\ i \in live /\ i \notin Passed /\ home2[i] = home[i])
    BY <1>1, <2>2
  <2>5. \A i \in Slots \ live2 : after[i] = Zero
    BY <2>1, <2>3
  <2>6. \A i \in live : home[i] \in Int /\ home[i] < clock
    BY <1>1, <1>4, <2>1
  <2>7. ASSUME NEW i \in live2
        PROVE  /\ home2[i] <= clock
               /\ Leq(after[i], In(added, home2[i]))
               /\ \E turn \in clock + 1 .. home2[i] + Lap : SlotOf(turn) = i
    <3>1. CASE i = k
      <4>1. after[i] = Zero /\ home2[i] = clock
        BY <1>1, <2>2, <2>3, <2>4, <3>1
      <4>2. Leq(Zero, In(added, clock))
        BY <1>1 DEF In, Leq, Zero, Sums
      <4>3. \E turn \in clock + 1 .. clock + Lap : SlotOf(turn) = i
        BY <1>1, <3>1, SlotsTurn
      <4> QED BY <1>1, <4>1, <4>2, <4>3
    <3>2. CASE i # k
      <4>1. i \in live /\ i \notin Passed /\ home2[i] = home[i] /\ i \in Slots
        BY <2>4, <3>2
      <4>2. after[i] = recs[i]
        BY <2>3, <4>1
      <4>3. PICK turn \in current_rec + 1 .. home[i] + Lap : SlotOf(turn) = i
        BY <2>1, <4>1
      <4>4. turn \notin current_rec + 1 .. clock
        BY <4>1, <4>3 DEF Passed
      <4>5. turn \in clock + 1 .. home[i] + Lap
        BY <1>1, <4>3, <4>4 DEF Lap
      <4>6. home[i] <= clock
        BY <2>6, <4>1, <1>1
      <4> QED BY <2>1, <4>1, <4>2, <4>3, <4>5, <4>6
    <3> QED BY <3>1, <3>2
  <2>8. \A i, j \in live2 : home2[i] = home2[j] => i = j
    BY <1>1, <2>1, <2>4, <2>6
  <2> HIDE DEF live2, home2, k, after
  <2>9. TimelyAt(after, k, clock, added)
    BY <2>4, <2>5, <2>7, <2>8 DEF TimelyAt
  <2> QED BY <2>2, <2>9 DEF after
<1> QED BY <1>1, <1>2, <1>3, <1>4

-----------------------------------------------------------------------------
(* What is added goes to one slot and to one second.                       *)

LEMMA AddKeepsSum ==
  ASSUME NEW r \in [Slots -> Sums], NEW k \in Slots, NEW b \in Sums
  PROVE  SumOver([r EXCEPT ![k] = Plus(r[k], b)], Slots) = Plus(SumOver(r, Slots), b)
<1> DEFINE r2   == [r EXCEPT ![k] = Plus(r[k], b)]
           rest == SumOver(r, Slots \ {k})
<1>1. r[k] \in Sums /\ r2[k] = Plus(r[k], b) /\ Plus(r[k], b) \in Sums
  BY PlusFacts
<1>2. \A i \in Slots : r2[i] \in Sums /\ (i # k => r2[i] = r[i])
  BY <1>1
<1>3. IsFiniteSet(Slots \ {k})
  BY SlotsAreFinite, FS_Subset
<1> HIDE DEF r2
<1>4. SumOver(r2, Slots \ {k}) = rest /\ rest \in Sums
  BY <1>2, <1>3, SumOfTheSame, SumType
<1>5. SumOver(r, Slots) = Plus(r[k], rest)
  BY SlotsAreFinite, SumByAny
<1>6. SumOver(r2, Slots) = Plus(Plus(r[k], b), rest)
  BY <1>1, <1>2, <1>4, SlotsAreFinite, SumByAny
<1>7. Plus(Plus(r[k], b), rest) = Plus(Plus(r[k], rest), b)
  BY <1>1, <1>4 DEF Plus, Sums
<1> QED BY <1>5, <1>6, <1>7 DEF r2

LEMMA AddKeepsExact ==
  ASSUME NEW r \in [Slots -> Sums], NEW k \in Slots, NEW b \in Sums,
         NEW c \in 0 .. MaxTime, NEW a \in [0 .. MaxTime -> Sums], ExactAt(r, k, c, a)
  PROVE  ExactAt([r EXCEPT ![k] = Plus(r[k], b)], k, c, [a EXCEPT ![c] = Plus(a[c], b)])
<1> DEFINE r2 == [r EXCEPT ![k] = Plus(r[k], b)]
           a2 == [a EXCEPT ![c] = Plus(a[c], b)]
<1>1. HistorySize \in Nat /\ MaxTime \in Nat /\ c \in Int /\ k = SlotOf(c)
  BY HistoryAssumption DEF ExactAt
<1>2. ASSUME NEW s \in c - HistorySize .. c PROVE r2[SlotOf(s)] = In(a2, s)
  <2>1. s \in Int /\ r[SlotOf(s)] = In(a, s)
    BY <1>1 DEF ExactAt
  <2>4. SlotOf(s) \in Slots
    BY <2>1, Division
  <2>2. CASE s = c
    BY <1>1, <2>1, <2>2 DEF In
  <2>3. CASE s # c
    <3>1. SlotOf(s) # k
      BY <1>1, <2>1, <2>3, SlotsApart
    <3> QED BY <2>1, <2>3, <2>4, <3>1 DEF In
  <2> QED BY <2>2, <2>3
<1> HIDE DEF r2, a2
<1>3. ExactAt(r2, k, c, a2)
  BY <1>1, <1>2 DEF ExactAt
<1> QED BY <1>3 DEF r2, a2

LEMMA AddKeepsTimely ==
  ASSUME NEW r \in [Slots -> Sums], NEW k \in Slots, NEW b \in Sums,
         NEW c \in 0 .. MaxTime, NEW a \in [0 .. MaxTime -> Sums], TimelyAt(r, k, c, a)
  PROVE  TimelyAt([r EXCEPT ![k] = Plus(r[k], b)], k, c, [a EXCEPT ![c] = Plus(a[c], b)])
<1> DEFINE r2 == [r EXCEPT ![k] = Plus(r[k], b)]
           a2 == [a EXCEPT ![c] = Plus(a[c], b)]
<1>1. PICK live \in SUBSET Slots, home \in [Slots -> Int] :
        /\ k \in live /\ home[k] = c
        /\ \A i \in Slots \ live : r[i] = Zero
        /\ \A i, j \in live : home[i] = home[j] => i = j
        /\ \A i \in live : /\ home[i] <= c
                           /\ Leq(r[i], In(a, home[i]))
                           /\ \E turn \in c + 1 .. home[i] + Lap : SlotOf(turn) = i
  BY DEF TimelyAt
<1>2. r2[k] = Plus(r[k], b) /\ \A i \in Slots : i # k => r2[i] = r[i]
  OBVIOUS
<1>3. a2[c] = Plus(a[c], b) /\ In(a2, c) = Plus(a[c], b) /\ In(a, c) = a[c]
  BY DEF In
<1>4. \A s : s # c => In(a2, s) = In(a, s)
  BY DEF In
<1>5. Leq(r2[k], In(a2, c))
  <2>1. Leq(r[k], a[c]) /\ r[k] \in Sums /\ a[c] \in Sums /\ Leq(b, b)
    BY <1>1, <1>3, LeqFacts
  <2> QED BY <1>2, <1>3, <2>1, LeqFacts
<1>6. ASSUME NEW i \in live PROVE Leq(r2[i], In(a2, home[i]))
  <2>1. CASE i = k
    BY <1>1, <1>5, <2>1
  <2>2. CASE i # k
    <3>1. home[i] # c
      BY <1>1, <2>2
    <3> QED BY <1>1, <1>2, <1>4, <2>2, <3>1
  <2> QED BY <2>1, <2>2
<1>7. \A i \in Slots \ live : r2[i] = Zero
  BY <1>1, <1>2
<1> HIDE DEF r2, a2
<1>9. \A i \in live : /\ home[i] <= c
                     /\ Leq(r2[i], In(a2, home[i]))
                     /\ \E turn \in c + 1 .. home[i] + Lap : SlotOf(turn) = i
  BY <1>1, <1>6
<1>10. /\ k \in live /\ home[k] = c
       /\ \A i, j \in live : home[i] = home[j] => i = j
  BY <1>1
<1>8. TimelyAt(r2, k, c, a2)
  <2> USE DEF TimelyAt
  <2> WITNESS live \in SUBSET Slots, home \in [Slots -> Int]
  <2> QED BY <1>7, <1>9, <1>10
<1> QED BY <1>8 DEF r2, a2

-----------------------------------------------------------------------------
(* One step of the ring.                                                   *)

LEMMA TurnKeepsRing ==
  ASSUME CounterInv, Updated, UNCHANGED <<clock, total, added>>
  PROVE  RingInv'
<1>1. TypeOK /\ RingInv
  BY CounterTypes DEF CounterInv
<1>2. recs' = update.recs /\ interval' = update.interval /\ current_rec' = clock
      /\ rec_index' = update.rec_index /\ abandoned' = (abandoned \/ Late)
  BY UpdateIs DEF Updated, Late
<1>3. /\ recs' \in [Slots -> Sums] /\ rec_index' \in Slots /\ interval' \in Sums
      /\ interval' = SumOver(recs', Slots) /\ Leq(interval', interval)
  BY <1>1, <1>2, UpdateKeepsSum DEF RingInv
<1>4. clock' \in 0 .. MaxTime /\ current_rec' \in 0 .. clock'
  BY <1>1, <1>2 DEF RingInv
<1>5. total' \in Sums /\ added' \in [0 .. MaxTime -> Sums] /\ abandoned' \in BOOLEAN
  BY <1>1, <1>2 DEF RingInv
<1>6. IntervalIsSum'
  BY <1>3 DEF IntervalIsSum
<1>7. NothingAhead'
  BY <1>1, <1>2 DEF NothingAhead, RingInv
<1>8. ASSUME ~ abandoned' PROVE ExactAt(recs', rec_index', current_rec', added')
  BY <1>1, <1>2, <1>8, UpdateKeepsExact DEF RingInv
<1>9. TimelyAt(recs', rec_index', current_rec', added')
  BY <1>1, <1>2, UpdateKeepsTimely DEF RingInv
<1>10. Leq(interval', total')
  BY <1>1, <1>3, LeqFacts DEF RingInv
<1> QED BY <1>3, <1>4, <1>5, <1>6, <1>7, <1>8, <1>9, <1>10 DEF RingInv

LEMMA AddKeepsRing ==
  ASSUME CounterInv, NEW b \in Batches, AddBatch(b)
  PROVE  RingInv' /\ Leq(total, total')
<1>1. TypeOK /\ RingInv /\ b \in Sums
  BY CounterTypes, HistoryAssumption DEF CounterInv
<1> DEFINE r == update.recs
           k == update.rec_index
<1>2. /\ recs' = [r EXCEPT ![k] = Plus(r[k], b)]
      /\ interval' = Plus(update.interval, b) /\ current_rec' = clock /\ rec_index' = k
      /\ abandoned' = (abandoned \/ Late)
      /\ total' = Plus(total, b) /\ clock' = clock
  BY UpdateIs DEF AddBatch, Late
<1>3. added' = [added EXCEPT ![clock] = Plus(added[clock], b)]
  BY DEF AddBatch
<1>4. /\ r \in [Slots -> Sums] /\ k \in Slots /\ update.interval \in Sums
      /\ update.interval = SumOver(r, Slots) /\ Leq(update.interval, interval)
  BY <1>1, UpdateKeepsSum DEF RingInv
<1>5. /\ clock \in 0 .. MaxTime /\ added \in [0 .. MaxTime -> Sums]
      /\ interval \in Sums /\ total \in Sums /\ Leq(interval, total) /\ abandoned \in BOOLEAN
      /\ current_rec \in 0 .. clock
  BY <1>1 DEF RingInv
<1>6. r[k] \in Sums /\ added[clock] \in Sums
  BY <1>4, <1>5
<1>7. Plus(r[k], b) \in Sums /\ Plus(added[clock], b) \in Sums /\ interval' \in Sums /\ total' \in Sums
  BY <1>1, <1>2, <1>4, <1>5, <1>6, PlusFacts
<1>8. recs' \in [Slots -> Sums] /\ added' \in [0 .. MaxTime -> Sums]
  BY <1>2, <1>3, <1>4, <1>5, <1>7
<1>9. Late => abandoned'
  BY <1>2
<1>10. ASSUME ~ abandoned' PROVE ExactAt(r, k, clock, added)
  BY <1>1, <1>2, <1>10, UpdateKeepsExact DEF RingInv
<1>11. TimelyAt(r, k, clock, added)
  BY <1>1, UpdateKeepsTimely DEF RingInv
<1> HIDE DEF r, k
<1>12. IntervalIsSum'
  BY <1>1, <1>2, <1>4, AddKeepsSum DEF IntervalIsSum
<1>13. NothingAhead'
  <2> SUFFICES ASSUME NEW s \in DOMAIN added', s > current_rec' PROVE added'[s] = Zero
    BY DEF NothingAhead
  <2>1. s \in DOMAIN added /\ s > clock /\ s > current_rec
    BY <1>2, <1>3, <1>5
  <2>2. added[s] = Zero
    BY <1>1, <2>1 DEF NothingAhead, RingInv
  <2> QED BY <1>3, <1>5, <2>1, <2>2
<1>14. ASSUME ~ abandoned' PROVE ExactAt(recs', rec_index', current_rec', added')
  BY <1>1, <1>2, <1>3, <1>4, <1>5, <1>10, <1>14, AddKeepsExact
<1>15. TimelyAt(recs', rec_index', current_rec', added')
  BY <1>1, <1>2, <1>3, <1>4, <1>5, <1>11, AddKeepsTimely
<1>16. Leq(interval', total') /\ Leq(total, total')
  <2>1. Leq(update.interval, total) /\ Leq(b, b)
    BY <1>1, <1>4, <1>5, LeqFacts
  <2>2. Leq(interval', total')
    BY <1>1, <1>2, <1>4, <1>5, <2>1, LeqFacts
  <2>3. Leq(total, total')
    BY <1>1, <1>2, <1>5 DEF Leq, Plus, Sums
  <2> QED BY <2>2, <2>3
<1>17. clock' \in 0 .. MaxTime /\ current_rec' \in 0 .. clock' /\ rec_index' \in Slots
       /\ abandoned' \in BOOLEAN
  BY <1>2, <1>4, <1>5
<1> QED BY <1>7, <1>8, <1>12, <1>13, <1>14, <1>15, <1>16, <1>17 DEF RingInv

LEMMA ClearedRing ==
  ASSUME clock' \in 0 .. MaxTime, recs' = Zeros, current_rec' = clock', rec_index' = SlotOf(clock'),
         interval' = Zero, total' = Zero, added' = [s \in 0 .. MaxTime |-> Zero], abandoned' = FALSE
  PROVE  RingInv'
<1>1. Zero \in Sums /\ Leq(Zero, Zero)
  BY DEF Zero, Sums, Leq
<1>2. clock' \in Nat /\ SlotOf(clock') \in Slots
  BY HistoryAssumption, Division
<1>3. Zeros \in [Slots -> Sums] /\ \A i \in Slots : Zeros[i] = Zero
  BY <1>1 DEF Zeros
<1>4. IntervalIsSum'
  BY <1>3, SlotsAreFinite, SumOfZeros DEF IntervalIsSum
<1>5. \A s : In(added', s) = Zero
  BY DEF In
<1>6. ExactAt(recs', rec_index', current_rec', added')
  <2>1. \A s \in clock' - HistorySize .. clock' : SlotOf(s) \in Slots
    BY <1>2, HistoryAssumption, Division
  <2> QED BY <1>3, <1>5, <2>1 DEF ExactAt
<1>7. TimelyAt(recs', rec_index', current_rec', added')
  <2>1. \A s \in DOMAIN added' : added'[s] \in Sums
    BY <1>1
  <2> QED BY <1>2, <2>1, EmptyIsTimely
<1>8. NothingAhead' /\ added' \in [0 .. MaxTime -> Sums]
  BY <1>1 DEF NothingAhead
<1>9. current_rec' \in 0 .. clock'
  BY <1>2
<1>10. Leq(interval', total') /\ interval' \in Sums /\ total' \in Sums /\ abandoned' = FALSE
       /\ rec_index' \in Slots /\ recs' \in [Slots -> Sums]
  BY <1>1, <1>2, <1>3
<1>11. clock' \in 0 .. MaxTime
  OBVIOUS
<1> QED BY <1>4, <1>6, <1>7, <1>8, <1>9, <1>10, <1>11 DEF RingInv

-----------------------------------------------------------------------------
(* The dumps.                                                              *)

LEMMA MoreInTotal ==
  ASSUME DumpTypes, DumpInv, UNCHANGED dump, total \in Sums, total' \in Sums, Leq(total, total')
  PROVE  DumpTypes' /\ DumpInv'
<1>1. ASSUME NEW p \in Dumpers PROVE DumpOk(dump'[p], total')
  <2>1. dump[p] \in Dumps /\ DumpOk(dump[p], total) /\ dump'[p] = dump[p]
    BY DEF DumpTypes, DumpInv
  <2>2. total.count \in Nat /\ total.summ \in Nat /\ total'.count \in Nat /\ total'.summ \in Nat
        /\ total.count <= total'.count /\ total.summ <= total'.summ
    BY DEF Sums, Leq
  <2>3. dump[p].value[<<"interval", "count">>] \in Nat /\ dump[p].value[<<"interval", "summ">>] \in Nat
    BY <2>1 DEF Dumps, Fields
  <2> QED BY <2>1, <2>2, <2>3 DEF DumpOk
<1> QED BY <1>1 DEF DumpTypes, DumpInv

LEMMA DumpMarked ==
  ASSUME NEW d \in Dumps, NEW b
  PROVE  [d EXCEPT !.cleared = b] = [read |-> d.read, value |-> d.value, cleared |-> b]
BY DEF Dumps

LEMMA DumpRead ==
  ASSUME NEW d \in Dumps, NEW r, NEW v
  PROVE  [d EXCEPT !.read = r, !.value = v] = [read |-> r, value |-> v, cleared |-> d.cleared]
<1> DEFINE e == [d EXCEPT !.read = r]
<1>1. e = [read |-> r, value |-> d.value, cleared |-> d.cleared]
  BY DEF Dumps
<1>2. [d EXCEPT !.read = r, !.value = v] = [e EXCEPT !.value = v]
  OBVIOUS
<1> HIDE DEF e
<1> QED BY <1>1, <1>2

LEMMA ClearedDumps ==
  ASSUME DumpTypes, dump' = [p \in Dumpers |-> [dump[p] EXCEPT !.cleared = dump[p].read > 0]]
  PROVE  DumpTypes' /\ DumpInv'
<1>1. ASSUME NEW p \in Dumpers PROVE dump'[p] \in Dumps /\ DumpOk(dump'[p], total')
  <2>1. dump[p] \in Dumps
    BY DEF DumpTypes
  <2> DEFINE d == dump[p]
             b == d.read > 0
  <2>2. dump'[p] = [d EXCEPT !.cleared = b] /\ b \in BOOLEAN
    OBVIOUS
  <2> HIDE DEF b, d
  <2>3. dump'[p] = [read |-> d.read, value |-> d.value, cleared |-> b]
    BY <2>1, <2>2, DumpMarked DEF d
  <2>4. dump'[p] \in Dumps
    BY <2>1, <2>2, <2>3 DEF Dumps, d
  <2>5. dump'[p].cleared = b /\ dump'[p].read = d.read /\ d.read \in 0 .. 6
    BY <2>1, <2>3 DEF Dumps, d
  <2>6. ~ b => d.read = 0
    BY <2>5 DEF b
  <2>7. CASE b
    BY <2>4, <2>5, <2>7 DEF DumpOk
  <2>8. CASE ~ b
    BY <2>4, <2>5, <2>6, <2>8 DEF DumpOk
  <2> QED BY <2>7, <2>8
<1> QED BY <1>1 DEF DumpTypes, DumpInv

(* The next number: what the interval has is in the total.                 *)
LEMMA NextOfDump ==
  ASSUME CounterInv, NEW p \in Dumpers, DumpNext(p)
  PROVE  DumpTypes' /\ DumpInv'
<1> DEFINE d     == dump[p]
           field == DumpOrder[d.read + 1]
           value == IF field \in Fields THEN [d.value EXCEPT ![field] = Answer(field)] ELSE d.value
           d2    == [read |-> d.read + 1, value |-> value, cleared |-> d.cleared]
<1>1. TypeOK /\ DumpTypes /\ DumpInv /\ RingInv
  BY CounterTypes DEF CounterInv
<1>2. d \in Dumps /\ DumpOk(d, total) /\ d.read \in 0 .. 5 /\ DOMAIN d.value = Fields /\ total' = total
  BY <1>1 DEF DumpTypes, DumpInv, DumpNext, Dumps
<1>3. dump' = [dump EXCEPT ![p] = d2]
  <2>1. dump' = [dump EXCEPT ![p].read = @ + 1,
                             ![p].value = IF field \in DOMAIN @
                                          THEN [@ EXCEPT ![field] = Answer(field)] ELSE @]
    BY DEF DumpNext
  <2>2. dump' = [dump EXCEPT ![p] = [d EXCEPT !.read = @ + 1,
                             !.value = IF field \in DOMAIN @
                                          THEN [@ EXCEPT ![field] = Answer(field)] ELSE @]]
    BY <2>1, <1>1 DEF DumpTypes
  <2>3. DOMAIN d.value = Fields /\ d \in [read : 0 .. 6, value : [Fields -> Nat], cleared : BOOLEAN]
    BY <1>2 DEF Dumps
  <2>5. d \in Dumps
    BY <1>2
  <2> HIDE DEF field, d
  <2>6. d2 = [d EXCEPT !.read = d.read + 1, !.value = value]
    <3> HIDE DEF value
    <3> QED BY <2>5, DumpRead
  <2>4. d2 = [d EXCEPT !.read = @ + 1,
                             !.value = IF field \in DOMAIN @
                                          THEN [@ EXCEPT ![field] = Answer(field)] ELSE @]
    BY <2>3, <2>6
  <2> QED BY <2>2, <2>4
<1>4. GetInterval \in Sums /\ total \in Sums /\ Leq(GetInterval, total)
  <2>1. update.interval \in Sums /\ Leq(update.interval, interval) /\ interval \in Sums
        /\ total \in Sums /\ Leq(interval, total)
    BY <1>1, UpdateKeepsSum DEF RingInv
  <2> QED BY <2>1, LeqFacts DEF GetInterval
<1>5. /\ GetInterval.count \in Nat /\ GetInterval.summ \in Nat /\ total.count \in Nat /\ total.summ \in Nat
      /\ GetInterval.count <= total.count /\ GetInterval.summ <= total.summ
  BY <1>4 DEF Sums, Leq
<1>6. /\ Answer(<<"interval", "count">>) = GetInterval.count
      /\ Answer(<<"interval", "summ">>) = GetInterval.summ
      /\ Answer(<<"total", "count">>) = total.count
      /\ Answer(<<"total", "summ">>) = total.summ
  BY DEF Answer
<1>7. /\ d.value \in [Fields -> Nat]
      /\ <<"interval", "count">> \in Fields /\ <<"interval", "summ">> \in Fields
      /\ <<"total", "count">> \in Fields /\ <<"total", "summ">> \in Fields
      /\ <<"last", "count">> \notin Fields /\ <<"last", "summ">> \notin Fields
  BY <1>2 DEF Dumps, Fields
<1>8. /\ DumpOrder[1] = <<"last", "count">> /\ DumpOrder[2] = <<"last", "summ">>
      /\ DumpOrder[3] = <<"interval", "count">> /\ DumpOrder[4] = <<"interval", "summ">>
      /\ DumpOrder[5] = <<"total", "count">> /\ DumpOrder[6] = <<"total", "summ">>
  BY DEF DumpOrder
<1>9. d2 \in Dumps /\ DumpOk(d2, total)
  <2>0. d2.read = d.read + 1 /\ d2.value = value /\ d2.cleared = d.cleared /\ d.cleared \in BOOLEAN
    BY <1>2 DEF Dumps
  <2>1. value \in [Fields -> Nat] => d2 \in Dumps
    BY <1>2, <2>0 DEF Dumps
  <2>2. CASE d.read = 0
    BY <1>7, <1>8, <2>0, <2>1, <2>2 DEF DumpOk
  <2>3. CASE d.read = 1
    BY <1>7, <1>8, <2>0, <2>1, <2>3 DEF DumpOk
  <2>4. CASE d.read = 2
    <3>1. field = <<"interval", "count">> /\ value = [d.value EXCEPT ![<<"interval", "count">>] = GetInterval.count]
      BY <1>6, <1>7, <1>8, <2>4
    <3>2. value \in [Fields -> Nat] /\ value[<<"interval", "count">>] = GetInterval.count
      BY <1>5, <1>7, <3>1
    <3> QED BY <1>5, <2>0, <2>1, <2>4, <3>2 DEF DumpOk
  <2>5. CASE d.read = 3
    <3>1. field = <<"interval", "summ">> /\ value = [d.value EXCEPT ![<<"interval", "summ">>] = GetInterval.summ]
      BY <1>6, <1>7, <1>8, <2>5
    <3>2. value \in [Fields -> Nat] /\ value[<<"interval", "summ">>] = GetInterval.summ
          /\ value[<<"interval", "count">>] = d.value[<<"interval", "count">>]
      BY <1>5, <1>7, <3>1
    <3>3. ~ d.cleared => d.value[<<"interval", "count">>] <= total.count
      BY <1>2, <2>5 DEF DumpOk
    <3> QED BY <1>5, <2>0, <2>1, <2>5, <3>2, <3>3 DEF DumpOk
  <2>6. CASE d.read = 4
    <3>1. field = <<"total", "count">> /\ value = [d.value EXCEPT ![<<"total", "count">>] = total.count]
      BY <1>6, <1>7, <1>8, <2>6
    <3>2. value \in [Fields -> Nat] /\ value[<<"total", "count">>] = total.count
          /\ value[<<"interval", "summ">>] = d.value[<<"interval", "summ">>]
          /\ value[<<"interval", "count">>] = d.value[<<"interval", "count">>]
      BY <1>5, <1>7, <3>1
    <3>3. ~ d.cleared => /\ d.value[<<"interval", "count">>] <= total.count
                         /\ d.value[<<"interval", "summ">>] <= total.summ
      BY <1>2, <2>6 DEF DumpOk
    <3> QED BY <1>5, <2>0, <2>1, <2>6, <3>2, <3>3 DEF DumpOk
  <2>7. CASE d.read = 5
    <3>1. field = <<"total", "summ">> /\ value = [d.value EXCEPT ![<<"total", "summ">>] = total.summ]
      BY <1>6, <1>7, <1>8, <2>7
    <3>2. value \in [Fields -> Nat] /\ value[<<"total", "summ">>] = total.summ
          /\ value[<<"interval", "summ">>] = d.value[<<"interval", "summ">>]
          /\ value[<<"interval", "count">>] = d.value[<<"interval", "count">>]
          /\ value[<<"total", "count">>] = d.value[<<"total", "count">>]
      BY <1>5, <1>7, <3>1
    <3>3. ~ d.cleared => /\ d.value[<<"interval", "count">>] <= total.count
                         /\ d.value[<<"interval", "summ">>] <= total.summ
                         /\ d.value[<<"interval", "count">>] <= d.value[<<"total", "count">>]
      BY <1>2, <2>7 DEF DumpOk
    <3> QED BY <1>5, <2>0, <2>1, <2>7, <3>2, <3>3 DEF DumpOk
  <2> QED BY <1>2, <2>2, <2>3, <2>4, <2>5, <2>6, <2>7
<1>10. ASSUME NEW q \in Dumpers PROVE dump'[q] \in Dumps /\ DumpOk(dump'[q], total')
  <2> HIDE DEF d2
  <2>1. dump[q] \in Dumps /\ DumpOk(dump[q], total) /\ dump'[q] = IF q = p THEN d2 ELSE dump[q]
    BY <1>1, <1>3 DEF DumpTypes, DumpInv
  <2> QED BY <1>2, <1>9, <2>1
<1>11. DOMAIN dump' = Dumpers /\ dump' = [q \in Dumpers |-> dump'[q]]
  <2> HIDE DEF d2
  <2> QED BY <1>1, <1>3 DEF DumpTypes
<1> QED BY <1>10, <1>11 DEF DumpTypes, DumpInv

LEMMA DoneWithDump ==
  ASSUME CounterInv, NEW p \in Dumpers, DumpDone(p)
  PROVE  DumpTypes' /\ DumpInv'
<1>1. DumpTypes /\ DumpInv /\ dump' = [dump EXCEPT ![p] = NotRead] /\ total' = total
  BY DEF CounterInv, DumpDone
<1>2. NotRead \in Dumps /\ DumpOk(NotRead, total)
  BY DEF NotRead, Dumps, DumpOk
<1>3. ASSUME NEW q \in Dumpers PROVE dump'[q] \in Dumps /\ DumpOk(dump'[q], total')
  BY <1>1, <1>2 DEF DumpTypes, DumpInv
<1> QED BY <1>1, <1>3 DEF DumpTypes, DumpInv

-----------------------------------------------------------------------------
(* The invariant holds.                                                    *)

LEMMA CounterInit == Init => CounterInv
<1> SUFFICES ASSUME Init PROVE CounterInv
  OBVIOUS
<1>1. clock \in 0 .. MaxTime /\ clock \in Nat
  BY HistoryAssumption DEF Init, Slots
<1>2. Zero \in Sums /\ Leq(Zero, Zero) /\ SlotOf(clock) \in Slots
  BY <1>1, Division DEF Zero, Sums, Leq
<1>3. recs = Zeros /\ interval = Zero /\ total = Zero /\ rec_index = SlotOf(clock)
      /\ current_rec = clock /\ added = [s \in 0 .. MaxTime |-> Zero] /\ abandoned = FALSE
      /\ dump = [p \in Dumpers |-> NotRead]
  BY DEF Init, Zeros
<1>4. Zeros \in [Slots -> Sums] /\ \A i \in Slots : Zeros[i] = Zero
  BY <1>2 DEF Zeros
<1>5. IntervalIsSum
  BY <1>3, <1>4, SlotsAreFinite, SumOfZeros DEF IntervalIsSum
<1>6. \A s : In(added, s) = Zero
  BY <1>3 DEF In
<1>7. ExactAt(recs, rec_index, current_rec, added)
  <2>1. \A s \in clock - HistorySize .. clock : SlotOf(s) \in Slots
    BY <1>1, HistoryAssumption, Division
  <2> QED BY <1>3, <1>4, <1>6, <2>1 DEF ExactAt
<1>8. TimelyAt(recs, rec_index, current_rec, added)
  <2>1. \A s \in DOMAIN added : added[s] \in Sums
    BY <1>2, <1>3
  <2> QED BY <1>1, <1>2, <1>3, <2>1, EmptyIsTimely
<1>9. NothingAhead /\ added \in [0 .. MaxTime -> Sums] /\ current_rec \in 0 .. clock
  BY <1>1, <1>2, <1>3 DEF NothingAhead
<1>10. RingInv
  BY <1>1, <1>2, <1>3, <1>4, <1>5, <1>7, <1>8, <1>9 DEF RingInv
<1>11. NotRead \in Dumps /\ DumpOk(NotRead, total)
  BY DEF NotRead, Dumps, DumpOk
<1>12. DumpTypes /\ DumpInv
  BY <1>3, <1>11 DEF DumpTypes, DumpInv
<1> QED BY <1>10, <1>12 DEF CounterInv

LEMMA CounterStep == CounterInv /\ [Next]_vars => CounterInv'
<1> SUFFICES ASSUME CounterInv, [Next]_vars PROVE CounterInv'
  OBVIOUS
<1>1. TypeOK /\ RingInv /\ DumpTypes /\ DumpInv
  BY CounterTypes DEF CounterInv
<1>2. ASSUME NEW b \in Batches, AddBatch(b) PROVE CounterInv'
  <2>1. RingInv' /\ Leq(total, total') /\ UNCHANGED dump
    BY <1>2, AddKeepsRing DEF AddBatch
  <2>2. total \in Sums /\ total' \in Sums
    BY <1>1, <2>1 DEF RingInv
  <2> QED BY <1>1, <2>1, <2>2, MoreInTotal DEF CounterInv
<1>3. CASE Get
  <2>1. RingInv' /\ UNCHANGED <<dump, total>>
    BY <1>3, TurnKeepsRing DEF Get
  <2>2. total \in Sums /\ total' \in Sums /\ Leq(total, total')
    BY <1>1, <2>1, LeqFacts DEF RingInv
  <2> QED BY <1>1, <2>1, <2>2, MoreInTotal DEF CounterInv
<1>4. CASE Clear
  <2>1. DOMAIN added = 0 .. MaxTime /\ clock' = clock /\ clock \in 0 .. MaxTime
    BY <1>1, <1>4 DEF Clear, RingInv
  <2>2. RingInv'
    BY <1>4, <2>1, ClearedRing DEF Clear, Zeros
  <2>3. DumpTypes' /\ DumpInv'
    BY <1>1, <1>4, ClearedDumps DEF Clear
  <2> QED BY <2>2, <2>3 DEF CounterInv
<1>5. ASSUME NEW p \in Dumpers, DumpNext(p) PROVE CounterInv'
  <2>1. CASE Updated
    BY <1>5, <2>1, TurnKeepsRing, NextOfDump DEF DumpNext, CounterInv
  <2>2. CASE UNCHANGED <<recs, interval, current_rec, rec_index, abandoned>>
    <3>1. UNCHANGED <<clock, recs, interval, total, current_rec, rec_index, added, abandoned>>
      BY <1>5, <2>2 DEF DumpNext
    <3>2. RingInv'
      BY <1>1, <3>1 DEF RingInv, IntervalIsSum, NothingAhead
    <3> QED BY <1>5, <3>2, NextOfDump DEF CounterInv
  <2> QED BY <1>5, <2>1, <2>2 DEF DumpNext
<1>6. ASSUME NEW p \in Dumpers, DumpDone(p) PROVE CounterInv'
  <2>1. UNCHANGED <<clock, recs, interval, total, current_rec, rec_index, added, abandoned>>
    BY <1>6 DEF DumpDone
  <2>2. RingInv'
    BY <1>1, <2>1 DEF RingInv, IntervalIsSum, NothingAhead
  <2> QED BY <1>6, <2>2, DoneWithDump DEF CounterInv
<1>7. CASE Tick
  <2>1. /\ UNCHANGED <<recs, interval, total, current_rec, rec_index, added, abandoned, dump>>
        /\ clock < MaxTime /\ clock' = clock + 1
    BY <1>7 DEF Tick
  <2>2. clock' \in 0 .. MaxTime /\ current_rec' \in 0 .. clock'
    BY <1>1, <2>1, HistoryAssumption DEF RingInv
  <2>3. RingInv'
    BY <1>1, <2>1, <2>2 DEF RingInv, IntervalIsSum, NothingAhead
  <2>4. DumpTypes' /\ DumpInv'
    BY <1>1, <2>1 DEF DumpTypes, DumpInv
  <2> QED BY <2>3, <2>4 DEF CounterInv
<1>8. CASE UNCHANGED vars
  BY <1>1, <1>8 DEF vars, CounterInv, RingInv, IntervalIsSum, NothingAhead, DumpTypes, DumpInv
<1> QED BY <1>2, <1>3, <1>4, <1>5, <1>6, <1>7, <1>8 DEF Next

(* The strengthened invariant holds in every state.                        *)
THEOREM InvariantHolds == Spec => []CounterInv
BY CounterInit, CounterStep, PTL DEF Spec

(* Every variable keeps its type.                                          *)
THEOREM TypesHold == Spec => []TypeOK
BY InvariantHolds, CounterTypes, PTL

(* The interval stays the sum of the slots, however long nobody called.    *)
THEOREM IntervalStaysSum == Spec => []IntervalIsSum
<1>1. CounterInv => IntervalIsSum
  BY DEF CounterInv, RingInv
<1> QED BY <1>1, InvariantHolds, PTL

(* A dump that nobody clears under never shows more in the interval than in*)
(* total.                                                                  *)
THEOREM DumpsOrdered == Spec => []DumpOrdered
<1>1. CounterInv => DumpOrdered
  <2> SUFFICES ASSUME CounterInv, NEW p \in Dumpers, dump[p].read = 6, ~ dump[p].cleared
               PROVE  /\ dump[p].value[<<"interval", "count">>] <= dump[p].value[<<"total", "count">>]
                      /\ dump[p].value[<<"interval", "summ">>] <= dump[p].value[<<"total", "summ">>]
    BY DEF DumpOrdered
  <2>1. DumpOk(dump[p], total)
    BY DEF CounterInv, DumpInv
  <2> QED BY <2>1 DEF DumpOk
<1> QED BY <1>1, InvariantHolds, PTL

-----------------------------------------------------------------------------
(* What the answers are worth.                                             *)

Span(c)   == c - HistorySize .. c
InSpan(c) == [s \in Span(c) |-> In(added, s)]

LEMMA WindowIsSpan ==
  ASSUME TypeOK, NEW c \in Int
  PROVE  /\ Window(c) = SumOver(InSpan(c), Span(c)) /\ Window(c) \in Sums
         /\ IsFiniteSet(Span(c)) /\ \A s \in Span(c) : InSpan(c)[s] \in Sums
<1> DEFINE W == {s \in DOMAIN added : s \in Span(c)}
           S == Span(c)
           f == InSpan(c)
<1>1. HistorySize \in Nat /\ added \in [0 .. MaxTime -> Sums]
  BY HistoryAssumption DEF TypeOK
<1>2. IsFiniteSet(S) /\ W \in SUBSET S
  <2>1. IsFiniteSet(S)
    BY <1>1, FS_Interval DEF Span
  <2> QED BY <2>1
<1>3. IsFiniteSet(W)
  BY <1>2, FS_Subset
<1>4. \A s \in S : f[s] = In(added, s) /\ f[s] \in Sums
  BY <1>1 DEF InSpan, In, Sums, Zero
<1>5. \A s \in W : added[s] \in Sums /\ f[s] = added[s]
  BY <1>1, <1>4 DEF In
<1>6. \A s \in S \ W : f[s] = Zero
  BY <1>4 DEF In
<1> HIDE DEF W, S, f
<1>7. SumOver(f, W) = SumOver(added, W)
  BY <1>3, <1>5, SumOfTheSame
<1>8. SumOver(f, S) = SumOver(f, W)
  BY <1>2, <1>4, <1>6, SumOfOnePart
<1>9. Window(c) = SumOver(added, W)
  BY DEF Window, W, Span
<1>10. SumOver(f, S) \in Sums
  BY <1>2, <1>4, SumType
<1> QED BY <1>2, <1>4, <1>7, <1>8, <1>9, <1>10 DEF S, f

(* A ring that is exact as of a second answers exactly as of it.           *)
LEMMA ExactRingAnswers ==
  ASSUME TypeOK, NEW c \in Int, NEW r \in [Slots -> Sums], NEW index, ExactAt(r, index, c, added)
  PROVE  SumOver(r, Slots) = Window(c) /\ r[lastSlot(index)] = In(added, c - 1)
<1> DEFINE S == Span(c)
           f == InSpan(c)
<1>1. HistorySize \in Nat /\ HistorySize >= 1
  BY HistoryAssumption
<1>2. /\ IsFiniteSet(S) /\ \A s \in S : f[s] \in Sums
      /\ Window(c) = SumOver(f, S) /\ Window(c) \in Sums
  BY WindowIsSpan
<1>3. \A s \in S : SlotOf(s) \in Slots /\ r[SlotOf(s)] = f[s]
  <2>1. \A s \in S : s \in Int
    BY <1>1 DEF Span
  <2> QED BY <2>1, Division DEF ExactAt, Span, InSpan
<1>4. \A s, t \in S : SlotOf(s) = SlotOf(t) => s = t
  <2>1. \A s, t \in S : s \in Int /\ t \in Int /\ s - t <= HistorySize /\ t - s <= HistorySize
    BY <1>1 DEF Span
  <2> QED BY <2>1, SlotsApart
<1>5. \A i \in Slots : \E s \in S : SlotOf(s) = i
  <2> SUFFICES ASSUME NEW i \in Slots PROVE \E s \in S : SlotOf(s) = i
    OBVIOUS
  <2> DEFINE b == c - Lap
  <2>1. b \in Int /\ b + 1 = c - HistorySize /\ b + Lap = c
    BY <1>1 DEF Lap
  <2> HIDE DEF b
  <2>2. \E s \in b + 1 .. b + Lap : SlotOf(s) = i
    BY <2>1, SlotsTurn
  <2> QED BY <2>1, <2>2 DEF Span
<1> HIDE DEF S, f
<1>6. \A i \in Slots : r[i] \in Sums
  OBVIOUS
<1>7. Leq(SumOver(f, S), SumOver(r, Slots))
  <2> DEFINE box == [s \in S |-> SlotOf(s)]
  <2>1. \A s \in S : box[s] \in Slots /\ Leq(f[s], r[box[s]])
    BY <1>2, <1>3, <1>6, LeqFacts
  <2>2. \A s, t \in S : box[s] = box[t] => s = t
    BY <1>4
  <2> HIDE DEF box
  <2> QED BY <1>2, <1>6, <2>1, <2>2, SlotsAreFinite, SumInBoxes
<1>8. Leq(SumOver(r, Slots), SumOver(f, S))
  <2> DEFINE box == [i \in Slots |-> CHOOSE s \in S : SlotOf(s) = i]
  <2>1. \A i \in Slots : box[i] \in S /\ SlotOf(box[i]) = i
    BY <1>5
  <2> HIDE DEF box
  <2>2. \A i \in Slots : box[i] \in S /\ Leq(r[i], f[box[i]])
    BY <1>2, <1>3, <1>6, <2>1, LeqFacts
  <2>3. \A i, j \in Slots : box[i] = box[j] => i = j
    BY <2>1
  <2> QED BY <1>2, <1>6, <2>2, <2>3, SlotsAreFinite, SumInBoxes
<1>9. SumOver(r, Slots) = Window(c)
  <2>1. SumOver(r, Slots) \in Sums
    BY <1>6, SlotsAreFinite, SumType
  <2> QED BY <1>2, <1>7, <1>8, <2>1, LeqFacts
<1>10. r[lastSlot(index)] = In(added, c - 1)
  <2>1. lastSlot(index) = SlotOf(c - 1)
    BY SlotBefore DEF ExactAt
  <2>2. c - 1 \in c - HistorySize .. c
    BY <1>1
  <2> QED BY <2>1, <2>2 DEF ExactAt
<1> QED BY <1>9, <1>10

LEMMA AddedIsIn == \A s : AddedIn(s) = In(added, s)
BY DEF AddedIn, In

LEMMA AnswersAreExact == CounterInv => AnswersExact
<1> SUFFICES ASSUME CounterInv, ~ abandoned
             PROVE  GetInterval = Window(clock) /\ GetLast = AddedIn(clock - 1)
  BY DEF AnswersExact
<1>1. TypeOK /\ RingInv /\ NothingAhead /\ IntervalIsSum
      /\ ExactAt(recs, rec_index, current_rec, added)
  BY CounterTypes DEF CounterInv, RingInv
<1>2. clock \in Nat /\ current_rec \in Int /\ HistorySize \in Nat /\ HistorySize >= 1
  BY <1>1, HistoryAssumption DEF TypeOK
<1>3. /\ update.recs \in [Slots -> Sums] /\ update.rec_index \in Slots
      /\ update.interval = SumOver(update.recs, Slots)
  BY <1>1, UpdateKeepsSum
<1>4. CASE Late
  <2>1. ASSUME NEW s \in Int, s >= clock - HistorySize PROVE In(added, s) = Zero
    <3>1. s > current_rec
      BY <1>2, <1>4, <2>1 DEF Late
    <3> QED BY <1>1, <3>1 DEF In, NothingAhead
  <2>2. \A s \in Span(clock) : InSpan(clock)[s] = Zero
    BY <1>2, <2>1 DEF InSpan, Span
  <2>3. Window(clock) = Zero
    <3>1. clock \in Int
      BY <1>2
    <3>2. IsFiniteSet(Span(clock)) /\ Window(clock) = SumOver(InSpan(clock), Span(clock))
      BY <1>1, <3>1, WindowIsSpan
    <3> QED BY <2>2, <3>2, SumOfZeros
  <2>4. GetLast = Zero
    <3>1. lastSlot(update.rec_index) \in Slots
      BY <1>2, <1>3 DEF lastSlot, Slots
    <3> QED BY <1>4, <3>1, UpdateIs DEF GetLast, Zeros
  <2>5. AddedIn(clock - 1) = Zero
    BY <1>2, <2>1, AddedIsIn
  <2> QED BY <1>4, <2>3, <2>4, <2>5, UpdateIs DEF GetInterval
<1>5. CASE ~ Late
  <2> DEFINE after == update.recs
             index == update.rec_index
  <2>1. ExactAt(after, index, clock, added) /\ clock \in Int /\ after \in [Slots -> Sums]
    BY <1>1, <1>2, <1>3, <1>5, UpdateKeepsExact
  <2> HIDE DEF after, index
  <2>2. SumOver(after, Slots) = Window(clock) /\ after[lastSlot(index)] = In(added, clock - 1)
    BY <1>1, <2>1, ExactRingAnswers
  <2> QED BY <1>3, <2>2, AddedIsIn DEF GetInterval, GetLast, after, index
<1> QED BY <1>4, <1>5

LEMMA InfoIsExact == CounterInv => InfoOfLastUpdate
<1> SUFFICES ASSUME CounterInv, ~ abandoned
             PROVE  interval = Window(current_rec) /\ recs[lastSlot(rec_index)] = AddedIn(current_rec - 1)
  BY DEF InfoOfLastUpdate, GetInfo
<1>1. TypeOK /\ IntervalIsSum /\ ExactAt(recs, rec_index, current_rec, added)
  BY CounterTypes DEF CounterInv, RingInv
<1>2. current_rec \in Int /\ recs \in [Slots -> Sums]
  BY <1>1 DEF TypeOK
<1> QED BY <1>1, <1>2, ExactRingAnswers, AddedIsIn DEF IntervalIsSum

LEMMA NothingIsLate == CounterInv => NothingOutlives
<1> SUFFICES ASSUME CounterInv PROVE Leq(GetInterval, Window(clock))
  BY DEF NothingOutlives, Leq
<1>1. TypeOK /\ IntervalIsSum /\ TimelyAt(recs, rec_index, current_rec, added)
  BY CounterTypes DEF CounterInv, RingInv
<1>2. clock \in Nat /\ HistorySize \in Nat
  BY <1>1, HistoryAssumption DEF TypeOK
<1> DEFINE S == Span(clock)
           f == InSpan(clock)
<1>3. /\ IsFiniteSet(S) /\ \A s \in S : f[s] \in Sums
      /\ Window(clock) = SumOver(f, S)
  <2>1. clock \in Int
    BY <1>2
  <2> QED BY <1>1, <2>1, WindowIsSpan
<1> DEFINE after == update.recs
           index == update.rec_index
<1>4. after \in [Slots -> Sums] /\ GetInterval = SumOver(after, Slots)
  BY <1>1, UpdateKeepsSum DEF GetInterval
<1>5. TimelyAt(after, index, clock, added)
  BY <1>1, UpdateKeepsTimely
<1> HIDE DEF after, index
<1>6. PICK live \in SUBSET Slots, home \in [Slots -> Int] :
        /\ \A i \in Slots \ live : after[i] = Zero
        /\ \A i, j \in live : home[i] = home[j] => i = j
        /\ \A i \in live : /\ home[i] <= clock
                           /\ Leq(after[i], In(added, home[i]))
                           /\ \E turn \in clock + 1 .. home[i] + Lap : SlotOf(turn) = i
  BY <1>5 DEF TimelyAt
<1>7. SumOver(after, Slots) = SumOver(after, live)
  BY <1>4, <1>6, SlotsAreFinite, SumOfOnePart
<1>8. \A i \in live : home[i] \in S /\ Leq(after[i], f[home[i]])
  <2> SUFFICES ASSUME NEW i \in live PROVE home[i] \in S /\ Leq(after[i], f[home[i]])
    OBVIOUS
  <2>1. PICK turn \in clock + 1 .. home[i] + Lap : SlotOf(turn) = i
    BY <1>6
  <2>2. home[i] \in Int /\ home[i] <= clock
    BY <1>6
  <2>3. home[i] \in S
    BY <1>2, <2>1, <2>2 DEF Lap, Span
  <2> QED BY <1>6, <2>3 DEF InSpan
<1> HIDE DEF S, f
<1>9. Leq(SumOver(after, live), SumOver(f, S))
  <2>1. IsFiniteSet(live)
    BY SlotsAreFinite, FS_Subset
  <2>2. \A i \in live : after[i] \in Sums
    BY <1>4
  <2> QED BY <1>3, <1>6, <1>8, <2>1, <2>2, SumInBoxes
<1> QED BY <1>3, <1>4, <1>7, <1>9

(* As long as somebody calls once per interval, the answers are exactly    *)
(* what was added in the last HistorySize seconds and in the second before.*)
THEOREM AnswersStayExact == Spec => []AnswersExact
BY InvariantHolds, AnswersAreExact, PTL

(* GetInfo, which does not update, tells exactly what was so in the second *)
(* of the last call that did.                                              *)
THEOREM InfoStaysExact == Spec => []InfoOfLastUpdate
BY InvariantHolds, InfoIsExact, PTL

(* However long nobody called, no event is told of late or twice.          *)
THEOREM NothingToldLate == Spec => []NothingOutlives
BY InvariantHolds, NothingIsLate, PTL

=============================================================================
