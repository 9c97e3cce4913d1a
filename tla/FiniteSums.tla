------------------------------ MODULE FiniteSums ------------------------------
(***************************************************************************)
(* Sums over finite sets, as MapThenSumSet of FiniteSetsExt computes them: *)
(* one element after the other, in the order in which CHOOSE gives them.   *)
(* What the proofs need of them is that the order does not matter, and how *)
(* a sum changes with its set and with its terms.                          *)
(***************************************************************************)
EXTENDS Integers, FiniteSets, FiniteSetTheorems, WellFoundedInduction, TLAPS

\* A set of naturals that has 0 and with each number the next has them all.
LEMMA AllNumbers ==
    ASSUME NEW P \in SUBSET Nat, 0 \in P, \A n \in P : n + 1 \in P
    PROVE  P = Nat
<1> SUFFICES ASSUME Nat \ P # {} PROVE FALSE
    OBVIOUS
<1> PICK less : less = {ss \in Nat \X Nat : ss[1] < ss[2]}
    OBVIOUS
<1>1. IsWellFoundedOn(less, Nat)
    <2>1. OpToRel(<, Nat) = {ss \in Nat \X Nat : ss[1] < ss[2]}
        BY DEF OpToRel
    <2> QED
        BY <2>1, NatLessThanWellFounded
<1>2. PICK x \in Nat \ P : \A y \in Nat \ P : ~(<<y, x>> \in less)
    <2>1. Nat \ P \subseteq Nat
        OBVIOUS
    <2> QED
        BY <1>1, <2>1, WFMin
<1>3. x # 0 /\ x - 1 \in Nat /\ x - 1 < x /\ (x - 1) + 1 = x
    OBVIOUS
<1>4. x - 1 \notin P
    BY <1>3
<1>5. <<x - 1, x>> \in Nat \X Nat /\ <<x - 1, x>>[1] = x - 1 /\ <<x - 1, x>>[2] = x
    BY <1>3
<1>6. <<x - 1, x>> \in less
    BY <1>3, <1>5
<1> QED
    BY <1>2, <1>3, <1>4, <1>6

OneOf(S) == CHOOSE x \in S : TRUE

\* A set of subsets that has the empty one and, with S but one of its elements, S.
LEMMA AllSubsets ==
    ASSUME NEW T, IsFiniteSet(T), NEW P \in SUBSET SUBSET T, {} \in P,
           \A S \in SUBSET T : S # {} /\ S \ {OneOf(S)} \in P => S \in P
    PROVE  P = SUBSET T
<1> DEFINE Q == {n \in Nat : \A S \in SUBSET T : Cardinality(S) = n => S \in P}
<1>1. \A S \in SUBSET T : IsFiniteSet(S) /\ Cardinality(S) \in Nat
    BY FS_Subset, FS_CardinalityType
<1>2. 0 \in Q
    BY <1>1, FS_EmptySet
<1>3. ASSUME NEW n \in Q PROVE n + 1 \in Q
    <2> SUFFICES ASSUME NEW S \in SUBSET T, Cardinality(S) = n + 1 PROVE S \in P
        OBVIOUS
    <2>1. S # {}
        BY FS_EmptySet
    <2>2. OneOf(S) \in S
        BY <2>1 DEF OneOf
    <2>3. Cardinality(S \ {OneOf(S)}) = n
        BY <1>1, <2>2, FS_RemoveElement
    <2> QED
        BY <2>1, <2>3
<1>4. Q = Nat
    <2>1. Q \in SUBSET Nat
        OBVIOUS
    <2> HIDE DEF Q
    <2> QED
        BY <1>2, <1>3, <2>1, AllNumbers
<1> QED
    BY <1>1, <1>4

\* The sums of f over the subsets of T.
Adds(g, f, T) ==
    g = [S \in SUBSET T |-> IF S = {} THEN 0
                            ELSE f[CHOOSE x \in S : TRUE] + g[S \ {CHOOSE x \in S : TRUE}]]

Sums(f, T) == CHOOSE g : Adds(g, f, T)

LEMMA SumsExist ==
    ASSUME NEW T, IsFiniteSet(T), NEW f
    PROVE  Adds(Sums(f, T), f, T)
<1> DEFINE D(n) == {S \in SUBSET T : Cardinality(S) <= n}
           Upto(g, n) == g = [S \in D(n) |-> IF S = {} THEN 0 ELSE f[OneOf(S)] + g[S \ {OneOf(S)}]]
           Q == {n \in Nat : \E g : Upto(g, n)}
<1>1. \A S \in SUBSET T : IsFiniteSet(S) /\ Cardinality(S) \in Nat
    BY FS_Subset, FS_CardinalityType
<1>2. \A S \in SUBSET T : S # {} =>
          /\ OneOf(S) \in S /\ S \ {OneOf(S)} \in SUBSET T
          /\ Cardinality(S \ {OneOf(S)}) = Cardinality(S) - 1
    <2> SUFFICES ASSUME NEW S \in SUBSET T, S # {}
                 PROVE  /\ OneOf(S) \in S /\ S \ {OneOf(S)} \in SUBSET T
                        /\ Cardinality(S \ {OneOf(S)}) = Cardinality(S) - 1
        OBVIOUS
    <2>1. OneOf(S) \in S
        BY DEF OneOf
    <2> QED
        BY <1>1, <2>1, FS_RemoveElement
<1>3. 0 \in Q
    <2> DEFINE g == [S \in D(0) |-> 0]
    <2>1. \A S \in D(0) : S = {}
        <3> SUFFICES ASSUME NEW S \in D(0) PROVE S = {}
            OBVIOUS
        <3>1. Cardinality(S) = 0
            BY <1>1
        <3> QED
            BY <1>1, <3>1, FS_EmptySet
    <2>2. Upto(g, 0)
        BY <2>1
    <2> QED
        BY <2>2
<1>4. ASSUME NEW n \in Q PROVE n + 1 \in Q
    <2>1. n \in Nat
        OBVIOUS
    <2>2. PICK g : Upto(g, n)
        OBVIOUS
    <2> DEFINE h == [S \in D(n + 1) |-> IF S = {} THEN 0 ELSE f[OneOf(S)] + g[S \ {OneOf(S)}]]
    <2>3. \A S \in D(n + 1) : S # {} => S \ {OneOf(S)} \in D(n)
        <3> SUFFICES ASSUME NEW S \in D(n + 1), S # {} PROVE S \ {OneOf(S)} \in D(n)
            OBVIOUS
        <3>1. Cardinality(S \ {OneOf(S)}) = Cardinality(S) - 1 /\ Cardinality(S) \in Nat
            BY <1>1, <1>2
        <3>2. Cardinality(S) <= n + 1
            OBVIOUS
        <3> QED
            BY <1>2, <2>1, <3>1, <3>2
    <2>4. \A S \in D(n) : S \in D(n + 1) /\ h[S] = g[S]
        <3> SUFFICES ASSUME NEW S \in D(n) PROVE S \in D(n + 1) /\ h[S] = g[S]
            OBVIOUS
        <3>1. S \in D(n + 1)
            BY <1>1, <2>1
        <3>2. h[S] = IF S = {} THEN 0 ELSE f[OneOf(S)] + g[S \ {OneOf(S)}]
            BY <3>1
        <3>3. g[S] = IF S = {} THEN 0 ELSE f[OneOf(S)] + g[S \ {OneOf(S)}]
            BY <2>2
        <3> QED
            BY <3>1, <3>2, <3>3
    <2>5. Upto(h, n + 1)
        <3>1. \A S \in D(n + 1) : h[S] = IF S = {} THEN 0 ELSE f[OneOf(S)] + h[S \ {OneOf(S)}]
            BY <2>3, <2>4
        <3> HIDE DEF D
        <3> QED
            BY <3>1
    <2> HIDE DEF h, Upto
    <2> QED
        BY <2>1, <2>5
<1>5. Q = Nat
    <2>1. Q \in SUBSET Nat
        OBVIOUS
    <2> HIDE DEF Q
    <2> QED
        BY <1>3, <1>4, <2>1, AllNumbers
<1>6. Cardinality(T) \in Nat
    BY FS_CardinalityType
<1>7. D(Cardinality(T)) = SUBSET T
    BY <1>1, <1>6, FS_Subset
<1>8. PICK g : Upto(g, Cardinality(T))
    BY <1>5, <1>6
<1>9. Adds(g, f, T)
    BY <1>7, <1>8 DEF Adds, OneOf
<1> QED
    BY <1>9 DEF Sums

LEMMA SumsAre ==
    ASSUME NEW T, IsFiniteSet(T), NEW f
    PROVE  /\ Sums(f, T)[{}] = 0
           /\ \A S \in SUBSET T : S # {} =>
                  Sums(f, T)[S] = f[OneOf(S)] + Sums(f, T)[S \ {OneOf(S)}]
<1>1. Adds(Sums(f, T), f, T)
    BY SumsExist
<1> DEFINE g == Sums(f, T)
<1>2. g = [S \in SUBSET T |-> IF S = {} THEN 0 ELSE f[OneOf(S)] + g[S \ {OneOf(S)}]]
    BY <1>1 DEF Adds, OneOf
<1> HIDE DEF g
<1>3. \A S \in SUBSET T : g[S] = IF S = {} THEN 0 ELSE f[OneOf(S)] + g[S \ {OneOf(S)}]
    BY <1>2
<1>4. {} \in SUBSET T
    OBVIOUS
<1> QED
    BY <1>3, <1>4 DEF g

LEMMA SumsTyped ==
    ASSUME NEW T, IsFiniteSet(T), NEW f, \A x \in T : f[x] \in Nat
    PROVE  \A S \in SUBSET T : Sums(f, T)[S] \in Nat
<1> DEFINE P == {S \in SUBSET T : Sums(f, T)[S] \in Nat}
<1>1. {} \in P
    BY SumsAre
<1>2. ASSUME NEW S \in SUBSET T, S # {}, S \ {OneOf(S)} \in P PROVE S \in P
    <2>1. OneOf(S) \in T
        BY <1>2 DEF OneOf
    <2>2. Sums(f, T)[S] = f[OneOf(S)] + Sums(f, T)[S \ {OneOf(S)}]
        BY <1>2, SumsAre
    <2> QED
        BY <1>2, <2>1, <2>2
<1>3. P = SUBSET T
    <2>1. P \in SUBSET SUBSET T
        OBVIOUS
    <2> HIDE DEF P
    <2> QED
        BY <1>1, <1>2, <2>1, AllSubsets
<1> QED
    BY <1>3

\* One term grows, and with it each sum it is in.
LEMMA SumsRise ==
    ASSUME NEW T, IsFiniteSet(T), NEW f, NEW h, \A x \in T : f[x] \in Nat, NEW t, NEW n \in Nat,
           \A x \in T : h[x] = IF x = t THEN f[x] + n ELSE f[x]
    PROVE  \A S \in SUBSET T : Sums(h, T)[S] = Sums(f, T)[S] + IF t \in S THEN n ELSE 0
<1> DEFINE P == {S \in SUBSET T : Sums(h, T)[S] = Sums(f, T)[S] + IF t \in S THEN n ELSE 0}
<1>0. \A S \in SUBSET T : Sums(f, T)[S] \in Nat
    BY SumsTyped
<1>1. {} \in P
    BY SumsAre
<1>2. ASSUME NEW S \in SUBSET T, S # {}, S \ {OneOf(S)} \in P PROVE S \in P
    <2>1. OneOf(S) \in T /\ OneOf(S) \in S
        BY <1>2 DEF OneOf
    <2>2. /\ Sums(f, T)[S] = f[OneOf(S)] + Sums(f, T)[S \ {OneOf(S)}]
          /\ Sums(h, T)[S] = h[OneOf(S)] + Sums(h, T)[S \ {OneOf(S)}]
        BY <1>2, SumsAre
    <2>3. /\ f[OneOf(S)] \in Nat /\ Sums(f, T)[S \ {OneOf(S)}] \in Nat
          /\ h[OneOf(S)] = IF OneOf(S) = t THEN f[OneOf(S)] + n ELSE f[OneOf(S)]
          /\ Sums(h, T)[S \ {OneOf(S)}] =
                 Sums(f, T)[S \ {OneOf(S)}] + IF t \in S \ {OneOf(S)} THEN n ELSE 0
        BY <1>0, <1>2, <2>1
    <2>4. CASE OneOf(S) = t
        BY <2>1, <2>2, <2>3, <2>4
    <2>5. CASE OneOf(S) # t
        BY <2>1, <2>2, <2>3, <2>5
    <2> QED
        BY <2>4, <2>5
<1>3. P = SUBSET T
    <2>1. P \in SUBSET SUBSET T
        OBVIOUS
    <2> HIDE DEF P
    <2> QED
        BY <1>1, <1>2, <2>1, AllSubsets
<1> QED
    BY <1>3

LEMMA SumsVanish ==
    ASSUME NEW T, IsFiniteSet(T), NEW f, \A x \in T : f[x] = 0
    PROVE  \A S \in SUBSET T : Sums(f, T)[S] = 0
<1> DEFINE P == {S \in SUBSET T : Sums(f, T)[S] = 0}
<1>1. {} \in P
    BY SumsAre
<1>2. ASSUME NEW S \in SUBSET T, S # {}, S \ {OneOf(S)} \in P PROVE S \in P
    <2>1. OneOf(S) \in T
        BY <1>2 DEF OneOf
    <2>2. Sums(f, T)[S] = f[OneOf(S)] + Sums(f, T)[S \ {OneOf(S)}]
        BY <1>2, SumsAre
    <2> QED
        BY <1>2, <2>1, <2>2
<1>3. P = SUBSET T
    <2>1. P \in SUBSET SUBSET T
        OBVIOUS
    <2> HIDE DEF P
    <2> QED
        BY <1>1, <1>2, <2>1, AllSubsets
<1> QED
    BY <1>3

-----------------------------------------------------------------------------
(* The sum over one set.                                                   *)

SumOver(f, S) == Sums(f, S)[S]

\* A sum does not depend on the set its subsets are taken of.
LEMMA SumsAgree ==
    ASSUME NEW T, IsFiniteSet(T), NEW f
    PROVE  \A S \in SUBSET T : Sums(f, T)[S] = SumOver(f, S)
<1> SUFFICES ASSUME NEW U \in SUBSET T PROVE Sums(f, T)[U] = Sums(f, U)[U]
    BY DEF SumOver
<1> DEFINE P == {S \in SUBSET U : Sums(f, T)[S] = Sums(f, U)[S]}
<1>1. IsFiniteSet(U)
    BY FS_Subset
<1>2. {} \in P
    BY <1>1, SumsAre
<1>3. ASSUME NEW S \in SUBSET U, S # {}, S \ {OneOf(S)} \in P PROVE S \in P
    <2>1. Sums(f, T)[S] = f[OneOf(S)] + Sums(f, T)[S \ {OneOf(S)}]
        BY <1>3, SumsAre
    <2>2. Sums(f, U)[S] = f[OneOf(S)] + Sums(f, U)[S \ {OneOf(S)}]
        BY <1>1, <1>3, SumsAre
    <2> QED
        BY <1>3, <2>1, <2>2
<1>4. P = SUBSET U
    <2>1. P \in SUBSET SUBSET U
        OBVIOUS
    <2> HIDE DEF P
    <2> QED
        BY <1>1, <1>2, <1>3, <2>1, AllSubsets
<1> QED
    BY <1>4

LEMMA SumTyped ==
    ASSUME NEW S, IsFiniteSet(S), NEW f, \A x \in S : f[x] \in Nat
    PROVE  SumOver(f, S) \in Nat /\ SumOver(f, {}) = 0
<1>1. SumOver(f, S) \in Nat
    BY SumsTyped DEF SumOver
<1>2. SumOver(f, {}) = 0
    BY FS_EmptySet, SumsAre DEF SumOver
<1> QED
    BY <1>1, <1>2

LEMMA SumStep ==
    ASSUME NEW S, IsFiniteSet(S), S # {}, NEW f
    PROVE  OneOf(S) \in S /\ SumOver(f, S) = f[OneOf(S)] + SumOver(f, S \ {OneOf(S)})
<1>1. OneOf(S) \in S
    BY DEF OneOf
<1>2. SumOver(f, S) = f[OneOf(S)] + Sums(f, S)[S \ {OneOf(S)}]
    BY SumsAre DEF SumOver
<1>3. Sums(f, S)[S \ {OneOf(S)}] = SumOver(f, S \ {OneOf(S)})
    BY SumsAgree
<1> QED
    BY <1>1, <1>2, <1>3

\* Whichever element is taken first.
LEMMA SumWithout ==
    ASSUME NEW T, IsFiniteSet(T), NEW f, \A x \in T : f[x] \in Nat
    PROVE  \A x \in T : SumOver(f, T) = f[x] + SumOver(f, T \ {x})
<1> DEFINE Splits(S) == \A x \in S : SumOver(f, S) = f[x] + SumOver(f, S \ {x})
           Q == {n \in Nat : \A S \in SUBSET T : Cardinality(S) = n => Splits(S)}
<1>1. \A S \in SUBSET T : IsFiniteSet(S) /\ Cardinality(S) \in Nat
    BY FS_Subset, FS_CardinalityType
<1>2. \A S \in SUBSET T : SumOver(f, S) \in Nat
    <2> SUFFICES ASSUME NEW S \in SUBSET T PROVE SumOver(f, S) \in Nat
        OBVIOUS
    <2>1. \A x \in S : f[x] \in Nat
        OBVIOUS
    <2> QED
        BY <1>1, <2>1, SumTyped
<1>3. 0 \in Q
    BY <1>1, FS_EmptySet
<1>4. ASSUME NEW n \in Q PROVE n + 1 \in Q
    <2> SUFFICES ASSUME NEW S \in SUBSET T, Cardinality(S) = n + 1, NEW x \in S
                 PROVE  SumOver(f, S) = f[x] + SumOver(f, S \ {x})
        OBVIOUS
    <2> DEFINE o == OneOf(S)
    <2>1. o \in S /\ SumOver(f, S) = f[o] + SumOver(f, S \ {o})
        BY <1>1, SumStep
    <2> HIDE DEF o
    <2>2. CASE x = o
        BY <2>1, <2>2
    <2>3. CASE x # o
        <3>1. Cardinality(S \ {o}) = n /\ Cardinality(S \ {x}) = n
            <4>1. IsFiniteSet(S) /\ n \in Nat /\ (n + 1) - 1 = n
                BY <1>1
            <4>2. \A y \in S : Cardinality(S \ {y}) = Cardinality(S) - 1
                BY <4>1, FS_RemoveElement
            <4> QED
                BY <2>1, <4>1, <4>2
        <3>2. SumOver(f, S \ {o}) = f[x] + SumOver(f, (S \ {o}) \ {x})
            BY <2>3, <3>1
        <3>3. SumOver(f, S \ {x}) = f[o] + SumOver(f, (S \ {x}) \ {o})
            BY <2>1, <2>3, <3>1
        <3>4. (S \ {o}) \ {x} = (S \ {x}) \ {o}
            OBVIOUS
        <3>5. SumOver(f, (S \ {o}) \ {x}) \in Nat /\ f[o] \in Nat /\ f[x] \in Nat
            BY <1>2, <2>1
        <3> QED
            BY <2>1, <3>2, <3>3, <3>4, <3>5
    <2> QED
        BY <2>2, <2>3
<1>5. Q = Nat
    <2>1. Q \in SUBSET Nat
        OBVIOUS
    <2> HIDE DEF Q
    <2> QED
        BY <1>3, <1>4, <2>1, AllNumbers
<1>6. Cardinality(T) \in Nat
    BY <1>1
<1> QED
    BY <1>5, <1>6

\* A larger set has the larger sum, by one at least for every positive term.
LEMMA SumGrows ==
    ASSUME NEW T, IsFiniteSet(T), NEW R \in SUBSET T, NEW f, \A x \in T : f[x] \in Nat,
           NEW c \in {0, 1}, \A x \in T : f[x] >= c
    PROVE  /\ SumOver(f, R) <= SumOver(f, T)
           /\ c = 1 => SumOver(f, R) + Cardinality(T \ R) <= SumOver(f, T)
<1> DEFINE least(D) == IF c = 1 THEN Cardinality(D) ELSE 0
           P == {D \in SUBSET (T \ R) : SumOver(f, R) + least(D) <= SumOver(f, R \cup D)}
<1>1. \A S \in SUBSET T : /\ IsFiniteSet(S) /\ Cardinality(S) \in Nat
                          /\ SumOver(f, S) \in Nat
    <2> SUFFICES ASSUME NEW S \in SUBSET T
                 PROVE  /\ IsFiniteSet(S) /\ Cardinality(S) \in Nat
                        /\ SumOver(f, S) \in Nat
        OBVIOUS
    <2>1. IsFiniteSet(S) /\ \A x \in S : f[x] \in Nat
        BY FS_Subset
    <2> QED
        BY <2>1, FS_CardinalityType, SumTyped
<1>2. {} \in P
    <2>1. Cardinality({}) = 0 /\ R \cup {} = R /\ SumOver(f, R) \in Nat
        BY <1>1, FS_EmptySet
    <2> QED
        BY <2>1
<1>3. ASSUME NEW D \in SUBSET (T \ R), D # {}, D \ {OneOf(D)} \in P PROVE D \in P
    <2> DEFINE o == OneOf(D)
    <2>1. o \in D /\ o \in T /\ o \notin R
        BY <1>3 DEF OneOf
    <2>2. Cardinality(D \ {o}) = Cardinality(D) - 1 /\ Cardinality(D) \in Nat
        BY <1>1, <2>1, FS_RemoveElement
    <2>3. (R \cup D) \ {o} = R \cup (D \ {o})
        BY <2>1
    <2>4. SumOver(f, R \cup D) = f[o] + SumOver(f, (R \cup D) \ {o})
        <3>1. IsFiniteSet(R \cup D) /\ \A x \in R \cup D : f[x] \in Nat
            BY <1>1
        <3>2. o \in R \cup D
            BY <2>1
        <3> HIDE DEF o
        <3> QED
            BY <3>1, <3>2, SumWithout
    <2>5. SumOver(f, R) + least(D \ {o}) <= SumOver(f, R \cup (D \ {o}))
        BY <1>3
    <2>6. /\ SumOver(f, R) \in Nat /\ SumOver(f, R \cup (D \ {o})) \in Nat
          /\ f[o] \in Nat /\ f[o] >= c
        BY <1>1, <2>1
    <2> HIDE DEF o
    <2>7. SumOver(f, R) + least(D) <= SumOver(f, R \cup D)
        BY <2>2, <2>3, <2>4, <2>5, <2>6
    <2> QED
        BY <2>7
<1>4. P = SUBSET (T \ R)
    <2>1. P \in SUBSET SUBSET (T \ R) /\ IsFiniteSet(T \ R)
        BY <1>1
    <2> HIDE DEF P
    <2> QED
        BY <1>2, <1>3, <2>1, AllSubsets
<1>5. R \cup (T \ R) = T /\ T \ R \in P
    BY <1>4
<1>6. SumOver(f, R) + least(T \ R) <= SumOver(f, T)
    BY <1>5
<1> QED
    BY <1>1, <1>6
=============================================================================
