---------------------------- MODULE FiniteNumbers ----------------------------
(***************************************************************************)
(* Finite sets of numbers have a greatest and a least member, and a        *)
(* function on a finite set has a finite range.                            *)
(***************************************************************************)
EXTENDS Naturals, FiniteSets, FiniteSetTheorems, TLAPS

\* A finite set of numbers that is not empty has a greatest one: a smallest set
\* without one would have an element whose removal leaves a smaller such set.
LEMMA GreatestExists ==
    ASSUME NEW S \in SUBSET Nat, IsFiniteSet(S), S # {}
    PROVE  \E x \in S : \A y \in S : x >= y
<1> DEFINE Open(T) == \A x \in T : \E y \in T : ~(x >= y)
           Opens == { T \in FiniteSubsetsOf(Nat) : T # {} /\ Open(T) }
           Smaller == StrictSubsetOrdering(Nat)
<1>1. SUFFICES ASSUME Open(S) PROVE FALSE
  OBVIOUS
<1>2. S \in Opens
  BY <1>1 DEF FiniteSubsetsOf
<1>3. IsWellFoundedOn(Smaller, FiniteSubsetsOf(Nat))
  BY FS_StrictSubsetOrderingWellFounded
<1>4. PICK T \in Opens : \A U \in Opens : ~(<<U, T>> \in Smaller)
  <2> Opens \subseteq FiniteSubsetsOf(Nat)
    OBVIOUS
  <2> HIDE DEF Opens, Smaller
  <2> QED
    BY <1>2, <1>3, WFMin
<1>5. PICK x \in T : TRUE
  OBVIOUS
<1>6. T \subseteq Nat /\ IsFiniteSet(T \ {x})
  BY FS_RemoveElement DEF FiniteSubsetsOf
<1>7. T \ {x} \notin Opens
  BY <1>4, <1>5, <1>6 DEF StrictSubsetOrdering
<1>8. CASE T \ {x} = {}
  BY <1>5, <1>6, <1>8
<1>9. CASE T \ {x} # {}
  <2>1. PICK m \in T \ {x} : \A y \in T \ {x} : m >= y
    BY <1>6, <1>7, <1>9 DEF FiniteSubsetsOf
  <2>2. \/ \A y \in T : m >= y
        \/ \A y \in T : x >= y
    BY <2>1, <1>6
  <2> QED
    BY <1>5, <1>6, <2>1, <2>2
<1> QED
  BY <1>8, <1>9

\* A finite set of numbers that is not empty has a least one: a smallest set
\* without one would have an element whose removal leaves a smaller such set.
LEMMA LeastExists ==
    ASSUME NEW S \in SUBSET Nat, IsFiniteSet(S), S # {}
    PROVE  \E x \in S : \A y \in S : x =< y
<1> DEFINE Open(T) == \A x \in T : \E y \in T : ~(x =< y)
           Opens == { T \in FiniteSubsetsOf(Nat) : T # {} /\ Open(T) }
           Smaller == StrictSubsetOrdering(Nat)
<1>1. SUFFICES ASSUME Open(S) PROVE FALSE
  OBVIOUS
<1>2. S \in Opens
  BY <1>1 DEF FiniteSubsetsOf
<1>3. IsWellFoundedOn(Smaller, FiniteSubsetsOf(Nat))
  BY FS_StrictSubsetOrderingWellFounded
<1>4. PICK T \in Opens : \A U \in Opens : ~(<<U, T>> \in Smaller)
  <2> Opens \subseteq FiniteSubsetsOf(Nat)
    OBVIOUS
  <2> HIDE DEF Opens, Smaller
  <2> QED
    BY <1>2, <1>3, WFMin
<1>5. PICK x \in T : TRUE
  OBVIOUS
<1>6. T \subseteq Nat /\ IsFiniteSet(T \ {x})
  BY FS_RemoveElement DEF FiniteSubsetsOf
<1>7. T \ {x} \notin Opens
  BY <1>4, <1>5, <1>6 DEF StrictSubsetOrdering
<1>8. CASE T \ {x} = {}
  BY <1>5, <1>6, <1>8
<1>9. CASE T \ {x} # {}
  <2>1. PICK m \in T \ {x} : \A y \in T \ {x} : m =< y
    BY <1>6, <1>7, <1>9 DEF FiniteSubsetsOf
  <2>2. \/ \A y \in T : m =< y
        \/ \A y \in T : x =< y
    BY <2>1, <1>6
  <2> QED
    BY <1>5, <1>6, <2>1, <2>2
<1> QED
  BY <1>8, <1>9

\* The values of a function with a finite domain are finitely many.
LEMMA FiniteRange ==
    ASSUME NEW D, IsFiniteSet(D), NEW T, NEW f \in [D -> T], \A y \in T : \E x \in D : f[x] = y
    PROVE  IsFiniteSet(T)
<1>1. f \in Surjection(D, T)
  BY DEF Surjection
<1> QED
  BY <1>1, FS_Surjection

\* A set that a function numbers from 1 to n has n members.
LEMMA NumberedRange ==
    ASSUME NEW n \in Nat, NEW T, NEW f \in [1 .. n -> T],
           \A i, k \in 1 .. n : i # k => f[i] # f[k], \A y \in T : \E i \in 1 .. n : f[i] = y
    PROVE  IsFiniteSet(T) /\ Cardinality(T) = n
<1>1. IsFiniteSet(1 .. n) /\ Cardinality(1 .. n) = n
  BY FS_Interval
<1>2. f \in Surjection(1 .. n, T)
  BY DEF Surjection
<1>3. f \in Injection(1 .. n, T)
  BY DEF Injection, IsInjective
<1>4. IsFiniteSet(T)
  BY <1>1, <1>2, FS_Surjection
<1>5. Cardinality(T) = Cardinality(1 .. n)
  BY <1>1, <1>2, <1>3, FS_Surjection
<1> QED
  BY <1>1, <1>4, <1>5
=============================================================================
