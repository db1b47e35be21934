--------------------------- MODULE FoldInduction ---------------------------
(***************************************************************************)
(* Induction over a fold, for the loops of the code that visit a set.      *)
(*                                                                         *)
(* Step and Inv are constants and not parameters of the theorem, so that   *)
(* an INSTANCE can give them: Step(e, x, b) is what the loop body makes of *)
(* b at the element x, Inv(e, s, b) what holds of b after the elements of  *)
(* s, and Pick the order of the loop.  e is whatever the body refers to    *)
(* outside of the loop.                                                    *)
(***************************************************************************)
EXTENDS Folds, FiniteSetTheorems, WellFoundedInduction, TLAPS

CONSTANTS Step(_, _, _), Pick(_), Inv(_, _, _)

\* The loop over S that begins with base.
Over(e, base, S) ==
  MapThenFoldSet(LAMBDA x, b : Step(e, x, b), base, LAMBDA x : x, Pick, S)

\* h is the recursion of the loop, on the sets of D.
Recursion(e, base, D, h) ==
  h = [s \in D |-> IF s = {} THEN base ELSE Step(e, Pick(s), h[s \ {Pick(s)}])]

\* Pick finds an element of every set it is asked for one.
Picks(S) == \A s \in SUBSET S : s # {} => Pick(s) \in s

UpTo(S, n) == {s \in SUBSET S : Cardinality(s) <= n}

\* A set of naturals has a least member.
LEMMA LeastMember ==
  ASSUME NEW T, T \subseteq Nat, T # {}
  PROVE  \E n \in T : \A m \in 0..n-1 : m \notin T
<1>1. PICK n \in T : \A m \in T : <<m, n>> \notin OpToRel(<, Nat)
  BY NatLessThanWellFounded, WFMin
<1>2. ASSUME NEW m \in 0..n-1 PROVE m \notin T
  <2>1. m \in Nat /\ m < n
    BY SMT
  <2>2. <<m, n>> \in OpToRel(<, Nat)
    BY <2>1, Zenon DEF OpToRel
  <2> QED
    BY <1>1, <2>2
<1> QED
  BY <1>2

\* A collection of subsets that has the empty set, and with a subset the one
\* with one more element, has the whole set.
LEMMA SetInduction ==
  ASSUME NEW S, IsFiniteSet(S), NEW G, {} \in G,
         \A s \in SUBSET S : \A x \in S \ s : s \in G => s \cup {x} \in G
  PROVE  S \in G
<1> DEFINE Bad == {n \in Nat : \E s \in SUBSET S : Cardinality(s) = n /\ s \notin G}
<1>1. SUFFICES ASSUME S \notin G PROVE FALSE
  OBVIOUS
<1>2. Cardinality(S) \in Bad
  BY <1>1, FS_CardinalityType
<1>3. PICK n \in Bad : \A m \in 0..n-1 : m \notin Bad
  <2>1. Bad \subseteq Nat /\ Bad # {}
    BY <1>2
  <2> HIDE DEF Bad
  <2> QED
    BY <2>1, LeastMember
<1>4. PICK s \in SUBSET S : Cardinality(s) = n /\ s \notin G
  BY <1>3
<1>5. PICK x : x \in s
  BY <1>4
<1>6. Cardinality(s \ {x}) = n - 1 /\ n \in Nat /\ n - 1 \in Nat
  <2>1. IsFiniteSet(s) /\ IsFiniteSet(s \ {x})
    BY <1>4, FS_Subset
  <2>2. Cardinality(s \ {x}) = n - 1 /\ Cardinality(s \ {x}) \in Nat
    BY <1>4, <1>5, <2>1, FS_RemoveElement, FS_CardinalityType, Zenon
  <2>3. n \in Nat
    BY <1>3
  <2> QED
    BY <2>2, <2>3
<1>7. n - 1 \in 0..n-1
  BY <1>6
<1>8. s \ {x} \in G
  BY <1>3, <1>6, <1>7
<1>9. (s \ {x}) \cup {x} = s /\ x \in S \ (s \ {x}) /\ s \ {x} \in SUBSET S
  BY <1>5
<1> QED
  BY <1>4, <1>8, <1>9

\* The fold is the recursion on the subsets of its set.
LEMMA OverIsRecursion ==
  ASSUME NEW e, NEW base, NEW S
  PROVE  Over(e, base, S) = (CHOOSE h : Recursion(e, base, SUBSET S, h))[S]
BY Zenon DEF Over, Recursion, MapThenFoldSet

\* The recursion goes on with a smaller set.
LEMMA Smaller ==
  ASSUME NEW S, IsFiniteSet(S), Picks(S), NEW s \in SUBSET S, s # {}
  PROVE  /\ Pick(s) \in s /\ s \ {Pick(s)} \in SUBSET S
         /\ Cardinality(s) \in Nat /\ Cardinality(s \ {Pick(s)}) = Cardinality(s) - 1
<1>1. Pick(s) \in s
  BY DEF Picks
<1>2. IsFiniteSet(s)
  BY FS_Subset
<1>3. Cardinality(s) \in Nat /\ Cardinality(s \ {Pick(s)}) = Cardinality(s) - 1
  BY <1>1, <1>2, FS_CardinalityType, FS_RemoveElement
<1> QED
  BY <1>1, <1>3

\* The recursion has a solution, because the set is finite.
LEMMA RecursionExists ==
  ASSUME NEW e, NEW base, NEW S, IsFiniteSet(S), Picks(S)
  PROVE  \E h : Recursion(e, base, SUBSET S, h)
<1> DEFINE Bad == {n \in Nat : ~ \E h : Recursion(e, base, UpTo(S, n), h)}
<1>1. \E h : Recursion(e, base, UpTo(S, 0), h)
  <2>1. \A s \in UpTo(S, 0) : s = {}
    BY FS_Subset, FS_EmptySet, FS_CardinalityType, SMT DEF UpTo
  <2> DEFINE h == [s \in UpTo(S, 0) |-> base]
  <2>2. h = [s \in UpTo(S, 0) |->
               IF s = {} THEN base ELSE Step(e, Pick(s), h[s \ {Pick(s)}])]
    BY <2>1, Zenon
  <2> QED
    BY <2>2, Zenon DEF Recursion
<1>2. ASSUME NEW n \in Nat, NEW g, Recursion(e, base, UpTo(S, n), g)
      PROVE  \E h : Recursion(e, base, UpTo(S, n + 1), h)
  <2> DEFINE R(k, s) == IF s = {} THEN base ELSE Step(e, Pick(s), k[s \ {Pick(s)}])
             h == [s \in UpTo(S, n + 1) |-> R(g, s)]
  <2>1. ASSUME NEW s \in UpTo(S, n) PROVE h[s] = g[s]
    <3>1. s \in UpTo(S, n + 1)
      BY FS_Subset, FS_CardinalityType, SMT DEF UpTo
    <3> QED
      BY <3>1, <1>2, Zenon DEF Recursion
  <2>2. ASSUME NEW s \in UpTo(S, n + 1), s # {} PROVE s \ {Pick(s)} \in UpTo(S, n)
    <3>1. s \in SUBSET S /\ Cardinality(s) <= n + 1
      BY DEF UpTo
    <3>2. /\ s \ {Pick(s)} \in SUBSET S /\ Cardinality(s) \in Nat
          /\ Cardinality(s \ {Pick(s)}) = Cardinality(s) - 1
      BY <2>2, <3>1, Smaller, Zenon
    <3> QED
      BY <3>1, <3>2, SMT DEF UpTo
  <2> HIDE DEF h
  <2>3. ASSUME NEW s \in UpTo(S, n + 1) PROVE R(g, s) = R(h, s)
    <3>1. CASE s = {}
      BY <3>1, Zenon
    <3>2. CASE s # {}
      BY <2>1, <2>2, <3>2, Zenon
    <3> QED
      BY <3>1, <3>2
  <2>4. h = [s \in UpTo(S, n + 1) |-> R(g, s)]
    BY DEF h
  <2> HIDE DEF R
  <2>5. h = [s \in UpTo(S, n + 1) |-> R(h, s)]
    BY <2>3, <2>4, Zenon
  <2> QED
    BY <2>5, Zenon DEF Recursion, R
<1>3. Bad = {}
  <2>1. SUFFICES ASSUME Bad # {} PROVE FALSE
    OBVIOUS
  <2>2. PICK n \in Bad : \A m \in 0..n-1 : m \notin Bad
    <3>1. Bad \subseteq Nat
      OBVIOUS
    <3> HIDE DEF Bad
    <3> QED
      BY <2>1, <3>1, LeastMember
  <2>3. n \in Nat /\ n # 0
    BY <1>1
  <2>4. n - 1 \in Nat /\ n - 1 \in 0..n-1 /\ (n - 1) + 1 = n
    BY <2>3
  <2>5. \E h : Recursion(e, base, UpTo(S, n - 1), h)
    BY <2>2, <2>4
  <2>6. \E h : Recursion(e, base, UpTo(S, n), h)
    BY <1>2, <2>4, <2>5, Zenon
  <2> QED
    BY <2>2, <2>6
<1>4. Cardinality(S) \in Nat /\ UpTo(S, Cardinality(S)) = SUBSET S
  BY FS_CardinalityType, FS_Subset DEF UpTo
<1>5. Cardinality(S) \notin Bad
  BY <1>3
<1> QED
  BY <1>4, <1>5

\* What holds before the loop, and of a longer part of it whenever it holds of
\* a shorter one, holds after the loop: for any loop body, order and finite set.
THEOREM FoldInduction ==
  ASSUME NEW e, NEW base, NEW S, IsFiniteSet(S), Picks(S),
         Inv(e, {}, base),
         \A s \in SUBSET S : \A b :
           s # {} /\ Inv(e, s \ {Pick(s)}, b) => Inv(e, s, Step(e, Pick(s), b))
  PROVE  Inv(e, S, Over(e, base, S))
<1> DEFINE h == CHOOSE g : Recursion(e, base, SUBSET S, g)
           Bad == {n \in Nat : \E s \in SUBSET S : Cardinality(s) = n /\ ~Inv(e, s, h[s])}
<1>1. Recursion(e, base, SUBSET S, h)
  BY RecursionExists, Zenon
<1>2. h[S] = Over(e, base, S)
  BY OverIsRecursion, Zenon
<1> HIDE DEF h
<1>3. Inv(e, {}, h[{}])
  <2>1. h[{}] = base
    BY <1>1, Zenon DEF Recursion
  <2> QED
    BY <2>1
<1>4. Bad = {}
  <2>1. SUFFICES ASSUME Bad # {} PROVE FALSE
    OBVIOUS
  <2>2. PICK n \in Bad : \A m \in 0..n-1 : m \notin Bad
    <3>1. Bad \subseteq Nat
      OBVIOUS
    <3> HIDE DEF Bad
    <3> QED
      BY <2>1, <3>1, LeastMember
  <2>3. PICK s \in SUBSET S : Cardinality(s) = n /\ ~Inv(e, s, h[s])
    BY <2>2
  <2>4. s # {}
    BY <1>3, <2>3
  <2>5. h[s] = Step(e, Pick(s), h[s \ {Pick(s)}])
    BY <1>1, <2>4, Zenon DEF Recursion
  <2>6. /\ s \ {Pick(s)} \in SUBSET S
        /\ Cardinality(s) \in Nat /\ Cardinality(s \ {Pick(s)}) = Cardinality(s) - 1
    BY <2>4, Smaller, Zenon
  <2>7. Cardinality(s \ {Pick(s)}) \in 0..n-1 /\ Cardinality(s \ {Pick(s)}) \in Nat
    BY <2>3, <2>6, FS_Subset, FS_CardinalityType
  <2>8. Inv(e, s \ {Pick(s)}, h[s \ {Pick(s)}])
    BY <2>2, <2>6, <2>7, Zenon
  <2> QED
    BY <2>3, <2>4, <2>5, <2>8, Zenon
<1>5. Cardinality(S) \in Nat
  BY FS_CardinalityType
<1>6. Inv(e, S, h[S])
  BY <1>4, <1>5
<1> QED
  BY <1>2, <1>6

\* Two loops agree where both are defined.
LEMMA RecursionUnique ==
  ASSUME NEW e, NEW base, NEW S, IsFiniteSet(S), Picks(S), NEW T \in SUBSET S
  PROVE  \A g, h : Recursion(e, base, SUBSET S, g) /\ Recursion(e, base, SUBSET T, h)
                   => g[T] = h[T]
<1> SUFFICES ASSUME NEW g, Recursion(e, base, SUBSET S, g),
                    NEW h, Recursion(e, base, SUBSET T, h)
             PROVE  g[T] = h[T]
  BY Zenon
<1> DEFINE Bad == {n \in Nat : \E s \in SUBSET T : Cardinality(s) = n /\ g[s] # h[s]}
<1>1. IsFiniteSet(T) /\ Picks(T)
  BY FS_Subset DEF Picks
<1>2. Bad = {}
  <2>1. SUFFICES ASSUME Bad # {} PROVE FALSE
    OBVIOUS
  <2>2. PICK n \in Bad : \A m \in 0..n-1 : m \notin Bad
    <3>1. Bad \subseteq Nat
      OBVIOUS
    <3> HIDE DEF Bad
    <3> QED
      BY <2>1, <3>1, LeastMember
  <2>3. PICK s \in SUBSET T : Cardinality(s) = n /\ g[s] # h[s]
    BY <2>2
  <2>4. s \in SUBSET S
    BY <2>3
  <2>5. s # {}
    BY <2>3, <2>4, Zenon DEF Recursion
  <2>6. /\ g[s] = Step(e, Pick(s), g[s \ {Pick(s)}])
        /\ h[s] = Step(e, Pick(s), h[s \ {Pick(s)}])
    BY <2>3, <2>4, <2>5, Zenon DEF Recursion
  <2>7. /\ s \ {Pick(s)} \in SUBSET T
        /\ Cardinality(s) \in Nat /\ Cardinality(s \ {Pick(s)}) = Cardinality(s) - 1
    BY <1>1, <2>3, <2>5, Smaller, Zenon
  <2>8. Cardinality(s \ {Pick(s)}) \in 0..n-1 /\ Cardinality(s \ {Pick(s)}) \in Nat
    BY <1>1, <2>3, <2>7, FS_Subset, FS_CardinalityType
  <2>9. g[s \ {Pick(s)}] = h[s \ {Pick(s)}]
    BY <2>2, <2>7, <2>8
  <2> QED
    BY <2>3, <2>6, <2>9
<1>3. Cardinality(T) \in Nat
  BY <1>1, FS_CardinalityType
<1> QED
  BY <1>2, <1>3

\* The last element of a loop, and the loop over the others before it.
THEOREM FoldUnroll ==
  ASSUME NEW e, NEW base, NEW S, IsFiniteSet(S), Picks(S)
  PROVE  Over(e, base, S) =
           IF S = {} THEN base ELSE Step(e, Pick(S), Over(e, base, S \ {Pick(S)}))
<1> DEFINE g == CHOOSE k : Recursion(e, base, SUBSET S, k)
           T == S \ {Pick(S)}
           h == CHOOSE k : Recursion(e, base, SUBSET T, k)
<1>1. IsFiniteSet(T) /\ Picks(T) /\ T \in SUBSET S
  BY FS_Subset DEF Picks
<1>2. Recursion(e, base, SUBSET S, g)
  BY RecursionExists, Zenon
<1>3. Over(e, base, S) = g[S]
  BY OverIsRecursion, Zenon
<1>4. Recursion(e, base, SUBSET T, h)
  <2> HIDE DEF T
  <2> QED
    BY <1>1, RecursionExists, Zenon
<1>5. Over(e, base, T) = h[T]
  <2> HIDE DEF T
  <2> QED
    BY OverIsRecursion, Zenon
<1> HIDE DEF g, h
<1>6. g[T] = h[T]
  <2> HIDE DEF T
  <2>1. \A f, k : Recursion(e, base, SUBSET S, f) /\ Recursion(e, base, SUBSET T, k)
                   => f[T] = k[T]
    BY <1>1, RecursionUnique
  <2> QED
    BY <1>2, <1>4, <2>1, Zenon
<1>7. g[S] = IF S = {} THEN base ELSE Step(e, Pick(S), g[T])
  BY <1>2, Zenon DEF Recursion
<1> QED
  BY <1>3, <1>5, <1>6, <1>7, Zenon
=============================================================================
