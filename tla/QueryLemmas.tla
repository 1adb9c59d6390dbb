------------------------------ MODULE QueryLemmas ------------------------------
(***************************************************************************)
(* Lemmas about Queries that the proofs of several modules rest on: finite *)
(* sums, and lists that are ordered by a key and read by pages.            *)
(***************************************************************************)
EXTENDS Queries, SequencesExt, FunctionTheorems, FiniteSetTheorems, WellFoundedInduction, TLAPS

(***************************************************************************)
(* Least and greatest elements, from those that strict inclusion has among *)
(* the subsets of a finite set.                                            *)
(***************************************************************************)

\* Of some subsets of a finite set one has no other in it.
LEMMA Minimal ==
    ASSUME NEW S, IsFiniteSet(S), NEW C \in SUBSET SUBSET S, C # {}
    PROVE  \E T \in C : \A U \in C : U \subseteq T => U = T
<1>1. IsWellFoundedOn(StrictSubsetOrdering(S), FiniteSubsetsOf(S))
  BY FS_StrictSubsetOrderingWellFounded
<1>2. C \subseteq FiniteSubsetsOf(S)
  BY FS_FiniteSubsetsOfFinite
<1>3. PICK T \in C : \A U \in C : ~(<<U, T>> \in StrictSubsetOrdering(S))
  BY <1>1, <1>2, WFMin
<1>4. \A U \in C : U \subseteq T => U = T
  BY <1>3 DEF StrictSubsetOrdering
<1>5. QED
  BY <1>4

\* An interval is finite, from whichever number it starts.
LEMMA UpTo ==
    ASSUME NEW n \in Nat, NEW z, z = 0
    PROVE  IsFiniteSet(z .. n)
BY FS_Interval

\* Some numbers that are bounded have a least one and a greatest one.
LEMMA Extremes ==
    ASSUME NEW n \in Nat, NEW K \in SUBSET (0 .. n), K # {}
    PROVE  /\ \E k \in K : \A j \in K : k <= j
           /\ \E k \in K : \A j \in K : k >= j
<1> DEFINE All == 0 .. n
           Below == {T \in SUBSET All : \E k \in K : T = 0 .. k}
           Above == {T \in SUBSET All : \E k \in K : T = k .. n}
<1>1. IsFiniteSet(All)
  BY UpTo
<1>0. ASSUME NEW k \in K
      PROVE  k \in 0 .. n /\ 0 .. k \in Below /\ k .. n \in Above
  OBVIOUS
<1>2. Below \in SUBSET SUBSET All /\ Below # {}
  BY <1>0
<1>3. Above \in SUBSET SUBSET All /\ Above # {}
  BY <1>0
<1>4. \E k \in K : \A j \in K : k <= j
  <2> HIDE DEF Below, All
  <2>1. PICK T \in Below : \A U \in Below : U \subseteq T => U = T
    BY <1>1, <1>2, Minimal
  <2> USE DEF Below
  <2>2. PICK k \in K : T = 0 .. k
    OBVIOUS
  <2>3. ASSUME NEW j \in K, j < k
        PROVE  FALSE
    <3>1. 0 .. j \in Below /\ 0 .. j \subseteq T
      BY <1>0, <2>2, <2>3
    <3>2. 0 .. j = 0 .. k
      BY <2>1, <2>2, <3>1
    <3>3. k \in 0 .. k /\ k \notin 0 .. j
      BY <1>0, <2>3
    <3>4. QED
      BY <3>2, <3>3
  <2>4. QED
    BY <2>3
<1>5. \E k \in K : \A j \in K : k >= j
  <2> HIDE DEF Above, All
  <2>1. PICK T \in Above : \A U \in Above : U \subseteq T => U = T
    BY <1>1, <1>3, Minimal
  <2> USE DEF Above
  <2>2. PICK k \in K : T = k .. n
    OBVIOUS
  <2>3. ASSUME NEW j \in K, j > k
        PROVE  FALSE
    <3>1. j .. n \in Above /\ j .. n \subseteq T
      BY <1>0, <2>2, <2>3
    <3>2. j .. n = k .. n
      BY <2>1, <2>2, <3>1
    <3>3. k \in k .. n /\ k \notin j .. n
      BY <1>0, <2>3
    <3>4. QED
      BY <3>2, <3>3
  <2>4. QED
    BY <2>3
<1>6. QED
  BY <1>4, <1>5

(***************************************************************************)
(* Sums over a finite set.  What holds of every subset is shown by a least *)
(* counterexample.                                                         *)
(***************************************************************************)

Pick(s) == CHOOSE x \in s : TRUE

SumStep(f, g, s) == IF s = {} THEN 0 ELSE f[Pick(s)] + g[s \ {Pick(s)}]

\* The function that the recursion of a sum describes, on the subsets of S.
Unfolds(f, S, g) == g = [s \in SUBSET S |-> SumStep(f, g, s)]

Unfolding(f, S) == CHOOSE g : Unfolds(f, S, g)

\* The sum by its definition.
LEMMA SumIs ==
    ASSUME NEW f, NEW S
    PROVE  SumOf(f, S) = Unfolding(f, S)[S]
BY DEF SumOf, MapThenSumSet, MapThenFoldSet, SumStep, Pick, Unfolds, Unfolding

\* One value of the function.
LEMMA UnfoldsAt ==
    ASSUME NEW f, NEW S, NEW g, Unfolds(f, S, g), NEW s \in SUBSET S
    PROVE  /\ s = {} => g[s] = 0
           /\ s # {} => g[s] = f[Pick(s)] + g[s \ {Pick(s)}]
BY DEF Unfolds, SumStep

\* There is one at most.
LEMMA UnfoldsOnce ==
    ASSUME NEW f, NEW S, IsFiniteSet(S), NEW g, NEW h, Unfolds(f, S, g), Unfolds(f, S, h)
    PROVE  g = h
<1> DEFINE C == {T \in SUBSET S : g[T] # h[T]}
<1>0. C \in SUBSET SUBSET S
  OBVIOUS
<1>1. CASE C = {}
  <2>1. \A T \in SUBSET S : g[T] = h[T]
    BY <1>1
  <2>2. g = [s \in SUBSET S |-> g[s]] /\ h = [s \in SUBSET S |-> h[s]]
    BY DEF Unfolds
  <2>3. QED
    BY <2>1, <2>2
<1>2. CASE C # {}
  <2> HIDE DEF C
  <2>1. PICK T \in C : \A U \in C : U \subseteq T => U = T
    BY <1>0, <1>2, Minimal
  <2> USE DEF C
  <2>2. T \in SUBSET S /\ T # {}
    BY <2>1, UnfoldsAt
  <2>3. Pick(T) \in T
    BY <2>2 DEF Pick
  <2>4. g[T \ {Pick(T)}] = h[T \ {Pick(T)}]
    BY <2>1, <2>2, <2>3
  <2>5. g[T] = h[T]
    BY <2>2, <2>4, UnfoldsAt
  <2>6. QED
    BY <2>1, <2>5
<1>3. QED
  BY <1>1, <1>2

\* On fewer subsets it is the same.
LEMMA UnfoldsWithin ==
    ASSUME NEW f, NEW S, NEW g, Unfolds(f, S, g), NEW U \in SUBSET S
    PROVE  Unfolds(f, U, [s \in SUBSET U |-> g[s]])
<1> DEFINE h == [s \in SUBSET U |-> g[s]]
<1>1. ASSUME NEW s \in SUBSET U PROVE h[s] = SumStep(f, h, s)
  <2>1. s \ {Pick(s)} \in SUBSET U /\ s \in SUBSET S
    OBVIOUS
  <2>2. h[s] = g[s] /\ h[s \ {Pick(s)}] = g[s \ {Pick(s)}]
    BY <2>1
  <2>3. QED
    BY <2>1, <2>2, UnfoldsAt DEF SumStep
<1>2. QED
  BY <1>1 DEF Unfolds

\* At a subset it is what it is on the subsets of that one alone.
LEMMA UnfoldsAlike ==
    ASSUME NEW f, NEW S, IsFiniteSet(S), NEW g, Unfolds(f, S, g), NEW U \in SUBSET S
    PROVE  Unfolds(f, U, Unfolding(f, U)) /\ g[U] = Unfolding(f, U)[U]
<1> DEFINE h == [s \in SUBSET U |-> g[s]]
<1>1. Unfolds(f, U, h)
  BY UnfoldsWithin
<1>2. IsFiniteSet(U)
  BY FS_Subset
<1>3. Unfolds(f, U, Unfolding(f, U))
  BY <1>1 DEF Unfolding
<1> HIDE DEF h
<1>4. h = Unfolding(f, U)
  BY <1>1, <1>2, <1>3, UnfoldsOnce
<1>5. QED
  BY <1>3, <1>4 DEF h

\* There is one.
LEMMA UnfoldsExist ==
    ASSUME NEW f, NEW S, IsFiniteSet(S)
    PROVE  Unfolds(f, S, Unfolding(f, S))
<1> DEFINE C == {T \in SUBSET S : ~Unfolds(f, T, Unfolding(f, T))}
<1>0. C \in SUBSET SUBSET S
  OBVIOUS
<1>1. CASE C = {}
  BY <1>1
<1>2. CASE C # {}
  <2> HIDE DEF C
  <2>1. PICK T \in C : \A U \in C : U \subseteq T => U = T
    BY <1>0, <1>2, Minimal
  <2> USE DEF C
  <2> DEFINE h == [s \in SUBSET T |->
                    IF s = {} THEN 0
                    ELSE f[Pick(s)] + Unfolding(f, s \ {Pick(s)})[s \ {Pick(s)}]]
  <2>2. ASSUME NEW s \in SUBSET T PROVE h[s] = SumStep(f, h, s)
    <3>1. CASE s = {}
      BY <3>1 DEF SumStep
    <3>2. CASE s # {}
      <4> DEFINE U == s \ {Pick(s)}
                 g == Unfolding(f, U)
                 V == U \ {Pick(U)}
      <4>1. U \in SUBSET T /\ U # T /\ U \in SUBSET S /\ IsFiniteSet(U)
        BY <3>2, FS_Subset DEF Pick
      <4>2. Unfolds(f, U, g)
        BY <2>1, <4>1
      <4>3. h[U] = IF U = {} THEN 0 ELSE f[Pick(U)] + Unfolding(f, V)[V]
        BY <4>1
      <4>4. V \in SUBSET U
        OBVIOUS
      <4> HIDE DEF h, V, g, U
      <4>5. g[V] = Unfolding(f, V)[V]
        BY <4>1, <4>2, <4>4, UnfoldsAlike
      <4>6. h[U] = g[U]
        <5>1. U \in SUBSET U
          OBVIOUS
        <5>2. /\ U = {} => g[U] = 0
              /\ U # {} => g[U] = f[Pick(U)] + g[U \ {Pick(U)}]
          BY <4>2, <5>1, UnfoldsAt
        <5>3. U # {} => g[U] = f[Pick(U)] + g[V]
          BY <5>2 DEF V
        <5>4. QED
          BY <4>3, <4>5, <5>2, <5>3
      <4>7. QED
        BY <3>2, <4>6 DEF SumStep, h, g, U
    <3>3. QED
      BY <3>1, <3>2
  <2>3. Unfolds(f, T, h)
    BY <2>2 DEF Unfolds
  <2> HIDE DEF h
  <2>4. Unfolds(f, T, Unfolding(f, T))
    BY <2>3 DEF Unfolding
  <2>5. QED
    BY <2>1, <2>4
<1>3. QED
  BY <1>1, <1>2

\* A sum begins with whichever is picked.
LEMMA SumUnfolds ==
    ASSUME NEW f, NEW S, IsFiniteSet(S)
    PROVE  /\ S = {} => SumOf(f, S) = 0
           /\ S # {} => SumOf(f, S) = f[Pick(S)] + SumOf(f, S \ {Pick(S)})
<1>1. Unfolds(f, S, Unfolding(f, S)) /\ S \in SUBSET S
  BY UnfoldsExist
<1>2. S \ {Pick(S)} \in SUBSET S
  OBVIOUS
<1>3. Unfolding(f, S)[S \ {Pick(S)}] = Unfolding(f, S \ {Pick(S)})[S \ {Pick(S)}]
  BY <1>1, <1>2, UnfoldsAlike
<1>4. QED
  BY <1>1, <1>3, SumIs, UnfoldsAt

LEMMA SumOfNone ==
    ASSUME NEW f
    PROVE  SumOf(f, {}) = 0
BY FS_EmptySet, SumUnfolds

\* A sum of numbers is one, and of naturals.
LEMMA SumType ==
    ASSUME NEW f, NEW S, IsFiniteSet(S), \A x \in S : f[x] \in Int
    PROVE  SumOf(f, S) \in Int
<1> DEFINE C == {T \in SUBSET S : SumOf(f, T) \notin Int}
<1>0. C \in SUBSET SUBSET S
  OBVIOUS
<1>1. CASE C = {}
  BY <1>1
<1>2. CASE C # {}
  <2> HIDE DEF C
  <2>1. PICK T \in C : \A U \in C : U \subseteq T => U = T
    BY <1>0, <1>2, Minimal
  <2> USE DEF C
  <2>2. T \in SUBSET S /\ IsFiniteSet(T)
    BY <2>1, FS_Subset
  <2>3. T # {}
    <3>1. SumOf(f, T) \notin Int
      BY <2>1
    <3> HIDE DEF C
    <3>2. T = {} => SumOf(f, T) = 0
      BY SumOfNone
    <3>3. QED
      BY <3>1, <3>2
  <2>4. Pick(T) \in T /\ SumOf(f, T) = f[Pick(T)] + SumOf(f, T \ {Pick(T)})
    <3> HIDE DEF C
    <3>1. Pick(T) \in T
      BY <2>3 DEF Pick
    <3>2. QED
      BY <2>2, <2>3, <3>1, SumUnfolds
  <2>5. SumOf(f, T \ {Pick(T)}) \in Int
    BY <2>1, <2>2, <2>4
  <2>6. QED
    BY <2>1, <2>2, <2>4, <2>5
<1>3. QED
  BY <1>1, <1>2

\* Any one can be taken out of a sum.
LEMMA SumWithout ==
    ASSUME NEW f, NEW S, IsFiniteSet(S), \A x \in S : f[x] \in Int, NEW y \in S
    PROVE  SumOf(f, S) = f[y] + SumOf(f, S \ {y})
<1> DEFINE Wrong(T, x) == SumOf(f, T) # f[x] + SumOf(f, T \ {x})
           C == {T \in SUBSET S : \E x \in T : Wrong(T, x)}
<1>0. C \in SUBSET SUBSET S
  OBVIOUS
<1>1. CASE C = {}
  BY <1>1
<1>2. CASE C # {}
  <2> HIDE DEF C
  <2>1. PICK T \in C : \A U \in C : U \subseteq T => U = T
    BY <1>0, <1>2, Minimal
  <2> USE DEF C
  <2>2. PICK x \in T : Wrong(T, x)
    BY <2>1
  <2> DEFINE p == Pick(T)
             R == (T \ {p}) \ {x}
  <2>3. T \in SUBSET S /\ IsFiniteSet(T) /\ p \in T /\ SumOf(f, T) = f[p] + SumOf(f, T \ {p})
    <3>1. T \in SUBSET S /\ IsFiniteSet(T) /\ T # {}
      BY <2>1, FS_Subset
    <3>2. QED
      BY <3>1, SumUnfolds DEF Pick
  <2>4. x # p
    BY <2>2, <2>3
  <2> HIDE DEF p
  <2>5. T \ {p} \in SUBSET S /\ T \ {p} # T /\ T \ {x} \in SUBSET S /\ T \ {x} # T
        /\ x \in T \ {p} /\ p \in T \ {x}
    BY <2>3, <2>4
  <2>6. ~Wrong(T \ {p}, x) /\ ~Wrong(T \ {x}, p)
    BY <2>1, <2>5
  <2>7. SumOf(f, T \ {p}) = f[x] + SumOf(f, R) /\ (T \ {x}) \ {p} = R
    BY <2>6
  <2>8. SumOf(f, T \ {x}) = f[p] + SumOf(f, R)
    BY <2>6, <2>7
  <2>9. SumOf(f, R) \in Int /\ f[p] \in Int /\ f[x] \in Int
    <3>1. IsFiniteSet(R) /\ R \subseteq S
      BY <2>3, FS_Subset
    <3>2. QED
      BY <2>3, <3>1, SumType
  <2> HIDE DEF R
  <2>10. SumOf(f, T) = f[x] + SumOf(f, T \ {x})
    BY <2>3, <2>7, <2>8, <2>9
  <2>11. QED
    BY <2>2, <2>10
<1>3. QED
  BY <1>1, <1>2

\* A sum of naturals is a natural.
LEMMA SumNat ==
    ASSUME NEW f, NEW S, IsFiniteSet(S), \A x \in S : f[x] \in Nat
    PROVE  SumOf(f, S) \in Nat
<1> DEFINE C == {T \in SUBSET S : SumOf(f, T) \notin Nat}
<1>0. C \in SUBSET SUBSET S
  OBVIOUS
<1>1. CASE C = {}
  BY <1>1
<1>2. CASE C # {}
  <2> HIDE DEF C
  <2>1. PICK T \in C : \A U \in C : U \subseteq T => U = T
    BY <1>0, <1>2, Minimal
  <2> USE DEF C
  <2>2. T \in SUBSET S /\ IsFiniteSet(T)
    BY <2>1, FS_Subset
  <2>3. T # {}
    <3>1. T = {} => SumOf(f, T) = 0
      BY <2>2, SumUnfolds
    <3>2. QED
      BY <2>1, <3>1
  <2>4. Pick(T) \in T /\ SumOf(f, T) = f[Pick(T)] + SumOf(f, T \ {Pick(T)})
    BY <2>2, <2>3, SumUnfolds DEF Pick
  <2>5. SumOf(f, T \ {Pick(T)}) \in Nat
    BY <2>1, <2>2, <2>4
  <2>6. QED
    BY <2>1, <2>2, <2>4, <2>5
<1>3. QED
  BY <1>1, <1>2

\* Nothing sums to nothing.
LEMMA SumZero ==
    ASSUME NEW f, NEW S, IsFiniteSet(S), \A x \in S : f[x] = 0
    PROVE  SumOf(f, S) = 0
<1> DEFINE C == {T \in SUBSET S : SumOf(f, T) # 0}
<1>0. C \in SUBSET SUBSET S
  OBVIOUS
<1>1. CASE C = {}
  BY <1>1
<1>2. CASE C # {}
  <2> HIDE DEF C
  <2>1. PICK T \in C : \A U \in C : U \subseteq T => U = T
    BY <1>0, <1>2, Minimal
  <2> USE DEF C
  <2>2. T \in SUBSET S /\ IsFiniteSet(T)
    BY <2>1, FS_Subset
  <2>3. T # {}
    <3>1. T = {} => SumOf(f, T) = 0
      BY <2>2, SumUnfolds
    <3>2. QED
      BY <2>1, <3>1
  <2>4. Pick(T) \in T /\ SumOf(f, T) = f[Pick(T)] + SumOf(f, T \ {Pick(T)})
    BY <2>2, <2>3, SumUnfolds DEF Pick
  <2>5. SumOf(f, T \ {Pick(T)}) = 0
    BY <2>1, <2>2, <2>4
  <2>6. QED
    BY <2>1, <2>2, <2>4, <2>5
<1>3. QED
  BY <1>1, <1>2

\* Two parts of a set sum to the sum of the whole.
LEMMA SumOfParts ==
    ASSUME NEW f, NEW A, NEW B, IsFiniteSet(A), IsFiniteSet(B), A \cap B = {},
           \A x \in A \cup B : f[x] \in Int
    PROVE  SumOf(f, A \cup B) = SumOf(f, A) + SumOf(f, B)
<1> DEFINE C == {T \in SUBSET B : SumOf(f, A \cup T) # SumOf(f, A) + SumOf(f, T)}
<1>0. C \in SUBSET SUBSET B
  OBVIOUS
<1>1. CASE C = {}
  BY <1>1
<1>2. CASE C # {}
  <2> HIDE DEF C
  <2>1. PICK T \in C : \A U \in C : U \subseteq T => U = T
    BY <1>0, <1>2, Minimal
  <2> USE DEF C
  <2>2. T \in SUBSET B /\ IsFiniteSet(T) /\ IsFiniteSet(A \cup T) /\ SumOf(f, A) \in Int
    <3>1. T \in SUBSET B /\ IsFiniteSet(T)
      BY <2>1, FS_Subset
    <3>2. QED
      BY <3>1, FS_Union, SumType
  <2>3. T # {}
    <3>1. ASSUME T = {} PROVE FALSE
      <4>1. SumOf(f, T) = 0
        BY <2>2, <3>1, SumUnfolds
      <4>2. A \cup T = A
        BY <3>1
      <4>3. SumOf(f, A \cup T) = SumOf(f, A)
        BY <4>2
      <4>4. QED
        BY <2>1, <2>2, <4>1, <4>3
    <3>2. QED
      BY <3>1
  <2>4. PICK x \in T : TRUE
    BY <2>3
  <2>5. SumOf(f, T) = f[x] + SumOf(f, T \ {x})
    BY <2>2, <2>4, SumWithout
  <2>6. SumOf(f, A \cup T) = f[x] + SumOf(f, (A \cup T) \ {x}) /\ (A \cup T) \ {x} = A \cup (T \ {x})
    <3>1. x \in A \cup T /\ \A y \in A \cup T : f[y] \in Int
      BY <2>2, <2>4
    <3>2. (A \cup T) \ {x} = A \cup (T \ {x})
      BY <2>2, <2>4
    <3>3. QED
      BY <2>2, <3>1, <3>2, SumWithout
  <2>7. SumOf(f, A \cup (T \ {x})) = SumOf(f, A) + SumOf(f, T \ {x})
    <3>1. T \ {x} \in SUBSET B /\ T \ {x} \subseteq T /\ T \ {x} # T
      BY <2>2, <2>4
    <3>2. QED
      BY <2>1, <3>1
  <2>8. SumOf(f, T \ {x}) \in Int /\ f[x] \in Int
    <3>1. IsFiniteSet(T \ {x}) /\ \A y \in T \ {x} : f[y] \in Int
      BY <2>2, FS_Subset
    <3>2. QED
      BY <2>2, <2>4, <3>1, SumType
  <2>9. QED
    BY <2>1, <2>2, <2>5, <2>6, <2>7, <2>8
<1>3. QED
  BY <1>1, <1>2

Moved(T, k) == {i + k : i \in T}

\* g has k further on what f has.
Moves(f, g, S, k) == k \in Int /\ \A i \in S : i \in Int /\ f[i] \in Int /\ g[i + k] = f[i]

\* Another numbering of the same numbers has the same sum.
LEMMA SumRenumbered ==
    ASSUME NEW f, NEW g, NEW S, IsFiniteSet(S), NEW k, Moves(f, g, S, k)
    PROVE  SumOf(g, Moved(S, k)) = SumOf(f, S)
<1> DEFINE C == {T \in SUBSET S : SumOf(g, Moved(T, k)) # SumOf(f, T)}
<1>0. C \in SUBSET SUBSET S
  OBVIOUS
<1>1. CASE C = {}
  BY <1>1
<1>2. CASE C # {}
  <2> HIDE DEF C
  <2>1. PICK T \in C : \A U \in C : U \subseteq T => U = T
    BY <1>0, <1>2, Minimal
  <2> USE DEF C
  <2>2. T \in SUBSET S /\ IsFiniteSet(T) /\ IsFiniteSet(Moved(T, k))
    <3>1. T \in SUBSET S /\ IsFiniteSet(T)
      BY <2>1, FS_Subset
    <3> DEFINE move == [i \in T |-> i + k]
    <3>2. move \in Surjection(T, Moved(T, k))
      BY DEF Surjection, Moved
    <3> HIDE DEF move
    <3>3. QED
      BY <3>1, <3>2, FS_Surjection
  <2>3. T # {}
    <3>1. T = {} => Moved(T, k) = {}
      BY DEF Moved
    <3>2. SumOf(g, Moved(T, k)) # SumOf(f, T)
      BY <2>1
    <3> HIDE DEF C
    <3>3. T = {} => SumOf(g, Moved(T, k)) = 0 /\ SumOf(f, T) = 0
      BY <3>1, SumOfNone
    <3>4. QED
      BY <3>2, <3>3
  <2>4. PICK i \in T : TRUE
    BY <2>3
  <2>5. SumOf(f, T) = f[i] + SumOf(f, T \ {i})
    <3>1. \A x \in T : f[x] \in Int
      BY <2>2 DEF Moves
    <3>2. QED
      BY <2>2, <2>4, <3>1, SumWithout
  <2>6. /\ \A j \in T : j \in Int /\ f[j] \in Int /\ g[j + k] = f[j]
        /\ k \in Int
    BY <2>2 DEF Moves
  <2>7. /\ Moved(T, k) \ {i + k} = Moved(T \ {i}, k) /\ i + k \in Moved(T, k)
        /\ \A j \in Moved(T, k) : g[j] \in Int
    <3> HIDE DEF C
    <3>1. ASSUME NEW j \in T, j # i PROVE j + k # i + k
      <4>1. i \in Int /\ j \in Int /\ k \in Int
        BY <2>4, <2>6
      <4>2. QED
        BY <3>1, <4>1
    <3>2. Moved(T, k) \ {i + k} = Moved(T \ {i}, k)
      BY <3>1 DEF Moved
    <3>3. i + k \in Moved(T, k)
      BY DEF Moved
    <3>4. \A j \in Moved(T, k) : g[j] \in Int
      BY <2>6 DEF Moved
    <3>5. QED
      BY <3>2, <3>3, <3>4
  <2>8. SumOf(g, Moved(T, k)) = g[i + k] + SumOf(g, Moved(T \ {i}, k))
    <3> DEFINE U == Moved(T, k)
               V == Moved(T \ {i}, k)
               x == i + k
    <3>1. /\ IsFiniteSet(U) /\ x \in U /\ U \ {x} = V
          /\ \A j \in U : g[j] \in Int
      BY <2>2, <2>7
    <3> HIDE DEF C, U, V, x
    <3>2. SumOf(g, U) = g[x] + SumOf(g, U \ {x})
      BY <3>1, SumWithout
    <3>3. QED
      BY <3>1, <3>2 DEF U, V, x
  <2>9. SumOf(g, Moved(T \ {i}, k)) = SumOf(f, T \ {i})
    <3>1. T \ {i} \in SUBSET S /\ T \ {i} \subseteq T /\ T \ {i} # T
      BY <2>2, <2>4
    <3>2. QED
      BY <2>1, <3>1
  <2>10. QED
    BY <2>1, <2>4, <2>5, <2>6, <2>8, <2>9
<1>3. QED
  BY <1>1, <1>2

\* Sums of the same numbers.
LEMMA SumSame ==
    ASSUME NEW f, NEW g, NEW S, IsFiniteSet(S), \A x \in S : f[x] = g[x]
    PROVE  SumOf(f, S) = SumOf(g, S)
<1> DEFINE C == {T \in SUBSET S : SumOf(f, T) # SumOf(g, T)}
<1>0. C \in SUBSET SUBSET S
  OBVIOUS
<1>1. CASE C = {}
  BY <1>1
<1>2. CASE C # {}
  <2> HIDE DEF C
  <2>1. PICK T \in C : \A U \in C : U \subseteq T => U = T
    BY <1>0, <1>2, Minimal
  <2> USE DEF C
  <2>2. T \in SUBSET S /\ IsFiniteSet(T)
    BY <2>1, FS_Subset
  <2>3. T # {}
    BY <2>1, <2>2, SumUnfolds
  <2>4. Pick(T) \in T /\ SumOf(f, T) = f[Pick(T)] + SumOf(f, T \ {Pick(T)})
        /\ SumOf(g, T) = g[Pick(T)] + SumOf(g, T \ {Pick(T)})
    BY <2>2, <2>3, SumUnfolds DEF Pick
  <2>5. SumOf(f, T \ {Pick(T)}) = SumOf(g, T \ {Pick(T)})
    BY <2>1, <2>2, <2>4
  <2>6. QED
    BY <2>1, <2>2, <2>4, <2>5
<1>3. QED
  BY <1>1, <1>2

(***************************************************************************)
(* Rows in an order.  The place of a row is how many are ahead of it.      *)
(***************************************************************************)

\* Of any two rows one is ahead of the other, and of all that is behind that one.
Orders(ahead, S) ==
    /\ IsFiniteSet(S)
    /\ \A r \in S : r \notin ahead[r]
    /\ \A r, s \in S : r = s \/ r \in ahead[s] \/ s \in ahead[r]
    /\ \A r, s, t \in S : r \in ahead[s] /\ s \in ahead[t] => r \in ahead[t]

Place(S, ahead, r) == Cardinality(S \cap ahead[r])

\* An order of some rows is one of fewer.
LEMMA OrdersFewer ==
    ASSUME NEW ahead, NEW S, Orders(ahead, S), NEW T \in SUBSET S
    PROVE  Orders(ahead, T)
<1>1. IsFiniteSet(T)
  BY FS_Subset DEF Orders
<1>2. QED
  BY <1>1 DEF Orders

\* A row has a place among as many as there are, and one that is ahead has an earlier one.
LEMMA PlaceIs ==
    ASSUME NEW ahead, NEW S, Orders(ahead, S), NEW r \in S
    PROVE  /\ Cardinality(S) \in Nat
           /\ Place(S, ahead, r) \in 0 .. Cardinality(S) - 1
           /\ \A s \in S \cap ahead[r] : Place(S, ahead, s) < Place(S, ahead, r)
<1> DEFINE B == S \cap ahead[r]
<1>1. IsFiniteSet(S) /\ IsFiniteSet(B) /\ Cardinality(B) \in Nat /\ Cardinality(S) \in Nat
  <2>1. IsFiniteSet(S) /\ B \in SUBSET S
    BY DEF Orders
  <2>2. QED
    BY <2>1, FS_Subset, FS_CardinalityType
<1>2. r \notin B
  BY DEF Orders
<1>3. Cardinality(B \cup {r}) = Cardinality(B) + 1 /\ IsFiniteSet(B \cup {r})
  BY <1>1, <1>2, FS_AddElement
<1>4. Cardinality(B \cup {r}) <= Cardinality(S)
  <2>1. B \cup {r} \in SUBSET S
    OBVIOUS
  <2>2. QED
    BY <1>1, <2>1, FS_Subset
<1>5. ASSUME NEW s \in B PROVE Cardinality(S \cap ahead[s]) < Cardinality(B)
  <2> DEFINE A == S \cap ahead[s]
  <2>1. A \cup {s} \in SUBSET B /\ s \notin A
    BY DEF Orders
  <2>2. IsFiniteSet(A)
    BY <1>1, <2>1, FS_Subset
  <2>3. Cardinality(A) \in Nat /\ Cardinality(A \cup {s}) = Cardinality(A) + 1
    BY <2>1, <2>2, FS_AddElement, FS_CardinalityType
  <2>4. Cardinality(A \cup {s}) <= Cardinality(B)
    BY <1>1, <2>1, FS_Subset
  <2> HIDE DEF A, B
  <2>5. QED
    BY <1>1, <2>3, <2>4 DEF A
<1> HIDE DEF B
<1>6. Cardinality(B) \in 0 .. Cardinality(S) - 1
  BY <1>1, <1>3, <1>4
<1>7. QED
  BY <1>1, <1>5, <1>6 DEF B, Place

\* No two have the same place.
LEMMA PlacesDiffer ==
    ASSUME NEW ahead, NEW S, Orders(ahead, S), NEW r \in S, NEW s \in S,
           Place(S, ahead, r) = Place(S, ahead, s)
    PROVE  r = s
<1>1. Place(S, ahead, r) \in Int /\ Place(S, ahead, s) \in Int
  BY PlaceIs
<1>2. r \in ahead[s] => Place(S, ahead, r) < Place(S, ahead, s)
  BY PlaceIs
<1>3. s \in ahead[r] => Place(S, ahead, s) < Place(S, ahead, r)
  BY PlaceIs
<1>4. QED
  BY <1>1, <1>2, <1>3 DEF Orders

\* Every place is somebody's.
LEMMA PlacesTaken ==
    ASSUME NEW ahead, NEW S, Orders(ahead, S), NEW n, n = Cardinality(S), NEW k \in 0 .. n - 1
    PROVE  \E r \in S : Place(S, ahead, r) = k
<1> DEFINE places == 0 .. n - 1
           f == [r \in S |-> Place(S, ahead, r)]
<1>1. n \in Nat /\ IsFiniteSet(S)
  BY FS_CardinalityType DEF Orders
<1>2. IsFiniteSet(places) /\ Cardinality(places) = n
  BY <1>1, FS_Interval
<1>3. f \in Injection(S, places)
  <2>1. f \in [S -> places]
    BY PlaceIs
  <2>2. \A r, s \in S : f[r] = f[s] => r = s
    BY PlacesDiffer
  <2> HIDE DEF f, places
  <2>3. QED
    BY <2>1, <2>2 DEF Injection, IsInjective
<1> HIDE DEF places
<1>4. f \in Surjection(S, places)
  <2> HIDE DEF f
  <2>1. QED
    BY <1>2, <1>3, FS_Injection
<1>5. k \in places
  BY DEF places
<1>6. QED
  BY <1>4, <1>5 DEF Surjection

\* What ORDER BY makes of a set of rows: each of them once, at its place.
LEMMA OrderByIs ==
    ASSUME NEW ahead, NEW S, Orders(ahead, S), NEW o, o = OrderBy(S, ahead)
    PROVE  /\ o \in Seq(S) /\ Len(o) = Cardinality(S) /\ Cardinality(S) \in Nat
           /\ \A k \in 1 .. Cardinality(S) : o[k] \in S /\ Place(S, ahead, o[k]) = k - 1
           /\ \A r \in S : /\ Place(S, ahead, r) + 1 \in 1 .. Cardinality(S)
                           /\ o[Place(S, ahead, r) + 1] = r
<1> DEFINE n == Cardinality(S)
           placed == {<<r, Cardinality(S \cap ahead[r])>> : r \in S}
<1>1. n \in Nat
  BY FS_CardinalityType DEF Orders
<1>2. o = [k \in 1 .. n |-> CHOOSE r \in S : <<r, k - 1>> \in placed]
  BY DEF OrderBy
<1>3. ASSUME NEW r \in S, NEW k PROVE <<r, k>> \in placed <=> Place(S, ahead, r) = k
  BY DEF Place
<1> HIDE DEF n, placed
<1>4. ASSUME NEW k \in 1 .. n PROVE o[k] \in S /\ Place(S, ahead, o[k]) = k - 1
  <2>1. k - 1 \in 0 .. n - 1
    BY <1>1
  <2>2. \E r \in S : Place(S, ahead, r) = k - 1
    BY <2>1, PlacesTaken DEF n
  <2>3. \E r \in S : <<r, k - 1>> \in placed
    BY <1>3, <2>2
  <2>4. o[k] = CHOOSE r \in S : <<r, k - 1>> \in placed
    BY <1>2
  <2>5. o[k] \in S /\ <<o[k], k - 1>> \in placed
    BY <2>3, <2>4
  <2>6. QED
    BY <1>3, <2>5
<1>5. o \in Seq(S) /\ Len(o) = n
  <2>1. o \in [1 .. n -> S]
    BY <1>2, <1>4
  <2>2. QED
    BY <1>1, <2>1
<1>6. ASSUME NEW r \in S
      PROVE  Place(S, ahead, r) + 1 \in 1 .. n /\ o[Place(S, ahead, r) + 1] = r
  <2> DEFINE k == Place(S, ahead, r) + 1
  <2>1. Place(S, ahead, r) \in 0 .. n - 1
    BY PlaceIs DEF n
  <2>2. k \in 1 .. n /\ k - 1 = Place(S, ahead, r)
    BY <1>1, <2>1
  <2> HIDE DEF k
  <2>3. o[k] \in S /\ Place(S, ahead, o[k]) = Place(S, ahead, r)
    BY <1>4, <2>2
  <2>4. o[k] = r
    BY <2>3, PlacesDiffer
  <2>5. QED
    BY <2>2, <2>4 DEF k
<1>7. QED
  BY <1>1, <1>4, <1>5, <1>6 DEF n

\* As many as a sequence is long, if none is in it twice.
LEMMA OnceCounted ==
    ASSUME NEW K, NEW s \in Seq(K), \A i, j \in DOMAIN s : s[i] = s[j] => i = j,
           NEW T, T = {s[i] : i \in DOMAIN s}
    PROVE  IsFiniteSet(T) /\ Cardinality(T) = Len(s)
<1> DEFINE n == Len(s)
           D == 1 .. n
<1>1. n \in Nat /\ D = DOMAIN s
  OBVIOUS
<1>2. s \in Bijection(D, T)
  BY <1>1 DEF Bijection, Injection, Surjection, IsInjective
<1> HIDE DEF n
<1>3. IsFiniteSet(D) /\ Cardinality(D) = n
  BY <1>1, FS_Interval
<1> HIDE DEF D
<1>4. ExistsBijection(D, T)
  BY <1>2 DEF ExistsBijection
<1>5. QED
  BY <1>3, <1>4, FS_Bijection DEF n

\* Among more rows a place is no earlier.
LEMMA PlaceAmongMore ==
    ASSUME NEW ahead, NEW S, NEW T, S \subseteq T, IsFiniteSet(T), NEW r
    PROVE  /\ Place(S, ahead, r) \in Nat /\ Place(T, ahead, r) \in Nat
           /\ Place(S, ahead, r) <= Place(T, ahead, r)
<1> DEFINE A == S \cap ahead[r]
           B == T \cap ahead[r]
<1>1. B \in SUBSET T /\ A \in SUBSET B
  OBVIOUS
<1> HIDE DEF A, B
<1>2. IsFiniteSet(B)
  BY <1>1, FS_Subset
<1>3. IsFiniteSet(A) /\ Cardinality(A) <= Cardinality(B)
  BY <1>1, <1>2, FS_Subset
<1>4. Cardinality(A) \in Nat /\ Cardinality(B) \in Nat
  BY <1>2, <1>3, FS_CardinalityType
<1>5. QED
  BY <1>3, <1>4 DEF Place, A, B

\* The rows of a page: those after the offset, up to the limit, as far as there are.
LEMMA CutIs ==
    ASSUME NEW S, NEW list \in Seq(S), NEW limit \in Nat, NEW offset \in Nat,
           NEW cut, cut = Cut(list, limit, offset)
    PROVE  /\ cut \in Seq(S) /\ Len(cut) \in Nat /\ Len(cut) <= limit
           /\ Len(list) <= offset => Len(cut) = 0
           /\ Len(list) > offset /\ Len(list) <= offset + limit => offset + Len(cut) = Len(list)
           /\ Len(list) > offset + limit => Len(cut) = limit
           /\ \A k \in 1 .. Len(cut) : offset + k \in 1 .. Len(list) /\ cut[k] = list[offset + k]
BY DEF Cut

\* A page of one is empty when the list is.
LEMMA CutFirst ==
    ASSUME NEW S, NEW list \in Seq(S), NEW cut, cut = Cut(list, 1, 0)
    PROVE  cut = <<>> <=> Len(list) = 0
<1> DEFINE one == 1
           none == 0
           n == Len(list)
           c == Len(cut)
<1>1. cut = Cut(list, one, none) /\ one \in Nat /\ none \in Nat /\ n \in Nat
  OBVIOUS
<1> HIDE DEF one, none
<1>2. /\ cut \in Seq(S) /\ Len(cut) \in Nat
      /\ Len(list) <= none => Len(cut) = 0
      /\ Len(list) > none /\ Len(list) <= none + one => none + Len(cut) = Len(list)
      /\ Len(list) > none + one => Len(cut) = one
  BY <1>1, CutIs
<1> HIDE DEF n, c
<1>3. /\ c \in Nat /\ (n <= 0 => c = 0)
      /\ (n > 0 /\ n <= 1 => c = n) /\ (n > 1 => c = 1)
  BY <1>2 DEF one, none, n, c
<1>4. c = 0 <=> n = 0
  BY <1>1, <1>3
<1>5. cut = <<>> <=> c = 0
  BY <1>2 DEF c
<1>6. QED
  BY <1>4, <1>5 DEF n

\* A list has its rows, each once.
LEMMA ListedIs ==
    ASSUME NEW ahead, NEW S, Orders(ahead, S)
    PROVE  /\ ToSet(OrderBy(S, ahead)) = S /\ Len(OrderBy(S, ahead)) = Cardinality(S)
           /\ OrderBy(S, ahead) \in Seq(S) /\ IsFiniteSet(S) /\ Cardinality(S) \in Nat
<1> DEFINE o == OrderBy(S, ahead)
           n == Cardinality(S)
<1>1. /\ o \in Seq(S) /\ Len(o) = n /\ n \in Nat
      /\ \A k \in 1 .. n : o[k] \in S
      /\ \A r \in S : Place(S, ahead, r) + 1 \in 1 .. n /\ o[Place(S, ahead, r) + 1] = r
  BY OrderByIs
<1> HIDE DEF o, n
<1>2. DOMAIN o = 1 .. n
  BY <1>1
<1>3. ToSet(o) = S
  BY <1>1, <1>2 DEF ToSet
<1>4. QED
  BY <1>1, <1>3 DEF o, n, Orders

\* Numbers are in an order of their own.
LEMMA NumberOrders ==
    ASSUME NEW S \in SUBSET Nat, IsFiniteSet(S)
    PROVE  Orders(Latest, S) /\ Orders(Oldest, S)
BY DEF Orders, Latest, Oldest

\* Two sequences with the same rows.
LEMMA SameRows ==
    ASSUME NEW S, NEW a \in Seq(S), NEW b \in Seq(S), Len(a) = Len(b),
           \A k \in 1 .. Len(a) : a[k] = b[k]
    PROVE  a = b
OBVIOUS

\* A page that is long enough has the list.
LEMMA CutWhole ==
    ASSUME NEW S, NEW list \in Seq(S), NEW limit \in Nat, Len(list) <= limit
    PROVE  Cut(list, limit, 0) = list
<1> DEFINE none == 0
           cut == Cut(list, limit, none)
<1>1. none \in Nat /\ Len(list) \in Nat
  OBVIOUS
<1>c. cut = Cut(list, limit, none)
  OBVIOUS
<1> HIDE DEF none, cut
<1>2. /\ cut \in Seq(S) /\ Len(cut) \in Nat
      /\ Len(list) <= none => Len(cut) = 0
      /\ Len(list) > none /\ Len(list) <= none + limit => none + Len(cut) = Len(list)
      /\ \A k \in 1 .. Len(cut) : none + k \in 1 .. Len(list) /\ cut[k] = list[none + k]
  BY <1>1, <1>c, CutIs
<1>3. Len(cut) = Len(list)
  BY <1>1, <1>2 DEF none
<1>4. \A k \in 1 .. Len(cut) : cut[k] = list[k]
  BY <1>1, <1>2 DEF none
<1>5. cut = list
  BY <1>2, <1>3, <1>4, SameRows
<1>6. QED
  BY <1>5 DEF cut, none

\* One sequence after another.
LEMMA Joined ==
    ASSUME NEW K, NEW a \in Seq(K), NEW b \in Seq(K), NEW m, m = Len(a), NEW c, c = Len(b)
    PROVE  /\ m \in Nat /\ c \in Nat
           /\ a \o b \in Seq(K)
           /\ DOMAIN a = 1 .. m /\ DOMAIN (a \o b) = 1 .. m + c
           /\ \A i \in 1 .. m : (a \o b)[i] = a[i]
           /\ \A k \in 1 .. c : (a \o b)[m + k] = b[k]
OBVIOUS

\* One row more.
LEMMA CutGrows ==
    ASSUME NEW S, NEW list \in Seq(S), NEW i \in Nat, i > 1
    PROVE  Cut(list, i, 0) = Cut(list, i - 1, 0) \o Cut(list, 1, i - 1)
<1> DEFINE n == Len(list)
           a == Cut(list, i, 0)
           b == Cut(list, i - 1, 0)
           c == Cut(list, 1, i - 1)
<1>1. n \in Nat /\ i - 1 \in Nat
  OBVIOUS
<1>2. /\ a \in Seq(S) /\ Len(a) = IF i > n THEN n ELSE i
      /\ \A k \in 1 .. Len(a) : a[k] = list[k]
  BY <1>1 DEF Cut
<1>3. /\ b \in Seq(S) /\ Len(b) = IF i - 1 > n THEN n ELSE i - 1
      /\ \A k \in 1 .. Len(b) : b[k] = list[k]
  BY <1>1 DEF Cut
<1>4. /\ c \in Seq(S) /\ Len(c) = IF i > n THEN 0 ELSE 1
      /\ i <= n => c[1] = list[i]
  BY <1>1 DEF Cut
<1> HIDE DEF a, b, c
<1> DEFINE p == Len(b)
           q == Len(c)
           d == b \o c
<1>5. /\ p \in Nat /\ q \in Nat /\ d \in Seq(S) /\ DOMAIN d = 1 .. p + q
      /\ \A k \in 1 .. p : d[k] = b[k]
      /\ \A k \in 1 .. q : d[p + k] = c[k]
  <2>1. b \in Seq(S) /\ c \in Seq(S)
    BY <1>3, <1>4
  <2>2. QED
    BY <2>1, Joined
<1>6. p = (IF i - 1 > n THEN n ELSE i - 1) /\ q = (IF i > n THEN 0 ELSE 1)
  BY <1>3, <1>4
<1> HIDE DEF p, q, d
<1>7. Len(d) = p + q
  BY <1>5
<1>8. Len(d) = Len(a)
  <2>1. p + q = IF i > n THEN n ELSE i
    <3>1. p \in Nat /\ q \in Nat
      BY <1>5
    <3> HIDE DEF n
    <3>2. CASE i > n
      <4>1. q = 0 /\ (IF i > n THEN n ELSE i) = n
        BY <1>6, <3>2
      <4>2. p = n
        BY <1>1, <1>6, <3>2
      <4>3. QED
        BY <1>1, <4>1, <4>2
    <3>3. CASE ~(i > n)
      <4>1. q = 1 /\ (IF i > n THEN n ELSE i) = i
        BY <1>6, <3>3
      <4>2. p = i - 1
        BY <1>1, <1>6, <3>3
      <4>3. QED
        BY <1>1, <4>1, <4>2
    <3>4. QED
      BY <3>2, <3>3
  <2>2. Len(a) = IF i > n THEN n ELSE i
    BY <1>2
  <2>3. QED
    BY <1>7, <2>1, <2>2
<1>9. ASSUME NEW k \in 1 .. Len(a) PROVE d[k] = a[k]
  <2>1. CASE k <= p
    <3>1. k \in 1 .. p
      BY <1>1, <1>2, <1>5, <2>1
    <3>2. d[k] = b[k] /\ b[k] = list[k]
      BY <1>3, <1>5, <3>1 DEF p
    <3>3. QED
      BY <1>2, <3>2
  <2>2. CASE k > p
    <3>1. k = i /\ i <= n /\ p = i - 1 /\ q = 1
      BY <1>1, <1>2, <1>5, <1>6, <2>2
    <3>2. 1 \in 1 .. q /\ p + 1 = k
      BY <1>1, <3>1
    <3>3. d[k] = c[1]
      BY <1>5, <3>2
    <3>4. QED
      BY <1>2, <1>4, <3>1, <3>3
  <2>3. QED
    BY <1>1, <1>2, <1>5, <2>1, <2>2
<1>10. a = d
  BY <1>2, <1>5, <1>8, <1>9, SameRows
<1>11. QED
  BY <1>10 DEF a, b, c, d

Flattens(seqs, g) ==
    g = [i \in 1 .. Len(seqs) |-> IF i = 1 THEN seqs[i] ELSE g[i - 1] \o seqs[i]]

LEMMA FlattensOnce ==
    ASSUME NEW seqs, NEW n \in Nat, Len(seqs) = n, NEW g, NEW h,
           Flattens(seqs, g), Flattens(seqs, h)
    PROVE  \A i \in 1 .. n : g[i] = h[i]
<1> DEFINE K == {i \in 1 .. n : g[i] # h[i]}
<1>1. /\ \A i \in 1 .. n : g[i] = IF i = 1 THEN seqs[i] ELSE g[i - 1] \o seqs[i]
      /\ \A i \in 1 .. n : h[i] = IF i = 1 THEN seqs[i] ELSE h[i - 1] \o seqs[i]
  BY DEF Flattens
<1>2. CASE K = {}
  BY <1>2
<1>3. CASE K # {}
  <2>1. K \in SUBSET (0 .. n)
    OBVIOUS
  <2> HIDE DEF K
  <2>2. PICK i \in K : \A j \in K : i <= j
    BY <1>3, <2>1, Extremes
  <2>3. i \in 1 .. n
    BY <2>2 DEF K
  <2>4. CASE i = 1
    BY <1>1, <2>2, <2>3, <2>4 DEF K
  <2>5. CASE i # 1
    <3>1. i - 1 \in 1 .. n /\ i - 1 < i
      BY <2>3, <2>5
    <3>2. i - 1 \notin K
      BY <2>2, <2>3, <3>1
    <3>3. g[i - 1] = h[i - 1]
      BY <3>1, <3>2 DEF K
    <3>4. g[i] = h[i]
      BY <1>1, <2>3, <2>5, <3>3
    <3>5. QED
      BY <2>2, <3>4 DEF K
  <2>6. QED
    BY <2>4, <2>5
<1>4. QED
  BY <1>2, <1>3

\* The pages of one row make up the list.
LEMMA PagesJoin ==
    ASSUME NEW S, NEW list \in Seq(S), NEW m \in Nat, Len(list) <= m,
           NEW seqs, seqs = [k \in 1 .. m |-> Cut(list, 1, k - 1)]
    PROVE  FlattenSeq(seqs) = list
<1>1. Len(seqs) = m /\ DOMAIN seqs = 1 .. m
  <2>1. seqs \in [1 .. m -> {seqs[k] : k \in 1 .. m}]
    OBVIOUS
  <2>2. QED
    BY <2>1
<1>2. CASE m = 0
  <2>1. seqs = <<>> /\ list = <<>>
    BY <1>1, <1>2
  <2>2. QED
    BY <1>1, <1>2, <2>1 DEF FlattenSeq
<1>3. CASE m # 0
  <2> DEFINE g == CHOOSE h : Flattens(seqs, h)
             f == [i \in 1 .. m |-> Cut(list, i, 0)]
  <2>1. FlattenSeq(seqs) = g[m]
    BY <1>1, <1>3 DEF FlattenSeq, Flattens
  <2>2. Flattens(seqs, f)
    <3>1. ASSUME NEW i \in 1 .. m
          PROVE  f[i] = IF i = 1 THEN seqs[i] ELSE f[i - 1] \o seqs[i]
      <4>1. CASE i = 1
        BY <1>1, <4>1
      <4>2. CASE i # 1
        <5>1. i - 1 \in 1 .. m /\ i > 1 /\ i \in Nat
          BY <4>2
        <5>2. f[i] = Cut(list, i, 0) /\ f[i - 1] = Cut(list, i - 1, 0) /\ seqs[i] = Cut(list, 1, i - 1)
          BY <5>1
        <5> HIDE DEF f
        <5>3. QED
          BY <4>2, <5>1, <5>2, CutGrows
      <4>3. QED
        BY <4>1, <4>2
    <3>2. f = [i \in 1 .. m |-> IF i = 1 THEN seqs[i] ELSE f[i - 1] \o seqs[i]]
      BY <3>1
    <3>3. QED
      BY <1>1, <3>2 DEF Flattens
  <2> HIDE DEF f
  <2>3. Flattens(seqs, g)
    BY <2>2
  <2> HIDE DEF g
  <2>4. g[m] = f[m]
    BY <1>1, <1>3, <2>2, <2>3, FlattensOnce
  <2>5. f[m] = Cut(list, m, 0)
    BY <1>3 DEF f
  <2>6. QED
    BY <2>1, <2>4, <2>5, CutWhole
<1>4. QED
  BY <1>2, <1>3

Joint(P, U) == UNION {P[t] : t \in U}

\* Parts that have nothing in common, each with a sum of its own.
Parted(f, P, T) ==
    /\ IsFiniteSet(T)
    /\ \A t \in T : IsFiniteSet(P[t]) /\ \A x \in P[t] : f[x] \in Int
    /\ \A s, t \in T : s # t => P[s] \cap P[t] = {}

\* The sums of the parts sum to the sum of the whole.
LEMMA SumByParts ==
    ASSUME NEW f, NEW T, NEW P, Parted(f, P, T),
           NEW g, \A t \in T : g[t] = SumOf(f, P[t])
    PROVE  SumOf(g, T) = SumOf(f, Joint(P, T))
<1> DEFINE Right(U) == IsFiniteSet(Joint(P, U)) /\ SumOf(g, U) = SumOf(f, Joint(P, U))
           C == {U \in SUBSET T : ~Right(U)}
<1>0. C \in SUBSET SUBSET T /\ IsFiniteSet(T)
  BY DEF Parted
<1>1. CASE C = {}
  BY <1>1
<1>2. CASE C # {}
  <2> HIDE DEF C
  <2>1. PICK U \in C : \A V \in C : V \subseteq U => V = U
    BY <1>0, <1>2, Minimal
  <2> USE DEF C
  <2>2. U \in SUBSET T /\ IsFiniteSet(U)
    BY <1>0, <2>1, FS_Subset
  <2>3. U # {}
    <3>1. ASSUME U = {} PROVE FALSE
      <4>1. Joint(P, U) = {}
        BY <3>1 DEF Joint
      <4>2. SumOf(g, U) = 0 /\ SumOf(f, Joint(P, U)) = 0 /\ IsFiniteSet(Joint(P, U))
        BY <2>2, <3>1, <4>1, FS_EmptySet, SumUnfolds
      <4>3. QED
        BY <2>1, <4>2
    <3>2. QED
      BY <3>1
  <2>4. PICK t \in U : TRUE
    BY <2>3
  <2> DEFINE V == U \ {t}
             A == Joint(P, V)
             B == P[t]
  <2>5. V \in SUBSET T /\ V \subseteq U /\ V # U
    BY <2>2, <2>4
  <2>6. IsFiniteSet(A) /\ SumOf(g, V) = SumOf(f, A)
    BY <2>1, <2>5
  <2>7. IsFiniteSet(B) /\ (\A x \in B : f[x] \in Int) /\ g[t] = SumOf(f, B)
    BY <2>2, <2>4 DEF Parted
  <2>8. Joint(P, U) = A \cup B
    BY <2>4 DEF Joint
  <2>9. A \cap B = {}
    BY <2>2, <2>4 DEF Joint, Parted
  <2>10. \A x \in A : f[x] \in Int
    BY <2>5 DEF Joint, Parted
  <2>11. \A s \in U : g[s] \in Int
    <3>1. ASSUME NEW s \in U PROVE g[s] \in Int
      <4>1. IsFiniteSet(P[s]) /\ (\A x \in P[s] : f[x] \in Int) /\ g[s] = SumOf(f, P[s])
        BY <2>2 DEF Parted
      <4>2. QED
        BY <4>1, SumType
    <3>2. QED
      BY <3>1
  <2>12. SumOf(g, U) = g[t] + SumOf(g, V)
    BY <2>2, <2>4, <2>11, SumWithout
  <2> HIDE DEF A, B, V, C
  <2>13. SumOf(f, A \cup B) = SumOf(f, A) + SumOf(f, B)
    BY <2>6, <2>7, <2>9, <2>10, SumOfParts
  <2>14. SumOf(f, A) \in Int /\ SumOf(f, B) \in Int
    BY <2>6, <2>7, <2>10, SumType
  <2>15. IsFiniteSet(A \cup B)
    BY <2>6, <2>7, FS_Union
  <2>16. Right(U)
    BY <2>6, <2>7, <2>8, <2>12, <2>13, <2>14, <2>15
  <2>17. QED
    BY <2>1, <2>16 DEF C
<1>3. QED
  BY <1>1, <1>2

================================================================================
