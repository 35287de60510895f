---------------------------- MODULE FoldTheorems ----------------------------
(***************************************************************************)
(* What the folds of the community modules compute: SumFunctionOnSet is a  *)
(* sum, whatever order its elements are taken in.  The induction is over a *)
(* set of numbers (or of cardinalities) that is closed under successor, so *)
(* that each instance is a set and no operator has to be instantiated.     *)
(***************************************************************************)
EXTENDS Integers, Sequences, FiniteSets, FiniteSetsExt, Functions, SequencesExt,
        FiniteSetTheorems, SequenceTheorems, WellFoundedInduction, TLAPS

-----------------------------------------------------------------------------
(* Natural numbers. *)

LEMMA MinNat ==
  ASSUME NEW S \in SUBSET Nat, S # {}
  PROVE  Min(S) \in S /\ \A y \in S : Min(S) <= y
<1>1. PICK x \in S : \A y \in S : ~(<<y, x>> \in OpToRel(<, Nat))
  BY NatLessThanWellFounded, WFMin
<1>2. \A y \in S : x <= y
  <2>. SUFFICES ASSUME NEW y \in S, ~(x <= y)
                PROVE  <<y, x>> \in OpToRel(<, Nat)
    BY <1>1
  <2>1. <<y, x>> \in Nat \X Nat /\ y < x
    OBVIOUS
  <2>2. <<y, x>>[1] < <<y, x>>[2]
    BY <2>1
  <2>. QED
    BY <2>1, <2>2, Zenon DEF OpToRel
<1>. QED
  BY <1>2 DEF Min

(* Induction over the natural numbers, for a property given as a set. *)
LEMMA NatSetInduction ==
  ASSUME NEW G \in SUBSET Nat, 0 \in G, \A n \in G : n + 1 \in G
  PROVE  G = Nat
<1>. SUFFICES ASSUME Nat \ G # {}
              PROVE  FALSE
  OBVIOUS
<1>. DEFINE m == Min(Nat \ G)
<1>1. m \in Nat \ G /\ \A y \in Nat \ G : m <= y
  BY MinNat
<1>. HIDE DEF m
<1>2. m # 0 /\ m - 1 \in Nat
  BY <1>1
<1>3. m - 1 \in G
  BY <1>1, <1>2
<1>4. (m - 1) + 1 \in G
  BY <1>3
<1>. QED
  BY <1>1, <1>2, <1>4

LEMMA MaxNat ==
  ASSUME NEW S \in SUBSET Nat, S # {}, NEW b \in Nat, \A x \in S : x <= b
  PROVE  Max(S) \in S /\ \A y \in S : y <= Max(S)
<1>. DEFINE T == {b - x : x \in S}
<1>1. T \in SUBSET Nat /\ T # {}
  <2>1. \A x \in S : b - x \in Nat
    OBVIOUS
  <2>. QED
    BY <2>1, Zenon
<1>2. Min(T) \in T /\ \A y \in T : Min(T) <= y
  BY <1>1, MinNat
<1>3. PICK x \in S : Min(T) = b - x
  BY <1>2
<1>4. \A y \in S : x >= y
  <2>. SUFFICES ASSUME NEW y \in S
                PROVE  x >= y
    OBVIOUS
  <2>1. b - x <= b - y
    BY <1>2, <1>3
  <2>. QED
    BY <2>1
<1>5. Max(S) \in S /\ \A y \in S : Max(S) >= y
  BY <1>4, Zenon DEF Max
<1>. QED
  BY <1>5

LEMMA MaxOfTwo ==
  ASSUME NEW a \in Int, NEW b \in Int
  PROVE  Max({a, b}) \in {a, b} /\ Max({a, b}) >= a /\ Max({a, b}) >= b
<1>1. CASE a >= b
  <2>1. \A y \in {a, b} : a >= y
    BY <1>1
  <2>. QED
    BY <2>1 DEF Max
<1>2. CASE ~(a >= b)
  <2>1. \A y \in {a, b} : b >= y
    BY <1>2
  <2>. QED
    BY <2>1 DEF Max
<1>. QED
  BY <1>1, <1>2

-----------------------------------------------------------------------------
(* The recursion under SumFunctionOnSet. *)

Some(s) == CHOOSE x \in s : TRUE
UpTo(S, n) == {s \in SUBSET S : Cardinality(s) <= n}

(* The equation that the sums of the subsets of S that are in D satisfy. *)
SumsOn(D, w, f) == f = [s \in D |-> IF s = {} THEN 0 ELSE w[Some(s)] + f[s \ {Some(s)}]]

LEMMA SmallerSubset ==
  ASSUME NEW S, IsFiniteSet(S), NEW n \in Nat, NEW s \in UpTo(S, n + 1), NEW x \in s
  PROVE  s \ {x} \in UpTo(S, n)
<1>1. IsFiniteSet(s) /\ s \in SUBSET S
  BY FS_Subset DEF UpTo
<1>2. Cardinality(s) \in Nat /\ Cardinality(s \ {x}) = Cardinality(s) - 1
  BY <1>1, FS_CardinalityType, FS_RemoveElement
<1>. QED
  BY <1>1, <1>2 DEF UpTo

LEMMA UpToNothing ==
  ASSUME NEW S, IsFiniteSet(S)
  PROVE  UpTo(S, 0) = {{}}
<1>1. \A s \in SUBSET S : IsFiniteSet(s) /\ Cardinality(s) \in Nat
  BY FS_Subset, FS_CardinalityType
<1>. QED
  BY <1>1, FS_EmptySet DEF UpTo

LEMMA UpToAll ==
  ASSUME NEW S, IsFiniteSet(S)
  PROVE  Cardinality(S) \in Nat /\ UpTo(S, Cardinality(S)) = SUBSET S
BY FS_Subset, FS_CardinalityType DEF UpTo

(* There is such a function ... *)
LEMMA SumsExist ==
  ASSUME NEW S, IsFiniteSet(S), NEW w
  PROVE  \E f : SumsOn(SUBSET S, w, f)
<1>. DEFINE G == {n \in Nat : \E f : SumsOn(UpTo(S, n), w, f)}
<1>1. 0 \in G
  <2>. DEFINE f == [s \in UpTo(S, 0) |-> 0]
  <2>1. SumsOn(UpTo(S, 0), w, f)
    BY UpToNothing DEF SumsOn
  <2>. QED
    BY <2>1
<1>2. ASSUME NEW n \in G
      PROVE  n + 1 \in G
  <2>1. PICK f : SumsOn(UpTo(S, n), w, f)
    OBVIOUS
  <2>. DEFINE g == [s \in UpTo(S, n + 1) |->
                      IF s = {} THEN 0 ELSE w[Some(s)] + f[s \ {Some(s)}]]
  <2>2. \A s \in UpTo(S, n) : s \in UpTo(S, n + 1) /\ g[s] = f[s]
    <3>1. UpTo(S, n) \subseteq UpTo(S, n + 1)
      <4>1. \A s \in SUBSET S : Cardinality(s) \in Nat
        BY FS_Subset, FS_CardinalityType
      <4>. QED
        BY <4>1 DEF UpTo
    <3>. QED
      BY <2>1, <3>1 DEF SumsOn
  <2>3. \A s \in UpTo(S, n + 1) : s # {} => g[s \ {Some(s)}] = f[s \ {Some(s)}]
    <3>. SUFFICES ASSUME NEW s \in UpTo(S, n + 1), s # {}
                  PROVE  s \ {Some(s)} \in UpTo(S, n)
      BY <2>2
    <3>1. Some(s) \in s
      BY DEF Some
    <3>. QED
      BY <3>1, SmallerSubset
  <2>. HIDE DEF g
  <2>4. SumsOn(UpTo(S, n + 1), w, g)
    <3>1. g = [s \in UpTo(S, n + 1) |-> IF s = {} THEN 0 ELSE w[Some(s)] + f[s \ {Some(s)}]]
      BY DEF g
    <3>. QED
      BY <2>3, <3>1 DEF SumsOn
  <2>. QED
    BY <2>4
<1>. HIDE DEF G
<1>3. G = Nat
  <2>1. G \in SUBSET Nat
    BY DEF G
  <2>. QED
    BY <1>1, <1>2, <2>1, NatSetInduction
<1>4. Cardinality(S) \in G
  BY <1>3, UpToAll
<1>. QED
  BY <1>4, UpToAll DEF G

(* ... and only one. *)
LEMMA SumsUnique ==
  ASSUME NEW S, IsFiniteSet(S), NEW w, NEW f, NEW g,
         SumsOn(SUBSET S, w, f), SumsOn(SUBSET S, w, g)
  PROVE  f = g
<1>. DEFINE G == {n \in Nat : \A s \in UpTo(S, n) : f[s] = g[s]}
<1>1. \A s \in SUBSET S :
        /\ f[s] = IF s = {} THEN 0 ELSE w[Some(s)] + f[s \ {Some(s)}]
        /\ g[s] = IF s = {} THEN 0 ELSE w[Some(s)] + g[s \ {Some(s)}]
  BY DEF SumsOn
<1>2. 0 \in G
  BY <1>1, UpToNothing
<1>3. ASSUME NEW n \in G
      PROVE  n + 1 \in G
  <2>. SUFFICES ASSUME NEW s \in UpTo(S, n + 1)
                PROVE  f[s] = g[s]
    OBVIOUS
  <2>1. CASE s = {}
    BY <1>1, <2>1
  <2>2. CASE s # {}
    <3>1. s \ {Some(s)} \in UpTo(S, n)
      BY <2>2, SmallerSubset DEF Some
    <3>2. f[s \ {Some(s)}] = g[s \ {Some(s)}] /\ s \in SUBSET S
      BY <3>1 DEF UpTo
    <3>. QED
      BY <1>1, <2>2, <3>2
  <2>. QED
    BY <2>1, <2>2
<1>. HIDE DEF G
<1>4. G = Nat
  <2>1. G \in SUBSET Nat
    BY DEF G
  <2>. QED
    BY <1>2, <1>3, <2>1, NatSetInduction
<1>5. \A s \in SUBSET S : f[s] = g[s]
  BY <1>4, UpToAll DEF G
<1>. QED
  BY <1>5 DEF SumsOn

LEMMA SumIsRecursive ==
  ASSUME NEW w, NEW S
  PROVE  SumFunctionOnSet(w, S) = (CHOOSE f : SumsOn(SUBSET S, w, f))[S]
BY Zenon DEF SumFunctionOnSet, FoldFunctionOnSet, MapThenFoldSet, SumsOn, Some

(* The sums of all subsets of S, by the recursion for S alone. *)
LEMMA SumsOfSubsets ==
  ASSUME NEW S, IsFiniteSet(S), NEW w, NEW f, SumsOn(SUBSET S, w, f),
         NEW T \in SUBSET S
  PROVE  SumFunctionOnSet(w, T) = f[T]
<1>1. IsFiniteSet(T)
  BY FS_Subset
<1>. DEFINE g == [s \in SUBSET T |-> f[s]]
<1>2. \A s \in SUBSET T : f[s] = IF s = {} THEN 0 ELSE w[Some(s)] + f[s \ {Some(s)}]
  BY DEF SumsOn
<1>3. SumsOn(SUBSET T, w, g)
  <2>1. \A s \in SUBSET T : s \ {Some(s)} \in SUBSET T
    OBVIOUS
  <2>. QED
    BY <1>2, <2>1 DEF SumsOn
<1>. HIDE DEF g
<1>4. SumsOn(SUBSET T, w, CHOOSE h : SumsOn(SUBSET T, w, h))
  BY <1>3
<1>5. g = CHOOSE h : SumsOn(SUBSET T, w, h)
  BY <1>1, <1>3, <1>4, SumsUnique
<1>. QED
  BY <1>5, SumIsRecursive DEF g

-----------------------------------------------------------------------------
(* Sums. *)

LEMMA SumEmpty ==
  ASSUME NEW w
  PROVE  SumFunctionOnSet(w, {}) = 0
<1>. DEFINE none == {}
<1>1. IsFiniteSet(none) /\ none \in SUBSET none
  BY FS_EmptySet
<1>2. none = {}
  OBVIOUS
<1>. HIDE DEF none
<1>3. PICK f : SumsOn(SUBSET none, w, f)
  BY <1>1, SumsExist
<1>4. f[none] = 0
  BY <1>1, <1>2, <1>3 DEF SumsOn
<1>5. SumFunctionOnSet(w, none) = f[none]
  BY <1>1, <1>3, SumsOfSubsets
<1>. QED
  BY <1>2, <1>4, <1>5

LEMMA SumUnfolds ==
  ASSUME NEW S, IsFiniteSet(S), S # {}, NEW w
  PROVE  SumFunctionOnSet(w, S) = w[Some(S)] + SumFunctionOnSet(w, S \ {Some(S)})
<1>1. PICK f : SumsOn(SUBSET S, w, f)
  BY SumsExist
<1>2. f[S] = w[Some(S)] + f[S \ {Some(S)}]
  BY <1>1 DEF SumsOn
<1>3. SumFunctionOnSet(w, S) = f[S]
  BY <1>1, SumsOfSubsets
<1>4. SumFunctionOnSet(w, S \ {Some(S)}) = f[S \ {Some(S)}]
  <2>1. S \ {Some(S)} \in SUBSET S
    OBVIOUS
  <2>. QED
    BY <1>1, <2>1, SumsOfSubsets
<1>. QED
  BY <1>2, <1>3, <1>4

(* Induction over the subsets of a finite set, for a property given as a set. *)
LEMMA SubsetInduction ==
  ASSUME NEW S, IsFiniteSet(S), NEW Good,
         {} \in Good,
         \A T \in SUBSET S : T # {} /\ (\A x \in T : T \ {x} \in Good) => T \in Good
  PROVE  \A T \in SUBSET S : T \in Good
<1>. DEFINE G == {n \in Nat : UpTo(S, n) \subseteq Good}
<1>1. 0 \in G
  BY UpToNothing
<1>2. ASSUME NEW n \in G
      PROVE  n + 1 \in G
  <2>. SUFFICES ASSUME NEW T \in UpTo(S, n + 1)
                PROVE  T \in Good
    OBVIOUS
  <2>1. \A x \in T : T \ {x} \in Good
    BY SmallerSubset
  <2>2. T \in SUBSET S
    BY DEF UpTo
  <2>. QED
    BY <2>1, <2>2
<1>. HIDE DEF G
<1>3. G = Nat
  <2>1. G \in SUBSET Nat
    BY DEF G
  <2>. QED
    BY <1>1, <1>2, <2>1, NatSetInduction
<1>. QED
  BY <1>3, UpToAll DEF G

(* A sum of integers is an integer, of natural numbers a natural number. *)
LEMMA SumType ==
  ASSUME NEW S, IsFiniteSet(S), NEW w
  PROVE  /\ (\A x \in S : w[x] \in Int) => SumFunctionOnSet(w, S) \in Int
         /\ (\A x \in S : w[x] \in Nat) => SumFunctionOnSet(w, S) \in Nat
<1>1. ASSUME NEW D \in {Int, Nat}, \A x \in S : w[x] \in D
      PROVE  SumFunctionOnSet(w, S) \in D
  <2>. DEFINE Good == {T \in SUBSET S : SumFunctionOnSet(w, T) \in D}
  <2>1. {} \in Good
    BY SumEmpty
  <2>2. ASSUME NEW T \in SUBSET S, T # {}, \A x \in T : T \ {x} \in Good
        PROVE  T \in Good
    <3>1. Some(T) \in T /\ IsFiniteSet(T)
      BY <2>2, FS_Subset DEF Some
    <3>2. SumFunctionOnSet(w, T) = w[Some(T)] + SumFunctionOnSet(w, T \ {Some(T)})
      BY <2>2, <3>1, SumUnfolds
    <3>. QED
      BY <1>1, <2>2, <3>1, <3>2
  <2>. HIDE DEF Good
  <2>3. \A T \in SUBSET S : T # {} /\ (\A x \in T : T \ {x} \in Good) => T \in Good
    BY <2>2
  <2>4. \A T \in SUBSET S : T \in Good
    BY <2>1, <2>3, SubsetInduction
  <2>. QED
    BY <2>4 DEF Good
<1>. QED
  BY <1>1

(* Any element may be taken out first: the sum does not depend on the order *)
(* in which the fold visits the set.                                        *)
LEMMA SumRemove ==
  ASSUME NEW S, IsFiniteSet(S), NEW w, \A x \in S : w[x] \in Int, NEW e \in S
  PROVE  SumFunctionOnSet(w, S) = w[e] + SumFunctionOnSet(w, S \ {e})
<1>. DEFINE Good == {T \in SUBSET S : \A x \in T :
                       SumFunctionOnSet(w, T) = w[x] + SumFunctionOnSet(w, T \ {x})}
<1>1. {} \in Good
  OBVIOUS
<1>2. ASSUME NEW T \in SUBSET S, T # {}, \A x \in T : T \ {x} \in Good
      PROVE  T \in Good
  <2>. SUFFICES ASSUME NEW x \in T
                PROVE  SumFunctionOnSet(w, T) = w[x] + SumFunctionOnSet(w, T \ {x})
    OBVIOUS
  <2>. DEFINE p == Some(T)
              rest == SumFunctionOnSet(w, (T \ {p}) \ {x})
  <2>1. p \in T /\ IsFiniteSet(T) /\ IsFiniteSet((T \ {p}) \ {x})
    BY <1>2, FS_Subset DEF Some
  <2>2. SumFunctionOnSet(w, T) = w[p] + SumFunctionOnSet(w, T \ {p})
    BY <1>2, <2>1, SumUnfolds
  <2>3. CASE x = p
    BY <2>2, <2>3
  <2>4. CASE x # p
    <3>1. SumFunctionOnSet(w, T \ {p}) = w[x] + rest
      BY <1>2, <2>1, <2>4
    <3>2. SumFunctionOnSet(w, T \ {x}) = w[p] + SumFunctionOnSet(w, (T \ {x}) \ {p})
      BY <1>2, <2>1, <2>4
    <3>3. (T \ {x}) \ {p} = (T \ {p}) \ {x}
      OBVIOUS
    <3>4. w[x] \in Int /\ w[p] \in Int /\ rest \in Int
      BY <2>1, SumType
    <3>. HIDE DEF p, rest
    <3>5. SumFunctionOnSet(w, T \ {x}) = w[p] + rest
      BY <3>2, <3>3 DEF rest
    <3>. QED
      BY <2>2, <3>1, <3>4, <3>5
  <2>. QED
    BY <2>3, <2>4
<1>. HIDE DEF Good
<1>3. \A T \in SUBSET S : T # {} /\ (\A x \in T : T \ {x} \in Good) => T \in Good
  BY <1>2
<1>4. \A T \in SUBSET S : T \in Good
  BY <1>1, <1>3, SubsetInduction
<1>. QED
  BY <1>4 DEF Good

LEMMA SumAdd ==
  ASSUME NEW S, IsFiniteSet(S), NEW T, NEW e, e \notin S, T = S \cup {e},
         NEW w, \A x \in T : w[x] \in Int
  PROVE  IsFiniteSet(T) /\ SumFunctionOnSet(w, T) = SumFunctionOnSet(w, S) + w[e]
<1>1. IsFiniteSet(T)
  BY FS_AddElement
<1>2. T \ {e} = S /\ e \in T
  OBVIOUS
<1>3. SumFunctionOnSet(w, T) = w[e] + SumFunctionOnSet(w, T \ {e})
  BY <1>1, <1>2, SumRemove
<1>4. SumFunctionOnSet(w, S) \in Int /\ w[e] \in Int
  BY SumType
<1>5. SumFunctionOnSet(w, T) = w[e] + SumFunctionOnSet(w, S)
  BY <1>2, <1>3
<1>. QED
  BY <1>1, <1>4, <1>5

(* Larger terms make no smaller sum; equal ones make the same. *)
LEMMA SumBounds ==
  ASSUME NEW S, IsFiniteSet(S), NEW v, NEW w, \A x \in S : v[x] \in Int /\ w[x] \in Int,
         \A x \in S : v[x] <= w[x]
  PROVE  SumFunctionOnSet(v, S) <= SumFunctionOnSet(w, S)
<1>. DEFINE Good == {T \in SUBSET S : SumFunctionOnSet(v, T) <= SumFunctionOnSet(w, T)}
<1>1. {} \in Good
  BY SumEmpty
<1>2. ASSUME NEW T \in SUBSET S, T # {}, \A x \in T : T \ {x} \in Good
      PROVE  T \in Good
  <2>. DEFINE p == Some(T)
  <2>1. p \in T /\ IsFiniteSet(T) /\ IsFiniteSet(T \ {p})
    BY <1>2, FS_Subset DEF Some
  <2>2. /\ SumFunctionOnSet(v, T) = v[p] + SumFunctionOnSet(v, T \ {p})
        /\ SumFunctionOnSet(w, T) = w[p] + SumFunctionOnSet(w, T \ {p})
    BY <1>2, <2>1, SumUnfolds
  <2>3. SumFunctionOnSet(v, T \ {p}) \in Int /\ SumFunctionOnSet(w, T \ {p}) \in Int
    BY <2>1, SumType
  <2>4. SumFunctionOnSet(v, T \ {p}) <= SumFunctionOnSet(w, T \ {p})
    BY <1>2, <2>1
  <2>5. v[p] \in Int /\ w[p] \in Int /\ v[p] <= w[p]
    BY <2>1
  <2>. HIDE DEF p
  <2>. QED
    BY <2>2, <2>3, <2>4, <2>5
<1>. HIDE DEF Good
<1>3. S \in Good
  BY <1>1, <1>2, SubsetInduction
<1>. QED
  BY <1>3 DEF Good

LEMMA SumAgree ==
  ASSUME NEW S, IsFiniteSet(S), NEW v, NEW w, \A x \in S : v[x] = w[x]
  PROVE  SumFunctionOnSet(v, S) = SumFunctionOnSet(w, S)
<1>. DEFINE Good == {T \in SUBSET S : SumFunctionOnSet(v, T) = SumFunctionOnSet(w, T)}
<1>1. {} \in Good
  BY SumEmpty
<1>2. ASSUME NEW T \in SUBSET S, T # {}, \A x \in T : T \ {x} \in Good
      PROVE  T \in Good
  <2>1. Some(T) \in T /\ IsFiniteSet(T)
    BY <1>2, FS_Subset DEF Some
  <2>2. /\ SumFunctionOnSet(v, T) = v[Some(T)] + SumFunctionOnSet(v, T \ {Some(T)})
        /\ SumFunctionOnSet(w, T) = w[Some(T)] + SumFunctionOnSet(w, T \ {Some(T)})
    BY <1>2, <2>1, SumUnfolds
  <2>. QED
    BY <1>2, <2>1, <2>2
<1>. HIDE DEF Good
<1>3. S \in Good
  BY <1>1, <1>2, SubsetInduction
<1>. QED
  BY <1>3 DEF Good

(* A subset's sum is no larger. *)
LEMMA SumSubset ==
  ASSUME NEW S, IsFiniteSet(S), NEW T \in SUBSET S, NEW w, \A x \in S : w[x] \in Nat
  PROVE  SumFunctionOnSet(w, T) <= SumFunctionOnSet(w, S)
<1>. DEFINE Good == {U \in SUBSET S : \A V \in SUBSET U :
                       SumFunctionOnSet(w, V) <= SumFunctionOnSet(w, U)}
<1>1. {} \in Good
  BY SumEmpty
<1>2. ASSUME NEW U \in SUBSET S, U # {}, \A x \in U : U \ {x} \in Good
      PROVE  U \in Good
  <2>. SUFFICES ASSUME NEW V \in SUBSET U
                PROVE  SumFunctionOnSet(w, V) <= SumFunctionOnSet(w, U)
    OBVIOUS
  <2>1. /\ IsFiniteSet(U) /\ IsFiniteSet(V)
        /\ SumFunctionOnSet(w, U) \in Nat /\ SumFunctionOnSet(w, V) \in Nat
    BY FS_Subset, SumType
  <2>2. CASE V = U
    BY <2>1, <2>2
  <2>3. CASE V # U
    <3>1. PICK x \in U : x \notin V
      BY <2>3
    <3>2. SumFunctionOnSet(w, V) <= SumFunctionOnSet(w, U \ {x})
      BY <1>2, <3>1
    <3>3. SumFunctionOnSet(w, U) = w[x] + SumFunctionOnSet(w, U \ {x})
      BY <2>1, SumRemove
    <3>4. SumFunctionOnSet(w, U \ {x}) \in Nat /\ w[x] \in Nat
      <4>1. IsFiniteSet(U \ {x})
        BY FS_Subset
      <4>. QED
        BY <4>1, SumType
    <3>. QED
      BY <2>1, <3>2, <3>3, <3>4
  <2>. QED
    BY <2>2, <2>3
<1>. HIDE DEF Good
<1>3. S \in Good
  BY <1>1, <1>2, SubsetInduction
<1>. QED
  BY <1>3 DEF Good

(* Two sets in one-to-one correspondence that agree on the terms. *)
Renames(h, S, v, w) ==
  /\ \A x \in S : w[x] \in Int /\ v[h[x]] = w[x]
  /\ \A x, y \in S : h[x] = h[y] => x = y

LEMMA SumRenamed ==
  ASSUME NEW S, IsFiniteSet(S), NEW v, NEW w, NEW h, Renames(h, S, v, w)
  PROVE  SumFunctionOnSet(v, {h[x] : x \in S}) = SumFunctionOnSet(w, S)
<1>. DEFINE Image(T) == {h[x] : x \in T}
            Good == {T \in SUBSET S : IsFiniteSet(Image(T))
                       /\ SumFunctionOnSet(v, Image(T)) = SumFunctionOnSet(w, T)}
<1>1. {} \in Good
  <2>1. Image({}) = {}
    OBVIOUS
  <2>. QED
    BY <2>1, SumEmpty, FS_EmptySet
<1>2. ASSUME NEW T \in SUBSET S, T # {}, \A x \in T : T \ {x} \in Good
      PROVE  T \in Good
  <2>1. PICK p \in T : IsFiniteSet(T) /\ T \ {p} \in Good
    BY <1>2, FS_Subset
  <2>. DEFINE I == Image(T \ {p})
              J == Image(T)
  <2>2. J = I \cup {h[p]} /\ h[p] \notin I
    BY <2>1 DEF Renames
  <2>3. IsFiniteSet(I) /\ SumFunctionOnSet(v, I) = SumFunctionOnSet(w, T \ {p})
    BY <2>1
  <2>4. \A y \in J : v[y] \in Int
    BY DEF Renames
  <2>. HIDE DEF I, J
  <2>5. IsFiniteSet(J) /\ SumFunctionOnSet(v, J) = SumFunctionOnSet(v, I) + v[h[p]]
    BY <2>2, <2>3, <2>4, SumAdd
  <2>6. SumFunctionOnSet(w, T) = w[p] + SumFunctionOnSet(w, T \ {p})
    BY <2>1, SumRemove DEF Renames
  <2>7. SumFunctionOnSet(w, T \ {p}) \in Int
    <3>1. IsFiniteSet(T \ {p}) /\ \A x \in T \ {p} : w[x] \in Int
      BY <2>1, FS_RemoveElement DEF Renames
    <3>. QED
      BY <3>1, SumType
  <2>8. v[h[p]] = w[p] /\ w[p] \in Int
    BY <2>1 DEF Renames
  <2>9. SumFunctionOnSet(v, J) = SumFunctionOnSet(w, T)
    BY <2>3, <2>5, <2>6, <2>7, <2>8
  <2>. QED
    BY <2>5, <2>9 DEF J
<1>. HIDE DEF Good
<1>3. \A T \in SUBSET S : T # {} /\ (\A x \in T : T \ {x} \in Good) => T \in Good
  BY <1>2
<1>4. \A T \in SUBSET S : T \in Good
  BY <1>1, <1>3, SubsetInduction
<1>5. S \in Good
  BY <1>4
<1>. QED
  BY <1>5 DEF Good

-----------------------------------------------------------------------------
(* FlattenSeq puts the elements of a sequence of sequences together, from  *)
(* the first to the last.                                                  *)

Concatenated(a, b) == a \o b
FlattensTo(n, s, f) == f = [i \in 1..n |-> IF i = 1 THEN s[i] ELSE Concatenated(f[i - 1], s[i])]

LEMMA FlatteningStep ==
  ASSUME NEW n \in Nat, NEW s, NEW f, FlattensTo(n, s, f), NEW i \in 1..n
  PROVE  /\ i = 1 => f[i] = s[i]
         /\ i # 1 => f[i] = Concatenated(f[i - 1], s[i])
BY Zenon DEF FlattensTo

LEMMA FlatteningsExist ==
  ASSUME NEW n \in Nat, NEW s
  PROVE  \E f : FlattensTo(n, s, f)
<1>. DEFINE G == {m \in Nat : \E f : FlattensTo(m, s, f)}
<1>1. 0 \in G
  <2>1. FlattensTo(0, s, [i \in 1..0 |-> 0])
    BY DEF FlattensTo
  <2>. QED
    BY <2>1
<1>2. ASSUME NEW m \in G
      PROVE  m + 1 \in G
  <2>1. PICK f : FlattensTo(m, s, f)
    OBVIOUS
  <2>. DEFINE g == [i \in 1..(m + 1) |-> IF i = 1 THEN s[i] ELSE Concatenated(f[i - 1], s[i])]
  <2>2. ASSUME NEW i \in 1..m
        PROVE  g[i] = f[i]
    <3>1. i \in 1..(m + 1)
      OBVIOUS
    <3>2. g[i] = IF i = 1 THEN s[i] ELSE Concatenated(f[i - 1], s[i])
      BY <3>1, Zenon
    <3>. HIDE DEF g
    <3>. QED
      BY <2>1, <3>2, FlatteningStep
  <2>3. \A i \in 1..(m + 1) : i # 1 => i - 1 \in 1..m
    OBVIOUS
  <2>4. g = [i \in 1..(m + 1) |-> IF i = 1 THEN s[i] ELSE Concatenated(g[i - 1], s[i])]
    BY <2>2, <2>3, Zenon
  <2>. HIDE DEF g
  <2>5. FlattensTo(m + 1, s, g)
    BY <2>4 DEF FlattensTo
  <2>. QED
    BY <2>5
<1>. HIDE DEF G
<1>3. G \in SUBSET Nat
  BY DEF G
<1>4. G = Nat
  BY <1>1, <1>2, <1>3, NatSetInduction
<1>. QED
  BY <1>4 DEF G

SameUpTo(m, t, s) == \A i \in 1..m : t[i] = s[i]

LEMMA FlatteningsAgree ==
  ASSUME NEW n \in Nat, NEW s, NEW f, FlattensTo(n, s, f),
         NEW m \in Nat, m <= n, NEW t, NEW g, FlattensTo(m, t, g),
         SameUpTo(m, t, s)
  PROVE  SameUpTo(m, g, f)
<1>. DEFINE G == {k \in Nat : k \in 1..m => g[k] = f[k]}
<1>1. 0 \in G
  OBVIOUS
<1>2. ASSUME NEW k \in G
      PROVE  k + 1 \in G
  <2>. SUFFICES ASSUME k + 1 \in 1..m
                PROVE  g[k + 1] = f[k + 1]
    OBVIOUS
  <2>1. k + 1 \in 1..n /\ (k + 1) - 1 = k /\ t[k + 1] = s[k + 1]
    BY DEF SameUpTo
  <2>2. k + 1 # 1 => g[k] = f[k]
    OBVIOUS
  <2>. QED
    BY <2>1, <2>2, FlatteningStep
<1>. HIDE DEF G
<1>3. G \in SUBSET Nat
  BY DEF G
<1>4. G = Nat
  BY <1>1, <1>2, <1>3, NatSetInduction
<1>. QED
  BY <1>4 DEF G, SameUpTo

LEMMA FlattenEmpty == FlattenSeq(<<>>) = <<>>
BY DEF FlattenSeq

LEMMA FlattenIs ==
  ASSUME NEW D, NEW s \in Seq(D), s # <<>>, NEW f, FlattensTo(Len(s), s, f)
  PROVE  FlattenSeq(s) = f[Len(s)]
<1>. DEFINE g == CHOOSE h : FlattensTo(Len(s), s, h)
<1>1. Len(s) \in Nat /\ Len(s) # 0
  OBVIOUS
<1>2. FlattensTo(Len(s), s, g)
  OBVIOUS
<1>3. FlattenSeq(s) = g[Len(s)]
  BY <1>1, Zenon DEF FlattenSeq, FlattensTo, Concatenated
<1>. HIDE DEF g
<1>4. \A i \in 1..Len(s) : g[i] = f[i]
  <2>1. SameUpTo(Len(s), s, s)
    BY DEF SameUpTo
  <2>2. SameUpTo(Len(s), g, f)
    BY <1>1, <1>2, <2>1, FlatteningsAgree
  <2>. QED
    BY <2>2 DEF SameUpTo
<1>. QED
  BY <1>1, <1>3, <1>4

LEMMA FlattenType ==
  ASSUME NEW D, NEW s \in Seq(Seq(D))
  PROVE  FlattenSeq(s) \in Seq(D)
<1>1. CASE s = <<>>
  <2>1. <<>> \in Seq(D)
    OBVIOUS
  <2>. QED
    BY <1>1, <2>1, FlattenEmpty
<1>2. CASE s # <<>>
  <2>1. PICK f : FlattensTo(Len(s), s, f)
    <3>1. Len(s) \in Nat
      OBVIOUS
    <3>. QED
      BY <3>1, FlatteningsExist
  <2>. DEFINE G == {k \in Nat : k \in 1..Len(s) => f[k] \in Seq(D)}
  <2>2. 0 \in G
    OBVIOUS
  <2>3. ASSUME NEW k \in G
        PROVE  k + 1 \in G
    <3>. SUFFICES ASSUME k + 1 \in 1..Len(s)
                  PROVE  f[k + 1] \in Seq(D)
      OBVIOUS
    <3>1. Len(s) \in Nat /\ (k + 1) - 1 = k
      OBVIOUS
    <3>2. /\ k + 1 = 1 => f[k + 1] = s[k + 1]
          /\ k + 1 # 1 => f[k + 1] = Concatenated(f[k], s[k + 1])
      BY <2>1, <3>1, FlatteningStep
    <3>3. s[k + 1] \in Seq(D) /\ (k + 1 # 1 => f[k] \in Seq(D))
      OBVIOUS
    <3>4. \A x, y \in Seq(D) : Concatenated(x, y) \in Seq(D)
      BY DEF Concatenated
    <3>. QED
      BY <3>2, <3>3, <3>4
  <2>. HIDE DEF G
  <2>4. G \in SUBSET Nat
    BY DEF G
  <2>5. G = Nat
    BY <2>2, <2>3, <2>4, NatSetInduction
  <2>6. Len(s) \in Nat /\ Len(s) \in 1..Len(s)
    BY <1>2
  <2>7. f[Len(s)] \in Seq(D)
    BY <2>5, <2>6 DEF G
  <2>8. FlattenSeq(s) = f[Len(s)]
    <3>. DEFINE E == Seq(D)
    <3>. HIDE DEF E
    <3>1. s \in Seq(E)
      BY DEF E
    <3>. QED
      BY <1>2, <2>1, <3>1, FlattenIs
  <2>. QED
    BY <2>7, <2>8
<1>. QED
  BY <1>1, <1>2

LEMMA FlattenAppend ==
  ASSUME NEW D, NEW s \in Seq(Seq(D)), NEW e \in Seq(D)
  PROVE  FlattenSeq(Append(s, e)) = FlattenSeq(s) \o e
<1>. DEFINE t == Append(s, e)
<1>1. /\ t \in Seq(Seq(D)) /\ t # <<>> /\ Len(t) = Len(s) + 1 /\ t[Len(s) + 1] = e
      /\ Len(s) \in Nat /\ Len(t) \in Nat /\ \A i \in 1..Len(s) : s[i] = t[i]
  <2>. DEFINE E == Seq(D)
  <2>1. s \in Seq(E) /\ e \in E
    OBVIOUS
  <2>. HIDE DEF E
  <2>2. /\ t \in Seq(E) /\ t # <<>> /\ Len(t) = Len(s) + 1 /\ t[Len(s) + 1] = e
        /\ Len(s) \in Nat /\ Len(t) \in Nat /\ \A i \in 1..Len(s) : s[i] = t[i]
    <3>1. Len(s) \in Nat
      BY <2>1
    <3>. QED
      BY <2>1, <3>1, AppendProperties
  <2>. QED
    BY <2>2 DEF E
<1>. HIDE DEF t
<1>2. PICK f : FlattensTo(Len(t), t, f)
  BY <1>1, FlatteningsExist
<1>3. FlattenSeq(t) = f[Len(s) + 1]
  BY <1>1, <1>2, FlattenIs
<1>4. /\ Len(s) = 0 => f[Len(s) + 1] = e
      /\ Len(s) # 0 => f[Len(s) + 1] = Concatenated(f[Len(s)], e)
  <2>. DEFINE i == Len(s) + 1
  <2>1. i \in 1..Len(t) /\ i - 1 = Len(s) /\ t[i] = e /\ (Len(s) = 0 <=> i = 1)
    BY <1>1
  <2>. HIDE DEF i
  <2>2. /\ i = 1 => f[i] = t[i]
        /\ i # 1 => f[i] = Concatenated(f[i - 1], t[i])
    BY <1>1, <1>2, <2>1, FlatteningStep
  <2>. QED
    BY <2>1, <2>2 DEF i
<1>5. CASE s = <<>>
  <2>1. FlattenSeq(t) = e /\ FlattenSeq(s) = <<>>
    BY <1>3, <1>4, <1>5, FlattenEmpty
  <2>2. <<>> \o e = e
    OBVIOUS
  <2>. QED
    BY <2>1, <2>2 DEF t
<1>6. CASE s # <<>>
  <2>1. PICK g : FlattensTo(Len(s), s, g)
    BY <1>1, FlatteningsExist
  <2>2. FlattenSeq(s) = g[Len(s)]
    BY <1>6, <2>1, FlattenIs
  <2>3. \A i \in 1..Len(s) : g[i] = f[i]
    <3>1. Len(s) <= Len(t) /\ SameUpTo(Len(s), s, t)
      BY <1>1 DEF SameUpTo
    <3>2. SameUpTo(Len(s), g, f)
      BY <1>1, <1>2, <2>1, <3>1, FlatteningsAgree
    <3>. QED
      BY <3>2 DEF SameUpTo
  <2>4. Len(s) # 0 /\ Len(s) \in 1..Len(s)
    BY <1>1, <1>6
  <2>. QED
    BY <1>3, <1>4, <2>2, <2>3, <2>4, Zenon DEF t, Concatenated
<1>. QED
  BY <1>5, <1>6

(* Induction over the sequences of a set, for a property given as a set.   *)
LEMMA SeqInduction ==
  ASSUME NEW D, NEW G \in SUBSET Seq(D), <<>> \in G,
         \A s \in G, e \in D : Append(s, e) \in G
  PROVE  G = Seq(D)
<1>. DEFINE N == {n \in Nat : \A s \in Seq(D) : Len(s) = n => s \in G}
<1>1. 0 \in N
  <2>1. \A s \in Seq(D) : Len(s) = 0 => s = <<>>
    BY EmptySeq
  <2>. QED
    BY <2>1
<1>2. ASSUME NEW n \in N
      PROVE  n + 1 \in N
  <2>. SUFFICES ASSUME NEW s \in Seq(D), Len(s) = n + 1
                PROVE  s \in G
    OBVIOUS
  <2>1. s # <<>>
    OBVIOUS
  <2>2. PICK u \in Seq(D), e \in D : s = Append(u, e)
    BY <2>1, SequenceEmptyOrAppend
  <2>3. Len(u) \in Nat /\ Len(Append(u, e)) = Len(u) + 1
    BY AppendProperties, LenProperties
  <2>4. u \in G
    BY <2>2, <2>3
  <2>. QED
    BY <2>2, <2>4
<1>. HIDE DEF N
<1>3. N \in SUBSET Nat
  BY DEF N
<1>4. N = Nat
  BY <1>1, <1>2, <1>3, NatSetInduction
<1>5. \A s \in Seq(D) : Len(s) \in Nat
  BY LenProperties
<1>. QED
  BY <1>4, <1>5 DEF N

LEMMA AppendConcat ==
  ASSUME NEW D, NEW s \in Seq(D), NEW t \in Seq(D), NEW e \in D
  PROVE  s \o Append(t, e) = Append(s \o t, e)
<1>1. <<e>> \in Seq(D)
  OBVIOUS
<1>2. Append(t, e) = t \o <<e>>
  BY AppendIsConcat
<1>3. s \o t \in Seq(D)
  BY ConcatProperties
<1>4. Append(s \o t, e) = (s \o t) \o <<e>>
  BY <1>3, AppendIsConcat
<1>5. (s \o t) \o <<e>> = s \o (t \o <<e>>)
  BY <1>1, ConcatAssociative
<1>. QED
  BY <1>2, <1>4, <1>5

(* The flattening of two sequences, one after the other.                   *)
LEMMA FlattenConcat ==
  ASSUME NEW D, NEW s \in Seq(Seq(D)), NEW t \in Seq(Seq(D))
  PROVE  FlattenSeq(s \o t) = FlattenSeq(s) \o FlattenSeq(t)
<1>. DEFINE E == Seq(D)
            G == {u \in Seq(E) : FlattenSeq(s \o u) = FlattenSeq(s) \o FlattenSeq(u)}
<1>1. FlattenSeq(s) \in Seq(D) /\ \A u \in Seq(E) : FlattenSeq(u) \in Seq(D)
  BY FlattenType
<1>. HIDE DEF E
<1>2. s \in Seq(E) /\ t \in Seq(E)
  BY DEF E
<1>3. <<>> \in G
  <2>1. <<>> \in Seq(E) /\ s \o <<>> = s
    BY <1>2, EmptySeq, ConcatEmptySeq
  <2>2. FlattenSeq(s) \o <<>> = FlattenSeq(s)
    BY <1>1, ConcatEmptySeq
  <2>. QED
    BY <2>1, <2>2, FlattenEmpty
<1>4. ASSUME NEW u \in G, NEW e \in E
      PROVE  Append(u, e) \in G
  <2>1. u \in Seq(E) /\ FlattenSeq(s \o u) = FlattenSeq(s) \o FlattenSeq(u)
    OBVIOUS
  <2>2. Append(u, e) \in Seq(E) /\ s \o u \in Seq(E)
    BY <1>2, <2>1, AppendProperties, ConcatProperties
  <2>3. s \o Append(u, e) = Append(s \o u, e)
    BY <1>2, <2>1, AppendConcat
  <2>4. /\ FlattenSeq(Append(s \o u, e)) = FlattenSeq(s \o u) \o e
        /\ FlattenSeq(Append(u, e)) = FlattenSeq(u) \o e
    BY <2>1, <2>2, FlattenAppend DEF E
  <2>5. (FlattenSeq(s) \o FlattenSeq(u)) \o e = FlattenSeq(s) \o (FlattenSeq(u) \o e)
    <3>. DEFINE a == FlattenSeq(s)
                b == FlattenSeq(u)
    <3>1. a \in Seq(D) /\ b \in Seq(D) /\ e \in Seq(D)
      BY <1>1, <2>1 DEF E
    <3>. HIDE DEF a, b, G
    <3>2. (a \o b) \o e = a \o (b \o e)
      BY <3>1, ConcatAssociative
    <3>. QED
      BY <3>2 DEF a, b
  <2>. QED
    BY <2>1, <2>2, <2>3, <2>4, <2>5
<1>. HIDE DEF G
<1>5. G \in SUBSET Seq(E)
  BY DEF G
<1>6. G = Seq(E)
  BY <1>3, <1>4, <1>5, SeqInduction
<1>. QED
  BY <1>2, <1>6 DEF G

LEMMA FlattenSingle ==
  ASSUME NEW D, NEW e \in Seq(D)
  PROVE  FlattenSeq(<<e>>) = e
<1>1. <<>> \in Seq(Seq(D)) /\ Append(<<>>, e) = <<e>>
  OBVIOUS
<1>2. FlattenSeq(Append(<<>>, e)) = <<>> \o e
  BY <1>1, FlattenAppend, FlattenEmpty
<1>3. <<>> \o e = e
  BY ConcatEmptySeq
<1>. QED
  BY <1>1, <1>2, <1>3

(* The sum over a subset of natural numbers is what the rest leaves. *)
LEMMA SumOfSubset ==
  ASSUME NEW S, IsFiniteSet(S), NEW T \in SUBSET S, NEW w, \A x \in S : w[x] \in Nat
  PROVE  /\ SumFunctionOnSet(w, T) \in Nat /\ SumFunctionOnSet(w, S \ T) \in Nat
         /\ SumFunctionOnSet(w, S) = SumFunctionOnSet(w, T) + SumFunctionOnSet(w, S \ T)
         /\ SumFunctionOnSet(w, T) <= SumFunctionOnSet(w, S)
<1>. DEFINE Splits(U) ==
              SumFunctionOnSet(w, S) = SumFunctionOnSet(w, U) + SumFunctionOnSet(w, S \ U)
            Good == {U \in SUBSET S : Splits(U)}
<1>0. \A U \in SUBSET S : SumFunctionOnSet(w, U) \in Nat
  <2>. SUFFICES ASSUME NEW U \in SUBSET S
                PROVE  SumFunctionOnSet(w, U) \in Nat
    OBVIOUS
  <2>1. IsFiniteSet(U) /\ \A x \in U : w[x] \in Nat
    BY FS_Subset
  <2>. QED
    BY <2>1, SumType
<1>1. {} \in Good
  <2>1. SumFunctionOnSet(w, {}) = 0 /\ S \ {} = S
    BY SumEmpty
  <2>2. SumFunctionOnSet(w, S) \in Nat
    BY <1>0
  <2>. QED
    BY <2>1, <2>2
<1>2. ASSUME NEW U \in SUBSET S, U # {}, \A x \in U : U \ {x} \in Good
      PROVE  U \in Good
  <2>1. PICK x \in U : TRUE
    BY <1>2
  <2>. DEFINE V == U \ {x}
              R == S \ V
  <2>2. V \in SUBSET S /\ R \in SUBSET S /\ S \ U \in SUBSET S
    OBVIOUS
  <2>3. IsFiniteSet(U) /\ IsFiniteSet(R) /\ x \in R /\ R \ {x} = S \ U
    BY <2>1, <2>2, FS_Subset
  <2>4. SumFunctionOnSet(w, U) = w[x] + SumFunctionOnSet(w, V)
    BY <2>1, <2>3, SumRemove
  <2>5. \A y \in R : w[y] \in Int
    BY <2>2
  <2>6. SumFunctionOnSet(w, R) = w[x] + SumFunctionOnSet(w, S \ U)
    <3>. HIDE DEF R
    <3>1. SumFunctionOnSet(w, R) = w[x] + SumFunctionOnSet(w, R \ {x})
      BY <2>3, <2>5, SumRemove
    <3>. QED
      BY <2>3, <3>1
  <2>7. SumFunctionOnSet(w, S) = SumFunctionOnSet(w, V) + SumFunctionOnSet(w, R)
    BY <1>2, <2>1
  <2>8. /\ SumFunctionOnSet(w, V) \in Nat /\ SumFunctionOnSet(w, S \ U) \in Nat
        /\ w[x] \in Nat
    BY <1>0, <2>1, <2>2
  <2>. HIDE DEF V, R
  <2>9. Splits(U)
    BY <2>4, <2>6, <2>7, <2>8
  <2>. QED
    BY <2>9
<1>3. T \in Good
  <2>. HIDE DEF Good
  <2>. QED
    BY <1>1, <1>2, SubsetInduction
<1>4. Splits(T) /\ S \ T \in SUBSET S
  BY <1>3
<1>. QED
  BY <1>0, <1>4

(* A sum with negative terms: the others, less what these take away.       *)
LEMMA SumSigned ==
  ASSUME NEW S, IsFiniteSet(S), NEW w, \A x \in S : w[x] \in Int, NEW N \in SUBSET S,
         NEW m, \A x \in N : m[x] = -w[x]
  PROVE  SumFunctionOnSet(w, S) = SumFunctionOnSet(w, S \ N) - SumFunctionOnSet(m, N)
<1>. DEFINE Good == {T \in SUBSET S :
              SumFunctionOnSet(w, T) = SumFunctionOnSet(w, T \ N) - SumFunctionOnSet(m, T \cap N)}
<1>1. {} \in Good
  <2>1. {} \ N = {} /\ {} \cap N = {}
    OBVIOUS
  <2>. QED
    BY <2>1, SumEmpty
<1>2. ASSUME NEW T \in SUBSET S, T # {}, \A x \in T : T \ {x} \in Good
      PROVE  T \in Good
  <2>1. PICK x \in T : TRUE
    BY <1>2
  <2>. DEFINE V == T \ {x}
              A == T \ N
              B == T \cap N
  <2>2. SumFunctionOnSet(w, V) = SumFunctionOnSet(w, V \ N) - SumFunctionOnSet(m, V \cap N)
    BY <1>2
  <2>3. /\ IsFiniteSet(T) /\ IsFiniteSet(A) /\ IsFiniteSet(B)
        /\ IsFiniteSet(V \ N) /\ IsFiniteSet(V \cap N)
    BY FS_Subset
  <2>4. SumFunctionOnSet(w, T) = w[x] + SumFunctionOnSet(w, V)
    BY <2>3, SumRemove
  <2>5. /\ \A y \in A : w[y] \in Int
        /\ \A y \in B : m[y] \in Int
        /\ \A y \in V \ N : w[y] \in Int
        /\ \A y \in V \cap N : m[y] \in Int
    OBVIOUS
  <2>6. SumFunctionOnSet(w, V \ N) \in Int /\ SumFunctionOnSet(m, V \cap N) \in Int /\ w[x] \in Int
    BY <2>3, <2>5, SumType
  <2>7. CASE x \in N
    <3>1. A = V \ N /\ B \ {x} = V \cap N /\ x \in B /\ m[x] = -w[x]
      BY <2>7
    <3>. HIDE DEF A, B, V
    <3>2. SumFunctionOnSet(m, B) = m[x] + SumFunctionOnSet(m, V \cap N)
      <4>1. SumFunctionOnSet(m, B) = m[x] + SumFunctionOnSet(m, B \ {x})
        BY <2>3, <2>5, <3>1, SumRemove
      <4>. QED
        BY <3>1, <4>1
    <3>3. SumFunctionOnSet(w, T) = SumFunctionOnSet(w, A) - SumFunctionOnSet(m, B)
      BY <2>2, <2>4, <2>6, <3>1, <3>2
    <3>. QED
      BY <3>3 DEF A, B
  <2>8. CASE x \notin N
    <3>1. A \ {x} = V \ N /\ B = V \cap N /\ x \in A
      BY <2>8
    <3>. HIDE DEF A, B, V
    <3>2. SumFunctionOnSet(w, A) = w[x] + SumFunctionOnSet(w, V \ N)
      <4>1. SumFunctionOnSet(w, A) = w[x] + SumFunctionOnSet(w, A \ {x})
        BY <2>3, <2>5, <3>1, SumRemove
      <4>. QED
        BY <3>1, <4>1
    <3>3. SumFunctionOnSet(w, T) = SumFunctionOnSet(w, A) - SumFunctionOnSet(m, B)
      BY <2>2, <2>4, <2>6, <3>1, <3>2
    <3>. QED
      BY <3>3 DEF A, B
  <2>. QED
    BY <2>7, <2>8
<1>. HIDE DEF Good
<1>3. S \in Good
  BY <1>1, <1>2, SubsetInduction
<1>4. S \cap N = N
  OBVIOUS
<1>. QED
  BY <1>3, <1>4 DEF Good

=============================================================================
