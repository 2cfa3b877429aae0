----------------------------- MODULE SumLemmas -----------------------------
(***************************************************************************)
(* Sums over finite sets: SumFunctionOnSet(f, S), the sum of f[x] for the  *)
(* x in S, which the models use for amounts of money and numbers of rooms. *)
(*                                                                         *)
(* The operator is a recursive function.  That it exists, does not depend  *)
(* on the order in which elements are picked and has the usual laws is     *)
(* shown by induction on the size of the set: a set of natural numbers     *)
(* that is not empty, here the sizes of counterexamples, has a least one.  *)
(***************************************************************************)
EXTENDS FiniteSetsExt, FiniteSetTheorems, WellFoundedInduction, TLAPS

LEMMA LeastNumber ==
    ASSUME NEW T \in SUBSET Nat, T # {}
    PROVE  \E n \in T : \A m \in T : n <= m
<1> DEFINE R == {ss \in Nat \X Nat : ss[1] < ss[2]}
<1>1. IsWellFoundedOn(R, Nat)
  BY NatLessThanWellFounded, Zenon DEF OpToRel
<1>2. \E n \in T : \A m \in T : <<m, n>> \notin R
  <2> HIDE DEF R
  <2> QED
    BY <1>1, WFMin
<1>3. PICK n \in T : \A m \in T : <<m, n>> \notin R
  BY <1>2
<1>4. \A m \in T : ~ (m < n)
  BY <1>3
<1> QED
  BY <1>3, <1>4
-----------------------------------------------------------------------------
(* The recursive function behind SumFunctionOnSet(f, S). *)
Pick(s) == CHOOSE x \in s : TRUE

OneMore(f, iter, s) == IF s = {} THEN 0 ELSE f[Pick(s)] + iter[s \ {Pick(s)}]

TheSums(f, S) == CHOOSE iter : iter = [s \in SUBSET S |-> OneMore(f, iter, s)]

LEMMA Unfold ==
    ASSUME NEW f, NEW S
    PROVE  SumFunctionOnSet(f, S) = TheSums(f, S)[S]
BY DEF SumFunctionOnSet, FoldFunctionOnSet, MapThenFoldSet, TheSums, OneMore, Pick

Numbers(f, S) == \A x \in S : f[x] \in Int

(* The function for the subsets of at most n elements. *)
Small(S, n) == {s \in SUBSET S : Cardinality(s) <= n}

UpTo(f, S, n, g) ==
    /\ g \in [Small(S, n) -> Int]
    /\ \A s \in Small(S, n) : g[s] = OneMore(f, g, s)

LEMMA PickRemoves ==
    ASSUME NEW S, IsFiniteSet(S), NEW s \in SUBSET S, s # {}
    PROVE  /\ Pick(s) \in s /\ s \ {Pick(s)} \in SUBSET S
           /\ Cardinality(s) \in Nat /\ Cardinality(s \ {Pick(s)}) = Cardinality(s) - 1
           /\ Cardinality(s) > 0
<1>1. Pick(s) \in s
  BY DEF Pick
<1>2. IsFiniteSet(s)
  BY FS_Subset
<1>3. Cardinality(s) \in Nat /\ Cardinality(s) # 0
  BY <1>2, FS_CardinalityType, FS_EmptySet
<1>4. Cardinality(s \ {Pick(s)}) = Cardinality(s) - 1
  BY <1>1, <1>2, FS_RemoveElement
<1> QED
  BY <1>1, <1>3, <1>4

LEMMA UpToEvery ==
    ASSUME NEW S, IsFiniteSet(S), NEW f, Numbers(f, S)
    PROVE  \A n \in Nat : \E g : UpTo(f, S, n, g)
<1> DEFINE T == {n \in Nat : ~ \E g : UpTo(f, S, n, g)}
<1>1. SUFFICES ASSUME T # {} PROVE FALSE
  OBVIOUS
<1>2. PICK n \in T : \A m \in T : n <= m
  BY <1>1, LeastNumber
<1>3. n \in Nat /\ ~ \E g : UpTo(f, S, n, g)
  OBVIOUS
<1>4. CASE n = 0
  <2> DEFINE g == [s \in Small(S, 0) |-> 0]
  <2>1. ASSUME NEW s \in Small(S, 0) PROVE s = {}
    <3>1. s \in SUBSET S /\ Cardinality(s) <= 0
      BY DEF Small
    <3>2. s # {} => Cardinality(s) > 0 /\ Cardinality(s) \in Nat
      BY <3>1, PickRemoves
    <3> QED
      BY <3>1, <3>2
  <2>2. UpTo(f, S, 0, g)
    BY <2>1 DEF UpTo, OneMore
  <2> QED
    BY <1>3, <1>4, <2>2
<1>5. CASE n # 0
  <2>1. n - 1 \in Nat /\ n - 1 \notin T
    BY <1>2, <1>3, <1>5
  <2>2. PICK g : UpTo(f, S, n - 1, g)
    BY <2>1
  <2> DEFINE h == [s \in Small(S, n) |-> OneMore(f, g, s)]
  <2>3. ASSUME NEW s \in Small(S, n), s # {}
        PROVE  /\ s \ {Pick(s)} \in Small(S, n - 1) /\ s \ {Pick(s)} \in Small(S, n)
               /\ f[Pick(s)] \in Int
    <3>1. s \in SUBSET S /\ Cardinality(s) <= n
      BY DEF Small
    <3>2. /\ Pick(s) \in s /\ s \ {Pick(s)} \in SUBSET S
          /\ Cardinality(s) \in Nat /\ Cardinality(s \ {Pick(s)}) = Cardinality(s) - 1
      BY <2>3, <3>1, PickRemoves
    <3> QED
      BY <1>3, <3>1, <3>2 DEF Small, Numbers
  <2>4. ASSUME NEW s \in Small(S, n), s # {} PROVE g[s \ {Pick(s)}] \in Int
    BY <2>2, <2>3, <2>4 DEF UpTo
  <2>5. \A s \in Small(S, n) : OneMore(f, g, s) \in Int
    <3>1. ASSUME NEW s \in Small(S, n), s # {} PROVE OneMore(f, g, s) \in Int
      <4>a. f[Pick(s)] \in Int
        BY <2>3, <3>1
      <4>b. g[s \ {Pick(s)}] \in Int
        BY <2>4, <3>1
      <4>1. f[Pick(s)] + g[s \ {Pick(s)}] \in Int
        BY <4>a, <4>b
      <4> QED
        BY <3>1, <4>1 DEF OneMore
    <3> QED
      BY <3>1 DEF OneMore
  <2>6. h \in [Small(S, n) -> Int]
    BY <2>5
  <2>7. ASSUME NEW s \in Small(S, n), s # {} PROVE h[s \ {Pick(s)}] = g[s \ {Pick(s)}]
    BY <2>2, <2>3, <2>7 DEF UpTo
  <2>8. ASSUME NEW s \in Small(S, n) PROVE h[s] = OneMore(f, h, s)
    BY <2>7 DEF OneMore
  <2>9. UpTo(f, S, n, h)
    BY <2>6, <2>8 DEF UpTo
  <2> QED
    BY <1>3, <2>9
<1> QED
  BY <1>4, <1>5

LEMMA SumsExist ==
    ASSUME NEW S, IsFiniteSet(S), NEW f, Numbers(f, S)
    PROVE  /\ TheSums(f, S) \in [SUBSET S -> Int]
           /\ \A s \in SUBSET S : TheSums(f, S)[s] = OneMore(f, TheSums(f, S), s)
<1> DEFINE n == Cardinality(S)
<1>1. n \in Nat /\ Small(S, n) = SUBSET S
  BY FS_CardinalityType, FS_Subset DEF Small
<1>2. PICK g : UpTo(f, S, n, g)
  BY <1>1, UpToEvery
<1>3. g = [s \in SUBSET S |-> OneMore(f, g, s)]
  BY <1>1, <1>2 DEF UpTo
<1>4. TheSums(f, S) = [s \in SUBSET S |-> OneMore(f, TheSums(f, S), s)]
  BY <1>3 DEF TheSums
<1>5. \A s \in SUBSET S : TheSums(f, S)[s] = OneMore(f, TheSums(f, S), s)
  BY <1>4
<1>6. \A s \in SUBSET S : TheSums(f, S)[s] \in Int
  <2> DEFINE T == {k \in Nat : \E s \in SUBSET S : Cardinality(s) = k /\ TheSums(f, S)[s] \notin Int}
  <2>1. SUFFICES T = {}
    BY FS_Subset, FS_CardinalityType
  <2>2. SUFFICES ASSUME T # {} PROVE FALSE
    OBVIOUS
  <2>3. PICK k \in T : \A m \in T : k <= m
    BY <2>2, LeastNumber
  <2>4. PICK s \in SUBSET S : Cardinality(s) = k /\ TheSums(f, S)[s] \notin Int
    BY <2>3
  <2>5. s # {}
    <3>1. TheSums(f, S)[s] = OneMore(f, TheSums(f, S), s)
      BY <1>5
    <3>2. s = {} => OneMore(f, TheSums(f, S), s) = 0
      BY DEF OneMore
    <3> QED
      BY <2>4, <3>1, <3>2
  <2>6. /\ Pick(s) \in s /\ s \ {Pick(s)} \in SUBSET S
        /\ Cardinality(s \ {Pick(s)}) = k - 1 /\ k - 1 \in Nat
    BY <2>4, <2>5, PickRemoves
  <2>7. TheSums(f, S)[s \ {Pick(s)}] \in Int
    BY <2>3, <2>6
  <2>8. TheSums(f, S)[s] = f[Pick(s)] + TheSums(f, S)[s \ {Pick(s)}]
    BY <1>5, <2>5 DEF OneMore
  <2> QED
    BY <2>4, <2>6, <2>7, <2>8 DEF Numbers
<1> QED
  BY <1>4, <1>5, <1>6

(* The same numbers have the same sum, whatever the functions are elsewhere, *)
LEMMA SumsAgree ==
    ASSUME NEW S, IsFiniteSet(S), NEW f, Numbers(f, S),
           NEW R, IsFiniteSet(R), NEW h, Numbers(h, R),
           NEW A \in SUBSET (S \cap R), \A x \in A : f[x] = h[x]
    PROVE  TheSums(f, S)[A] = TheSums(h, R)[A]
<1> DEFINE Differ(s) == s \in SUBSET A /\ TheSums(f, S)[s] # TheSums(h, R)[s]
           T == {k \in Nat : \E s \in SUBSET A : Cardinality(s) = k /\ Differ(s)}
<1>1. SUFFICES ASSUME Differ(A) PROVE FALSE
  OBVIOUS
<1>2. T # {}
  <2>1. IsFiniteSet(A)
    BY FS_Subset
  <2>2. Cardinality(A) \in Nat
    BY <2>1, FS_CardinalityType
  <2> QED
    BY <1>1, <2>2
<1>3. PICK k \in T : \A m \in T : k <= m
  BY <1>2, LeastNumber
<1>4. PICK s \in SUBSET A : Cardinality(s) = k /\ Differ(s)
  BY <1>3
<1>5. /\ TheSums(f, S)[s] = OneMore(f, TheSums(f, S), s)
      /\ TheSums(h, R)[s] = OneMore(h, TheSums(h, R), s)
  <2>1. s \in SUBSET S /\ s \in SUBSET R
    BY <1>4
  <2>2. \A t \in SUBSET S : TheSums(f, S)[t] = OneMore(f, TheSums(f, S), t)
    BY SumsExist
  <2>3. \A t \in SUBSET R : TheSums(h, R)[t] = OneMore(h, TheSums(h, R), t)
    BY SumsExist
  <2> QED
    BY <2>1, <2>2, <2>3
<1>6. s # {}
  BY <1>4, <1>5 DEF OneMore
<1>7. /\ Pick(s) \in s /\ s \ {Pick(s)} \in SUBSET A
      /\ Cardinality(s \ {Pick(s)}) = k - 1 /\ k - 1 \in Nat
  BY <1>4, <1>6, PickRemoves
<1>8. TheSums(f, S)[s \ {Pick(s)}] = TheSums(h, R)[s \ {Pick(s)}]
  BY <1>3, <1>7
<1> QED
  BY <1>4, <1>5, <1>6, <1>7, <1>8 DEF OneMore

(* and any element may be the one that is added last. *)
LEMMA SumsAnyOrder ==
    ASSUME NEW S, IsFiniteSet(S), NEW f, Numbers(f, S), NEW A \in SUBSET S, NEW x \in A
    PROVE  TheSums(f, S)[A] = f[x] + TheSums(f, S)[A \ {x}]
<1> DEFINE F == TheSums(f, S)
           Wrong(s, y) == F[s] # f[y] + F[s \ {y}]
           T == {k \in Nat : \E s \in SUBSET S : Cardinality(s) = k /\ \E y \in s : Wrong(s, y)}
<1>1. SUFFICES ASSUME Wrong(A, x) PROVE FALSE
  OBVIOUS
<1>2. T # {}
  <2>1. Cardinality(A) \in Nat
    BY FS_Subset, FS_CardinalityType
  <2> QED
    BY <1>1, <2>1
<1>3. PICK k \in T : \A m \in T : k <= m
  BY <1>2, LeastNumber
<1>4. PICK s \in SUBSET S : Cardinality(s) = k /\ \E y \in s : Wrong(s, y)
  BY <1>3
<1>y. PICK y \in s : Wrong(s, y)
  BY <1>4
<1> DEFINE p == Pick(s)
<1>5. /\ p \in s /\ s \ {p} \in SUBSET S
      /\ Cardinality(s \ {p}) = k - 1 /\ k - 1 \in Nat
  BY <1>4, PickRemoves
<1>6. F \in [SUBSET S -> Int] /\ \A t \in SUBSET S : F[t] = OneMore(f, F, t)
  BY SumsExist
<1>7. F[s] = f[p] + F[s \ {p}]
  BY <1>4, <1>6 DEF OneMore
<1>8. p # y
  BY <1>y, <1>7
<1>m. ASSUME NEW t \in SUBSET S, Cardinality(t) = k - 1, NEW z \in t
      PROVE  F[t] = f[z] + F[t \ {z}]
  <2>1. k - 1 \notin T
    BY <1>3, <1>5
  <2>2. ~ Wrong(t, z)
    BY <1>5, <1>m, <2>1
  <2> QED
    BY <2>2
<1>9. \A z \in s \ {p} : F[s \ {p}] = f[z] + F[(s \ {p}) \ {z}]
  <2> HIDE DEF F, p
  <2> QED
    BY <1>m, <1>5
<1>10. F[s \ {p}] = f[y] + F[s \ {p, y}]
  <2>1. (s \ {p}) \ {y} = s \ {p, y}
    OBVIOUS
  <2> QED
    BY <1>8, <1>9, <2>1
<1>11. F[s \ {y}] = f[p] + F[s \ {p, y}]
  <2>1. s \ {y} \in SUBSET S /\ Cardinality(s \ {y}) = k - 1
    BY <1>4, FS_Subset, FS_RemoveElement
  <2>2. \A z \in s \ {y} : F[s \ {y}] = f[z] + F[(s \ {y}) \ {z}]
    <3> HIDE DEF F, p
    <3> QED
      BY <1>m, <2>1
  <2>3. (s \ {y}) \ {p} = s \ {p, y}
    OBVIOUS
  <2> QED
    BY <1>5, <1>8, <2>2, <2>3
<1>12. f[p] \in Int /\ f[y] \in Int /\ F[s \ {p, y}] \in Int
  BY <1>5, <1>6 DEF Numbers
<1> QED
  BY <1>y, <1>7, <1>10, <1>11, <1>12
-----------------------------------------------------------------------------
(* The laws of sums. *)
LEMMA SumEmpty == \A f : SumFunctionOnSet(f, {}) = 0
<1> TAKE f
<1>1. IsFiniteSet({}) /\ Numbers(f, {})
  BY FS_EmptySet DEF Numbers
<1>2. TheSums(f, {})[{}] = OneMore(f, TheSums(f, {}), {})
  BY <1>1, SumsExist
<1> QED
  BY <1>2, Unfold DEF OneMore

LEMMA SumInteger ==
    ASSUME NEW S, IsFiniteSet(S), NEW f, \A x \in S : f[x] \in Int
    PROVE  SumFunctionOnSet(f, S) \in Int
BY Unfold, SumsExist DEF Numbers

LEMMA SumSame ==
    ASSUME NEW S, IsFiniteSet(S), NEW f, NEW h, \A x \in S : f[x] \in Int /\ h[x] = f[x]
    PROVE  SumFunctionOnSet(h, S) = SumFunctionOnSet(f, S)
<1>1. Numbers(f, S) /\ Numbers(h, S)
  BY DEF Numbers
<1> QED
  BY <1>1, Unfold, SumsAgree

LEMMA SumTakeOut ==
    ASSUME NEW S, IsFiniteSet(S), NEW f, \A y \in S : f[y] \in Int, NEW x \in S
    PROVE  SumFunctionOnSet(f, S) = f[x] + SumFunctionOnSet(f, S \ {x})
<1>1. Numbers(f, S) /\ Numbers(f, S \ {x}) /\ IsFiniteSet(S \ {x})
  BY FS_RemoveElement DEF Numbers
<1>2. TheSums(f, S)[S] = f[x] + TheSums(f, S)[S \ {x}]
  BY <1>1, SumsAnyOrder
<1>3. TheSums(f, S)[S \ {x}] = TheSums(f, S \ {x})[S \ {x}]
  BY <1>1, SumsAgree
<1> QED
  BY <1>2, <1>3, Unfold

LEMMA SumPutIn ==
    ASSUME NEW S, IsFiniteSet(S), NEW x, x \notin S,
           NEW f, \A y \in S \cup {x} : f[y] \in Int
    PROVE  SumFunctionOnSet(f, S \cup {x}) = f[x] + SumFunctionOnSet(f, S)
<1>1. IsFiniteSet(S \cup {x}) /\ (S \cup {x}) \ {x} = S
  BY FS_AddElement
<1> QED
  BY <1>1, SumTakeOut

(* One of the numbers changes. *)
LEMMA SumUpdate ==
    ASSUME NEW S, IsFiniteSet(S), NEW x \in S, NEW f, NEW h,
           \A y \in S : f[y] \in Int /\ h[y] \in Int,
           \A y \in S \ {x} : h[y] = f[y]
    PROVE  SumFunctionOnSet(h, S) = SumFunctionOnSet(f, S) - f[x] + h[x]
<1>1. IsFiniteSet(S \ {x})
  BY FS_RemoveElement
<1>2. SumFunctionOnSet(h, S \ {x}) = SumFunctionOnSet(f, S \ {x})
  BY <1>1, SumSame
<1>3. SumFunctionOnSet(f, S \ {x}) \in Int
  BY <1>1, SumInteger
<1>4. SumFunctionOnSet(h, S) = h[x] + SumFunctionOnSet(h, S \ {x})
  BY SumTakeOut
<1>5. SumFunctionOnSet(f, S) = f[x] + SumFunctionOnSet(f, S \ {x})
  BY SumTakeOut
<1> QED
  BY <1>2, <1>3, <1>4, <1>5
(* Natural numbers have a sum that is one, and at least as large as each of them. *)
LEMMA SumNatural ==
    ASSUME NEW S, IsFiniteSet(S), NEW f, \A x \in S : f[x] \in Nat
    PROVE  SumFunctionOnSet(f, S) \in Nat
<1> DEFINE Wrong(s) == SumFunctionOnSet(f, s) \notin Nat
           T == {k \in Nat : \E s \in SUBSET S : Cardinality(s) = k /\ Wrong(s)}
<1>1. SUFFICES ASSUME Wrong(S) PROVE FALSE
  OBVIOUS
<1>2. T # {}
  BY <1>1, FS_CardinalityType
<1>3. PICK k \in T : \A m \in T : k <= m
  BY <1>2, LeastNumber
<1>4. PICK s \in SUBSET S : Cardinality(s) = k /\ Wrong(s)
  BY <1>3
<1>5. s # {}
  BY <1>4, SumEmpty
<1>6. PICK x \in s : TRUE
  BY <1>5
<1>7. /\ IsFiniteSet(s) /\ s \ {x} \in SUBSET S
      /\ Cardinality(s \ {x}) = k - 1 /\ k - 1 \in Nat
  <2>1. IsFiniteSet(s)
    BY FS_Subset
  <2>2. Cardinality(s \ {x}) = k - 1 /\ Cardinality(s \ {x}) \in Nat
    BY <1>4, <2>1, FS_RemoveElement, FS_CardinalityType
  <2> QED
    BY <2>1, <2>2
<1>8. k - 1 \notin T
  <2>1. k \in Nat
    OBVIOUS
  <2> HIDE DEF T
  <2>2. k - 1 \in T => k <= k - 1
    BY <1>3
  <2> QED
    BY <2>1, <2>2
<1>9. SumFunctionOnSet(f, s \ {x}) \in Nat
  BY <1>7, <1>8
<1>10. SumFunctionOnSet(f, s) = f[x] + SumFunctionOnSet(f, s \ {x})
  BY <1>7, SumTakeOut
<1> QED
  BY <1>4, <1>9, <1>10

LEMMA SumAtLeast ==
    ASSUME NEW S, IsFiniteSet(S), NEW f, \A x \in S : f[x] \in Nat, NEW x \in S
    PROVE  f[x] <= SumFunctionOnSet(f, S)
<1>1. SumFunctionOnSet(f, S) = f[x] + SumFunctionOnSet(f, S \ {x})
  BY SumTakeOut
<1>2. SumFunctionOnSet(f, S \ {x}) \in Nat
  BY FS_RemoveElement, SumNatural
<1> QED
  BY <1>1, <1>2

(* The sum over a set is that over a part of it and that over the rest. *)
LEMMA SumSplit ==
    ASSUME NEW S, IsFiniteSet(S), NEW f, \A x \in S : f[x] \in Int, NEW A \in SUBSET S
    PROVE  SumFunctionOnSet(f, S) = SumFunctionOnSet(f, A) + SumFunctionOnSet(f, S \ A)
<1> DEFINE Wrong(s) == SumFunctionOnSet(f, S) # SumFunctionOnSet(f, s) + SumFunctionOnSet(f, S \ s)
           T == {k \in Nat : \E s \in SUBSET S : Cardinality(s) = k /\ Wrong(s)}
<1>1. SUFFICES ASSUME Wrong(A) PROVE FALSE
  OBVIOUS
<1>2. T # {}
  BY <1>1, FS_Subset, FS_CardinalityType
<1>3. PICK k \in T : \A m \in T : k <= m
  BY <1>2, LeastNumber
<1>4. PICK s \in SUBSET S : Cardinality(s) = k /\ Wrong(s)
  BY <1>3
<1>5. s # {}
  <2>1. SumFunctionOnSet(f, S) \in Int /\ S \ {} = S /\ SumFunctionOnSet(f, {}) = 0
    BY SumInteger, SumEmpty
  <2> QED
    BY <1>4, <2>1
<1>6. PICK x \in s : TRUE
  BY <1>5
<1>7. /\ IsFiniteSet(s) /\ s \ {x} \in SUBSET S
      /\ Cardinality(s \ {x}) = k - 1 /\ k - 1 \in Nat
  <2>1. IsFiniteSet(s)
    BY FS_Subset
  <2>2. Cardinality(s \ {x}) = k - 1 /\ Cardinality(s \ {x}) \in Nat
    BY <1>4, <2>1, FS_RemoveElement, FS_CardinalityType
  <2> QED
    BY <2>1, <2>2
<1>8. k - 1 \notin T
  <2>1. k \in Nat
    OBVIOUS
  <2> HIDE DEF T
  <2>2. k - 1 \in T => k <= k - 1
    BY <1>3
  <2> QED
    BY <2>1, <2>2
<1>9. SumFunctionOnSet(f, S)
      = SumFunctionOnSet(f, s \ {x}) + SumFunctionOnSet(f, S \ (s \ {x}))
  BY <1>7, <1>8
<1>10. SumFunctionOnSet(f, s) = f[x] + SumFunctionOnSet(f, s \ {x})
  BY <1>7, SumTakeOut
<1>11. SumFunctionOnSet(f, S \ (s \ {x})) = f[x] + SumFunctionOnSet(f, S \ s)
  <2>1. x \in S \ (s \ {x}) /\ (S \ (s \ {x})) \ {x} = S \ s /\ IsFiniteSet(S \ (s \ {x}))
    BY <1>6, FS_Subset
  <2> QED
    BY <2>1, SumTakeOut
<1>12. /\ SumFunctionOnSet(f, s \ {x}) \in Int /\ f[x] \in Int
       /\ SumFunctionOnSet(f, S \ s) \in Int
  <2>1. IsFiniteSet(s \ {x}) /\ IsFiniteSet(S \ s)
    BY <1>7, FS_Subset
  <2> QED
    BY <1>7, <2>1, SumInteger
<1> QED
  BY <1>4, <1>9, <1>10, <1>11, <1>12

LEMMA FiniteImage ==
    ASSUME NEW S, IsFiniteSet(S), NEW g
    PROVE  IsFiniteSet({g[x] : x \in S})
<1> DEFINE R == {g[x] : x \in S}
           f == [x \in S |-> g[x]]
<1>1. f \in Surjection(S, R)
  BY DEF Surjection
<1> QED
  BY <1>1, FS_Surjection

(* A sum does not depend on what its numbers are the numbers of. *)
LEMMA SumRenamed ==
    ASSUME NEW S, IsFiniteSet(S), NEW f, \A x \in S : f[x] \in Int,
           NEW g, \A x, y \in S : g[x] = g[y] => x = y,
           NEW h, \A x \in S : h[g[x]] = f[x]
    PROVE  SumFunctionOnSet(h, {g[x] : x \in S}) = SumFunctionOnSet(f, S)
<1> DEFINE Image(s) == {g[x] : x \in s}
           Wrong(s) == SumFunctionOnSet(h, Image(s)) # SumFunctionOnSet(f, s)
           T == {k \in Nat : \E s \in SUBSET S : Cardinality(s) = k /\ Wrong(s)}
<1>1. SUFFICES ASSUME Wrong(S) PROVE FALSE
  OBVIOUS
<1>2. T # {}
  BY <1>1, FS_CardinalityType
<1>3. PICK k \in T : \A m \in T : k <= m
  BY <1>2, LeastNumber
<1>4. PICK s \in SUBSET S : Cardinality(s) = k /\ Wrong(s)
  BY <1>3
<1>5. s # {}
  BY <1>4, SumEmpty
<1>6. PICK x \in s : TRUE
  BY <1>5
<1>7. /\ IsFiniteSet(s) /\ s \ {x} \in SUBSET S
      /\ Cardinality(s \ {x}) = k - 1 /\ k - 1 \in Nat
  <2>1. IsFiniteSet(s)
    BY FS_Subset
  <2>2. Cardinality(s \ {x}) = k - 1 /\ Cardinality(s \ {x}) \in Nat
    BY <1>4, <2>1, FS_RemoveElement, FS_CardinalityType
  <2> QED
    BY <2>1, <2>2
<1>8. k - 1 \notin T
  <2>1. k \in Nat
    OBVIOUS
  <2> HIDE DEF T
  <2>2. k - 1 \in T => k <= k - 1
    BY <1>3
  <2> QED
    BY <2>1, <2>2
<1>9. SumFunctionOnSet(h, Image(s \ {x})) = SumFunctionOnSet(f, s \ {x})
  BY <1>7, <1>8
<1>10. SumFunctionOnSet(f, s) = f[x] + SumFunctionOnSet(f, s \ {x})
  BY <1>7, SumTakeOut
<1>11. SumFunctionOnSet(h, Image(s)) = h[g[x]] + SumFunctionOnSet(h, Image(s) \ {g[x]})
  <2>1. IsFiniteSet(Image(s))
    BY <1>7, FiniteImage
  <2>2. \A y \in Image(s) : h[y] \in Int
    OBVIOUS
  <2>3. g[x] \in Image(s)
    BY <1>6
  <2> HIDE DEF Image
  <2> QED
    BY <2>1, <2>2, <2>3, SumTakeOut
<1>12. Image(s) \ {g[x]} = Image(s \ {x})
  BY <1>6
<1>13. h[g[x]] = f[x]
  BY <1>6
<1> QED
  <2> HIDE DEF Image
  <2> QED
    BY <1>4, <1>9, <1>10, <1>11, <1>12, <1>13

-----------------------------------------------------------------------------
(* Bounds. *)

\* A finite set of numbers has a largest one.
LEMMA LargestNumber ==
  ASSUME NEW S, IsFiniteSet(S), S # {}, S \subseteq Int
  PROVE  \E n \in S : \A m \in S : m <= n
<1> DEFINE Wrong(s) == s # {} /\ ~ \E n \in s : \A m \in s : m <= n
           T == {k \in Nat : \E s \in SUBSET S : Cardinality(s) = k /\ Wrong(s)}
<1>1. SUFFICES ASSUME Wrong(S) PROVE FALSE
  OBVIOUS
<1>2. T # {}
  BY <1>1, FS_CardinalityType
<1>3. PICK k \in T : \A m \in T : k <= m
  BY <1>2, LeastNumber
<1>4. PICK s \in SUBSET S : Cardinality(s) = k /\ Wrong(s)
  BY <1>3
<1>5. PICK x \in s : TRUE
  BY <1>4
<1>6. Cardinality(s \ {x}) = k - 1 /\ k - 1 \in Nat
  <2>1. IsFiniteSet(s) /\ k \in Nat /\ Cardinality(s) = k
    BY <1>4, FS_Subset
  <2> HIDE DEF T
  <2>2. IsFiniteSet(s \ {x}) /\ Cardinality(s \ {x}) = k - 1
    BY <2>1, FS_RemoveElement
  <2> QED
    BY <2>2, FS_CardinalityType
<1>7. k - 1 \notin T
  <2>1. k \in Nat
    OBVIOUS
  <2> HIDE DEF T
  <2>2. k - 1 \in T => k <= k - 1
    BY <1>3
  <2> QED
    BY <2>1, <2>2
<1>8. ~ Wrong(s \ {x})
  BY <1>6, <1>7
<1>9. CASE s \ {x} = {}
  <2>1. s = {x} /\ x \in Int
    BY <1>9
  <2> QED
    BY <1>4, <2>1
<1>10. CASE s \ {x} # {}
  <2>1. PICK n \in s \ {x} : \A m \in s \ {x} : m <= n
    BY <1>8, <1>10
  <2>2. x \in Int /\ n \in Int /\ \A m \in s : m = x \/ m <= n
    BY <2>1
  <2>3. IF x <= n THEN \A m \in s : m <= n ELSE \A m \in s : m <= x
    <3>1. \A m \in s : m \in Int
      OBVIOUS
    <3> QED
      BY <2>2, <3>1
  <2> QED
    BY <1>4, <2>1, <2>3
<1> QED
  BY <1>9, <1>10

\* The sum of the same number everywhere.
LEMMA SumConstant ==
  ASSUME NEW S, IsFiniteSet(S), NEW f, NEW n \in Int, \A x \in S : f[x] = n
  PROVE  SumFunctionOnSet(f, S) = n * Cardinality(S)
<1> DEFINE Wrong(s) == SumFunctionOnSet(f, s) # n * Cardinality(s)
           T == {k \in Nat : \E s \in SUBSET S : Cardinality(s) = k /\ Wrong(s)}
<1>1. SUFFICES ASSUME Wrong(S) PROVE FALSE
  OBVIOUS
<1>2. T # {}
  BY <1>1, FS_CardinalityType
<1>3. PICK k \in T : \A m \in T : k <= m
  BY <1>2, LeastNumber
<1>4. PICK s \in SUBSET S : Cardinality(s) = k /\ Wrong(s)
  BY <1>3
<1>5. IsFiniteSet(s) /\ \A x \in s : f[x] \in Int
  BY <1>4, FS_Subset
<1>6. s # {}
  <2> SUFFICES ASSUME s = {} PROVE FALSE
    OBVIOUS
  <2>1. SumFunctionOnSet(f, s) = 0 /\ Cardinality(s) = 0
    BY SumEmpty, FS_EmptySet
  <2> QED
    BY <2>1, <1>4
<1>7. PICK x \in s : TRUE
  BY <1>6
<1>8. /\ SumFunctionOnSet(f, s) = f[x] + SumFunctionOnSet(f, s \ {x})
      /\ Cardinality(s \ {x}) = k - 1 /\ Cardinality(s \ {x}) \in Nat
  BY <1>4, <1>5, <1>7, SumTakeOut, FS_RemoveElement, FS_CardinalityType
<1>9. ~ Wrong(s \ {x})
  <2>1. k \in Nat /\ k - 1 \in Nat
    BY <1>3, <1>8
  <2>2. k - 1 \notin T
    <3> HIDE DEF T
    <3>1. k - 1 \in T => k <= k - 1
      BY <1>3
    <3> QED
      BY <2>1, <3>1
  <2> QED
    BY <1>8, <2>1, <2>2
<1>10. SumFunctionOnSet(f, s) = n + n * (k - 1)
  BY <1>7, <1>8, <1>9
<1> QED
  BY <1>3, <1>4, <1>10

\* The sum of smaller numbers is not larger.
LEMMA SumBelow ==
  ASSUME NEW S, IsFiniteSet(S), NEW f, NEW h, \A x \in S : f[x] \in Int /\ h[x] \in Int /\ f[x] <= h[x]
  PROVE  SumFunctionOnSet(f, S) <= SumFunctionOnSet(h, S)
<1> DEFINE Wrong(s) == ~ SumFunctionOnSet(f, s) <= SumFunctionOnSet(h, s)
           T == {k \in Nat : \E s \in SUBSET S : Cardinality(s) = k /\ Wrong(s)}
<1>1. SUFFICES ASSUME Wrong(S) PROVE FALSE
  OBVIOUS
<1>2. T # {}
  BY <1>1, FS_CardinalityType
<1>3. PICK k \in T : \A m \in T : k <= m
  BY <1>2, LeastNumber
<1>4. PICK s \in SUBSET S : Cardinality(s) = k /\ Wrong(s)
  BY <1>3
<1>5. IsFiniteSet(s)
  BY <1>4, FS_Subset
<1>6. s # {}
  <2> SUFFICES ASSUME s = {} PROVE FALSE
    OBVIOUS
  <2>1. SumFunctionOnSet(f, s) = 0 /\ SumFunctionOnSet(h, s) = 0
    BY SumEmpty
  <2> QED
    BY <2>1, <1>4
<1>7. PICK x \in s : TRUE
  BY <1>6
<1>8. /\ SumFunctionOnSet(f, s) = f[x] + SumFunctionOnSet(f, s \ {x})
      /\ SumFunctionOnSet(h, s) = h[x] + SumFunctionOnSet(h, s \ {x})
      /\ SumFunctionOnSet(f, s \ {x}) \in Int /\ SumFunctionOnSet(h, s \ {x}) \in Int
      /\ Cardinality(s \ {x}) = k - 1 /\ Cardinality(s \ {x}) \in Nat
  BY <1>4, <1>5, <1>7, SumTakeOut, SumInteger, FS_RemoveElement, FS_CardinalityType
<1>9. ~ Wrong(s \ {x})
  <2>1. k \in Nat /\ k - 1 \in Nat
    BY <1>3, <1>8
  <2>2. k - 1 \notin T
    <3> HIDE DEF T
    <3>1. k - 1 \in T => k <= k - 1
      BY <1>3
    <3> QED
      BY <2>1, <3>1
  <2> QED
    BY <1>8, <2>1, <2>2
<1> QED
  BY <1>4, <1>7, <1>8, <1>9

\* Numbers between 0 and n add up to no more than n for each of them.
LEMMA SumWithin ==
  ASSUME NEW S, IsFiniteSet(S), NEW f, NEW n \in Nat, \A x \in S : f[x] \in 0 .. n
  PROVE  SumFunctionOnSet(f, S) \in 0 .. n * Cardinality(S)
<1> DEFINE h == [x \in S |-> n]
<1>1. SumFunctionOnSet(h, S) = n * Cardinality(S)
  BY SumConstant
<1>2. \A x \in S : f[x] \in Int /\ h[x] \in Int /\ f[x] <= h[x] /\ f[x] \in Nat
  OBVIOUS
<1> HIDE DEF h
<1>3. SumFunctionOnSet(f, S) <= SumFunctionOnSet(h, S)
  BY <1>2, SumBelow
<1>4. SumFunctionOnSet(f, S) \in Nat
  BY <1>2, SumNatural
<1>5. Cardinality(S) \in Nat
  BY FS_CardinalityType
<1> QED
  BY <1>1, <1>3, <1>4, <1>5
=============================================================================
