----------------------- MODULE NodeDelegatorLST_proofs -----------------------
(***************************************************************************)
(* Proofs about NodeDelegatorLST, for any number of NodeDelegators,        *)
(* strategies, assets and stakers.  The inductive invariant adds to the    *)
(* types and to RequestsBacked that a root whose nonce has not been used   *)
(* is untouched: that is why a new withdrawal cannot collide with the      *)
(* record of an old one.                                                   *)
(*                                                                         *)
(* First what the totals and loops of this module and the others rest on:  *)
(* induction over finite sets, and from it the laws of SumFunctionOnSet    *)
(* and of what FoldLeft computes.  Induction is stated for the set of      *)
(* things a property holds of, and follows from the order of the natural   *)
(* numbers being well-founded.                                             *)
(***************************************************************************)
EXTENDS NodeDelegatorLST, Functions, Sequences, FiniteSetTheorems, WellFoundedInduction, TLAPS

\* Every set of natural numbers that is not empty has a least element.
LEMMA LeastNat ==
  ASSUME NEW T \in SUBSET Nat, T # {}
  PROVE  \E m \in T : \A k \in T : m <= k
<1>1. PICK m \in T : \A k \in T : ~(<<k, m>> \in OpToRel(<, Nat))
  BY NatLessThanWellFounded, WFMin
<1>2. \A k \in T : ~(k < m)
  BY <1>1 DEF OpToRel
<1>. QED
  BY <1>2

\* Induction over the natural numbers, for the set of those a property holds of.
LEMMA NatSetInduction ==
  ASSUME NEW Good \in SUBSET Nat, 0 \in Good, \A n \in Good : n + 1 \in Good
  PROVE  Good = Nat
<1>. SUFFICES ASSUME Nat \ Good # {}
              PROVE  FALSE
  OBVIOUS
<1>1. PICK m \in Nat \ Good : \A k \in Nat \ Good : m <= k
  BY LeastNat
<1>2. m # 0 /\ m - 1 \in Good
  BY <1>1
<1>. QED
  BY <1>1, <1>2

\* Induction over the subsets of a finite set.
LEMMA SetInduction ==
  ASSUME NEW S, IsFiniteSet(S), NEW Good \in SUBSET SUBSET S, {} \in Good,
         \A T \in SUBSET S : T # {} /\ (\A x \in T : T \ {x} \in Good) => T \in Good
  PROVE  Good = SUBSET S
<1>. DEFINE Sized == {n \in Nat : \A T \in SUBSET S : Cardinality(T) = n => T \in Good}
<1>1. \A T \in SUBSET S : IsFiniteSet(T) /\ Cardinality(T) \in Nat
  BY FS_Subset, FS_CardinalityType
<1>2. 0 \in Sized
  BY <1>1, FS_EmptySet
<1>3. ASSUME NEW n \in Sized
      PROVE  n + 1 \in Sized
  <2>. SUFFICES ASSUME NEW T \in SUBSET S, Cardinality(T) = n + 1
                PROVE  T \in Good
    OBVIOUS
  <2>1. T # {}
    BY <1>1, FS_EmptySet
  <2>2. ASSUME NEW x \in T
        PROVE  T \ {x} \in Good
    <3>1. n \in Nat /\ \A U \in SUBSET S : Cardinality(U) = n => U \in Good
      OBVIOUS
    <3>2. T \ {x} \in SUBSET S /\ Cardinality(T \ {x}) = Cardinality(T) - 1
      BY <1>1, FS_RemoveElement
    <3>. QED
      BY <3>1, <3>2
  <2>. QED
    BY <2>1, <2>2
<1>. HIDE DEF Sized
<1>4. Sized = Nat
  BY <1>2, <1>3, NatSetInduction DEF Sized
<1>. QED
  BY <1>1, <1>4 DEF Sized

-----------------------------------------------------------------------------
(* The recursive function behind SumFunctionOnSet *)

First(T) == CHOOSE x \in T : TRUE

\* sum is what f adds up to over each subset of S, in the order of First.
Sums(f, S, sum) ==
  sum = [T \in SUBSET S |-> IF T = {} THEN 0 ELSE f[First(T)] + sum[T \ {First(T)}]]

LEMMA SumsExist ==
  ASSUME NEW f, NEW S, IsFiniteSet(S)
  PROVE  \E sum : Sums(f, S, sum)
<1>. DEFINE UpTo(n) == {T \in SUBSET S : Cardinality(T) <= n}
            Next(g, T) == IF T = {} THEN 0 ELSE f[First(T)] + g[T \ {First(T)}]
            Reached == {n \in Nat : \E g : g = [T \in UpTo(n) |-> Next(g, T)]}
<1>1. \A T \in SUBSET S : IsFiniteSet(T) /\ Cardinality(T) \in Nat
  BY FS_Subset, FS_CardinalityType
<1>2. \A T \in SUBSET S : T # {} =>
        /\ First(T) \in T /\ T \ {First(T)} \in SUBSET S
        /\ Cardinality(T \ {First(T)}) = Cardinality(T) - 1
  BY <1>1, FS_RemoveElement DEF First
<1>3. 0 \in Reached
  <2>1. UpTo(0) = {{}}
    BY <1>1, FS_EmptySet
  <2>2. [T \in UpTo(0) |-> 0] = [T \in UpTo(0) |-> Next([R \in UpTo(0) |-> 0], T)]
    BY <2>1
  <2>. QED
    BY <2>2
<1>4. ASSUME NEW n \in Reached
      PROVE  n + 1 \in Reached
  <2>1. PICK g : g = [T \in UpTo(n) |-> Next(g, T)]
    OBVIOUS
  <2>. DEFINE h == [T \in UpTo(n + 1) |-> Next(g, T)]
  <2>2. UpTo(n) \subseteq UpTo(n + 1)
    BY <1>1
  <2>3. \A T \in UpTo(n + 1) : T # {} => T \ {First(T)} \in UpTo(n)
    BY <1>1, <1>2
  <2>4. \A T \in UpTo(n) : g[T] = Next(g, T)
    <3>. HIDE DEF UpTo, Next
    <3>. QED
      BY <2>1
  <2>5. \A T \in UpTo(n) : h[T] = g[T]
    <3>. HIDE DEF UpTo, Next
    <3>. QED
      BY <2>2, <2>4
  <2>6. ASSUME NEW T \in UpTo(n + 1)
        PROVE  Next(h, T) = Next(g, T)
    <3>1. T # {} => h[T \ {First(T)}] = g[T \ {First(T)}]
      BY <2>3, <2>5
    <3>. HIDE DEF h
    <3>. QED
      BY <3>1
  <2>7. h = [T \in UpTo(n + 1) |-> Next(h, T)]
    <3>. HIDE DEF UpTo, Next
    <3>. QED
      BY <2>6
  <2>8. \E q : q = [T \in UpTo(n + 1) |-> Next(q, T)]
    <3>. HIDE DEF h, UpTo, Next
    <3>. QED
      BY <2>7
  <2>. HIDE DEF UpTo, Next
  <2>. QED
    BY <2>8
<1>. HIDE DEF Reached
<1>5. Reached = Nat
  BY <1>3, <1>4, NatSetInduction DEF Reached
<1>6. UpTo(Cardinality(S)) = SUBSET S
  BY <1>1, FS_Subset
<1>7. PICK g : g = [T \in UpTo(Cardinality(S)) |-> Next(g, T)]
  <2>1. Cardinality(S) \in Reached
    BY <1>1, <1>5
  <2>. HIDE DEF UpTo, Next
  <2>. QED
    BY <2>1 DEF Reached
<1>8. g = [T \in SUBSET S |-> Next(g, T)]
  <2>. HIDE DEF UpTo, Next
  <2>. QED
    BY <1>6, <1>7
<1>. QED
  BY <1>8 DEF Sums

\* Two sums over the same elements are the same.
LEMMA SumsAgree ==
  ASSUME NEW f, NEW g, NEW R, NEW S, NEW sumf, NEW sumg, Sums(f, R, sumf), Sums(g, S, sumg),
         NEW T, IsFiniteSet(T), T \subseteq R, T \subseteq S, \A x \in T : f[x] = g[x]
  PROVE  sumf[T] = sumg[T]
<1>. DEFINE Good == {U \in SUBSET T : sumf[U] = sumg[U]}
<1>1. \A U \in SUBSET T :
        /\ sumf[U] = IF U = {} THEN 0 ELSE f[First(U)] + sumf[U \ {First(U)}]
        /\ sumg[U] = IF U = {} THEN 0 ELSE g[First(U)] + sumg[U \ {First(U)}]
  BY DEF Sums
<1>2. {} \in Good
  BY <1>1
<1>3. ASSUME NEW U \in SUBSET T, U # {}, U \ {First(U)} \in Good
      PROVE  U \in Good
  <2>1. First(U) \in U
    BY <1>3 DEF First
  <2>. QED
    BY <1>1, <1>3, <2>1
<1>. HIDE DEF Good
<1>4. Good = SUBSET T
  <2>1. \A U \in SUBSET T : U # {} => First(U) \in U
    BY DEF First
  <2>2. Good \in SUBSET SUBSET T
    BY DEF Good
  <2>3. \A U \in SUBSET T : U # {} /\ (\A x \in U : U \ {x} \in Good) => U \in Good
    BY <1>3, <2>1
  <2>. QED
    BY <1>2, <2>2, <2>3, SetInduction
<1>. QED
  BY <1>4 DEF Good

\* A sum of finitely many integers is one.
LEMMA SumsAreIntegers ==
  ASSUME NEW f, NEW S, IsFiniteSet(S), NEW sum, Sums(f, S, sum), \A x \in S : f[x] \in Int
  PROVE  \A T \in SUBSET S : sum[T] \in Int
<1>. DEFINE Good == {T \in SUBSET S : sum[T] \in Int}
<1>1. \A T \in SUBSET S :
        sum[T] = IF T = {} THEN 0 ELSE f[First(T)] + sum[T \ {First(T)}]
  BY DEF Sums
<1>2. {} \in Good
  <2>1. sum[{}] = 0
    BY <1>1
  <2>. QED
    BY <2>1
<1>3. ASSUME NEW T \in SUBSET S, T # {}, \A x \in T : T \ {x} \in Good
      PROVE  T \in Good
  <2>1. First(T) \in T /\ sum[T] = f[First(T)] + sum[T \ {First(T)}]
    BY <1>1, <1>3 DEF First
  <2>2. f[First(T)] \in Int /\ sum[T \ {First(T)}] \in Int
    BY <1>3, <2>1
  <2>. QED
    BY <2>1, <2>2
<1>4. Good = SUBSET S
  <2>. HIDE DEF Good
  <2>1. Good \in SUBSET SUBSET S
    BY DEF Good
  <2>. QED
    BY <1>2, <1>3, <2>1, SetInduction
<1>. QED
  BY <1>4

\* The order they are added up in does not matter: any of them may be the last.
LEMMA SumsInAnyOrder ==
  ASSUME NEW f, NEW S, IsFiniteSet(S), NEW sum, Sums(f, S, sum), \A x \in S : f[x] \in Int
  PROVE  \A T \in SUBSET S : \A x \in T : sum[T] = f[x] + sum[T \ {x}]
<1>. DEFINE Good == {T \in SUBSET S : \A x \in T : sum[T] = f[x] + sum[T \ {x}]}
<1>1. \A T \in SUBSET S : T # {} => sum[T] = f[First(T)] + sum[T \ {First(T)}]
  BY DEF Sums
<1>2. \A T \in SUBSET S : sum[T] \in Int
  BY SumsAreIntegers
<1>3. ASSUME NEW T \in SUBSET S, T # {}, \A x \in T : T \ {x} \in Good
      PROVE  T \in Good
  <2>1. First(T) \in T /\ sum[T] = f[First(T)] + sum[T \ {First(T)}]
    BY <1>1, <1>3 DEF First
  <2>2. ASSUME NEW x \in T, x # First(T)
        PROVE  sum[T] = f[x] + sum[T \ {x}]
    <3>1. /\ sum[T \ {First(T)}] = f[x] + sum[(T \ {First(T)}) \ {x}]
          /\ sum[T \ {x}] = f[First(T)] + sum[(T \ {x}) \ {First(T)}]
      BY <1>3, <2>1, <2>2
    <3>. DEFINE rest == sum[(T \ {x}) \ {First(T)}]
    <3>2. (T \ {First(T)}) \ {x} = (T \ {x}) \ {First(T)}
      OBVIOUS
    <3>3. rest \in Int /\ f[x] \in Int /\ f[First(T)] \in Int
      BY <1>2, <2>1
    <3>4. sum[T] = f[First(T)] + (f[x] + rest) /\ sum[T \ {x}] = f[First(T)] + rest
      BY <2>1, <3>1, <3>2
    <3>. HIDE DEF rest
    <3>. QED
      BY <3>3, <3>4
  <2>. QED
    BY <2>1, <2>2
<1>4. Good = SUBSET S
  <2>1. {} \in Good
    OBVIOUS
  <2>. HIDE DEF Good
  <2>2. Good \in SUBSET SUBSET S
    BY DEF Good
  <2>. QED
    BY <1>3, <2>1, <2>2, SetInduction
<1>. QED
  BY <1>4

-----------------------------------------------------------------------------
(* SumFunctionOnSet *)

LEMMA SumUnfold ==
  ASSUME NEW f, NEW S, IsFiniteSet(S)
  PROVE  \E sum : Sums(f, S, sum) /\ SumFunctionOnSet(f, S) = sum[S]
<1>. DEFINE sum == CHOOSE s : Sums(f, S, s)
<1>1. Sums(f, S, sum)
  BY SumsExist
<1>2. SumFunctionOnSet(f, S) = sum[S]
  BY DEF SumFunctionOnSet, FoldFunctionOnSet, MapThenFoldSet, Sums, First
<1>. QED
  BY <1>1, <1>2

LEMMA SumEmpty ==
  ASSUME NEW f
  PROVE  SumFunctionOnSet(f, {}) = 0
<1>1. PICK sum : Sums(f, {}, sum) /\ SumFunctionOnSet(f, {}) = sum[{}]
  BY SumUnfold, FS_EmptySet
<1>. QED
  BY <1>1 DEF Sums

LEMMA SumInt ==
  ASSUME NEW S, IsFiniteSet(S), NEW f, \A x \in S : f[x] \in Int
  PROVE  SumFunctionOnSet(f, S) \in Int
<1>1. PICK sum : Sums(f, S, sum) /\ SumFunctionOnSet(f, S) = sum[S]
  BY SumUnfold
<1>. QED
  BY <1>1, SumsAreIntegers

\* Any element may be taken out of a sum.
LEMMA SumRemove ==
  ASSUME NEW S, IsFiniteSet(S), NEW f, \A x \in S : f[x] \in Int, NEW x \in S
  PROVE  SumFunctionOnSet(f, S) = f[x] + SumFunctionOnSet(f, S \ {x})
<1>. DEFINE R == S \ {x}
<1>1. PICK sum : Sums(f, S, sum) /\ SumFunctionOnSet(f, S) = sum[S]
  BY SumUnfold
<1>2. IsFiniteSet(R) /\ R \subseteq S
  BY FS_RemoveElement
<1>3. PICK rest : Sums(f, R, rest) /\ SumFunctionOnSet(f, R) = rest[R]
  BY <1>2, SumUnfold
<1>4. sum[R] = rest[R]
  BY <1>1, <1>2, <1>3, SumsAgree
<1>5. sum[S] = f[x] + sum[R]
  BY <1>1, SumsInAnyOrder
<1>. QED
  BY <1>1, <1>3, <1>4, <1>5

\* What a sum is depends on the values over the set only.
LEMMA SumSame ==
  ASSUME NEW S, IsFiniteSet(S), NEW f, NEW g, \A x \in S : f[x] = g[x]
  PROVE  SumFunctionOnSet(f, S) = SumFunctionOnSet(g, S)
<1>1. PICK sumf : Sums(f, S, sumf) /\ SumFunctionOnSet(f, S) = sumf[S]
  BY SumUnfold
<1>2. PICK sumg : Sums(g, S, sumg) /\ SumFunctionOnSet(g, S) = sumg[S]
  BY SumUnfold
<1>. QED
  BY <1>1, <1>2, SumsAgree

\* One value changes, and the sum by as much.
LEMMA SumChange ==
  ASSUME NEW S, IsFiniteSet(S), NEW f, NEW g, NEW x \in S,
         \A y \in S : f[y] \in Int /\ g[y] \in Int,
         \A y \in S \ {x} : g[y] = f[y]
  PROVE  SumFunctionOnSet(g, S) = SumFunctionOnSet(f, S) + (g[x] - f[x])
<1>1. IsFiniteSet(S \ {x})
  BY FS_RemoveElement
<1>2. /\ SumFunctionOnSet(f, S) = f[x] + SumFunctionOnSet(f, S \ {x})
      /\ SumFunctionOnSet(g, S) = g[x] + SumFunctionOnSet(g, S \ {x})
  BY SumRemove
<1>3. SumFunctionOnSet(g, S \ {x}) = SumFunctionOnSet(f, S \ {x})
  BY <1>1, SumSame
<1>4. SumFunctionOnSet(f, S \ {x}) \in Int
  BY <1>1, SumInt
<1>. QED
  BY <1>2, <1>3, <1>4

\* The sum of two functions is the function of the sums.
LEMMA SumPlus ==
  ASSUME NEW S, IsFiniteSet(S), NEW f, NEW g, NEW h,
         \A x \in S : f[x] \in Int /\ g[x] \in Int /\ h[x] = f[x] + g[x]
  PROVE  SumFunctionOnSet(h, S) = SumFunctionOnSet(f, S) + SumFunctionOnSet(g, S)
<1>. DEFINE Good == {T \in SUBSET S : SumFunctionOnSet(h, T) = SumFunctionOnSet(f, T)
                                                                + SumFunctionOnSet(g, T)}
<1>1. {} \in Good
  BY SumEmpty
<1>2. ASSUME NEW T \in SUBSET S, T # {}, \A x \in T : T \ {x} \in Good
      PROVE  T \in Good
  <2>1. PICK x \in T : TRUE
    BY <1>2
  <2>2. IsFiniteSet(T) /\ IsFiniteSet(T \ {x})
    BY FS_Subset
  <2>. DEFINE F == SumFunctionOnSet(f, T \ {x})
              G == SumFunctionOnSet(g, T \ {x})
              H == SumFunctionOnSet(h, T \ {x})
  <2>3. H = F + G
    BY <1>2
  <2>4. F \in Int /\ G \in Int
    BY <2>2, SumInt
  <2>5. f[x] \in Int /\ g[x] \in Int /\ h[x] = f[x] + g[x] /\ \A y \in T : h[y] \in Int
    OBVIOUS
  <2>6. /\ SumFunctionOnSet(f, T) = f[x] + F
        /\ SumFunctionOnSet(g, T) = g[x] + G
        /\ SumFunctionOnSet(h, T) = h[x] + H
    BY <2>2, <2>5, SumRemove
  <2>. HIDE DEF F, G, H
  <2>7. SumFunctionOnSet(h, T) = SumFunctionOnSet(f, T) + SumFunctionOnSet(g, T)
    BY <2>3, <2>4, <2>5, <2>6
  <2>. QED
    BY <2>7
<1>3. Good = SUBSET S
  <2>. HIDE DEF Good
  <2>1. Good \in SUBSET SUBSET S
    BY DEF Good
  <2>. QED
    BY <1>1, <1>2, <2>1, SetInduction
<1>. QED
  BY <1>3

\* A sum of natural numbers is one, and at least as large as each of them.
LEMMA SumNat ==
  ASSUME NEW S, IsFiniteSet(S), NEW f, \A x \in S : f[x] \in Nat
  PROVE  /\ SumFunctionOnSet(f, S) \in Nat
         /\ \A x \in S : f[x] <= SumFunctionOnSet(f, S)
<1>. DEFINE Good == {T \in SUBSET S : SumFunctionOnSet(f, T) \in Nat}
<1>1. {} \in Good
  BY SumEmpty
<1>2. ASSUME NEW T \in SUBSET S, T # {}, \A x \in T : T \ {x} \in Good
      PROVE  T \in Good
  <2>1. PICK x \in T : TRUE
    BY <1>2
  <2>2. SumFunctionOnSet(f, T) = f[x] + SumFunctionOnSet(f, T \ {x})
    <3>1. IsFiniteSet(T) /\ \A y \in T : f[y] \in Int
      BY FS_Subset
    <3>. QED
      BY <3>1, SumRemove
  <2>3. f[x] \in Nat /\ SumFunctionOnSet(f, T \ {x}) \in Nat
    BY <1>2
  <2>. QED
    BY <2>2, <2>3
<1>3. Good = SUBSET S
  <2>. HIDE DEF Good
  <2>1. Good \in SUBSET SUBSET S
    BY DEF Good
  <2>. QED
    BY <1>1, <1>2, <2>1, SetInduction
<1>4. ASSUME NEW x \in S
      PROVE  f[x] <= SumFunctionOnSet(f, S)
  <2>1. SumFunctionOnSet(f, S) = f[x] + SumFunctionOnSet(f, S \ {x})
    BY SumRemove
  <2>2. f[x] \in Nat /\ SumFunctionOnSet(f, S \ {x}) \in Nat
    BY <1>3
  <2>. QED
    BY <2>1, <2>2
<1>. QED
  BY <1>3, <1>4

\* The sum of what a queue without duplicates names is one over the set it names.
LEMMA SumOfNamed ==
  ASSUME NEW S, IsFiniteSet(S), NEW q, NEW f, NEW g,
         \A i \in S : f[q[i]] \in Int,
         \A i \in S : g[i] = f[q[i]],
         \A i \in S : \A j \in S : q[i] = q[j] => i = j,
         NEW N, N = {q[i] : i \in S}
  PROVE  IsFiniteSet(N) /\ SumFunctionOnSet(g, S) = SumFunctionOnSet(f, N)
<1>. DEFINE Named(T) == {q[i] : i \in T}
            Good == {T \in SUBSET S : /\ IsFiniteSet(Named(T))
                                      /\ SumFunctionOnSet(g, T) = SumFunctionOnSet(f, Named(T))}
<1>1. {} \in Good
  <2>1. Named({}) = {}
    OBVIOUS
  <2>. HIDE DEF Named
  <2>. QED
    BY <2>1, SumEmpty, FS_EmptySet
<1>2. ASSUME NEW T \in SUBSET S, T # {}, \A x \in T : T \ {x} \in Good
      PROVE  T \in Good
  <2>1. PICK x \in T : TRUE
    BY <1>2
  <2>. DEFINE R == T \ {x}
  <2>2. /\ IsFiniteSet(Named(R))
        /\ SumFunctionOnSet(g, R) = SumFunctionOnSet(f, Named(R))
    <3>1. R \in Good
      BY <1>2
    <3>. HIDE DEF Named, R
    <3>. QED
      BY <3>1
  <2>3. /\ Named(T) = Named(R) \cup {q[x]}
        /\ Named(T) \ {q[x]} = Named(R)
        /\ q[x] \in Named(T)
        /\ \A y \in Named(T) : f[y] \in Int
    OBVIOUS
  <2>. HIDE DEF Named, R
  <2>4. IsFiniteSet(Named(T))
    <3>1. IsFiniteSet(Named(R) \cup {q[x]})
      BY <2>2, FS_AddElement
    <3>. QED
      BY <2>3, <3>1
  <2>5. SumFunctionOnSet(g, T) = g[x] + SumFunctionOnSet(g, R)
    <3>1. IsFiniteSet(T) /\ \A y \in T : g[y] \in Int
      BY FS_Subset
    <3>. QED
      BY <3>1, SumRemove DEF R
  <2>6. SumFunctionOnSet(f, Named(T)) = f[q[x]] + SumFunctionOnSet(f, Named(T) \ {q[x]})
    BY <2>3, <2>4, SumRemove
  <2>7. SumFunctionOnSet(g, T) = SumFunctionOnSet(f, Named(T))
    BY <2>2, <2>3, <2>5, <2>6
  <2>. QED
    BY <2>4, <2>7
<1>. HIDE DEF Named
<1>3. Good = SUBSET S
  <2>1. Good \in SUBSET SUBSET S
    BY DEF Good
  <2>. HIDE DEF Good
  <2>2. \A T \in SUBSET S : T # {} /\ (\A x \in T : T \ {x} \in Good) => T \in Good
    BY <1>2
  <2>. QED
    BY <1>1, <2>1, <2>2, SetInduction, Zenon
<1>4. S \in Good
  BY <1>3
<1>. QED
  BY <1>4 DEF Named

\* More natural numbers make no sum smaller, and zeros make it no larger.
LEMMA SumOfMore ==
  ASSUME NEW S, IsFiniteSet(S), NEW R \in SUBSET S, NEW f, \A x \in S : f[x] \in Nat
  PROVE  /\ SumFunctionOnSet(f, R) <= SumFunctionOnSet(f, S)
         /\ (\A x \in S \ R : f[x] = 0) => SumFunctionOnSet(f, R) = SumFunctionOnSet(f, S)
<1>. DEFINE More == S \ R
            Fine(D) == /\ SumFunctionOnSet(f, R) <= SumFunctionOnSet(f, R \cup D)
                       /\ (\A x \in D : f[x] = 0) =>
                            SumFunctionOnSet(f, R) = SumFunctionOnSet(f, R \cup D)
            Good == {D \in SUBSET More : Fine(D)}
<1>1. IsFiniteSet(R) /\ IsFiniteSet(More) /\ SumFunctionOnSet(f, R) \in Nat
  <2>1. IsFiniteSet(R) /\ IsFiniteSet(More)
    BY FS_Subset
  <2>. QED
    BY <2>1, SumNat
<1>2. {} \in Good
  <2>1. R \cup {} = R
    OBVIOUS
  <2>2. Fine({})
    BY <1>1, <2>1
  <2>. HIDE DEF Fine
  <2>. QED
    BY <2>2
<1>3. ASSUME NEW D \in SUBSET More, D # {}, \A x \in D : D \ {x} \in Good
      PROVE  D \in Good
  <2>1. PICK x \in D : TRUE
    BY <1>3
  <2>. DEFINE less == SumFunctionOnSet(f, R \cup (D \ {x}))
              all  == SumFunctionOnSet(f, R \cup D)
              base == SumFunctionOnSet(f, R)
  <2>2. /\ base <= less
        /\ (\A y \in D \ {x} : f[y] = 0) => base = less
    <3>1. Fine(D \ {x})
      <4>. HIDE DEF Fine
      <4>. QED
        BY <1>3, <2>1
    <3>. QED
      BY <3>1
  <2>3. IsFiniteSet(R \cup D) /\ (R \cup D) \ {x} = R \cup (D \ {x})
    <3>1. IsFiniteSet(R \cup D)
      BY FS_Subset
    <3>. QED
      BY <3>1
  <2>4. all = f[x] + less
    <3>1. \A y \in R \cup D : f[y] \in Int
      OBVIOUS
    <3>2. all = f[x] + SumFunctionOnSet(f, (R \cup D) \ {x})
      BY <2>3, <3>1, SumRemove
    <3>. QED
      BY <2>3, <3>2
  <2>5. less \in Nat
    <3>1. IsFiniteSet(R \cup (D \ {x})) /\ \A y \in R \cup (D \ {x}) : f[y] \in Nat
      BY FS_Subset
    <3>. QED
      BY <3>1, SumNat
  <2>6. f[x] \in Nat /\ base \in Nat
    BY <1>1
  <2>. HIDE DEF less, all, base
  <2>7. base <= all
    BY <2>2, <2>4, <2>5, <2>6
  <2>8. ASSUME \A y \in D : f[y] = 0
        PROVE  base = all
    BY <2>2, <2>4, <2>5, <2>6, <2>8
  <2>9. Fine(D)
    BY <2>7, <2>8 DEF base, all
  <2>. HIDE DEF Fine
  <2>. QED
    BY <2>9
<1>4. Good = SUBSET More
  <2>1. Good \in SUBSET SUBSET More
    <3>. HIDE DEF Fine
    <3>. QED
      BY DEF Good
  <2>. HIDE DEF Good, More, Fine
  <2>. QED
    BY <1>1, <1>2, <1>3, <2>1, SetInduction
<1>5. Fine(More) /\ R \cup More = S
  <2>. HIDE DEF Fine
  <2>. QED
    BY <1>4
<1>. QED
  BY <1>5

-----------------------------------------------------------------------------
(* The recursive function behind FoldLeft *)

LEMMA MaxOfIndices ==
  ASSUME NEW n \in Nat, NEW T \in SUBSET (1 .. n), T # {}
  PROVE  Max(T) \in T
<1>. DEFINE gaps == {n - x : x \in T}
<1>1. PICK m \in gaps : \A k \in gaps : m <= k
  <2>1. \A x \in T : n - x \in Nat
    OBVIOUS
  <2>2. gaps \in SUBSET Nat /\ gaps # {}
    BY <2>1
  <2>. HIDE DEF gaps
  <2>. QED
    BY <2>2, LeastNat
<1>2. PICK x \in T : m = n - x
  OBVIOUS
<1>3. \A y \in T : x >= y
  <2>. TAKE y \in T
  <2>1. n - x <= n - y
    BY <1>1, <1>2
  <2>. QED
    BY <2>1
<1>. QED
  BY <1>3 DEF Max

LEMMA MaxOfPrefix ==
  ASSUME NEW k \in Nat \ {0}
  PROVE  Max(1 .. k) = k /\ (1 .. k) \ {k} = 1 .. (k - 1)
<1>1. \A y \in 1 .. k : k >= y
  OBVIOUS
<1>2. Max(1 .. k) \in 1 .. k /\ \A y \in 1 .. k : Max(1 .. k) >= y
  BY <1>1 DEF Max
<1>3. k \in 1 .. k
  OBVIOUS
<1>. QED
  BY <1>2, <1>3

\* fold is what step makes of base and the elements of seq at each set of
\* indices, the highest index last.
Folds(step, base, seq, fold) ==
  fold = [T \in SUBSET DOMAIN seq |->
            IF T = {} THEN base ELSE step[fold[T \ {Max(T)}], seq[Max(T)]]]

LEMMA FoldsExist ==
  ASSUME NEW A, NEW X, NEW step \in [A \X X -> A], NEW base \in A, NEW seq \in Seq(X)
  PROVE  \E fold \in [SUBSET DOMAIN seq -> A] : Folds(step, base, seq, fold)
<1>. DEFINE D == DOMAIN seq
            UpTo(n) == {T \in SUBSET D : Cardinality(T) <= n}
            Next(g, T) == IF T = {} THEN base ELSE step[g[T \ {Max(T)}], seq[Max(T)]]
            Reached == {n \in Nat : \E g \in [UpTo(n) -> A] : g = [T \in UpTo(n) |-> Next(g, T)]}
<1>1. D = 1 .. Len(seq) /\ Len(seq) \in Nat /\ IsFiniteSet(D) /\ \A i \in D : seq[i] \in X
  BY FS_Interval
<1>2. \A T \in SUBSET D : IsFiniteSet(T) /\ Cardinality(T) \in Nat
  BY <1>1, FS_Subset, FS_CardinalityType
<1>3. \A T \in SUBSET D : T # {} =>
        /\ Max(T) \in T /\ T \ {Max(T)} \in SUBSET D
        /\ Cardinality(T \ {Max(T)}) = Cardinality(T) - 1
  BY <1>1, <1>2, MaxOfIndices, FS_RemoveElement
<1>. HIDE DEF D
<1>4. 0 \in Reached
  <2>1. UpTo(0) = {{}}
    BY <1>2, FS_EmptySet
  <2>. DEFINE g == [R \in UpTo(0) |-> base]
  <2>2. g \in [UpTo(0) -> A]
    OBVIOUS
  <2>3. \A T \in UpTo(0) : Next(g, T) = base
    BY <2>1
  <2>4. g = [T \in UpTo(0) |-> Next(g, T)]
    <3>. HIDE DEF UpTo, Next
    <3>. QED
      BY <2>3
  <2>. QED
    BY <2>2, <2>4
<1>5. ASSUME NEW n \in Reached
      PROVE  n + 1 \in Reached
  <2>1. n \in Nat /\ \E g \in [UpTo(n) -> A] : g = [T \in UpTo(n) |-> Next(g, T)]
    OBVIOUS
  <2>. HIDE DEF Reached
  <2>2. UpTo(n) \subseteq UpTo(n + 1)
    <3>. HIDE DEF Next
    <3>. QED
      BY <1>2, <2>1
  <2>3. ASSUME NEW T \in UpTo(n + 1), T # {}
        PROVE  T \ {Max(T)} \in UpTo(n)
    <3>1. T \in SUBSET D /\ Cardinality(T) <= n + 1
      OBVIOUS
    <3>2. T \ {Max(T)} \in SUBSET D /\ Cardinality(T \ {Max(T)}) = Cardinality(T) - 1
      BY <1>3, <2>3, <3>1
    <3>3. Cardinality(T) \in Nat
      BY <1>2, <3>1
    <3>4. Cardinality(T \ {Max(T)}) <= n
      <4>. HIDE DEF UpTo, Next
      <4>. QED
        BY <2>1, <3>1, <3>2, <3>3
    <3>. QED
      BY <3>2, <3>4
  <2>. PICK g \in [UpTo(n) -> A] : g = [T \in UpTo(n) |-> Next(g, T)]
    BY <2>1
  <2>. DEFINE h == [T \in UpTo(n + 1) |-> Next(g, T)]
  <2>4. \A T \in UpTo(n) : h[T] = g[T]
    <3>. HIDE DEF UpTo, Next
    <3>. QED
      BY <2>2
  <2>5. ASSUME NEW T \in UpTo(n + 1)
        PROVE  Next(h, T) = Next(g, T) /\ Next(g, T) \in A
    <3>1. CASE T = {}
      BY <3>1
    <3>2. CASE T # {}
      <4>1. T \ {Max(T)} \in UpTo(n) /\ Max(T) \in D
        BY <1>3, <2>3, <3>2
      <4>2. h[T \ {Max(T)}] = g[T \ {Max(T)}] /\ g[T \ {Max(T)}] \in A
        BY <2>4, <4>1
      <4>3. seq[Max(T)] \in X
        BY <1>1, <4>1
      <4>. HIDE DEF h
      <4>. QED
        BY <3>2, <4>2, <4>3
    <3>. QED
      BY <3>1, <3>2
  <2>6. h = [T \in UpTo(n + 1) |-> Next(h, T)]
    <3>. HIDE DEF UpTo, Next
    <3>. QED
      BY <2>5
  <2>7. h \in [UpTo(n + 1) -> A]
    <3>. HIDE DEF UpTo, Next
    <3>. QED
      BY <2>5
  <2>8. \E q \in [UpTo(n + 1) -> A] : q = [T \in UpTo(n + 1) |-> Next(q, T)]
    <3>. HIDE DEF h, UpTo, Next
    <3>. QED
      BY <2>6, <2>7
  <2>. HIDE DEF UpTo, Next
  <2>. QED
    BY <2>1, <2>8 DEF Reached
<1>. HIDE DEF Reached
<1>6. Reached = Nat
  BY <1>4, <1>5, NatSetInduction DEF Reached
<1>7. UpTo(Cardinality(D)) = SUBSET D
  BY <1>1, <1>2, FS_Subset
<1>8. PICK g \in [UpTo(Cardinality(D)) -> A] : g = [T \in UpTo(Cardinality(D)) |-> Next(g, T)]
  <2>1. Cardinality(D) \in Reached
    BY <1>2, <1>6
  <2>. HIDE DEF UpTo, Next
  <2>. QED
    BY <2>1 DEF Reached
<1>9. g \in [SUBSET D -> A] /\ g = [T \in SUBSET D |-> Next(g, T)]
  <2>. HIDE DEF UpTo, Next
  <2>. QED
    BY <1>7, <1>8
<1>. QED
  BY <1>9 DEF Folds, D

-----------------------------------------------------------------------------
(* The invariant. *)

\* A root that EigenLayer has not handed out yet has no withdrawal and no record.
FreshRoots ==
  \A r \in Roots : r.nonce >= nonce[r.ndc][r.strategy] =>
    /\ withdrawals[r] = NoWithdrawal
    /\ \A n \in NDCs : withdrawalRequests[n][r] = NoStaker

\* A record is only kept by the NodeDelegator whose withdrawal it is.
RecordsAreLocal ==
  \A n \in NDCs, r \in Roots : withdrawalRequests[n][r] # NoStaker => r.ndc = n

IInv == NDCTypeOK /\ RequestsBacked /\ FreshRoots /\ RecordsAreLocal

USE EigenLayerAssumption, ConfigAssumption, NDCAssumption, AddressAssumption
    DEF EigenLayerAssumption, ConfigAssumption, NDCAssumption, AddressAssumption

-----------------------------------------------------------------------------
(* The two conversions and the root of the next withdrawal. *)

LEMMA DivNat ==
  ASSUME NEW a \in Nat, NEW b \in Nat \ {0}
  PROVE  a \div b \in Nat
OBVIOUS

LEMMA SharesType ==
  ASSUME ELTypeOK, NEW s \in Strategies, NEW amount \in Nat
  PROVE  UnderlyingToShares(s, amount) \in Nat /\ SharesToUnderlying(s, amount) \in Nat
<1>1. rate[s] \in Nat \ {0}
  BY DEF ELTypeOK
<1>2. amount * RateUnit \in Nat /\ amount * rate[s] \in Nat
  BY <1>1
<1>. QED
  BY <1>1, <1>2, DivNat DEF UnderlyingToShares, SharesToUnderlying

LEMMA NextRootType ==
  ASSUME ELTypeOK, NEW n \in NDCs, NEW s \in Strategies, nonce[n][s] < MaxWithdrawals
  PROVE  /\ NextRoot(n, s) \in Roots
         /\ NextRoot(n, s).ndc = n
         /\ NextRoot(n, s).strategy = s
         /\ NextRoot(n, s).nonce = nonce[n][s]
<1>1. nonce[n][s] \in 0 .. MaxWithdrawals
  BY DEF ELTypeOK
<1>2. nonce[n][s] \in 0 .. MaxWithdrawals - 1
  BY <1>1
<1>. QED
  BY <1>2 DEF NextRoot, Roots

-----------------------------------------------------------------------------
(* Type correctness, one lemma per operation. *)

LEMMA InitType == NDCInit => NDCTypeOK
<1>. SUFFICES ASSUME NDCInit PROVE NDCTypeOK
  OBVIOUS
<1>1. NoWithdrawal \in Withdrawals
  BY DEF NoWithdrawal, Withdrawals
<1>2. ELTypeOK
  BY <1>1 DEF NDCInit, ELInit, ELTypeOK
<1>3. ConfigTypeOK
  BY DEF NDCInit, ConfigTypeOK
<1>. QED
  BY <1>2, <1>3 DEF NDCInit, NDCTypeOK

LEMMA FundType ==
  ASSUME NDCTypeOK, NEW n \in NDCs, NEW amounts \in [Assets -> Nat], ReceiveTokens(n, amounts)
  PROVE  NDCTypeOK'
BY DEF NDCTypeOK, ELTypeOK, ConfigTypeOK, ReceiveTokens, elVars, configVars

LEMMA DepositType ==
  ASSUME NDCTypeOK, NEW n \in NDCs, NEW assets \in SUBSET Assets,
         DepositAssetsIntoStrategy(n, assets)
  PROVE  NDCTypeOK'
<1>. DEFINE deposited == {a \in assets : ndcBalance[n][a] > DUST_AMOUNT}
            amounts == [s \in Strategies |->
                          LET a == Underlying[s]
                          IN IF a \in deposited /\ assetStrategy[a] = s
                             THEN ndcBalance[n][a] ELSE 0]
<1>1. DepositIntoStrategy(n, amounts)
  BY DEF DepositAssetsIntoStrategy
<1>2. \A s \in Strategies : amounts[s] \in Nat
  BY DEF NDCTypeOK
<1>3. \A s \in Strategies : UnderlyingToShares(s, amounts[s]) \in Nat
  BY <1>2, SharesType DEF NDCTypeOK
<1>. HIDE DEF amounts
<1>4. depositShares' \in [NDCs -> [Strategies -> Nat]]
  BY <1>1, <1>3 DEF DepositIntoStrategy, NDCTypeOK, ELTypeOK
<1>5. ndcBalance' \in [NDCs -> [Assets -> Nat]]
  BY DEF DepositAssetsIntoStrategy, NDCTypeOK
<1>. QED
  BY <1>1, <1>4, <1>5 DEF DepositAssetsIntoStrategy, DepositIntoStrategy, NDCTypeOK,
       ELTypeOK, ConfigTypeOK, configVars

LEMMA TransferBackType ==
  ASSUME NDCTypeOK, NEW n \in NDCs, NEW a \in Assets, NEW amount \in Nat,
         TransferBackToLRTDepositPool(n, a, amount)
  PROVE  NDCTypeOK'
BY DEF NDCTypeOK, ELTypeOK, ConfigTypeOK, TransferBackToLRTDepositPool, elVars, configVars

LEMMA QueueType ==
  ASSUME ELTypeOK, NEW n \in NDCs, NEW s \in Strategies, NEW shares \in Nat,
         QueueWithdrawals(n, s, shares)
  PROVE  ELTypeOK'
<1>1. NextRoot(n, s) \in Roots
  BY NextRootType DEF QueueWithdrawals
<1>2. PICK f \in ScalingFactors :
        withdrawals' = [withdrawals EXCEPT ![NextRoot(n, s)] =
          [status |-> "queued", shares |-> shares, scaledShares |-> shares * f]]
  BY DEF QueueWithdrawals
<1>3. [status |-> "queued", shares |-> shares, scaledShares |-> shares * f] \in Withdrawals
  BY DEF Withdrawals
<1>4. withdrawals' \in [Roots -> Withdrawals]
  BY <1>1, <1>2, <1>3 DEF ELTypeOK
<1>5. depositShares' \in [NDCs -> [Strategies -> Nat]]
  BY DEF QueueWithdrawals, ELTypeOK
<1>6. nonce' \in [NDCs -> [Strategies -> 0 .. MaxWithdrawals]]
  BY DEF QueueWithdrawals, ELTypeOK
<1>. QED
  BY <1>4, <1>5, <1>6 DEF QueueWithdrawals, ELTypeOK

LEMMA UndelegateStakerType ==
  ASSUME ELTypeOK, NEW n \in NDCs, UndelegateStaker(n)
  PROVE  ELTypeOK'
<1>. DEFINE held == {s \in Strategies : depositShares[n][s] > 0}
<1>1. PICK f \in ScalingFactors :
        withdrawals' = [r \in Roots |->
          IF r.ndc = n /\ r.strategy \in held /\ r.nonce = nonce[n][r.strategy]
          THEN [status |-> "queued", shares |-> depositShares[n][r.strategy],
                scaledShares |-> depositShares[n][r.strategy] * f]
          ELSE withdrawals[r]]
  BY DEF UndelegateStaker
<1>2. \A s \in held : depositShares[n][s] \in Nat /\ depositShares[n][s] * f \in Nat
  BY DEF ELTypeOK
<1>3. \A s \in held : [status |-> "queued", shares |-> depositShares[n][s],
                       scaledShares |-> depositShares[n][s] * f] \in Withdrawals
  BY <1>2 DEF Withdrawals
<1>4. withdrawals' \in [Roots -> Withdrawals]
  BY <1>1, <1>3 DEF ELTypeOK
<1>5. depositShares' \in [NDCs -> [Strategies -> Nat]]
  BY DEF UndelegateStaker, ELTypeOK
<1>6. nonce' \in [NDCs -> [Strategies -> 0 .. MaxWithdrawals]]
  BY DEF UndelegateStaker, ELTypeOK
<1>. QED
  BY <1>4, <1>5, <1>6 DEF UndelegateStaker, ELTypeOK

LEMMA CompleteType ==
  ASSUME ELTypeOK, NEW n \in NDCs, NEW r \in Roots, CompleteQueuedWithdrawal(n, r)
  PROVE  ELTypeOK'
<1>1. Completed \in Withdrawals
  BY DEF Completed, Withdrawals
<1>. QED
  BY <1>1 DEF CompleteQueuedWithdrawal, ELTypeOK

LEMMA DelayType ==
  ASSUME ELTypeOK, NEW r \in Roots, DelayElapses(r)
  PROVE  ELTypeOK'
<1>1. [withdrawals[r] EXCEPT !.status = "completable"] \in Withdrawals
  BY DEF ELTypeOK, Withdrawals
<1>2. withdrawals' \in [Roots -> Withdrawals]
  BY <1>1 DEF DelayElapses, ELTypeOK
<1>. QED
  BY <1>2 DEF DelayElapses, ELTypeOK

LEMMA EigenLayerType ==
  ASSUME NDCTypeOK, EigenLayerStep
  PROVE  NDCTypeOK'
<1>1. ELTypeOK'
  <2>1. CASE \E r \in Roots : DelayElapses(r)
    BY <2>1, DelayType DEF NDCTypeOK
  <2>2. CASE \E s \in Strategies : Rebase(s)
    BY <2>2 DEF Rebase, NDCTypeOK, ELTypeOK
  <2>. QED
    BY <2>1, <2>2 DEF EigenLayerStep
<1>. QED
  BY <1>1 DEF EigenLayerStep, NDCTypeOK, ConfigTypeOK, configVars, ndcVars

LEMMA DelegationType ==
  ASSUME NDCTypeOK, NEW n \in NDCs,
         NDCDelegateTo(n) \/ NDCPause(n) \/ NDCUnpause(n) \/ OperatorUndelegates(n)
  PROVE  NDCTypeOK'
<1>1. CASE NDCDelegateTo(n)
  BY <1>1 DEF NDCDelegateTo, DelegateTo, NDCTypeOK, ELTypeOK, ConfigTypeOK, configVars, ndcVars
<1>2. CASE NDCPause(n) \/ NDCUnpause(n)
  BY <1>2 DEF NDCPause, NDCUnpause, NDCTypeOK, ELTypeOK, ConfigTypeOK, configVars, elVars
<1>3. CASE OperatorUndelegates(n)
  BY <1>3, UndelegateStakerType
     DEF OperatorUndelegates, NDCTypeOK, ConfigTypeOK, configVars, ndcVars
<1>. QED
  BY <1>1, <1>2, <1>3

LEMMA UndelegateType ==
  ASSUME NDCTypeOK, NEW n \in NDCs, Undelegate(n)
  PROVE  NDCTypeOK'
<1>1. ELTypeOK'
  BY UndelegateStakerType DEF Undelegate, NDCTypeOK
<1>2. pendingInternalShareWithdrawals' \in [NDCs -> [Strategies -> Nat]]
  <2>1. \A s \in Strategies : depositShares[n][s] \in Nat
    BY DEF NDCTypeOK, ELTypeOK
  <2>. QED
    BY <2>1 DEF Undelegate, NDCTypeOK
<1>. QED
  BY <1>1, <1>2 DEF Undelegate, NDCTypeOK, ConfigTypeOK, configVars

LEMMA RequestType ==
  ASSUME NDCTypeOK, NEW n \in NDCs, NEW s \in Strategies, NEW shares \in Nat,
         NEW staker \in Stakers, NDCRequestWithdrawal(n, s, shares, staker)
  PROVE  NDCTypeOK'
<1>1. ELTypeOK'
  BY QueueType DEF NDCRequestWithdrawal, NDCTypeOK
<1>2. withdrawalRequests' \in [NDCs -> [Roots -> Stakers \cup {NoStaker, DEAD_ADDRESS}]]
  BY DEF NDCRequestWithdrawal, NDCTypeOK
<1>. QED
  BY <1>1, <1>2 DEF NDCRequestWithdrawal, NDCTypeOK, ConfigTypeOK, configVars

LEMMA RequestInternalType ==
  ASSUME NDCTypeOK, NEW n \in NDCs, NEW s \in Strategies, NEW shares \in Nat,
         RequestInternalWithdrawal(n, s, shares)
  PROVE  NDCTypeOK'
<1>1. ELTypeOK'
  BY QueueType DEF RequestInternalWithdrawal, NDCTypeOK
<1>2. pendingInternalShareWithdrawals' \in [NDCs -> [Strategies -> Nat]]
  BY DEF RequestInternalWithdrawal, NDCTypeOK
<1>. QED
  BY <1>1, <1>2 DEF RequestInternalWithdrawal, NDCTypeOK, ConfigTypeOK, configVars

LEMMA ClaimType ==
  ASSUME NDCTypeOK, NEW n \in NDCs, NEW r \in Roots, NEW staker \in Stakers,
         NDCClaimWithdrawal(n, r, staker)
  PROVE  NDCTypeOK'
<1>1. ELTypeOK'
  BY CompleteType DEF NDCClaimWithdrawal, NDCTypeOK
<1>2. withdrawalRequests' \in [NDCs -> [Roots -> Stakers \cup {NoStaker, DEAD_ADDRESS}]]
  BY DEF NDCClaimWithdrawal, NDCTypeOK
<1>. QED
  BY <1>1, <1>2 DEF NDCClaimWithdrawal, NDCTypeOK, ConfigTypeOK, configVars

LEMMA ClaimInternalType ==
  ASSUME NDCTypeOK, NEW n \in NDCs, NEW r \in Roots, ClaimInternalWithdrawal(n, r)
  PROVE  NDCTypeOK'
<1>1. ELTypeOK'
  BY CompleteType DEF ClaimInternalWithdrawal, NDCTypeOK
<1>2. pendingInternalShareWithdrawals' \in [NDCs -> [Strategies -> Nat]]
  <2>1. r.strategy \in Strategies
    BY DEF Roots
  <2>2. /\ withdrawals[r].scaledShares \in Nat
        /\ pendingInternalShareWithdrawals[n][r.strategy] \in Nat
    BY <2>1 DEF NDCTypeOK, ELTypeOK, Withdrawals
  <2>3. pendingInternalShareWithdrawals[n][r.strategy] - withdrawals[r].scaledShares \in Nat
    BY <2>2 DEF ClaimInternalWithdrawal
  <2>. QED
    BY <2>1, <2>3 DEF ClaimInternalWithdrawal, NDCTypeOK
<1>. QED
  BY <1>1, <1>2 DEF ClaimInternalWithdrawal, NDCTypeOK, ConfigTypeOK, configVars

LEMMA StrategyUpdateType ==
  ASSUME NDCTypeOK, StrategyUpdate
  PROVE  NDCTypeOK'
BY DEF StrategyUpdate, UpdateAssetStrategy, NDCTypeOK, ELTypeOK, ConfigTypeOK, elVars, ndcVars

-----------------------------------------------------------------------------
(* The records: what each operation does to withdrawalRequests and the queue. *)

Records == RequestsBacked /\ FreshRoots /\ RecordsAreLocal

LEMMA SameRecords ==
  ASSUME Records, UNCHANGED <<withdrawals, nonce, withdrawalRequests>>
  PROVE  Records'
BY DEF Records, RequestsBacked, FreshRoots, RecordsAreLocal, Pending

\* Queueing uses a fresh root, so whoever it is recorded for had no record of it.
LEMMA QueueRecords ==
  ASSUME NDCTypeOK, Records, NEW n \in NDCs, NEW s \in Strategies, NEW shares \in Nat,
         QueueWithdrawals(n, s, shares),
         \/ withdrawalRequests' = withdrawalRequests
         \/ \E staker \in Stakers : withdrawalRequests' =
              [withdrawalRequests EXCEPT ![n][NextRoot(n, s)] = staker]
  PROVE  Records'
<1>. DEFINE root == NextRoot(n, s)
<1>1. /\ root \in Roots
      /\ root.ndc = n /\ root.strategy = s /\ root.nonce = nonce[n][s]
  BY NextRootType DEF QueueWithdrawals, NDCTypeOK
<1>2. \A m \in NDCs : withdrawalRequests[m][root] = NoStaker
  <2>1. root.nonce >= nonce[root.ndc][root.strategy]
    BY <1>1 DEF NDCTypeOK, ELTypeOK
  <2>. QED
    BY <1>1, <2>1 DEF Records, FreshRoots
<1>3. withdrawals'[root].status = "queued"
  BY <1>1 DEF QueueWithdrawals, NDCTypeOK, ELTypeOK
<1>4. \A r \in Roots : r # root => withdrawals'[r] = withdrawals[r]
  BY <1>1 DEF QueueWithdrawals, NDCTypeOK, ELTypeOK
<1>5. \A m \in NDCs, r \in Roots :
        m # n \/ r # root => withdrawalRequests'[m][r] = withdrawalRequests[m][r]
  BY <1>1 DEF NDCTypeOK
<1>6. withdrawalRequests'[n][root] \in Stakers \cup {NoStaker}
  BY <1>1, <1>2 DEF NDCTypeOK
<1>. HIDE DEF root
<1>7. RequestsBacked'
  <2>. SUFFICES ASSUME NEW m \in NDCs, NEW r \in Roots
                PROVE  /\ withdrawalRequests'[m][r] \in Stakers => r.ndc = m /\ Pending(r)'
                       /\ withdrawalRequests'[m][r] = DEAD_ADDRESS => ~Pending(r)'
    BY DEF RequestsBacked
  <2>1. CASE r # root
    BY <2>1, <1>4, <1>5 DEF Records, RequestsBacked, Pending
  <2>2. CASE r = root /\ m # n
    BY <2>2, <1>1, <1>2, <1>5
  <2>3. CASE r = root /\ m = n
    BY <2>3, <1>1, <1>3, <1>6 DEF Pending
  <2>. QED
    BY <2>1, <2>2, <2>3
<1>8. FreshRoots'
  <2>. SUFFICES ASSUME NEW r \in Roots, r.nonce >= nonce'[r.ndc][r.strategy]
                PROVE  /\ withdrawals'[r] = NoWithdrawal
                       /\ \A m \in NDCs : withdrawalRequests'[m][r] = NoStaker
    BY DEF FreshRoots
  <2>1. r.ndc \in NDCs /\ r.strategy \in Strategies /\ r.nonce \in Int
    BY DEF Roots
  <2>2. /\ nonce'[r.ndc][r.strategy] >= nonce[r.ndc][r.strategy]
        /\ nonce[r.ndc][r.strategy] \in Int
        /\ nonce'[n][s] = nonce[n][s] + 1
        /\ nonce[n][s] \in Int
    BY <2>1 DEF QueueWithdrawals, NDCTypeOK, ELTypeOK
  <2>3. r # root
    BY <1>1, <2>1, <2>2
  <2>4. r.nonce >= nonce[r.ndc][r.strategy]
    BY <2>1, <2>2, nonce'[r.ndc][r.strategy] \in Int DEF QueueWithdrawals, NDCTypeOK, ELTypeOK
  <2>. QED
    BY <2>3, <2>4, <1>4, <1>5 DEF Records, FreshRoots
<1>9. RecordsAreLocal'
  BY <1>1, <1>5 DEF Records, RecordsAreLocal
<1>. QED
  BY <1>7, <1>8, <1>9 DEF Records

LEMMA UndelegateStakerRecords ==
  ASSUME NDCTypeOK, Records, NEW n \in NDCs, UndelegateStaker(n),
         UNCHANGED withdrawalRequests
  PROVE  Records'
<1>. DEFINE held == {s \in Strategies : depositShares[n][s] > 0}
            New(r) == r.ndc = n /\ r.strategy \in held /\ r.nonce = nonce[n][r.strategy]
<1>0. \A r \in Roots : /\ r.ndc \in NDCs /\ r.strategy \in Strategies /\ r.nonce \in Int
                       /\ nonce[r.ndc][r.strategy] \in Int
  BY DEF Roots, NDCTypeOK, ELTypeOK
<1>1. \A r \in Roots : New(r) =>
        /\ withdrawals'[r].status = "queued"
        /\ \A m \in NDCs : withdrawalRequests[m][r] = NoStaker
  BY <1>0 DEF UndelegateStaker, Records, FreshRoots
<1>2. \A r \in Roots : ~New(r) => withdrawals'[r] = withdrawals[r]
  BY DEF UndelegateStaker
<1>3. \A r \in Roots :
        /\ nonce'[r.ndc][r.strategy] \in Int
        /\ nonce'[r.ndc][r.strategy] >= nonce[r.ndc][r.strategy]
        /\ New(r) => nonce'[r.ndc][r.strategy] = r.nonce + 1
  BY <1>0 DEF UndelegateStaker, NDCTypeOK, ELTypeOK
<1>. HIDE DEF New
<1>4. RequestsBacked'
  <2>. SUFFICES ASSUME NEW m \in NDCs, NEW r \in Roots
                PROVE  /\ withdrawalRequests[m][r] \in Stakers => r.ndc = m /\ Pending(r)'
                       /\ withdrawalRequests[m][r] = DEAD_ADDRESS => ~Pending(r)'
    BY DEF RequestsBacked
  <2>. QED
    BY <1>1, <1>2 DEF Records, RequestsBacked, Pending
<1>5. FreshRoots'
  <2>. SUFFICES ASSUME NEW r \in Roots, r.nonce >= nonce'[r.ndc][r.strategy]
                PROVE  /\ withdrawals'[r] = NoWithdrawal
                       /\ \A m \in NDCs : withdrawalRequests[m][r] = NoStaker
    BY DEF FreshRoots
  <2>1. ~New(r) /\ r.nonce >= nonce[r.ndc][r.strategy]
    BY <1>0, <1>3
  <2>. QED
    BY <2>1, <1>2 DEF Records, FreshRoots
<1>6. RecordsAreLocal'
  BY DEF Records, RecordsAreLocal
<1>. QED
  BY <1>4, <1>5, <1>6 DEF Records

\* Completing r leaves no record of a staker behind: r is recorded for nobody, or
\* its record becomes DEAD_ADDRESS in the same transaction.
LEMMA CompleteRecords ==
  ASSUME NDCTypeOK, Records, NEW n \in NDCs, NEW r \in Roots,
         CompleteQueuedWithdrawal(n, r),
         \/ /\ withdrawalRequests[n][r] = NoStaker
            /\ withdrawalRequests' = withdrawalRequests
         \/ withdrawalRequests' = [withdrawalRequests EXCEPT ![n][r] = DEAD_ADDRESS]
  PROVE  Records'
<1>1. /\ r.ndc = n
      /\ withdrawals[r] # NoWithdrawal
      /\ ~Pending(r)'
      /\ \A q \in Roots : q # r => withdrawals'[q] = withdrawals[q]
  BY DEF CompleteQueuedWithdrawal, NDCTypeOK, ELTypeOK, NoWithdrawal, Pending, Completed
<1>2. withdrawalRequests'[n][r] \in {NoStaker, DEAD_ADDRESS}
  BY DEF NDCTypeOK
<1>3. \A m \in NDCs, q \in Roots :
        m # n \/ q # r => withdrawalRequests'[m][q] = withdrawalRequests[m][q]
  BY DEF NDCTypeOK
<1>4. RequestsBacked'
  <2>. SUFFICES ASSUME NEW m \in NDCs, NEW q \in Roots
                PROVE  /\ withdrawalRequests'[m][q] \in Stakers => q.ndc = m /\ Pending(q)'
                       /\ withdrawalRequests'[m][q] = DEAD_ADDRESS => ~Pending(q)'
    BY DEF RequestsBacked
  <2>1. CASE q # r
    BY <2>1, <1>1, <1>3 DEF Records, RequestsBacked, Pending
  <2>2. CASE q = r /\ m # n
    BY <2>2, <1>1, <1>3 DEF Records, RequestsBacked
  <2>3. CASE q = r /\ m = n
    BY <2>3, <1>1, <1>2
  <2>. QED
    BY <2>1, <2>2, <2>3
<1>5. nonce' = nonce
  BY DEF CompleteQueuedWithdrawal
<1>6. FreshRoots'
  BY <1>1, <1>3, <1>5 DEF Records, FreshRoots
<1>7. RecordsAreLocal'
  BY <1>1, <1>3 DEF Records, RecordsAreLocal
<1>. QED
  BY <1>4, <1>6, <1>7 DEF Records

LEMMA DelayRecords ==
  ASSUME NDCTypeOK, Records, NEW r \in Roots, DelayElapses(r), UNCHANGED withdrawalRequests
  PROVE  Records'
<1>1. /\ withdrawals[r].status = "queued"
      /\ withdrawals'[r].status = "completable"
      /\ \A q \in Roots : q # r => withdrawals'[q] = withdrawals[q]
  BY DEF DelayElapses, NDCTypeOK, ELTypeOK, Withdrawals
<1>2. \A q \in Roots : Pending(q)' <=> Pending(q)
  BY <1>1 DEF Pending
<1>3. withdrawals[r] # NoWithdrawal /\ nonce' = nonce
  BY <1>1 DEF NoWithdrawal, DelayElapses
<1>4. RequestsBacked'
  BY <1>2 DEF Records, RequestsBacked
<1>5. FreshRoots'
  BY <1>1, <1>3 DEF Records, FreshRoots
<1>. QED
  BY <1>4, <1>5 DEF Records, RecordsAreLocal

LEMMA InitRecords == NDCInit => Records
<1>. SUFFICES ASSUME NDCInit PROVE Records
  OBVIOUS
<1>1. \A n \in NDCs, r \in Roots : withdrawalRequests[n][r] = NoStaker
  BY DEF NDCInit
<1>2. \A r \in Roots : withdrawals[r] = NoWithdrawal
  BY DEF NDCInit, ELInit
<1>. QED
  BY <1>1, <1>2 DEF Records, RequestsBacked, FreshRoots, RecordsAreLocal

-----------------------------------------------------------------------------
(* The inductive invariant. *)

LEMMA InitIInv == NDCInit => IInv
BY InitType, InitRecords DEF IInv, Records

LEMMA StakerCallIInv ==
  ASSUME IInv, NEW n \in NDCs, StakerCall(n)
  PROVE  IInv'
<1>1. NDCTypeOK /\ Records
  BY DEF IInv, Records
<1>2. CASE \E s \in Strategies, shares \in Amounts, staker \in Stakers :
             NDCRequestWithdrawal(n, s, shares, staker)
  <2>1. PICK s \in Strategies, shares \in Amounts, staker \in Stakers :
          NDCRequestWithdrawal(n, s, shares, staker)
    BY <1>2
  <2>2. shares \in Nat
    BY AmountsAssumption DEF AmountsAssumption
  <2>3. NDCTypeOK'
    BY <1>1, <2>1, <2>2, RequestType
  <2>4. Records'
    BY <1>1, <2>1, <2>2, QueueRecords DEF NDCRequestWithdrawal
  <2>. QED
    BY <2>3, <2>4 DEF IInv, Records
<1>3. CASE \E r \in Roots, staker \in Stakers : NDCClaimWithdrawal(n, r, staker)
  <2>1. PICK r \in Roots, staker \in Stakers : NDCClaimWithdrawal(n, r, staker)
    BY <1>3
  <2>2. NDCTypeOK'
    BY <1>1, <2>1, ClaimType
  <2>3. Records'
    BY <1>1, <2>1, CompleteRecords DEF NDCClaimWithdrawal
  <2>. QED
    BY <2>2, <2>3 DEF IInv, Records
<1>. QED
  BY <1>2, <1>3 DEF StakerCall

LEMMA OperatorCallIInv ==
  ASSUME IInv, NEW n \in NDCs, OperatorCall(n)
  PROVE  IInv'
<1>1. NDCTypeOK /\ Records
  BY DEF IInv, Records
<1>2. CASE \E assets \in SUBSET Assets : DepositAssetsIntoStrategy(n, assets)
  <2>1. PICK assets \in SUBSET Assets : DepositAssetsIntoStrategy(n, assets)
    BY <1>2
  <2>2. NDCTypeOK'
    BY <1>1, <2>1, DepositType
  <2>3. Records'
    BY <1>1, <2>1, SameRecords DEF DepositAssetsIntoStrategy, DepositIntoStrategy
  <2>. QED
    BY <2>2, <2>3 DEF IInv, Records
<1>3. CASE \E s \in Strategies, shares \in Amounts : RequestInternalWithdrawal(n, s, shares)
  <2>1. PICK s \in Strategies, shares \in Amounts : RequestInternalWithdrawal(n, s, shares)
    BY <1>3
  <2>2. shares \in Nat
    BY AmountsAssumption DEF AmountsAssumption
  <2>3. NDCTypeOK'
    BY <1>1, <2>1, <2>2, RequestInternalType
  <2>4. Records'
    BY <1>1, <2>1, <2>2, QueueRecords DEF RequestInternalWithdrawal
  <2>. QED
    BY <2>3, <2>4 DEF IInv, Records
<1>4. CASE \E r \in Roots : ClaimInternalWithdrawal(n, r)
  <2>1. PICK r \in Roots : ClaimInternalWithdrawal(n, r)
    BY <1>4
  <2>2. NDCTypeOK'
    BY <1>1, <2>1, ClaimInternalType
  <2>3. Records'
    BY <1>1, <2>1, CompleteRecords DEF ClaimInternalWithdrawal
  <2>. QED
    BY <2>2, <2>3 DEF IInv, Records
<1>. QED
  BY <1>2, <1>3, <1>4 DEF OperatorCall

LEMMA ManagerCallIInv ==
  ASSUME IInv, NEW n \in NDCs, ManagerCall(n) \/ OperatorUndelegates(n)
  PROVE  IInv'
<1>1. NDCTypeOK /\ Records
  BY DEF IInv, Records
<1>2. CASE \E a \in Assets, amount \in Amounts : TransferBackToLRTDepositPool(n, a, amount)
  <2>1. PICK a \in Assets, amount \in Amounts : TransferBackToLRTDepositPool(n, a, amount)
    BY <1>2
  <2>2. NDCTypeOK'
    BY <1>1, <2>1, AmountsAssumption, TransferBackType DEF AmountsAssumption
  <2>3. Records'
    BY <1>1, <2>1, SameRecords DEF TransferBackToLRTDepositPool, elVars
  <2>. QED
    BY <2>2, <2>3 DEF IInv, Records
<1>3. CASE NDCDelegateTo(n) \/ NDCPause(n) \/ NDCUnpause(n)
  <2>1. NDCTypeOK'
    BY <1>1, <1>3, DelegationType
  <2>2. Records'
    BY <1>1, <1>3, SameRecords
       DEF NDCDelegateTo, DelegateTo, NDCPause, NDCUnpause, elVars, ndcVars
  <2>. QED
    BY <2>1, <2>2 DEF IInv, Records
<1>4. CASE Undelegate(n)
  <2>1. NDCTypeOK'
    BY <1>1, <1>4, UndelegateType
  <2>2. Records'
    BY <1>1, <1>4, UndelegateStakerRecords DEF Undelegate
  <2>. QED
    BY <2>1, <2>2 DEF IInv, Records
<1>5. CASE OperatorUndelegates(n)
  <2>1. NDCTypeOK'
    BY <1>1, <1>5, DelegationType
  <2>2. Records'
    BY <1>1, <1>5, UndelegateStakerRecords DEF OperatorUndelegates, ndcVars
  <2>. QED
    BY <2>1, <2>2 DEF IInv, Records
<1>. QED
  BY <1>2, <1>3, <1>4, <1>5 DEF ManagerCall

LEMMA NextIInv == IInv /\ [AnyOperatorNext]_ndVars => IInv'
<1>. SUFFICES ASSUME IInv, [AnyOperatorNext]_ndVars PROVE IInv'
  OBVIOUS
<1>1. NDCTypeOK /\ Records
  BY DEF IInv, Records
<1>2. CASE EigenLayerStep
  <2>1. NDCTypeOK'
    BY <1>1, <1>2, EigenLayerType
  <2>2. CASE \E r \in Roots : DelayElapses(r)
    BY <1>1, <1>2, <2>1, <2>2, DelayRecords DEF EigenLayerStep, ndcVars, IInv, Records
  <2>3. CASE \E s \in Strategies : Rebase(s)
    BY <1>1, <1>2, <2>1, <2>3, SameRecords DEF EigenLayerStep, Rebase, ndcVars, IInv, Records
  <2>. QED
    BY <1>2, <2>2, <2>3 DEF EigenLayerStep
<1>3. CASE StrategyUpdate
  <2>1. NDCTypeOK'
    BY <1>1, <1>3, StrategyUpdateType
  <2>2. Records'
    BY <1>1, <1>3, SameRecords DEF StrategyUpdate, elVars, ndcVars
  <2>. QED
    BY <2>1, <2>2 DEF IInv, Records
<1>4. CASE \E n \in NDCs : Fund(n)
  <2>1. PICK n \in NDCs, amounts \in [Assets -> Amounts \cup {0}] : ReceiveTokens(n, amounts)
    BY <1>4 DEF Fund
  <2>2. amounts \in [Assets -> Nat]
    <3>1. Amounts \cup {0} \subseteq Nat
      BY AmountsAssumption DEF AmountsAssumption
    <3>. QED
      BY <3>1
  <2>3. NDCTypeOK'
    BY <1>1, <2>1, <2>2, FundType
  <2>4. Records'
    BY <1>1, <2>1, SameRecords DEF ReceiveTokens, elVars
  <2>. QED
    BY <2>3, <2>4 DEF IInv, Records
<1>5. CASE UNCHANGED ndVars
  <2>1. NDCTypeOK'
    BY <1>1, <1>5 DEF ndVars, elVars, configVars, ndcVars, NDCTypeOK, ELTypeOK, ConfigTypeOK
  <2>2. Records'
    BY <1>1, <1>5, SameRecords DEF ndVars, elVars, ndcVars
  <2>. QED
    BY <2>1, <2>2 DEF IInv, Records
<1>. QED
  BY <1>2, <1>3, <1>4, <1>5, StakerCallIInv, OperatorCallIInv, ManagerCallIInv DEF AnyOperatorNext, NDCNext

\* Every run of the NodeDelegators keeps the inductive invariant.
THEOREM InductiveInvariant == AnyOperatorSpec => []IInv
<1>1. NDCInit => IInv
  BY InitIInv
<1>2. IInv /\ [AnyOperatorNext]_ndVars => IInv'
  BY NextIInv
<1>. QED
  BY <1>1, <1>2, PTL DEF AnyOperatorSpec

\* No call of the NodeDelegators or of EigenLayer leaves the range of a variable:
\* no balance, share count or pending sum underflows.
THEOREM TypeCorrect == AnyOperatorSpec => []NDCTypeOK
<1>1. IInv => NDCTypeOK
  BY DEF IInv
<1>. QED
  BY <1>1, InductiveInvariant, PTL

\* Every recorded staker's withdrawal is unclaimed and can be completed by the
\* NodeDelegator that recorded it, forced undelegation and slashing included.
THEOREM RequestsAlwaysBacked == AnyOperatorSpec => []RequestsBacked
<1>1. IInv => RequestsBacked
  BY DEF IInv
<1>. QED
  BY <1>1, InductiveInvariant, PTL

-----------------------------------------------------------------------------
(* Who a withdrawal is for. *)

\* A root that is still pending when the records change is not a fresh one.
LEMMA QueueKeepsRequesters ==
  ASSUME IInv, NEW n \in NDCs, NEW s \in Strategies, NEW shares, NEW staker,
         QueueWithdrawals(n, s, shares),
         withdrawalRequests' = [withdrawalRequests EXCEPT ![n][NextRoot(n, s)] = staker]
  PROVE  RequestersStay
<1>1. /\ NextRoot(n, s) \in Roots
      /\ NextRoot(n, s).nonce >= nonce[NextRoot(n, s).ndc][NextRoot(n, s).strategy]
  BY NextRootType DEF QueueWithdrawals, IInv, NDCTypeOK, ELTypeOK
<1>2. ~Pending(NextRoot(n, s))
  BY <1>1 DEF IInv, FreshRoots, Pending, NoWithdrawal
<1>3. \A m \in NDCs, r \in Roots :
        r # NextRoot(n, s) => withdrawalRequests'[m][r] = withdrawalRequests[m][r]
  BY DEF IInv, NDCTypeOK
<1>. QED
  BY <1>2, <1>3 DEF RequestersStay

LEMMA ClaimKeepsRequesters ==
  ASSUME IInv, NEW n \in NDCs, NEW r \in Roots, NEW staker \in Stakers,
         NDCClaimWithdrawal(n, r, staker)
  PROVE  RequestersStay
<1>1. withdrawals'[r].status = "completed"
  BY DEF NDCClaimWithdrawal, CompleteQueuedWithdrawal, Completed, IInv, NDCTypeOK, ELTypeOK
<1>2. withdrawalRequests[n][r] \in Stakers /\ withdrawalRequests'[n][r] = DEAD_ADDRESS
  BY DEF NDCClaimWithdrawal, IInv, NDCTypeOK
<1>3. \A m \in NDCs, q \in Roots :
        m # n \/ q # r => withdrawalRequests'[m][q] = withdrawalRequests[m][q]
  BY DEF NDCClaimWithdrawal, IInv, NDCTypeOK
<1>. QED
  BY <1>1, <1>2, <1>3 DEF RequestersStay

LEMMA NextKeepsRequesters == IInv /\ [AnyOperatorNext]_ndVars => RequestersStay
<1>. SUFFICES ASSUME IInv, [AnyOperatorNext]_ndVars PROVE RequestersStay
  OBVIOUS
<1>1. CASE UNCHANGED withdrawalRequests
  BY <1>1 DEF RequestersStay
<1>2. ASSUME NEW n \in NDCs, StakerCall(n) PROVE RequestersStay
  BY <1>2, QueueKeepsRequesters, ClaimKeepsRequesters DEF StakerCall, NDCRequestWithdrawal
<1>3. ASSUME NEW n \in NDCs, Fund(n) \/ OperatorCall(n) \/ ManagerCall(n) \/ OperatorUndelegates(n)
      PROVE  UNCHANGED withdrawalRequests
  BY <1>3 DEF Fund, ReceiveTokens, OperatorCall, DepositAssetsIntoStrategy,
       RequestInternalWithdrawal, ClaimInternalWithdrawal, ManagerCall,
       TransferBackToLRTDepositPool, NDCDelegateTo, Undelegate, NDCPause, NDCUnpause,
       OperatorUndelegates, ndcVars
<1>4. EigenLayerStep \/ StrategyUpdate \/ UNCHANGED ndVars => UNCHANGED withdrawalRequests
  BY DEF EigenLayerStep, StrategyUpdate, ndVars, ndcVars
<1>. QED
  BY <1>1, <1>2, <1>3, <1>4 DEF AnyOperatorNext, NDCNext

\* A withdrawal is paid to the staker it was queued for, and a withdrawal that
\* was queued for the pool never becomes a staker's.
THEOREM RequestersNeverChange == AnyOperatorSpec => RequesterFixed
BY InductiveInvariant, NextKeepsRequesters, PTL DEF AnyOperatorSpec, RequesterFixed

-----------------------------------------------------------------------------
(* What a NodeDelegator is worth. *)

\* The shares getAssetBalance counts for asset a.
Counted(n, s) == depositShares[n][s] + pendingInternalShareWithdrawals[n][s]

LEMMA SameValue ==
  ASSUME NEW n \in NDCs, NEW a \in Assets, ConfigTypeOK,
         UNCHANGED <<rate, assetStrategy, ndcBalance>>,
         a # WETH => \A s \in Strategies : s = assetStrategy[a] => Counted(n, s)' = Counted(n, s)
  PROVE  GetAssetBalance(n, a)' = GetAssetBalance(n, a)
<1>1. CASE a = WETH \/ assetStrategy[a] = NoStrategy
  BY <1>1 DEF GetAssetBalance, NDCAssets, EigenAssets
<1>2. CASE a # WETH /\ assetStrategy[a] # NoStrategy
  <2>1. assetStrategy[a] \in Strategies
    BY <1>2 DEF ConfigTypeOK
  <2>2. Counted(n, assetStrategy[a])' = Counted(n, assetStrategy[a])
    BY <1>2, <2>1
  <2>. QED
    BY <2>2 DEF Counted, GetAssetBalance, NDCAssets, EigenAssets, SharesToUnderlying
<1>. QED
  BY <1>1, <1>2

\* The shares move from one term of the sum to the other.
LEMMA RequestInternalKeepsShares ==
  ASSUME NDCTypeOK, NEW m \in NDCs, NEW q \in Strategies, NEW shares \in Nat,
         RequestInternalWithdrawal(m, q, shares), NEW n \in NDCs, NEW s \in Strategies
  PROVE  Counted(n, s)' = Counted(n, s)
<1>1. /\ depositShares[n][s] \in Nat /\ pendingInternalShareWithdrawals[n][s] \in Nat
      /\ depositShares' = [depositShares EXCEPT ![m][q] = @ - shares]
      /\ pendingInternalShareWithdrawals' =
           [pendingInternalShareWithdrawals EXCEPT ![m][q] = @ + shares]
  BY DEF RequestInternalWithdrawal, QueueWithdrawals, NDCTypeOK, ELTypeOK
<1>. QED
  BY <1>1 DEF Counted, NDCTypeOK, ELTypeOK

LEMMA UndelegateKeepsShares ==
  ASSUME NDCTypeOK, NEW m \in NDCs, Undelegate(m), NEW n \in NDCs,
         NEW s \in UndelegatedStrategies \cap Strategies
  PROVE  Counted(n, s)' = Counted(n, s)
<1>1. /\ depositShares[n][s] \in Nat /\ pendingInternalShareWithdrawals[n][s] \in Nat
      /\ depositShares' = [depositShares EXCEPT ![m] = [t \in Strategies |-> 0]]
      /\ pendingInternalShareWithdrawals' = [pendingInternalShareWithdrawals EXCEPT ![m] =
           [t \in Strategies |->
              IF t \in UndelegatedStrategies THEN @[t] + depositShares[m][t] ELSE @[t]]]
  BY DEF Undelegate, UndelegateStaker, NDCTypeOK, ELTypeOK
<1>. QED
  BY <1>1 DEF Counted, NDCTypeOK, ELTypeOK

\* A deposit that leaves every balance as it was deposits nothing.
LEMMA EmptyDepositKeepsShares ==
  ASSUME NDCTypeOK, NEW m \in NDCs, NEW assets \in SUBSET Assets,
         DepositAssetsIntoStrategy(m, assets), UNCHANGED ndcBalance,
         NEW n \in NDCs, NEW s \in Strategies
  PROVE  Counted(n, s)' = Counted(n, s)
<1>. DEFINE deposited == {a \in assets : ndcBalance[m][a] > DUST_AMOUNT}
            amounts == [t \in Strategies |->
                          LET a == Underlying[t]
                          IN IF a \in deposited /\ assetStrategy[a] = t
                             THEN ndcBalance[m][a] ELSE 0]
<1>1. deposited = {}
  <2>. SUFFICES ASSUME NEW a \in deposited PROVE FALSE
    OBVIOUS
  <2>1. ndcBalance'[m][a] = 0
    BY DEF DepositAssetsIntoStrategy, NDCTypeOK
  <2>. QED
    BY <2>1
<1>2. \A t \in Strategies : amounts[t] = 0
  BY <1>1
<1>3. \A t \in Strategies : UnderlyingToShares(t, amounts[t]) = 0
  <2>1. \A t \in Strategies : rate[t] \in Nat \ {0}
    BY DEF NDCTypeOK, ELTypeOK
  <2>. QED
    BY <1>2, <2>1 DEF UnderlyingToShares
<1>4. DepositIntoStrategy(m, amounts)
  BY DEF DepositAssetsIntoStrategy
<1>. HIDE DEF amounts
<1>5. depositShares'[n][s] = depositShares[n][s]
  BY <1>3, <1>4 DEF DepositIntoStrategy, NDCTypeOK, ELTypeOK
<1>. QED
  BY <1>5 DEF DepositAssetsIntoStrategy, Counted

\* Completing a withdrawal is more than queueing.
LEMMA CompletingIsNotQueueing ==
  ASSUME NDCTypeOK, NEW m \in NDCs, NEW r \in Roots, CompleteQueuedWithdrawal(m, r)
  PROVE  ~OnlyQueues
BY DEF CompleteQueuedWithdrawal, OnlyQueues, Pending, Completed, NDCTypeOK, ELTypeOK

\* A new request changes the records.
LEMMA RequestingIsNotQueueing ==
  ASSUME IInv, NEW m \in NDCs, NEW s \in Strategies, NEW shares \in Nat, NEW staker \in Stakers,
         NDCRequestWithdrawal(m, s, shares, staker)
  PROVE  ~OnlyQueues
<1>1. NextRoot(m, s) \in Roots
  BY NextRootType DEF NDCRequestWithdrawal, QueueWithdrawals, IInv, NDCTypeOK
<1>2. withdrawalRequests'[m][NextRoot(m, s)] # withdrawalRequests[m][NextRoot(m, s)]
  BY <1>1 DEF NDCRequestWithdrawal, IInv, NDCTypeOK
<1>. QED
  BY <1>2 DEF OnlyQueues

LEMMA NextKeepsValue ==
  IInv /\ [NDCNext]_ndVars => ValueIsKept
<1>. SUFFICES ASSUME IInv, [NDCNext]_ndVars, OnlyQueues,
                     NEW n \in NDCs, NEW a \in supportedAssets
              PROVE  GetAssetBalance(n, a)' = GetAssetBalance(n, a)
  BY DEF ValueIsKept
<1>1. NDCTypeOK /\ ConfigTypeOK /\ a \in Assets
  BY DEF IInv, NDCTypeOK, ConfigTypeOK
<1>2. SUFFICES ASSUME a # WETH, NEW s \in Strategies, s = assetStrategy[a]
               PROVE  Counted(n, s)' = Counted(n, s)
  BY <1>1, SameValue DEF OnlyQueues
<1>3. CASE UNCHANGED <<depositShares, pendingInternalShareWithdrawals>>
  BY <1>3 DEF Counted
<1>4. EigenLayerStep \/ StrategyUpdate \/ UNCHANGED ndVars
        => UNCHANGED <<depositShares, pendingInternalShareWithdrawals>>
  BY DEF EigenLayerStep, DelayElapses, Rebase, StrategyUpdate, ndVars, elVars, ndcVars
<1>5. ASSUME NEW m \in NDCs, Fund(m)
      PROVE  UNCHANGED <<depositShares, pendingInternalShareWithdrawals>>
  BY <1>5 DEF Fund, ReceiveTokens, elVars
<1>6. ASSUME NEW m \in NDCs, StakerCall(m)
      PROVE  FALSE
  <2>1. ASSUME NEW t \in Strategies, NEW shares \in Amounts, NEW staker \in Stakers,
               NDCRequestWithdrawal(m, t, shares, staker)
        PROVE  FALSE
    BY <2>1, AmountsAssumption, RequestingIsNotQueueing DEF AmountsAssumption
  <2>2. ASSUME NEW r \in Roots, NEW staker \in Stakers, NDCClaimWithdrawal(m, r, staker)
        PROVE  FALSE
    BY <1>1, <2>2, CompletingIsNotQueueing DEF NDCClaimWithdrawal
  <2>. QED
    BY <1>6, <2>1, <2>2 DEF StakerCall
<1>7. ASSUME NEW m \in NDCs, OperatorCall(m)
      PROVE  Counted(n, s)' = Counted(n, s)
  <2>1. ASSUME NEW assets \in SUBSET Assets, DepositAssetsIntoStrategy(m, assets)
        PROVE  Counted(n, s)' = Counted(n, s)
    BY <1>1, <2>1, EmptyDepositKeepsShares DEF OnlyQueues
  <2>2. ASSUME NEW t \in Strategies, NEW shares \in Amounts, RequestInternalWithdrawal(m, t, shares)
        PROVE  Counted(n, s)' = Counted(n, s)
    BY <1>1, <2>2, AmountsAssumption, RequestInternalKeepsShares DEF AmountsAssumption
  <2>3. ASSUME NEW r \in Roots, ClaimInternalWithdrawal(m, r)
        PROVE  FALSE
    BY <1>1, <2>3, CompletingIsNotQueueing DEF ClaimInternalWithdrawal
  <2>. QED
    BY <1>7, <2>1, <2>2, <2>3 DEF OperatorCall
<1>8. ASSUME NEW m \in NDCs, ManagerCall(m)
      PROVE  Counted(n, s)' = Counted(n, s)
  <2>1. CASE Undelegate(m)
    <3>1. s \in UndelegatedStrategies
      BY <1>2 DEF UndelegatedStrategies
    <3>. QED
      BY <1>1, <2>1, <3>1, UndelegateKeepsShares
  <2>2. CASE ~Undelegate(m)
    BY <1>8, <2>2, <1>3 DEF ManagerCall, TransferBackToLRTDepositPool, NDCDelegateTo, DelegateTo,
       NDCPause, NDCUnpause, elVars, ndcVars
  <2>. QED
    BY <2>1, <2>2
<1>. QED
  BY <1>3, <1>4, <1>5, <1>6, <1>7, <1>8 DEF NDCNext

\* While no operator undelegates a NodeDelegator, queueing shares for an internal
\* withdrawal moves no value: the price of primeETH does not feel it.
THEOREM QueueingMovesNoValue == NDCSpec => QueueingKeepsValue
<1>1. NDCInit => IInv
  BY InitIInv
<1>2. IInv /\ [NDCNext]_ndVars => IInv'
  BY NextIInv DEF AnyOperatorNext
<1>3. IInv /\ [NDCNext]_ndVars => ValueIsKept
  BY NextKeepsValue
<1>. QED
  BY <1>1, <1>2, <1>3, PTL DEF NDCSpec, QueueingKeepsValue

-----------------------------------------------------------------------------
(* Which strategies hold deposits.  Of a strategy no share is worth less   *)
(* than RateUnit: worth nothing then means no shares.                      *)

RatesRise == \A r \in Rates : r >= RateUnit

RatesOK == \A s \in Strategies : rate[s] >= RateUnit

\* Only the strategy an asset is deposited into at the moment holds any of it.
DepositsInUse ==
  \A n \in NDCs, s \in Strategies : depositShares[n][s] # 0 =>
    Underlying[s] \in supportedAssets /\ assetStrategy[Underlying[s]] = s

LEMMA RatesStayOK ==
  ASSUME RatesRise, RatesOK, ELTypeOK, [AnyOperatorNext]_ndVars
  PROVE  RatesOK'
<1>1. CASE UNCHANGED rate
  BY <1>1 DEF RatesOK
<1>2. ASSUME NEW s \in Strategies, Rebase(s)
      PROVE  RatesOK'
  BY <1>2 DEF Rebase, RatesOK, RatesRise, ELTypeOK
<1>3. ASSUME NEW n \in NDCs, StakerCall(n)
      PROVE  UNCHANGED rate
  BY <1>3 DEF StakerCall, NDCRequestWithdrawal, QueueWithdrawals, NDCClaimWithdrawal,
     CompleteQueuedWithdrawal
<1>4. ASSUME NEW n \in NDCs, OperatorCall(n)
      PROVE  UNCHANGED rate
  BY <1>4 DEF OperatorCall, DepositAssetsIntoStrategy, DepositIntoStrategy,
     RequestInternalWithdrawal, QueueWithdrawals, ClaimInternalWithdrawal, CompleteQueuedWithdrawal
<1>5. ASSUME NEW n \in NDCs, ManagerCall(n) \/ OperatorUndelegates(n)
      PROVE  UNCHANGED rate
  BY <1>5 DEF ManagerCall, TransferBackToLRTDepositPool, NDCDelegateTo, DelegateTo, Undelegate,
     OperatorUndelegates, UndelegateStaker, NDCPause, NDCUnpause, elVars
<1>6. ASSUME NEW n \in NDCs, Fund(n)
      PROVE  UNCHANGED rate
  BY <1>6 DEF Fund, ReceiveTokens, elVars
<1>7. StrategyUpdate \/ UNCHANGED ndVars => UNCHANGED rate
  BY DEF StrategyUpdate, ndVars, elVars
<1>8. ASSUME NEW r \in Roots, DelayElapses(r)
      PROVE  UNCHANGED rate
  BY <1>8 DEF DelayElapses
<1>. QED
  BY <1>1, <1>2, <1>3, <1>4, <1>5, <1>6, <1>7, <1>8 DEF AnyOperatorNext, NDCNext, EigenLayerStep

\* Shares of a strategy that is worth nothing are none.
LEMMA WorthNothing ==
  ASSUME NDCTypeOK, RatesOK, NEW n \in NDCs, NEW s \in Strategies, UserUnderlyingView(s, n) = 0
  PROVE  depositShares[n][s] = 0
<1>. DEFINE shares == depositShares[n][s]
            unit   == RateUnit
            r      == rate[s]
<1>1. shares \in Nat /\ r \in Nat /\ unit \in Nat /\ unit > 0 /\ r >= unit
  BY DEF NDCTypeOK, ELTypeOK, RatesOK
<1>2. (shares * r) \div unit = 0
  BY DEF UserUnderlyingView, SharesToUnderlying
<1>. HIDE DEF shares, unit, r
<1>3. shares * r \in Nat
  BY <1>1
<1>4. shares * r < unit
  <2>. DEFINE product == shares * r
  <2>1. product \in Nat /\ product \div unit = 0
    BY <1>2, <1>3
  <2>. HIDE DEF product
  <2>2. product < unit
    BY <1>1, <2>1
  <2>. QED
    BY <2>2 DEF product
<1>5. shares # 0 => shares * r >= r
  BY <1>1
<1>. QED
  BY <1>1, <1>3, <1>4, <1>5 DEF shares

LEMMA StrategyUpdateInUse ==
  ASSUME NDCTypeOK, RatesOK, DepositsInUse, StrategyUpdate
  PROVE  DepositsInUse'
<1>1. PICK t \in Strategies : UpdateAssetStrategy(Underlying[t], t, NDCs)
  BY DEF StrategyUpdate
<1>. DEFINE asset == Underlying[t]
<1>2. UNCHANGED <<depositShares, supportedAssets>>
  BY <1>1 DEF StrategyUpdate, UpdateAssetStrategy, elVars
<1>3. /\ asset \in Assets
      /\ assetStrategy' = [assetStrategy EXCEPT ![asset] = t]
      /\ assetStrategy \in [Assets -> Strategies \cup {NoStrategy}]
      /\ assetStrategy[asset] # NoStrategy =>
           \A n \in NDCs : UserUnderlyingView(assetStrategy[asset], n) = 0
  BY <1>1 DEF UpdateAssetStrategy, NDCTypeOK, ConfigTypeOK
<1>. SUFFICES ASSUME NEW n \in NDCs, NEW s \in Strategies, depositShares[n][s] # 0
              PROVE  Underlying[s] \in supportedAssets /\ assetStrategy'[Underlying[s]] = s
  BY <1>2 DEF DepositsInUse
<1>4. Underlying[s] \in supportedAssets /\ assetStrategy[Underlying[s]] = s
  BY DEF DepositsInUse
<1>5. Underlying[s] # asset
  <2>. SUFFICES ASSUME Underlying[s] = asset
                PROVE  FALSE
    OBVIOUS
  <2>1. UserUnderlyingView(s, n) = 0
    BY <1>3, <1>4
  <2>. QED
    BY <2>1, WorthNothing
<1>. QED
  BY <1>3, <1>4, <1>5

LEMMA DepositInUse ==
  ASSUME NDCTypeOK, DepositsInUse, NEW m \in NDCs, NEW assets \in SUBSET Assets,
         DepositAssetsIntoStrategy(m, assets)
  PROVE  DepositsInUse'
<1>. DEFINE deposited == {a \in assets : ndcBalance[m][a] > DUST_AMOUNT}
            amounts == [t \in Strategies |->
                          LET a == Underlying[t]
                          IN IF a \in deposited /\ assetStrategy[a] = t
                             THEN ndcBalance[m][a] ELSE 0]
<1>1. /\ DepositIntoStrategy(m, amounts) /\ UNCHANGED <<supportedAssets, assetStrategy>>
      /\ assets \subseteq supportedAssets
  BY DEF DepositAssetsIntoStrategy, configVars
<1>. SUFFICES ASSUME NEW n \in NDCs, NEW s \in Strategies, depositShares'[n][s] # 0,
                     depositShares[n][s] = 0
              PROVE  Underlying[s] \in supportedAssets /\ assetStrategy[Underlying[s]] = s
  BY <1>1 DEF DepositsInUse
<1>2. CASE amounts[s] = 0
  <2>1. UnderlyingToShares(s, 0) = 0
    <3>1. rate[s] \in Nat \ {0} /\ 0 * RateUnit = 0
      BY DEF NDCTypeOK, ELTypeOK
    <3>. QED
      BY <3>1 DEF UnderlyingToShares
  <2>. HIDE DEF amounts
  <2>2. depositShares'[n][s] = depositShares[n][s] \/ depositShares'[n][s] = 0 + 0
    BY <1>1, <1>2, <2>1 DEF DepositIntoStrategy, NDCTypeOK, ELTypeOK
  <2>. QED
    BY <2>2
<1>3. CASE amounts[s] # 0
  BY <1>1, <1>3
<1>. QED
  BY <1>2, <1>3

\* No other step puts shares into a strategy.
LEMMA OthersInUse ==
  ASSUME DepositsInUse, ELTypeOK, ELTypeOK', UNCHANGED configVars,
         \A n \in NDCs, s \in Strategies : depositShares'[n][s] <= depositShares[n][s]
  PROVE  DepositsInUse'
BY DEF DepositsInUse, ELTypeOK, configVars

LEMMA QueueingTakesShares ==
  ASSUME ELTypeOK, NEW m \in NDCs,
         \/ \E s \in Strategies, shares \in Nat : QueueWithdrawals(m, s, shares)
         \/ UndelegateStaker(m)
  PROVE  \A n \in NDCs, s \in Strategies : depositShares'[n][s] <= depositShares[n][s]
<1>1. depositShares \in [NDCs -> [Strategies -> Nat]]
  BY DEF ELTypeOK
<1>2. ASSUME NEW s \in Strategies, NEW shares \in Nat, QueueWithdrawals(m, s, shares)
      PROVE  \A n \in NDCs, t \in Strategies : depositShares'[n][t] <= depositShares[n][t]
  BY <1>1, <1>2 DEF QueueWithdrawals
<1>3. ASSUME UndelegateStaker(m)
      PROVE  \A n \in NDCs, t \in Strategies : depositShares'[n][t] <= depositShares[n][t]
  BY <1>1, <1>3 DEF UndelegateStaker
<1>. QED
  BY <1>2, <1>3

LEMMA NextInUse ==
  ASSUME IInv, IInv', RatesOK, DepositsInUse, [AnyOperatorNext]_ndVars
  PROVE  DepositsInUse'
<1>1. NDCTypeOK /\ ELTypeOK /\ ELTypeOK'
  BY DEF IInv, NDCTypeOK
<1>2. CASE UNCHANGED <<depositShares, configVars>>
  BY <1>2 DEF DepositsInUse, configVars
<1>3. CASE StrategyUpdate
  BY <1>1, <1>3, StrategyUpdateInUse
<1>4. EigenLayerStep \/ UNCHANGED ndVars => UNCHANGED <<depositShares, configVars>>
  BY DEF EigenLayerStep, DelayElapses, Rebase, ndVars, elVars
<1>5. ASSUME NEW n \in NDCs, Fund(n)
      PROVE  UNCHANGED <<depositShares, configVars>>
  BY <1>5 DEF Fund, ReceiveTokens, elVars
<1>6. ASSUME NEW n \in NDCs, StakerCall(n)
      PROVE  DepositsInUse'
  <2>1. ASSUME NEW s \in Strategies, NEW shares \in Amounts, NEW staker \in Stakers,
               NDCRequestWithdrawal(n, s, shares, staker)
        PROVE  DepositsInUse'
    <3>1. shares \in Nat
      BY AmountsAssumption DEF AmountsAssumption
    <3>. QED
      BY <1>1, <2>1, <3>1, QueueingTakesShares, OthersInUse DEF NDCRequestWithdrawal
  <2>2. ASSUME NEW r \in Roots, NEW staker \in Stakers, NDCClaimWithdrawal(n, r, staker)
        PROVE  UNCHANGED <<depositShares, configVars>>
    BY <2>2 DEF NDCClaimWithdrawal, CompleteQueuedWithdrawal
  <2>. QED
    BY <1>2, <1>6, <2>1, <2>2 DEF StakerCall
<1>7. ASSUME NEW n \in NDCs, OperatorCall(n)
      PROVE  DepositsInUse'
  <2>1. ASSUME NEW s \in Strategies, NEW shares \in Amounts,
               RequestInternalWithdrawal(n, s, shares)
        PROVE  DepositsInUse'
    <3>1. shares \in Nat
      BY AmountsAssumption DEF AmountsAssumption
    <3>. QED
      BY <1>1, <2>1, <3>1, QueueingTakesShares, OthersInUse DEF RequestInternalWithdrawal
  <2>2. ASSUME NEW r \in Roots, ClaimInternalWithdrawal(n, r)
        PROVE  UNCHANGED <<depositShares, configVars>>
    BY <2>2 DEF ClaimInternalWithdrawal, CompleteQueuedWithdrawal
  <2>. QED
    BY <1>1, <1>2, <1>7, <2>1, <2>2, DepositInUse DEF OperatorCall
<1>8. ASSUME NEW n \in NDCs, ManagerCall(n) \/ OperatorUndelegates(n)
      PROVE  DepositsInUse'
  <2>1. CASE Undelegate(n) \/ OperatorUndelegates(n)
    BY <1>1, <2>1, QueueingTakesShares, OthersInUse DEF Undelegate, OperatorUndelegates
  <2>2. CASE ~(Undelegate(n) \/ OperatorUndelegates(n))
    BY <1>2, <1>8, <2>2 DEF ManagerCall, TransferBackToLRTDepositPool, NDCDelegateTo, DelegateTo,
       NDCPause, NDCUnpause, elVars
  <2>. QED
    BY <2>1, <2>2
<1>. QED
  BY <1>2, <1>3, <1>4, <1>5, <1>6, <1>7, <1>8 DEF AnyOperatorNext, NDCNext

-----------------------------------------------------------------------------
(* The pending shares are the sum of the internal queue. *)

\* No operator was slashed: what is queued is what was deposited.
Unslashed == ScalingFactors = {1}

LEMMA QueueFinite ==
  ASSUME NEW n \in NDCs, NEW s \in Strategies
  PROVE  IsFiniteSet(InternalQueue(n, s))
<1>. DEFINE nonces == 0 .. MaxWithdrawals - 1
            roots  == {[ndc |-> n, strategy |-> s, nonce |-> k] : k \in nonces}
            root   == [k \in nonces |-> [ndc |-> n, strategy |-> s, nonce |-> k]]
<1>1. IsFiniteSet(nonces)
  BY FS_Interval
<1>2. root \in Surjection(nonces, roots)
  BY DEF Surjection
<1>3. IsFiniteSet(roots)
  BY <1>1, <1>2, FS_Surjection
<1>4. InternalQueue(n, s) \subseteq roots
  BY DEF InternalQueue, Roots
<1>. QED
  BY <1>3, <1>4, FS_Subset

LEMMA ScaledSharesType ==
  ASSUME ELTypeOK
  PROVE  \A r \in Roots : ScaledShares[r] = withdrawals[r].scaledShares /\ ScaledShares[r] \in Nat
BY DEF ScaledShares, ELTypeOK, Withdrawals

Pends(n, s) ==
  pendingInternalShareWithdrawals[n][s] = SumFunctionOnSet(ScaledShares, InternalQueue(n, s))

\* The queue stays, and the counter.
LEMMA QueueStays ==
  ASSUME NEW n \in NDCs, NEW s \in Strategies, Pends(n, s),
         InternalQueue(n, s)' = InternalQueue(n, s),
         \A r \in InternalQueue(n, s) : ScaledShares'[r] = ScaledShares[r],
         pendingInternalShareWithdrawals'[n][s] = pendingInternalShareWithdrawals[n][s]
  PROVE  Pends(n, s)'
<1>1. SumFunctionOnSet(ScaledShares', InternalQueue(n, s))
        = SumFunctionOnSet(ScaledShares, InternalQueue(n, s))
  BY QueueFinite, SumSame
<1>. QED
  BY <1>1 DEF Pends

\* One more withdrawal in the queue, and as many more pending shares.
LEMMA QueueGrows ==
  ASSUME NEW n \in NDCs, NEW s \in Strategies, Pends(n, s), ELTypeOK, ELTypeOK',
         NEW root \in Roots, root \notin InternalQueue(n, s),
         InternalQueue(n, s)' = InternalQueue(n, s) \cup {root},
         \A r \in InternalQueue(n, s) : ScaledShares'[r] = ScaledShares[r],
         pendingInternalShareWithdrawals'[n][s] =
           pendingInternalShareWithdrawals[n][s] + ScaledShares'[root]
  PROVE  Pends(n, s)'
<1>. DEFINE Q == InternalQueue(n, s)
            R == Q \cup {root}
<1>1. IsFiniteSet(Q) /\ IsFiniteSet(R)
  BY QueueFinite, FS_AddElement
<1>2. /\ \A r \in Q : ScaledShares[r] \in Int
      /\ \A r \in R : ScaledShares'[r] \in Int
  <2>1. Q \subseteq Roots
    BY DEF InternalQueue
  <2>2. \A r \in Roots : ScaledShares[r] \in Nat
    BY ScaledSharesType
  <2>3. \A r \in Roots : ScaledShares'[r] \in Nat
    BY DEF ScaledShares, ELTypeOK, Withdrawals
  <2>. QED
    BY <2>1, <2>2, <2>3
<1>. HIDE DEF Q
<1>3. R \ {root} = Q
  BY DEF Q
<1>4. SumFunctionOnSet(ScaledShares', R) = ScaledShares'[root] + SumFunctionOnSet(ScaledShares', Q)
  BY <1>1, <1>2, <1>3, SumRemove
<1>5. SumFunctionOnSet(ScaledShares', Q) = SumFunctionOnSet(ScaledShares, Q)
  BY <1>1, SumSame DEF Q
<1>6. SumFunctionOnSet(ScaledShares, Q) \in Int /\ ScaledShares'[root] \in Int
  BY <1>1, <1>2, SumInt
<1>7. Pends(n, s)' <=> pendingInternalShareWithdrawals'[n][s] = SumFunctionOnSet(ScaledShares', R)
  BY DEF Pends, Q
<1>8. pendingInternalShareWithdrawals'[n][s] = SumFunctionOnSet(ScaledShares, Q) + ScaledShares'[root]
  BY DEF Pends, Q
<1>. HIDE DEF R
<1>. QED
  BY <1>4, <1>5, <1>6, <1>7, <1>8

\* One withdrawal is completed, and its shares are no longer pending.
LEMMA QueueShrinks ==
  ASSUME NEW n \in NDCs, NEW s \in Strategies, Pends(n, s), ELTypeOK,
         NEW root \in InternalQueue(n, s),
         InternalQueue(n, s)' = InternalQueue(n, s) \ {root},
         \A r \in InternalQueue(n, s) \ {root} : ScaledShares'[r] = ScaledShares[r],
         pendingInternalShareWithdrawals'[n][s] =
           pendingInternalShareWithdrawals[n][s] - ScaledShares[root]
  PROVE  Pends(n, s)'
<1>. DEFINE Q == InternalQueue(n, s)
            R == Q \ {root}
<1>1. IsFiniteSet(Q) /\ IsFiniteSet(R)
  BY QueueFinite, FS_RemoveElement
<1>2. \A r \in Q : ScaledShares[r] \in Int
  BY ScaledSharesType DEF InternalQueue
<1>3. SumFunctionOnSet(ScaledShares, Q) = ScaledShares[root] + SumFunctionOnSet(ScaledShares, R)
  <2>. HIDE DEF Q
  <2>. QED
    BY <1>1, <1>2, SumRemove DEF Q
<1>4. SumFunctionOnSet(ScaledShares', R) = SumFunctionOnSet(ScaledShares, R)
  BY <1>1, SumSame
<1>5. SumFunctionOnSet(ScaledShares, R) \in Int /\ ScaledShares[root] \in Int
  BY <1>1, <1>2, SumInt
<1>6. Pends(n, s)' <=> pendingInternalShareWithdrawals'[n][s] = SumFunctionOnSet(ScaledShares', R)
  BY DEF Pends
<1>7. pendingInternalShareWithdrawals'[n][s] = SumFunctionOnSet(ScaledShares, Q) - ScaledShares[root]
  BY DEF Pends
<1>. HIDE DEF Q, R
<1>. QED
  BY <1>3, <1>4, <1>5, <1>6, <1>7

\* A root that is handed out was in nobody's queue, and nobody's record.
LEMMA NextRootIsFresh ==
  ASSUME IInv, NEW n \in NDCs, NEW s \in Strategies, nonce[n][s] < MaxWithdrawals
  PROVE  /\ NextRoot(n, s) \in Roots
         /\ NextRoot(n, s).ndc = n /\ NextRoot(n, s).strategy = s
         /\ ~Pending(NextRoot(n, s))
         /\ \A m \in NDCs : withdrawalRequests[m][NextRoot(n, s)] = NoStaker
<1>1. ELTypeOK
  BY DEF IInv, NDCTypeOK
<1>2. /\ NextRoot(n, s) \in Roots
      /\ NextRoot(n, s).ndc = n /\ NextRoot(n, s).strategy = s
      /\ NextRoot(n, s).nonce = nonce[n][s]
  BY <1>1, NextRootType
<1>3. nonce[n][s] >= nonce[n][s]
  BY <1>1 DEF ELTypeOK
<1>4. /\ withdrawals[NextRoot(n, s)] = NoWithdrawal
      /\ \A m \in NDCs : withdrawalRequests[m][NextRoot(n, s)] = NoStaker
  BY <1>2, <1>3 DEF IInv, FreshRoots
<1>. QED
  BY <1>2, <1>4 DEF Pending, NoWithdrawal

LEMMA UntouchedPends ==
  ASSUME PendingMatchesQueue,
         UNCHANGED <<withdrawals, withdrawalRequests, pendingInternalShareWithdrawals>>
  PROVE  PendingMatchesQueue'
BY DEF PendingMatchesQueue, InternalQueue, ScaledShares, Pending

LEMMA DelayPends ==
  ASSUME IInv, PendingMatchesQueue, NEW root \in Roots, DelayElapses(root),
         UNCHANGED <<withdrawalRequests, pendingInternalShareWithdrawals>>
  PROVE  PendingMatchesQueue'
<1>1. withdrawals \in [Roots -> Withdrawals]
  BY DEF IInv, NDCTypeOK, ELTypeOK
<1>2. /\ withdrawals[root].status = "queued"
      /\ withdrawals' = [withdrawals EXCEPT ![root] = [withdrawals[root] EXCEPT !.status = "completable"]]
  BY <1>1 DEF DelayElapses
<1>3. \A r \in Roots : /\ withdrawals'[r].scaledShares = withdrawals[r].scaledShares
                       /\ Pending(r)' <=> Pending(r)
  BY <1>1, <1>2 DEF Pending, Withdrawals
<1>. SUFFICES ASSUME NEW n \in NDCs, NEW s \in Strategies
              PROVE  Pends(n, s)'
  BY DEF PendingMatchesQueue, Pends
<1>4. InternalQueue(n, s)' = InternalQueue(n, s) /\ Pends(n, s)
  BY <1>3 DEF InternalQueue, PendingMatchesQueue, Pends
<1>5. \A r \in InternalQueue(n, s) : ScaledShares'[r] = ScaledShares[r]
  BY <1>3 DEF InternalQueue, ScaledShares
<1>. QED
  BY <1>4, <1>5, QueueStays

\* A staker's withdrawal is not the pool's, from the transaction that queues it on.
LEMMA RequestPends ==
  ASSUME IInv, PendingMatchesQueue, NEW m \in NDCs, NEW q \in Strategies, NEW shares \in Nat,
         NEW staker \in Stakers, NDCRequestWithdrawal(m, q, shares, staker)
  PROVE  PendingMatchesQueue'
<1>. DEFINE root == NextRoot(m, q)
<1>1. /\ root \in Roots /\ root.ndc = m /\ ~Pending(root)
  BY NextRootIsFresh DEF NDCRequestWithdrawal, QueueWithdrawals
<1>2. \A r \in Roots : r # root => withdrawals'[r] = withdrawals[r]
  BY <1>1 DEF NDCRequestWithdrawal, QueueWithdrawals, IInv, NDCTypeOK, ELTypeOK
<1>3. /\ \A n \in NDCs, r \in Roots :
           r # root => withdrawalRequests'[n][r] = withdrawalRequests[n][r]
      /\ withdrawalRequests'[m][root] # NoStaker
  BY <1>1 DEF NDCRequestWithdrawal, IInv, NDCTypeOK
<1>. HIDE DEF root
<1>. SUFFICES ASSUME NEW n \in NDCs, NEW s \in Strategies
              PROVE  Pends(n, s)'
  BY DEF PendingMatchesQueue, Pends
<1>4. root \notin InternalQueue(n, s) /\ Pends(n, s)
  BY <1>1 DEF InternalQueue, PendingMatchesQueue, Pends
<1>5. InternalQueue(n, s)' = InternalQueue(n, s)
  BY <1>1, <1>2, <1>3, <1>4 DEF InternalQueue, Pending
<1>6. \A r \in InternalQueue(n, s) : ScaledShares'[r] = ScaledShares[r]
  BY <1>2, <1>4 DEF InternalQueue, ScaledShares
<1>. QED
  BY <1>4, <1>5, <1>6, QueueStays DEF NDCRequestWithdrawal

LEMMA RequestInternalPends ==
  ASSUME Unslashed, IInv, IInv', PendingMatchesQueue, NEW m \in NDCs, NEW q \in Strategies,
         NEW shares \in Nat, RequestInternalWithdrawal(m, q, shares)
  PROVE  PendingMatchesQueue'
<1>. DEFINE root == NextRoot(m, q)
<1>1. /\ root \in Roots /\ root.ndc = m /\ root.strategy = q /\ ~Pending(root)
      /\ \A n \in NDCs : withdrawalRequests[n][root] = NoStaker
  BY NextRootIsFresh DEF RequestInternalWithdrawal, QueueWithdrawals
<1>2. /\ \A r \in Roots : r # root => withdrawals'[r] = withdrawals[r]
      /\ withdrawals'[root] = [status |-> "queued", shares |-> shares, scaledShares |-> shares]
  <2>1. PICK f \in ScalingFactors : withdrawals' = [withdrawals EXCEPT ![root] =
          [status |-> "queued", shares |-> shares, scaledShares |-> shares * f]]
    BY DEF RequestInternalWithdrawal, QueueWithdrawals
  <2>2. shares * f = shares
    BY DEF Unslashed
  <2>. QED
    BY <1>1, <2>1, <2>2 DEF IInv, NDCTypeOK, ELTypeOK
<1>3. /\ UNCHANGED withdrawalRequests
      /\ pendingInternalShareWithdrawals' =
           [pendingInternalShareWithdrawals EXCEPT ![m][q] = @ + shares]
      /\ pendingInternalShareWithdrawals \in [NDCs -> [Strategies -> Nat]]
  BY DEF RequestInternalWithdrawal, IInv, NDCTypeOK
<1>. HIDE DEF root
<1>. SUFFICES ASSUME NEW n \in NDCs, NEW s \in Strategies
              PROVE  Pends(n, s)'
  BY DEF PendingMatchesQueue, Pends
<1>4. root \notin InternalQueue(n, s) /\ Pends(n, s)
  BY <1>1 DEF InternalQueue, PendingMatchesQueue, Pends
<1>5. \A r \in InternalQueue(n, s) : ScaledShares'[r] = ScaledShares[r]
  BY <1>2, <1>4 DEF InternalQueue, ScaledShares
<1>6. CASE n = m /\ s = q
  <2>1. InternalQueue(n, s)' = InternalQueue(n, s) \cup {root}
    BY <1>1, <1>2, <1>3, <1>4, <1>6 DEF InternalQueue, Pending
  <2>2. ScaledShares'[root] = shares
    BY <1>1, <1>2 DEF ScaledShares
  <2>3. pendingInternalShareWithdrawals'[n][s] =
          pendingInternalShareWithdrawals[n][s] + ScaledShares'[root]
    BY <1>3, <1>6, <2>2
  <2>. QED
    BY <1>1, <1>4, <1>5, <2>1, <2>3, QueueGrows DEF IInv, NDCTypeOK
<1>7. CASE ~(n = m /\ s = q)
  <2>1. InternalQueue(n, s)' = InternalQueue(n, s)
    BY <1>1, <1>2, <1>3, <1>4, <1>7 DEF InternalQueue, Pending
  <2>2. pendingInternalShareWithdrawals'[n][s] = pendingInternalShareWithdrawals[n][s]
    BY <1>3, <1>7
  <2>. QED
    BY <1>4, <1>5, <2>1, <2>2, QueueStays
<1>. QED
  BY <1>6, <1>7

\* EigenLayer queues what n holds of each strategy; undelegate has counted just
\* that, as only the strategies in use hold anything.
LEMMA UndelegatePends ==
  ASSUME Unslashed, IInv, IInv', DepositsInUse, PendingMatchesQueue, NEW m \in NDCs, Undelegate(m)
  PROVE  PendingMatchesQueue'
<1>. DEFINE held == {s \in Strategies : depositShares[m][s] > 0}
            New(r) == r.ndc = m /\ r.strategy \in held /\ r.nonce = nonce[m][r.strategy]
<1>1. \A s \in held : nonce[m][s] < MaxWithdrawals
  BY DEF Undelegate, UndelegateStaker
<1>2. /\ \A r \in Roots : ~New(r) => withdrawals'[r] = withdrawals[r]
      /\ \A r \in Roots : New(r) =>
           withdrawals'[r] = [status |-> "queued", shares |-> depositShares[m][r.strategy],
                              scaledShares |-> depositShares[m][r.strategy]]
  <2>1. withdrawals' = [r \in Roots |->
          IF New(r)
          THEN [status |-> "queued", shares |-> depositShares[m][r.strategy],
                scaledShares |-> depositShares[m][r.strategy] * 1]
          ELSE withdrawals[r]]
    BY DEF Undelegate, UndelegateStaker, Unslashed
  <2>2. \A s \in Strategies : depositShares[m][s] * 1 = depositShares[m][s]
    BY DEF IInv, NDCTypeOK, ELTypeOK
  <2>. QED
    BY <2>1, <2>2
<1>3. /\ UNCHANGED withdrawalRequests
      /\ pendingInternalShareWithdrawals' = [pendingInternalShareWithdrawals EXCEPT ![m] =
           [s \in Strategies |->
              IF s \in UndelegatedStrategies THEN @[s] + depositShares[m][s] ELSE @[s]]]
      /\ pendingInternalShareWithdrawals \in [NDCs -> [Strategies -> Nat]]
  BY DEF Undelegate, IInv, NDCTypeOK
<1>4. \A r \in Roots : New(r) => ~Pending(r) /\ withdrawalRequests[m][r] = NoStaker
  <2>. SUFFICES ASSUME NEW r \in Roots, New(r)
                PROVE  ~Pending(r) /\ withdrawalRequests[m][r] = NoStaker
    OBVIOUS
  <2>1. r = NextRoot(m, r.strategy) /\ r.strategy \in Strategies
    BY DEF Roots, NextRoot
  <2>. QED
    BY <1>1, <2>1, NextRootIsFresh
<1>. SUFFICES ASSUME NEW n \in NDCs, NEW s \in Strategies
              PROVE  Pends(n, s)'
  BY DEF PendingMatchesQueue, Pends
<1>5. Pends(n, s)
  BY DEF PendingMatchesQueue, Pends
<1>6. \A r \in InternalQueue(n, s) : ~New(r) /\ ScaledShares'[r] = ScaledShares[r]
  BY <1>2, <1>4 DEF InternalQueue, ScaledShares
<1>7. CASE n = m /\ s \in held
  <2>. DEFINE root == NextRoot(m, s)
  <2>1. /\ root \in Roots /\ root.ndc = m /\ root.strategy = s
        /\ root.nonce = nonce[m][s]
    BY <1>1, <1>7, NextRootIsFresh DEF NextRoot
  <2>2. \A r \in Roots : (r.ndc = m /\ r.strategy = s /\ New(r)) => r = root
    <3>. SUFFICES ASSUME NEW r \in Roots, r.ndc = m, r.strategy = s, New(r)
                  PROVE  r = root
      OBVIOUS
    <3>1. r.nonce = nonce[m][s]
      OBVIOUS
    <3>. QED
      BY <3>1 DEF Roots, NextRoot
  <2>3. New(root) /\ root \notin InternalQueue(n, s)
    BY <1>6, <1>7, <2>1
  <2>4. /\ withdrawals'[root] = [status |-> "queued", shares |-> depositShares[m][s],
                                 scaledShares |-> depositShares[m][s]]
        /\ ScaledShares'[root] = depositShares[m][s]
    <3>1. withdrawals'[root] = [status |-> "queued", shares |-> depositShares[m][s],
                                scaledShares |-> depositShares[m][s]]
      BY <1>2, <2>1, <2>3
    <3>. QED
      BY <2>1, <3>1 DEF ScaledShares
  <2>5. s \in UndelegatedStrategies
    <3>1. depositShares[m][s] # 0 /\ Underlying[s] # WETH
      BY <1>7
    <3>2. Underlying[s] \in supportedAssets /\ assetStrategy[Underlying[s]] = s
      BY <3>1 DEF DepositsInUse
    <3>. QED
      BY <3>1, <3>2 DEF UndelegatedStrategies
  <2>6. pendingInternalShareWithdrawals'[n][s] =
          pendingInternalShareWithdrawals[n][s] + ScaledShares'[root]
    BY <1>3, <1>7, <2>4, <2>5
  <2>7. InternalQueue(n, s)' = InternalQueue(n, s) \cup {root}
    <3>. HIDE DEF New, root
    <3>1. \A r \in Roots : r.ndc = n /\ r.strategy = s /\ r # root
            => withdrawals'[r] = withdrawals[r]
      BY <1>2, <1>7, <2>2
    <3>2. root \in InternalQueue(n, s)'
      BY <1>3, <1>4, <1>7, <2>1, <2>3, <2>4 DEF InternalQueue, Pending
    <3>3. \A r \in Roots : r # root =>
            (r \in InternalQueue(n, s)' <=> r \in InternalQueue(n, s))
      BY <1>3, <3>1 DEF InternalQueue, Pending
    <3>4. InternalQueue(n, s) \subseteq Roots /\ InternalQueue(n, s)' \subseteq Roots
      BY DEF InternalQueue
    <3>. QED
      BY <2>1, <3>2, <3>3, <3>4
  <2>. HIDE DEF root
  <2>. QED
    BY <1>5, <1>6, <2>1, <2>3, <2>6, <2>7, QueueGrows DEF IInv, NDCTypeOK
<1>8. CASE ~(n = m /\ s \in held)
  <2>1. \A r \in Roots : r.ndc = n /\ r.strategy = s => ~New(r)
    BY <1>8
  <2>2. InternalQueue(n, s)' = InternalQueue(n, s)
    <3>. HIDE DEF New
    <3>. QED
      BY <1>2, <1>3, <2>1 DEF InternalQueue, Pending
  <2>3. n = m => depositShares[m][s] = 0
    BY <1>8 DEF IInv, NDCTypeOK, ELTypeOK
  <2>4. pendingInternalShareWithdrawals'[n][s] = pendingInternalShareWithdrawals[n][s]
    BY <1>3, <2>3
  <2>. QED
    BY <1>5, <1>6, <2>2, <2>4, QueueStays
<1>. QED
  BY <1>7, <1>8

\* What a staker claims was not in the internal queue.
LEMMA ClaimPends ==
  ASSUME IInv, PendingMatchesQueue, NEW m \in NDCs, NEW root \in Roots, NEW staker \in Stakers,
         NDCClaimWithdrawal(m, root, staker)
  PROVE  PendingMatchesQueue'
<1>1. /\ root.ndc = m /\ withdrawalRequests[m][root] \in Stakers
      /\ withdrawalRequests' = [withdrawalRequests EXCEPT ![m][root] = DEAD_ADDRESS]
      /\ withdrawals' = [withdrawals EXCEPT ![root] = Completed]
      /\ UNCHANGED pendingInternalShareWithdrawals
  BY DEF NDCClaimWithdrawal, CompleteQueuedWithdrawal
<1>2. \A r \in Roots : r # root => withdrawals'[r] = withdrawals[r]
  BY <1>1 DEF IInv, NDCTypeOK, ELTypeOK
<1>3. /\ \A n \in NDCs, r \in Roots :
           r # root => withdrawalRequests'[n][r] = withdrawalRequests[n][r]
      /\ withdrawalRequests'[m][root] = DEAD_ADDRESS
  BY <1>1 DEF IInv, NDCTypeOK
<1>. SUFFICES ASSUME NEW n \in NDCs, NEW s \in Strategies
              PROVE  Pends(n, s)'
  BY DEF PendingMatchesQueue, Pends
<1>4. root \notin InternalQueue(n, s) /\ Pends(n, s)
  BY <1>1 DEF InternalQueue, PendingMatchesQueue, Pends
<1>5. root \notin InternalQueue(n, s)'
  BY <1>1, <1>3 DEF InternalQueue
<1>6. \A r \in Roots : r # root => (r \in InternalQueue(n, s)' <=> r \in InternalQueue(n, s))
  BY <1>2, <1>3 DEF InternalQueue, Pending
<1>7. InternalQueue(n, s)' = InternalQueue(n, s)
  <2>1. InternalQueue(n, s) \subseteq Roots /\ InternalQueue(n, s)' \subseteq Roots
    BY DEF InternalQueue
  <2>. QED
    BY <1>4, <1>5, <1>6, <2>1
<1>8. \A r \in InternalQueue(n, s) : ScaledShares'[r] = ScaledShares[r]
  BY <1>2, <1>4 DEF InternalQueue, ScaledShares
<1>. QED
  BY <1>1, <1>4, <1>7, <1>8, QueueStays

LEMMA ClaimInternalPends ==
  ASSUME IInv, PendingMatchesQueue, NEW m \in NDCs, NEW root \in Roots,
         ClaimInternalWithdrawal(m, root)
  PROVE  PendingMatchesQueue'
<1>. DEFINE q == root.strategy
<1>1. /\ root.ndc = m /\ withdrawalRequests[m][root] = NoStaker /\ Pending(root)
      /\ q \in Strategies
      /\ withdrawals' = [withdrawals EXCEPT ![root] = Completed]
      /\ pendingInternalShareWithdrawals' = [pendingInternalShareWithdrawals EXCEPT
           ![m][q] = @ - withdrawals[root].scaledShares]
      /\ UNCHANGED withdrawalRequests
  BY DEF ClaimInternalWithdrawal, CompleteQueuedWithdrawal, Pending, Roots
<1>2. /\ \A r \in Roots : r # root => withdrawals'[r] = withdrawals[r]
      /\ withdrawals'[root] = Completed
  BY <1>1 DEF IInv, NDCTypeOK, ELTypeOK
<1>3. pendingInternalShareWithdrawals \in [NDCs -> [Strategies -> Nat]]
  BY DEF IInv, NDCTypeOK
<1>. SUFFICES ASSUME NEW n \in NDCs, NEW s \in Strategies
              PROVE  Pends(n, s)'
  BY DEF PendingMatchesQueue, Pends
<1>4. Pends(n, s)
  BY DEF PendingMatchesQueue, Pends
<1>5. /\ root \notin InternalQueue(n, s)'
      /\ \A r \in Roots : r # root => (r \in InternalQueue(n, s)' <=> r \in InternalQueue(n, s))
      /\ InternalQueue(n, s) \subseteq Roots /\ InternalQueue(n, s)' \subseteq Roots
  BY <1>1, <1>2 DEF InternalQueue, Pending, Completed
<1>6. \A r \in InternalQueue(n, s) \ {root} : ScaledShares'[r] = ScaledShares[r]
  BY <1>2, <1>5 DEF ScaledShares
<1>7. CASE n = m /\ s = q
  <2>1. root \in InternalQueue(n, s)
    BY <1>1, <1>7 DEF InternalQueue
  <2>2. InternalQueue(n, s)' = InternalQueue(n, s) \ {root}
    BY <1>5
  <2>3. pendingInternalShareWithdrawals'[n][s] =
          pendingInternalShareWithdrawals[n][s] - ScaledShares[root]
    BY <1>1, <1>3, <1>7 DEF ScaledShares
  <2>. QED
    BY <1>4, <1>6, <2>1, <2>2, <2>3, QueueShrinks DEF IInv, NDCTypeOK
<1>8. CASE ~(n = m /\ s = q)
  <2>1. root \notin InternalQueue(n, s)
    BY <1>1, <1>8 DEF InternalQueue
  <2>2. InternalQueue(n, s)' = InternalQueue(n, s)
    BY <1>5, <2>1
  <2>3. pendingInternalShareWithdrawals'[n][s] = pendingInternalShareWithdrawals[n][s]
    BY <1>1, <1>3, <1>8
  <2>. QED
    BY <1>4, <1>6, <2>1, <2>2, <2>3, QueueStays
<1>. QED
  BY <1>7, <1>8

LEMMA NextPends ==
  ASSUME Unslashed, IInv, IInv', DepositsInUse, PendingMatchesQueue, [NDCNext]_ndVars
  PROVE  PendingMatchesQueue'
<1>. DEFINE Queued == <<withdrawals, withdrawalRequests, pendingInternalShareWithdrawals>>
<1>1. CASE UNCHANGED Queued
  BY <1>1, UntouchedPends
<1>2. StrategyUpdate \/ UNCHANGED ndVars => UNCHANGED Queued
  BY DEF StrategyUpdate, ndVars, elVars, ndcVars
<1>3. CASE EigenLayerStep
  <2>1. ASSUME NEW r \in Roots, DelayElapses(r)
        PROVE  PendingMatchesQueue'
    BY <1>3, <2>1, DelayPends DEF EigenLayerStep, ndcVars
  <2>2. ASSUME NEW s \in Strategies, Rebase(s)
        PROVE  UNCHANGED Queued
    BY <1>3, <2>2 DEF EigenLayerStep, Rebase, ndcVars
  <2>. QED
    BY <1>1, <1>3, <2>1, <2>2 DEF EigenLayerStep
<1>4. ASSUME NEW n \in NDCs, Fund(n)
      PROVE  UNCHANGED Queued
  BY <1>4 DEF Fund, ReceiveTokens, elVars
<1>5. ASSUME NEW n \in NDCs, StakerCall(n)
      PROVE  PendingMatchesQueue'
  <2>1. Amounts \subseteq Nat
    BY AmountsAssumption DEF AmountsAssumption
  <2>. QED
    BY <1>5, <2>1, RequestPends, ClaimPends DEF StakerCall
<1>6. ASSUME NEW n \in NDCs, OperatorCall(n)
      PROVE  PendingMatchesQueue'
  <2>1. Amounts \subseteq Nat
    BY AmountsAssumption DEF AmountsAssumption
  <2>2. ASSUME NEW assets \in SUBSET Assets, DepositAssetsIntoStrategy(n, assets)
        PROVE  UNCHANGED Queued
    BY <2>2 DEF DepositAssetsIntoStrategy, DepositIntoStrategy
  <2>. QED
    BY <1>1, <1>6, <2>1, <2>2, RequestInternalPends, ClaimInternalPends DEF OperatorCall
<1>7. ASSUME NEW n \in NDCs, ManagerCall(n)
      PROVE  PendingMatchesQueue'
  <2>1. CASE Undelegate(n)
    BY <2>1, UndelegatePends
  <2>2. CASE ~Undelegate(n)
    BY <1>1, <1>7, <2>2 DEF ManagerCall, TransferBackToLRTDepositPool, NDCDelegateTo, DelegateTo,
       NDCPause, NDCUnpause, elVars, ndcVars
  <2>. QED
    BY <2>1, <2>2
<1>. QED
  BY <1>1, <1>2, <1>3, <1>4, <1>5, <1>6, <1>7 DEF NDCNext

-----------------------------------------------------------------------------
(* Both counters together are inductive: which strategies hold deposits,   *)
(* and what waits in the queue.                                            *)

LEMMA InitCounted ==
  ASSUME NDCInit
  PROVE  RatesOK /\ DepositsInUse
BY DEF NDCInit, ELInit, RatesOK, DepositsInUse

LEMMA InitPends ==
  ASSUME NDCInit
  PROVE  PendingMatchesQueue
<1>. SUFFICES ASSUME NEW n \in NDCs, NEW s \in Strategies
              PROVE  Pends(n, s)
  BY DEF PendingMatchesQueue, Pends
<1>1. InternalQueue(n, s) = {}
  BY DEF InternalQueue, NDCInit, ELInit, Pending, NoWithdrawal
<1>2. pendingInternalShareWithdrawals[n][s] = 0
  BY DEF NDCInit
<1>. QED
  BY <1>1, <1>2, SumEmpty DEF Pends

\* The strategies in use are known whatever the operators do.
LEMMA AlwaysInUse ==
  ASSUME RatesRise
  PROVE  AnyOperatorSpec => [](IInv /\ RatesOK /\ DepositsInUse)
<1>1. NDCInit => IInv /\ RatesOK /\ DepositsInUse
  BY InitIInv, InitCounted
<1>2. IInv /\ RatesOK /\ DepositsInUse /\ [AnyOperatorNext]_ndVars
        => (IInv /\ RatesOK /\ DepositsInUse)'
  BY NextIInv, RatesStayOK, NextInUse DEF IInv, NDCTypeOK
<1>. QED
  BY <1>1, <1>2, PTL DEF AnyOperatorSpec

\* pendingInternalShareWithdrawals is what waits in EigenLayer's queue for the
\* deposit pool, summed: no request, undelegation or claim is counted twice or
\* missed, whoever shares the queue, as long as EigenLayer pays what was queued.
THEOREM PendingSharesAreTheQueue ==
  ASSUME Unslashed, RatesRise
  PROVE  NDCSpec => []PendingMatchesQueue
<1>. DEFINE Inv == IInv /\ RatesOK /\ DepositsInUse /\ PendingMatchesQueue
<1>1. NDCInit => Inv
  BY InitIInv, InitCounted, InitPends
<1>2. Inv /\ [NDCNext]_ndVars => Inv'
  <2>1. [NDCNext]_ndVars => [AnyOperatorNext]_ndVars
    BY DEF AnyOperatorNext
  <2>. QED
    BY <2>1, NextIInv, RatesStayOK, NextInUse, NextPends DEF IInv, NDCTypeOK
<1>. QED
  BY <1>1, <1>2, PTL DEF NDCSpec

\* One term of a sum of shares is at most the sum.
LEMMA QueueCoversClaims ==
  NDCTypeOK /\ PendingMatchesQueue => InternalClaimsSucceed
<1>. SUFFICES ASSUME NDCTypeOK, PendingMatchesQueue, NEW r \in Roots, Pending(r),
                     withdrawalRequests[r.ndc][r] = NoStaker
              PROVE  withdrawals[r].scaledShares <= pendingInternalShareWithdrawals[r.ndc][r.strategy]
  BY DEF InternalClaimsSucceed
<1>. DEFINE Q == InternalQueue(r.ndc, r.strategy)
<1>1. r.ndc \in NDCs /\ r.strategy \in Strategies
  BY DEF Roots
<1>2. r \in Q /\ IsFiniteSet(Q) /\ Q \subseteq Roots
  BY <1>1, QueueFinite DEF InternalQueue
<1>3. \A q \in Roots : ScaledShares[q] = withdrawals[q].scaledShares /\ ScaledShares[q] \in Nat
  BY ScaledSharesType DEF NDCTypeOK
<1>4. ScaledShares[r] <= SumFunctionOnSet(ScaledShares, Q)
  <2>. HIDE DEF Q
  <2>. QED
    BY <1>2, <1>3, SumNat
<1>. QED
  BY <1>1, <1>3, <1>4 DEF PendingMatchesQueue

\* The checked subtraction of claimInternalWithdrawal never reverts: whatever was
\* queued for the deposit pool, in any order with the stakers' withdrawals, can be
\* claimed by the operator once its delay has passed.
THEOREM NoInternalClaimIsStuck ==
  ASSUME Unslashed, RatesRise
  PROVE  NDCSpec => []InternalClaimsSucceed
<1>1. NDCInit => IInv
  BY InitIInv
<1>2. IInv /\ [NDCNext]_ndVars => IInv'
  BY NextIInv DEF AnyOperatorNext
<1>3. IInv /\ PendingMatchesQueue => InternalClaimsSucceed
  BY QueueCoversClaims DEF IInv
<1>. QED
  BY <1>1, <1>2, <1>3, PendingSharesAreTheQueue, PTL DEF NDCSpec

-----------------------------------------------------------------------------
(* Changing strategies *)

\* No shares, no worth.
LEMMA NoSharesNoWorth ==
  ASSUME NDCTypeOK, NEW n \in NDCs, NEW s \in Strategies,
         depositShares[n][s] = 0, pendingInternalShareWithdrawals[n][s] = 0
  PROVE  SharesToUnderlying(s, depositShares[n][s] + pendingInternalShareWithdrawals[n][s]) = 0
<1>1. /\ rate[s] \in Nat \ {0} /\ RateUnit \in Nat /\ RateUnit > 0
      /\ depositShares[n][s] + pendingInternalShareWithdrawals[n][s] = 0
  BY DEF NDCTypeOK, ELTypeOK
<1>2. 0 * rate[s] = 0
  BY <1>1
<1>. QED
  BY <1>1, <1>2 DEF SharesToUnderlying

LEMMA UpdateKeepsValue ==
  ASSUME NDCTypeOK, RatesOK, DepositsInUse, StrategyUpdate,
         NEW n \in NDCs, NEW a \in supportedAssets, PendsNothing(n)
  PROVE  GetAssetBalance(n, a)' = GetAssetBalance(n, a)
<1>1. PICK t \in Strategies : UpdateAssetStrategy(Underlying[t], t, NDCs)
  BY DEF StrategyUpdate
<1>. DEFINE asset == Underlying[t]
<1>2. /\ asset \in Assets /\ a \in Assets /\ UNCHANGED <<elVars, ndcVars>>
      /\ assetStrategy' = [assetStrategy EXCEPT ![asset] = t]
      /\ assetStrategy \in [Assets -> Strategies \cup {NoStrategy}]
      /\ assetStrategy[asset] # NoStrategy =>
           \A m \in NDCs : UserUnderlyingView(assetStrategy[asset], m) = 0
      /\ assetStrategy[asset] # t
  BY <1>1 DEF UpdateAssetStrategy, NDCTypeOK, ConfigTypeOK, StrategyUpdate
<1>3. CASE a # asset
  <2>1. assetStrategy'[a] = assetStrategy[a]
    BY <1>2, <1>3
  <2>. QED
    BY <1>2, <2>1 DEF GetAssetBalance, NDCAssets, EigenAssets, SharesToUnderlying, elVars, ndcVars
<1>4. CASE a = asset
  <2>1. EigenAssets(n, a) = 0
    <3>1. CASE a = WETH \/ assetStrategy[a] = NoStrategy
      BY <3>1 DEF EigenAssets
    <3>2. CASE a # WETH /\ assetStrategy[a] # NoStrategy
      <4>. DEFINE s == assetStrategy[a]
      <4>1. s \in Strategies /\ UserUnderlyingView(s, n) = 0
        BY <1>2, <1>4, <3>2
      <4>2. depositShares[n][s] = 0 /\ pendingInternalShareWithdrawals[n][s] = 0
        BY <4>1, WorthNothing DEF PendsNothing
      <4>3. SharesToUnderlying(s, depositShares[n][s] + pendingInternalShareWithdrawals[n][s]) = 0
        BY <4>1, <4>2, NoSharesNoWorth
      <4>. QED
        BY <3>2, <4>3 DEF EigenAssets
    <3>. QED
      BY <3>1, <3>2
  <2>2. EigenAssets(n, a)' = 0
    <3>1. depositShares[n][t] = 0 /\ pendingInternalShareWithdrawals[n][t] = 0
      BY <1>2 DEF DepositsInUse, PendsNothing
    <3>2. SharesToUnderlying(t, depositShares[n][t] + pendingInternalShareWithdrawals[n][t]) = 0
      BY <3>1, NoSharesNoWorth
    <3>3. assetStrategy'[a] = t
      BY <1>2, <1>4
    <3>. QED
      BY <1>2, <3>2, <3>3 DEF EigenAssets, SharesToUnderlying, elVars, ndcVars
  <2>. QED
    BY <1>2, <2>1, <2>2 DEF GetAssetBalance, NDCAssets, ndcVars
<1>. QED
  BY <1>3, <1>4

\* No other call touches the asset strategies.
LEMMA StrategiesStay ==
  ASSUME [AnyOperatorNext]_ndVars, ~StrategyUpdate
  PROVE  UNCHANGED assetStrategy
<1>1. EigenLayerStep \/ UNCHANGED ndVars => UNCHANGED assetStrategy
  BY DEF EigenLayerStep, ndVars, configVars
<1>2. ASSUME NEW n \in NDCs, Fund(n) \/ StakerCall(n)
      PROVE  UNCHANGED assetStrategy
  BY <1>2 DEF Fund, ReceiveTokens, StakerCall, NDCRequestWithdrawal, NDCClaimWithdrawal, configVars
<1>3. ASSUME NEW n \in NDCs, OperatorCall(n) \/ OperatorUndelegates(n)
      PROVE  UNCHANGED assetStrategy
  BY <1>3 DEF OperatorCall, DepositAssetsIntoStrategy, RequestInternalWithdrawal,
     ClaimInternalWithdrawal, OperatorUndelegates, configVars
<1>4. ASSUME NEW n \in NDCs, ManagerCall(n)
      PROVE  UNCHANGED assetStrategy
  BY <1>4 DEF ManagerCall, TransferBackToLRTDepositPool, NDCDelegateTo, Undelegate, NDCPause,
     NDCUnpause, configVars
<1>. QED
  BY <1>1, <1>2, <1>3, <1>4 DEF AnyOperatorNext, NDCNext

\* A new strategy for an asset, or an old one used again, moves the worth of no
\* NodeDelegator that waits for no internal withdrawal: the old strategy holds
\* nothing, and so does every strategy that is not in use.  It needs that a share
\* is worth at least one unit of its token, as updateAssetStrategy asks what the
\* shares are worth and not how many there are.
THEOREM NewStrategiesMoveNoValue ==
  ASSUME RatesRise
  PROVE  NDCSpec => StrategyChangeKeepsValue
<1>. DEFINE Kept == assetStrategy' # assetStrategy =>
              \A n \in NDCs, a \in supportedAssets :
                PendsNothing(n) => GetAssetBalance(n, a)' = GetAssetBalance(n, a)
            Inv == IInv /\ RatesOK /\ DepositsInUse
<1>1. Inv /\ [AnyOperatorNext]_ndVars => Kept
  BY StrategiesStay, UpdateKeepsValue DEF IInv
<1>2. NDCInit => Inv
  BY InitIInv, InitCounted
<1>3. Inv /\ [AnyOperatorNext]_ndVars => Inv'
  BY NextIInv, RatesStayOK, NextInUse DEF IInv, NDCTypeOK
<1>4. [NDCNext]_ndVars => [AnyOperatorNext]_ndVars
  BY DEF AnyOperatorNext
<1>. QED
  BY <1>1, <1>2, <1>3, <1>4, PTL DEF NDCSpec, StrategyChangeKeepsValue
=============================================================================
