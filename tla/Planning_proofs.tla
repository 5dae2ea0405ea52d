-------------------------- MODULE Planning_proofs ---------------------------
(***************************************************************************)
(* Lemmas and theorems about plans: sums over finite sets, selections of a *)
(* list, the splitting of orders, and the attribution of broker orders to  *)
(* the intents of a plan.                                                  *)
(***************************************************************************)
EXTENDS OrderPlanning, ResultAssignment, FiniteSetTheorems,
        WellFoundedInduction, TLAPS

-----------------------------------------------------------------------------
(***************************************************************************)
(* Sums of integer functions over finite sets: what SumFunctionOnSet of    *)
(* the community modules computes for every finite set, proved from its    *)
(* definition.  Quantities sent, filled and attributed are such sums.      *)
(*                                                                         *)
(* Induction is used in its first-order form: a set of naturals, or of     *)
(* finite sets, that is not empty has a least member.                      *)
(***************************************************************************)

\* A set of naturals has a least member.
LEMMA LeastNat ==
    ASSUME NEW T \in SUBSET Nat, T # {}
    PROVE  \E x \in T : \A y \in T : x <= y
<1>1. PICK x \in T : \A y \in T : ~(<<y, x>> \in OpToRel(<, Nat))
  BY NatLessThanWellFounded, WFMin
<1>2. \A y \in T : <<y, x>> \in OpToRel(<, Nat) <=> y < x
  BY DEF OpToRel
<1>3. \A y \in T : x <= y
  <2> TAKE y \in T
  <2>1. ~(y < x)
    BY <1>1, <1>2
  <2>2. QED
    BY <2>1
<1>4. QED
  BY <1>3

\* What holds of 0 and passes from a natural to the next holds of all.
LEMMA NatSetInduction ==
    ASSUME NEW G, 0 \in G, \A n \in Nat : n \in G => n + 1 \in G
    PROVE  Nat \subseteq G
<1> SUFFICES ASSUME Nat \ G # {} PROVE FALSE
  OBVIOUS
<1>1. PICK n \in Nat \ G : \A m \in Nat \ G : n <= m
  BY LeastNat
<1>2. n # 0 /\ n - 1 \in Nat /\ n - 1 \in G
  BY <1>1
<1>3. (n - 1) + 1 \in G
  BY <1>2
<1>4. QED
  BY <1>3

\* A set of subsets of a finite set has a smallest member.
LEMMA SmallestSet ==
    ASSUME NEW S, IsFiniteSet(S), NEW B \in SUBSET (SUBSET S), B # {}
    PROVE  \E T \in B : \A U \in B : Cardinality(T) <= Cardinality(U)
<1> DEFINE Sizes == {Cardinality(T) : T \in B}
<1>1. \A T \in B : Cardinality(T) \in Nat
  BY FS_Subset, FS_CardinalityType
<1>2. Sizes \in SUBSET Nat /\ Sizes # {}
  BY <1>1
<1>3. PICK n \in Sizes : \A m \in Sizes : n <= m
  <2> HIDE DEF Sizes
  <2>1. QED
    BY <1>2, LeastNat
<1>4. QED
  BY <1>3

LEMMA SubsetSize ==
    ASSUME NEW S, IsFiniteSet(S), NEW T \in SUBSET S
    PROVE  /\ IsFiniteSet(T) /\ Cardinality(T) \in Nat
           /\ \A x \in T : IsFiniteSet(T \ {x}) /\ Cardinality(T \ {x}) = Cardinality(T) - 1
           /\ T = {} <=> Cardinality(T) = 0
<1>1. IsFiniteSet(T) /\ Cardinality(T) \in Nat
  BY FS_Subset, FS_CardinalityType
<1>2. QED
  BY <1>1, FS_RemoveElement, FS_EmptySet

-----------------------------------------------------------------------------
(***************************************************************************)
(* The recursion behind SumFunctionOnSet has a solution, and only one.     *)
(***************************************************************************)
Pick(s) == CHOOSE x \in s : TRUE
SumBody(f, g, s) == IF s = {} THEN 0 ELSE f[Pick(s)] + g[s \ {Pick(s)}]
Sums(f, S, g) == g = [s \in SUBSET S |-> SumBody(f, g, s)]

LEMMA PickInSet == \A s : s # {} => Pick(s) \in s
BY DEF Pick

LEMMA SumsExist ==
    ASSUME NEW f, NEW S, IsFiniteSet(S)
    PROVE  \E g : Sums(f, S, g)
<1> DEFINE Small(n) == {s \in SUBSET S : Cardinality(s) <= n}
           G == {n \in Nat : \E g : g = [s \in Small(n) |-> SumBody(f, g, s)]}
<1>1. 0 \in G
  <2>1. Small(0) = {{}}
    BY SubsetSize, FS_EmptySet
  <2> DEFINE g == [s \in Small(0) |-> 0]
  <2>2. g = [s \in Small(0) |-> SumBody(f, g, s)]
    BY <2>1 DEF SumBody
  <2> HIDE DEF g, Small
  <2>3. QED
    BY <2>2
<1>2. ASSUME NEW n \in Nat, n \in G PROVE n + 1 \in G
  <2>1. PICK g : g = [s \in Small(n) |-> SumBody(f, g, s)]
    BY <1>2
  <2> DEFINE h == [s \in Small(n + 1) |->
                      IF s \in Small(n) THEN g[s] ELSE SumBody(f, g, s)]
  <2>2. ASSUME NEW s \in Small(n + 1) PROVE h[s] = SumBody(f, h, s)
    <3>1. CASE s = {}
      <4>1. s \in Small(n)
        BY <3>1, FS_EmptySet
      <4>2. QED
        BY <2>1, <3>1, <4>1 DEF SumBody
    <3>2. CASE s # {}
      <4>0. Pick(s) \in s /\ Pick(s) \in S
        BY <3>2, PickInSet
      <4>1. /\ Cardinality(s) \in Nat
            /\ Cardinality(s \ {Pick(s)}) = Cardinality(s) - 1
        BY <4>0, SubsetSize
      <4>2. s \ {Pick(s)} \in Small(n) /\ s \ {Pick(s)} \in Small(n + 1)
        BY <4>1
      <4>3. h[s \ {Pick(s)}] = g[s \ {Pick(s)}]
        BY <4>2
      <4>4. h[s] = SumBody(f, g, s)
        <5>1. CASE s \in Small(n)
          <6> HIDE DEF Small
          <6>1. QED
            BY <2>1, <5>1
        <5>2. CASE s \notin Small(n)
          <6> HIDE DEF Small
          <6>1. QED
            BY <5>2
        <5>3. QED
          BY <5>1, <5>2
      <4>5. QED
        BY <3>2, <4>3, <4>4 DEF SumBody
    <3>3. QED
      BY <3>1, <3>2
  <2>3. h = [s \in Small(n + 1) |-> SumBody(f, h, s)]
    <3>1. h = [s \in Small(n + 1) |-> h[s]]
      BY DEF h
    <3> HIDE DEF h
    <3>2. QED
      BY <2>2, <3>1
  <2>4. QED
    <3> HIDE DEF h, Small
    <3>1. QED
      BY <2>3
<1>3. Cardinality(S) \in G /\ Cardinality(S) \in Nat
  <2>1. Nat \subseteq G
    <3> HIDE DEF G
    <3>1. QED
      BY <1>1, <1>2, NatSetInduction
  <2>2. QED
    BY <2>1, FS_CardinalityType
<1>4. Small(Cardinality(S)) = SUBSET S
  BY FS_Subset, FS_CardinalityType
<1>5. QED
  BY <1>3, <1>4 DEF Sums

LEMMA SumsAgree ==
    ASSUME NEW f, NEW S, IsFiniteSet(S), NEW g, Sums(f, S, g),
           NEW T \in SUBSET S, NEW h, Sums(f, T, h)
    PROVE  \A s \in SUBSET T : g[s] = h[s]
<1> DEFINE B == {s \in SUBSET T : g[s] # h[s]}
<1> SUFFICES ASSUME B # {} PROVE FALSE
  OBVIOUS
<1>1. IsFiniteSet(T)
  BY FS_Subset
<1>2. PICK s \in B : \A u \in B : Cardinality(s) <= Cardinality(u)
  BY <1>1, SmallestSet
<1>3. /\ g[s] = SumBody(f, g, s)
      /\ h[s] = SumBody(f, h, s)
  BY DEF Sums
<1>4. s # {}
  BY <1>3 DEF SumBody
<1>5. Pick(s) \in s
  BY <1>4, PickInSet
<1>6. s \ {Pick(s)} \notin B
  <2>1. /\ Cardinality(s) \in Nat
        /\ Cardinality(s \ {Pick(s)}) = Cardinality(s) - 1
    BY <1>1, <1>5, SubsetSize
  <2>2. QED
    BY <1>2, <2>1
<1>7. g[s \ {Pick(s)}] = h[s \ {Pick(s)}]
  BY <1>6
<1>8. QED
  BY <1>3, <1>4, <1>7 DEF SumBody

LEMMA SumIsValue ==
    ASSUME NEW f, NEW S, IsFiniteSet(S)
    PROVE  \E g : Sums(f, S, g) /\ SumFunctionOnSet(f, S) = g[S]
<1> DEFINE g == CHOOSE h : Sums(f, S, h)
<1>1. SumFunctionOnSet(f, S) = g[S]
  BY DEF SumFunctionOnSet, FoldFunctionOnSet, MapThenFoldSet, Sums, SumBody, Pick
<1>2. Sums(f, S, g)
  BY SumsExist
<1>3. QED
  BY <1>1, <1>2

LEMMA SumEmpty == \A f : SumFunctionOnSet(f, {}) = 0
<1> TAKE f
<1>1. PICK g : Sums(f, {}, g) /\ SumFunctionOnSet(f, {}) = g[{}]
  BY SumIsValue, FS_EmptySet
<1>2. g[{}] = SumBody(f, g, {})
  BY <1>1 DEF Sums
<1>3. QED
  BY <1>1, <1>2 DEF SumBody

LEMMA SumPick ==
    ASSUME NEW f, NEW S, IsFiniteSet(S), S # {}
    PROVE  SumFunctionOnSet(f, S)
               = f[Pick(S)] + SumFunctionOnSet(f, S \ {Pick(S)})
<1> DEFINE R == S \ {Pick(S)}
<1>0. IsFiniteSet(R) /\ R \in SUBSET S
  BY FS_RemoveElement
<1>1. PICK g : Sums(f, S, g) /\ SumFunctionOnSet(f, S) = g[S]
  BY SumIsValue
<1>2. PICK h : Sums(f, R, h) /\ SumFunctionOnSet(f, R) = h[R]
  BY <1>0, SumIsValue
<1>3. g[R] = h[R]
  <2>1. \A s \in SUBSET R : g[s] = h[s]
    BY <1>0, <1>1, <1>2, SumsAgree
  <2>2. QED
    BY <2>1
<1>4. g[S] = SumBody(f, g, S)
  BY <1>1 DEF Sums
<1>5. QED
  BY <1>1, <1>2, <1>3, <1>4 DEF SumBody

-----------------------------------------------------------------------------
(***************************************************************************)
(* Sums of integers: order does not matter.                                *)
(***************************************************************************)
LEMMA SumInt ==
    ASSUME NEW f, NEW S, IsFiniteSet(S), \A x \in S : f[x] \in Int
    PROVE  SumFunctionOnSet(f, S) \in Int
<1> DEFINE B == {T \in SUBSET S : SumFunctionOnSet(f, T) \notin Int}
<1> SUFFICES ASSUME B # {} PROVE FALSE
  OBVIOUS
<1>1. PICK T \in B : \A U \in B : Cardinality(T) <= Cardinality(U)
  BY SmallestSet
<1>2. T # {} /\ IsFiniteSet(T)
  <2>1. SumFunctionOnSet(f, T) \notin Int /\ T \in SUBSET S
    OBVIOUS
  <2>2. SumFunctionOnSet(f, {}) = 0
    BY SumEmpty
  <2>3. T # {}
    <3>1. T = {} => SumFunctionOnSet(f, T) = SumFunctionOnSet(f, {})
      OBVIOUS
    <3>2. QED
      BY <2>1, <2>2, <3>1
  <2>4. IsFiniteSet(T)
    BY <2>1, FS_Subset
  <2>5. QED
    BY <2>3, <2>4
<1>3. Pick(T) \in T /\ Pick(T) \in S
  BY <1>2, PickInSet
<1>4. T \ {Pick(T)} \in SUBSET S /\ T \ {Pick(T)} \notin B
  <2>1. /\ Cardinality(T) \in Nat
        /\ Cardinality(T \ {Pick(T)}) = Cardinality(T) - 1
    BY <1>3, SubsetSize
  <2>2. QED
    BY <1>1, <2>1
<1>5. SumFunctionOnSet(f, T) = f[Pick(T)] + SumFunctionOnSet(f, T \ {Pick(T)})
  BY <1>2, SumPick
<1>6. f[Pick(T)] \in Int /\ SumFunctionOnSet(f, T \ {Pick(T)}) \in Int
  BY <1>3, <1>4
<1>7. QED
  BY <1>5, <1>6

\* Any member can be summed first.
LEMMA SumRemove ==
    ASSUME NEW f, NEW S, IsFiniteSet(S), \A x \in S : f[x] \in Int, NEW e \in S
    PROVE  SumFunctionOnSet(f, S) = f[e] + SumFunctionOnSet(f, S \ {e})
<1> DEFINE Holds(T) == \A x \in T : SumFunctionOnSet(f, T)
                                        = f[x] + SumFunctionOnSet(f, T \ {x})
           B == {T \in SUBSET S : ~Holds(T)}
<1> SUFFICES ASSUME B # {} PROVE FALSE
  BY DEF B
<1>1. PICK T \in B : \A U \in B : Cardinality(T) <= Cardinality(U)
  <2> HIDE DEF Holds
  <2>1. QED
    BY SmallestSet
<1>2. PICK x \in T : SumFunctionOnSet(f, T) # f[x] + SumFunctionOnSet(f, T \ {x})
  OBVIOUS
<1> DEFINE c == Pick(T)
<1>3. /\ c \in T /\ c \in S /\ x \in S /\ T \in SUBSET S
      /\ SumFunctionOnSet(f, T) = f[c] + SumFunctionOnSet(f, T \ {c})
      /\ IsFiniteSet(T)
  BY <1>2, PickInSet, SumPick, SubsetSize
<1>4. \A y \in T : T \ {y} \in SUBSET S /\ T \ {y} \notin B
  <2>1. \A y \in T : /\ Cardinality(T) \in Nat
                     /\ Cardinality(T \ {y}) = Cardinality(T) - 1
    BY SubsetSize
  <2>2. QED
    BY <1>1, <2>1
<1> HIDE DEF c
<1>5. c # x
  BY <1>2, <1>3
<1>6. /\ SumFunctionOnSet(f, T \ {c}) = f[x] + SumFunctionOnSet(f, (T \ {c}) \ {x})
      /\ SumFunctionOnSet(f, T \ {x}) = f[c] + SumFunctionOnSet(f, (T \ {x}) \ {c})
  BY <1>2, <1>3, <1>4, <1>5
<1>7. (T \ {c}) \ {x} = (T \ {x}) \ {c} /\ IsFiniteSet((T \ {c}) \ {x})
      /\ \A y \in (T \ {c}) \ {x} : f[y] \in Int
  <2>1. (T \ {c}) \ {x} \in SUBSET S
    BY <1>3
  <2>2. IsFiniteSet((T \ {c}) \ {x})
    BY <2>1, SubsetSize
  <2>3. QED
    BY <2>1, <2>2
<1>8. PICK rest \in Int : rest = SumFunctionOnSet(f, (T \ {c}) \ {x})
  BY <1>7, SumInt
<1>9. /\ SumFunctionOnSet(f, T \ {c}) = f[x] + rest
      /\ SumFunctionOnSet(f, T \ {x}) = f[c] + rest
  BY <1>6, <1>7, <1>8
<1>10. f[c] \in Int /\ f[x] \in Int
  BY <1>3
<1>11. f[c] + (f[x] + rest) = f[x] + (f[c] + rest)
  BY <1>10
<1>12. QED
  BY <1>2, <1>3, <1>9, <1>11

LEMMA SumInsert ==
    ASSUME NEW f, NEW S, IsFiniteSet(S), NEW e, e \notin S,
           \A x \in S \cup {e} : f[x] \in Int
    PROVE  SumFunctionOnSet(f, S \cup {e}) = f[e] + SumFunctionOnSet(f, S)
<1>1. IsFiniteSet(S \cup {e}) /\ (S \cup {e}) \ {e} = S
  BY FS_AddElement
<1>2. QED
  BY <1>1, SumRemove

LEMMA SumSingleton ==
    ASSUME NEW f, NEW e, f[e] \in Int
    PROVE  SumFunctionOnSet(f, {e}) = f[e]
<1>1. SumFunctionOnSet(f, {} \cup {e}) = f[e] + SumFunctionOnSet(f, {})
  BY SumInsert, FS_EmptySet
<1>2. QED
  BY <1>1, SumEmpty

-----------------------------------------------------------------------------
(***************************************************************************)
(* Comparing sums.                                                         *)
(***************************************************************************)
\* A property of all sums over subsets that holds of the empty set and
\* survives one element more; the property is given as the set of the sets
\* that have it.
LEMMA FiniteSetInduction ==
    ASSUME NEW S, IsFiniteSet(S), NEW G, {} \in G,
           \A T \in SUBSET S : T \in G => \A x \in S \ T : T \cup {x} \in G
    PROVE  S \in G
<1> DEFINE B == {T \in SUBSET S : T \notin G}
<1> SUFFICES ASSUME B # {} PROVE FALSE
  BY DEF B
<1>1. PICK T \in B : \A U \in B : Cardinality(T) <= Cardinality(U)
  BY SmallestSet
<1>2. PICK x \in T : TRUE
  OBVIOUS
<1>3. T \ {x} \in SUBSET S /\ T \ {x} \notin B
  <2>1. /\ Cardinality(T) \in Nat
        /\ Cardinality(T \ {x}) = Cardinality(T) - 1
    BY <1>2, SubsetSize
  <2>2. QED
    BY <1>1, <2>1
<1>4. (T \ {x}) \cup {x} \in G
  BY <1>2, <1>3
<1>5. (T \ {x}) \cup {x} = T
  BY <1>2
<1>6. QED
  BY <1>4, <1>5

\* Only the values on the set count.
LEMMA SumSame ==
    ASSUME NEW f, NEW g, NEW S, IsFiniteSet(S),
           \A x \in S : f[x] \in Int /\ f[x] = g[x]
    PROVE  SumFunctionOnSet(f, S) = SumFunctionOnSet(g, S)
<1> DEFINE G == {T \in SUBSET S : SumFunctionOnSet(f, T) = SumFunctionOnSet(g, T)}
<1>1. {} \in G
  BY SumEmpty
<1>2. ASSUME NEW T \in SUBSET S, T \in G, NEW x \in S \ T PROVE T \cup {x} \in G
  <2>1. IsFiniteSet(T)
    BY SubsetSize
  <2>2. /\ SumFunctionOnSet(f, T \cup {x}) = f[x] + SumFunctionOnSet(f, T)
        /\ SumFunctionOnSet(g, T \cup {x}) = g[x] + SumFunctionOnSet(g, T)
    BY <2>1, SumInsert
  <2>3. QED
    BY <1>2, <2>2
<1>3. QED
  <2> HIDE DEF G
  <2>1. S \in G
    BY <1>1, <1>2, FiniteSetInduction
  <2>2. QED
    BY <2>1 DEF G

LEMMA SumMonotone ==
    ASSUME NEW f, NEW g, NEW S, IsFiniteSet(S),
           \A x \in S : f[x] \in Int /\ g[x] \in Int /\ f[x] <= g[x]
    PROVE  SumFunctionOnSet(f, S) <= SumFunctionOnSet(g, S)
<1> DEFINE G == {T \in SUBSET S : SumFunctionOnSet(f, T) <= SumFunctionOnSet(g, T)}
<1>1. {} \in G
  BY SumEmpty
<1>2. ASSUME NEW T \in SUBSET S, T \in G, NEW x \in S \ T PROVE T \cup {x} \in G
  <2>1. IsFiniteSet(T)
    BY SubsetSize
  <2>2. /\ SumFunctionOnSet(f, T \cup {x}) = f[x] + SumFunctionOnSet(f, T)
        /\ SumFunctionOnSet(g, T \cup {x}) = g[x] + SumFunctionOnSet(g, T)
        /\ SumFunctionOnSet(f, T) \in Int /\ SumFunctionOnSet(g, T) \in Int
    BY <2>1, SumInsert, SumInt
  <2>3. QED
    BY <1>2, <2>2
<1>3. QED
  <2> HIDE DEF G
  <2>1. S \in G
    BY <1>1, <1>2, FiniteSetInduction
  <2>2. QED
    BY <2>1 DEF G

LEMMA SumNat ==
    ASSUME NEW f, NEW S, IsFiniteSet(S), \A x \in S : f[x] \in Nat
    PROVE  /\ SumFunctionOnSet(f, S) \in Nat
           /\ \A x \in S : f[x] <= SumFunctionOnSet(f, S)
<1> DEFINE G == {T \in SUBSET S :
                    /\ SumFunctionOnSet(f, T) \in Nat
                    /\ \A x \in T : f[x] <= SumFunctionOnSet(f, T)}
<1>1. {} \in G
  BY SumEmpty
<1>2. ASSUME NEW T \in SUBSET S, T \in G, NEW x \in S \ T PROVE T \cup {x} \in G
  <2>1. IsFiniteSet(T)
    BY SubsetSize
  <2>2. SumFunctionOnSet(f, T \cup {x}) = f[x] + SumFunctionOnSet(f, T)
    BY <2>1, SumInsert
  <2>3. \A y \in T \cup {x} : f[y] <= f[x] + SumFunctionOnSet(f, T)
    BY <1>2
  <2>4. QED
    BY <1>2, <2>2, <2>3
<1>3. QED
  <2> HIDE DEF G
  <2>1. S \in G
    BY <1>1, <1>2, FiniteSetInduction
  <2>2. QED
    BY <2>1 DEF G

LEMMA SumZero ==
    ASSUME NEW f, NEW S, IsFiniteSet(S), \A x \in S : f[x] = 0
    PROVE  SumFunctionOnSet(f, S) = 0
<1> DEFINE G == {T \in SUBSET S : SumFunctionOnSet(f, T) = 0}
<1>1. {} \in G
  BY SumEmpty
<1>2. ASSUME NEW T \in SUBSET S, T \in G, NEW x \in S \ T PROVE T \cup {x} \in G
  <2>1. IsFiniteSet(T)
    BY SubsetSize
  <2>2. SumFunctionOnSet(f, T \cup {x}) = f[x] + SumFunctionOnSet(f, T)
    BY <2>1, SumInsert
  <2>3. QED
    BY <1>2, <2>2
<1>3. QED
  <2> HIDE DEF G
  <2>1. S \in G
    BY <1>1, <1>2, FiniteSetInduction
  <2>2. QED
    BY <2>1 DEF G

-----------------------------------------------------------------------------
(***************************************************************************)
(* Splitting and renaming the set.                                         *)
(***************************************************************************)
LEMMA SumUnion ==
    ASSUME NEW f, NEW S, NEW T, IsFiniteSet(S), IsFiniteSet(T), S \cap T = {},
           \A x \in S \cup T : f[x] \in Int
    PROVE  SumFunctionOnSet(f, S \cup T)
               = SumFunctionOnSet(f, S) + SumFunctionOnSet(f, T)
<1> DEFINE G == {U \in SUBSET T : SumFunctionOnSet(f, S \cup U)
                              = SumFunctionOnSet(f, S) + SumFunctionOnSet(f, U)}
<1>0. SumFunctionOnSet(f, S) \in Int
  BY SumInt
<1>1. {} \in G
  <2>1. S \cup {} = S
    OBVIOUS
  <2>2. QED
    BY <1>0, <2>1, SumEmpty
<1>2. ASSUME NEW U \in SUBSET T, U \in G, NEW x \in T \ U PROVE U \cup {x} \in G
  <2>1. IsFiniteSet(U) /\ IsFiniteSet(S \cup U)
    BY SubsetSize, FS_Union
  <2>2. S \cup (U \cup {x}) = (S \cup U) \cup {x} /\ x \notin S \cup U
    OBVIOUS
  <2>3. SumFunctionOnSet(f, (S \cup U) \cup {x}) = f[x] + SumFunctionOnSet(f, S \cup U)
    BY <2>1, <2>2, SumInsert
  <2>4. SumFunctionOnSet(f, U \cup {x}) = f[x] + SumFunctionOnSet(f, U)
    BY <2>1, SumInsert
  <2>5. SumFunctionOnSet(f, U) \in Int /\ f[x] \in Int
    BY <2>1, SumInt
  <2>6. SumFunctionOnSet(f, S \cup U)
            = SumFunctionOnSet(f, S) + SumFunctionOnSet(f, U)
    BY <1>2
  <2>7. SumFunctionOnSet(f, S \cup (U \cup {x}))
            = SumFunctionOnSet(f, S) + SumFunctionOnSet(f, U \cup {x})
    <3>1. SumFunctionOnSet(f, S \cup (U \cup {x}))
              = f[x] + (SumFunctionOnSet(f, S) + SumFunctionOnSet(f, U))
      BY <2>2, <2>3, <2>6
    <3>2. f[x] + (SumFunctionOnSet(f, S) + SumFunctionOnSet(f, U))
              = SumFunctionOnSet(f, S) + (f[x] + SumFunctionOnSet(f, U))
      BY <1>0, <2>5
    <3>3. QED
      BY <2>4, <3>1, <3>2
  <2>8. QED
    BY <2>7
<1>3. QED
  <2> HIDE DEF G
  <2>1. T \in G
    BY <1>1, <1>2, FiniteSetInduction
  <2>2. QED
    BY <2>1 DEF G

\* A part of a sum of naturals is at most the whole, and is the whole only
\* when what it leaves out is zero.
LEMMA SumSubset ==
    ASSUME NEW f, NEW T, IsFiniteSet(T), NEW S \in SUBSET T,
           \A x \in T : f[x] \in Nat
    PROVE  /\ SumFunctionOnSet(f, S) <= SumFunctionOnSet(f, T)
           /\ SumFunctionOnSet(f, S) = SumFunctionOnSet(f, T)
                  => \A x \in T \ S : f[x] = 0
<1>1. IsFiniteSet(S) /\ IsFiniteSet(T \ S)
  BY SubsetSize
<1>2. SumFunctionOnSet(f, S \cup (T \ S))
          = SumFunctionOnSet(f, S) + SumFunctionOnSet(f, T \ S)
  BY <1>1, SumUnion
<1>3. S \cup (T \ S) = T
  OBVIOUS
<1>4. /\ SumFunctionOnSet(f, S) \in Nat
      /\ SumFunctionOnSet(f, T \ S) \in Nat
      /\ \A x \in T \ S : f[x] <= SumFunctionOnSet(f, T \ S)
  BY <1>1, SumNat
<1>5. SumFunctionOnSet(f, T)
          = SumFunctionOnSet(f, S) + SumFunctionOnSet(f, T \ S)
  BY <1>2, <1>3
<1>6. SumFunctionOnSet(f, S) <= SumFunctionOnSet(f, T)
  BY <1>4, <1>5
<1>7. ASSUME SumFunctionOnSet(f, S) = SumFunctionOnSet(f, T), NEW x \in T \ S
      PROVE  f[x] = 0
  <2>1. SumFunctionOnSet(f, T \ S) = 0
    BY <1>4, <1>5, <1>7
  <2>2. QED
    BY <1>4, <2>1
<1>8. QED
  BY <1>6, <1>7

LEMMA SumChange ==
    ASSUME NEW f, NEW g, NEW S, IsFiniteSet(S), NEW e \in S,
           \A x \in S : f[x] \in Int /\ g[x] \in Int,
           \A x \in S \ {e} : f[x] = g[x]
    PROVE  SumFunctionOnSet(g, S) = SumFunctionOnSet(f, S) + (g[e] - f[e])
<1>1. IsFiniteSet(S \ {e})
  BY FS_RemoveElement
<1>2. /\ SumFunctionOnSet(f, S) = f[e] + SumFunctionOnSet(f, S \ {e})
      /\ SumFunctionOnSet(g, S) = g[e] + SumFunctionOnSet(g, S \ {e})
  BY SumRemove
<1>3. SumFunctionOnSet(f, S \ {e}) = SumFunctionOnSet(g, S \ {e})
  BY <1>1, SumSame
<1>4. SumFunctionOnSet(f, S \ {e}) \in Int /\ f[e] \in Int /\ g[e] \in Int
  BY <1>1, SumInt
<1>5. QED
  BY <1>2, <1>3, <1>4

LEMMA SumPlus ==
    ASSUME NEW f, NEW g, NEW h, NEW S, IsFiniteSet(S),
           \A x \in S : f[x] \in Int /\ g[x] \in Int /\ h[x] = f[x] + g[x]
    PROVE  SumFunctionOnSet(h, S) = SumFunctionOnSet(f, S) + SumFunctionOnSet(g, S)
<1> DEFINE G == {T \in SUBSET S : SumFunctionOnSet(h, T)
                              = SumFunctionOnSet(f, T) + SumFunctionOnSet(g, T)}
<1>1. {} \in G
  BY SumEmpty
<1>2. ASSUME NEW T \in SUBSET S, T \in G, NEW x \in S \ T PROVE T \cup {x} \in G
  <2>1. IsFiniteSet(T)
    BY SubsetSize
  <2>2. /\ SumFunctionOnSet(f, T \cup {x}) = f[x] + SumFunctionOnSet(f, T)
        /\ SumFunctionOnSet(g, T \cup {x}) = g[x] + SumFunctionOnSet(g, T)
        /\ SumFunctionOnSet(h, T \cup {x}) = h[x] + SumFunctionOnSet(h, T)
    BY <2>1, SumInsert
  <2>3. SumFunctionOnSet(f, T) \in Int /\ SumFunctionOnSet(g, T) \in Int
        /\ f[x] \in Int /\ g[x] \in Int /\ h[x] = f[x] + g[x]
    BY <2>1, SumInt
  <2>4. SumFunctionOnSet(h, T) = SumFunctionOnSet(f, T) + SumFunctionOnSet(g, T)
    BY <1>2
  <2>5. QED
    BY <2>2, <2>3, <2>4
<1>3. QED
  <2> HIDE DEF G
  <2>1. S \in G
    BY <1>1, <1>2, FiniteSetInduction
  <2>2. QED
    BY <2>1 DEF G

\* Summing over the images of an injective renaming.
LEMMA SumRenamed ==
    ASSUME NEW f, NEW g, NEW S, NEW T, IsFiniteSet(S), NEW m \in [S -> T],
           \A x, y \in S : m[x] = m[y] => x = y,
           \A y \in T : \E x \in S : m[x] = y,
           \A x \in S : f[x] \in Int /\ g[m[x]] = f[x]
    PROVE  SumFunctionOnSet(g, T) = SumFunctionOnSet(f, S)
<1> DEFINE Image(U) == {m[x] : x \in U}
           G == {U \in SUBSET S : /\ IsFiniteSet(Image(U))
                                  /\ SumFunctionOnSet(g, Image(U))
                                         = SumFunctionOnSet(f, U)}
<1>1. {} \in G
  <2>1. Image({}) = {}
    OBVIOUS
  <2>2. QED
    BY <2>1, SumEmpty, FS_EmptySet
<1>2. ASSUME NEW U \in SUBSET S, U \in G, NEW x \in S \ U PROVE U \cup {x} \in G
  <2>1. Image(U \cup {x}) = Image(U) \cup {m[x]} /\ m[x] \notin Image(U)
    OBVIOUS
  <2>2. IsFiniteSet(U) /\ IsFiniteSet(Image(U))
    BY <1>2, SubsetSize
  <2>3. \A y \in Image(U) \cup {m[x]} : g[y] \in Int
    OBVIOUS
  <2> HIDE DEF Image
  <2>4. SumFunctionOnSet(g, Image(U) \cup {m[x]})
            = g[m[x]] + SumFunctionOnSet(g, Image(U))
    BY <2>1, <2>2, <2>3, SumInsert
  <2>5. SumFunctionOnSet(f, U \cup {x}) = f[x] + SumFunctionOnSet(f, U)
    BY <2>2, SumInsert
  <2>6. IsFiniteSet(Image(U) \cup {m[x]})
    BY <2>2, FS_AddElement
  <2>7. SumFunctionOnSet(g, Image(U)) = SumFunctionOnSet(f, U) /\ g[m[x]] = f[x]
    BY <1>2
  <2>8. QED
    BY <2>1, <2>4, <2>5, <2>6, <2>7
<1>3. S \in G
  <2> HIDE DEF G
  <2>1. QED
    BY <1>1, <1>2, FiniteSetInduction
<1>4. Image(S) = T
  OBVIOUS
<1>5. QED
  BY <1>3, <1>4

\* A sum over a part is the sum over the whole with zeros outside the part.
LEMMA SumRestrict ==
    ASSUME NEW f, NEW g, NEW S, IsFiniteSet(S), NEW A \in SUBSET S,
           \A x \in A : f[x] \in Int /\ g[x] = f[x],
           \A x \in S \ A : g[x] = 0
    PROVE  SumFunctionOnSet(g, S) = SumFunctionOnSet(f, A)
<1> DEFINE B == S \ A
<1>1. IsFiniteSet(A) /\ IsFiniteSet(B) /\ A \cap B = {} /\ A \cup B = S
  BY FS_Subset
<1>2. /\ \A x \in B : g[x] = 0
      /\ \A x \in A \cup B : g[x] \in Int
  OBVIOUS
<1> HIDE DEF B
<1>3. SumFunctionOnSet(g, A \cup B) = SumFunctionOnSet(g, A) + SumFunctionOnSet(g, B)
  BY <1>1, <1>2, SumUnion
<1>4. SumFunctionOnSet(g, A) = SumFunctionOnSet(f, A)
  BY <1>1, SumSame
<1>5. SumFunctionOnSet(g, B) = 0
  BY <1>1, <1>2, SumZero
<1>6. PICK n \in Int : n = SumFunctionOnSet(f, A)
  BY <1>1, SumInt
<1>7. SumFunctionOnSet(g, S) = SumFunctionOnSet(g, A \cup B)
  BY <1>1
<1>8. SumFunctionOnSet(g, S) = n
  BY <1>3, <1>4, <1>5, <1>6, <1>7
<1>9. QED
  BY <1>6, <1>8

-----------------------------------------------------------------------------
(***************************************************************************)
(* Sums of sequences.                                                      *)
(***************************************************************************)
LEMMA SeqSumInt ==
    ASSUME NEW v \in Seq(Int)
    PROVE  SumFunction(v) \in Int /\ IsFiniteSet(DOMAIN v)
<1>1. DOMAIN v = 1 .. Len(v) /\ Len(v) \in Nat /\ \A i \in DOMAIN v : v[i] \in Int
  OBVIOUS
<1>2. IsFiniteSet(DOMAIN v)
  BY <1>1, FS_Interval
<1>3. QED
  BY <1>1, <1>2, SumInt DEF SumFunction

LEMMA SeqSumEmpty == SumFunction(<<>>) = 0
BY SumEmpty DEF SumFunction

LEMMA SeqSumConcat ==
    ASSUME NEW v \in Seq(Int), NEW w \in Seq(Int)
    PROVE  SumFunction(v \o w) = SumFunction(v) + SumFunction(w)
<1> DEFINE m == Len(v)
           n == Len(w)
           c == v \o w
           shift == [i \in 1 .. n |-> m + i]
<1>1. /\ m \in Nat /\ n \in Nat /\ DOMAIN v = 1 .. m /\ DOMAIN w = 1 .. n
      /\ DOMAIN c = 1 .. m + n /\ c \in Seq(Int)
      /\ \A i \in 1 .. m : c[i] = v[i]
      /\ \A i \in 1 .. n : c[m + i] = w[i]
      /\ \A i \in 1 .. m + n : c[i] \in Int
      /\ \A i \in 1 .. m : v[i] \in Int
      /\ \A i \in 1 .. n : w[i] \in Int
  OBVIOUS
<1> HIDE DEF m, n, c
<1>2. IsFiniteSet(1 .. m) /\ IsFiniteSet(1 .. n) /\ IsFiniteSet(m + 1 .. m + n)
  BY <1>1, FS_Interval
<1>3. 1 .. m + n = (1 .. m) \cup (m + 1 .. m + n)
      /\ (1 .. m) \cap (m + 1 .. m + n) = {}
  BY <1>1
<1>4. SumFunctionOnSet(c, (1 .. m) \cup (m + 1 .. m + n))
          = SumFunctionOnSet(c, 1 .. m) + SumFunctionOnSet(c, m + 1 .. m + n)
  <2> DEFINE A == 1 .. m
             B == m + 1 .. m + n
  <2>1. \A x \in A \cup B : c[x] \in Int
    BY <1>1, <1>3
  <2>2. IsFiniteSet(A) /\ IsFiniteSet(B) /\ A \cap B = {}
    BY <1>2, <1>3
  <2> HIDE DEF A, B
  <2>3. SumFunctionOnSet(c, A \cup B) = SumFunctionOnSet(c, A) + SumFunctionOnSet(c, B)
    BY <2>1, <2>2, SumUnion
  <2>4. QED
    BY <2>3 DEF A, B
<1>5. SumFunctionOnSet(c, 1 .. m) = SumFunctionOnSet(v, 1 .. m)
  <2>1. \A i \in 1 .. m : c[i] \in Int /\ c[i] = v[i]
    BY <1>1
  <2>2. QED
    BY <1>2, <2>1, SumSame
<1>6. SumFunctionOnSet(c, m + 1 .. m + n) = SumFunctionOnSet(w, 1 .. n)
  <2>1. shift \in [1 .. n -> m + 1 .. m + n]
    BY <1>1
  <2>2. \A i, k \in 1 .. n : shift[i] = shift[k] => i = k
    BY <1>1
  <2>3. \A y \in m + 1 .. m + n : \E x \in 1 .. n : shift[x] = y
    <3> TAKE y \in m + 1 .. m + n
    <3>1. y - m \in 1 .. n /\ shift[y - m] = y
      BY <1>1
    <3>2. QED
      BY <3>1
  <2>4. \A i \in 1 .. n : w[i] \in Int /\ c[shift[i]] = w[i]
    BY <1>1
  <2> DEFINE A == 1 .. n
             B == m + 1 .. m + n
  <2>5. IsFiniteSet(A)
    BY <1>2
  <2> HIDE DEF shift
  <2>6. /\ shift \in [A -> B]
        /\ \A i, k \in A : shift[i] = shift[k] => i = k
        /\ \A y \in B : \E x \in A : shift[x] = y
        /\ \A i \in A : w[i] \in Int /\ c[shift[i]] = w[i]
    BY <2>1, <2>2, <2>3, <2>4
  <2> HIDE DEF A, B
  <2>7. SumFunctionOnSet(c, B) = SumFunctionOnSet(w, A)
    BY <2>5, <2>6, SumRenamed
  <2>8. QED
    BY <2>7 DEF A, B
<1>7. QED
  BY <1>1, <1>3, <1>4, <1>5, <1>6 DEF SumFunction, c

LEMMA SeqSumAppend ==
    ASSUME NEW v \in Seq(Int), NEW x \in Int
    PROVE  SumFunction(Append(v, x)) = SumFunction(v) + x
<1>1. Append(v, x) = v \o <<x>> /\ <<x>> \in Seq(Int)
  OBVIOUS
<1>2. SumFunction(<<x>>) = x
  <2>1. DOMAIN <<x>> = {1} /\ <<x>>[1] = x
    OBVIOUS
  <2>2. SumFunctionOnSet(<<x>>, {1}) = x
    BY <2>1, SumSingleton
  <2>3. QED
    BY <2>1, <2>2 DEF SumFunction
<1>3. QED
  BY <1>1, <1>2, SeqSumConcat

LEMMA SeqSumTail ==
    ASSUME NEW v \in Seq(Int), v # <<>>
    PROVE  SumFunction(v) = Head(v) + SumFunction(Tail(v))
<1>1. v = <<Head(v)>> \o Tail(v) /\ Head(v) \in Int /\ Tail(v) \in Seq(Int)
  OBVIOUS
<1>2. <<Head(v)>> = Append(<<>>, Head(v)) /\ <<>> \in Seq(Int)
  OBVIOUS
<1>3. SumFunction(<<Head(v)>>) = Head(v)
  <2>1. PICK x \in Int : x = Head(v)
    BY <1>1
  <2>2. SumFunction(Append(<<>>, x)) = SumFunction(<<>>) + x
    BY <1>2, SeqSumAppend
  <2>3. QED
    BY <1>2, <2>1, <2>2, SeqSumEmpty
<1>4. <<Head(v)>> \in Seq(Int)
  BY <1>1
<1>5. QED
  BY <1>1, <1>3, <1>4, SeqSumConcat

-----------------------------------------------------------------------------
(***************************************************************************)
(* Sums by classes, and sums that are equal although no part is greater.   *)
(***************************************************************************)
\* What the members of S in class i, as c says, add of q.
ClassOf(S, c, q, i) == [x \in S |-> IF c[x] = i THEN q[x] ELSE 0]
ByClass(S, I, c, q, T) == [i \in I |-> SumFunctionOnSet(ClassOf(S, c, q, i), T)]

\* Summing class by class is summing over all.
LEMMA SumByClass ==
    ASSUME NEW S, IsFiniteSet(S), NEW I, IsFiniteSet(I), NEW c, NEW q,
           \A x \in S : c[x] \in I /\ q[x] \in Int
    PROVE  SumFunctionOnSet(ByClass(S, I, c, q, S), I) = SumFunctionOnSet(q, S)
<1> DEFINE G == {T \in SUBSET S :
                    SumFunctionOnSet(ByClass(S, I, c, q, T), I) = SumFunctionOnSet(q, T)}
<1>1. {} \in G
  <2>1. \A i \in I : ByClass(S, I, c, q, {})[i] = 0
    BY SumEmpty DEF ByClass
  <2>2. SumFunctionOnSet(ByClass(S, I, c, q, {}), I) = 0
    BY <2>1, SumZero
  <2>3. QED
    BY <2>2, SumEmpty
<1>2. ASSUME NEW T \in SUBSET S, T \in G, NEW x \in S \ T PROVE T \cup {x} \in G
  <2>1. IsFiniteSet(T)
    BY SubsetSize
  <2>2. PICK f, g : f = ByClass(S, I, c, q, T) /\ g = ByClass(S, I, c, q, T \cup {x})
    OBVIOUS
  <2>3. ASSUME NEW i \in I
        PROVE  /\ f[i] \in Int /\ g[i] = (IF c[x] = i THEN q[x] ELSE 0) + f[i]
    <3>1. PICK k : k = ClassOf(S, c, q, i)
      OBVIOUS
    <3>2. \A y \in S : k[y] = (IF c[y] = i THEN q[y] ELSE 0) /\ k[y] \in Int
      BY <3>1 DEF ClassOf
    <3>3. SumFunctionOnSet(k, T \cup {x}) = k[x] + SumFunctionOnSet(k, T)
      <4>1. \A y \in T \cup {x} : k[y] \in Int
        BY <3>2
      <4>2. QED
        BY <2>1, <4>1, SumInsert
    <3>4. SumFunctionOnSet(k, T) \in Int
      BY <2>1, <3>2, SumInt
    <3>5. f[i] = SumFunctionOnSet(k, T) /\ g[i] = SumFunctionOnSet(k, T \cup {x})
      BY <2>2, <3>1 DEF ByClass
    <3>6. k[x] = IF c[x] = i THEN q[x] ELSE 0
      BY <3>2
    <3>7. QED
      BY <3>3, <3>4, <3>5, <3>6
  <2>4. PICK e : e = c[x]
    OBVIOUS
  <2>5. e \in I /\ q[x] \in Int
    BY <2>4
  <2>6. /\ \A i \in I : f[i] \in Int /\ g[i] \in Int
        /\ \A i \in I \ {e} : f[i] = g[i]
        /\ g[e] = q[x] + f[e]
    BY <2>3, <2>4, <2>5
  <2>7. SumFunctionOnSet(g, I) = SumFunctionOnSet(f, I) + (g[e] - f[e])
    BY <2>5, <2>6, SumChange
  <2>8. SumFunctionOnSet(q, T \cup {x}) = q[x] + SumFunctionOnSet(q, T)
    <3>1. \A y \in T \cup {x} : q[y] \in Int
      OBVIOUS
    <3>2. QED
      BY <2>1, <3>1, SumInsert
  <2>9. SumFunctionOnSet(f, I) = SumFunctionOnSet(q, T)
    BY <1>2, <2>2
  <2>10. SumFunctionOnSet(q, T) \in Int
    BY <2>1, SumInt
  <2>11. f[e] \in Int
    BY <2>5, <2>6
  <2>12. SumFunctionOnSet(g, I) = SumFunctionOnSet(q, T \cup {x})
    BY <2>5, <2>6, <2>7, <2>8, <2>9, <2>10, <2>11
  <2>13. QED
    BY <2>2, <2>12
<1>3. QED
  <2> HIDE DEF G
  <2>1. S \in G
    BY <1>1, <1>2, FiniteSetInduction
  <2>2. QED
    BY <2>1 DEF G

\* Terms that are no greater and add up to the same are the same.
LEMMA SumEqual ==
    ASSUME NEW f, NEW g, NEW S, IsFiniteSet(S),
           \A x \in S : f[x] \in Int /\ g[x] \in Int /\ f[x] <= g[x],
           SumFunctionOnSet(f, S) = SumFunctionOnSet(g, S)
    PROVE  \A x \in S : f[x] = g[x]
<1>1. PICK h : h = [x \in S |-> g[x] - f[x]]
  OBVIOUS
<1>2. \A x \in S : h[x] \in Nat /\ h[x] \in Int /\ h[x] = g[x] - f[x] /\ g[x] = f[x] + h[x]
  BY <1>1
<1>3. SumFunctionOnSet(g, S) = SumFunctionOnSet(f, S) + SumFunctionOnSet(h, S)
  BY <1>2, SumPlus
<1>4. SumFunctionOnSet(h, S) \in Nat /\ \A x \in S : h[x] <= SumFunctionOnSet(h, S)
  BY <1>2, SumNat
<1>5. SumFunctionOnSet(f, S) \in Int
  BY SumInt
<1>6. SumFunctionOnSet(h, S) = 0
  BY <1>3, <1>4, <1>5
<1>7. QED
  BY <1>2, <1>4, <1>6

-----------------------------------------------------------------------------
(***************************************************************************)
(* The order arithmetic for plans of any length: what selecting entries of *)
(* a list keeps, and what splitting large orders conserves.                *)
(***************************************************************************)

(***************************************************************************)
(* Entries(s, positions): the selected entries, each once, in their order. *)
(***************************************************************************)
EntriesStep(s, positions, u, n) ==
    IF n = 0 THEN <<>>
    ELSE IF n \in positions THEN Append(u[n - 1], s[n]) ELSE u[n - 1]

LEMMA EntriesRecursion ==
    ASSUME NEW s, Len(s) \in Nat, NEW positions
    PROVE  \E u : /\ u = [n \in 0 .. Len(s) |-> EntriesStep(s, positions, u, n)]
                  /\ Entries(s, positions) = u[Len(s)]
<1> DEFINE Sol(N, u) == u = [n \in 0 .. N |-> EntriesStep(s, positions, u, n)]
           G == {N \in Nat : \E u : Sol(N, u)}
<1>1. 0 \in G
  <2> DEFINE u == [n \in 0 .. 0 |-> <<>>]
  <2>1. u = [n \in 0 .. 0 |-> EntriesStep(s, positions, u, n)]
    BY DEF EntriesStep
  <2> HIDE DEF u
  <2>2. QED
    BY <2>1
<1>2. ASSUME NEW N \in Nat, N \in G PROVE N + 1 \in G
  <2>1. PICK u : Sol(N, u)
    BY <1>2
  <2> DEFINE w == [n \in 0 .. N + 1 |->
                      IF n \in 0 .. N THEN u[n] ELSE EntriesStep(s, positions, u, n)]
  <2>2. ASSUME NEW n \in 0 .. N + 1 PROVE w[n] = EntriesStep(s, positions, w, n)
    <3>1. w[n] = EntriesStep(s, positions, u, n)
      BY <2>1
    <3>2. n # 0 => w[n - 1] = u[n - 1]
      OBVIOUS
    <3> HIDE DEF w
    <3>3. QED
      BY <3>1, <3>2 DEF EntriesStep
  <2>3. w = [n \in 0 .. N + 1 |-> w[n]]
    OBVIOUS
  <2> HIDE DEF w
  <2>4. w = [n \in 0 .. N + 1 |-> EntriesStep(s, positions, w, n)]
    BY <2>2, <2>3
  <2>5. QED
    BY <2>4
<1>3. Nat \subseteq G
  <2> HIDE DEF G
  <2>1. QED
    BY <1>1, <1>2, NatSetInduction
<1>4. PICK v : Sol(Len(s), v)
  BY <1>3
<1> DEFINE u == CHOOSE x : Sol(Len(s), x)
<1>5. Sol(Len(s), u)
  BY <1>4
<1>6. Entries(s, positions) = u[Len(s)]
  BY DEF Entries, EntriesStep
<1>7. QED
  BY <1>5, <1>6

\* m lists the positions of s that e selects, from left to right.
Selection(S, s, positions, n, e, m) ==
    /\ e \in Seq(S)
    /\ m \in [DOMAIN e -> positions \cap (1 .. n)]
    /\ \A k \in DOMAIN e : e[k] = s[m[k]]
    /\ \A h, k \in DOMAIN e : h < k => m[h] < m[k]
    /\ \A i \in positions \cap (1 .. n) : \E k \in DOMAIN e : m[k] = i

LEMMA EntriesSelection ==
    ASSUME NEW S, NEW s \in Seq(S), NEW positions
    PROVE  \E m : Selection(S, s, positions, Len(s), Entries(s, positions), m)
<1>0. Len(s) \in Nat /\ \A i \in 1 .. Len(s) : s[i] \in S
  OBVIOUS
<1>1. PICK u : /\ u = [n \in 0 .. Len(s) |-> EntriesStep(s, positions, u, n)]
               /\ Entries(s, positions) = u[Len(s)]
  BY <1>0, EntriesRecursion
<1> DEFINE G == {n \in Nat : n <= Len(s) => \E m : Selection(S, s, positions, n, u[n], m)}
<1>2. 0 \in G
  <2>1. u[0] = <<>>
    BY <1>0, <1>1 DEF EntriesStep
  <2>2. positions \cap (1 .. 0) = {}
    OBVIOUS
  <2>3. <<>> \in Seq(S) /\ DOMAIN <<>> = {} /\ <<>> \in [{} -> {}]
    OBVIOUS
  <2>4. Selection(S, s, positions, 0, <<>>, <<>>)
    BY <2>2, <2>3 DEF Selection
  <2>5. QED
    BY <2>1, <2>4
<1>3. ASSUME NEW n \in Nat, n \in G PROVE n + 1 \in G
  <2> SUFFICES ASSUME n + 1 <= Len(s)
               PROVE  \E m : Selection(S, s, positions, n + 1, u[n + 1], m)
    OBVIOUS
  <2>1. PICK m : Selection(S, s, positions, n, u[n], m)
    BY <1>0, <1>3
  <2>2. u[n + 1] = IF n + 1 \in positions THEN Append(u[n], s[n + 1]) ELSE u[n]
    <3>1. n + 1 \in 0 .. Len(s) /\ n + 1 # 0 /\ (n + 1) - 1 = n
      BY <1>0
    <3>2. u[n + 1] = EntriesStep(s, positions, u, n + 1)
      BY <1>1, <3>1
    <3>3. QED
      BY <3>1, <3>2 DEF EntriesStep
  <2> DEFINE e == u[n]
             P == positions \cap (1 .. n)
             Q == positions \cap (1 .. n + 1)
  <2>3. /\ e \in Seq(S) /\ m \in [DOMAIN e -> P]
        /\ \A k \in DOMAIN e : e[k] = s[m[k]]
        /\ \A h, k \in DOMAIN e : h < k => m[h] < m[k]
        /\ \A i \in P : \E k \in DOMAIN e : m[k] = i
    BY <2>1 DEF Selection
  <2>4. CASE n + 1 \notin positions
    <3>1. Q = P
      BY <2>4
    <3> HIDE DEF P
    <3>2. Selection(S, s, positions, n + 1, e, m)
      BY <2>3, <3>1 DEF Selection
    <3>3. QED
      BY <2>2, <2>4, <3>2
  <2>5. CASE n + 1 \in positions
    <3> DEFINE w == [k \in 1 .. Len(e) + 1 |-> IF k = Len(e) + 1 THEN n + 1 ELSE m[k]]
    <3>1. Q = P \cup {n + 1} /\ s[n + 1] \in S /\ n + 1 \notin P
          /\ \A i \in P : i \in Nat /\ i < n + 1
      BY <1>0, <2>5
    <3> HIDE DEF P, Q, e
    <3>2. Append(e, s[n + 1]) \in Seq(S)
      BY <2>3, <3>1
    <3>3. Len(e) \in Nat /\ DOMAIN e = 1 .. Len(e)
          /\ DOMAIN Append(e, s[n + 1]) = 1 .. Len(e) + 1
      BY <2>3
    <3>4. \A k \in DOMAIN e : m[k] \in P
      BY <2>3
    <3>5. w \in [1 .. Len(e) + 1 -> Q]
      <4>1. ASSUME NEW k \in 1 .. Len(e) + 1
            PROVE  (IF k = Len(e) + 1 THEN n + 1 ELSE m[k]) \in Q
        <5>1. k # Len(e) + 1 => k \in DOMAIN e
          BY <3>3
        <5>2. QED
          BY <3>1, <3>4, <5>1
      <4>2. QED
        BY <4>1
    <3>6. \A k \in 1 .. Len(e) + 1 : Append(e, s[n + 1])[k] = s[w[k]]
      BY <2>3, <3>3
    <3>7. \A h, k \in 1 .. Len(e) + 1 : h < k => w[h] < w[k]
      <4> TAKE h, k \in 1 .. Len(e) + 1
      <4> HAVE h < k
      <4>1. h \in DOMAIN e /\ w[h] = m[h] /\ m[h] \in Nat /\ m[h] < n + 1
        BY <3>1, <3>3, <3>4
      <4>2. CASE k = Len(e) + 1
        BY <3>3, <4>1, <4>2
      <4>3. CASE k # Len(e) + 1
        <5>1. k \in DOMAIN e /\ w[k] = m[k]
          BY <3>3, <4>3
        <5>2. QED
          BY <2>3, <4>1, <5>1
      <4>4. QED
        BY <4>2, <4>3
    <3>8. \A i \in Q : \E k \in 1 .. Len(e) + 1 : w[k] = i
      <4> TAKE i \in Q
      <4>1. CASE i = n + 1
        <5>1. w[Len(e) + 1] = i /\ Len(e) + 1 \in 1 .. Len(e) + 1
          BY <3>3, <4>1
        <5>2. QED
          BY <5>1
      <4>2. CASE i \in P
        <5>1. PICK k \in DOMAIN e : m[k] = i
          BY <2>3, <4>2
        <5>2. k \in 1 .. Len(e) + 1 /\ w[k] = i
          BY <3>3, <5>1
        <5>3. QED
          BY <5>2
      <4>3. QED
        BY <3>1, <4>1, <4>2
    <3> HIDE DEF w
    <3>9. Selection(S, s, positions, n + 1, Append(e, s[n + 1]), w)
      BY <3>2, <3>3, <3>5, <3>6, <3>7, <3>8 DEF Selection, Q
    <3>10. QED
      BY <2>2, <2>5, <3>9 DEF e
  <2>6. QED
    BY <2>4, <2>5
<1>4. Nat \subseteq G
  <2> HIDE DEF G
  <2>1. QED
    BY <1>2, <1>3, NatSetInduction
<1>5. \E m : Selection(S, s, positions, Len(s), u[Len(s)], m)
  BY <1>0, <1>4
<1>6. QED
  BY <1>1, <1>5

\* What of a list's entries is read off the entries alone.
LEMMA EntriesOf ==
    ASSUME NEW S, NEW s \in Seq(S), NEW positions
    PROVE  /\ Entries(s, positions) \in Seq(S)
           /\ \A k \in DOMAIN Entries(s, positions) :
                 \E i \in positions \cap DOMAIN s : Entries(s, positions)[k] = s[i]
           /\ \A i \in positions \cap DOMAIN s :
                 \E k \in DOMAIN Entries(s, positions) : Entries(s, positions)[k] = s[i]
<1>0. DOMAIN s = 1 .. Len(s) /\ Len(s) \in Nat /\ \A i \in 1 .. Len(s) : s[i] \in S
  OBVIOUS
<1> DEFINE e == Entries(s, positions)
           P == positions \cap (1 .. Len(s))
<1>1. PICK m : Selection(S, s, positions, Len(s), e, m)
  BY <1>0, EntriesSelection
<1>2. /\ e \in Seq(S)
      /\ m \in [DOMAIN e -> P]
      /\ \A k \in DOMAIN e : e[k] = s[m[k]]
      /\ \A i \in P : \E k \in DOMAIN e : m[k] = i
  BY <1>1 DEF Selection
<1> HIDE DEF e
<1>5. QED
  BY <1>0, <1>2 DEF e

\* Two entries come from two positions, and their order is kept.
LEMMA EntriesInOrder ==
    ASSUME NEW S, NEW s \in Seq(S), NEW positions,
           NEW h \in DOMAIN Entries(s, positions), NEW k \in DOMAIN Entries(s, positions),
           h < k
    PROVE  \E i, l \in positions \cap DOMAIN s :
               i < l /\ Entries(s, positions)[h] = s[i] /\ Entries(s, positions)[k] = s[l]
<1>0. DOMAIN s = 1 .. Len(s) /\ Len(s) \in Nat
  OBVIOUS
<1>1. PICK m : Selection(S, s, positions, Len(s), Entries(s, positions), m)
  BY EntriesSelection
<1>2. m[h] < m[k] /\ m[h] \in positions \cap DOMAIN s /\ m[k] \in positions \cap DOMAIN s
  BY <1>0, <1>1 DEF Selection
<1>3. QED
  BY <1>1, <1>2 DEF Selection

\* A selection as long as the list is the list.
LEMMA EntriesAll ==
    ASSUME NEW S, NEW s \in Seq(S), NEW positions, Len(Entries(s, positions)) = Len(s)
    PROVE  Entries(s, positions) = s
<1> DEFINE e == Entries(s, positions)
           N == Len(s)
<1>0. DOMAIN s = 1 .. N /\ N \in Nat
  OBVIOUS
<1>1. PICK m : Selection(S, s, positions, N, e, m)
  BY <1>0, EntriesSelection
<1>2. /\ e \in Seq(S) /\ Len(e) = N
      /\ \A k \in 1 .. N : m[k] \in 1 .. N /\ e[k] = s[m[k]]
      /\ \A h, k \in 1 .. N : h < k => m[h] < m[k]
  BY <1>0, <1>1 DEF Selection
<1> HIDE DEF e, N
<1> DEFINE Up == {k \in Nat : k + 1 <= N => m[k + 1] >= k + 1}
           Down == {d \in Nat : d < N => m[N - d] <= N - d}
<1>3. \A k \in 1 .. N : m[k] >= k
  <2>1. 0 \in Up
    BY <1>0, <1>2
  <2>2. \A k \in Nat : k \in Up => k + 1 \in Up
    <3> TAKE k \in Nat
    <3> HAVE k \in Up
    <3>1. CASE k + 2 <= N
      <4>1. k + 1 \in 1 .. N /\ k + 2 \in 1 .. N /\ k + 1 < k + 2
        BY <1>0, <3>1
      <4>2. m[k + 1] < m[k + 2] /\ m[k + 1] >= k + 1 /\ m[k + 1] \in Int /\ m[k + 2] \in Int
        BY <1>2, <4>1
      <4>3. m[k + 2] >= k + 2 /\ (k + 1) + 1 = k + 2
        BY <4>2
      <4>4. QED
        BY <4>3
    <3>2. CASE ~(k + 2 <= N)
      BY <1>0, <3>2
    <3>3. QED
      BY <3>1, <3>2
  <2> HIDE DEF Up
  <2>3. Nat \subseteq Up
    BY <2>1, <2>2, NatSetInduction
  <2>4. \A k \in 1 .. N : k - 1 \in Up /\ (k - 1) + 1 = k
    BY <1>0, <2>3
  <2>5. QED
    <3> TAKE k \in 1 .. N
    <3>1. k - 1 \in Up /\ (k - 1) + 1 = k /\ k <= N
      BY <1>0, <2>4
    <3>2. QED
      BY <3>1 DEF Up
<1>4. \A k \in 1 .. N : m[k] <= k
  <2>1. 0 \in Down
    BY <1>0, <1>2
  <2>2. \A d \in Nat : d \in Down => d + 1 \in Down
    <3> TAKE d \in Nat
    <3> HAVE d \in Down
    <3>1. CASE d + 1 < N
      <4>1. N - d \in 1 .. N /\ N - (d + 1) \in 1 .. N /\ N - (d + 1) < N - d /\ d < N
        BY <1>0, <3>1
      <4>2. m[N - (d + 1)] < m[N - d] /\ m[N - d] <= N - d
            /\ m[N - d] \in Int /\ m[N - (d + 1)] \in Int
        BY <1>2, <4>1
      <4>3. m[N - (d + 1)] <= N - (d + 1)
        BY <1>0, <4>2
      <4>4. QED
        BY <4>3
    <3>2. CASE ~(d + 1 < N)
      BY <1>0, <3>2
    <3>3. QED
      BY <3>1, <3>2
  <2> HIDE DEF Down
  <2>3. Nat \subseteq Down
    BY <2>1, <2>2, NatSetInduction
  <2>4. \A k \in 1 .. N : N - k \in Down /\ N - (N - k) = k /\ N - k < N
    BY <1>0, <2>3
  <2>5. QED
    <3> TAKE k \in 1 .. N
    <3>1. N - k \in Down /\ N - (N - k) = k /\ N - k < N
      BY <2>4
    <3>2. QED
      BY <3>1 DEF Down
<1>5. \A k \in 1 .. N : e[k] = s[k]
  <2> TAKE k \in 1 .. N
  <2>1. m[k] = k /\ e[k] = s[m[k]]
    BY <1>0, <1>2, <1>3, <1>4
  <2>2. QED
    BY <2>1
<1>6. e = s
  BY <1>0, <1>2, <1>5
<1>7. QED
  BY <1>6 DEF e

\* A sum over the entries is the sum over the selected positions.
LEMMA EntriesSum ==
    ASSUME NEW S, NEW s \in Seq(S), NEW positions, NEW v, NEW w,
           DOMAIN v = DOMAIN Entries(s, positions),
           \A i \in positions \cap DOMAIN s : w[i] \in Int,
           \A k \in DOMAIN v : \A i \in positions \cap DOMAIN s :
               Entries(s, positions)[k] = s[i] => v[k] = w[i]
    PROVE  SumFunction(v) = SumFunctionOnSet(w, positions \cap DOMAIN s)
<1>0. DOMAIN s = 1 .. Len(s) /\ Len(s) \in Nat
  OBVIOUS
<1> DEFINE e == Entries(s, positions)
           P == positions \cap DOMAIN s
           D == DOMAIN e
<1>1. PICK m : Selection(S, s, positions, Len(s), e, m)
  BY <1>0, EntriesSelection
<1>2. /\ e \in Seq(S)
      /\ m \in [D -> P]
      /\ \A k \in D : e[k] = s[m[k]]
      /\ \A h, k \in D : h < k => m[h] < m[k]
      /\ \A i \in P : \E k \in D : m[k] = i
  BY <1>0, <1>1 DEF Selection
<1>3. D = 1 .. Len(e) /\ Len(e) \in Nat
  <2> HIDE DEF e
  <2>1. QED
    BY <1>2
<1>4. IsFiniteSet(D)
  <2>1. IsFiniteSet(1 .. Len(e))
    BY <1>3, FS_Interval
  <2>2. QED
    BY <1>3, <2>1
<1>5. \A k \in D : v[k] \in Int /\ w[m[k]] = v[k]
  BY <1>2
<1>6. \A h, k \in D : m[h] = m[k] => h = k
  <2>1. \A k \in D : m[k] \in Int /\ k \in Int
    BY <1>0, <1>2, <1>3
  <2> HIDE DEF D
  <2>2. QED
    BY <1>2, <2>1
<1> HIDE DEF e, D, P
<1>7. SumFunctionOnSet(w, P) = SumFunctionOnSet(v, D)
  BY <1>2, <1>4, <1>5, <1>6, SumRenamed
<1>8. QED
  BY <1>7 DEF SumFunction, D, P, e

-----------------------------------------------------------------------------
(***************************************************************************)
(* What a list of intents asks for of the tickers, sides and purposes in G.*)
(***************************************************************************)
KeyOf(o) == <<o.ticker, o.side, o.purpose>>

Weight(o, G) == IF KeyOf(o) \in G THEN o.qty ELSE 0

Weighted(orders, G) == [i \in DOMAIN orders |-> Weight(orders[i], G)]

QtyOf(orders, G) == SumFunction(Weighted(orders, G))

LEMMA WeightType ==
    ASSUME NEW o, o.qty \in Nat, NEW G
    PROVE  Weight(o, G) \in Nat /\ Weight(o, G) \in Int /\ Weight(o, G) <= o.qty
BY DEF Weight

\* Weights as a sequence of integers.
LEMMA WeightsType ==
    ASSUME NEW S, NEW orders \in Seq(S), \A i \in DOMAIN orders : orders[i].qty \in Nat,
           NEW G
    PROVE  /\ Weighted(orders, G) \in Seq(Int)
           /\ DOMAIN Weighted(orders, G) = DOMAIN orders
           /\ \A i \in DOMAIN orders : /\ Weighted(orders, G)[i] = Weight(orders[i], G)
                                       /\ Weighted(orders, G)[i] \in Nat
           /\ IsFiniteSet(DOMAIN orders)
<1>1. DOMAIN orders = 1 .. Len(orders) /\ Len(orders) \in Nat
  OBVIOUS
<1>2. \A i \in DOMAIN orders : Weight(orders[i], G) \in Nat /\ Weight(orders[i], G) \in Int
  BY WeightType
<1>3. IsFiniteSet(DOMAIN orders)
  BY <1>1, FS_Interval
<1>4. Weighted(orders, G) \in Seq(Int)
  BY <1>1, <1>2 DEF Weighted
<1>5. QED
  BY <1>2, <1>3, <1>4 DEF Weighted

LEMMA QtyNat ==
    ASSUME NEW S, NEW orders \in Seq(S), \A i \in DOMAIN orders : orders[i].qty \in Nat,
           NEW G
    PROVE  /\ QtyOf(orders, G) \in Nat
           /\ \A i \in DOMAIN orders : Weight(orders[i], G) <= QtyOf(orders, G)
<1> DEFINE v == Weighted(orders, G)
<1>1. /\ DOMAIN v = DOMAIN orders /\ IsFiniteSet(DOMAIN orders)
      /\ \A i \in DOMAIN orders : v[i] = Weight(orders[i], G) /\ v[i] \in Nat
  BY WeightsType
<1> HIDE DEF v
<1>2. /\ SumFunctionOnSet(v, DOMAIN v) \in Nat
      /\ \A i \in DOMAIN v : v[i] <= SumFunctionOnSet(v, DOMAIN v)
  BY <1>1, SumNat
<1>3. QED
  BY <1>1, <1>2 DEF QtyOf, SumFunction, v

LEMMA QtyEmpty == \A G : QtyOf(<<>>, G) = 0
<1> TAKE G
<1>1. Weighted(<<>>, G) = <<>>
  BY DEF Weighted
<1>2. QED
  BY <1>1, SeqSumEmpty DEF QtyOf

LEMMA ConcatFunction ==
    ASSUME NEW S, NEW a \in Seq(S), NEW b \in Seq(S)
    PROVE  /\ a \o b \in Seq(S)
           /\ a \o b = [i \in 1 .. Len(a) + Len(b) |->
                           IF i <= Len(a) THEN a[i] ELSE b[i - Len(a)]]
<1> DEFINE c == a \o b
<1>1. c \in Seq(S)
  OBVIOUS
<1>2. DOMAIN c = 1 .. Len(a) + Len(b)
  OBVIOUS
<1>3. \A i \in 1 .. Len(a) + Len(b) : c[i] = IF i <= Len(a) THEN a[i] ELSE b[i - Len(a)]
  OBVIOUS
<1> HIDE DEF c
<1>4. c = [i \in DOMAIN c |-> c[i]]
  BY <1>1
<1>5. c = [i \in 1 .. Len(a) + Len(b) |-> IF i <= Len(a) THEN a[i] ELSE b[i - Len(a)]]
  BY <1>2, <1>3, <1>4
<1>6. QED
  BY <1>1, <1>5 DEF c

LEMMA QtyConcat ==
    ASSUME NEW S, NEW a \in Seq(S), NEW b \in Seq(S),
           \A i \in DOMAIN a : a[i].qty \in Nat, \A i \in DOMAIN b : b[i].qty \in Nat,
           NEW G
    PROVE  QtyOf(a \o b, G) = QtyOf(a, G) + QtyOf(b, G)
<1>1. Weighted(a, G) \in Seq(Int) /\ Weighted(b, G) \in Seq(Int)
  BY WeightsType
<1>2. Weighted(a \o b, G) = Weighted(a, G) \o Weighted(b, G)
  <2> DEFINE m == Len(a)
             n == Len(b)
             c == a \o b
             v == Weighted(a, G)
             w == Weighted(b, G)
  <2>1. /\ m \in Nat /\ n \in Nat /\ DOMAIN a = 1 .. m /\ DOMAIN b = 1 .. n
        /\ DOMAIN c = 1 .. m + n /\ \A i \in 1 .. m + n : c[i] = IF i <= m THEN a[i] ELSE b[i - m]
    OBVIOUS
  <2>2. /\ DOMAIN v = 1 .. m /\ DOMAIN w = 1 .. n /\ Len(v) = m /\ Len(w) = n
        /\ \A i \in 1 .. m : v[i] = Weight(a[i], G)
        /\ \A i \in 1 .. n : w[i] = Weight(b[i], G)
    BY <1>1, <2>1 DEF Weighted
  <2>3. v \o w = [i \in 1 .. m + n |-> IF i <= m THEN v[i] ELSE w[i - m]]
    <3>1. v \in Seq(Int) /\ w \in Seq(Int)
      BY <1>1
    <3> HIDE DEF m, n, v, w
    <3>2. v \o w = [i \in 1 .. Len(v) + Len(w) |->
                       IF i <= Len(v) THEN v[i] ELSE w[i - Len(v)]]
      BY <3>1, ConcatFunction
    <3>3. QED
      BY <2>2, <3>2
  <2>4. Weighted(c, G) = [i \in 1 .. m + n |-> Weight(c[i], G)]
    BY <2>1 DEF Weighted
  <2>5. ASSUME NEW i \in 1 .. m + n
        PROVE  Weight(c[i], G) = IF i <= m THEN v[i] ELSE w[i - m]
    <3>1. CASE i <= m
      BY <2>1, <2>2, <3>1
    <3>2. CASE ~(i <= m)
      <4>1. i - m \in 1 .. n
        BY <2>1, <3>2
      <4>2. QED
        BY <2>1, <2>2, <3>2, <4>1
    <3>3. QED
      BY <3>1, <3>2
  <2> HIDE DEF m, n, c, v, w
  <2>6. Weighted(c, G) = v \o w
    BY <2>3, <2>4, <2>5
  <2>7. QED
    BY <2>6 DEF c, v, w
<1>3. QED
  BY <1>1, <1>2, SeqSumConcat DEF QtyOf

LEMMA QtyAppend ==
    ASSUME NEW S, NEW orders \in Seq(S), \A i \in DOMAIN orders : orders[i].qty \in Nat,
           NEW o, o.qty \in Nat, NEW G
    PROVE  QtyOf(Append(orders, o), G) = QtyOf(orders, G) + Weight(o, G)
<1>1. Weighted(orders, G) \in Seq(Int) /\ Weight(o, G) \in Int
  BY WeightsType, WeightType
<1>2. Weighted(Append(orders, o), G) = Append(Weighted(orders, G), Weight(o, G))
  BY DEF Weighted
<1>3. QED
  BY <1>1, <1>2, SeqSumAppend DEF QtyOf

\* Lists that agree on tickers, sides, purposes and quantities ask for the same.
LEMMA QtySame ==
    ASSUME NEW a, NEW b, DOMAIN a = DOMAIN b,
           \A i \in DOMAIN a : KeyOf(a[i]) = KeyOf(b[i]) /\ a[i].qty = b[i].qty,
           NEW G
    PROVE  QtyOf(a, G) = QtyOf(b, G)
<1>1. Weighted(a, G) = Weighted(b, G)
  BY DEF Weighted, Weight
<1>2. QED
  BY <1>1 DEF QtyOf

\* What the selected entries ask for.
LEMMA QtyEntries ==
    ASSUME NEW S, NEW orders \in Seq(S), \A i \in DOMAIN orders : orders[i].qty \in Nat,
           NEW positions, NEW G
    PROVE  QtyOf(Entries(orders, positions), G)
               = SumFunctionOnSet(Weighted(orders, G), positions \cap DOMAIN orders)
<1> DEFINE w == Weighted(orders, G)
           v == Weighted(Entries(orders, positions), G)
<1>1. \A i \in DOMAIN orders : w[i] = Weight(orders[i], G) /\ w[i] \in Int
  BY WeightsType
<1>2. DOMAIN v = DOMAIN Entries(orders, positions)
      /\ \A k \in DOMAIN v : v[k] = Weight(Entries(orders, positions)[k], G)
  BY DEF Weighted
<1> HIDE DEF v, w
<1>3. SumFunction(v) = SumFunctionOnSet(w, positions \cap DOMAIN orders)
  BY <1>1, <1>2, EntriesSum
<1>4. QED
  BY <1>3 DEF QtyOf, v, w

\* Selecting everything that is not empty, or two complementary parts, loses
\* nothing.
LEMMA QtyParts ==
    ASSUME NEW S, NEW orders \in Seq(S), \A i \in DOMAIN orders : orders[i].qty \in Nat,
           NEW P, NEW Q, P \cap Q \cap DOMAIN orders = {}, DOMAIN orders \subseteq P \cup Q,
           NEW G
    PROVE  QtyOf(Entries(orders, P), G) + QtyOf(Entries(orders, Q), G) = QtyOf(orders, G)
<1> DEFINE w == Weighted(orders, G)
           A == P \cap DOMAIN orders
           B == Q \cap DOMAIN orders
<1>1. /\ DOMAIN w = DOMAIN orders /\ IsFiniteSet(DOMAIN orders)
      /\ \A i \in DOMAIN orders : w[i] \in Int
  BY WeightsType
<1>2. IsFiniteSet(A) /\ IsFiniteSet(B) /\ A \cap B = {} /\ A \cup B = DOMAIN orders
  BY <1>1, FS_Subset
<1>3. /\ QtyOf(Entries(orders, P), G) = SumFunctionOnSet(w, A)
      /\ QtyOf(Entries(orders, Q), G) = SumFunctionOnSet(w, B)
  BY QtyEntries
<1> HIDE DEF w, A, B
<1>4. SumFunctionOnSet(w, A \cup B) = SumFunctionOnSet(w, A) + SumFunctionOnSet(w, B)
  BY <1>1, <1>2, SumUnion
<1>5. QtyOf(orders, G) = SumFunctionOnSet(w, A \cup B)
  BY <1>1, <1>2 DEF QtyOf, SumFunction, w
<1>6. QED
  BY <1>3, <1>4, <1>5

-----------------------------------------------------------------------------
(***************************************************************************)
(* Lists of orders of any record type: what they ask for of the orders     *)
(* alike, up to their quantity, to one of K.                               *)
(***************************************************************************)
Kind(o) == [o EXCEPT !.qty = 1]

AmountOf(o, K) == IF Kind(o) \in K THEN o.qty ELSE 0

Amounts(orders, K) == [i \in DOMAIN orders |-> AmountOf(orders[i], K)]

Amount(orders, K) == SumFunction(Amounts(orders, K))

\* Records with a ticker and a quantity.
OrderLike(S) ==
    \A o \in S :
        /\ o = [f \in DOMAIN o |-> o[f]] /\ {"ticker", "qty"} \subseteq DOMAIN o
        /\ o.ticker \in TickerSet /\ o.qty \in Nat
        /\ \A n \in Nat \ {0} : [o EXCEPT !.qty = n] \in S

LEMMA AmountsType ==
    ASSUME NEW S, OrderLike(S), NEW orders \in Seq(S), NEW K
    PROVE  /\ DOMAIN orders = 1 .. Len(orders) /\ IsFiniteSet(DOMAIN orders)
           /\ \A i \in DOMAIN orders : orders[i] \in S /\ orders[i].qty \in Nat
           /\ Amounts(orders, K) \in Seq(Int)
           /\ DOMAIN Amounts(orders, K) = DOMAIN orders
           /\ \A i \in DOMAIN orders : /\ Amounts(orders, K)[i] = AmountOf(orders[i], K)
                                       /\ Amounts(orders, K)[i] \in Nat
           /\ Amount(orders, K) \in Nat
<1>1. DOMAIN orders = 1 .. Len(orders) /\ Len(orders) \in Nat
      /\ \A i \in DOMAIN orders : orders[i] \in S
  OBVIOUS
<1>2. \A i \in DOMAIN orders : orders[i].qty \in Nat
  BY <1>1 DEF OrderLike
<1>3. \A i \in DOMAIN orders : AmountOf(orders[i], K) \in Nat /\ AmountOf(orders[i], K) \in Int
  BY <1>2 DEF AmountOf
<1>4. IsFiniteSet(DOMAIN orders)
  BY <1>1, FS_Interval
<1>5. /\ Amounts(orders, K) \in Seq(Int) /\ DOMAIN Amounts(orders, K) = DOMAIN orders
      /\ \A i \in DOMAIN orders : Amounts(orders, K)[i] = AmountOf(orders[i], K)
  BY <1>1, <1>3 DEF Amounts
<1>6. SumFunctionOnSet(Amounts(orders, K), DOMAIN orders) \in Nat
  BY <1>3, <1>4, <1>5, SumNat
<1>7. QED
  BY <1>1, <1>2, <1>3, <1>4, <1>5, <1>6 DEF Amount, SumFunction

\* What the selected entries ask for.
LEMMA AmountEntries ==
    ASSUME NEW S, OrderLike(S), NEW orders \in Seq(S), NEW positions, NEW K
    PROVE  Amount(Entries(orders, positions), K)
               = SumFunctionOnSet(Amounts(orders, K), positions \cap DOMAIN orders)
<1> DEFINE w == Amounts(orders, K)
           v == Amounts(Entries(orders, positions), K)
<1>1. \A i \in DOMAIN orders : w[i] = AmountOf(orders[i], K) /\ w[i] \in Int
  BY AmountsType
<1>2. DOMAIN v = DOMAIN Entries(orders, positions)
      /\ \A k \in DOMAIN v : v[k] = AmountOf(Entries(orders, positions)[k], K)
  BY DEF Amounts
<1> HIDE DEF v, w
<1>3. SumFunction(v) = SumFunctionOnSet(w, positions \cap DOMAIN orders)
  BY <1>1, <1>2, EntriesSum
<1>4. QED
  BY <1>3 DEF Amount, v, w

-----------------------------------------------------------------------------
(***************************************************************************)
(* Splitting large orders.                                                 *)
(***************************************************************************)
LEMMA HalvesOf ==
    ASSUME NEW S, OrderLike(S), NEW o \in S, IsSplit(o)
    PROVE  FirstHalf(o) \in Nat \ {0} /\ o.qty - FirstHalf(o) \in Nat \ {0}
<1>1. o.qty \in Nat /\ Lot[o.ticker] \in Nat \ {0}
  BY PlanningAssumption DEF OrderLike
<1>2. FirstHalf(o) \in Int
  <2>1. o.qty \div 2 \in Int
    BY <1>1
  <2>2. (o.qty \div 2) \div Lot[o.ticker] \in Int
    BY <1>1, <2>1
  <2>3. QED
    BY <1>1, <2>2 DEF FirstHalf
<1>3. QED
  BY <1>1, <1>2 DEF IsSplit

LEMMA ImmediateOf ==
    ASSUME NEW S, OrderLike(S), NEW orders \in Seq(S)
    PROVE  /\ Immediate(orders) \in Seq(S)
           /\ DOMAIN Immediate(orders) = DOMAIN orders
           /\ \A i \in DOMAIN orders :
                 Immediate(orders)[i] = IF IsSplit(orders[i])
                                        THEN [orders[i] EXCEPT !.qty = FirstHalf(orders[i])]
                                        ELSE orders[i]
<1>1. DOMAIN orders = 1 .. Len(orders) /\ Len(orders) \in Nat
      /\ \A i \in DOMAIN orders : orders[i] \in S
  OBVIOUS
<1>2. ASSUME NEW o \in S, IsSplit(o)
      PROVE  [o EXCEPT !.qty = FirstHalf(o)] \in S
  <2>1. FirstHalf(o) \in Nat \ {0}
    BY <1>2, HalvesOf
  <2>2. QED
    BY <2>1 DEF OrderLike
<1>3. Immediate(orders) \in Seq(S)
  BY <1>1, <1>2 DEF Immediate
<1>4. QED
  BY <1>3 DEF Immediate

SecondHalf(o) == [o EXCEPT !.qty = o.qty - FirstHalf(o)]

LEMMA DelayedOf ==
    ASSUME NEW S, OrderLike(S), NEW orders \in Seq(S)
    PROVE  /\ Delayed(orders) \in Seq(S)
           /\ \A k \in DOMAIN Delayed(orders) : \E i \in DOMAIN orders :
                 IsSplit(orders[i]) /\ Delayed(orders)[k] = SecondHalf(orders[i])
<1> DEFINE P == {i \in DOMAIN orders : IsSplit(orders[i])}
           large == Entries(orders, P)
<1>1. /\ large \in Seq(S)
      /\ \A k \in DOMAIN large : \E i \in P : large[k] = orders[i]
  <2> HIDE DEF P
  <2>1. QED
    BY EntriesOf
<1>2. Delayed(orders) = [k \in DOMAIN large |-> SecondHalf(large[k])]
  BY DEF Delayed, SecondHalf
<1> HIDE DEF large
<1>3. ASSUME NEW k \in DOMAIN large PROVE SecondHalf(large[k]) \in S
  <2>1. large[k] \in S /\ IsSplit(large[k])
    BY <1>1
  <2>2. large[k].qty - FirstHalf(large[k]) \in Nat \ {0}
    BY <2>1, HalvesOf
  <2>3. QED
    BY <2>1, <2>2 DEF OrderLike, SecondHalf
<1>4. DOMAIN large = 1 .. Len(large) /\ Len(large) \in Nat
  BY <1>1
<1>5. Delayed(orders) \in Seq(S)
  BY <1>2, <1>3, <1>4
<1>6. \A k \in DOMAIN Delayed(orders) : \E i \in DOMAIN orders :
          IsSplit(orders[i]) /\ Delayed(orders)[k] = SecondHalf(orders[i])
  BY <1>1, <1>2
<1>7. QED
  BY <1>5, <1>6

\* The two parts of a split submission ask together for exactly what the
\* unsplit orders do, of every kind of order, whatever the lots and the
\* threshold are.
THEOREM SplitKeepsAmounts ==
    ASSUME NEW S, OrderLike(S), NEW orders \in Seq(S), NEW K
    PROVE  Amount(Immediate(orders), K) + Amount(Delayed(orders), K) = Amount(orders, K)
<1> DEFINE D == DOMAIN orders
           P == {i \in D : IsSplit(orders[i])}
           large == Entries(orders, P)
           u == Amounts(Immediate(orders), K)
           v == Amounts(Delayed(orders), K)
           w == [i \in D |-> AmountOf(SecondHalf(orders[i]), K)]
           x == [i \in D |-> IF i \in P THEN w[i] ELSE 0]
           all == Amounts(orders, K)
<1>1. \A i \in D : orders[i] \in S /\ orders[i].qty \in Nat
  BY AmountsType
<1>2. IsFiniteSet(D) /\ DOMAIN all = D /\ \A i \in D : all[i] = AmountOf(orders[i], K)
  BY AmountsType
<1>3. /\ DOMAIN u = D
      /\ \A i \in D : u[i] = AmountOf(Immediate(orders)[i], K)
  BY ImmediateOf DEF Amounts
<1>4. ASSUME NEW i \in P
      PROVE  /\ w[i] \in Int /\ u[i] \in Int
             /\ all[i] = u[i] + w[i]
  <2>1. IsSplit(orders[i]) /\ orders[i] \in S /\ i \in D
    BY <1>1
  <2>2. PICK h \in Nat : /\ h = FirstHalf(orders[i]) /\ orders[i].qty - h \in Nat
                         /\ orders[i].qty \in Nat
    BY <1>1, <2>1, HalvesOf
  <2>3. Immediate(orders)[i] = [orders[i] EXCEPT !.qty = h]
    BY <2>1, <2>2, ImmediateOf
  <2> DEFINE o == orders[i]
  <2>4. o = [f \in DOMAIN o |-> o[f]] /\ "qty" \in DOMAIN o
    BY <2>1 DEF OrderLike
  <2>5. /\ SecondHalf(o) = [o EXCEPT !.qty = o.qty - h]
        /\ Immediate(orders)[i] = [o EXCEPT !.qty = h]
    BY <2>2, <2>3 DEF SecondHalf
  <2> HIDE DEF o
  <2>6. /\ Kind([o EXCEPT !.qty = h]) = Kind(o) /\ [o EXCEPT !.qty = h].qty = h
        /\ Kind([o EXCEPT !.qty = o.qty - h]) = Kind(o)
        /\ [o EXCEPT !.qty = o.qty - h].qty = o.qty - h
    BY <2>4 DEF Kind
  <2>7. u[i] = IF Kind(o) \in K THEN h ELSE 0
    BY <1>3, <2>1, <2>5, <2>6 DEF AmountOf
  <2>8. w[i] = IF Kind(o) \in K THEN o.qty - h ELSE 0
    BY <2>1, <2>5, <2>6 DEF AmountOf, o
  <2>9. all[i] = IF Kind(o) \in K THEN o.qty ELSE 0
    BY <1>2, <2>1 DEF AmountOf, o
  <2> HIDE DEF u, w, all
  <2>10. o.qty \in Nat /\ o.qty - h \in Nat
    BY <2>2 DEF o
  <2>11. QED
    BY <2>2, <2>7, <2>8, <2>9, <2>10
<1>5. ASSUME NEW i \in D, i \notin P
      PROVE  u[i] \in Int /\ all[i] = u[i]
  <2>1. Immediate(orders)[i] = orders[i]
    BY <1>5, ImmediateOf
  <2>2. QED
    BY <1>1, <1>2, <1>3, <2>1, AmountsType
<1>6. SumFunction(v) = SumFunctionOnSet(w, P)
  <2>1. Delayed(orders) = [k \in DOMAIN large |-> SecondHalf(large[k])]
    BY DEF Delayed, SecondHalf
  <2>2. DOMAIN v = DOMAIN large /\ \A k \in DOMAIN v : v[k] = AmountOf(SecondHalf(large[k]), K)
    BY <2>1 DEF Amounts
  <2>3. \A k \in DOMAIN v : \A i \in P \cap D : large[k] = orders[i] => v[k] = w[i]
    BY <2>2
  <2>4. \A i \in P \cap D : w[i] \in Int
    BY <1>4
  <2>5. P \cap D = P
    OBVIOUS
  <2> HIDE DEF v, w, P
  <2>6. SumFunction(v) = SumFunctionOnSet(w, P \cap D)
    BY <2>2, <2>3, <2>4, EntriesSum
  <2>7. QED
    BY <2>5, <2>6
<1>7. SumFunctionOnSet(x, D) = SumFunctionOnSet(w, P)
  <2>1. P \in SUBSET D /\ \A i \in P : w[i] \in Int /\ x[i] = w[i]
    BY <1>4
  <2>2. \A i \in D \ P : x[i] = 0
    OBVIOUS
  <2>3. IsFiniteSet(D)
    BY <1>2
  <2> HIDE DEF x, w, P, D
  <2>4. QED
    BY <2>1, <2>2, <2>3, SumRestrict
<1>8. \A i \in D : u[i] \in Int /\ x[i] \in Int /\ all[i] = u[i] + x[i]
  <2> TAKE i \in D
  <2>1. x[i] = IF i \in P THEN w[i] ELSE 0
    OBVIOUS
  <2> HIDE DEF x, u, w, all, P, D
  <2>2. QED
    BY <1>4, <1>5, <2>1
<1> HIDE DEF x, u, v, w, all, P, D
<1>9. SumFunctionOnSet(all, D) = SumFunctionOnSet(u, D) + SumFunctionOnSet(x, D)
  BY <1>2, <1>8, SumPlus
<1>10. /\ Amount(orders, K) = SumFunctionOnSet(all, D)
       /\ Amount(Immediate(orders), K) = SumFunctionOnSet(u, D)
  BY <1>2, <1>3 DEF Amount, SumFunction, u, all
<1>11. Amount(Delayed(orders), K) = SumFunctionOnSet(x, D)
  BY <1>6, <1>7 DEF Amount, v
<1>12. QED
  BY <1>9, <1>10, <1>11

-----------------------------------------------------------------------------
(***************************************************************************)
(* The same for intents.                                                   *)
(***************************************************************************)
LEMMA IntentIsOrderLike == OrderLike(Intent)
BY DEF OrderLike, Intent

LEMMA ImmediateType ==
    ASSUME NEW orders \in Seq(Intent)
    PROVE  /\ Immediate(orders) \in Seq(Intent)
           /\ DOMAIN Immediate(orders) = DOMAIN orders
           /\ \A i \in DOMAIN orders :
                 Immediate(orders)[i] = IF IsSplit(orders[i])
                                        THEN [orders[i] EXCEPT !.qty = FirstHalf(orders[i])]
                                        ELSE orders[i]
BY ImmediateOf, IntentIsOrderLike

LEMMA DelayedType ==
    ASSUME NEW orders \in Seq(Intent)
    PROVE  /\ Delayed(orders) \in Seq(Intent)
           /\ \A k \in DOMAIN Delayed(orders) : \E i \in DOMAIN orders :
                 /\ IsSplit(orders[i])
                 /\ Delayed(orders)[k] = [orders[i] EXCEPT
                                             !.qty = orders[i].qty - FirstHalf(orders[i])]
BY DelayedOf, IntentIsOrderLike DEF SecondHalf

\* Of every ticker, side and purpose.
THEOREM SplitConserves ==
    ASSUME NEW orders \in Seq(Intent), NEW G
    PROVE  QtyOf(Immediate(orders), G) + QtyOf(Delayed(orders), G) = QtyOf(orders, G)
<1> DEFINE K == {Kind(x) : x \in {y \in Intent : KeyOf(y) \in G}}
<1>1. ASSUME NEW o \in Intent PROVE Weight(o, G) = AmountOf(o, K)
  <2>1. \A x \in Intent : Kind(x) = Kind(o) => KeyOf(x) = KeyOf(o)
    BY DEF Kind, KeyOf, Intent
  <2>2. Kind(o) \in K <=> KeyOf(o) \in G
    BY <2>1
  <2>3. QED
    BY <2>2 DEF Weight, AmountOf
<1> HIDE DEF K
<1>2. ASSUME NEW list \in Seq(Intent) PROVE QtyOf(list, G) = Amount(list, K)
  <2>1. \A i \in DOMAIN list : list[i] \in Intent
    OBVIOUS
  <2>2. Weighted(list, G) = Amounts(list, K)
    BY <1>1, <2>1 DEF Weighted, Amounts
  <2>3. QED
    BY <2>2 DEF QtyOf, Amount
<1>3. Immediate(orders) \in Seq(Intent) /\ Delayed(orders) \in Seq(Intent)
  BY ImmediateType, DelayedType
<1>4. /\ QtyOf(Immediate(orders), G) = Amount(Immediate(orders), K)
      /\ QtyOf(Delayed(orders), G) = Amount(Delayed(orders), K)
      /\ QtyOf(orders, G) = Amount(orders, K)
  BY <1>2, <1>3
<1>5. Amount(Immediate(orders), K) + Amount(Delayed(orders), K) = Amount(orders, K)
  BY SplitKeepsAmounts, IntentIsOrderLike
<1>6. QED
  BY <1>4, <1>5

-----------------------------------------------------------------------------
(***************************************************************************)
(* The orders of a plan.                                                   *)
(***************************************************************************)
Sides == {"BUY", "SELL"}
Asked == [ticker : TickerSet, side : Sides, qty : Nat]
Orders == [ticker : TickerSet, side : Sides, qty : Nat \ {0}]

\* One entry per ticker at most.
OnePerTicker(orders) ==
    \A i, k \in DOMAIN orders : orders[i].ticker = orders[k].ticker => i = k

LEMMA TradableType ==
    ASSUME NEW orders \in Seq(Asked)
    PROVE  /\ Tradable(orders) \in Seq(Orders)
           /\ OnePerTicker(orders) => OnePerTicker(Tradable(orders))
<1> DEFINE P == {i \in DOMAIN orders : orders[i].qty > 0}
           e == Entries(orders, P)
<1>1. /\ e \in Seq(Asked)
      /\ \A k \in DOMAIN e : \E i \in P : e[k] = orders[i]
  <2> HIDE DEF P
  <2>1. QED
    BY EntriesOf
<1>2. \A k \in DOMAIN e : e[k] \in Orders
  <2> TAKE k \in DOMAIN e
  <2>1. e[k] \in Asked /\ e[k].qty > 0
    BY <1>1
  <2>2. QED
    BY <2>1 DEF Asked, Orders
<1>3. \A h, k \in DOMAIN e : h < k => \E i, l \in DOMAIN orders :
          i < l /\ e[h] = orders[i] /\ e[k] = orders[l]
  <2> HIDE DEF P
  <2>1. QED
    BY EntriesInOrder
<1> HIDE DEF P
<1>4. DOMAIN e = 1 .. Len(e) /\ Len(e) \in Nat /\ DOMAIN orders = 1 .. Len(orders)
      /\ Len(orders) \in Nat
  BY <1>1
<1> HIDE DEF e
<1>5. e \in Seq(Orders)
  <2>1. e = [k \in 1 .. Len(e) |-> e[k]]
    BY <1>1
  <2>2. QED
    BY <1>2, <1>4, <2>1
<1>6. ASSUME OnePerTicker(orders), NEW h \in DOMAIN e, NEW k \in DOMAIN e,
             e[h].ticker = e[k].ticker
      PROVE  h = k
  <2>1. ASSUME NEW x \in DOMAIN e, NEW y \in DOMAIN e, x < y, e[x].ticker = e[y].ticker
        PROVE  FALSE
    <3>1. PICK i \in DOMAIN orders, l \in DOMAIN orders :
              i < l /\ e[x] = orders[i] /\ e[y] = orders[l]
      BY <1>3, <2>1
    <3>2. i = l
      BY <1>6, <2>1, <3>1 DEF OnePerTicker
    <3>3. QED
      BY <1>4, <3>1, <3>2
  <2>2. h < k \/ k < h \/ h = k
    BY <1>4
  <2>3. QED
    BY <1>6, <2>1, <2>2
<1>7. OnePerTicker(orders) => OnePerTicker(e)
  BY <1>6 DEF OnePerTicker
<1>8. QED
  BY <1>5, <1>7 DEF Tradable, e, P

\* One row per ticker, before those with nothing to trade are left out.
LEMMA OrdersForAsked ==
    ASSUME NEW change, \A t \in TickerSet : change[t] \in Int,
           NEW asked, asked = [i \in DOMAIN Tickers |->
                                  Order(Tickers[i], SideOf(change[Tickers[i]]),
                                        Abs(change[Tickers[i]]))]
    PROVE  asked \in Seq(Asked) /\ OnePerTicker(asked)
<1>1. DOMAIN Tickers = 1 .. Len(Tickers) /\ Len(Tickers) \in Nat
      /\ \A i \in DOMAIN Tickers : Tickers[i] \in TickerSet
  BY PlanningAssumption DEF TickerSet
<1>2. ASSUME NEW i \in DOMAIN Tickers PROVE asked[i] \in Asked
  <2>1. change[Tickers[i]] \in Int
    BY <1>1
  <2>2. Abs(change[Tickers[i]]) \in Nat /\ SideOf(change[Tickers[i]]) \in Sides
    BY <2>1 DEF Abs, SideOf, Sides
  <2>3. QED
    BY <1>1, <2>2 DEF Order, Asked
<1>3. asked \in Seq(Asked)
  BY <1>1, <1>2
<1>4. OnePerTicker(asked)
  BY PlanningAssumption DEF OnePerTicker, Order
<1>5. QED
  BY <1>3, <1>4

\* A change of the inventory is traded with one order per ticker at most.
LEMMA OrdersForType ==
    ASSUME NEW change, \A t \in TickerSet : change[t] \in Int
    PROVE  OrdersFor(change) \in Seq(Orders) /\ OnePerTicker(OrdersFor(change))
BY OrdersForAsked, TradableType DEF OrdersFor

LEMMA IntentsType ==
    ASSUME NEW orders \in Seq(Orders), NEW purpose \in {"close", "new"}
    PROVE  /\ Intents(orders, purpose) \in Seq(Intent)
           /\ Len(Intents(orders, purpose)) = Len(orders)
           /\ DOMAIN Intents(orders, purpose) = DOMAIN orders
           /\ \A i \in DOMAIN orders :
                 /\ Intents(orders, purpose)[i].ticker = orders[i].ticker
                 /\ Intents(orders, purpose)[i].side = orders[i].side
                 /\ Intents(orders, purpose)[i].qty = orders[i].qty
                 /\ Intents(orders, purpose)[i].purpose = purpose
<1>1. DOMAIN orders = 1 .. Len(orders) /\ Len(orders) \in Nat
      /\ \A i \in DOMAIN orders : orders[i] \in Orders
  OBVIOUS
<1>2. \A i \in DOMAIN orders : [ticker |-> orders[i].ticker, side |-> orders[i].side,
         qty |-> orders[i].qty, purpose |-> purpose] \in Intent
  BY <1>1 DEF Orders, Intent, Sides
<1>3. Intents(orders, purpose) \in Seq(Intent)
  BY <1>1, <1>2 DEF Intents
<1>4. DOMAIN Intents(orders, purpose) = DOMAIN orders
  BY DEF Intents
<1>5. Len(Intents(orders, purpose)) = Len(orders)
  BY <1>1, <1>3, <1>4
<1>6. QED
  BY <1>3, <1>4, <1>5 DEF Intents

\* A plan repays before it opens, and asks once for each of the two of a
\* ticker at most.
WellFormed(plan) ==
    /\ plan \in Seq(Intent)
    /\ \A i, k \in DOMAIN plan :
          plan[i].ticker = plan[k].ticker /\ plan[i].purpose = plan[k].purpose => i = k
    /\ \A i, k \in DOMAIN plan :
          plan[i].purpose = "close" /\ plan[k].purpose = "new" => i < k

LEMMA ClosesWellFormed ==
    ASSUME NEW orders \in Seq(Orders), OnePerTicker(orders)
    PROVE  /\ WellFormed(Intents(orders, "close"))
           /\ \A i \in DOMAIN Intents(orders, "close") :
                 Intents(orders, "close")[i].purpose = "close"
BY IntentsType DEF WellFormed, OnePerTicker

LEMMA ChangeType ==
    ASSUME NEW target \in [TickerSet -> Int], NEW current \in [TickerSet -> Int],
           NEW t \in TickerSet
    PROVE  /\ Delta(target, current, t) \in Int
           /\ CloseQty(target, current, t) \in Nat
           /\ NewQty(target, current, t) \in Nat
<1>1. PICK d \in Int : d = Delta(target, current, t)
  BY DEF Delta
<1>2. PICK c \in Int : c = current[t]
  OBVIOUS
<1>3. CloseQty(target, current, t) = IF d * c < 0 THEN Least(Abs(d), Abs(c)) ELSE 0
  BY <1>1, <1>2 DEF CloseQty
<1>4. CloseQty(target, current, t) \in Nat /\ CloseQty(target, current, t) <= Abs(d)
  BY <1>3 DEF Least, Abs
<1>5. NewQty(target, current, t) = Abs(d) - CloseQty(target, current, t)
  BY <1>1 DEF NewQty
<1>6. QED
  BY <1>1, <1>4, <1>5 DEF Abs

LEMMA DecisionPlanType ==
    ASSUME NEW target \in [TickerSet -> Int], NEW current \in [TickerSet -> Int]
    PROVE  WellFormed(DecisionPlan(target, current))
<1> DEFINE closes == CloseOrders(target, current)
           news == NewOrders(target, current)
           a == Intents(closes, "close")
           b == Intents(news, "new")
<1>1. closes \in Seq(Orders) /\ OnePerTicker(closes)
  <2> DEFINE change == [t \in TickerSet |-> Directed(Delta(target, current, t),
                                                     CloseQty(target, current, t))]
  <2>1. \A t \in TickerSet : change[t] \in Int
    BY ChangeType DEF Directed
  <2> HIDE DEF change
  <2>2. OrdersFor(change) \in Seq(Orders) /\ OnePerTicker(OrdersFor(change))
    BY <2>1, OrdersForType
  <2>3. QED
    BY <2>2 DEF CloseOrders, change
<1>2. news \in Seq(Orders) /\ OnePerTicker(news)
  <2> DEFINE change == [t \in TickerSet |-> Directed(Delta(target, current, t),
                                                     NewQty(target, current, t))]
  <2>1. \A t \in TickerSet : change[t] \in Int
    BY ChangeType DEF Directed
  <2> HIDE DEF change
  <2>2. OrdersFor(change) \in Seq(Orders) /\ OnePerTicker(OrdersFor(change))
    BY <2>1, OrdersForType
  <2>3. QED
    BY <2>2 DEF NewOrders, change
<1> HIDE DEF closes, news
<1>3. /\ a \in Seq(Intent) /\ Len(a) = Len(closes) /\ DOMAIN a = DOMAIN closes
      /\ \A i \in DOMAIN a : a[i].ticker = closes[i].ticker /\ a[i].purpose = "close"
  BY <1>1, IntentsType
<1>4. /\ b \in Seq(Intent) /\ Len(b) = Len(news) /\ DOMAIN b = DOMAIN news
      /\ \A i \in DOMAIN b : b[i].ticker = news[i].ticker /\ b[i].purpose = "new"
  BY <1>2, IntentsType
<1>5. DecisionPlan(target, current) = a \o b
  BY DEF DecisionPlan, closes, news
<1> HIDE DEF a, b
<1> DEFINE plan == a \o b
           m == Len(a)
           n == Len(b)
<1>6. /\ m \in Nat /\ n \in Nat /\ DOMAIN a = 1 .. m /\ DOMAIN b = 1 .. n
      /\ plan \in Seq(Intent) /\ DOMAIN plan = 1 .. m + n
      /\ \A i \in 1 .. m + n : plan[i] = IF i <= m THEN a[i] ELSE b[i - m]
  <2>1. a \in Seq(Intent) /\ b \in Seq(Intent)
    BY <1>3, <1>4
  <2>2. m \in Nat /\ n \in Nat /\ DOMAIN a = 1 .. m /\ DOMAIN b = 1 .. n
    BY <2>1
  <2>3. plan \in Seq(Intent)
        /\ plan = [i \in 1 .. m + n |-> IF i <= m THEN a[i] ELSE b[i - m]]
    BY <2>1, ConcatFunction
  <2>4. QED
    BY <2>2, <2>3
<1>7. \A i \in 1 .. m + n : /\ i <= m => i \in DOMAIN a /\ plan[i] = a[i]
                            /\ ~(i <= m) => i - m \in DOMAIN b /\ plan[i] = b[i - m]
  BY <1>6
<1>8. \A i \in 1 .. m + n : i <= m <=> plan[i].purpose = "close"
  BY <1>3, <1>4, <1>7
<1> HIDE DEF plan, m, n
<1>9. ASSUME NEW i \in DOMAIN plan, NEW k \in DOMAIN plan,
             plan[i].ticker = plan[k].ticker, plan[i].purpose = plan[k].purpose
      PROVE  i = k
  <2>1. CASE i <= m
    <3>1. k <= m
      BY <1>6, <1>8, <1>9, <2>1
    <3>2. i \in DOMAIN closes /\ k \in DOMAIN closes /\ closes[i].ticker = closes[k].ticker
      BY <1>3, <1>6, <1>7, <1>9, <2>1, <3>1
    <3>3. QED
      BY <1>1, <3>2 DEF OnePerTicker
  <2>2. CASE ~(i <= m)
    <3>1. ~(k <= m)
      BY <1>6, <1>8, <1>9, <2>2
    <3>2. /\ i - m \in DOMAIN news /\ k - m \in DOMAIN news
          /\ news[i - m].ticker = news[k - m].ticker
      BY <1>4, <1>6, <1>7, <1>9, <2>2, <3>1
    <3>3. i - m = k - m
      BY <1>2, <3>2 DEF OnePerTicker
    <3>4. QED
      BY <1>6, <3>3
  <2>3. QED
    BY <2>1, <2>2
<1>10. ASSUME NEW i \in DOMAIN plan, NEW k \in DOMAIN plan,
              plan[i].purpose = "close", plan[k].purpose = "new"
       PROVE  i < k
  BY <1>6, <1>8, <1>10
<1>11. WellFormed(plan)
  BY <1>6, <1>9, <1>10 DEF WellFormed
<1>12. QED
  BY <1>5, <1>11 DEF plan

\* What is sold at the close is never negative.
LEMMA CloseQuantityType ==
    ASSUME NEW qty \in Nat, NEW alpha \in Nat, NEW lot \in Nat \ {0}
    PROVE  CloseQuantity(qty, alpha, lot) \in Nat
<1>1. PICK h \in Int : h = HoldTarget(qty, alpha, lot)
  <2>1. 200 * lot \in Nat \ {0} /\ 2 * qty * alpha + 100 * lot \in Int
    OBVIOUS
  <2>2. (2 * qty * alpha + 100 * lot) \div (200 * lot) \in Int
    BY <2>1
  <2>3. ((2 * qty * alpha + 100 * lot) \div (200 * lot)) * lot \in Int
    BY <2>2
  <2>4. QED
    BY <2>3 DEF HoldTarget, Least
<1>2. PICK x \in Int : x = ((qty - h) \div lot) * lot
  <2>1. (qty - h) \div lot \in Int
    OBVIOUS
  <2>2. QED
    BY <2>1
<1>3. CloseQuantity(qty, alpha, lot) = Greatest(0, Least(x, qty))
  BY <1>1, <1>2 DEF CloseQuantity
<1>4. QED
  BY <1>3 DEF Greatest, Least

LEMMA DayCloseOrdersType ==
    ASSUME NEW positions \in Seq(Orders), NEW alphaLong \in Nat, NEW alphaShort \in Nat
    PROVE  /\ DayCloseOrders(positions, alphaLong, alphaShort) \in Seq(Orders)
           /\ OnePerTicker(positions)
                  => OnePerTicker(DayCloseOrders(positions, alphaLong, alphaShort))
<1> DEFINE Alpha(p) == IF p.side = "BUY" THEN alphaLong ELSE alphaShort
           Close(p) == Order(p.ticker, IF p.side = "BUY" THEN "SELL" ELSE "BUY",
                             CloseQuantity(p.qty, Alpha(p), Lot[p.ticker]))
           asked == [i \in DOMAIN positions |-> Close(positions[i])]
<1>1. DOMAIN positions = 1 .. Len(positions) /\ Len(positions) \in Nat
      /\ \A i \in DOMAIN positions : positions[i] \in Orders
  OBVIOUS
<1>2. ASSUME NEW p \in Orders PROVE Close(p) \in Asked /\ Close(p).ticker = p.ticker
  <2>1. p.qty \in Nat /\ Lot[p.ticker] \in Nat \ {0} /\ Alpha(p) \in Nat
    BY PlanningAssumption DEF Orders
  <2>2. CloseQuantity(p.qty, Alpha(p), Lot[p.ticker]) \in Nat
    BY <2>1, CloseQuantityType
  <2>3. QED
    BY <2>2 DEF Asked, Order, Orders, Sides
<1> HIDE DEF Close
<1>3. asked \in Seq(Asked) /\ (OnePerTicker(positions) => OnePerTicker(asked))
  <2>1. asked \in Seq(Asked)
    BY <1>1, <1>2
  <2>2. QED
    BY <1>1, <1>2, <2>1 DEF OnePerTicker
<1> HIDE DEF asked
<1>4. /\ Tradable(asked) \in Seq(Orders)
      /\ OnePerTicker(positions) => OnePerTicker(Tradable(asked))
  BY <1>3, TradableType
<1>5. QED
  BY <1>4 DEF DayCloseOrders, asked, Close

-----------------------------------------------------------------------------
(***************************************************************************)
(* What the orders of a plan ask for of one ticker and side.               *)
(***************************************************************************)
AskOf(t, side) == {Order(t, side, 1)}

Ask(orders, t, side) == Amount(orders, AskOf(t, side))

LEMMA OrdersAreOrderLike == OrderLike(Orders) /\ OrderLike(Asked)
BY DEF OrderLike, Orders, Asked

LEMMA AskOfOrder ==
    ASSUME NEW o \in Asked, NEW t, NEW side
    PROVE  AmountOf(o, AskOf(t, side)) =
               IF o.ticker = t /\ o.side = side THEN o.qty ELSE 0
<1>1. Kind(o) = [ticker |-> o.ticker, side |-> o.side, qty |-> 1]
  BY DEF Kind, Asked
<1>2. Kind(o) \in AskOf(t, side) <=> o.ticker = t /\ o.side = side
  BY <1>1 DEF AskOf, Order
<1>3. QED
  BY <1>2 DEF AmountOf

\* Leaving out the orders of nothing leaves out nothing.
LEMMA TradableAsk ==
    ASSUME NEW orders \in Seq(Asked), NEW K
    PROVE  Amount(Tradable(orders), K) = Amount(orders, K)
<1> DEFINE P == {i \in DOMAIN orders : orders[i].qty > 0}
           w == Amounts(orders, K)
<1>1. /\ IsFiniteSet(DOMAIN orders) /\ DOMAIN w = DOMAIN orders
      /\ \A i \in DOMAIN orders : /\ w[i] \in Int /\ orders[i].qty \in Nat
                                  /\ w[i] = AmountOf(orders[i], K)
  BY AmountsType, OrdersAreOrderLike
<1>2. Amount(Tradable(orders), K) = SumFunctionOnSet(w, P \cap DOMAIN orders)
  BY AmountEntries, OrdersAreOrderLike DEF Tradable
<1>3. P \cap DOMAIN orders = P /\ P \in SUBSET DOMAIN orders
  OBVIOUS
<1>4. \A i \in DOMAIN orders \ P : w[i] = 0
  BY <1>1 DEF AmountOf
<1>5. Amount(orders, K) = SumFunctionOnSet(w, DOMAIN orders)
  BY <1>1 DEF Amount, SumFunction
<1> HIDE DEF w, P
<1>6. SumFunctionOnSet(w, DOMAIN orders) = SumFunctionOnSet(w, P)
  BY <1>1, <1>3, <1>4, SumRestrict
<1>7. QED
  BY <1>2, <1>3, <1>5, <1>6

LEMMA NoAsk ==
    ASSUME NEW orders \in Seq(Asked), NEW t,
           \A i \in DOMAIN orders : orders[i].ticker = t => orders[i].qty = 0,
           NEW side
    PROVE  Ask(orders, t, side) = 0
<1> DEFINE w == Amounts(orders, AskOf(t, side))
<1>1. /\ IsFiniteSet(DOMAIN orders) /\ DOMAIN w = DOMAIN orders
      /\ \A i \in DOMAIN orders : /\ orders[i] \in Asked
                                  /\ w[i] = AmountOf(orders[i], AskOf(t, side))
  BY AmountsType, OrdersAreOrderLike
<1> HIDE DEF w
<1>2. \A i \in DOMAIN orders : w[i] = 0
  BY <1>1, AskOfOrder
<1>3. SumFunctionOnSet(w, DOMAIN orders) = 0
  BY <1>1, <1>2, SumZero
<1>4. QED
  BY <1>1, <1>3 DEF Ask, Amount, SumFunction, w

LEMMA OneAsk ==
    ASSUME NEW orders \in Seq(Asked), OnePerTicker(orders), NEW e \in DOMAIN orders,
           NEW side
    PROVE  Ask(orders, orders[e].ticker, side) =
               IF orders[e].side = side THEN orders[e].qty ELSE 0
<1> DEFINE t == orders[e].ticker
           w == Amounts(orders, AskOf(t, side))
<1>1. /\ IsFiniteSet(DOMAIN orders) /\ DOMAIN w = DOMAIN orders
      /\ \A i \in DOMAIN orders : /\ orders[i] \in Asked /\ w[i] \in Int
                                  /\ w[i] = AmountOf(orders[i], AskOf(t, side))
  BY AmountsType, OrdersAreOrderLike
<1> HIDE DEF w
<1>2. \A i \in DOMAIN orders \ {e} : w[i] = 0
  BY <1>1, AskOfOrder DEF OnePerTicker
<1>3. SumFunctionOnSet(w, DOMAIN orders) = SumFunctionOnSet(w, {e})
  <2>1. {e} \in SUBSET DOMAIN orders /\ \A i \in {e} : w[i] \in Int
    BY <1>1
  <2>2. QED
    BY <1>1, <1>2, <2>1, SumRestrict
<1>4. SumFunctionOnSet(w, {e}) = w[e]
  BY <1>1, SumSingleton
<1>5. w[e] = IF orders[e].side = side THEN orders[e].qty ELSE 0
  BY <1>1, AskOfOrder
<1>6. QED
  BY <1>1, <1>3, <1>4, <1>5 DEF Ask, Amount, SumFunction, w

\* The orders for a change of the inventory ask for the change.
LEMMA OrdersForAsk ==
    ASSUME NEW change, \A t \in TickerSet : change[t] \in Int, NEW t \in TickerSet
    PROVE  /\ Ask(OrdersFor(change), t, "BUY") = IF change[t] > 0 THEN change[t] ELSE 0
           /\ Ask(OrdersFor(change), t, "SELL") = IF change[t] < 0 THEN -change[t] ELSE 0
<1> DEFINE asked == [i \in DOMAIN Tickers |->
                        Order(Tickers[i], SideOf(change[Tickers[i]]),
                              Abs(change[Tickers[i]]))]
<1>1. /\ asked \in Seq(Asked) /\ OnePerTicker(asked)
      /\ OrdersFor(change) = Tradable(asked)
  BY OrdersForAsked DEF OrdersFor
<1>2. PICK e \in DOMAIN Tickers : Tickers[e] = t
  BY DEF TickerSet
<1>3. /\ e \in DOMAIN asked /\ asked[e].ticker = t
      /\ asked[e].side = SideOf(change[t]) /\ asked[e].qty = Abs(change[t])
  BY <1>2 DEF Order
<1> HIDE DEF asked
<1>4. \A side : Ask(OrdersFor(change), t, side) =
                    IF SideOf(change[t]) = side THEN Abs(change[t]) ELSE 0
  <2> TAKE side
  <2>1. Ask(asked, t, side) = IF SideOf(change[t]) = side THEN Abs(change[t]) ELSE 0
    BY <1>1, <1>3, OneAsk
  <2>2. Ask(OrdersFor(change), t, side) = Ask(asked, t, side)
    BY <1>1, TradableAsk DEF Ask
  <2>3. QED
    BY <2>1, <2>2
<1>5. change[t] \in Int
  OBVIOUS
<1>6. QED
  BY <1>4, <1>5 DEF SideOf, Abs

\* Each of them is for the whole change of its ticker.
LEMMA OrdersForEach ==
    ASSUME NEW change, \A t \in TickerSet : change[t] \in Int
    PROVE  /\ \A k \in DOMAIN OrdersFor(change) :
                 LET o == OrdersFor(change)[k]
                 IN  /\ o.ticker \in TickerSet /\ change[o.ticker] # 0
                     /\ o.side = SideOf(change[o.ticker])
                     /\ o.qty = Abs(change[o.ticker])
           /\ \A t \in TickerSet : change[t] # 0 =>
                 \E k \in DOMAIN OrdersFor(change) : OrdersFor(change)[k].ticker = t
<1> DEFINE asked == [i \in DOMAIN Tickers |->
                        Order(Tickers[i], SideOf(change[Tickers[i]]),
                              Abs(change[Tickers[i]]))]
           P == {i \in DOMAIN asked : asked[i].qty > 0}
           list == OrdersFor(change)
<1>1. asked \in Seq(Asked) /\ list = Entries(asked, P) /\ P \cap DOMAIN asked = P
  BY OrdersForAsked DEF OrdersFor, Tradable
<1>2. /\ \A i \in DOMAIN asked : /\ asked[i].ticker \in TickerSet
                                 /\ asked[i].ticker = Tickers[i]
                                 /\ asked[i].side = SideOf(change[Tickers[i]])
                                 /\ asked[i].qty = Abs(change[Tickers[i]])
      /\ \A t \in TickerSet : \E i \in DOMAIN asked : Tickers[i] = t
  BY DEF Order, TickerSet
<1>3. \A i \in DOMAIN asked : i \in P <=> change[Tickers[i]] # 0
  <2> TAKE i \in DOMAIN asked
  <2>1. change[Tickers[i]] \in Int /\ asked[i].qty = Abs(change[Tickers[i]])
    BY <1>2
  <2>2. QED
    BY <2>1 DEF Abs
<1> HIDE DEF asked, P
<1>4. /\ \A k \in DOMAIN list : \E i \in P : list[k] = asked[i]
      /\ \A i \in P : \E k \in DOMAIN list : list[k] = asked[i]
  <2>1. /\ \A k \in DOMAIN Entries(asked, P) :
              \E i \in P \cap DOMAIN asked : Entries(asked, P)[k] = asked[i]
        /\ \A i \in P \cap DOMAIN asked :
              \E k \in DOMAIN Entries(asked, P) : Entries(asked, P)[k] = asked[i]
    BY <1>1, EntriesOf
  <2> HIDE DEF list
  <2>2. QED
    BY <1>1, <2>1
<1>5. P \subseteq DOMAIN asked
  BY <1>1
<1> HIDE DEF list
<1>6. \A k \in DOMAIN list : /\ list[k].ticker \in TickerSet /\ change[list[k].ticker] # 0
                             /\ list[k].side = SideOf(change[list[k].ticker])
                             /\ list[k].qty = Abs(change[list[k].ticker])
  BY <1>2, <1>3, <1>4, <1>5
<1>7. \A t \in TickerSet : change[t] # 0 => \E k \in DOMAIN list : list[k].ticker = t
  BY <1>2, <1>3, <1>4, <1>5
<1>8. QED
  BY <1>6, <1>7 DEF list

OtherSide(side) == IF side = "BUY" THEN "SELL" ELSE "BUY"

\* The order that closes a position, leaving the same share of each side.
CloseOf(p, alpha) ==
    Order(p.ticker, OtherSide(p.side), CloseQuantity(p.qty, alpha, Lot[p.ticker]))

LEMMA DayCloseAsked ==
    ASSUME NEW positions \in Seq(Orders), OnePerTicker(positions), NEW alpha \in Nat,
           NEW asked, asked = [i \in DOMAIN positions |-> CloseOf(positions[i], alpha)]
    PROVE  /\ asked \in Seq(Asked) /\ OnePerTicker(asked)
           /\ DayCloseOrders(positions, alpha, alpha) = Tradable(asked)
<1>1. DOMAIN positions = 1 .. Len(positions) /\ Len(positions) \in Nat
      /\ \A i \in DOMAIN positions : positions[i] \in Orders
  OBVIOUS
<1>2. ASSUME NEW p \in Orders
      PROVE  CloseOf(p, alpha) \in Asked /\ CloseOf(p, alpha).ticker = p.ticker
  <2>1. p.qty \in Nat /\ Lot[p.ticker] \in Nat \ {0}
    BY PlanningAssumption DEF Orders
  <2>2. CloseQuantity(p.qty, alpha, Lot[p.ticker]) \in Nat
    BY <2>1, CloseQuantityType
  <2>3. QED
    BY <2>2 DEF CloseOf, OtherSide, Asked, Order, Orders, Sides
<1>3. DOMAIN asked = DOMAIN positions
      /\ \A i \in DOMAIN positions : asked[i] = CloseOf(positions[i], alpha)
  OBVIOUS
<1>4. asked \in Seq(Asked)
  BY <1>1, <1>2
<1>5. OnePerTicker(asked)
  BY <1>1, <1>2, <1>3 DEF OnePerTicker
<1>6. DayCloseOrders(positions, alpha, alpha) = Tradable(asked)
  BY DEF DayCloseOrders, CloseOf, OtherSide
<1>7. QED
  BY <1>4, <1>5, <1>6

\* The orders of the close ask for its part of each position.
LEMMA DayCloseAsk ==
    ASSUME NEW positions \in Seq(Orders), OnePerTicker(positions), NEW alpha \in Nat,
           NEW t, NEW side \in Sides
    PROVE  /\ \A e \in DOMAIN positions : positions[e].ticker = t =>
                 Ask(DayCloseOrders(positions, alpha, alpha), t, side) =
                     IF positions[e].side = side THEN 0
                     ELSE CloseQuantity(positions[e].qty, alpha, Lot[t])
           /\ (\A e \in DOMAIN positions : positions[e].ticker # t) =>
                 Ask(DayCloseOrders(positions, alpha, alpha), t, side) = 0
<1> DEFINE asked == [i \in DOMAIN positions |-> CloseOf(positions[i], alpha)]
           closes == DayCloseOrders(positions, alpha, alpha)
<1>1. asked \in Seq(Asked) /\ OnePerTicker(asked) /\ closes = Tradable(asked)
  BY DayCloseAsked
<1>2. \A i \in DOMAIN positions : positions[i] \in Orders
  OBVIOUS
<1>3. DOMAIN asked = DOMAIN positions
      /\ \A i \in DOMAIN positions :
            /\ asked[i].ticker = positions[i].ticker
            /\ asked[i].side = OtherSide(positions[i].side)
            /\ asked[i].qty = CloseQuantity(positions[i].qty, alpha, Lot[positions[i].ticker])
  BY DEF CloseOf, Order
<1> HIDE DEF asked, closes
<1>4. Ask(closes, t, side) = Ask(asked, t, side)
  BY <1>1, TradableAsk DEF Ask
<1>5. ASSUME NEW e \in DOMAIN positions, positions[e].ticker = t
      PROVE  Ask(closes, t, side) = IF positions[e].side = side THEN 0
                                    ELSE CloseQuantity(positions[e].qty, alpha, Lot[t])
  <2>0. e \in DOMAIN asked /\ asked[e].ticker = t
    BY <1>3, <1>5
  <2>1. Ask(asked, t, side) = IF asked[e].side = side THEN asked[e].qty ELSE 0
    BY <1>1, <2>0, OneAsk
  <2>2. asked[e].side = side <=> positions[e].side # side
    BY <1>2, <1>3 DEF OtherSide, Sides, Orders
  <2>3. QED
    BY <1>3, <1>4, <1>5, <2>1, <2>2
<1>6. ASSUME \A e \in DOMAIN positions : positions[e].ticker # t
      PROVE  Ask(closes, t, side) = 0
  <2>1. \A i \in DOMAIN asked : asked[i].ticker # t
    BY <1>3, <1>6
  <2>2. Ask(asked, t, side) = 0
    BY <1>1, <2>1, NoAsk
  <2>3. QED
    BY <1>4, <2>2
<1>7. QED
  BY <1>5, <1>6 DEF closes

\* Each of them closes part of one position.
LEMMA DayCloseEach ==
    ASSUME NEW positions \in Seq(Orders), OnePerTicker(positions), NEW alpha \in Nat,
           NEW k \in DOMAIN DayCloseOrders(positions, alpha, alpha)
    PROVE  \E e \in DOMAIN positions :
              DayCloseOrders(positions, alpha, alpha)[k] = CloseOf(positions[e], alpha)
<1> DEFINE asked == [i \in DOMAIN positions |-> CloseOf(positions[i], alpha)]
           P == {i \in DOMAIN asked : asked[i].qty > 0}
<1>1. asked \in Seq(Asked) /\ DayCloseOrders(positions, alpha, alpha) = Entries(asked, P)
  BY DayCloseAsked DEF Tradable
<1>2. \A i \in DOMAIN asked : i \in DOMAIN positions /\ asked[i] = CloseOf(positions[i], alpha)
  OBVIOUS
<1> HIDE DEF asked, P
<1>3. \E i \in P \cap DOMAIN asked : Entries(asked, P)[k] = asked[i]
  BY <1>1, EntriesOf
<1>4. QED
  BY <1>1, <1>2, <1>3

-----------------------------------------------------------------------------
(***************************************************************************)
(* What one call of record_result_set does, for plans, attributions and    *)
(* results of any length.                                                  *)
(***************************************************************************)

AttributionStep(plan, saved, results, u, n) ==
    IF n = 0
    THEN [allocated |-> Allocated(plan, saved), saved |-> saved]
    ELSE Attribute(plan, u[n - 1], results[n])

\* The states a call goes through, from the stored attributions on.
LEMMA AttributionSteps ==
    ASSUME NEW plan, NEW saved, NEW results, Len(results) \in Nat
    PROVE  \E u : /\ u[0] = [allocated |-> Allocated(plan, saved), saved |-> saved]
                  /\ \A n \in Nat : n + 1 <= Len(results) =>
                        u[n + 1] = Attribute(plan, u[n], results[n + 1])
                  /\ RecordResultSet(plan, saved, results) = u[Len(results)].saved
<1> DEFINE Sol(N, u) ==
               u = [n \in 0 .. N |-> AttributionStep(plan, saved, results, u, n)]
           G == {N \in Nat : \E u : Sol(N, u)}
<1>1. 0 \in G
  <2> DEFINE u == [n \in 0 .. 0 |-> [allocated |-> Allocated(plan, saved),
                                     saved |-> saved]]
  <2>1. u = [n \in 0 .. 0 |-> AttributionStep(plan, saved, results, u, n)]
    BY DEF AttributionStep
  <2> HIDE DEF u
  <2>2. QED
    BY <2>1
<1>2. ASSUME NEW N \in Nat, N \in G PROVE N + 1 \in G
  <2>1. PICK u : Sol(N, u)
    BY <1>2
  <2> DEFINE w == [n \in 0 .. N + 1 |->
                      IF n \in 0 .. N THEN u[n]
                      ELSE AttributionStep(plan, saved, results, u, n)]
  <2>2. ASSUME NEW n \in 0 .. N + 1
        PROVE  w[n] = AttributionStep(plan, saved, results, w, n)
    <3>1. w[n] = AttributionStep(plan, saved, results, u, n)
      BY <2>1
    <3>2. n # 0 => w[n - 1] = u[n - 1]
      OBVIOUS
    <3> HIDE DEF w
    <3>3. QED
      BY <3>1, <3>2 DEF AttributionStep
  <2>3. w = [n \in 0 .. N + 1 |-> w[n]]
    OBVIOUS
  <2> HIDE DEF w
  <2>4. w = [n \in 0 .. N + 1 |-> AttributionStep(plan, saved, results, w, n)]
    BY <2>2, <2>3
  <2>5. QED
    BY <2>4
<1>3. Nat \subseteq G
  <2> HIDE DEF G
  <2>1. QED
    BY <1>1, <1>2, NatSetInduction
<1>4. PICK v : Sol(Len(results), v)
  BY <1>3
<1> DEFINE u == CHOOSE x : Sol(Len(results), x)
<1>5. Sol(Len(results), u)
  BY <1>4
<1>6. RecordResultSet(plan, saved, results) = u[Len(results)].saved
  BY DEF RecordResultSet, AttributionStep
<1> HIDE DEF u
<1>7. u[0] = [allocated |-> Allocated(plan, saved), saved |-> saved]
  BY <1>5 DEF AttributionStep
<1>8. ASSUME NEW n \in Nat, n + 1 <= Len(results)
      PROVE  u[n + 1] = Attribute(plan, u[n], results[n + 1])
  <2>1. n + 1 \in 0 .. Len(results) /\ n + 1 # 0 /\ (n + 1) - 1 = n
    BY <1>8
  <2>2. u[n + 1] = AttributionStep(plan, saved, results, u, n + 1)
    BY <1>5, <2>1
  <2>3. QED
    BY <2>1, <2>2 DEF AttributionStep
<1>9. QED
  BY <1>6, <1>7, <1>8

-----------------------------------------------------------------------------
\* The first intent with room is one with room.
LEMMA FirstFitHasRoom ==
    ASSUME NEW plan, DOMAIN plan \subseteq Nat, NEW allocated, NEW r,
           FirstFit(plan, allocated, r) # Unmapped
    PROVE  \E i \in DOMAIN plan :
              /\ FirstFit(plan, allocated, r) = i
              /\ plan[i].ticker = r.ticker /\ plan[i].side = r.side
              /\ allocated[i] + r.qty <= plan[i].qty
<1> DEFINE room == {i \in DOMAIN plan :
                       /\ plan[i].ticker = r.ticker
                       /\ plan[i].side = r.side
                       /\ allocated[i] + r.qty <= plan[i].qty}
<1>1. room # {} /\ FirstFit(plan, allocated, r) = Min(room)
  BY DEF FirstFit
<1>2. room \in SUBSET Nat
  OBVIOUS
<1>3. \E i \in room : \A k \in room : i <= k
  BY <1>1, <1>2, LeastNat
<1>4. Min(room) \in room
  BY <1>3 DEF Min
<1>5. QED
  BY <1>1, <1>4

\* An intent with room behind intents without is the first with room.
LEMMA FirstFitIs ==
    ASSUME NEW plan, DOMAIN plan \subseteq Nat, NEW allocated, NEW r,
           NEW own \in DOMAIN plan,
           plan[own].ticker = r.ticker, plan[own].side = r.side,
           allocated[own] + r.qty <= plan[own].qty,
           \A i \in DOMAIN plan :
              i < own /\ plan[i].ticker = r.ticker /\ plan[i].side = r.side
                  => ~(allocated[i] + r.qty <= plan[i].qty)
    PROVE  FirstFit(plan, allocated, r) = own
<1> DEFINE room == {i \in DOMAIN plan :
                       /\ plan[i].ticker = r.ticker
                       /\ plan[i].side = r.side
                       /\ allocated[i] + r.qty <= plan[i].qty}
<1>1. own \in room /\ room \in SUBSET Nat /\ \A i \in room : ~(i < own)
  OBVIOUS
<1>2. FirstFit(plan, allocated, r) = Min(room)
  BY <1>1 DEF FirstFit
<1> HIDE DEF room
<1>3. \A i \in room : own <= i
  BY <1>1
<1>4. \A i \in room : (\A k \in room : i <= k) => i = own
  BY <1>1, <1>3
<1>5. Min(room) = own
  BY <1>1, <1>3, <1>4 DEF Min
<1>6. QED
  BY <1>2, <1>5

-----------------------------------------------------------------------------
\* What a call may add to the attributions of an earlier one.
Extension(plan, saved, results, next) ==
    /\ next = [id \in DOMAIN next |-> next[id]]
    /\ \A id \in DOMAIN saved : id \in DOMAIN next /\ next[id] = saved[id]
    /\ \A id \in DOMAIN next \ DOMAIN saved :
          /\ id # NoId
          /\ next[id] = [intent |-> next[id].intent, qty |-> next[id].qty]
          /\ \E k \in DOMAIN results :
                /\ results[k].id = id
                /\ next[id].qty = results[k].qty
                /\ next[id].intent \in DOMAIN plan
                /\ plan[next[id].intent].ticker = results[k].ticker
                /\ plan[next[id].intent].side = results[k].side

\* No call takes an attribution back or changes one, and what it adds are
\* orders it was given, each under an intent of its ticker and side.
THEOREM RecordingExtends ==
    ASSUME NEW plan, DOMAIN plan \subseteq Nat \ {0},
           NEW saved, saved = [id \in DOMAIN saved |-> saved[id]],
           NEW S, NEW results \in Seq(S)
    PROVE  Extension(plan, saved, results, RecordResultSet(plan, saved, results))
<1>0. Len(results) \in Nat /\ DOMAIN results = 1 .. Len(results)
  OBVIOUS
<1>1. PICK u : /\ u[0] = [allocated |-> Allocated(plan, saved), saved |-> saved]
               /\ \A n \in Nat : n + 1 <= Len(results) =>
                     u[n + 1] = Attribute(plan, u[n], results[n + 1])
               /\ RecordResultSet(plan, saved, results) = u[Len(results)].saved
  BY <1>0, AttributionSteps
<1> DEFINE G == {n \in Nat : n <= Len(results)
                                => Extension(plan, saved, results, u[n].saved)}
<1>2. 0 \in G
  <2>1. u[0].saved = saved
    BY <1>1
  <2>2. QED
    BY <2>1 DEF Extension
<1>3. ASSUME NEW n \in Nat, n \in G PROVE n + 1 \in G
  <2> SUFFICES ASSUME n + 1 <= Len(results)
               PROVE  Extension(plan, saved, results, u[n + 1].saved)
    OBVIOUS
  <2> DEFINE r == results[n + 1]
             intent == FirstFit(plan, u[n].allocated, r)
             prev == u[n].saved
             next == u[n + 1].saved
  <2>1. Extension(plan, saved, results, prev) /\ n + 1 \in DOMAIN results
    BY <1>0, <1>3
  <2>2. u[n + 1] = Attribute(plan, u[n], r)
    BY <1>1
  <2>3. next = prev \/ /\ next = Attributed(prev, r, intent)
                       /\ r.id \notin DOMAIN prev /\ r.id # NoId /\ intent # Unmapped
    BY <2>2 DEF Attribute
  <2>4. CASE next = prev
    BY <2>1, <2>4
  <2>5. CASE /\ next = Attributed(prev, r, intent)
             /\ r.id \notin DOMAIN prev /\ r.id # NoId /\ intent # Unmapped
    <3>1. /\ intent \in DOMAIN plan
          /\ plan[intent].ticker = r.ticker /\ plan[intent].side = r.side
      <4>1. DOMAIN plan \subseteq Nat
        OBVIOUS
      <4>2. QED
        BY <2>5, <4>1, FirstFitHasRoom
    <3> HIDE DEF intent, prev, next
    <3>2. /\ DOMAIN next = DOMAIN prev \cup {r.id}
          /\ next = [id \in DOMAIN next |-> next[id]]
          /\ next[r.id] = [intent |-> intent, qty |-> r.qty]
          /\ \A id \in DOMAIN prev : next[id] = prev[id]
      BY <2>5 DEF Attributed
    <3> HIDE DEF r
    <3>3. \A id \in DOMAIN saved : id \in DOMAIN next /\ next[id] = saved[id]
      BY <2>1, <3>2 DEF Extension
    <3>4. ASSUME NEW id \in DOMAIN next \ DOMAIN saved
          PROVE  /\ id # NoId
                 /\ next[id] = [intent |-> next[id].intent, qty |-> next[id].qty]
                 /\ \E k \in DOMAIN results :
                       /\ results[k].id = id
                       /\ next[id].qty = results[k].qty
                       /\ next[id].intent \in DOMAIN plan
                       /\ plan[next[id].intent].ticker = results[k].ticker
                       /\ plan[next[id].intent].side = results[k].side
      <4>1. CASE id = r.id
        BY <2>1, <2>5, <3>1, <3>2, <4>1 DEF r
      <4>2. CASE id \in DOMAIN prev
        BY <2>1, <3>2, <4>2 DEF Extension
      <4>3. QED
        BY <3>2, <4>1, <4>2
    <3>5. Extension(plan, saved, results, next)
      BY <3>2, <3>3, <3>4 DEF Extension
    <3>6. QED
      BY <3>5 DEF next
  <2>6. QED
    BY <2>3, <2>4, <2>5
<1>4. Nat \subseteq G
  <2> HIDE DEF G
  <2>1. QED
    BY <1>2, <1>3, NatSetInduction
<1>5. Extension(plan, saved, results, u[Len(results)].saved)
  BY <1>0, <1>4
<1>6. QED
  BY <1>1, <1>5

\* Recording orders that are all known changes nothing.
THEOREM RecordingKnown ==
    ASSUME NEW plan, DOMAIN plan \subseteq Nat \ {0},
           NEW saved, saved = [id \in DOMAIN saved |-> saved[id]],
           NEW S, NEW results \in Seq(S),
           \A k \in DOMAIN results : results[k].id = NoId \/ results[k].id \in DOMAIN saved
    PROVE  RecordResultSet(plan, saved, results) = saved
<1> DEFINE next == RecordResultSet(plan, saved, results)
<1>1. Extension(plan, saved, results, next)
  BY RecordingExtends
<1> HIDE DEF next
<1>2. DOMAIN next = DOMAIN saved
  BY <1>1 DEF Extension
<1>3. next = saved
  BY <1>1, <1>2 DEF Extension
<1>4. QED
  BY <1>3 DEF next

-----------------------------------------------------------------------------
(***************************************************************************)
(* When first fit finds the intent an order is a part of.  own names that  *)
(* intent of every result of a list.                                       *)
(***************************************************************************)
\* What the results at the positions K ask for of intent i.
ShareOf(results, own, i) ==
    [k \in DOMAIN results |-> IF own[k] = i THEN results[k].qty ELSE 0]
Share(results, own, i, K) == SumFunctionOnSet(ShareOf(results, own, i), K)

\* Each result fits its own intent together with all others of that intent,
\* and any earlier intent of its ticker and side is used up by earlier results.
Packing(plan, saved, results, own) ==
    /\ own \in [DOMAIN results -> DOMAIN plan]
    /\ \A k \in DOMAIN results : /\ plan[own[k]].ticker = results[k].ticker
                                 /\ plan[own[k]].side = results[k].side
    /\ \A h, k \in DOMAIN results :
          results[h].id = results[k].id /\ results[h].id # NoId => h = k
    /\ saved = [id \in DOMAIN saved |-> saved[id]]
    /\ \A id \in DOMAIN saved : \E k \in DOMAIN results :
          /\ results[k].id = id /\ id # NoId
          /\ saved[id] = [intent |-> own[k], qty |-> results[k].qty]
    /\ \A i \in DOMAIN plan :
          plan[i].qty \in Int /\ Share(results, own, i, DOMAIN results) <= plan[i].qty
    /\ \A k \in DOMAIN results, i \in DOMAIN plan :
          i < own[k] /\ plan[i].ticker = results[k].ticker
                     /\ plan[i].side = results[k].side
              => Share(results, own, i, 1 .. k - 1) >= plan[i].qty

\* The positions whose results are counted after n of them.
Counted(saved, results, n) ==
    {k \in DOMAIN results : k <= n \/ results[k].id \in DOMAIN saved}

\* The attribution after n results.
PackedUpTo(plan, saved, results, own, state, n) ==
    /\ state.saved = [id \in DOMAIN state.saved |-> state.saved[id]]
    /\ \A id : id \in DOMAIN state.saved <=>
          \E k \in Counted(saved, results, n) : results[k].id = id /\ id # NoId
    /\ \A k \in Counted(saved, results, n) : results[k].id # NoId =>
          state.saved[results[k].id] = [intent |-> own[k], qty |-> results[k].qty]
    /\ state.allocated = [i \in DOMAIN plan |->
                             Share(results, own, i, Counted(saved, results, n))]

LEMMA ShareType ==
    ASSUME NEW S, NEW results \in Seq(S), \A k \in DOMAIN results : results[k].qty \in Nat,
           NEW own, NEW i
    PROVE  /\ IsFiniteSet(DOMAIN results)
           /\ \A k \in DOMAIN results : ShareOf(results, own, i)[k] \in Nat
           /\ \A K \in SUBSET (DOMAIN results) : Share(results, own, i, K) \in Nat
           /\ \A L \in SUBSET (DOMAIN results) : \A K \in SUBSET L :
                 Share(results, own, i, K) <= Share(results, own, i, L)
<1> DEFINE f == ShareOf(results, own, i)
<1>1. IsFiniteSet(DOMAIN results)
  <2>1. DOMAIN results = 1 .. Len(results) /\ Len(results) \in Nat
    OBVIOUS
  <2>2. QED
    BY <2>1, FS_Interval
<1>2. \A k \in DOMAIN results : f[k] \in Nat
  BY DEF ShareOf
<1> HIDE DEF f
<1>3. ASSUME NEW K \in SUBSET (DOMAIN results)
      PROVE  IsFiniteSet(K) /\ SumFunctionOnSet(f, K) \in Nat
  <2>1. IsFiniteSet(K)
    BY <1>1, FS_Subset
  <2>2. QED
    BY <1>2, <2>1, SumNat
<1>4. ASSUME NEW L \in SUBSET (DOMAIN results), NEW K \in SUBSET L
      PROVE  SumFunctionOnSet(f, K) <= SumFunctionOnSet(f, L)
  BY <1>2, <1>3, SumSubset
<1>5. QED
  BY <1>1, <1>2, <1>3, <1>4 DEF Share, f

\* What is stored is counted once, under the intents it was stored for.
LEMMA StoredShare ==
    ASSUME NEW plan, NEW saved, NEW S, NEW results \in Seq(S), NEW own,
           \A k \in DOMAIN results : results[k].qty \in Nat,
           Packing(plan, saved, results, own), NEW i \in DOMAIN plan
    PROVE  QuantityOf(saved, i) = Share(results, own, i, Counted(saved, results, 0))
<1> DEFINE D == DOMAIN saved
           C == Counted(saved, results, 0)
           f == ShareOf(results, own, i)
           g == [id \in D |-> IF saved[id].intent = i THEN saved[id].qty ELSE 0]
           m == [k \in C |-> results[k].id]
<1>1. \A k \in DOMAIN results : k \in C <=> results[k].id \in D
  BY DEF Counted
<1>2. C \in SUBSET (DOMAIN results)
  BY DEF Counted
<1>3. IsFiniteSet(C)
  BY <1>2, ShareType, FS_Subset
<1>4. \A id \in D : \E k \in C : /\ results[k].id = id /\ id # NoId
                                 /\ saved[id] = [intent |-> own[k], qty |-> results[k].qty]
  BY <1>1 DEF Packing
<1>5. \A h, k \in C : results[h].id = results[k].id => h = k
  <2> TAKE h, k \in C
  <2> HAVE results[h].id = results[k].id
  <2>1. results[h].id # NoId
    BY <1>1, <1>2, <1>4
  <2>2. QED
    BY <1>2, <2>1 DEF Packing
<1>6. ASSUME NEW k \in C PROVE f[k] \in Int /\ g[results[k].id] = f[k]
  <2>1. results[k].id \in D /\ k \in DOMAIN results
    BY <1>1, <1>2
  <2>2. saved[results[k].id] = [intent |-> own[k], qty |-> results[k].qty]
    BY <1>4, <1>5, <2>1
  <2>3. f[k] = IF own[k] = i THEN results[k].qty ELSE 0
    BY <2>1 DEF ShareOf
  <2>4. g[results[k].id] = IF own[k] = i THEN results[k].qty ELSE 0
    BY <2>1, <2>2
  <2> HIDE DEF f, g
  <2>5. QED
    BY <2>1, <2>3, <2>4
<1>7. /\ m \in [C -> D]
      /\ \A h, k \in C : m[h] = m[k] => h = k
      /\ \A id \in D : \E k \in C : m[k] = id
      /\ \A k \in C : f[k] \in Int /\ g[m[k]] = f[k]
  <2>1. \A k \in C : m[k] = results[k].id /\ m[k] \in D
    BY <1>1, <1>2
  <2>2. m \in [C -> D]
    BY <2>1
  <2>3. \A id \in D : \E k \in C : m[k] = id
    BY <1>4, <2>1
  <2> HIDE DEF m, g, f, C, D
  <2>4. \A h, k \in C : m[h] = m[k] => h = k
    BY <1>5, <2>1
  <2>5. \A k \in C : f[k] \in Int /\ g[m[k]] = f[k]
    BY <1>6, <2>1
  <2>6. QED
    BY <2>2, <2>3, <2>4, <2>5
<1> HIDE DEF m, g, f, C, D
<1>8. SumFunctionOnSet(g, D) = SumFunctionOnSet(f, C)
  BY <1>3, <1>7, SumRenamed
<1>9. QED
  BY <1>8 DEF QuantityOf, SumFunction, Share, g, f, C, D

\* One more result: it is known, or goes to its own intent.
LEMMA PackingStep ==
    ASSUME NEW plan, DOMAIN plan \subseteq Nat \ {0},
           NEW saved, NEW S, NEW results \in Seq(S), NEW own,
           \A k \in DOMAIN results : results[k].qty \in Nat \ {0},
           Packing(plan, saved, results, own),
           NEW n \in Nat, n + 1 \in DOMAIN results,
           NEW state, PackedUpTo(plan, saved, results, own, state, n)
    PROVE  PackedUpTo(plan, saved, results, own,
                      Attribute(plan, state, results[n + 1]), n + 1)
<1> DEFINE r == results[n + 1]
           C == Counted(saved, results, n)
           next == Attribute(plan, state, r)
           me == own[n + 1]
<1>0. DOMAIN results = 1 .. Len(results) /\ Len(results) \in Nat
      /\ \A k \in DOMAIN results : results[k].qty \in Nat
  OBVIOUS
<1>1. /\ C \in SUBSET (DOMAIN results) /\ me \in DOMAIN plan
      /\ Counted(saved, results, n + 1) = C \cup {n + 1}
  BY <1>0 DEF Counted, Packing
<1>2. /\ state.saved = [id \in DOMAIN state.saved |-> state.saved[id]]
      /\ \A id : id \in DOMAIN state.saved <=>
            \E k \in C : results[k].id = id /\ id # NoId
      /\ \A k \in C : results[k].id # NoId =>
            state.saved[results[k].id] = [intent |-> own[k], qty |-> results[k].qty]
      /\ state.allocated = [i \in DOMAIN plan |-> Share(results, own, i, C)]
  BY DEF PackedUpTo
<1>3. CASE r.id \in DOMAIN state.saved
  <2>1. PICK k \in C : results[k].id = r.id /\ r.id # NoId
    BY <1>2, <1>3
  <2>2. k = n + 1
    BY <1>1, <2>1 DEF Packing
  <2>3. Counted(saved, results, n + 1) = C
    BY <1>1, <2>1, <2>2
  <2>4. next = state
    BY <1>3 DEF Attribute
  <2> HIDE DEF C, next
  <2>5. PackedUpTo(plan, saved, results, own, next, n + 1)
    <3>1. PackedUpTo(plan, saved, results, own, state, n + 1)
      BY <1>2, <2>3 DEF PackedUpTo
    <3>2. QED
      BY <2>4, <3>1
  <2>6. QED
    BY <2>5 DEF next
<1>4. CASE r.id \notin DOMAIN state.saved
  <2>1. n + 1 \notin C
    <3> SUFFICES ASSUME n + 1 \in C PROVE FALSE
      OBVIOUS
    <3>1. r.id \in DOMAIN saved
      BY DEF Counted
    <3>2. r.id # NoId
      BY <3>1 DEF Packing
    <3>3. QED
      BY <1>2, <1>4, <3>2
  <2>2. \A i \in DOMAIN plan :
            /\ Share(results, own, i, C) \in Nat
            /\ Share(results, own, i, C \cup {n + 1})
                   = Share(results, own, i, C) + (IF i = me THEN r.qty ELSE 0)
    <3> TAKE i \in DOMAIN plan
    <3> DEFINE f == ShareOf(results, own, i)
    <3>0. /\ IsFiniteSet(DOMAIN results) /\ \A k \in DOMAIN results : f[k] \in Nat
          /\ Share(results, own, i, C) \in Nat
      BY <1>0, <1>1, ShareType
    <3>1. /\ IsFiniteSet(C) /\ \A k \in DOMAIN results : f[k] \in Int
          /\ Share(results, own, i, C) \in Nat
      <4>1. IsFiniteSet(C)
        BY <1>1, <3>0, FS_Subset
      <4> HIDE DEF f
      <4>2. QED
        BY <3>0, <4>1
    <3>2. f[n + 1] = IF me = i THEN r.qty ELSE 0
      BY DEF ShareOf
    <3> HIDE DEF f
    <3>3. SumFunctionOnSet(f, C \cup {n + 1}) = f[n + 1] + SumFunctionOnSet(f, C)
      BY <1>1, <2>1, <3>1, SumInsert
    <3>4. PICK x \in Nat : x = SumFunctionOnSet(f, C)
      BY <3>1 DEF Share, f
    <3>5. QED
      BY <3>1, <3>2, <3>3, <3>4, <1>0 DEF Share, f
  <2>3. FirstFit(plan, state.allocated, r) = me
    <3>1. state.allocated[me] + r.qty <= plan[me].qty
      <4>1. Share(results, own, me, C \cup {n + 1})
                <= Share(results, own, me, DOMAIN results)
        BY <1>0, <1>1, ShareType
      <4>2. /\ Share(results, own, me, DOMAIN results) <= plan[me].qty
            /\ plan[me].qty \in Int
        BY <1>1 DEF Packing
      <4>3. Share(results, own, me, DOMAIN results) \in Nat
        BY <1>0, ShareType
      <4>4. Share(results, own, me, C \cup {n + 1}) = Share(results, own, me, C) + r.qty
            /\ Share(results, own, me, C) \in Nat /\ r.qty \in Nat
        BY <1>0, <1>1, <2>2
      <4>5. state.allocated[me] = Share(results, own, me, C)
        BY <1>1, <1>2
      <4>6. QED
        BY <4>1, <4>2, <4>3, <4>4, <4>5
    <3>2. ASSUME NEW i \in DOMAIN plan, i < me, plan[i].ticker = r.ticker,
                 plan[i].side = r.side
          PROVE  ~(state.allocated[i] + r.qty <= plan[i].qty)
      <4>1. /\ Share(results, own, i, 1 .. (n + 1) - 1) >= plan[i].qty
            /\ plan[i].qty \in Int
        BY <3>2 DEF Packing
      <4>2. 1 .. (n + 1) - 1 \in SUBSET C
        BY <1>0 DEF Counted
      <4>3. Share(results, own, i, 1 .. (n + 1) - 1) <= Share(results, own, i, C)
        BY <1>0, <1>1, <4>2, ShareType
      <4>4. /\ state.allocated[i] = Share(results, own, i, C)
            /\ Share(results, own, i, C) \in Nat
        BY <1>2, <2>2
      <4>5. Share(results, own, i, 1 .. (n + 1) - 1) \in Nat /\ r.qty \in Nat \ {0}
        <5>1. 1 .. (n + 1) - 1 \in SUBSET (DOMAIN results)
          BY <1>1, <4>2
        <5>2. QED
          BY <1>0, <5>1, ShareType
      <4>6. QED
        BY <4>1, <4>3, <4>4, <4>5
    <3>3. plan[me].ticker = r.ticker /\ plan[me].side = r.side /\ DOMAIN plan \subseteq Nat
      BY DEF Packing
    <3> HIDE DEF r, me
    <3>4. QED
      BY <1>1, <3>1, <3>2, <3>3, FirstFitIs
  <2>4. /\ next.allocated = [state.allocated EXCEPT ![me] = @ + r.qty]
        /\ next.saved = IF r.id = NoId THEN state.saved
                        ELSE Attributed(state.saved, r, me)
    <3>1. me # Unmapped
      BY <1>1 DEF Unmapped
    <3>2. QED
      BY <1>4, <2>3, <3>1 DEF Attribute
  <2>5. next.allocated = [i \in DOMAIN plan |-> Share(results, own, i, C \cup {n + 1})]
    <3> DEFINE D == C \cup {n + 1}
    <3>0. me \in DOMAIN plan /\ r.qty \in Nat
      BY <1>0, <1>1
    <3>1. \A i \in DOMAIN plan : Share(results, own, i, D)
              = Share(results, own, i, C) + (IF i = me THEN r.qty ELSE 0)
          /\ Share(results, own, i, C) \in Nat
      BY <2>2
    <3> HIDE DEF C, D, me, r, next
    <3>2. next.allocated = [i \in DOMAIN plan |->
              IF i = me THEN Share(results, own, i, C) + r.qty
              ELSE Share(results, own, i, C)]
      BY <1>2, <2>4, <3>0
    <3>3. \A i \in DOMAIN plan : Share(results, own, i, D)
              = IF i = me THEN Share(results, own, i, C) + r.qty
                ELSE Share(results, own, i, C)
      BY <3>0, <3>1
    <3>4. next.allocated = [i \in DOMAIN plan |-> Share(results, own, i, D)]
      BY <3>2, <3>3
    <3>5. QED
      BY <3>4 DEF D
  <2> DEFINE D == Counted(saved, results, n + 1)
  <2>9. D = C \cup {n + 1}
    BY <1>1
  <2>10. next.allocated = [i \in DOMAIN plan |-> Share(results, own, i, D)]
    BY <2>5, <2>9
  <2> HIDE DEF next, me, C, D
  <2>6. CASE r.id = NoId
    <3>1. next.saved = state.saved
      BY <2>4, <2>6
    <3>2. \A k \in D : results[k].id # NoId => k \in C
      BY <2>6, <2>9
    <3>3. \A id : id \in DOMAIN next.saved <=>
              \E k \in D : results[k].id = id /\ id # NoId
      BY <1>2, <2>9, <3>1, <3>2
    <3>4. \A k \in D : results[k].id # NoId =>
              next.saved[results[k].id] = [intent |-> own[k], qty |-> results[k].qty]
      BY <1>2, <3>1, <3>2
    <3>5. QED
      BY <1>2, <2>10, <3>1, <3>3, <3>4 DEF PackedUpTo, D, next
  <2>7. CASE r.id # NoId
    <3>1. /\ DOMAIN next.saved = DOMAIN state.saved \cup {r.id}
          /\ next.saved = [id \in DOMAIN next.saved |-> next.saved[id]]
          /\ next.saved[r.id] = [intent |-> me, qty |-> r.qty]
          /\ \A id \in DOMAIN state.saved : next.saved[id] = state.saved[id]
      BY <1>4, <2>4, <2>7 DEF Attributed
    <3>2. \A id : id \in DOMAIN next.saved <=>
              \E k \in D : results[k].id = id /\ id # NoId
      BY <1>2, <2>7, <2>9, <3>1
    <3>3. ASSUME NEW k \in D, results[k].id # NoId
          PROVE  next.saved[results[k].id] = [intent |-> own[k], qty |-> results[k].qty]
      <4>1. CASE k = n + 1
        BY <3>1, <4>1 DEF me
      <4>2. CASE k \in C
        <5>1. results[k].id \in DOMAIN state.saved
          BY <1>2, <3>3, <4>2
        <5>2. QED
          BY <1>2, <3>1, <3>3, <4>2, <5>1
      <4>3. QED
        BY <2>9, <4>1, <4>2
    <3>4. QED
      BY <2>10, <3>1, <3>2, <3>3 DEF PackedUpTo, D, next
  <2>8. QED
    BY <2>6, <2>7
<1>5. QED
  BY <1>3, <1>4

\* The identified results are attributed, each under its own intent, and no
\* other order is.
Stored(s, known, own) ==
    /\ s = [id \in DOMAIN s |-> s[id]]
    /\ \A id : id \in DOMAIN s <=> \E k \in DOMAIN known : known[k].id = id /\ id # NoId
    /\ \A k \in DOMAIN known : known[k].id # NoId =>
          s[known[k].id] = [intent |-> own[k], qty |-> known[k].qty]

\* Every identified order of a packed list is attributed to its own intent.
THEOREM RecordingPacks ==
    ASSUME NEW plan, DOMAIN plan \subseteq Nat \ {0},
           NEW saved, NEW S, NEW results \in Seq(S), NEW own,
           \A k \in DOMAIN results : results[k].qty \in Nat \ {0},
           Packing(plan, saved, results, own),
           NEW next, next = RecordResultSet(plan, saved, results)
    PROVE  Stored(next, results, own)
<1>0. Len(results) \in Nat /\ DOMAIN results = 1 .. Len(results)
      /\ \A k \in DOMAIN results : results[k].qty \in Nat
  OBVIOUS
<1>1. PICK u : /\ u[0] = [allocated |-> Allocated(plan, saved), saved |-> saved]
               /\ \A n \in Nat : n + 1 <= Len(results) =>
                     u[n + 1] = Attribute(plan, u[n], results[n + 1])
               /\ RecordResultSet(plan, saved, results) = u[Len(results)].saved
  BY <1>0, AttributionSteps, SMTT(30)
<1> DEFINE G == {n \in Nat : n <= Len(results)
                                => PackedUpTo(plan, saved, results, own, u[n], n)}
<1>2. 0 \in G
  <2> DEFINE C == Counted(saved, results, 0)
  <2>1. u[0].saved = saved /\ u[0].allocated = Allocated(plan, saved)
    BY <1>1
  <2>2. \A k \in DOMAIN results : k \in C <=> results[k].id \in DOMAIN saved
    BY <1>0 DEF Counted
  <2>3. Allocated(plan, saved) = [i \in DOMAIN plan |-> Share(results, own, i, C)]
    BY <1>0, StoredShare DEF Allocated
  <2>4. C \subseteq DOMAIN results
    BY DEF Counted
  <2> HIDE DEF C
  <2>5. \A id : id \in DOMAIN saved <=> \E k \in C : results[k].id = id /\ id # NoId
    BY <2>2, <2>4 DEF Packing
  <2>6. ASSUME NEW k \in C, results[k].id # NoId
        PROVE  saved[results[k].id] = [intent |-> own[k], qty |-> results[k].qty]
    <3>1. PICK h \in DOMAIN results :
             /\ results[h].id = results[k].id
             /\ saved[results[k].id] = [intent |-> own[h], qty |-> results[h].qty]
      BY <2>2, <2>4, <2>6 DEF Packing
    <3>2. h = k
      BY <2>4, <2>6, <3>1 DEF Packing
    <3>3. QED
      BY <3>1, <3>2
  <2>7. PackedUpTo(plan, saved, results, own, u[0], 0)
    <3>1. saved = [id \in DOMAIN saved |-> saved[id]]
      BY DEF Packing
    <3>2. QED
      BY <2>1, <2>3, <2>5, <2>6, <3>1 DEF PackedUpTo, C
  <2>8. QED
    BY <2>7
<1>3. ASSUME NEW n \in Nat, n \in G PROVE n + 1 \in G
  <2> SUFFICES ASSUME n + 1 <= Len(results)
               PROVE  PackedUpTo(plan, saved, results, own, u[n + 1], n + 1)
    OBVIOUS
  <2>1. PackedUpTo(plan, saved, results, own, u[n], n) /\ n + 1 \in DOMAIN results
    BY <1>0, <1>3
  <2>2. u[n + 1] = Attribute(plan, u[n], results[n + 1])
    BY <1>1
  <2> HIDE DEF G
  <2>3. QED
    BY <2>1, <2>2, PackingStep
<1>4. Nat \subseteq G
  <2> HIDE DEF G
  <2>1. QED
    BY <1>2, <1>3, NatSetInduction
<1>5. PackedUpTo(plan, saved, results, own, u[Len(results)], Len(results))
  BY <1>0, <1>4
<1>6. Counted(saved, results, Len(results)) = DOMAIN results
  BY <1>0 DEF Counted
<1>7. QED
  <2>1. next = u[Len(results)].saved
    BY <1>1
  <2>2. QED
    BY <1>5, <1>6, <2>1 DEF PackedUpTo, Stored

=============================================================================
