---------------------------- MODULE SumTheorems ----------------------------
(***************************************************************************)
(* Induction over the subsets of a finite set, and the facts about sums    *)
(* over finite sets that the ledgers and the batch budgets rest on.        *)
(* SumFunctionOnSet is defined by a recursive function over the subsets of *)
(* the set; that there is such a function, and what it computes, is proved *)
(* here. A statement is made about the set of the subsets it holds of, so  *)
(* that the induction needs no operator as a parameter.                    *)
(***************************************************************************)
EXTENDS Functions, FiniteSetTheorems, WellFoundedInduction, TLAPS

Below == {ss \in Nat \X Nat : ss[1] < ss[2]}

\* A nonempty set of natural numbers has a least member.
LEMMA Least ==
    ASSUME NEW S \in SUBSET Nat, S # {}
    PROVE  \E m \in S : \A n \in S : m <= n
<1>1. IsWellFoundedOn(Below, Nat)
  BY NatLessThanWellFounded DEF OpToRel, Below
<1>2. PICK m \in S : \A n \in S : ~(<<n, m>> \in Below)
  BY <1>1, WFMin
<1>3. \A n \in S : <<n, m>> \in Below <=> n < m
  BY DEF Below
<1>4. \A n \in S : ~(n < m)
  BY <1>2, <1>3
<1>5. QED
  BY <1>4

\* What holds of a subset whenever it holds of all smaller ones holds of all.
LEMMA SubsetInduction ==
    ASSUME NEW S, IsFiniteSet(S), NEW Good,
           \A T \in SUBSET S : (\A U \in SUBSET T : U # T => U \in Good) => T \in Good
    PROVE  \A T \in SUBSET S : T \in Good
<1> SUFFICES ASSUME NEW V \in SUBSET S, V \notin Good
             PROVE  FALSE
  OBVIOUS
<1> DEFINE Bad == {T \in SUBSET S : T \notin Good}
           sizes == {Cardinality(T) : T \in Bad}
<1>1. \A T \in SUBSET S : IsFiniteSet(T) /\ Cardinality(T) \in Nat
  BY FS_Subset, FS_CardinalityType
<1>2. sizes \in SUBSET Nat /\ sizes # {}
  BY <1>1
<1>3. PICK m \in sizes : \A n \in sizes : m <= n
  BY <1>2, Least
<1>4. PICK T \in Bad : m = Cardinality(T)
  BY <1>3
<1>5. \A U \in SUBSET T : U # T => U \in Good
  <2> SUFFICES ASSUME NEW U \in SUBSET T, U # T, U \notin Good
               PROVE  FALSE
    OBVIOUS
  <2>1. IsFiniteSet(T) /\ Cardinality(T) \in Nat /\ Cardinality(U) \in Nat
    BY <1>1, <1>4
  <2>2. Cardinality(U) < Cardinality(T)
    <3>1. Cardinality(U) <= Cardinality(T)
      BY <2>1, FS_Subset
    <3>2. Cardinality(U) # Cardinality(T)
      BY <2>1, FS_Subset
    <3>3. QED
      BY <2>1, <3>1, <3>2
  <2>3. m <= Cardinality(U)
    BY <1>3
  <2>4. QED
    BY <1>4, <2>1, <2>2, <2>3
<1>6. QED
  BY <1>4, <1>5

\* A nonempty finite set of natural numbers has a greatest member.
LEMMA Greatest ==
    ASSUME NEW S \in SUBSET Nat, IsFiniteSet(S), S # {}
    PROVE  \E m \in S : \A n \in S : n <= m
<1>. DEFINE Good == {T \in SUBSET S : T # {} => \E m \in T : \A n \in T : n <= m}
<1>1. \A T \in SUBSET S : (\A U \in SUBSET T : U # T => U \in Good) => T \in Good
  <2>. SUFFICES ASSUME NEW T \in SUBSET S, \A U \in SUBSET T : U # T => U \in Good, T # {}
                PROVE  \E m \in T : \A n \in T : n <= m
    OBVIOUS
  <2>1. PICK x \in T : TRUE
    OBVIOUS
  <2>2. T \ {x} \in Good
    OBVIOUS
  <2>3. CASE T \ {x} = {}
    <3>1. \A n \in T : n = x
      BY <2>3
    <3>. QED
      BY <3>1
  <2>4. CASE T \ {x} # {}
    <3>1. PICK m \in T \ {x} : \A n \in T \ {x} : n <= m
      BY <2>2, <2>4
    <3>2. m \in Nat /\ x \in Nat /\ \A n \in T : n \in Nat
      BY <2>1
    <3>3. CASE x <= m
      BY <3>1, <3>3
    <3>4. CASE ~(x <= m)
      BY <2>1, <3>1, <3>2, <3>4
    <3>. QED
      BY <3>3, <3>4
  <2>. QED
    BY <2>3, <2>4
<1>. HIDE DEF Good
<1>2. S \in Good
  BY <1>1, SubsetInduction
<1>. QED
  BY <1>2 DEF Good
-----------------------------------------------------------------------------
(* The recursive function behind SumFunctionOnSet                          *)

\* The member a fold takes first.
Member(s) == CHOOSE x \in s : TRUE

\* One unfolding of the recursion.
Body(f, g, s) == IF s = {} THEN 0 ELSE f[Member(s)] + g[s \ {Member(s)}]

IsSummation(f, g, D) == g = [s \in D |-> Body(f, g, s)]

Summation(f, S) == CHOOSE g : IsSummation(f, g, SUBSET S)

\* The library's sum is the value of the recursive function at the whole set.
LEMMA Unfold ==
    ASSUME NEW f, NEW S
    PROVE  SumFunctionOnSet(f, S) = Summation(f, S)[S]
BY DEF SumFunctionOnSet, FoldFunctionOnSet, MapThenFoldSet, Summation, IsSummation, Body, Member

\* The member that a sum takes first is a member.
LEMMA AnyMember ==
    ASSUME NEW s, s # {}
    PROVE  Member(s) \in s
BY DEF Member

\* Two solutions of the recursion agree wherever both are defined.
LEMMA Agree ==
    ASSUME NEW f, NEW S, IsFiniteSet(S), NEW T \in SUBSET S, NEW g, NEW h,
           IsSummation(f, g, SUBSET S), IsSummation(f, h, SUBSET T)
    PROVE  g[T] = h[T]
<1> DEFINE Good == {W \in SUBSET T : g[W] = h[W]}
<1>1. IsFiniteSet(T)
  BY FS_Subset
<1>2. \A W \in SUBSET T : (\A U \in SUBSET W : U # W => U \in Good) => W \in Good
  <2> SUFFICES ASSUME NEW W \in SUBSET T, \A U \in SUBSET W : U # W => U \in Good
               PROVE  g[W] = h[W]
    OBVIOUS
  <2>1. g[W] = Body(f, g, W) /\ h[W] = Body(f, h, W)
    BY DEF IsSummation
  <2>2. CASE W = {}
    BY <2>1, <2>2 DEF Body
  <2>3. CASE W # {}
    <3>1. g[W \ {Member(W)}] = h[W \ {Member(W)}]
      BY <2>3, AnyMember
    <3>2. QED
      BY <2>1, <2>3, <3>1 DEF Body
  <2>4. QED
    BY <2>2, <2>3
<1> HIDE DEF Good
<1>3. T \in Good
  BY <1>1, <1>2, SubsetInduction
<1>4. QED
  BY <1>3 DEF Good

\* The recursion has a solution.
LEMMA Solvable ==
    ASSUME NEW f, NEW S, IsFiniteSet(S)
    PROVE  IsSummation(f, Summation(f, S), SUBSET S)
<1> DEFINE Good == {T \in SUBSET S : IsSummation(f, Summation(f, T), SUBSET T)}
<1>1. \A T \in SUBSET S : (\A U \in SUBSET T : U # T => U \in Good) => T \in Good
  <2> SUFFICES ASSUME NEW T \in SUBSET S, \A U \in SUBSET T : U # T => U \in Good
               PROVE  \E g : IsSummation(f, g, SUBSET T)
    BY DEF Summation
  <2> DEFINE At(U) == IF U = {} THEN 0 ELSE f[Member(U)] + Summation(f, U \ {Member(U)})[U \ {Member(U)}]
             g == [U \in SUBSET T |-> At(U)]
  <2>1. \A U \in SUBSET T : U # T => Summation(f, U)[U] = At(U)
    <3> SUFFICES ASSUME NEW U \in SUBSET T, U # T
                 PROVE  Summation(f, U)[U] = At(U)
      OBVIOUS
    <3>1. IsSummation(f, Summation(f, U), SUBSET U)
      OBVIOUS
    <3>2. Summation(f, U)[U] = Body(f, Summation(f, U), U)
      BY <3>1 DEF IsSummation
    <3>3. CASE U = {}
      BY <3>2, <3>3 DEF Body
    <3>4. CASE U # {}
      <4> DEFINE V == U \ {Member(U)}
      <4>1. V \in SUBSET U /\ V # T /\ V \in SUBSET T
        BY <3>4, AnyMember
      <4>2. IsSummation(f, Summation(f, V), SUBSET V)
        BY <4>1
      <4>3. IsFiniteSet(U)
        BY FS_Subset
      <4> HIDE DEF V, Good, At, g
      <4>4. Summation(f, U)[V] = Summation(f, V)[V]
        <5> DEFINE gu == Summation(f, U)
                   gv == Summation(f, V)
        <5>1. IsSummation(f, gu, SUBSET U) /\ IsSummation(f, gv, SUBSET V)
          BY <3>1, <4>2
        <5> HIDE DEF gu, gv
        <5>2. gu[V] = gv[V]
          BY <4>1, <4>3, <5>1, Agree
        <5>3. QED
          BY <5>2 DEF gu, gv
      <4>5. Summation(f, U)[U] = f[Member(U)] + Summation(f, U)[V]
        BY <3>2, <3>4 DEF Body, V
      <4>6. At(U) = f[Member(U)] + Summation(f, V)[V]
        BY <3>4 DEF At, V
      <4>7. QED
        BY <4>4, <4>5, <4>6
    <3>5. QED
      BY <3>3, <3>4
  <2>2. \A U \in SUBSET T : At(U) = Body(f, g, U)
    <3> SUFFICES ASSUME NEW U \in SUBSET T
                 PROVE  At(U) = Body(f, g, U)
      OBVIOUS
    <3>1. CASE U = {}
      BY <3>1 DEF Body
    <3>2. CASE U # {}
      <4>1. U \ {Member(U)} \in SUBSET T /\ U \ {Member(U)} # T
        BY <3>2, AnyMember
      <4>2. Summation(f, U \ {Member(U)})[U \ {Member(U)}] = g[U \ {Member(U)}]
        BY <2>1, <4>1
      <4>3. QED
        BY <3>2, <4>2 DEF Body
    <3>3. QED
      BY <3>1, <3>2
  <2>3. IsSummation(f, g, SUBSET T)
    BY <2>2 DEF IsSummation
  <2>4. QED
    BY <2>3
<1> HIDE DEF Good
<1>2. S \in Good
  BY <1>1, SubsetInduction
<1>3. QED
  BY <1>2 DEF Good
-----------------------------------------------------------------------------
(* What a sum is                                                           *)

\* The sum over no elements is zero.
LEMMA SumEmpty == \A f : SumFunctionOnSet(f, {}) = 0
<1> SUFFICES ASSUME NEW f
             PROVE  SumFunctionOnSet(f, {}) = 0
  OBVIOUS
<1>1. IsSummation(f, Summation(f, {}), SUBSET {})
  BY FS_EmptySet, Solvable
<1>2. QED
  BY <1>1, Unfold DEF IsSummation, Body

\* A sum is the value at the first member and the sum over the rest.
LEMMA SumStep ==
    ASSUME NEW f, NEW S, IsFiniteSet(S), S # {}
    PROVE  SumFunctionOnSet(f, S) = f[Member(S)] + SumFunctionOnSet(f, S \ {Member(S)})
<1> DEFINE T == S \ {Member(S)}
<1>1. T \in SUBSET S /\ IsFiniteSet(T)
  BY FS_Subset
<1>2. /\ IsSummation(f, Summation(f, S), SUBSET S)
      /\ IsSummation(f, Summation(f, T), SUBSET T)
  BY <1>1, Solvable
<1>3. Summation(f, S)[T] = Summation(f, T)[T]
  BY <1>1, <1>2, Agree
<1>4. Summation(f, S)[S] = f[Member(S)] + Summation(f, S)[T]
  BY <1>2 DEF IsSummation, Body
<1>5. QED
  BY <1>3, <1>4, Unfold

\* A sum of integers is an integer.
LEMMA SumType ==
    ASSUME NEW f, NEW S, IsFiniteSet(S), \A x \in S : f[x] \in Int
    PROVE  SumFunctionOnSet(f, S) \in Int
<1> DEFINE Good == {T \in SUBSET S : SumFunctionOnSet(f, T) \in Int}
<1>1. \A T \in SUBSET S : (\A U \in SUBSET T : U # T => U \in Good) => T \in Good
  <2> SUFFICES ASSUME NEW T \in SUBSET S, \A U \in SUBSET T : U # T => U \in Good
               PROVE  SumFunctionOnSet(f, T) \in Int
    OBVIOUS
  <2>1. CASE T = {}
    BY <2>1, SumEmpty
  <2>2. CASE T # {}
    <3>1. Member(T) \in T /\ IsFiniteSet(T)
      BY <2>2, AnyMember, FS_Subset
    <3>2. SumFunctionOnSet(f, T \ {Member(T)}) \in Int
      BY <3>1
    <3>3. QED
      BY <2>2, <3>1, <3>2, SumStep
  <2>3. QED
    BY <2>1, <2>2
<1> HIDE DEF Good
<1>2. S \in Good
  BY <1>1, SubsetInduction
<1>3. QED
  BY <1>2 DEF Good

\* Any member may be taken out first.
LEMMA SumRemove ==
    ASSUME NEW f, NEW S, IsFiniteSet(S), \A x \in S : f[x] \in Int, NEW x \in S
    PROVE  SumFunctionOnSet(f, S) = f[x] + SumFunctionOnSet(f, S \ {x})
<1> DEFINE Good == {T \in SUBSET S : \A y \in T :
                       SumFunctionOnSet(f, T) = f[y] + SumFunctionOnSet(f, T \ {y})}
<1>1. \A T \in SUBSET S : (\A U \in SUBSET T : U # T => U \in Good) => T \in Good
  <2> SUFFICES ASSUME NEW T \in SUBSET S, \A U \in SUBSET T : U # T => U \in Good, NEW y \in T
               PROVE  SumFunctionOnSet(f, T) = f[y] + SumFunctionOnSet(f, T \ {y})
    OBVIOUS
  <2> DEFINE a == Member(T)
  <2>1. a \in T /\ IsFiniteSet(T)
    BY AnyMember, FS_Subset
  <2>2. SumFunctionOnSet(f, T) = f[a] + SumFunctionOnSet(f, T \ {a})
    BY <2>1, SumStep
  <2> HIDE DEF a
  <2>3. CASE y = a
    BY <2>2, <2>3
  <2>4. CASE y # a
    <3>1. /\ y \in T \ {a} /\ T \ {a} \in Good
          /\ a \in T \ {y} /\ T \ {y} \in Good
      BY <2>1, <2>4
    <3>2. /\ SumFunctionOnSet(f, T \ {a}) = f[y] + SumFunctionOnSet(f, (T \ {a}) \ {y})
          /\ SumFunctionOnSet(f, T \ {y}) = f[a] + SumFunctionOnSet(f, (T \ {y}) \ {a})
      BY <3>1
    <3>3. (T \ {a}) \ {y} = (T \ {y}) \ {a}
      OBVIOUS
    <3>4. SumFunctionOnSet(f, (T \ {y}) \ {a}) \in Int
      <4> DEFINE W == (T \ {y}) \ {a}
      <4>1. W \in SUBSET S /\ IsFiniteSet(W)
        BY FS_Subset
      <4>2. \A z \in W : f[z] \in Int
        BY <4>1
      <4> HIDE DEF W
      <4>3. SumFunctionOnSet(f, W) \in Int
        BY <4>1, <4>2, SumType
      <4>4. QED
        BY <4>3 DEF W
    <3>5. f[a] \in Int /\ f[y] \in Int
      BY <2>1
    <3> DEFINE w == SumFunctionOnSet(f, (T \ {y}) \ {a})
               v == SumFunctionOnSet(f, T \ {y})
    <3>6. SumFunctionOnSet(f, T) = f[a] + (f[y] + w) /\ v = f[a] + w
      BY <2>2, <3>2, <3>3
    <3> HIDE DEF w, v
    <3>7. SumFunctionOnSet(f, T) = f[y] + v
      BY <3>4, <3>5, <3>6 DEF w
    <3>8. QED
      BY <3>7 DEF v
  <2>5. QED
    BY <2>3, <2>4
<1> HIDE DEF Good
<1>2. S \in Good
  BY <1>1, SubsetInduction
<1>3. QED
  BY <1>2 DEF Good

\* A new member adds its value.
LEMMA SumAdd ==
    ASSUME NEW f, NEW S, IsFiniteSet(S), NEW x, x \notin S, \A y \in S \cup {x} : f[y] \in Int
    PROVE  SumFunctionOnSet(f, S \cup {x}) = f[x] + SumFunctionOnSet(f, S)
<1> DEFINE T == S \cup {x}
<1>1. IsFiniteSet(T) /\ x \in T /\ T \ {x} = S
  BY FS_AddElement
<1>2. \A y \in T : f[y] \in Int
  OBVIOUS
<1> HIDE DEF T
<1>3. SumFunctionOnSet(f, T) = f[x] + SumFunctionOnSet(f, T \ {x})
  BY <1>1, <1>2, SumRemove
<1>4. QED
  BY <1>1, <1>3 DEF T

\* A sum depends on the values of the members alone.
LEMMA SumSame ==
    ASSUME NEW f, NEW g, NEW S, IsFiniteSet(S), \A x \in S : f[x] = g[x]
    PROVE  SumFunctionOnSet(f, S) = SumFunctionOnSet(g, S)
<1> DEFINE Good == {T \in SUBSET S : SumFunctionOnSet(f, T) = SumFunctionOnSet(g, T)}
<1>1. \A T \in SUBSET S : (\A U \in SUBSET T : U # T => U \in Good) => T \in Good
  <2> SUFFICES ASSUME NEW T \in SUBSET S, \A U \in SUBSET T : U # T => U \in Good
               PROVE  SumFunctionOnSet(f, T) = SumFunctionOnSet(g, T)
    OBVIOUS
  <2>1. CASE T = {}
    BY <2>1, SumEmpty
  <2>2. CASE T # {}
    <3>1. Member(T) \in T /\ IsFiniteSet(T)
      BY <2>2, AnyMember, FS_Subset
    <3>2. SumFunctionOnSet(f, T \ {Member(T)}) = SumFunctionOnSet(g, T \ {Member(T)})
      BY <3>1
    <3>3. /\ SumFunctionOnSet(f, T) = f[Member(T)] + SumFunctionOnSet(f, T \ {Member(T)})
          /\ SumFunctionOnSet(g, T) = g[Member(T)] + SumFunctionOnSet(g, T \ {Member(T)})
      BY <2>2, <3>1, SumStep
    <3>4. f[Member(T)] = g[Member(T)]
      BY <3>1
    <3>5. QED
      BY <3>2, <3>3, <3>4
  <2>3. QED
    BY <2>1, <2>2
<1> HIDE DEF Good
<1>2. S \in Good
  BY <1>1, SubsetInduction
<1>3. QED
  BY <1>2 DEF Good

\* Where one member's value changes, the sum changes by as much.
LEMMA SumChange ==
    ASSUME NEW f, NEW g, NEW S, IsFiniteSet(S), NEW x \in S,
           \A y \in S : f[y] \in Int /\ g[y] \in Int,
           \A y \in S \ {x} : f[y] = g[y]
    PROVE  SumFunctionOnSet(g, S) = SumFunctionOnSet(f, S) - f[x] + g[x]
<1> DEFINE T == S \ {x}
<1>1. IsFiniteSet(T) /\ \A y \in T : f[y] \in Int /\ f[y] = g[y]
  BY FS_Subset
<1>2. /\ SumFunctionOnSet(f, S) = f[x] + SumFunctionOnSet(f, T)
      /\ SumFunctionOnSet(g, S) = g[x] + SumFunctionOnSet(g, T)
  BY SumRemove
<1> HIDE DEF T
<1>3. SumFunctionOnSet(f, T) = SumFunctionOnSet(g, T) /\ SumFunctionOnSet(f, T) \in Int
  BY <1>1, SumSame, SumType
<1>4. f[x] \in Int /\ g[x] \in Int
  OBVIOUS
<1>5. QED
  BY <1>2, <1>3, <1>4

\* A sum of natural numbers is one, and a part of it is no greater.
LEMMA SumPart ==
    ASSUME NEW f, NEW S, IsFiniteSet(S), \A x \in S : f[x] \in Nat, NEW P \in SUBSET S
    PROVE  /\ SumFunctionOnSet(f, P) \in Nat
           /\ SumFunctionOnSet(f, S) \in Nat
           /\ SumFunctionOnSet(f, P) <= SumFunctionOnSet(f, S)
<1> DEFINE Good == {T \in SUBSET S : /\ SumFunctionOnSet(f, T) \in Nat
                                     /\ \A U \in SUBSET T :
                                           SumFunctionOnSet(f, U) <= SumFunctionOnSet(f, T)}
<1>1. \A T \in SUBSET S : (\A U \in SUBSET T : U # T => U \in Good) => T \in Good
  <2> SUFFICES ASSUME NEW T \in SUBSET S, \A U \in SUBSET T : U # T => U \in Good
               PROVE  T \in Good
    OBVIOUS
  <2>1. IsFiniteSet(T) /\ \A y \in T : f[y] \in Int
    BY FS_Subset
  <2>2. \A y \in T : /\ SumFunctionOnSet(f, T) = f[y] + SumFunctionOnSet(f, T \ {y})
                     /\ SumFunctionOnSet(f, T \ {y}) \in Nat
                     /\ T \ {y} \in Good
    BY <2>1, SumRemove
  <2>3. SumFunctionOnSet(f, T) \in Nat
    <3>1. CASE T = {}
      BY <3>1, SumEmpty
    <3>2. CASE T # {}
      <4>1. PICK y \in T : TRUE
        BY <3>2
      <4>2. f[y] \in Nat /\ SumFunctionOnSet(f, T \ {y}) \in Nat
        BY <2>2
      <4>3. SumFunctionOnSet(f, T) = f[y] + SumFunctionOnSet(f, T \ {y})
        BY <2>2
      <4>4. QED
        BY <4>2, <4>3
    <3>3. QED
      BY <3>1, <3>2
  <2>4. \A U \in SUBSET T : SumFunctionOnSet(f, U) <= SumFunctionOnSet(f, T)
    <3> SUFFICES ASSUME NEW U \in SUBSET T
                 PROVE  SumFunctionOnSet(f, U) <= SumFunctionOnSet(f, T)
      OBVIOUS
    <3>1. CASE U = T
      BY <2>3, <3>1
    <3>2. CASE U # T
      <4>1. PICK y \in T : y \notin U
        BY <3>2
      <4>2. U \in SUBSET (T \ {y}) /\ SumFunctionOnSet(f, U) \in Nat
        BY <3>2, <4>1
      <4>3. SumFunctionOnSet(f, U) <= SumFunctionOnSet(f, T \ {y})
        BY <2>2, <4>2
      <4>4. /\ SumFunctionOnSet(f, T) = f[y] + SumFunctionOnSet(f, T \ {y})
            /\ SumFunctionOnSet(f, T \ {y}) \in Nat
            /\ f[y] \in Nat
        BY <2>2
      <4> HIDE DEF Good
      <4>5. QED
        BY <4>2, <4>3, <4>4
    <3>3. QED
      BY <3>1, <3>2
  <2>5. QED
    BY <2>3, <2>4
<1> HIDE DEF Good
<1>2. \A T \in SUBSET S : T \in Good
  BY <1>1, SubsetInduction
<1>3. QED
  BY <1>2 DEF Good

\* Greater values sum to no less.
LEMMA SumMonotone ==
    ASSUME NEW f, NEW g, NEW S, IsFiniteSet(S),
           \A x \in S : f[x] \in Int /\ g[x] \in Int /\ f[x] <= g[x]
    PROVE  SumFunctionOnSet(f, S) <= SumFunctionOnSet(g, S)
<1> DEFINE Good == {T \in SUBSET S : SumFunctionOnSet(f, T) <= SumFunctionOnSet(g, T)}
<1>1. \A T \in SUBSET S : (\A U \in SUBSET T : U # T => U \in Good) => T \in Good
  <2> SUFFICES ASSUME NEW T \in SUBSET S, \A U \in SUBSET T : U # T => U \in Good
               PROVE  SumFunctionOnSet(f, T) <= SumFunctionOnSet(g, T)
    OBVIOUS
  <2>1. CASE T = {}
    BY <2>1, SumEmpty
  <2>2. CASE T # {}
    <3> DEFINE y == Member(T)
               R == T \ {y}
    <3>1. y \in T /\ IsFiniteSet(T) /\ IsFiniteSet(R)
      BY <2>2, AnyMember, FS_Subset
    <3>2. SumFunctionOnSet(f, R) <= SumFunctionOnSet(g, R)
      BY <3>1
    <3>3. /\ SumFunctionOnSet(f, T) = f[y] + SumFunctionOnSet(f, R)
          /\ SumFunctionOnSet(g, T) = g[y] + SumFunctionOnSet(g, R)
      BY <2>2, <3>1, SumStep
    <3>4. f[y] \in Int /\ g[y] \in Int /\ f[y] <= g[y]
      BY <3>1
    <3>5. SumFunctionOnSet(f, R) \in Int /\ SumFunctionOnSet(g, R) \in Int
      BY <3>1, SumType
    <3> HIDE DEF y, R, Good
    <3>6. QED
      BY <3>2, <3>3, <3>4, <3>5
  <2>3. QED
    BY <2>1, <2>2
<1> HIDE DEF Good
<1>2. S \in Good
  BY <1>1, SubsetInduction
<1>3. QED
  BY <1>2 DEF Good

\* Zeros sum to zero.
LEMMA SumZero ==
    ASSUME NEW f, NEW S, IsFiniteSet(S), \A x \in S : f[x] = 0
    PROVE  SumFunctionOnSet(f, S) = 0
<1> DEFINE Good == {T \in SUBSET S : SumFunctionOnSet(f, T) = 0}
<1>1. \A T \in SUBSET S : (\A U \in SUBSET T : U # T => U \in Good) => T \in Good
  <2> SUFFICES ASSUME NEW T \in SUBSET S, \A U \in SUBSET T : U # T => U \in Good
               PROVE  SumFunctionOnSet(f, T) = 0
    OBVIOUS
  <2>1. CASE T = {}
    BY <2>1, SumEmpty
  <2>2. CASE T # {}
    <3>1. Member(T) \in T /\ IsFiniteSet(T)
      BY <2>2, AnyMember, FS_Subset
    <3>2. SumFunctionOnSet(f, T \ {Member(T)}) = 0 /\ f[Member(T)] = 0
      BY <3>1
    <3>3. SumFunctionOnSet(f, T) = f[Member(T)] + SumFunctionOnSet(f, T \ {Member(T)})
      BY <2>2, <3>1, SumStep
    <3>4. QED
      BY <3>2, <3>3
  <2>3. QED
    BY <2>1, <2>2
<1> HIDE DEF Good
<1>2. S \in Good
  BY <1>1, SubsetInduction
<1>3. QED
  BY <1>2 DEF Good
=============================================================================
