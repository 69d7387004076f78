---------------------------- MODULE SumTheorems ----------------------------
(***************************************************************************)
(* What a sum over a finite set is, for every set and every function: the  *)
(* lemmas the other proof modules cite about SumFunction, with which the   *)
(* modules of the system total amounts, units and cash movements.          *)
(*                                                                         *)
(* The sum of the community modules is a recursive function, so its facts  *)
(* need an induction over finite sets.  It is done here by a least         *)
(* counterexample: strict inclusion is well founded on the finite sets, so *)
(* a set of counterexamples that is not empty has a minimal member.        *)
(*                                                                         *)
(* Its last section is the arithmetic of the commissions: what is left of  *)
(* an amount that is given back in parts, each of them rounded.            *)
(***************************************************************************)
EXTENDS Integers, Functions, FiniteSets, FiniteSetTheorems,
        WellFoundedInduction, TLAPS

\* The element the sum takes first.
SumPick(s) == CHOOSE x \in s : TRUE

\* `it' gives the sum of f over every subset of S.
IsSumTable(it, f, S) ==
    it = [s \in SUBSET S |-> IF s = {} THEN 0 ELSE f[SumPick(s)] + it[s \ {SumPick(s)}]]

\* The recursive function SumFunctionOnSet applies.
SumIter(f, S) == CHOOSE it : IsSumTable(it, f, S)

\* What is picked from a set that is not empty is one of its elements.
LEMMA SumPickIn ==
    ASSUME NEW s, s # {}
    PROVE  SumPick(s) \in s
BY DEF SumPick

\* A collection of subsets of a finite set has a member none of whose strict
\* subsets is in the collection.
LEMMA MinimalSubset ==
    ASSUME NEW S, IsFiniteSet(S), NEW D \in SUBSET SUBSET S, D # {}
    PROVE  \E m \in D : \A u \in SUBSET m : u # m => u \notin D
<1>1. IsWellFoundedOn(StrictSubsetOrdering(S), SUBSET S)
    BY FS_StrictSubsetOrderingWellFounded, FS_FiniteSubsetsOfFinite
<1>2. PICK m \in D : \A u \in D : ~ (<<u, m>> \in StrictSubsetOrdering(S))
    <2>. D \subseteq SUBSET S
        OBVIOUS
    <2>. QED BY <1>1, WFMin, Zenon
<1>3. ASSUME NEW u \in SUBSET m, u # m, u \in D
      PROVE  FALSE
    <2>1. <<u, m>> \in (SUBSET S) \X (SUBSET S)
        BY <1>3
    <2>2. <<u, m>> \in StrictSubsetOrdering(S)
        BY <2>1, <1>3 DEF StrictSubsetOrdering
    <2>. QED BY <2>2, <1>2, <1>3
<1>. QED BY <1>3

\* Two functions that give the sums of f agree where both are defined.
LEMMA SumsAgree ==
    ASSUME NEW f, NEW S, NEW T, NEW g, NEW h, IsFiniteSet(S),
           IsSumTable(g, f, S), IsSumTable(h, f, T),
           NEW s \in SUBSET S, s \in SUBSET T
    PROVE  g[s] = h[s]
<1>. DEFINE D == {u \in SUBSET s : g[u] # h[u]}
<1>1. SUFFICES ASSUME D # {} PROVE FALSE
    OBVIOUS
<1>2. IsFiniteSet(s)
    BY FS_Subset
<1>3. PICK m \in D : \A u \in SUBSET m : u # m => u \notin D
    <2>. D \in SUBSET SUBSET s
        OBVIOUS
    <2>. HIDE DEF D
    <2>. QED BY <1>1, <1>2, MinimalSubset
<1>4. m \in SUBSET S /\ m \in SUBSET T /\ g[m] # h[m]
    OBVIOUS
<1>5. /\ g[m] = IF m = {} THEN 0 ELSE f[SumPick(m)] + g[m \ {SumPick(m)}]
      /\ h[m] = IF m = {} THEN 0 ELSE f[SumPick(m)] + h[m \ {SumPick(m)}]
    BY <1>4, Zenon DEF IsSumTable
<1>6. m # {}
    BY <1>4, <1>5
<1>7. m \ {SumPick(m)} \in SUBSET m /\ m \ {SumPick(m)} # m
    BY <1>6, SumPickIn
<1>8. g[m \ {SumPick(m)}] = h[m \ {SumPick(m)}]
    BY <1>3, <1>7
<1>. QED BY <1>4, <1>5, <1>8

\* The recursion of the sum has a solution on every finite set.
LEMMA SumsExist ==
    ASSUME NEW f, NEW S, IsFiniteSet(S)
    PROVE  \E it : IsSumTable(it, f, S)
<1>. DEFINE D == {s \in SUBSET S : ~ \E it : IsSumTable(it, f, s)}
<1>1. SUFFICES ASSUME D # {} PROVE FALSE
    OBVIOUS
<1>2. PICK m \in D : \A u \in SUBSET m : u # m => u \notin D
    <2>. D \in SUBSET SUBSET S
        OBVIOUS
    <2>. HIDE DEF D
    <2>. QED BY <1>1, MinimalSubset
<1>. DEFINE G(s) == SumIter(f, s)
            it == [s \in SUBSET m |-> IF s = {} THEN 0
                     ELSE f[SumPick(s)] + G(s \ {SumPick(s)})[s \ {SumPick(s)}]]
<1>3. ASSUME NEW u \in SUBSET m, u # m
      PROVE  IsSumTable(G(u), f, u)
    <2>1. \E i : IsSumTable(i, f, u)
        BY <1>2, <1>3
    <2>. QED BY <2>1 DEF SumIter
<1>4. ASSUME NEW u \in SUBSET m, u # m
      PROVE  it[u] = G(u)[u]
    <2>1. G(u)[u] = IF u = {} THEN 0 ELSE f[SumPick(u)] + G(u)[u \ {SumPick(u)}]
        BY <1>3, <1>4, Zenon DEF IsSumTable
    <2>2. CASE u = {}
        BY <2>1, <2>2
    <2>3. CASE u # {}
        <3>. DEFINE v == u \ {SumPick(u)}
        <3>1. v \in SUBSET u /\ v # u /\ v \in SUBSET m /\ v # m
            BY <2>3, SumPickIn
        <3>2. IsSumTable(G(v), f, v) /\ IsSumTable(G(u), f, u)
            BY <3>1, <1>3, <1>4
        <3>3. IsFiniteSet(u)
            BY FS_Subset
        <3>4. G(u)[v] = G(v)[v]
            BY <3>1, <3>2, <3>3, SumsAgree
        <3>. QED BY <2>1, <2>3, <3>4
    <2>. QED BY <2>2, <2>3
<1>5. ASSUME NEW s \in SUBSET m, s # {}
      PROVE  G(s \ {SumPick(s)})[s \ {SumPick(s)}] = it[s \ {SumPick(s)}]
    <2>1. s \ {SumPick(s)} \in SUBSET m /\ s \ {SumPick(s)} # m
        BY <1>5, SumPickIn
    <2>. HIDE DEF it, G
    <2>. QED BY <2>1, <1>4
<1>6. IsSumTable(it, f, m)
    BY <1>5, Zenon DEF IsSumTable
<1>. QED BY <1>2, <1>6

\* The recursive function of the sum meets its own definition.
LEMMA IterSums ==
    ASSUME NEW f, NEW S, IsFiniteSet(S)
    PROVE  IsSumTable(SumIter(f, S), f, S)
BY SumsExist DEF SumIter

\* The sum of the community modules is the value of that function.
LEMMA SumIsIter ==
    ASSUME NEW f, NEW S
    PROVE  SumFunctionOnSet(f, S) = SumIter(f, S)[S]
BY Zenon DEF SumFunctionOnSet, FoldFunctionOnSet, MapThenFoldSet, SumIter, IsSumTable,
             SumPick
-----------------------------------------------------------------------------
(* The facts about sums *)

\* Nothing sums to zero.
THEOREM SumEmpty ==
    ASSUME NEW f
    PROVE  SumFunctionOnSet(f, {}) = 0
<1>1. IsSumTable(SumIter(f, {}), f, {})
    BY IterSums, FS_EmptySet
<1>2. SumIter(f, {})[{}] = 0
    BY <1>1, Zenon DEF IsSumTable
<1>. QED BY <1>2, SumIsIter

\* The sum adds the element it takes first to the sum of the others.
LEMMA SumPicked ==
    ASSUME NEW f, NEW S, IsFiniteSet(S), S # {}
    PROVE  SumFunctionOnSet(f, S) = f[SumPick(S)] + SumFunctionOnSet(f, S \ {SumPick(S)})
<1>. DEFINE R == S \ {SumPick(S)}
<1>1. IsSumTable(SumIter(f, S), f, S) /\ IsSumTable(SumIter(f, R), f, R)
    BY IterSums, FS_RemoveElement
<1>2. SumIter(f, S)[S] = f[SumPick(S)] + SumIter(f, S)[R]
    BY <1>1, Zenon DEF IsSumTable
<1>3. SumIter(f, S)[R] = SumIter(f, R)[R]
    BY <1>1, SumsAgree
<1>. QED BY <1>2, <1>3, SumIsIter

\* A sum of integers is an integer.
THEOREM SumInt ==
    ASSUME NEW f, NEW S, IsFiniteSet(S), \A x \in S : f[x] \in Int
    PROVE  SumFunctionOnSet(f, S) \in Int
<1>. DEFINE D == {s \in SUBSET S : SumFunctionOnSet(f, s) \notin Int}
<1>1. SUFFICES ASSUME D # {} PROVE FALSE
    OBVIOUS
<1>2. PICK m \in D : \A u \in SUBSET m : u # m => u \notin D
    <2>. D \in SUBSET SUBSET S
        OBVIOUS
    <2>. HIDE DEF D
    <2>. QED BY <1>1, MinimalSubset
<1>3. m \in SUBSET S /\ SumFunctionOnSet(f, m) \notin Int /\ IsFiniteSet(m)
    BY FS_Subset
<1>4. m # {}
    BY <1>3, SumEmpty
<1>5. SumPick(m) \in m
    BY <1>4, SumPickIn
<1>6. SumFunctionOnSet(f, m \ {SumPick(m)}) \in Int
    BY <1>2, <1>3, <1>5
<1>7. SumFunctionOnSet(f, m) = f[SumPick(m)] + SumFunctionOnSet(f, m \ {SumPick(m)})
    BY <1>3, <1>4, SumPicked
<1>. QED BY <1>3, <1>5, <1>6, <1>7

\* Any element may be taken out of a sum of integers, not only the first.
THEOREM SumRemove ==
    ASSUME NEW f, NEW S, IsFiniteSet(S), \A x \in S : f[x] \in Int, NEW e \in S
    PROVE  SumFunctionOnSet(f, S) = f[e] + SumFunctionOnSet(f, S \ {e})
<1>. DEFINE D == {s \in SUBSET S : \E x \in s :
                    SumFunctionOnSet(f, s) # f[x] + SumFunctionOnSet(f, s \ {x})}
<1>1. SUFFICES ASSUME D # {} PROVE FALSE
    OBVIOUS
<1>2. PICK m \in D : \A u \in SUBSET m : u # m => u \notin D
    <2>. D \in SUBSET SUBSET S
        OBVIOUS
    <2>. HIDE DEF D
    <2>. QED BY <1>1, MinimalSubset
<1>3. PICK x \in m : SumFunctionOnSet(f, m) # f[x] + SumFunctionOnSet(f, m \ {x})
    OBVIOUS
<1>. DEFINE p == SumPick(m)
            r == (m \ {p}) \ {x}
<1>4. m \in SUBSET S /\ IsFiniteSet(m) /\ p \in m
    BY FS_Subset, SumPickIn
<1>5. SumFunctionOnSet(f, m) = f[p] + SumFunctionOnSet(f, m \ {p})
    BY <1>4, SumPicked
<1>6. p # x
    BY <1>3, <1>5
<1>. HIDE DEF p
<1>7. m \ {p} \notin D /\ m \ {x} \notin D
    BY <1>2, <1>4
<1>8. SumFunctionOnSet(f, m \ {p}) = f[x] + SumFunctionOnSet(f, r)
    BY <1>4, <1>6, <1>7
<1>9. SumFunctionOnSet(f, m \ {x}) = f[p] + SumFunctionOnSet(f, r)
    <2>1. (m \ {x}) \ {p} = r
        OBVIOUS
    <2>. QED BY <2>1, <1>4, <1>6, <1>7
<1>10. SumFunctionOnSet(f, r) \in Int /\ f[p] \in Int /\ f[x] \in Int
    <2>1. IsFiniteSet(r) /\ \A y \in r : f[y] \in Int
        BY <1>4, FS_Subset
    <2>. QED BY <2>1, <1>4, SumInt
<1>. QED BY <1>3, <1>5, <1>8, <1>9, <1>10

\* Two functions with the same values on a set have the same sum over it.
THEOREM SumSame ==
    ASSUME NEW f, NEW g, NEW S, IsFiniteSet(S), \A x \in S : f[x] = g[x]
    PROVE  SumFunctionOnSet(f, S) = SumFunctionOnSet(g, S)
<1>. DEFINE D == {s \in SUBSET S : SumFunctionOnSet(f, s) # SumFunctionOnSet(g, s)}
<1>1. SUFFICES ASSUME D # {} PROVE FALSE
    OBVIOUS
<1>2. PICK m \in D : \A u \in SUBSET m : u # m => u \notin D
    <2>. D \in SUBSET SUBSET S
        OBVIOUS
    <2>. HIDE DEF D
    <2>. QED BY <1>1, MinimalSubset
<1>3. m \in SUBSET S /\ SumFunctionOnSet(f, m) # SumFunctionOnSet(g, m) /\ IsFiniteSet(m)
    BY FS_Subset
<1>4. m # {}
    BY <1>3, SumEmpty
<1>5. SumPick(m) \in m
    BY <1>4, SumPickIn
<1>6. SumFunctionOnSet(f, m \ {SumPick(m)}) = SumFunctionOnSet(g, m \ {SumPick(m)})
    BY <1>2, <1>3, <1>5
<1>7. /\ SumFunctionOnSet(f, m) = f[SumPick(m)] + SumFunctionOnSet(f, m \ {SumPick(m)})
      /\ SumFunctionOnSet(g, m) = g[SumPick(m)] + SumFunctionOnSet(g, m \ {SumPick(m)})
    BY <1>3, <1>4, SumPicked
<1>. QED BY <1>3, <1>5, <1>6, <1>7

\* Where one function is at most another, so is its sum.
THEOREM SumMonotonic ==
    ASSUME NEW f, NEW g, NEW S, IsFiniteSet(S),
           \A x \in S : f[x] \in Int /\ g[x] \in Int /\ f[x] <= g[x]
    PROVE  SumFunctionOnSet(f, S) <= SumFunctionOnSet(g, S)
<1>. DEFINE D == {s \in SUBSET S : ~ (SumFunctionOnSet(f, s) <= SumFunctionOnSet(g, s))}
<1>1. SUFFICES ASSUME D # {} PROVE FALSE
    OBVIOUS
<1>2. PICK m \in D : \A u \in SUBSET m : u # m => u \notin D
    <2>. D \in SUBSET SUBSET S
        OBVIOUS
    <2>. HIDE DEF D
    <2>. QED BY <1>1, MinimalSubset
<1>3. /\ m \in SUBSET S /\ IsFiniteSet(m)
      /\ ~ (SumFunctionOnSet(f, m) <= SumFunctionOnSet(g, m))
    BY FS_Subset
<1>4. m # {}
    BY <1>3, SumEmpty
<1>. DEFINE p == SumPick(m)
            r == m \ {p}
<1>5. p \in m
    BY <1>4, SumPickIn
<1>6. SumFunctionOnSet(f, r) <= SumFunctionOnSet(g, r)
    BY <1>2, <1>3, <1>5
<1>7. /\ SumFunctionOnSet(f, m) = f[p] + SumFunctionOnSet(f, r)
      /\ SumFunctionOnSet(g, m) = g[p] + SumFunctionOnSet(g, r)
    BY <1>3, <1>4, SumPicked
<1>8. SumFunctionOnSet(f, r) \in Int /\ SumFunctionOnSet(g, r) \in Int
    <2>1. IsFiniteSet(r) /\ \A x \in r : f[x] \in Int /\ g[x] \in Int
        BY <1>3, FS_RemoveElement
    <2>. QED BY <2>1, SumInt
<1>. QED BY <1>3, <1>5, <1>6, <1>7, <1>8

\* A sum with one value replaced: the old one out, the new one in.
THEOREM SumReplace ==
    ASSUME NEW f, NEW g, NEW S, IsFiniteSet(S), NEW e \in S,
           \A x \in S : f[x] \in Int /\ g[x] \in Int,
           \A x \in S \ {e} : g[x] = f[x]
    PROVE  SumFunctionOnSet(g, S) = SumFunctionOnSet(f, S) - f[e] + g[e]
<1>. DEFINE R == S \ {e}
<1>1. IsFiniteSet(R)
    BY FS_RemoveElement
<1>2. SumFunctionOnSet(g, R) = SumFunctionOnSet(f, R)
    BY <1>1, SumSame
<1>3. /\ SumFunctionOnSet(f, S) = f[e] + SumFunctionOnSet(f, R)
      /\ SumFunctionOnSet(g, S) = g[e] + SumFunctionOnSet(g, R)
    BY SumRemove
<1>4. SumFunctionOnSet(f, R) \in Int
    BY <1>1, SumInt
<1>. QED BY <1>2, <1>3, <1>4

\* A sum over one more element.
THEOREM SumAdd ==
    ASSUME NEW f, NEW S, IsFiniteSet(S), NEW e, e \notin S,
           \A x \in S \cup {e} : f[x] \in Int
    PROVE  SumFunctionOnSet(f, S \cup {e}) = f[e] + SumFunctionOnSet(f, S)
<1>1. IsFiniteSet(S \cup {e}) /\ (S \cup {e}) \ {e} = S
    BY FS_AddElement
<1>. QED BY <1>1, SumRemove

\* A sum of natural numbers is a natural number.
THEOREM SumNat ==
    ASSUME NEW f, NEW S, IsFiniteSet(S), \A x \in S : f[x] \in Nat
    PROVE  SumFunctionOnSet(f, S) \in Nat
<1>. DEFINE D == {s \in SUBSET S : SumFunctionOnSet(f, s) \notin Nat}
<1>1. SUFFICES ASSUME D # {} PROVE FALSE
    OBVIOUS
<1>2. PICK m \in D : \A u \in SUBSET m : u # m => u \notin D
    <2>. D \in SUBSET SUBSET S
        OBVIOUS
    <2>. HIDE DEF D
    <2>. QED BY <1>1, MinimalSubset
<1>3. m \in SUBSET S /\ SumFunctionOnSet(f, m) \notin Nat /\ IsFiniteSet(m)
    BY FS_Subset
<1>4. m # {}
    BY <1>3, SumEmpty
<1>5. SumPick(m) \in m
    BY <1>4, SumPickIn
<1>6. SumFunctionOnSet(f, m \ {SumPick(m)}) \in Nat
    BY <1>2, <1>3, <1>5
<1>7. SumFunctionOnSet(f, m) = f[SumPick(m)] + SumFunctionOnSet(f, m \ {SumPick(m)})
    BY <1>3, <1>4, SumPicked
<1>. QED BY <1>3, <1>5, <1>6, <1>7

\* The sum over two sets that have nothing in common is the sum of their sums.
THEOREM SumUnion ==
    ASSUME NEW f, NEW S, NEW T, IsFiniteSet(S), IsFiniteSet(T), S \cap T = {},
           \A x \in S \cup T : f[x] \in Int
    PROVE  SumFunctionOnSet(f, S \cup T) = SumFunctionOnSet(f, S) + SumFunctionOnSet(f, T)
<1>. DEFINE D == {t \in SUBSET T :
        SumFunctionOnSet(f, S \cup t) # SumFunctionOnSet(f, S) + SumFunctionOnSet(f, t)}
<1>1. SUFFICES ASSUME D # {} PROVE FALSE
    OBVIOUS
<1>2. PICK m \in D : \A u \in SUBSET m : u # m => u \notin D
    <2>. D \in SUBSET SUBSET T
        OBVIOUS
    <2>. HIDE DEF D
    <2>. QED BY <1>1, MinimalSubset
<1>3. m \in SUBSET T /\ IsFiniteSet(m) /\ IsFiniteSet(S \cup m)
    BY FS_Subset, FS_Union
<1>4. SumFunctionOnSet(f, S \cup m) # SumFunctionOnSet(f, S) + SumFunctionOnSet(f, m)
    OBVIOUS
<1>5. SumFunctionOnSet(f, S) \in Int
    BY SumInt
<1>6. m # {}
    <2>1. ASSUME m = {} PROVE FALSE
        <3>1. S \cup m = S
            BY <2>1
        <3>2. SumFunctionOnSet(f, m) = 0
            BY <2>1, SumEmpty
        <3>3. SumFunctionOnSet(f, S \cup m) = SumFunctionOnSet(f, S)
            BY <3>1, Zenon
        <3>. HIDE DEF D
        <3>. QED BY <1>4, <1>5, <3>2, <3>3
    <2>. QED BY <2>1
<1>7. PICK e : e \in m
    BY <1>6
<1>. DEFINE r == m \ {e}
<1>8. SumFunctionOnSet(f, S \cup r) = SumFunctionOnSet(f, S) + SumFunctionOnSet(f, r)
    BY <1>2, <1>3, <1>7
<1>9. /\ SumFunctionOnSet(f, m) = f[e] + SumFunctionOnSet(f, r)
      /\ SumFunctionOnSet(f, S \cup m) = f[e] + SumFunctionOnSet(f, S \cup r)
    <2>1. (S \cup m) \ {e} = S \cup r /\ e \in S \cup m
        BY <1>3, <1>7
    <2>2. \A x \in S \cup m : f[x] \in Int
        BY <1>3
    <2>. QED BY <1>3, <1>7, <2>1, <2>2, SumRemove
<1>10. SumFunctionOnSet(f, r) \in Int /\ f[e] \in Int
    <2>1. IsFiniteSet(r) /\ \A x \in r : f[x] \in Int
        BY <1>3, FS_RemoveElement
    <2>. QED BY <2>1, <1>3, <1>7, SumInt
<1>. HIDE DEF r
<1>. QED BY <1>4, <1>5, <1>8, <1>9, <1>10

\* What is summed over a part is at most the whole, and an element left out of
\* the part is missing from it in full.
THEOREM SumOfPart ==
    ASSUME NEW f, NEW S, IsFiniteSet(S), \A x \in S : f[x] \in Nat, NEW P \in SUBSET S
    PROVE  /\ SumFunctionOnSet(f, P) <= SumFunctionOnSet(f, S)
           /\ \A e \in S \ P : SumFunctionOnSet(f, P) + f[e] <= SumFunctionOnSet(f, S)
<1>1. IsFiniteSet(P) /\ IsFiniteSet(S \ P)
    BY FS_Subset
<1>2. SumFunctionOnSet(f, P) \in Nat /\ SumFunctionOnSet(f, S \ P) \in Nat
    BY <1>1, SumNat
<1>3. SumFunctionOnSet(f, S) = SumFunctionOnSet(f, P) + SumFunctionOnSet(f, S \ P)
    <2>1. P \cup (S \ P) = S /\ P \cap (S \ P) = {}
        OBVIOUS
    <2>2. \A x \in P \cup (S \ P) : f[x] \in Int
        OBVIOUS
    <2>. QED BY <1>1, <2>1, <2>2, SumUnion
<1>4. ASSUME NEW e \in S \ P
      PROVE  SumFunctionOnSet(f, S \ P) >= f[e]
    <2>1. SumFunctionOnSet(f, S \ P) = f[e] + SumFunctionOnSet(f, (S \ P) \ {e})
        BY <1>1, SumRemove
    <2>2. SumFunctionOnSet(f, (S \ P) \ {e}) \in Nat
        <3>1. IsFiniteSet((S \ P) \ {e}) /\ \A x \in (S \ P) \ {e} : f[x] \in Nat
            BY <1>1, FS_RemoveElement
        <3>. QED BY <3>1, SumNat
    <2>. QED BY <2>1, <2>2
<1>5. SumFunctionOnSet(f, P) <= SumFunctionOnSet(f, S)
    BY <1>2, <1>3
<1>6. ASSUME NEW e \in S \ P
      PROVE  SumFunctionOnSet(f, P) + f[e] <= SumFunctionOnSet(f, S)
    <2>1. f[e] \in Nat
        OBVIOUS
    <2>. QED BY <2>1, <1>2, <1>3, <1>4
<1>. QED BY <1>5, <1>6

\* The sum of a sum of two functions.
THEOREM SumPlus ==
    ASSUME NEW f, NEW g, NEW h, NEW S, IsFiniteSet(S),
           \A x \in S : f[x] \in Int /\ g[x] \in Int /\ h[x] = f[x] + g[x]
    PROVE  SumFunctionOnSet(h, S) = SumFunctionOnSet(f, S) + SumFunctionOnSet(g, S)
<1>. DEFINE D == {s \in SUBSET S : SumFunctionOnSet(h, s) # SumFunctionOnSet(f, s) + SumFunctionOnSet(g, s)}
<1>1. SUFFICES ASSUME D # {} PROVE FALSE
    OBVIOUS
<1>2. PICK m \in D : \A u \in SUBSET m : u # m => u \notin D
    <2>. D \in SUBSET SUBSET S
        OBVIOUS
    <2>. HIDE DEF D
    <2>. QED BY <1>1, MinimalSubset
<1>3. /\ m \in SUBSET S /\ IsFiniteSet(m)
      /\ SumFunctionOnSet(h, m) # SumFunctionOnSet(f, m) + SumFunctionOnSet(g, m)
    BY FS_Subset
<1>4. m # {}
    BY <1>3, SumEmpty
<1>. DEFINE p == SumPick(m)
            r == m \ {p}
<1>5. p \in m
    BY <1>4, SumPickIn
<1>6. SumFunctionOnSet(h, r) = SumFunctionOnSet(f, r) + SumFunctionOnSet(g, r)
    BY <1>2, <1>3, <1>5
<1>7. /\ SumFunctionOnSet(f, m) = f[p] + SumFunctionOnSet(f, r)
      /\ SumFunctionOnSet(g, m) = g[p] + SumFunctionOnSet(g, r)
      /\ SumFunctionOnSet(h, m) = h[p] + SumFunctionOnSet(h, r)
    BY <1>3, <1>4, SumPicked
<1>8. SumFunctionOnSet(f, r) \in Int /\ SumFunctionOnSet(g, r) \in Int
    <2>1. IsFiniteSet(r) /\ \A x \in r : f[x] \in Int /\ g[x] \in Int
        BY <1>3, FS_RemoveElement
    <2>. QED BY <2>1, SumInt
<1>. HIDE DEF p, r
<1>9. f[p] \in Int /\ g[p] \in Int /\ h[p] = f[p] + g[p]
    BY <1>3, <1>5
<1>. QED BY <1>3, <1>6, <1>7, <1>8, <1>9

\* The sum of a multiple of a function.
THEOREM SumScaled ==
    ASSUME NEW f, NEW g, NEW S, IsFiniteSet(S), NEW c \in Int,
           \A x \in S : f[x] \in Int /\ g[x] = f[x] * c
    PROVE  SumFunctionOnSet(g, S) = SumFunctionOnSet(f, S) * c
<1>. DEFINE D == {s \in SUBSET S : SumFunctionOnSet(g, s) # SumFunctionOnSet(f, s) * c}
<1>1. SUFFICES ASSUME D # {} PROVE FALSE
    OBVIOUS
<1>2. PICK m \in D : \A u \in SUBSET m : u # m => u \notin D
    <2>. D \in SUBSET SUBSET S
        OBVIOUS
    <2>. HIDE DEF D
    <2>. QED BY <1>1, MinimalSubset
<1>3. /\ m \in SUBSET S /\ IsFiniteSet(m)
      /\ SumFunctionOnSet(g, m) # SumFunctionOnSet(f, m) * c
    BY FS_Subset
<1>4. m # {}
    <2>1. 0 * c = 0
        OBVIOUS
    <2>2. SumFunctionOnSet(f, {}) = 0 /\ SumFunctionOnSet(g, {}) = 0
        BY SumEmpty
    <2>. QED BY <1>3, <2>1, <2>2
<1>. DEFINE p == SumPick(m)
            r == m \ {p}
<1>5. p \in m
    BY <1>4, SumPickIn
<1>6. SumFunctionOnSet(g, r) = SumFunctionOnSet(f, r) * c
    BY <1>2, <1>3, <1>5
<1>7. /\ SumFunctionOnSet(f, m) = f[p] + SumFunctionOnSet(f, r)
      /\ SumFunctionOnSet(g, m) = g[p] + SumFunctionOnSet(g, r)
    BY <1>3, <1>4, SumPicked
<1>8. SumFunctionOnSet(f, r) \in Int
    <2>1. IsFiniteSet(r) /\ \A x \in r : f[x] \in Int
        BY <1>3, FS_RemoveElement
    <2>. QED BY <2>1, SumInt
<1>. HIDE DEF p, r
<1>9. f[p] \in Int /\ g[p] = f[p] * c
    BY <1>3, <1>5
<1>10. (f[p] + SumFunctionOnSet(f, r)) * c = f[p] * c + SumFunctionOnSet(f, r) * c
    BY <1>8, <1>9
<1>. QED BY <1>3, <1>6, <1>7, <1>9, <1>10

\* A sum of zeros and ones counts the ones.
THEOREM SumCounts ==
    ASSUME NEW f, NEW S, IsFiniteSet(S), \A x \in S : f[x] \in {0, 1}
    PROVE  SumFunctionOnSet(f, S) = Cardinality({x \in S : f[x] = 1})
<1>. DEFINE D == {s \in SUBSET S : SumFunctionOnSet(f, s) # Cardinality({x \in s : f[x] = 1})}
<1>1. SUFFICES ASSUME D # {} PROVE FALSE
    OBVIOUS
<1>2. PICK m \in D : \A u \in SUBSET m : u # m => u \notin D
    <2>. D \in SUBSET SUBSET S
        OBVIOUS
    <2>. HIDE DEF D
    <2>. QED BY <1>1, MinimalSubset
<1>3. /\ m \in SUBSET S /\ IsFiniteSet(m)
      /\ SumFunctionOnSet(f, m) # Cardinality({x \in m : f[x] = 1})
    BY FS_Subset
<1>4. m # {}
    BY <1>3, SumEmpty, FS_EmptySet
<1>. DEFINE p == SumPick(m)
            r == m \ {p}
            ones(s) == {x \in s : f[x] = 1}
<1>5. p \in m
    BY <1>4, SumPickIn
<1>6. SumFunctionOnSet(f, r) = Cardinality(ones(r))
    BY <1>2, <1>3, <1>5
<1>7. SumFunctionOnSet(f, m) = f[p] + SumFunctionOnSet(f, r)
    BY <1>3, <1>4, SumPicked
<1>8. IsFiniteSet(ones(r)) /\ p \notin ones(r) /\ Cardinality(ones(r)) \in Nat
    <2>1. IsFiniteSet(r) /\ ones(r) \in SUBSET r /\ p \notin ones(r)
        BY <1>3, FS_RemoveElement
    <2>. HIDE DEF ones, r
    <2>2. IsFiniteSet(ones(r))
        BY <2>1, FS_Subset
    <2>. QED BY <2>1, <2>2, FS_CardinalityType
<1>9. CASE f[p] = 1
    <2>1. ones(m) = ones(r) \cup {p}
        BY <1>5, <1>9
    <2>2. Cardinality(ones(r) \cup {p}) = Cardinality(ones(r)) + 1
        BY <1>8, FS_AddElement
    <2>. QED BY <1>3, <1>6, <1>7, <1>8, <1>9, <2>1, <2>2
<1>10. CASE f[p] = 0
    <2>1. ones(m) = ones(r)
        BY <1>5, <1>10
    <2>. QED BY <1>3, <1>6, <1>7, <1>8, <1>10, <2>1
<1>. QED BY <1>3, <1>5, <1>9, <1>10

\* A sum of values below a bound is below as many bounds.
THEOREM SumBelow ==
    ASSUME NEW f, NEW S, IsFiniteSet(S), NEW c \in Int,
           \A x \in S : f[x] \in Int /\ f[x] <= c
    PROVE  SumFunctionOnSet(f, S) <= Cardinality(S) * c
<1>. DEFINE D == {s \in SUBSET S : ~ (SumFunctionOnSet(f, s) <= Cardinality(s) * c)}
<1>1. SUFFICES ASSUME D # {} PROVE FALSE
    OBVIOUS
<1>2. PICK m \in D : \A u \in SUBSET m : u # m => u \notin D
    <2>. D \in SUBSET SUBSET S
        OBVIOUS
    <2>. HIDE DEF D
    <2>. QED BY <1>1, MinimalSubset
<1>3. /\ m \in SUBSET S /\ IsFiniteSet(m)
      /\ ~ (SumFunctionOnSet(f, m) <= Cardinality(m) * c)
    BY FS_Subset
<1>4. m # {}
    <2>1. Cardinality({}) * c = 0
        BY FS_EmptySet
    <2>. QED BY <1>3, <2>1, SumEmpty
<1>. DEFINE p == SumPick(m)
            r == m \ {p}
<1>5. p \in m
    BY <1>4, SumPickIn
<1>6. SumFunctionOnSet(f, r) <= Cardinality(r) * c
    BY <1>2, <1>3, <1>5
<1>7. SumFunctionOnSet(f, m) = f[p] + SumFunctionOnSet(f, r)
    BY <1>3, <1>4, SumPicked
<1>8. SumFunctionOnSet(f, r) \in Int
    <2>1. IsFiniteSet(r) /\ \A x \in r : f[x] \in Int
        BY <1>3, FS_RemoveElement
    <2>. QED BY <2>1, SumInt
<1>9. Cardinality(m) \in Nat /\ Cardinality(r) = Cardinality(m) - 1
    BY <1>3, <1>5, FS_RemoveElement, FS_CardinalityType
<1>10. f[p] \in Int /\ f[p] <= c
    BY <1>3, <1>5
<1>11. (Cardinality(m) - 1) * c = Cardinality(m) * c - c
    BY <1>9
<1>12. Cardinality(m) * c \in Int
    BY <1>9
<1>. HIDE DEF p, r
<1>. QED BY <1>3, <1>6, <1>7, <1>8, <1>9, <1>10, <1>11, <1>12

\* A set of places moved up by n.
Shifted(n, places) == {n + i : i \in places}

\* The sum over places moved up is the sum of what was moved there.
THEOREM SumShifted ==
    ASSUME NEW f, NEW g, NEW n \in Nat, NEW S \in SUBSET Nat, IsFiniteSet(S),
           \A i \in S : f[i] \in Int /\ g[n + i] = f[i]
    PROVE  /\ IsFiniteSet(Shifted(n, S))
           /\ SumFunctionOnSet(g, Shifted(n, S)) = SumFunctionOnSet(f, S)
<1> DEFINE D == {s \in SUBSET S : ~ (/\ IsFiniteSet(Shifted(n, s))
                                     /\ SumFunctionOnSet(g, Shifted(n, s)) = SumFunctionOnSet(f, s))}
<1>1. SUFFICES ASSUME D # {} PROVE FALSE
  OBVIOUS
<1>2. PICK m \in D : \A u \in SUBSET m : u # m => u \notin D
  <2>1. D \in SUBSET SUBSET S
    OBVIOUS
  <2> HIDE DEF D
  <2> QED BY <1>1, <2>1, MinimalSubset
<1>3. /\ m \in SUBSET S /\ IsFiniteSet(m)
      /\ ~ (/\ IsFiniteSet(Shifted(n, m))
            /\ SumFunctionOnSet(g, Shifted(n, m)) = SumFunctionOnSet(f, m))
  BY FS_Subset
<1>4. m # {}
  <2>1. Shifted(n, {}) = {}
    BY DEF Shifted
  <2> QED BY <1>3, <2>1, SumEmpty, FS_EmptySet
<1>5. PICK p \in m : TRUE
  BY <1>4
<1>6. PICK r : r = m \ {p}
  OBVIOUS
<1>7. r \in SUBSET S /\ p \notin r /\ m = r \cup {p} /\ r \in SUBSET m /\ r # m
  BY <1>3, <1>5, <1>6
<1>8. /\ IsFiniteSet(r)
      /\ IsFiniteSet(Shifted(n, r))
      /\ SumFunctionOnSet(g, Shifted(n, r)) = SumFunctionOnSet(f, r)
  <2>1. r \notin D
    BY <1>2, <1>7
  <2>2. IsFiniteSet(r)
    BY <1>3, <1>7, FS_Subset
  <2> QED BY <1>7, <2>1, <2>2
<1>9. Shifted(n, m) = Shifted(n, r) \cup {n + p}
  BY <1>7 DEF Shifted
<1>10. n + p \notin Shifted(n, r)
  <2>1. ASSUME NEW i \in r PROVE n + i # n + p
    <3>1. i \in Nat /\ p \in Nat /\ i # p
      BY <1>7
    <3> QED BY <3>1
  <2> QED BY <2>1 DEF Shifted
<1>11. \A x \in Shifted(n, r) \cup {n + p} : g[x] \in Int
  BY <1>7 DEF Shifted
<1>12. SumFunctionOnSet(g, Shifted(n, m)) = g[n + p] + SumFunctionOnSet(g, Shifted(n, r))
  <2>1. SumFunctionOnSet(g, Shifted(n, r) \cup {n + p})
          = g[n + p] + SumFunctionOnSet(g, Shifted(n, r))
    BY <1>8, <1>10, <1>11, SumAdd
  <2> QED BY <1>9, <2>1
<1>13. SumFunctionOnSet(f, m) = f[p] + SumFunctionOnSet(f, r)
  <2>1. \A x \in r \cup {p} : f[x] \in Int
    BY <1>7
  <2>2. SumFunctionOnSet(f, r \cup {p}) = f[p] + SumFunctionOnSet(f, r)
    BY <1>7, <1>8, <2>1, SumAdd
  <2> QED BY <1>7, <2>2
<1>14. IsFiniteSet(Shifted(n, m))
  BY <1>8, <1>9, FS_AddElement
<1>15. g[n + p] = f[p]
  BY <1>7
<1> QED BY <1>3, <1>8, <1>12, <1>13, <1>14, <1>15
-----------------------------------------------------------------------------
(* Amounts given back in parts, each rounded half up.                      *)

\* Rounding n / d half up is off by at most half a unit.
LEMMA HalfUp ==
    ASSUME NEW n \in Nat, NEW d \in Nat \ {0}
    PROVE  LET h == (2 * n + d) \div (2 * d) IN
           /\ h \in Nat
           /\ 2 * d * h <= 2 * n + d
           /\ 2 * n <= 2 * d * h + (d - 1)
<1> DEFINE e == 2 * d
           m == 2 * n + d
           h == m \div e
<1>1. e \in Nat \ {0} /\ m \in Nat
    OBVIOUS
<1> HIDE DEF e, m
<1>2. h \in Nat /\ h * e <= m /\ m <= h * e + e - 1
    BY <1>1, SMT
<1>3. h * e = 2 * d * h
    BY <1>2 DEF e
<1>4. 2 * d * h \in Nat
    BY <1>2
<1> HIDE DEF h
<1>5. QED
    BY <1>2, <1>3, <1>4 DEF e, m, h

\* Of a basis B with a share of r / d, `back' of `whole' was given back in n
\* parts: their bases add up to S and `taken' is the sum of their shares, each
\* rounded, unless `amount' is exhausted.
Paced(B, r, d, amount, whole, back, taken, n) ==
    \E S \in Nat :
        /\ 2 * d * taken <= 2 * r * S + n * d
        /\ 2 * whole * S <= 2 * B * back + n * whole
        /\ \/ taken = amount
           \/ /\ 2 * r * S <= 2 * d * taken + n * (d - 1)
              /\ 2 * B * back <= 2 * whole * S + n * (whole - 1)

\* Nothing was given back at first.
LEMMA PacedStart ==
    ASSUME NEW B \in Nat, NEW r \in Nat, NEW d \in Nat \ {0}, NEW amount \in Nat,
           NEW whole \in Nat \ {0}
    PROVE  Paced(B, r, d, amount, whole, 0, 0, 0)
BY DEF Paced

\* One more part q, with its own basis b and share a, of which no more is taken
\* than is left.
LEMMA PacedStep ==
    ASSUME NEW B \in Nat, NEW r \in Nat, NEW d \in Nat \ {0}, NEW amount \in Nat,
           NEW whole \in Nat \ {0}, NEW back \in Nat, NEW taken \in Nat, NEW n \in Nat,
           Paced(B, r, d, amount, whole, back, taken, n), taken <= amount,
           NEW q \in Nat, NEW b \in Nat, NEW a \in Nat, NEW t \in Nat,
           2 * whole * b <= 2 * (B * q) + whole, 2 * (B * q) <= 2 * whole * b + (whole - 1),
           2 * d * a <= 2 * (b * r) + d, 2 * (b * r) <= 2 * d * a + (d - 1),
           t = IF a <= amount - taken THEN a ELSE amount - taken
    PROVE  Paced(B, r, d, amount, whole, back + q, taken + t, n + 1)
<1>1. PICK S \in Nat :
        /\ 2 * d * taken <= 2 * r * S + n * d
        /\ 2 * whole * S <= 2 * B * back + n * whole
        /\ \/ taken = amount
           \/ /\ 2 * r * S <= 2 * d * taken + n * (d - 1)
              /\ 2 * B * back <= 2 * whole * S + n * (whole - 1)
    BY DEF Paced
<1>2. /\ 2 * d * (taken + t) = 2 * d * taken + 2 * d * t
      /\ 2 * r * (S + b) = 2 * r * S + 2 * (b * r)
      /\ 2 * whole * (S + b) = 2 * whole * S + 2 * whole * b
      /\ 2 * B * (back + q) = 2 * B * back + 2 * (B * q)
    OBVIOUS
<1>3. /\ (n + 1) * d = n * d + d
      /\ (n + 1) * whole = n * whole + whole
      /\ (n + 1) * (d - 1) = n * (d - 1) + (d - 1)
      /\ (n + 1) * (whole - 1) = n * (whole - 1) + (whole - 1)
    OBVIOUS
<1>4. /\ 2 * d * taken \in Nat /\ 2 * d * t \in Nat /\ 2 * d * a \in Nat
      /\ 2 * r * S \in Nat /\ b * r \in Nat /\ 2 * whole * S \in Nat /\ 2 * whole * b \in Nat
      /\ 2 * B * back \in Nat /\ B * q \in Nat
      /\ n * d \in Nat /\ n * whole \in Nat /\ n * (d - 1) \in Nat /\ n * (whole - 1) \in Nat
    OBVIOUS
<1>5. 2 * d * t <= 2 * d * a
    <2>1. a - t \in Nat
        OBVIOUS
    <2>2. 2 * d * (a - t) \in Nat
        BY <2>1
    <2>3. 2 * d * (a - t) = 2 * d * a - 2 * d * t
        OBVIOUS
    <2>. QED BY <1>4, <2>2, <2>3
<1>6. 2 * d * (taken + t) <= 2 * r * (S + b) + (n + 1) * d
    BY <1>1, <1>2, <1>3, <1>4, <1>5
<1>7. 2 * whole * (S + b) <= 2 * B * (back + q) + (n + 1) * whole
    BY <1>1, <1>2, <1>3, <1>4
<1>8. \/ taken + t = amount
      \/ /\ 2 * r * (S + b) <= 2 * d * (taken + t) + (n + 1) * (d - 1)
         /\ 2 * B * (back + q) <= 2 * whole * (S + b) + (n + 1) * (whole - 1)
    <2>1. CASE t = amount - taken
        BY <2>1
    <2>2. CASE t = a /\ taken # amount
        BY <1>1, <1>2, <1>3, <1>4, <2>2
    <2>3. CASE taken = amount
        BY <2>3
    <2>. QED BY <2>1, <2>2, <2>3
<1>9. S + b \in Nat
    OBVIOUS
<1>. QED BY <1>6, <1>7, <1>8, <1>9 DEF Paced

\* What the parts leave of an amount when they give back the whole.
LEMMA PacedWhole ==
    ASSUME NEW B \in Nat, NEW r \in Nat, NEW d \in Nat \ {0}, NEW amount \in Nat,
           NEW whole \in Nat \ {0}, NEW taken \in Nat, NEW n \in Nat \ {0},
           Paced(B, r, d, amount, whole, whole, taken, n),
           r <= d, 2 * d * amount <= 2 * (B * r) + d
    PROVE  amount - taken < n
<1>1. CASE taken = amount
    BY <1>1
<1>2. CASE taken # amount
    <2>1. PICK S \in Nat :
            /\ 2 * r * S <= 2 * d * taken + n * (d - 1)
            /\ 2 * B * whole <= 2 * whole * S + n * (whole - 1)
        BY <1>2 DEF Paced
    <2>. DEFINE L == B - S
    <2>2. L \in Int
        OBVIOUS
    <2>3. 2 * L <= n - 1
        <3>1. SUFFICES ASSUME 2 * L - n \in Nat PROVE FALSE
            BY <2>2
        <3>2. whole * (2 * L - n) \in Nat
            BY <3>1
        <3>3. whole * (2 * L - n) = 2 * B * whole - 2 * whole * S - n * whole
            OBVIOUS
        <3>4. n * (whole - 1) = n * whole - n
            OBVIOUS
        <3>5. 2 * B * whole \in Nat /\ 2 * whole * S \in Nat /\ n * whole \in Nat
            OBVIOUS
        <3>. QED BY <2>1, <3>2, <3>3, <3>4, <3>5
    <2>4. 2 * (r * L) <= d * (n - 1)
        <3>1. CASE L \in Nat
            <4>1. (d - r) * L \in Nat /\ d * (n - 1 - 2 * L) \in Nat
                BY <2>2, <2>3, <3>1
            <4>2. (d - r) * L = d * L - r * L /\ d * (n - 1 - 2 * L) = d * (n - 1) - 2 * (d * L)
                OBVIOUS
            <4>3. d * L \in Int /\ r * L \in Int /\ d * (n - 1) \in Int
                OBVIOUS
            <4>. HIDE DEF L
            <4>. QED BY <4>1, <4>2, <4>3
        <3>2. CASE -L \in Nat
            <4>1. r * (-L) \in Nat /\ r * (-L) = -(r * L) /\ r * L \in Int
                BY <3>2
            <4>2. d * (n - 1) \in Nat
                OBVIOUS
            <4>. HIDE DEF L
            <4>. QED BY <4>1, <4>2
        <3>. QED BY <2>2, <3>1, <3>2
    <2>5. 2 * (r * L) = 2 * (B * r) - 2 * r * S
        OBVIOUS
    <2>6. n * (d - 1) = n * d - n /\ d * (n - 1) = n * d - d
        OBVIOUS
    <2>7. 2 * d * (amount - taken) = 2 * d * amount - 2 * d * taken
        OBVIOUS
    <2>8. /\ 2 * d * amount \in Nat /\ 2 * d * taken \in Nat /\ B * r \in Nat /\ 2 * r * S \in Nat
          /\ r * L \in Int /\ n * d \in Nat
        OBVIOUS
    <2>. HIDE DEF L
    <2>9. 2 * d * (amount - taken) < 2 * (n * d)
        BY <2>1, <2>4, <2>5, <2>6, <2>7, <2>8
    <2>10. SUFFICES ASSUME amount - taken - n \in Nat PROVE FALSE
        OBVIOUS
    <2>11. 2 * d * (amount - taken - n) \in Nat
        BY <2>10
    <2>12. 2 * d * (amount - taken - n) = 2 * d * (amount - taken) - 2 * (n * d)
        OBVIOUS
    <2>13. 2 * d * (amount - taken) \in Int
        OBVIOUS
    <2>. QED BY <2>8, <2>9, <2>11, <2>12, <2>13
<1>. QED BY <1>1, <1>2

\* What was taken is the share of what was given back, to within two units a part.
LEMMA PacedShare ==
    ASSUME NEW B \in Nat, NEW r \in Nat, NEW d \in Nat \ {0}, NEW amount \in Nat,
           NEW whole \in Nat \ {0}, NEW back \in Nat, NEW taken \in Nat, NEW n \in Nat \ {0},
           Paced(B, r, d, amount, whole, back, taken, n),
           r <= d, back <= whole, taken <= amount,
           2 * d * amount <= 2 * (B * r) + d, 2 * (B * r) <= 2 * d * amount + d
    PROVE  /\ amount * back - taken * whole <= 2 * n * whole
           /\ taken * whole - amount * back <= 2 * n * whole
<1> DEFINE X == taken * whole
           Y == n * whole
           Z == amount * back
<1>1. PICK S \in Nat :
        /\ 2 * d * taken <= 2 * r * S + n * d
        /\ 2 * whole * S <= 2 * B * back + n * whole
        /\ \/ taken = amount
           \/ /\ 2 * r * S <= 2 * d * taken + n * (d - 1)
              /\ 2 * B * back <= 2 * whole * S + n * (whole - 1)
    BY DEF Paced
<1> DEFINE P == r * S * whole
           Q == B * r * back
<1>2. X \in Nat /\ Y \in Nat /\ Z \in Nat /\ P \in Nat /\ Q \in Nat /\ r * Y \in Nat /\ d * Y \in Nat
      /\ d * X \in Nat /\ d * Z \in Nat
    OBVIOUS
<1>3. r * Y <= d * Y
    <2>1. (d - r) * Y \in Nat
        BY <1>2
    <2>2. (d - r) * Y = d * Y - r * Y
        BY <1>2
    <2>. QED BY <1>2, <2>1, <2>2
<1>4. d * back \in Nat /\ d * back <= d * Y
    <2>1. whole <= Y
        <3>1. (n - 1) * whole \in Nat
            OBVIOUS
        <3>2. (n - 1) * whole = Y - whole
            OBVIOUS
        <3>. QED BY <1>2, <3>1, <3>2
    <2>2. Y - back \in Nat
        BY <1>2, <2>1
    <2>3. d * (Y - back) \in Nat
        BY <2>2
    <2>4. d * (Y - back) = d * Y - d * back
        BY <1>2
    <2>. QED BY <1>2, <2>3, <2>4
<1>5. 2 * (d * Z) <= 2 * Q + d * back /\ 2 * Q <= 2 * (d * Z) + d * back
    <2>1. (2 * (B * r) + d - 2 * d * amount) * back \in Nat
        OBVIOUS
    <2>2. (2 * d * amount + d - 2 * (B * r)) * back \in Nat
        OBVIOUS
    <2>3. (2 * (B * r) + d - 2 * d * amount) * back = 2 * Q + d * back - 2 * (d * Z)
        OBVIOUS
    <2>4. (2 * d * amount + d - 2 * (B * r)) * back = 2 * (d * Z) + d * back - 2 * Q
        OBVIOUS
    <2>. HIDE DEF Q, Z
    <2>. QED BY <1>2, <1>4, <2>1, <2>2, <2>3, <2>4
<1>6. 2 * (d * X) <= 2 * P + d * Y /\ 2 * P <= 2 * Q + r * Y
    <2>1. (2 * r * S + n * d - 2 * d * taken) * whole \in Nat
        BY <1>1
    <2>2. r * (2 * B * back + n * whole - 2 * whole * S) \in Nat
        BY <1>1
    <2>3. (2 * r * S + n * d - 2 * d * taken) * whole = 2 * P + d * Y - 2 * (d * X)
        OBVIOUS
    <2>4. r * (2 * B * back + n * whole - 2 * whole * S) = 2 * Q + r * Y - 2 * P
        OBVIOUS
    <2>. HIDE DEF P, Q, X, Y
    <2>. QED BY <1>2, <2>1, <2>2, <2>3, <2>4
<1>7. taken = amount \/ (2 * P <= 2 * (d * X) + d * Y /\ 2 * Q <= 2 * P + r * Y)
    <2> SUFFICES ASSUME taken # amount PROVE 2 * P <= 2 * (d * X) + d * Y /\ 2 * Q <= 2 * P + r * Y
        OBVIOUS
    <2>1. n * (d - 1) <= n * d /\ n * (whole - 1) <= n * whole
        OBVIOUS
    <2>2. 2 * d * taken + n * d - 2 * r * S \in Nat /\ 2 * whole * S + n * whole - 2 * B * back \in Nat
        BY <1>1, <2>1
    <2>3. (2 * d * taken + n * d - 2 * r * S) * whole \in Nat
        BY <2>2
    <2>4. r * (2 * whole * S + n * whole - 2 * B * back) \in Nat
        BY <2>2
    <2>5. (2 * d * taken + n * d - 2 * r * S) * whole = 2 * (d * X) + d * Y - 2 * P
        OBVIOUS
    <2>6. r * (2 * whole * S + n * whole - 2 * B * back) = 2 * P + r * Y - 2 * Q
        OBVIOUS
    <2>. HIDE DEF P, Q, X, Y
    <2>. QED BY <1>2, <2>3, <2>4, <2>5, <2>6
<1>8. taken = amount => Z - X <= 2 * Y
    <2> SUFFICES ASSUME taken = amount PROVE Z - X <= 2 * Y
        OBVIOUS
    <2>1. amount * (whole - back) \in Nat
        OBVIOUS
    <2>2. amount * (whole - back) = X - Z
        OBVIOUS
    <2>. HIDE DEF X, Y, Z
    <2>. QED BY <1>2, <2>1, <2>2
<1>9. 2 * n * whole = 2 * Y
    OBVIOUS
<1> HIDE DEF P, Q, X, Y, Z
<1>10. ASSUME NEW u \in Int, 2 * (d * u) <= 3 * (d * Y)
       PROVE  u <= 2 * Y
    <2> SUFFICES ASSUME u - 2 * Y - 1 \in Nat PROVE FALSE
        BY <1>2
    <2>1. d * (u - 2 * Y - 1) \in Nat
        OBVIOUS
    <2>2. d * (u - 2 * Y - 1) = d * u - 2 * (d * Y) - d /\ d * u \in Int
        BY <1>2
    <2>. QED BY <1>2, <1>10, <2>1, <2>2
<1>11. d * (X - Z) = d * X - d * Z /\ d * (Z - X) = d * Z - d * X /\ X - Z \in Int /\ Z - X \in Int
    BY <1>2
<1>12. X - Z <= 2 * Y
    <2>1. 2 * (d * (X - Z)) <= 3 * (d * Y)
        BY <1>2, <1>3, <1>4, <1>5, <1>6, <1>11
    <2>. QED BY <1>10, <1>11, <2>1
<1>13. Z - X <= 2 * Y
    <2>1. CASE taken # amount
        <3>1. 2 * (d * (Z - X)) <= 3 * (d * Y)
            BY <1>2, <1>3, <1>4, <1>5, <1>7, <1>11, <2>1
        <3>. QED BY <1>10, <1>11, <3>1
    <2>. QED BY <1>8, <2>1
<1>. QED BY <1>9, <1>12, <1>13 DEF X, Y, Z
=============================================================================
