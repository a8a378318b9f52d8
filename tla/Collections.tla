---------------------------- MODULE Collections ----------------------------
(***************************************************************************)
(* Lemmas about the operators of the community modules the models are      *)
(* built from: sums over finite sets, and elements taken out of sequences. *)
(* Induction is by the least counterexample, so that no lemma takes an     *)
(* operator as its parameter.                                              *)
(***************************************************************************)
EXTENDS SequencesExt, FiniteSetTheorems, TLAPS

------------------------------------------------------------------------------
(* Least elements                                                          *)

\* A set of numbers that is not empty has a least one.
LEMMA LeastNumber ==
    ASSUME NEW T \in SUBSET Nat, T # {}
    PROVE  \E m \in T : \A n \in T : m <= n
<1> DEFINE R == OpToRel(<, Nat)
<1>1. IsWellFoundedOn(R, Nat)
  BY NatLessThanWellFounded
<1>2. PICK m \in T : \A n \in T : ~(<<n, m>> \in R)
  <2> HIDE DEF R
  <2>1. QED
    BY <1>1, WFMin
<1>3. \A n \in T : ~(n < m)
  BY <1>2 DEF OpToRel
<1>4. QED
  BY <1>3

\* A set of finite sets that is not empty has one without a smaller one.
LEMMA SmallestSet ==
    ASSUME NEW C, C # {}, \A s \in C : IsFiniteSet(s)
    PROVE  \E s \in C : \A t \in C : ~(t \subseteq s /\ t # s)
<1> DEFINE T == {Cardinality(s) : s \in C}
<1>1. T \in SUBSET Nat /\ T # {}
  BY FS_CardinalityType
<1>2. PICK m \in T : \A n \in T : m <= n
  BY <1>1, LeastNumber
<1>3. PICK s \in C : m = Cardinality(s)
  OBVIOUS
<1>4. ASSUME NEW t \in C, t \subseteq s, t # s PROVE FALSE
  <2>1. Cardinality(t) <= Cardinality(s) /\ Cardinality(s) # Cardinality(t)
    BY <1>4, FS_Subset
  <2>2. Cardinality(s) <= Cardinality(t)
    BY <1>2, <1>3
  <2>3. Cardinality(s) \in Nat /\ Cardinality(t) \in Nat
    BY FS_CardinalityType
  <2>4. QED
    BY <2>1, <2>2, <2>3
<1>5. QED
  BY <1>4

------------------------------------------------------------------------------
(* Recursive functions: the equation that defines one has a solution.  The *)
(* value at n is a function G of n and of the values below n.              *)

\* h solves the equation below n.
SolvesBelow(h, G, n) == \A i \in 0 .. n - 1 : h[i] = G[i][h]

\* The value G gives depends on the values below only.
LooksBelow(G, X) ==
    \A n \in Nat : \A f, h \in [Nat -> X] :
        (\A i \in 0 .. n - 1 : f[i] = h[i]) => G[n][f] = G[n][h]

\* The values are in X.
StaysIn(G, X) == \A n \in Nat : \A f \in [Nat -> X] : G[n][f] \in X

\* Two solutions agree.
LEMMA SolutionUnique ==
    ASSUME NEW X, NEW G, LooksBelow(G, X),
           NEW f \in [Nat -> X], NEW h \in [Nat -> X], NEW n \in Nat, NEW k \in Nat,
           SolvesBelow(f, G, n), SolvesBelow(h, G, k),
           NEW i \in Nat, i < n, i < k
    PROVE  f[i] = h[i]
<1> DEFINE T == {j \in Nat : j < n /\ j < k /\ f[j] # h[j]}
<1>1. SUFFICES ASSUME f[i] # h[i] PROVE FALSE
  OBVIOUS
<1>2. T \in SUBSET Nat /\ T # {}
  BY <1>1
<1>3. PICK m \in T : \A j \in T : m <= j
  BY <1>2, LeastNumber
<1>4. m \in Nat /\ m < n /\ m < k /\ f[m] # h[m]
  OBVIOUS
<1>5. \A j \in 0 .. m - 1 : f[j] = h[j]
  BY <1>3, <1>4
<1>6. G[m][f] = G[m][h]
  BY <1>4, <1>5 DEF LooksBelow
<1>7. f[m] = G[m][f] /\ h[m] = G[m][h]
  BY <1>4 DEF SolvesBelow
<1>8. QED
  BY <1>4, <1>6, <1>7

\* There is a solution below every number.
LEMMA SolutionBelow ==
    ASSUME NEW X, NEW x \in X, NEW G, LooksBelow(G, X),
           \A n \in Nat : \A f \in [Nat -> X] : G[n][f] \in X, NEW n \in Nat
    PROVE  \E f \in [Nat -> X] : SolvesBelow(f, G, n)
<1> DEFINE T == {k \in Nat : ~\E f \in [Nat -> X] : SolvesBelow(f, G, k)}
<1>1. SUFFICES ASSUME n \in T PROVE FALSE
  OBVIOUS
<1>2. PICK m \in T : \A j \in T : m <= j
  BY <1>1, LeastNumber
<1>3. m # 0
  <2>1. [i \in Nat |-> x] \in [Nat -> X] /\ SolvesBelow([i \in Nat |-> x], G, 0)
    BY DEF SolvesBelow
  <2>2. QED
    BY <2>1
<1>4. m - 1 \in Nat /\ m - 1 \notin T
  BY <1>2, <1>3
<1>5. PICK f \in [Nat -> X] : SolvesBelow(f, G, m - 1)
  BY <1>4
<1> DEFINE h == [f EXCEPT ![m - 1] = G[m - 1][f]]
<1>6. h \in [Nat -> X]
  BY <1>4
<1>7. \A i \in 0 .. m - 1 : G[i][h] = G[i][f]
  <2>1. SUFFICES ASSUME NEW i \in 0 .. m - 1 PROVE G[i][h] = G[i][f]
    OBVIOUS
  <2>2. \A j \in 0 .. i - 1 : f[j] = h[j]
    BY <1>4
  <2>3. i \in Nat
    OBVIOUS
  <2> HIDE DEF h
  <2>4. G[i][f] = G[i][h]
    BY <1>5, <1>6, <2>2, <2>3 DEF LooksBelow
  <2>5. QED
    BY <2>4
<1>8. ASSUME NEW i \in 0 .. m - 1 PROVE h[i] = G[i][f]
  <2>1. CASE i = m - 1
    BY <2>1, <1>4
  <2>2. CASE i # m - 1
    <3>1. i \in 0 .. (m - 1) - 1 /\ h[i] = f[i]
      BY <2>2, <1>4
    <3>2. QED
      BY <3>1, <1>5 DEF SolvesBelow
  <2>3. QED
    BY <2>1, <2>2
<1>9. SolvesBelow(h, G, m)
  BY <1>7, <1>8 DEF SolvesBelow
<1>10. QED
  BY <1>6, <1>9

\* There is a solution.
Solution(f, G) == \A n \in Nat : f[n] = G[n][f]

LEMMA CourseOfValues ==
    ASSUME NEW X, NEW x \in X, NEW G, LooksBelow(G, X), StaysIn(G, X)
    PROVE  \E f \in [Nat -> X] : Solution(f, G)
<1> USE DEF StaysIn, Solution
<1> DEFINE below(n) == CHOOSE h \in [Nat -> X] : SolvesBelow(h, G, n)
<1> DEFINE f == [n \in Nat |-> below(n + 1)[n]]
<1>1. ASSUME NEW n \in Nat PROVE below(n) \in [Nat -> X] /\ SolvesBelow(below(n), G, n)
  BY SolutionBelow
<1> HIDE DEF below
<1>2. f \in [Nat -> X]
  <2>1. ASSUME NEW n \in Nat PROVE below(n + 1)[n] \in X
    <3>1. below(n + 1) \in [Nat -> X]
      BY <1>1
    <3>2. QED
      BY <3>1
  <2>2. QED
    BY <2>1
<1>3. ASSUME NEW n \in Nat PROVE f[n] = G[n][f]
  <2>1. below(n + 1) \in [Nat -> X] /\ SolvesBelow(below(n + 1), G, n + 1)
    BY <1>1
  <2>2. \A i \in 0 .. n - 1 : f[i] = below(n + 1)[i]
    <3>1. SUFFICES ASSUME NEW i \in 0 .. n - 1 PROVE f[i] = below(n + 1)[i]
      OBVIOUS
    <3>2. i \in Nat /\ i < i + 1 /\ i < n + 1 /\ i + 1 \in Nat /\ n + 1 \in Nat
      OBVIOUS
    <3>3. below(i + 1) \in [Nat -> X] /\ SolvesBelow(below(i + 1), G, i + 1)
      BY <1>1, <3>2
    <3>4. below(i + 1)[i] = below(n + 1)[i]
      BY <2>1, <3>2, <3>3, SolutionUnique
    <3>5. QED
      BY <3>2, <3>4
  <2>3. G[n][f] = G[n][below(n + 1)]
    BY <1>2, <2>1, <2>2 DEF LooksBelow
  <2>4. below(n + 1)[n] = G[n][below(n + 1)]
    BY <2>1 DEF SolvesBelow
  <2>5. QED
    BY <2>3, <2>4
<1>4. QED
  BY <1>2, <1>3

\* The same where each value depends on the one before it: g[n] makes the n-th
\* of the one before.
Advances(g, X) == \A n \in Nat : \A y \in X : g[n][y] \in X
Follows(f, x, g) == f[0] = x /\ \A n \in Nat \ {0} : f[n] = g[n][f[n - 1]]

LEMMA StepByStep ==
    ASSUME NEW X, NEW x, x \in X, NEW g, Advances(g, X)
    PROVE  \E f \in [Nat -> X] : Follows(f, x, g)
<1> DEFINE G == [n \in Nat |-> [f \in [Nat -> X] |-> IF n = 0 THEN x ELSE g[n][f[n - 1]]]]
<1>1. ASSUME NEW n \in Nat, NEW f \in [Nat -> X]
      PROVE  G[n][f] = (IF n = 0 THEN x ELSE g[n][f[n - 1]])
  OBVIOUS
<1> HIDE DEF G
<1>2. ASSUME NEW n \in Nat, NEW f \in [Nat -> X], NEW h \in [Nat -> X],
             \A i \in 0 .. n - 1 : f[i] = h[i]
      PROVE  G[n][f] = G[n][h]
  <2>1. n # 0 => f[n - 1] = h[n - 1]
    BY <1>2
  <2>2. QED
    BY <1>1, <2>1
<1>3. ASSUME NEW n \in Nat, NEW f \in [Nat -> X] PROVE G[n][f] \in X
  <2>1. n # 0 => f[n - 1] \in X
    OBVIOUS
  <2>2. QED
    BY <1>1, <2>1 DEF Advances
<1>4. LooksBelow(G, X)
  BY <1>2 DEF LooksBelow
<1>5. PICK f \in [Nat -> X] : \A n \in Nat : f[n] = G[n][f]
  BY <1>3, <1>4, CourseOfValues DEF StaysIn, Solution
<1>6. Follows(f, x, g)
  BY <1>1, <1>5 DEF Follows
<1>7. QED
  BY <1>6

------------------------------------------------------------------------------
(* SumFunctionOnSet adds the values of a function over a finite set, in an *)
(* order of its own choice.                                                *)

Chosen(s) == CHOOSE x \in s : TRUE
Others(s) == s \ {Chosen(s)}

LEMMA ChosenIs ==
    ASSUME NEW s, s # {}
    PROVE  Chosen(s) \in s /\ Others(s) \subseteq s /\ Others(s) # s /\ Chosen(s) \notin Others(s)
BY DEF Chosen, Others

\* The function by which the fold adds up the subsets of S
Adds(g, f, S) == g = [s \in SUBSET S |-> IF s = {} THEN 0 ELSE f[Chosen(s)] + g[Others(s)]]

LEMMA AddsIs ==
    ASSUME NEW g, NEW f, NEW S, Adds(g, f, S), NEW s, s \subseteq S
    PROVE  g[s] = IF s = {} THEN 0 ELSE f[Chosen(s)] + g[Others(s)]
BY DEF Adds

LEMMA AddsUnique ==
    ASSUME NEW f, NEW g, NEW h, NEW S, NEW T, IsFiniteSet(S), Adds(g, f, S), Adds(h, f, T),
           NEW s, s \subseteq S, s \subseteq T
    PROVE  g[s] = h[s]
<1> DEFINE C == {u \in SUBSET s : g[u] # h[u]}
<1> SUFFICES ASSUME C # {} PROVE FALSE
  OBVIOUS
<1>1. \A u \in C : IsFiniteSet(u)
  BY FS_Subset
<1>2. PICK u \in C : \A t \in C : ~(t \subseteq u /\ t # u)
  <2> HIDE DEF C
  <2>1. QED
    BY <1>1, SmallestSet
<1>3. u # {}
  BY AddsIs
<1>4. Others(u) \subseteq u /\ Others(u) # u /\ Others(u) \subseteq s
  BY <1>3, ChosenIs
<1>5. g[Others(u)] = h[Others(u)]
  BY <1>2, <1>4
<1>6. g[u] = f[Chosen(u)] + g[Others(u)] /\ h[u] = f[Chosen(u)] + h[Others(u)]
  BY <1>3, AddsIs
<1>7. QED
  BY <1>5, <1>6

LEMMA AddsExists ==
    ASSUME NEW f, NEW S, IsFiniteSet(S)
    PROVE  \E g : Adds(g, f, S)
<1> DEFINE C == {u \in SUBSET S : ~\E g : Adds(g, f, u)}
<1> SUFFICES ASSUME C # {} PROVE FALSE
  OBVIOUS
<1>1. \A u \in C : IsFiniteSet(u)
  BY FS_Subset
<1>2. PICK u \in C : \A t \in C : ~(t \subseteq u /\ t # u)
  <2> HIDE DEF C
  <2>1. QED
    BY <1>1, SmallestSet
<1> DEFINE G(t) == CHOOSE g : Adds(g, f, t)
<1>3. ASSUME NEW t, t \subseteq u, t # u
      PROVE  Adds(G(t), f, t) /\ IsFiniteSet(t)
  <2>1. t \in SUBSET S /\ t \notin C
    BY <1>2, <1>3
  <2>2. QED
    BY <2>1, FS_Subset
<1> HIDE DEF G
<1>4. ASSUME NEW t, t \subseteq u, t # u, t # {}
      PROVE  G(t)[t] = f[Chosen(t)] + G(Others(t))[Others(t)]
  <2>1. Others(t) \subseteq t /\ Others(t) \subseteq u /\ Others(t) # u
    BY <1>4, ChosenIs
  <2>2. Adds(G(t), f, t) /\ Adds(G(Others(t)), f, Others(t)) /\ IsFiniteSet(t)
    BY <1>3, <1>4, <2>1
  <2>3. G(t)[Others(t)] = G(Others(t))[Others(t)]
    BY <2>1, <2>2, AddsUnique
  <2>4. G(t)[t] = f[Chosen(t)] + G(t)[Others(t)]
    BY <1>4, <2>2, AddsIs
  <2>5. QED
    BY <2>3, <2>4
<1> DEFINE h == [s \in SUBSET u |-> IF s = {} THEN 0 ELSE f[Chosen(s)] + G(Others(s))[Others(s)]]
<1>5. ASSUME NEW s \in SUBSET u, s # {}
      PROVE  h[Others(s)] = G(Others(s))[Others(s)]
  <2>1. Others(s) \subseteq u /\ Others(s) # u
    BY <1>5, ChosenIs
  <2>2. CASE Others(s) = {}
    <3>1. G({})[{}] = 0
      BY <1>3, <2>1, <2>2, AddsIs
    <3>2. QED
      BY <2>1, <2>2, <3>1
  <2>3. CASE Others(s) # {}
    BY <1>4, <2>1, <2>3
  <2>4. QED
    BY <2>2, <2>3
<1>6. Adds(h, f, u)
  BY <1>5 DEF Adds
<1>7. QED
  BY <1>2, <1>6

\* The fold is the value of that function.
LEMMA SumAdds ==
    ASSUME NEW f, NEW S, IsFiniteSet(S)
    PROVE  \E g : Adds(g, f, S) /\ SumFunctionOnSet(f, S) = g[S]
<1> DEFINE g == CHOOSE g : Adds(g, f, S)
<1>1. Adds(g, f, S)
  BY AddsExists
<1>2. SumFunctionOnSet(f, S) = g[S]
  BY DEF SumFunctionOnSet, FoldFunctionOnSet, MapThenFoldSet, Adds, Chosen, Others
<1>3. QED
  BY <1>1, <1>2

\* One unfolding of the sum
LEMMA SumChosen ==
    ASSUME NEW f, NEW S, IsFiniteSet(S)
    PROVE  /\ S = {} => SumFunctionOnSet(f, S) = 0
           /\ S # {} => SumFunctionOnSet(f, S) = f[Chosen(S)] + SumFunctionOnSet(f, Others(S))
<1>1. PICK g : Adds(g, f, S) /\ SumFunctionOnSet(f, S) = g[S]
  BY SumAdds
<1>2. CASE S = {}
  BY <1>1, <1>2, AddsIs
<1>3. CASE S # {}
  <2>1. Others(S) \subseteq S /\ IsFiniteSet(Others(S))
    BY <1>3, ChosenIs, FS_Subset
  <2>2. PICK h : Adds(h, f, Others(S)) /\ SumFunctionOnSet(f, Others(S)) = h[Others(S)]
    BY <2>1, SumAdds
  <2>3. g[Others(S)] = h[Others(S)]
    BY <1>1, <2>1, <2>2, AddsUnique
  <2>4. g[S] = f[Chosen(S)] + g[Others(S)]
    BY <1>1, <1>3, AddsIs
  <2>5. QED
    BY <1>1, <1>3, <2>2, <2>3, <2>4
<1>4. QED
  BY <1>2, <1>3

LEMMA SumEmpty == ASSUME NEW f PROVE SumFunctionOnSet(f, {}) = 0
BY FS_EmptySet, SumChosen

\* A sum of natural numbers is one.
LEMMA SumNat ==
    ASSUME NEW f, NEW S, IsFiniteSet(S), \A x \in S : f[x] \in Nat
    PROVE  SumFunctionOnSet(f, S) \in Nat
<1> DEFINE C == {u \in SUBSET S : SumFunctionOnSet(f, u) \notin Nat}
<1> SUFFICES ASSUME C # {} PROVE FALSE
  OBVIOUS
<1>1. \A u \in C : IsFiniteSet(u)
  BY FS_Subset
<1>2. PICK u \in C : \A t \in C : ~(t \subseteq u /\ t # u)
  <2> HIDE DEF C
  <2>1. QED
    BY <1>1, SmallestSet
<1>3. u # {}
  <2>1. SumFunctionOnSet(f, u) \notin Nat
    BY <1>2
  <2>2. QED
    BY <2>1, SumEmpty
<1>4. Chosen(u) \in S /\ Others(u) \subseteq u /\ Others(u) # u
  BY <1>3, ChosenIs
<1>5. SumFunctionOnSet(f, Others(u)) \in Nat
  BY <1>2, <1>4
<1>6. SumFunctionOnSet(f, u) = f[Chosen(u)] + SumFunctionOnSet(f, Others(u))
  BY <1>1, <1>3, SumChosen
<1>7. QED
  BY <1>4, <1>5, <1>6

\* Whichever element is taken away first, the sum is its value and the rest.
LEMMA SumRemove ==
    ASSUME NEW f, NEW S, IsFiniteSet(S), \A y \in S : f[y] \in Nat, NEW x \in S
    PROVE  SumFunctionOnSet(f, S) = f[x] + SumFunctionOnSet(f, S \ {x})
<1> DEFINE Out(u, y) == SumFunctionOnSet(f, u) = f[y] + SumFunctionOnSet(f, u \ {y})
           C == {u \in SUBSET S : \E y \in u : ~Out(u, y)}
<1> SUFFICES ASSUME C # {} PROVE FALSE
  OBVIOUS
<1>1. \A u \in SUBSET S : IsFiniteSet(u) /\ SumFunctionOnSet(f, u) \in Nat
  <2> SUFFICES ASSUME NEW u \in SUBSET S
               PROVE  IsFiniteSet(u) /\ SumFunctionOnSet(f, u) \in Nat
    OBVIOUS
  <2>1. IsFiniteSet(u)
    BY FS_Subset
  <2>2. QED
    BY <2>1, SumNat
<1>2. PICK u \in C : \A t \in C : ~(t \subseteq u /\ t # u)
  <2>1. \A u \in C : IsFiniteSet(u)
    BY <1>1
  <2> HIDE DEF C
  <2>2. QED
    BY <2>1, SmallestSet
<1>3. PICK y \in u : ~Out(u, y)
  BY <1>2
<1>4. u \in SUBSET S
  BY <1>2
<1>5. ASSUME NEW t \in SUBSET S, t \subseteq u, t # u, NEW z \in t PROVE Out(t, z)
  BY <1>2, <1>5
<1> DEFINE c == Chosen(u)
<1>6. c \in u /\ c \in S /\ y \in S /\ Out(u, c)
  BY <1>1, <1>3, <1>4, ChosenIs, SumChosen DEF Others
<1> HIDE DEF c, C
<1>7. c # y
  BY <1>3, <1>6
<1> DEFINE rest == SumFunctionOnSet(f, u \ {c, y})
<1>8. SumFunctionOnSet(f, u \ {c}) = f[y] + rest
  <2>1. Out(u \ {c}, y)
    BY <1>3, <1>4, <1>5, <1>6, <1>7
  <2>2. (u \ {c}) \ {y} = u \ {c, y}
    OBVIOUS
  <2>3. QED
    BY <2>1, <2>2
<1>9. SumFunctionOnSet(f, u \ {y}) = f[c] + rest
  <2>1. Out(u \ {y}, c)
    BY <1>3, <1>4, <1>5, <1>6, <1>7
  <2>2. (u \ {y}) \ {c} = u \ {c, y}
    OBVIOUS
  <2>3. QED
    BY <2>1, <2>2
<1>10. rest \in Nat /\ f[c] \in Nat /\ f[y] \in Nat
  BY <1>1, <1>4, <1>6
<1>11. SumFunctionOnSet(f, u) = f[c] + SumFunctionOnSet(f, u \ {c})
  BY <1>6
<1>12. SumFunctionOnSet(f, u) = f[y] + SumFunctionOnSet(f, u \ {y})
  <2> HIDE DEF rest
  <2>1. QED
    BY <1>8, <1>9, <1>10, <1>11
<1>13. QED
  BY <1>3, <1>12

LEMMA SumAdd ==
    ASSUME NEW f, NEW S, IsFiniteSet(S), NEW x, x \notin S, \A y \in S \cup {x} : f[y] \in Nat
    PROVE  SumFunctionOnSet(f, S \cup {x}) = f[x] + SumFunctionOnSet(f, S)
<1>1. IsFiniteSet(S \cup {x}) /\ (S \cup {x}) \ {x} = S /\ x \in S \cup {x}
  BY FS_AddElement
<1>2. QED
  BY <1>1, SumRemove

\* The sum looks at the values over its set only.
LEMMA SumSame ==
    ASSUME NEW f, NEW g, NEW S, IsFiniteSet(S), \A x \in S : f[x] = g[x]
    PROVE  SumFunctionOnSet(f, S) = SumFunctionOnSet(g, S)
<1> DEFINE C == {u \in SUBSET S : SumFunctionOnSet(f, u) # SumFunctionOnSet(g, u)}
<1> SUFFICES ASSUME C # {} PROVE FALSE
  OBVIOUS
<1>1. \A u \in C : IsFiniteSet(u)
  BY FS_Subset
<1>2. PICK u \in C : \A t \in C : ~(t \subseteq u /\ t # u)
  <2> HIDE DEF C
  <2>1. QED
    BY <1>1, SmallestSet
<1>3. u \in SUBSET S /\ SumFunctionOnSet(f, u) # SumFunctionOnSet(g, u) /\ IsFiniteSet(u)
  BY <1>1, <1>2
<1>4. u # {}
  BY <1>3, SumEmpty
<1>5. Chosen(u) \in S /\ Others(u) \in SUBSET S /\ Others(u) \subseteq u /\ Others(u) # u
  BY <1>3, <1>4, ChosenIs
<1>6. SumFunctionOnSet(f, Others(u)) = SumFunctionOnSet(g, Others(u))
  BY <1>2, <1>5
<1>7. /\ SumFunctionOnSet(f, u) = f[Chosen(u)] + SumFunctionOnSet(f, Others(u))
      /\ SumFunctionOnSet(g, u) = g[Chosen(u)] + SumFunctionOnSet(g, Others(u))
  BY <1>3, <1>4, SumChosen
<1>8. QED
  BY <1>3, <1>5, <1>6, <1>7

\* A sum of zeros
LEMMA SumZero ==
    ASSUME NEW f, NEW S, IsFiniteSet(S), \A x \in S : f[x] = 0
    PROVE  SumFunctionOnSet(f, S) = 0
<1> DEFINE C == {u \in SUBSET S : SumFunctionOnSet(f, u) # 0}
<1> SUFFICES ASSUME C # {} PROVE FALSE
  OBVIOUS
<1>1. \A u \in C : IsFiniteSet(u)
  BY FS_Subset
<1>2. PICK u \in C : \A t \in C : ~(t \subseteq u /\ t # u)
  <2> HIDE DEF C
  <2>1. QED
    BY <1>1, SmallestSet
<1>3. u \in SUBSET S /\ SumFunctionOnSet(f, u) # 0 /\ IsFiniteSet(u)
  BY <1>1, <1>2
<1>4. u # {}
  BY <1>3, SumEmpty
<1>5. Chosen(u) \in S /\ Others(u) \in SUBSET S /\ Others(u) \subseteq u /\ Others(u) # u
  BY <1>3, <1>4, ChosenIs
<1>6. SumFunctionOnSet(f, Others(u)) = 0
  BY <1>2, <1>5
<1>7. SumFunctionOnSet(f, u) = f[Chosen(u)] + SumFunctionOnSet(f, Others(u))
  BY <1>3, <1>4, SumChosen
<1>8. QED
  BY <1>3, <1>5, <1>6, <1>7

\* One value changes: the sum changes as it does.
LEMMA SumChange ==
    ASSUME NEW f, NEW g, NEW S, IsFiniteSet(S), NEW x \in S,
           \A y \in S : f[y] \in Nat /\ g[y] \in Nat, \A y \in S \ {x} : g[y] = f[y]
    PROVE  /\ SumFunctionOnSet(g, S) + f[x] = SumFunctionOnSet(f, S) + g[x]
           /\ SumFunctionOnSet(f, S) \in Nat /\ SumFunctionOnSet(g, S) \in Nat
<1> DEFINE R == S \ {x}
<1>1. IsFiniteSet(R) /\ \A y \in R : f[y] \in Nat /\ g[y] = f[y]
  BY FS_Subset
<1>2. SumFunctionOnSet(f, R) = SumFunctionOnSet(g, R) /\ SumFunctionOnSet(f, R) \in Nat
  <2> HIDE DEF R
  <2>1. QED
    BY <1>1, SumSame, SumNat
<1>3. /\ SumFunctionOnSet(f, S) = f[x] + SumFunctionOnSet(f, R)
      /\ SumFunctionOnSet(g, S) = g[x] + SumFunctionOnSet(g, R)
  BY SumRemove
<1>4. f[x] \in Nat /\ g[x] \in Nat
  OBVIOUS
<1> HIDE DEF R
<1>5. QED
  BY <1>2, <1>3, <1>4

\* A part of the set taken away takes its sum away.
LEMMA SumPart ==
    ASSUME NEW f, NEW S, IsFiniteSet(S), \A y \in S : f[y] \in Nat, NEW T \in SUBSET S
    PROVE  SumFunctionOnSet(f, S) = SumFunctionOnSet(f, T) + SumFunctionOnSet(f, S \ T)
<1> DEFINE Whole(t) == SumFunctionOnSet(f, S) = SumFunctionOnSet(f, t) + SumFunctionOnSet(f, S \ t)
           C == {t \in SUBSET T : ~Whole(t)}
<1> SUFFICES ASSUME C # {} PROVE FALSE
  OBVIOUS
<1>1. \A t \in SUBSET S : IsFiniteSet(t) /\ SumFunctionOnSet(f, t) \in Nat
  <2> SUFFICES ASSUME NEW t \in SUBSET S
               PROVE  IsFiniteSet(t) /\ SumFunctionOnSet(f, t) \in Nat
    OBVIOUS
  <2>1. IsFiniteSet(t)
    BY FS_Subset
  <2>2. QED
    BY <2>1, SumNat
<1>2. PICK u \in C : \A t \in C : ~(t \subseteq u /\ t # u)
  <2>1. \A u \in C : IsFiniteSet(u)
    BY <1>1
  <2> HIDE DEF C
  <2>2. QED
    BY <2>1, SmallestSet
<1>3. u \in SUBSET T /\ u \in SUBSET S /\ ~Whole(u)
  BY <1>2
<1>4. u # {}
  <2>1. S \ {} = S
    OBVIOUS
  <2>2. Whole({})
    BY <1>1, <2>1, SumEmpty
  <2>3. QED
    BY <1>3, <2>2
<1>5. PICK x : x \in u
  BY <1>4
<1> DEFINE v == u \ {x}
<1>6. v \in SUBSET T /\ v \subseteq u /\ v # u
  BY <1>3, <1>5
<1>7. Whole(v)
  BY <1>2, <1>6
<1>8. SumFunctionOnSet(f, u) = f[x] + SumFunctionOnSet(f, v)
  BY <1>1, <1>3, <1>5, SumRemove
<1>9. SumFunctionOnSet(f, S \ v) = f[x] + SumFunctionOnSet(f, S \ u)
  <2>1. x \in S \ v /\ (S \ v) \ {x} = S \ u /\ S \ v \in SUBSET S
    BY <1>3, <1>5
  <2>2. QED
    BY <1>1, <2>1, SumRemove
<1>10. /\ SumFunctionOnSet(f, v) \in Nat /\ SumFunctionOnSet(f, S \ u) \in Nat /\ f[x] \in Nat
       /\ SumFunctionOnSet(f, S) \in Nat
  <2>1. v \in SUBSET S /\ S \ u \in SUBSET S /\ S \in SUBSET S /\ x \in S
    BY <1>3, <1>5
  <2>2. QED
    BY <1>1, <2>1
<1>11. Whole(u)
  <2> HIDE DEF v
  <2>1. QED
    BY <1>7, <1>8, <1>9, <1>10
<1>12. QED
  BY <1>3, <1>11

\* Smaller values have a smaller sum ...
LEMMA SumLess ==
    ASSUME NEW f, NEW g, NEW S, IsFiniteSet(S),
           \A x \in S : f[x] \in Nat /\ g[x] \in Nat /\ f[x] <= g[x]
    PROVE  /\ SumFunctionOnSet(f, S) <= SumFunctionOnSet(g, S)
           /\ SumFunctionOnSet(f, S) \in Nat /\ SumFunctionOnSet(g, S) \in Nat
<1> DEFINE C == {u \in SUBSET S : ~(SumFunctionOnSet(f, u) <= SumFunctionOnSet(g, u))}
<1>0. \A u \in SUBSET S : /\ SumFunctionOnSet(f, u) \in Nat /\ SumFunctionOnSet(g, u) \in Nat
                          /\ IsFiniteSet(u)
  <2> SUFFICES ASSUME NEW u \in SUBSET S
               PROVE  /\ SumFunctionOnSet(f, u) \in Nat /\ SumFunctionOnSet(g, u) \in Nat
                      /\ IsFiniteSet(u)
    OBVIOUS
  <2>1. IsFiniteSet(u)
    BY FS_Subset
  <2>2. QED
    BY <2>1, SumNat
<1> SUFFICES ASSUME C # {} PROVE FALSE
  BY <1>0
<1>1. \A u \in C : IsFiniteSet(u)
  BY FS_Subset
<1>2. PICK u \in C : \A t \in C : ~(t \subseteq u /\ t # u)
  <2> HIDE DEF C
  <2>1. QED
    BY <1>1, SmallestSet
<1>3. /\ u \in SUBSET S /\ ~(SumFunctionOnSet(f, u) <= SumFunctionOnSet(g, u)) /\ IsFiniteSet(u)
  BY <1>1, <1>2
<1>4. u # {}
  <2>1. 0 <= 0
    OBVIOUS
  <2>2. QED
    BY <1>3, <2>1, SumEmpty
<1>5. Chosen(u) \in S /\ Others(u) \in SUBSET S /\ Others(u) \subseteq u /\ Others(u) # u
  BY <1>3, <1>4, ChosenIs
<1>6. SumFunctionOnSet(f, Others(u)) <= SumFunctionOnSet(g, Others(u))
  BY <1>2, <1>5
<1>7. /\ SumFunctionOnSet(f, u) = f[Chosen(u)] + SumFunctionOnSet(f, Others(u))
      /\ SumFunctionOnSet(g, u) = g[Chosen(u)] + SumFunctionOnSet(g, Others(u))
  BY <1>3, <1>4, SumChosen
<1>8. /\ f[Chosen(u)] \in Nat /\ g[Chosen(u)] \in Nat /\ f[Chosen(u)] <= g[Chosen(u)]
      /\ SumFunctionOnSet(f, Others(u)) \in Nat /\ SumFunctionOnSet(g, Others(u)) \in Nat
  BY <1>0, <1>5
<1>9. QED
  BY <1>3, <1>6, <1>7, <1>8

\* ... and one of the same size only if they are the same.
LEMMA SumTight ==
    ASSUME NEW f, NEW g, NEW S, IsFiniteSet(S),
           \A x \in S : f[x] \in Nat /\ g[x] \in Nat /\ f[x] <= g[x],
           SumFunctionOnSet(f, S) = SumFunctionOnSet(g, S), NEW x \in S
    PROVE  f[x] = g[x]
<1> DEFINE R == S \ {x}
<1>1. IsFiniteSet(R) /\ \A y \in R : f[y] \in Nat /\ g[y] \in Nat /\ f[y] <= g[y]
  BY FS_Subset
<1>2. /\ SumFunctionOnSet(f, R) <= SumFunctionOnSet(g, R)
      /\ SumFunctionOnSet(f, R) \in Nat /\ SumFunctionOnSet(g, R) \in Nat
  <2> HIDE DEF R
  <2>1. QED
    BY <1>1, SumLess
<1>3. /\ SumFunctionOnSet(f, S) = f[x] + SumFunctionOnSet(f, R)
      /\ SumFunctionOnSet(g, S) = g[x] + SumFunctionOnSet(g, R)
  <2>1. SumFunctionOnSet(f, S) = f[x] + SumFunctionOnSet(f, R)
    BY SumRemove
  <2>2. SumFunctionOnSet(g, S) = g[x] + SumFunctionOnSet(g, R)
    BY SumRemove
  <2>3. QED
    BY <2>1, <2>2
<1>4. f[x] \in Nat /\ g[x] \in Nat /\ f[x] <= g[x]
  OBVIOUS
<1> DEFINE sf == SumFunctionOnSet(f, R)
           sg == SumFunctionOnSet(g, R)
<1>5. f[x] + sf = g[x] + sg /\ sf \in Nat /\ sg \in Nat /\ sf <= sg
  BY <1>2, <1>3
<1> HIDE DEF sf, sg
<1>6. QED
  BY <1>4, <1>5

LEMMA Distributes == \A a, b, c \in Nat : c * (a + b) = c * a + c * b /\ c * a \in Nat /\ c * 0 = 0
BY Z3

\* Every value times a number: the sum times the number.
LEMMA SumScale ==
    ASSUME NEW f, NEW g, NEW S, IsFiniteSet(S), NEW c \in Nat,
           \A x \in S : f[x] \in Nat /\ g[x] = c * f[x]
    PROVE  SumFunctionOnSet(g, S) = c * SumFunctionOnSet(f, S)
<1> DEFINE C == {u \in SUBSET S : SumFunctionOnSet(g, u) # c * SumFunctionOnSet(f, u)}
<1>0. \A u \in SUBSET S : SumFunctionOnSet(f, u) \in Nat
  <2> SUFFICES ASSUME NEW u \in SUBSET S PROVE SumFunctionOnSet(f, u) \in Nat
    OBVIOUS
  <2>1. IsFiniteSet(u)
    BY FS_Subset
  <2>2. QED
    BY <2>1, SumNat
<1> SUFFICES ASSUME C # {} PROVE FALSE
  OBVIOUS
<1>1. \A u \in C : IsFiniteSet(u)
  BY FS_Subset
<1>2. PICK u \in C : \A t \in C : ~(t \subseteq u /\ t # u)
  <2> HIDE DEF C
  <2>1. QED
    BY <1>1, SmallestSet
<1>3. u \in SUBSET S /\ SumFunctionOnSet(g, u) # c * SumFunctionOnSet(f, u) /\ IsFiniteSet(u)
  BY <1>1, <1>2
<1>4. u # {}
  <2>1. c * 0 = 0
    BY Distributes
  <2>2. QED
    BY <1>3, <2>1, SumEmpty
<1>5. Chosen(u) \in S /\ Others(u) \in SUBSET S /\ Others(u) \subseteq u /\ Others(u) # u
  BY <1>3, <1>4, ChosenIs
<1>6. SumFunctionOnSet(g, Others(u)) = c * SumFunctionOnSet(f, Others(u))
  BY <1>2, <1>5
<1>7. /\ SumFunctionOnSet(f, u) = f[Chosen(u)] + SumFunctionOnSet(f, Others(u))
      /\ SumFunctionOnSet(g, u) = g[Chosen(u)] + SumFunctionOnSet(g, Others(u))
  BY <1>3, <1>4, SumChosen
<1>8. /\ f[Chosen(u)] \in Nat /\ g[Chosen(u)] = c * f[Chosen(u)]
      /\ SumFunctionOnSet(f, Others(u)) \in Nat
  BY <1>0, <1>5
<1>9. c * SumFunctionOnSet(f, u) = c * f[Chosen(u)] + c * SumFunctionOnSet(f, Others(u))
  BY <1>7, <1>8, Distributes
<1>10. QED
  BY <1>3, <1>6, <1>7, <1>8, <1>9

\* Of finitely many values one is the greatest.
LEMMA GreatestValue ==
    ASSUME NEW f, NEW S, IsFiniteSet(S), S # {}, \A x \in S : f[x] \in Int
    PROVE  \E m \in S : \A x \in S : f[m] >= f[x]
<1> DEFINE C == {u \in SUBSET S : u # {} /\ ~\E m \in u : \A x \in u : f[m] >= f[x]}
<1> SUFFICES ASSUME C # {} PROVE FALSE
  OBVIOUS
<1>1. \A u \in C : IsFiniteSet(u)
  BY FS_Subset
<1>2. PICK u \in C : \A t \in C : ~(t \subseteq u /\ t # u)
  <2> HIDE DEF C
  <2>1. QED
    BY <1>1, SmallestSet
<1>3. u \in SUBSET S /\ u # {} /\ ~\E m \in u : \A x \in u : f[m] >= f[x]
  BY <1>2
<1> DEFINE c == Chosen(u)
<1>4. /\ c \in u /\ Others(u) \in SUBSET S /\ Others(u) \subseteq u /\ Others(u) # u
      /\ u = Others(u) \cup {c}
  BY <1>3, ChosenIs DEF Others
<1> HIDE DEF c
<1>5. CASE Others(u) = {}
  <2>1. u = {c} /\ f[c] \in Int
    BY <1>3, <1>4, <1>5
  <2>2. f[c] >= f[c]
    BY <2>1
  <2>3. QED
    BY <1>3, <2>1, <2>2
<1>6. CASE Others(u) # {}
  <2>1. PICK m \in Others(u) : \A x \in Others(u) : f[m] >= f[x]
    BY <1>2, <1>4, <1>6
  <2>2. f[m] \in Int /\ f[c] \in Int /\ m \in u /\ \A x \in u : f[x] \in Int
    BY <1>3, <1>4, <2>1
  <2> HIDE DEF C
  <2>3. CASE f[m] >= f[c]
    <3>1. \A x \in u : f[m] >= f[x]
      BY <1>4, <2>1, <2>3
    <3>2. QED
      BY <1>3, <2>2, <3>1
  <2>4. CASE f[c] >= f[m]
    <3>1. \A x \in u : f[c] >= f[x]
      BY <1>4, <2>1, <2>2, <2>4
    <3>2. QED
      BY <1>3, <1>4, <3>1
  <2>5. QED
    BY <2>2, <2>3, <2>4
<1>7. QED
  BY <1>5, <1>6

\* ... which is the whole domain in SumFunction.
LEMMA SumFunctionIs == ASSUME NEW f PROVE SumFunction(f) = SumFunctionOnSet(f, DOMAIN f)
BY DEF SumFunction

------------------------------------------------------------------------------
(* Elements taken out of a sequence                                        *)

LEMMA RemoveAtIs ==
    ASSUME NEW T, NEW s \in Seq(T), NEW i \in 1 .. Len(s)
    PROVE  /\ RemoveAt(s, i) \in Seq(T)
           /\ Len(RemoveAt(s, i)) = Len(s) - 1
           /\ \A j \in 1 .. Len(s) - 1 : RemoveAt(s, i)[j] = IF j < i THEN s[j] ELSE s[j + 1]
<1> DEFINE a == SubSeq(s, 1, i - 1)
           b == SubSeq(s, i + 1, Len(s))
<1>1. /\ a \in Seq(T) /\ Len(a) = i - 1
      /\ \A j \in 1 .. i - 1 : a[j] = s[j]
  OBVIOUS
<1>2. /\ b \in Seq(T) /\ Len(b) = Len(s) - i
      /\ \A j \in 1 .. Len(s) - i : b[j] = s[i + j]
  OBVIOUS
<1>3. RemoveAt(s, i) = a \o b
  BY DEF RemoveAt
<1> HIDE DEF a, b
<1>4. /\ a \o b \in Seq(T) /\ Len(a \o b) = Len(s) - 1
  <2>1. a \o b \in Seq(T) /\ Len(a \o b) = Len(a) + Len(b)
    <3>1. a \in Seq(T) /\ b \in Seq(T)
      BY <1>1, <1>2
    <3>2. QED
      BY <3>1
  <2>2. Len(s) \in Nat
    OBVIOUS
  <2>3. QED
    BY <1>1, <1>2, <2>1, <2>2
<1>5. ASSUME NEW j \in 1 .. Len(s) - 1
      PROVE  (a \o b)[j] = IF j < i THEN s[j] ELSE s[j + 1]
  <2>1. CASE j < i
    BY <1>1, <1>2, <2>1
  <2>2. CASE ~(j < i)
    <3>1. (a \o b)[j] = b[j - Len(a)]
      BY <1>1, <1>2, <2>2
    <3>2. j - Len(a) \in 1 .. Len(s) - i /\ i + (j - Len(a)) = j + 1
      BY <1>1, <2>2
    <3>3. QED
      BY <1>2, <2>2, <3>1, <3>2
  <2>3. QED
    BY <2>1, <2>2
<1>6. QED
  BY <1>3, <1>4, <1>5

\* The place of the first e in s
LEMMA PlaceIs ==
    ASSUME NEW T, NEW s \in Seq(T), NEW e
    PROVE  LET p == SelectInSeq(s, LAMBDA v : v = e)
           IN  IF \E i \in 1 .. Len(s) : s[i] = e
               THEN p \in 1 .. Len(s) /\ s[p] = e
               ELSE p = 0
<1> DEFINE I == {i \in 1 .. Len(s) : s[i] = e}
           p == SelectInSeq(s, LAMBDA v : v = e)
<1>1. p = IF I # {} THEN Min(I) ELSE 0
  BY DEF SelectInSeq
<1>2. CASE I # {}
  <2>1. I \in SUBSET Nat
    OBVIOUS
  <2> HIDE DEF I
  <2>2. \E m \in I : \A n \in I : m <= n
    BY <1>2, <2>1, LeastNumber
  <2>3. Min(I) \in I
    BY <2>2 DEF Min
  <2>4. QED
    BY <1>1, <1>2, <2>3 DEF I
<1>3. CASE I = {}
  BY <1>1, <1>3
<1>4. QED
  BY <1>2, <1>3

\* RemoveFirst takes nothing else out of a list.
LEMMA RemoveFirstIs ==
    ASSUME NEW T, NEW s \in Seq(T), NEW e
    PROVE  /\ RemoveFirst(s, e) \in Seq(T)
           /\ ToSet(RemoveFirst(s, e)) \subseteq ToSet(s)
           /\ ToSet(s) \subseteq ToSet(RemoveFirst(s, e)) \cup {e}
<1>1. CASE ~\E i \in 1 .. Len(s) : s[i] = e
  BY <1>1 DEF RemoveFirst
<1>2. CASE \E i \in 1 .. Len(s) : s[i] = e
  <2> DEFINE p == SelectInSeq(s, LAMBDA v : v = e)
             r == RemoveAt(s, p)
  <2>1. p \in 1 .. Len(s) /\ s[p] = e /\ RemoveFirst(s, e) = r
    <3>1. p \in 1 .. Len(s) /\ s[p] = e
      BY <1>2, PlaceIs
    <3>2. QED
      BY <1>2, <3>1 DEF RemoveFirst
  <2> HIDE DEF p
  <2>2. /\ r \in Seq(T) /\ Len(r) = Len(s) - 1
        /\ \A j \in 1 .. Len(s) - 1 : r[j] = IF j < p THEN s[j] ELSE s[j + 1]
    BY <2>1, RemoveAtIs
  <2> HIDE DEF r
  <2>3. ASSUME NEW j \in DOMAIN r PROVE r[j] \in ToSet(s)
    <3>1. j \in 1 .. Len(s) - 1 /\ j \in DOMAIN s /\ j + 1 \in DOMAIN s
      BY <2>2
    <3>2. QED
      BY <2>2, <3>1 DEF ToSet
  <2>4. ASSUME NEW j \in DOMAIN s, s[j] # e PROVE s[j] \in ToSet(r)
    <3>1. j \in 1 .. Len(s) /\ j # p
      BY <2>1, <2>4
    <3>2. CASE j < p
      <4>1. j \in DOMAIN r /\ r[j] = s[j]
        BY <2>1, <2>2, <3>1, <3>2
      <4>2. QED
        BY <4>1 DEF ToSet
    <3>3. CASE j > p
      <4>1. j - 1 \in DOMAIN r /\ r[j - 1] = s[(j - 1) + 1] /\ (j - 1) + 1 = j
        BY <2>1, <2>2, <3>1, <3>3
      <4>2. QED
        BY <4>1 DEF ToSet
    <3>4. QED
      BY <2>1, <3>1, <3>2, <3>3
  <2>5. QED
    BY <2>1, <2>2, <2>3, <2>4 DEF ToSet
<1>3. QED
  BY <1>1, <1>2

------------------------------------------------------------------------------
(* The order of two elements of a sequence                                 *)

\* b has a place after every place of a; a has a place before one of b.
After(s, a, b) == \E j \in DOMAIN s : s[j] = b /\ \A i \in DOMAIN s : s[i] = a => i < j
Before(s, a, b) == \E i, j \in DOMAIN s : s[i] = a /\ s[j] = b /\ i < j
NoRepeats(s) == \A i, j \in DOMAIN s : s[i] = s[j] => i = j

\* The place at which RemoveFirst takes an element out
LEMMA RemoveFirstAt ==
    ASSUME NEW T, NEW s \in Seq(T), NEW e, e \in ToSet(s)
    PROVE  \E p \in 1 .. Len(s) :
             /\ s[p] = e
             /\ RemoveFirst(s, e) \in Seq(T)
             /\ Len(RemoveFirst(s, e)) = Len(s) - 1
             /\ \A j \in 1 .. Len(s) - 1 :
                  RemoveFirst(s, e)[j] = IF j < p THEN s[j] ELSE s[j + 1]
<1>1. \E i \in 1 .. Len(s) : s[i] = e
  BY DEF ToSet
<1>2. PICK p \in 1 .. Len(s) : s[p] = e /\ RemoveFirst(s, e) = RemoveAt(s, p)
  <2> DEFINE p == SelectInSeq(s, LAMBDA v : v = e)
  <2>1. p \in 1 .. Len(s) /\ s[p] = e
    BY <1>1, PlaceIs
  <2>2. RemoveFirst(s, e) = RemoveAt(s, p)
    BY <1>1, <2>1 DEF RemoveFirst
  <2>3. QED
    BY <2>1, <2>2
<1>3. QED
  BY <1>2, RemoveAtIs

LEMMA RemoveNone ==
    ASSUME NEW T, NEW s \in Seq(T), NEW e, e \notin ToSet(s)
    PROVE  RemoveFirst(s, e) = s
BY DEF RemoveFirst, ToSet

\* An element put in front of a sequence
LEMMA ConsIs ==
    ASSUME NEW T, NEW s \in Seq(T), NEW x \in T
    PROVE  /\ <<x>> \o s \in Seq(T) /\ Len(<<x>> \o s) = Len(s) + 1
           /\ (<<x>> \o s)[1] = x
           /\ \A i \in DOMAIN s : i \in Nat /\ i > 0 /\ (<<x>> \o s)[i + 1] = s[i]
           /\ \A i \in DOMAIN (<<x>> \o s) :
                i \in Nat /\ i > 0 /\ (i = 1 \/ (i - 1 \in DOMAIN s /\ (<<x>> \o s)[i] = s[i - 1]))
           /\ ToSet(<<x>> \o s) = {x} \cup ToSet(s)
           /\ NoRepeats(s) /\ x \notin ToSet(s) => NoRepeats(<<x>> \o s)
<1> DEFINE t == <<x>> \o s
<1>1. t \in Seq(T) /\ Len(t) = Len(s) + 1 /\ Len(s) \in Nat /\ t[1] = x
  OBVIOUS
<1>2. ASSUME NEW i \in DOMAIN s PROVE i \in Nat /\ i > 0 /\ i + 1 \in DOMAIN t /\ t[i + 1] = s[i]
  <2>1. i \in 1 .. Len(s) /\ i + 1 \in 1 .. Len(s) + 1 /\ i + 1 > 1
    OBVIOUS
  <2>2. t[i + 1] = s[(i + 1) - 1] /\ (i + 1) - 1 = i
    BY <2>1
  <2>3. QED
    BY <1>1, <2>1, <2>2
<1>3. ASSUME NEW i \in DOMAIN t
      PROVE  i \in Nat /\ i > 0 /\ (i = 1 \/ (i - 1 \in DOMAIN s /\ t[i] = s[i - 1]))
  <2>1. i \in 1 .. Len(s) + 1
    BY <1>1
  <2>2. CASE i # 1
    <3>1. i - 1 \in DOMAIN s /\ (i - 1) + 1 = i
      BY <1>1, <2>1, <2>2
    <3>2. QED
      BY <1>2, <2>1, <3>1
  <2>3. QED
    BY <2>1, <2>2
<1>4. 1 \in DOMAIN t
  BY <1>1
<1> HIDE DEF t
<1>5. ToSet(t) = {x} \cup ToSet(s)
  <2>1. \A i \in DOMAIN t : t[i] \in {x} \cup ToSet(s)
    BY <1>1, <1>3 DEF ToSet
  <2>2. x \in ToSet(t) /\ \A i \in DOMAIN s : s[i] \in ToSet(t)
    BY <1>1, <1>2, <1>4 DEF ToSet
  <2>3. QED
    BY <2>1, <2>2 DEF ToSet
<1>6. ASSUME NoRepeats(s), x \notin ToSet(s), NEW i \in DOMAIN t, NEW j \in DOMAIN t, t[i] = t[j]
      PROVE  i = j
  <2>1. \A n \in DOMAIN s : s[n] # x
    BY <1>6 DEF ToSet
  <2>2. CASE i = 1
    BY <1>1, <1>3, <1>6, <2>1, <2>2
  <2>3. CASE j = 1
    BY <1>1, <1>3, <1>6, <2>1, <2>3
  <2>4. CASE i # 1 /\ j # 1
    <3>1. i - 1 \in DOMAIN s /\ j - 1 \in DOMAIN s /\ s[i - 1] = s[j - 1] /\ i \in Nat /\ j \in Nat
      BY <1>3, <1>6, <2>4
    <3>2. i - 1 = j - 1
      BY <1>6, <3>1 DEF NoRepeats
    <3>3. QED
      BY <3>1, <3>2
  <2>5. QED
    BY <2>2, <2>3, <2>4
<1>7. QED
  BY <1>1, <1>2, <1>3, <1>5, <1>6 DEF t, NoRepeats

\* The one element at a place taken out
LEMMA RemoveAtOne ==
    ASSUME NEW T, NEW s \in Seq(T), NEW p \in 1 .. Len(s), NoRepeats(s)
    PROVE  /\ ToSet(RemoveAt(s, p)) = ToSet(s) \ {s[p]}
           /\ NoRepeats(RemoveAt(s, p))
<1> DEFINE r == RemoveAt(s, p)
<1>1. /\ r \in Seq(T) /\ Len(r) = Len(s) - 1 /\ Len(s) \in Nat /\ p \in Nat
      /\ \A j \in 1 .. Len(s) - 1 : r[j] = IF j < p THEN s[j] ELSE s[j + 1]
  BY RemoveAtIs
<1> HIDE DEF r
<1>2. DOMAIN r = 1 .. Len(s) - 1
  BY <1>1
<1>3. ASSUME NEW j \in DOMAIN r
      PROVE  \E i \in DOMAIN s : i # p /\ i = (IF j < p THEN j ELSE j + 1) /\ r[j] = s[i]
  <2>1. CASE j < p
    BY <1>1, <1>2, <2>1
  <2>2. CASE ~(j < p)
    BY <1>1, <1>2, <2>2
  <2>3. QED
    BY <2>1, <2>2
<1>4. ASSUME NEW i \in DOMAIN s, i # p PROVE \E j \in DOMAIN r : r[j] = s[i]
  <2>1. i \in 1 .. Len(s)
    OBVIOUS
  <2>2. CASE i < p
    BY <1>1, <1>2, <2>1, <2>2
  <2>3. CASE i > p
    <3>1. i - 1 \in DOMAIN r /\ (i - 1) + 1 = i /\ ~(i - 1 < p)
      BY <1>1, <1>2, <2>1, <2>3
    <3>2. r[i - 1] = s[i]
      BY <1>1, <1>2, <3>1
    <3>3. QED
      BY <3>1, <3>2
  <2>4. QED
    BY <1>1, <1>4, <2>1, <2>2, <2>3
<1>5. p \in DOMAIN s
  OBVIOUS
<1>6. ToSet(r) = ToSet(s) \ {s[p]}
  <2>1. \A j \in DOMAIN r : r[j] \in ToSet(s) \ {s[p]}
    BY <1>3, <1>5 DEF NoRepeats, ToSet
  <2>2. \A i \in DOMAIN s : s[i] # s[p] => \E j \in DOMAIN r : r[j] = s[i]
    BY <1>4
  <2>3. QED
    BY <2>1, <2>2 DEF ToSet
<1>7. ASSUME NEW i \in DOMAIN r, NEW j \in DOMAIN r, r[i] = r[j] PROVE i = j
  <2>1. PICK m \in DOMAIN s : m = (IF i < p THEN i ELSE i + 1) /\ r[i] = s[m]
    BY <1>3
  <2>2. PICK n \in DOMAIN s : n = (IF j < p THEN j ELSE j + 1) /\ r[j] = s[n]
    BY <1>3
  <2>3. m = n
    BY <1>7, <2>1, <2>2 DEF NoRepeats
  <2>4. i \in Nat /\ j \in Nat
    BY <1>2
  <2>5. QED
    BY <1>1, <2>1, <2>2, <2>3, <2>4
<1>8. QED
  BY <1>6, <1>7 DEF r, NoRepeats

LEMMA AfterRemove ==
    ASSUME NEW T, NEW s \in Seq(T), NEW e, NEW a, NEW b, b # e, After(s, a, b)
    PROVE  After(RemoveFirst(s, e), a, b)
<1>1. CASE e \notin ToSet(s)
  BY <1>1, RemoveNone
<1>2. CASE e \in ToSet(s)
  <2> DEFINE r == RemoveFirst(s, e)
  <2>1. PICK p \in 1 .. Len(s) :
          /\ s[p] = e /\ r \in Seq(T) /\ Len(r) = Len(s) - 1
          /\ \A j \in 1 .. Len(s) - 1 : r[j] = IF j < p THEN s[j] ELSE s[j + 1]
    BY <1>2, RemoveFirstAt
  <2> HIDE DEF r
  <2>2. PICK j \in DOMAIN s : s[j] = b /\ \A i \in DOMAIN s : s[i] = a => i < j
    BY DEF After
  <2>3. j \in 1 .. Len(s) /\ j # p /\ DOMAIN r = 1 .. Len(s) - 1 /\ Len(s) \in Nat
    BY <2>1, <2>2
  <2>4. PICK k \in DOMAIN r : r[k] = b /\ k = IF j < p THEN j ELSE j - 1
    <3>1. CASE j < p
      <4>1. j \in DOMAIN r /\ r[j] = s[j]
        BY <2>1, <2>3, <3>1
      <4>2. QED
        BY <2>2, <3>1, <4>1
    <3>2. CASE p < j
      <4>1. j - 1 \in DOMAIN r /\ r[j - 1] = s[(j - 1) + 1] /\ (j - 1) + 1 = j
        BY <2>1, <2>3, <3>2
      <4>2. QED
        BY <2>2, <2>3, <3>2, <4>1
    <3>3. QED
      BY <2>3, <3>1, <3>2
  <2>5. ASSUME NEW i \in DOMAIN r, r[i] = a PROVE i < k
    <3>1. i \in 1 .. Len(s) - 1 /\ i \in DOMAIN s /\ i + 1 \in DOMAIN s
      BY <2>3
    <3>2. CASE i < p
      <4>1. i < j
        BY <2>1, <2>2, <2>5, <3>1, <3>2
      <4>2. QED
        BY <2>3, <2>4, <3>1, <3>2, <4>1
    <3>3. CASE ~(i < p)
      <4>1. i + 1 < j
        BY <2>1, <2>2, <2>5, <3>1, <3>3
      <4>2. QED
        BY <2>3, <2>4, <3>1, <3>3, <4>1
    <3>4. QED
      BY <3>2, <3>3
  <2>6. After(r, a, b)
    BY <2>4, <2>5 DEF After
  <2>7. QED
    BY <2>6 DEF r
<1>3. QED
  BY <1>1, <1>2

LEMMA BeforeRemove ==
    ASSUME NEW T, NEW s \in Seq(T), NEW e, NEW a, NEW b, Before(RemoveFirst(s, e), a, b)
    PROVE  Before(s, a, b)
<1>1. CASE e \notin ToSet(s)
  BY <1>1, RemoveNone
<1>2. CASE e \in ToSet(s)
  <2> DEFINE r == RemoveFirst(s, e)
  <2>1. PICK p \in 1 .. Len(s) :
          /\ r \in Seq(T) /\ Len(r) = Len(s) - 1
          /\ \A j \in 1 .. Len(s) - 1 : r[j] = IF j < p THEN s[j] ELSE s[j + 1]
    BY <1>2, RemoveFirstAt
  <2>2. PICK i, j \in DOMAIN r : r[i] = a /\ r[j] = b /\ i < j
    BY DEF Before
  <2> HIDE DEF r
  <2>3. DOMAIN r = 1 .. Len(s) - 1 /\ Len(s) \in Nat
    BY <2>1
  <2> DEFINE up(n) == IF n < p THEN n ELSE n + 1
  <2>4. \A n \in DOMAIN r : up(n) \in DOMAIN s /\ r[n] = s[up(n)]
    BY <2>1, <2>3
  <2>5. up(i) < up(j)
    BY <2>2, <2>3
  <2> HIDE DEF up
  <2>6. QED
    BY <2>2, <2>4, <2>5 DEF Before
<1>3. QED
  BY <1>1, <1>2

LEMMA RepeatsRemove ==
    ASSUME NEW T, NEW s \in Seq(T), NEW e, NoRepeats(s)
    PROVE  NoRepeats(RemoveFirst(s, e)) /\ e \notin ToSet(RemoveFirst(s, e))
<1>1. CASE e \notin ToSet(s)
  BY <1>1, RemoveNone
<1>2. CASE e \in ToSet(s)
  <2> DEFINE r == RemoveFirst(s, e)
  <2>1. PICK p \in 1 .. Len(s) :
          /\ s[p] = e /\ r \in Seq(T) /\ Len(r) = Len(s) - 1
          /\ \A j \in 1 .. Len(s) - 1 : r[j] = IF j < p THEN s[j] ELSE s[j + 1]
    BY <1>2, RemoveFirstAt
  <2> HIDE DEF r
  <2>2. DOMAIN r = 1 .. Len(s) - 1 /\ Len(s) \in Nat
    BY <2>1
  <2> DEFINE up(n) == IF n < p THEN n ELSE n + 1
  <2>3. \A n \in DOMAIN r : up(n) \in DOMAIN s /\ r[n] = s[up(n)] /\ up(n) # p
    BY <2>1, <2>2
  <2>4. \A m, n \in DOMAIN r : up(m) = up(n) => m = n
    BY <2>2
  <2> HIDE DEF up
  <2>5. NoRepeats(r)
    BY <2>3, <2>4 DEF NoRepeats
  <2>6. e \notin ToSet(r)
    BY <2>1, <2>3 DEF NoRepeats, ToSet
  <2>7. QED
    BY <2>5, <2>6 DEF r
<1>3. QED
  BY <1>1, <1>2

\* An element is appended.
LEMMA AppendPlaces ==
    ASSUME NEW T, NEW s \in Seq(T), NEW x \in T
    PROVE  /\ Append(s, x) \in Seq(T)
           /\ DOMAIN Append(s, x) = DOMAIN s \cup {Len(s) + 1}
           /\ \A i \in DOMAIN s : Append(s, x)[i] = s[i] /\ i \in Nat /\ i < Len(s) + 1
           /\ Append(s, x)[Len(s) + 1] = x
           /\ ToSet(Append(s, x)) = ToSet(s) \cup {x}
<1>1. /\ Append(s, x) \in Seq(T) /\ Len(Append(s, x)) = Len(s) + 1 /\ Len(s) \in Nat
      /\ \A i \in 1 .. Len(s) : Append(s, x)[i] = s[i]
      /\ Append(s, x)[Len(s) + 1] = x
  OBVIOUS
<1>2. DOMAIN Append(s, x) = DOMAIN s \cup {Len(s) + 1}
  BY <1>1
<1>3. \A i \in DOMAIN s : Append(s, x)[i] = s[i] /\ i \in Nat /\ i < Len(s) + 1
  BY <1>1
<1>4. ToSet(Append(s, x)) = ToSet(s) \cup {x}
  BY <1>1, <1>2, <1>3 DEF ToSet
<1>5. QED
  BY <1>1, <1>2, <1>3, <1>4

LEMMA AppendOrder ==
    ASSUME NEW T, NEW s \in Seq(T), NEW x \in T
    PROVE  /\ \A a : a # x => After(Append(s, x), a, x)
           /\ \A a, b : a # x /\ After(s, a, b) => After(Append(s, x), a, b)
           /\ \A a, b : b # x /\ Before(Append(s, x), a, b) => Before(s, a, b)
           /\ NoRepeats(s) /\ x \notin ToSet(s) => NoRepeats(Append(s, x))
<1> DEFINE t == Append(s, x)
           n == Len(s) + 1
<1>1. /\ DOMAIN t = DOMAIN s \cup {n}
      /\ \A i \in DOMAIN s : t[i] = s[i] /\ i \in Nat /\ i < n
      /\ t[n] = x
      /\ n \in Nat
  BY AppendPlaces
<1> HIDE DEF t, n
<1>2. ASSUME NEW a, a # x PROVE After(t, a, x)
  BY <1>1, <1>2 DEF After
<1>3. ASSUME NEW a, NEW b, a # x, After(s, a, b) PROVE After(t, a, b)
  BY <1>1, <1>3 DEF After
<1>4. ASSUME NEW a, NEW b, b # x, Before(t, a, b) PROVE Before(s, a, b)
  <2>1. PICK i, j \in DOMAIN t : t[i] = a /\ t[j] = b /\ i < j
    BY <1>4 DEF Before
  <2>2. j \in DOMAIN s
    BY <1>1, <1>4, <2>1
  <2>3. i \in DOMAIN s
    BY <1>1, <2>1, <2>2
  <2>4. QED
    BY <1>1, <2>1, <2>2, <2>3 DEF Before
<1>5. NoRepeats(s) /\ x \notin ToSet(s) => NoRepeats(t)
  BY <1>1 DEF NoRepeats, ToSet
<1>6. QED
  BY <1>2, <1>3, <1>4, <1>5 DEF t

\* The head is taken off.
LEMMA TailPlaces ==
    ASSUME NEW T, NEW s \in Seq(T), s # <<>>
    PROVE  /\ Tail(s) \in Seq(T) /\ Head(s) = s[1] /\ 1 \in DOMAIN s
           /\ \A i \in DOMAIN s : i \in Nat /\ (i # 1 => i - 1 \in DOMAIN Tail(s))
           /\ \A i \in DOMAIN Tail(s) : i \in Nat /\ i + 1 \in DOMAIN s /\ Tail(s)[i] = s[i + 1]
           /\ ToSet(s) \subseteq ToSet(Tail(s)) \cup {Head(s)}
<1>1. /\ Tail(s) \in Seq(T) /\ Len(Tail(s)) = Len(s) - 1 /\ Len(s) \in Nat /\ Len(s) # 0
      /\ \A i \in 1 .. Len(Tail(s)) : Tail(s)[i] = s[i + 1]
      /\ Head(s) = s[1]
  OBVIOUS
<1>2. \A i \in DOMAIN s : i \in Nat /\ (i # 1 => i - 1 \in DOMAIN Tail(s))
  BY <1>1
<1>3. \A i \in DOMAIN Tail(s) : i \in Nat /\ i + 1 \in DOMAIN s /\ Tail(s)[i] = s[i + 1]
  BY <1>1
<1>4. ASSUME NEW i \in DOMAIN s PROVE s[i] \in ToSet(Tail(s)) \cup {Head(s)}
  <2>1. CASE i = 1
    BY <1>1, <2>1
  <2>2. CASE i # 1
    <3>1. i - 1 \in DOMAIN Tail(s) /\ Tail(s)[i - 1] = s[(i - 1) + 1] /\ (i - 1) + 1 = i
      BY <1>2, <1>3, <2>2
    <3>2. QED
      BY <3>1 DEF ToSet
  <2>3. QED
    BY <2>1, <2>2
<1>5. QED
  BY <1>1, <1>2, <1>3, <1>4 DEF ToSet

LEMMA AfterTail ==
    ASSUME NEW T, NEW s \in Seq(T), s # <<>>, NEW a, NEW b, b # Head(s), After(s, a, b)
    PROVE  After(Tail(s), a, b)
<1> DEFINE t == Tail(s)
<1>1. /\ Head(s) = s[1]
      /\ \A i \in DOMAIN s : i \in Nat /\ (i # 1 => i - 1 \in DOMAIN t)
      /\ \A i \in DOMAIN t : i \in Nat /\ i + 1 \in DOMAIN s /\ t[i] = s[i + 1]
  BY TailPlaces
<1> HIDE DEF t
<1>2. PICK j \in DOMAIN s : s[j] = b /\ \A i \in DOMAIN s : s[i] = a => i < j
  BY DEF After
<1>3. j - 1 \in DOMAIN t /\ t[j - 1] = s[(j - 1) + 1] /\ (j - 1) + 1 = j
  BY <1>1, <1>2
<1>4. \A i \in DOMAIN t : t[i] = a => i < j - 1
  BY <1>1, <1>2
<1>5. After(t, a, b)
  BY <1>2, <1>3, <1>4 DEF After
<1>6. QED
  BY <1>5 DEF t

------------------------------------------------------------------------------
(* FoldSet with RemoveFirst: the elements of a set taken out of a list one *)
(* after the other                                                         *)

WithoutAll(list, S) == FoldSet(LAMBDA x, l : RemoveFirst(l, x), list, S)

\* The function by which the fold takes out the subsets of S
TakesOut(g, list, S) ==
  g = [s \in SUBSET S |-> IF s = {} THEN list ELSE RemoveFirst(g[Others(s)], Chosen(s))]

LEMMA TakesOutIs ==
    ASSUME NEW g, NEW list, NEW S, TakesOut(g, list, S), NEW s, s \subseteq S
    PROVE  g[s] = IF s = {} THEN list ELSE RemoveFirst(g[Others(s)], Chosen(s))
BY DEF TakesOut

LEMMA TakesOutUnique ==
    ASSUME NEW list, NEW g, NEW h, NEW S, NEW T, IsFiniteSet(S),
           TakesOut(g, list, S), TakesOut(h, list, T), NEW s, s \subseteq S, s \subseteq T
    PROVE  g[s] = h[s]
<1> DEFINE C == {u \in SUBSET s : g[u] # h[u]}
<1> SUFFICES ASSUME C # {} PROVE FALSE
  OBVIOUS
<1>1. \A u \in C : IsFiniteSet(u)
  BY FS_Subset
<1>2. PICK u \in C : \A t \in C : ~(t \subseteq u /\ t # u)
  <2> HIDE DEF C
  <2>1. QED
    BY <1>1, SmallestSet
<1>3. u # {}
  BY TakesOutIs
<1>4. Others(u) \subseteq u /\ Others(u) # u /\ Others(u) \subseteq s
  BY <1>3, ChosenIs
<1>5. g[Others(u)] = h[Others(u)]
  BY <1>2, <1>4
<1>6. /\ g[u] = RemoveFirst(g[Others(u)], Chosen(u))
      /\ h[u] = RemoveFirst(h[Others(u)], Chosen(u))
  BY <1>3, TakesOutIs
<1>7. QED
  BY <1>5, <1>6

LEMMA TakesOutExists ==
    ASSUME NEW list, NEW S, IsFiniteSet(S)
    PROVE  \E g : TakesOut(g, list, S)
<1> DEFINE C == {u \in SUBSET S : ~\E g : TakesOut(g, list, u)}
<1> SUFFICES ASSUME C # {} PROVE FALSE
  OBVIOUS
<1>1. \A u \in C : IsFiniteSet(u)
  BY FS_Subset
<1>2. PICK u \in C : \A t \in C : ~(t \subseteq u /\ t # u)
  <2> HIDE DEF C
  <2>1. QED
    BY <1>1, SmallestSet
<1> DEFINE G(t) == CHOOSE g : TakesOut(g, list, t)
<1>3. ASSUME NEW t, t \subseteq u, t # u
      PROVE  TakesOut(G(t), list, t) /\ IsFiniteSet(t)
  <2>1. t \in SUBSET S /\ t \notin C
    BY <1>2, <1>3
  <2>2. QED
    BY <2>1, FS_Subset
<1> HIDE DEF G
<1>4. ASSUME NEW t, t \subseteq u, t # u, t # {}
      PROVE  G(t)[t] = RemoveFirst(G(Others(t))[Others(t)], Chosen(t))
  <2>1. Others(t) \subseteq t /\ Others(t) \subseteq u /\ Others(t) # u
    BY <1>4, ChosenIs
  <2>2. TakesOut(G(t), list, t) /\ TakesOut(G(Others(t)), list, Others(t)) /\ IsFiniteSet(t)
    BY <1>3, <1>4, <2>1
  <2>3. G(t)[Others(t)] = G(Others(t))[Others(t)]
    BY <2>1, <2>2, TakesOutUnique
  <2>4. G(t)[t] = RemoveFirst(G(t)[Others(t)], Chosen(t))
    BY <1>4, <2>2, TakesOutIs
  <2>5. QED
    BY <2>3, <2>4
<1> DEFINE h == [s \in SUBSET u |-> IF s = {} THEN list
                                    ELSE RemoveFirst(G(Others(s))[Others(s)], Chosen(s))]
<1>5. ASSUME NEW s \in SUBSET u, s # {}
      PROVE  h[Others(s)] = G(Others(s))[Others(s)]
  <2>1. Others(s) \subseteq u /\ Others(s) # u
    BY <1>5, ChosenIs
  <2>2. CASE Others(s) = {}
    <3>1. G({})[{}] = list
      BY <1>3, <2>1, <2>2, TakesOutIs
    <3>2. QED
      BY <2>1, <2>2, <3>1
  <2>3. CASE Others(s) # {}
    BY <1>4, <2>1, <2>3
  <2>4. QED
    BY <2>2, <2>3
<1>6. TakesOut(h, list, u)
  BY <1>5 DEF TakesOut
<1>7. QED
  BY <1>2, <1>6

\* What is left is a list of the same elements, without more than was to go.
LEMMA WithoutAllIs ==
    ASSUME NEW T, NEW list \in Seq(T), NEW S, IsFiniteSet(S)
    PROVE  /\ WithoutAll(list, S) \in Seq(T)
           /\ ToSet(WithoutAll(list, S)) \subseteq ToSet(list)
           /\ ToSet(list) \subseteq ToSet(WithoutAll(list, S)) \cup S
           /\ \A a, b : b \notin S /\ After(list, a, b) => After(WithoutAll(list, S), a, b)
<1>1. PICK g : TakesOut(g, list, S) /\ WithoutAll(list, S) = g[S]
  <2> DEFINE g == CHOOSE g : TakesOut(g, list, S)
  <2>1. TakesOut(g, list, S)
    BY TakesOutExists
  <2>2. WithoutAll(list, S) = g[S]
    BY DEF WithoutAll, FoldSet, MapThenFoldSet, TakesOut, Chosen, Others
  <2>3. QED
    BY <2>1, <2>2
<1> DEFINE Left(u) == /\ g[u] \in Seq(T) /\ ToSet(g[u]) \subseteq ToSet(list)
                      /\ ToSet(list) \subseteq ToSet(g[u]) \cup u
                      /\ \A a, b : b \notin u /\ After(list, a, b) => After(g[u], a, b)
           C == {u \in SUBSET S : ~Left(u)}
<1>2. ASSUME C # {} PROVE FALSE
  <2>1. \A u \in C : IsFiniteSet(u)
    BY FS_Subset
  <2>2. PICK u \in C : \A t \in C : ~(t \subseteq u /\ t # u)
    <3> HIDE DEF C
    <3>1. QED
      BY <1>2, <2>1, SmallestSet
  <2>3. u # {}
    <3>1. g[{}] = list
      BY <1>1, TakesOutIs
    <3>2. Left({})
      BY <3>1
    <3>3. QED
      BY <2>2, <3>2
  <2>4. Others(u) \subseteq u /\ Others(u) # u /\ Others(u) \in SUBSET S /\ u = Others(u) \cup {Chosen(u)}
    BY <2>3, ChosenIs DEF Others
  <2>5. Left(Others(u))
    BY <2>2, <2>4
  <2>6. g[u] = RemoveFirst(g[Others(u)], Chosen(u))
    BY <1>1, <2>3, TakesOutIs
  <2>7. /\ g[u] \in Seq(T) /\ ToSet(g[u]) \subseteq ToSet(g[Others(u)])
        /\ ToSet(g[Others(u)]) \subseteq ToSet(g[u]) \cup {Chosen(u)}
    BY <2>5, <2>6, RemoveFirstIs
  <2>8. ASSUME NEW a, NEW b, b \notin u, After(list, a, b) PROVE After(g[u], a, b)
    <3>1. After(g[Others(u)], a, b) /\ b # Chosen(u)
      BY <2>4, <2>5, <2>8
    <3>2. QED
      BY <2>5, <2>6, <3>1, AfterRemove
  <2>9. Left(u)
    BY <2>4, <2>5, <2>7, <2>8
  <2>10. QED
    BY <2>2, <2>9
<1>3. Left(S)
  BY <1>2
<1>4. QED
  BY <1>1, <1>3
=============================================================================
