---------------------------- MODULE SumTheorems ----------------------------
(***************************************************************************)
(* Sums of a function over a finite set, as SumFunctionOnSet computes      *)
(* them: what one element more or less adds, and what the sum depends on.  *)
(* The induction is over the finite subsets of a set: a claim that fails   *)
(* fails of a smallest one (SmallestSet), and each lemma is about that.    *)
(***************************************************************************)
EXTENDS Functions, Integers, FiniteSetTheorems, WellFoundedInduction, TLAPS

\* The element that is added next, as FoldFunctionOnSet chooses it.
Some(s) == CHOOSE x \in s : TRUE

\* One step of the recursion, and the functions that satisfy it.
Step(f, s, g) == IF s = {} THEN 0 ELSE f[Some(s)] + g[s \ {Some(s)}]

Sums(f, S, g) == g = [s \in SUBSET S |-> Step(f, s, g)]

\* SumFunctionOnSet is the recursion over the subsets.
LEMMA SumUnfolded ==
  ASSUME NEW f, NEW S
  PROVE  SumFunctionOnSet(f, S) = (CHOOSE g : Sums(f, S, g))[S]
BY DEF SumFunctionOnSet, FoldFunctionOnSet, MapThenFoldSet, Sums, Step, Some

\* Among the subsets of a finite set that are in B one has no other below it.
LEMMA SmallestSet ==
  ASSUME NEW S, IsFiniteSet(S), NEW B, B \subseteq SUBSET S, B # {}
  PROVE  \E T \in B : \A U \in SUBSET T : U # T => U \notin B
<1>1. IsWellFoundedOn(StrictSubsetOrdering(S), SUBSET S)
  BY FS_StrictSubsetOrderingWellFounded, FS_FiniteSubsetsOfFinite
<1>2. PICK T \in B : \A U \in B : ~ (<<U, T>> \in StrictSubsetOrdering(S))
  BY <1>1, WFMin
<1>3. ASSUME NEW U \in SUBSET T, U # T, U \in B PROVE FALSE
  BY <1>2, <1>3 DEF StrictSubsetOrdering
<1> QED
  BY <1>2, <1>3

LEMMA SomeOf == ASSUME NEW s, s # {} PROVE Some(s) \in s
BY DEF Some

-----------------------------------------------------------------------------
(* The recursion has one solution *)

LEMMA SumsValue ==
  ASSUME NEW f, NEW S, NEW g, Sums(f, S, g), NEW s \in SUBSET S
  PROVE  g[s] = Step(f, s, g)
BY DEF Sums

\* Two solutions agree where both are defined.
LEMMA SumsAgree ==
  ASSUME NEW f, NEW S, IsFiniteSet(S), NEW R, NEW g, NEW h, Sums(f, S, g), Sums(f, R, h)
  PROVE  \A s \in SUBSET (S \cap R) : g[s] = h[s]
<1> DEFINE B == {s \in SUBSET (S \cap R) : g[s] # h[s]}
<1> SUFFICES ASSUME B # {} PROVE FALSE
  OBVIOUS
<1>1. PICK T \in B : \A U \in SUBSET T : U # T => U \notin B
  <2>1. B \subseteq SUBSET S
    OBVIOUS
  <2> HIDE DEF B
  <2> QED
    BY <2>1, SmallestSet
<1>2. T \in SUBSET S /\ T \in SUBSET R /\ g[T] # h[T]
  OBVIOUS
<1>3. g[T] = Step(f, T, g) /\ h[T] = Step(f, T, h)
  BY <1>2, SumsValue
<1>4. T # {}
  BY <1>2, <1>3 DEF Step
<1>5. PICK x \in T : x = Some(T)
  BY <1>4, SomeOf
<1>6. g[T \ {x}] = h[T \ {x}]
  <2>1. T \ {x} \in SUBSET T /\ T \ {x} # T /\ T \ {x} \in SUBSET (S \cap R)
    BY <1>2
  <2> QED
    BY <1>1, <2>1
<1> QED
  BY <1>2, <1>3, <1>4, <1>5, <1>6 DEF Step

\* The sum of a set is the last value of any solution over it or a larger set.
LEMMA SumOfSolution ==
  ASSUME NEW f, NEW S, IsFiniteSet(S), NEW R \in SUBSET S, NEW h, Sums(f, S, h),
         \E g : Sums(f, R, g)
  PROVE  SumFunctionOnSet(f, R) = h[R]
<1>1. PICK g : g = CHOOSE k : Sums(f, R, k)
  OBVIOUS
<1>2. Sums(f, R, g)
  BY <1>1
<1>3. g[R] = h[R]
  BY <1>2, SumsAgree
<1> QED
  BY <1>1, <1>3, SumUnfolded

\* Over every finite set there is a solution: the sums of its subsets.
LEMMA SumsExist ==
  ASSUME NEW f, NEW S, IsFiniteSet(S)
  PROVE  \E g : Sums(f, S, g)
<1> DEFINE B == {s \in SUBSET S : ~ \E g : Sums(f, s, g)}
<1> SUFFICES ASSUME B # {} PROVE FALSE
  BY DEF B
<1>1. PICK T \in B : \A U \in SUBSET T : U # T => U \notin B
  <2>1. B \subseteq SUBSET S
    OBVIOUS
  <2> HIDE DEF B
  <2> QED
    BY <2>1, SmallestSet
<1>2. T \in SUBSET S /\ ~ \E g : Sums(f, T, g)
  OBVIOUS
<1>3. \A U \in SUBSET T : U # T => \E g : Sums(f, U, g)
  BY <1>1
<1> HIDE DEF B
<1> DEFINE part(s) == SumFunctionOnSet(f, s)
           whole == [s \in SUBSET T |->
                       IF s # T \/ s = {} THEN IF s = {} THEN 0 ELSE part(s)
                       ELSE f[Some(T)] + (IF T \ {Some(T)} = {} THEN 0 ELSE part(T \ {Some(T)}))]
<1>4. ASSUME NEW s \in SUBSET T, s # T, s # {}
      PROVE  part(s) = f[Some(s)] + (IF s \ {Some(s)} = {} THEN 0 ELSE part(s \ {Some(s)}))
  <2>1. PICK g : Sums(f, s, g)
    BY <1>3, <1>4
  <2>2. IsFiniteSet(s)
    BY <1>2, FS_Subset
  <2>3. PICK x \in s : x = Some(s)
    BY <1>4, SomeOf
  <2>4. part(s) = g[s]
    BY <2>1, <2>2, SumOfSolution
  <2>5. g[s] = f[x] + g[s \ {x}]
    BY <1>4, <2>1, <2>3, SumsValue DEF Step
  <2>6. s \ {x} \in SUBSET T /\ s \ {x} # T /\ s \ {x} \in SUBSET s
    BY <2>3
  <2>7. g[s \ {x}] = part(s \ {x})
    BY <1>3, <2>1, <2>2, <2>6, SumOfSolution
  <2>8. s \ {x} = {} => g[s \ {x}] = 0
    BY <2>1, <2>6, SumsValue DEF Step
  <2> HIDE DEF part
  <2> QED
    BY <2>3, <2>4, <2>5, <2>7, <2>8
<1> HIDE DEF part
<1>5. ASSUME NEW s \in SUBSET T PROVE whole[s] = Step(f, s, whole)
  <2>1. CASE s = {}
    BY <2>1 DEF Step
  <2>2. CASE s # {}
    <3>1. PICK x \in s : x = Some(s)
      BY <2>2, SomeOf
    <3>2. s \ {x} \in SUBSET T /\ s \ {x} # T
      BY <3>1
    <3>3. whole[s \ {x}] = IF s \ {x} = {} THEN 0 ELSE part(s \ {x})
      BY <3>2
    <3>4. whole[s] = f[x] + (IF s \ {x} = {} THEN 0 ELSE part(s \ {x}))
      <4>1. CASE s = T
        BY <2>2, <3>1, <4>1
      <4>2. CASE s # T
        BY <1>4, <2>2, <3>1, <4>2
      <4> QED
        BY <4>1, <4>2
    <3> HIDE DEF whole
    <3> QED
      BY <2>2, <3>1, <3>3, <3>4 DEF Step
  <2> QED
    BY <2>1, <2>2
<1>6. whole = [s \in SUBSET T |-> whole[s]]
  OBVIOUS
<1> HIDE DEF whole
<1>7. Sums(f, T, whole)
  BY <1>5, <1>6 DEF Sums
<1> QED
  BY <1>2, <1>7

\* What SumFunctionOnSet computes: nothing is nothing, and else the chosen element
\* is added to the sum of the rest.
LEMMA SumRecursion ==
  ASSUME NEW f, NEW S, IsFiniteSet(S)
  PROVE  /\ S = {} => SumFunctionOnSet(f, S) = 0
         /\ S # {} => /\ Some(S) \in S
                      /\ SumFunctionOnSet(f, S)
                           = f[Some(S)] + SumFunctionOnSet(f, S \ {Some(S)})
<1>1. PICK g : Sums(f, S, g)
  BY SumsExist
<1>2. SumFunctionOnSet(f, S) = g[S] /\ g[S] = Step(f, S, g)
  BY <1>1, SumOfSolution, SumsValue
<1>3. CASE S = {}
  BY <1>2, <1>3 DEF Step
<1>4. CASE S # {}
  <2>1. PICK x \in S : x = Some(S)
    BY <1>4, SomeOf
  <2>2. S \ {x} \in SUBSET S /\ IsFiniteSet(S \ {x})
    BY FS_Subset
  <2>3. SumFunctionOnSet(f, S \ {x}) = g[S \ {x}]
    BY <1>1, <2>2, SumOfSolution, SumsExist
  <2> QED
    BY <1>2, <1>4, <2>1, <2>3 DEF Step
<1> QED
  BY <1>3, <1>4

-----------------------------------------------------------------------------
(* Sums of natural numbers *)

\* A sum of natural numbers is one.
LEMMA SumNat ==
  ASSUME NEW f, NEW S, IsFiniteSet(S), \A x \in S : f[x] \in Nat
  PROVE  SumFunctionOnSet(f, S) \in Nat
<1> DEFINE B == {s \in SUBSET S : SumFunctionOnSet(f, s) \notin Nat}
<1> SUFFICES ASSUME B # {} PROVE FALSE
  OBVIOUS
<1>1. PICK T \in B : \A U \in SUBSET T : U # T => U \notin B
  <2>1. B \subseteq SUBSET S
    OBVIOUS
  <2> HIDE DEF B
  <2> QED
    BY <2>1, SmallestSet
<1>2. T \in SUBSET S /\ IsFiniteSet(T) /\ SumFunctionOnSet(f, T) \notin Nat
  BY FS_Subset
<1>3. T # {}
  <2> SUFFICES ASSUME T = {} PROVE FALSE
    OBVIOUS
  <2>1. SumFunctionOnSet(f, T) = 0
    BY <1>2, SumRecursion
  <2> QED
    BY <1>2, <2>1
<1>4. PICK x \in T : /\ x = Some(T)
                     /\ SumFunctionOnSet(f, T) = f[x] + SumFunctionOnSet(f, T \ {x})
  BY <1>2, <1>3, SumRecursion
<1>5. T \ {x} \in SUBSET T /\ T \ {x} # T /\ T \ {x} \in SUBSET S
  BY <1>2
<1>6. SumFunctionOnSet(f, T \ {x}) \in Nat
  BY <1>1, <1>5
<1>7. f[x] \in Nat
  BY <1>2
<1> QED
  BY <1>2, <1>4, <1>6, <1>7

\* Whatever element is taken out, the sum is its value and that of the rest.
THEOREM SumRemove ==
  ASSUME NEW f, NEW S, IsFiniteSet(S), \A x \in S : f[x] \in Nat, NEW y \in S
  PROVE  SumFunctionOnSet(f, S) = f[y] + SumFunctionOnSet(f, S \ {y})
<1> DEFINE Sum(s) == SumFunctionOnSet(f, s)
           B == {s \in SUBSET S : \E z \in s : Sum(s) # f[z] + Sum(s \ {z})}
<1> SUFFICES ASSUME B # {} PROVE FALSE
  OBVIOUS
<1>1. PICK T \in B : \A U \in SUBSET T : U # T => U \notin B
  <2>1. B \subseteq SUBSET S
    OBVIOUS
  <2> HIDE DEF B
  <2> QED
    BY <2>1, SmallestSet
<1>2. T \in SUBSET S /\ IsFiniteSet(T)
  BY FS_Subset
<1>3. PICK z \in T : Sum(T) # f[z] + Sum(T \ {z})
  OBVIOUS
<1>4. PICK x \in T : Sum(T) = f[x] + Sum(T \ {x})
  BY <1>2, <1>3, SumRecursion
<1>5. x # z
  BY <1>3, <1>4
<1>6. \A U \in SUBSET T : U # T => \A u \in U : Sum(U) = f[u] + Sum(U \ {u})
  BY <1>1, <1>2
<1>7. \A U \in SUBSET T : Sum(U) \in Nat
  <2> SUFFICES ASSUME NEW U \in SUBSET T PROVE Sum(U) \in Nat
    OBVIOUS
  <2>1. IsFiniteSet(U) /\ \A u \in U : f[u] \in Nat
    BY <1>2, FS_Subset
  <2> QED
    BY <2>1, SumNat
<1> HIDE DEF B, Sum
<1>8. Sum(T \ {x}) = f[z] + Sum((T \ {x}) \ {z})
  <2>1. T \ {x} \in SUBSET T /\ T \ {x} # T /\ z \in T \ {x}
    BY <1>5
  <2> QED
    BY <1>6, <2>1
<1>9. Sum(T \ {z}) = f[x] + Sum((T \ {z}) \ {x})
  <2>1. T \ {z} \in SUBSET T /\ T \ {z} # T /\ x \in T \ {z}
    BY <1>5
  <2> QED
    BY <1>6, <2>1
<1>10. (T \ {z}) \ {x} = (T \ {x}) \ {z} /\ (T \ {x}) \ {z} \in SUBSET T
  OBVIOUS
<1>11. PICK i \in Nat, j \in Nat, n \in Nat :
         i = f[x] /\ j = f[z] /\ n = Sum((T \ {x}) \ {z})
  BY <1>2, <1>7, <1>10
<1>12. Sum(T) = i + (j + n) /\ Sum(T \ {z}) = i + n
  BY <1>4, <1>8, <1>9, <1>10, <1>11
<1>13. Sum(T) # j + Sum(T \ {z})
  BY <1>3, <1>11
<1> QED
  BY <1>12, <1>13

\* An element that is not there yet adds its value.
THEOREM SumAdd ==
  ASSUME NEW f, NEW S, IsFiniteSet(S), NEW y, y \notin S,
         \A x \in S \cup {y} : f[x] \in Nat
  PROVE  SumFunctionOnSet(f, S \cup {y}) = f[y] + SumFunctionOnSet(f, S)
<1>1. IsFiniteSet(S \cup {y}) /\ (S \cup {y}) \ {y} = S
  BY FS_AddElement
<1> QED
  BY <1>1, SumRemove

\* The sum depends on the values in the set only.
THEOREM SumSame ==
  ASSUME NEW f, NEW g, NEW S, IsFiniteSet(S), \A x \in S : f[x] = g[x]
  PROVE  SumFunctionOnSet(f, S) = SumFunctionOnSet(g, S)
<1> DEFINE B == {s \in SUBSET S : SumFunctionOnSet(f, s) # SumFunctionOnSet(g, s)}
<1> SUFFICES ASSUME B # {} PROVE FALSE
  OBVIOUS
<1>1. PICK T \in B : \A U \in SUBSET T : U # T => U \notin B
  <2>1. B \subseteq SUBSET S
    OBVIOUS
  <2> HIDE DEF B
  <2> QED
    BY <2>1, SmallestSet
<1>2. /\ T \in SUBSET S /\ IsFiniteSet(T)
      /\ SumFunctionOnSet(f, T) # SumFunctionOnSet(g, T)
  BY FS_Subset
<1>3. T # {}
  BY <1>2, SumRecursion
<1>4. PICK x \in T : /\ SumFunctionOnSet(f, T) = f[x] + SumFunctionOnSet(f, T \ {x})
                     /\ SumFunctionOnSet(g, T) = g[x] + SumFunctionOnSet(g, T \ {x})
  BY <1>2, <1>3, SumRecursion
<1>5. T \ {x} \in SUBSET T /\ T \ {x} # T /\ T \ {x} \in SUBSET S
  BY <1>2
<1>6. SumFunctionOnSet(f, T \ {x}) = SumFunctionOnSet(g, T \ {x})
  BY <1>1, <1>5
<1>7. f[x] = g[x]
  BY <1>2
<1> QED
  BY <1>2, <1>4, <1>6, <1>7

\* The part of one element in a sum.
Part(f, S, x) == IF x \in S THEN f[x] ELSE 0

\* Any element, in the set or not, and the rest.
THEOREM SumSplit ==
  ASSUME NEW f, NEW S, IsFiniteSet(S), \A y \in S : f[y] \in Nat, NEW x
  PROVE  /\ Part(f, S, x) \in Nat /\ SumFunctionOnSet(f, S \ {x}) \in Nat
         /\ SumFunctionOnSet(f, S) = Part(f, S, x) + SumFunctionOnSet(f, S \ {x})
<1>1. IsFiniteSet(S \ {x})
  BY FS_Subset
<1>2. SumFunctionOnSet(f, S \ {x}) \in Nat
  BY <1>1, SumNat
<1>3. CASE x \in S
  <2>1. SumFunctionOnSet(f, S) = f[x] + SumFunctionOnSet(f, S \ {x})
    BY <1>3, SumRemove
  <2> QED
    BY <1>2, <1>3, <2>1 DEF Part
<1>4. CASE x \notin S
  <2>1. S \ {x} = S
    BY <1>4
  <2>2. SumFunctionOnSet(f, S) = SumFunctionOnSet(f, S \ {x})
    BY <2>1, Zenon
  <2> QED
    BY <1>2, <1>4, <2>2 DEF Part
<1> QED
  BY <1>3, <1>4

\* A sum is no more than another if each part of it is.
THEOREM SumMonotone ==
  ASSUME NEW f, NEW T, IsFiniteSet(T), \A x \in T : f[x] \in Nat,
         NEW g, NEW S, IsFiniteSet(S), \A x \in S : g[x] \in Nat,
         \A x \in T : Part(f, T, x) <= Part(g, S, x)
  PROVE  SumFunctionOnSet(f, T) <= SumFunctionOnSet(g, S)
<1> DEFINE Fails(s) == ~ (SumFunctionOnSet(f, s \cap T) <= SumFunctionOnSet(g, s \cap S))
           B == {s \in SUBSET (S \cup T) : Fails(s)}
<1>1. (S \cup T) \cap T = T /\ (S \cup T) \cap S = S
  OBVIOUS
<1> SUFFICES ASSUME B # {} PROVE FALSE
  <2>1. S \cup T \notin B
    OBVIOUS
  <2>2. ~ Fails(S \cup T)
    BY <2>1
  <2>3. SumFunctionOnSet(f, (S \cup T) \cap T) <= SumFunctionOnSet(g, (S \cup T) \cap S)
    BY <2>2
  <2> QED
    BY <1>1, <2>3, Zenon
<1>2. PICK U \in B : \A V \in SUBSET U : V # U => V \notin B
  <2>1. IsFiniteSet(S \cup T)
    BY FS_Union
  <2>2. B \subseteq SUBSET (S \cup T)
    OBVIOUS
  <2> HIDE DEF B
  <2> QED
    BY <2>1, <2>2, SmallestSet
<1>3. U \in SUBSET (S \cup T) /\ Fails(U)
  OBVIOUS
<1>4. PICK P, Q : P = U \cap T /\ Q = U \cap S
  OBVIOUS
<1>5. /\ IsFiniteSet(P) /\ \A x \in P : f[x] \in Nat
      /\ IsFiniteSet(Q) /\ \A x \in Q : g[x] \in Nat
  <2>1. P \in SUBSET T /\ Q \in SUBSET S
    BY <1>4
  <2> QED
    BY <2>1, FS_Subset
<1>6. U # {}
  <2> SUFFICES ASSUME U = {} PROVE FALSE
    OBVIOUS
  <2>1. P = {} /\ Q = {}
    BY <1>4
  <2>2. SumFunctionOnSet(f, P) = 0 /\ SumFunctionOnSet(g, Q) = 0
    BY <1>5, <2>1, SumRecursion
  <2>3. SumFunctionOnSet(f, P) <= SumFunctionOnSet(g, Q)
    BY <2>2
  <2> QED
    BY <1>3, <1>4, <2>3, Zenon
<1>7. PICK x \in U : TRUE
  BY <1>6
<1>8. SumFunctionOnSet(f, P \ {x}) <= SumFunctionOnSet(g, Q \ {x})
  <2>1. U \ {x} \in SUBSET U /\ U \ {x} # U /\ U \ {x} \in SUBSET (S \cup T)
    BY <1>3
  <2>2. ~ Fails(U \ {x})
    BY <1>2, <2>1
  <2>3. P \ {x} = (U \ {x}) \cap T /\ Q \ {x} = (U \ {x}) \cap S
    BY <1>4
  <2>4. SumFunctionOnSet(f, (U \ {x}) \cap T) <= SumFunctionOnSet(g, (U \ {x}) \cap S)
    BY <2>2
  <2> QED
    BY <2>3, <2>4, Zenon
<1>9. Part(f, P, x) <= Part(g, Q, x)
  <2>1. x \in P => x \in T /\ Part(f, P, x) = Part(f, T, x) /\ Part(g, Q, x) = Part(g, S, x)
    BY <1>4, <1>7 DEF Part
  <2>2. x \notin P => Part(f, P, x) = 0
    BY DEF Part
  <2>3. Part(g, Q, x) \in Nat
    BY <1>5, SumSplit
  <2> QED
    BY <2>1, <2>2, <2>3
<1>10. PICK i \in Nat, j \in Nat, k \in Nat, l \in Nat :
         /\ i = Part(f, P, x) /\ j = SumFunctionOnSet(f, P \ {x})
         /\ k = Part(g, Q, x) /\ l = SumFunctionOnSet(g, Q \ {x})
  <2>1. /\ Part(f, P, x) \in Nat /\ SumFunctionOnSet(f, P \ {x}) \in Nat
        /\ Part(g, Q, x) \in Nat /\ SumFunctionOnSet(g, Q \ {x}) \in Nat
    BY <1>5, SumSplit
  <2> QED
    BY <2>1, Zenon
<1>11. SumFunctionOnSet(f, P) = i + j /\ SumFunctionOnSet(g, Q) = k + l
  BY <1>5, <1>10, SumSplit
<1>12. SumFunctionOnSet(f, P) <= SumFunctionOnSet(g, Q)
  BY <1>8, <1>9, <1>10, <1>11
<1> QED
  BY <1>3, <1>4, <1>12, Zenon
=============================================================================
