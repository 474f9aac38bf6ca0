------------------------------ MODULE SumTheorems ------------------------------
(***************************************************************************)
(* What the sums of the models are worth, for every finite set: the sum    *)
(* over the empty set, over a set with one element more, of a function     *)
(* changed at one point, and of two functions compared point by point.     *)
(*                                                                         *)
(* The library defines a sum by recursion on the chosen element of the     *)
(* set.  Each fact is proved by taking a smallest set that refutes it,     *)
(* which the well-foundedness of strict inclusion provides: removing the   *)
(* chosen element gives a smaller set, where the fact holds.               *)
(***************************************************************************)
EXTENDS Integers, Functions, FiniteSets, FiniteSetTheorems,
        WellFoundedInduction, TLAPS

\* The element the recursion takes first.
FirstOf(s) == CHOOSE x \in s : TRUE

\* g is the recursive function that the sum of f over S evaluates at S.
Recurrence(g, f, S) ==
  g = [s \in SUBSET S |-> IF s = {} THEN 0 ELSE f[FirstOf(s)] + g[s \ {FirstOf(s)}]]

--------------------------------------------------------------------------------
\* A non-empty set of subsets of a finite set has a member none of whose strict
\* subsets is in it: the smallest counterexample of the proofs below.
LEMMA SmallestSubset ==
  ASSUME NEW S, IsFiniteSet(S), NEW B \in SUBSET (SUBSET S), B # {}
  PROVE  \E T \in B : \A U \in B : ~ (U \subseteq T /\ U # T)
<1>1. IsWellFoundedOn(StrictSubsetOrdering(S), FiniteSubsetsOf(S))
  BY FS_StrictSubsetOrderingWellFounded
<1>2. FiniteSubsetsOf(S) = SUBSET S  BY FS_FiniteSubsetsOfFinite
<1>3. PICK T \in B : \A U \in B : <<U, T>> \notin StrictSubsetOrdering(S)
  BY <1>1, <1>2, WFMin
<1>4. ASSUME NEW U \in B, U \subseteq T, U # T PROVE FALSE
  <2>1. <<U, T>> \in (SUBSET S) \X (SUBSET S)  OBVIOUS
  <2>2. <<U, T>> \in StrictSubsetOrdering(S)  BY <2>1, <1>4 DEF StrictSubsetOrdering
  <2> QED  BY <2>2, <1>3
<1> QED  BY <1>3, <1>4

\* The sum is the value at S of a function chosen for its recurrence.
LEMMA SumChosen ==
  ASSUME NEW f, NEW S
  PROVE  SumFunctionOnSet(f, S) = (CHOOSE g : Recurrence(g, f, S))[S]
BY DEF SumFunctionOnSet, FoldFunctionOnSet, MapThenFoldSet, Recurrence, FirstOf

\* The empty sum is zero.
LEMMA SumEmpty ==
  ASSUME NEW f
  PROVE  SumFunctionOnSet(f, {}) = 0
<1> DEFINE G == [s \in SUBSET {} |-> 0]
<1>1. G = [s \in SUBSET {} |-> IF s = {} THEN 0 ELSE f[FirstOf(s)] + G[s \ {FirstOf(s)}]]  OBVIOUS
<1>2. Recurrence(G, f, {})  BY <1>1 DEF Recurrence
<1>3. Recurrence(CHOOSE g : Recurrence(g, f, {}), f, {})  BY <1>2
<1>4. (CHOOSE g : Recurrence(g, f, {}))[{}] = 0  BY <1>3 DEF Recurrence
<1> QED  BY <1>4, SumChosen

\* At most one function satisfies the recurrence over a finite set.
LEMMA RecurrenceUnique ==
  ASSUME NEW f, NEW S, IsFiniteSet(S), NEW g, NEW h,
         Recurrence(g, f, S), Recurrence(h, f, S)
  PROVE  g = h
<1> DEFINE B == {s \in SUBSET S : g[s] # h[s]}
<1>1. ASSUME B # {} PROVE FALSE
  <2>1. PICK T \in B : \A U \in B : ~ (U \subseteq T /\ U # T)
    <3>1. B \in SUBSET (SUBSET S)  OBVIOUS
    <3> HIDE DEF B
    <3> QED  BY <3>1, <1>1, SmallestSubset
  <2>2. T # {}  BY <2>1 DEF Recurrence
  <2>3. FirstOf(T) \in T  BY <2>2 DEF FirstOf
  <2>4. g[T \ {FirstOf(T)}] = h[T \ {FirstOf(T)}]  BY <2>1, <2>3
  <2>5. g[T] = f[FirstOf(T)] + g[T \ {FirstOf(T)}]  BY <2>1, <2>2 DEF Recurrence
  <2>6. h[T] = f[FirstOf(T)] + h[T \ {FirstOf(T)}]  BY <2>1, <2>2 DEF Recurrence
  <2> QED  BY <2>1, <2>4, <2>5, <2>6
<1>2. \A s \in SUBSET S : g[s] = h[s]  BY <1>1
<1>3. g = [s \in SUBSET S |-> g[s]] /\ h = [s \in SUBSET S |-> h[s]]  BY DEF Recurrence
<1> QED  BY <1>2, <1>3

\* The sum obeys its recurrence on every finite set: the recursive definition
\* defines what it says.
LEMMA SumStep ==
  ASSUME NEW f, NEW S, IsFiniteSet(S), S # {}
  PROVE  /\ FirstOf(S) \in S
         /\ SumFunctionOnSet(f, S) = f[FirstOf(S)] + SumFunctionOnSet(f, S \ {FirstOf(S)})
<1> DEFINE Obeys(s) == SumFunctionOnSet(f, s) = f[FirstOf(s)] + SumFunctionOnSet(f, s \ {FirstOf(s)})
           B == {s \in SUBSET S : s # {} /\ ~ Obeys(s)}
<1>0. FirstOf(S) \in S  BY DEF FirstOf
<1>1. ASSUME B # {} PROVE FALSE
  <2>1. PICK T \in B : \A U \in B : ~ (U \subseteq T /\ U # T)
    <3>1. B \in SUBSET (SUBSET S)  OBVIOUS
    <3> HIDE DEF B
    <3> QED  BY <3>1, <1>1, SmallestSubset
  <2>2. IsFiniteSet(T) /\ T # {} /\ ~ Obeys(T)  BY <2>1, FS_Subset
  <2> DEFINE G == [s \in SUBSET T |-> IF s = {} THEN 0
                                      ELSE f[FirstOf(s)] + SumFunctionOnSet(f, s \ {FirstOf(s)})]
  <2> HIDE DEF B, Obeys
  <2>3. ASSUME NEW s \in SUBSET T, s # T PROVE G[s] = SumFunctionOnSet(f, s)
    <3>1. CASE s = {}  BY <3>1, SumEmpty
    <3>2. CASE s # {}
      <4>1. s \in SUBSET S /\ s \notin B  BY <2>1, <2>3 DEF B
      <4>2. Obeys(s)  BY <4>1, <3>2 DEF B
      <4> QED  BY <4>2, <3>2 DEF Obeys
    <3> QED  BY <3>1, <3>2
  <2>4. ASSUME NEW s \in SUBSET T, s # {}
        PROVE G[s] = f[FirstOf(s)] + G[s \ {FirstOf(s)}]
    <3>1. FirstOf(s) \in s  BY <2>4 DEF FirstOf
    <3>2. s \ {FirstOf(s)} \in SUBSET T /\ s \ {FirstOf(s)} # T  BY <3>1
    <3>3. G[s \ {FirstOf(s)}] = SumFunctionOnSet(f, s \ {FirstOf(s)})  BY <3>2, <2>3
    <3>4. G[s] = f[FirstOf(s)] + SumFunctionOnSet(f, s \ {FirstOf(s)})  BY <2>4
    <3> QED  BY <3>3, <3>4
  <2>5. G[{}] = 0  OBVIOUS
  <2>6. G = [s \in SUBSET T |-> IF s = {} THEN 0 ELSE f[FirstOf(s)] + G[s \ {FirstOf(s)}]]
    <3>1. \A s \in SUBSET T : G[s] = IF s = {} THEN 0 ELSE f[FirstOf(s)] + G[s \ {FirstOf(s)}]
      BY <2>4, <2>5
    <3>2. G = [s \in SUBSET T |-> G[s]]  OBVIOUS
    <3> HIDE DEF G
    <3> QED  BY <3>1, <3>2
  <2> HIDE DEF G
  <2>7. Recurrence(G, f, T)  BY <2>6 DEF Recurrence
  <2>8. Recurrence(CHOOSE g : Recurrence(g, f, T), f, T)  BY <2>7
  <2>9. (CHOOSE g : Recurrence(g, f, T)) = G  BY <2>2, <2>7, <2>8, RecurrenceUnique
  <2>10. SumFunctionOnSet(f, T) = G[T]  BY <2>9, SumChosen
  <2>11. G[T] = f[FirstOf(T)] + SumFunctionOnSet(f, T \ {FirstOf(T)})  BY <2>2 DEF G
  <2>12. Obeys(T)  BY <2>10, <2>11 DEF Obeys
  <2> QED  BY <2>12, <2>2
<1>2. S \in SUBSET S /\ S \notin B  BY <1>1
<1> QED  BY <1>0, <1>2

\* A sum of integers is an integer.
LEMMA SumInt ==
  ASSUME NEW f, NEW S, IsFiniteSet(S), \A x \in S : f[x] \in Int
  PROVE  SumFunctionOnSet(f, S) \in Int
<1> DEFINE B == {s \in SUBSET S : SumFunctionOnSet(f, s) \notin Int}
<1>1. ASSUME B # {} PROVE FALSE
  <2>1. PICK T \in B : \A U \in B : ~ (U \subseteq T /\ U # T)
    <3>1. B \in SUBSET (SUBSET S)  OBVIOUS
    <3> HIDE DEF B
    <3> QED  BY <3>1, <1>1, SmallestSubset
  <2>2. ASSUME T = {} PROVE FALSE
    <3>1. SumFunctionOnSet(f, T) = 0  BY <2>2, SumEmpty
    <3> QED  BY <3>1, <2>1
  <2>. IsFiniteSet(T)  BY <2>1, FS_Subset
  <2>3. FirstOf(T) \in T /\ SumFunctionOnSet(f, T) = f[FirstOf(T)] + SumFunctionOnSet(f, T \ {FirstOf(T)})
    BY <2>2, SumStep
  <2>4. SumFunctionOnSet(f, T \ {FirstOf(T)}) \in Int  BY <2>1, <2>3
  <2> QED  BY <2>1, <2>3, <2>4
<1> QED  BY <1>1

\* A sum of naturals is a natural.
LEMMA SumNat ==
  ASSUME NEW f, NEW S, IsFiniteSet(S), \A x \in S : f[x] \in Nat
  PROVE  SumFunctionOnSet(f, S) \in Nat
<1> DEFINE B == {s \in SUBSET S : SumFunctionOnSet(f, s) \notin Nat}
<1>1. ASSUME B # {} PROVE FALSE
  <2>1. PICK T \in B : \A U \in B : ~ (U \subseteq T /\ U # T)
    <3>1. B \in SUBSET (SUBSET S)  OBVIOUS
    <3> HIDE DEF B
    <3> QED  BY <3>1, <1>1, SmallestSubset
  <2>2. ASSUME T = {} PROVE FALSE
    <3>1. SumFunctionOnSet(f, T) = 0  BY <2>2, SumEmpty
    <3> QED  BY <3>1, <2>1
  <2>. IsFiniteSet(T)  BY <2>1, FS_Subset
  <2>3. FirstOf(T) \in T /\ SumFunctionOnSet(f, T) = f[FirstOf(T)] + SumFunctionOnSet(f, T \ {FirstOf(T)})
    BY <2>2, SumStep
  <2>4. SumFunctionOnSet(f, T \ {FirstOf(T)}) \in Nat  BY <2>1, <2>3
  <2> QED  BY <2>1, <2>3, <2>4
<1> QED  BY <1>1

\* Any element may be taken out first, not only the chosen one.
LEMMA SumRemove ==
  ASSUME NEW f, NEW S, IsFiniteSet(S), \A y \in S : f[y] \in Int, NEW x \in S
  PROVE  SumFunctionOnSet(f, S) = f[x] + SumFunctionOnSet(f, S \ {x})
<1> DEFINE Differs(s, y) == SumFunctionOnSet(f, s) # f[y] + SumFunctionOnSet(f, s \ {y})
           B == {s \in SUBSET S : \E y \in s : Differs(s, y)}
<1>1. ASSUME B # {} PROVE FALSE
  <2>1. PICK T \in B : \A U \in B : ~ (U \subseteq T /\ U # T)
    <3>1. B \in SUBSET (SUBSET S)  OBVIOUS
    <3> HIDE DEF B
    <3> QED  BY <3>1, <1>1, SmallestSubset
  <2>2. PICK y \in T : Differs(T, y)  BY <2>1
  <2> DEFINE p == FirstOf(T)
  <2>3. T \in SUBSET S /\ IsFiniteSet(T) /\ T # {}
    <3>1. T \in SUBSET S /\ T # {}  BY <2>1, <2>2
    <3> QED  BY <3>1, FS_Subset
  <2>4. p \in T /\ SumFunctionOnSet(f, T) = f[p] + SumFunctionOnSet(f, T \ {p})
    BY <2>3, SumStep
  <2>5. p # y  BY <2>2, <2>4
  <2> HIDE DEF p
  <2>6. ~ Differs(T \ {p}, y)
    <3>1. T \ {p} \in SUBSET S /\ y \in T \ {p} /\ T \ {p} # T  BY <2>3, <2>4, <2>5
    <3>2. T \ {p} \notin B  BY <3>1, <2>1
    <3> HIDE DEF Differs
    <3> QED  BY <3>1, <3>2
  <2>7. ~ Differs(T \ {y}, p)
    <3>1. T \ {y} \in SUBSET S /\ p \in T \ {y} /\ T \ {y} # T  BY <2>3, <2>4, <2>5
    <3>2. T \ {y} \notin B  BY <3>1, <2>1
    <3> HIDE DEF Differs
    <3> QED  BY <3>1, <3>2
  <2> DEFINE R == SumFunctionOnSet(f, (T \ {p}) \ {y})
  <2>8. R \in Int /\ R = SumFunctionOnSet(f, (T \ {y}) \ {p})
    <3>1. (T \ {p}) \ {y} = (T \ {y}) \ {p}  OBVIOUS
    <3>2. (T \ {p}) \ {y} \in SUBSET S  BY <2>3
    <3>3. IsFiniteSet((T \ {p}) \ {y})  BY <3>2, FS_Subset
    <3>4. \A z \in (T \ {p}) \ {y} : f[z] \in Int  BY <3>2
    <3> QED  BY <3>1, <3>3, <3>4, SumInt
  <2>9. f[p] \in Int /\ f[y] \in Int  BY <2>3, <2>4
  <2> HIDE DEF R
  <2>10. SumFunctionOnSet(f, T) = f[p] + (f[y] + R)  BY <2>4, <2>6 DEF R
  <2>11. SumFunctionOnSet(f, T \ {y}) = f[p] + R  BY <2>7, <2>8
  <2>12. SumFunctionOnSet(f, T) = f[y] + SumFunctionOnSet(f, T \ {y})
    BY <2>9, <2>8, <2>10, <2>11
  <2> QED  BY <2>2, <2>12
<1> QED  BY <1>1

\* An element that was not there adds its value.
LEMMA SumAdd ==
  ASSUME NEW f, NEW S, IsFiniteSet(S), NEW x, x \notin S, \A y \in S \cup {x} : f[y] \in Int
  PROVE  SumFunctionOnSet(f, S \cup {x}) = SumFunctionOnSet(f, S) + f[x]
<1>1. IsFiniteSet(S \cup {x})  BY FS_AddElement
<1>2. (S \cup {x}) \ {x} = S  OBVIOUS
<1>3. SumFunctionOnSet(f, S \cup {x}) = f[x] + SumFunctionOnSet(f, S)
  BY <1>1, <1>2, SumRemove
<1>4. SumFunctionOnSet(f, S) \in Int  BY SumInt
<1> QED  BY <1>3, <1>4

\* The sum depends on the summands only.
LEMMA SumSame ==
  ASSUME NEW f, NEW g, NEW S, IsFiniteSet(S), \A x \in S : f[x] = g[x]
  PROVE  SumFunctionOnSet(f, S) = SumFunctionOnSet(g, S)
<1> DEFINE B == {s \in SUBSET S : SumFunctionOnSet(f, s) # SumFunctionOnSet(g, s)}
<1>1. ASSUME B # {} PROVE FALSE
  <2>1. PICK T \in B : \A U \in B : ~ (U \subseteq T /\ U # T)
    <3>1. B \in SUBSET (SUBSET S)  OBVIOUS
    <3> HIDE DEF B
    <3> QED  BY <3>1, <1>1, SmallestSubset
  <2>2. ASSUME T = {} PROVE FALSE
    <3>1. SumFunctionOnSet(f, T) = 0 /\ SumFunctionOnSet(g, T) = 0  BY <2>2, SumEmpty
    <3> QED  BY <3>1, <2>1
  <2>. IsFiniteSet(T)  BY <2>1, FS_Subset
  <2>3. /\ FirstOf(T) \in T
        /\ SumFunctionOnSet(f, T) = f[FirstOf(T)] + SumFunctionOnSet(f, T \ {FirstOf(T)})
        /\ SumFunctionOnSet(g, T) = g[FirstOf(T)] + SumFunctionOnSet(g, T \ {FirstOf(T)})
    BY <2>2, SumStep
  <2>4. SumFunctionOnSet(f, T \ {FirstOf(T)}) = SumFunctionOnSet(g, T \ {FirstOf(T)})  BY <2>1, <2>3
  <2> QED  BY <2>1, <2>3, <2>4
<1> QED  BY <1>1

\* Changing one summand changes the sum by as much.
LEMMA SumChange ==
  ASSUME NEW f, NEW g, NEW S, IsFiniteSet(S), NEW x \in S,
         \A y \in S : f[y] \in Int /\ g[y] \in Int,
         \A y \in S \ {x} : f[y] = g[y]
  PROVE  SumFunctionOnSet(g, S) = SumFunctionOnSet(f, S) + g[x] - f[x]
<1>1. IsFiniteSet(S \ {x})  BY FS_RemoveElement
<1>2. SumFunctionOnSet(f, S \ {x}) = SumFunctionOnSet(g, S \ {x})  BY <1>1, SumSame
<1>3. SumFunctionOnSet(f, S \ {x}) \in Int  BY <1>1, SumInt
<1>4. SumFunctionOnSet(f, S) = f[x] + SumFunctionOnSet(f, S \ {x})  BY SumRemove
<1>5. SumFunctionOnSet(g, S) = g[x] + SumFunctionOnSet(g, S \ {x})  BY SumRemove
<1> QED  BY <1>2, <1>3, <1>4, <1>5

\* g is f with u moved from x to y.
AmountMoved(f, g, S, x, y, u) ==
  \A z \in S : g[z] = f[z] - (IF z = x THEN u ELSE 0) + (IF z = y THEN u ELSE 0)

\* Moving an amount from one summand to another keeps the sum.
LEMMA SumMoved ==
  ASSUME NEW S, IsFiniteSet(S), NEW f \in [S -> Int], NEW x \in S, NEW y \in S, NEW u \in Int,
         NEW g \in [S -> Int], AmountMoved(f, g, S, x, y, u)
  PROVE  SumFunction(g) = SumFunction(f)
<1> USE DEF AmountMoved
<1>1. PICK m \in [S -> Int] : \A z \in S : m[z] = f[z] - (IF z = x THEN u ELSE 0)
  <2> DEFINE h == [z \in S |-> f[z] - (IF z = x THEN u ELSE 0)]
  <2>1. h \in [S -> Int] /\ \A z \in S : h[z] = f[z] - (IF z = x THEN u ELSE 0)  OBVIOUS
  <2> QED  BY <2>1
<1>2. \A z \in S : f[z] \in Int /\ m[z] \in Int /\ g[z] \in Int  OBVIOUS
<1>3. SumFunctionOnSet(m, S) = SumFunctionOnSet(f, S) + m[x] - f[x]
  <2>1. (\A z \in S : f[z] \in Int /\ m[z] \in Int) /\ \A z \in S \ {x} : f[z] = m[z]  BY <1>1, <1>2
  <2> QED  BY <2>1, SumChange
<1>4. SumFunctionOnSet(g, S) = SumFunctionOnSet(m, S) + g[y] - m[y]
  <2>1. (\A z \in S : m[z] \in Int /\ g[z] \in Int) /\ \A z \in S \ {y} : m[z] = g[z]  BY <1>1, <1>2
  <2> QED  BY <2>1, SumChange
<1>5. SumFunctionOnSet(f, S) \in Int /\ m[x] = f[x] - u /\ g[y] = m[y] + u  BY <1>1, <1>2, SumInt
<1>6. SumFunctionOnSet(g, S) = SumFunctionOnSet(f, S)  BY <1>2, <1>3, <1>4, <1>5
<1> QED  BY <1>6 DEF SumFunction

\* Smaller summands, smaller sum.
LEMMA SumMonotone ==
  ASSUME NEW f, NEW g, NEW S, IsFiniteSet(S),
         \A x \in S : f[x] \in Int /\ g[x] \in Int /\ f[x] <= g[x]
  PROVE  SumFunctionOnSet(f, S) <= SumFunctionOnSet(g, S)
<1> DEFINE B == {s \in SUBSET S : ~ (SumFunctionOnSet(f, s) <= SumFunctionOnSet(g, s))}
<1>1. ASSUME B # {} PROVE FALSE
  <2>1. PICK T \in B : \A U \in B : ~ (U \subseteq T /\ U # T)
    <3>1. B \in SUBSET (SUBSET S)  OBVIOUS
    <3> HIDE DEF B
    <3> QED  BY <3>1, <1>1, SmallestSubset
  <2>2. ASSUME T = {} PROVE FALSE
    <3>1. SumFunctionOnSet(f, T) = 0 /\ SumFunctionOnSet(g, T) = 0  BY <2>2, SumEmpty
    <3> QED  BY <3>1, <2>1
  <2>. IsFiniteSet(T)  BY <2>1, FS_Subset
  <2> DEFINE R == T \ {FirstOf(T)}
  <2>3. /\ FirstOf(T) \in T
        /\ SumFunctionOnSet(f, T) = f[FirstOf(T)] + SumFunctionOnSet(f, R)
        /\ SumFunctionOnSet(g, T) = g[FirstOf(T)] + SumFunctionOnSet(g, R)
    BY <2>2, SumStep
  <2>4. SumFunctionOnSet(f, R) <= SumFunctionOnSet(g, R)  BY <2>1, <2>3
  <2>5. R \in SUBSET S  BY <2>1
  <2>6. IsFiniteSet(R)  BY <2>5, FS_Subset
  <2>7. SumFunctionOnSet(f, R) \in Int /\ SumFunctionOnSet(g, R) \in Int
    BY <2>5, <2>6, SumInt
  <2>8. f[FirstOf(T)] \in Int /\ g[FirstOf(T)] \in Int /\ f[FirstOf(T)] <= g[FirstOf(T)]  BY <2>1, <2>3
  <2> HIDE DEF R
  <2>9. SumFunctionOnSet(f, T) <= SumFunctionOnSet(g, T)  BY <2>3, <2>4, <2>7, <2>8
  <2> QED  BY <2>1, <2>9
<1> QED  BY <1>1

\* A sum of zeros is zero.
LEMMA SumZero ==
  ASSUME NEW f, NEW S, IsFiniteSet(S), \A x \in S : f[x] = 0
  PROVE  SumFunctionOnSet(f, S) = 0
<1> DEFINE B == {s \in SUBSET S : SumFunctionOnSet(f, s) # 0}
<1>1. ASSUME B # {} PROVE FALSE
  <2>1. PICK T \in B : \A U \in B : ~ (U \subseteq T /\ U # T)
    <3>1. B \in SUBSET (SUBSET S)  OBVIOUS
    <3> HIDE DEF B
    <3> QED  BY <3>1, <1>1, SmallestSubset
  <2>2. ASSUME T = {} PROVE FALSE
    <3>1. SumFunctionOnSet(f, T) = 0  BY <2>2, SumEmpty
    <3> QED  BY <3>1, <2>1
  <2>. IsFiniteSet(T)  BY <2>1, FS_Subset
  <2>3. FirstOf(T) \in T /\ SumFunctionOnSet(f, T) = f[FirstOf(T)] + SumFunctionOnSet(f, T \ {FirstOf(T)})
    BY <2>2, SumStep
  <2>4. SumFunctionOnSet(f, T \ {FirstOf(T)}) = 0  BY <2>1, <2>3
  <2> QED  BY <2>1, <2>3, <2>4
<1> QED  BY <1>1

\* A product, by a name the provers can match.
Times(c, n) == c * n

\* Sums are linear.
LEMMA SumLinear ==
  ASSUME NEW e, NEW f, NEW g, NEW S, IsFiniteSet(S), NEW c \in Int, NEW d \in Int,
         \A x \in S : f[x] \in Int /\ g[x] \in Int /\ e[x] = Times(c, f[x]) + Times(d, g[x])
  PROVE  SumFunctionOnSet(e, S)
           = Times(c, SumFunctionOnSet(f, S)) + Times(d, SumFunctionOnSet(g, S))
<1> DEFINE Linear(s) ==
      SumFunctionOnSet(e, s) = c * SumFunctionOnSet(f, s) + d * SumFunctionOnSet(g, s)
           B == {s \in SUBSET S : ~ Linear(s)}
<1>1. ASSUME B # {} PROVE FALSE
  <2>1. PICK T \in B : \A U \in B : ~ (U \subseteq T /\ U # T)
    <3>1. B \in SUBSET (SUBSET S)  OBVIOUS
    <3> HIDE DEF B
    <3> QED  BY <3>1, <1>1, SmallestSubset
  <2>2. ASSUME T = {} PROVE FALSE
    <3>1. /\ SumFunctionOnSet(e, T) = 0
          /\ SumFunctionOnSet(f, T) = 0
          /\ SumFunctionOnSet(g, T) = 0
      BY <2>2, SumEmpty
    <3>2. Times(c, 0) + Times(d, 0) = 0  BY DEF Times
    <3> QED  BY <3>1, <3>2, <2>1 DEF Times
  <2>. IsFiniteSet(T)  BY <2>1, FS_Subset
  <2> DEFINE p == FirstOf(T)
             R == T \ {p}
  <2>3. /\ p \in T
        /\ SumFunctionOnSet(e, T) = e[p] + SumFunctionOnSet(e, R)
        /\ SumFunctionOnSet(f, T) = f[p] + SumFunctionOnSet(f, R)
        /\ SumFunctionOnSet(g, T) = g[p] + SumFunctionOnSet(g, R)
    BY <2>2, SumStep
  <2>4. Linear(R)  BY <2>1, <2>3
  <2>5. R \in SUBSET S  BY <2>1
  <2>6. IsFiniteSet(R)  BY <2>5, FS_Subset
  <2>7. SumFunctionOnSet(f, R) \in Int /\ SumFunctionOnSet(g, R) \in Int
    BY <2>5, <2>6, SumInt
  <2>8. f[p] \in Int /\ g[p] \in Int /\ e[p] = c * f[p] + d * g[p]  BY <2>1, <2>3 DEF Times
  <2> HIDE DEF R, p
  <2>9. c * (f[p] + SumFunctionOnSet(f, R)) = c * f[p] + c * SumFunctionOnSet(f, R)
    BY <2>7, <2>8
  <2>10. d * (g[p] + SumFunctionOnSet(g, R)) = d * g[p] + d * SumFunctionOnSet(g, R)
    BY <2>7, <2>8
  <2>11. \A m, n \in Int : m * n \in Int  OBVIOUS
  <2>12. /\ c * f[p] \in Int /\ c * SumFunctionOnSet(f, R) \in Int
         /\ d * g[p] \in Int /\ d * SumFunctionOnSet(g, R) \in Int
    BY <2>7, <2>8, <2>11
  <2>13. Linear(T)  BY <2>3, <2>4, <2>8, <2>9, <2>10, <2>12
  <2> QED  BY <2>1, <2>13
<1> QED  BY <1>1 DEF Times

\* Summands within c of zero: the sum is within c times their number.
LEMMA SumBound ==
  ASSUME NEW f, NEW S, IsFiniteSet(S), NEW c \in Nat,
         \A x \in S : f[x] \in Int /\ -c <= f[x] /\ f[x] <= c
  PROVE  /\ -(c * Cardinality(S)) <= SumFunctionOnSet(f, S)
         /\ SumFunctionOnSet(f, S) <= c * Cardinality(S)
<1> DEFINE Bounded(s) == /\ -(c * Cardinality(s)) <= SumFunctionOnSet(f, s)
                         /\ SumFunctionOnSet(f, s) <= c * Cardinality(s)
           B == {s \in SUBSET S : ~ Bounded(s)}
<1>1. ASSUME B # {} PROVE FALSE
  <2>1. PICK T \in B : \A U \in B : ~ (U \subseteq T /\ U # T)
    <3>1. B \in SUBSET (SUBSET S)  OBVIOUS
    <3> HIDE DEF B
    <3> QED  BY <3>1, <1>1, SmallestSubset
  <2>2. ASSUME T = {} PROVE FALSE
    <3>1. SumFunctionOnSet(f, T) = 0 /\ Cardinality(T) = 0  BY <2>2, SumEmpty, FS_EmptySet
    <3> QED  BY <3>1, <2>1
  <2>. IsFiniteSet(T)  BY <2>1, FS_Subset
  <2> DEFINE p == FirstOf(T)
             R == T \ {p}
  <2>3. /\ p \in T
        /\ SumFunctionOnSet(f, T) = f[p] + SumFunctionOnSet(f, R)
    BY <2>2, SumStep
  <2>4. Bounded(R)  BY <2>1, <2>3
  <2>5. R \in SUBSET S  BY <2>1
  <2>6. IsFiniteSet(R)  BY <2>5, FS_Subset
  <2>7. SumFunctionOnSet(f, R) \in Int  BY <2>5, <2>6, SumInt
  <2>8. f[p] \in Int /\ -c <= f[p] /\ f[p] <= c  BY <2>1, <2>3
  <2>9. Cardinality(R) \in Nat /\ Cardinality(T) = Cardinality(R) + 1
    <3>1. Cardinality(R) = Cardinality(T) - 1  BY <2>3, FS_RemoveElement
    <3>2. Cardinality(R) \in Nat /\ Cardinality(T) \in Nat  BY <2>6, FS_CardinalityType
    <3> QED  BY <3>1, <3>2
  <2> HIDE DEF R, p
  <2>10. c * Cardinality(T) = c * Cardinality(R) + c /\ c * Cardinality(R) \in Int
    <3>1. \A n \in Nat : c * (n + 1) = c * n + c /\ c * n \in Int  OBVIOUS
    <3> QED  BY <3>1, <2>9
  <2>11. Bounded(T)  BY <2>3, <2>4, <2>7, <2>8, <2>10
  <2> QED  BY <2>1, <2>11
<1> QED  BY <1>1

\* One more at each point of X: the sum grows by their number.
LEMMA SumCount ==
  ASSUME NEW f, NEW g, NEW S, IsFiniteSet(S), NEW X \in SUBSET S,
         \A x \in S : f[x] \in Int /\ g[x] = IF x \in X THEN f[x] + 1 ELSE f[x]
  PROVE  SumFunctionOnSet(g, S) = SumFunctionOnSet(f, S) + Cardinality(X)
<1> DEFINE Counts(s) == SumFunctionOnSet(g, s) = SumFunctionOnSet(f, s) + Cardinality(X \cap s)
           B == {s \in SUBSET S : ~ Counts(s)}
<1>1. ASSUME B # {} PROVE FALSE
  <2>1. PICK T \in B : \A U \in B : ~ (U \subseteq T /\ U # T)
    <3>1. B \in SUBSET (SUBSET S)  OBVIOUS
    <3> HIDE DEF B
    <3> QED  BY <3>1, <1>1, SmallestSubset
  <2>2. ASSUME T = {} PROVE FALSE
    <3>1. SumFunctionOnSet(f, T) = 0 /\ SumFunctionOnSet(g, T) = 0  BY <2>2, SumEmpty
    <3>2. Cardinality(X \cap T) = 0
      <4>1. X \cap T = {}  BY <2>2
      <4> QED  BY <4>1, FS_EmptySet
    <3> QED  BY <3>1, <3>2, <2>1
  <2>. IsFiniteSet(T)  BY <2>1, FS_Subset
  <2> DEFINE p == FirstOf(T)
             R == T \ {p}
  <2>3. /\ p \in T
        /\ SumFunctionOnSet(f, T) = f[p] + SumFunctionOnSet(f, R)
        /\ SumFunctionOnSet(g, T) = g[p] + SumFunctionOnSet(g, R)
    BY <2>2, SumStep
  <2>4. Counts(R)  BY <2>1, <2>3
  <2>5. R \in SUBSET S /\ T \in SUBSET S  BY <2>1
  <2>6. IsFiniteSet(R) /\ IsFiniteSet(X \cap T) /\ IsFiniteSet(X \cap R)
    <3>1. X \cap T \in SUBSET S /\ X \cap R \in SUBSET S  BY <2>5
    <3> QED  BY <3>1, <2>5, FS_Subset
  <2>7. SumFunctionOnSet(f, R) \in Int  BY <2>5, <2>6, SumInt
  <2>8. f[p] \in Int /\ g[p] = IF p \in X THEN f[p] + 1 ELSE f[p]  BY <2>1, <2>3
  <2>9. /\ Cardinality(X \cap R) \in Nat
        /\ Cardinality(X \cap T) = IF p \in X THEN Cardinality(X \cap R) + 1
                                  ELSE Cardinality(X \cap R)
    <3>1. X \cap R = (X \cap T) \ {p} /\ (p \in X \cap T <=> p \in X)  BY <2>3
    <3>2. Cardinality((X \cap T) \ {p}) =
            IF p \in X \cap T THEN Cardinality(X \cap T) - 1 ELSE Cardinality(X \cap T)
      BY <2>6, FS_RemoveElement
    <3>3. Cardinality(X \cap R) \in Nat /\ Cardinality(X \cap T) \in Nat
      BY <2>6, FS_CardinalityType
    <3>4. Cardinality(X \cap R) = Cardinality((X \cap T) \ {p})  BY <3>1
    <3> HIDE DEF R, p
    <3> QED  BY <3>1, <3>2, <3>3, <3>4
  <2> HIDE DEF R, p
  <2>10. Counts(T)  BY <2>3, <2>4, <2>7, <2>8, <2>9
  <2> QED  BY <2>1, <2>10
<1>2. Counts(S)  BY <1>1
<1>3. X \cap S = X  OBVIOUS
<1> QED  BY <1>2, <1>3

\* A sum of naturals, one of them positive, is positive.
LEMMA SumPositive ==
  ASSUME NEW f, NEW S, IsFiniteSet(S), \A x \in S : f[x] \in Nat, NEW x \in S, f[x] > 0
  PROVE  SumFunctionOnSet(f, S) > 0
<1>1. SumFunctionOnSet(f, S) = f[x] + SumFunctionOnSet(f, S \ {x})  BY SumRemove
<1>2. IsFiniteSet(S \ {x})  BY FS_RemoveElement
<1>3. SumFunctionOnSet(f, S \ {x}) \in Nat  BY <1>2, SumNat
<1> QED  BY <1>1, <1>3

\* What is zero need not be summed.
LEMMA SumSupport ==
  ASSUME NEW f, NEW S, IsFiniteSet(S), NEW X \in SUBSET S,
         \A x \in S : f[x] \in Int, \A x \in S \ X : f[x] = 0
  PROVE  SumFunctionOnSet(f, S) = SumFunctionOnSet(f, X)
<1> DEFINE Agrees(s) == SumFunctionOnSet(f, s) = SumFunctionOnSet(f, X \cap s)
           B == {s \in SUBSET S : ~ Agrees(s)}
<1>1. ASSUME B # {} PROVE FALSE
  <2>1. PICK T \in B : \A U \in B : ~ (U \subseteq T /\ U # T)
    <3>1. B \in SUBSET (SUBSET S)  OBVIOUS
    <3> HIDE DEF B
    <3> QED  BY <3>1, <1>1, SmallestSubset
  <2>2. ASSUME T = {} PROVE FALSE
    <3>1. X \cap T = T  BY <2>2
    <3> QED  BY <3>1, <2>1
  <2>. IsFiniteSet(T)  BY <2>1, FS_Subset
  <2> DEFINE p == FirstOf(T)
             R == T \ {p}
  <2>3. p \in T /\ SumFunctionOnSet(f, T) = f[p] + SumFunctionOnSet(f, R)
    BY <2>2, SumStep
  <2>4. Agrees(R)  BY <2>1, <2>3
  <2>5. R \in SUBSET S /\ T \in SUBSET S  BY <2>1
  <2>6. IsFiniteSet(X \cap T) /\ \A x \in X \cap T : f[x] \in Int
    <3>1. X \cap T \in SUBSET S  BY <2>5
    <3> QED  BY <3>1, FS_Subset
  <2>7. IsFiniteSet(X \cap R) /\ \A x \in X \cap R : f[x] \in Int
    <3>1. X \cap R \in SUBSET S  BY <2>5
    <3> QED  BY <3>1, FS_Subset
  <2>8. SumFunctionOnSet(f, X \cap R) \in Int  BY <2>7, SumInt
  <2>9. ASSUME p \in X PROVE FALSE
    <3>1. p \in X \cap T /\ (X \cap T) \ {p} = X \cap R  BY <2>9, <2>3
    <3>2. SumFunctionOnSet(f, X \cap T) = f[p] + SumFunctionOnSet(f, (X \cap T) \ {p})
      <4> HIDE DEF p, R
      <4> QED  BY <2>6, <3>1, SumRemove
    <3> QED  BY <2>1, <2>3, <2>4, <3>1, <3>2
  <2>10. ASSUME p \notin X PROVE FALSE
    <3>1. X \cap T = X \cap R /\ f[p] = 0  BY <2>10, <2>3, <2>5
    <3> QED  BY <2>1, <2>3, <2>4, <2>8, <3>1
  <2> QED  BY <2>9, <2>10
<1>2. Agrees(S)  BY <1>1
<1>3. X \cap S = X  OBVIOUS
<1> QED  BY <1>2, <1>3
================================================================================
