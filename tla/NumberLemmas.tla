--------------------------- MODULE NumberLemmas ---------------------------
(***************************************************************************)
(* Facts about numbers that the proofs of several components need: natural *)
(* numbers and their division, and what SumFunctionOnSet of the community  *)
(* module Functions computes over a finite set: an integer, to which every *)
(* index contributes once, in whatever order the fold takes them.          *)
(***************************************************************************)
EXTENDS Integers, FiniteSets, Functions, FiniteSetTheorems, WellFoundedInduction, TLAPS

(* A set of natural numbers has a smallest one. *)
LEMMA LeastNatural ==
  ASSUME NEW S \in SUBSET Nat, S # {}
  PROVE  \E x \in S : \A y \in S : x =< y
<1>1. PICK x \in S : \A y \in S : ~(<<y, x>> \in OpToRel(<, Nat))
  BY NatLessThanWellFounded, WFMin
<1>2. ASSUME NEW y \in S PROVE ~(y < x)
  BY <1>1, Zenon DEF OpToRel
<1> QED BY <1>2

(* Whole numbers: what a division leaves. *)
LEMMA Quotient ==
  ASSUME NEW a \in Nat, NEW b \in Nat \ {0}
  PROVE  a \div b \in Nat /\ b * (a \div b) =< a
OBVIOUS

(* Of any dividend: quotient and remainder. *)
LEMMA Division ==
  ASSUME NEW a \in Int, NEW b \in Nat \ {0}
  PROVE  /\ a \div b \in Int /\ a % b \in 0 .. b - 1
         /\ a = b * (a \div b) + (a % b)
OBVIOUS

LEMMA BoundedQuotient ==
  ASSUME NEW a \in Nat, NEW b \in Nat, NEW c \in Nat \ {0}, a =< c
  PROVE  (b * a) \div c \in 0 .. b
<1> DEFINE q == (b * a) \div c
<1>1. b * a \in Nat
  OBVIOUS
<1>2. q \in Nat /\ c * q =< b * a
  BY <1>1, Quotient
<1> HIDE DEF q
<1>3. b * a =< b * c
  OBVIOUS
<1>4. c * q =< b * c
  BY <1>1, <1>2, <1>3
<1>5. q > b => c * q >= c * (b + 1)
  BY <1>2
<1> QED BY <1>2, <1>4, <1>5 DEF q

-----------------------------------------------------------------------------
(* The recursive function inside SumFunctionOnSet(f, S). *)
Pick(s) == CHOOSE x \in s : TRUE

Partial(f, S, g) ==
  g = [s \in SUBSET S |-> IF s = {} THEN 0 ELSE f[Pick(s)] + g[s \ {Pick(s)}]]

LEMMA SumIsPartial ==
  ASSUME NEW f, NEW S
  PROVE  SumFunctionOnSet(f, S) = (CHOOSE g : Partial(f, S, g))[S]
BY DEF SumFunctionOnSet, FoldFunctionOnSet, MapThenFoldSet, Partial, Pick

(* Induction on the subsets of a finite set: a family of them that is not  *)
(* empty has a smallest member.                                            *)
LEMMA SmallestSubset ==
  ASSUME NEW S, IsFiniteSet(S), NEW B \in SUBSET SUBSET S, B # {}
  PROVE  \E s \in B : \A t \in B : ~(t \subseteq s /\ t # s)
<1>1. IsWellFoundedOn(StrictSubsetOrdering(S), FiniteSubsetsOf(S))
  BY FS_StrictSubsetOrderingWellFounded
<1>2. B \subseteq FiniteSubsetsOf(S)
  BY FS_Subset DEF FiniteSubsetsOf
<1>3. PICK s \in B : \A t \in B : <<t, s>> \notin StrictSubsetOrdering(S)
  BY <1>1, <1>2, WFMin
<1>4. ASSUME NEW t \in B, t \subseteq s, t # s PROVE FALSE
  <2>1. <<t, s>> \in StrictSubsetOrdering(S)
    BY <1>4 DEF StrictSubsetOrdering
  <2> QED
    BY <1>3, <2>1
<1> QED
  BY <1>4

(* Two such functions agree where both are defined. *)
LEMMA PartialUnique ==
  ASSUME NEW f, NEW S, IsFiniteSet(S), NEW T \in SUBSET S,
         NEW g, Partial(f, S, g), NEW h, Partial(f, T, h)
  PROVE  \A s \in SUBSET T : g[s] = h[s]
<1> DEFINE B == {s \in SUBSET T : g[s] # h[s]}
<1>1. SUFFICES ASSUME B # {} PROVE FALSE
  OBVIOUS
<1>2. IsFiniteSet(T)
  BY FS_Subset
<1>3. PICK s \in B : \A t \in B : ~(t \subseteq s /\ t # s)
  <2>1. B \in SUBSET SUBSET T
    OBVIOUS
  <2> HIDE DEF B
  <2> QED
    BY <1>1, <1>2, <2>1, SmallestSubset
<1>4. s \in SUBSET T /\ s \in SUBSET S
  OBVIOUS
<1>5. s # {}
  BY <1>4 DEF Partial
<1>6. Pick(s) \in s
  BY <1>5 DEF Pick
<1>7. s \ {Pick(s)} \notin B
  BY <1>3, <1>6
<1>8. g[s \ {Pick(s)}] = h[s \ {Pick(s)}]
  BY <1>4, <1>7
<1>9. g[s] = f[Pick(s)] + g[s \ {Pick(s)}] /\ h[s] = f[Pick(s)] + h[s \ {Pick(s)}]
  BY <1>4, <1>5 DEF Partial
<1> QED
  BY <1>8, <1>9

LEMMA PartialExists ==
  ASSUME NEW f, NEW S, IsFiniteSet(S)
  PROVE  \E g : Partial(f, S, g)
<1> DEFINE B == {T \in SUBSET S : ~\E g : Partial(f, T, g)}
           G(T) == CHOOSE g : Partial(f, T, g)
<1>1. SUFFICES ASSUME B # {} PROVE FALSE
  OBVIOUS
<1>2. PICK T \in B : \A U \in B : ~(U \subseteq T /\ U # T)
  <2>1. B \in SUBSET SUBSET S
    OBVIOUS
  <2> HIDE DEF B
  <2> QED
    BY <1>1, <2>1, SmallestSubset
<1>3. T \in SUBSET S /\ ~\E g : Partial(f, T, g)
  OBVIOUS
<1>4. ASSUME NEW U \in SUBSET T, U # T PROVE Partial(f, U, G(U))
  <2>1. U \notin B
    BY <1>2, <1>4
  <2>2. U \in SUBSET S
    BY <1>3
  <2> QED
    BY <2>1, <2>2
<1> DEFINE V(s) == IF s = {} THEN 0 ELSE f[Pick(s)] + G(s \ {Pick(s)})[s \ {Pick(s)}]
           g == [s \in SUBSET T |-> V(s)]
<1>5. ASSUME NEW s \in SUBSET T, s # T PROVE g[s] = G(s)[s]
  <2>1. Partial(f, s, G(s))
    BY <1>4, <1>5
  <2>2. G(s)[s] = IF s = {} THEN 0 ELSE f[Pick(s)] + G(s)[s \ {Pick(s)}]
    BY <2>1 DEF Partial
  <2>3. CASE s = {}
    BY <2>2, <2>3
  <2>4. CASE s # {}
    <3>1. Pick(s) \in s
      BY <2>4 DEF Pick
    <3> DEFINE r == s \ {Pick(s)}
    <3>2. r \in SUBSET s /\ r \in SUBSET T /\ r # T
      BY <3>1
    <3>3. Partial(f, r, G(r))
      BY <1>4, <3>2
    <3>4. IsFiniteSet(s)
      BY <1>3, FS_Subset
    <3>5. G(s)[r] = G(r)[r]
      BY <2>1, <3>2, <3>3, <3>4, PartialUnique
    <3> QED
      BY <2>2, <2>4, <3>5
  <2> QED
    BY <2>3, <2>4
<1>6. ASSUME NEW s \in SUBSET T
      PROVE  g[s] = IF s = {} THEN 0 ELSE f[Pick(s)] + g[s \ {Pick(s)}]
  <2>1. CASE s = {}
    BY <2>1
  <2>2. CASE s # {}
    <3>1. Pick(s) \in s
      BY <2>2 DEF Pick
    <3> DEFINE r == s \ {Pick(s)}
    <3>2. r \in SUBSET T /\ r # T
      BY <3>1
    <3>3. g[r] = G(r)[r]
      BY <1>5, <3>2
    <3> QED
      BY <2>2, <3>3
  <2> QED
    BY <2>1, <2>2
<1>7. g = [s \in SUBSET T |-> IF s = {} THEN 0 ELSE f[Pick(s)] + g[s \ {Pick(s)}]]
  <2>1. g = [s \in SUBSET T |-> g[s]]
    OBVIOUS
  <2> HIDE DEF g
  <2> QED
    BY <1>6, <2>1
<1>8. Partial(f, T, g)
  BY <1>7 DEF Partial
<1> QED
  BY <1>3, <1>8

(* The fold, one index at a time. *)
LEMMA SumStep ==
  ASSUME NEW f, NEW S, IsFiniteSet(S)
  PROVE  /\ SumFunctionOnSet(f, {}) = 0
         /\ S # {} => SumFunctionOnSet(f, S)
                        = f[Pick(S)] + SumFunctionOnSet(f, S \ {Pick(S)})
<1> DEFINE G(T) == CHOOSE g : Partial(f, T, g)
<1>1. ASSUME NEW T \in SUBSET S
      PROVE  Partial(f, T, G(T)) /\ SumFunctionOnSet(f, T) = G(T)[T]
  <2>1. IsFiniteSet(T)
    BY FS_Subset
  <2>2. \E g : Partial(f, T, g)
    BY <2>1, PartialExists
  <2> QED
    BY <2>2, SumIsPartial
<1>2. SumFunctionOnSet(f, {}) = 0
  BY <1>1 DEF Partial
<1>3. ASSUME S # {}
      PROVE  SumFunctionOnSet(f, S) = f[Pick(S)] + SumFunctionOnSet(f, S \ {Pick(S)})
  <2> DEFINE r == S \ {Pick(S)}
  <2>1. r \in SUBSET S /\ r \in SUBSET r /\ S \in SUBSET S
    OBVIOUS
  <2>2. Partial(f, S, G(S)) /\ Partial(f, r, G(r))
    BY <1>1, <2>1
  <2>3. SumFunctionOnSet(f, S) = G(S)[S] /\ SumFunctionOnSet(f, r) = G(r)[r]
    BY <1>1, <2>1
  <2> HIDE DEF G
  <2>4. G(S)[S] = f[Pick(S)] + G(S)[r]
    BY <1>3, <2>1, <2>2 DEF Partial
  <2>5. G(S)[r] = G(r)[r]
    BY <2>1, <2>2, PartialUnique
  <2> QED
    BY <2>3, <2>4, <2>5
<1> QED
  BY <1>2, <1>3

LEMMA SumEmpty ==
  ASSUME NEW f
  PROVE  SumFunctionOnSet(f, {}) = 0
BY SumStep, FS_EmptySet

LEMMA SumType ==
  ASSUME NEW f, NEW S, IsFiniteSet(S), \A x \in S : f[x] \in Int
  PROVE  SumFunctionOnSet(f, S) \in Int
<1> DEFINE B == {T \in SUBSET S : SumFunctionOnSet(f, T) \notin Int}
<1>1. SUFFICES ASSUME B # {} PROVE FALSE
  OBVIOUS
<1>2. PICK T \in B : \A U \in B : ~(U \subseteq T /\ U # T)
  <2>1. B \in SUBSET SUBSET S
    OBVIOUS
  <2> HIDE DEF B
  <2> QED
    BY <1>1, <2>1, SmallestSubset
<1>3. T \in SUBSET S /\ SumFunctionOnSet(f, T) \notin Int /\ IsFiniteSet(T)
  BY FS_Subset
<1>4. T # {}
  BY <1>3, SumEmpty
<1>5. Pick(T) \in T
  BY <1>4 DEF Pick
<1>6. T \ {Pick(T)} \notin B
  BY <1>2, <1>5
<1>7. SumFunctionOnSet(f, T \ {Pick(T)}) \in Int
  BY <1>3, <1>6
<1>8. SumFunctionOnSet(f, T) = f[Pick(T)] + SumFunctionOnSet(f, T \ {Pick(T)})
  BY <1>3, <1>4, SumStep
<1> QED
  BY <1>3, <1>5, <1>7, <1>8

(* Any index may be taken first. *)
LEMMA SumRemove ==
  ASSUME NEW f, NEW S, IsFiniteSet(S), \A y \in S : f[y] \in Int, NEW x \in S
  PROVE  SumFunctionOnSet(f, S) = f[x] + SumFunctionOnSet(f, S \ {x})
<1> DEFINE Sum(T) == SumFunctionOnSet(f, T)
           B == {T \in SUBSET S : \E y \in T : Sum(T) # f[y] + Sum(T \ {y})}
<1>1. SUFFICES ASSUME B # {} PROVE FALSE
  <2>1. S \notin B => Sum(S) = f[x] + Sum(S \ {x})
    OBVIOUS
  <2> QED
    BY <1>1, <2>1
<1>2. PICK T \in B : \A U \in B : ~(U \subseteq T /\ U # T)
  <2>1. B \in SUBSET SUBSET S
    OBVIOUS
  <2> HIDE DEF B
  <2> QED
    BY <1>1, <2>1, SmallestSubset
<1>3. PICK y \in T : Sum(T) # f[y] + Sum(T \ {y})
  OBVIOUS
<1>4. T \in SUBSET S /\ IsFiniteSet(T) /\ T # {}
  BY <1>3, FS_Subset
<1> DEFINE c == Pick(T)
<1>5. c \in T /\ Sum(T) = f[c] + Sum(T \ {c})
  BY <1>4, SumStep DEF Pick
<1>6. y # c
  BY <1>3, <1>5
<1> HIDE DEF c
<1>7. T \ {c} \notin B /\ T \ {y} \notin B
  BY <1>2, <1>3, <1>5
<1>8. Sum(T \ {c}) = f[y] + Sum((T \ {c}) \ {y})
  BY <1>3, <1>4, <1>6, <1>7
<1>9. Sum(T \ {y}) = f[c] + Sum((T \ {y}) \ {c})
  BY <1>4, <1>5, <1>6, <1>7
<1>10. (T \ {c}) \ {y} = (T \ {y}) \ {c}
  OBVIOUS
<1>11. /\ f[y] \in Int /\ f[c] \in Int
       /\ Sum((T \ {c}) \ {y}) \in Int
  <2>1. IsFiniteSet((T \ {c}) \ {y})
    BY <1>4, FS_RemoveElement
  <2>2. \A z \in (T \ {c}) \ {y} : f[z] \in Int
    BY <1>4
  <2> QED
    BY <1>3, <1>4, <1>5, <2>1, <2>2, SumType
<1>12. Sum(T) = f[y] + Sum(T \ {y})
  <2>1. Sum(T \ {y}) = f[c] + Sum((T \ {c}) \ {y})
    BY <1>9, <1>10
  <2> DEFINE a == Sum((T \ {c}) \ {y})
             d == Sum(T \ {c})
             e == Sum(T \ {y})
  <2>2. /\ Sum(T) = f[c] + d
        /\ d = f[y] + a
        /\ e = f[c] + a
        /\ a \in Int
    BY <1>5, <1>8, <1>11, <2>1
  <2> HIDE DEF a, d, e, Sum
  <2>3. f[c] + (f[y] + a) = f[y] + (f[c] + a)
    BY <1>11, <2>2
  <2>4. Sum(T) = f[y] + e
    BY <2>2, <2>3
  <2> USE DEF e
  <2> QED
    BY <2>4
<1> QED
  BY <1>3, <1>12

(* The sum depends on the values alone, and grows with them. *)
LEMMA SumMonotone ==
  ASSUME NEW f, NEW g, NEW S, IsFiniteSet(S),
         \A x \in S : f[x] \in Int /\ g[x] \in Int /\ f[x] =< g[x]
  PROVE  SumFunctionOnSet(f, S) =< SumFunctionOnSet(g, S)
<1> DEFINE B == {T \in SUBSET S : ~(SumFunctionOnSet(f, T) =< SumFunctionOnSet(g, T))}
<1>1. SUFFICES ASSUME B # {} PROVE FALSE
  OBVIOUS
<1>2. PICK T \in B : \A U \in B : ~(U \subseteq T /\ U # T)
  <2>1. B \in SUBSET SUBSET S
    OBVIOUS
  <2> HIDE DEF B
  <2> QED
    BY <1>1, <2>1, SmallestSubset
<1>3. T \in SUBSET S /\ IsFiniteSet(T)
  BY FS_Subset
<1>4. T # {}
  <2>1. SumFunctionOnSet(f, {}) = 0 /\ SumFunctionOnSet(g, {}) = 0
    BY SumEmpty
  <2>2. SumFunctionOnSet(f, {}) =< SumFunctionOnSet(g, {})
    BY <2>1
  <2> QED
    BY <2>2
<1>5. PICK x \in T : TRUE
  BY <1>4
<1> DEFINE U == T \ {x}
<1>6. U \notin B /\ U \in SUBSET S /\ IsFiniteSet(U)
  BY <1>2, <1>3, <1>5, FS_Subset
<1>7. SumFunctionOnSet(f, U) =< SumFunctionOnSet(g, U)
  BY <1>6
<1>8. /\ SumFunctionOnSet(f, T) = f[x] + SumFunctionOnSet(f, U)
      /\ SumFunctionOnSet(g, T) = g[x] + SumFunctionOnSet(g, U)
  BY <1>3, <1>5, SumRemove
<1>9. SumFunctionOnSet(f, U) \in Int /\ SumFunctionOnSet(g, U) \in Int
  BY <1>6, SumType
<1>10. f[x] \in Int /\ g[x] \in Int /\ f[x] =< g[x]
  BY <1>3, <1>5
<1>11. SumFunctionOnSet(f, T) =< SumFunctionOnSet(g, T)
  <2> HIDE DEF U
  <2> QED
    BY <1>7, <1>8, <1>9, <1>10
<1> QED
  BY <1>11

LEMMA SumSame ==
  ASSUME NEW f, NEW g, NEW S, IsFiniteSet(S),
         \A x \in S : f[x] \in Int /\ f[x] = g[x]
  PROVE  SumFunctionOnSet(f, S) = SumFunctionOnSet(g, S)
<1>1. SumFunctionOnSet(f, S) =< SumFunctionOnSet(g, S)
  BY SumMonotone
<1>2. SumFunctionOnSet(g, S) =< SumFunctionOnSet(f, S)
  BY SumMonotone
<1>3. SumFunctionOnSet(f, S) \in Int /\ SumFunctionOnSet(g, S) \in Int
  BY SumType
<1> QED
  BY <1>1, <1>2, <1>3

(* Two functions that differ at one index. *)
LEMMA SumUpdate ==
  ASSUME NEW f, NEW g, NEW S, IsFiniteSet(S), NEW x \in S,
         \A y \in S : f[y] \in Int /\ g[y] \in Int,
         \A y \in S \ {x} : f[y] = g[y]
  PROVE  SumFunctionOnSet(g, S) = SumFunctionOnSet(f, S) + (g[x] - f[x])
<1> DEFINE U == S \ {x}
<1>1. IsFiniteSet(U)
  BY FS_Subset
<1>2. SumFunctionOnSet(f, U) = SumFunctionOnSet(g, U) /\ SumFunctionOnSet(f, U) \in Int
  BY <1>1, SumSame, SumType
<1>3. /\ SumFunctionOnSet(f, S) = f[x] + SumFunctionOnSet(f, U)
      /\ SumFunctionOnSet(g, S) = g[x] + SumFunctionOnSet(g, U)
  BY SumRemove
<1>4. f[x] \in Int /\ g[x] \in Int
  OBVIOUS
<1> QED
  <2> HIDE DEF U
  <2> QED
    BY <1>2, <1>3, <1>4

LEMMA SumAdd ==
  ASSUME NEW f, NEW g, NEW h, NEW S, IsFiniteSet(S),
         \A x \in S : f[x] \in Int /\ g[x] \in Int /\ h[x] = f[x] + g[x]
  PROVE  SumFunctionOnSet(h, S) = SumFunctionOnSet(f, S) + SumFunctionOnSet(g, S)
<1> DEFINE P(T) == SumFunctionOnSet(h, T) = SumFunctionOnSet(f, T) + SumFunctionOnSet(g, T)
           B == {T \in SUBSET S : ~P(T)}
<1>1. SUFFICES ASSUME B # {} PROVE FALSE
  OBVIOUS
<1>2. PICK T \in B : \A U \in B : ~(U \subseteq T /\ U # T)
  <2>1. B \in SUBSET SUBSET S
    OBVIOUS
  <2> HIDE DEF B
  <2> QED
    BY <1>1, <2>1, SmallestSubset
<1>3. T \in SUBSET S /\ IsFiniteSet(T)
  BY FS_Subset
<1>4. T # {}
  <2>1. /\ SumFunctionOnSet(f, {}) = 0
        /\ SumFunctionOnSet(g, {}) = 0
        /\ SumFunctionOnSet(h, {}) = 0
    BY SumEmpty
  <2>2. P({})
    BY <2>1
  <2> HIDE DEF P
  <2> QED
    BY <2>2
<1>5. PICK x \in T : TRUE
  BY <1>4
<1> DEFINE U == T \ {x}
<1>6. U \notin B /\ U \in SUBSET S /\ IsFiniteSet(U)
  BY <1>2, <1>3, <1>5, FS_Subset
<1>7. P(U)
  BY <1>6
<1>8. \A y \in S : h[y] \in Int
  OBVIOUS
<1>9. /\ SumFunctionOnSet(f, T) = f[x] + SumFunctionOnSet(f, U)
      /\ SumFunctionOnSet(g, T) = g[x] + SumFunctionOnSet(g, U)
      /\ SumFunctionOnSet(h, T) = h[x] + SumFunctionOnSet(h, U)
  BY <1>3, <1>5, <1>8, SumRemove
<1>10. SumFunctionOnSet(f, U) \in Int /\ SumFunctionOnSet(g, U) \in Int
  BY <1>6, SumType
<1>11. f[x] \in Int /\ g[x] \in Int /\ h[x] = f[x] + g[x]
  BY <1>3, <1>5
<1>12. P(T)
  <2> HIDE DEF U
  <2> QED
    BY <1>7, <1>9, <1>10, <1>11
<1> QED
  BY <1>12

(* Indices that contribute nothing may be left out. *)
LEMMA SumExtend ==
  ASSUME NEW f, NEW S, IsFiniteSet(S), NEW R \in SUBSET S,
         \A x \in S : f[x] \in Int,
         \A x \in S \ R : f[x] = 0
  PROVE  SumFunctionOnSet(f, S) = SumFunctionOnSet(f, R)
<1> DEFINE B == {T \in SUBSET (S \ R) : SumFunctionOnSet(f, R \cup T) # SumFunctionOnSet(f, R)}
<1>1. SUFFICES ASSUME B # {} PROVE FALSE
  <2>1. R \cup (S \ R) = S
    OBVIOUS
  <2>2. S \ R \notin B
    BY <1>1
  <2> QED
    BY <2>1, <2>2
<1>2. IsFiniteSet(S \ R)
  BY FS_Subset
<1>3. PICK T \in B : \A U \in B : ~(U \subseteq T /\ U # T)
  <2>1. B \in SUBSET SUBSET (S \ R)
    OBVIOUS
  <2> HIDE DEF B
  <2> QED
    BY <1>1, <1>2, <2>1, SmallestSubset
<1>4. T \in SUBSET (S \ R) /\ R \cup T \in SUBSET S /\ IsFiniteSet(R \cup T)
  BY FS_Subset
<1>5. T # {}
  <2>1. R \cup {} = R
    OBVIOUS
  <2> QED
    BY <2>1
<1>6. PICK x \in T : TRUE
  BY <1>5
<1> DEFINE U == T \ {x}
<1>7. U \in SUBSET (S \ R) /\ U \notin B /\ IsFiniteSet(R \cup U)
  BY <1>3, <1>4, <1>6, FS_Subset
<1>8. SumFunctionOnSet(f, R \cup U) = SumFunctionOnSet(f, R)
  BY <1>7
<1>9. (R \cup T) \ {x} = R \cup U /\ x \in R \cup T
  BY <1>4, <1>6
<1>10. SumFunctionOnSet(f, R \cup T) = f[x] + SumFunctionOnSet(f, (R \cup T) \ {x})
  BY <1>4, <1>9, SumRemove
<1>11. f[x] = 0
  BY <1>4, <1>6
<1>12. SumFunctionOnSet(f, R \cup U) \in Int
  <2>1. \A y \in R \cup U : f[y] \in Int
    BY <1>7
  <2> HIDE DEF U
  <2> QED
    BY <1>7, <2>1, SumType
<1>13. SumFunctionOnSet(f, R \cup T) = 0 + SumFunctionOnSet(f, R \cup U)
  BY <1>9, <1>10, <1>11
<1>14. SumFunctionOnSet(f, R \cup T) = SumFunctionOnSet(f, R)
  <2> HIDE DEF U
  <2> QED
    BY <1>8, <1>12, <1>13
<1> QED
  BY <1>14

(* Two functions of which one is larger at two indices only. *)
LEMMA SumTwo ==
  ASSUME NEW f, NEW g, NEW S, IsFiniteSet(S), NEW a \in S, NEW b \in S, a # b,
         \A y \in S : f[y] \in Int /\ g[y] \in Int,
         \A y \in S \ {a, b} : g[y] =< f[y]
  PROVE  SumFunctionOnSet(g, S) =< SumFunctionOnSet(f, S) + (g[a] - f[a]) + (g[b] - f[b])
<1> DEFINE k == [y \in S |-> IF y = a THEN g[y] ELSE f[y]]
           h == [y \in S |-> IF y \in {a, b} THEN g[y] ELSE f[y]]
<1>1. /\ \A y \in S : k[y] \in Int /\ h[y] \in Int /\ g[y] =< h[y]
      /\ \A y \in S \ {a} : f[y] = k[y]
      /\ \A y \in S \ {b} : k[y] = h[y]
      /\ k[a] = g[a] /\ k[b] = f[b] /\ h[b] = g[b]
  OBVIOUS
<1> HIDE DEF k, h
<1>2. SumFunctionOnSet(k, S) = SumFunctionOnSet(f, S) + (g[a] - f[a])
  <2>1. SumFunctionOnSet(k, S) = SumFunctionOnSet(f, S) + (k[a] - f[a])
    BY <1>1, SumUpdate
  <2> QED
    BY <1>1, <2>1
<1>3. SumFunctionOnSet(h, S) = SumFunctionOnSet(k, S) + (g[b] - f[b])
  <2>1. SumFunctionOnSet(h, S) = SumFunctionOnSet(k, S) + (h[b] - k[b])
    BY <1>1, SumUpdate
  <2> QED
    BY <1>1, <2>1
<1>4. SumFunctionOnSet(g, S) =< SumFunctionOnSet(h, S)
  BY <1>1, SumMonotone
<1>5. SumFunctionOnSet(f, S) \in Int /\ SumFunctionOnSet(g, S) \in Int
  BY SumType
<1> QED
  BY <1>2, <1>3, <1>4, <1>5

LEMMA SumZero ==
  ASSUME NEW f, NEW S, IsFiniteSet(S), \A x \in S : f[x] = 0
  PROVE  SumFunctionOnSet(f, S) = 0
<1>1. SumFunctionOnSet(f, S) = SumFunctionOnSet(f, {})
  BY SumExtend
<1> QED
  BY <1>1, SumEmpty
=============================================================================
