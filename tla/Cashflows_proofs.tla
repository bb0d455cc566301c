-------------------------- MODULE Cashflows_proofs --------------------------
(***************************************************************************)
(* What the calculations of Cashflows.tla return, for any holdings,        *)
(* actions, payments and amounts: sums of amounts, cents that add up, and  *)
(* windows that meet.                                                      *)
(***************************************************************************)
EXTENDS Cashflows, FiniteSetTheorems, WellFoundedInduction, TLAPS

-----------------------------------------------------------------------------
(* Sums.  Sum(f, s) is what SumFunction accumulates over s, a part of the  *)
(* domain of f.  There is no induction over finite sets here: a subset for *)
(* which a claim fails, and fails for none that is smaller, takes its      *)
(* place.                                                                  *)

Minimal(x, T) == \A y \in T : y \subseteq x => y = x

LEMMA MinimalSubset ==
  ASSUME NEW S, IsFiniteSet(S), NEW T, T \subseteq SUBSET S, T # {}
  PROVE  \E x \in T : Minimal(x, T)
<1>1. IsWellFoundedOn(StrictSubsetOrdering(S), FiniteSubsetsOf(S))
  BY FS_StrictSubsetOrderingWellFounded
<1>2. FiniteSubsetsOf(S) = SUBSET S
  BY FS_FiniteSubsetsOfFinite
<1>3. PICK x \in T : \A y \in T : ~ (<<y, x>> \in StrictSubsetOrdering(S))
  BY <1>1, <1>2, WFMin
<1> QED
  BY <1>3 DEF StrictSubsetOrdering, Minimal

(* The claims below fail for a smallest set of a family, if at all.        *)
LEMMA SmallestFailure ==
  ASSUME NEW S, IsFiniteSet(S), NEW T, T \subseteq SUBSET S, T # {}
  PROVE  \E s \in T : \A x \in s : s \ {x} \notin T
<1>1. PICK s \in T : Minimal(s, T)
  BY MinimalSubset
<1> QED
  BY <1>1 DEF Minimal

Pick(s) == CHOOSE x \in s : TRUE
Accumulates(f, g, s) == g[s] = IF s = {} THEN 0 ELSE f[Pick(s)] + g[s \ {Pick(s)}]
Sums(f, g) == g = [s \in SUBSET DOMAIN f |-> IF s = {} THEN 0 ELSE f[Pick(s)] + g[s \ {Pick(s)}]]
Sum(f, s) == (CHOOSE g : Sums(f, g))[s]
IntOn(f, s) == s \subseteq DOMAIN f /\ IsFiniteSet(DOMAIN f) /\ \A x \in s : f[x] \in Int

LEMMA SumIs == ASSUME NEW f PROVE SumFunction(f) = Sum(f, DOMAIN f)
  BY DEF SumFunction, SumFunctionOnSet, FoldFunctionOnSet, MapThenFoldSet, Sum, Sums, Pick

LEMMA PickIsIn == ASSUME NEW s, s # {} PROVE Pick(s) \in s
  BY DEF Pick

(* The least number at which a claim fails.                                *)
Least(S, i) == i \in S /\ \A j \in S : i <= j

LEMMA LeastOf ==
  ASSUME NEW S, S \subseteq Nat, S # {}
  PROVE  \E i \in Nat : Least(S, i)
<1>1. PICK n : n \in S
  OBVIOUS
<1> DEFINE Upto(i) == S \cap (0..i)
           F == 0..n
           T == {Upto(i) : i \in S \cap F}
<1>2. IsFiniteSet(F)
  BY <1>1, FS_Interval
<1>3. T \subseteq SUBSET F /\ T # {}
  <2>1. n \in S \cap F
    BY <1>1
  <2>2. \A i \in S \cap F : Upto(i) \subseteq F
    BY <1>1
  <2> QED
    BY <2>1, <2>2
<1>4. IsWellFoundedOn(StrictSubsetOrdering(F), FiniteSubsetsOf(F)) /\ FiniteSubsetsOf(F) = SUBSET F
  <2> HIDE DEF F
  <2> QED
    BY <1>2, FS_StrictSubsetOrderingWellFounded, FS_FiniteSubsetsOfFinite
<1>5. PICK x \in T : \A y \in T : ~ (<<y, x>> \in StrictSubsetOrdering(F))
  <2> HIDE DEF T, F
  <2> QED
    BY <1>3, <1>4, WFMin
<1>6. PICK i \in S \cap F : x = Upto(i)
  BY <1>5
<1>7. ASSUME NEW j \in S, j < i PROVE FALSE
  <2>1. j \in S \cap F /\ Upto(j) \subseteq Upto(i) /\ i \in Upto(i) /\ i \notin Upto(j)
    BY <1>1, <1>7
  <2>2. Upto(j) \in T /\ Upto(j) # Upto(i) /\ Upto(j) \subseteq F /\ Upto(i) \subseteq F
    BY <2>1, <1>3, <1>6
  <2> QED
    BY <1>5, <1>6, <2>1, <2>2 DEF StrictSubsetOrdering
<1>8. i \in Nat /\ Least(S, i)
  BY <1>7 DEF Least
<1> QED
  BY <1>8


(* Partial sums exist: were i the least size of a subset that has none,    *)
(* its element and the sum of the rest could be added.                     *)
LEMMA SumsExist ==
  ASSUME NEW f, IsFiniteSet(DOMAIN f)
  PROVE  \E g : Sums(f, g)
<1> DEFINE D == DOMAIN f
           P(i) == \E g : \A s \in SUBSET D : Cardinality(s) <= i => Accumulates(f, g, s)
           Bad == {i \in Nat : ~P(i)}
<1>1. ASSUME NEW s \in SUBSET D
      PROVE  /\ IsFiniteSet(s) /\ Cardinality(s) \in Nat /\ Cardinality(s) <= Cardinality(D)
             /\ s # {} => /\ Pick(s) \in s /\ s \ {Pick(s)} \in SUBSET D
                          /\ Cardinality(s \ {Pick(s)}) = Cardinality(s) - 1
             /\ Cardinality(s) = 0 <=> s = {}
  BY PickIsIn, FS_Subset, FS_CardinalityType, FS_RemoveElement, FS_EmptySet
<1>2. ASSUME Bad # {} PROVE FALSE
  <2>1. PICK i \in Nat : Least(Bad, i)
    <3>1. Bad \subseteq Nat
      OBVIOUS
    <3> HIDE DEF Bad
    <3> QED
      BY <1>2, <3>1, LeastOf
  <2>2. i \in Nat /\ ~P(i) /\ \A j \in Nat : j < i => P(j)
    <3> HIDE DEF P
    <3> QED
      BY <2>1 DEF Least
  <2>3. CASE i = 0
    <3>1. PICK g : g = [s \in SUBSET D |-> 0]
      OBVIOUS
    <3>2. \A s \in SUBSET D : Cardinality(s) <= 0 => Accumulates(f, g, s)
      <4> SUFFICES ASSUME NEW s \in SUBSET D, Cardinality(s) <= 0 PROVE Accumulates(f, g, s)
        OBVIOUS
      <4>1. Cardinality(s) \in Nat /\ (Cardinality(s) = 0 <=> s = {})
        BY <1>1
      <4>2. s = {} /\ g[s] = 0
        BY <3>1, <4>1
      <4> QED
        BY <4>2 DEF Accumulates
    <3> QED
      BY <2>2, <2>3, <3>2
  <2>4. CASE i # 0
    <3>1. P(i - 1) /\ i - 1 \in Nat
      <4> HIDE DEF P
      <4> QED
        BY <2>2, <2>4
    <3>2. PICK g : \A s \in SUBSET D : Cardinality(s) <= i - 1 => Accumulates(f, g, s)
      BY <3>1
    <3>3. PICK h : h = [s \in SUBSET D |-> IF Cardinality(s) <= i - 1 THEN g[s]
                                          ELSE f[Pick(s)] + g[s \ {Pick(s)}]]
      OBVIOUS
    <3>4. ASSUME NEW s \in SUBSET D, Cardinality(s) <= i PROVE Accumulates(f, h, s)
      <4>1. CASE Cardinality(s) <= i - 1
        <5>1. h[s] = g[s] /\ Accumulates(f, g, s)
          BY <3>2, <3>3, <4>1
        <5>2. s # {} => h[s \ {Pick(s)}] = g[s \ {Pick(s)}]
          BY <1>1, <2>2, <3>3, <4>1
        <5> QED
          BY <5>1, <5>2 DEF Accumulates
      <4>2. CASE ~ (Cardinality(s) <= i - 1)
        <5>1. s # {} /\ h[s] = f[Pick(s)] + g[s \ {Pick(s)}]
          <6>1. Cardinality(s) # 0
            BY <1>1, <3>1, <4>2
          <6> QED
            BY <1>1, <3>3, <4>2, <6>1
        <5>2. h[s \ {Pick(s)}] = g[s \ {Pick(s)}]
          BY <1>1, <2>2, <3>3, <3>4, <5>1
        <5> QED
          BY <5>1, <5>2 DEF Accumulates
      <4> QED
        BY <4>1, <4>2
    <3> QED
      BY <2>2, <3>4
  <2> QED
    BY <2>3, <2>4
<1>3. P(Cardinality(D))
  <2> HIDE DEF P
  <2> QED
    BY <1>1, <1>2
<1>4. PICK g : \A s \in SUBSET D : Accumulates(f, g, s)
  BY <1>1, <1>3
<1>5. PICK h : h = [s \in SUBSET D |-> g[s]]
  OBVIOUS
<1>6. ASSUME NEW s \in SUBSET D
      PROVE  h[s] = IF s = {} THEN 0 ELSE f[Pick(s)] + h[s \ {Pick(s)}]
  BY <1>1, <1>4, <1>5 DEF Accumulates
<1>7. h = [s \in SUBSET D |-> IF s = {} THEN 0 ELSE f[Pick(s)] + h[s \ {Pick(s)}]]
  BY <1>5, <1>6
<1> QED
  BY <1>7 DEF Sums

LEMMA SumAdds ==
  ASSUME NEW f, IsFiniteSet(DOMAIN f), NEW s \in SUBSET DOMAIN f
  PROVE  Sum(f, s) = IF s = {} THEN 0 ELSE f[Pick(s)] + Sum(f, s \ {Pick(s)})
<1>1. PICK g : g = CHOOSE h : Sums(f, h)
  OBVIOUS
<1>2. Sums(f, g)
  BY <1>1, SumsExist
<1>3. g[s] = IF s = {} THEN 0 ELSE f[Pick(s)] + g[s \ {Pick(s)}]
  BY <1>2 DEF Sums
<1> QED
  BY <1>1, <1>3 DEF Sum

LEMMA SumOfNothing == ASSUME NEW f, IsFiniteSet(DOMAIN f) PROVE Sum(f, {}) = 0
  BY SumAdds

LEMMA SumIsInt ==
  ASSUME NEW f, NEW s, IntOn(f, s)
  PROVE  Sum(f, s) \in Int
<1> DEFINE Bad == {t \in SUBSET s : Sum(f, t) \notin Int}
<1>1. ASSUME Bad # {} PROVE FALSE
  <2>1. IsFiniteSet(s)
    BY FS_Subset DEF IntOn
  <2>2. PICK t \in Bad : \A x \in t : t \ {x} \notin Bad
    BY <1>1, <2>1, SmallestFailure
  <2>3. t \in SUBSET DOMAIN f /\ t \subseteq s
    BY DEF IntOn
  <2>4. t # {}
    BY <2>2, <2>3, SumAdds DEF IntOn
  <2>5. Pick(t) \in t /\ t \ {Pick(t)} \in SUBSET s /\ f[Pick(t)] \in Int
    BY <2>3, <2>4, PickIsIn DEF IntOn
  <2>6. Sum(f, t \ {Pick(t)}) \in Int
    BY <2>2, <2>5
  <2>7. Sum(f, t) = f[Pick(t)] + Sum(f, t \ {Pick(t)})
    BY <2>3, <2>4, SumAdds DEF IntOn
  <2> QED
    BY <2>2, <2>5, <2>6, <2>7
<1> QED
  BY <1>1

(* The order of the elements does not matter.                              *)
LEMMA SumSplits ==
  ASSUME NEW f, NEW s, IntOn(f, s), NEW x \in s
  PROVE  Sum(f, s) = f[x] + Sum(f, s \ {x})
<1> DEFINE P(t) == \A y \in t : Sum(f, t) = f[y] + Sum(f, t \ {y})
           Bad == {t \in SUBSET s : ~P(t)}
<1>1. ASSUME Bad # {} PROVE FALSE
  <2>1. IsFiniteSet(s)
    BY FS_Subset DEF IntOn
  <2>2. PICK t \in Bad : \A y \in t : t \ {y} \notin Bad
    <3> HIDE DEF P
    <3> QED
      BY <1>1, <2>1, SmallestFailure
  <2>3. PICK y \in t : Sum(f, t) # f[y] + Sum(f, t \ {y})
    BY <2>2
  <2> DEFINE p == Pick(t)
             u == t \ {p}
             v == t \ {y}
             w == t \ {p, y}
  <2>4. p \in t /\ p # y /\ Sum(f, t) = f[p] + Sum(f, u)
    <3>1. t \in SUBSET DOMAIN f /\ t # {}
      BY <2>3 DEF IntOn
    <3>2. p \in t /\ Sum(f, t) = f[p] + Sum(f, u)
      BY <3>1, PickIsIn, SumAdds DEF IntOn
    <3> QED
      BY <2>3, <3>2
  <2>5. P(u) /\ P(v) /\ y \in u /\ p \in v /\ u \ {y} = w /\ v \ {p} = w
    <3> HIDE DEF P
    <3> QED
      BY <2>2, <2>3, <2>4
  <2>6. Sum(f, u) = f[y] + Sum(f, w) /\ Sum(f, v) = f[p] + Sum(f, w)
    BY <2>5
  <2>7. f[p] \in Int /\ f[y] \in Int /\ Sum(f, w) \in Int
    <3>1. IntOn(f, w) /\ p \in s /\ y \in s
      BY <2>4 DEF IntOn
    <3> QED
      BY <3>1, SumIsInt DEF IntOn
  <2> HIDE DEF p, u, v, w, P, Bad
  <2>8. PICK a \in Int, b \in Int, c \in Int : a = f[p] /\ b = f[y] /\ c = Sum(f, w)
    BY <2>7
  <2>9. Sum(f, t) # b + (a + c)
    BY <2>3, <2>6, <2>8 DEF v
  <2>10. Sum(f, t) = a + (b + c)
    BY <2>4, <2>6, <2>8
  <2> QED
    BY <2>8, <2>9, <2>10
<1> QED
  <2> HIDE DEF P
  <2>1. P(s)
    BY <1>1
  <2> QED
    BY <2>1 DEF P
(* What the sum of a set becomes when an element is added to it.           *)
LEMMA SumGrows ==
  ASSUME NEW f, NEW s, NEW x, IntOn(f, s \cup {x}), x \notin s
  PROVE  Sum(f, s \cup {x}) = Sum(f, s) + f[x]
<1>1. (s \cup {x}) \ {x} = s
  OBVIOUS
<1>2. Sum(f, s \cup {x}) = f[x] + Sum(f, s)
  BY <1>1, SumSplits
<1>3. f[x] \in Int /\ Sum(f, s) \in Int
  <2>1. IntOn(f, s)
    BY DEF IntOn
  <2> QED
    BY <2>1, SumIsInt DEF IntOn
<1> QED
  BY <1>2, <1>3

(* Functions that agree on a set have one sum over it.                     *)
LEMMA SumsAgree ==
  ASSUME NEW f, NEW g, NEW s, IntOn(f, s), IntOn(g, s), \A x \in s : f[x] = g[x]
  PROVE  Sum(f, s) = Sum(g, s)
<1> DEFINE Bad == {t \in SUBSET s : Sum(f, t) # Sum(g, t)}
<1>1. ASSUME Bad # {} PROVE FALSE
  <2>1. IsFiniteSet(s)
    BY FS_Subset DEF IntOn
  <2>2. PICK t \in Bad : \A x \in t : t \ {x} \notin Bad
    BY <1>1, <2>1, SmallestFailure
  <2>3. t \in SUBSET DOMAIN f /\ t \in SUBSET DOMAIN g
    BY DEF IntOn
  <2>4. t # {}
    BY <2>2, <2>3, SumAdds DEF IntOn
  <2>5. Pick(t) \in t
    BY <2>4, PickIsIn
  <2>6. Sum(f, t \ {Pick(t)}) = Sum(g, t \ {Pick(t)}) /\ f[Pick(t)] = g[Pick(t)]
    BY <2>2, <2>5
  <2> QED
    BY <2>2, <2>3, <2>4, <2>6, SumAdds DEF IntOn
<1> QED
  BY <1>1

(* A sum of sums.                                                          *)
LEMMA SumOfBoth ==
  ASSUME NEW f, NEW g, NEW h, NEW s, IntOn(f, s), IntOn(g, s), IntOn(h, s),
         \A x \in s : h[x] = f[x] + g[x]
  PROVE  Sum(h, s) = Sum(f, s) + Sum(g, s)
<1> DEFINE Bad == {t \in SUBSET s : Sum(h, t) # Sum(f, t) + Sum(g, t)}
<1>1. ASSUME Bad # {} PROVE FALSE
  <2>1. IsFiniteSet(s)
    BY FS_Subset DEF IntOn
  <2>2. PICK t \in Bad : \A x \in t : t \ {x} \notin Bad
    BY <1>1, <2>1, SmallestFailure
  <2>3. t # {}
    BY <2>2, SumOfNothing DEF IntOn
  <2>4. PICK x \in t : TRUE
    BY <2>3
  <2>5. IntOn(f, t) /\ IntOn(g, t) /\ IntOn(h, t) /\ t \ {x} \in SUBSET s
    BY DEF IntOn
  <2>6. /\ Sum(f, t) = f[x] + Sum(f, t \ {x}) /\ Sum(g, t) = g[x] + Sum(g, t \ {x})
        /\ Sum(h, t) = h[x] + Sum(h, t \ {x})
    BY <2>4, <2>5, SumSplits
  <2>7. Sum(h, t \ {x}) = Sum(f, t \ {x}) + Sum(g, t \ {x})
    BY <2>2, <2>4, <2>5
  <2>8. h[x] = f[x] + g[x] /\ f[x] \in Int /\ g[x] \in Int
    BY <2>4 DEF IntOn
  <2>9. Sum(f, t \ {x}) \in Int /\ Sum(g, t \ {x}) \in Int
    <3>1. IntOn(f, t \ {x}) /\ IntOn(g, t \ {x})
      BY DEF IntOn
    <3> QED
      BY <3>1, SumIsInt
  <2>10. Sum(h, t) # Sum(f, t) + Sum(g, t)
    BY <2>2
  <2> HIDE DEF Bad
  <2> QED
    BY <2>6, <2>7, <2>8, <2>9, <2>10
<1> QED
  BY <1>1

(* A common factor.                                                        *)
LEMMA SumOfMultiples ==
  ASSUME NEW c \in Int, NEW f, NEW h, NEW s, IntOn(f, s), IntOn(h, s),
         \A x \in s : h[x] = c * f[x]
  PROVE  Sum(h, s) = c * Sum(f, s)
<1> DEFINE Bad == {t \in SUBSET s : Sum(h, t) # c * Sum(f, t)}
<1>1. ASSUME Bad # {} PROVE FALSE
  <2>1. IsFiniteSet(s)
    BY FS_Subset DEF IntOn
  <2>2. PICK t \in Bad : \A x \in t : t \ {x} \notin Bad
    BY <1>1, <2>1, SmallestFailure
  <2>3. t # {}
    <3>1. c * 0 = 0
      OBVIOUS
    <3> QED
      BY <2>2, <3>1, SumOfNothing DEF IntOn
  <2>4. PICK x \in t : TRUE
    BY <2>3
  <2>5. IntOn(f, t) /\ IntOn(h, t) /\ t \ {x} \in SUBSET s
    BY DEF IntOn
  <2>6. Sum(f, t) = f[x] + Sum(f, t \ {x}) /\ Sum(h, t) = h[x] + Sum(h, t \ {x})
    BY <2>4, <2>5, SumSplits
  <2>7. Sum(h, t \ {x}) = c * Sum(f, t \ {x}) /\ h[x] = c * f[x]
    BY <2>2, <2>4, <2>5
  <2>8. PICK a \in Int, b \in Int : a = f[x] /\ b = Sum(f, t \ {x})
    <3>1. IntOn(f, t \ {x}) /\ f[x] \in Int
      BY <2>4 DEF IntOn
    <3> QED
      BY <3>1, SumIsInt
  <2>9. c * (a + b) = c * a + c * b
    OBVIOUS
  <2>10. Sum(h, t) # c * Sum(f, t)
    BY <2>2
  <2> HIDE DEF Bad
  <2> QED
    BY <2>6, <2>7, <2>8, <2>9, <2>10
<1> QED
  BY <1>1

(* A sum of no more in every element is no more.                           *)
LEMMA SumIsMonotone ==
  ASSUME NEW f, NEW g, NEW s, IntOn(f, s), IntOn(g, s), \A x \in s : f[x] <= g[x]
  PROVE  Sum(f, s) <= Sum(g, s)
<1> DEFINE Bad == {t \in SUBSET s : ~ (Sum(f, t) <= Sum(g, t))}
<1>1. ASSUME Bad # {} PROVE FALSE
  <2>1. IsFiniteSet(s)
    BY FS_Subset DEF IntOn
  <2>2. PICK t \in Bad : \A x \in t : t \ {x} \notin Bad
    BY <1>1, <2>1, SmallestFailure
  <2>3. t # {}
    BY <2>2, SumOfNothing DEF IntOn
  <2>4. PICK x \in t : TRUE
    BY <2>3
  <2>5. IntOn(f, t) /\ IntOn(g, t) /\ t \ {x} \in SUBSET s
    BY DEF IntOn
  <2>6. Sum(f, t) = f[x] + Sum(f, t \ {x}) /\ Sum(g, t) = g[x] + Sum(g, t \ {x})
    BY <2>4, <2>5, SumSplits
  <2>7. Sum(f, t \ {x}) <= Sum(g, t \ {x}) /\ f[x] <= g[x] /\ f[x] \in Int /\ g[x] \in Int
    BY <2>2, <2>4, <2>5 DEF IntOn
  <2>8. Sum(f, t \ {x}) \in Int /\ Sum(g, t \ {x}) \in Int
    <3>1. IntOn(f, t \ {x}) /\ IntOn(g, t \ {x})
      BY DEF IntOn
    <3> QED
      BY <3>1, SumIsInt
  <2>9. ~ (Sum(f, t) <= Sum(g, t))
    BY <2>2
  <2> HIDE DEF Bad
  <2> QED
    BY <2>6, <2>7, <2>8, <2>9
<1> QED
  BY <1>1

(* Ones are counted.                                                       *)
LEMMA SumOfOnes ==
  ASSUME NEW f, NEW s, IntOn(f, s), NEW A \in SUBSET s,
         \A x \in s : f[x] = IF x \in A THEN 1 ELSE 0
  PROVE  Sum(f, s) = Cardinality(A)
<1> DEFINE Bad == {t \in SUBSET s : Sum(f, t) # Cardinality(A \cap t)}
<1>1. ASSUME Bad # {} PROVE FALSE
  <2>1. IsFiniteSet(s)
    BY FS_Subset DEF IntOn
  <2>2. PICK t \in Bad : \A x \in t : t \ {x} \notin Bad
    BY <1>1, <2>1, SmallestFailure
  <2>3. t # {}
    <3>1. A \cap {} = {}
      OBVIOUS
    <3> QED
      BY <2>2, <3>1, SumOfNothing, FS_EmptySet DEF IntOn
  <2>4. PICK x \in t : TRUE
    BY <2>3
  <2>5. IntOn(f, t) /\ t \ {x} \in SUBSET s
    BY DEF IntOn
  <2>6. Sum(f, t) = f[x] + Sum(f, t \ {x}) /\ Sum(f, t \ {x}) = Cardinality(A \cap (t \ {x}))
    BY <2>2, <2>4, <2>5, SumSplits
  <2>7. IsFiniteSet(A \cap t) /\ Cardinality(A \cap t) \in Nat
    BY <2>1, FS_Subset, FS_CardinalityType
  <2>8. CASE x \in A
    <3>1. A \cap (t \ {x}) = (A \cap t) \ {x} /\ x \in A \cap t /\ f[x] = 1
      BY <2>4, <2>8
    <3>2. Cardinality((A \cap t) \ {x}) = Cardinality(A \cap t) - 1
      BY <2>7, <3>1, FS_RemoveElement
    <3> QED
      BY <2>2, <2>6, <2>7, <3>1, <3>2
  <2>9. CASE x \notin A
    <3>1. A \cap (t \ {x}) = A \cap t /\ f[x] = 0
      BY <2>4, <2>9
    <3> QED
      BY <2>2, <2>6, <2>7, <3>1
  <2> QED
    BY <2>8, <2>9
<1>2. A \cap s = A
  OBVIOUS
<1> QED
  BY <1>1, <1>2

(* Disjoint sets.                                                          *)
LEMMA SumOfUnion ==
  ASSUME NEW f, NEW s, NEW u, IntOn(f, s \cup u), s \cap u = {}
  PROVE  Sum(f, s \cup u) = Sum(f, s) + Sum(f, u)
<1> DEFINE Bad == {t \in SUBSET u : Sum(f, s \cup t) # Sum(f, s) + Sum(f, t)}
<1>0. IntOn(f, s) /\ Sum(f, s) \in Int
  BY SumIsInt DEF IntOn
<1>1. ASSUME Bad # {} PROVE FALSE
  <2>1. IsFiniteSet(u)
    BY FS_Subset DEF IntOn
  <2>2. PICK t \in Bad : \A x \in t : t \ {x} \notin Bad
    BY <1>1, <2>1, SmallestFailure
  <2>3. t # {}
    <3>1. s \cup {} = s /\ Sum(f, {}) = 0
      BY SumOfNothing DEF IntOn
    <3>2. Sum(f, s \cup {}) = Sum(f, s) + Sum(f, {})
      BY <1>0, <3>1
    <3> QED
      BY <2>2, <3>2
  <2>4. PICK x \in t : TRUE
    BY <2>3
  <2>5. /\ IntOn(f, t) /\ IntOn(f, s \cup t) /\ IntOn(f, t \ {x}) /\ t \ {x} \in SUBSET u
        /\ (s \cup t) \ {x} = s \cup (t \ {x})
    BY <2>4 DEF IntOn
  <2>6. Sum(f, t) = f[x] + Sum(f, t \ {x}) /\ Sum(f, s \cup t) = f[x] + Sum(f, s \cup (t \ {x}))
    BY <2>4, <2>5, SumSplits
  <2>7. Sum(f, s \cup (t \ {x})) = Sum(f, s) + Sum(f, t \ {x})
    BY <2>2, <2>4, <2>5
  <2>8. f[x] \in Int /\ Sum(f, t \ {x}) \in Int
    BY <2>4, <2>5, SumIsInt DEF IntOn
  <2>9. Sum(f, s \cup t) # Sum(f, s) + Sum(f, t)
    BY <2>2
  <2> HIDE DEF Bad
  <2> QED
    BY <1>0, <2>6, <2>7, <2>8, <2>9
<1> QED
  BY <1>1
(* SumFunction, of a function and of its like on another domain.           *)
LEMMA SumFunctionIsInt ==
  ASSUME NEW f, IntOn(f, DOMAIN f)
  PROVE  SumFunction(f) \in Int
  BY SumIs, SumIsInt

LEMMA SumOverPart ==
  ASSUME NEW f, NEW g, IntOn(f, DOMAIN f), IntOn(g, DOMAIN g), DOMAIN g \subseteq DOMAIN f,
         \A x \in DOMAIN g : g[x] = f[x]
  PROVE  SumFunction(g) = Sum(f, DOMAIN g)
<1>1. IntOn(f, DOMAIN g)
  BY DEF IntOn
<1> QED
  BY <1>1, SumIs, SumsAgree

-----------------------------------------------------------------------------
(* Cents. *)

IsCents(a) == \E k \in Int : a = CENT * k

LEMMA Division ==
  ASSUME NEW b \in Nat \ {0}, NEW a \in Int
  PROVE  a \div b \in Int /\ a % b \in 0..(b - 1) /\ a = b * (a \div b) + (a % b)
  OBVIOUS

LEMMA ProductsAreApart ==
  ASSUME NEW b \in Nat \ {0}, NEW q \in Int, NEW r \in Int, q < r
  PROVE  b * q \in Int /\ b * r \in Int /\ b * q + b <= b * r
<1>1. PICK k \in Nat : r = q + 1 + k
  <2>1. r - q - 1 \in Nat /\ r = q + 1 + (r - q - 1)
    OBVIOUS
  <2> QED
    BY <2>1
<1>2. b * r = b * q + b + b * k
  BY <1>1
<1>3. b * k \in Nat
  BY <1>1
<1>4. b * q \in Int /\ b * r \in Int
  OBVIOUS
<1> QED
  BY <1>2, <1>3, <1>4

(* Amounts that differ by less than a cent, and are cents, are the same.   *)
LEMMA CentsAreApart ==
  ASSUME NEW k \in Int, NEW m \in Int, CENT * k - CENT * m \in (-CENT + 1)..(CENT - 1)
  PROVE  k = m
<1>0. CENT \in Nat \ {0} /\ CENT * k \in Int /\ CENT * m \in Int
  BY CentAssumption
<1>1. ASSUME k < m PROVE FALSE
  <2>1. CENT * k + CENT <= CENT * m
    BY <1>0, <1>1, ProductsAreApart
  <2> QED
    BY <1>0, <2>1
<1>2. ASSUME m < k PROVE FALSE
  <2>1. CENT * m + CENT <= CENT * k
    BY <1>0, <1>2, ProductsAreApart
  <2> QED
    BY <1>0, <2>1
<1> QED
  BY <1>1, <1>2

(* Rounding: to cents, by half a cent at most, and what is cents stays.    *)
LEMMA Rounding ==
  ASSUME NEW a \in Int
  PROVE  /\ round_cents(a) \in Int /\ IsCents(round_cents(a))
         /\ 2 * (round_cents(a) - a) \in -CENT..CENT
         /\ a >= 0 => round_cents(a) >= 0
<1>0. CENT \in Nat \ {0} /\ 2 * CENT \in Nat \ {0}
  BY CentAssumption
<1> DEFINE m == IF a >= 0 THEN a ELSE -a
           q == (2 * m + CENT) \div (2 * CENT)
           r == (2 * m + CENT) % (2 * CENT)
<1>1. m \in Nat /\ 2 * m + CENT \in Int
  BY <1>0
<1>2. q \in Int /\ r \in 0..(2 * CENT - 1) /\ 2 * m + CENT = (2 * CENT) * q + r
  <2> HIDE DEF m
  <2>1. PICK d \in Nat \ {0} : d = 2 * CENT
    BY <1>0
  <2> QED
    BY <1>1, <2>1, Division
<1>3. round_cents(a) = IF a >= 0 THEN q * CENT ELSE -(q * CENT)
  BY DEF round_cents
<1>4. /\ q * CENT \in Int /\ (2 * CENT) * q = 2 * (q * CENT)
      /\ q * CENT = CENT * q /\ -(q * CENT) = CENT * (-q)
  <2> HIDE DEF q
  <2> QED
    BY <1>0, <1>2
<1>5. q >= 0
  <2> HIDE DEF q, r, m
  <2>1. ASSUME q < 0 PROVE FALSE
    <3>1. (2 * CENT) * q + 2 * CENT <= (2 * CENT) * 0
      <4>1. PICK d \in Nat \ {0} : d = 2 * CENT
        BY <1>0
      <4> QED
        BY <1>2, <2>1, <4>1, ProductsAreApart
    <3>2. PICK p \in Int : p = (2 * CENT) * q
      BY <1>0, <1>2
    <3>3. (2 * CENT) * 0 = 0
      BY <1>0
    <3> QED
      BY <1>0, <1>1, <1>2, <3>1, <3>2, <3>3
  <2> QED
    BY <1>2, <2>1
<1> HIDE DEF q, r
<1>6. PICK p \in Int : p = q * CENT
  BY <1>4
<1>7. 2 * m + CENT = 2 * p + r /\ round_cents(a) = (IF a >= 0 THEN p ELSE -p)
  BY <1>2, <1>3, <1>4, <1>6
<1>8. 2 * (p - m) \in -CENT..CENT
  <2> HIDE DEF m
  <2> QED
    BY <1>0, <1>1, <1>2, <1>7
<1>9. p >= 0
  <2>1. CENT * q \in Nat
    BY <1>0, <1>2, <1>5
  <2> QED
    BY <1>4, <1>6, <2>1
<1>10. IsCents(p) /\ IsCents(-p)
  <2>1. p = CENT * q /\ -p = CENT * (-q) /\ -q \in Int
    BY <1>2, <1>4, <1>6
  <2> QED
    BY <1>2, <2>1 DEF IsCents
<1> QED
  BY <1>0, <1>7, <1>8, <1>9, <1>10

LEMMA RoundingOfCents ==
  ASSUME NEW a \in Int, IsCents(a)
  PROVE  round_cents(a) = a
<1>1. PICK k \in Int : a = CENT * k
  BY DEF IsCents
<1>2. PICK m \in Int : round_cents(a) = CENT * m
  BY Rounding DEF IsCents
<1>3. CENT * m - CENT * k \in (-CENT + 1)..(CENT - 1)
  BY <1>1, <1>2, Rounding, CentAssumption
<1> QED
  BY <1>1, <1>2, <1>3, CentsAreApart
-----------------------------------------------------------------------------
(* The first c of a finite order are c: whoever has fewer than c before    *)
(* it.                                                                     *)

Orders(R, S) ==
  /\ \A x \in S : <<x, x>> \notin R
  /\ \A x, y, z \in S : <<x, y>> \in R /\ <<y, z>> \in R => <<x, z>> \in R
  /\ \A x, y \in S : x # y => <<x, y>> \in R \/ <<y, x>> \in R
Ahead(R, S, x) == {y \in S : <<y, x>> \in R}

LEMMA FirstAreCounted ==
  ASSUME NEW S, IsFiniteSet(S), NEW R, Orders(R, S), NEW c \in 0..Cardinality(S)
  PROVE  Cardinality({x \in S : Cardinality(Ahead(R, S, x)) < c}) = c
<1> DEFINE n == Cardinality(S)
           rank == [x \in S |-> Cardinality(Ahead(R, S, x))]
           A == {x \in S : Cardinality(Ahead(R, S, x)) < c}
           f == [x \in A |-> rank[x]]
<1>1. n \in Nat /\ IsFiniteSet(0..(n - 1)) /\ Cardinality(0..(n - 1)) = n
  <2>1. n \in Nat
    BY FS_CardinalityType
  <2> HIDE DEF n
  <2>2. PICK m \in Int : m = n - 1
    BY <2>1
  <2>3. /\ IsFiniteSet(0..m)
        /\ Cardinality(0..m) = IF 0 > m THEN 0 ELSE m - 0 + 1
    BY 0 \in Int, FS_Interval
  <2> QED
    BY <2>1, <2>2, <2>3
<1>2. ASSUME NEW x \in S
      PROVE  IsFiniteSet(Ahead(R, S, x)) /\ Cardinality(Ahead(R, S, x)) \in 0..(n - 1)
  <2>1. Ahead(R, S, x) \in SUBSET S /\ x \notin Ahead(R, S, x)
    BY DEF Ahead, Orders
  <2>2. /\ IsFiniteSet(Ahead(R, S, x)) /\ Cardinality(Ahead(R, S, x)) \in Nat
        /\ Cardinality(Ahead(R, S, x)) <= n
    BY <2>1, FS_Subset, FS_CardinalityType
  <2>3. Cardinality(Ahead(R, S, x)) # n
    BY <2>1, FS_Subset
  <2> QED
    BY <1>1, <2>2, <2>3
<1>3. ASSUME NEW x \in S, NEW y \in S, <<x, y>> \in R PROVE rank[x] < rank[y]
  <2>1. /\ Ahead(R, S, x) \in SUBSET Ahead(R, S, y)
        /\ x \in Ahead(R, S, y) /\ x \notin Ahead(R, S, x)
    BY <1>3 DEF Ahead, Orders
  <2>2. /\ Cardinality(Ahead(R, S, x)) <= Cardinality(Ahead(R, S, y))
        /\ Cardinality(Ahead(R, S, x)) # Cardinality(Ahead(R, S, y))
    BY <1>2, <2>1, FS_Subset
  <2>3. Cardinality(Ahead(R, S, x)) \in Nat /\ Cardinality(Ahead(R, S, y)) \in Nat
    BY <1>2
  <2> QED
    BY <2>2, <2>3
<1>4. rank \in Injection(S, 0..(n - 1))
  <2>1. rank \in [S -> 0..(n - 1)]
    BY <1>2
  <2>2. ASSUME NEW x \in S, NEW y \in S, x # y PROVE rank[x] # rank[y]
    <3>1. <<x, y>> \in R \/ <<y, x>> \in R
      BY <2>2 DEF Orders
    <3>2. rank[x] \in Int /\ rank[y] \in Int
      BY <2>1, <1>1
    <3>3. rank[x] < rank[y] \/ rank[y] < rank[x]
      <4> HIDE DEF rank
      <4> QED
        BY <1>3, <3>1
    <3> QED
      BY <3>2, <3>3
  <2> QED
    BY <2>1, <2>2 DEF Injection, IsInjective
<1>5. rank \in Surjection(S, 0..(n - 1))
  <2> HIDE DEF rank
  <2> QED
    BY <1>1, <1>4, FS_Injection
<1>6. f \in Bijection(A, 0..(c - 1))
  <2>1. f \in [A -> 0..(c - 1)]
    <3>1. ASSUME NEW x \in A PROVE rank[x] \in 0..(c - 1)
      <4>1. x \in S /\ rank[x] < c /\ rank[x] \in Nat
        BY <1>2
      <4>2. c \in Nat
        BY <1>1
      <4> QED
        BY <4>1, <4>2
    <3> QED
      BY <3>1
  <2>2. \A x, y \in A : f[x] = f[y] => x = y
    BY <1>4 DEF Injection, IsInjective
  <2>3. ASSUME NEW i \in 0..(c - 1) PROVE \E x \in A : f[x] = i
    <3>1. i \in 0..(n - 1) /\ i < c
      BY <1>1
    <3>2. PICK x \in S : rank[x] = i
      <4> HIDE DEF rank
      <4> QED
        BY <1>5, <3>1 DEF Surjection
    <3>3. x \in A
      BY <3>1, <3>2
    <3> QED
      BY <3>2, <3>3
  <2> HIDE DEF f, A
  <2> QED
    BY <2>1, <2>2, <2>3 DEF Bijection, Injection, IsInjective, Surjection
<1>7. IsFiniteSet(A) /\ Cardinality(A) = Cardinality(0..(c - 1))
  <2>1. IsFiniteSet(A)
    BY FS_Subset
  <2> HIDE DEF A, f
  <2> QED
    BY <1>6, <2>1, FS_Bijection DEF ExistsBijection
<1>8. Cardinality(0..(c - 1)) = c
  <2>1. PICK m \in Int : m = c - 1 /\ c \in Nat
    BY <1>1
  <2>2. Cardinality(0..m) = IF 0 > m THEN 0 ELSE m - 0 + 1
    BY 0 \in Int, FS_Interval
  <2> QED
    BY <2>1, <2>2
<1> QED
  BY <1>7, <1>8
-----------------------------------------------------------------------------
(* allocate_cents. *)

Amounts(exact) ==
  /\ DOMAIN exact \in SUBSET Nat /\ IsFiniteSet(DOMAIN exact)
  /\ \A lot \in DOMAIN exact : exact[lot] \in Nat
Floors(exact) == [lot \in Held(exact) |-> Floor(exact[lot])]
Rests(exact) == [lot \in Held(exact) |-> exact[lot] % CENT]
WithRest(exact) == {lot \in Held(exact) : exact[lot] % CENT > 0}
InFront(exact, lot) == {k \in Held(exact) : Before(exact, k, lot)}

LEMMA HeldIsFinite ==
  ASSUME NEW exact, Amounts(exact)
  PROVE  /\ IsFiniteSet(Held(exact)) /\ Held(exact) \in SUBSET DOMAIN exact
         /\ \A lot \in Held(exact) :
              /\ lot \in Nat /\ exact[lot] \in Nat /\ exact[lot] % CENT \in 0..(CENT - 1)
              /\ Floor(exact[lot]) \in Int /\ Floor(exact[lot]) = CENT * (exact[lot] \div CENT)
              /\ exact[lot] \div CENT \in Int
<1>1. IsFiniteSet(Held(exact)) /\ Held(exact) \in SUBSET DOMAIN exact
  BY FS_Subset DEF Held, Amounts
<1>2. ASSUME NEW lot \in Held(exact)
      PROVE  /\ lot \in Nat /\ exact[lot] \in Nat /\ exact[lot] % CENT \in 0..(CENT - 1)
             /\ Floor(exact[lot]) \in Int /\ Floor(exact[lot]) = CENT * (exact[lot] \div CENT)
             /\ exact[lot] \div CENT \in Int
  <2>1. lot \in Nat /\ exact[lot] \in Nat
    BY <1>1 DEF Amounts
  <2>2. PICK a \in Int, b \in Nat \ {0} : a = exact[lot] /\ b = CENT
    BY <2>1, CentAssumption
  <2>3. a \div b \in Int /\ a % b \in 0..(b - 1) /\ a = b * (a \div b) + (a % b)
    BY <2>2, Division
  <2>4. a % b \in Int /\ b * (a \div b) \in Int
    BY <2>2, <2>3
  <2>5. a - (a % b) = b * (a \div b)
    BY <2>3, <2>4
  <2> QED
    BY <2>1, <2>2, <2>3, <2>4, <2>5 DEF Floor
<1> QED
  BY <1>1, <1>2

(* The order of lots is total: by remainder, then by id.                   *)
LEMMA LotsAreOrdered ==
  ASSUME NEW exact, Amounts(exact), NEW c \in 0..Cardinality(Held(exact))
  PROVE  Cardinality({lot \in Held(exact) : Cardinality(InFront(exact, lot)) < c}) = c
<1> DEFINE H == Held(exact)
           R == {p \in H \X H : Before(exact, p[1], p[2])}
<1>1. Orders(R, H)
  <2>1. \A x \in H : x \in Int /\ exact[x] % CENT \in Int
    BY HeldIsFinite
  <2>2. \A x, y \in H : <<x, y>> \in R <=> Before(exact, x, y)
    OBVIOUS
  <2>3. \A x \in H : ~Before(exact, x, x)
    BY <2>1 DEF Before
  <2>4. \A x, y, z \in H : Before(exact, x, y) /\ Before(exact, y, z) => Before(exact, x, z)
    BY <2>1 DEF Before
  <2>5. \A x, y \in H : x # y => Before(exact, x, y) \/ Before(exact, y, x)
    BY <2>1 DEF Before
  <2> HIDE DEF H, R
  <2> QED
    BY <2>2, <2>3, <2>4, <2>5 DEF Orders
<1>2. \A lot \in H : Ahead(R, H, lot) = InFront(exact, lot)
  BY DEF Ahead, InFront
<1>3. {lot \in H : Cardinality(InFront(exact, lot)) < c}
        = {lot \in H : Cardinality(Ahead(R, H, lot)) < c}
  BY <1>2
<1>4. IsFiniteSet(H)
  BY HeldIsFinite
<1> HIDE DEF R
<1> QED
  BY <1>1, <1>3, <1>4, FirstAreCounted

LEMMA FloorsAddUp ==
  ASSUME NEW exact, Amounts(exact)
  PROVE  /\ IntOn(Floors(exact), Held(exact)) /\ IntOn(Rests(exact), Held(exact))
         /\ IntOn(exact, Held(exact))
         /\ IsCents(Sum(Floors(exact), Held(exact)))
         /\ Sum(Floors(exact), Held(exact)) \in Int /\ Sum(Rests(exact), Held(exact)) \in Int
         /\ SumFunction(exact) = Sum(Floors(exact), Held(exact)) + Sum(Rests(exact), Held(exact))
<1> DEFINE H == Held(exact)
           D == DOMAIN exact
           q == [lot \in H |-> exact[lot] \div CENT]
<1>1. IntOn(Floors(exact), H) /\ IntOn(Rests(exact), H) /\ IntOn(exact, H) /\ IntOn(q, H)
  <2>1. \A lot \in H : Floors(exact)[lot] \in Int /\ Rests(exact)[lot] \in Int /\ q[lot] \in Int
    BY HeldIsFinite, CentAssumption DEF Floors, Rests
  <2>2. DOMAIN Floors(exact) = H /\ DOMAIN Rests(exact) = H /\ DOMAIN q = H
    BY DEF Floors, Rests
  <2>3. IsFiniteSet(D) /\ H \subseteq D /\ \A lot \in H : exact[lot] \in Int
    BY HeldIsFinite DEF Amounts
  <2> HIDE DEF H, q
  <2> QED
    BY <2>1, <2>2, <2>3, HeldIsFinite DEF IntOn, H
<1>2. Sum(Floors(exact), H) = CENT * Sum(q, H) /\ Sum(q, H) \in Int
  <2>1. \A lot \in H : Floors(exact)[lot] = CENT * q[lot]
    BY HeldIsFinite DEF Floors
  <2>2. CENT \in Int
    BY CentAssumption
  <2> HIDE DEF H, q
  <2> QED
    BY <1>1, <2>1, <2>2, SumOfMultiples, SumIsInt
<1>3. Sum(exact, H) = Sum(Floors(exact), H) + Sum(Rests(exact), H)
  <2>1. ASSUME NEW lot \in H PROVE exact[lot] = Floors(exact)[lot] + Rests(exact)[lot]
    <3>1. Floors(exact)[lot] = exact[lot] - (exact[lot] % CENT) /\ Rests(exact)[lot] = exact[lot] % CENT
      BY DEF Floors, Rests, Floor
    <3>2. exact[lot] \in Int /\ exact[lot] % CENT \in Int
      BY HeldIsFinite
    <3> QED
      BY <3>1, <3>2
  <2> HIDE DEF H
  <2> QED
    BY <1>1, <2>1, SumOfBoth
<1>4. Sum(exact, D \ H) = 0 /\ IntOn(exact, D)
  <2>1. IntOn(exact, D)
    BY DEF IntOn, Amounts
  <2>2. IntOn(exact, D \ H)
    BY <2>1 DEF IntOn
  <2>3. \A lot \in D \ H : exact[lot] = 0 * exact[lot]
    <3>1. \A lot \in D \ H : exact[lot] \in Nat /\ ~ (exact[lot] > 0)
      BY DEF Held, Amounts
    <3> QED
      BY <3>1
  <2>4. Sum(exact, D \ H) = 0 * Sum(exact, D \ H) /\ Sum(exact, D \ H) \in Int
    <3> HIDE DEF D, H
    <3> QED
      BY <2>2, <2>3, SumOfMultiples, SumIsInt
  <2> QED
    BY <2>1, <2>4
<1>5. SumFunction(exact) = Sum(exact, H) + Sum(exact, D \ H)
  <2>1. H \cup (D \ H) = D /\ H \cap (D \ H) = {}
    BY HeldIsFinite
  <2>2. SumFunction(exact) = Sum(exact, D)
    BY SumIs
  <2> HIDE DEF H, D
  <2> QED
    BY <1>4, <2>1, <2>2, SumOfUnion
<1>6. Sum(exact, H) \in Int /\ Sum(Floors(exact), H) \in Int /\ Sum(Rests(exact), H) \in Int
  <2> HIDE DEF H
  <2> QED
    BY <1>1, SumIsInt
<1> HIDE DEF q
<1> QED
  BY <1>1, <1>2, <1>3, <1>4, <1>5, <1>6 DEF IsCents

(* What is left over the floors is whole cents.                            *)
LEMMA CentsLeftAreExact ==
  ASSUME NEW exact, Amounts(exact), NEW target \in Int, IsCents(target)
  PROVE  /\ CentsLeft(exact, target) \in Int
         /\ CENT * CentsLeft(exact, target) = target - Sum(Floors(exact), Held(exact))
<1>1. PICK k \in Int, m \in Int : target = CENT * k /\ Sum(Floors(exact), Held(exact)) = CENT * m
  BY FloorsAddUp DEF IsCents
<1>2. CentsLeft(exact, target) = (target - Sum(Floors(exact), Held(exact))) \div CENT
  <2>1. CentsLeft(exact, target) = (target - SumFunction(Floors(exact))) \div CENT
    BY DEF CentsLeft, Floors
  <2>2. DOMAIN Floors(exact) = Held(exact)
    BY DEF Floors
  <2> QED
    BY <2>1, <2>2, SumIs
<1>3. PICK a \in Int : a = target - Sum(Floors(exact), Held(exact)) /\ a = CENT * (k - m)
  <2>1. CENT * k - CENT * m = CENT * (k - m) /\ CENT * (k - m) \in Int
    BY CentAssumption
  <2> QED
    BY <1>1, <2>1
<1>4. PICK b \in Nat \ {0} : b = CENT
  BY CentAssumption
<1>5. a \div b \in Int /\ a % b \in 0..(b - 1) /\ a = b * (a \div b) + (a % b)
  BY <1>3, <1>4, Division
<1>6. a \div b = k - m
  <2>1. b * (k - m) \in Int /\ b * (a \div b) \in Int
    BY <1>4, <1>5
  <2>2. b * (k - m) - b * (a \div b) \in (-b + 1)..(b - 1)
    <3>1. PICK x \in Int, y \in Int, r \in 0..(b - 1) :
            x = b * (k - m) /\ y = b * (a \div b) /\ x = y + r
      BY <1>3, <1>4, <1>5, <2>1
    <3>2. x - y \in (-b + 1)..(b - 1)
      BY <1>4, <3>1
    <3> QED
      BY <3>1, <3>2
  <2>3. k - m \in Int
    OBVIOUS
  <2> QED
    BY <1>4, <1>5, <2>2, <2>3, CentsAreApart
<1> QED
  BY <1>2, <1>3, <1>4, <1>5, <1>6

(* Lots get the target, and nothing else.                                  *)
LEMMA LotsGetTheTarget ==
  ASSUME NEW exact, Amounts(exact), NEW target \in Int, IsCents(target), Held(exact) # {},
         Reconciles(exact, target)
  PROVE  SumFunction(allocate_cents(exact, target)) = target
<1> DEFINE H == Held(exact)
           c == CentsLeft(exact, target)
           lots == allocate_cents(exact, target)
           A == {lot \in H : Cardinality(InFront(exact, lot)) < c}
           ones == [lot \in H |-> IF lot \in A THEN 1 ELSE 0]
           cents == [lot \in H |-> CENT * ones[lot]]
<1>1. c \in 0..Cardinality(H) /\ CENT \in Nat \ {0}
  BY CentAssumption DEF Reconciles
<1>2. Cardinality(A) = c
  <2> HIDE DEF c
  <2> QED
    BY <1>1, LotsAreOrdered
<1>3. lots = [lot \in H |-> Floors(exact)[lot] + cents[lot]]
  <2>1. ASSUME NEW lot \in H
        PROVE  (IF Cardinality({k \in H : Before(exact, k, lot)}) < c THEN CENT ELSE 0) = cents[lot]
    <3>1. {k \in H : Before(exact, k, lot)} = InFront(exact, lot)
      BY DEF InFront
    <3>2. CENT * 1 = CENT /\ CENT * 0 = 0
      BY <1>1
    <3> QED
      BY <3>1, <3>2
  <2> HIDE DEF cents, c
  <2> QED
    BY <2>1 DEF allocate_cents, Floors, c
<1>4. IntOn(ones, H) /\ IntOn(cents, H) /\ IntOn(lots, H)
  <2>1. \A lot \in H : ones[lot] \in Int /\ cents[lot] \in Int
    BY <1>1
  <2>2. \A lot \in H : Floors(exact)[lot] \in Int
    BY FloorsAddUp DEF IntOn
  <2>3. \A lot \in H : lots[lot] \in Int
    <3> HIDE DEF cents, lots
    <3> QED
      BY <1>3, <2>1, <2>2
  <2>4. IsFiniteSet(H) /\ DOMAIN lots = H /\ DOMAIN ones = H /\ DOMAIN cents = H
    <3> HIDE DEF lots
    <3> QED
      BY <1>3, HeldIsFinite
  <2> HIDE DEF lots, ones, cents
  <2> QED
    BY <2>1, <2>3, <2>4 DEF IntOn
<1>5. Sum(ones, H) = c
  <2>1. A \in SUBSET H /\ \A lot \in H : ones[lot] = IF lot \in A THEN 1 ELSE 0
    OBVIOUS
  <2> HIDE DEF A, ones, H
  <2> QED
    BY <1>2, <1>4, <2>1, SumOfOnes
<1>6. Sum(cents, H) = CENT * c
  <2>1. CENT \in Int /\ \A lot \in H : cents[lot] = CENT * ones[lot]
    BY <1>1
  <2> HIDE DEF cents, ones, H, c
  <2>2. PICK d \in Int : d = CENT
    BY <2>1
  <2>3. Sum(cents, H) = d * Sum(ones, H)
    BY <1>4, <2>1, <2>2, SumOfMultiples
  <2> QED
    BY <1>5, <2>2, <2>3
<1>7. Sum(lots, H) = Sum(Floors(exact), H) + Sum(cents, H)
  <2>1. \A lot \in H : lots[lot] = Floors(exact)[lot] + cents[lot]
    <3> HIDE DEF lots
    <3> QED
      BY <1>3
  <2>2. IntOn(Floors(exact), H)
    BY FloorsAddUp
  <2> HIDE DEF lots, cents, H
  <2> QED
    BY <1>4, <2>1, <2>2, SumOfBoth
<1>8. SumFunction(lots) = Sum(lots, H)
  <2>1. DOMAIN lots = H
    BY DEF allocate_cents
  <2> QED
    BY <2>1, SumIs
<1> HIDE DEF lots, c, H, cents
<1>9. CENT * c = target - Sum(Floors(exact), H) /\ Sum(Floors(exact), H) \in Int
  BY CentsLeftAreExact, FloorsAddUp DEF c, H
<1> QED
  BY <1>6, <1>7, <1>8, <1>9 DEF lots
(* The cents left over are no more than the lots with a remainder.         *)
LEMMA NoCentForNoRest ==
  ASSUME NEW exact, Amounts(exact), NEW target \in Int,
         target = round_cents(SumFunction(exact))
  PROVE  /\ CentsLeft(exact, target) <= Cardinality(WithRest(exact))
         /\ CentsLeft(exact, target) \in Int /\ Cardinality(WithRest(exact)) \in Nat
         /\ IsFiniteSet(WithRest(exact))
<1> DEFINE H == Held(exact)
           A == WithRest(exact)
           n == Cardinality(A)
           c == CentsLeft(exact, target)
           ones == [lot \in H |-> IF lot \in A THEN 1 ELSE 0]
           most == [lot \in H |-> (CENT - 1) * ones[lot]]
           E == SumFunction(exact)
           F == Sum(Floors(exact), H)
           r == Sum(Rests(exact), H)
<1>1. /\ IsFiniteSet(H) /\ A \in SUBSET H /\ IsFiniteSet(A) /\ n \in Nat
      /\ CENT \in Nat \ {0} /\ CENT - 1 \in Int
  BY HeldIsFinite, FS_Subset, FS_CardinalityType, CentAssumption DEF WithRest
<1>2. IntOn(ones, H) /\ IntOn(most, H)
  BY <1>1 DEF IntOn
<1>3. Sum(most, H) = (CENT - 1) * n
  <2>1. \A lot \in H : ones[lot] = (IF lot \in A THEN 1 ELSE 0) /\ most[lot] = (CENT - 1) * ones[lot]
    OBVIOUS
  <2> HIDE DEF A, ones, H, most
  <2>2. Sum(ones, H) = n
    BY <1>1, <1>2, <2>1, SumOfOnes
  <2>3. PICK d \in Int : d = CENT - 1
    BY <1>1
  <2>4. Sum(most, H) = d * Sum(ones, H)
    BY <1>2, <2>1, <2>3, SumOfMultiples
  <2> QED
    BY <2>2, <2>3, <2>4
<1>4. r <= Sum(most, H)
  <2>1. ASSUME NEW lot \in H PROVE Rests(exact)[lot] <= most[lot]
    <3>1. exact[lot] % CENT \in 0..(CENT - 1)
      BY HeldIsFinite
    <3>2. (CENT - 1) * 1 = CENT - 1 /\ (CENT - 1) * 0 = 0
      BY <1>1
    <3>3. lot \in A <=> exact[lot] % CENT > 0
      BY DEF WithRest
    <3>4. most[lot] = (IF lot \in A THEN CENT - 1 ELSE 0)
      BY <3>2
    <3> HIDE DEF most
    <3> QED
      BY <1>1, <3>1, <3>3, <3>4 DEF Rests
  <2>2. IntOn(Rests(exact), H)
    BY FloorsAddUp
  <2> HIDE DEF H, most
  <2> QED
    BY <1>2, <2>1, <2>2, SumIsMonotone
<1>5. E = F + r /\ F \in Int /\ r \in Int /\ E \in Int
  BY FloorsAddUp
<1>6. 2 * (target - E) <= CENT
  BY <1>1, <1>5, Rounding
<1>7. CENT * c = target - F /\ c \in Int
  <2>1. IsCents(target)
    BY <1>5, Rounding
  <2> QED
    BY <2>1, CentsLeftAreExact
<1>8. ASSUME n < c PROVE FALSE
  <2> HIDE DEF n, c, E, F, r, A, H, most
  <2>1. CENT * n + CENT <= CENT * c /\ CENT * n \in Int
    BY <1>1, <1>7, <1>8, ProductsAreApart
  <2>2. (CENT - 1) * n = CENT * n - n
    BY <1>1
  <2>3. PICK x \in Int, y \in Int : x = CENT * n /\ y = CENT * c
    BY <1>5, <1>7, <2>1
  <2>4. r <= x - n /\ x + CENT <= y /\ y = target - F
    BY <1>3, <1>4, <1>7, <2>1, <2>2, <2>3
  <2> QED
    BY <1>1, <1>5, <1>6, <2>3, <2>4
<1> HIDE DEF n, c
<1> QED
  BY <1>1, <1>7, <1>8 DEF n, c

(* Whoever gets a cent had a remainder, so that every lot gets its own     *)
(* share to within a cent.                                                 *)
LEMMA LotsGetTheirShare ==
  ASSUME NEW exact, Amounts(exact), NEW target \in Int,
         target = round_cents(SumFunction(exact)), NEW lot \in Held(exact)
  PROVE  allocate_cents(exact, target)[lot] - exact[lot] \in (-CENT + 1)..(CENT - 1)
<1> DEFINE c == CentsLeft(exact, target)
           front == Cardinality(InFront(exact, lot))
           rest == exact[lot] % CENT
<1>1. /\ exact[lot] \in Nat /\ rest \in 0..(CENT - 1) /\ lot \in Nat /\ CENT \in Nat \ {0}
  BY HeldIsFinite, CentAssumption
<1>2. allocate_cents(exact, target)[lot] = exact[lot] - rest + IF front < c THEN CENT ELSE 0
  BY DEF allocate_cents, InFront, Floor
<1>3. ASSUME rest = 0 PROVE ~ (front < c)
  <2>1. WithRest(exact) \in SUBSET InFront(exact, lot)
    BY <1>3, HeldIsFinite DEF WithRest, InFront, Before
  <2>2. IsFiniteSet(InFront(exact, lot))
    <3>1. InFront(exact, lot) \in SUBSET Held(exact)
      BY DEF InFront
    <3> QED
      BY <3>1, HeldIsFinite, FS_Subset
  <2>3. Cardinality(WithRest(exact)) <= front /\ front \in Nat
    BY <2>1, <2>2, FS_Subset, FS_CardinalityType
  <2>4. c <= Cardinality(WithRest(exact)) /\ c \in Int /\ Cardinality(WithRest(exact)) \in Nat
    BY NoCentForNoRest
  <2> HIDE DEF c, front
  <2> QED
    BY <2>3, <2>4
<1> HIDE DEF c, front, rest
<1>4. CASE front < c
  <2>1. rest # 0
    BY <1>3, <1>4
  <2> QED
    BY <1>1, <1>2, <1>4, <2>1
<1>5. CASE ~ (front < c)
  BY <1>1, <1>2, <1>5
<1> QED
  BY <1>4, <1>5
-----------------------------------------------------------------------------
(* One action and one side. *)

HoldingsOK(holdings) ==
  IsFiniteSet(holdings) /\ \A h \in holdings : h.lot_id \in Nat /\ h.quantity \in Nat
ActionOK(action) == action.ex_at \in 0..Forever /\ action.per_share \in Nat \cup {None}
PaymentsOK(payments) ==
  /\ IsFiniteSet(payments)
  /\ \A p \in payments : p.amount \in Nat \cup {None} /\ p.occurred_at \in 0..Forever
OpeningOK(w) ==
  /\ w.opening.receivable \in Int /\ w.opening.payable \in Int
  /\ w.opening.refund \in Int /\ w.opening.repayment \in Int
  /\ w.opening.target \in Int /\ w.opening.settled \in Int
Balances ==
  [cash : {0}, receivable : Nat, payable : Nat, borrow : Nat, refund : Nat, repayment : Nat]
ResultOK(r) ==
  /\ r.status \in {"known", "unknown", "raised"} /\ r.balances \in Balances
  /\ r.target \in Int /\ r.settled \in Int /\ r.cash_delta \in Int /\ r.economic_income \in Int

(* The parts of _distribution_for_side. *)
Exact(lots, action) == IF action.per_share = None THEN <<>> ELSE ExactByLot(lots, action)
Target(lots, action, w) ==
  IF Rated(action, w) THEN round_cents(SumFunction(Exact(lots, action))) ELSE 0
Taken(settlements, action, side, w) ==
  {s \in Matched(settlements, action, side) : contains(w, s.occurred_at)}
Revised(action, w) == w.opening.target # None /\ ~contains(w, action.ex_at)
Delta(lots, action, w) ==
  Target(lots, action, w) - IF Revised(action, w) THEN w.opening.target ELSE 0
Idle(lots, action, w) == lots = {} /\ ~Inherited(w) /\ ~Future(action, w)
KnownResult(holdings, action, side, settlements, w) ==
  LET lots == Entitled(holdings, action, side)
      payments == Taken(settlements, action, side, w)
      target == Target(lots, action, w)
      net == Net(payments)
  IN  Result("known", SumFunction([h \in lots |-> h.quantity]), target,
             w.opening.settled + net, Sign(side) * net,
             IF contains(w, action.ex_at) THEN Sign(side) * target ELSE 0,
             Owed(side, OpeningNet(side, w) + Delta(lots, action, w) - net),
             allocate_cents(Exact(lots, action), target), {p.payment_id : p \in payments})

LEMMA ResultFields ==
  ASSUME NEW st, NEW q, NEW t, NEW s, NEW c, NEW i, NEW b, NEW l, NEW p
  PROVE  LET r == Result(st, q, t, s, c, i, b, l, p)
         IN  /\ r.status = st /\ r.quantity = q /\ r.target = t /\ r.settled = s
             /\ r.cash_delta = c /\ r.economic_income = i /\ r.balances = b
             /\ r.lot_allocations = l /\ r.payments = p
  BY DEF Result

LEMMA DistributionCases ==
  ASSUME NEW holdings, NEW action, NEW side, NEW settlements, NEW w
  PROVE  LET r == _distribution_for_side(holdings, action, side, settlements, w)
             lots == Entitled(holdings, action, side)
             payments == Taken(settlements, action, side, w)
         IN  \/ Idle(lots, action, w) /\ r = NothingOwed
             \/ ~Idle(lots, action, w) /\ r \in {Unknown("unknown"), Unknown("raised")}
             \/ /\ ~Idle(lots, action, w) /\ ~Unusable(payments)
                /\ Rated(action, w) => action.per_share # None
                /\ Reconciles(Exact(lots, action), Target(lots, action, w))
                /\ r = KnownResult(holdings, action, side, settlements, w)
  BY Zenon DEF _distribution_for_side, KnownResult, Idle, Exact, Target, Taken, Delta, Revised

LEMMA ExactIsAmounts ==
  ASSUME NEW holdings, HoldingsOK(holdings), NEW action, ActionOK(action), NEW side
  PROVE  Amounts(Exact(Entitled(holdings, action, side), action))
<1> DEFINE lots == Entitled(holdings, action, side)
           ids == {h.lot_id : h \in lots}
<1>1. IsFiniteSet(lots) /\ \A h \in lots : h.lot_id \in Nat /\ h.quantity \in Nat
  <2>1. lots \in SUBSET holdings
    BY DEF Entitled
  <2> QED
    BY <2>1, FS_Subset DEF HoldingsOK
<1>2. IsFiniteSet(ids) /\ ids \in SUBSET Nat
  <2> HIDE DEF lots
  <2>1. [h \in lots |-> h.lot_id] \in Surjection(lots, ids)
    BY DEF Surjection
  <2>2. IsFiniteSet(ids)
    BY <1>1, <2>1, FS_Surjection
  <2> QED
    BY <1>1, <2>2
<1>3. CASE action.per_share = None
  <2>1. Exact(lots, action) = <<>> /\ DOMAIN <<>> = {}
    BY <1>3 DEF Exact
  <2> QED
    BY <2>1, FS_EmptySet DEF Amounts
<1>4. CASE action.per_share # None
  <2>1. action.per_share \in Nat
    BY <1>4 DEF ActionOK
  <2>2. Exact(lots, action) = [id \in ids |-> (CHOOSE h \in lots : h.lot_id = id).quantity
                                              * action.per_share]
    BY <1>4 DEF Exact, ExactByLot
  <2>3. ASSUME NEW id \in ids PROVE Exact(lots, action)[id] \in Nat
    <3>1. PICK q \in Nat : q = (CHOOSE h \in lots : h.lot_id = id).quantity
      <4> HIDE DEF lots
      <4> QED
        BY <1>1
    <3>2. Exact(lots, action)[id] = q * action.per_share
      BY <2>2, <3>1
    <3> QED
      BY <2>1, <3>2
  <2>4. DOMAIN Exact(lots, action) = ids
    BY <2>2
  <2>5. PICK e : e = Exact(lots, action)
    OBVIOUS
  <2> HIDE DEF lots, ids
  <2>6. Amounts(e)
    BY <1>2, <2>3, <2>4, <2>5 DEF Amounts
  <2> QED
    BY <2>5, <2>6 DEF lots
<1> QED
  BY <1>3, <1>4
LEMMA ZeroIsCents == IsCents(0) /\ round_cents(0) = 0
<1>1. CENT * 0 = 0
  BY CentAssumption
<1>2. IsCents(0)
  BY <1>1 DEF IsCents
<1> QED
  BY <1>2, RoundingOfCents

LEMMA TargetIsCents ==
  ASSUME NEW holdings, HoldingsOK(holdings), NEW action, ActionOK(action), NEW side, NEW w
  PROVE  LET lots == Entitled(holdings, action, side)
         IN  /\ Target(lots, action, w) \in Nat /\ IsCents(Target(lots, action, w))
             /\ SumFunction(Exact(lots, action)) \in Nat
<1>1. PICK exact : exact = Exact(Entitled(holdings, action, side), action) /\ Amounts(exact)
  BY ExactIsAmounts
<1>2. SumFunction(exact) \in Nat
  <2> DEFINE zeros == [x \in DOMAIN exact |-> 0]
  <2>1. IntOn(exact, DOMAIN exact) /\ IntOn(zeros, DOMAIN exact)
    BY <1>1 DEF IntOn, Amounts
  <2>2. \A x \in DOMAIN exact : zeros[x] = 0 * zeros[x] /\ zeros[x] <= exact[x]
    BY <1>1 DEF Amounts
  <2> HIDE DEF zeros
  <2>3. Sum(zeros, DOMAIN exact) = 0 * Sum(zeros, DOMAIN exact) /\ Sum(zeros, DOMAIN exact) \in Int
    BY <2>1, <2>2, SumOfMultiples, SumIsInt
  <2>4. Sum(zeros, DOMAIN exact) <= Sum(exact, DOMAIN exact) /\ Sum(exact, DOMAIN exact) \in Int
    BY <2>1, <2>2, SumIsMonotone, SumIsInt
  <2> QED
    BY <2>3, <2>4, SumIs
<1>3. round_cents(SumFunction(exact)) \in Nat /\ IsCents(round_cents(SumFunction(exact)))
  BY <1>2, Rounding
<1> QED
  BY <1>1, <1>2, <1>3, ZeroIsCents DEF Target

(* What a distribution allocates to lots is its target.                    *)
LEMMA DistributionAllocates ==
  ASSUME NEW holdings, HoldingsOK(holdings), NEW action, ActionOK(action), NEW side,
         NEW settlements, NEW w
  PROVE  LET r == _distribution_for_side(holdings, action, side, settlements, w)
             share == ExactByLot(Entitled(holdings, action, side), action)
         IN  r.lot_allocations # <<>> =>
               /\ SumFunction(r.lot_allocations) = r.target
               /\ \A lot \in DOMAIN r.lot_allocations : r.target > 0 =>
                    r.lot_allocations[lot] - share[lot] \in (-CENT + 1)..(CENT - 1)
<1> DEFINE r == _distribution_for_side(holdings, action, side, settlements, w)
           lots == Entitled(holdings, action, side)
           exact == Exact(lots, action)
           target == Target(lots, action, w)
<1> SUFFICES ASSUME r.lot_allocations # <<>>
             PROVE  /\ SumFunction(r.lot_allocations) = r.target
                    /\ \A lot \in DOMAIN r.lot_allocations : r.target > 0 =>
                         r.lot_allocations[lot] - ExactByLot(lots, action)[lot]
                           \in (-CENT + 1)..(CENT - 1)
  OBVIOUS
<1>1. r # NothingOwed /\ r # Unknown("unknown") /\ r # Unknown("raised")
  BY ResultFields DEF NothingOwed, Unknown
<1>2. /\ Rated(action, w) => action.per_share # None
      /\ Reconciles(exact, target) /\ r = KnownResult(holdings, action, side, settlements, w)
  <2> HIDE DEF r
  <2> QED
    BY <1>1, DistributionCases DEF r
<1>3. r.target = target /\ r.lot_allocations = allocate_cents(exact, target)
  BY <1>2, ResultFields DEF KnownResult
<1>4. Amounts(exact) /\ target \in Nat /\ IsCents(target) /\ SumFunction(exact) \in Nat
  BY ExactIsAmounts, TargetIsCents
<1>5. DOMAIN allocate_cents(exact, target) = Held(exact)
  BY DEF allocate_cents
<1>6. target > 0 => target = round_cents(SumFunction(exact)) /\ exact = ExactByLot(lots, action)
  BY <1>2 DEF Target, Exact
<1> HIDE DEF r, exact, target, lots
<1>7. SumFunction(allocate_cents(exact, target)) = target
  <2>1. CASE Held(exact) = {}
    <3>1. SumFunction(allocate_cents(exact, target)) = 0
      BY <1>5, <2>1, SumIs, SumOfNothing, FS_EmptySet
    <3>2. Sum(Floors(exact), {}) = 0 /\ Sum(Rests(exact), {}) = 0
      <4>1. DOMAIN Floors(exact) = {} /\ DOMAIN Rests(exact) = {}
        BY <2>1 DEF Floors, Rests
      <4> QED
        BY <4>1, SumOfNothing, FS_EmptySet
    <3>3. SumFunction(exact) = 0
      <4>1. PICK h : h = Held(exact)
        OBVIOUS
      <4>2. SumFunction(exact) = Sum(Floors(exact), h) + Sum(Rests(exact), h) /\ h = {}
        BY <1>4, <2>1, <4>1, FloorsAddUp
      <4> QED
        BY <3>2, <4>2
    <3>4. ~ (target > 0)
      BY <1>6, <3>3, ZeroIsCents
    <3> QED
      BY <1>4, <3>1, <3>4
  <2>2. CASE Held(exact) # {}
    BY <1>2, <1>4, <2>2, LotsGetTheTarget
  <2> QED
    BY <2>1, <2>2
<1>8. ASSUME NEW lot \in Held(exact), target > 0
      PROVE  allocate_cents(exact, target)[lot] - exact[lot] \in (-CENT + 1)..(CENT - 1)
  BY <1>4, <1>6, <1>8, LotsGetTheirShare
<1> QED
  BY <1>3, <1>5, <1>6, <1>7, <1>8

(* What was paid. *)
NetOf(payments) == [p \in payments |-> Signed(p)]

LEMMA NetIsInt ==
  ASSUME NEW payments, PaymentsOK(payments), ~Unusable(payments)
  PROVE  IntOn(NetOf(payments), payments) /\ Net(payments) \in Int
<1>1. \A p \in payments : NetOf(payments)[p] \in Int
  BY DEF PaymentsOK, Unusable, NetOf, Signed
<1>2. DOMAIN NetOf(payments) = payments /\ Net(payments) = SumFunction(NetOf(payments))
  BY DEF NetOf, Net
<1>3. IntOn(NetOf(payments), payments)
  BY <1>1, <1>2 DEF IntOn, PaymentsOK
<1> QED
  BY <1>2, <1>3, SumFunctionIsInt

LEMMA NetOfWindows ==
  ASSUME NEW early, NEW late, PaymentsOK(early \cup late), ~Unusable(early \cup late),
         early \cap late = {}
  PROVE  Net(early \cup late) = Net(early) + Net(late)
<1> DEFINE all == early \cup late
<1>1. PaymentsOK(early) /\ PaymentsOK(late)
  <2>1. early \in SUBSET all /\ late \in SUBSET all
    OBVIOUS
  <2> HIDE DEF all
  <2> QED
    BY <2>1, FS_Subset DEF PaymentsOK, all
<1>2. ~Unusable(early) /\ ~Unusable(late)
  BY DEF Unusable, Conflicting
<1>3. /\ IntOn(NetOf(all), all) /\ IntOn(NetOf(early), early) /\ IntOn(NetOf(late), late)
  BY <1>1, <1>2, NetIsInt
<1>4. /\ DOMAIN NetOf(all) = all /\ DOMAIN NetOf(early) = early /\ DOMAIN NetOf(late) = late
      /\ \A p \in early : NetOf(early)[p] = NetOf(all)[p]
      /\ \A p \in late : NetOf(late)[p] = NetOf(all)[p]
  BY DEF NetOf
<1>5. Net(early) = Sum(NetOf(all), early) /\ Net(late) = Sum(NetOf(all), late)
  <2>1. early \subseteq all /\ late \subseteq all
    OBVIOUS
  <2> HIDE DEF all
  <2>2. Net(early) = SumFunction(NetOf(early)) /\ Net(late) = SumFunction(NetOf(late))
    BY DEF Net, NetOf
  <2> QED
    BY <1>3, <1>4, <2>1, <2>2, SumOverPart
<1>6. Net(all) = Sum(NetOf(all), all)
  BY <1>4, SumIs DEF Net, NetOf
<1>7. Sum(NetOf(all), all) = Sum(NetOf(all), early) + Sum(NetOf(all), late)
  BY <1>3, SumOfUnion
<1> QED
  BY <1>5, <1>6, <1>7
(* The result of a distribution is one of amounts, and its balances are    *)
(* never negative.                                                         *)
LEMMA OwedIsBalances ==
  ASSUME NEW side, NEW x \in Int
  PROVE  /\ Owed(side, x) \in Balances /\ (Owed(side, x) = NoBalances <=> x = 0)
         /\ side = "LONG" =>
              /\ Owed(side, x).receivable - Owed(side, x).repayment = x
              /\ Owed(side, x).payable = 0 /\ Owed(side, x).refund = 0
         /\ side # "LONG" =>
              /\ Owed(side, x).payable - Owed(side, x).refund = x
              /\ Owed(side, x).receivable = 0 /\ Owed(side, x).repayment = 0
         /\ Owed(side, x).borrow = 0 /\ NoBalances \in Balances
<1>1. PICK p \in Nat, m \in Nat : p = positive(x) /\ m = positive(-x) /\ p - m = x /\ (p + m = 0 <=> x = 0)
  <2>1. positive(x) \in Nat /\ positive(-x) \in Nat /\ positive(x) - positive(-x) = x
        /\ (positive(x) + positive(-x) = 0 <=> x = 0)
    BY DEF positive, Larger
  <2> QED
    BY <2>1
<1>2. CASE side = "LONG"
  <2>1. Owed(side, x) = [cash |-> 0, receivable |-> p, payable |-> 0, borrow |-> 0, refund |-> 0,
                         repayment |-> m]
    BY <1>1, <1>2 DEF Owed, NoBalances
  <2> QED
    BY <1>1, <1>2, <2>1 DEF Balances, NoBalances
<1>3. CASE side # "LONG"
  <2>1. Owed(side, x) = [cash |-> 0, receivable |-> 0, payable |-> p, borrow |-> 0, refund |-> m,
                         repayment |-> 0]
    BY <1>1, <1>3 DEF Owed, NoBalances
  <2> QED
    BY <1>1, <1>3, <2>1 DEF Balances, NoBalances
<1> QED
  BY <1>2, <1>3

LEMMA DistributionIsOK ==
  ASSUME NEW holdings, HoldingsOK(holdings), NEW action, ActionOK(action), NEW side,
         NEW settlements, NEW w, OpeningOK(w), PaymentsOK(settlements)
  PROVE  ResultOK(_distribution_for_side(holdings, action, side, settlements, w))
<1> DEFINE r == _distribution_for_side(holdings, action, side, settlements, w)
           lots == Entitled(holdings, action, side)
           payments == Taken(settlements, action, side, w)
           target == Target(lots, action, w)
           net == Net(payments)
           owed == OpeningNet(side, w) + Delta(lots, action, w) - net
<1>1. \A st \in {"unknown", "raised"} : ResultOK(Unknown(st))
  BY ResultFields, OwedIsBalances, 0 \in Int DEF Unknown, ResultOK
<1>2. ResultOK(NothingOwed)
  BY ResultFields, OwedIsBalances, 0 \in Int DEF NothingOwed, ResultOK
<1>3. ASSUME ~Unusable(payments), r = KnownResult(holdings, action, side, settlements, w)
      PROVE  ResultOK(r)
  <2>1. net \in Int
    <3>1. payments \in SUBSET settlements
      BY DEF Taken, Matched
    <3>2. PaymentsOK(payments)
      BY <3>1, FS_Subset DEF PaymentsOK
    <3> QED
      BY <1>3, <3>2, NetIsInt
  <2>2. target \in Nat
    BY TargetIsCents
  <2>3. OpeningNet(side, w) \in Int /\ w.opening.target \in Int /\ w.opening.settled \in Int
    BY DEF OpeningOK, OpeningNet
  <2>4. Delta(lots, action, w) \in Int
    <3> HIDE DEF target, lots
    <3> QED
      BY <2>2, <2>3 DEF Delta, target
  <2>5. owed \in Int
    <3> HIDE DEF net, lots
    <3> QED
      BY <2>1, <2>3, <2>4
  <2>6. Sign(side) * net \in Int /\ Sign(side) * target \in Int
    <3> HIDE DEF net, target
    <3> QED
      BY <2>1, <2>2 DEF Sign
  <2>7. w.opening.settled + net \in Int
    <3> HIDE DEF net
    <3> QED
      BY <2>1, <2>3
  <2>8. /\ r.status = "known" /\ r.target = target /\ r.settled = w.opening.settled + net
        /\ r.cash_delta = Sign(side) * net /\ r.balances = Owed(side, owed)
        /\ r.economic_income = IF contains(w, action.ex_at) THEN Sign(side) * target ELSE 0
    BY <1>3, ResultFields DEF KnownResult
  <2>9. Owed(side, owed) \in Balances
    BY <2>5, OwedIsBalances
  <2> HIDE DEF r, net, target, owed
  <2> QED
    BY <2>2, <2>6, <2>7, <2>8, <2>9 DEF ResultOK
<1> HIDE DEF r
<1> QED
  BY <1>1, <1>2, <1>3, DistributionCases DEF r
=============================================================================
