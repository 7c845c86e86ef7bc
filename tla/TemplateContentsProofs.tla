----------------------- MODULE TemplateContentsProofs -----------------------
(***************************************************************************)
(* What a template pays and what its miners hash, for any transactions,    *)
(* shares, rewards and sizes; and "math says so": split_reward gives out   *)
(* the exact reward, for every list of shares and every reward.            *)
(***************************************************************************)
EXTENDS TemplateContents, FiniteSetTheorems, NaturalsInduction, WellFoundedInduction, TLAPS

\* Induction over numbers is done with the least number for which a claim fails
LEMMA LeastNumber ==
    ASSUME NEW T, T \subseteq Nat, T # {}
    PROVE  \E x \in T : \A y \in T : x <= y
  <1>1. \E R : IsWellFoundedOn(R, Nat) /\ \A x, y \in Nat : y < x => <<y, x>> \in R
    <2>1. IsWellFoundedOn(OpToRel(<, Nat), Nat)
      BY NatLessThanWellFounded
    <2>2. \A x, y \in Nat : y < x => <<y, x>> \in OpToRel(<, Nat)
      BY DEF OpToRel
    <2> QED
      BY <2>1, <2>2, Zenon
  <1>2. PICK R : IsWellFoundedOn(R, Nat) /\ \A x, y \in Nat : y < x => <<y, x>> \in R
    BY <1>1
  <1>3. PICK x \in T : \A y \in T : ~(<<y, x>> \in R)
    BY <1>2, WFMin
  <1>4. ASSUME NEW y \in T PROVE x <= y
    <2>1. x \in Nat /\ y \in Nat /\ ~(y < x)
      BY <1>2, <1>3
    <2> QED
      BY <2>1
  <1> QED
    BY <1>4

\* The element that a sum takes first
First(s) == CHOOSE x \in s : TRUE

\* g is a function that sums f over the subsets of S, as SumFunctionOnSet builds it
Sums(f, S, g) ==
    g = [s \in SUBSET S |-> IF s = {} THEN 0 ELSE f[First(s)] + g[s \ {First(s)}]]

LEMMA SumDef ==
    ASSUME NEW f, NEW S
    PROVE SumFunctionOnSet(f, S) = (CHOOSE g : Sums(f, S, g))[S]
  BY DEF SumFunctionOnSet, FoldFunctionOnSet, MapThenFoldSet, Sums, First

LEMMA FirstIn ==
    ASSUME NEW S, IsFiniteSet(S), S # {}
    PROVE  /\ First(S) \in S /\ IsFiniteSet(S \ {First(S)})
           /\ Cardinality(S) \in Nat /\ Cardinality(S \ {First(S)}) = Cardinality(S) - 1
  <1>1. First(S) \in S
    BY DEF First
  <1> QED
    BY <1>1, FS_RemoveElement, FS_CardinalityType

\* A finite set has such a function
LEMMA SumsExists ==
    ASSUME NEW f, NEW S, IsFiniteSet(S)
    PROVE  \E g : Sums(f, S, g)
  <1> DEFINE Body(g) == [s \in SUBSET S |-> IF s = {} THEN 0 ELSE f[First(s)] + g[s \ {First(s)}]]
             Upto(n) == \E g : \A s \in SUBSET S : Cardinality(s) <= n => g[s] = Body(g)[s]
             T == {n \in Nat : ~Upto(n)}
  <1>0. ASSUME NEW s \in SUBSET S PROVE IsFiniteSet(s) /\ Cardinality(s) \in Nat
    BY FS_Subset, FS_CardinalityType
  <1>1. Upto(0)
    <2> DEFINE z == [s \in SUBSET S |-> 0]
    <2>1. ASSUME NEW s \in SUBSET S, Cardinality(s) <= 0 PROVE z[s] = Body(z)[s]
      <3>1. s = {}
        BY <1>0, <2>1, FS_EmptySet
      <3> QED
        BY <3>1
    <2> HIDE DEF z, Body
    <2> QED
      BY <2>1
  <1>2. ASSUME NEW n \in Nat, Upto(n) PROVE Upto(n + 1)
    <2>1. PICK g : \A s \in SUBSET S : Cardinality(s) <= n => g[s] = Body(g)[s]
      BY <1>2
    <2> DEFINE h == Body(g)
    <2>2. ASSUME NEW s \in SUBSET S, Cardinality(s) <= n + 1 PROVE h[s] = Body(h)[s]
      <3>1. CASE s = {}
        BY <3>1
      <3>2. CASE s # {}
        <4> DEFINE r == s \ {First(s)}
        <4>1. r \in SUBSET S /\ Cardinality(r) <= n
          BY <1>0, <2>2, <3>2, FirstIn
        <4>2. g[r] = h[r]
          BY <2>1, <4>1
        <4>3. h[s] = f[First(s)] + g[r] /\ Body(h)[s] = f[First(s)] + h[r]
          BY <3>2
        <4> QED
          BY <4>2, <4>3
      <3> QED
        BY <3>1, <3>2
    <2> HIDE DEF h, Body
    <2> QED
      BY <2>2
  <1>3. T = {}
    <2> SUFFICES ASSUME T # {} PROVE FALSE
      OBVIOUS
    <2> HIDE DEF Upto
    <2>1. PICK n \in T : \A m \in T : n <= m
      BY LeastNumber
    <2>2. n \in Nat /\ n # 0 /\ ~Upto(n)
      BY <1>1
    <2>3. n - 1 \in Nat /\ n - 1 \notin T
      BY <2>1, <2>2
    <2>4. Upto(n - 1)
      BY <2>3
    <2> QED
      BY <1>2, <2>2, <2>3, <2>4
  <1>4. PICK g : \A s \in SUBSET S : Cardinality(s) <= Cardinality(S) => g[s] = Body(g)[s]
    <2>1. Upto(Cardinality(S))
      <3> HIDE DEF Upto
      <3> QED
        BY <1>0, <1>3
    <2> QED
      BY <2>1
  <1>5. ASSUME NEW s \in SUBSET S PROVE Cardinality(s) <= Cardinality(S)
    BY FS_Subset
  <1> DEFINE h == Body(g)
  <1>6. \A s \in SUBSET S : g[s] = h[s]
    BY <1>4, <1>5
  <1>7. h = Body(h)
    <2>1. ASSUME NEW s \in SUBSET S PROVE h[s] = Body(h)[s]
      <3>1. CASE s = {}
        BY <3>1
      <3>2. CASE s # {}
        <4>1. h[s] = f[First(s)] + g[s \ {First(s)}] /\ Body(h)[s] = f[First(s)] + h[s \ {First(s)}]
          BY <3>2
        <4> QED
          BY <1>6, <4>1
      <3> QED
        BY <3>1, <3>2
    <2> QED
      BY <2>1
  <1>8. Sums(f, S, h)
    BY <1>7 DEF Sums
  <1> QED
    BY <1>8

\* Two of them agree wherever both are defined
LEMMA SumsAgree ==
    ASSUME NEW f, NEW S, NEW R, NEW g, NEW h, Sums(f, S, g), Sums(f, R, h),
           NEW s, s \subseteq S, s \subseteq R, IsFiniteSet(s)
    PROVE  g[s] = h[s]
  <1> DEFINE Bad == {q \in SUBSET s : g[q] # h[q]}
             T == {Cardinality(q) : q \in Bad}
  <1>0. ASSUME NEW q \in SUBSET s PROVE IsFiniteSet(q) /\ Cardinality(q) \in Nat
    BY FS_Subset, FS_CardinalityType
  <1>1. SUFFICES ASSUME Bad # {} PROVE FALSE
    OBVIOUS
  <1>2. T \subseteq Nat /\ T # {}
    BY <1>0, <1>1
  <1>3. PICK n \in T : \A m \in T : n <= m
    BY <1>2, LeastNumber
  <1>4. PICK q \in Bad : n = Cardinality(q)
    BY <1>3
  <1>5. /\ g[q] = IF q = {} THEN 0 ELSE f[First(q)] + g[q \ {First(q)}]
        /\ h[q] = IF q = {} THEN 0 ELSE f[First(q)] + h[q \ {First(q)}]
    BY DEF Sums
  <1>6. q # {} /\ g[q \ {First(q)}] # h[q \ {First(q)}]
    BY <1>5
  <1>7. q \ {First(q)} \in Bad
    BY <1>6
  <1>8. Cardinality(q \ {First(q)}) = Cardinality(q) - 1 /\ Cardinality(q) \in Nat
    BY <1>0, <1>6, FirstIn
  <1> QED
    BY <1>3, <1>4, <1>7, <1>8

\* The sum of nothing, and the sum of a set by its first element
LEMMA SumStep ==
    ASSUME NEW f, NEW S, IsFiniteSet(S)
    PROVE  SumFunctionOnSet(f, S)
             = IF S = {} THEN 0 ELSE f[First(S)] + SumFunctionOnSet(f, S \ {First(S)})
  <1> DEFINE R == S \ {First(S)}
  <1>1. IsFiniteSet(R)
    BY FS_Subset
  <1>2. PICK g : Sums(f, S, g) /\ SumFunctionOnSet(f, S) = g[S]
    BY SumDef, SumsExists, Zenon
  <1>3. PICK h : Sums(f, R, h) /\ SumFunctionOnSet(f, R) = h[R]
    BY <1>1, SumDef, SumsExists, Zenon
  <1>4. g[R] = h[R]
    BY <1>1, <1>2, <1>3, SumsAgree
  <1>5. g[S] = IF S = {} THEN 0 ELSE f[First(S)] + g[R]
    BY <1>2 DEF Sums
  <1> QED
    BY <1>2, <1>3, <1>4, <1>5

LEMMA SumEmpty ==
    ASSUME NEW f
    PROVE  SumFunctionOnSet(f, {}) = 0
  BY SumStep, FS_EmptySet

\* What is true of the sums of smaller sets may be used for a sum: a set of sets without a
\* smallest one is empty
LEMMA SmallestSet ==
    ASSUME NEW Q, Q # {}, \A q \in Q : IsFiniteSet(q)
    PROVE  \E q \in Q : \A r \in Q : Cardinality(q) <= Cardinality(r)
  <1> DEFINE T == {Cardinality(q) : q \in Q}
  <1>1. T \subseteq Nat /\ T # {}
    BY FS_CardinalityType
  <1>2. PICK n \in T : \A m \in T : n <= m
    BY <1>1, LeastNumber
  <1> QED
    BY <1>2

\* A sum of integers is one, and one of natural numbers is a natural number
LEMMA SumType ==
    ASSUME NEW f, NEW S, IsFiniteSet(S), \A x \in S : f[x] \in Int
    PROVE  /\ SumFunctionOnSet(f, S) \in Int
           /\ (\A x \in S : f[x] >= 0) => SumFunctionOnSet(f, S) >= 0
  <1> DEFINE Good(q) == /\ SumFunctionOnSet(f, q) \in Int
                        /\ (\A x \in S : f[x] >= 0) => SumFunctionOnSet(f, q) >= 0
             Bad == {q \in SUBSET S : ~Good(q)}
  <1>0. ASSUME NEW q \in SUBSET S PROVE IsFiniteSet(q)
    BY FS_Subset
  <1>1. SUFFICES ASSUME Bad # {} PROVE FALSE
    <2>1. S \notin Bad => Good(S)
      OBVIOUS
    <2> QED
      BY <2>1
  <1>2. PICK q \in Bad : \A r \in Bad : Cardinality(q) <= Cardinality(r)
    BY <1>0, <1>1, SmallestSet
  <1>3. q # {}
    BY SumEmpty
  <1>4. /\ First(q) \in q /\ Cardinality(q) \in Nat
        /\ Cardinality(q \ {First(q)}) = Cardinality(q) - 1
    BY <1>0, <1>3, FirstIn
  <1>5. q \ {First(q)} \in SUBSET S /\ q \ {First(q)} \notin Bad
    BY <1>2, <1>4
  <1>6. Good(q \ {First(q)})
    BY <1>5
  <1>7. SumFunctionOnSet(f, q) = f[First(q)] + SumFunctionOnSet(f, q \ {First(q)})
    BY <1>0, <1>3, SumStep
  <1>8. f[First(q)] \in Int /\ ((\A x \in S : f[x] >= 0) => f[First(q)] >= 0)
    BY <1>4
  <1>9. Good(q)
    BY <1>6, <1>7, <1>8
  <1> QED
    BY <1>9

\* Any element may be taken first
LEMMA SumTake ==
    ASSUME NEW f, NEW S, IsFiniteSet(S), \A x \in S : f[x] \in Int, NEW x \in S
    PROVE  SumFunctionOnSet(f, S) = f[x] + SumFunctionOnSet(f, S \ {x})
  <1> DEFINE Good(q) ==
                 \A y \in q : SumFunctionOnSet(f, q) = f[y] + SumFunctionOnSet(f, q \ {y})
             Bad == {q \in SUBSET S : ~Good(q)}
  <1>0. ASSUME NEW q \in SUBSET S PROVE IsFiniteSet(q)
    BY FS_Subset
  <1>1. SUFFICES ASSUME Bad # {} PROVE FALSE
    <2>1. S \notin Bad => Good(S)
      OBVIOUS
    <2> QED
      BY <2>1
  <1>2. PICK q \in Bad : \A r \in Bad : Cardinality(q) <= Cardinality(r)
    BY <1>0, <1>1, SmallestSet
  <1>3. PICK y \in q : SumFunctionOnSet(f, q) # f[y] + SumFunctionOnSet(f, q \ {y})
    OBVIOUS
  <1> DEFINE p == First(q)
  <1>4. p \in q /\ SumFunctionOnSet(f, q) = f[p] + SumFunctionOnSet(f, q \ {p})
    BY <1>0, SumStep, FirstIn
  <1>5. p # y
    BY <1>3, <1>4
  <1>6. ASSUME NEW z \in q PROVE Good(q \ {z})
    <2>1. Cardinality(q \ {z}) = Cardinality(q) - 1 /\ Cardinality(q) \in Nat
      BY <1>0, FS_RemoveElement, FS_CardinalityType
    <2>2. q \ {z} \in SUBSET S /\ q \ {z} \notin Bad
      BY <1>2, <2>1
    <2> QED
      BY <2>2
  <1> HIDE DEF p, Bad
  <1>7. SumFunctionOnSet(f, q \ {p}) = f[y] + SumFunctionOnSet(f, (q \ {p}) \ {y})
    BY <1>4, <1>5, <1>6
  <1>8. SumFunctionOnSet(f, q \ {y}) = f[p] + SumFunctionOnSet(f, (q \ {y}) \ {p})
    BY <1>4, <1>5, <1>6
  <1>9. (q \ {p}) \ {y} = (q \ {y}) \ {p}
    OBVIOUS
  <1>10. f[p] \in Int /\ f[y] \in Int /\ SumFunctionOnSet(f, (q \ {p}) \ {y}) \in Int
    <2>1. q \subseteq S
      BY DEF Bad
    <2>2. IsFiniteSet((q \ {p}) \ {y}) /\ \A z \in (q \ {p}) \ {y} : f[z] \in Int
      BY <1>0, <2>1
    <2>3. SumFunctionOnSet(f, (q \ {p}) \ {y}) \in Int
      BY <2>2, SumType
    <2> QED
      BY <1>4, <2>1, <2>3
  <1>11. SumFunctionOnSet(f, (q \ {p}) \ {y}) = SumFunctionOnSet(f, (q \ {y}) \ {p})
    BY <1>9, Zenon
  <1> QED
    BY ONLY <1>3, <1>4, <1>7, <1>8, <1>10, <1>11

\* A sum depends only on the values of its set
LEMMA SumSame ==
    ASSUME NEW f, NEW g, NEW S, IsFiniteSet(S), \A x \in S : f[x] = g[x]
    PROVE  SumFunctionOnSet(f, S) = SumFunctionOnSet(g, S)
  <1> DEFINE Good(q) == SumFunctionOnSet(f, q) = SumFunctionOnSet(g, q)
             Bad == {q \in SUBSET S : ~Good(q)}
  <1>0. ASSUME NEW q \in SUBSET S PROVE IsFiniteSet(q)
    BY FS_Subset
  <1>1. SUFFICES ASSUME Bad # {} PROVE FALSE
    <2>1. S \notin Bad => Good(S)
      OBVIOUS
    <2> QED
      BY <2>1
  <1>2. PICK q \in Bad : \A r \in Bad : Cardinality(q) <= Cardinality(r)
    BY <1>0, <1>1, SmallestSet
  <1>3. q # {}
    BY SumEmpty
  <1>4. /\ First(q) \in q /\ Cardinality(q) \in Nat
        /\ Cardinality(q \ {First(q)}) = Cardinality(q) - 1
    BY <1>0, <1>3, FirstIn
  <1>5. q \ {First(q)} \in SUBSET S /\ q \ {First(q)} \notin Bad
    BY <1>2, <1>4
  <1>6. Good(q \ {First(q)}) /\ f[First(q)] = g[First(q)]
    BY <1>4, <1>5
  <1>7. /\ SumFunctionOnSet(f, q) = f[First(q)] + SumFunctionOnSet(f, q \ {First(q)})
        /\ SumFunctionOnSet(g, q) = g[First(q)] + SumFunctionOnSet(g, q \ {First(q)})
    BY <1>0, <1>3, SumStep
  <1>9. Good(q)
    BY <1>6, <1>7
  <1> QED
    BY <1>9

\* A new element
LEMMA SumAdd ==
    ASSUME NEW f, NEW S, IsFiniteSet(S), NEW x, x \notin S, \A y \in S \cup {x} : f[y] \in Int
    PROVE  SumFunctionOnSet(f, S \cup {x}) = SumFunctionOnSet(f, S) + f[x]
  <1>1. IsFiniteSet(S \cup {x}) /\ (S \cup {x}) \ {x} = S
    BY FS_AddElement
  <1>2. SumFunctionOnSet(f, S \cup {x}) = f[x] + SumFunctionOnSet(f, S)
    BY <1>1, SumTake
  <1>3. SumFunctionOnSet(f, S) \in Int /\ f[x] \in Int
    BY SumType
  <1> QED
    BY <1>2, <1>3

\* Two sets that have nothing in common
LEMMA SumUnion ==
    ASSUME NEW f, NEW S, NEW R, IsFiniteSet(S), IsFiniteSet(R), S \cap R = {},
           \A x \in S \cup R : f[x] \in Int
    PROVE  SumFunctionOnSet(f, S \cup R) = SumFunctionOnSet(f, S) + SumFunctionOnSet(f, R)
  <1> DEFINE Good(q) ==
               SumFunctionOnSet(f, S \cup q) = SumFunctionOnSet(f, S) + SumFunctionOnSet(f, q)
             Bad == {q \in SUBSET R : ~Good(q)}
  <1>0. ASSUME NEW q \in SUBSET R PROVE IsFiniteSet(q)
    BY FS_Subset
  <1>1. SUFFICES ASSUME Bad # {} PROVE FALSE
    <2>1. R \notin Bad => Good(R)
      OBVIOUS
    <2> QED
      BY <2>1
  <1>2. PICK q \in Bad : \A r \in Bad : Cardinality(q) <= Cardinality(r)
    BY <1>0, <1>1, SmallestSet
  <1>3. SumFunctionOnSet(f, S) \in Int
    BY SumType
  <1>4. q # {}
    <2>1. S \cup {} = S
      OBVIOUS
    <2>2. SumFunctionOnSet(f, S \cup {}) = SumFunctionOnSet(f, S)
      BY <2>1, Zenon
    <2>3. Good({})
      BY <1>3, <2>2, SumEmpty
    <2> QED
      BY <2>3
  <1> DEFINE p == First(q)
             r == q \ {p}
  <1>5. /\ p \in q /\ Cardinality(q) \in Nat /\ IsFiniteSet(r)
        /\ Cardinality(r) = Cardinality(q) - 1
    BY <1>0, <1>4, FirstIn
  <1>6. r \in SUBSET R /\ r \notin Bad
    BY <1>2, <1>5
  <1>7. Good(r)
    BY <1>6
  <1> HIDE DEF p
  <1>8. r \cup {p} = q /\ (S \cup r) \cup {p} = S \cup q /\ p \notin S \cup r /\ p \notin r
    BY <1>5
  <1>9. IsFiniteSet(S \cup r)
    BY <1>5, FS_Union
  <1>10. SumFunctionOnSet(f, S \cup q) = SumFunctionOnSet(f, S \cup r) + f[p]
    BY <1>5, <1>8, <1>9, SumAdd
  <1>11. SumFunctionOnSet(f, q) = SumFunctionOnSet(f, r) + f[p]
    BY <1>5, <1>8, SumAdd
  <1>12. f[p] \in Int /\ SumFunctionOnSet(f, r) \in Int
    BY <1>5, SumType
  <1>13. Good(q)
    BY ONLY <1>3, <1>7, <1>10, <1>11, <1>12
  <1> QED
    BY <1>13

\* The numbers of a list are finitely many
LEMMA IntervalFinite ==
    ASSUME NEW n \in Nat
    PROVE  IsFiniteSet(1 .. n) /\ IsFiniteSet(0 .. n)
  <1>1. 0 \in Int /\ 1 \in Int /\ n \in Int
    OBVIOUS
  <1> QED
    BY ONLY <1>1, FS_Interval


-----------------------------------------------------------------------------
(* Integer division                                                        *)

\* The quotient is the number of whole units that fit
LEMMA DivBounds ==
    ASSUME NEW a \in Nat, NEW t \in Nat \ {0}
    PROVE  /\ a \div t \in Nat
           /\ (a \div t) * t <= a
           /\ a < (a \div t) * t + t
  OBVIOUS

LEMMA DivUnique ==
    ASSUME NEW a \in Nat, NEW t \in Nat \ {0}, NEW q \in Nat, q * t <= a, a < q * t + t
    PROVE  a \div t = q
  OBVIOUS

LEMMA DivMonotone ==
    ASSUME NEW a \in Nat, NEW b \in Nat, NEW t \in Nat \ {0}, a <= b
    PROVE  a \div t <= b \div t
  OBVIOUS

LEMMA DivExact ==
    ASSUME NEW r \in Nat, NEW t \in Nat \ {0}
    PROVE  (t * r) \div t = r
  OBVIOUS

\* The step between two rounded multiples is less than a unit off
LEMMA RoundedStep ==
    ASSUME NEW t \in Nat \ {0}, NEW r \in Nat, NEW u \in Nat, NEW x \in Nat,
           NEW g \in Nat, NEW h \in Nat,
           g = (u * r) \div t, h = ((u + x) * r) \div t
    PROVE  (h - g) * t < x * r + t /\ x * r < (h - g) * t + t
  <1>1. g * t <= u * r /\ u * r < g * t + t
    BY DivBounds
  <1>2. h * t <= (u + x) * r /\ (u + x) * r < h * t + t
    BY DivBounds
  <1>3. (u + x) * r = u * r + x * r /\ (h - g) * t = h * t - g * t
    OBVIOUS
  <1>4. u * r \in Int /\ x * r \in Int /\ g * t \in Int /\ h * t \in Int
    OBVIOUS
  <1> QED
    BY <1>1, <1>2, <1>3, <1>4

-----------------------------------------------------------------------------
(* The inductive invariant: both running weights are the same prefix sums, *)
(* and what was given so far is the quotient of the prefix sum.            *)

\* weightOf holds the prefix sums of the first m weights
SumsRight(m) ==
    /\ weightOf[0] = 0
    /\ \A j \in 1 .. m : weightOf[j] = weightOf[j - 1] + shares[j]

\* givenAt holds the rounded shares of the first m prefixes, rewards their steps
SplitRight(m) ==
    /\ givenAt[0] = 0
    /\ \A j \in 1 .. m : /\ givenAt[j] = (weightOf[j] * reward) \div total
                         /\ rewards[j] = givenAt[j] - givenAt[j - 1]

Summing ==
    phase = "sum" =>
        /\ SumsRight(k) /\ total = weightOf[k]
        /\ w = 0 /\ given = 0 /\ paid = 0 /\ givenAt[0] = 0

Summed ==
    phase # "sum" =>
        /\ SumsRight(Len(shares)) /\ total = weightOf[Len(shares)]
        /\ phase # "false" => total # 0

Splitting ==
    phase = "split" =>
        SplitRight(k) /\ w = weightOf[k] /\ given = givenAt[k] /\ paid = 0

Checking ==
    phase \in {"check", "true"} => SplitRight(Len(shares)) /\ paid = givenAt[k]

SplitInv == SplitTypeOK /\ Summing /\ Summed /\ Splitting /\ Checking /\ RewardIsExact

\* What the double check adds up is the sum of the rewards, and it ends with all of them
CheckedSum ==
    /\ phase \in {"check", "true"} => paid = SumFunctionOnSet(rewards, 1 .. k)
    /\ phase = "true" => k = Len(shares) /\ paid = reward

LEMMA SplitInitInv == SplitInit => SplitInv
  BY
     DEF SplitInit, SplitInv, SplitTypeOK, Phases, Summing, Summed, Splitting, Checking,
         RewardIsExact,
         SumsRight, SplitRight

\* What the split computes next is not less than what was given, nor more than
\* the reward of the weights handled
LEMMA NextValueRight ==
    ASSUME SplitInv, phase = "split", k < Len(shares)
    PROVE  /\ w + shares[k + 1] = weightOf[k + 1]
           /\ NextValue = (weightOf[k + 1] * reward) \div total
           /\ NextValue \in Nat
           /\ given <= NextValue
  <1>1. /\ k \in Nat /\ k + 1 \in 1 .. Len(shares) /\ shares[k + 1] \in Nat
        /\ total \in Nat \ {0} /\ reward \in Nat /\ w \in Nat
        /\ w = weightOf[k] /\ given = givenAt[k]
    BY DEF SplitInv, SplitTypeOK, Summed, Splitting
  <1>2. w + shares[k + 1] = weightOf[k + 1]
    <2>1. weightOf[k + 1] = weightOf[k + 1 - 1] + shares[k + 1]
      BY <1>1 DEF SplitInv, Summed, SumsRight
    <2> QED
      BY <1>1, <2>1
  <1>3. NextValue = (weightOf[k + 1] * reward) \div total
    BY <1>2 DEF NextValue
  <1>4. given = (w * reward) \div total
    <2>1. CASE k = 0
      <3>1. given = 0 /\ w = 0
        BY <1>1, <2>1 DEF SplitInv, Splitting, SplitRight, Summed, SumsRight
      <3> QED
        BY <1>1, <3>1, DivExact
    <2>2. CASE k # 0
      BY <1>1, <2>2 DEF SplitInv, Splitting, SplitRight
    <2> QED
      BY <2>1, <2>2
  <1>5. (w * reward) \in Nat /\ (w + shares[k + 1]) * reward \in Nat
        /\ w * reward <= (w + shares[k + 1]) * reward
    BY <1>1
  <1> QED
    BY <1>1, <1>2, <1>3, <1>4, <1>5, DivMonotone, DivBounds DEF NextValue

LEMMA SplitStepInv ==
    ASSUME SplitInv, SplitStep \/ UNCHANGED splitVars
    PROVE  SplitInv'
  <1>1. ASSUME AddWeight PROVE SplitInv'
    <2>1. k + 1 \in 1 .. Len(shares) /\ shares[k + 1] \in Nat /\ k \in Nat
      BY <1>1 DEF AddWeight, SplitInv, SplitTypeOK
    <2>2. SplitTypeOK'
      BY <1>1, <2>1 DEF AddWeight, SplitInv, SplitTypeOK
    <2>3. Summing'
      <3>1. /\ SumsRight(k) /\ total = weightOf[k] /\ w = 0 /\ given = 0 /\ paid = 0
            /\ givenAt[0] = 0
        BY <1>1 DEF AddWeight, SplitInv, Summing
      <3>2. /\ \A j \in 0 .. k : weightOf'[j] = weightOf[j]
            /\ weightOf'[k + 1] = weightOf[k] + shares[k + 1]
            /\ total' = weightOf'[k + 1]
        BY <1>1, <2>1, <3>1 DEF AddWeight, SplitInv, SplitTypeOK
      <3>3. ASSUME NEW j \in 1 .. k + 1
            PROVE  weightOf'[j] = weightOf'[j - 1] + shares[j]
        <4>1. CASE j = k + 1
          BY <2>1, <3>2, <4>1
        <4>2. CASE j # k + 1
          BY <2>1, <3>1, <3>2, <4>2 DEF SumsRight
        <4> QED
          BY <4>1, <4>2
      <3> QED
        BY <1>1, <2>1, <3>1, <3>2, <3>3 DEF AddWeight, Summing, SumsRight
    <2> QED
      BY <1>1, <2>2, <2>3
         DEF AddWeight, SplitInv, Summed, Splitting, Checking, RewardIsExact
  <1>2. ASSUME CheckTotal PROVE SplitInv'
    BY <1>2 DEF CheckTotal, SplitInv, SplitTypeOK, Phases, Summing, Summed, Splitting, Checking,
       RewardIsExact, SumsRight, SplitRight
  <1>3. ASSUME GiveReward PROVE SplitInv'
    <2>0. phase = "split" /\ k < Len(shares) /\ k \in Nat /\ k + 1 \in 1 .. Len(shares)
      BY <1>3 DEF GiveReward, SplitInv, SplitTypeOK
    <2>1. /\ w' = weightOf[k + 1] /\ NextValue \in Nat /\ given <= NextValue
          /\ given' = NextValue /\ NextValue = (weightOf[k + 1] * reward) \div total
      BY <1>3, <2>0, NextValueRight DEF GiveReward
    <2>2. SplitTypeOK'
      <3>1. NextValue - given \in Nat
        BY <2>1 DEF SplitInv, SplitTypeOK
      <3>2. rewards' \in [1 .. Len(shares) -> Nat] /\ givenAt' \in [0 .. Len(shares) -> Nat]
        BY <1>3, <2>0, <2>1, <3>1 DEF GiveReward, SplitInv, SplitTypeOK
      <3>3. w' \in Nat /\ given' \in Nat
        <4>1. weightOf[k + 1] \in Nat
          BY <2>0 DEF SplitInv, SplitTypeOK
        <4> QED
          BY <2>1, <4>1
      <3> QED
        BY <1>3, <2>0, <3>2, <3>3 DEF GiveReward, SplitInv, SplitTypeOK
    <2>3. Splitting'
      <3>1. SplitRight(k) /\ given = givenAt[k] /\ paid = 0
        BY <2>0 DEF SplitInv, Splitting
      <3>2. /\ \A j \in 0 .. k : givenAt'[j] = givenAt[j]
            /\ \A j \in 1 .. k : rewards'[j] = rewards[j]
            /\ givenAt'[k + 1] = NextValue /\ rewards'[k + 1] = NextValue - givenAt[k]
        BY <1>3, <2>0, <3>1 DEF GiveReward, SplitInv, SplitTypeOK
      <3>3. ASSUME NEW j \in 1 .. k + 1
            PROVE  /\ givenAt'[j] = (weightOf[j] * reward) \div total
                   /\ rewards'[j] = givenAt'[j] - givenAt'[j - 1]
        <4>1. CASE j = k + 1
          BY <2>0, <2>1, <3>2, <4>1
        <4>2. CASE j # k + 1
          BY <2>0, <3>1, <3>2, <4>2 DEF SplitRight
        <4> QED
          BY <4>1, <4>2
      <3>4. givenAt'[0] = 0
        BY <2>0, <3>1, <3>2 DEF SplitRight
      <3> QED
        BY <1>3, <2>0, <2>1, <3>1, <3>2, <3>3, <3>4 DEF GiveReward, Splitting, SplitRight
    <2> QED
      BY <1>3, <2>0, <2>2, <2>3
         DEF GiveReward, SplitInv, Summing, Summed, SumsRight, Checking, RewardIsExact
  <1>4. ASSUME AllGiven PROVE SplitInv'
    BY <1>4 DEF AllGiven, SplitInv, SplitTypeOK, Phases, Summing, Summed, Splitting, Checking,
       RewardIsExact, SumsRight, SplitRight
  <1>5. ASSUME AddReward PROVE SplitInv'
    <2>1. /\ phase = "check" /\ k + 1 \in 1 .. Len(shares) /\ k \in Nat
          /\ rewards[k + 1] \in Nat
      BY <1>5 DEF AddReward, SplitInv, SplitTypeOK
    <2>2. rewards[k + 1] = givenAt[k + 1] - givenAt[k] /\ paid = givenAt[k]
      BY <2>1 DEF SplitInv, Checking, SplitRight
    <2>3. paid' = givenAt[k + 1]
      <3>1. givenAt[k] \in Nat /\ givenAt[k + 1] \in Nat
        BY <2>1 DEF SplitInv, SplitTypeOK
      <3>2. paid' = paid + rewards[k + 1]
        BY <1>5 DEF AddReward
      <3> QED
        BY <2>2, <3>1, <3>2
    <2>4. SplitTypeOK'
      BY <1>5, <2>1 DEF AddReward, SplitInv, SplitTypeOK
    <2> QED
      BY <1>5, <2>1, <2>3, <2>4
         DEF AddReward, SplitInv, Summing, Summed, SumsRight, Splitting, Checking, SplitRight,
             RewardIsExact
  <1>6. ASSUME CheckPaid PROVE SplitInv'
    <2>1. paid = reward
      <3>1. /\ k = Len(shares) /\ paid = givenAt[k] /\ Len(shares) \in Nat
            /\ total \in Nat \ {0} /\ total = weightOf[Len(shares)] /\ reward \in Nat
            /\ SplitRight(Len(shares)) /\ weightOf[0] = 0
        BY <1>6 DEF CheckPaid, SplitInv, SplitTypeOK, Checking, Summed, SumsRight
      <3>2. Len(shares) # 0
        BY <3>1
      <3>3. givenAt[Len(shares)] = (total * reward) \div total
        BY <3>1, <3>2 DEF SplitRight
      <3> QED
        BY <3>1, <3>3, DivExact
    <2> QED
      BY <1>6, <2>1
         DEF CheckPaid, SplitInv, SplitTypeOK, Phases, Summing, Summed, SumsRight, Splitting,
         Checking, SplitRight, RewardIsExact
  <1>7. CASE UNCHANGED splitVars
    BY <1>7
       DEF splitVars, SplitInv, SplitTypeOK, Summing, Summed, Splitting, Checking, RewardIsExact,
       SumsRight, SplitRight
  <1> QED
    BY <1>1, <1>2, <1>3, <1>4, <1>5, <1>6, <1>7 DEF SplitStep

LEMMA SplitCallInv ==
    ASSUME NEW weights \in Seq(Nat), NEW amount \in Nat, SplitCall(weights, amount)
    PROVE  SplitInv'
  <1>1. Len(weights) \in Nat
    OBVIOUS
  <1> QED
    BY <1>1 DEF SplitCall, SplitInv, SplitTypeOK, Phases, Summing, Summed, Splitting, Checking,
       RewardIsExact, SumsRight, SplitRight

LEMMA SplitInvHolds == SplitSpec => []SplitInv
  <1>1. ASSUME SplitInv, [SplitNext]_splitVars PROVE SplitInv'
    <2>1. CASE SplitStep \/ UNCHANGED splitVars
      BY <1>1, <2>1, SplitStepInv
    <2>2. CASE \E weights \in Seq(Nat), amount \in Nat : SplitCall(weights, amount)
      BY <2>2, SplitCallInv
    <2> QED
      BY <1>1, <2>1, <2>2 DEF SplitNext
  <1> QED
    BY <1>1, SplitInitInv, PTL DEF SplitSpec

\* For every list of weights and every reward, the double check of split_reward
\* succeeds: it fails only when the total weight is 0.
THEOREM ExactReward == SplitSpec => []RewardIsExact
  <1>1. SplitInv => RewardIsExact
    BY DEF SplitInv
  <1> QED
    BY <1>1, SplitInvHolds, PTL

\* Two neighbouring rounded prefixes differ by the exact proportion, a unit more or less
LEMMA RoundingFollows == SplitInv => RoundingIsFair
  <1>1. ASSUME SplitInv, phase = "true", NEW j \in 1 .. Len(shares)
        PROVE  /\ rewards[j] * total < shares[j] * reward + total
               /\ shares[j] * reward < rewards[j] * total + total
    <2>1. Len(shares) \in Nat /\ total \in Nat \ {0} /\ reward \in Nat
      BY <1>1 DEF SplitInv, SplitTypeOK, Summed
    <2>2. j \in Nat /\ j - 1 \in 0 .. Len(shares) /\ j \in 0 .. Len(shares)
      BY <2>1
    <2>3. shares[j] \in Nat
      BY <1>1 DEF SplitInv, SplitTypeOK
    <2>4. /\ weightOf[j - 1] \in Nat
          /\ givenAt[j] \in Nat /\ givenAt[j - 1] \in Nat
      BY <1>1, <2>2 DEF SplitInv, SplitTypeOK
    <2>5. /\ weightOf[j] = weightOf[j - 1] + shares[j]
          /\ rewards[j] = givenAt[j] - givenAt[j - 1]
          /\ givenAt[j] = (weightOf[j] * reward) \div total
      BY <1>1 DEF SplitInv, Summed, SumsRight, Checking, SplitRight
    <2>6. givenAt[j - 1] = (weightOf[j - 1] * reward) \div total
      <3>1. CASE j = 1
        <4>1. weightOf[j - 1] = 0 /\ givenAt[j - 1] = 0
          BY <1>1, <3>1 DEF SplitInv, Summed, SumsRight, Checking, SplitRight
        <4> QED
          BY <2>1, <4>1, DivExact
      <3>2. CASE j # 1
        <4>1. j - 1 \in 1 .. Len(shares)
          BY <2>1, <2>2, <3>2
        <4> QED
          BY <1>1, <4>1 DEF SplitInv, Checking, SplitRight
      <3> QED
        BY <3>1, <3>2
    <2> QED
      BY <2>1, <2>3, <2>4, <2>5, <2>6, RoundedStep
  <1> QED
    BY <1>1 DEF RoundingIsFair

\* The double check adds up all the rewards
LEMMA CheckedStep ==
    ASSUME SplitInv, CheckedSum, SplitStep \/ UNCHANGED splitVars
    PROVE  CheckedSum'
  <1>0. /\ k \in Nat /\ Len(shares) \in Nat /\ rewards \in [1 .. Len(shares) -> Nat]
        /\ k \in 0 .. Len(shares)
    BY DEF SplitInv, SplitTypeOK
  <1>1. ASSUME AddReward PROVE CheckedSum'
    <2>1. /\ paid' = paid + rewards[k + 1] /\ k' = k + 1 /\ rewards' = rewards
          /\ phase' = "check" /\ paid = SumFunctionOnSet(rewards, 1 .. k) /\ k < Len(shares)
      BY <1>1 DEF AddReward, CheckedSum
    <2>2. \A j \in 1 .. k + 1 : rewards[j] \in Int
      BY <1>0, <2>1
    <2>3. SumFunctionOnSet(rewards, (1 .. k) \cup {k + 1})
            = SumFunctionOnSet(rewards, 1 .. k) + rewards[k + 1]
      <3> DEFINE D == 1 .. k
      <3>1. IsFiniteSet(D)
        BY <1>0, IntervalFinite
      <3>2. k + 1 \notin D
        BY <1>0
      <3>3. \A y \in D \cup {k + 1} : rewards[y] \in Int
        BY <1>0, <2>2
      <3> HIDE DEF D
      <3>4. SumFunctionOnSet(rewards, D \cup {k + 1})
              = SumFunctionOnSet(rewards, D) + rewards[k + 1]
        BY <3>1, <3>2, <3>3, SumAdd
      <3> QED
        BY <3>4 DEF D
    <2>4. (1 .. k) \cup {k + 1} = 1 .. k + 1
      BY <1>0
    <2>5. paid' = SumFunctionOnSet(rewards, 1 .. k + 1)
      BY <2>1, <2>3, <2>4, Zenon
    <2>6. paid' = SumFunctionOnSet(rewards', 1 .. k')
      BY <2>1, <2>5, Zenon
    <2> QED
      BY <2>1, <2>6 DEF CheckedSum
  <1>2. ASSUME AllGiven PROVE CheckedSum'
    <2>1. phase' = "check" /\ k' = 0 /\ paid' = paid /\ rewards' = rewards /\ paid = 0
      BY <1>2 DEF AllGiven, SplitInv, Splitting
    <2>2. 1 .. k' = {}
      BY <2>1
    <2>3. SumFunctionOnSet(rewards', 1 .. k') = 0
      BY <2>2, SumEmpty, Zenon
    <2> QED
      BY <2>1, <2>3 DEF CheckedSum
  <1>3. ASSUME CheckPaid PROVE CheckedSum'
    <2>1. /\ k' = k /\ paid' = paid /\ rewards' = rewards /\ phase = "check"
          /\ k = Len(shares) /\ shares' = shares /\ reward' = reward
          /\ phase' \in {"true", "false"} /\ (phase' = "true" => paid = reward)
      BY <1>3 DEF CheckPaid
    <2>2. paid' = SumFunctionOnSet(rewards', 1 .. k')
      <3>1. paid = SumFunctionOnSet(rewards, 1 .. k)
        BY <2>1 DEF CheckedSum
      <3> QED
        BY <2>1, <3>1, Zenon
    <2> QED
      BY <2>1, <2>2 DEF CheckedSum
  <1>4. ASSUME AddWeight \/ CheckTotal \/ GiveReward PROVE CheckedSum'
    BY <1>4 DEF AddWeight, CheckTotal, GiveReward, CheckedSum
  <1>5. ASSUME UNCHANGED splitVars PROVE CheckedSum'
    <2>1. /\ k' = k /\ paid' = paid /\ rewards' = rewards /\ phase' = phase
          /\ shares' = shares /\ reward' = reward
      BY <1>5 DEF splitVars
    <2> QED
      BY <2>1, Zenon DEF CheckedSum
  <1> QED
    BY <1>1, <1>2, <1>3, <1>4, <1>5 DEF SplitStep

\* A successful call has paid the reward
LEMMA RewardPaid ==
    ASSUME SplitInv, CheckedSum, phase = "true"
    PROVE  SumFunction(rewards) = reward
  <1>1. paid = SumFunctionOnSet(rewards, 1 .. k) /\ k = Len(shares) /\ paid = reward
    BY DEF CheckedSum
  <1>2. DOMAIN rewards = 1 .. Len(shares)
    BY DEF SplitInv, SplitTypeOK
  <1> QED
    BY <1>1, <1>2, Zenon DEF SumFunction

\* No reward is a whole atomic unit away from its exact proportion, whatever the
\* weights are and wherever in the list the share is.
THEOREM FairRounding == SplitSpec => []RoundingIsFair
  BY RoundingFollows, SplitInvHolds, PTL

\* Shares that all have a weight have a total: a call with some of them succeeds
LEMMA SharesHaveWeight ==
    ASSUME SplitInv, shares \in Seq(Nat \ {0}), shares # <<>>
    PROVE  phase # "false"
  <1>1. SUFFICES ASSUME phase = "false" PROVE FALSE
    OBVIOUS
  <1>2. PICK n \in Nat \ {0} : n = Len(shares)
    OBVIOUS
  <1>3. shares[n] \in Nat \ {0}
    BY <1>2
  <1>4. n - 1 \in 0 .. Len(shares) /\ n \in 1 .. n
    BY <1>2
  <1>5. weightOf[n - 1] \in Nat
    BY <1>4 DEF SplitInv, SplitTypeOK
  <1>6. SumsRight(n) /\ weightOf[n] = 0
    BY <1>1, <1>2, Zenon DEF SplitInv, Summed, RewardIsExact
  <1>7. weightOf[n] = weightOf[n - 1] + shares[n]
    BY <1>4, <1>6, Zenon DEF SumsRight
  <1> QED
    BY <1>3, <1>5, <1>6, <1>7

-----------------------------------------------------------------------------
(* The Merkle tree.  A recursive function is what its definition says, as  *)
(* a function with its equation exists.                                    *)

\* f doubles 1 as often as its argument says
Doubles(n, f) == f = [i \in 0 .. n |-> IF i = 0 THEN 1 ELSE 2 * f[i - 1]]

LEMMA DoublesExists ==
    ASSUME NEW m \in Nat
    PROVE  \E f : Doubles(m, f)
  <1> DEFINE Has(n) == \E f : Doubles(n, f)
             T == {n \in Nat : ~Has(n)}
  <1>1. Has(0)
    <2> DEFINE f == [i \in 0 .. 0 |-> 1]
    <2>1. Doubles(0, f)
      BY DEF Doubles
    <2> HIDE DEF f
    <2> QED
      BY <2>1
  <1>2. ASSUME NEW n \in Nat, Has(n) PROVE Has(n + 1)
    <2>1. PICK f : Doubles(n, f)
      BY <1>2
    <2> DEFINE e == [i \in 0 .. n + 1 |-> IF i = 0 THEN 1 ELSE 2 * f[i - 1]]
    <2>2. \A i \in 0 .. n : f[i] = e[i]
      BY <2>1 DEF Doubles
    <2>3. ASSUME NEW i \in 0 .. n + 1, i # 0 PROVE e[i] = 2 * e[i - 1]
      <3>1. i - 1 \in 0 .. n
        BY <2>3
      <3>2. f[i - 1] = e[i - 1] /\ e[i] = 2 * f[i - 1]
        BY <2>2, <2>3, <3>1
      <3> QED
        BY <3>2, Zenon
    <2>4. e = [i \in 0 .. n + 1 |-> IF i = 0 THEN 1 ELSE 2 * e[i - 1]]
      <3>1. ASSUME NEW i \in 0 .. n + 1
            PROVE  e[i] = IF i = 0 THEN 1 ELSE 2 * e[i - 1]
        <4>1. i = 0 => e[i] = 1
          OBVIOUS
        <4> QED
          BY <2>3, <4>1, Zenon
      <3> QED
        BY <3>1, Zenon
    <2> HIDE DEF e
    <2> QED
      BY <2>4 DEF Doubles
  <1>3. T = {}
    <2> SUFFICES ASSUME T # {} PROVE FALSE
      OBVIOUS
    <2> HIDE DEF Has
    <2>1. PICK n \in T : \A j \in T : n <= j
      BY LeastNumber
    <2>2. n \in Nat /\ n # 0 /\ ~Has(n)
      BY <1>1
    <2>3. n - 1 \in Nat /\ n - 1 \notin T
      BY <2>1, <2>2
    <2>4. Has(n - 1)
      BY <2>3
    <2> QED
      BY <1>2, <2>2, <2>3, <2>4
  <1> QED
    BY <1>3

LEMMA DoublesAgree ==
    ASSUME NEW m \in Nat, NEW n \in Nat, NEW f, NEW e, Doubles(m, f), Doubles(n, e),
           NEW i \in Nat, i <= m, i <= n
    PROVE  f[i] = e[i]
  <1> DEFINE T == {j \in Nat : j <= m /\ j <= n /\ f[j] # e[j]}
  <1>1. SUFFICES ASSUME T # {} PROVE FALSE
    OBVIOUS
  <1>2. PICK j \in T : \A l \in T : j <= l
    BY <1>1, LeastNumber
  <1>3. j # 0
    BY <1>2 DEF Doubles
  <1>4. f[j] = 2 * f[j - 1] /\ e[j] = 2 * e[j - 1]
    BY <1>2, <1>3 DEF Doubles
  <1>5. j - 1 \in Nat /\ j - 1 <= m /\ j - 1 <= n /\ j - 1 \notin T
    BY <1>2, <1>3
  <1>6. f[j - 1] = e[j - 1]
    BY <1>5
  <1> QED
    BY <1>2, <1>4, <1>6

\* cnt <<= 1
LEMMA CntStep ==
    /\ Cnt(0) = 1
    /\ \A d \in Nat : Cnt(d + 1) = 2 * Cnt(d)
  <1> DEFINE Fun(d) == CHOOSE f : Doubles(d, f)
  <1>1. ASSUME NEW d \in Nat PROVE Cnt(d) = Fun(d)[d] /\ Doubles(d, Fun(d))
    <2>1. Cnt(d) = Fun(d)[d]
      BY DEF Cnt, Doubles
    <2> QED
      BY <2>1, DoublesExists
  <1>2. Cnt(0) = 1
    <2>1. Cnt(0) = Fun(0)[0] /\ Doubles(0, Fun(0))
      BY <1>1
    <2> HIDE DEF Fun
    <2>2. Fun(0)[0] = 1
      BY <2>1 DEF Doubles
    <2> QED
      BY <2>1, <2>2
  <1>3. ASSUME NEW d \in Nat PROVE Cnt(d + 1) = 2 * Cnt(d)
    <2>1. Doubles(d, Fun(d)) /\ Doubles(d + 1, Fun(d + 1))
      BY <1>1
    <2> HIDE DEF Fun
    <2>2. Fun(d + 1)[d] = Fun(d)[d]
      BY <2>1, DoublesAgree
    <2>3. Fun(d + 1)[d + 1] = 2 * Fun(d + 1)[d]
      BY <2>1 DEF Doubles
    <2> QED
      BY <1>1, <2>2, <2>3
  <1> QED
    BY <1>2, <1>3

LEMMA CntGrows ==
    ASSUME NEW d \in Nat
    PROVE  Cnt(d) \in Nat /\ Cnt(d) >= d + 1
  <1> DEFINE T == {j \in Nat : ~(Cnt(j) \in Nat /\ Cnt(j) >= j + 1)}
  <1>1. SUFFICES ASSUME T # {} PROVE FALSE
    OBVIOUS
  <1>2. PICK j \in T : \A l \in T : j <= l
    BY <1>1, LeastNumber
  <1>3. j # 0
    BY <1>2, CntStep
  <1>4. j - 1 \in Nat /\ j - 1 \notin T
    BY <1>2, <1>3
  <1>5. Cnt(j - 1) \in Nat /\ Cnt(j - 1) >= j
    BY <1>4
  <1>6. Cnt(j) = 2 * Cnt(j - 1)
    <2>1. Cnt((j - 1) + 1) = 2 * Cnt(j - 1)
      BY <1>4, CntStep
    <2>2. (j - 1) + 1 = j
      BY <1>2
    <2> QED
      BY <2>1, <2>2, Zenon
  <1> QED
    BY <1>2, <1>4, <1>5, <1>6

\* Every list has a first full level, and its first hash moves up alone: the case "i == 0"
\* of the loop over the pairs never happens
LEMMA DepthIs ==
    ASSUME NEW h, Len(h) \in Nat \ {0}
    PROVE  /\ Depth(h) \in Nat /\ Cnt(Depth(h)) \in Nat \ {0}
           /\ Cnt(Depth(h)) <= Len(h) /\ Len(h) < Cnt(Depth(h) + 1)
           /\ Cnt(Depth(h) + 1) = 2 * Cnt(Depth(h))
           /\ Alone(h) \in Nat \ {0}
  <1> DEFINE n == Len(h)
             T == {d \in Nat : n < Cnt(d + 1)}
             Good(d) == Cnt(d) <= n /\ n < Cnt(d + 1)
  <1>1. n \in T
    BY CntGrows
  <1>2. PICK d \in T : \A l \in T : d <= l
    BY <1>1, LeastNumber
  <1>3. Cnt(d) <= n
    <2>1. CASE d = 0
      BY <2>1, CntStep
    <2>2. CASE d # 0
      <3>1. d - 1 \in Nat /\ d - 1 \notin T
        BY <1>2, <2>2
      <3>2. ~(n < Cnt((d - 1) + 1))
        BY <3>1
      <3>3. (d - 1) + 1 = d
        BY <1>2
      <3>4. ~(n < Cnt(d))
        BY <3>2, <3>3, Zenon
      <3> QED
        BY <3>4, CntGrows
    <2> QED
      BY <2>1, <2>2
  <1>4. d \in 0 .. n /\ Good(d)
    BY <1>2, <1>3, CntGrows
  <1>5. Depth(h) = CHOOSE e \in 0 .. n : Good(e)
    BY DEF Depth
  <1> HIDE DEF Good, n
  <1>6. Depth(h) \in 0 .. n /\ Good(Depth(h))
    BY <1>4, <1>5
  <1>7. Depth(h) \in Nat
    BY <1>6
  <1>8. /\ Cnt(Depth(h)) \in Nat /\ Cnt(Depth(h)) >= Depth(h) + 1
        /\ Cnt(Depth(h) + 1) = 2 * Cnt(Depth(h))
    BY <1>7, CntStep, CntGrows
  <1>9. Cnt(Depth(h)) <= Len(h) /\ Len(h) < Cnt(Depth(h) + 1)
    BY <1>6 DEF Good, n
  <1>10. Alone(h) = Cnt(Depth(h) + 1) - Len(h)
    BY DEF Alone
  <1> QED
    BY <1>7, <1>8, <1>9, <1>10

\* Lists of one length have trees of one shape
LEMMA DepthOfLength ==
    ASSUME NEW h, NEW g, Len(h) = Len(g)
    PROVE  Depth(h) = Depth(g) /\ Alone(h) = Alone(g)
  <1>1. Depth(h) = Depth(g)
    BY DEF Depth
  <1> QED
    BY <1>1 DEF Alone

\* f has the levels above the first full level of h
Halves(h, n, f) == f = [i \in 0 .. n |-> IF i = 0 THEN FirstLevel(h) ELSE Halved(f[i - 1])]

LEMMA HalvesExists ==
    ASSUME NEW h, NEW m \in Nat
    PROVE  \E f : Halves(h, m, f)
  <1> DEFINE Has(n) == \E f : Halves(h, n, f)
             T == {n \in Nat : ~Has(n)}
  <1>1. Has(0)
    <2> DEFINE f == [i \in 0 .. 0 |-> FirstLevel(h)]
    <2>1. Halves(h, 0, f)
      BY DEF Halves
    <2> HIDE DEF f
    <2> QED
      BY <2>1
  <1>2. ASSUME NEW n \in Nat, Has(n) PROVE Has(n + 1)
    <2>1. PICK f : Halves(h, n, f)
      BY <1>2
    <2> DEFINE e == [i \in 0 .. n + 1 |-> IF i = 0 THEN FirstLevel(h) ELSE Halved(f[i - 1])]
    <2>2. \A i \in 0 .. n : f[i] = e[i]
      BY <2>1 DEF Halves
    <2>3. ASSUME NEW i \in 0 .. n + 1, i # 0 PROVE e[i] = Halved(e[i - 1])
      <3>1. i - 1 \in 0 .. n
        BY <2>3
      <3>2. f[i - 1] = e[i - 1] /\ e[i] = Halved(f[i - 1])
        BY <2>2, <2>3, <3>1
      <3> QED
        BY <3>2, Zenon
    <2>4. e = [i \in 0 .. n + 1 |-> IF i = 0 THEN FirstLevel(h) ELSE Halved(e[i - 1])]
      <3>1. ASSUME NEW i \in 0 .. n + 1
            PROVE  e[i] = IF i = 0 THEN FirstLevel(h) ELSE Halved(e[i - 1])
        <4>1. i = 0 => e[i] = FirstLevel(h)
          OBVIOUS
        <4> QED
          BY <2>3, <4>1, Zenon
      <3> QED
        BY <3>1, Zenon
    <2> HIDE DEF e
    <2> QED
      BY <2>4 DEF Halves
  <1>3. T = {}
    <2> SUFFICES ASSUME T # {} PROVE FALSE
      OBVIOUS
    <2> HIDE DEF Has
    <2>1. PICK n \in T : \A j \in T : n <= j
      BY LeastNumber
    <2>2. n \in Nat /\ n # 0 /\ ~Has(n)
      BY <1>1
    <2>3. n - 1 \in Nat /\ n - 1 \notin T
      BY <2>1, <2>2
    <2>4. Has(n - 1)
      BY <2>3
    <2> QED
      BY <1>2, <2>2, <2>3, <2>4
  <1> QED
    BY <1>3

LEMMA LengthOf ==
    ASSUME NEW n \in Nat, NEW f, f = [j \in 1 .. n |-> f[j]]
    PROVE  Len(f) = n
  <1>1. f \in Seq({f[j] : j \in 1 .. n})
    OBVIOUS
  <1>2. DOMAIN f = 1 .. n
    BY Zenon
  <1> QED
    BY <1>1, <1>2

\* Every level is half of the one before it
LEMMA LevelsAre ==
    ASSUME NEW h, Len(h) \in Nat \ {0}, NEW L, L = Levels(h)
    PROVE  /\ L[0] = FirstLevel(h)
           /\ \A i \in 1 .. Depth(h) : L[i] = Halved(L[i - 1])
  <1> DEFINE d == Depth(h)
  <1>1. L = CHOOSE f : Halves(h, d, f)
    BY DEF Levels, Halves
  <1>2. d \in Nat
    BY DepthIs
  <1> HIDE DEF d
  <1>3. Halves(h, d, L)
    BY <1>1, <1>2, HalvesExists
  <1> QED
    BY <1>2, <1>3 DEF Halves, d

LEMMA LevelSize ==
    ASSUME NEW h, Len(h) \in Nat \ {0}, NEW L, L = Levels(h), NEW i \in 0 .. Depth(h)
    PROVE  /\ L[i] = [j \in 1 .. Cnt(Depth(h) - i) |-> L[i][j]]
           /\ Len(L[i]) = Cnt(Depth(h) - i)
  <1> DEFINE d == Depth(h)
             Good(n) == L[n] = [j \in 1 .. Cnt(d - n) |-> L[n][j]]
             T == {n \in 0 .. d : ~Good(n)}
  <1>0. d \in Nat
    BY DepthIs
  <1>1. SUFFICES ASSUME T # {} PROVE FALSE
    <2>1. L[i] = [j \in 1 .. Cnt(d - i) |-> L[i][j]]
      BY <1>1
    <2>2. Cnt(d - i) \in Nat
      BY <1>0, CntGrows
    <2> QED
      BY <2>1, <2>2, LengthOf
  <1> HIDE DEF Good, d
  <1>2. PICK n \in T : \A m \in T : n <= m
    <2>1. T \subseteq Nat
      BY <1>0
    <2> HIDE DEF T
    <2> QED
      BY <1>1, <2>1, LeastNumber
  <1>3. Good(0)
    <2>1. d - 0 = d
      BY <1>0
    <2>2. L[0] = [j \in 1 .. Cnt(d) |-> L[0][j]]
      BY LevelsAre DEF FirstLevel, d
    <2> QED
      BY <2>1, <2>2, Zenon DEF Good
  <1>4. n \in 1 .. d /\ n - 1 \in 0 .. d /\ n - 1 \notin T
    BY <1>0, <1>2, <1>3
  <1>5. Good(n - 1)
    BY <1>4
  <1> DEFINE l == L[n - 1]
             c == Cnt(d - n)
  <1>6. d - (n - 1) = (d - n) + 1 /\ d - n \in Nat
    BY <1>0, <1>4
  <1>7. Cnt(d - (n - 1)) = 2 * c /\ c \in Nat
    BY <1>6, CntStep, CntGrows
  <1>8. l = [j \in 1 .. 2 * c |-> l[j]]
    BY <1>5, <1>7, Zenon DEF Good
  <1>9. L[n] = Halved(l)
    BY <1>4, LevelsAre DEF d
  <1> HIDE DEF l, c
  <1>10. Len(l) = 2 * c
    <2>1. 2 * c \in Nat
      BY <1>7
    <2> QED
      BY <1>8, <2>1, LengthOf
  <1>11. Len(l) \div 2 = c
    BY <1>7, <1>10
  <1>12. L[n] = [j \in 1 .. c |-> Hash(l[2 * j - 1], l[2 * j])]
    BY <1>9, <1>11, Zenon DEF Halved
  <1> QED
    BY <1>2, <1>12 DEF c, Good


\* The first entries are paired with their neighbours up to the root
LEMMA FirstEntries ==
    ASSUME NEW h, Len(h) \in Nat \ {0}, NEW L, L = Levels(h)
    PROVE  /\ L[0][1] = h[1]
           /\ \A i \in 1 .. Depth(h) : L[i][1] = Hash(L[i - 1][1], L[i - 1][2])
  <1>1. L[0][1] = h[1]
    <2>1. L[0] = FirstLevel(h)
      BY LevelsAre
    <2>2. 1 \in 1 .. Cnt(Depth(h)) /\ 1 <= Alone(h)
      BY DepthIs
    <2> QED
      BY <2>1, <2>2 DEF FirstLevel
  <1>2. ASSUME NEW i \in 1 .. Depth(h)
        PROVE  L[i][1] = Hash(L[i - 1][1], L[i - 1][2])
    <2> DEFINE l == L[i - 1]
               c == Cnt(Depth(h) - i)
    <2>1. /\ Depth(h) \in Nat /\ Depth(h) - i \in Nat /\ i - 1 \in 0 .. Depth(h)
          /\ Depth(h) - (i - 1) = (Depth(h) - i) + 1
      BY DepthIs
    <2>2. c \in Nat /\ c >= 1 /\ Cnt(Depth(h) - (i - 1)) = 2 * c
      <3>1. c \in Nat /\ c >= Depth(h) - i + 1
        BY <2>1, CntGrows
      <3>2. Cnt((Depth(h) - i) + 1) = 2 * c
        BY <2>1, CntStep
      <3>3. c >= 1
        BY <2>1, <3>1
      <3> QED
        BY <2>1, <3>1, <3>2, <3>3, Zenon
    <2>3. Len(l) = 2 * c
      BY <2>1, <2>2, LevelSize
    <2>4. L[i] = Halved(l)
      BY LevelsAre
    <2> HIDE DEF l, c
    <2>5. 1 \in 1 .. Len(l) \div 2
      BY <2>2, <2>3
    <2>6. Halved(l)[1] = Hash(l[2 * 1 - 1], l[2 * 1])
      BY <2>5 DEF Halved
    <2>7. 2 * 1 - 1 = 1 /\ 2 * 1 = 2
      OBVIOUS
    <2> QED
      BY <2>4, <2>6, <2>7, Zenon DEF l
  <1> QED
    BY <1>1, <1>2

\* Only the first entry of a level depends on the first hash
LEMMA OthersAgree ==
    ASSUME NEW h, NEW g, Len(h) \in Nat \ {0}, Len(g) = Len(h),
           \A j \in 2 .. Len(h) : h[j] = g[j],
           NEW L, L = Levels(h), NEW M, M = Levels(g), NEW i \in 0 .. Depth(h)
    PROVE  \A j \in 2 .. Cnt(Depth(h) - i) : L[i][j] = M[i][j]
  <1> DEFINE d == Depth(h)
             Good(n) == \A j \in 2 .. Cnt(d - n) : L[n][j] = M[n][j]
             T == {n \in 0 .. d : ~Good(n)}
  <1>0. d \in Nat /\ Depth(g) = d /\ Alone(g) = Alone(h)
    BY DepthIs, DepthOfLength
  <1>1. SUFFICES ASSUME T # {} PROVE FALSE
    BY <1>1
  <1>2. Good(0)
    <2>1. d - 0 = d
      BY <1>0
    <2>2. ASSUME NEW j \in 2 .. Cnt(d) PROVE L[0][j] = M[0][j]
      <3> DEFINE a == Alone(h)
      <3>1. /\ a \in Nat \ {0} /\ Cnt(d) \in Nat \ {0} /\ a = Cnt(d + 1) - Len(h)
            /\ Cnt(d + 1) = 2 * Cnt(d)
        BY DepthIs DEF Alone
      <3>2. L[0] = FirstLevel(h) /\ M[0] = FirstLevel(g)
        BY LevelsAre
      <3>3. j \in 1 .. Cnt(d)
        BY <3>1
      <3>4. /\ L[0][j] = IF j <= a THEN h[j] ELSE Hash(h[2 * j - a - 1], h[2 * j - a])
            /\ M[0][j] = IF j <= a THEN g[j] ELSE Hash(g[2 * j - a - 1], g[2 * j - a])
        BY <1>0, <3>2, <3>3 DEF FirstLevel
      <3> HIDE DEF a, d
      <3>5. CASE j <= a
        <4>1. Cnt(d) <= Len(h)
          BY DepthIs DEF d
        <4>2. j \in 2 .. Len(h)
          BY <3>1, <4>1
        <4> QED
          BY <3>4, <3>5, <4>2
      <3>6. CASE ~(j <= a)
        <4>1. 2 * j - a - 1 \in 2 .. Len(h) /\ 2 * j - a \in 2 .. Len(h)
          BY <3>1, <3>6
        <4>2. h[2 * j - a - 1] = g[2 * j - a - 1] /\ h[2 * j - a] = g[2 * j - a]
          BY <4>1
        <4> QED
          BY <3>4, <3>6, <4>2
      <3> QED
        BY <3>5, <3>6
    <2> QED
      BY <2>1, <2>2
  <1> HIDE DEF Good
  <1>3. PICK n \in T : \A m \in T : n <= m
    <2>1. T \subseteq Nat
      BY <1>0
    <2> HIDE DEF T
    <2> QED
      BY <1>1, <2>1, LeastNumber
  <1>4. n \in 1 .. d /\ n - 1 \in 0 .. d /\ n - 1 \notin T
    BY <1>0, <1>2, <1>3
  <1>5. Good(n - 1)
    BY <1>4
  <1> DEFINE l == L[n - 1]
             m == M[n - 1]
             c == Cnt(d - n)
  <1>6. d - (n - 1) = (d - n) + 1 /\ d - n \in Nat
    BY <1>0, <1>4
  <1>7. Cnt(d - (n - 1)) = 2 * c /\ c \in Nat
    BY <1>6, CntStep, CntGrows
  <1>8. Len(l) = 2 * c /\ Len(m) = 2 * c
    <2>1. Len(l) = Cnt(Depth(h) - (n - 1))
      BY <1>4, LevelSize
    <2>2. Len(m) = Cnt(Depth(g) - (n - 1))
      <3>1. Len(g) \in Nat \ {0} /\ n - 1 \in 0 .. Depth(g)
        BY <1>0, <1>4
      <3> QED
        BY <3>1, LevelSize
    <2> QED
      BY <1>0, <1>7, <2>1, <2>2, Zenon
  <1>9. L[n] = Halved(l) /\ M[n] = Halved(m)
    BY <1>0, <1>4, LevelsAre
  <1>10. \A j \in 2 .. 2 * c : l[j] = m[j]
    BY <1>5, <1>7 DEF Good
  <1> HIDE DEF l, m, c
  <1>11. ASSUME NEW j \in 2 .. c PROVE L[n][j] = M[n][j]
    <2>1. Len(l) \div 2 = c /\ Len(m) \div 2 = c
      BY <1>7, <1>8
    <2>2. j \in 1 .. c
      BY <1>7
    <2>3. /\ Halved(l)[j] = Hash(l[2 * j - 1], l[2 * j])
          /\ Halved(m)[j] = Hash(m[2 * j - 1], m[2 * j])
      BY <2>1, <2>2 DEF Halved
    <2>4. 2 * j - 1 \in 2 .. 2 * c /\ 2 * j \in 2 .. 2 * c
      BY <1>7
    <2>5. l[2 * j - 1] = m[2 * j - 1] /\ l[2 * j] = m[2 * j]
      BY <1>10, <2>4
    <2> QED
      BY <1>9, <2>3, <2>5, Zenon
  <1> QED
    BY <1>3, <1>11 DEF Good, c

\* f leads up the branch br from the hash first
Climbs(first, br, n, f) == f = [i \in 0 .. n |-> IF i = 0 THEN first ELSE Hash(f[i - 1], br[i])]

LEMMA ClimbsExists ==
    ASSUME NEW first, NEW br, NEW m \in Nat
    PROVE  \E f : Climbs(first, br, m, f)
  <1> DEFINE Has(n) == \E f : Climbs(first, br, n, f)
             T == {n \in Nat : ~Has(n)}
  <1>1. Has(0)
    <2> DEFINE f == [i \in 0 .. 0 |-> first]
    <2>1. Climbs(first, br, 0, f)
      BY DEF Climbs
    <2> HIDE DEF f
    <2> QED
      BY <2>1
  <1>2. ASSUME NEW n \in Nat, Has(n) PROVE Has(n + 1)
    <2>1. PICK f : Climbs(first, br, n, f)
      BY <1>2
    <2> DEFINE e == [i \in 0 .. n + 1 |-> IF i = 0 THEN first ELSE Hash(f[i - 1], br[i])]
    <2>2. \A i \in 0 .. n : f[i] = e[i]
      BY <2>1 DEF Climbs
    <2>3. ASSUME NEW i \in 0 .. n + 1, i # 0 PROVE e[i] = Hash(e[i - 1], br[i])
      <3>1. i - 1 \in 0 .. n
        BY <2>3
      <3>2. f[i - 1] = e[i - 1] /\ e[i] = Hash(f[i - 1], br[i])
        BY <2>2, <2>3, <3>1
      <3> QED
        BY <3>2, Zenon
    <2>4. e = [i \in 0 .. n + 1 |-> IF i = 0 THEN first ELSE Hash(e[i - 1], br[i])]
      <3>1. ASSUME NEW i \in 0 .. n + 1
            PROVE  e[i] = IF i = 0 THEN first ELSE Hash(e[i - 1], br[i])
        <4>1. i = 0 => e[i] = first
          OBVIOUS
        <4> QED
          BY <2>3, <4>1, Zenon
      <3> QED
        BY <3>1, Zenon
    <2> HIDE DEF e
    <2> QED
      BY <2>4 DEF Climbs
  <1>3. T = {}
    <2> SUFFICES ASSUME T # {} PROVE FALSE
      OBVIOUS
    <2> HIDE DEF Has
    <2>1. PICK n \in T : \A j \in T : n <= j
      BY LeastNumber
    <2>2. n \in Nat /\ n # 0 /\ ~Has(n)
      BY <1>1
    <2>3. n - 1 \in Nat /\ n - 1 \notin T
      BY <2>1, <2>2
    <2>4. Has(n - 1)
      BY <2>3
    <2> QED
      BY <1>2, <2>2, <2>3, <2>4
  <1> QED
    BY <1>3

\* The branch of one list leads to the root of every list that differs from it only in
\* the first hash
LEMMA BranchToRoot ==
    ASSUME NEW h, NEW g, Len(h) \in Nat \ {0}, Len(g) = Len(h),
           \A j \in 2 .. Len(h) : h[j] = g[j]
    PROVE  RootFromBranch(g[1], MainBranch(h)) = Root(g)
  <1> DEFINE d == Depth(h)
             L == Levels(h)
             M == Levels(g)
             br == MainBranch(h)
  <1>1. d \in Nat /\ Depth(g) = d
    BY DepthIs, DepthOfLength
  <1>2. br = [i \in 1 .. d |-> L[i - 1][2]]
    BY DEF MainBranch
  <1>3. /\ M[0][1] = g[1]
        /\ \A i \in 1 .. d : M[i][1] = Hash(M[i - 1][1], M[i - 1][2])
    BY <1>1, FirstEntries
  <1>4. ASSUME NEW i \in 1 .. d PROVE L[i - 1][2] = M[i - 1][2]
    <2>1. i - 1 \in 0 .. d /\ d - (i - 1) \in Nat /\ d - (i - 1) >= 1
      BY <1>1
    <2>2. 2 \in 2 .. Cnt(d - (i - 1))
      <3>1. Cnt(d - (i - 1)) \in Nat /\ Cnt(d - (i - 1)) >= d - (i - 1) + 1
        BY <2>1, CntGrows
      <3> QED
        BY <2>1, <3>1
    <2>3. \A j \in 2 .. Cnt(d - (i - 1)) : L[i - 1][j] = M[i - 1][j]
      BY <2>1, OthersAgree
    <2> QED
      BY <2>2, <2>3
  <1> HIDE DEF d, L, M, br
  <1>5. \A i \in 1 .. d : br[i] = M[i - 1][2]
    BY <1>2, <1>4
  <1>6. Len(br) = d
    <2>1. br = [i \in 1 .. d |-> br[i]]
      BY <1>2
    <2> QED
      BY <1>1, <2>1, LengthOf
  <1>7. RootFromBranch(g[1], br) = (CHOOSE f : Climbs(g[1], br, d, f))[d]
    <2>1. RootFromBranch(g[1], br) = (CHOOSE f : Climbs(g[1], br, Len(br), f))[Len(br)]
      BY DEF RootFromBranch, Climbs
    <2> QED
      BY <1>6, <2>1, Zenon
  <1>8. PICK f : Climbs(g[1], br, d, f) /\ RootFromBranch(g[1], br) = f[d]
    <2>1. \E f : Climbs(g[1], br, d, f)
      BY <1>1, ClimbsExists
    <2> QED
      BY <1>7, <2>1, Zenon
  <1>9. f[0] = g[1] /\ \A i \in 1 .. d : f[i] = Hash(f[i - 1], br[i])
    BY <1>1, <1>8 DEF Climbs
  <1> DEFINE T == {i \in 0 .. d : f[i] # M[i][1]}
  <1>10. T = {}
    <2> SUFFICES ASSUME T # {} PROVE FALSE
      OBVIOUS
    <2>1. PICK n \in T : \A m \in T : n <= m
      <3>1. T \subseteq Nat
        BY <1>1
      <3> HIDE DEF T
      <3> QED
        BY <3>1, LeastNumber
    <2>2. n \in 1 .. d /\ n - 1 \in 0 .. d /\ n - 1 \notin T
      BY <1>1, <1>3, <1>9, <2>1
    <2>3. f[n - 1] = M[n - 1][1]
      BY <2>2
    <2>4. f[n] = Hash(f[n - 1], br[n]) /\ M[n][1] = Hash(M[n - 1][1], M[n - 1][2])
      BY <1>3, <1>9, <2>2
    <2>5. br[n] = M[n - 1][2]
      BY <1>5, <2>2
    <2>6. f[n] = M[n][1]
      BY <2>3, <2>4, <2>5, Zenon
    <2> QED
      BY <2>1, <2>6
  <1>11. f[d] = M[d][1]
    BY <1>1, <1>10
  <1>12. Root(g) = M[d][1]
    BY <1>1 DEF Root, M
  <1> QED
    BY <1>8, <1>11, <1>12 DEF br

-----------------------------------------------------------------------------
(* Sizes, rewards and lists of transactions                                *)

LEMMA DivLess ==
    ASSUME NEW n \in Nat \ {0}, NEW b \in Nat \ {0, 1}
    PROVE  n \div b \in 0 .. n - 1
  <1> DEFINE q == n \div b
  <1>1. q \in Nat /\ q * b <= n
    BY DivBounds
  <1> HIDE DEF q
  <1>2. q * b = q * 2 + q * (b - 2) /\ q * (b - 2) \in Nat
    BY <1>1
  <1>3. q * 2 <= n
    BY <1>1, <1>2
  <1> QED
    BY <1>1, <1>3 DEF q

\* f has the numbers of bytes that writeVarint makes of the values up to v
Bytes(v, f) == f = [n \in 0 .. v |-> IF n < VarintBase THEN 1 ELSE 1 + f[n \div VarintBase]]

LEMMA BytesExist ==
    ASSUME NEW v \in Nat
    PROVE  \E f : Bytes(v, f)
  <1> DEFINE Has(n) == \E f : Bytes(n, f)
             T == {n \in Nat : ~Has(n)}
  <1>0. VarintBase \in Nat \ {0, 1}
    BY TemplateContentsAssumption
  <1>1. Has(0)
    <2> DEFINE f == [n \in 0 .. 0 |-> 1]
    <2>1. Bytes(0, f)
      BY <1>0 DEF Bytes
    <2> HIDE DEF f
    <2> QED
      BY <2>1
  <1>2. ASSUME NEW n \in Nat, Has(n) PROVE Has(n + 1)
    <2>1. PICK f : Bytes(n, f)
      BY <1>2
    <2> DEFINE e == [i \in 0 .. n + 1 |-> IF i < VarintBase THEN 1 ELSE 1 + f[i \div VarintBase]]
    <2>2. \A i \in 0 .. n : f[i] = e[i]
      BY <2>1 DEF Bytes
    <2>3. ASSUME NEW i \in 0 .. n + 1, ~(i < VarintBase) PROVE e[i] = 1 + e[i \div VarintBase]
      <3>1. i \div VarintBase \in 0 .. n
        <4>1. i \in Nat \ {0}
          BY <1>0, <2>3
        <4>2. i \div VarintBase \in 0 .. i - 1
          BY <1>0, <4>1, DivLess
        <4> QED
          BY <4>2
      <3>2. f[i \div VarintBase] = e[i \div VarintBase] /\ e[i] = 1 + f[i \div VarintBase]
        BY <2>2, <2>3, <3>1
      <3> QED
        BY <3>2, Zenon
    <2>4. e = [i \in 0 .. n + 1 |-> IF i < VarintBase THEN 1 ELSE 1 + e[i \div VarintBase]]
      <3>1. ASSUME NEW i \in 0 .. n + 1
            PROVE  e[i] = IF i < VarintBase THEN 1 ELSE 1 + e[i \div VarintBase]
        <4>1. i < VarintBase => e[i] = 1
          OBVIOUS
        <4> QED
          BY <2>3, <4>1, Zenon
      <3> QED
        BY <3>1, Zenon
    <2> HIDE DEF e
    <2> QED
      BY <2>4 DEF Bytes
  <1>3. T = {}
    <2> SUFFICES ASSUME T # {} PROVE FALSE
      OBVIOUS
    <2> HIDE DEF Has
    <2>1. PICK n \in T : \A j \in T : n <= j
      BY LeastNumber
    <2>2. n \in Nat /\ n # 0 /\ ~Has(n)
      BY <1>1
    <2>3. n - 1 \in Nat /\ n - 1 \notin T
      BY <2>1, <2>2
    <2>4. Has(n - 1)
      BY <2>3
    <2> QED
      BY <1>2, <2>2, <2>3, <2>4
  <1> QED
    BY <1>3

LEMMA VarintType ==
    ASSUME NEW v \in Nat
    PROVE  VarintSize(v) \in Nat
  <1>1. VarintSize(v) = (CHOOSE f : Bytes(v, f))[v]
    BY DEF VarintSize, Bytes
  <1>2. PICK f : Bytes(v, f) /\ VarintSize(v) = f[v]
    <2>1. \E f : Bytes(v, f)
      BY BytesExist
    <2> QED
      BY <1>1, <2>1, Zenon
  <1>0. VarintBase \in Nat \ {0, 1}
    BY TemplateContentsAssumption
  <1> DEFINE T == {n \in 0 .. v : f[n] \notin Nat}
  <1>3. T = {}
    <2> SUFFICES ASSUME T # {} PROVE FALSE
      OBVIOUS
    <2>1. PICK n \in T : \A m \in T : n <= m
      <3>1. T \subseteq Nat
        OBVIOUS
      <3> HIDE DEF T
      <3> QED
        BY <3>1, LeastNumber
    <2>2. f[n] = IF n < VarintBase THEN 1 ELSE 1 + f[n \div VarintBase]
      BY <1>2, <2>1 DEF Bytes
    <2>3. ~(n < VarintBase) /\ n \in Nat \ {0}
      BY <1>0, <2>1, <2>2
    <2>4. n \div VarintBase \in 0 .. n - 1
      BY <1>0, <2>3, DivLess
    <2>5. n \div VarintBase \in 0 .. v /\ n \div VarintBase \notin T
      BY <2>1, <2>4
    <2>6. f[n \div VarintBase] \in Nat
      BY <2>5
    <2> QED
      BY <2>1, <2>2, <2>3, <2>6
  <1> QED
    BY <1>2, <1>3

LEMMA AmountsType ==
    ASSUME SplitTypeOK
    PROVE  AmountsWeight \in Nat
  <1> DEFINE f == [i \in DOMAIN rewards |-> VarintSize(rewards[i])]
             D == DOMAIN rewards
  <1>1. D = 1 .. Len(shares) /\ Len(shares) \in Nat /\ \A i \in D : rewards[i] \in Nat
    <2>1. rewards \in [1 .. Len(shares) -> Nat] /\ shares \in Seq(Nat)
      BY DEF SplitTypeOK
    <2> QED
      BY ONLY <2>1
  <1>2. IsFiniteSet(D)
    BY <1>1, IntervalFinite
  <1>3. \A i \in D : f[i] \in Int /\ f[i] >= 0
    BY <1>1, VarintType
  <1>4. AmountsWeight = SumFunctionOnSet(f, D)
    <2>1. DOMAIN f = D
      OBVIOUS
    <2>2. AmountsWeight = SumFunctionOnSet(f, DOMAIN f)
      BY DEF AmountsWeight, SumFunction
    <2> HIDE DEF f, D
    <2> QED
      BY <2>1, <2>2, Zenon
  <1> HIDE DEF f, D
  <1>5. SumFunctionOnSet(f, D) \in Int /\ SumFunctionOnSet(f, D) >= 0
    BY <1>2, <1>3, SumType
  <1> QED
    BY <1>4, <1>5

\* Fees and weights of transactions add up
LEMMA Totals ==
    /\ TotalFees({}) = 0 /\ TotalWeight({}) = 0
    /\ \A S \in SUBSET Txs : TotalFees(S) \in Nat /\ TotalWeight(S) \in Nat
    /\ \A S \in SUBSET Txs, t \in Txs : t \notin S =>
          /\ TotalFees(S \cup {t}) = TotalFees(S) + Fee(t)
          /\ TotalWeight(S \cup {t}) = TotalWeight(S) + Weight(t)
  <1> DEFINE f == [t \in Txs |-> Fee(t)]
             g == [t \in Txs |-> Weight(t)]
  <1>1. \A t \in Txs : /\ f[t] = Fee(t) /\ f[t] \in Int /\ f[t] >= 0
                       /\ g[t] = Weight(t) /\ g[t] \in Int /\ g[t] >= 0
    BY TemplateContentsAssumption
  <1>2. \A S : TotalFees(S) = SumFunctionOnSet(f, S) /\ TotalWeight(S) = SumFunctionOnSet(g, S)
    BY DEF TotalFees, TotalWeight
  <1> HIDE DEF f, g
  <1>3. ASSUME NEW S \in SUBSET Txs PROVE IsFiniteSet(S)
    BY FS_Subset, TemplateContentsAssumption
  <1>4. TotalFees({}) = 0 /\ TotalWeight({}) = 0
    BY <1>2, SumEmpty
  <1>5. ASSUME NEW S \in SUBSET Txs PROVE TotalFees(S) \in Nat /\ TotalWeight(S) \in Nat
    <2>1. SumFunctionOnSet(f, S) \in Int /\ SumFunctionOnSet(f, S) >= 0
      BY <1>1, <1>3, SumType
    <2>2. SumFunctionOnSet(g, S) \in Int /\ SumFunctionOnSet(g, S) >= 0
      BY <1>1, <1>3, SumType
    <2> QED
      BY <1>2, <2>1, <2>2
  <1>6. ASSUME NEW S \in SUBSET Txs, NEW t \in Txs, t \notin S
        PROVE  /\ TotalFees(S \cup {t}) = TotalFees(S) + Fee(t)
               /\ TotalWeight(S \cup {t}) = TotalWeight(S) + Weight(t)
    <2>1. SumFunctionOnSet(f, S \cup {t}) = SumFunctionOnSet(f, S) + f[t]
      BY <1>1, <1>3, <1>6, SumAdd
    <2>2. SumFunctionOnSet(g, S \cup {t}) = SumFunctionOnSet(g, S) + g[t]
      BY <1>1, <1>3, <1>6, SumAdd
    <2> QED
      BY <1>1, <1>2, <2>1, <2>2
  <1> QED
    BY <1>4, <1>5, <1>6

LEMMA MaxOfTwo ==
    ASSUME NEW a \in Int, NEW b \in Int
    PROVE  Max({a, b}) \in {a, b} /\ Max({a, b}) >= a /\ Max({a, b}) >= b
  <1>1. \E m \in {a, b} : \A x \in {a, b} : m >= x
    <2>1. CASE a >= b
      BY <2>1
    <2>2. CASE ~(a >= b)
      BY <2>2
    <2> QED
      BY <2>1, <2>2
  <1> QED
    BY <1>1 DEF Max

LEMMA BaseType ==
    ASSUME NEW g \in 0 .. Supply
    PROVE  get_base_reward(g) \in Nat
  <1>1. Supply \in Nat /\ EmissionDivisor \in Nat \ {0} /\ MinReward \in Nat
    BY TemplateContentsAssumption
  <1>2. (Supply - g) \div EmissionDivisor \in Nat
    BY <1>1, DivBounds
  <1> DEFINE a == (Supply - g) \div EmissionDivisor
  <1>3. get_base_reward(g) = Max({a, MinReward})
    BY DEF get_base_reward
  <1> HIDE DEF a
  <1>4. a \in Int /\ MinReward \in Int
    BY <1>1, <1>2 DEF a
  <1>5. Max({a, MinReward}) \in {a, MinReward}
    BY <1>4, MaxOfTwo
  <1> QED
    BY <1>1, <1>2, <1>3, <1>5 DEF a

\* What the data of an update are, and of none
LEMMA DataTypes ==
    ASSUME data \in Inputs \cup {Nothing}
    PROVE  /\ data.generated \in 0 .. Supply /\ data.median \in Nat \ {0} /\ BaseReward \in Nat
           /\ data \in Inputs => data.weights \in Seq(Nat)
  <1>1. data.generated \in 0 .. Supply /\ data.median \in Nat \ {0}
    <2>1. CASE data \in Inputs
      BY <2>1, TemplateContentsAssumption
    <2>2. CASE data = Nothing
      BY <2>2, TemplateContentsAssumption DEF Nothing
    <2> QED
      BY <2>1, <2>2
  <1>2. data \in Inputs => data.weights \in Seq(Nat)
    BY TemplateContentsAssumption
  <1> QED
    BY <1>1, <1>2, BaseType DEF BaseReward

LEMMA RewardType ==
    ASSUME data \in Inputs \cup {Nothing}, NEW fees \in Nat, NEW weight \in Nat
    PROVE  get_block_reward(fees, weight) \in Nat
  <1> DEFINE m == data.median
             b == BaseReward
  <1>1. m \in Nat \ {0} /\ b \in Nat
    BY DataTypes
  <1>2. get_block_reward(fees, weight) =
            IF weight <= m THEN b + fees
            ELSE IF weight > m * 2 THEN 0
            ELSE (b * ((m * 2 - weight) * weight)) \div (m * m) + fees
    BY DEF get_block_reward
  <1> HIDE DEF m, b
  <1>3. CASE weight > m /\ ~(weight > m * 2)
    <2>1. m * 2 - weight \in Nat
      BY <1>1, <1>3
    <2>2. (m * 2 - weight) * weight \in Nat
      BY <2>1
    <2>3. b * ((m * 2 - weight) * weight) \in Nat
      BY <1>1, <2>2
    <2>4. m * m \in Nat \ {0}
      BY <1>1
    <2>5. (b * ((m * 2 - weight) * weight)) \div (m * m) \in Nat
      BY <2>3, <2>4, DivBounds
    <2> QED
      BY <1>1, <1>2, <1>3, <2>5
  <1> QED
    BY <1>1, <1>2, <1>3

\* A list of the transactions of a set, in any order
LEMMA OrderIs ==
    ASSUME NEW S \in SUBSET Txs, NEW s \in SetToSeqs(S)
    PROVE  /\ s \in Seq(Txs) /\ Len(s) = Cardinality(S) /\ Cardinality(S) \in Nat
           /\ ToSet(s) = S
           /\ \A i, j \in 1 .. Len(s) : s[i] = s[j] => i = j
  <1> DEFINE n == Cardinality(S)
             D == 1 .. n
  <1>1. IsFiniteSet(S) /\ n \in Nat
    BY FS_Subset, FS_CardinalityType, TemplateContentsAssumption
  <1>2. IsFiniteSet(D) /\ Cardinality(D) = n
    <2>1. 1 \in Int /\ n \in Int
      BY <1>1
    <2>2. IsFiniteSet(1 .. n) /\ Cardinality(1 .. n) = IF 1 > n THEN 0 ELSE n - 1 + 1
      BY ONLY <2>1, FS_Interval
    <2> QED
      BY <1>1, <2>2
  <1>3. s \in [D -> S] /\ \A i, j \in D : s[i] = s[j] => i = j
    BY DEF SetToSeqs
  <1> HIDE DEF n
  <1>4. s \in Seq(Txs) /\ Len(s) = n
    BY <1>1, <1>3
  <1>5. s \in Surjection(D, S)
    <2>1. s \in Injection(D, S)
      BY <1>3 DEF Injection, IsInjective
    <2> HIDE DEF D
    <2> QED
      BY <1>1, <1>2, <2>1, FS_Injection DEF n
  <1>6. ToSet(s) = S
    BY <1>3, <1>5 DEF ToSet, Surjection
  <1> QED
    BY <1>1, <1>3, <1>4, <1>6 DEF n

LEMMA RemoveIs ==
    ASSUME NEW S, NEW s \in Seq(S), NEW j \in 1 .. Len(s)
    PROVE  /\ RemoveAt(s, j) \in Seq(S) /\ Len(RemoveAt(s, j)) = Len(s) - 1
           /\ \A i \in 1 .. Len(s) - 1 : RemoveAt(s, j)[i] = IF i < j THEN s[i] ELSE s[i + 1]
  <1> DEFINE a == SubSeq(s, 1, j - 1)
             b == SubSeq(s, j + 1, Len(s))
  <1>0. Len(s) \in Nat
    OBVIOUS
  <1>1. a \in Seq(S) /\ Len(a) = j - 1 /\ \A i \in 1 .. j - 1 : a[i] = s[i]
    BY <1>0
  <1>2. b \in Seq(S) /\ Len(b) = Len(s) - j /\ \A i \in 1 .. Len(s) - j : b[i] = s[i + j]
    BY <1>0
  <1>3. RemoveAt(s, j) = a \o b
    BY DEF RemoveAt
  <1> HIDE DEF a, b
  <1>4. a \o b \in Seq(S) /\ Len(a \o b) = Len(a) + Len(b)
    <2>1. a \in Seq(S) /\ b \in Seq(S)
      BY <1>1, <1>2
    <2> QED
      BY ONLY <2>1
  <1>5. ASSUME NEW i \in 1 .. Len(s) - 1
        PROVE  (a \o b)[i] = IF i < j THEN s[i] ELSE s[i + 1]
    <2>1. CASE i < j
      <3>1. (a \o b)[i] = a[i]
        BY <1>1, <1>2, <2>1
      <3> QED
        BY <1>1, <2>1, <3>1
    <2>2. CASE ~(i < j)
      <3>1. (a \o b)[i] = b[i - (j - 1)]
        BY <1>0, <1>1, <1>2, <2>2
      <3>2. i - (j - 1) \in 1 .. Len(s) - j /\ i - (j - 1) + j = i + 1
        BY <1>0, <2>2
      <3> QED
        BY <1>2, <2>2, <3>1, <3>2
    <2> QED
      BY <2>1, <2>2
  <1> QED
    BY <1>0, <1>1, <1>2, <1>3, <1>4, <1>5

-----------------------------------------------------------------------------
(* The inductive invariant                                                 *)

\* get_block_reward, for any data
RewardOf(d, fees, weight) ==
    IF weight <= d.median THEN get_base_reward(d.generated) + fees
    ELSE IF weight > d.median * 2 THEN 0
    ELSE (get_base_reward(d.generated) * ((d.median * 2 - weight) * weight))
            \div (d.median * d.median) + fees

Base(d) == get_base_reward(d.generated)

LEMMA RewardIs ==
    /\ BaseReward = Base(data)
    /\ \A fees, weight : get_block_reward(fees, weight) = RewardOf(data, fees, weight)
  BY DEF get_block_reward, RewardOf, BaseReward, Base

\* What the picking loop has taken
Picked == {order[i] : i \in 1 .. pos - 1}

MempoolOK == Pooled \subseteq Txs /\ \A t \in Pooled : mempool[t] \in 0 .. Delay

LocalsOK ==
    /\ stage \in {"idle", "max", "pick", "final", "refine", "again", "done", "locked"}
    /\ data \in Inputs \cup {Nothing}
    /\ chosen \subseteq Txs /\ order \in Seq(Txs)
    /\ pos \in 1 .. Len(order) + 1
    /\ finalReward \in Nat /\ finalFees \in Nat /\ finalWeight \in Nat
    /\ maxAmounts \in Nat /\ minerSize \in Nat
    /\ nonceSize \in NonceSize .. NonceMaxSize

\* Every call of split_reward in an update is for the shares of its input
CallInv == stage \notin {"idle", "locked"} => data \in Inputs /\ shares = data.weights

\* miner_tx_weight is the size of the miner transaction once it is padded
SizeInv ==
    stage \in {"pick", "final", "refine", "again", "done"} =>
        minerSize = TxOverhead + Len(shares) * OutputSize + maxAmounts + NonceSize

\* The sums of the picking loop
PickInv ==
    stage = "pick" =>
        /\ \A i, j \in 1 .. Len(order) : order[i] = order[j] => i = j
        /\ finalFees = TotalFees(Picked) /\ finalWeight = minerSize + TotalWeight(Picked)
        /\ finalReward >= Base(data)
        /\ minerSize <= data.median => finalReward = RewardOf(data, finalFees, finalWeight)

\* The sums of the template
CollectInv ==
    /\ stage \in {"final", "refine", "again", "done"} =>
          /\ finalFees = TotalFees(ToSet(order))
          /\ finalWeight = minerSize + TotalWeight(ToSet(order))
          /\ finalReward = RewardOf(data, finalFees, finalWeight)
    /\ stage \in {"final", "refine"} /\ minerSize <= data.median => finalReward >= Base(data)

\* The reward of the template is split last
PayInv == stage \in {"final", "again", "done"} => reward = finalReward

DoneInv ==
    stage = "done" =>
        /\ phase = "true"
        /\ nonceSize = NonceFor(maxAmounts)
        /\ branch = MainBranch(<<MinerTxHash(ZeroNonce)>> \o order)

UpdateInv == CallInv /\ SizeInv /\ PickInv /\ CollectInv /\ PayInv /\ DoneInv

Inv == MempoolOK /\ LocalsOK /\ SplitInv /\ CheckedSum /\ UpdateInv

LEMMA InvTypes == Inv => TypeOK
  BY DEF Inv, MempoolOK, LocalsOK, SplitInv, TypeOK

LEMMA InitInv == Init => Inv
  <1> SUFFICES ASSUME Init PROVE Inv
    OBVIOUS
  <1>1. MempoolOK
    BY DEF Init, MempoolOK, Pooled
  <1>2. LocalsOK
    BY TemplateContentsAssumption DEF Init, LocalsOK
  <1>3. SplitInv
    <2>1. shares = <<>> /\ Len(shares) = 0 /\ shares \in Seq(Nat)
      BY DEF Init
    <2>2. rewards \in [1 .. 0 -> Nat]
      <3>1. rewards = <<>>
        BY DEF Init
      <3> QED
        BY <3>1
    <2>3. SplitTypeOK
      BY <2>1, <2>2 DEF Init, SplitTypeOK, Phases
    <2> QED
      BY <2>1, <2>3 DEF Init, SplitInv, Summing, Summed, Splitting, Checking, RewardIsExact,
         SumsRight
  <1>4. CheckedSum /\ UpdateInv
    BY DEF Init, CheckedSum, UpdateInv, CallInv, SizeInv, PickInv, CollectInv, PayInv, DoneInv
  <1> QED
    BY <1>1, <1>2, <1>3, <1>4 DEF Inv

\* A call of split_reward
LEMMA CallsKeep ==
    ASSUME NEW weights \in Seq(Nat), NEW amount \in Nat, SplitCall(weights, amount)
    PROVE  SplitInv' /\ CheckedSum' /\ shares' = weights /\ reward' = amount
  <1>1. SplitInv'
    BY SplitCallInv
  <1> QED
    BY <1>1 DEF SplitCall, CheckedSum

\* What changes only the mempool, or nothing
LEMMA StutterInv ==
    ASSUME Inv, UNCHANGED <<stage, locals, splitVars>>, MempoolOK'
    PROVE  Inv'
  <1>1. SplitInv' /\ CheckedSum'
    BY SplitStepInv, CheckedStep DEF Inv
  <1>2. LocalsOK'
    BY DEF Inv, LocalsOK, locals
  <1>3. UpdateInv'
    BY DEF Inv, UpdateInv, CallInv, SizeInv, PickInv, CollectInv, PayInv, DoneInv, Picked, locals,
       splitVars, NonceFor, AmountsWeight
  <1> QED
    BY <1>1, <1>2, <1>3 DEF Inv

LEMMA MempoolSteps ==
    ASSUME Inv, \/ \E t \in Txs : HandleTx(t)
                \/ \E backlog \in SUBSET Txs : Swap(backlog)
                \/ Tick
    PROVE  Inv'
  <1>0. UNCHANGED <<stage, locals, splitVars>>
    BY DEF HandleTx, Swap, Tick
  <1>1. Delay \in Nat \ {0}
    BY TemplateContentsAssumption
  <1>2. MempoolOK'
    <2>1. ASSUME NEW t \in Txs, HandleTx(t) PROVE MempoolOK'
      BY <1>1, <2>1 DEF HandleTx, Inv, MempoolOK, Pooled
    <2>2. ASSUME NEW backlog \in SUBSET Txs, Swap(backlog) PROVE MempoolOK'
      BY <1>1, <2>2 DEF Swap, Inv, MempoolOK, Pooled, AgeAfterSwap
    <2>3. ASSUME Tick PROVE MempoolOK'
      BY <1>1, <2>3 DEF Tick, Inv, MempoolOK, Pooled
    <2> QED
      BY <2>1, <2>2, <2>3
  <1> QED
    BY <1>0, <1>2, StutterInv

LEMMA UpdateKeeps ==
    ASSUME Inv, NEW input \in Inputs, Update(input)
    PROVE  Inv'
  <1>1. /\ stage' = "max" /\ data' = input /\ chosen' \in TxChoices
        /\ SplitCall(input.weights, get_base_reward(input.generated) + TotalFees(chosen'))
        /\ UNCHANGED <<mempool, order, pos, finalReward, finalFees, finalWeight, maxAmounts,
                       minerSize, nonceSize, branch>>
    BY DEF Update
  <1>2. chosen' \subseteq Txs
    BY <1>1 DEF TxChoices, Inv, MempoolOK
  <1>3. input.weights \in Seq(Nat) /\ input.generated \in 0 .. Supply
    BY TemplateContentsAssumption
  <1>4. get_base_reward(input.generated) + TotalFees(chosen') \in Nat
    <2>1. TotalFees(chosen') \in Nat
      BY <1>2, Totals
    <2>2. get_base_reward(input.generated) \in Nat
      BY <1>3, BaseType
    <2> QED
      BY <2>1, <2>2
  <1>5. SplitInv' /\ CheckedSum' /\ shares' = input.weights
    BY <1>1, <1>3, <1>4, CallsKeep
  <1>6. MempoolOK' /\ LocalsOK'
    BY <1>1, <1>2 DEF Inv, MempoolOK, LocalsOK, Pooled
  <1>7. UpdateInv'
    BY <1>1, <1>5 DEF UpdateInv, CallInv, SizeInv, PickInv, CollectInv, PayInv, DoneInv
  <1> QED
    BY <1>5, <1>6, <1>7 DEF Inv

LEMMA SplitKeeps ==
    ASSUME Inv, Split
    PROVE  Inv'
  <1>1. SplitStep /\ UNCHANGED <<mempool, stage, locals>>
    BY DEF Split
  <1>2. shares' = shares /\ reward' = reward /\ phase # "true"
    BY <1>1 DEF SplitStep, AddWeight, CheckTotal, GiveReward, AllGiven, AddReward, CheckPaid
  <1>3. SplitInv' /\ CheckedSum'
    BY <1>1, SplitStepInv, CheckedStep DEF Inv
  <1>4. MempoolOK' /\ LocalsOK'
    BY <1>1 DEF Inv, MempoolOK, LocalsOK, Pooled, locals
  <1>5. stage # "done" /\ stage' # "done"
    BY <1>1, <1>2 DEF Inv, UpdateInv, DoneInv
  <1>6. UpdateInv'
    BY <1>1, <1>2, <1>5 DEF Inv, UpdateInv, CallInv, SizeInv, PickInv, CollectInv, PayInv, DoneInv,
       Picked, locals
  <1> QED
    BY <1>3, <1>4, <1>6 DEF Inv

\* Adding up the transactions of the template and splitting its reward
LEMMA CollectKeeps ==
    ASSUME Inv, NEW txs, txs \subseteq Txs, NEW size \in Nat, Collect(txs, size),
           stage \notin {"idle", "locked"}
    PROVE  /\ SplitInv' /\ CheckedSum' /\ shares' = shares /\ reward' = finalReward'
           /\ stage' = "final" /\ order' \in SetToSeqs(txs)
           /\ order' \in Seq(Txs) /\ Len(order') = Cardinality(txs) /\ ToSet(order') = txs
           /\ finalFees' = TotalFees(txs) /\ finalWeight' = size + TotalWeight(txs)
           /\ finalReward' = RewardOf(data, finalFees', finalWeight')
           /\ finalFees' \in Nat /\ finalWeight' \in Nat /\ finalReward' \in Nat
  <1>1. /\ order' \in SetToSeqs(txs) /\ stage' = "final"
        /\ finalFees' = TotalFees(txs) /\ finalWeight' = size + TotalWeight(txs)
        /\ finalReward' = get_block_reward(finalFees', finalWeight')
        /\ SplitCall(shares, finalReward')
    BY DEF Collect
  <1>2. finalFees' \in Nat /\ finalWeight' \in Nat
    BY <1>1, Totals
  <1>3. finalReward' \in Nat
    <2>1. data \in Inputs \cup {Nothing}
      BY DEF Inv, LocalsOK
    <2> QED
      BY <1>1, <1>2, <2>1, RewardType
  <1>4. finalReward' = RewardOf(data, finalFees', finalWeight')
    BY <1>1, RewardIs
  <1>5. shares \in Seq(Nat)
    BY DEF Inv, SplitInv, SplitTypeOK
  <1>6. SplitInv' /\ CheckedSum' /\ shares' = shares /\ reward' = finalReward'
    BY <1>1, <1>3, <1>5, CallsKeep
  <1>7. order' \in Seq(Txs) /\ Len(order') = Cardinality(txs) /\ ToSet(order') = txs
    BY <1>1, OrderIs
  <1> QED
    BY <1>1, <1>2, <1>3, <1>4, <1>6, <1>7

LEMMA SizeTypes ==
    ASSUME Inv
    PROVE  /\ AmountsWeight \in Nat /\ MinerTxSize(NonceSize) \in Nat
           /\ MinerTxSize(NonceSize)
                = TxOverhead + Len(shares) * OutputSize + AmountsWeight + NonceSize
           /\ Len(shares) \in Nat /\ data.median \in Nat \ {0} /\ Base(data) \in Nat
  <1>1. AmountsWeight \in Nat
    BY AmountsType DEF Inv, SplitInv
  <1>2. Len(shares) \in Nat /\ TxOverhead \in Nat /\ OutputSize \in Nat /\ NonceSize \in Nat
    BY TemplateContentsAssumption DEF Inv, SplitInv, SplitTypeOK
  <1>3. Len(shares) * OutputSize \in Nat
    BY <1>2
  <1>4. MinerTxSize(NonceSize) = TxOverhead + Len(shares) * OutputSize + AmountsWeight + NonceSize
    BY DEF MinerTxSize
  <1>5. data.median \in Nat \ {0} /\ Base(data) \in Nat
    BY DataTypes, RewardIs DEF Inv, LocalsOK
  <1> QED
    BY <1>1, <1>2, <1>3, <1>4, <1>5

LEMMA DryRunKeeps ==
    ASSUME Inv, DryRun
    PROVE  Inv'
  <1>1. /\ stage = "max" /\ phase = "true" /\ maxAmounts' = AmountsWeight
        /\ minerSize' = MinerTxSize(NonceSize) /\ pos' = 1
        /\ UNCHANGED <<mempool, data, chosen, nonceSize, branch>>
    BY DEF DryRun
  <1>2. /\ minerSize' \in Nat /\ maxAmounts' \in Nat
        /\ minerSize' = TxOverhead + Len(shares) * OutputSize + maxAmounts' + NonceSize
        /\ data.median \in Nat \ {0} /\ Base(data) \in Nat
    BY <1>1, SizeTypes
  <1>3. chosen \subseteq Txs /\ TotalWeight(chosen) \in Nat
    BY Totals DEF Inv, LocalsOK
  <1>4. MempoolOK'
    BY <1>1 DEF Inv, MempoolOK, Pooled
  <1>5. data \in Inputs /\ shares = data.weights
    BY <1>1 DEF Inv, UpdateInv, CallInv
  <1>6. CASE /\ TotalWeight(chosen) + minerSize' <= data.median
             /\ Collect(chosen, minerSize')
    <2>1. /\ SplitInv' /\ CheckedSum' /\ shares' = shares /\ reward' = finalReward'
          /\ stage' = "final" /\ order' \in Seq(Txs) /\ Len(order') = Cardinality(chosen)
          /\ ToSet(order') = chosen /\ finalFees' = TotalFees(chosen)
          /\ finalWeight' = minerSize' + TotalWeight(chosen)
          /\ finalReward' = RewardOf(data, finalFees', finalWeight')
          /\ finalFees' \in Nat /\ finalWeight' \in Nat /\ finalReward' \in Nat
      BY <1>1, <1>2, <1>3, <1>6, CollectKeeps
    <2>2. LocalsOK'
      <3>1. pos' \in 1 .. Len(order') + 1
        BY <1>1, <2>1
      <3> QED
        BY <1>1, <1>2, <2>1, <3>1 DEF Inv, LocalsOK
    <2>3. finalReward' >= Base(data)
      <3>1. finalWeight' <= data.median
        BY <1>2, <1>3, <1>6, <2>1
      <3>2. finalReward' = Base(data) + finalFees'
        BY <2>1, <3>1 DEF RewardOf, Base
      <3> QED
        BY <1>2, <2>1, <3>2
    <2>4. SizeInv' /\ CallInv'
      BY <1>1, <1>2, <1>5, <2>1 DEF SizeInv, CallInv
    <2>5. CollectInv'
      BY <1>1, <2>1, <2>3, Zenon DEF CollectInv
    <2>6. PickInv' /\ PayInv' /\ DoneInv'
      BY <2>1 DEF PickInv, PayInv, DoneInv
    <2> QED
      BY <1>4, <2>1, <2>2, <2>4, <2>5, <2>6 DEF Inv, UpdateInv
  <1>7. CASE /\ order' \in {s \in SetToSeqs(chosen) :
                              \A i, j \in DOMAIN s : i < j => ~Better(s[j], s[i])}
             /\ finalReward' = BaseReward /\ finalFees' = 0 /\ finalWeight' = minerSize'
             /\ stage' = "pick"
             /\ UNCHANGED splitVars
    <2>1. SplitInv' /\ CheckedSum'
      BY <1>7, SplitStepInv, CheckedStep DEF Inv
    <2>2. shares' = shares
      BY <1>7 DEF splitVars
    <2>3. order' \in SetToSeqs(chosen)
      BY <1>7
    <2>4. /\ order' \in Seq(Txs) /\ Len(order') \in Nat
          /\ \A i, j \in 1 .. Len(order') : order'[i] = order'[j] => i = j
      BY <1>3, <2>3, OrderIs
    <2>5. finalReward' = Base(data) /\ finalReward' \in Nat
      BY <1>2, <1>7, RewardIs
    <2>6. LocalsOK'
      <3>1. pos' \in 1 .. Len(order') + 1
        BY <1>1, <2>4
      <3> QED
        BY <1>1, <1>2, <1>7, <2>4, <2>5, <3>1 DEF Inv, LocalsOK
    <2>7. SizeInv' /\ CallInv'
      BY <1>1, <1>2, <1>5, <1>7, <2>2 DEF SizeInv, CallInv
    <2>8. PickInv'
      <3>1. Picked' = {}
        BY <1>1 DEF Picked
      <3>2. TotalFees(Picked') = 0 /\ TotalWeight(Picked') = 0
        BY <3>1, Totals
      <3>3. finalFees' = TotalFees(Picked') /\ finalWeight' = minerSize' + TotalWeight(Picked')
        BY <1>2, <1>7, <3>2
      <3>4. minerSize' <= data.median => finalReward' = RewardOf(data, finalFees', finalWeight')
        <4>1. minerSize' <= data.median => RewardOf(data, 0, minerSize') = Base(data) + 0
          BY DEF RewardOf, Base
        <4> QED
          BY <1>2, <1>7, <2>5, <4>1
      <3>5. finalReward' >= Base(data)
        BY <1>2, <2>5
      <3> QED
        BY <1>1, <2>4, <3>3, <3>4, <3>5 DEF PickInv
    <2>9. CollectInv' /\ PayInv' /\ DoneInv'
      BY <1>7 DEF CollectInv, PayInv, DoneInv
    <2> QED
      BY <1>4, <2>1, <2>6, <2>7, <2>8, <2>9 DEF Inv, UpdateInv
  <1> QED
    BY <1>6, <1>7 DEF DryRun

\* The loop ends with the list it has picked
LEMMA EndOfPickingKeeps ==
    ASSUME Inv, EndOfPicking
    PROVE  Inv'
  <1>1. /\ stage = "pick" /\ pos > Len(order) /\ Collect(ToSet(order), minerSize)
        /\ UNCHANGED <<mempool, data, chosen, pos, maxAmounts, minerSize, nonceSize, branch>>
    BY DEF EndOfPicking
  <1>2. /\ order \in Seq(Txs) /\ Len(order) \in Nat /\ pos = Len(order) + 1
        /\ minerSize \in Nat
    BY <1>1 DEF Inv, LocalsOK
  <1> DEFINE S == ToSet(order)
             n == Len(order)
  <1>3. S = {order[i] : i \in 1 .. n} /\ S \subseteq Txs
    BY <1>2 DEF ToSet
  <1>4. S = Picked
    BY <1>2, <1>3 DEF Picked
  <1>5. /\ finalFees = TotalFees(S) /\ finalWeight = minerSize + TotalWeight(S)
        /\ \A i, j \in 1 .. n : order[i] = order[j] => i = j
        /\ finalReward >= Base(data)
        /\ minerSize <= data.median => finalReward = RewardOf(data, finalFees, finalWeight)
    BY <1>1, <1>4 DEF Inv, UpdateInv, PickInv
  <1>6. Cardinality(S) = n
    <2>1. IsFiniteSet(1 .. n) /\ Cardinality(1 .. n) = n
      <3>1. 1 \in Int /\ n \in Int
        BY <1>2
      <3>2. IsFiniteSet(1 .. n) /\ Cardinality(1 .. n) = IF 1 > n THEN 0 ELSE n - 1 + 1
        BY ONLY <3>1, FS_Interval
      <3> QED
        BY <1>2, <3>2
    <2>2. order \in Surjection(1 .. n, S) /\ order \in Injection(1 .. n, S)
      <3>1. order \in [1 .. n -> S]
        BY <1>2, <1>3
      <3> QED
        BY <1>3, <1>5, <3>1 DEF Surjection, Injection, IsInjective
    <2> DEFINE D == 1 .. n
    <2> HIDE DEF D, S
    <2>3. Cardinality(S) = Cardinality(D)
      <3>1. IsFiniteSet(D) /\ order \in Surjection(D, S) /\ order \in Injection(D, S)
        BY <2>1, <2>2 DEF D
      <3> QED
        BY <3>1, FS_Surjection
    <2> QED
      BY <2>1, <2>3 DEF D
  <1>7. /\ SplitInv' /\ CheckedSum' /\ shares' = shares /\ reward' = finalReward'
        /\ stage' = "final" /\ order' \in Seq(Txs) /\ Len(order') = Cardinality(S)
        /\ ToSet(order') = S /\ finalFees' = TotalFees(S)
        /\ finalWeight' = minerSize + TotalWeight(S)
        /\ finalReward' = RewardOf(data, finalFees', finalWeight')
        /\ finalFees' \in Nat /\ finalWeight' \in Nat /\ finalReward' \in Nat
    BY <1>1, <1>2, <1>3, CollectKeeps
  <1> HIDE DEF S
  <1>8. MempoolOK'
    BY <1>1 DEF Inv, MempoolOK, Pooled
  <1>9. LocalsOK'
    <2>1. pos' \in 1 .. Len(order') + 1
      BY <1>1, <1>2, <1>6, <1>7
    <2> QED
      BY <1>1, <1>2, <1>7, <2>1 DEF Inv, LocalsOK
  <1>10. SizeInv' /\ CallInv'
    BY <1>1, <1>7 DEF Inv, UpdateInv, SizeInv, CallInv
  <1>11. minerSize <= data.median => finalReward' >= Base(data)
    BY <1>5, <1>7, Zenon
  <1>12. CollectInv'
    BY <1>1, <1>7, <1>11, Zenon DEF CollectInv
  <1>13. PickInv' /\ PayInv' /\ DoneInv'
    BY <1>7 DEF PickInv, PayInv, DoneInv
  <1> QED
    BY <1>7, <1>8, <1>9, <1>10, <1>12, <1>13 DEF Inv, UpdateInv

\* The largest and the smallest of a set
LEMMA MaxMin ==
    ASSUME NEW S, IsFiniteSet(S), S # {}, S \subseteq Int
    PROVE  /\ Max(S) \in S /\ \A x \in S : x <= Max(S)
           /\ Min(S) \in S /\ \A x \in S : Min(S) <= x
  <1> DEFINE Good(q) == /\ \E m \in q : \A x \in q : m >= x
                        /\ \E m \in q : \A x \in q : m <= x
             Bad == {q \in SUBSET S : q # {} /\ ~Good(q)}
  <1>0. ASSUME NEW q \in SUBSET S PROVE IsFiniteSet(q)
    BY FS_Subset
  <1>1. ASSUME Bad # {} PROVE FALSE
    <2>1. PICK q \in Bad : \A r \in Bad : Cardinality(q) <= Cardinality(r)
      BY <1>0, <1>1, SmallestSet
    <2> DEFINE p == First(q)
               r == q \ {p}
    <2>2. /\ p \in q /\ p \in Int /\ Cardinality(q) \in Nat
          /\ Cardinality(r) = Cardinality(q) - 1
      BY <1>0, FirstIn
    <2> HIDE DEF p
    <2>3. r \in SUBSET S /\ r \notin Bad
      <3>1. r \in SUBSET S
        OBVIOUS
      <3>2. r \in Bad => Cardinality(q) <= Cardinality(r)
        BY <2>1
      <3> HIDE DEF Bad, r
      <3> QED
        BY <2>2, <3>1, <3>2
    <2>4. CASE r = {}
      <3>1. q = {p}
        BY <2>2, <2>4
      <3>2. Good(q)
        BY <2>2, <3>1
      <3> QED
        BY <3>2
    <2>5. CASE r # {}
      <3>1. Good(r)
        BY <2>3, <2>5
      <3>2. PICK m \in r : \A x \in r : m >= x
        BY <3>1
      <3>3. PICK l \in r : \A x \in r : l <= x
        BY <3>1
      <3>4. m \in q /\ l \in q /\ m \in Int /\ l \in Int /\ \A x \in q : x \in Int
        BY <2>3
      <3>5. \E y \in q : \A x \in q : y >= x
        <4>1. CASE m >= p
          BY <3>2, <3>4, <4>1
        <4>2. CASE ~(m >= p)
          BY <2>2, <3>2, <3>4, <4>2
        <4> QED
          BY <4>1, <4>2
      <3>6. \E y \in q : \A x \in q : y <= x
        <4>1. CASE l <= p
          BY <3>3, <3>4, <4>1
        <4>2. CASE ~(l <= p)
          BY <2>2, <3>3, <3>4, <4>2
        <4> QED
          BY <4>1, <4>2
      <3>7. Good(q)
        BY <3>5, <3>6
      <3> QED
        BY <3>7
    <2> QED
      BY <2>4, <2>5
  <1>2. Good(S)
    BY <1>1
  <1>3. Max(S) \in S /\ \A x \in S : Max(S) >= x
    <2>1. \E m \in S : \A x \in S : m >= x
      BY <1>2
    <2> QED
      BY <2>1, Zenon DEF Max
  <1>4. Min(S) \in S /\ \A x \in S : Min(S) <= x
    <2>1. \E m \in S : \A x \in S : m <= x
      BY <1>2
    <2> QED
      BY <2>1, Zenon DEF Min
  <1>5. Max(S) \in Int /\ \A x \in S : x \in Int
    BY <1>3
  <1> QED
    BY <1>3, <1>4, <1>5

\* The transactions picked once the one at pos is added, and the one at j dropped
After(j) == IF j = 0 THEN Picked \cup {order[pos]} ELSE (Picked \cup {order[pos]}) \ {order[j]}

\* The sums of the picking loop with and without a replacement
LEMMA PickSums ==
    ASSUME Inv, stage = "pick", pos <= Len(order), NEW j \in 0 .. pos - 1
    PROVE  /\ After(j) \subseteq Txs
           /\ FeesWith(j) = TotalFees(After(j)) /\ FeesWith(j) \in Nat
           /\ WeightWith(j) = minerSize + TotalWeight(After(j)) /\ WeightWith(j) \in Nat
           /\ RewardWith(j) = RewardOf(data, FeesWith(j), WeightWith(j)) /\ RewardWith(j) \in Nat
  <1> DEFINE x == order[pos]
             A == Picked \cup {x}
  <1>1. /\ order \in Seq(Txs) /\ Len(order) \in Nat /\ pos \in 1 .. Len(order)
        /\ minerSize \in Nat /\ data \in Inputs \cup {Nothing}
    BY DEF Inv, LocalsOK
  <1>2. /\ \A i, l \in 1 .. Len(order) : order[i] = order[l] => i = l
        /\ finalFees = TotalFees(Picked) /\ finalWeight = minerSize + TotalWeight(Picked)
    BY DEF Inv, UpdateInv, PickInv
  <1>3. x \in Txs /\ Picked \subseteq Txs /\ x \notin Picked
    BY <1>1, <1>2 DEF Picked
  <1>4. /\ Fee(x) \in Nat /\ Weight(x) \in Nat
        /\ TotalFees(Picked) \in Nat /\ TotalWeight(Picked) \in Nat
        /\ TotalFees(A) = TotalFees(Picked) + Fee(x)
        /\ TotalWeight(A) = TotalWeight(Picked) + Weight(x)
    BY <1>3, Totals, TemplateContentsAssumption
  <1>5. FeeAt(pos) = Fee(x) /\ WeightAt(pos) = Weight(x)
    BY <1>1 DEF FeeAt, WeightAt
  <1>6. CASE j = 0
    <2>1. After(j) = A
      BY <1>6 DEF After
    <2>2. FeeAt(j) = 0 /\ WeightAt(j) = 0
      BY <1>6 DEF FeeAt, WeightAt
    <2> HIDE DEF x, A
    <2>3. FeesWith(j) = TotalFees(A) /\ WeightWith(j) = minerSize + TotalWeight(A)
      BY <1>1, <1>2, <1>4, <1>5, <2>2 DEF FeesWith, WeightWith
    <2>4. TotalFees(A) \in Nat /\ minerSize + TotalWeight(A) \in Nat /\ A \subseteq Txs
      BY <1>1, <1>3, <1>4 DEF A
    <2>5. FeesWith(j) \in Nat /\ WeightWith(j) \in Nat
      BY <2>3, <2>4
    <2>6. RewardWith(j) = RewardOf(data, FeesWith(j), WeightWith(j)) /\ RewardWith(j) \in Nat
      BY <1>1, <2>5, RewardIs, RewardType DEF RewardWith
    <2> QED
      BY <2>1, <2>3, <2>4, <2>5, <2>6
  <1>7. CASE j # 0
    <2> DEFINE y == order[j]
               B == A \ {y}
    <2>1. j \in 1 .. pos - 1 /\ y \in Picked /\ y \in Txs
      <3>1. j \in 1 .. pos - 1
        BY <1>1, <1>7
      <3> QED
        BY <1>3, <3>1 DEF Picked
    <2>2. After(j) = B
      BY <1>7 DEF After
    <2>3. FeeAt(j) = Fee(y) /\ WeightAt(j) = Weight(y)
      BY <1>7 DEF FeeAt, WeightAt
    <2>4. B \cup {y} = A /\ y \notin B /\ B \subseteq Txs
      BY <1>3, <2>1
    <2>5. /\ TotalFees(B \cup {y}) = TotalFees(B) + Fee(y)
          /\ TotalWeight(B \cup {y}) = TotalWeight(B) + Weight(y)
          /\ TotalFees(B) \in Nat /\ TotalWeight(B) \in Nat
          /\ Fee(y) \in Nat /\ Weight(y) \in Nat
      BY <2>1, <2>4, Totals, TemplateContentsAssumption
    <2>6. TotalFees(A) = TotalFees(B) + Fee(y) /\ TotalWeight(A) = TotalWeight(B) + Weight(y)
      BY <2>4, <2>5, Zenon
    <2> HIDE DEF x, A, y, B
    <2>7. FeesWith(j) = TotalFees(B) /\ WeightWith(j) = minerSize + TotalWeight(B)
      <3>1. FeesWith(j) = TotalFees(Picked) + (Fee(x) - Fee(y))
        BY <1>2, <1>5, <2>3, Zenon DEF FeesWith
      <3>2. WeightWith(j) = (minerSize + TotalWeight(Picked)) + (Weight(x) - Weight(y))
        BY <1>2, <1>5, <2>3, Zenon DEF WeightWith
      <3>3. /\ TotalFees(Picked) + Fee(x) = TotalFees(B) + Fee(y)
            /\ TotalWeight(Picked) + Weight(x) = TotalWeight(B) + Weight(y)
        BY <1>4, <2>6
      <3>4. /\ TotalFees(B) \in Int /\ Fee(y) \in Int
            /\ TotalWeight(B) \in Int /\ Weight(y) \in Int /\ minerSize \in Int
            /\ TotalWeight(Picked) \in Int /\ Weight(x) \in Int
            /\ TotalFees(Picked) \in Int /\ Fee(x) \in Int
        BY <1>1, <1>4, <2>5
      <3> QED
        BY ONLY <3>1, <3>2, <3>3, <3>4
    <2>8. FeesWith(j) \in Nat /\ WeightWith(j) \in Nat
      BY <1>1, <2>5, <2>7
    <2>9. RewardWith(j) = RewardOf(data, FeesWith(j), WeightWith(j)) /\ RewardWith(j) \in Nat
      BY <1>1, <2>8, RewardIs, RewardType DEF RewardWith
    <2> QED
      BY <2>2, <2>4, <2>7, <2>8, <2>9
  <1> QED
    BY <1>6, <1>7

\* What is added or replaced raises the reward
LEMMA DroppedIs ==
    ASSUME Inv, stage = "pick", pos <= Len(order)
    PROVE  \/ Dropped = pos
           \/ Dropped \in 0 .. pos - 1 /\ RewardWith(Dropped) > finalReward
  <1> DEFINE top == Max({finalReward, RewardWith(0)})
             best == {j \in Replaceable : /\ RewardWith(j) > top
                                          /\ \A i \in Replaceable : RewardWith(i) <= RewardWith(j)}
  <1>1. Dropped = IF best # {} THEN Min(best) ELSE IF RewardWith(0) > finalReward THEN 0 ELSE pos
    BY DEF Dropped
  <1>2. pos \in Nat \ {0} /\ finalReward \in Nat
    BY DEF Inv, LocalsOK
  <1>3. RewardWith(0) \in Nat
    BY <1>2, PickSums
  <1>4. top \in Int /\ top >= finalReward
    <2> DEFINE a == RewardWith(0)
    <2>1. a \in Int /\ finalReward \in Int
      BY <1>2, <1>3
    <2> HIDE DEF a
    <2>2. Max({finalReward, a}) \in {finalReward, a} /\ Max({finalReward, a}) >= finalReward
      BY <2>1, MaxOfTwo
    <2>3. Max({finalReward, a}) \in Int
      BY <2>1, <2>2
    <2> QED
      BY <2>2, <2>3 DEF a
  <1>5. Replaceable \subseteq 1 .. pos - 1
    BY DEF Replaceable
  <1> HIDE DEF top
  <1>6. CASE best # {}
    <2>1. best \subseteq 1 .. pos - 1
      BY <1>5
    <2>2. IsFiniteSet(1 .. pos - 1)
      <3>1. pos - 1 \in Nat
        BY <1>2
      <3> QED
        BY <3>1, IntervalFinite
    <2>3. Min(best) \in best
      <3> HIDE DEF best
      <3>1. best \subseteq Int
        BY <1>2, <2>1
      <3> DEFINE D == 1 .. pos - 1
      <3> HIDE DEF D
      <3>2. IsFiniteSet(D) /\ best \subseteq D
        BY <2>1, <2>2 DEF D
      <3>3. IsFiniteSet(best)
        BY <3>2, FS_Subset
      <3> QED
        BY <1>6, <3>1, <3>3, MaxMin
    <2>4. Dropped \in best
      BY <1>1, <1>6, <2>3
    <2>5. Dropped \in 0 .. pos - 1 /\ RewardWith(Dropped) > top
      BY <2>1, <2>4
    <2>6. RewardWith(Dropped) \in Nat
      BY <2>5, PickSums
    <2> QED
      BY <1>2, <1>4, <2>5, <2>6
  <1>7. CASE best = {}
    <2> HIDE DEF best
    <2> QED
      BY <1>1, <1>2, <1>7
  <1> QED
    BY <1>6, <1>7

\* The first entries of the list once the loop has dropped one of them
LEMMA PickedAfter ==
    ASSUME Inv, stage = "pick", pos <= Len(order), NEW j \in 1 .. pos,
           NEW s, s = RemoveAt(order, j)
    PROVE  /\ s \in Seq(Txs) /\ Len(s) = Len(order) - 1 /\ pos \in 1 .. Len(s) + 1
           /\ \A i, l \in 1 .. Len(s) : s[i] = s[l] => i = l
           /\ {s[i] : i \in 1 .. pos - 1} = IF j = pos THEN Picked ELSE After(j)
  <1>1. order \in Seq(Txs) /\ Len(order) \in Nat /\ pos \in 1 .. Len(order)
    BY DEF Inv, LocalsOK
  <1>2. \A i, l \in 1 .. Len(order) : order[i] = order[l] => i = l
    BY DEF Inv, UpdateInv, PickInv
  <1>3. j \in 1 .. Len(order)
    BY <1>1
  <1>4. /\ s \in Seq(Txs) /\ Len(s) = Len(order) - 1
        /\ \A i \in 1 .. Len(order) - 1 : s[i] = IF i < j THEN order[i] ELSE order[i + 1]
    BY <1>1, <1>3, RemoveIs
  <1>5. pos \in 1 .. Len(s) + 1
    BY <1>1, <1>4
  <1>6. ASSUME NEW i \in 1 .. Len(s), NEW l \in 1 .. Len(s), s[i] = s[l] PROVE i = l
    <2> DEFINE a == IF i < j THEN i ELSE i + 1
               b == IF l < j THEN l ELSE l + 1
    <2>1. a \in 1 .. Len(order) /\ b \in 1 .. Len(order)
      BY <1>1, <1>4
    <2>2. s[i] = order[a] /\ s[l] = order[b]
      BY <1>1, <1>4
    <2>3. a = b
      BY <1>2, <1>6, <2>1, <2>2
    <2> QED
      BY <1>1, <1>4, <2>3
  <1>7. CASE j = pos
    <2>1. \A i \in 1 .. pos - 1 : s[i] = order[i]
      BY <1>1, <1>4, <1>7
    <2> QED
      BY <1>4, <1>5, <1>6, <1>7, <2>1 DEF Picked
  <1>8. CASE j # pos
    <2> DEFINE P == {s[i] : i \in 1 .. pos - 1}
    <2>1. j \in 1 .. pos - 1 /\ j # 0
      BY <1>1, <1>8
    <2>2. After(j) = (Picked \cup {order[pos]}) \ {order[j]}
      BY <2>1 DEF After
    <2>3. ASSUME NEW i \in 1 .. pos - 1 PROVE s[i] \in After(j)
      <3> DEFINE a == IF i < j THEN i ELSE i + 1
      <3>1. a \in 1 .. pos /\ a # j /\ s[i] = order[a]
        BY <1>1, <1>4, <2>1
      <3> HIDE DEF a
      <3>2. order[a] # order[j]
        BY <1>1, <1>2, <1>3, <3>1
      <3>3. order[a] \in Picked \cup {order[pos]}
        BY <1>1, <3>1 DEF Picked
      <3> QED
        BY <2>2, <3>1, <3>2, <3>3
    <2>4. ASSUME NEW t \in After(j) PROVE \E i \in 1 .. pos - 1 : s[i] = t
      <3>1. PICK a \in 1 .. pos : t = order[a]
        BY <1>1, <2>2 DEF Picked
      <3>2. a # j
        BY <2>2, <3>1
      <3>3. CASE a < j
        <4>1. a \in 1 .. pos - 1 /\ s[a] = order[a]
          BY <1>1, <1>4, <2>1, <3>3
        <4> QED
          BY <3>1, <4>1
      <3>4. CASE a > j
        <4>1. a - 1 \in 1 .. pos - 1 /\ ~(a - 1 < j) /\ (a - 1) + 1 = a
          BY <1>1, <2>1, <3>4
        <4>2. s[a - 1] = order[(a - 1) + 1]
          BY <1>1, <1>4, <4>1
        <4>3. s[a - 1] = order[a]
          BY <4>1, <4>2, Zenon
        <4> QED
          BY <3>1, <4>1, <4>3
      <3> QED
        BY <1>1, <3>2, <3>3, <3>4
    <2>5. P = After(j)
      BY <2>3, <2>4
    <2> QED
      BY <1>4, <1>5, <1>6, <1>8, <2>5
  <1> QED
    BY <1>7, <1>8

LEMMA PickTxKeeps ==
    ASSUME Inv, PickTx
    PROVE  Inv'
  <1> DEFINE r == Dropped
  <1>1. /\ stage = "pick" /\ pos <= Len(order)
        /\ order' = IF r = 0 THEN order ELSE Erased(r)
        /\ pos' = IF r = 0 THEN pos + 1 ELSE pos
        /\ finalReward' = IF r = pos THEN finalReward ELSE RewardWith(r)
        /\ finalFees' = FeesWith(r) /\ finalWeight' = WeightWith(r)
        /\ UNCHANGED <<mempool, stage, data, chosen, maxAmounts, minerSize, nonceSize, branch,
                       splitVars>>
    BY DEF PickTx
  <1>2. \/ r = pos
        \/ r \in 0 .. pos - 1 /\ RewardWith(r) > finalReward
    BY <1>1, DroppedIs
  <1> HIDE DEF r
  <1>3. /\ order \in Seq(Txs) /\ Len(order) \in Nat /\ pos \in 1 .. Len(order)
        /\ finalReward \in Nat /\ finalFees \in Nat /\ finalWeight \in Nat
    BY <1>1 DEF Inv, LocalsOK
  <1>4. /\ \A i, j \in 1 .. Len(order) : order[i] = order[j] => i = j
        /\ finalFees = TotalFees(Picked) /\ finalWeight = minerSize + TotalWeight(Picked)
        /\ finalReward >= Base(data)
        /\ minerSize <= data.median => finalReward = RewardOf(data, finalFees, finalWeight)
    BY <1>1 DEF Inv, UpdateInv, PickInv
  <1>5. Base(data) \in Nat
    BY SizeTypes
  <1>6. /\ SplitInv' /\ CheckedSum'
    BY <1>1, SplitStepInv, CheckedStep DEF Inv
  <1>7. MempoolOK' /\ CallInv' /\ SizeInv'
    BY <1>1 DEF Inv, UpdateInv, MempoolOK, Pooled, CallInv, SizeInv, splitVars
  <1>8. CollectInv' /\ PayInv' /\ DoneInv'
    BY <1>1 DEF CollectInv, PayInv, DoneInv
  <1>9. SUFFICES /\ order' \in Seq(Txs) /\ pos' \in 1 .. Len(order') + 1
                 /\ finalFees' \in Nat /\ finalWeight' \in Nat /\ finalReward' \in Nat
                 /\ \A i, j \in 1 .. Len(order') : order'[i] = order'[j] => i = j
                 /\ finalFees' = TotalFees(Picked')
                 /\ finalWeight' = minerSize + TotalWeight(Picked')
                 /\ finalReward' >= Base(data)
                 /\ minerSize <= data.median =>
                       finalReward' = RewardOf(data, finalFees', finalWeight')
    <2>1. LocalsOK'
      BY <1>1, <1>9 DEF Inv, LocalsOK
    <2>2. PickInv'
      BY <1>1, <1>9, Zenon DEF PickInv
    <2> QED
      BY <1>6, <1>7, <1>8, <2>1, <2>2 DEF Inv, UpdateInv
  <1>10. Picked' = {order'[i] : i \in 1 .. pos' - 1}
    BY DEF Picked
  <1>11. CASE r = pos
    <2>1. order' = RemoveAt(order, pos) /\ pos' = pos /\ finalReward' = finalReward
      BY <1>1, <1>3, <1>11 DEF Erased
    <2>2. /\ order' \in Seq(Txs) /\ pos \in 1 .. Len(order') + 1
          /\ \A i, j \in 1 .. Len(order') : order'[i] = order'[j] => i = j
          /\ {order'[i] : i \in 1 .. pos - 1} = Picked
      <3>1. pos \in 1 .. pos
        BY <1>3
      <3> QED
        BY <1>1, <2>1, <3>1, PickedAfter
    <2>3. Picked' = Picked
      BY <1>10, <2>1, <2>2
    <2>4. finalFees' = finalFees /\ finalWeight' = finalWeight
      <3>1. FeeAt(pos) \in Nat /\ WeightAt(pos) \in Nat
        BY <1>3, TemplateContentsAssumption DEF FeeAt, WeightAt
      <3> QED
        BY <1>1, <1>3, <1>11, <3>1 DEF FeesWith, WeightWith
    <2> QED
      BY <1>3, <1>4, <2>1, <2>2, <2>3, <2>4
  <1>12. CASE r \in 0 .. pos - 1 /\ RewardWith(r) > finalReward
    <2>1. /\ After(r) \subseteq Txs
          /\ FeesWith(r) = TotalFees(After(r)) /\ FeesWith(r) \in Nat
          /\ WeightWith(r) = minerSize + TotalWeight(After(r)) /\ WeightWith(r) \in Nat
          /\ RewardWith(r) = RewardOf(data, FeesWith(r), WeightWith(r)) /\ RewardWith(r) \in Nat
      BY <1>1, <1>12, PickSums
    <2>2. finalReward' = RewardWith(r)
      BY <1>1, <1>3, <1>12
    <2>3. finalReward' >= Base(data) /\ finalReward' \in Nat
      BY <1>3, <1>4, <1>5, <1>12, <2>1, <2>2
    <2>4. /\ order' \in Seq(Txs) /\ pos' \in 1 .. Len(order') + 1
          /\ \A i, j \in 1 .. Len(order') : order'[i] = order'[j] => i = j
          /\ Picked' = After(r)
      <3>1. CASE r = 0
        <4>1. order' = order /\ pos' = pos + 1
          BY <1>1, <3>1
        <4>2. pos' - 1 = pos
          BY <1>3, <4>1
        <4>3. Picked' = {order[i] : i \in 1 .. pos}
          BY <1>10, <4>1, <4>2, Zenon
        <4>4. {order[i] : i \in 1 .. pos} = Picked \cup {order[pos]}
          BY <1>3 DEF Picked
        <4>5. Picked' = After(r)
          BY <3>1, <4>3, <4>4 DEF After
        <4>6. pos' \in 1 .. Len(order') + 1
          BY <1>3, <4>1
        <4> QED
          BY <1>3, <1>4, <4>1, <4>5, <4>6
      <3>2. CASE r # 0
        <4>1. order' = RemoveAt(order, r) /\ pos' = pos
          BY <1>1, <3>2 DEF Erased
        <4>2. r \in 1 .. pos /\ r # pos
          BY <1>3, <1>12, <3>2
        <4>3. /\ order' \in Seq(Txs) /\ pos \in 1 .. Len(order') + 1
              /\ \A i, j \in 1 .. Len(order') : order'[i] = order'[j] => i = j
              /\ {order'[i] : i \in 1 .. pos - 1} = IF r = pos THEN Picked ELSE After(r)
          BY <1>1, <4>1, <4>2, PickedAfter
        <4> QED
          BY <1>10, <4>1, <4>2, <4>3
      <3> QED
        BY <3>1, <3>2
    <2>5. finalFees' = TotalFees(Picked') /\ finalWeight' = minerSize + TotalWeight(Picked')
      BY <1>1, <2>1, <2>4, Zenon
    <2>6. finalReward' = RewardOf(data, finalFees', finalWeight')
      BY <1>1, <2>1, <2>2, Zenon
    <2>7. finalFees' \in Nat /\ finalWeight' \in Nat
      BY <1>1, <2>1
    <2> QED
      BY <2>3, <2>4, <2>5, <2>6, <2>7
  <1> QED
    BY <1>2, <1>11, <1>12

\* A miner transaction that fits is padded to the size it was expected to have
LEMMA FinishKeeps ==
    ASSUME Inv, Fits, Finish, phase = "true", stage \in {"final", "again"},
           UNCHANGED <<mempool, data, chosen, order, pos, finalReward, finalFees, finalWeight,
                       maxAmounts, minerSize, splitVars>>
    PROVE  Inv'
  <1>1. /\ nonceSize' = NonceFor(maxAmounts) /\ stage' = "done"
        /\ branch' = MainBranch(<<MinerTxHash(ZeroNonce)>> \o order)
    BY DEF Finish
  <1>2. /\ AmountsWeight \in Nat /\ maxAmounts \in Nat /\ NonceSize \in Nat /\ NonceMaxSize \in Nat
    BY SizeTypes, TemplateContentsAssumption DEF Inv, LocalsOK
  <1>3. nonceSize' \in NonceSize .. NonceMaxSize
    BY <1>1, <1>2 DEF Fits, TooLarge, TooSmall, NonceFor
  <1>4. SplitInv' /\ CheckedSum'
    BY SplitStepInv, CheckedStep DEF Inv
  <1>5. shares' = shares /\ reward' = reward /\ phase' = phase /\ rewards' = rewards
    BY DEF splitVars
  <1>6. MempoolOK' /\ LocalsOK'
    BY <1>1, <1>3 DEF Inv, MempoolOK, LocalsOK, Pooled
  <1>7. DoneInv'
    <2>1. AmountsWeight' = AmountsWeight
      BY <1>5 DEF AmountsWeight
    <2>2. NonceFor(maxAmounts)' = NonceFor(maxAmounts)
      BY <2>1 DEF NonceFor
    <2> QED
      BY <1>1, <1>5, <2>2 DEF DoneInv
  <1>8. CallInv' /\ SizeInv' /\ PayInv' /\ PickInv'
    BY <1>1, <1>5 DEF Inv, UpdateInv, CallInv, SizeInv, PayInv, PickInv
  <1>9. CollectInv'
    <2>1. /\ finalFees = TotalFees(ToSet(order))
          /\ finalWeight = minerSize + TotalWeight(ToSet(order))
          /\ finalReward = RewardOf(data, finalFees, finalWeight)
      BY DEF Inv, UpdateInv, CollectInv
    <2> QED
      BY <1>1, <2>1 DEF CollectInv
  <1> QED
    BY <1>4, <1>6, <1>7, <1>8, <1>9 DEF Inv, UpdateInv

LEMMA RealRunKeeps ==
    ASSUME Inv, RealRun
    PROVE  Inv'
  <1>1. /\ stage = "final" /\ phase = "true"
        /\ UNCHANGED <<mempool, data, chosen, order, pos, finalReward, finalFees, finalWeight,
                       maxAmounts, minerSize>>
    BY DEF RealRun
  <1>2. CASE Fits /\ Finish /\ UNCHANGED splitVars
    BY <1>1, <1>2, FinishKeeps
  <1> DEFINE least == Max({finalWeight - Len(rewards), 0})
  <1>3. CASE /\ TooSmall /\ SplitCall(shares, get_block_reward(finalFees, least))
             /\ stage' = "refine" /\ UNCHANGED <<nonceSize, branch>>
    <2>1. /\ finalFees \in Nat /\ finalWeight \in Nat /\ shares \in Seq(Nat)
          /\ data \in Inputs \cup {Nothing} /\ Len(rewards) \in Nat
      <3>1. rewards \in Seq(Nat) /\ shares \in Seq(Nat)
        BY DEF Inv, SplitInv, SplitTypeOK
      <3> QED
        BY <3>1 DEF Inv, LocalsOK
    <2>2. least \in Nat
      <3> DEFINE a == finalWeight - Len(rewards)
      <3>1. a \in Int /\ 0 \in Int
        BY <2>1
      <3> HIDE DEF a
      <3>2. Max({a, 0}) \in {a, 0} /\ Max({a, 0}) >= 0
        BY <3>1, MaxOfTwo
      <3>3. Max({a, 0}) \in Nat
        BY <3>1, <3>2
      <3> QED
        BY <3>3 DEF a
    <2> HIDE DEF least
    <2>3. get_block_reward(finalFees, least) \in Nat
      BY <2>1, <2>2, RewardType
    <2>4. SplitInv' /\ CheckedSum' /\ shares' = shares
      BY <1>3, <2>1, <2>3, CallsKeep
    <2>5. MempoolOK' /\ LocalsOK'
      BY <1>1, <1>3 DEF Inv, MempoolOK, LocalsOK, Pooled
    <2>6. CallInv' /\ SizeInv' /\ PayInv' /\ PickInv' /\ DoneInv'
      BY <1>1, <1>3, <2>4 DEF Inv, UpdateInv, CallInv, SizeInv, PayInv, PickInv, DoneInv
    <2>7. CollectInv'
      BY <1>1, <1>3 DEF Inv, UpdateInv, CollectInv
    <2> QED
      BY <2>4, <2>5, <2>6, <2>7 DEF Inv, UpdateInv
  <1> QED
    BY <1>2, <1>3 DEF RealRun

LEMMA RefineKeeps ==
    ASSUME Inv, Refine
    PROVE  Inv'
  <1>1. /\ stage = "refine" /\ stage' = "again" /\ maxAmounts' = AmountsWeight
        /\ minerSize' = MinerTxSize(NonceSize)
        /\ finalWeight' = finalWeight - minerSize + minerSize'
        /\ finalReward' = get_block_reward(finalFees, finalWeight')
        /\ SplitCall(shares, finalReward')
        /\ UNCHANGED <<mempool, data, chosen, order, pos, finalFees, nonceSize, branch>>
    BY DEF Refine, Refined
  <1>2. /\ minerSize' \in Nat /\ maxAmounts' \in Nat
        /\ minerSize' = TxOverhead + Len(shares) * OutputSize + maxAmounts' + NonceSize
    BY <1>1, SizeTypes
  <1>3. /\ finalFees \in Nat /\ finalWeight \in Nat /\ minerSize \in Nat /\ shares \in Seq(Nat)
        /\ data \in Inputs \cup {Nothing} /\ order \in Seq(Txs)
    BY DEF Inv, LocalsOK, SplitInv, SplitTypeOK
  <1>4. /\ finalFees = TotalFees(ToSet(order))
        /\ finalWeight = minerSize + TotalWeight(ToSet(order))
    BY <1>1 DEF Inv, UpdateInv, CollectInv
  <1>5. TotalWeight(ToSet(order)) \in Nat
    <2>1. ToSet(order) \subseteq Txs
      BY <1>3 DEF ToSet
    <2> QED
      BY <2>1, Totals
  <1>6. finalWeight' = minerSize' + TotalWeight(ToSet(order)) /\ finalWeight' \in Nat
    BY <1>1, <1>2, <1>3, <1>4, <1>5
  <1>7. finalReward' = RewardOf(data, finalFees, finalWeight') /\ finalReward' \in Nat
    BY <1>1, <1>3, <1>6, RewardIs, RewardType
  <1>8. SplitInv' /\ CheckedSum' /\ shares' = shares /\ reward' = finalReward'
    BY <1>1, <1>3, <1>7, CallsKeep
  <1>9. MempoolOK' /\ LocalsOK'
    BY <1>1, <1>2, <1>6, <1>7 DEF Inv, MempoolOK, LocalsOK, Pooled
  <1>10. CallInv' /\ SizeInv' /\ PayInv' /\ PickInv' /\ DoneInv'
    BY <1>1, <1>2, <1>8 DEF Inv, UpdateInv, CallInv, SizeInv, PayInv, PickInv, DoneInv
  <1>11. CollectInv'
    BY <1>1, <1>4, <1>6, <1>7, Zenon DEF CollectInv
  <1> QED
    BY <1>8, <1>9, <1>10, <1>11 DEF Inv, UpdateInv

LEMMA UseOldTemplateKeeps ==
    ASSUME Inv, UseOldTemplate
    PROVE  Inv'
  <1>1. stage' = "locked" /\ UNCHANGED <<mempool, locals, splitVars>>
    BY DEF UseOldTemplate
  <1>2. SplitInv' /\ CheckedSum'
    BY <1>1, SplitStepInv, CheckedStep DEF Inv
  <1>3. MempoolOK' /\ LocalsOK'
    BY <1>1 DEF Inv, MempoolOK, LocalsOK, Pooled, locals
  <1>4. UpdateInv'
    BY <1>1 DEF UpdateInv, CallInv, SizeInv, PickInv, CollectInv, PayInv, DoneInv
  <1> QED
    BY <1>2, <1>3, <1>4 DEF Inv

LEMMA ReturnKeeps ==
    ASSUME Inv, Return
    PROVE  Inv'
  <1>1. /\ stage' = "idle" /\ data' = Nothing /\ chosen' = {} /\ order' = <<>> /\ pos' = 1
        /\ finalReward' = 0 /\ finalFees' = 0 /\ finalWeight' = 0
        /\ maxAmounts' = 0 /\ minerSize' = 0 /\ nonceSize' = NonceSize
        /\ SplitCall(<<>>, 0) /\ mempool' = mempool
    BY DEF Return
  <1>2. SplitInv' /\ CheckedSum'
    <2>1. <<>> \in Seq(Nat) /\ 0 \in Nat
      OBVIOUS
    <2> QED
      BY <1>1, <2>1, CallsKeep
  <1>3. MempoolOK' /\ LocalsOK'
    BY <1>1, TemplateContentsAssumption DEF Inv, MempoolOK, LocalsOK, Pooled
  <1>4. UpdateInv'
    BY <1>1 DEF UpdateInv, CallInv, SizeInv, PickInv, CollectInv, PayInv, DoneInv
  <1> QED
    BY <1>2, <1>3, <1>4 DEF Inv

LEMMA StepInv ==
    ASSUME Inv, [Next]_vars
    PROVE  Inv'
  <1>1. ASSUME RealRunAgain PROVE Inv'
    BY <1>1, FinishKeeps DEF RealRunAgain
  <1>2. ASSUME UNCHANGED vars PROVE Inv'
    <2>1. UNCHANGED <<stage, locals, splitVars>> /\ mempool' = mempool
      BY <1>2 DEF vars
    <2>2. MempoolOK'
      BY <2>1 DEF Inv, MempoolOK, Pooled
    <2> QED
      BY <2>1, <2>2, StutterInv
  <1>3. ASSUME UpdateStep PROVE Inv'
    BY <1>1, <1>3, SplitKeeps, DryRunKeeps, PickTxKeeps, EndOfPickingKeeps, RealRunKeeps,
       RefineKeeps, UseOldTemplateKeeps, ReturnKeeps DEF UpdateStep
  <1> QED
    BY <1>2, <1>3, MempoolSteps, UpdateKeeps DEF Next

LEMMA Invariance == Spec => []Inv
  BY InitInv, StepInv, PTL DEF Spec

-----------------------------------------------------------------------------
(* Results                                                                 *)

\* The mempool, the members of an update and the variables of split_reward keep their
\* types, whatever is picked, replaced and refined: no sum falls below zero, and the
\* extra nonce never outgrows its field.
THEOREM TemplateTypes == Spec => []TypeOK
  BY Invariance, InvTypes, PTL

\* Every finished template pays exactly the reward of its fees and of its weight, for any
\* transactions, shares and rewards, with or without the second round of create_miner_tx.
THEOREM PaysItsReward == Spec => []PaysTheRewardOfItsWeight
  <1>1. Inv => PaysTheRewardOfItsWeight
    <2> SUFFICES ASSUME Inv, stage = "done" PROVE PaysTheRewardOfItsWeight
      BY DEF PaysTheRewardOfItsWeight
    <2> DEFINE S == ToSet(order)
    <2>1. SumFunction(rewards) = reward
      BY RewardPaid DEF Inv, UpdateInv, DoneInv
    <2>2. /\ reward = finalReward /\ nonceSize = NonceFor(maxAmounts)
          /\ finalFees = TotalFees(S) /\ finalWeight = minerSize + TotalWeight(S)
          /\ finalReward = RewardOf(data, finalFees, finalWeight)
          /\ minerSize = TxOverhead + Len(shares) * OutputSize + maxAmounts + NonceSize
      BY DEF Inv, UpdateInv, PayInv, DoneInv, CollectInv, SizeInv
    <2>3. MinerTxSize(nonceSize) = minerSize
      <3> DEFINE o == Len(shares) * OutputSize
      <3>1. /\ AmountsWeight \in Nat /\ maxAmounts \in Nat /\ NonceSize \in Nat
            /\ TxOverhead \in Nat /\ Len(shares) \in Nat /\ OutputSize \in Nat
        BY SizeTypes, TemplateContentsAssumption DEF Inv, LocalsOK
      <3>2. o \in Nat
        BY <3>1
      <3>3. /\ MinerTxSize(nonceSize)
                 = TxOverhead + o + AmountsWeight + (NonceSize + (maxAmounts - AmountsWeight))
            /\ minerSize = TxOverhead + o + maxAmounts + NonceSize
        BY <2>2, Zenon DEF MinerTxSize, NonceFor
      <3> HIDE DEF o
      <3> QED
        BY <3>1, <3>2, <3>3
    <2>4. get_block_reward(TotalFees(S), MinerTxSize(nonceSize) + TotalWeight(S))
            = RewardOf(data, TotalFees(S), MinerTxSize(nonceSize) + TotalWeight(S))
      BY RewardIs
    <2> QED
      BY <2>1, <2>2, <2>3, <2>4, Zenon DEF PaysTheRewardOfItsWeight
  <1> QED
    BY <1>1, Invariance, PTL

\* As long as the miner transaction alone is not above the median weight, the sums of the
\* picking loop are those of the transactions picked, after any replacements, and the
\* template it ends with is worth the base reward at least.
THEOREM PicksPay ==
    Spec => [](minerSize <= data.median =>
                 /\ SumsFollowThePicks
                 /\ stage \in {"pick", "final", "refine"} => finalReward >= BaseReward)
  <1>1. Inv => (minerSize <= data.median =>
                  /\ SumsFollowThePicks
                  /\ stage \in {"pick", "final", "refine"} => finalReward >= BaseReward)
    <2> SUFFICES ASSUME Inv, minerSize <= data.median
                 PROVE  /\ SumsFollowThePicks
                        /\ stage \in {"pick", "final", "refine"} => finalReward >= BaseReward
      OBVIOUS
    <2>1. ASSUME stage = "pick" PROVE SumsFollowThePicks /\ finalReward >= BaseReward
      <3>1. /\ finalFees = TotalFees(Picked) /\ finalWeight = minerSize + TotalWeight(Picked)
            /\ finalReward >= Base(data)
            /\ finalReward = RewardOf(data, finalFees, finalWeight)
        BY <2>1 DEF Inv, UpdateInv, PickInv
      <3>2. finalReward = get_block_reward(finalFees, finalWeight) /\ Base(data) = BaseReward
        BY <3>1, RewardIs
      <3> QED
        BY <3>1, <3>2, Zenon DEF SumsFollowThePicks, Picked
    <2>2. ASSUME stage \in {"final", "refine"} PROVE finalReward >= BaseReward
      BY <2>2, RewardIs DEF Inv, UpdateInv, CollectInv
    <2>3. stage # "pick" => SumsFollowThePicks
      BY DEF SumsFollowThePicks
    <2> QED
      BY <2>1, <2>2, <2>3
  <1> QED
    BY <1>1, Invariance, PTL

\* For every extra nonce and any number of transactions, the branch that the template
\* keeps leads from the miner transaction to the root that the other nodes compute.
THEOREM BranchIsRight == Spec => []BranchLeadsToRoot
  <1>1. Inv => BranchLeadsToRoot
    <2> SUFFICES ASSUME Inv, stage = "done", NEW e \in ExtraNonces
                 PROVE  RootFromBranch(MinerTxHash(e), branch) = Root(<<MinerTxHash(e)>> \o order)
      BY DEF BranchLeadsToRoot
    <2> DEFINE a == MinerTxHash(ZeroNonce)
               b == MinerTxHash(e)
               h == <<a>> \o order
               g == <<b>> \o order
    <2>1. branch = MainBranch(h)
      BY DEF Inv, UpdateInv, DoneInv
    <2>2. order \in Seq(Txs) /\ Len(order) \in Nat
      BY DEF Inv, LocalsOK
    <2> HIDE DEF a, b
    <2>3. order \in Seq(Txs \cup {a, b}) /\ <<a>> \in Seq(Txs \cup {a, b})
          /\ <<b>> \in Seq(Txs \cup {a, b})
      BY <2>2
    <2>4. Len(h) = Len(order) + 1 /\ Len(g) = Len(order) + 1
      BY <2>2, <2>3
    <2>5. \A j \in 2 .. Len(h) : h[j] = g[j]
      BY <2>2, <2>3, <2>4
    <2>6. g[1] = b
      BY <2>2, <2>3
    <2> HIDE DEF h, g
    <2>7. Len(h) \in Nat \ {0} /\ Len(g) = Len(h)
      BY <2>2, <2>4
    <2>8. RootFromBranch(g[1], MainBranch(h)) = Root(g)
      BY <2>5, <2>7, BranchToRoot
    <2> QED
      BY <2>1, <2>6, <2>8, Zenon DEF g, b
  <1> QED
    BY <1>1, Invariance, PTL

\* Whenever update() calls split_reward, for any reward, it succeeds, as every share has a
\* weight, and rounds fairly: update() never goes back to the old template because of it.
THEOREM SplitNeverFails ==
    Spec => [](stage \notin {"idle", "locked"} => phase # "false" /\ RoundingIsFair)
  <1>1. ASSUME Inv, stage \notin {"idle", "locked"}
        PROVE  phase # "false" /\ RoundingIsFair
    <2>1. data \in Inputs /\ shares = data.weights /\ SplitInv
      BY <1>1 DEF Inv, UpdateInv, CallInv
    <2>2. shares \in Seq(Nat \ {0}) /\ shares # <<>>
      BY <2>1, TemplateContentsAssumption
    <2> QED
      BY <2>1, <2>2, SharesHaveWeight, RoundingFollows
  <1> QED
    BY <1>1, Invariance, PTL

=============================================================================
