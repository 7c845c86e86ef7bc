----------------------------- MODULE PplnsProofs -----------------------------
(***************************************************************************)
(* What a block is worth and what it pays, for any tree of blocks, any     *)
(* clocks, any number of miners and any window.                            *)
(***************************************************************************)
EXTENDS Pplns, FiniteSetTheorems, NaturalsInduction, WellFoundedInduction, TLAPS

-----------------------------------------------------------------------------
(* Numbers and sums                                                        *)

\* Induction over numbers is done with the least number for which a claim fails
LEMMA LeastNumber ==
    ASSUME NEW T, T \subseteq Nat, T # {}
    PROVE  \E x \in T : \A y \in T : x <= y
  <1>1. \E R : IsWellFoundedOn(R, Nat) /\ \A x, y \in Nat : y < x => <<y, x>> \in R
    <2>1. IsWellFoundedOn(OpToRel(<, Nat), Nat)
      BY NatLessThanWellFounded
    <2>2. \A x, y \in Nat : y < x => <<y, x>> \in OpToRel(<, Nat)
      BY DEF OpToRel
    <2> QED
      BY <2>1, <2>2, Zenon
  <1>2. PICK R : IsWellFoundedOn(R, Nat) /\ \A x, y \in Nat : y < x => <<y, x>> \in R
    BY <1>1
  <1>3. PICK x \in T : \A y \in T : ~(<<y, x>> \in R)
    BY <1>2, WFMin
  <1>4. ASSUME NEW y \in T PROVE x <= y
    <2>1. x \in Nat /\ y \in Nat /\ ~(y < x)
      BY <1>2, <1>3
    <2> QED
      BY <2>1
  <1> QED
    BY <1>4

\* The element that a sum takes first
First(s) == CHOOSE x \in s : TRUE

\* g is a function that sums f over the subsets of S, as SumFunctionOnSet builds it
Sums(f, S, g) ==
    g = [s \in SUBSET S |-> IF s = {} THEN 0 ELSE f[First(s)] + g[s \ {First(s)}]]

LEMMA SumDef ==
    ASSUME NEW f, NEW S
    PROVE SumFunctionOnSet(f, S) = (CHOOSE g : Sums(f, S, g))[S]
  BY DEF SumFunctionOnSet, FoldFunctionOnSet, MapThenFoldSet, Sums, First

LEMMA FirstIn ==
    ASSUME NEW S, IsFiniteSet(S), S # {}
    PROVE  /\ First(S) \in S /\ IsFiniteSet(S \ {First(S)})
           /\ Cardinality(S) \in Nat /\ Cardinality(S \ {First(S)}) = Cardinality(S) - 1
  <1>1. First(S) \in S
    BY DEF First
  <1> QED
    BY <1>1, FS_RemoveElement, FS_CardinalityType

\* A finite set has such a function
LEMMA SumsExists ==
    ASSUME NEW f, NEW S, IsFiniteSet(S)
    PROVE  \E g : Sums(f, S, g)
  <1> DEFINE Body(g) == [s \in SUBSET S |-> IF s = {} THEN 0 ELSE f[First(s)] + g[s \ {First(s)}]]
             Upto(n) == \E g : \A s \in SUBSET S : Cardinality(s) <= n => g[s] = Body(g)[s]
             T == {n \in Nat : ~Upto(n)}
  <1>0. ASSUME NEW s \in SUBSET S PROVE IsFiniteSet(s) /\ Cardinality(s) \in Nat
    BY FS_Subset, FS_CardinalityType
  <1>1. Upto(0)
    <2> DEFINE z == [s \in SUBSET S |-> 0]
    <2>1. ASSUME NEW s \in SUBSET S, Cardinality(s) <= 0 PROVE z[s] = Body(z)[s]
      <3>1. s = {}
        BY <1>0, <2>1, FS_EmptySet
      <3> QED
        BY <3>1
    <2> HIDE DEF z, Body
    <2> QED
      BY <2>1
  <1>2. ASSUME NEW n \in Nat, Upto(n) PROVE Upto(n + 1)
    <2>1. PICK g : \A s \in SUBSET S : Cardinality(s) <= n => g[s] = Body(g)[s]
      BY <1>2
    <2> DEFINE h == Body(g)
    <2>2. ASSUME NEW s \in SUBSET S, Cardinality(s) <= n + 1 PROVE h[s] = Body(h)[s]
      <3>1. CASE s = {}
        BY <3>1
      <3>2. CASE s # {}
        <4> DEFINE r == s \ {First(s)}
        <4>1. r \in SUBSET S /\ Cardinality(r) <= n
          BY <1>0, <2>2, <3>2, FirstIn
        <4>2. g[r] = h[r]
          BY <2>1, <4>1
        <4>3. h[s] = f[First(s)] + g[r] /\ Body(h)[s] = f[First(s)] + h[r]
          BY <3>2
        <4> QED
          BY <4>2, <4>3
      <3> QED
        BY <3>1, <3>2
    <2> HIDE DEF h, Body
    <2> QED
      BY <2>2
  <1>3. T = {}
    <2> SUFFICES ASSUME T # {} PROVE FALSE
      OBVIOUS
    <2> HIDE DEF Upto
    <2>1. PICK n \in T : \A m \in T : n <= m
      BY LeastNumber
    <2>2. n \in Nat /\ n # 0 /\ ~Upto(n)
      BY <1>1
    <2>3. n - 1 \in Nat /\ n - 1 \notin T
      BY <2>1, <2>2
    <2>4. Upto(n - 1)
      BY <2>3
    <2> QED
      BY <1>2, <2>2, <2>3, <2>4
  <1>4. PICK g : \A s \in SUBSET S : Cardinality(s) <= Cardinality(S) => g[s] = Body(g)[s]
    <2>1. Upto(Cardinality(S))
      <3> HIDE DEF Upto
      <3> QED
        BY <1>0, <1>3
    <2> QED
      BY <2>1
  <1>5. ASSUME NEW s \in SUBSET S PROVE Cardinality(s) <= Cardinality(S)
    BY FS_Subset
  <1> DEFINE h == Body(g)
  <1>6. \A s \in SUBSET S : g[s] = h[s]
    BY <1>4, <1>5
  <1>7. h = Body(h)
    <2>1. ASSUME NEW s \in SUBSET S PROVE h[s] = Body(h)[s]
      <3>1. CASE s = {}
        BY <3>1
      <3>2. CASE s # {}
        <4>1. h[s] = f[First(s)] + g[s \ {First(s)}] /\ Body(h)[s] = f[First(s)] + h[s \ {First(s)}]
          BY <3>2
        <4> QED
          BY <1>6, <4>1
      <3> QED
        BY <3>1, <3>2
    <2> QED
      BY <2>1
  <1>8. Sums(f, S, h)
    BY <1>7 DEF Sums
  <1> QED
    BY <1>8

\* Two of them agree wherever both are defined
LEMMA SumsAgree ==
    ASSUME NEW f, NEW S, NEW R, NEW g, NEW h, Sums(f, S, g), Sums(f, R, h),
           NEW s, s \subseteq S, s \subseteq R, IsFiniteSet(s)
    PROVE  g[s] = h[s]
  <1> DEFINE Bad == {q \in SUBSET s : g[q] # h[q]}
             T == {Cardinality(q) : q \in Bad}
  <1>0. ASSUME NEW q \in SUBSET s PROVE IsFiniteSet(q) /\ Cardinality(q) \in Nat
    BY FS_Subset, FS_CardinalityType
  <1>1. SUFFICES ASSUME Bad # {} PROVE FALSE
    OBVIOUS
  <1>2. T \subseteq Nat /\ T # {}
    BY <1>0, <1>1
  <1>3. PICK n \in T : \A m \in T : n <= m
    BY <1>2, LeastNumber
  <1>4. PICK q \in Bad : n = Cardinality(q)
    BY <1>3
  <1>5. /\ g[q] = IF q = {} THEN 0 ELSE f[First(q)] + g[q \ {First(q)}]
        /\ h[q] = IF q = {} THEN 0 ELSE f[First(q)] + h[q \ {First(q)}]
    BY DEF Sums
  <1>6. q # {} /\ g[q \ {First(q)}] # h[q \ {First(q)}]
    BY <1>5
  <1>7. q \ {First(q)} \in Bad
    BY <1>6
  <1>8. Cardinality(q \ {First(q)}) = Cardinality(q) - 1 /\ Cardinality(q) \in Nat
    BY <1>0, <1>6, FirstIn
  <1> QED
    BY <1>3, <1>4, <1>7, <1>8

\* The sum of nothing, and the sum of a set by its first element
LEMMA SumStep ==
    ASSUME NEW f, NEW S, IsFiniteSet(S)
    PROVE  SumFunctionOnSet(f, S)
             = IF S = {} THEN 0 ELSE f[First(S)] + SumFunctionOnSet(f, S \ {First(S)})
  <1> DEFINE R == S \ {First(S)}
  <1>1. IsFiniteSet(R)
    BY FS_Subset
  <1>2. PICK g : Sums(f, S, g) /\ SumFunctionOnSet(f, S) = g[S]
    BY SumDef, SumsExists, Zenon
  <1>3. PICK h : Sums(f, R, h) /\ SumFunctionOnSet(f, R) = h[R]
    BY <1>1, SumDef, SumsExists, Zenon
  <1>4. g[R] = h[R]
    BY <1>1, <1>2, <1>3, SumsAgree
  <1>5. g[S] = IF S = {} THEN 0 ELSE f[First(S)] + g[R]
    BY <1>2 DEF Sums
  <1> QED
    BY <1>2, <1>3, <1>4, <1>5

LEMMA SumEmpty ==
    ASSUME NEW f
    PROVE  SumFunctionOnSet(f, {}) = 0
  BY SumStep, FS_EmptySet

\* What is true of the sums of smaller sets may be used for a sum: a set of sets without a
\* smallest one is empty
LEMMA SmallestSet ==
    ASSUME NEW Q, Q # {}, \A q \in Q : IsFiniteSet(q)
    PROVE  \E q \in Q : \A r \in Q : Cardinality(q) <= Cardinality(r)
  <1> DEFINE T == {Cardinality(q) : q \in Q}
  <1>1. T \subseteq Nat /\ T # {}
    BY FS_CardinalityType
  <1>2. PICK n \in T : \A m \in T : n <= m
    BY <1>1, LeastNumber
  <1> QED
    BY <1>2

\* A sum of integers is one, and one of natural numbers is a natural number
LEMMA SumType ==
    ASSUME NEW f, NEW S, IsFiniteSet(S), \A x \in S : f[x] \in Int
    PROVE  /\ SumFunctionOnSet(f, S) \in Int
           /\ (\A x \in S : f[x] >= 0) => SumFunctionOnSet(f, S) >= 0
  <1> DEFINE Good(q) == /\ SumFunctionOnSet(f, q) \in Int
                        /\ (\A x \in S : f[x] >= 0) => SumFunctionOnSet(f, q) >= 0
             Bad == {q \in SUBSET S : ~Good(q)}
  <1>0. ASSUME NEW q \in SUBSET S PROVE IsFiniteSet(q)
    BY FS_Subset
  <1>1. SUFFICES ASSUME Bad # {} PROVE FALSE
    <2>1. S \notin Bad => Good(S)
      OBVIOUS
    <2> QED
      BY <2>1
  <1>2. PICK q \in Bad : \A r \in Bad : Cardinality(q) <= Cardinality(r)
    BY <1>0, <1>1, SmallestSet
  <1>3. q # {}
    BY SumEmpty
  <1>4. /\ First(q) \in q /\ Cardinality(q) \in Nat
        /\ Cardinality(q \ {First(q)}) = Cardinality(q) - 1
    BY <1>0, <1>3, FirstIn
  <1>5. q \ {First(q)} \in SUBSET S /\ q \ {First(q)} \notin Bad
    BY <1>2, <1>4
  <1>6. Good(q \ {First(q)})
    BY <1>5
  <1>7. SumFunctionOnSet(f, q) = f[First(q)] + SumFunctionOnSet(f, q \ {First(q)})
    BY <1>0, <1>3, SumStep
  <1>8. f[First(q)] \in Int /\ ((\A x \in S : f[x] >= 0) => f[First(q)] >= 0)
    BY <1>4
  <1>9. Good(q)
    BY <1>6, <1>7, <1>8
  <1> QED
    BY <1>9

\* Any element may be taken first
LEMMA SumTake ==
    ASSUME NEW f, NEW S, IsFiniteSet(S), \A x \in S : f[x] \in Int, NEW x \in S
    PROVE  SumFunctionOnSet(f, S) = f[x] + SumFunctionOnSet(f, S \ {x})
  <1> DEFINE Good(q) ==
                 \A y \in q : SumFunctionOnSet(f, q) = f[y] + SumFunctionOnSet(f, q \ {y})
             Bad == {q \in SUBSET S : ~Good(q)}
  <1>0. ASSUME NEW q \in SUBSET S PROVE IsFiniteSet(q)
    BY FS_Subset
  <1>1. SUFFICES ASSUME Bad # {} PROVE FALSE
    <2>1. S \notin Bad => Good(S)
      OBVIOUS
    <2> QED
      BY <2>1
  <1>2. PICK q \in Bad : \A r \in Bad : Cardinality(q) <= Cardinality(r)
    BY <1>0, <1>1, SmallestSet
  <1>3. PICK y \in q : SumFunctionOnSet(f, q) # f[y] + SumFunctionOnSet(f, q \ {y})
    OBVIOUS
  <1> DEFINE p == First(q)
  <1>4. p \in q /\ SumFunctionOnSet(f, q) = f[p] + SumFunctionOnSet(f, q \ {p})
    BY <1>0, SumStep, FirstIn
  <1>5. p # y
    BY <1>3, <1>4
  <1>6. ASSUME NEW z \in q PROVE Good(q \ {z})
    <2>1. Cardinality(q \ {z}) = Cardinality(q) - 1 /\ Cardinality(q) \in Nat
      BY <1>0, FS_RemoveElement, FS_CardinalityType
    <2>2. q \ {z} \in SUBSET S /\ q \ {z} \notin Bad
      BY <1>2, <2>1
    <2> QED
      BY <2>2
  <1> HIDE DEF p, Bad
  <1>7. SumFunctionOnSet(f, q \ {p}) = f[y] + SumFunctionOnSet(f, (q \ {p}) \ {y})
    BY <1>4, <1>5, <1>6
  <1>8. SumFunctionOnSet(f, q \ {y}) = f[p] + SumFunctionOnSet(f, (q \ {y}) \ {p})
    BY <1>4, <1>5, <1>6
  <1>9. (q \ {p}) \ {y} = (q \ {y}) \ {p}
    OBVIOUS
  <1>10. f[p] \in Int /\ f[y] \in Int /\ SumFunctionOnSet(f, (q \ {p}) \ {y}) \in Int
    <2>1. q \subseteq S
      BY DEF Bad
    <2>2. IsFiniteSet((q \ {p}) \ {y}) /\ \A z \in (q \ {p}) \ {y} : f[z] \in Int
      BY <1>0, <2>1
    <2>3. SumFunctionOnSet(f, (q \ {p}) \ {y}) \in Int
      BY <2>2, SumType
    <2> QED
      BY <1>4, <2>1, <2>3
  <1>11. SumFunctionOnSet(f, (q \ {p}) \ {y}) = SumFunctionOnSet(f, (q \ {y}) \ {p})
    BY <1>9, Zenon
  <1> QED
    BY ONLY <1>3, <1>4, <1>7, <1>8, <1>10, <1>11

\* A sum depends only on the values of its set
LEMMA SumSame ==
    ASSUME NEW f, NEW g, NEW S, IsFiniteSet(S), \A x \in S : f[x] = g[x]
    PROVE  SumFunctionOnSet(f, S) = SumFunctionOnSet(g, S)
  <1> DEFINE Good(q) == SumFunctionOnSet(f, q) = SumFunctionOnSet(g, q)
             Bad == {q \in SUBSET S : ~Good(q)}
  <1>0. ASSUME NEW q \in SUBSET S PROVE IsFiniteSet(q)
    BY FS_Subset
  <1>1. SUFFICES ASSUME Bad # {} PROVE FALSE
    <2>1. S \notin Bad => Good(S)
      OBVIOUS
    <2> QED
      BY <2>1
  <1>2. PICK q \in Bad : \A r \in Bad : Cardinality(q) <= Cardinality(r)
    BY <1>0, <1>1, SmallestSet
  <1>3. q # {}
    BY SumEmpty
  <1>4. /\ First(q) \in q /\ Cardinality(q) \in Nat
        /\ Cardinality(q \ {First(q)}) = Cardinality(q) - 1
    BY <1>0, <1>3, FirstIn
  <1>5. q \ {First(q)} \in SUBSET S /\ q \ {First(q)} \notin Bad
    BY <1>2, <1>4
  <1>6. Good(q \ {First(q)}) /\ f[First(q)] = g[First(q)]
    BY <1>4, <1>5
  <1>7. /\ SumFunctionOnSet(f, q) = f[First(q)] + SumFunctionOnSet(f, q \ {First(q)})
        /\ SumFunctionOnSet(g, q) = g[First(q)] + SumFunctionOnSet(g, q \ {First(q)})
    BY <1>0, <1>3, SumStep
  <1>9. Good(q)
    BY <1>6, <1>7
  <1> QED
    BY <1>9

\* A new element
LEMMA SumAdd ==
    ASSUME NEW f, NEW S, IsFiniteSet(S), NEW x, x \notin S, \A y \in S \cup {x} : f[y] \in Int
    PROVE  SumFunctionOnSet(f, S \cup {x}) = SumFunctionOnSet(f, S) + f[x]
  <1>1. IsFiniteSet(S \cup {x}) /\ (S \cup {x}) \ {x} = S
    BY FS_AddElement
  <1>2. SumFunctionOnSet(f, S \cup {x}) = f[x] + SumFunctionOnSet(f, S)
    BY <1>1, SumTake
  <1>3. SumFunctionOnSet(f, S) \in Int /\ f[x] \in Int
    BY SumType
  <1> QED
    BY <1>2, <1>3

\* Two sets that have nothing in common
LEMMA SumUnion ==
    ASSUME NEW f, NEW S, NEW R, IsFiniteSet(S), IsFiniteSet(R), S \cap R = {},
           \A x \in S \cup R : f[x] \in Int
    PROVE  SumFunctionOnSet(f, S \cup R) = SumFunctionOnSet(f, S) + SumFunctionOnSet(f, R)
  <1> DEFINE Good(q) == SumFunctionOnSet(f, S \cup q) = SumFunctionOnSet(f, S) + SumFunctionOnSet(f, q)
             Bad == {q \in SUBSET R : ~Good(q)}
  <1>0. ASSUME NEW q \in SUBSET R PROVE IsFiniteSet(q)
    BY FS_Subset
  <1>1. SUFFICES ASSUME Bad # {} PROVE FALSE
    <2>1. R \notin Bad => Good(R)
      OBVIOUS
    <2> QED
      BY <2>1
  <1>2. PICK q \in Bad : \A r \in Bad : Cardinality(q) <= Cardinality(r)
    BY <1>0, <1>1, SmallestSet
  <1>3. SumFunctionOnSet(f, S) \in Int
    BY SumType
  <1>4. q # {}
    <2>1. S \cup {} = S
      OBVIOUS
    <2>2. SumFunctionOnSet(f, S \cup {}) = SumFunctionOnSet(f, S)
      BY <2>1, Zenon
    <2>3. Good({})
      BY <1>3, <2>2, SumEmpty
    <2> QED
      BY <2>3
  <1> DEFINE p == First(q)
             r == q \ {p}
  <1>5. /\ p \in q /\ Cardinality(q) \in Nat /\ IsFiniteSet(r)
        /\ Cardinality(r) = Cardinality(q) - 1
    BY <1>0, <1>4, FirstIn
  <1>6. r \in SUBSET R /\ r \notin Bad
    BY <1>2, <1>5
  <1>7. Good(r)
    BY <1>6
  <1> HIDE DEF p
  <1>8. r \cup {p} = q /\ (S \cup r) \cup {p} = S \cup q /\ p \notin S \cup r /\ p \notin r
    BY <1>5
  <1>9. IsFiniteSet(S \cup r)
    BY <1>5, FS_Union
  <1>10. SumFunctionOnSet(f, S \cup q) = SumFunctionOnSet(f, S \cup r) + f[p]
    BY <1>5, <1>8, <1>9, SumAdd
  <1>11. SumFunctionOnSet(f, q) = SumFunctionOnSet(f, r) + f[p]
    BY <1>5, <1>8, SumAdd
  <1>12. f[p] \in Int /\ SumFunctionOnSet(f, r) \in Int
    BY <1>5, SumType
  <1>13. Good(q)
    BY ONLY <1>3, <1>7, <1>10, <1>11, <1>12
  <1> QED
    BY <1>13

-----------------------------------------------------------------------------
(* The chain below a block.  `bs' stands for the blocks of one state, so   *)
(* that a lemma holds before and after a step.                             *)

\* One block down, as in get_parent
Down(bs, a) == IF a = NoBlock THEN NoBlock ELSE bs[a].parent

\* g goes down from b, as Ancestor builds it
Goes(bs, b, i, g) == g = [j \in 0 .. i |-> IF j = 0 THEN b ELSE Down(bs, g[j - 1])]

Anc(bs, b, i) == (CHOOSE g : Goes(bs, b, i, g))[i]

LEMMA AncestorIsAnc ==
    ASSUME NEW b, NEW i
    PROVE  Ancestor(b, i) = Anc(blocks, b, i) /\ Ancestor(b, i)' = Anc(blocks', b, i)
  BY DEF Ancestor, Anc, Goes, Down

\* There is a way down of every length
LEMMA GoesExists ==
    ASSUME NEW bs, NEW b, NEW i \in Nat
    PROVE  \E g : Goes(bs, b, i, g)
  <1> DEFINE Has(n) == \E g : Goes(bs, b, n, g)
             T == {n \in Nat : ~Has(n)}
  <1>1. Has(0)
    <2> DEFINE g == [j \in 0 .. 0 |-> b]
    <2>1. Goes(bs, b, 0, g)
      BY DEF Goes
    <2> HIDE DEF g
    <2> QED
      BY <2>1
  <1>2. ASSUME NEW n \in Nat, Has(n) PROVE Has(n + 1)
    <2>1. PICK g : Goes(bs, b, n, g)
      BY <1>2
    <2> DEFINE h == [j \in 0 .. n + 1 |-> IF j = 0 THEN b ELSE Down(bs, g[j - 1])]
    <2>2. \A j \in 0 .. n : g[j] = h[j]
      BY <2>1 DEF Goes
    <2>3. ASSUME NEW j \in 0 .. n + 1, j # 0 PROVE h[j] = Down(bs, h[j - 1])
      <3>1. j - 1 \in 0 .. n
        BY <2>3
      <3>2. g[j - 1] = h[j - 1] /\ h[j] = Down(bs, g[j - 1])
        BY <2>2, <2>3, <3>1
      <3> QED
        BY <3>2, Zenon
    <2>4. h = [j \in 0 .. n + 1 |-> IF j = 0 THEN b ELSE Down(bs, h[j - 1])]
      <3>1. ASSUME NEW j \in 0 .. n + 1 PROVE h[j] = IF j = 0 THEN b ELSE Down(bs, h[j - 1])
        <4>1. j = 0 => h[j] = b
          OBVIOUS
        <4> QED
          BY <2>3, <4>1, Zenon
      <3> QED
        BY <3>1, Zenon
    <2> HIDE DEF h
    <2> QED
      BY <2>4 DEF Goes
  <1>3. T = {}
    <2> SUFFICES ASSUME T # {} PROVE FALSE
      OBVIOUS
    <2> HIDE DEF Has
    <2>1. PICK n \in T : \A m \in T : n <= m
      BY LeastNumber
    <2>2. n \in Nat /\ n # 0 /\ ~Has(n)
      BY <1>1
    <2>3. n - 1 \in Nat /\ n - 1 \notin T
      BY <2>1, <2>2
    <2>4. Has(n - 1)
      BY <2>3
    <2> QED
      BY <1>2, <2>2, <2>3, <2>4
  <1> QED
    BY <1>3

LEMMA GoesAgree ==
    ASSUME NEW bs, NEW b, NEW i \in Nat, NEW l \in Nat, NEW g, NEW h,
           Goes(bs, b, i, g), Goes(bs, b, l, h), i <= l
    PROVE  g[i] = h[i]
  <1> DEFINE T == {j \in 0 .. i : g[j] # h[j]}
  <1>1. SUFFICES ASSUME T # {} PROVE FALSE
    OBVIOUS
  <1>0. T \subseteq Nat
    OBVIOUS
  <1>2. PICK j \in T : \A m \in T : j <= m
    BY <1>0, <1>1, LeastNumber
  <1>3. /\ g[j] = IF j = 0 THEN b ELSE Down(bs, g[j - 1])
        /\ h[j] = IF j = 0 THEN b ELSE Down(bs, h[j - 1])
    BY DEF Goes
  <1>4. j # 0
    BY <1>3
  <1>5. j - 1 \in 0 .. i /\ j - 1 \notin T
    BY <1>2, <1>4
  <1>6. g[j - 1] = h[j - 1]
    BY <1>5
  <1> QED
    BY <1>3, <1>4, <1>6, Zenon

LEMMA AncEquation ==
    ASSUME NEW bs, NEW b, NEW i \in Nat
    PROVE  Anc(bs, b, 0) = b /\ Anc(bs, b, i + 1) = Down(bs, Anc(bs, b, i))
  <1>1. PICK z : Goes(bs, b, 0, z) /\ Anc(bs, b, 0) = z[0]
    BY GoesExists, Zenon DEF Anc
  <1>2. PICK g : Goes(bs, b, i, g) /\ Anc(bs, b, i) = g[i]
    BY GoesExists, Zenon DEF Anc
  <1>3. i + 1 \in Nat
    OBVIOUS
  <1>4. PICK h : Goes(bs, b, i + 1, h) /\ Anc(bs, b, i + 1) = h[i + 1]
    BY <1>3, GoesExists, Zenon DEF Anc
  <1>5. g[i] = h[i]
    BY <1>2, <1>3, <1>4, GoesAgree
  <1>6. z[0] = b
    BY <1>1 DEF Goes
  <1>7. h[i + 1] = Down(bs, h[i])
    BY <1>4 DEF Goes
  <1> QED
    BY <1>1, <1>2, <1>4, <1>5, <1>6, <1>7, Zenon

\* The same way from the parent on
LEMMA AncShift ==
    ASSUME NEW bs, NEW b, NEW i \in Nat, b # NoBlock
    PROVE  Anc(bs, b, i + 1) = Anc(bs, bs[b].parent, i)
  <1> DEFINE T == {j \in Nat : Anc(bs, b, j + 1) # Anc(bs, bs[b].parent, j)}
  <1>1. SUFFICES ASSUME T # {} PROVE FALSE
    OBVIOUS
  <1>2. PICK j \in T : \A m \in T : j <= m
    BY <1>1, LeastNumber
  <1>3. j # 0
    <2>1. Anc(bs, b, 0 + 1) = Down(bs, Anc(bs, b, 0)) /\ Anc(bs, b, 0) = b
      BY AncEquation
    <2>2. Anc(bs, bs[b].parent, 0) = bs[b].parent
      BY AncEquation
    <2>3. 0 \notin T
      BY <2>1, <2>2 DEF Down
    <2> QED
      BY <2>3
  <1>4. j - 1 \in Nat /\ j - 1 \notin T /\ (j - 1) + 1 = j
    BY <1>2, <1>3
  <1>5. Anc(bs, b, j) = Anc(bs, bs[b].parent, j - 1)
    BY <1>4
  <1>6. Anc(bs, b, j + 1) = Down(bs, Anc(bs, b, j))
    BY AncEquation
  <1>7. Anc(bs, bs[b].parent, (j - 1) + 1) = Down(bs, Anc(bs, bs[b].parent, j - 1))
    BY <1>4, AncEquation
  <1>8. Anc(bs, b, j + 1) = Anc(bs, bs[b].parent, j)
    BY <1>4, <1>5, <1>6, <1>7
  <1> QED
    BY <1>8

\* And in two parts
LEMMA AncAdd ==
    ASSUME NEW bs, NEW b, NEW i \in Nat, NEW j \in Nat
    PROVE  Anc(bs, Anc(bs, b, i), j) = Anc(bs, b, i + j)
  <1> DEFINE T == {n \in Nat : Anc(bs, Anc(bs, b, i), n) # Anc(bs, b, i + n)}
  <1>1. SUFFICES ASSUME T # {} PROVE FALSE
    OBVIOUS
  <1>2. PICK n \in T : \A m \in T : n <= m
    BY <1>1, LeastNumber
  <1>3. n # 0
    <2>1. Anc(bs, Anc(bs, b, i), 0) = Anc(bs, b, i) /\ i + 0 = i
      BY AncEquation
    <2> QED
      BY <2>1
  <1>4. n - 1 \in Nat /\ n - 1 \notin T /\ (n - 1) + 1 = n
    BY <1>2, <1>3
  <1>5. Anc(bs, Anc(bs, b, i), n - 1) = Anc(bs, b, i + (n - 1))
    BY <1>4
  <1>6. Anc(bs, Anc(bs, b, i), (n - 1) + 1) = Down(bs, Anc(bs, Anc(bs, b, i), n - 1))
    BY <1>4, AncEquation
  <1>7. i + (n - 1) \in Nat /\ i + (n - 1) + 1 = i + n
    BY <1>4
  <1>8. Anc(bs, b, (i + (n - 1)) + 1) = Down(bs, Anc(bs, b, i + (n - 1)))
    BY <1>7, AncEquation
  <1>9. Anc(bs, Anc(bs, b, i), n) = Anc(bs, b, i + n)
    BY <1>4, <1>5, <1>6, <1>7, <1>8
  <1> QED
    BY <1>9

\* The shape of the side chain: the genesis has no parent and no height, every other
\* block is one above its parent, and uncles are older and lower than their nephew
Shape(bs) ==
    /\ DOMAIN bs = 1 .. Len(bs) /\ Len(bs) \in Nat \ {0}
    /\ bs = [b \in 1 .. Len(bs) |-> bs[b]]
    /\ \A b \in 1 .. Len(bs) :
          /\ bs[b].parent \in 0 .. b - 1 /\ (bs[b].parent = NoBlock <=> b = 1)
          /\ bs[b].height \in Nat /\ (b = 1 => bs[b].height = 0)
          /\ b # 1 => bs[b].height = bs[bs[b].parent].height + 1
          /\ bs[b].uncles \subseteq 1 .. b - 1
          /\ \A u \in bs[b].uncles : bs[u].height < bs[b].height

\* The way down from b ends at the genesis, and every step is one of height
LEMMA AncHeight ==
    ASSUME NEW bs, Shape(bs), NEW b \in 1 .. Len(bs), NEW i \in Nat
    PROVE  /\ i <= bs[b].height => /\ Anc(bs, b, i) \in 1 .. b
                                   /\ bs[Anc(bs, b, i)].height = bs[b].height - i
           /\ i > bs[b].height => Anc(bs, b, i) = NoBlock
  <1> DEFINE Good(n) == /\ n <= bs[b].height => /\ Anc(bs, b, n) \in 1 .. b
                                                /\ bs[Anc(bs, b, n)].height = bs[b].height - n
                        /\ n > bs[b].height => Anc(bs, b, n) = NoBlock
             T == {n \in Nat : ~Good(n)}
  <1>0. b \in Nat /\ Len(bs) \in Nat /\ bs[b].height \in Nat
    BY DEF Shape
  <1>1. SUFFICES ASSUME T # {} PROVE FALSE
    <2>1. i \notin T => Good(i)
      OBVIOUS
    <2> QED
      BY <2>1
  <1>2. PICK n \in T : \A m \in T : n <= m
    BY <1>1, LeastNumber
  <1>3. Good(0)
    <2>1. Anc(bs, b, 0) = b
      BY AncEquation
    <2> QED
      BY <1>0, <2>1
  <1>4. n # 0
    BY <1>3
  <1>5. n - 1 \in Nat /\ n - 1 \notin T /\ (n - 1) + 1 = n
    BY <1>2, <1>4
  <1>6. Good(n - 1)
    BY <1>5
  <1> DEFINE a == Anc(bs, b, n - 1)
  <1>7. Anc(bs, b, n) = Down(bs, a)
    <2>1. Anc(bs, b, (n - 1) + 1) = Down(bs, a)
      BY <1>5, AncEquation
    <2> QED
      BY <1>5, <2>1
  <1> HIDE DEF a
  <1>8. CASE n - 1 > bs[b].height
    <2>1. a = NoBlock
      BY <1>6, <1>8 DEF a
    <2>2. Down(bs, a) = NoBlock
      BY <2>1 DEF Down
    <2>3. Good(n)
      BY <1>0, <1>5, <1>7, <1>8, <2>2
    <2> QED
      BY <2>3
  <1>9. CASE n - 1 <= bs[b].height
    <2>1. a \in 1 .. b /\ bs[a].height = bs[b].height - (n - 1)
      BY <1>6, <1>9 DEF a
    <2>2. a \in 1 .. Len(bs) /\ a # NoBlock
      BY <1>0, <2>1 DEF NoBlock
    <2>3. /\ bs[a].parent \in 0 .. a - 1 /\ (bs[a].parent = NoBlock <=> a = 1)
          /\ a = 1 => bs[a].height = 0
          /\ a # 1 => bs[a].height = bs[bs[a].parent].height + 1
      BY <2>2 DEF Shape
    <2>4. Down(bs, a) = bs[a].parent
      BY <2>2 DEF Down
    <2>5. CASE a = 1
      <3>1. n > bs[b].height
        BY <1>0, <1>5, <2>1, <2>3, <2>5
      <3>2. Good(n)
        BY <1>0, <1>5, <1>7, <2>3, <2>4, <2>5, <3>1
      <3> QED
        BY <3>2
    <2>6. CASE a # 1
      <3> DEFINE p == bs[a].parent
      <3>1. p \in 1 .. b /\ p \in 1 .. Len(bs)
        BY <1>0, <2>1, <2>2, <2>3, <2>6 DEF NoBlock
      <3>2. bs[p].height \in Nat
        BY <3>1 DEF Shape
      <3>3. n <= bs[b].height /\ bs[p].height = bs[b].height - n
        <4>1. bs[a].height = bs[p].height + 1 /\ n \in Nat
          BY <2>3, <2>6
        <4>2. \A x, y, m \in Nat : x - (m - 1) = y + 1 => m <= x /\ y = x - m
          OBVIOUS
        <4>3. bs[b].height - (n - 1) = bs[p].height + 1
          BY <2>1, <4>1
        <4> HIDE DEF p, T
        <4> QED
          BY ONLY <1>0, <3>2, <4>1, <4>2, <4>3
      <3>4. Anc(bs, b, n) = p
        BY <1>7, <2>4
      <3> HIDE DEF p
      <3>5. Good(n)
        BY <1>0, <1>5, <3>1, <3>3, <3>4
      <3> QED
        BY <3>5
    <2> QED
      BY <2>5, <2>6
  <1> QED
    BY <1>0, <1>5, <1>8, <1>9

\* What a block has below it: its chain and all their uncles
HistoryIn(bs, b) ==
    LET chain == {Anc(bs, b, i) : i \in 0 .. bs[b].height}
    IN  chain \cup UNION {bs[a].uncles : a \in chain}

LEMMA HistoryIsHistoryIn ==
    ASSUME NEW b
    PROVE  History(b) = HistoryIn(blocks, b) /\ History(b)' = HistoryIn(blocks', b)
  BY AncestorIsAnc DEF History, HistoryIn, Height

LEMMA HistoryMember ==
    ASSUME NEW bs, NEW b, NEW x
    PROVE  x \in HistoryIn(bs, b)
             <=> \E i \in 0 .. bs[b].height : \/ x = Anc(bs, b, i)
                                              \/ x \in bs[Anc(bs, b, i)].uncles
  BY Zenon DEF HistoryIn

LEMMA HistoryBelow ==
    ASSUME NEW bs, Shape(bs), NEW b \in 1 .. Len(bs)
    PROVE  HistoryIn(bs, b) \subseteq 1 .. b
  <1> SUFFICES ASSUME NEW x \in HistoryIn(bs, b) PROVE x \in 1 .. b
    OBVIOUS
  <1>1. PICK i \in 0 .. bs[b].height : x = Anc(bs, b, i) \/ x \in bs[Anc(bs, b, i)].uncles
    BY HistoryMember
  <1>2. bs[b].height \in Nat /\ Len(bs) \in Nat
    BY DEF Shape
  <1>3. Anc(bs, b, i) \in 1 .. b
    BY <1>2, AncHeight
  <1>4. bs[Anc(bs, b, i)].uncles \subseteq 1 .. Anc(bs, b, i) - 1
    BY <1>2, <1>3 DEF Shape
  <1> QED
    BY <1>1, <1>3, <1>4

\* The genesis has only itself
LEMMA HistoryOfFirst ==
    ASSUME NEW bs, Shape(bs)
    PROVE  HistoryIn(bs, 1) = {1}
  <1>1. 1 \in 1 .. Len(bs) /\ bs[1].height = 0
    BY DEF Shape
  <1>2. HistoryIn(bs, 1) \subseteq 1 .. 1
    BY <1>1, HistoryBelow
  <1>3. 1 \in HistoryIn(bs, 1)
    <2>1. Anc(bs, 1, 0) = 1
      BY AncEquation
    <2> QED
      BY <1>1, <2>1, HistoryMember
  <1> QED
    BY <1>2, <1>3

\* Any other block adds itself and its uncles to what its parent has
LEMMA HistoryStep ==
    ASSUME NEW bs, Shape(bs), NEW b \in 1 .. Len(bs), b # 1
    PROVE  HistoryIn(bs, b) = ({b} \cup bs[b].uncles) \cup HistoryIn(bs, bs[b].parent)
  <1> DEFINE p == bs[b].parent
  <1>1. /\ b # NoBlock /\ Anc(bs, b, 0) = b
        /\ bs[b].height \in Nat /\ bs[p].height \in Nat /\ bs[b].height = bs[p].height + 1
    <2>1. b # NoBlock /\ p \in 1 .. Len(bs) /\ bs[b].height = bs[p].height + 1
      BY DEF Shape, NoBlock
    <2> QED
      BY <2>1, AncEquation DEF Shape
  <1>2. ASSUME NEW i \in Nat PROVE Anc(bs, b, i + 1) = Anc(bs, p, i)
    BY <1>1, AncShift
  <1> HIDE DEF p
  <1>3. ASSUME NEW x \in HistoryIn(bs, b), x # b, x \notin bs[b].uncles PROVE x \in HistoryIn(bs, p)
    <2>1. PICK i \in 0 .. bs[b].height : x = Anc(bs, b, i) \/ x \in bs[Anc(bs, b, i)].uncles
      BY HistoryMember
    <2>2. i # 0
      BY <1>1, <1>3, <2>1
    <2>3. i - 1 \in 0 .. bs[p].height /\ (i - 1) + 1 = i
      BY <1>1, <2>2
    <2>4. Anc(bs, b, i) = Anc(bs, p, i - 1)
      BY <1>2, <2>3
    <2> QED
      BY <2>1, <2>3, <2>4, HistoryMember
  <1>4. ASSUME NEW x \in HistoryIn(bs, p) PROVE x \in HistoryIn(bs, b)
    <2>1. PICK i \in 0 .. bs[p].height : x = Anc(bs, p, i) \/ x \in bs[Anc(bs, p, i)].uncles
      BY HistoryMember
    <2>2. i \in Nat /\ i + 1 \in 0 .. bs[b].height
      BY <1>1
    <2>3. Anc(bs, b, i + 1) = Anc(bs, p, i)
      BY <1>2, <2>2
    <2> QED
      BY <2>1, <2>2, <2>3, HistoryMember
  <1>5. {b} \cup bs[b].uncles \subseteq HistoryIn(bs, b)
    <2>1. 0 \in 0 .. bs[b].height
      BY <1>1
    <2> QED
      BY <1>1, <2>1, HistoryMember
  <1> QED
    BY <1>3, <1>4, <1>5 DEF p

\* New blocks do not change what is below an old one
LEMMA AncStays ==
    ASSUME NEW bs, Shape(bs), NEW cs, \A x \in 1 .. Len(bs) : cs[x] = bs[x],
           NEW b \in 1 .. Len(bs), NEW i \in Nat
    PROVE  Anc(cs, b, i) = Anc(bs, b, i)
  <1> DEFINE T == {n \in Nat : Anc(cs, b, n) # Anc(bs, b, n)}
  <1>1. SUFFICES ASSUME T # {} PROVE FALSE
    OBVIOUS
  <1>2. PICK n \in T : \A m \in T : n <= m
    BY <1>1, LeastNumber
  <1>3. n # 0
    <2>1. Anc(bs, b, 0) = b /\ Anc(cs, b, 0) = b
      BY AncEquation
    <2> QED
      BY <2>1
  <1>4. n - 1 \in Nat /\ n - 1 \notin T /\ (n - 1) + 1 = n
    BY <1>2, <1>3
  <1> DEFINE a == Anc(bs, b, n - 1)
  <1>5. Anc(cs, b, n - 1) = a
    BY <1>4
  <1>6. Anc(bs, b, (n - 1) + 1) = Down(bs, a) /\ Anc(cs, b, (n - 1) + 1) = Down(cs, Anc(cs, b, n - 1))
    BY <1>4, AncEquation
  <1>7. a = NoBlock \/ a \in 1 .. Len(bs)
    <2>1. bs[b].height \in Nat /\ Len(bs) \in Nat
      BY DEF Shape
    <2>2. n - 1 <= bs[b].height => a \in 1 .. b
      BY <1>4, AncHeight
    <2>3. n - 1 > bs[b].height => a = NoBlock
      BY <1>4, AncHeight
    <2> HIDE DEF a
    <2> QED
      BY <1>4, <2>1, <2>2, <2>3
  <1> HIDE DEF a
  <1>8. Down(bs, a) = Down(cs, a)
    BY <1>7 DEF Down
  <1>9. Anc(bs, b, n) = Down(bs, a) /\ Anc(cs, b, n) = Down(cs, a)
    BY <1>4, <1>5, <1>6
  <1>10. n \notin T
    BY <1>8, <1>9
  <1> QED
    BY <1>10

LEMMA HistoryStays ==
    ASSUME NEW bs, Shape(bs), NEW cs, \A x \in 1 .. Len(bs) : cs[x] = bs[x],
           NEW b \in 1 .. Len(bs)
    PROVE  HistoryIn(cs, b) = HistoryIn(bs, b)
  <1>1. bs[b].height \in Nat /\ Len(bs) \in Nat /\ cs[b] = bs[b]
    BY DEF Shape
  <1>2. ASSUME NEW i \in 0 .. bs[b].height
        PROVE  Anc(cs, b, i) = Anc(bs, b, i) /\ cs[Anc(cs, b, i)] = bs[Anc(bs, b, i)]
    <2>1. Anc(cs, b, i) = Anc(bs, b, i)
      BY AncStays
    <2>2. Anc(bs, b, i) \in 1 .. Len(bs)
      BY <1>1, AncHeight
    <2> QED
      BY <2>1, <2>2
  <1>3. \A x : x \in HistoryIn(cs, b) <=> x \in HistoryIn(bs, b)
    BY <1>1, <1>2, HistoryMember
  <1> QED
    BY <1>3

-----------------------------------------------------------------------------
(* The largest and the smallest of a set, and the n-th of a list           *)

LEMMA MaxMin ==
    ASSUME NEW S, IsFiniteSet(S), S # {}, S \subseteq Int
    PROVE  /\ Max(S) \in S /\ \A x \in S : x <= Max(S)
           /\ Min(S) \in S /\ \A x \in S : Min(S) <= x
  <1> DEFINE Good(q) == /\ \E m \in q : \A x \in q : m >= x
                        /\ \E m \in q : \A x \in q : m <= x
             Bad == {q \in SUBSET S : q # {} /\ ~Good(q)}
  <1>0. ASSUME NEW q \in SUBSET S PROVE IsFiniteSet(q)
    BY FS_Subset
  <1>1. ASSUME Bad # {} PROVE FALSE
    <2>1. PICK q \in Bad : \A r \in Bad : Cardinality(q) <= Cardinality(r)
      BY <1>0, <1>1, SmallestSet
    <2> DEFINE p == First(q)
               r == q \ {p}
    <2>2. /\ p \in q /\ p \in Int /\ Cardinality(q) \in Nat
          /\ Cardinality(r) = Cardinality(q) - 1
      BY <1>0, FirstIn
    <2> HIDE DEF p
    <2>3. r \in SUBSET S /\ r \notin Bad
      <3>1. r \in SUBSET S
        OBVIOUS
      <3>2. r \in Bad => Cardinality(q) <= Cardinality(r)
        BY <2>1
      <3> HIDE DEF Bad, r
      <3> QED
        BY <2>2, <3>1, <3>2
    <2>4. CASE r = {}
      <3>1. q = {p}
        BY <2>2, <2>4
      <3>2. Good(q)
        BY <2>2, <3>1
      <3> QED
        BY <3>2
    <2>5. CASE r # {}
      <3>1. Good(r)
        BY <2>3, <2>5
      <3>2. PICK m \in r : \A x \in r : m >= x
        BY <3>1
      <3>3. PICK l \in r : \A x \in r : l <= x
        BY <3>1
      <3>4. m \in q /\ l \in q /\ m \in Int /\ l \in Int /\ \A x \in q : x \in Int
        BY <2>3
      <3>5. \E y \in q : \A x \in q : y >= x
        <4>1. CASE m >= p
          BY <3>2, <3>4, <4>1
        <4>2. CASE ~(m >= p)
          BY <2>2, <3>2, <3>4, <4>2
        <4> QED
          BY <4>1, <4>2
      <3>6. \E y \in q : \A x \in q : y <= x
        <4>1. CASE l <= p
          BY <3>3, <3>4, <4>1
        <4>2. CASE ~(l <= p)
          BY <2>2, <3>3, <3>4, <4>2
        <4> QED
          BY <4>1, <4>2
      <3>7. Good(q)
        BY <3>5, <3>6
      <3> QED
        BY <3>7
    <2> QED
      BY <2>4, <2>5
  <1>2. Good(S)
    BY <1>1
  <1>3. Max(S) \in S /\ \A x \in S : Max(S) >= x
    <2>1. \E m \in S : \A x \in S : m >= x
      BY <1>2
    <2> QED
      BY <2>1, Zenon DEF Max
  <1>4. Min(S) \in S /\ \A x \in S : Min(S) <= x
    <2>1. \E m \in S : \A x \in S : m <= x
      BY <1>2
    <2> QED
      BY <2>1, Zenon DEF Min
  <1>5. Max(S) \in Int /\ \A x \in S : x \in Int
    BY <1>3
  <1> QED
    BY <1>3, <1>4, <1>5

LEMMA ImageFinite ==
    ASSUME NEW D, IsFiniteSet(D), NEW v
    PROVE  IsFiniteSet({v[d] : d \in D})
  <1> DEFINE V == {v[d] : d \in D}
             f == [d \in D |-> v[d]]
  <1>1. f \in Surjection(D, V)
    BY DEF Surjection
  <1> HIDE DEF f, V
  <1>2. IsFiniteSet(V)
    BY <1>1, FS_Surjection
  <1> QED
    BY <1>2 DEF V

\* How many of D have a value below t, and at most t
BelowT(D, v, t) == {d \in D : v[d] < t}
UptoT(D, v, t) == {d \in D : v[d] <= t}

IsNth(D, v, n, t) ==
    /\ t \in {v[d] : d \in D}
    /\ Cardinality(BelowT(D, v, t)) < n
    /\ Cardinality(UptoT(D, v, t)) >= n

LEMMA Counts ==
    ASSUME NEW D, IsFiniteSet(D), NEW v, NEW t
    PROVE  /\ IsFiniteSet(BelowT(D, v, t)) /\ Cardinality(BelowT(D, v, t)) \in Nat
           /\ IsFiniteSet(UptoT(D, v, t)) /\ Cardinality(UptoT(D, v, t)) \in Nat
           /\ Cardinality(D) \in Nat
  <1>1. BelowT(D, v, t) \subseteq D /\ UptoT(D, v, t) \subseteq D
    BY DEF BelowT, UptoT
  <1> QED
    BY <1>1, FS_Subset, FS_CardinalityType

LEMMA NthExists ==
    ASSUME NEW D, IsFiniteSet(D), NEW v, \A d \in D : v[d] \in Int,
           NEW n \in 1 .. Cardinality(D)
    PROVE  \E t : IsNth(D, v, n, t)
  <1> DEFINE V == {v[d] : d \in D}
             G == {t \in V : Cardinality(UptoT(D, v, t)) >= n}
  <1>0. Cardinality(D) \in Nat /\ n \in Nat
    BY FS_CardinalityType
  <1>1. D # {} /\ V # {}
    <2>1. D # {}
      BY <1>0, FS_EmptySet
    <2> QED
      BY <2>1
  <1>2. IsFiniteSet(V) /\ V \subseteq Int
    BY ImageFinite
  <1>3. Max(V) \in G
    <2>1. Max(V) \in V /\ \A x \in V : x <= Max(V)
      BY <1>1, <1>2, MaxMin
    <2> HIDE DEF V
    <2>2. \A d \in D : v[d] <= Max(V)
      BY <2>1 DEF V
    <2>3. UptoT(D, v, Max(V)) = D
      BY <2>2 DEF UptoT
    <2>4. Cardinality(UptoT(D, v, Max(V))) = Cardinality(D)
      BY <2>3, Zenon
    <2> QED
      BY <1>0, <2>1, <2>4
  <1>4. IsFiniteSet(G) /\ G # {} /\ G \subseteq Int
    BY <1>2, <1>3, FS_Subset
  <1> DEFINE t == Min(G)
  <1>5. t \in G /\ t \in Int /\ \A x \in G : t <= x
    BY <1>4, MaxMin
  <1> HIDE DEF G, t
  <1>6. t \in V /\ Cardinality(UptoT(D, v, t)) >= n
    BY <1>5 DEF G
  <1>7. Cardinality(BelowT(D, v, t)) < n
    <2> SUFFICES ASSUME Cardinality(BelowT(D, v, t)) >= n PROVE FALSE
      BY <1>0, Counts
    <2> DEFINE L == {x \in V : x < t}
    <2>1. BelowT(D, v, t) # {}
      <3> SUFFICES ASSUME BelowT(D, v, t) = {} PROVE FALSE
        OBVIOUS
      <3>1. Cardinality(BelowT(D, v, t)) = 0
        BY FS_EmptySet
      <3> QED
        BY <1>0, <3>1
    <2>2. L # {} /\ IsFiniteSet(L) /\ L \subseteq Int
      <3>1. L # {}
        BY <2>1 DEF BelowT
      <3> QED
        BY <1>2, <3>1, FS_Subset
    <2> DEFINE p == Max(L)
    <2>3. p \in L /\ \A x \in L : x <= p
      BY <2>2, MaxMin
    <2>4. p \in V /\ p < t /\ p \in Int
      BY <2>2, <2>3
    <2>5. BelowT(D, v, t) \subseteq UptoT(D, v, p)
      <3>1. \A d \in D : v[d] < t => v[d] \in L
        OBVIOUS
      <3> QED
        BY <2>3, <3>1 DEF BelowT, UptoT
    <2> HIDE DEF p, L
    <2>6. Cardinality(BelowT(D, v, t)) <= Cardinality(UptoT(D, v, p))
      BY <2>5, Counts, FS_Subset
    <2>7. Cardinality(UptoT(D, v, p)) >= n
      BY <1>0, <2>6, Counts
    <2>8. p \in G
      BY <2>4, <2>7 DEF G
    <2> QED
      BY <1>5, <2>4, <2>8
  <1> QED
    BY <1>6, <1>7 DEF IsNth

\* Later in the list is not older, and no two timestamps are the n-th
LEMMA NthMonotone ==
    ASSUME NEW D, IsFiniteSet(D), NEW v, \A d \in D : v[d] \in Int,
           NEW n \in Nat, NEW m \in Nat, n <= m,
           NEW t, NEW s, IsNth(D, v, n, t), IsNth(D, v, m, s)
    PROVE  t \in Int /\ s \in Int /\ t <= s
  <1>1. t \in Int /\ s \in Int
    BY DEF IsNth
  <1>2. ASSUME s < t PROVE FALSE
    <2>1. UptoT(D, v, s) \subseteq BelowT(D, v, t)
      BY <1>1, <1>2 DEF UptoT, BelowT
    <2>2. Cardinality(UptoT(D, v, s)) <= Cardinality(BelowT(D, v, t))
      BY <2>1, Counts, FS_Subset
    <2>3. Cardinality(BelowT(D, v, t)) < n /\ Cardinality(UptoT(D, v, s)) >= m
      BY DEF IsNth
    <2> QED
      BY <2>2, <2>3, Counts
  <1> QED
    BY <1>1, <1>2

LEMMA NthTimeIsNth ==
    ASSUME NEW list, NEW w, NEW n, \E t : IsNth(list, w, n, t)
    PROVE  IsNth(list, w, n, NthTime(list, w, n))
  <1> DEFINE Is(t) == /\ Cardinality({e \in list : w[e] < t}) < n
                      /\ Cardinality({e \in list : w[e] <= t}) >= n
             V == {w[e] : e \in list}
  <1>1. ASSUME NEW t PROVE IsNth(list, w, n, t) <=> t \in V /\ Is(t)
    BY Zenon DEF IsNth, BelowT, UptoT
  <1>2. NthTime(list, w, n) = CHOOSE t \in V : Is(t)
    BY DEF NthTime
  <1> HIDE DEF Is, V
  <1>3. \E t \in V : Is(t)
    BY <1>1
  <1>4. NthTime(list, w, n) \in V /\ Is(NthTime(list, w, n))
    BY <1>2, <1>3, Zenon
  <1> QED
    BY <1>1, <1>4

\* Counting from another origin changes no order
LEMMA NthShift ==
    ASSUME NEW D, NEW w, NEW v, NEW o \in Int,
           \A d \in D : w[d] \in Int /\ v[d] = o + w[d],
           NEW n, NEW t, IsNth(D, w, n, t)
    PROVE  IsNth(D, v, n, o + t)
  <1>1. PICK d \in D : t = w[d]
    BY DEF IsNth
  <1>2. t \in Int /\ o + t = v[d]
    BY <1>1
  <1>3. BelowT(D, v, o + t) = BelowT(D, w, t) /\ UptoT(D, v, o + t) = UptoT(D, w, t)
    BY <1>2 DEF BelowT, UptoT
  <1>4. o + t \in {v[y] : y \in D}
    BY <1>2
  <1> QED
    BY <1>3, <1>4, Zenon DEF IsNth

-----------------------------------------------------------------------------
(* The window of a tip                                                     *)

\* Every block has its members
Typed(bs) ==
    \A b \in 1 .. Len(bs) :
        /\ bs[b].difficulty \in Nat /\ bs[b].difficulty >= MinDifficulty
        /\ bs[b].cumulative \in Nat /\ bs[b].time \in Int /\ bs[b].wallet \in Wallets

\* The rounds of the loop end with the window or with the genesis
LEMMA RoundsOf ==
    ASSUME Shape(blocks), NEW tip \in 1 .. Len(blocks)
    PROVE  /\ Height(tip) \in Nat /\ Window \in Nat \ {0}
           /\ Rounds(tip) = {i \in 0 .. Window - 1 : i <= Height(tip)}
           /\ \A i \in Rounds(tip) : /\ Ancestor(tip, i) = Anc(blocks, tip, i)
                                     /\ Ancestor(tip, i) \in 1 .. tip
                                     /\ Height(Ancestor(tip, i)) = Height(tip) - i
           /\ Ancestor(tip, 0) = tip
  <1>1. Height(tip) \in Nat /\ Window \in Nat \ {0} /\ Len(blocks) \in Nat
    BY PplnsAssumption DEF Shape, Height
  <1>2. ASSUME NEW i \in Nat PROVE Ancestor(tip, i) = Anc(blocks, tip, i)
    BY AncestorIsAnc
  <1>3. ASSUME NEW i \in Nat, i <= Height(tip)
        PROVE  Ancestor(tip, i) \in 1 .. tip /\ Height(Ancestor(tip, i)) = Height(tip) - i
    BY <1>2, <1>3, AncHeight DEF Height
  <1>4. ASSUME NEW i \in Nat, ~(i <= Height(tip)) PROVE Ancestor(tip, i) = NoBlock
    <2>1. i > blocks[tip].height
      BY <1>1, <1>4 DEF Height
    <2> QED
      BY <1>2, <2>1, AncHeight
  <1>5. ASSUME NEW i \in 0 .. Window - 1 PROVE Ancestor(tip, i) # NoBlock <=> i <= Height(tip)
    <2>1. i \in Nat
      BY <1>1
    <2>2. i <= Height(tip) => Ancestor(tip, i) # 0
      BY <1>3, <2>1
    <2> QED
      BY <1>4, <2>1, <2>2 DEF NoBlock
  <1>6. Rounds(tip) = {i \in 0 .. Window - 1 : i <= Height(tip)}
    BY <1>5 DEF Rounds
  <1>7. Ancestor(tip, 0) = tip
    BY <1>2, AncEquation
  <1> QED
    BY <1>1, <1>2, <1>3, <1>6, <1>7

LEMMA EntriesOf ==
    ASSUME Shape(blocks), NEW tip \in 1 .. Len(blocks)
    PROVE  /\ \A i \in Rounds(tip) : InRound(tip, i) \subseteq 1 .. Len(blocks)
           /\ \A e : e \in Entries(tip) <=> \E i \in Rounds(tip) : \E b \in InRound(tip, i) : e = <<i, b>>
           /\ Entries(tip) \subseteq (0 .. Window - 1) \X (1 .. Len(blocks))
           /\ IsFiniteSet(Entries(tip)) /\ Cardinality(Entries(tip)) \in Nat
           /\ <<0, tip>> \in Entries(tip) /\ Cardinality(Entries(tip)) >= 1
  <1>1. Window \in Nat \ {0} /\ Len(blocks) \in Nat
    BY RoundsOf DEF Shape
  <1>2. ASSUME NEW i \in Rounds(tip) PROVE InRound(tip, i) \subseteq 1 .. Len(blocks)
    <2>1. Ancestor(tip, i) \in 1 .. tip /\ Ancestor(tip, i) \in 1 .. Len(blocks)
      BY <1>1, RoundsOf
    <2>2. blocks[Ancestor(tip, i)].uncles \subseteq 1 .. Len(blocks)
      BY <1>1, <2>1 DEF Shape
    <2> QED
      BY <2>1, <2>2 DEF InRound, UnclesIn
  <1>3. \A e : e \in Entries(tip) <=> \E i \in Rounds(tip) : \E b \in InRound(tip, i) : e = <<i, b>>
    BY DEF Entries
  <1>4. Entries(tip) \subseteq (0 .. Window - 1) \X (1 .. Len(blocks))
    BY <1>2, <1>3 DEF Rounds
  <1>5. IsFiniteSet((0 .. Window - 1) \X (1 .. Len(blocks)))
    <2>1. IsFiniteSet(0 .. Window - 1) /\ IsFiniteSet(1 .. Len(blocks))
      BY <1>1, FS_Interval
    <2> QED
      BY <2>1, FS_Product
  <1>6. IsFiniteSet(Entries(tip)) /\ Cardinality(Entries(tip)) \in Nat
    BY <1>4, <1>5, FS_Subset, FS_CardinalityType
  <1>7. <<0, tip>> \in Entries(tip)
    <2>1. 0 \in Rounds(tip) /\ tip \in InRound(tip, 0)
      BY <1>1, RoundsOf DEF InRound
    <2> QED
      BY <1>3, <2>1
  <1>8. Cardinality(Entries(tip)) # 0
    BY <1>6, <1>7, FS_EmptySet
  <1> QED
    BY <1>2, <1>3, <1>4, <1>6, <1>7, <1>8

\* The cut leaves at least one timestamp
LEMMA CutSize ==
    ASSUME NEW N \in Nat, N >= 1
    PROVE  LET cut == (N + CutPart - 1) \div CutPart
           IN  /\ cut \in 1 .. N /\ N + 1 - cut \in 1 .. N /\ cut <= N + 1 - cut
               /\ N > CutPart => cut >= 2
  <1> DEFINE c == (N + CutPart - 1) \div CutPart
  <1>1. CutPart \in Nat /\ CutPart >= 2
    BY PplnsAssumption
  <1>2. ASSUME NEW a \in Nat, NEW d \in Nat, d >= 1
        PROVE  a \div d \in Nat /\ (a \div d) * d <= a /\ a < (a \div d) * d + d
    BY <1>2
  <1>3. c \in Nat /\ c * CutPart <= N + CutPart - 1 /\ N + CutPart - 1 < c * CutPart + CutPart
    BY <1>1, <1>2
  <1> HIDE DEF c
  <1>4. c # 0
    BY <1>1, <1>3
  <1>5. (c - 1) * CutPart >= (c - 1) * 2 /\ (c - 1) * CutPart = c * CutPart - CutPart
    BY <1>1, <1>3, <1>4
  <1>6. c * CutPart \in Int
    BY <1>1, <1>3
  <1>7. 2 * (c - 1) <= N - 1
    BY <1>1, <1>3, <1>5, <1>6
  <1>8. N > CutPart => c # 1
    BY <1>1, <1>3
  <1>9. c \in 1 .. N /\ N + 1 - c \in 1 .. N /\ c <= N + 1 - c /\ (N > CutPart => c >= 2)
    BY <1>3, <1>4, <1>7, <1>8
  <1> QED
    BY <1>9 DEF c

\* The distances from the oldest timestamp
LEMMA SinceOldestIs ==
    ASSUME Shape(blocks), NEW tip \in 1 .. Len(blocks),
           NEW time, \A b \in 1 .. Len(blocks) : time[b] \in Int,
           NEW w, w = SinceOldest(Entries(tip), time),
           NEW o, o = Oldest(Entries(tip), time)
    PROVE  /\ o \in Int /\ \A e \in Entries(tip) : o <= time[e[2]]
           /\ \E e \in Entries(tip) : o = time[e[2]]
           /\ \A e \in Entries(tip) : w[e] \in Nat /\ w[e] = (time[e[2]] - o) % TimeModulus
  <1> DEFINE E == Entries(tip)
             v == [e \in E |-> time[e[2]]]
             V == {v[e] : e \in E}
  <1>1. IsFiniteSet(E) /\ E # {}
    BY EntriesOf
  <1>2. \A e \in E : v[e] = time[e[2]] /\ v[e] \in Int
    BY EntriesOf
  <1>3. o = Min(V)
    BY <1>2 DEF Oldest
  <1>4. \A e \in E : w[e] = (time[e[2]] - o) % TimeModulus
    BY DEF SinceOldest
  <1> HIDE DEF E, v
  <1>5. IsFiniteSet(V) /\ V # {} /\ V \subseteq Int
    BY <1>1, <1>2, ImageFinite
  <1>6. Min(V) \in V /\ \A x \in V : Min(V) <= x
    BY <1>5, MaxMin
  <1>7. o \in Int /\ (\A e \in E : o <= v[e]) /\ \E e \in E : o = v[e]
    BY <1>3, <1>5, <1>6
  <1>8. TimeModulus \in Nat \ {0}
    BY PplnsAssumption
  <1>9. \A e \in E : (time[e[2]] - o) % TimeModulus \in Nat
    BY <1>2, <1>7, <1>8
  <1> QED
    BY <1>2, <1>4, <1>7, <1>9 DEF E

\* The timestamps of the cut: two numbers, in their order.  Unless a difference is
\* truncated they are those of the list.
LEMMA CutTimesAre ==
    ASSUME Shape(blocks), NEW tip \in 1 .. Len(blocks),
           NEW time, \A b \in 1 .. Len(blocks) : time[b] \in Int,
           NEW v, v = [e \in Entries(tip) |-> time[e[2]]]
    PROVE  LET N == Cardinality(Entries(tip))
               cut == (N + CutPart - 1) \div CutPart
               t == CutTimes(Entries(tip), time)
           IN  /\ t = <<t[1], t[2]>> /\ t[1] \in Int /\ t[2] \in Int /\ t[1] <= t[2]
               /\ (\A e, f \in Entries(tip) : v[e] - v[f] < TimeModulus)
                  => /\ IsNth(Entries(tip), v, cut, t[1])
                     /\ IsNth(Entries(tip), v, N + 1 - cut, t[2])
  <1> DEFINE E == Entries(tip)
             N == Cardinality(E)
             cut == (N + CutPart - 1) \div CutPart
             t == CutTimes(E, time)
             o == Oldest(E, time)
             w == SinceOldest(E, time)
             t1 == NthTime(E, w, cut)
             t2 == NthTime(E, w, N + 1 - cut)
  <1>1. IsFiniteSet(E) /\ N \in Nat /\ N >= 1
    BY EntriesOf
  <1>2. cut \in 1 .. N /\ N + 1 - cut \in 1 .. N /\ cut <= N + 1 - cut
    BY <1>1, CutSize
  <1>3. \A e \in E : v[e] = time[e[2]] /\ v[e] \in Int
    BY EntriesOf
  <1>4. /\ o \in Int /\ (\A e \in E : o <= time[e[2]]) /\ (\E e \in E : o = time[e[2]])
        /\ \A e \in E : w[e] \in Nat /\ w[e] = (time[e[2]] - o) % TimeModulus
    BY SinceOldestIs
  <1>5. t = <<o + t1, o + t2>>
    BY DEF CutTimes, NthFromOldest
  <1>6. t = <<t[1], t[2]>> /\ t[1] = o + t1 /\ t[2] = o + t2
    BY <1>5
  <1> HIDE DEF E, N, cut, t, o, w
  <1>7. IsNth(E, w, cut, t1) /\ IsNth(E, w, N + 1 - cut, t2)
    <2>1. \A e \in E : w[e] \in Int
      BY <1>4
    <2>2. (\E s : IsNth(E, w, cut, s)) /\ \E s : IsNth(E, w, N + 1 - cut, s)
      BY <1>1, <1>2, <2>1, NthExists DEF N
    <2> QED
      BY <2>2, NthTimeIsNth
  <1> HIDE DEF t1, t2
  <1>8. t1 \in Int /\ t2 \in Int /\ t1 <= t2
    <2>1. cut \in Nat /\ N + 1 - cut \in Nat /\ \A e \in E : w[e] \in Int
      BY <1>1, <1>2, <1>4
    <2> QED
      BY <1>1, <1>2, <1>7, <2>1, NthMonotone
  <1>9. t[1] \in Int /\ t[2] \in Int /\ t[1] <= t[2]
    BY <1>4, <1>6, <1>8
  <1>10. ASSUME \A e, f \in E : v[e] - v[f] < TimeModulus
         PROVE  IsNth(E, v, cut, t[1]) /\ IsNth(E, v, N + 1 - cut, t[2])
    <2>1. TimeModulus \in Nat \ {0}
      BY PplnsAssumption
    <2>2. ASSUME NEW e \in E PROVE w[e] \in Int /\ v[e] = o + w[e]
      <3>1. PICK f \in E : o = v[f]
        BY <1>3, <1>4
      <3>2. v[e] \in Int /\ o \in Int /\ o <= v[e] /\ v[e] - o < TimeModulus
        BY <1>3, <1>4, <1>10, <3>1
      <3>3. w[e] = (v[e] - o) % TimeModulus
        BY <1>3, <1>4
      <3>4. \A a \in Int : 0 <= a /\ a < TimeModulus => a % TimeModulus = a
        BY ONLY <2>1
      <3>5. v[e] - o \in Int /\ 0 <= v[e] - o
        BY ONLY <3>2
      <3>6. (v[e] - o) % TimeModulus = v[e] - o
        BY ONLY <3>2, <3>4, <3>5
      <3> QED
        BY ONLY <3>2, <3>3, <3>6
    <2>3. \A e \in E : w[e] \in Int /\ v[e] = o + w[e]
      BY ONLY <2>2
    <2>4. IsNth(E, v, cut, o + t1) /\ IsNth(E, v, N + 1 - cut, o + t2)
      BY <1>4, <1>7, <2>3, NthShift
    <2> QED
      BY ONLY <1>6, <2>4
  <1> QED
    BY <1>6, <1>9, <1>10 DEF E, N, cut, t

\* The difficulty of the next block is a number, and not below the minimum
LEMMA DifficultyType ==
    ASSUME Shape(blocks), Typed(blocks), NEW tip \in 1 .. Len(blocks),
           NEW time, \A b \in 1 .. Len(blocks) : time[b] \in Int
    PROVE  get_difficulty_at(tip, time) \in Nat /\ get_difficulty_at(tip, time) >= MinDifficulty
  <1> DEFINE E == Entries(tip)
             t == CutTimes(E, time)
             seconds == IF t[2] > t[1] THEN t[2] - t[1] ELSE 1
             in == {x \in E : t[1] <= time[x[2]] /\ time[x[2]] <= t[2]}
             cum == [e \in E |-> blocks[e[2]].cumulative]
             work == {blocks[e[2]].cumulative : e \in in}
  <1>1. t[1] \in Int /\ t[2] \in Int
    <2> DEFINE v == [e \in E |-> time[e[2]]]
    <2>1. v = [e \in E |-> time[e[2]]]
      OBVIOUS
    <2> HIDE DEF v
    <2> QED
      BY <2>1, CutTimesAre
  <1>2. get_difficulty_at(tip, time) = Clamped((WorkBetween(work) * TargetTime) \div seconds)
    BY DEF get_difficulty_at
  <1>3. IsFiniteSet(E) /\ \A e \in E : cum[e] = blocks[e[2]].cumulative /\ cum[e] \in Nat
    BY EntriesOf DEF Typed
  <1> HIDE DEF E, t
  <1>4. in \subseteq E /\ IsFiniteSet(in)
    BY <1>3, FS_Subset
  <1> HIDE DEF in
  <1>6. IsFiniteSet(work) /\ work \subseteq Int
    <2>1. work = {cum[e] : e \in in}
      BY <1>3, <1>4
    <2>2. IsFiniteSet({cum[e] : e \in in})
      BY <1>4, ImageFinite
    <2> HIDE DEF cum
    <2>3. work \subseteq Int
      BY <1>3, <1>4, <2>1
    <2> QED
      BY <2>1, <2>2, <2>3
  <1> HIDE DEF work
  <1>7. WorkBetween(work) \in Nat
    <2>1. CASE work = {}
      BY <2>1 DEF WorkBetween
    <2>2. CASE work # {}
      <3>1. Max(work) \in Int /\ Min(work) \in Int /\ Min(work) <= Max(work)
        BY <1>6, <2>2, MaxMin
      <3> QED
        BY <2>2, <3>1 DEF WorkBetween
    <2> QED
      BY <2>1, <2>2
  <1>8. seconds \in Nat /\ seconds >= 1
    BY <1>1
  <1> DEFINE x == (WorkBetween(work) * TargetTime) \div seconds
  <1>9. x \in Int
    <2>1. TargetTime \in Nat
      BY PplnsAssumption
    <2>2. WorkBetween(work) * TargetTime \in Nat
      BY <1>7, <2>1
    <2> HIDE DEF seconds
    <2> QED
      BY <1>8, <2>2
  <1>10. MinDifficulty \in Nat
    BY PplnsAssumption
  <1> HIDE DEF x, seconds
  <1>11. /\ Max({x, MinDifficulty}) \in {x, MinDifficulty}
         /\ \A y \in {x, MinDifficulty} : y <= Max({x, MinDifficulty})
    <2>1. IsFiniteSet({x} \cup {MinDifficulty}) /\ {x, MinDifficulty} = {x} \cup {MinDifficulty}
      BY FS_Singleton, FS_AddElement
    <2>2. IsFiniteSet({x, MinDifficulty})
      BY <2>1, Zenon
    <2> QED
      BY <1>9, <1>10, <2>2, MaxMin
  <1>12. Clamped(x) \in Nat /\ Clamped(x) >= MinDifficulty
    BY <1>9, <1>10, <1>11 DEF Clamped
  <1> QED
    BY <1>2, <1>12 DEF x

-----------------------------------------------------------------------------
(* The inductive invariant                                                 *)

\* The difficulties of a set of blocks
DifficultiesIn(bs) == [b \in DOMAIN bs |-> bs[b].difficulty]

\* Nothing below a block is one of its uncles
UnclesAreNew(bs) ==
    \A b \in 1 .. Len(bs) : b # 1 => bs[b].uncles \cap HistoryIn(bs, bs[b].parent) = {}

\* Cumulative difficulty is the work of a block and all that is below it
WorkIsCounted(bs) ==
    \A b \in 1 .. Len(bs) :
        bs[b].cumulative = SumFunctionOnSet(DifficultiesIn(bs), HistoryIn(bs, b))

Inv == Shape(blocks) /\ Typed(blocks) /\ UnclesAreNew(blocks) /\ WorkIsCounted(blocks)

LEMMA HistoryFinite ==
    ASSUME NEW bs, Shape(bs), NEW b \in 1 .. Len(bs)
    PROVE  IsFiniteSet(HistoryIn(bs, b)) /\ HistoryIn(bs, b) \subseteq 1 .. Len(bs)
  <1>1. IsFiniteSet(1 .. b) /\ b \in Nat /\ Len(bs) \in Nat
    BY FS_Interval DEF Shape
  <1>2. HistoryIn(bs, b) \subseteq 1 .. b
    BY HistoryBelow
  <1> QED
    BY <1>1, <1>2, FS_Subset

LEMMA InitInv ==
    ASSUME Init
    PROVE  Inv
  <1>1. PICK wallet \in Wallets :
            blocks = <<[parent |-> NoBlock, uncles |-> {}, height |-> 0,
                        difficulty |-> MinDifficulty, cumulative |-> MinDifficulty,
                        time |-> 0, wallet |-> wallet]>>
    BY DEF Init
  <1>2. /\ Len(blocks) = 1 /\ DOMAIN blocks = 1 .. 1
        /\ blocks[1].parent = 0 /\ blocks[1].uncles = {} /\ blocks[1].height = 0
        /\ blocks[1].difficulty = MinDifficulty /\ blocks[1].cumulative = MinDifficulty
        /\ blocks[1].time = 0 /\ blocks[1].wallet = wallet
    BY <1>1 DEF NoBlock
  <1>3. \A b \in 1 .. Len(blocks) : b = 1
    BY <1>2
  <1>4. MinDifficulty \in Nat
    BY PplnsAssumption
  <1>5. Shape(blocks)
    <2>1. blocks = [b \in 1 .. Len(blocks) |-> blocks[b]]
      BY <1>1
    <2> QED
      BY <1>2, <1>3, <2>1 DEF Shape, NoBlock
  <1>6. Typed(blocks)
    BY <1>2, <1>3, <1>4 DEF Typed
  <1>7. UnclesAreNew(blocks)
    BY <1>3 DEF UnclesAreNew
  <1>8. WorkIsCounted(blocks)
    <2> DEFINE f == DifficultiesIn(blocks)
    <2>1. f[1] = MinDifficulty
      BY <1>2 DEF DifficultiesIn
    <2> HIDE DEF f
    <2>2. HistoryIn(blocks, 1) = {} \cup {1}
      BY <1>5, HistoryOfFirst
    <2>3. SumFunctionOnSet(f, {} \cup {1}) = SumFunctionOnSet(f, {}) + f[1]
      BY <1>4, <2>1, FS_EmptySet, SumAdd
    <2>4. SumFunctionOnSet(f, HistoryIn(blocks, 1)) = MinDifficulty
      BY <1>4, <2>1, <2>2, <2>3, SumEmpty
    <2> QED
      BY <1>2, <1>3, <2>4 DEF WorkIsCounted, f
  <1> QED
    BY <1>5, <1>6, <1>7, <1>8 DEF Inv

\* A possible uncle is not below the tip: it is high enough for mined_blocks to hold
\* everything of its height
LEMMA UnclesAreNotBelow ==
    ASSUME Shape(blocks), NEW tip \in 1 .. Len(blocks), NEW u \in PossibleUncles(tip)
    PROVE  u \notin HistoryIn(blocks, tip)
  <1> SUFFICES ASSUME u \in HistoryIn(blocks, tip) PROVE FALSE
    OBVIOUS
  <1>1. PICK i \in 0 .. blocks[tip].height :
            u = Anc(blocks, tip, i) \/ u \in blocks[Anc(blocks, tip, i)].uncles
    BY HistoryMember
  <1> DEFINE a == Anc(blocks, tip, i)
  <1>2. blocks[tip].height \in Nat /\ Len(blocks) \in Nat /\ UncleDepth \in Nat \ {0} /\ i \in Nat
    BY PplnsAssumption DEF Shape
  <1>3. a \in 1 .. Len(blocks) /\ blocks[a].height = blocks[tip].height - i
    BY <1>2, AncHeight
  <1> HIDE DEF a
  <1>4. /\ u \in 1 .. Len(blocks)
        /\ blocks[u].height + UncleDepth > blocks[tip].height
        /\ u \notin Mined(tip)
    BY DEF PossibleUncles, Ids, Height, Shape
  <1>5. blocks[u].height \in Nat /\ blocks[a].height \in Nat
    BY <1>3, <1>4 DEF Shape
  <1>6. blocks[u].height <= blocks[a].height
    <2>1. CASE u = a
      BY <1>5, <2>1
    <2>2. CASE u \in blocks[a].uncles
      <3>1. blocks[u].height < blocks[a].height
        BY <1>3, <2>2 DEF Shape
      <3> QED
        BY <1>5, <3>1
    <2> QED
      BY <1>1, <2>1, <2>2 DEF a
  <1>7. i \in 0 .. UncleDepth - 1
    BY <1>2, <1>3, <1>4, <1>5, <1>6
  <1>8. a = Ancestor(tip, i) /\ a # NoBlock
    BY <1>3, AncestorIsAnc DEF a, NoBlock
  <1>9. u \in {a} \cup blocks[a].uncles
    BY <1>1 DEF a
  <1>10. u \in Mined(tip)
    BY <1>7, <1>8, <1>9 DEF Mined
  <1> QED
    BY <1>4, <1>10

\* What a step adds
LEMMA MineShape ==
    ASSUME Inv, NEW tip \in Ids, NEW wallet \in Wallets, NEW step \in ClockSteps[wallet],
           Mine(tip, wallet, step)
    PROVE  \E uncles \in SUBSET PossibleUncles(tip) :
             LET n == Len(blocks) + 1
             IN  /\ tip \in 1 .. Len(blocks) /\ Len(blocks) \in Nat
                 /\ Len(blocks') = n /\ DOMAIN blocks' = 1 .. n
                 /\ blocks' = [b \in 1 .. n |-> blocks'[b]]
                 /\ \A b \in 1 .. Len(blocks) : blocks'[b] = blocks[b]
                 /\ blocks'[n].parent = tip /\ blocks'[n].uncles = uncles
                 /\ blocks'[n].height = blocks[tip].height + 1
                 /\ blocks'[n].difficulty = get_difficulty(tip)
                 /\ blocks'[n].cumulative = CumulativeOn(tip, uncles)
                 /\ blocks'[n].time \in Int /\ blocks'[n].wallet \in Wallets
  <1> DEFINE rec(u) == [parent |-> tip, uncles |-> u, height |-> Height(tip) + 1,
                        difficulty |-> get_difficulty(tip), cumulative |-> CumulativeOn(tip, u),
                        time |-> blocks[tip].time + step, wallet |-> wallet]
  <1>1. PICK uncles \in SUBSET PossibleUncles(tip) : blocks' = Append(blocks, rec(uncles))
    BY DEF Mine
  <1>2. tip \in 1 .. Len(blocks) /\ Len(blocks) \in Nat /\ DOMAIN blocks = 1 .. Len(blocks)
    BY DEF Inv, Shape, Ids
  <1>3. blocks[tip].time + step \in Int
    <2>1. step \in Int
      BY PplnsAssumption
    <2>2. blocks[tip].time \in Int
      BY <1>2 DEF Inv, Typed
    <2> QED
      BY <2>1, <2>2
  <1> DEFINE r == rec(uncles)
             n == Len(blocks) + 1
  <1>4. /\ r.parent = tip /\ r.uncles = uncles /\ r.height = blocks[tip].height + 1
        /\ r.difficulty = get_difficulty(tip) /\ r.cumulative = CumulativeOn(tip, uncles)
        /\ r.time \in Int /\ r.wallet \in Wallets
    BY <1>3 DEF Height
  <1> HIDE DEF rec, r
  <1>5. blocks' = Append(blocks, r)
    BY <1>1 DEF r
  <1>6. /\ Len(blocks') = n /\ DOMAIN blocks' = 1 .. n
        /\ \A b \in 1 .. Len(blocks) : blocks'[b] = blocks[b]
        /\ blocks'[n] = r
    <2>1. blocks \in Seq({blocks[b] : b \in 1 .. Len(blocks)} \cup {r})
      <3>1. blocks = [b \in 1 .. Len(blocks) |-> blocks[b]]
        BY DEF Inv, Shape
      <3> QED
        BY <1>2, <3>1
    <2> QED
      BY <1>2, <1>5, <2>1
  <1>7. blocks' = [b \in 1 .. n |-> blocks'[b]]
    <2> DEFINE X == {blocks[b] : b \in 1 .. Len(blocks)} \cup {r}
    <2>1. blocks = [b \in 1 .. Len(blocks) |-> blocks[b]]
      BY DEF Inv, Shape
    <2>2. blocks \in Seq(X) /\ r \in X
      BY <1>2, <2>1
    <2> HIDE DEF X
    <2>3. blocks' \in Seq(X)
      BY <1>5, <2>2
    <2> QED
      BY <1>6, <2>3
  <1> QED
    BY <1>2, <1>4, <1>6, <1>7

LEMMA MineKeepsShape ==
    ASSUME Inv, NEW tip \in Ids, NEW wallet \in Wallets, NEW step \in ClockSteps[wallet],
           Mine(tip, wallet, step)
    PROVE  Shape(blocks') /\ Typed(blocks')
  <1> DEFINE n == Len(blocks) + 1
  <1>1. PICK uncles \in SUBSET PossibleUncles(tip) :
                 /\ tip \in 1 .. Len(blocks) /\ Len(blocks) \in Nat
                 /\ Len(blocks') = n /\ DOMAIN blocks' = 1 .. n
                 /\ blocks' = [b \in 1 .. n |-> blocks'[b]]
                 /\ \A b \in 1 .. Len(blocks) : blocks'[b] = blocks[b]
                 /\ blocks'[n].parent = tip /\ blocks'[n].uncles = uncles
                 /\ blocks'[n].height = blocks[tip].height + 1
                 /\ blocks'[n].difficulty = get_difficulty(tip)
                 /\ blocks'[n].cumulative = CumulativeOn(tip, uncles)
                 /\ blocks'[n].time \in Int /\ blocks'[n].wallet \in Wallets
    BY MineShape
  <1>2. n \in Nat /\ n # 1 /\ Len(blocks) \in Nat
    BY <1>1
  <1>3. \A b \in 1 .. n : b \in 1 .. Len(blocks) \/ b = n
    BY <1>1
  <1>4. Shape(blocks) /\ Typed(blocks)
    BY DEF Inv
  <1>5. get_difficulty(tip) \in Nat /\ get_difficulty(tip) >= MinDifficulty
    <2>1. \A b \in 1 .. Len(blocks) : Timestamps[b] \in Int
      BY <1>4 DEF Timestamps, Ids, Typed, Shape
    <2> QED
      BY <1>1, <1>4, <2>1, DifficultyType DEF get_difficulty
  <1>6. /\ uncles \subseteq 1 .. Len(blocks) /\ IsFiniteSet(uncles)
        /\ \A u \in uncles : blocks[u].height <= blocks[tip].height
    <2>1. /\ uncles \subseteq 1 .. Len(blocks)
          /\ \A u \in uncles : blocks[u].height <= blocks[tip].height
      BY <1>4 DEF PossibleUncles, Ids, Height, Shape
    <2>2. IsFiniteSet(1 .. Len(blocks))
      <3>1. 1 \in Int /\ Len(blocks) \in Int
        BY <1>2
      <3> QED
        BY ONLY <3>1, FS_Interval
    <2> QED
      BY <2>1, <2>2, FS_Subset
  <1>7. CumulativeOn(tip, uncles) \in Nat
    <2> DEFINE f == [b \in Ids |-> Difficulty(b)]
    <2>1. \A u \in uncles : f[u] \in Nat
      BY <1>4, <1>6 DEF Ids, Difficulty, Typed, Shape
    <2> HIDE DEF f
    <2>2. SumFunctionOnSet(f, uncles) \in Int /\ SumFunctionOnSet(f, uncles) >= 0
      BY <1>6, <2>1, SumType
    <2>3. blocks[tip].cumulative \in Nat
      BY <1>1, <1>4 DEF Typed
    <2> QED
      BY <1>5, <2>2, <2>3 DEF CumulativeOn, Work, f
  <1>8. Typed(blocks')
    <2>1. ASSUME NEW b \in 1 .. Len(blocks)
          PROVE  /\ blocks'[b].difficulty \in Nat /\ blocks'[b].difficulty >= MinDifficulty
                 /\ blocks'[b].cumulative \in Nat /\ blocks'[b].time \in Int
                 /\ blocks'[b].wallet \in Wallets
      BY <1>1, <1>4 DEF Typed
    <2> HIDE DEF n
    <2>2. \A b \in 1 .. n :
              /\ blocks'[b].difficulty \in Nat /\ blocks'[b].difficulty >= MinDifficulty
              /\ blocks'[b].cumulative \in Nat /\ blocks'[b].time \in Int
              /\ blocks'[b].wallet \in Wallets
      BY <1>1, <1>3, <1>5, <1>7, <2>1
    <2> QED
      BY <1>1, <2>2 DEF Typed
  <1>9. Shape(blocks')
    <2>1. ASSUME NEW b \in 1 .. Len(blocks)
          PROVE  /\ blocks'[b].parent \in 0 .. b - 1 /\ (blocks'[b].parent = NoBlock <=> b = 1)
                 /\ blocks'[b].height \in Nat /\ (b = 1 => blocks'[b].height = 0)
                 /\ b # 1 => blocks'[b].height = blocks'[blocks'[b].parent].height + 1
                 /\ blocks'[b].uncles \subseteq 1 .. b - 1
                 /\ \A u \in blocks'[b].uncles : blocks'[u].height < blocks'[b].height
      <3>1. /\ blocks[b].parent \in 0 .. b - 1 /\ (blocks[b].parent = NoBlock <=> b = 1)
            /\ blocks[b].height \in Nat /\ (b = 1 => blocks[b].height = 0)
            /\ b # 1 => blocks[b].height = blocks[blocks[b].parent].height + 1
            /\ blocks[b].uncles \subseteq 1 .. b - 1
            /\ \A u \in blocks[b].uncles : blocks[u].height < blocks[b].height
        BY <1>4 DEF Shape
      <3>2. b # 1 => blocks[b].parent \in 1 .. Len(blocks)
        BY <1>1, <3>1 DEF NoBlock
      <3>3. \A u \in blocks[b].uncles : u \in 1 .. Len(blocks)
        BY <1>1, <3>1
      <3>4. /\ blocks'[b] = blocks[b]
            /\ b # 1 => blocks'[blocks[b].parent] = blocks[blocks[b].parent]
            /\ \A u \in blocks[b].uncles : blocks'[u] = blocks[u]
        BY <1>1, <3>2, <3>3
      <3> QED
        BY <3>1, <3>4
    <2>2. /\ blocks'[n].parent \in 0 .. n - 1 /\ (blocks'[n].parent = NoBlock <=> n = 1)
          /\ blocks'[n].height \in Nat /\ (n = 1 => blocks'[n].height = 0)
          /\ n # 1 => blocks'[n].height = blocks'[blocks'[n].parent].height + 1
          /\ blocks'[n].uncles \subseteq 1 .. n - 1
          /\ \A u \in blocks'[n].uncles : blocks'[u].height < blocks'[n].height
      <3>1. blocks'[tip] = blocks[tip] /\ blocks[tip].height \in Nat
        BY <1>1, <1>4 DEF Shape
      <3>2. \A u \in uncles : blocks'[u] = blocks[u] /\ blocks[u].height \in Nat
        BY <1>1, <1>4, <1>6 DEF Shape
      <3>3. tip \in 0 .. n - 1 /\ tip # NoBlock /\ 1 .. Len(blocks) = 1 .. n - 1
        BY <1>1 DEF NoBlock
      <3>4. \A u \in uncles : blocks'[u].height < blocks[tip].height + 1
        BY <1>6, <3>1, <3>2
      <3> HIDE DEF n
      <3> QED
        BY <1>1, <1>2, <1>6, <3>1, <3>3, <3>4
    <2> HIDE DEF n
    <2>3. \A b \in 1 .. n :
                 /\ blocks'[b].parent \in 0 .. b - 1 /\ (blocks'[b].parent = NoBlock <=> b = 1)
                 /\ blocks'[b].height \in Nat /\ (b = 1 => blocks'[b].height = 0)
                 /\ b # 1 => blocks'[b].height = blocks'[blocks'[b].parent].height + 1
                 /\ blocks'[b].uncles \subseteq 1 .. b - 1
                 /\ \A u \in blocks'[b].uncles : blocks'[u].height < blocks'[b].height
      BY <1>3, <2>1, <2>2
    <2>4. n \in Nat \ {0}
      BY <1>2 DEF n
    <2> QED
      BY <1>1, <2>3, <2>4 DEF Shape
  <1> QED
    BY <1>8, <1>9

LEMMA MineKeepsWork ==
    ASSUME Inv, NEW tip \in Ids, NEW wallet \in Wallets, NEW step \in ClockSteps[wallet],
           Mine(tip, wallet, step)
    PROVE  UnclesAreNew(blocks') /\ WorkIsCounted(blocks')
  <1> DEFINE n == Len(blocks) + 1
             bs == blocks'
             H == HistoryIn(blocks, tip)
             f == DifficultiesIn(blocks)
             g == DifficultiesIn(blocks')
  <1>1. PICK uncles \in SUBSET PossibleUncles(tip) :
                 /\ tip \in 1 .. Len(blocks) /\ Len(blocks) \in Nat
                 /\ Len(blocks') = n /\ DOMAIN blocks' = 1 .. n
                 /\ \A b \in 1 .. Len(blocks) : blocks'[b] = blocks[b]
                 /\ blocks'[n].parent = tip /\ blocks'[n].uncles = uncles
                 /\ blocks'[n].difficulty = get_difficulty(tip)
                 /\ blocks'[n].cumulative = CumulativeOn(tip, uncles)
    BY MineShape
  <1>2. Shape(blocks) /\ Typed(blocks) /\ Shape(blocks') /\ Typed(blocks')
    BY MineKeepsShape DEF Inv
  <1>3. n \in Nat /\ n # 1 /\ n \in 1 .. n /\ \A b \in 1 .. n : b \in 1 .. Len(blocks) \/ b = n
    BY <1>1
  <1>4. ASSUME NEW b \in 1 .. Len(blocks) PROVE HistoryIn(blocks', b) = HistoryIn(blocks, b)
    BY <1>1, <1>2, HistoryStays
  <1>5. uncles \cap H = {} /\ uncles \subseteq 1 .. Len(blocks)
    <2>1. uncles \cap H = {}
      BY <1>1, <1>2, UnclesAreNotBelow
    <2> QED
      BY <1>2, <2>1 DEF PossibleUncles, Ids, Shape
  <1>6. H \subseteq 1 .. Len(blocks) /\ IsFiniteSet(H) /\ IsFiniteSet(uncles)
    <2>1. IsFiniteSet(1 .. Len(blocks))
      BY <1>1, FS_Interval
    <2>2. H \subseteq 1 .. Len(blocks) /\ IsFiniteSet(H)
      BY <1>1, <1>2, HistoryFinite
    <2> QED
      BY <1>5, <2>1, <2>2, FS_Subset
  <1>7. /\ \A b \in 1 .. Len(blocks) : f[b] \in Nat /\ g[b] = f[b]
        /\ g[n] = get_difficulty(tip) /\ g[n] \in Nat
    <2>1. \A b \in 1 .. Len(blocks) : f[b] \in Nat /\ f[b] = blocks[b].difficulty
      BY <1>2 DEF DifficultiesIn, Typed, Shape
    <2>2. \A b \in 1 .. n : g[b] = blocks'[b].difficulty /\ blocks'[b].difficulty \in Nat
      BY <1>1, <1>2 DEF DifficultiesIn, Typed
    <2>3. \A b \in 1 .. Len(blocks) : b \in 1 .. n
      BY <1>1
    <2> HIDE DEF f, g, n
    <2> QED
      BY <1>1, <1>3, <2>1, <2>2, <2>3
  <1> HIDE DEF f, g
  <1>8. UnclesAreNew(blocks')
    <2>1. ASSUME NEW b \in 1 .. Len(blocks), b # 1
          PROVE  blocks'[b].uncles \cap HistoryIn(blocks', blocks'[b].parent) = {}
      <3>1. blocks[b].parent \in 1 .. Len(blocks) /\ blocks'[b] = blocks[b]
        BY <1>1, <1>2, <2>1 DEF Shape, NoBlock
      <3>2. blocks[b].uncles \cap HistoryIn(blocks, blocks[b].parent) = {}
        BY <2>1 DEF Inv, UnclesAreNew
      <3> QED
        BY <1>4, <3>1, <3>2
    <2>2. blocks'[n].uncles \cap HistoryIn(blocks', blocks'[n].parent) = {}
      BY <1>1, <1>4, <1>5
    <2> HIDE DEF n
    <2> QED
      BY <1>1, <1>3, <2>1, <2>2 DEF UnclesAreNew
  <1>9. SumFunctionOnSet(g, HistoryIn(blocks', n)) = blocks'[n].cumulative
    <2>1. HistoryIn(blocks', n) = ({n} \cup uncles) \cup H
      BY <1>1, <1>2, <1>3, <1>4, HistoryStep
    <2>2. n \notin uncles \cup H
      BY <1>1, <1>5, <1>6
    <2> DEFINE U == uncles \cup H
    <2>3. IsFiniteSet(U) /\ U \subseteq 1 .. Len(blocks) /\ HistoryIn(blocks', n) = U \cup {n}
      BY <1>5, <1>6, <2>1, FS_Union
    <2> HIDE DEF n, H
    <2>4. \A b \in U : f[b] \in Int /\ g[b] \in Int /\ g[b] = f[b]
      BY <1>7, <2>3
    <2>5. SumFunctionOnSet(f, U) = SumFunctionOnSet(f, uncles) + SumFunctionOnSet(f, H)
      BY <1>5, <1>6, <2>4, SumUnion
    <2>6. SumFunctionOnSet(g, U) = SumFunctionOnSet(f, U)
      BY <2>3, <2>4, SumSame
    <2>7. SumFunctionOnSet(g, U \cup {n}) = SumFunctionOnSet(g, U) + g[n]
      <3>1. n \notin U /\ \A y \in U \cup {n} : g[y] \in Int
        BY <1>7, <2>2, <2>4
      <3> HIDE DEF U
      <3> QED
        BY <2>3, <3>1, SumAdd
    <2>8. SumFunctionOnSet(f, H) = blocks[tip].cumulative
      BY <1>1 DEF Inv, WorkIsCounted, f, H
    <2>9. SumFunctionOnSet(f, uncles) = Work(uncles)
      BY DEF f, DifficultiesIn, Work, Ids, Difficulty
    <2>10. SumFunctionOnSet(f, uncles) \in Int /\ SumFunctionOnSet(f, H) \in Int
      BY <1>6, <2>4, SumType
    <2>11. blocks'[n].cumulative = blocks[tip].cumulative + get_difficulty(tip) + Work(uncles)
      BY <1>1 DEF CumulativeOn
    <2>12. SumFunctionOnSet(g, HistoryIn(blocks', n)) = SumFunctionOnSet(g, U \cup {n})
      BY <2>3, Zenon
    <2> HIDE DEF U
    <2> QED
      BY ONLY <1>7, <2>5, <2>6, <2>7, <2>8, <2>9, <2>10, <2>11, <2>12
  <1>10. ASSUME NEW b \in 1 .. Len(blocks)
         PROVE  SumFunctionOnSet(g, HistoryIn(blocks', b)) = blocks'[b].cumulative
    <2>1. HistoryIn(blocks', b) = HistoryIn(blocks, b) /\ blocks'[b] = blocks[b]
      BY <1>1, <1>4
    <2>2. IsFiniteSet(HistoryIn(blocks, b)) /\ HistoryIn(blocks, b) \subseteq 1 .. Len(blocks)
      BY <1>2, HistoryFinite
    <2>3. SumFunctionOnSet(g, HistoryIn(blocks, b)) = SumFunctionOnSet(f, HistoryIn(blocks, b))
      BY <1>7, <2>2, SumSame
    <2>4. SumFunctionOnSet(f, HistoryIn(blocks, b)) = blocks[b].cumulative
      BY DEF Inv, WorkIsCounted, f
    <2> QED
      BY <2>1, <2>3, <2>4
  <1>11. WorkIsCounted(blocks')
    <2> HIDE DEF n
    <2> QED
      BY <1>1, <1>3, <1>9, <1>10 DEF WorkIsCounted, g
  <1> QED
    BY <1>8, <1>11

LEMMA NextInv ==
    ASSUME Inv, [Next]_blocks
    PROVE  Inv'
  <1>1. CASE UNCHANGED blocks
    BY <1>1 DEF Inv
  <1>2. CASE Next
    <2>1. PICK tip \in Ids, wallet \in Wallets : \E step \in ClockSteps[wallet] : Mine(tip, wallet, step)
      BY <1>2 DEF Next
    <2>2. PICK step \in ClockSteps[wallet] : Mine(tip, wallet, step)
      BY <2>1
    <2>3. Shape(blocks') /\ Typed(blocks') /\ UnclesAreNew(blocks') /\ WorkIsCounted(blocks')
      BY <2>2, MineKeepsShape, MineKeepsWork
    <2> QED
      BY <2>3 DEF Inv
  <1> QED
    BY <1>1, <1>2

LEMMA Invariance == Spec => []Inv
  <1>1. Init => Inv
    BY InitInv
  <1>2. Inv /\ [Next]_blocks => Inv'
    BY NextInv
  <1> QED
    BY <1>1, <1>2, PTL DEF Spec

-----------------------------------------------------------------------------
(* The theorems                                                            *)

\* Every block has its members and knows only older blocks, and no difficulty is below
\* the minimum, whatever the clocks of the miners say.
THEOREM Types == Spec => []TypeOK
  <1>1. Inv => TypeOK
    <2> SUFFICES ASSUME Inv, NEW b \in Ids
                 PROVE  /\ blocks[b].parent \in 0 .. b - 1 /\ blocks[b].uncles \subseteq 1 .. b - 1
                        /\ Height(b) \in Nat
                        /\ Difficulty(b) >= MinDifficulty /\ blocks[b].cumulative \in Nat
                        /\ blocks[b].time \in Int /\ blocks[b].wallet \in Wallets
      BY DEF TypeOK
    <2>1. b \in 1 .. Len(blocks)
      BY DEF Inv, Shape, Ids
    <2> QED
      BY <2>1 DEF Inv, Shape, Typed, Height, Difficulty
  <1> QED
    BY <1>1, Invariance, PTL

\* m_cumulativeDifficulty, by which chains are compared, is the work of the block and of
\* all that is below it, uncles included, and counts no block twice: an uncle that is
\* allowed at all is high enough for mined_blocks to know whether it was mined before.
THEOREM CumulativeWork == Spec => []CumulativeIsWorkDone
  <1>1. Inv => CumulativeIsWorkDone
    <2> SUFFICES ASSUME Inv PROVE CumulativeIsWorkDone
      OBVIOUS
    <2>1. Newest \in 1 .. Len(blocks)
      BY DEF Inv, Shape, Newest
    <2>2. blocks[Newest].cumulative
            = SumFunctionOnSet(DifficultiesIn(blocks), HistoryIn(blocks, Newest))
      BY <2>1 DEF Inv, WorkIsCounted
    <2>3. History(Newest) = HistoryIn(blocks, Newest)
      BY AncestorIsAnc DEF History, HistoryIn, Height
    <2>4. Work(History(Newest)) = SumFunctionOnSet(DifficultiesIn(blocks), History(Newest))
      BY DEF Work, DifficultiesIn, Ids, Difficulty
    <2> QED
      BY <2>2, <2>3, <2>4, Zenon DEF CumulativeIsWorkDone
  <1> QED
    BY <1>1, Invariance, PTL

-----------------------------------------------------------------------------
(* No block is twice in the window of a tip                                *)

LEMMA RoundsApart ==
    ASSUME Inv, NEW tip \in 1 .. Len(blocks), NEW i \in Rounds(tip), NEW j \in Rounds(tip), i < j
    PROVE  InRound(tip, i) \cap InRound(tip, j) = {}
  <1> DEFINE a == Anc(blocks, tip, i)
             p == blocks[a].parent
             m == j - (i + 1)
             c == Anc(blocks, tip, j)
  <1>1. Shape(blocks) /\ UnclesAreNew(blocks)
    BY DEF Inv
  <1>2. /\ Height(tip) \in Nat /\ i \in Nat /\ j \in Nat /\ j <= Height(tip)
        /\ Len(blocks) \in Nat
    BY <1>1, RoundsOf DEF Shape
  <1>3. m \in Nat /\ i + 1 \in Nat /\ i + 1 <= Height(tip) /\ (i + 1) + m = j
    BY <1>2
  <1>4. /\ a \in 1 .. tip /\ a = Ancestor(tip, i) /\ blocks[a].height = Height(tip) - i
        /\ c \in 1 .. tip /\ c = Ancestor(tip, j) /\ blocks[c].height = Height(tip) - j
    BY <1>1, RoundsOf DEF Height
  <1>5. a \in 1 .. Len(blocks) /\ a # NoBlock
    BY <1>2, <1>4 DEF NoBlock
  <1>6. p = Anc(blocks, tip, i + 1)
    <2>1. Anc(blocks, tip, i + 1) = Down(blocks, a)
      BY <1>2, AncEquation
    <2>2. Down(blocks, a) = p
      BY <1>5, Zenon DEF Down
    <2> QED
      BY <2>1, <2>2
  <1> HIDE DEF m
  <1>7. c = Anc(blocks, p, m)
    <2>1. Anc(blocks, Anc(blocks, tip, i + 1), m) = Anc(blocks, tip, (i + 1) + m)
      BY <1>3, AncAdd
    <2> QED
      BY <1>3, <1>6, <2>1
  <1>8. a # 1
    BY <1>1, <1>2, <1>4 DEF Shape
  <1>9. p \in 1 .. Len(blocks) /\ p < a /\ blocks[p].height \in Nat
        /\ blocks[a].height = blocks[p].height + 1 /\ blocks[a].height \in Nat
    BY <1>1, <1>2, <1>5, <1>8 DEF Shape, NoBlock
  <1> HIDE DEF a, p, c
  <1>10. m \in 0 .. blocks[p].height
    <2>1. blocks[p].height = Height(tip) - i - 1
      BY <1>2, <1>4, <1>9
    <2> QED
      BY <1>2, <1>3, <2>1
  <1>11. {c} \cup blocks[c].uncles \subseteq HistoryIn(blocks, p)
    BY <1>7, <1>10, HistoryMember
  <1>12. blocks[a].uncles \cap HistoryIn(blocks, p) = {}
    BY <1>1, <1>5, <1>8 DEF UnclesAreNew, p
  <1>13. a \notin HistoryIn(blocks, p)
    <2>1. HistoryIn(blocks, p) \subseteq 1 .. p
      BY <1>1, <1>9, HistoryBelow
    <2> QED
      BY <1>5, <1>9, <2>1
  <1>14. InRound(tip, i) \subseteq {a} \cup blocks[a].uncles /\ InRound(tip, j) \subseteq {c} \cup blocks[c].uncles
    BY <1>4 DEF InRound, UnclesIn
  <1> QED
    BY <1>11, <1>12, <1>13, <1>14

LEMMA EntriesDistinct ==
    ASSUME Inv, NEW tip \in 1 .. Len(blocks), NEW e \in Entries(tip), NEW f \in Entries(tip), e[2] = f[2]
    PROVE  e = f
  <1>1. Shape(blocks)
    BY DEF Inv
  <1>2. PICK i \in Rounds(tip) : e \in {i} \X InRound(tip, i)
    BY DEF Entries
  <1>3. PICK j \in Rounds(tip) : f \in {j} \X InRound(tip, j)
    BY DEF Entries
  <1>4. e = <<i, e[2]>> /\ f = <<j, f[2]>> /\ e[2] \in InRound(tip, i) /\ f[2] \in InRound(tip, j)
    BY <1>2, <1>3
  <1>5. i \in Nat /\ j \in Nat
    BY <1>1, RoundsOf
  <1>6. ~(i < j) /\ ~(j < i)
    BY <1>4, RoundsApart
  <1> QED
    BY <1>4, <1>5, <1>6

LEMMA PaidIsEntries ==
    ASSUME NEW tip
    PROVE  Paid(tip) = {e[2] : e \in Entries(tip)}
  <1>1. ASSUME NEW b PROVE b \in Paid(tip) <=> \E i \in Rounds(tip) : b \in InRound(tip, i)
    BY DEF Paid, Chain, InRound
  <1>2. ASSUME NEW b \in Paid(tip) PROVE \E e \in Entries(tip) : e[2] = b
    <2>1. PICK i \in Rounds(tip) : b \in InRound(tip, i)
      BY <1>1
    <2>2. <<i, b>> \in Entries(tip)
      BY <2>1 DEF Entries
    <2> QED
      BY <2>2
  <1>3. ASSUME NEW e \in Entries(tip) PROVE e[2] \in Paid(tip)
    <2>1. PICK i \in Rounds(tip) : e \in {i} \X InRound(tip, i)
      BY DEF Entries
    <2>2. e[2] \in InRound(tip, i)
      BY <2>1
    <2> QED
      BY <1>1, <2>2
  <1> QED
    BY <1>2, <1>3

-----------------------------------------------------------------------------
(* A fast clock                                                            *)

\* The n-th value does not change when the largest one grows, unless it is the largest
LEMMA NthIgnoresLargest ==
    ASSUME NEW D, IsFiniteSet(D), NEW x \in D, NEW v, NEW z,
           \A d \in D : v[d] \in Int /\ z[d] \in Int,
           \A d \in D \ {x} : v[d] < v[x] /\ z[d] = v[d], z[x] >= v[x],
           NEW n \in Nat, n < Cardinality(D), NEW t, IsNth(D, v, n, t)
    PROVE  IsNth(D, z, n, t) /\ t < v[x] /\ t < z[x]
  <1>1. Cardinality(D) \in Nat /\ Cardinality(D \ {x}) = Cardinality(D) - 1
    BY FS_RemoveElement, FS_CardinalityType
  <1>2. PICK d \in D : t = v[d]
    BY DEF IsNth
  <1>3. t # v[x]
    <2> SUFFICES ASSUME t = v[x] PROVE FALSE
      OBVIOUS
    <2>1. BelowT(D, v, t) = D \ {x}
      BY DEF BelowT
    <2>2. Cardinality(BelowT(D, v, t)) = Cardinality(D \ {x})
      BY <2>1, Zenon
    <2>3. Cardinality(BelowT(D, v, t)) < n
      BY DEF IsNth
    <2> QED
      BY <1>1, <2>2, <2>3
  <1>4. d # x /\ t < v[x] /\ t < z[x] /\ t = z[d] /\ t \in Int
    BY <1>2, <1>3
  <1>5. BelowT(D, v, t) = BelowT(D, z, t) /\ UptoT(D, v, t) = UptoT(D, z, t)
    BY <1>4 DEF BelowT, UptoT
  <1>6. t \in {z[y] : y \in D}
    BY <1>4
  <1>7. IsNth(D, z, n, t)
    BY <1>5, <1>6, Zenon DEF IsNth
  <1> QED
    BY <1>4, <1>7

\* A miner with the newest timestamp of the window can not change the next difficulty by
\* setting its clock further forward, as long as no difference of timestamps is truncated
\* (2^32 seconds): that timestamp is beyond the cut, and so is its block.
THEOREM FastClock == Spec => []FastClockIsIgnored
  <1>1. Inv => FastClockIsIgnored
    <2> DEFINE tip == Newest
               E == Entries(tip)
               T == Timestamps
               N == Cardinality(E)
               cut == (N + CutPart - 1) \div CutPart
    <2> SUFFICES ASSUME Inv, NEW b \in Paid(tip), N > CutPart,
                        \A c \in Paid(tip) \ {b} : T[c] < T[b],
                        NEW d \in 1 .. TimeModulus,
                        \A c \in Paid(tip) : T[b] + d - T[c] < TimeModulus
                 PROVE  get_difficulty_at(tip, [T EXCEPT ![b] = @ + d]) = get_difficulty(tip)
      BY DEF FastClockIsIgnored
    <2> DEFINE Z == [T EXCEPT ![b] = @ + d]
               v == [e \in E |-> T[e[2]]]
               z == [e \in E |-> Z[e[2]]]
    <2>1. Shape(blocks) /\ Typed(blocks) /\ tip \in 1 .. Len(blocks)
      BY DEF Inv, Shape, Newest
    <2>2. d \in Nat /\ TimeModulus \in Nat
      BY PplnsAssumption
    <2>3. DOMAIN T = 1 .. Len(blocks) /\ \A c \in 1 .. Len(blocks) : T[c] \in Int
      BY <2>1 DEF Timestamps, Ids, Typed, Shape
    <2>4. PICK x \in E : x[2] = b
      BY PaidIsEntries
    <2>5. /\ IsFiniteSet(E) /\ N \in Nat /\ N >= 1
          /\ \A e \in E : e[2] \in 1 .. Len(blocks) /\ e[2] \in Paid(tip)
      <3>1. \A e \in E : e[2] \in Paid(tip)
        BY PaidIsEntries
      <3> QED
        BY <2>1, <3>1, EntriesOf
    <2>6. /\ b \in 1 .. Len(blocks) /\ Z[b] >= T[b] /\ Z[b] \in Int /\ Z[b] = T[b] + d
          /\ \A c \in 1 .. Len(blocks) \ {b} : Z[c] = T[c]
      <3>1. b \in 1 .. Len(blocks)
        BY <2>4, <2>5
      <3>2. T[b] \in Int /\ Z[b] = T[b] + d
        BY <2>3, <3>1 DEF Timestamps, Ids
      <3>3. \A c \in 1 .. Len(blocks) \ {b} : Z[c] = T[c]
        BY <2>3 DEF Timestamps, Ids
      <3> HIDE DEF Z, T
      <3> QED
        BY <2>2, <3>1, <3>2, <3>3
    <2> HIDE DEF Z, T
    <2>7. \A c \in 1 .. Len(blocks) : Z[c] \in Int
      BY <2>3, <2>6
    <2>8. \A e \in E \ {x} : e[2] # b
      BY <2>1, <2>4, EntriesDistinct
    <2>9. /\ \A e \in E : v[e] = T[e[2]] /\ z[e] = Z[e[2]] /\ v[e] \in Int /\ z[e] \in Int
          /\ \A e \in E \ {x} : v[e] < v[x] /\ z[e] = v[e]
          /\ z[x] >= v[x]
      <3>1. \A e \in E : v[e] = T[e[2]] /\ z[e] = Z[e[2]]
        OBVIOUS
      <3> HIDE DEF v, z, E
      <3>2. \A e \in E : v[e] \in Int /\ z[e] \in Int
        BY <2>3, <2>5, <2>7, <3>1
      <3>3. \A e \in E \ {x} : v[e] < v[x] /\ z[e] = v[e]
        BY <2>4, <2>5, <2>6, <2>8, <3>1
      <3> QED
        BY <2>4, <2>6, <3>1, <3>2, <3>3
    <2>10. cut \in Nat /\ N + 1 - cut \in Nat /\ cut < N /\ N + 1 - cut < N
      <3>1. cut \in 1 .. N /\ cut <= N + 1 - cut /\ cut >= 2
        BY <2>5, CutSize
      <3> HIDE DEF N, cut
      <3> QED
        BY <2>5, <3>1
    <2>10a. \A e, f \in E : v[e] - v[f] < TimeModulus /\ z[e] - z[f] < TimeModulus
      <3>1. v[x] = T[b] /\ z[x] = T[b] + d /\ \A f \in E : T[b] + d - v[f] < TimeModulus
        BY <2>4, <2>5, <2>6, <2>9
      <3> HIDE DEF E, v, z, N, cut
      <3>2. \A e \in E : v[e] <= v[x] /\ z[e] <= z[x] /\ v[e] <= z[e]
        BY <2>9
      <3> QED
        BY <2>2, <2>9, <2>4, <3>1, <3>2
    <2> DEFINE t == CutTimes(E, T)
               s == CutTimes(E, Z)
    <2>11. /\ t = <<t[1], t[2]>> /\ IsNth(E, v, cut, t[1]) /\ IsNth(E, v, N + 1 - cut, t[2])
      <3>1. ASSUME NEW e \in E, NEW f \in E PROVE v[e] - v[f] < TimeModulus
        BY <2>10a, <3>1
      <3> QED
        BY <2>1, <2>3, <3>1, CutTimesAre
    <2>12. /\ s = <<s[1], s[2]>> /\ IsNth(E, z, cut, s[1]) /\ IsNth(E, z, N + 1 - cut, s[2])
      <3>1. ASSUME NEW e \in E, NEW f \in E PROVE z[e] - z[f] < TimeModulus
        BY <2>10a, <3>1
      <3> QED
        BY <2>1, <2>7, <3>1, CutTimesAre
    <2> HIDE DEF E, v, z, t, s, cut
    <2>13. IsNth(E, z, cut, t[1])
      BY <2>5, <2>9, <2>10, <2>11, NthIgnoresLargest DEF N
    <2>14. IsNth(E, z, N + 1 - cut, t[2]) /\ t[2] < v[x] /\ t[2] < z[x]
      BY <2>5, <2>9, <2>10, <2>11, NthIgnoresLargest DEF N
    <2> HIDE DEF N
    <2>15. t[1] = s[1]
      <3>0. cut \in Nat /\ cut <= cut /\ \A e \in E : z[e] \in Int
        BY <2>9, <2>10
      <3>1. t[1] \in Int /\ s[1] \in Int /\ t[1] <= s[1] /\ s[1] <= t[1]
        BY <2>5, <2>12, <2>13, <3>0, NthMonotone
      <3> QED
        BY <3>1
    <2>16. t[2] = s[2] /\ t[2] \in Int
      <3>1. t[2] \in Int /\ s[2] \in Int /\ t[2] <= s[2] /\ s[2] <= t[2]
        BY <2>5, <2>9, <2>10, <2>12, <2>14, NthMonotone
      <3> QED
        BY <3>1
    <2>17. t = s
      BY <2>11, <2>12, <2>15, <2>16
    <2>18. {e \in E : t[1] <= T[e[2]] /\ T[e[2]] <= t[2]} = {e \in E : t[1] <= Z[e[2]] /\ Z[e[2]] <= t[2]}
      <3>1. ~(T[x[2]] <= t[2]) /\ ~(Z[x[2]] <= t[2])
        BY <2>9, <2>14, <2>16
      <3>2. \A e \in E \ {x} : T[e[2]] = Z[e[2]]
        BY <2>9
      <3> QED
        BY <3>1, <3>2
    <2>19. get_difficulty_at(tip, Z) = get_difficulty_at(tip, T)
      BY <2>17, <2>18, Zenon DEF get_difficulty_at, t, s, E
    <2> QED
      BY <2>19 DEF get_difficulty, Z, T
  <1> QED
    BY <1>1, Invariance, PTL

-----------------------------------------------------------------------------
(* The shares of a tip: sums over rounds                                   *)

LEMMA SumPlus ==
    ASSUME NEW f, NEW g, NEW h, NEW S, IsFiniteSet(S),
           \A x \in S : f[x] \in Int /\ g[x] \in Int /\ h[x] = f[x] + g[x]
    PROVE  SumFunctionOnSet(h, S) = SumFunctionOnSet(f, S) + SumFunctionOnSet(g, S)
  <1> DEFINE Good(q) == SumFunctionOnSet(h, q) = SumFunctionOnSet(f, q) + SumFunctionOnSet(g, q)
             Bad == {q \in SUBSET S : ~Good(q)}
  <1>0. ASSUME NEW q \in SUBSET S PROVE IsFiniteSet(q)
    BY FS_Subset
  <1>1. SUFFICES ASSUME Bad # {} PROVE FALSE
    <2>1. S \notin Bad => Good(S)
      OBVIOUS
    <2> QED
      BY <2>1
  <1>2. PICK q \in Bad : \A r \in Bad : Cardinality(q) <= Cardinality(r)
    BY <1>0, <1>1, SmallestSet
  <1>3. q # {}
    <2>1. Good({})
      BY SumEmpty
    <2> QED
      BY <2>1
  <1>4. /\ First(q) \in q /\ Cardinality(q) \in Nat
        /\ Cardinality(q \ {First(q)}) = Cardinality(q) - 1
    BY <1>0, <1>3, FirstIn
  <1>5. q \ {First(q)} \in SUBSET S /\ q \ {First(q)} \notin Bad
    BY <1>2, <1>4
  <1> DEFINE p == First(q)
             r == q \ {p}
  <1>6. Good(r)
    BY <1>5
  <1>7. /\ SumFunctionOnSet(f, q) = f[p] + SumFunctionOnSet(f, r)
        /\ SumFunctionOnSet(g, q) = g[p] + SumFunctionOnSet(g, r)
        /\ SumFunctionOnSet(h, q) = h[p] + SumFunctionOnSet(h, r)
    BY <1>0, <1>3, SumStep
  <1>8. f[p] \in Int /\ g[p] \in Int /\ h[p] = f[p] + g[p]
    BY <1>4
  <1>9. SumFunctionOnSet(f, r) \in Int /\ SumFunctionOnSet(g, r) \in Int
    <2>1. IsFiniteSet(r) /\ \A x \in r : f[x] \in Int /\ g[x] \in Int
      BY <1>0, <1>5
    <2> QED
      BY <2>1, SumType
  <1> HIDE DEF p, r
  <1>10. Good(q)
    BY ONLY <1>6, <1>7, <1>8, <1>9
  <1> QED
    BY <1>10

\* A sum may be taken over other names
LEMMA SumMap ==
    ASSUME NEW D, IsFiniteSet(D), NEW s, \A x, y \in D : s[x] = s[y] => x = y,
           NEW f, NEW g, \A d \in D : f[d] \in Int /\ f[d] = g[s[d]]
    PROVE  SumFunctionOnSet(f, D) = SumFunctionOnSet(g, {s[d] : d \in D})
  <1> DEFINE Im(q) == {s[d] : d \in q}
             Good(q) == SumFunctionOnSet(f, q) = SumFunctionOnSet(g, Im(q))
             Bad == {q \in SUBSET D : ~Good(q)}
  <1>0. ASSUME NEW q \in SUBSET D PROVE IsFiniteSet(q)
    BY FS_Subset
  <1>1. SUFFICES ASSUME Bad # {} PROVE FALSE
    <2>1. D \notin Bad => Good(D)
      OBVIOUS
    <2> QED
      BY <2>1
  <1>2. PICK q \in Bad : \A r \in Bad : Cardinality(q) <= Cardinality(r)
    BY <1>0, <1>1, SmallestSet
  <1>3. q # {}
    <2>1. Im({}) = {}
      OBVIOUS
    <2>2. Good({})
      BY <2>1, SumEmpty
    <2> QED
      BY <2>2
  <1> DEFINE p == First(q)
             r == q \ {p}
  <1>4. /\ p \in q /\ Cardinality(q) \in Nat /\ Cardinality(r) = Cardinality(q) - 1
    BY <1>0, <1>3, FirstIn
  <1>5. r \in SUBSET D /\ r \notin Bad
    BY <1>2, <1>4
  <1>6. Good(r)
    BY <1>5
  <1>7. SumFunctionOnSet(f, q) = f[p] + SumFunctionOnSet(f, r)
    BY <1>0, <1>3, SumStep
  <1> HIDE DEF p
  <1>8. Im(q) = Im(r) \cup {s[p]} /\ s[p] \notin Im(r)
    BY <1>4
  <1>9. IsFiniteSet(Im(r)) /\ \A y \in Im(r) \cup {s[p]} : g[y] \in Int
    <2>1. IsFiniteSet(r)
      BY <1>0, <1>5
    <2>2. IsFiniteSet(Im(r))
      BY <2>1, ImageFinite
    <2> QED
      BY <1>4, <1>5, <2>2
  <1> HIDE DEF Im
  <1>10. SumFunctionOnSet(g, Im(r) \cup {s[p]}) = SumFunctionOnSet(g, Im(r)) + g[s[p]]
    BY <1>8, <1>9, SumAdd
  <1>11. SumFunctionOnSet(g, Im(q)) = SumFunctionOnSet(g, Im(r) \cup {s[p]})
    BY <1>8, Zenon
  <1>12. f[p] = g[s[p]] /\ f[p] \in Int /\ SumFunctionOnSet(g, Im(r)) \in Int
    BY <1>4, <1>9, SumType
  <1> HIDE DEF r
  <1>13. Good(q)
    BY ONLY <1>6, <1>7, <1>10, <1>11, <1>12
  <1> QED
    BY <1>13

\* Difficulties and penalties of the stored blocks, as functions
Work_f == [b \in Ids |-> Difficulty(b)]
Pen_f == [u \in Ids |-> Penalty(u)]

LEMMA WeightsAreNumbers ==
    ASSUME Inv, NEW b \in 1 .. Len(blocks)
    PROVE  /\ Work_f[b] = Difficulty(b) /\ Difficulty(b) \in Int
           /\ Pen_f[b] = Penalty(b) /\ Penalty(b) \in Int
  <1>1. Difficulty(b) \in Nat /\ UnclePenalty \in Nat /\ b \in Ids
    <2>1. UnclePenalty \in Nat
      BY PplnsAssumption
    <2>2. Difficulty(b) \in Nat /\ b \in Ids
      BY DEF Inv, Typed, Shape, Difficulty, Ids
    <2> QED
      BY <2>1, <2>2
  <1>2. Penalty(b) \in Int
    BY <1>1 DEF Penalty
  <1> QED
    BY <1>1, <1>2 DEF Work_f, Pen_f

\* A round gives out the work of its blocks: what an uncle loses its nephew gets
LEMMA RoundSum ==
    ASSUME Inv, NEW tip \in 1 .. Len(blocks), NEW k \in Rounds(tip),
           NEW SW, SW = [e \in Entries(tip) |-> ShareWeight(tip, e)]
    PROVE  /\ {k} \X InRound(tip, k) \subseteq Entries(tip)
           /\ \A e \in {k} \X InRound(tip, k) : SW[e] \in Int
           /\ IsFiniteSet(InRound(tip, k)) /\ InRound(tip, k) \subseteq 1 .. Len(blocks)
           /\ SumFunctionOnSet(SW, {k} \X InRound(tip, k)) = Work(InRound(tip, k))
  <1> DEFINE a == Ancestor(tip, k)
             U == UnclesIn(tip, a)
             R == InRound(tip, k)
             f == [b \in R |-> ShareWeight(tip, <<k, b>>)]
             s == [b \in R |-> <<k, b>>]
  <1>1. Shape(blocks) /\ Len(blocks) \in Nat
    BY DEF Inv, Shape
  <1>2. a \in 1 .. tip /\ a \in 1 .. Len(blocks)
    BY <1>1, RoundsOf
  <1>3. U \subseteq 1 .. Len(blocks) /\ a \notin U
    BY <1>1, <1>2 DEF UnclesIn, Shape
  <1>4. R = U \cup {a} /\ R \subseteq 1 .. Len(blocks)
    BY <1>2, <1>3 DEF InRound
  <1>5. IsFiniteSet(U) /\ IsFiniteSet(R)
    <2>1. IsFiniteSet(1 .. Len(blocks))
      <3>1. 1 \in Int /\ Len(blocks) \in Int
        BY <1>1
      <3> QED
        BY ONLY <3>1, FS_Interval
    <2> QED
      BY <1>3, <1>4, <2>1, FS_Subset
  <1>6. {k} \X R \subseteq Entries(tip)
    BY DEF Entries
  <1>7. \A b \in 1 .. Len(blocks) : /\ Work_f[b] = Difficulty(b) /\ Difficulty(b) \in Int
                                    /\ Pen_f[b] = Penalty(b) /\ Penalty(b) \in Int
    BY WeightsAreNumbers
  <1>8. SumFunctionOnSet(Pen_f, U) \in Int /\ SumFunctionOnSet(Pen_f, U) = Penalties(U)
    <2>1. \A u \in U : Pen_f[u] \in Int
      BY <1>3, <1>7
    <2>2. SumFunctionOnSet(Pen_f, U) = Penalties(U)
      BY DEF Pen_f, Penalties
    <2> HIDE DEF U
    <2> QED
      BY <1>5, <2>1, <2>2, SumType
  <1>9. ASSUME NEW b \in R
        PROVE  ShareWeight(tip, <<k, b>>) = IF b = a THEN Difficulty(a) + Penalties(U)
                                                     ELSE Difficulty(b) - Penalty(b)
    BY DEF ShareWeight
  <1>10. f[a] = Work_f[a] + SumFunctionOnSet(Pen_f, U) /\ f[a] \in Int
    <2>1. f[a] = ShareWeight(tip, <<k, a>>)
      BY <1>4
    <2> HIDE DEF f, U
    <2> QED
      BY <1>2, <1>4, <1>7, <1>8, <1>9, <2>1
  <1>11. \A u \in U : f[u] \in Int /\ Work_f[u] = f[u] + Pen_f[u] /\ Pen_f[u] \in Int
    <2>1. \A u \in U : f[u] = ShareWeight(tip, <<k, u>>)
      BY <1>4
    <2>2. \A u \in U : f[u] = Difficulty(u) - Penalty(u)
      BY <1>3, <1>4, <1>9, <2>1
    <2> HIDE DEF f, U
    <2> QED
      BY <1>3, <1>7, <2>2
  <1>12. \A b \in R : s[b] = <<k, b>> /\ f[b] = SW[s[b]] /\ f[b] \in Int
    <2>1. \A b \in R : s[b] = <<k, b>> /\ <<k, b>> \in Entries(tip) /\ f[b] = ShareWeight(tip, <<k, b>>)
      BY <1>6
    <2>2. \A b \in R : f[b] = SW[s[b]]
      BY <2>1
    <2> HIDE DEF f, U, R, s
    <2> QED
      BY <1>4, <1>10, <1>11, <2>1, <2>2
  <1>13. {s[b] : b \in R} = {k} \X R
    OBVIOUS
  <1>14. \A x, y \in R : s[x] = s[y] => x = y
    OBVIOUS
  <1>15. \A e \in {k} \X R : SW[e] \in Int
    BY <1>12, <1>13
  <1> HIDE DEF f, s, U, R
  <1>16. SumFunctionOnSet(f, R) = SumFunctionOnSet(SW, {s[b] : b \in R})
    BY <1>5, <1>12, <1>14, SumMap
  <1>17. SumFunctionOnSet(SW, {k} \X R) = SumFunctionOnSet(f, R)
    BY <1>13, <1>16, Zenon
  <1>18. SumFunctionOnSet(f, U \cup {a}) = SumFunctionOnSet(f, U) + f[a]
    <2>1. \A y \in U \cup {a} : f[y] \in Int
      BY <1>10, <1>11
    <2> HIDE DEF a
    <2> QED
      BY <1>3, <1>5, <2>1, SumAdd
  <1>19. SumFunctionOnSet(Work_f, U \cup {a}) = SumFunctionOnSet(Work_f, U) + Work_f[a]
    <2>1. \A y \in U \cup {a} : Work_f[y] \in Int
      BY <1>2, <1>3, <1>7
    <2> HIDE DEF a
    <2> QED
      BY <1>3, <1>5, <2>1, SumAdd
  <1>20. SumFunctionOnSet(Work_f, U) = SumFunctionOnSet(f, U) + SumFunctionOnSet(Pen_f, U)
    BY <1>5, <1>11, SumPlus
  <1>21. SumFunctionOnSet(f, U) \in Int /\ Work_f[a] \in Int
    BY <1>2, <1>5, <1>7, <1>11, SumType
  <1>22. SumFunctionOnSet(f, U \cup {a}) = SumFunctionOnSet(Work_f, U \cup {a})
    BY ONLY <1>8, <1>10, <1>18, <1>19, <1>20, <1>21
  <1>23. SumFunctionOnSet(Work_f, R) = Work(R)
    BY DEF Work, Work_f
  <1>24. SumFunctionOnSet(SW, {k} \X R) = Work(R)
    BY <1>4, <1>17, <1>22, <1>23, Zenon
  <1> QED
    BY <1>4, <1>5, <1>6, <1>15, <1>24 DEF R

\* The shares together are the work of the blocks in the window
LEMMA ShareSum ==
    ASSUME Inv, NEW tip \in 1 .. Len(blocks),
           NEW SW, SW = [e \in Entries(tip) |-> ShareWeight(tip, e)]
    PROVE  /\ \A e \in Entries(tip) : SW[e] \in Int
           /\ SumFunctionOnSet(SW, Entries(tip)) = Work(Paid(tip))
  <1> DEFINE E == Entries(tip)
             P(k) == UNION {InRound(tip, i) : i \in {j \in Rounds(tip) : j < k}}
             Ek(k) == {e \in E : e[1] < k}
             Good(k) == SumFunctionOnSet(SW, Ek(k)) = SumFunctionOnSet(Work_f, P(k))
             T == {k \in Nat : ~Good(k)}
  <1>1. Shape(blocks) /\ Len(blocks) \in Nat
    BY DEF Inv, Shape
  <1>2. Window \in Nat /\ \A i \in Rounds(tip) : i \in 0 .. Window - 1 /\ i \in Nat
    BY <1>1, RoundsOf
  <1>3. /\ IsFiniteSet(E) /\ \A i \in Rounds(tip) : InRound(tip, i) \subseteq 1 .. Len(blocks)
    BY <1>1, EntriesOf
  <1>4. ASSUME NEW e \in E PROVE /\ e[1] \in Rounds(tip) /\ e[2] \in InRound(tip, e[1])
                                 /\ e \in {e[1]} \X InRound(tip, e[1])
    BY DEF Entries
  <1>5. \A e \in E : SW[e] \in Int
    BY <1>4, RoundSum
  <1>6. ASSUME NEW k \in Nat
        PROVE  /\ IsFiniteSet(P(k)) /\ P(k) \subseteq 1 .. Len(blocks)
               /\ IsFiniteSet(Ek(k)) /\ \A e \in Ek(k) : SW[e] \in Int
    <2>1. P(k) \subseteq 1 .. Len(blocks)
      BY <1>3
    <2>2. IsFiniteSet(1 .. Len(blocks))
      <3>1. 1 \in Int /\ Len(blocks) \in Int
        BY <1>1
      <3> QED
        BY ONLY <3>1, FS_Interval
    <2>3. IsFiniteSet(P(k))
      <3> HIDE DEF P
      <3> QED
        BY <2>1, <2>2, FS_Subset
    <2>4. IsFiniteSet(Ek(k))
      BY <1>3, FS_Subset
    <2> QED
      BY <1>5, <2>1, <2>3, <2>4
  <1>7. Good(0)
    <2>1. Ek(0) = {} /\ P(0) = {}
      <3>1. \A i \in Rounds(tip) : ~(i < 0)
        BY <1>2
      <3> QED
        BY <1>4, <3>1
    <2> HIDE DEF Ek, P
    <2> QED
      BY <2>1, SumEmpty
  <1>8. ASSUME NEW k \in Nat, Good(k) PROVE Good(k + 1)
    <2>1. CASE k \notin Rounds(tip)
      <3>1. \A i \in Rounds(tip) : i < k + 1 <=> i < k
        BY <1>2, <2>1
      <3>2. Ek(k + 1) = Ek(k)
        BY <1>4, <3>1
      <3>3. P(k + 1) = P(k)
        BY <3>1
      <3> HIDE DEF Ek, P
      <3> QED
        BY <1>8, <3>2, <3>3
    <2>2. CASE k \in Rounds(tip)
      <3> DEFINE R == {k} \X InRound(tip, k)
      <3>1. \A i \in Rounds(tip) : i < k + 1 <=> i < k \/ i = k
        BY <1>2
      <3>2. /\ R \subseteq E /\ \A e \in R : SW[e] \in Int
            /\ IsFiniteSet(InRound(tip, k)) /\ InRound(tip, k) \subseteq 1 .. Len(blocks)
            /\ SumFunctionOnSet(SW, R) = Work(InRound(tip, k))
        BY <2>2, RoundSum
      <3>3. Ek(k + 1) = Ek(k) \cup R /\ Ek(k) \cap R = {} /\ IsFiniteSet(R)
        <4>1. ASSUME NEW e \in Ek(k + 1), e \notin Ek(k) PROVE e \in R
          <5>1. e[1] = k
            BY <1>4, <3>1, <4>1
          <5> QED
            BY <1>4, <5>1
        <4>2. \A e \in R : e[1] = k /\ e \in E
          BY <3>2
        <4>3. Ek(k) \subseteq Ek(k + 1)
          BY <1>4, <3>1
        <4>4. R \subseteq Ek(k + 1) /\ Ek(k) \cap R = {}
          BY <4>2
        <4>5. IsFiniteSet(R)
          BY <1>3, <3>2, FS_Subset
        <4> HIDE DEF Ek, R
        <4> QED
          BY <4>1, <4>3, <4>4, <4>5
      <3>4. P(k + 1) = P(k) \cup InRound(tip, k)
        BY <2>2, <3>1
      <3>5. P(k) \cap InRound(tip, k) = {}
        <4>1. \A i \in Rounds(tip) : i < k => InRound(tip, i) \cap InRound(tip, k) = {}
          BY <2>2, RoundsApart
        <4> QED
          BY <4>1
      <3>6. /\ IsFiniteSet(P(k)) /\ P(k) \subseteq 1 .. Len(blocks)
            /\ IsFiniteSet(Ek(k)) /\ \A e \in Ek(k) : SW[e] \in Int
        BY <1>6
      <3> HIDE DEF P, Ek, R, E
      <3>7. SumFunctionOnSet(SW, Ek(k) \cup R) = SumFunctionOnSet(SW, Ek(k)) + SumFunctionOnSet(SW, R)
        BY <3>2, <3>3, <3>6, SumUnion
      <3>8. \A b \in P(k) \cup InRound(tip, k) : Work_f[b] \in Int
        BY <3>2, <3>6, WeightsAreNumbers
      <3>9. SumFunctionOnSet(Work_f, P(k) \cup InRound(tip, k))
              = SumFunctionOnSet(Work_f, P(k)) + SumFunctionOnSet(Work_f, InRound(tip, k))
        BY <3>2, <3>5, <3>6, <3>8, SumUnion
      <3>10. SumFunctionOnSet(Work_f, InRound(tip, k)) = Work(InRound(tip, k))
        BY DEF Work, Work_f
      <3>11. /\ SumFunctionOnSet(SW, Ek(k + 1)) = SumFunctionOnSet(SW, Ek(k) \cup R)
             /\ SumFunctionOnSet(Work_f, P(k + 1)) = SumFunctionOnSet(Work_f, P(k) \cup InRound(tip, k))
        BY <3>3, <3>4, Zenon
      <3> QED
        BY <1>8, <3>2, <3>7, <3>9, <3>10, <3>11
    <2> QED
      BY <2>1, <2>2
  <1>9. T = {}
    <2> SUFFICES ASSUME T # {} PROVE FALSE
      OBVIOUS
    <2> HIDE DEF Good
    <2>1. PICK n \in T : \A m \in T : n <= m
      BY LeastNumber
    <2>2. n \in Nat /\ n # 0 /\ ~Good(n)
      BY <1>7
    <2>3. n - 1 \in Nat /\ n - 1 \notin T
      BY <2>1, <2>2
    <2>4. Good(n - 1)
      BY <2>3
    <2> QED
      BY <1>8, <2>2, <2>3, <2>4
  <1>10. Good(Window)
    <2> HIDE DEF Good
    <2> QED
      BY <1>2, <1>9
  <1>11. Ek(Window) = E /\ P(Window) = Paid(tip)
    <2>1. \A i \in Rounds(tip) : i < Window
      BY <1>2
    <2>2. Ek(Window) = E
      BY <1>4, <2>1
    <2>3. P(Window) = UNION {InRound(tip, i) : i \in Rounds(tip)}
      BY <2>1
    <2>4. Paid(tip) = UNION {InRound(tip, i) : i \in Rounds(tip)}
      <3>1. ASSUME NEW b PROVE b \in Paid(tip) <=> \E i \in Rounds(tip) : b \in InRound(tip, i)
        BY DEF Paid, Chain, InRound
      <3> QED
        BY <3>1
    <2> QED
      BY <2>2, <2>3, <2>4
  <1>12. SumFunctionOnSet(Work_f, Paid(tip)) = Work(Paid(tip))
    BY DEF Work, Work_f
  <1> HIDE DEF Ek, P, E
  <1>13. SumFunctionOnSet(SW, E) = Work(Paid(tip))
    BY <1>10, <1>11, <1>12, Zenon
  <1> QED
    BY <1>5, <1>13 DEF E

-----------------------------------------------------------------------------
(* The sorted list                                                         *)

\* A numbering of a finite set by different numbers up to its size is complete
LEMMA AllRanks ==
    ASSUME NEW E, IsFiniteSet(E), NEW r, \A e \in E : r[e] \in 1 .. Cardinality(E),
           \A e, f \in E : r[e] = r[f] => e = f, NEW n \in 1 .. Cardinality(E)
    PROVE  \E e \in E : r[e] = n
  <1> DEFINE N == Cardinality(E)
             g == [e \in E |-> r[e]]
  <1>1. N \in Nat
    BY FS_CardinalityType
  <1>2. IsFiniteSet(1 .. N) /\ Cardinality(1 .. N) = N
    <2>1. 1 \in Int /\ N \in Int
      BY <1>1
    <2>2. IsFiniteSet(1 .. N) /\ Cardinality(1 .. N) = IF 1 > N THEN 0 ELSE N - 1 + 1
      BY ONLY <2>1, FS_Interval
    <2> QED
      BY <1>1, <2>2
  <1> HIDE DEF N
  <1>3. g \in Injection(E, 1 .. N)
    BY DEF Injection, IsInjective, N
  <1>4. g \in Surjection(E, 1 .. N)
    BY <1>2, <1>3, FS_Injection DEF N
  <1>5. \E e \in E : g[e] = n
    BY <1>4 DEF Surjection, N
  <1> QED
    BY <1>5 DEF N

LEMMA SortedIs ==
    ASSUME Inv, NEW tip \in 1 .. Len(blocks)
    PROVE  LET E == Entries(tip)
               N == Cardinality(E)
               s == Sorted(E)
           IN  /\ N \in Nat /\ s = [n \in 1 .. N |-> s[n]] /\ \A n \in 1 .. N : s[n] \in E
               /\ \A m, n \in 1 .. N : s[m] = s[n] => m = n
               /\ {s[n] : n \in 1 .. N} = E
               /\ \A m, n \in 1 .. N : m < n => WalletOf(s[m]) <= WalletOf(s[n])
               /\ \A e \in E : WalletOf(e) \in Nat
  <1> DEFINE E == Entries(tip)
             N == Cardinality(E)
             s == Sorted(E)
             Bef(e) == {f \in E : Precedes(f, e)}
             r == [e \in E |-> Cardinality(Bef(e)) + 1]
  <1>1. /\ IsFiniteSet(E) /\ N \in Nat
        /\ \A e \in E : e = <<e[1], e[2]>> /\ e[1] \in Nat /\ e[2] \in Nat /\ WalletOf(e) \in Nat
    <2>1. Shape(blocks) /\ Typed(blocks) /\ Wallets \subseteq Nat /\ Window \in Nat
      BY PplnsAssumption DEF Inv
    <2>2. /\ IsFiniteSet(E) /\ N \in Nat /\ E \subseteq (0 .. Window - 1) \X (1 .. Len(blocks))
      BY <2>1, EntriesOf
    <2>3. \A e \in E : e = <<e[1], e[2]>> /\ e[1] \in Nat /\ e[2] \in 1 .. Len(blocks)
      BY <2>1, <2>2
    <2>4. \A e \in E : WalletOf(e) \in Nat
      BY <2>1, <2>3 DEF WalletOf, Typed
    <2> QED
      BY <2>2, <2>3, <2>4
  <1> HIDE DEF E
  <1>2. /\ \A e \in E : ~Precedes(e, e)
        /\ \A e, f \in E : e = f \/ Precedes(e, f) \/ Precedes(f, e)
        /\ \A e, f, g \in E : Precedes(e, f) /\ Precedes(f, g) => Precedes(e, g)
    BY <1>1 DEF Precedes
  <1>3. ASSUME NEW e \in E
        PROVE  /\ IsFiniteSet(Bef(e)) /\ Cardinality(Bef(e)) \in Nat /\ Cardinality(Bef(e)) < N
               /\ r[e] = Cardinality(Bef(e)) + 1 /\ r[e] \in 1 .. N
    <2>1. Bef(e) \subseteq E \ {e}
      BY <1>2
    <2>2. IsFiniteSet(E \ {e}) /\ Cardinality(E \ {e}) = N - 1
      BY <1>1, FS_RemoveElement
    <2>3. IsFiniteSet(Bef(e)) /\ Cardinality(Bef(e)) <= Cardinality(E \ {e})
      BY <2>1, <2>2, FS_Subset
    <2>4. Cardinality(Bef(e)) \in Nat
      BY <2>3, FS_CardinalityType
    <2>5. r[e] = Cardinality(Bef(e)) + 1
      OBVIOUS
    <2> HIDE DEF Bef, N, r
    <2> QED
      BY <1>1, <2>2, <2>3, <2>4, <2>5
  <1>4. ASSUME NEW e \in E, NEW f \in E, Precedes(e, f) PROVE r[e] < r[f]
    <2>1. Bef(e) \cup {e} \subseteq Bef(f) /\ e \notin Bef(e)
      BY <1>2, <1>4
    <2>2. /\ IsFiniteSet(Bef(e)) /\ Cardinality(Bef(e)) \in Nat /\ r[e] = Cardinality(Bef(e)) + 1
          /\ IsFiniteSet(Bef(f)) /\ Cardinality(Bef(f)) \in Nat /\ r[f] = Cardinality(Bef(f)) + 1
      BY <1>3
    <2> HIDE DEF Bef, r
    <2>3. Cardinality(Bef(e) \cup {e}) = Cardinality(Bef(e)) + 1
      BY <2>1, <2>2, FS_AddElement
    <2>4. Cardinality(Bef(e) \cup {e}) <= Cardinality(Bef(f))
      BY <2>1, <2>2, FS_Subset
    <2> QED
      BY <2>2, <2>3, <2>4
  <1>5. \A e, f \in E : r[e] = r[f] => e = f
    <2> SUFFICES ASSUME NEW e \in E, NEW f \in E, r[e] = r[f], e # f PROVE FALSE
      OBVIOUS
    <2>1. r[e] \in 1 .. N /\ r[f] \in 1 .. N
      BY <1>3
    <2>2. r[e] < r[f] \/ r[f] < r[e]
      BY <1>2, <1>4
    <2> HIDE DEF r, N
    <2> QED
      BY <1>1, <2>1, <2>2
  <1>6. \A n \in 1 .. N : \E e \in E : r[e] = n
    <2>1. \A e \in E : r[e] \in 1 .. N
      BY <1>3
    <2> HIDE DEF r
    <2>2. IsFiniteSet(E)
      BY <1>1
    <2> QED
      BY ONLY <1>5, <2>1, <2>2, AllRanks
  <1>7. s = [n \in 1 .. N |-> CHOOSE e \in E : Cardinality(Bef(e)) = n - 1]
    BY DEF Sorted
  <1>8. ASSUME NEW n \in 1 .. N PROVE s[n] \in E /\ r[s[n]] = n
    <2>1. PICK e \in E : r[e] = n
      BY <1>6
    <2>2. Cardinality(Bef(e)) = n - 1
      <3>1. r[e] = Cardinality(Bef(e)) + 1 /\ Cardinality(Bef(e)) \in Nat
        BY <1>3
      <3> HIDE DEF Bef, r, N
      <3> QED
        BY <2>1, <3>1
    <2>3. s[n] = CHOOSE x \in E : Cardinality(Bef(x)) = n - 1
      BY <1>7
    <2> HIDE DEF Bef, s, N
    <2>4. s[n] \in E /\ Cardinality(Bef(s[n])) = n - 1
      BY <2>2, <2>3, Zenon
    <2> QED
      BY <1>1, <1>3, <2>4
  <1>9. s = [n \in 1 .. N |-> s[n]]
    BY <1>7
  <1> HIDE DEF s, r, N
  <1>10. \A m, n \in 1 .. N : s[m] = s[n] => m = n
    BY <1>8
  <1>11. {s[n] : n \in 1 .. N} = E
    <2>1. ASSUME NEW e \in E PROVE \E n \in 1 .. N : s[n] = e
      <3>1. r[e] \in 1 .. N
        BY <1>3
      <3>2. r[s[r[e]]] = r[e] /\ s[r[e]] \in E
        BY <1>8, <3>1
      <3>3. s[r[e]] = e
        BY <1>5, <3>2
      <3> QED
        BY <3>1, <3>3
    <2> QED
      BY <1>8, <2>1
  <1>12. \A m, n \in 1 .. N : m < n => WalletOf(s[m]) <= WalletOf(s[n])
    <2> SUFFICES ASSUME NEW m \in 1 .. N, NEW n \in 1 .. N, m < n,
                        ~(WalletOf(s[m]) <= WalletOf(s[n]))
                 PROVE  FALSE
      OBVIOUS
    <2>1. s[m] \in E /\ s[n] \in E /\ r[s[m]] = m /\ r[s[n]] = n
      BY <1>8
    <2>2. WalletOf(s[n]) < WalletOf(s[m])
      BY <1>1, <2>1
    <2>3. Precedes(s[n], s[m])
      BY <2>2 DEF Precedes
    <2>4. n < m
      BY <1>4, <2>1, <2>3
    <2> QED
      BY <1>1, <2>4
  <1> QED
    BY <1>1, <1>8, <1>9, <1>10, <1>11, <1>12 DEF E, N, s

-----------------------------------------------------------------------------
(* The loop that combines the shares of a wallet                           *)

Share == [wallet : Nat, weight : Int]

\* One share for each wallet, in their order
IsList(c) == c \in Seq(Share) /\ \A i, j \in 1 .. Len(c) : i < j => c[i].wallet < c[j].wallet

WalletsOf(c) == {c[i].wallet : i \in 1 .. Len(c)}
Weights(c) == [i \in 1 .. Len(c) |-> c[i].weight]
WeightOf(c) == SumFunctionOnSet(Weights(c), 1 .. Len(c))

LEMMA IntervalFinite ==
    ASSUME NEW n \in Nat
    PROVE  IsFiniteSet(1 .. n) /\ IsFiniteSet(0 .. n)
  <1>1. 0 \in Int /\ 1 \in Int /\ n \in Int
    OBVIOUS
  <1> QED
    BY ONLY <1>1, FS_Interval

\* One round of it
LEMMA CombineStep ==
    ASSUME NEW c, IsList(c), NEW x \in Share, Len(c) # 0 => c[Len(c)].wallet <= x.wallet
    PROVE  LET d == Combine(c, x)
           IN  /\ IsList(d) /\ Len(d) # 0 /\ d[Len(d)].wallet = x.wallet
               /\ WalletsOf(d) = WalletsOf(c) \cup {x.wallet}
               /\ WeightOf(d) = WeightOf(c) + x.weight
  <1> DEFINE L == Len(c)
             d == Combine(c, x)
             last == [wallet |-> x.wallet, weight |-> c[L].weight + x.weight]
  <1>1. /\ c \in Seq(Share) /\ L \in Nat /\ DOMAIN c = 1 .. L
        /\ \A i \in 1 .. L : c[i] \in Share /\ c[i].wallet \in Nat /\ c[i].weight \in Int
        /\ \A i, j \in 1 .. L : i < j => c[i].wallet < c[j].wallet
    <2>1. c \in Seq(Share) /\ \A i, j \in 1 .. L : i < j => c[i].wallet < c[j].wallet
      BY DEF IsList
    <2>2. L \in Nat /\ DOMAIN c = 1 .. L /\ \A i \in 1 .. L : c[i] \in Share
      BY <2>1
    <2>3. \A s \in Share : s.wallet \in Nat /\ s.weight \in Int
      BY DEF Share
    <2> HIDE DEF L
    <2> QED
      BY <2>1, <2>2, <2>3
  <1>2. x.wallet \in Nat /\ x.weight \in Int
    BY DEF Share
  <1>3. c = <<>> <=> L = 0
    BY <1>1
  <1>4. CASE L # 0 /\ c[L].wallet = x.wallet
    <2>1. L \in 1 .. L
      BY <1>1, <1>4
    <2>2. last \in Share /\ last.wallet = x.wallet /\ last.weight = c[L].weight + x.weight
      BY <1>1, <1>2, <2>1 DEF Share
    <2>3. d = [c EXCEPT ![L] = last]
      BY <1>3, <1>4 DEF Combine
    <2> HIDE DEF last, d
    <2>4. /\ d \in Seq(Share) /\ Len(d) = L /\ d[L] = last
          /\ \A i \in 1 .. L : i # L => d[i] = c[i]
      BY <1>1, <2>1, <2>2, <2>3
    <2>5. \A i \in 1 .. L : d[i].wallet = c[i].wallet
      BY <1>4, <2>2, <2>4
    <2>6. IsList(d) /\ d[Len(d)].wallet = x.wallet /\ Len(d) # 0
      BY <1>1, <1>4, <2>2, <2>4, <2>5 DEF IsList
    <2>7. WalletsOf(d) = WalletsOf(c) \cup {x.wallet}
      <3>1. WalletsOf(d) = WalletsOf(c)
        BY <2>4, <2>5 DEF WalletsOf
      <3>2. x.wallet \in WalletsOf(c)
        BY <1>4, <2>1 DEF WalletsOf
      <3> QED
        BY <3>1, <3>2
    <2>8. WeightOf(d) = WeightOf(c) + x.weight
      <3> DEFINE f == Weights(c)
                 g == Weights(d)
                 D == 1 .. L
      <3>1. /\ \A i \in D : f[i] \in Int /\ g[i] \in Int
            /\ \A i \in D \ {L} : f[i] = g[i]
            /\ g[L] = f[L] + x.weight
        <4>1. \A i \in D : f[i] = c[i].weight /\ g[i] = d[i].weight
          BY <2>4 DEF Weights
        <4> HIDE DEF f, g, L
        <4>2. \A i \in D : d[i].weight \in Int
          BY <1>1, <1>2, <2>1, <2>2, <2>4
        <4>3. \A i \in D \ {L} : d[i].weight = c[i].weight
          BY <2>4
        <4>4. f[L] = c[L].weight /\ g[L] = last.weight
          BY <2>1, <2>4, <4>1
        <4> QED
          BY <1>1, <2>2, <4>1, <4>2, <4>3, <4>4
      <3>2. IsFiniteSet(D) /\ IsFiniteSet(D \ {L}) /\ L \in D
        BY <1>1, <2>1, IntervalFinite, FS_Subset
      <3> HIDE DEF f, g, D
      <3>3. /\ SumFunctionOnSet(f, D) = f[L] + SumFunctionOnSet(f, D \ {L})
            /\ SumFunctionOnSet(g, D) = g[L] + SumFunctionOnSet(g, D \ {L})
        BY <3>1, <3>2, SumTake
      <3>4. SumFunctionOnSet(f, D \ {L}) = SumFunctionOnSet(g, D \ {L})
        BY <3>1, <3>2, SumSame
      <3>5. SumFunctionOnSet(f, D \ {L}) \in Int /\ f[L] \in Int
        BY <3>1, <3>2, SumType
      <3>6. WeightOf(d) = SumFunctionOnSet(g, D) /\ WeightOf(c) = SumFunctionOnSet(f, D)
        BY <2>4 DEF WeightOf, f, g, D
      <3> QED
        BY <1>2, <3>1, <3>3, <3>4, <3>5, <3>6
    <2> QED
      BY <2>6, <2>7, <2>8 DEF d
  <1>5. CASE L = 0 \/ c[L].wallet # x.wallet
    <2>1. d = Append(c, x)
      BY <1>3, <1>5 DEF Combine
    <2> HIDE DEF d
    <2>2. /\ d \in Seq(Share) /\ Len(d) = L + 1 /\ d[L + 1] = x
          /\ \A i \in 1 .. L : d[i] = c[i]
      BY <1>1, <2>1
    <2>3. \A i \in 1 .. L : c[i].wallet < x.wallet
      <3> SUFFICES ASSUME NEW i \in 1 .. L PROVE c[i].wallet < x.wallet
        OBVIOUS
      <3>1. L # 0 /\ L \in 1 .. L
        BY <1>1
      <3>2. c[L].wallet < x.wallet
        BY <1>1, <1>2, <1>5, <3>1
      <3> HIDE DEF L
      <3>3. i = L \/ i < L
        BY <1>1
      <3>4. i = L \/ c[i].wallet < c[L].wallet
        BY <1>1, <3>1, <3>3
      <3>5. c[i].wallet \in Nat /\ c[L].wallet \in Nat
        BY <1>1, <3>1
      <3> QED
        BY <1>2, <3>2, <3>4, <3>5
    <2>4. \A i, j \in 1 .. L + 1 : i < j => d[i].wallet < d[j].wallet
      <3> SUFFICES ASSUME NEW i \in 1 .. L + 1, NEW j \in 1 .. L + 1, i < j
                   PROVE  d[i].wallet < d[j].wallet
        OBVIOUS
      <3>1. i \in 1 .. L /\ (j \in 1 .. L \/ j = L + 1)
        BY <1>1
      <3> QED
        BY <1>1, <2>2, <2>3, <3>1
    <2>5. IsList(d) /\ Len(d) # 0 /\ d[Len(d)].wallet = x.wallet
      BY <1>1, <2>2, <2>4 DEF IsList
    <2>6. 1 .. L + 1 = (1 .. L) \cup {L + 1} /\ L + 1 \notin 1 .. L
      BY <1>1
    <2>7. WalletsOf(d) = WalletsOf(c) \cup {x.wallet}
      <3>1. WalletsOf(d) = {d[i].wallet : i \in (1 .. L) \cup {L + 1}}
        BY <2>2, <2>6 DEF WalletsOf
      <3>2. {d[i].wallet : i \in (1 .. L) \cup {L + 1}} = {d[i].wallet : i \in 1 .. L} \cup {d[L + 1].wallet}
        OBVIOUS
      <3>3. {d[i].wallet : i \in 1 .. L} = WalletsOf(c)
        BY <2>2 DEF WalletsOf
      <3> QED
        BY <2>2, <3>1, <3>2, <3>3
    <2>8. WeightOf(d) = WeightOf(c) + x.weight
      <3> DEFINE f == Weights(c)
                 g == Weights(d)
                 D == 1 .. L
      <3>1. /\ \A i \in D : f[i] \in Int /\ g[i] = f[i]
            /\ g[L + 1] = x.weight
        <4>1. \A i \in D : f[i] = c[i].weight
          BY DEF Weights
        <4>2. \A i \in 1 .. L + 1 : g[i] = d[i].weight
          BY <2>2 DEF Weights
        <4> HIDE DEF f, g
        <4>3. \A i \in D : i \in 1 .. L + 1
          BY <1>1
        <4>4. L + 1 \in 1 .. L + 1
          BY <1>1
        <4> QED
          BY <1>1, <2>2, <4>1, <4>2, <4>3, <4>4
      <3>2. IsFiniteSet(D) /\ L + 1 \notin D /\ \A i \in D \cup {L + 1} : g[i] \in Int
        BY <1>1, <1>2, <2>6, <3>1, IntervalFinite
      <3> HIDE DEF f, g, D
      <3>3. SumFunctionOnSet(g, D \cup {L + 1}) = SumFunctionOnSet(g, D) + g[L + 1]
        BY <3>2, SumAdd
      <3>4. SumFunctionOnSet(f, D) = SumFunctionOnSet(g, D)
        BY <3>1, <3>2, SumSame
      <3>5. WeightOf(d) = SumFunctionOnSet(g, D \cup {L + 1}) /\ WeightOf(c) = SumFunctionOnSet(f, D)
        BY <2>2, <2>6, Zenon DEF WeightOf, f, g, D
      <3> QED
        BY <3>1, <3>3, <3>4, <3>5
    <2> QED
      BY <2>5, <2>7, <2>8 DEF d
  <1> QED
    BY <1>4, <1>5

\* g holds the list after each round
Folds(share, N, g) == g = [n \in 0 .. N |-> IF n = 0 THEN <<>> ELSE Combine(g[n - 1], share[n])]

LEMMA FoldsExists ==
    ASSUME NEW share, NEW N \in Nat
    PROVE  \E g : Folds(share, N, g)
  <1> DEFINE Has(n) == \E g : Folds(share, n, g)
             T == {n \in Nat : ~Has(n)}
  <1>1. Has(0)
    <2> DEFINE g == [j \in 0 .. 0 |-> <<>>]
    <2>1. Folds(share, 0, g)
      BY DEF Folds
    <2> HIDE DEF g
    <2> QED
      BY <2>1
  <1>2. ASSUME NEW n \in Nat, Has(n) PROVE Has(n + 1)
    <2>1. PICK g : Folds(share, n, g)
      BY <1>2
    <2> DEFINE h == [j \in 0 .. n + 1 |-> IF j = 0 THEN <<>> ELSE Combine(g[j - 1], share[j])]
    <2>2. \A j \in 0 .. n : g[j] = h[j]
      BY <2>1 DEF Folds
    <2>3. ASSUME NEW j \in 0 .. n + 1, j # 0 PROVE h[j] = Combine(h[j - 1], share[j])
      <3>1. j - 1 \in 0 .. n
        BY <2>3
      <3>2. g[j - 1] = h[j - 1] /\ h[j] = Combine(g[j - 1], share[j])
        BY <2>2, <2>3, <3>1
      <3> QED
        BY <3>2, Zenon
    <2>4. h = [j \in 0 .. n + 1 |-> IF j = 0 THEN <<>> ELSE Combine(h[j - 1], share[j])]
      <3>1. ASSUME NEW j \in 0 .. n + 1 PROVE h[j] = IF j = 0 THEN <<>> ELSE Combine(h[j - 1], share[j])
        <4>1. j = 0 => h[j] = <<>>
          OBVIOUS
        <4> QED
          BY <2>3, <4>1, Zenon
      <3> QED
        BY <3>1, Zenon
    <2> HIDE DEF h
    <2> QED
      BY <2>4 DEF Folds
  <1>3. T = {}
    <2> SUFFICES ASSUME T # {} PROVE FALSE
      OBVIOUS
    <2> HIDE DEF Has
    <2>1. PICK n \in T : \A m \in T : n <= m
      BY LeastNumber
    <2>2. n \in Nat /\ n # 0 /\ ~Has(n)
      BY <1>1
    <2>3. n - 1 \in Nat /\ n - 1 \notin T
      BY <2>1, <2>2
    <2>4. Has(n - 1)
      BY <2>3
    <2> QED
      BY <1>2, <2>2, <2>3, <2>4
  <1> QED
    BY <1>3

\* All of it: each wallet once, in order, with all of its weight
LEMMA CombineAll ==
    ASSUME NEW N \in Nat, NEW share, \A n \in 1 .. N : share[n] \in Share,
           \A m, n \in 1 .. N : m < n => share[m].wallet <= share[n].wallet,
           NEW g, Folds(share, N, g),
           NEW wt, \A n \in 1 .. N : wt[n] = share[n].weight
    PROVE  /\ IsList(g[N]) /\ WalletsOf(g[N]) = {share[n].wallet : n \in 1 .. N}
           /\ WeightOf(g[N]) = SumFunctionOnSet(wt, 1 .. N)
  <1> DEFINE Good(n) == /\ IsList(g[n])
                        /\ Len(g[n]) = 0 <=> n = 0
                        /\ n # 0 => g[n][Len(g[n])].wallet = share[n].wallet
                        /\ WalletsOf(g[n]) = {share[m].wallet : m \in 1 .. n}
                        /\ WeightOf(g[n]) = SumFunctionOnSet(wt, 1 .. n)
             T == {n \in 0 .. N : ~Good(n)}
  <1>1. Good(0)
    <2>1. g[0] = <<>>
      BY DEF Folds
    <2>2. IsList(<<>>) /\ Len(<<>>) = 0
      BY DEF IsList
    <2>3. WalletsOf(<<>>) = {share[m].wallet : m \in 1 .. 0}
      BY DEF WalletsOf
    <2>4. WeightOf(<<>>) = SumFunctionOnSet(wt, 1 .. 0)
      <3>1. 1 .. 0 = {} /\ 1 .. Len(<<>>) = {}
        OBVIOUS
      <3>2. WeightOf(<<>>) = 0 /\ SumFunctionOnSet(wt, 1 .. 0) = 0
        BY <3>1, SumEmpty DEF WeightOf
      <3> QED
        BY <3>2
    <2> QED
      BY <2>1, <2>2, <2>3, <2>4
  <1>2. ASSUME NEW n \in 1 .. N, Good(n - 1) PROVE Good(n)
    <2> DEFINE c == g[n - 1]
               x == share[n]
    <2>1. g[n] = Combine(c, x)
      BY DEF Folds
    <2>2. x \in Share /\ x.weight \in Int /\ n - 1 \in 0 .. N
      BY DEF Share
    <2>3. Len(c) # 0 => c[Len(c)].wallet <= x.wallet
      <3> SUFFICES ASSUME Len(c) # 0 PROVE c[Len(c)].wallet <= x.wallet
        OBVIOUS
      <3>1. n - 1 # 0 /\ c[Len(c)].wallet = share[n - 1].wallet
        BY <1>2
      <3>2. n - 1 \in 1 .. N /\ n - 1 < n
        BY <3>1
      <3>3. share[n - 1].wallet <= share[n].wallet
        BY <3>2
      <3> QED
        BY <3>1, <3>3
    <2>4. IsList(c) /\ WalletsOf(c) = {share[m].wallet : m \in 1 .. n - 1}
          /\ WeightOf(c) = SumFunctionOnSet(wt, 1 .. n - 1)
      BY <1>2
    <2> HIDE DEF c, x
    <2>5. /\ IsList(g[n]) /\ Len(g[n]) # 0 /\ g[n][Len(g[n])].wallet = x.wallet
          /\ WalletsOf(g[n]) = WalletsOf(c) \cup {x.wallet}
          /\ WeightOf(g[n]) = WeightOf(c) + x.weight
      BY <2>1, <2>2, <2>3, <2>4, CombineStep
    <2>6. 1 .. n = (1 .. n - 1) \cup {n} /\ n \notin 1 .. n - 1
      OBVIOUS
    <2>7. WalletsOf(g[n]) = {share[m].wallet : m \in 1 .. n}
      BY <2>4, <2>5, <2>6 DEF x
    <2>8. WeightOf(g[n]) = SumFunctionOnSet(wt, 1 .. n)
      <3> DEFINE D == 1 .. n - 1
      <3>1. IsFiniteSet(D) /\ n \notin D
        BY <2>2, <2>6, IntervalFinite
      <3>2. \A y \in D \cup {n} : wt[y] \in Int
        BY DEF Share
      <3>3. wt[n] = x.weight
        BY DEF x
      <3> HIDE DEF D
      <3>4. SumFunctionOnSet(wt, D \cup {n}) = SumFunctionOnSet(wt, D) + wt[n]
        BY <3>1, <3>2, SumAdd
      <3>5. SumFunctionOnSet(wt, 1 .. n) = SumFunctionOnSet(wt, D \cup {n})
        BY <2>6, Zenon DEF D
      <3>6. WeightOf(c) = SumFunctionOnSet(wt, D)
        BY <2>4 DEF D
      <3> QED
        BY <2>5, <3>3, <3>4, <3>5, <3>6
    <2> QED
      BY <2>5, <2>7, <2>8 DEF x
  <1>3. T = {}
    <2> SUFFICES ASSUME T # {} PROVE FALSE
      OBVIOUS
    <2> HIDE DEF Good
    <2>0. T \subseteq Nat
      OBVIOUS
    <2>1. PICK n \in T : \A m \in T : n <= m
      BY <2>0, LeastNumber
    <2>2. n \in 0 .. N /\ n # 0 /\ ~Good(n)
      BY <1>1
    <2>3. n - 1 \in 0 .. N /\ n - 1 \notin T /\ n \in 1 .. N
      BY <2>1, <2>2
    <2>4. Good(n - 1)
      BY <2>3
    <2> QED
      BY <1>2, <2>2, <2>3, <2>4
  <1>4. Good(N)
    <2> HIDE DEF Good
    <2> QED
      BY <1>3
  <1> QED
    BY <1>4

\* Every block in the window of the newest block is paid once and in full, as a block or
\* as an uncle with its penalty going to its nephew, and get_shares gives one output to
\* each of the wallets that get_wallets finds, in their order.
THEOREM Payout == Spec => []PayoutIsRight
  <1>1. Inv => PayoutIsRight
    <2> SUFFICES ASSUME Inv PROVE PayoutIsRight
      OBVIOUS
    <2> DEFINE tip == Newest
               E == Entries(tip)
               N == Cardinality(E)
               s == Sorted(E)
               share == [n \in DOMAIN s |->
                            [wallet |-> WalletOf(s[n]), weight |-> ShareWeight(tip, s[n])]]
               SW == [e \in E |-> ShareWeight(tip, e)]
               wt == [n \in 1 .. N |-> SW[s[n]]]
               out == get_shares(tip)
    <2>1. Shape(blocks) /\ tip \in 1 .. Len(blocks)
      BY DEF Inv, Shape, Newest
    <2>2. \A e \in E : SW[e] \in Int /\ SW[e] = ShareWeight(tip, e)
      BY <2>1, ShareSum
    <2>3. SumFunctionOnSet(SW, E) = Work(Paid(tip))
      BY <2>1, ShareSum
    <2>4. /\ N \in Nat /\ s = [n \in 1 .. N |-> s[n]] /\ \A n \in 1 .. N : s[n] \in E
          /\ \A m, n \in 1 .. N : s[m] = s[n] => m = n
          /\ {s[n] : n \in 1 .. N} = E
          /\ \A m, n \in 1 .. N : m < n => WalletOf(s[m]) <= WalletOf(s[n])
          /\ \A e \in E : WalletOf(e) \in Nat
      BY <2>1, SortedIs
    <2>5. out = (CHOOSE g : Folds(share, Len(s), g))[Len(s)]
      BY DEF get_shares, Folds
    <2> HIDE DEF out, SW, s, E, N
    <2>6. DOMAIN s = 1 .. N /\ Len(s) = N
      <3>1. DOMAIN s = 1 .. N
        BY <2>4, Zenon
      <3>2. s \in Seq(E)
        BY <2>4
      <3> QED
        BY <2>4, <3>1, <3>2
    <2>7. \A n \in 1 .. N : share[n] = [wallet |-> WalletOf(s[n]), weight |-> ShareWeight(tip, s[n])]
      BY <2>6
    <2>8. \A n \in 1 .. N : /\ share[n] \in Share /\ share[n].wallet = WalletOf(s[n])
                            /\ wt[n] = share[n].weight
      BY <2>2, <2>4, <2>7 DEF Share
    <2>9. PICK g : Folds(share, N, g) /\ out = g[N]
      <3> HIDE DEF share
      <3>1. \E g : Folds(share, N, g)
        BY <2>4, FoldsExists
      <3> QED
        BY <2>5, <2>6, <3>1, Zenon
    <2>10. /\ \A n \in 1 .. N : wt[n] = SW[s[n]] /\ wt[n] \in Int
      BY <2>2, <2>4
    <2> HIDE DEF share, wt
    <2>11. /\ IsList(out) /\ WalletsOf(out) = {share[n].wallet : n \in 1 .. N}
           /\ WeightOf(out) = SumFunctionOnSet(wt, 1 .. N)
      <3>1. \A m, n \in 1 .. N : m < n => share[m].wallet <= share[n].wallet
        BY <2>4, <2>8
      <3>2. N \in Nat /\ \A n \in 1 .. N : share[n] \in Share
        BY <2>4, <2>8
      <3>3. \A n \in 1 .. N : wt[n] = share[n].weight
        BY <2>8
      <3>4. /\ IsList(g[N]) /\ WalletsOf(g[N]) = {share[n].wallet : n \in 1 .. N}
            /\ WeightOf(g[N]) = SumFunctionOnSet(wt, 1 .. N)
        BY ONLY <2>9, <3>1, <3>2, <3>3, CombineAll
      <3> QED
        BY <2>9, <3>4, Zenon
    <2>12. SumFunctionOnSet(wt, 1 .. N) = SumFunctionOnSet(SW, E)
      <3> DEFINE D == 1 .. N
      <3>1. IsFiniteSet(D)
        BY <2>4, IntervalFinite
      <3>2. \A x, y \in D : s[x] = s[y] => x = y
        BY <2>4
      <3>3. \A d \in D : wt[d] \in Int /\ wt[d] = SW[s[d]]
        BY <2>10
      <3>4. {s[d] : d \in D} = E
        BY <2>4
      <3> HIDE DEF D
      <3>5. SumFunctionOnSet(wt, D) = SumFunctionOnSet(SW, {s[d] : d \in D})
        BY ONLY <3>1, <3>2, <3>3, SumMap
      <3>6. SumFunctionOnSet(wt, D) = SumFunctionOnSet(SW, E)
        BY <3>4, <3>5, Zenon
      <3> QED
        BY <3>6 DEF D
    <2>13. WindowPaidOnce
      <3>1. out \in Seq(Share) /\ DOMAIN out = 1 .. Len(out)
        <4>1. out \in Seq(Share)
          BY <2>11 DEF IsList
        <4> QED
          BY <4>1
      <3>2. [i \in DOMAIN out |-> out[i].weight] = Weights(out)
        BY <3>1 DEF Weights
      <3>3. DOMAIN Weights(out) = 1 .. Len(out)
        BY DEF Weights
      <3>4. SumFunction(Weights(out)) = WeightOf(out)
        BY <3>3, Zenon DEF SumFunction, WeightOf
      <3>5. SumFunction([i \in DOMAIN out |-> out[i].weight]) = Work(Paid(tip))
        BY <2>3, <2>11, <2>12, <3>2, <3>4, Zenon
      <3> QED
        BY <3>5 DEF WindowPaidOnce, out
    <2>14. OneOutputPerWallet
      <3>1. out \in Seq(Share) /\ DOMAIN out = 1 .. Len(out)
        <4>1. out \in Seq(Share)
          BY <2>11 DEF IsList
        <4> QED
          BY <4>1
      <3>2. {out[i].wallet : i \in DOMAIN out} = {WalletOf(e) : e \in E}
        <4>1. {out[i].wallet : i \in DOMAIN out} = WalletsOf(out)
          BY <3>1 DEF WalletsOf
        <4>2. {share[n].wallet : n \in 1 .. N} = {WalletOf(s[n]) : n \in 1 .. N}
          BY <2>8
        <4>3. {WalletOf(s[n]) : n \in 1 .. N} = {WalletOf(e) : e \in {s[n] : n \in 1 .. N}}
          OBVIOUS
        <4> QED
          BY <2>4, <2>11, <4>1, <4>2, <4>3
      <3>3. {WalletOf(e) : e \in E} = get_wallets(tip)
        <4>1. {WalletOf(e) : e \in E} = {blocks[b].wallet : b \in Paid(tip)}
          <5>1. Paid(tip) = {e[2] : e \in E}
            BY PaidIsEntries DEF E
          <5> HIDE DEF tip
          <5> QED
            BY <5>1 DEF WalletOf
        <4>2. Paid(tip) = Chain(tip) \cup {v \in UNION {blocks[b].uncles : b \in Chain(tip)} :
                                             Height(tip) - Height(v) < Window}
          BY DEF Paid, UnclesIn, InWindow
        <4> HIDE DEF tip
        <4> QED
          BY <4>1, <4>2 DEF get_wallets
      <3>4. \A i, j \in DOMAIN out : i < j => out[i].wallet < out[j].wallet
        BY <2>11, <3>1 DEF IsList
      <3>5. {out[i].wallet : i \in DOMAIN out} = get_wallets(tip)
        BY <3>2, <3>3
      <3> QED
        BY <3>4, <3>5 DEF OneOutputPerWallet, out
    <2> QED
      BY <2>13, <2>14 DEF PayoutIsRight
  <1> QED
    BY <1>1, Invariance, PTL

=============================================================================
