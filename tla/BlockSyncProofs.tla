--------------------------- MODULE BlockSyncProofs ---------------------------
(***************************************************************************)
(* A node and its peers, which keep to the protocol, never ban each other, *)
(* for any tree of blocks, any number of peers and any size of the rings.  *)
(***************************************************************************)
EXTENDS BlockSync, TLAPS, FiniteSetTheorems, SequenceTheorems, NaturalsInduction,
        WellFoundedInduction

-----------------------------------------------------------------------------
(* Numbers and sets                                                        *)

\* Induction over numbers is done with the least number for which a claim fails
LEMMA LeastNumber ==
    ASSUME NEW T, T \subseteq Nat, T # {}
    PROVE  \E x \in T : \A y \in T : x <= y
  <1>1. \E R : IsWellFoundedOn(R, Nat) /\ \A x, y \in Nat : y < x => <<y, x>> \in R
    <2>1. IsWellFoundedOn(OpToRel(<, Nat), Nat)
      BY NatLessThanWellFounded
    <2>2. \A x, y \in Nat : y < x => <<y, x>> \in OpToRel(<, Nat)
      BY DEF OpToRel
    <2> QED
      BY <2>1, <2>2, Zenon
  <1>2. PICK R : IsWellFoundedOn(R, Nat) /\ \A x, y \in Nat : y < x => <<y, x>> \in R
    BY <1>1
  <1>3. PICK x \in T : \A y \in T : ~(<<y, x>> \in R)
    BY <1>2, WFMin
  <1>4. ASSUME NEW y \in T PROVE x <= y
    <2>1. x \in Nat /\ y \in Nat /\ ~(y < x)
      BY <1>2, <1>3
    <2> QED
      BY <2>1
  <1> QED
    BY <1>4

\* Below is what its recursive definition says: the least closed sets are such a function
LEMMA BelowEquation ==
    ASSUME NEW b \in Block
    PROVE  /\ Below[b] = Anc[b] \cup UNION {Below[a] : a \in Anc[b]}
           /\ Anc[b] \subseteq Block
  <1> DEFINE Is(f) == f = [x \in Block |-> Anc[x] \cup UNION {f[a] : a \in Anc[x]}]
             Closed0(S) == \A x \in S : Anc[x] \subseteq S
             D(x) == {y \in Block : \A S \in SUBSET Block :
                                        Anc[x] \subseteq S /\ Closed0(S) => y \in S}
             g == [x \in Block |-> D(x)]
  <1>0. \A x \in Block : Anc[x] \subseteq Block
    BY SyncAssumption
  <1>1. ASSUME NEW x \in Block PROVE D(x) = Anc[x] \cup UNION {D(a) : a \in Anc[x]}
    <2> DEFINE S0 == Anc[x] \cup UNION {D(a) : a \in Anc[x]}
    <2>1. \A y \in Block : Anc[y] \subseteq D(y)
      BY <1>0
    <2>2. ASSUME NEW a \in Block, NEW y \in D(a) PROVE Anc[y] \subseteq D(a)
      BY <1>0
    <2>3. S0 \subseteq Block
      BY <1>0
    <2>4. ASSUME NEW y \in S0 PROVE Anc[y] \subseteq S0
      <3>1. CASE y \in Anc[x]
        <4>1. Anc[y] \subseteq D(y)
          BY <1>0, <2>1, <3>1
        <4> HIDE DEF D
        <4> QED
          BY <3>1, <4>1
      <3>2. ASSUME NEW a \in Anc[x], y \in D(a) PROVE Anc[y] \subseteq S0
        <4>1. Anc[y] \subseteq D(a)
          BY <1>0, <2>2, <3>2
        <4> HIDE DEF D
        <4> QED
          BY <3>2, <4>1
      <3> HIDE DEF D
      <3> QED
        BY <3>1, <3>2
    <2>5. ASSUME NEW y \in D(x) PROVE y \in S0
      <3>1. S0 \in SUBSET Block /\ Anc[x] \subseteq S0 /\ Closed0(S0)
        BY <2>3, <2>4
      <3> HIDE DEF S0, Closed0
      <3> QED
        BY <3>1
    <2>6. ASSUME NEW y \in S0 PROVE y \in D(x)
      <3>1. CASE y \in Anc[x]
        BY <2>1, <3>1
      <3>2. ASSUME NEW a \in Anc[x], y \in D(a) PROVE y \in D(x)
        BY <3>2
      <3> HIDE DEF D
      <3> QED
        BY <3>1, <3>2
    <2> QED
      BY <2>5, <2>6
  <1>2. Is(g)
    <2>1. \A x \in Block : UNION {D(a) : a \in Anc[x]} = UNION {g[a] : a \in Anc[x]}
      <3> HIDE DEF D
      <3> QED
        BY <1>0
    <2>2. \A x \in Block : D(x) = Anc[x] \cup UNION {g[a] : a \in Anc[x]}
      BY <1>1, <2>1
    <2> HIDE DEF D
    <2> QED
      BY <2>2
  <1> HIDE DEF g
  <1>3. Below = CHOOSE f : Is(f)
    BY DEF Below
  <1>4. Is(Below)
    <2> HIDE DEF Is
    <2> QED
      BY <1>2, <1>3, Zenon
  <1> QED
    BY <1>0, <1>4, Zenon

LEMMA FiniteBlocks ==
    ASSUME NEW ids \in SUBSET Block
    PROVE  IsFiniteSet(ids) /\ Cardinality(ids) \in Nat
  BY SyncAssumption, FS_Subset, FS_CardinalityType

\* Any set of blocks can be put into ascending order
LEMMA AscendingOrder ==
    ASSUME NEW ids \in SUBSET Block
    PROVE  Ascending(ids) \in [1 .. Cardinality(ids) -> ids]
  <1> DEFINE Sorted(s) == \A i, j \in DOMAIN s : i < j => s[i] < s[j]
             Sortable(S) == \E s \in [1 .. Cardinality(S) -> S] : Sorted(s)
             T == {n \in Nat : \E S \in SUBSET Block : Cardinality(S) = n /\ ~Sortable(S)}
  <1>1. ASSUME T # {} PROVE FALSE
    <2>1. PICK n \in T : \A m \in T : n <= m
      <3>1. T \subseteq Nat
        OBVIOUS
      <3> HIDE DEF T
      <3> QED
        BY <1>1, <3>1, LeastNumber
    <2>2. PICK S \in SUBSET Block : Cardinality(S) = n /\ ~Sortable(S)
      OBVIOUS
    <2>3. n \in Nat /\ IsFiniteSet(S) /\ S \subseteq Nat
      BY FiniteBlocks, SyncAssumption
    <2>4. CASE S = {}
      <3>1. Cardinality(S) = 0
        BY <2>4, FS_EmptySet
      <3> DEFINE s == [i \in 1 .. 0 |-> 0]
      <3>2. s \in [1 .. Cardinality(S) -> S] /\ Sorted(s)
        BY <3>1
      <3> HIDE DEF s, Sorted
      <3> QED
        BY <2>2, <3>2
    <2>5. CASE S # {}
      <3>1. PICK m \in S : \A y \in S : m <= y
        BY <2>3, <2>5, LeastNumber
      <3> DEFINE R == S \ {m}
      <3>2. R \in SUBSET Block
        OBVIOUS
      <3>3. Cardinality(R) = n - 1 /\ n - 1 \in Nat
        <4>1. Cardinality(R) = n - 1
          BY <2>2, <2>3, FS_RemoveElement
        <4>2. Cardinality(R) \in Nat
          BY <3>2, FiniteBlocks
        <4> QED
          BY <4>1, <4>2
      <3> HIDE DEF R
      <3>4. n - 1 \notin T
        BY <2>1, <2>3, <3>3
      <3>5. PICK r \in [1 .. n - 1 -> R] : Sorted(r)
        BY <3>2, <3>3, <3>4
      <3> DEFINE s == [i \in 1 .. n |-> IF i = 1 THEN m ELSE r[i - 1]]
      <3>6. \A i \in 1 .. n : i # 1 => i - 1 \in 1 .. n - 1
        BY <2>3
      <3>7. \A i \in 1 .. n - 1 : r[i] \in S /\ r[i] # m
        BY <3>5 DEF R
      <3>8. s \in [1 .. n -> S]
        BY <3>6, <3>7
      <3>9. ASSUME NEW i \in 1 .. n, NEW j \in 1 .. n, i < j PROVE s[i] < s[j]
        <4>1. j # 1 /\ j - 1 \in 1 .. n - 1 /\ s[j] = r[j - 1]
          BY <2>3, <3>6, <3>9
        <4>2. r[j - 1] \in S /\ r[j - 1] # m /\ m \in Nat /\ r[j - 1] \in Nat /\ m <= r[j - 1]
          BY <2>3, <3>1, <3>7, <4>1
        <4>3. CASE i = 1
          BY <4>1, <4>2, <4>3
        <4>4. CASE i # 1
          <5>1. i - 1 \in 1 .. n - 1 /\ i - 1 < j - 1 /\ s[i] = r[i - 1]
            BY <2>3, <3>6, <3>9, <4>4
          <5> QED
            BY <3>5, <4>1, <5>1
        <4> QED
          BY <4>3, <4>4
      <3>10. Sorted(s)
        BY <3>8, <3>9
      <3> HIDE DEF s, Sorted
      <3> QED
        BY <2>2, <3>8, <3>10
    <2> QED
      BY <2>4, <2>5
  <1>2. Sortable(ids)
    <2>1. Cardinality(ids) \in Nat
      BY FiniteBlocks
    <2> HIDE DEF Sortable
    <2> QED
      BY <1>1, <2>1
  <1> QED
    BY <1>2, Zenon DEF Ascending


-----------------------------------------------------------------------------
(* Messages                                                                *)

Count(s, type) == Cardinality({i \in 1 .. Len(s) : s[i].type = type})

LEMMA CountType ==
    ASSUME NEW S, NEW s \in Seq(S), NEW t
    PROVE  Count(s, t) \in Nat /\ IsFiniteSet({i \in 1 .. Len(s) : s[i].type = t})
  <1>1. IsFiniteSet(1 .. Len(s))
    BY FS_Interval
  <1>2. {i \in 1 .. Len(s) : s[i].type = t} \subseteq 1 .. Len(s)
    OBVIOUS
  <1> QED
    BY <1>1, <1>2, FS_Subset, FS_CardinalityType DEF Count

LEMMA CountConcat ==
    ASSUME NEW S, NEW s \in Seq(S), NEW u \in Seq(S), NEW t
    PROVE  Count(s \o u, t) = Count(s, t) + Count(u, t)
  <1> DEFINE n == Len(s)
             A == {i \in 1 .. n : s[i].type = t}
             B == {i \in 1 .. Len(u) : u[i].type = t}
             C == {i \in 1 .. Len(s \o u) : (s \o u)[i].type = t}
             D == {i + n : i \in B}
  <1>1. n \in Nat /\ Len(u) \in Nat /\ Len(s \o u) = n + Len(u)
        /\ \A i \in 1 .. n + Len(u) : (s \o u)[i] = IF i <= n THEN s[i] ELSE u[i - n]
    BY ConcatProperties
  <1>2. IsFiniteSet(A) /\ IsFiniteSet(B) /\ Cardinality(A) \in Nat /\ Cardinality(B) \in Nat
    BY CountType DEF Count
  <1>3. C = A \cup D
    <2>1. ASSUME NEW i \in C PROVE i \in A \cup D
      <3>1. CASE i <= n
        BY <1>1, <3>1
      <3>2. CASE i > n
        <4>1. i - n \in B /\ i = (i - n) + n
          BY <1>1, <3>2
        <4> HIDE DEF B
        <4> QED
          BY <4>1
      <3> QED
        BY <1>1, <3>1, <3>2
    <2>2. ASSUME NEW i \in A PROVE i \in C
      BY <1>1
    <2>3. ASSUME NEW i \in B PROVE i + n \in C
      BY <1>1
    <2> QED
      BY <2>1, <2>2, <2>3
  <1>4. A \cap D = {}
    BY <1>1
  <1>5. IsFiniteSet(D) /\ Cardinality(D) = Cardinality(B)
    <2> DEFINE f == [i \in B |-> i + n]
    <2>1. B \subseteq Nat
      OBVIOUS
    <2> HIDE DEF B
    <2>2. f \in Bijection(B, D)
      <3>1. f \in [B -> D] /\ \A i \in B : f[i] = i + n
        OBVIOUS
      <3>2. \A i, j \in B : i + n = j + n => i = j
        BY <1>1, <2>1
      <3>3. \A d \in D : \E i \in B : f[i] = d
        BY <3>1
      <3> HIDE DEF f, D
      <3>4. f \in Injection(B, D)
        BY <3>1, <3>2 DEF Injection, IsInjective
      <3>5. f \in Surjection(B, D)
        BY <3>1, <3>3 DEF Surjection
      <3> QED
        BY <3>4, <3>5 DEF Bijection
    <2>3. ExistsBijection(B, D)
      BY <2>2 DEF ExistsBijection
    <2> QED
      BY <1>2, <2>3, FS_Bijection
  <1>6. Cardinality(A \cup D) = Cardinality(A) + Cardinality(D) - Cardinality(A \cap D)
    BY <1>2, <1>5, FS_Union
  <1>7. Cardinality(A \cap D) = 0
    BY <1>4, FS_EmptySet
  <1> HIDE DEF A, B, C, D
  <1>8. Cardinality(C) = Cardinality(A) + Cardinality(B)
    BY <1>2, <1>3, <1>5, <1>6, <1>7
  <1> QED
    BY <1>8 DEF Count, A, B, C

LEMMA CountUniform ==
    ASSUME NEW S, NEW s \in Seq(S), NEW t
    PROVE  /\ (\A i \in 1 .. Len(s) : s[i].type = t) => Count(s, t) = Len(s)
           /\ (\A i \in 1 .. Len(s) : s[i].type # t) => Count(s, t) = 0
  <1>1. ASSUME \A i \in 1 .. Len(s) : s[i].type = t PROVE Count(s, t) = Len(s)
    <2>1. {i \in 1 .. Len(s) : s[i].type = t} = 1 .. Len(s)
      BY <1>1
    <2>2. Cardinality(1 .. Len(s)) = Len(s)
      <3>1. 1 \in Int /\ Len(s) \in Int /\ Len(s) >= 0
        OBVIOUS
      <3>2. Cardinality(1 .. Len(s)) = IF 1 > Len(s) THEN 0 ELSE Len(s) - 1 + 1
        BY <3>1, FS_Interval
      <3> QED
        BY ONLY <3>1, <3>2
    <2> QED
      BY <2>1, <2>2 DEF Count
  <1>2. ASSUME \A i \in 1 .. Len(s) : s[i].type # t PROVE Count(s, t) = 0
    <2>1. {i \in 1 .. Len(s) : s[i].type = t} = {}
      BY <1>2
    <2> QED
      BY <2>1, FS_EmptySet DEF Count
  <1> QED
    BY <1>1, <1>2

LEMMA CountOne ==
    ASSUME NEW S, NEW x \in S, NEW t
    PROVE  Count(<<x>>, t) = IF x.type = t THEN 1 ELSE 0
  <1>1. <<x>> \in Seq(S) /\ Len(<<x>>) = 1 /\ \A i \in 1 .. Len(<<x>>) : <<x>>[i] = x
    OBVIOUS
  <1> DEFINE s == <<x>>
  <1> HIDE DEF s
  <1>2. s \in Seq(S) /\ Len(s) = 1 /\ \A i \in 1 .. Len(s) : s[i] = x
    BY <1>1 DEF s
  <1>3. Count(s, t) = IF x.type = t THEN 1 ELSE 0
    BY <1>2, CountUniform
  <1> QED
    BY <1>3 DEF s

LEMMA CountAppend ==
    ASSUME NEW S, NEW s \in Seq(S), NEW x \in S, NEW t
    PROVE  Count(Append(s, x), t) = Count(s, t) + IF x.type = t THEN 1 ELSE 0
  <1>1. Append(s, x) = s \o <<x>> /\ <<x>> \in Seq(S)
    OBVIOUS
  <1>2. Count(s \o <<x>>, t) = Count(s, t) + Count(<<x>>, t)
    BY <1>1, CountConcat
  <1>3. Count(<<x>>, t) = IF x.type = t THEN 1 ELSE 0
    BY CountOne
  <1> QED
    BY ONLY <1>1, <1>2, <1>3

LEMMA CountTail ==
    ASSUME NEW S, NEW s \in Seq(S), s # <<>>, NEW t
    PROVE  /\ Head(s) \in S /\ Tail(s) \in Seq(S)
           /\ Count(s, t) = Count(Tail(s), t) + IF Head(s).type = t THEN 1 ELSE 0
  <1>1. Head(s) \in S /\ Tail(s) \in Seq(S) /\ <<Head(s)>> \in Seq(S)
    BY HeadTailProperties
  <1>2. s = <<Head(s)>> \o Tail(s)
    OBVIOUS
  <1>3. Count(<<Head(s)>> \o Tail(s), t) = Count(<<Head(s)>>, t) + Count(Tail(s), t)
    BY <1>1, CountConcat
  <1>4. Count(<<Head(s)>>, t) = IF Head(s).type = t THEN 1 ELSE 0
    BY <1>1, CountOne
  <1>5. Count(Tail(s), t) \in Nat
    BY <1>1, CountType
  <1>6. Count(s, t) = IF Head(s).type = t THEN 1 + Count(Tail(s), t) ELSE 0 + Count(Tail(s), t)
    BY ONLY <1>2, <1>3, <1>4
  <1> QED
    BY ONLY <1>1, <1>5, <1>6

\* Messages are requests, responses and broadcasts
LEMMA MessageType ==
    /\ \A id \in Block \cup {0} :
          /\ Request(id) \in Message /\ Request(id).type = "BLOCK_REQUEST"
          /\ Response(id) \in Message /\ Response(id).type = "BLOCK_RESPONSE"
    /\ \A id \in Block, pruned \in BOOLEAN :
          /\ Broadcast(id, pruned) \in Message /\ Broadcast(id, pruned).type = "BLOCK_BROADCAST"
          /\ Broadcast(id, pruned).id = id /\ Broadcast(id, pruned).pruned = pruned
    /\ \A m \in Message :
          /\ m.id \in Block \cup {0}
          /\ m.type = "BLOCK_RESPONSE" => m.pruned = FALSE
          /\ m.type = "BLOCK_BROADCAST" => m.id \in Block /\ m.pruned \in BOOLEAN
  <1>1. \A id \in Block \cup {0} :
            /\ Request(id) \in Message /\ Request(id).type = "BLOCK_REQUEST"
            /\ Response(id) \in Message /\ Response(id).type = "BLOCK_RESPONSE"
    BY DEF Request, Response, Message
  <1>2. \A id \in Block, pruned \in BOOLEAN :
            /\ Broadcast(id, pruned) \in Message /\ Broadcast(id, pruned).type = "BLOCK_BROADCAST"
            /\ Broadcast(id, pruned).id = id /\ Broadcast(id, pruned).pruned = pruned
    BY DEF Broadcast, Message
  <1>3. \A m \in Message :
            /\ m.id \in Block \cup {0}
            /\ m.type = "BLOCK_RESPONSE" => m.pruned = FALSE
            /\ m.type = "BLOCK_BROADCAST" => m.id \in Block /\ m.pruned \in BOOLEAN
    BY DEF Message
  <1> QED
    BY <1>1, <1>2, <1>3

\* The requests for a set of blocks
LEMMA RequestsType ==
    ASSUME NEW ids \in SUBSET Block
    PROVE  /\ Requests(ids) \in Seq(Message)
           /\ Count(Requests(ids), "BLOCK_REQUEST") = Cardinality(ids)
           /\ Count(Requests(ids), "BLOCK_RESPONSE") = 0
           /\ \A i \in 1 .. Len(Requests(ids)) : Requests(ids)[i].type = "BLOCK_REQUEST"
  <1> DEFINE n == Cardinality(ids)
             r == Requests(ids)
  <1>1. n \in Nat /\ Ascending(ids) \in [1 .. n -> ids]
    BY FiniteBlocks, AscendingOrder
  <1>2. r = [i \in 1 .. n |-> Request(Ascending(ids)[i])]
    BY DEF Requests
  <1>3. \A i \in 1 .. n : Request(Ascending(ids)[i]) \in Message
                          /\ Request(Ascending(ids)[i]).type = "BLOCK_REQUEST"
    BY <1>1, MessageType
  <1> HIDE DEF n, r
  <1>4. r \in Seq(Message) /\ Len(r) = n /\ \A i \in 1 .. Len(r) : r[i].type = "BLOCK_REQUEST"
    BY <1>1, <1>2, <1>3
  <1>5. Count(r, "BLOCK_REQUEST") = n /\ Count(r, "BLOCK_RESPONSE") = 0
    BY <1>4, CountUniform
  <1> QED
    BY <1>4, <1>5 DEF n, r

\* A block and all blocks it builds on are there
Complete(b, has) == b \in Block /\ b \in has /\ Below[b] \subseteq has

\* Who broadcasts a block has it with all below it; who gets it pruned has all below it
Known(msgs, sender, reader) ==
    \A i \in 1 .. Len(msgs) :
        msgs[i].type = "BLOCK_BROADCAST" =>
            /\ Complete(msgs[i].id, sender)
            /\ msgs[i].pruned => Below[msgs[i].id] \subseteq reader

AllComplete(ids, has) == \A i \in 1 .. Len(ids) : Complete(ids[i], has)

LEMMA KnownGrows ==
    ASSUME NEW msgs, NEW a, NEW b, NEW c, NEW d, Known(msgs, a, b), a \subseteq c, b \subseteq d
    PROVE  Known(msgs, c, d)
  BY DEF Known, Complete

LEMMA CompleteGrows ==
    ASSUME NEW ids, NEW a, NEW b, AllComplete(ids, a), a \subseteq b
    PROVE  AllComplete(ids, b)
  BY DEF AllComplete, Complete

LEMMA KnownConcat ==
    ASSUME NEW s \in Seq(Message), NEW t \in Seq(Message), NEW a, NEW b,
           Known(s, a, b), Known(t, a, b)
    PROVE  s \o t \in Seq(Message) /\ Known(s \o t, a, b)
  <1>1. s \o t \in Seq(Message) /\ Len(s \o t) = Len(s) + Len(t)
        /\ \A i \in 1 .. Len(s) + Len(t) :
               (s \o t)[i] = IF i <= Len(s) THEN s[i] ELSE t[i - Len(s)]
    BY ConcatProperties
  <1>2. Len(s) \in Nat /\ Len(t) \in Nat
    OBVIOUS
  <1> DEFINE u == s \o t
  <1>3. ASSUME NEW i \in 1 .. Len(u)
        PROVE  \/ i \in 1 .. Len(s) /\ u[i] = s[i]
               \/ i - Len(s) \in 1 .. Len(t) /\ u[i] = t[i - Len(s)]
    BY <1>1, <1>2
  <1> HIDE DEF u
  <1>4. Known(u, a, b)
    BY <1>3 DEF Known
  <1> QED
    BY <1>1, <1>4 DEF u

LEMMA KnownTail ==
    ASSUME NEW s \in Seq(Message), s # <<>>, NEW a, NEW b, Known(s, a, b)
    PROVE  /\ Tail(s) \in Seq(Message) /\ Known(Tail(s), a, b)
           /\ Head(s) \in Message
           /\ Head(s).type = "BLOCK_BROADCAST" =>
                 /\ Complete(Head(s).id, a)
                 /\ Head(s).pruned => Below[Head(s).id] \subseteq b
  <1> DEFINE t == Tail(s)
  <1>1. Len(s) \in Nat /\ Len(s) >= 1 /\ Head(s) = s[1] /\ Head(s) \in Message
    OBVIOUS
  <1>2. t \in Seq(Message) /\ Len(t) = Len(s) - 1 /\ \A i \in 1 .. Len(t) : t[i] = s[i + 1]
    BY HeadTailProperties
  <1> HIDE DEF t
  <1>3. Known(t, a, b)
    <2>1. \A i \in 1 .. Len(t) : i + 1 \in 1 .. Len(s)
      BY <1>1, <1>2
    <2> QED
      BY <1>2, <2>1 DEF Known
  <1>4. 1 \in 1 .. Len(s)
    BY <1>1
  <1> QED
    BY <1>1, <1>2, <1>3, <1>4 DEF Known, t

\* Messages that are no broadcasts
LEMMA KnownOther ==
    ASSUME NEW s, NEW a, NEW b, \A i \in 1 .. Len(s) : s[i].type # "BLOCK_BROADCAST"
    PROVE  Known(s, a, b)
  BY DEF Known

\* m_broadcastedHashes
LEMMA RecordedType ==
    ASSUME NEW ring \in Seq(Block), Len(ring) <= RingSize, NEW id \in Block, NEW has,
           AllComplete(ring, has), Complete(id, has)
    PROVE  /\ Recorded(ring, id) \in Seq(Block) /\ Len(Recorded(ring, id)) <= RingSize
           /\ AllComplete(Recorded(ring, id), has)
  <1> DEFINE all == Append(ring, id)
  <1>0. RingSize \in Nat \ {0}
    BY SyncAssumption
  <1>1. all \in Seq(Block) /\ Len(all) = Len(ring) + 1 /\ Len(ring) \in Nat
        /\ \A i \in 1 .. Len(all) : all[i] = IF i <= Len(ring) THEN ring[i] ELSE id
    OBVIOUS
  <1>2. Recorded(ring, id) = IF Len(all) > RingSize THEN Tail(all) ELSE all
    BY DEF Recorded
  <1> HIDE DEF all
  <1>3. AllComplete(all, has)
    BY <1>1 DEF AllComplete
  <1>4. CASE Len(all) > RingSize
    <2> DEFINE t == Tail(all)
    <2>0. all # <<>>
      BY <1>1
    <2>1. t \in Seq(Block) /\ Len(t) = Len(all) - 1 /\ \A i \in 1 .. Len(t) : t[i] = all[i + 1]
      BY <1>1, <2>0, HeadTailProperties
    <2> HIDE DEF t
    <2>2. \A i \in 1 .. Len(t) : i + 1 \in 1 .. Len(all)
      BY <1>1, <2>1
    <2>3. AllComplete(t, has)
      BY <1>3, <2>1, <2>2 DEF AllComplete
    <2>4. Len(t) <= RingSize
      BY <1>0, <1>1, <2>1
    <2> QED
      BY <1>2, <1>4, <2>1, <2>3, <2>4 DEF t
  <1>5. CASE ~(Len(all) > RingSize)
    BY <1>0, <1>1, <1>2, <1>3, <1>5
  <1> QED
    BY <1>4, <1>5

\* A block goes out pruned to a peer whose ring has its ancestors
LEMMA BroadcastsType ==
    ASSUME NEW n \in Nat, NEW ids \in [1 .. n -> Block], NEW ring \in Seq(Block),
           NEW sender, NEW reader, \A i \in 1 .. n : Complete(ids[i], sender),
           AllComplete(ring, reader)
    PROVE  /\ Broadcasts(ids, ring) \in Seq(Message) /\ Known(Broadcasts(ids, ring), sender, reader)
           /\ \A i \in 1 .. Len(Broadcasts(ids, ring)) :
                 Broadcasts(ids, ring)[i].type = "BLOCK_BROADCAST"
  <1> DEFINE m(i) == Broadcast(ids[i], SendPruned(ids[i], ring))
             bs == Broadcasts(ids, ring)
  <1>1. Len(ids) = n
    OBVIOUS
  <1>2. bs = [i \in 1 .. n |-> m(i)]
    BY <1>1 DEF Broadcasts
  <1>3. ASSUME NEW i \in 1 .. n
        PROVE  /\ m(i) \in Message /\ m(i).type = "BLOCK_BROADCAST" /\ m(i).id = ids[i]
               /\ m(i).pruned => Anc[ids[i]] \subseteq ToSet(ring)
    <2>1. SendPruned(ids[i], ring) \in BOOLEAN
      BY DEF SendPruned
    <2>2. m(i) \in Message /\ m(i).type = "BLOCK_BROADCAST" /\ m(i).id = ids[i]
          /\ m(i).pruned = SendPruned(ids[i], ring)
      BY <2>1, MessageType
    <2> QED
      BY <2>2 DEF SendPruned
  <1> HIDE DEF m, bs
  <1>4. bs \in Seq(Message) /\ Len(bs) = n /\ \A i \in 1 .. n : bs[i] = m(i)
    BY <1>2, <1>3
  <1>5. ASSUME NEW i \in 1 .. n, bs[i].pruned PROVE Below[ids[i]] \subseteq reader
    <2>1. Anc[ids[i]] \subseteq ToSet(ring)
      BY <1>3, <1>4, <1>5
    <2>2. \A x \in ToSet(ring) : Complete(x, reader)
      BY DEF ToSet, AllComplete
    <2>3. Below[ids[i]] = Anc[ids[i]] \cup UNION {Below[a] : a \in Anc[ids[i]]}
      BY BelowEquation
    <2> QED
      BY <2>1, <2>2, <2>3 DEF Complete
  <1>6. Known(bs, sender, reader)
    BY <1>3, <1>4, <1>5 DEF Known
  <1> QED
    BY <1>3, <1>4, <1>6 DEF bs

-----------------------------------------------------------------------------
(* A peer and this node's client for it                                    *)

\* Every request that is on the way, and every response to one, is accounted for by the side
\* that asked; who broadcast a block has all it builds on
Pair(l, q, bs) ==
    /\ l \in Link /\ q \in PeerNode
    /\ Len(l.ring) <= RingSize /\ Len(q.ring) <= RingSize
    /\ Count(l.out, "BLOCK_REQUEST") + Count(l.in, "BLOCK_RESPONSE") <= l.pending
    /\ Count(l.in, "BLOCK_REQUEST") + Count(l.out, "BLOCK_RESPONSE") <= q.pending
    /\ AllComplete(l.ring, q.has) /\ AllComplete(q.ring, bs)
    /\ Known(l.out, bs, q.has) /\ Known(l.in, q.has, bs)

LEMMA PairGrows ==
    ASSUME NEW l, NEW q, NEW bs, NEW cs, Pair(l, q, bs), bs \subseteq cs
    PROVE  Pair(l, q, cs)
  <1>1. AllComplete(q.ring, cs)
    BY CompleteGrows DEF Pair
  <1>2. Known(l.out, cs, q.has) /\ Known(l.in, q.has, cs)
    BY KnownGrows DEF Pair
  <1> QED
    BY <1>1, <1>2 DEF Pair

LEMMA CountsOf ==
    ASSUME NEW s \in Seq(Message)
    PROVE  Count(s, "BLOCK_REQUEST") \in Nat /\ Count(s, "BLOCK_RESPONSE") \in Nat
  BY CountType

LEMMA CountsOfConcat ==
    ASSUME NEW s \in Seq(Message), NEW u \in Seq(Message)
    PROVE  /\ Count(s \o u, "BLOCK_REQUEST")
                = Count(s, "BLOCK_REQUEST") + Count(u, "BLOCK_REQUEST")
           /\ Count(s \o u, "BLOCK_RESPONSE")
                = Count(s, "BLOCK_RESPONSE") + Count(u, "BLOCK_RESPONSE")
  BY CountConcat

LEMMA PairFields ==
    ASSUME NEW l, NEW q, NEW bs, Pair(l, q, bs)
    PROVE  /\ l.up \in BOOLEAN /\ l.resets \in Nat /\ l.ring \in Seq(Block) /\ l.pending \in Nat
           /\ l.out \in Seq(Message) /\ l.in \in Seq(Message)
           /\ q.has \in SUBSET Block /\ q.want \in SUBSET Block /\ q.ring \in Seq(Block)
           /\ q.pending \in Nat
  BY DEF Pair, Link, PeerNode

\* Ask
LEMMA PairAsk ==
    ASSUME NEW l, NEW q, NEW bs, Pair(l, q, bs), NEW ids \in SUBSET Block
    PROVE  Pair([l EXCEPT !.out = @ \o Requests(ids), !.pending = @ + Cardinality(ids)], q, bs)
  <1> DEFINE m == [l EXCEPT !.out = @ \o Requests(ids), !.pending = @ + Cardinality(ids)]
             r == Requests(ids)
             c == Cardinality(ids)
  <1>1. c \in Nat /\ r \in Seq(Message) /\ Count(r, "BLOCK_REQUEST") = c
        /\ Count(r, "BLOCK_RESPONSE") = 0 /\ Known(r, bs, q.has)
    BY FiniteBlocks, RequestsType, KnownOther
  <1> HIDE DEF r, c
  <1>2. l.out \in Seq(Message) /\ l.in \in Seq(Message) /\ l.pending \in Nat /\ q.pending \in Nat
    BY PairFields
  <1>3. l.out \o r \in Seq(Message) /\ Known(l.out \o r, bs, q.has)
    BY <1>1, <1>2, KnownConcat DEF Pair
  <1>4. /\ m \in Link /\ m.ring = l.ring /\ m.out = l.out \o r /\ m.in = l.in
        /\ m.pending = l.pending + c
    <2>1. m = [l EXCEPT !.out = l.out \o r, !.pending = l.pending + c]
      BY DEF r, c
    <2>2. l.pending + c \in Nat
      BY <1>1, <1>2
    <2> QED
      BY <1>3, <2>1, <2>2 DEF Pair, Link
  <1>5. /\ Count(l.out \o r, "BLOCK_REQUEST") = Count(l.out, "BLOCK_REQUEST") + c
        /\ Count(l.out \o r, "BLOCK_RESPONSE") = Count(l.out, "BLOCK_RESPONSE")
    <2>1. Count(l.out, "BLOCK_RESPONSE") \in Nat
      BY <1>2, CountsOf
    <2>2. /\ Count(l.out \o r, "BLOCK_REQUEST")
                = Count(l.out, "BLOCK_REQUEST") + Count(r, "BLOCK_REQUEST")
          /\ Count(l.out \o r, "BLOCK_RESPONSE")
                = Count(l.out, "BLOCK_RESPONSE") + Count(r, "BLOCK_RESPONSE")
      BY <1>1, <1>2, CountsOfConcat
    <2> QED
      BY ONLY <1>1, <2>1, <2>2
  <1> HIDE DEF m
  <1>6. /\ Count(m.out, "BLOCK_REQUEST") + Count(m.in, "BLOCK_RESPONSE") <= m.pending
        /\ Count(m.in, "BLOCK_REQUEST") + Count(m.out, "BLOCK_RESPONSE") <= q.pending
    <2>1. /\ Count(l.out, "BLOCK_REQUEST") \in Nat /\ Count(l.out, "BLOCK_RESPONSE") \in Nat
          /\ Count(l.in, "BLOCK_REQUEST") \in Nat /\ Count(l.in, "BLOCK_RESPONSE") \in Nat
      BY <1>2, CountsOf
    <2>2. /\ Count(l.out, "BLOCK_REQUEST") + Count(l.in, "BLOCK_RESPONSE") <= l.pending
          /\ Count(l.in, "BLOCK_REQUEST") + Count(l.out, "BLOCK_RESPONSE") <= q.pending
      BY DEF Pair
    <2> QED
      BY ONLY <1>1, <1>2, <1>4, <1>5, <2>1, <2>2
  <1>7. Pair(m, q, bs)
    BY <1>3, <1>4, <1>6 DEF Pair
  <1> QED
    BY <1>7 DEF m

\* on_broadcast
LEMMA PairQueue ==
    ASSUME NEW l, NEW q, NEW bs, Pair(l, q, bs), NEW ids \in Seq(Block), AllComplete(ids, bs)
    PROVE  Pair([l EXCEPT !.out = @ \o Broadcasts(ids, l.ring)], q, bs)
  <1> DEFINE m == [l EXCEPT !.out = @ \o Broadcasts(ids, l.ring)]
             r == Broadcasts(ids, l.ring)
             n == Len(ids)
  <1>1. n \in Nat /\ ids \in [1 .. n -> Block] /\ l.ring \in Seq(Block)
        /\ \A i \in 1 .. n : Complete(ids[i], bs)
    BY PairFields DEF AllComplete
  <1>2. AllComplete(l.ring, q.has)
    BY DEF Pair
  <1>3. /\ r \in Seq(Message) /\ Known(r, bs, q.has)
        /\ \A i \in 1 .. Len(r) : r[i].type = "BLOCK_BROADCAST"
    BY <1>1, <1>2, BroadcastsType
  <1> HIDE DEF r, n
  <1>4. Count(r, "BLOCK_REQUEST") = 0 /\ Count(r, "BLOCK_RESPONSE") = 0
    BY <1>3, CountUniform
  <1>5. l.out \in Seq(Message) /\ l.in \in Seq(Message) /\ l.pending \in Nat /\ q.pending \in Nat
    BY PairFields
  <1>6. l.out \o r \in Seq(Message) /\ Known(l.out \o r, bs, q.has)
    BY <1>3, <1>5, KnownConcat DEF Pair
  <1>7. /\ m \in Link /\ m.ring = l.ring /\ m.out = l.out \o r /\ m.in = l.in
        /\ m.pending = l.pending
    BY <1>5, <1>6 DEF Pair, Link, r
  <1>8. /\ Count(l.out \o r, "BLOCK_REQUEST") = Count(l.out, "BLOCK_REQUEST")
        /\ Count(l.out \o r, "BLOCK_RESPONSE") = Count(l.out, "BLOCK_RESPONSE")
    <2>1. Count(l.out, "BLOCK_REQUEST") \in Nat /\ Count(l.out, "BLOCK_RESPONSE") \in Nat
      BY <1>5, CountsOf
    <2>2. /\ Count(l.out \o r, "BLOCK_REQUEST")
                = Count(l.out, "BLOCK_REQUEST") + Count(r, "BLOCK_REQUEST")
          /\ Count(l.out \o r, "BLOCK_RESPONSE")
                = Count(l.out, "BLOCK_RESPONSE") + Count(r, "BLOCK_RESPONSE")
      BY <1>3, <1>5, CountsOfConcat
    <2> QED
      BY ONLY <1>4, <2>1, <2>2
  <1> HIDE DEF m
  <1>9. Pair(m, q, bs)
    BY <1>6, <1>7, <1>8 DEF Pair
  <1> QED
    BY <1>9 DEF m

\* The counts after the first message is read
LEMMA CountsOfTail ==
    ASSUME NEW s \in Seq(Message), s # <<>>
    PROVE  /\ Tail(s) \in Seq(Message) /\ Head(s) \in Message
           /\ Count(s, "BLOCK_REQUEST") = Count(Tail(s), "BLOCK_REQUEST")
                  + (IF Head(s).type = "BLOCK_REQUEST" THEN 1 ELSE 0)
           /\ Count(s, "BLOCK_RESPONSE") = Count(Tail(s), "BLOCK_RESPONSE")
                  + (IF Head(s).type = "BLOCK_RESPONSE" THEN 1 ELSE 0)
           /\ Count(Tail(s), "BLOCK_REQUEST") \in Nat
           /\ Count(Tail(s), "BLOCK_RESPONSE") \in Nat
  <1>1. Tail(s) \in Seq(Message) /\ Head(s) \in Message
    BY CountTail
  <1> QED
    BY <1>1, CountTail, CountsOf

\* The counts after a response is sent
LEMMA CountsOfResponse ==
    ASSUME NEW s \in Seq(Message), NEW id \in Block \cup {0}, NEW a, NEW b, Known(s, a, b)
    PROVE  /\ Append(s, Response(id)) \in Seq(Message)
           /\ Known(Append(s, Response(id)), a, b)
           /\ Count(Append(s, Response(id)), "BLOCK_REQUEST") = Count(s, "BLOCK_REQUEST")
           /\ Count(Append(s, Response(id)), "BLOCK_RESPONSE") = Count(s, "BLOCK_RESPONSE") + 1
  <1> DEFINE x == Response(id)
  <1>1. x \in Message /\ x.type = "BLOCK_RESPONSE"
    BY MessageType
  <1> HIDE DEF x
  <1>2. Append(s, x) = s \o <<x>> /\ <<x>> \in Seq(Message)
    BY <1>1
  <1>3. Known(<<x>>, a, b)
    <2>1. Len(<<x>>) = 1 /\ \A i \in 1 .. Len(<<x>>) : <<x>>[i].type # "BLOCK_BROADCAST"
      BY <1>1
    <2> QED
      BY <2>1, KnownOther
  <1>4. Append(s, x) \in Seq(Message) /\ Known(Append(s, x), a, b)
    <2>1. s \o <<x>> \in Seq(Message) /\ Known(s \o <<x>>, a, b)
      BY <1>2, <1>3, KnownConcat, Zenon
    <2> QED
      BY ONLY <1>2, <2>1, Zenon
  <1>5. /\ Count(Append(s, x), "BLOCK_REQUEST")
              = Count(s, "BLOCK_REQUEST") + (IF x.type = "BLOCK_REQUEST" THEN 1 ELSE 0)
        /\ Count(Append(s, x), "BLOCK_RESPONSE")
              = Count(s, "BLOCK_RESPONSE") + (IF x.type = "BLOCK_RESPONSE" THEN 1 ELSE 0)
    BY <1>1, CountAppend
  <1>6. Count(s, "BLOCK_REQUEST") \in Nat /\ Count(s, "BLOCK_RESPONSE") \in Nat
    BY CountsOf
  <1>7. /\ Count(Append(s, x), "BLOCK_REQUEST") = Count(s, "BLOCK_REQUEST")
        /\ Count(Append(s, x), "BLOCK_RESPONSE") = Count(s, "BLOCK_RESPONSE") + 1
    BY ONLY <1>1, <1>5, <1>6
  <1> QED
    BY <1>4, <1>7 DEF x

\* A pair of which all is known but the counts
LEMMA PairIntro ==
    ASSUME NEW l \in Link, NEW q \in PeerNode, NEW bs,
           Len(l.ring) <= RingSize, Len(q.ring) <= RingSize,
           AllComplete(l.ring, q.has), AllComplete(q.ring, bs),
           Known(l.out, bs, q.has), Known(l.in, q.has, bs),
           Count(l.out, "BLOCK_REQUEST") + Count(l.in, "BLOCK_RESPONSE") <= l.pending,
           Count(l.in, "BLOCK_REQUEST") + Count(l.out, "BLOCK_RESPONSE") <= q.pending
    PROVE  Pair(l, q, bs)
  BY DEF Pair

\* A response that has been read is one of those that were waited for
LEMMA OneFewer ==
    ASSUME NEW a \in Nat, NEW b \in Nat, NEW p \in Nat, a + (b + 1) <= p
    PROVE  p # 0 /\ p - 1 \in Nat /\ a + b <= p - 1
  OBVIOUS

LEMMA PairCounts ==
    ASSUME NEW l, NEW q, NEW bs, Pair(l, q, bs)
    PROVE  /\ Count(l.out, "BLOCK_REQUEST") \in Nat /\ Count(l.out, "BLOCK_RESPONSE") \in Nat
           /\ Count(l.in, "BLOCK_REQUEST") \in Nat /\ Count(l.in, "BLOCK_RESPONSE") \in Nat
           /\ Count(l.out, "BLOCK_REQUEST") + Count(l.in, "BLOCK_RESPONSE") <= l.pending
           /\ Count(l.in, "BLOCK_REQUEST") + Count(l.out, "BLOCK_RESPONSE") <= q.pending
  <1>1. l.out \in Seq(Message) /\ l.in \in Seq(Message)
    BY PairFields
  <1>2. /\ Count(l.out, "BLOCK_REQUEST") + Count(l.in, "BLOCK_RESPONSE") <= l.pending
        /\ Count(l.in, "BLOCK_REQUEST") + Count(l.out, "BLOCK_RESPONSE") <= q.pending
    BY DEF Pair
  <1> QED
    BY <1>1, <1>2, CountsOf

\* The peer answers a request of this node
LEMMA PairPeerAnswers ==
    ASSUME NEW l, NEW q, NEW bs, Pair(l, q, bs), l.out # <<>>,
           Head(l.out).type = "BLOCK_REQUEST", NEW id \in Block \cup {0}
    PROVE  Pair([l EXCEPT !.out = Tail(@), !.in = Append(@, Response(id))], q, bs)
  <1> DEFINE m == [l EXCEPT !.out = Tail(@), !.in = Append(@, Response(id))]
             t == Tail(l.out)
             u == Append(l.in, Response(id))
  <1>1. l.out \in Seq(Message) /\ l.in \in Seq(Message) /\ l.pending \in Nat /\ q.pending \in Nat
    BY PairFields
  <1>2. /\ t \in Seq(Message) /\ Known(t, bs, q.has)
        /\ Count(l.out, "BLOCK_REQUEST") = Count(t, "BLOCK_REQUEST") + 1
        /\ Count(l.out, "BLOCK_RESPONSE") = Count(t, "BLOCK_RESPONSE")
        /\ Count(t, "BLOCK_REQUEST") \in Nat /\ Count(t, "BLOCK_RESPONSE") \in Nat
    <2>1. /\ Count(l.out, "BLOCK_REQUEST") = Count(t, "BLOCK_REQUEST")
                 + (IF Head(l.out).type = "BLOCK_REQUEST" THEN 1 ELSE 0)
          /\ Count(l.out, "BLOCK_RESPONSE") = Count(t, "BLOCK_RESPONSE")
                 + (IF Head(l.out).type = "BLOCK_RESPONSE" THEN 1 ELSE 0)
          /\ Count(t, "BLOCK_REQUEST") \in Nat /\ Count(t, "BLOCK_RESPONSE") \in Nat
      BY <1>1, CountsOfTail
    <2>2. t \in Seq(Message) /\ Known(t, bs, q.has)
      BY <1>1, KnownTail DEF Pair
    <2> HIDE DEF t
    <2> QED
      BY <2>1, <2>2
  <1>3. /\ u \in Seq(Message) /\ Known(u, q.has, bs)
        /\ Count(u, "BLOCK_REQUEST") = Count(l.in, "BLOCK_REQUEST")
        /\ Count(u, "BLOCK_RESPONSE") = Count(l.in, "BLOCK_RESPONSE") + 1
    BY <1>1, CountsOfResponse DEF Pair
  <1>4. m = [l EXCEPT !.out = t, !.in = u]
    OBVIOUS
  <1> HIDE DEF t, u, m
  <1>5. m \in Link /\ m.ring = l.ring /\ m.out = t /\ m.in = u /\ m.pending = l.pending
    BY <1>2, <1>3, <1>4 DEF Pair, Link
  <1>6. /\ Count(t, "BLOCK_REQUEST") + Count(u, "BLOCK_RESPONSE") <= l.pending
        /\ Count(u, "BLOCK_REQUEST") + Count(t, "BLOCK_RESPONSE") <= q.pending
    <2>1. /\ Count(l.in, "BLOCK_REQUEST") \in Nat /\ Count(l.in, "BLOCK_RESPONSE") \in Nat
          /\ Count(l.out, "BLOCK_REQUEST") + Count(l.in, "BLOCK_RESPONSE") <= l.pending
          /\ Count(l.in, "BLOCK_REQUEST") + Count(l.out, "BLOCK_RESPONSE") <= q.pending
      BY PairCounts
    <2> QED
      BY ONLY <1>1, <1>2, <1>3, <2>1
  <1>7. Pair(m, q, bs)
    BY <1>2, <1>3, <1>5, <1>6, PairIntro DEF Pair
  <1> QED
    BY <1>7 DEF m

\* This node answers a request of the peer
LEMMA PairNodeAnswers ==
    ASSUME NEW l, NEW q, NEW bs, Pair(l, q, bs), l.in # <<>>,
           Head(l.in).type = "BLOCK_REQUEST", NEW id \in Block \cup {0}
    PROVE  Pair([l EXCEPT !.in = Tail(@), !.out = Append(@, Response(id))], q, bs)
  <1> DEFINE m == [l EXCEPT !.in = Tail(@), !.out = Append(@, Response(id))]
             t == Tail(l.in)
             u == Append(l.out, Response(id))
  <1>1. l.out \in Seq(Message) /\ l.in \in Seq(Message) /\ l.pending \in Nat /\ q.pending \in Nat
    BY PairFields
  <1>2. /\ t \in Seq(Message) /\ Known(t, q.has, bs)
        /\ Count(l.in, "BLOCK_REQUEST") = Count(t, "BLOCK_REQUEST") + 1
        /\ Count(l.in, "BLOCK_RESPONSE") = Count(t, "BLOCK_RESPONSE")
        /\ Count(t, "BLOCK_REQUEST") \in Nat /\ Count(t, "BLOCK_RESPONSE") \in Nat
    <2>1. /\ Count(l.in, "BLOCK_REQUEST") = Count(t, "BLOCK_REQUEST")
                 + (IF Head(l.in).type = "BLOCK_REQUEST" THEN 1 ELSE 0)
          /\ Count(l.in, "BLOCK_RESPONSE") = Count(t, "BLOCK_RESPONSE")
                 + (IF Head(l.in).type = "BLOCK_RESPONSE" THEN 1 ELSE 0)
          /\ Count(t, "BLOCK_REQUEST") \in Nat /\ Count(t, "BLOCK_RESPONSE") \in Nat
      BY <1>1, CountsOfTail
    <2>2. t \in Seq(Message) /\ Known(t, q.has, bs)
      BY <1>1, KnownTail DEF Pair
    <2> HIDE DEF t
    <2> QED
      BY <2>1, <2>2
  <1>3. /\ u \in Seq(Message) /\ Known(u, bs, q.has)
        /\ Count(u, "BLOCK_REQUEST") = Count(l.out, "BLOCK_REQUEST")
        /\ Count(u, "BLOCK_RESPONSE") = Count(l.out, "BLOCK_RESPONSE") + 1
    BY <1>1, CountsOfResponse DEF Pair
  <1>4. m = [l EXCEPT !.in = t, !.out = u]
    OBVIOUS
  <1> HIDE DEF t, u, m
  <1>5. m \in Link /\ m.ring = l.ring /\ m.out = u /\ m.in = t /\ m.pending = l.pending
    BY <1>2, <1>3, <1>4 DEF Pair, Link
  <1>6. /\ Count(u, "BLOCK_REQUEST") + Count(t, "BLOCK_RESPONSE") <= l.pending
        /\ Count(t, "BLOCK_REQUEST") + Count(u, "BLOCK_RESPONSE") <= q.pending
    <2>1. /\ Count(l.out, "BLOCK_REQUEST") \in Nat /\ Count(l.out, "BLOCK_RESPONSE") \in Nat
          /\ Count(l.out, "BLOCK_REQUEST") + Count(l.in, "BLOCK_RESPONSE") <= l.pending
          /\ Count(l.in, "BLOCK_REQUEST") + Count(l.out, "BLOCK_RESPONSE") <= q.pending
      BY PairCounts
    <2> QED
      BY ONLY <1>1, <1>2, <1>3, <2>1
  <1>7. Pair(m, q, bs)
    BY <1>2, <1>3, <1>5, <1>6, PairIntro DEF Pair
  <1> QED
    BY <1>7 DEF m

\* This node reads a response
LEMMA PairNodeResponse ==
    ASSUME NEW l, NEW q, NEW bs, Pair(l, q, bs), l.in # <<>>,
           Head(l.in).type = "BLOCK_RESPONSE"
    PROVE  /\ l.pending # 0
           /\ Pair([l EXCEPT !.in = Tail(@), !.pending = @ - 1], q, bs)
  <1> DEFINE m == [l EXCEPT !.in = Tail(@), !.pending = @ - 1]
             t == Tail(l.in)
  <1>1. l.out \in Seq(Message) /\ l.in \in Seq(Message) /\ l.pending \in Nat /\ q.pending \in Nat
    BY PairFields
  <1>2. /\ t \in Seq(Message) /\ Known(t, q.has, bs)
        /\ Count(l.in, "BLOCK_REQUEST") = Count(t, "BLOCK_REQUEST")
        /\ Count(l.in, "BLOCK_RESPONSE") = Count(t, "BLOCK_RESPONSE") + 1
        /\ Count(t, "BLOCK_REQUEST") \in Nat /\ Count(t, "BLOCK_RESPONSE") \in Nat
    <2>1. /\ Count(l.in, "BLOCK_REQUEST") = Count(t, "BLOCK_REQUEST")
                 + (IF Head(l.in).type = "BLOCK_REQUEST" THEN 1 ELSE 0)
          /\ Count(l.in, "BLOCK_RESPONSE") = Count(t, "BLOCK_RESPONSE")
                 + (IF Head(l.in).type = "BLOCK_RESPONSE" THEN 1 ELSE 0)
          /\ Count(t, "BLOCK_REQUEST") \in Nat /\ Count(t, "BLOCK_RESPONSE") \in Nat
      BY <1>1, CountsOfTail
    <2>2. t \in Seq(Message) /\ Known(t, q.has, bs)
      BY <1>1, KnownTail DEF Pair
    <2> HIDE DEF t
    <2> QED
      BY <2>1, <2>2
  <1>3. m = [l EXCEPT !.in = t, !.pending = l.pending - 1]
    OBVIOUS
  <1> HIDE DEF t, m
  <1>4. /\ Count(l.out, "BLOCK_REQUEST") \in Nat /\ Count(l.out, "BLOCK_RESPONSE") \in Nat
        /\ Count(l.out, "BLOCK_REQUEST") + Count(l.in, "BLOCK_RESPONSE") <= l.pending
        /\ Count(l.in, "BLOCK_REQUEST") + Count(l.out, "BLOCK_RESPONSE") <= q.pending
    BY PairCounts
  <1>5. /\ l.pending # 0 /\ l.pending - 1 \in Nat
        /\ Count(l.out, "BLOCK_REQUEST") + Count(t, "BLOCK_RESPONSE") <= l.pending - 1
        /\ Count(t, "BLOCK_REQUEST") + Count(l.out, "BLOCK_RESPONSE") <= q.pending
    <2>1. Count(t, "BLOCK_REQUEST") + Count(l.out, "BLOCK_RESPONSE") <= q.pending
      BY ONLY <1>2, <1>4
    <2>2. Count(l.out, "BLOCK_REQUEST") + (Count(t, "BLOCK_RESPONSE") + 1) <= l.pending
      BY ONLY <1>2, <1>4
    <2> QED
      BY <1>1, <1>2, <1>4, <2>1, <2>2, OneFewer
  <1>6. m \in Link /\ m.ring = l.ring /\ m.out = l.out /\ m.in = t /\ m.pending = l.pending - 1
    BY <1>2, <1>3, <1>5 DEF Pair, Link
  <1>7. Pair(m, q, bs)
    BY <1>2, <1>5, <1>6, PairIntro DEF Pair
  <1> QED
    BY <1>5, <1>7 DEF m

\* The peer reads a response
LEMMA PairPeerResponse ==
    ASSUME NEW l, NEW q, NEW bs, Pair(l, q, bs), l.out # <<>>,
           Head(l.out).type = "BLOCK_RESPONSE"
    PROVE  /\ q.pending # 0
           /\ Pair([l EXCEPT !.out = Tail(@)], [q EXCEPT !.pending = @ - 1], bs)
  <1> DEFINE m == [l EXCEPT !.out = Tail(@)]
             r == [q EXCEPT !.pending = @ - 1]
             t == Tail(l.out)
  <1>1. l.out \in Seq(Message) /\ l.in \in Seq(Message) /\ l.pending \in Nat /\ q.pending \in Nat
    BY PairFields
  <1>2. /\ t \in Seq(Message) /\ Known(t, bs, q.has)
        /\ Count(l.out, "BLOCK_REQUEST") = Count(t, "BLOCK_REQUEST")
        /\ Count(l.out, "BLOCK_RESPONSE") = Count(t, "BLOCK_RESPONSE") + 1
        /\ Count(t, "BLOCK_REQUEST") \in Nat /\ Count(t, "BLOCK_RESPONSE") \in Nat
    <2>1. /\ Count(l.out, "BLOCK_REQUEST") = Count(t, "BLOCK_REQUEST")
                 + (IF Head(l.out).type = "BLOCK_REQUEST" THEN 1 ELSE 0)
          /\ Count(l.out, "BLOCK_RESPONSE") = Count(t, "BLOCK_RESPONSE")
                 + (IF Head(l.out).type = "BLOCK_RESPONSE" THEN 1 ELSE 0)
          /\ Count(t, "BLOCK_REQUEST") \in Nat /\ Count(t, "BLOCK_RESPONSE") \in Nat
      BY <1>1, CountsOfTail
    <2>2. t \in Seq(Message) /\ Known(t, bs, q.has)
      BY <1>1, KnownTail DEF Pair
    <2> HIDE DEF t
    <2> QED
      BY <2>1, <2>2
  <1>3. m = [l EXCEPT !.out = t] /\ r = [q EXCEPT !.pending = q.pending - 1]
    OBVIOUS
  <1> HIDE DEF t, m, r
  <1>4. /\ Count(l.in, "BLOCK_REQUEST") \in Nat /\ Count(l.in, "BLOCK_RESPONSE") \in Nat
        /\ Count(l.out, "BLOCK_REQUEST") + Count(l.in, "BLOCK_RESPONSE") <= l.pending
        /\ Count(l.in, "BLOCK_REQUEST") + Count(l.out, "BLOCK_RESPONSE") <= q.pending
    BY PairCounts
  <1>5. /\ q.pending # 0 /\ q.pending - 1 \in Nat
        /\ Count(t, "BLOCK_REQUEST") + Count(l.in, "BLOCK_RESPONSE") <= l.pending
        /\ Count(l.in, "BLOCK_REQUEST") + Count(t, "BLOCK_RESPONSE") <= q.pending - 1
    <2>1. Count(t, "BLOCK_REQUEST") + Count(l.in, "BLOCK_RESPONSE") <= l.pending
      BY ONLY <1>2, <1>4
    <2>2. Count(l.in, "BLOCK_REQUEST") + (Count(t, "BLOCK_RESPONSE") + 1) <= q.pending
      BY ONLY <1>2, <1>4
    <2> QED
      BY <1>1, <1>2, <1>4, <2>1, <2>2, OneFewer
  <1>6. /\ m \in Link /\ m.ring = l.ring /\ m.out = t /\ m.in = l.in /\ m.pending = l.pending
        /\ r \in PeerNode /\ r.has = q.has /\ r.ring = q.ring /\ r.pending = q.pending - 1
    BY <1>2, <1>3, <1>5 DEF Pair, Link, PeerNode
  <1>7. Pair(m, r, bs)
    BY <1>2, <1>5, <1>6, PairIntro DEF Pair
  <1> QED
    BY <1>5, <1>7 DEF m, r

\* This node reads a broadcast
LEMMA PairNodeBroadcast ==
    ASSUME NEW l, NEW q, NEW bs, Pair(l, q, bs), l.in # <<>>,
           Head(l.in).type = "BLOCK_BROADCAST"
    PROVE  /\ Head(l.in).id \in Block /\ Head(l.in).pruned \in BOOLEAN
           /\ Readable(Head(l.in), bs)
           /\ Pair([l EXCEPT !.in = Tail(@), !.ring = Recorded(@, Head(l.in).id)], q, bs)
  <1> DEFINE m == [l EXCEPT !.in = Tail(@), !.ring = Recorded(@, Head(l.in).id)]
             t == Tail(l.in)
             x == Head(l.in)
             g == Recorded(l.ring, x.id)
  <1>1. /\ l.out \in Seq(Message) /\ l.in \in Seq(Message) /\ l.pending \in Nat
        /\ q.pending \in Nat /\ l.ring \in Seq(Block)
    BY PairFields
  <1>2. /\ Count(l.in, "BLOCK_REQUEST") = Count(t, "BLOCK_REQUEST")
               + (IF Head(l.in).type = "BLOCK_REQUEST" THEN 1 ELSE 0)
        /\ Count(l.in, "BLOCK_RESPONSE") = Count(t, "BLOCK_RESPONSE")
               + (IF Head(l.in).type = "BLOCK_RESPONSE" THEN 1 ELSE 0)
        /\ Count(t, "BLOCK_REQUEST") \in Nat /\ Count(t, "BLOCK_RESPONSE") \in Nat
    BY <1>1, CountsOfTail
  <1>3. /\ t \in Seq(Message) /\ Known(t, q.has, bs) /\ x \in Message
        /\ Complete(x.id, q.has) /\ (x.pruned => Below[x.id] \subseteq bs)
    BY <1>1, KnownTail DEF Pair
  <1>4. x.id \in Block /\ x.pruned \in BOOLEAN
    BY <1>3, MessageType
  <1>5. g \in Seq(Block) /\ Len(g) <= RingSize /\ AllComplete(g, q.has)
    BY <1>1, <1>3, <1>4, RecordedType DEF Pair
  <1>6. m = [l EXCEPT !.in = t, !.ring = g]
    OBVIOUS
  <1>7. Count(l.in, "BLOCK_REQUEST") = Count(t, "BLOCK_REQUEST")
        /\ Count(l.in, "BLOCK_RESPONSE") = Count(t, "BLOCK_RESPONSE")
    <2> HIDE DEF t
    <2> QED
      BY <1>2
  <1> HIDE DEF t, m, x, g
  <1>8. m \in Link /\ m.ring = g /\ m.out = l.out /\ m.in = t /\ m.pending = l.pending
    BY <1>3, <1>5, <1>6 DEF Pair, Link
  <1>9. Pair(m, q, bs)
    BY <1>3, <1>5, <1>7, <1>8, PairIntro DEF Pair
  <1> QED
    BY <1>3, <1>4, <1>9 DEF m, x, Readable

\* The peer reads a broadcast
LEMMA PairPeerBroadcast ==
    ASSUME NEW l, NEW q, NEW bs, Pair(l, q, bs), l.out # <<>>,
           Head(l.out).type = "BLOCK_BROADCAST"
    PROVE  /\ Head(l.out).id \in Block /\ Readable(Head(l.out), q.has)
           /\ Pair([l EXCEPT !.out = Tail(@)],
                   [q EXCEPT !.ring = Recorded(@, Head(l.out).id)], bs)
  <1> DEFINE m == [l EXCEPT !.out = Tail(@)]
             r == [q EXCEPT !.ring = Recorded(@, Head(l.out).id)]
             t == Tail(l.out)
             x == Head(l.out)
             g == Recorded(q.ring, x.id)
  <1>1. /\ l.out \in Seq(Message) /\ l.in \in Seq(Message) /\ l.pending \in Nat
        /\ q.pending \in Nat /\ q.ring \in Seq(Block)
    BY PairFields
  <1>2. /\ Count(l.out, "BLOCK_REQUEST") = Count(t, "BLOCK_REQUEST")
               + (IF Head(l.out).type = "BLOCK_REQUEST" THEN 1 ELSE 0)
        /\ Count(l.out, "BLOCK_RESPONSE") = Count(t, "BLOCK_RESPONSE")
               + (IF Head(l.out).type = "BLOCK_RESPONSE" THEN 1 ELSE 0)
        /\ Count(t, "BLOCK_REQUEST") \in Nat /\ Count(t, "BLOCK_RESPONSE") \in Nat
    BY <1>1, CountsOfTail
  <1>3. /\ t \in Seq(Message) /\ Known(t, bs, q.has) /\ x \in Message
        /\ Complete(x.id, bs) /\ (x.pruned => Below[x.id] \subseteq q.has)
    BY <1>1, KnownTail DEF Pair
  <1>4. x.id \in Block /\ x.pruned \in BOOLEAN
    BY <1>3, MessageType
  <1>5. g \in Seq(Block) /\ Len(g) <= RingSize /\ AllComplete(g, bs)
    BY <1>1, <1>3, <1>4, RecordedType DEF Pair
  <1>6. m = [l EXCEPT !.out = t] /\ r = [q EXCEPT !.ring = g]
    OBVIOUS
  <1>7. Count(l.out, "BLOCK_REQUEST") = Count(t, "BLOCK_REQUEST")
        /\ Count(l.out, "BLOCK_RESPONSE") = Count(t, "BLOCK_RESPONSE")
    <2> HIDE DEF t
    <2> QED
      BY <1>2
  <1> HIDE DEF t, m, r, x, g
  <1>8. /\ m \in Link /\ m.ring = l.ring /\ m.out = t /\ m.in = l.in /\ m.pending = l.pending
        /\ r \in PeerNode /\ r.has = q.has /\ r.ring = g /\ r.pending = q.pending
    BY <1>3, <1>5, <1>6 DEF Pair, Link, PeerNode
  <1>9. Pair(m, r, bs)
    BY <1>3, <1>5, <1>7, <1>8, PairIntro DEF Pair
  <1> QED
    BY <1>3, <1>4, <1>9 DEF m, r, x, Readable

\* Verified blocks, in order
LEMMA VerifiedOrder ==
    ASSUME NEW has \in SUBSET Block, NEW ids \in SUBSET Verified(has)
    PROVE  /\ ids \in SUBSET Block /\ Cardinality(ids) \in Nat
           /\ Ascending(ids) \in [1 .. Cardinality(ids) -> Block]
           /\ \A i \in 1 .. Cardinality(ids) : Complete(Ascending(ids)[i], has)
           /\ Ascending(ids) \in Seq(Block) /\ Len(Ascending(ids)) = Cardinality(ids)
           /\ AllComplete(Ascending(ids), has)
  <1> DEFINE n == Cardinality(ids)
             s == Ascending(ids)
  <1>1. ids \in SUBSET Block /\ \A b \in ids : Complete(b, has)
    BY DEF Verified, Complete
  <1>2. n \in Nat /\ s \in [1 .. n -> ids]
    BY <1>1, FiniteBlocks, AscendingOrder
  <1> HIDE DEF n, s
  <1>3. s \in [1 .. n -> Block] /\ s \in Seq(Block) /\ Len(s) = n
    BY <1>1, <1>2
  <1>4. \A i \in 1 .. n : Complete(s[i], has)
    BY <1>1, <1>2
  <1>5. AllComplete(s, has)
    BY <1>3, <1>4 DEF AllComplete
  <1> QED
    BY <1>1, <1>2, <1>3, <1>4, <1>5 DEF n, s

\* The peer stores a block and sends what it has to say
LEMMA PairPeerAdds ==
    ASSUME NEW l, NEW q, NEW bs, Pair(l, q, bs), NEW has \in SUBSET Block, q.has \subseteq has,
           NEW wants \in SUBSET Block, NEW ids \in SUBSET Verified(has),
           NEW missing \in SUBSET Block
    PROVE  Pair([l EXCEPT !.in = IF ~l.up THEN @
                                 ELSE @ \o Broadcasts(Ascending(ids), q.ring)
                                        \o Requests(missing)],
                [q EXCEPT !.has = has, !.want = wants, !.pending = @ + Cardinality(missing)], bs)
  <1> DEFINE b == Broadcasts(Ascending(ids), q.ring)
             r == Requests(missing)
             c == Cardinality(missing)
             u == l.in \o b
             v == IF ~l.up THEN l.in ELSE u \o r
             m == [l EXCEPT !.in = IF ~l.up THEN @
                                   ELSE @ \o Broadcasts(Ascending(ids), q.ring)
                                          \o Requests(missing)]
             o == [q EXCEPT !.has = has, !.want = wants, !.pending = @ + Cardinality(missing)]
  <1>1. /\ l.out \in Seq(Message) /\ l.in \in Seq(Message) /\ l.pending \in Nat
        /\ q.pending \in Nat /\ q.ring \in Seq(Block)
    BY PairFields
  <1>2. /\ b \in Seq(Message) /\ Known(b, has, bs)
        /\ \A i \in 1 .. Len(b) : b[i].type = "BLOCK_BROADCAST"
    <2>1. /\ Cardinality(ids) \in Nat
          /\ Ascending(ids) \in [1 .. Cardinality(ids) -> Block]
          /\ \A i \in 1 .. Cardinality(ids) : Complete(Ascending(ids)[i], has)
      BY VerifiedOrder
    <2>2. AllComplete(q.ring, bs)
      BY DEF Pair
    <2> QED
      BY <1>1, <2>1, <2>2, BroadcastsType
  <1>3. /\ c \in Nat /\ r \in Seq(Message) /\ Count(r, "BLOCK_REQUEST") = c
        /\ Count(r, "BLOCK_RESPONSE") = 0 /\ Known(r, has, bs)
    BY FiniteBlocks, RequestsType, KnownOther
  <1>4. m = [l EXCEPT !.in = v]
        /\ o = [q EXCEPT !.has = has, !.want = wants, !.pending = q.pending + c]
    OBVIOUS
  <1> HIDE DEF b, r, c, m, o
  <1>5. Count(b, "BLOCK_REQUEST") = 0 /\ Count(b, "BLOCK_RESPONSE") = 0
    BY <1>2, CountUniform
  <1>6. Known(l.in, has, bs) /\ Known(l.out, bs, has) /\ AllComplete(l.ring, has)
    BY KnownGrows, CompleteGrows DEF Pair
  <1>7. u \in Seq(Message) /\ Known(u, has, bs)
    BY <1>1, <1>2, <1>6, KnownConcat
  <1>8. /\ Count(u, "BLOCK_REQUEST") = Count(l.in, "BLOCK_REQUEST") + Count(b, "BLOCK_REQUEST")
        /\ Count(u, "BLOCK_RESPONSE") = Count(l.in, "BLOCK_RESPONSE") + Count(b, "BLOCK_RESPONSE")
    BY <1>1, <1>2, CountsOfConcat
  <1> HIDE DEF u
  <1>9. u \o r \in Seq(Message) /\ Known(u \o r, has, bs)
    BY <1>3, <1>7, KnownConcat
  <1>10. /\ Count(u \o r, "BLOCK_REQUEST") = Count(u, "BLOCK_REQUEST") + Count(r, "BLOCK_REQUEST")
         /\ Count(u \o r, "BLOCK_RESPONSE")
               = Count(u, "BLOCK_RESPONSE") + Count(r, "BLOCK_RESPONSE")
    BY <1>3, <1>7, CountsOfConcat
  <1>11. /\ v \in Seq(Message) /\ Known(v, has, bs)
         /\ Count(v, "BLOCK_REQUEST") <= Count(l.in, "BLOCK_REQUEST") + c
         /\ Count(v, "BLOCK_RESPONSE") = Count(l.in, "BLOCK_RESPONSE")
         /\ Count(v, "BLOCK_REQUEST") \in Nat
    <2>1. Count(l.in, "BLOCK_REQUEST") \in Nat /\ Count(l.in, "BLOCK_RESPONSE") \in Nat
      BY <1>1, CountsOf
    <2>2. CASE ~l.up
      <3>1. v = l.in
        BY <2>2
      <3> HIDE DEF v
      <3> QED
        BY <1>1, <1>3, <1>6, <2>1, <3>1
    <2>3. CASE l.up
      <3>1. v = u \o r
        BY <2>3
      <3> HIDE DEF v
      <3>2. /\ Count(v, "BLOCK_REQUEST") = Count(l.in, "BLOCK_REQUEST") + c
            /\ Count(v, "BLOCK_RESPONSE") = Count(l.in, "BLOCK_RESPONSE")
        BY ONLY <1>3, <1>5, <1>8, <1>10, <2>1, <3>1
      <3> QED
        BY <1>3, <1>9, <2>1, <3>1, <3>2
    <2> QED
      BY <2>2, <2>3
  <1> HIDE DEF v
  <1>12. /\ m \in Link /\ m.ring = l.ring /\ m.out = l.out /\ m.in = v /\ m.pending = l.pending
         /\ o \in PeerNode /\ o.has = has /\ o.ring = q.ring /\ o.pending = q.pending + c
    <2>1. q.pending + c \in Nat
      BY <1>1, <1>3
    <2> QED
      BY <1>4, <1>11, <2>1 DEF Pair, Link, PeerNode
  <1>13. /\ Count(l.out, "BLOCK_REQUEST") + Count(v, "BLOCK_RESPONSE") <= l.pending
         /\ Count(v, "BLOCK_REQUEST") + Count(l.out, "BLOCK_RESPONSE") <= q.pending + c
    <2>1. /\ Count(l.out, "BLOCK_REQUEST") \in Nat /\ Count(l.out, "BLOCK_RESPONSE") \in Nat
          /\ Count(l.in, "BLOCK_REQUEST") \in Nat /\ Count(l.in, "BLOCK_RESPONSE") \in Nat
          /\ Count(l.out, "BLOCK_REQUEST") + Count(l.in, "BLOCK_RESPONSE") <= l.pending
          /\ Count(l.in, "BLOCK_REQUEST") + Count(l.out, "BLOCK_RESPONSE") <= q.pending
      BY PairCounts
    <2> QED
      BY ONLY <1>1, <1>3, <1>11, <2>1
  <1>14. Pair(m, o, bs)
    BY <1>6, <1>11, <1>12, <1>13, PairIntro DEF Pair
  <1> QED
    BY <1>14 DEF m, o

LEMMA CountEmpty ==
    ASSUME NEW t
    PROVE  Count(<<>>, t) = 0
  <1> DEFINE s == <<>>
  <1>1. s \in Seq(Message) /\ Len(s) = 0
    OBVIOUS
  <1> HIDE DEF s
  <1>2. \A i \in 1 .. Len(s) : s[i].type # t
    BY <1>1
  <1>3. Count(s, t) = 0
    BY <1>1, <1>2, CountUniform
  <1> QED
    BY <1>3 DEF s

\* A connection that is closed
LEMMA PairEmpty ==
    ASSUME NEW q \in PeerNode, q.ring = <<>>, q.pending = 0, NEW n \in Nat, NEW bs
    PROVE  Pair(NoLink(n), q, bs)
  <1> DEFINE l == NoLink(n)
  <1>1. l \in Link /\ l.ring = <<>> /\ l.pending = 0 /\ l.out = <<>> /\ l.in = <<>>
    <2>1. <<>> \in Seq(Block) /\ <<>> \in Seq(Message)
      OBVIOUS
    <2>2. l = [up |-> FALSE, resets |-> n, ring |-> <<>>, pending |-> 0, out |-> <<>>,
               in |-> <<>>]
      BY DEF NoLink
    <2> HIDE DEF l
    <2> DEFINE e == <<>>
    <2> HIDE DEF e
    <2>3. l \in Link /\ l.ring = e /\ l.pending = 0 /\ l.out = e /\ l.in = e
      BY <2>1, <2>2 DEF e, Link
    <2> QED
      BY <2>3 DEF e
  <1> HIDE DEF l
  <1>2. RingSize \in Nat /\ Len(<<>>) = 0
    BY SyncAssumption
  <1>3. \A a, b : Known(<<>>, a, b) /\ AllComplete(<<>>, a)
    BY <1>2 DEF Known, AllComplete
  <1>4. Count(<<>>, "BLOCK_REQUEST") = 0 /\ Count(<<>>, "BLOCK_RESPONSE") = 0
    BY CountEmpty
  <1>5. Pair(l, q, bs)
    <2> DEFINE e == <<>>
    <2>1. /\ l \in Link /\ l.ring = e /\ l.pending = 0 /\ l.out = e /\ l.in = e
          /\ q.ring = e /\ Len(e) = 0 /\ Count(e, "BLOCK_REQUEST") = 0
          /\ Count(e, "BLOCK_RESPONSE") = 0 /\ \A a, b : Known(e, a, b) /\ AllComplete(e, a)
      BY <1>1, <1>2, <1>3, <1>4
    <2> HIDE DEF e
    <2>2. Len(l.ring) <= RingSize /\ Len(q.ring) <= RingSize
      BY ONLY <1>2, <2>1
    <2>3. /\ AllComplete(l.ring, q.has) /\ AllComplete(q.ring, bs)
          /\ Known(l.out, bs, q.has) /\ Known(l.in, q.has, bs)
      BY ONLY <2>1, Zenon
    <2>4. /\ Count(l.out, "BLOCK_REQUEST") + Count(l.in, "BLOCK_RESPONSE") <= l.pending
          /\ Count(l.in, "BLOCK_REQUEST") + Count(l.out, "BLOCK_RESPONSE") <= q.pending
      <3>1. /\ Count(l.out, "BLOCK_REQUEST") = 0 /\ Count(l.in, "BLOCK_RESPONSE") = 0
            /\ Count(l.in, "BLOCK_REQUEST") = 0 /\ Count(l.out, "BLOCK_RESPONSE") = 0
            /\ l.pending = 0 /\ q.pending = 0
        BY <2>1, Zenon
      <3> QED
        BY ONLY <3>1
    <2> QED
      BY <2>1, <2>2, <2>3, <2>4, PairIntro, Zenon
  <1> QED
    BY <1>5 DEF l

LEMMA PairClosed ==
    ASSUME NEW q \in PeerNode, NEW n \in Nat, NEW bs
    PROVE  Pair(NoLink(n), PeerClosed(q), bs)
  <1> DEFINE o == PeerClosed(q)
             e == <<>>
  <1>1. e \in Seq(Block) /\ o = [q EXCEPT !.ring = e, !.pending = 0]
    BY DEF PeerClosed
  <1> HIDE DEF o, e
  <1>2. o \in PeerNode /\ o.ring = e /\ o.pending = 0
    BY <1>1 DEF PeerNode
  <1>3. Pair(NoLink(n), o, bs)
    BY <1>2, PairEmpty DEF e
  <1> QED
    BY <1>3 DEF o

\* A connection after the handshake
LEMMA PairConnected ==
    ASSUME NEW l, NEW q, NEW bs, Pair(l, q, bs)
    PROVE  Pair([NoLink(l.resets) EXCEPT !.up = TRUE, !.pending = 1, !.out = <<Request(0)>>,
                                         !.in = <<Request(0)>>],
                [q EXCEPT !.pending = 1], bs)
  <1> DEFINE x == <<Request(0)>>
             m == [NoLink(l.resets) EXCEPT !.up = TRUE, !.pending = 1, !.out = <<Request(0)>>,
                                           !.in = <<Request(0)>>]
             o == [q EXCEPT !.pending = 1]
  <1>1. /\ x \in Seq(Message) /\ Len(x) = 1
        /\ \A i \in 1 .. Len(x) : x[i].type = "BLOCK_REQUEST"
    <2>1. Request(0) \in Message /\ Request(0).type = "BLOCK_REQUEST"
      BY MessageType
    <2> QED
      BY <2>1
  <1>2. /\ m \in Link /\ m.ring = <<>> /\ m.pending = 1 /\ m.out = x /\ m.in = x
        /\ o \in PeerNode /\ o.has = q.has /\ o.ring = q.ring /\ o.pending = 1
    <2>1. <<>> \in Seq(Block) /\ l.resets \in Nat /\ q \in PeerNode
      <3>1. <<>> \in Seq(Block)
        OBVIOUS
      <3>2. l.resets \in Nat /\ q \in PeerNode
        BY PairFields DEF Pair
      <3> QED
        BY ONLY <3>1, <3>2
    <2>2. m = [up |-> TRUE, resets |-> l.resets, ring |-> <<>>, pending |-> 1, out |-> x,
               in |-> x]
      <3> DEFINE n == l.resets
                 e == <<>>
      <3>1. m = [[up |-> FALSE, resets |-> n, ring |-> e, pending |-> 0, out |-> <<>>, in |-> <<>>]
                   EXCEPT !.up = TRUE, !.pending = 1, !.out = x, !.in = x]
        BY DEF NoLink
      <3> HIDE DEF n, e, m, x
      <3>2. m = [up |-> TRUE, resets |-> n, ring |-> e, pending |-> 1, out |-> x, in |-> x]
        BY ONLY <3>1
      <3> QED
        BY ONLY <3>2 DEF n, e
    <2> HIDE DEF m, x
    <2>3. m \in Link /\ m.ring = <<>> /\ m.pending = 1 /\ m.out = x /\ m.in = x
      BY <1>1, <2>1, <2>2 DEF Link
    <2>4. o \in PeerNode /\ o.has = q.has /\ o.ring = q.ring /\ o.pending = 1
      BY <2>1 DEF PeerNode
    <2> QED
      BY <2>3, <2>4
  <1> HIDE DEF x, m, o
  <1>3. /\ Count(x, "BLOCK_REQUEST") = 1 /\ Count(x, "BLOCK_RESPONSE") = 0
        /\ \A a, b : Known(x, a, b)
    BY <1>1, CountUniform, KnownOther
  <1>4. RingSize \in Nat /\ Len(<<>>) = 0 /\ AllComplete(<<>>, q.has)
    BY SyncAssumption DEF AllComplete
  <1>5. Pair(m, o, bs)
    BY <1>2, <1>3, <1>4, PairIntro DEF Pair
  <1> QED
    BY <1>5 DEF m, o

-----------------------------------------------------------------------------
(* The invariant                                                           *)

NodeTypes ==
    /\ setup \in SetupType /\ unmined \subseteq Block
    /\ blocks \subseteq Block /\ seen \subseteq Block /\ want \subseteq blocks
    /\ work \subseteq Work
    /\ look \in BOOLEAN /\ last \in [id : Block \cup {0}, pruned : BOOLEAN, ok : BOOLEAN]
    /\ asked \subseteq Peer \X Block /\ queue \in Seq(Block)
    /\ disk \in [0 .. CacheSize - 1 -> Block \cup {0}] /\ storeIndex \in Nat
    /\ cached \subseteq Block
    /\ left \in [faults : Nat, crashes : Nat, broken : BOOLEAN]

Linked ==
    /\ link \in [Peer -> Link] /\ peer \in [Peer -> PeerNode]
    /\ \A p \in Peer : Pair(link[p], peer[p], blocks)

\* deserialize_block never failed: the result it may use again is a good one
LastIsGood == last.id # 0 => last.ok

\* The inductive invariant
IInv ==
    /\ NodeTypes /\ Linked
    /\ AllComplete(queue, blocks)
    /\ LastIsGood /\ SeenMeansHere /\ BansAreForMissingSeeds

LEMMA LinkedStays ==
    ASSUME Linked, link' = link, peer' = peer, blocks \subseteq blocks'
    PROVE  Linked'
  <1>1. ASSUME NEW p \in Peer PROVE Pair(link'[p], peer'[p], blocks')
    BY PairGrows DEF Linked
  <1> QED
    BY <1>1 DEF Linked

\* A step that changes what there is between this node and p
LEMMA LinkedAt ==
    ASSUME Linked, NEW p \in Peer, NEW m, NEW o, Pair(m, o, blocks), blocks' = blocks,
           link' = [r \in Peer |-> IF r = p THEN m ELSE link[r]],
           peer' = [r \in Peer |-> IF r = p THEN o ELSE peer[r]]
    PROVE  Linked'
  <1>1. m \in Link /\ o \in PeerNode
    BY DEF Pair
  <1>2. link' \in [Peer -> Link] /\ peer' \in [Peer -> PeerNode]
    BY <1>1 DEF Linked
  <1>3. ASSUME NEW r \in Peer PROVE Pair(link'[r], peer'[r], blocks')
    <2>1. CASE r = p
      BY <2>1
    <2>2. CASE r # p
      BY <2>2 DEF Linked
    <2> QED
      BY <2>1, <2>2
  <1> QED
    BY <1>2, <1>3 DEF Linked

LEMMA LinkedOnly ==
    ASSUME Linked, NEW p \in Peer, NEW m, Pair(m, peer[p], blocks), blocks' = blocks,
           link' = [link EXCEPT ![p] = m], peer' = peer
    PROVE  Linked'
  <1>1. link' = [r \in Peer |-> IF r = p THEN m ELSE link[r]]
    BY DEF Linked
  <1>2. peer' = [r \in Peer |-> IF r = p THEN peer[p] ELSE peer[r]]
    BY DEF Linked
  <1> QED
    BY <1>1, <1>2, LinkedAt

\* The cache file
LEMMA StoredType ==
    ASSUME NEW d \in [0 .. CacheSize - 1 -> Block \cup {0}], NEW ids \in Seq(Block)
    PROVE  Stored(d, ids) \in [0 .. CacheSize - 1 -> Block \cup {0}]
  <1> DEFINE at(i) == {k \in 1 .. Len(ids) : (storeIndex + k - 1) % CacheSize = i}
             top(i) == CHOOSE k \in at(i) : \A j \in at(i) : j <= k
             e(i) == IF at(i) = {} THEN d[i] ELSE ids[top(i)]
  <1>1. Stored(d, ids) = [i \in 0 .. CacheSize - 1 |-> e(i)]
    BY DEF Stored
  <1>2. ASSUME NEW i \in 0 .. CacheSize - 1 PROVE e(i) \in Block \cup {0}
    <2>1. at(i) \subseteq 1 .. Len(ids) /\ Len(ids) \in Nat
      OBVIOUS
    <2> HIDE DEF at
    <2>2. CASE at(i) = {}
      BY <2>2
    <2>3. CASE at(i) # {}
      <3> DEFINE T == {Len(ids) - k : k \in at(i)}
      <3>1. T \subseteq Nat /\ T # {}
        BY <2>1, <2>3
      <3>2. PICK x \in T : \A y \in T : x <= y
        <4> HIDE DEF T
        <4> QED
          BY <3>1, LeastNumber
      <3>3. PICK k \in at(i) : x = Len(ids) - k
        OBVIOUS
      <3>4. ASSUME NEW j \in at(i) PROVE j <= k
        <4>1. Len(ids) - j \in T
          OBVIOUS
        <4>2. x <= Len(ids) - j
          BY <3>2, <4>1
        <4>3. j \in Nat /\ k \in Nat
          BY <2>1
        <4> QED
          BY ONLY <2>1, <3>3, <4>2, <4>3
      <3>5. top(i) \in at(i)
        BY <3>4
      <3>6. ids[top(i)] \in Block
        <4> HIDE DEF top
        <4> QED
          BY <2>1, <3>5
      <3> HIDE DEF top
      <3> QED
        BY <2>3, <3>6
    <2> QED
      BY <2>2, <2>3
  <1> HIDE DEF e
  <1> QED
    BY <1>1, <1>2

\* add_block
LEMMA AddBlockStep ==
    ASSUME IInv, NEW id \in Block, NEW relay \in BOOLEAN, AddBlock(id, relay)
    PROVE  /\ blocks' = blocks \cup {id} /\ blocks' \subseteq Block /\ want' \subseteq blocks'
           /\ queue' \in Seq(Block) /\ AllComplete(queue', blocks')
           /\ disk' \in [0 .. CacheSize - 1 -> Block \cup {0}] /\ storeIndex' \in Nat
  <1> DEFINE bs == blocks \cup {id}
             wants == IF relay /\ id \notin blocks THEN want \cup {id} ELSE want
             fresh == Verified(blocks \cup {id}) \ Verified(blocks)
             ids == fresh \cap wants
  <1>1. /\ blocks' = bs /\ want' = wants \ fresh /\ queue' = queue \o Ascending(ids)
        /\ disk' = Stored(disk, Ascending(fresh)) /\ storeIndex' = storeIndex + Cardinality(fresh)
    BY DEF AddBlock
  <1>2. bs \in SUBSET Block /\ wants \subseteq bs
    BY DEF IInv, NodeTypes
  <1>3. fresh \in SUBSET Verified(bs) /\ ids \in SUBSET Verified(bs)
    OBVIOUS
  <1>4. queue \in Seq(Block) /\ AllComplete(queue, bs)
    BY CompleteGrows DEF IInv, NodeTypes
  <1> HIDE DEF bs, wants, fresh, ids
  <1>5. Ascending(ids) \in Seq(Block) /\ AllComplete(Ascending(ids), bs)
    BY <1>2, <1>3, VerifiedOrder
  <1>6. Ascending(fresh) \in Seq(Block) /\ Cardinality(fresh) \in Nat
    BY <1>2, <1>3, VerifiedOrder
  <1>7. disk' \in [0 .. CacheSize - 1 -> Block \cup {0}]
    BY <1>1, <1>6, StoredType DEF IInv, NodeTypes
  <1>8. storeIndex' \in Nat
    <2>1. storeIndex \in Nat
      BY DEF IInv, NodeTypes
    <2> QED
      BY ONLY <1>1, <1>6, <2>1
  <1>9. queue' \in Seq(Block) /\ AllComplete(queue', bs)
    <2> DEFINE a == Ascending(ids)
               s == queue \o a
    <2>1. a \in Seq(Block) /\ AllComplete(a, bs)
      BY <1>5
    <2> HIDE DEF a
    <2>2. /\ s \in Seq(Block) /\ Len(s) = Len(queue) + Len(a)
          /\ \A i \in 1 .. Len(queue) + Len(a) :
                 s[i] = IF i <= Len(queue) THEN queue[i] ELSE a[i - Len(queue)]
      BY <1>4, <2>1, ConcatProperties
    <2>3. Len(queue) \in Nat /\ Len(a) \in Nat
      BY <1>4, <2>1
    <2>4. ASSUME NEW i \in 1 .. Len(s)
          PROVE  \/ i \in 1 .. Len(queue) /\ s[i] = queue[i]
                 \/ i - Len(queue) \in 1 .. Len(a) /\ s[i] = a[i - Len(queue)]
      BY <2>2, <2>3
    <2> HIDE DEF s
    <2>5. AllComplete(s, bs)
      BY <1>4, <2>1, <2>4 DEF AllComplete
    <2> QED
      BY <1>1, <2>2, <2>5 DEF s, a
  <1> QED
    BY <1>1, <1>2, <1>7, <1>8, <1>9 DEF bs

-----------------------------------------------------------------------------
(* The initial states and the steps                                        *)

LEMMA InitInvariant ==
    ASSUME Init
    PROVE  IInv
  <1>1. PICK s \in Setups :
          /\ setup = s
          /\ blocks = s.blocks /\ seen = s.blocks /\ want = {} /\ work = {} /\ look = TRUE
          /\ last = [id |-> 0, pruned |-> FALSE, ok |-> FALSE] /\ asked = {} /\ queue = <<>>
          /\ disk = s.disk /\ storeIndex = 0
          /\ cached = Loaded(s.disk)
          /\ link = [p \in Peer |-> NoLink(0)]
          /\ peer = [p \in Peer |-> [has |-> s.has[p], want |-> {}, ring |-> <<>>, pending |-> 0]]
          /\ unmined = s.new /\ bans = {}
          /\ left = [faults |-> s.faults, crashes |-> s.crashes, broken |-> FALSE]
    BY DEF Init
  <1>2. s \in SetupType
    BY <1>1, SyncAssumption
  <1>3. /\ s.blocks \in SUBSET Block /\ s.has \in [Peer -> SUBSET Block]
        /\ s.disk \in [0 .. CacheSize - 1 -> Block \cup {0}] /\ s.new \in SUBSET Block
        /\ s.faults \in Nat /\ s.crashes \in Nat
    BY <1>2 DEF SetupType
  <1>4. Loaded(s.disk) \subseteq Block
    BY <1>3 DEF Loaded
  <1>5. NodeTypes
    <2>1. queue \in Seq(Block)
      BY <1>1
    <2>2. last \in [id : Block \cup {0}, pruned : BOOLEAN, ok : BOOLEAN]
          /\ left \in [faults : Nat, crashes : Nat, broken : BOOLEAN]
      BY <1>1, <1>3
    <2> QED
      BY <1>1, <1>2, <1>3, <1>4, <2>1, <2>2 DEF NodeTypes
  <1>6. ASSUME NEW p \in Peer
        PROVE  peer[p] \in PeerNode /\ Pair(link[p], peer[p], blocks)
    <2> DEFINE h == s.has[p]
               e == <<>>
    <2>1. h \in SUBSET Block /\ e \in Seq(Block)
      <3>1. h \in SUBSET Block
        BY <1>3
      <3>2. e \in Seq(Block)
        OBVIOUS
      <3> QED
        BY ONLY <3>1, <3>2
    <2>2. link[p] = NoLink(0) /\ peer[p] = [has |-> h, want |-> {}, ring |-> e, pending |-> 0]
      BY <1>1
    <2> HIDE DEF h, e
    <2>3. peer[p] \in PeerNode /\ peer[p].ring = e /\ peer[p].pending = 0
      BY <2>1, <2>2 DEF PeerNode
    <2>4. Pair(NoLink(0), peer[p], blocks)
      BY <2>3, PairEmpty DEF e
    <2> QED
      BY <2>2, <2>3, <2>4
  <1>7. Linked
    <2>1. \A p \in Peer : link[p] \in Link
      BY <1>6 DEF Pair
    <2> HIDE DEF IInv
    <2>2. link \in [Peer -> Link] /\ peer \in [Peer -> PeerNode]
      <3>1. link = [p \in Peer |-> link[p]] /\ peer = [p \in Peer |-> peer[p]]
        BY <1>1
      <3> QED
        BY ONLY <1>6, <2>1, <3>1
    <2> QED
      BY <1>6, <2>2 DEF Linked
  <1>8. AllComplete(queue, blocks)
    BY <1>1 DEF AllComplete
  <1>9. LastIsGood /\ SeenMeansHere /\ BansAreForMissingSeeds
    BY <1>1 DEF LastIsGood, SeenMeansHere, BansAreForMissingSeeds
  <1> QED
    BY <1>5, <1>7, <1>8, <1>9 DEF IInv

LEMMA ConnectStep ==
    ASSUME IInv, NEW p \in Peer, Connect(p)
    PROVE  IInv'
  <1>1. NodeTypes' /\ AllComplete(queue, blocks)' /\ LastIsGood' /\ SeenMeansHere'
        /\ BansAreForMissingSeeds'
    BY
       DEF Connect, IInv, NodeTypes, nodeVars, cacheVars, LastIsGood, SeenMeansHere,
           BansAreForMissingSeeds
  <1>2. Linked'
    <2> DEFINE m == [NoLink(link[p].resets) EXCEPT !.up = TRUE, !.pending = 1,
                         !.out = <<Request(0)>>, !.in = <<Request(0)>>]
               o == [peer[p] EXCEPT !.pending = 1]
    <2>1. Pair(m, o, blocks)
      BY PairConnected DEF IInv, Linked
    <2>2. link' = [link EXCEPT ![p] = m] /\ peer' = [peer EXCEPT ![p] = o] /\ blocks' = blocks
      BY DEF Connect, nodeVars, IInv, Linked
    <2> HIDE DEF m, o
    <2>3. link' = [r \in Peer |-> IF r = p THEN m ELSE link[r]]
          /\ peer' = [r \in Peer |-> IF r = p THEN o ELSE peer[r]]
      BY <2>2 DEF IInv, Linked
    <2> QED
      BY <2>1, <2>2, <2>3, LinkedAt DEF IInv
  <1> QED
    BY <1>1, <1>2 DEF IInv

LEMMA FaultTypes ==
    ASSUME IInv, Fault
    PROVE  left' \in [faults : Nat, crashes : Nat, broken : BOOLEAN]
  <1>1. left \in [faults : Nat, crashes : Nat, broken : BOOLEAN] /\ left.faults > 0
        /\ left' = [left EXCEPT !.faults = @ - 1, !.broken = TRUE]
    BY DEF Fault, IInv, NodeTypes
  <1>2. left.faults - 1 \in Nat
    BY <1>1
  <1> QED
    BY <1>1, <1>2

\* A connection that is closed, whoever closes it
LEMMA CloseStep ==
    ASSUME IInv, NEW p \in Peer, Close(p), blocks' = blocks
    PROVE  Linked'
  <1> DEFINE m == NoLink(link[p].resets + 1)
             o == PeerClosed(peer[p])
  <1>1. peer[p] \in PeerNode /\ link[p].resets + 1 \in Nat
    BY DEF IInv, Linked, Link
  <1>2. Pair(m, o, blocks)
    BY <1>1, PairClosed
  <1>3. link' = [link EXCEPT ![p] = m] /\ peer' = [peer EXCEPT ![p] = o]
    BY DEF Close, IInv, Linked, Closed
  <1> HIDE DEF m, o
  <1>4. link' = [r \in Peer |-> IF r = p THEN m ELSE link[r]]
        /\ peer' = [r \in Peer |-> IF r = p THEN o ELSE peer[r]]
    BY <1>3 DEF IInv, Linked
  <1> QED
    BY <1>2, <1>3, <1>4, LinkedAt DEF IInv

LEMMA DropStep ==
    ASSUME IInv, NEW p \in Peer, Drop(p)
    PROVE  IInv'
  <1>1. left' \in [faults : Nat, crashes : Nat, broken : BOOLEAN]
    BY FaultTypes DEF Drop
  <1>2. NodeTypes' /\ AllComplete(queue, blocks)' /\ LastIsGood' /\ SeenMeansHere'
        /\ BansAreForMissingSeeds'
    BY <1>1
       DEF Drop, IInv, NodeTypes, nodeVars, cacheVars, LastIsGood, SeenMeansHere,
           BansAreForMissingSeeds
  <1>3. Linked'
    BY CloseStep DEF Drop, nodeVars
  <1> QED
    BY <1>2, <1>3 DEF IInv

\* The ban for a seed that a peer lacks
LEMMA PeerLacksSeedStep ==
    ASSUME IInv, NEW p \in Peer, PeerLacksSeed(p)
    PROVE  IInv'
  <1>1. left' \in [faults : Nat, crashes : Nat, broken : BOOLEAN]
    BY FaultTypes DEF PeerLacksSeed
  <1>2. NodeTypes' /\ AllComplete(queue, blocks)' /\ LastIsGood' /\ SeenMeansHere'
    BY <1>1 DEF PeerLacksSeed, IInv, NodeTypes, nodeVars, cacheVars, LastIsGood, SeenMeansHere
  <1>3. BansAreForMissingSeeds'
    BY DEF PeerLacksSeed, IInv, BansAreForMissingSeeds
  <1>4. Linked'
    BY CloseStep DEF PeerLacksSeed, nodeVars
  <1> QED
    BY <1>2, <1>3, <1>4 DEF IInv

\* The peer stores a block
LEMMA PeerAddsStep ==
    ASSUME IInv, NEW p \in Peer, NEW q, NEW id \in Block, NEW relay \in BOOLEAN, NEW rest,
           Pair([link[p] EXCEPT !.out = rest], q, blocks), PeerAdds(p, q, id, relay, rest),
           blocks' = blocks
    PROVE  Linked'
  <1> DEFINE has == q.has \cup {id}
             wants == IF relay THEN q.want \cup {id} ELSE q.want
             fresh == Verified(has) \ Verified(q.has)
             missing == IF id \in q.has THEN {} ELSE Anc[id] \ has
             ids == fresh \cap wants
             l == [link[p] EXCEPT !.out = rest]
             m == [l EXCEPT !.in = IF ~l.up THEN @
                                   ELSE @ \o Broadcasts(Ascending(ids), q.ring)
                                          \o Requests(missing)]
             o == [q EXCEPT !.has = has, !.want = wants \ fresh,
                            !.pending = @ + Cardinality(missing)]
  <1>1. has \in SUBSET Block /\ wants \ fresh \in SUBSET Block /\ missing \in SUBSET Block
    <2>1. q.has \in SUBSET Block /\ q.want \in SUBSET Block
      BY PairFields
    <2>2. Anc[id] \subseteq Block
      BY BelowEquation
    <2> QED
      BY <2>1, <2>2
  <1>2. ids \in SUBSET Verified(has) /\ q.has \subseteq has
    OBVIOUS
  <1>3. Pair(l, q, blocks)
    OBVIOUS
  <1>4. Pair(m, o, blocks)
    <2> HIDE DEF has, wants, fresh, missing, ids, l
    <2> QED
      BY <1>1, <1>2, <1>3, PairPeerAdds
  <1>5. peer' = [peer EXCEPT ![p] = o] /\ link' = [link EXCEPT ![p] = m]
    <2> HIDE DEF has, wants, fresh, missing, ids
    <2>1. peer' = [peer EXCEPT ![p] = o]
      BY DEF PeerAdds, has, wants, fresh, missing
    <2>2. link' = [link EXCEPT
              ![p].out = rest,
              ![p].in = IF ~link[p].up THEN @
                        ELSE @ \o Broadcasts(Ascending(ids), q.ring) \o Requests(missing)]
      BY DEF PeerAdds, has, wants, fresh, missing, ids
    <2>3. link[p] \in Link /\ link \in [Peer -> Link]
      BY DEF IInv, Linked
    <2>4. l.up = link[p].up /\ l.in = link[p].in
      BY <2>3 DEF Link
    <2> QED
      BY <2>1, <2>2, <2>3, <2>4
  <1> HIDE DEF m, o
  <1>6. link' = [r \in Peer |-> IF r = p THEN m ELSE link[r]]
        /\ peer' = [r \in Peer |-> IF r = p THEN o ELSE peer[r]]
    BY <1>5 DEF IInv, Linked
  <1> QED
    BY <1>4, <1>6, LinkedAt DEF IInv

LEMMA PeerGetsStep ==
    ASSUME IInv, NEW p \in Peer, NEW id \in Block, PeerGets(p, id)
    PROVE  IInv'
  <1>1. NodeTypes' /\ AllComplete(queue, blocks)' /\ LastIsGood' /\ SeenMeansHere'
        /\ BansAreForMissingSeeds'
    BY DEF PeerGets, IInv, NodeTypes, nodeVars, cacheVars, LastIsGood, SeenMeansHere,
           BansAreForMissingSeeds
  <1>2. Linked'
    <2> DEFINE l == link[p]
    <2>1. PeerAdds(p, peer[p], id, TRUE, l.out) /\ blocks' = blocks
      BY DEF PeerGets, nodeVars
    <2>2. Pair(l, peer[p], blocks) /\ l \in Link
      BY DEF IInv, Linked
    <2>3. [l EXCEPT !.out = l.out] = l
      <3> HIDE DEF l
      <3> QED
        BY <2>2 DEF Link
    <2> QED
      BY <2>1, <2>2, <2>3, PeerAddsStep
  <1> QED
    BY <1>1, <1>2 DEF IInv

\* The answer to a request is a block or the empty answer
LEMMA AnswersType ==
    ASSUME NEW id \in Block \cup {0}, NEW has \in SUBSET Block, NEW x \in Answers(id, has)
    PROVE  x \in Block \cup {0}
  <1>1. Tips(has) \subseteq Block \cup {0}
    BY DEF Tips, Verified
  <1> QED
    BY <1>1 DEF Answers

LEMMA PeerReadsStep ==
    ASSUME IInv, NEW p \in Peer, PeerReads(p)
    PROVE  IInv'
  <1> DEFINE l == link[p]
             q == peer[p]
             msg == Head(l.out)
             t == Tail(l.out)
  <1>1. Pair(l, q, blocks) /\ l \in Link /\ q \in PeerNode /\ l.out # <<>> /\ blocks' = blocks
    BY DEF IInv, Linked, PeerReads, nodeVars
  <1>2. l.out \in Seq(Message) /\ q.has \in SUBSET Block
    BY <1>1, PairFields
  <1>3. msg \in Message /\ msg.id \in Block \cup {0}
    BY <1>1, <1>2, MessageType
  <1>4. Linked' /\ bans' = bans
    <2>1. CASE /\ msg.type = "BLOCK_REQUEST"
               /\ \E id \in Answers(msg.id, q.has) :
                     link' = [link EXCEPT ![p].out = Tail(@), ![p].in = Append(@, Response(id))]
               /\ UNCHANGED <<peer, bans>>
      <3>1. PICK id \in Answers(msg.id, q.has) :
              link' = [link EXCEPT ![p].out = Tail(@), ![p].in = Append(@, Response(id))]
        BY <2>1
      <3>2. id \in Block \cup {0}
        BY <1>2, <1>3, AnswersType
      <3> DEFINE m == [l EXCEPT !.out = Tail(@), !.in = Append(@, Response(id))]
      <3>3. Pair(m, q, blocks)
        BY <1>1, <2>1, <3>2, PairPeerAnswers
      <3>4. link' = [link EXCEPT ![p] = m]
        BY <3>1 DEF IInv, Linked
      <3> HIDE DEF m
      <3> QED
        BY <1>1, <2>1, <3>3, <3>4, LinkedOnly DEF IInv
    <2>2. CASE /\ msg.type = "BLOCK_RESPONSE"
               /\ IF q.pending = 0 THEN Ban(p, Node, p) ELSE
                  /\ IF msg.id # 0
                     THEN PeerAdds(p, [q EXCEPT !.pending = @ - 1], msg.id, FALSE, t)
                     ELSE /\ peer' = [peer EXCEPT ![p].pending = @ - 1]
                          /\ link' = [link EXCEPT ![p].out = Tail(@)]
                  /\ UNCHANGED bans
      <3> DEFINE m == [l EXCEPT !.out = t]
                 o == [q EXCEPT !.pending = @ - 1]
      <3>1. q.pending # 0 /\ Pair(m, o, blocks)
        BY <1>1, <2>2, PairPeerResponse
      <3>2. /\ IF msg.id # 0 THEN PeerAdds(p, o, msg.id, FALSE, t)
               ELSE /\ peer' = [peer EXCEPT ![p].pending = @ - 1]
                    /\ link' = [link EXCEPT ![p].out = Tail(@)]
            /\ bans' = bans
        BY <2>2, <3>1
      <3>3. CASE msg.id # 0
        <4>1. msg.id \in Block /\ PeerAdds(p, o, msg.id, FALSE, t)
          BY <1>3, <3>2, <3>3
        <4> HIDE DEF o, t, msg, q
        <4>2. Linked'
          BY <1>1, <3>1, <4>1, PeerAddsStep
        <4> QED
          BY <3>2, <4>2
      <3>4. CASE msg.id = 0
        <4>1. peer' = [peer EXCEPT ![p] = o] /\ link' = [link EXCEPT ![p] = m]
          BY <3>2, <3>4 DEF IInv, Linked
        <4> HIDE DEF m, o
        <4>2. link' = [r \in Peer |-> IF r = p THEN m ELSE link[r]]
              /\ peer' = [r \in Peer |-> IF r = p THEN o ELSE peer[r]]
          BY <4>1 DEF IInv, Linked
        <4> QED
          BY <1>1, <3>1, <3>2, <4>2, LinkedAt DEF IInv
      <3> QED
        BY <3>3, <3>4
    <2>3. CASE /\ msg.type = "BLOCK_BROADCAST"
               /\ IF ~Readable(msg, q.has) THEN Ban(p, Node, p) ELSE
                  /\ PeerAdds(p, [q EXCEPT !.ring = Recorded(@, msg.id)], msg.id, TRUE, t)
                  /\ UNCHANGED bans
      <3> DEFINE m == [l EXCEPT !.out = t]
                 o == [q EXCEPT !.ring = Recorded(@, msg.id)]
      <3>1. msg.id \in Block /\ Readable(msg, q.has) /\ Pair(m, o, blocks)
        BY <1>1, <2>3, PairPeerBroadcast
      <3>2. PeerAdds(p, o, msg.id, TRUE, t) /\ bans' = bans
        BY <2>3, <3>1
      <3> HIDE DEF o, t, msg, q
      <3>3. Linked'
        BY <1>1, <3>1, <3>2, PeerAddsStep
      <3> QED
        BY <3>2, <3>3
    <2> QED
      BY <2>1, <2>2, <2>3 DEF PeerReads
  <1>5. NodeTypes' /\ AllComplete(queue, blocks)' /\ LastIsGood' /\ SeenMeansHere'
    BY DEF PeerReads, IInv, NodeTypes, nodeVars, cacheVars, LastIsGood, SeenMeansHere
  <1> QED
    BY <1>4, <1>5 DEF IInv, BansAreForMissingSeeds

\* Blocks that are handed to the pool
LEMMA HandedOver ==
    ASSUME IInv, NEW ids \in SUBSET Block, NEW new \in SUBSET Work, blocks' = blocks,
           seen' = seen \cup ids, \A b \in ids \ seen : \E w \in new : w.id = b /\ ~w.added,
           NEW old \in SUBSET work, work' = old \cup new, \A w \in work \ old : w.added
    PROVE  seen' \subseteq Block /\ work' \subseteq Work /\ SeenMeansHere'
  <1>1. seen' \subseteq Block /\ work' \subseteq Work
    BY DEF IInv, NodeTypes
  <1>2. ASSUME NEW b \in seen' PROVE b \in blocks' \/ \E w \in work' : w.id = b /\ ~w.added
    <2>1. CASE b \in seen
      BY <2>1 DEF IInv, SeenMeansHere
    <2>2. CASE b \notin seen
      BY <2>2
    <2> QED
      BY <2>1, <2>2
  <1> QED
    BY <1>1, <1>2 DEF SeenMeansHere

LEMMA IncomingStep ==
    ASSUME IInv, NEW id \in Block, NEW p \in Peer, NEW relay \in BOOLEAN,
           Incoming({id}, p, relay), blocks' = blocks
    PROVE  seen' \subseteq Block /\ work' \subseteq Work /\ SeenMeansHere'
  <1> DEFINE rec(b) == [id |-> b, relay |-> relay, peer |-> p, resets |-> link[p].resets,
                        added |-> FALSE, missing |-> {}]
             new == {rec(b) : b \in {id} \ seen}
  <1>1. link[p].resets \in Nat
    BY DEF IInv, Linked, Link
  <1>2. \A b \in Block : rec(b) \in Work /\ rec(b).id = b /\ ~rec(b).added
    BY <1>1 DEF Work
  <1>3. seen' = seen \cup {id} /\ work' = work \cup new
    BY DEF Incoming
  <1> HIDE DEF rec
  <1>4. new \in SUBSET Work
    BY <1>2
  <1>5. \A b \in {id} \ seen : \E w \in new : w.id = b /\ ~w.added
    BY <1>2
  <1> HIDE DEF new
  <1> QED
    BY <1>3, <1>4, <1>5, HandedOver

LEMMA OnBlockRequestStep ==
    ASSUME IInv, NEW p \in Peer, link[p].in # <<>>, OnBlockRequest(p)
    PROVE  IInv'
  <1> DEFINE l == link[p]
             q == peer[p]
             msg == Head(l.in)
  <1>1. Pair(l, q, blocks) /\ l \in Link /\ l.in # <<>> /\ blocks' = blocks
    BY DEF IInv, Linked, OnBlockRequest, nodeVars
  <1>2. msg \in Message /\ msg.id \in Block \cup {0} /\ msg.type = "BLOCK_REQUEST"
    <2>1. l.in \in Seq(Message)
      BY <1>1, PairFields
    <2> QED
      BY <1>1, <2>1, MessageType DEF OnBlockRequest
  <1>3. PICK id \in Answers(msg.id, blocks) :
          link' = [link EXCEPT ![p].in = Tail(@), ![p].out = Append(@, Response(id))]
    BY DEF OnBlockRequest
  <1>4. id \in Block \cup {0}
    BY <1>2, AnswersType DEF IInv, NodeTypes
  <1> DEFINE m == [l EXCEPT !.in = Tail(@), !.out = Append(@, Response(id))]
  <1>5. Pair(m, q, blocks)
    BY <1>1, <1>2, <1>4, PairNodeAnswers
  <1>6. link' = [link EXCEPT ![p] = m] /\ peer' = peer
    BY <1>3 DEF IInv, Linked, OnBlockRequest
  <1> HIDE DEF m
  <1>7. Linked'
    BY <1>1, <1>5, <1>6, LinkedOnly DEF IInv
  <1>8. NodeTypes' /\ AllComplete(queue, blocks)' /\ LastIsGood' /\ SeenMeansHere'
        /\ BansAreForMissingSeeds'
    BY DEF OnBlockRequest, IInv, NodeTypes, nodeVars, cacheVars, LastIsGood, SeenMeansHere,
           BansAreForMissingSeeds
  <1> QED
    BY <1>7, <1>8 DEF IInv

\* deserialize_block
LEMMA DeserializeStep ==
    ASSUME IInv, NEW msg, msg.id \in Block, msg.pruned \in BOOLEAN, Readable(msg, blocks),
           Deserialize(msg)
    PROVE  /\ Deserialized(msg) /\ look' \in BOOLEAN /\ LastIsGood'
           /\ last' \in [id : Block \cup {0}, pruned : BOOLEAN, ok : BOOLEAN]
  <1>1. 0 \notin Block
    BY SyncAssumption
  <1>2. Deserialized(msg)
    <2>1. CASE Same(msg)
      BY <1>1, <2>1 DEF Deserialized, Same, IInv, LastIsGood
    <2>2. CASE ~Same(msg)
      BY <2>2 DEF Deserialized
    <2> QED
      BY <2>1, <2>2
  <1>3. last' = [id |-> msg.id, pruned |-> msg.pruned, ok |-> Deserialized(msg)]
        /\ Deserialized(msg) \in BOOLEAN
    <2>1. last.ok \in BOOLEAN
      BY DEF IInv, NodeTypes
    <2> QED
      BY <2>1 DEF Deserialize, Deserialized, Readable
  <1> HIDE DEF Deserialized
  <1>4. last' \in [id : Block \cup {0}, pruned : BOOLEAN, ok : BOOLEAN] /\ LastIsGood'
    BY <1>2, <1>3 DEF LastIsGood
  <1>5. look' \in BOOLEAN
    BY DEF Deserialize
  <1> QED
    BY <1>2, <1>4, <1>5

LEMMA OnBlockResponseStep ==
    ASSUME IInv, NEW p \in Peer, link[p].in # <<>>, OnBlockResponse(p)
    PROVE  IInv'
  <1> DEFINE l == link[p]
             q == peer[p]
             msg == Head(l.in)
  <1>1. /\ Pair(l, q, blocks) /\ l.in # <<>> /\ msg.type = "BLOCK_RESPONSE" /\ blocks' = blocks
        /\ want' = want /\ queue' = queue
    BY DEF IInv, Linked, OnBlockResponse
  <1>2. msg \in Message /\ msg.id \in Block \cup {0} /\ msg.pruned = FALSE
    <2>1. l.in \in Seq(Message)
      BY <1>1, PairFields
    <2>2. msg \in Message
      BY <1>1, <2>1
    <2> QED
      BY <1>1, <2>2, MessageType
  <1> DEFINE m == [l EXCEPT !.in = Tail(@), !.pending = @ - 1]
  <1>3. l.pending # 0 /\ Pair(m, q, blocks)
    BY <1>1, PairNodeResponse
  <1>4. /\ link' = [link EXCEPT ![p] = m] /\ peer' = peer /\ bans' = bans
        /\ IF msg.id = 0 THEN UNCHANGED <<seen, work, last, look>>
           ELSE Deserialize(msg) /\ Incoming({msg.id}, p, FALSE)
    BY <1>3 DEF OnBlockResponse, IInv, Linked
  <1> HIDE DEF m
  <1>5. Linked'
    BY <1>1, <1>3, <1>4, LinkedOnly DEF IInv
  <1>6. /\ seen' \subseteq Block /\ work' \subseteq Work /\ SeenMeansHere'
        /\ look' \in BOOLEAN /\ LastIsGood'
        /\ last' \in [id : Block \cup {0}, pruned : BOOLEAN, ok : BOOLEAN]
    <2>1. CASE msg.id = 0
      BY <1>1, <1>4, <2>1 DEF IInv, NodeTypes, SeenMeansHere, LastIsGood
    <2>2. CASE msg.id # 0
      <3>1. msg.id \in Block /\ msg.pruned \in BOOLEAN /\ Readable(msg, blocks)
        BY <1>2, <2>2 DEF Readable
      <3>2. Deserialize(msg) /\ Incoming({msg.id}, p, FALSE)
        BY <1>4, <2>2
      <3> HIDE DEF msg
      <3>3. seen' \subseteq Block /\ work' \subseteq Work /\ SeenMeansHere'
        BY <1>1, <3>1, <3>2, IncomingStep
      <3>4. /\ look' \in BOOLEAN /\ LastIsGood'
            /\ last' \in [id : Block \cup {0}, pruned : BOOLEAN, ok : BOOLEAN]
        BY <3>1, <3>2, DeserializeStep
      <3> QED
        BY <3>3, <3>4
    <2> QED
      BY <2>1, <2>2
  <1>7. NodeTypes' /\ AllComplete(queue, blocks)' /\ BansAreForMissingSeeds'
    BY <1>4, <1>6 DEF OnBlockResponse, IInv, NodeTypes, cacheVars, BansAreForMissingSeeds
  <1> QED
    BY <1>5, <1>6, <1>7 DEF IInv

LEMMA OnBlockBroadcastStep ==
    ASSUME IInv, NEW p \in Peer, link[p].in # <<>>, OnBlockBroadcast(p)
    PROVE  IInv'
  <1> DEFINE l == link[p]
             q == peer[p]
             msg == Head(l.in)
  <1>1. /\ Pair(l, q, blocks) /\ l.in # <<>> /\ msg.type = "BLOCK_BROADCAST" /\ blocks' = blocks
        /\ Deserialize(msg)
    BY DEF IInv, Linked, OnBlockBroadcast
  <1> DEFINE m == [l EXCEPT !.in = Tail(@), !.ring = Recorded(@, msg.id)]
  <1>2. /\ msg.id \in Block /\ msg.pruned \in BOOLEAN /\ Readable(msg, blocks)
        /\ Pair(m, q, blocks)
    BY <1>1, PairNodeBroadcast
  <1>3. /\ Deserialized(msg) /\ look' \in BOOLEAN /\ LastIsGood'
        /\ last' \in [id : Block \cup {0}, pruned : BOOLEAN, ok : BOOLEAN]
    <2> HIDE DEF msg
    <2> QED
      BY <1>1, <1>2, DeserializeStep
  <1>4. /\ Incoming({msg.id}, p, TRUE)
        /\ link' = [link EXCEPT ![p].in = Tail(@), ![p].ring = Recorded(@, msg.id)]
        /\ peer' = peer /\ bans' = bans
    BY <1>3 DEF OnBlockBroadcast
  <1>5. link' = [link EXCEPT ![p] = m]
    BY <1>4 DEF IInv, Linked
  <1> HIDE DEF m
  <1>6. Linked'
    BY <1>1, <1>2, <1>4, <1>5, LinkedOnly DEF IInv
  <1>7. seen' \subseteq Block /\ work' \subseteq Work /\ SeenMeansHere'
    <2> HIDE DEF msg
    <2> QED
      BY <1>1, <1>2, <1>4, IncomingStep
  <1>8. NodeTypes' /\ AllComplete(queue, blocks)' /\ BansAreForMissingSeeds'
    BY <1>3, <1>4, <1>7 DEF OnBlockBroadcast, IInv, NodeTypes, cacheVars, BansAreForMissingSeeds
  <1> QED
    BY <1>3, <1>6, <1>7, <1>8 DEF IInv

LEMMA AddExternalBlockStep ==
    ASSUME IInv, NEW w \in work, AddExternalBlock(w)
    PROVE  IInv'
  <1> DEFINE v == [w EXCEPT !.added = TRUE,
                            !.missing = IF w.id \in blocks THEN {} ELSE Anc[w.id] \ blocks]
  <1>1. w \in Work /\ w.id \in Block /\ w.relay \in BOOLEAN /\ ~w.added
    BY DEF IInv, NodeTypes, Work, AddExternalBlock
  <1>2. Anc[w.id] \subseteq Block
    BY <1>1, BelowEquation
  <1>3. v \in Work
    BY <1>1, <1>2 DEF Work
  <1>4. work' = (work \ {w}) \cup {v} /\ AddBlock(w.id, w.relay)
    BY DEF AddExternalBlock
  <1>5. /\ blocks' = blocks \cup {w.id} /\ blocks' \subseteq Block /\ want' \subseteq blocks'
        /\ queue' \in Seq(Block) /\ AllComplete(queue', blocks')
        /\ disk' \in [0 .. CacheSize - 1 -> Block \cup {0}] /\ storeIndex' \in Nat
    BY <1>1, <1>4, AddBlockStep
  <1> HIDE DEF v
  <1>6. work' \subseteq Work
    BY <1>3, <1>4 DEF IInv, NodeTypes
  <1>7. SeenMeansHere'
    <2>1. ASSUME NEW b \in seen PROVE b \in blocks' \/ \E u \in work' : u.id = b /\ ~u.added
      <3>1. CASE b \in blocks
        BY <1>5, <3>1
      <3>2. CASE b \notin blocks
        <4>1. PICK u \in work : u.id = b /\ ~u.added
          BY <3>2 DEF IInv, SeenMeansHere
        <4>2. CASE u = w
          BY <1>5, <4>1, <4>2
        <4>3. CASE u # w
          BY <1>4, <4>1, <4>3
        <4> QED
          BY <4>2, <4>3
      <3> QED
        BY <3>1, <3>2
    <2> QED
      BY <2>1 DEF SeenMeansHere, AddExternalBlock
  <1>8. Linked'
    BY <1>5, LinkedStays DEF IInv, AddExternalBlock
  <1>9. NodeTypes' /\ LastIsGood' /\ BansAreForMissingSeeds'
    BY <1>5, <1>6 DEF AddExternalBlock, IInv, NodeTypes, LastIsGood, BansAreForMissingSeeds
  <1> QED
    BY <1>5, <1>7, <1>8, <1>9 DEF IInv

\* A block that could not be checked leaves m_seenBlocks and its job ends
LEMMA Forgotten ==
    ASSUME IInv, NEW w \in work, ~w.added, work' = (work \ {w}) \cup {[w EXCEPT !.added = TRUE]},
           seen' = seen \ {w.id}, blocks' = blocks
    PROVE  work' \subseteq Work /\ seen' \subseteq Block /\ SeenMeansHere'
  <1> DEFINE v == [w EXCEPT !.added = TRUE]
  <1>1. w \in Work
    BY DEF IInv, NodeTypes
  <1>2. v \in Work
    BY <1>1 DEF Work
  <1>3. work' = (work \ {w}) \cup {v}
    OBVIOUS
  <1> HIDE DEF v
  <1>4. work' \subseteq Work /\ seen' \subseteq Block
    BY <1>2, <1>3 DEF IInv, NodeTypes
  <1>5. ASSUME NEW b \in seen' PROVE b \in blocks' \/ \E u \in work' : u.id = b /\ ~u.added
    <2>1. b \in seen /\ b # w.id
      OBVIOUS
    <2>2. CASE b \in blocks
      BY <2>2
    <2>3. CASE b \notin blocks
      <3>1. PICK u \in work : u.id = b /\ ~u.added
        BY <2>1, <2>3 DEF IInv, SeenMeansHere
      <3> QED
        BY <1>3, <2>1, <3>1
    <2> QED
      BY <2>2, <2>3
  <1> QED
    BY <1>4, <1>5 DEF SeenMeansHere

LEMMA HashFailsStep ==
    ASSUME IInv, NEW w \in work, HashFails(w)
    PROVE  IInv'
  <1>1. work' \subseteq Work /\ seen' \subseteq Block /\ SeenMeansHere'
    BY Forgotten DEF HashFails
  <1>2. left' \in [faults : Nat, crashes : Nat, broken : BOOLEAN]
    BY FaultTypes DEF HashFails
  <1>3. Linked'
    BY LinkedStays DEF IInv, HashFails
  <1>4. NodeTypes' /\ AllComplete(queue, blocks)' /\ LastIsGood' /\ BansAreForMissingSeeds'
    BY <1>1, <1>2 DEF HashFails, IInv, NodeTypes, cacheVars, LastIsGood, BansAreForMissingSeeds
  <1> QED
    BY <1>1, <1>3, <1>4 DEF IInv

\* The connection is closed only if it is still the one on which the block came
LEMMA SeedMissingStep ==
    ASSUME IInv, NEW w \in work, SeedMissing(w)
    PROVE  IInv'
  <1>1. work' \subseteq Work /\ seen' \subseteq Block /\ SeenMeansHere'
    BY Forgotten DEF SeedMissing
  <1>2. left' \in [faults : Nat, crashes : Nat, broken : BOOLEAN]
    BY FaultTypes DEF SeedMissing
  <1>3. Linked'
    <2>1. w.peer \in Peer /\ blocks' = blocks
      BY DEF IInv, NodeTypes, Work, SeedMissing
    <2>2. CASE Close(w.peer)
      BY <2>1, <2>2, CloseStep
    <2>3. CASE UNCHANGED <<link, peer>>
      BY <2>1, <2>3, LinkedStays DEF IInv
    <2> QED
      BY <2>2, <2>3 DEF SeedMissing
  <1>4. NodeTypes' /\ AllComplete(queue, blocks)' /\ LastIsGood'
    BY <1>1, <1>2 DEF SeedMissing, IInv, NodeTypes, cacheVars, LastIsGood
  <1>5. BansAreForMissingSeeds'
    BY DEF SeedMissing, IInv, BansAreForMissingSeeds
  <1> QED
    BY <1>1, <1>3, <1>4, <1>5 DEF IInv

LEMMA AskStep ==
    ASSUME Linked, NEW ids \in [Peer -> SUBSET Block], Ask(ids), peer' = peer, blocks' = blocks
    PROVE  Linked'
  <1> DEFINE m(p) == [link[p] EXCEPT !.out = @ \o Requests(ids[p]),
                                     !.pending = @ + Cardinality(ids[p])]
  <1>1. \A p \in Peer : Pair(m(p), peer[p], blocks)
    BY PairAsk DEF Linked
  <1>2. link' = [p \in Peer |-> m(p)]
    BY DEF Ask
  <1> HIDE DEF m
  <1>3. \A p \in Peer : m(p) \in Link
    BY <1>1 DEF Pair
  <1> QED
    BY <1>1, <1>2, <1>3 DEF Linked

LEMMA PostHandleIncomingBlockStep ==
    ASSUME IInv, NEW w \in work, PostHandleIncomingBlock(w)
    PROVE  IInv'
  <1>1. w \in Work /\ w.added /\ w.missing \in SUBSET Block
    BY DEF IInv, NodeTypes, Work, PostHandleIncomingBlock
  <1>2. Linked' /\ seen' \subseteq Block /\ work' \subseteq Work /\ SeenMeansHere'
    <2>1. CASE work' = work \ {w} /\ UNCHANGED <<seen, link>>
      <3>1. Linked'
        BY <2>1, LinkedStays DEF IInv, PostHandleIncomingBlock
      <3>2. SeenMeansHere'
        BY <1>1, <2>1 DEF IInv, SeenMeansHere, PostHandleIncomingBlock
      <3> QED
        BY <2>1, <3>1, <3>2 DEF IInv, NodeTypes
    <2>2. ASSUME NEW fastest \in Up,
             Ask([p \in Peer |-> IF p \in {fastest, w.peer} THEN w.missing \ cached ELSE {}]),
             seen' = seen \cup (w.missing \cap cached),
             work' = (work \ {w}) \cup
                 {[id |-> b, relay |-> FALSE, peer |-> fastest,
                   resets |-> link[fastest].resets, added |-> FALSE,
                   missing |-> {}] : b \in (w.missing \cap cached) \ seen}
          PROVE  Linked' /\ seen' \subseteq Block /\ work' \subseteq Work /\ SeenMeansHere'
      <3> DEFINE ids == [p \in Peer |-> IF p \in {fastest, w.peer} THEN w.missing \ cached ELSE {}]
                 rec(b) == [id |-> b, relay |-> FALSE, peer |-> fastest,
                            resets |-> link[fastest].resets, added |-> FALSE, missing |-> {}]
                 here == w.missing \cap cached
                 new == {rec(b) : b \in here \ seen}
      <3>1. ids \in [Peer -> SUBSET Block]
        BY <1>1
      <3>2. fastest \in Peer /\ link[fastest].resets \in Nat
        BY DEF Up, IInv, Linked, Link
      <3>3. \A b \in Block : rec(b) \in Work /\ rec(b).id = b /\ ~rec(b).added
        BY <3>2 DEF Work
      <3>4. Ask(ids) /\ peer' = peer /\ blocks' = blocks
        BY <2>2 DEF PostHandleIncomingBlock
      <3>5. here \in SUBSET Block
        BY <1>1
      <3>6. seen' = seen \cup here /\ work' = (work \ {w}) \cup new
        BY <2>2
      <3> HIDE DEF ids, rec, here
      <3>7. Linked'
        BY <3>1, <3>4, AskStep DEF IInv
      <3>8. new \in SUBSET Work /\ \A b \in here \ seen : \E u \in new : u.id = b /\ ~u.added
        BY <3>3, <3>5
      <3> HIDE DEF new
      <3>9. work \ {w} \in SUBSET work /\ \A u \in work \ (work \ {w}) : u.added
        BY <1>1
      <3>10. seen' \subseteq Block /\ work' \subseteq Work /\ SeenMeansHere'
        BY <3>4, <3>5, <3>6, <3>8, <3>9, HandedOver
      <3> QED
        BY <3>7, <3>10
    <2> QED
      BY <2>1, <2>2 DEF PostHandleIncomingBlock
  <1>3. NodeTypes' /\ AllComplete(queue, blocks)' /\ LastIsGood' /\ BansAreForMissingSeeds'
    BY <1>2
       DEF PostHandleIncomingBlock, IInv, NodeTypes, cacheVars, LastIsGood, BansAreForMissingSeeds
  <1> QED
    BY <1>2, <1>3 DEF IInv

LEMMA DownloadMissingBlocksStep ==
    ASSUME IInv, NEW client \in [MissingBlocks -> Up], DownloadMissingBlocks(client)
    PROVE  IInv'
  <1> DEFINE ids(p) == {b \in MissingBlocks : client[b] = p /\ ~AskedBefore(p, b)}
             here == {x \in (Peer \X cached) : x[2] \in ids(x[1])}
             rec(x) == [id |-> x[2], relay |-> FALSE, peer |-> x[1],
                        resets |-> link[x[1]].resets, added |-> FALSE, missing |-> {}]
             new == {rec(x) : x \in {y \in here : y[2] \notin seen}}
             got == {x[2] : x \in here}
             ask == [p \in Peer |-> ids(p) \ cached]
  <1>1. MissingBlocks \subseteq Block
    <2>1. \A b \in blocks : Anc[b] \subseteq Block
      BY BelowEquation DEF IInv, NodeTypes
    <2> QED
      BY <2>1 DEF MissingBlocks
  <1>2. /\ asked' = asked \cup {<<client[b], b>> : b \in MissingBlocks} /\ Ask(ask)
        /\ seen' = seen \cup got /\ work' = work \cup new
        /\ peer' = peer /\ blocks' = blocks
    BY DEF DownloadMissingBlocks
  <1>3. \A p \in Peer : ids(p) \subseteq Block
    BY <1>1
  <1>4. ask \in [Peer -> SUBSET Block]
    BY <1>3
  <1>5. ASSUME NEW x \in Peer \X cached
        PROVE  x[2] \in Block /\ rec(x) \in Work /\ rec(x).id = x[2] /\ ~rec(x).added
    <2>1. x[1] \in Peer /\ x[2] \in Block /\ link[x[1]].resets \in Nat
      BY DEF IInv, NodeTypes, Linked, Link
    <2> QED
      BY <2>1 DEF Work
  <1>6. asked' \subseteq Peer \X Block
    <2>1. \A b \in MissingBlocks : client[b] \in Peer
      BY DEF Up
    <2> QED
      BY <1>1, <1>2, <2>1 DEF IInv, NodeTypes
  <1> HIDE DEF ask, ids, rec
  <1>7. Linked'
    BY <1>2, <1>4, AskStep DEF IInv
  <1>8. /\ got \in SUBSET Block /\ new \in SUBSET Work
        /\ \A b \in got \ seen : \E u \in new : u.id = b /\ ~u.added
    BY <1>5
  <1> HIDE DEF got, new
  <1>9. work \in SUBSET work /\ \A u \in work \ work : u.added
    OBVIOUS
  <1>10. seen' \subseteq Block /\ work' \subseteq Work /\ SeenMeansHere'
    BY <1>2, <1>8, <1>9, HandedOver
  <1>11. NodeTypes' /\ AllComplete(queue, blocks)' /\ LastIsGood' /\ BansAreForMissingSeeds'
    BY <1>6, <1>10
       DEF DownloadMissingBlocks, IInv, NodeTypes, cacheVars, LastIsGood, BansAreForMissingSeeds
  <1> QED
    BY <1>7, <1>10, <1>11 DEF IInv

LEMMA OnBroadcastStep ==
    ASSUME IInv, OnBroadcast
    PROVE  IInv'
  <1> DEFINE m(p) == [link[p] EXCEPT !.out = @ \o Broadcasts(queue, link[p].ring)]
             n(p) == IF link[p].up THEN m(p) ELSE link[p]
  <1>1. \A p \in Peer : Pair(m(p), peer[p], blocks)
    BY PairQueue DEF IInv, NodeTypes, Linked
  <1>2. link' = [p \in Peer |-> n(p)] /\ peer' = peer /\ blocks' = blocks
    BY DEF OnBroadcast
  <1> HIDE DEF m
  <1>3. \A p \in Peer : Pair(n(p), peer[p], blocks)
    BY <1>1 DEF IInv, Linked
  <1> HIDE DEF n
  <1>4. \A p \in Peer : n(p) \in Link
    BY <1>3 DEF Pair
  <1>5. Linked'
    BY <1>2, <1>3, <1>4 DEF IInv, Linked
  <1>6. queue' = <<>> /\ queue' \in Seq(Block)
    BY DEF OnBroadcast
  <1>7. AllComplete(queue, blocks)'
    BY <1>6 DEF AllComplete
  <1>8. NodeTypes' /\ LastIsGood' /\ SeenMeansHere' /\ BansAreForMissingSeeds'
    BY <1>6
       DEF OnBroadcast, IInv, NodeTypes, cacheVars, LastIsGood, SeenMeansHere,
           BansAreForMissingSeeds
  <1> QED
    BY <1>5, <1>7, <1>8 DEF IInv

LEMMA SubmitOwnBlockStep ==
    ASSUME IInv, NEW id \in Block, SubmitOwnBlock(id)
    PROVE  IInv'
  <1>1. AddBlock(id, TRUE)
    BY DEF SubmitOwnBlock
  <1>2. /\ blocks' = blocks \cup {id} /\ blocks' \subseteq Block /\ want' \subseteq blocks'
        /\ queue' \in Seq(Block) /\ AllComplete(queue', blocks')
        /\ disk' \in [0 .. CacheSize - 1 -> Block \cup {0}] /\ storeIndex' \in Nat
    BY <1>1, AddBlockStep
  <1>3. Linked'
    BY <1>2, LinkedStays DEF IInv, SubmitOwnBlock
  <1>4. SeenMeansHere'
    BY <1>2 DEF IInv, SeenMeansHere, SubmitOwnBlock
  <1>5. NodeTypes' /\ LastIsGood' /\ BansAreForMissingSeeds'
    BY <1>2 DEF SubmitOwnBlock, IInv, NodeTypes, LastIsGood, BansAreForMissingSeeds
  <1> QED
    BY <1>2, <1>3, <1>4, <1>5 DEF IInv

\* A connection does not survive the process: what the rings and the messages say of the
\* blocks of this node is gone with its blocks
LEMMA CrashStep ==
    ASSUME IInv, Crash
    PROVE  IInv'
  <1>1. disk' \in [0 .. CacheSize - 1 -> Block \cup {0}]
    BY DEF Crash, IInv, NodeTypes
  <1>2. cached' \subseteq Block
    BY <1>1 DEF Crash, Loaded
  <1>3. left' \in [faults : Nat, crashes : Nat, broken : BOOLEAN]
    <2>1. left \in [faults : Nat, crashes : Nat, broken : BOOLEAN] /\ left.crashes > 0
          /\ left' = [left EXCEPT !.crashes = @ - 1]
      BY DEF Crash, IInv, NodeTypes
    <2>2. left.crashes - 1 \in Nat
      BY <2>1
    <2> QED
      BY <2>1, <2>2
  <1>4. queue' = <<>> /\ queue' \in Seq(Block)
    BY DEF Crash
  <1>5. last' = [id |-> 0, pruned |-> FALSE, ok |-> FALSE]
        /\ last' \in [id : Block \cup {0}, pruned : BOOLEAN, ok : BOOLEAN]
    BY DEF Crash
  <1>6. NodeTypes'
    BY <1>1, <1>2, <1>3, <1>4, <1>5 DEF Crash, IInv, NodeTypes
  <1>7. Linked'
    <2>1. \A p \in Peer : Pair(NoLink(0), PeerClosed(peer[p]), blocks')
      BY PairClosed DEF IInv, Linked
    <2>2. \A p \in Peer : NoLink(0) \in Link /\ PeerClosed(peer[p]) \in PeerNode
      BY <2>1 DEF Pair
    <2>3. link' = [p \in Peer |-> NoLink(0)] /\ peer' = [p \in Peer |-> PeerClosed(peer[p])]
      BY DEF Crash
    <2> QED
      BY <2>1, <2>2, <2>3 DEF Linked
  <1>8. AllComplete(queue, blocks)'
    BY <1>4 DEF AllComplete
  <1>9. LastIsGood' /\ SeenMeansHere' /\ BansAreForMissingSeeds'
    BY <1>5 DEF Crash, IInv, LastIsGood, SeenMeansHere, BansAreForMissingSeeds
  <1> QED
    BY <1>6, <1>7, <1>8, <1>9 DEF IInv

LEMMA NextInvariant ==
    ASSUME IInv, [Next]_vars
    PROVE  IInv'
  <1>1. ASSUME NEW p \in Peer, OnRead(p) PROVE IInv'
    BY <1>1, OnBlockRequestStep, OnBlockResponseStep, OnBlockBroadcastStep DEF OnRead
  <1>2. CASE NothingMissing
    <2>1. Linked'
      BY <1>2, LinkedStays DEF IInv, NothingMissing
    <2>2. NodeTypes' /\ AllComplete(queue, blocks)' /\ LastIsGood' /\ SeenMeansHere'
          /\ BansAreForMissingSeeds'
      BY <1>2 DEF NothingMissing, IInv, NodeTypes, cacheVars, LastIsGood, SeenMeansHere,
                  BansAreForMissingSeeds
    <2> QED
      BY <2>1, <2>2 DEF IInv
  <1>3. CASE ClearCachedBlocks
    <2>1. Linked'
      BY <1>3, LinkedStays DEF IInv, ClearCachedBlocks, nodeVars
    <2>2. NodeTypes' /\ AllComplete(queue, blocks)' /\ LastIsGood' /\ SeenMeansHere'
          /\ BansAreForMissingSeeds'
      BY <1>3 DEF ClearCachedBlocks, IInv, NodeTypes, nodeVars, LastIsGood, SeenMeansHere,
                  BansAreForMissingSeeds
    <2> QED
      BY <2>1, <2>2 DEF IInv
  <1>4. CASE UNCHANGED vars
    <2>1. Linked'
      BY <1>4, LinkedStays DEF IInv, vars, nodeVars
    <2>2. NodeTypes' /\ AllComplete(queue, blocks)' /\ LastIsGood' /\ SeenMeansHere'
          /\ BansAreForMissingSeeds'
      BY <1>4 DEF vars, IInv, NodeTypes, nodeVars, cacheVars, LastIsGood, SeenMeansHere,
                  BansAreForMissingSeeds
    <2> QED
      BY <2>1, <2>2 DEF IInv
  <1> QED
    BY <1>1, <1>2, <1>3, <1>4, ConnectStep, DropStep, PeerReadsStep, PeerLacksSeedStep,
       PeerGetsStep, AddExternalBlockStep, HashFailsStep, SeedMissingStep,
       PostHandleIncomingBlockStep,
       DownloadMissingBlocksStep, OnBroadcastStep, SubmitOwnBlockStep, CrashStep DEF Next

LEMMA SyncInvariant == Spec => []IInv
  <1>1. Init => IInv
    BY InitInvariant
  <1>2. IInv /\ [Next]_vars => IInv'
    BY NextInvariant
  <1> QED
    BY <1>1, <1>2, PTL DEF Spec

\* The protocol for blocks needs no forgiveness: nodes that follow it never send a response
\* nobody asked for, and never a pruned block whose reader lacks a block below it, so on_read
\* never fails.  The one ban there is comes from handle_incoming_block, when the seed of a
\* block is not known, and no other ban follows from it
THEOREM OnlyMissingSeedsBan == Spec => []BansAreForMissingSeeds
  <1>1. IInv => BansAreForMissingSeeds
    BY DEF IInv
  <1> QED
    BY <1>1, SyncInvariant, PTL

\* What m_seenBlocks makes a node skip is stored or will be, whoever sent the block, whether
\* its hash could be calculated or not, and after a restart
THEOREM SeenBlocksAreHere == Spec => []SeenMeansHere
  <1>1. IInv => SeenMeansHere
    BY DEF IInv
  <1> QED
    BY <1>1, SyncInvariant, PTL

=============================================================================
