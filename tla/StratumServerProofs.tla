------------------------- MODULE StratumServerProofs -------------------------
(***************************************************************************)
(* What StratumServer promises its miners, for any number of clients, jobs *)
(* and templates that are kept, and any behaviour of the miners; before it *)
(* the ring of old templates that the server's jobs refer to.              *)
(***************************************************************************)
EXTENDS StratumServer, FiniteSetTheorems, SequenceTheorems, TLAPS

-----------------------------------------------------------------------------
(* The ring of old templates is a sliding window: for any size of the ring *)
(* BlockTemplate can be asked for the current template and for exactly     *)
(* that many before it, as TemplateHistory says.                           *)


\* Every template in the ring is where its ID says and is one of the last, and each of
\* the last ones is there
RingInv ==
    /\ \A i \in 0 .. OldTemplates - 1 :
          oldTemplates[i] # 0 =>
              Slot(oldTemplates[i]) = i /\ oldTemplates[i] + OldTemplates >= templateId
    /\ \A id \in 1 .. templateId - 1 :
          id + OldTemplates >= templateId => oldTemplates[Slot(id)] = id

\* The IDs that can be asked for
Window == {id \in 1 .. templateId : id + OldTemplates >= templateId}

-----------------------------------------------------------------------------
(* Remainders                                                              *)

LEMMA SmallMultiple ==
    ASSUME NEW n \in Nat \ {0}, NEW d \in Int, n * d < n, 0 - n < n * d
    PROVE  d = 0
  <1>1. CASE d >= 1
    <2>1. PICK e \in Nat : d = e + 1
      <3>1. d - 1 \in Nat
        BY <1>1
      <3> QED
        BY <3>1
    <2>2. n * d = n * e + n /\ n * e >= 0
      BY <2>1
    <2> QED
      BY <2>2
  <1>2. CASE d <= -1
    <2>1. PICK e \in Nat : d = -1 - e
      <3>1. -1 - d \in Nat
        BY <1>2
      <3> QED
        BY <3>1
    <2>2. n * d = -(n * e) - n /\ n * e >= 0
      BY <2>1
    <2> QED
      BY <2>2
  <1> QED
    BY <1>1, <1>2

LEMMA ModRange == ASSUME NEW n \in Nat \ {0}, NEW a \in Nat PROVE a % n \in 0 .. n - 1
  OBVIOUS

LEMMA DivMod ==
    ASSUME NEW n \in Nat \ {0}, NEW a \in Nat
    PROVE  \E q \in Nat, r \in 0 .. n - 1 : a = n * q + r /\ a % n = r
  <1> DEFINE q == a \div n
             r == a % n
  <1>1. a % n = a - (a \div n) * n
    OBVIOUS
  <1>2. a \div n \in Nat
    OBVIOUS
  <1>3. a % n \in 0 .. n - 1
    OBVIOUS
  <1>4. q \in Nat /\ r \in 0 .. n - 1 /\ r = a - q * n /\ a % n = r
    BY <1>1, <1>2, <1>3
  <1> HIDE DEF q, r
  <1>5. q \in Nat /\ r \in 0 .. n - 1 /\ a = n * q + r
    BY <1>4
  <1> QED
    BY ONLY <1>4, <1>5, Zenon

LEMMA SameMod ==
    ASSUME NEW n \in Nat \ {0}, NEW a \in Nat, NEW b \in Nat, a < b, b < a + n
    PROVE  a % n # b % n
  <1> SUFFICES ASSUME a % n = b % n PROVE FALSE
    OBVIOUS
  <1>1. PICK p \in Nat, r \in 0 .. n - 1 : a = n * p + r /\ a % n = r
    BY DivMod
  <1>2. PICK q \in Nat, s \in 0 .. n - 1 : b = n * q + s /\ b % n = s
    BY DivMod
  <1>3. b - a = n * (q - p)
    <2>1. r = s
      BY <1>1, <1>2, Zenon
    <2> QED
      BY <2>1, <1>1, <1>2
  <1>4. q - p = 0
    BY <1>3, SmallMultiple
  <1> QED
    BY <1>3, <1>4

LEMMA AddMod == ASSUME NEW n \in Nat \ {0}, NEW a \in Nat PROVE (a + n) % n = a % n
  <1>1. PICK p \in Nat, r \in 0 .. n - 1 : a = n * p + r /\ a % n = r
    BY DivMod
  <1>2. PICK q \in Nat, s \in 0 .. n - 1 : a + n = n * q + s /\ (a + n) % n = s
    <2>1. a + n \in Nat
      OBVIOUS
    <2> QED
      BY <2>1, DivMod
  <1>3. n * (q - p - 1) = r - s
    BY <1>1, <1>2
  <1>4. q - p - 1 = 0
    BY <1>3, SmallMultiple
  <1>5. r = s
    BY <1>3, <1>4
  <1> QED
    BY <1>1, <1>2, <1>5, Zenon

LEMMA SlotType ==
    ASSUME NEW id \in Nat
    PROVE  Slot(id) \in 0 .. OldTemplates - 1
  BY TemplateAssumption DEF Slot

-----------------------------------------------------------------------------
(* The ring                                                                *)

LEMMA RingInit == TemplateInit => TemplateTypeOK /\ RingInv
  <1> SUFFICES ASSUME TemplateInit PROVE TemplateTypeOK /\ RingInv
    OBVIOUS
  <1> QED
    BY TemplateAssumption DEF TemplateInit, TemplateTypeOK, RingInv

LEMMA RingUpdate ==
    ASSUME TemplateTypeOK, RingInv, Update
    PROVE  TemplateTypeOK' /\ RingInv'
  <1> DEFINE N == OldTemplates
             t == templateId
  <1>1. N \in Nat \ {0} /\ t \in Nat \ {0} /\ Slot(t) \in 0 .. N - 1
    BY TemplateAssumption, SlotType DEF TemplateTypeOK
  <1>2. templateId' = t + 1 /\ oldTemplates' = [oldTemplates EXCEPT ![Slot(t)] = t]
    BY DEF Update
  <1>3. TemplateTypeOK'
    BY <1>1, <1>2 DEF TemplateTypeOK, Update
  <1>4. ASSUME NEW i \in 0 .. N - 1, oldTemplates'[i] # 0
        PROVE  Slot(oldTemplates'[i]) = i /\ oldTemplates'[i] + N >= t + 1
    <2>1. CASE i = Slot(t)
      <3>1. oldTemplates'[i] = t
        BY <1>1, <1>2, <2>1 DEF TemplateTypeOK
      <3> QED
        BY <1>1, <2>1, <3>1
    <2>2. CASE i # Slot(t)
      <3> DEFINE o == oldTemplates[i]
      <3>1. oldTemplates'[i] = o
        BY <1>1, <1>2, <2>2 DEF TemplateTypeOK
      <3>2. o \in Nat /\ o # 0 /\ Slot(o) = i /\ o + N >= t
        BY <1>1, <1>4, <3>1 DEF TemplateTypeOK, RingInv
      <3> HIDE DEF o
      <3>3. o + N # t
        <4>1. (o + N) % N = o % N
          BY <1>1, <3>2, AddMod
        <4> QED
          BY <2>2, <3>2, <4>1 DEF Slot
      <3>4. o + N >= t + 1
        BY <1>1, <3>2, <3>3
      <3> QED
        BY <3>1, <3>2, <3>4
    <2> QED
      BY <2>1, <2>2
  <1>5. ASSUME NEW id \in 1 .. t, id + N >= t + 1
        PROVE  oldTemplates'[Slot(id)] = id
    <2>1. id \in Nat /\ Slot(id) \in 0 .. N - 1
      BY <1>1, SlotType
    <2>2. CASE id = t
      BY <1>1, <1>2, <2>2 DEF TemplateTypeOK
    <2>3. CASE id # t
      <3>1. id < t /\ t < id + N
        BY <1>1, <1>5, <2>3
      <3>2. Slot(id) # Slot(t)
        BY <1>1, <2>1, <3>1, SameMod DEF Slot
      <3>3. oldTemplates[Slot(id)] = id
        BY <1>1, <3>1 DEF RingInv
      <3> QED
        BY <1>1, <1>2, <2>1, <3>2, <3>3 DEF TemplateTypeOK
    <2> QED
      BY <2>2, <2>3
  <1>6. RingInv'
    BY <1>1, <1>2, <1>4, <1>5 DEF RingInv
  <1> QED
    BY <1>3, <1>6

\* What can be asked for
LEMMA AvailableIsWindow ==
    ASSUME TemplateTypeOK, RingInv, NEW id \in 1 .. templateId
    PROVE  /\ Available(id) <=> id + OldTemplates >= templateId
           /\ Available(id) => Found(id) = id
  <1>0. OldTemplates \in Nat \ {0} /\ templateId \in Nat \ {0} /\ id \in Nat
    BY TemplateAssumption DEF TemplateTypeOK
  <1>1. Slot(id) \in 0 .. OldTemplates - 1
    BY <1>0, SlotType
  <1>2. CASE id = templateId
    BY <1>0, <1>1, <1>2 DEF Available, Found
  <1>3. CASE id # templateId
    BY <1>0, <1>1, <1>3 DEF Available, Found, RingInv
  <1> QED
    BY <1>2, <1>3

LEMMA KnownIsWindow ==
    TemplateTypeOK /\ RingInv => {id \in 1 .. templateId : Available(id)} = Window
  BY AvailableIsWindow DEF Window

-----------------------------------------------------------------------------
(* The refinement                                                          *)

LEMMA HistoryInit ==
    ASSUME TemplateInit
    PROVE  History!Init
  <1>1. {id \in 1 .. templateId : Available(id)} = Window
    BY RingInit, KnownIsWindow
  <1>2. Window = {1}
    BY TemplateAssumption DEF TemplateInit, Window
  <1> QED
    BY <1>1, <1>2 DEF History!Init, TemplateInit

LEMMA HistoryStep ==
    ASSUME TemplateTypeOK, RingInv, Update
    PROVE  History!Next
  <1>1. {id \in 1 .. templateId : Available(id)} = Window
    BY KnownIsWindow
  <1>2. {id \in 1 .. templateId : Available(id)}' = Window'
    <2>1. TemplateTypeOK' /\ RingInv'
      BY RingUpdate
    <2>2. ({id \in 1 .. templateId : Available(id)} = Window)'
      BY <2>1, KnownIsWindow, PTL
    <2> QED
      BY <2>2
  <1>3. Window' = {id \in Window \cup {templateId'} : id + OldTemplates >= templateId'}
    BY TemplateAssumption DEF Update, TemplateTypeOK, Window
  <1> QED
    BY <1>1, <1>2, <1>3 DEF History!Next, Update

LEMMA HistoryStutter ==
    ASSUME UNCHANGED <<templateId, oldTemplates>>
    PROVE  UNCHANGED <<templateId, {id \in 1 .. templateId : Available(id)}>>
  BY DEF Available

-----------------------------------------------------------------------------
(* The server                                                              *)

Distinct(s) == \A i, j \in 1 .. Len(s) : s[i] = s[j] => i = j

\* A Client is in the list or free, once
ListInv ==
    /\ Distinct(list) /\ Distinct(free)
    /\ \A c \in Client : /\ client[c].at = "free" <=> c \in ToSet(free)
                         /\ client[c].at # "free" <=> c \in ToSet(list)

\* A job that a miner was sent is in its Client's ring, or another job took its place;
\* the jobs in the ring and the waiting blobs are of templates that were made
JobInv ==
    /\ \A c \in Client :
          /\ \A j \in work[c] :
                /\ j.id \in 1 .. client[c].jobId
                /\ JobFound(c, j.id) => client[c].jobs[j.id % JobsSize] = j
          /\ \A i \in 0 .. JobsSize - 1 :
                client[c].jobs[i].id # 0 => client[c].jobs[i].template \in 1 .. templateId
    /\ \A i \in 1 .. Len(blobs) : blobs[i].template \in 1 .. templateId

\* A share is for a template that was made, for the work its miner did unless it is fake,
\* and its Client is still used by its miner, or was reset
ShareInv ==
    \A s \in shares :
        /\ s.template \in 1 .. templateId
        /\ s.kind = "good" => s.work = <<s.template, s.nonce>>
        /\ s.kind = "fake" => s.miner \in offended /\ s.miner \notin Honest
        /\ s.result = "invalid" => s.kind = "fake"
        /\ s.resets <= client[s.client].resets
        /\ s.resets = client[s.client].resets =>
              client[s.client].at # "free" /\ client[s.client].miner = s.miner

\* With e for the next one, an extra nonce was given or taken before
Given(e, nonce) == nonce[1] < e[1] \/ (nonce[1] = e[1] /\ nonce[2] < e[2])

\* The extra nonces of blob were taken by an on_block before the one of m
Reserved(e, m, blob) ==
    \/ blob.range < e[1]
    \/ blob.range = e[1] /\ blob.n <= e[2] /\ m.at # "ranged"

\* None of the first n extra nonces after the r-th start is in a job of w
Unused(w, r, n) == \A c \in Client : \A j \in w[c] : ~(j.nonce[1] = r /\ j.nonce[2] < n)

\* The extra nonces that on_block took are not used before on_blobs_ready
NonceInv ==
    /\ \A c \in Client : \A j \in work[c] : Given(extraNonce, j.nonce)
    /\ \A i \in 1 .. Len(blobs) : /\ Reserved(extraNonce, main, blobs[i])
                                  /\ Unused(work, blobs[i].range, blobs[i].n)
    /\ main.at = "ranged" => main.n <= extraNonce[2] /\ Unused(work, extraNonce[1], main.n)
    /\ wake => blobs # <<>>

-----------------------------------------------------------------------------
(* Lists of clients                                                        *)

LEMMA MembersOfSeq ==
    ASSUME NEW S, NEW s \in Seq(S)
    PROVE  /\ ToSet(s) = {s[i] : i \in 1 .. Len(s)}
           /\ ToSet(s) \subseteq S
  <1>1. DOMAIN s = 1 .. Len(s) /\ \A i \in 1 .. Len(s) : s[i] \in S
    OBVIOUS
  <1> QED
    BY <1>1 DEF ToSet

\* A new first element
LEMMA Pushed ==
    ASSUME NEW S, NEW s \in Seq(S), NEW c \in S, c \notin ToSet(s), Distinct(s)
    PROVE  /\ <<c>> \o s \in Seq(S) /\ Distinct(<<c>> \o s)
           /\ ToSet(<<c>> \o s) = ToSet(s) \cup {c}
  <1> DEFINE t == <<c>> \o s
  <1>1. <<c>> \in Seq(S) /\ Len(<<c>>) = 1 /\ <<c>>[1] = c /\ Len(s) \in Nat
    OBVIOUS
  <1>2. t \in Seq(S) /\ Len(t) = 1 + Len(s)
        /\ \A i \in 1 .. 1 + Len(s) : t[i] = IF i <= 1 THEN <<c>>[i] ELSE s[i - 1]
    BY <1>1, ConcatProperties
  <1> HIDE DEF t
  <1>3. t[1] = c /\ \A i \in 1 .. Len(s) : t[i + 1] = s[i]
    BY <1>1, <1>2
  <1>4. \A i \in 1 .. Len(t) : i = 1 \/ (i - 1 \in 1 .. Len(s) /\ t[i] = s[i - 1])
    BY <1>1, <1>2
  <1>5. ToSet(s) = {s[i] : i \in 1 .. Len(s)} /\ ToSet(t) = {t[i] : i \in 1 .. Len(t)}
    BY <1>2, MembersOfSeq
  <1>6. ToSet(t) = ToSet(s) \cup {c}
    <2>1. c \in ToSet(t)
      BY <1>1, <1>2, <1>3, <1>5
    <2>2. \A x \in ToSet(s) : x \in ToSet(t)
      <3> TAKE x \in ToSet(s)
      <3>1. PICK i \in 1 .. Len(s) : x = s[i]
        BY <1>5
      <3>2. i + 1 \in 1 .. Len(t) /\ t[i + 1] = x
        BY <1>1, <1>2, <1>3, <3>1
      <3> QED
        BY <1>5, <3>2
    <2>3. \A x \in ToSet(t) : x \in ToSet(s) \cup {c}
      BY <1>3, <1>4, <1>5
    <2> QED
      BY <2>1, <2>2, <2>3
  <1>7. Distinct(t)
    <2> SUFFICES ASSUME NEW i \in 1 .. Len(t), NEW j \in 1 .. Len(t), t[i] = t[j] PROVE i = j
      BY DEF Distinct
    <2>1. \A k \in 1 .. Len(s) : s[k] # c
      BY <1>5
    <2>2. CASE i = 1
      BY <1>3, <1>4, <2>1, <2>2
    <2>3. CASE j = 1
      BY <1>3, <1>4, <2>1, <2>3
    <2>4. CASE i # 1 /\ j # 1
      <3>1. i - 1 \in 1 .. Len(s) /\ j - 1 \in 1 .. Len(s) /\ s[i - 1] = s[j - 1]
        BY <1>4, <2>4
      <3>2. i - 1 = j - 1
        BY <3>1 DEF Distinct
      <3> QED
        BY <3>2
    <2> QED
      BY <2>2, <2>3, <2>4
  <1> QED
    BY <1>2, <1>6, <1>7 DEF t

\* The first element is taken
LEMMA Popped ==
    ASSUME NEW S, NEW s \in Seq(S), s # <<>>, Distinct(s)
    PROVE  /\ Head(s) \in S /\ Tail(s) \in Seq(S) /\ Distinct(Tail(s))
           /\ Head(s) \in ToSet(s) /\ ToSet(Tail(s)) = ToSet(s) \ {Head(s)}
  <1> DEFINE t == Tail(s)
  <1>1. Len(s) \in Nat /\ Len(s) >= 1 /\ Head(s) = s[1] /\ Head(s) \in S
    OBVIOUS
  <1>2. t \in Seq(S) /\ Len(t) = Len(s) - 1 /\ \A i \in 1 .. Len(t) : t[i] = s[i + 1]
    BY HeadTailProperties
  <1> HIDE DEF t
  <1>3. ToSet(s) = {s[i] : i \in 1 .. Len(s)} /\ ToSet(t) = {t[i] : i \in 1 .. Len(t)}
    BY <1>2, MembersOfSeq
  <1>4. Head(s) \in ToSet(s)
    BY <1>1, <1>3
  <1>5. ToSet(t) = ToSet(s) \ {Head(s)}
    <2>1. \A x \in ToSet(t) : x \in ToSet(s) /\ x # Head(s)
      <3> TAKE x \in ToSet(t)
      <3>1. PICK i \in 1 .. Len(t) : x = t[i]
        BY <1>3
      <3>2. i + 1 \in 1 .. Len(s) /\ i + 1 # 1 /\ s[i + 1] = x /\ 1 \in 1 .. Len(s)
        BY <1>1, <1>2, <3>1
      <3> QED
        BY <1>1, <1>3, <3>2 DEF Distinct
    <2>2. \A x \in ToSet(s) : x # Head(s) => x \in ToSet(t)
      <3> SUFFICES ASSUME NEW x \in ToSet(s), x # Head(s) PROVE x \in ToSet(t)
        OBVIOUS
      <3>1. PICK i \in 1 .. Len(s) : x = s[i]
        BY <1>3
      <3>2. i - 1 \in 1 .. Len(t) /\ t[i - 1] = x
        BY <1>1, <1>2, <3>1
      <3> QED
        BY <1>3, <3>2
    <2> QED
      BY <2>1, <2>2
  <1>6. Distinct(t)
    BY <1>1, <1>2 DEF Distinct
  <1> QED
    BY <1>1, <1>2, <1>4, <1>5, <1>6 DEF t

\* The element at i is taken out
LEMMA Removed ==
    ASSUME NEW S, NEW s \in Seq(S), NEW k \in 1 .. Len(s), Distinct(s)
    PROVE  /\ RemoveAt(s, k) \in Seq(S) /\ Distinct(RemoveAt(s, k))
           /\ ToSet(RemoveAt(s, k)) = ToSet(s) \ {s[k]}
  <1> DEFINE t == RemoveAt(s, k)
             a == SubSeq(s, 1, k - 1)
             b == SubSeq(s, k + 1, Len(s))
  <1>1. Len(s) \in Nat /\ k \in Nat /\ k >= 1 /\ k <= Len(s)
    OBVIOUS
  <1>2. a \in Seq(S) /\ Len(a) = k - 1 /\ \A i \in 1 .. k - 1 : a[i] = s[i]
    BY <1>1
  <1>3. b \in Seq(S) /\ Len(b) = Len(s) - k /\ \A i \in 1 .. Len(s) - k : b[i] = s[k + i]
    BY <1>1
  <1>4. t = a \o b
    BY DEF RemoveAt
  <1> HIDE DEF t, a, b
  <1>5. t \in Seq(S) /\ Len(t) = Len(s) - 1
        /\ \A i \in 1 .. Len(t) : t[i] = IF i <= k - 1 THEN a[i] ELSE b[i - (k - 1)]
    <2>1. a \o b \in Seq(S) /\ Len(a \o b) = Len(a) + Len(b)
          /\ \A i \in 1 .. Len(a) + Len(b) :
                (a \o b)[i] = IF i <= Len(a) THEN a[i] ELSE b[i - Len(a)]
      BY <1>2, <1>3, ConcatProperties
    <2>2. Len(a) + Len(b) = Len(s) - 1
      BY <1>1, <1>2, <1>3
    <2> QED
      BY ONLY <1>2, <1>4, <2>1, <2>2
  <1>6. \A i \in 1 .. Len(t) : t[i] = IF i < k THEN s[i] ELSE s[i + 1]
    BY <1>1, <1>2, <1>3, <1>5
  <1>7. ToSet(s) = {s[i] : i \in 1 .. Len(s)} /\ ToSet(t) = {t[i] : i \in 1 .. Len(t)}
    BY <1>5, MembersOfSeq
  <1>8. ToSet(t) = ToSet(s) \ {s[k]}
    <2>1. \A x \in ToSet(t) : x \in ToSet(s) /\ x # s[k]
      <3> TAKE x \in ToSet(t)
      <3>1. PICK i \in 1 .. Len(t) : x = t[i]
        BY <1>7
      <3>2. PICK j \in 1 .. Len(s) : j # k /\ x = s[j]
        BY <1>1, <1>5, <1>6, <3>1
      <3> QED
        BY <1>7, <3>2 DEF Distinct
    <2>2. \A x \in ToSet(s) : x # s[k] => x \in ToSet(t)
      <3> SUFFICES ASSUME NEW x \in ToSet(s), x # s[k] PROVE x \in ToSet(t)
        OBVIOUS
      <3>1. PICK j \in 1 .. Len(s) : x = s[j]
        BY <1>7
      <3>2. PICK i \in 1 .. Len(t) : t[i] = x
        <4>1. CASE j < k
          BY <1>1, <1>5, <1>6, <3>1, <4>1
        <4>2. CASE j > k
          <5>1. j - 1 \in 1 .. Len(t) /\ t[j - 1] = x
            BY <1>1, <1>5, <1>6, <3>1, <4>2
          <5> QED
            BY <5>1
        <4> QED
          BY <3>1, <4>1, <4>2
      <3> QED
        BY <1>7, <3>2
    <2> QED
      BY <2>1, <2>2
  <1>9. Distinct(t)
    <2> SUFFICES ASSUME NEW i \in 1 .. Len(t), NEW j \in 1 .. Len(t), t[i] = t[j] PROVE i = j
      BY DEF Distinct
    <2> DEFINE at(n) == IF n < k THEN n ELSE n + 1
    <2>1. at(i) \in 1 .. Len(s) /\ at(j) \in 1 .. Len(s) /\ t[i] = s[at(i)] /\ t[j] = s[at(j)]
      BY <1>1, <1>5, <1>6
    <2>2. at(i) = at(j)
      BY <2>1 DEF Distinct
    <2> QED
      BY <1>1, <2>2
  <1> QED
    BY <1>5, <1>8, <1>9 DEF t

LEMMA AllClients ==
    /\ SetToSeq(Client) \in Seq(Client) /\ Distinct(SetToSeq(Client))
    /\ ToSet(SetToSeq(Client)) = Client
  <1> DEFINE n == Cardinality(Client)
             f == SetToSeq(Client)
  <1>1. n \in Nat /\ ExistsBijection(1 .. n, Client)
    BY StratumAssumption, FS_CardinalityType
  <1>2. PICK g \in Bijection(1 .. n, Client) : TRUE
    BY <1>1 DEF ExistsBijection
  <1>3. g \in [1 .. n -> Client] /\ IsInjective(g)
    BY <1>2 DEF Bijection, Injection
  <1>4. f \in [1 .. n -> Client] /\ IsInjective(f)
    BY <1>3 DEF SetToSeq
  <1> HIDE DEF f
  <1>5. f \in Seq(Client) /\ Len(f) = n /\ DOMAIN f = 1 .. n
    BY <1>1, <1>4
  <1>6. Distinct(f)
    BY <1>4, <1>5 DEF Distinct, IsInjective
  <1>7. f \in Surjection(1 .. n, Client)
    <2>1. IsFiniteSet(1 .. n) /\ Cardinality(1 .. n) = n
      BY <1>1, FS_Interval
    <2>2. f \in Injection(1 .. n, Client)
      BY <1>4 DEF Injection
    <2> QED
      BY <2>1, <2>2, FS_Injection, StratumAssumption
  <1>8. ToSet(f) = Client
    BY <1>4, <1>5, <1>7 DEF ToSet, Surjection
  <1> QED
    BY <1>5, <1>6, <1>8 DEF f

-----------------------------------------------------------------------------
(* What a step does with a Client                                          *)

Blob == [range : Nat, n : Nat, template : Nat]

\* The same miner on the same connection
SameUser(c) ==
    /\ client'[c].miner = client[c].miner /\ client'[c].resets = client[c].resets
    /\ client'[c].at = "free" <=> client[c].at = "free"

SameJobs(c) ==
    client'[c].jobs = client[c].jobs /\ client'[c].jobId = client[c].jobId /\ work'[c] = work[c]

NewJob(c, nonce, template) ==
    /\ client'[c].jobId = client[c].jobId + 1
    /\ client'[c].jobs = [client[c].jobs EXCEPT ![(client[c].jobId + 1) % JobsSize] =
                              NextJob(c, nonce, template)]
    /\ \/ work'[c] = work[c]
       \/ work'[c] = work[c] \cup {NextJob(c, nonce, template)}

Quiet(c) == SameUser(c) /\ SameJobs(c)
GetsJob(c, nonce, template) == SameUser(c) /\ NewJob(c, nonce, template)

Taken(c) ==
    /\ client[c].at = "free" /\ client'[c].at # "free"
    /\ client'[c].resets = client[c].resets /\ SameJobs(c)

WasReset(c) ==
    /\ client[c].at # "free" /\ client'[c].at = "free"
    /\ client'[c].resets = client[c].resets + 1
    /\ client'[c].jobs = [i \in 0 .. JobsSize - 1 |-> NoJob] /\ work'[c] = {}

Stays(c) ==
    \/ Quiet(c)
    \/ \E nonce \in Nat \X Nat, t \in 1 .. templateId : GetsJob(c, nonce, t)

\* One connection opens or closes, or none does
ClientsStep ==
    \/ UNCHANGED <<list, free>> /\ \A c \in Client : Stays(c)
    \/ /\ free # <<>> /\ list' = <<Head(free)>> \o list /\ free' = Tail(free)
       /\ Taken(Head(free)) /\ \A d \in Client : d # Head(free) => Quiet(d)
    \/ \E c \in Client :
          /\ list' = RemoveAt(list, Position(c)) /\ free' = <<c>> \o free
          /\ WasReset(c) /\ \A d \in Client : d # c => Quiet(d)

ClientTypes == client \in [Client -> ClientObject] /\ work \in [Client -> SUBSET Job]

LEMMA NewClientType == NewClient \in ClientObject
  <1>1. (CHOOSE m \in Miner : TRUE) \in Miner
    BY StratumAssumption
  <1>2. NoJob \in Job
    BY DEF NoJob, Job
  <1> QED
    BY <1>1, <1>2 DEF NewClient, ClientObject

LEMMA SavedJob ==
    ASSUME ClientTypes, NEW c \in Client, NEW nonce \in Nat \X Nat, NEW t \in Nat
    PROVE  LET r == Saved(c, nonce, t) IN
           /\ NextJob(c, nonce, t) \in Job
           /\ r \in ClientObject /\ r.jobId = client[c].jobId + 1
           /\ r.jobs = [client[c].jobs EXCEPT ![(client[c].jobId + 1) % JobsSize] =
                            NextJob(c, nonce, t)]
           /\ r.at = client[c].at /\ r.miner = client[c].miner /\ r.resets = client[c].resets
  <1>1. client[c] \in ClientObject
    BY DEF ClientTypes
  <1> DEFINE id == client[c].jobId + 1
  <1>2. id \in Nat /\ id % JobsSize \in 0 .. JobsSize - 1
    <2>1. id \in Nat /\ JobsSize \in Nat \ {0}
      BY <1>1, StratumAssumption DEF ClientObject
    <2> QED
      BY <2>1, ModRange, Zenon
  <1> DEFINE j == NextJob(c, nonce, t)
             js == [client[c].jobs EXCEPT ![id % JobsSize] = j]
  <1>3. j \in Job /\ j.id = id
    BY <1>2 DEF NextJob, Job
  <1>4. Saved(c, nonce, t) = [client[c] EXCEPT !.jobId = id, !.jobs = js]
    BY <1>3 DEF Saved
  <1> HIDE DEF id, j
  <1>5. js \in [0 .. JobsSize - 1 -> Job]
    BY <1>1, <1>2, <1>3 DEF ClientObject
  <1> HIDE DEF js
  <1>6. /\ Saved(c, nonce, t) \in ClientObject /\ Saved(c, nonce, t).jobId = id
        /\ Saved(c, nonce, t).jobs = js
        /\ Saved(c, nonce, t).at = client[c].at /\ Saved(c, nonce, t).miner = client[c].miner
        /\ Saved(c, nonce, t).resets = client[c].resets
    BY <1>1, <1>2, <1>4, <1>5 DEF ClientObject
  <1> QED
    BY <1>3, <1>6 DEF id, j, js

LEMMA ClientStutter ==
    ASSUME ClientTypes, UNCHANGED <<client, work>>
    PROVE  ClientTypes' /\ \A c \in Client : Stays(c)
  BY DEF ClientTypes, Stays, Quiet, SameUser, SameJobs

\* One Client changes, but for its user and its jobs
LEMMA ClientTouched ==
    ASSUME ClientTypes, NEW c \in Client, NEW r \in ClientObject,
           client' = [client EXCEPT ![c] = r], work' = work,
           r.miner = client[c].miner, r.resets = client[c].resets, r.jobs = client[c].jobs,
           r.jobId = client[c].jobId, r.at = "free" <=> client[c].at = "free"
    PROVE  ClientTypes' /\ \A d \in Client : Stays(d)
  <1>1. ClientTypes'
    BY DEF ClientTypes
  <1>2. \A d \in Client : client'[d] = IF d = c THEN r ELSE client[d]
    BY DEF ClientTypes
  <1> QED
    BY <1>1, <1>2 DEF Stays, Quiet, SameUser, SameJobs

\* One Client gets a job
LEMMA ClientGetsJob ==
    ASSUME ClientTypes, NEW c \in Client, NEW nonce \in Nat \X Nat, NEW t \in 1 .. templateId,
           templateId \in Nat,
           NEW r \in ClientObject, client' = [client EXCEPT ![c] = r],
           r.miner = client[c].miner, r.resets = client[c].resets,
           r.at = "free" <=> client[c].at = "free",
           r.jobs = Saved(c, nonce, t).jobs, r.jobId = Saved(c, nonce, t).jobId,
           \/ work' = work
           \/ work' = [work EXCEPT ![c] = @ \cup {NextJob(c, nonce, t)}]
    PROVE  ClientTypes' /\ \A d \in Client : Stays(d)
  <1>0. t \in Nat
    OBVIOUS
  <1>1. NextJob(c, nonce, t) \in Job /\ Saved(c, nonce, t).jobId = client[c].jobId + 1
        /\ Saved(c, nonce, t).jobs =
               [client[c].jobs EXCEPT ![(client[c].jobId + 1) % JobsSize] = NextJob(c, nonce, t)]
    BY <1>0, SavedJob
  <1>2. ClientTypes'
    BY <1>1 DEF ClientTypes
  <1>3. \A d \in Client : d # c => client'[d] = client[d] /\ work'[d] = work[d]
    BY DEF ClientTypes
  <1>4. client'[c] = r
        /\ (work'[c] = work[c] \/ work'[c] = work[c] \cup {NextJob(c, nonce, t)})
    BY DEF ClientTypes
  <1>5. GetsJob(c, nonce, t)
    BY <1>1, <1>4 DEF GetsJob, NewJob, SameUser
  <1>6. \A d \in Client : d # c => Quiet(d)
    BY <1>3 DEF Quiet, SameUser, SameJobs
  <1> QED
    BY <1>2, <1>5, <1>6 DEF Stays

-----------------------------------------------------------------------------
(* The order in which on_blobs_ready walks the list                        *)

LEMMA PositionInList ==
    ASSUME list \in Seq(Client), NEW c \in ToSet(list)
    PROVE  Position(c) \in 1 .. Len(list) /\ list[Position(c)] = c
  <1>1. \E i \in 1 .. Len(list) : list[i] = c
    BY MembersOfSeq
  <1> QED
    BY <1>1 DEF Position

LEMMA BeforeIsFinite ==
    ASSUME list \in Seq(Client), NEW c \in ToSet(list), NEW L
    PROVE  IsFiniteSet(Before(c, L)) /\ Cardinality(Before(c, L)) \in Nat
  <1>1. Position(c) \in 1 .. Len(list)
    BY PositionInList
  <1>2. Before(c, L) \subseteq Client
    BY <1>1 DEF Before, Older
  <1> QED
    BY <1>2, StratumAssumption, FS_Subset, FS_CardinalityType

LEMMA OlderGoesFirst ==
    ASSUME list \in Seq(Client), Distinct(list), NEW L \in SUBSET ToSet(list),
           NEW c \in ToSet(list), NEW d \in L, Position(c) < Position(d)
    PROVE  Cardinality(Before(d, L)) < Cardinality(Before(c, L))
  <1>1. /\ Position(c) \in 1 .. Len(list) /\ list[Position(c)] = c
        /\ Position(d) \in 1 .. Len(list) /\ list[Position(d)] = d
    BY PositionInList
  <1>2. Before(d, L) \subseteq Before(c, L)
    BY <1>1 DEF Before, Older
  <1>3. d \in Before(c, L)
    BY <1>1 DEF Before, Older
  <1>4. d \notin Before(d, L)
    <2> SUFFICES ASSUME d \in Older(d) PROVE FALSE
      BY DEF Before
    <2>1. PICK j \in Position(d) + 1 .. Len(list) : list[j] = d
      BY DEF Older
    <2>2. j \in 1 .. Len(list) /\ j # Position(d)
      BY <1>1
    <2> QED
      BY <1>1, <2>1, <2>2 DEF Distinct
  <1>5. IsFiniteSet(Before(c, L)) /\ Cardinality(Before(c, L)) \in Nat
        /\ Cardinality(Before(d, L)) \in Nat
    BY BeforeIsFinite
  <1>6. Cardinality(Before(d, L)) <= Cardinality(Before(c, L))
        /\ Cardinality(Before(d, L)) # Cardinality(Before(c, L))
    BY <1>2, <1>3, <1>4, <1>5, FS_Subset
  <1> QED
    BY <1>5, <1>6

LEMMA IndexIsUnique ==
    ASSUME list \in Seq(Client), Distinct(list), NEW L \in SUBSET ToSet(list),
           NEW c \in L, NEW d \in L, Cardinality(Before(c, L)) = Cardinality(Before(d, L))
    PROVE  c = d
  <1>1. /\ Position(c) \in Nat /\ list[Position(c)] = c
        /\ Position(d) \in Nat /\ list[Position(d)] = d
    BY PositionInList
  <1>2. Cardinality(Before(c, L)) \in Nat
    BY BeforeIsFinite
  <1>3. ~(Position(c) < Position(d)) /\ ~(Position(d) < Position(c))
    BY <1>2, OlderGoesFirst
  <1> QED
    BY <1>1, <1>3

Index(c, fails) == Cardinality(Before(c, LoggedIn \ fails))

LEMMA BlobsSent ==
    ASSUME TypeOK, ListInv, NEW data \in Blob, data.template \in 1 .. templateId,
           NEW fails \in SUBSET ToSet(list), NEW late \in SUBSET ToSet(list),
           SendBlobs(data, fails, late)
    PROVE  LET served == Served(LoggedIn \ fails, data.n) IN
           /\ ClientTypes' /\ served \in SUBSET Client
           /\ \A c \in served :
                 /\ Index(c, fails) \in Nat /\ Index(c, fails) < data.n
                 /\ GetsJob(c, <<data.range, Index(c, fails)>>, data.template)
                 /\ \A d \in served : Index(c, fails) = Index(d, fails) => c = d
           /\ \A c \in Client \ served : work'[c] = work[c]
           /\ \A c \in Client : Stays(c)
  <1> DEFINE getting == LoggedIn \ fails
             served == Served(getting, data.n)
             nonce(c) == <<data.range, Index(c, fails)>>
             t == data.template
  <1>1. ClientTypes /\ list \in Seq(Client) /\ templateId \in Nat /\ ToSet(list) \subseteq Client
    BY MembersOfSeq DEF TypeOK, ClientTypes, TemplateTypeOK
  <1>2. getting \subseteq ToSet(list) /\ served \subseteq getting /\ fails \subseteq ToSet(list)
    BY DEF LoggedIn, Served
  <1>3. ASSUME NEW c \in ToSet(list)
        PROVE  Index(c, fails) \in Nat /\ nonce(c) \in Nat \X Nat
    <2>1. Index(c, fails) \in Nat
      BY <1>1, BeforeIsFinite DEF Index
    <2> QED
      BY <2>1 DEF Blob
  <1>4. t \in Nat /\ t \in 1 .. templateId /\ data.range \in Nat /\ data.n \in Nat
    BY <1>1 DEF Blob
  <1> DEFINE base(c) == IF c \in served \cup fails THEN Saved(c, nonce(c), t) ELSE client[c]
             at(c) == IF c \in fails \cup late THEN "closing"
                      ELSE IF base(c).at = "new" THEN "up" ELSE base(c).at
  <1>5. client' = [c \in Client |-> [base(c) EXCEPT !.at = at(c)]]
    BY DEF SendBlobs, Index
  <1>6. work' = [c \in Client |->
           IF c \in served /\ Up(c) THEN work[c] \cup {NextJob(c, nonce(c), t)} ELSE work[c]]
    BY DEF SendBlobs, Index
  <1>7. /\ fails \cap served = {} /\ \A c \in fails \cup late : client[c].at = "up"
    BY DEF SendBlobs, Served, Up
  <1>8. ASSUME NEW c \in served, NEW d \in served, Index(c, fails) = Index(d, fails) PROVE c = d
    BY <1>1, <1>2, <1>8, IndexIsUnique DEF ListInv, Index
  <1>9. ASSUME NEW c \in served PROVE Index(c, fails) < data.n
    BY DEF Served, Index
  <1> HIDE DEF getting, served, nonce, t
  <1>10. ASSUME NEW c \in Client
         PROVE  /\ base(c) \in ClientObject /\ base(c).at = client[c].at
                /\ base(c).miner = client[c].miner /\ base(c).resets = client[c].resets
                /\ c \notin served \cup fails => base(c) = client[c]
                /\ c \in served \cup fails =>
                      /\ NextJob(c, nonce(c), t) \in Job /\ base(c).jobId = client[c].jobId + 1
                      /\ base(c).jobs = [client[c].jobs EXCEPT
                                            ![(client[c].jobId + 1) % JobsSize] =
                                                NextJob(c, nonce(c), t)]
    <2>1. CASE c \in served \cup fails
      <3>1. nonce(c) \in Nat \X Nat /\ base(c) = Saved(c, nonce(c), t)
        BY <1>2, <1>3, <2>1
      <3> QED
        BY <1>1, <1>4, <2>1, <3>1, SavedJob
    <2>2. CASE c \notin served \cup fails
      BY <1>1, <2>2 DEF ClientTypes
    <2> QED
      BY <2>1, <2>2
  <1> HIDE DEF base
  <1>11. ASSUME NEW c \in Client
         PROVE  /\ client'[c] \in ClientObject /\ SameUser(c)
                /\ client'[c].jobs = base(c).jobs /\ client'[c].jobId = base(c).jobId
    <2>1. client'[c] = [base(c) EXCEPT !.at = at(c)] /\ base(c) \in ClientObject
      BY <1>5, <1>10
    <2>2. at(c) \in {"free", "new", "up", "closing"} /\ (at(c) = "free" <=> client[c].at = "free")
      <3>1. base(c).at \in {"free", "new", "up", "closing"} /\ base(c).at = client[c].at
        BY <1>10 DEF ClientObject
      <3>2. c \in fails \cup late => client[c].at = "up"
        BY <1>7
      <3> QED
        BY <3>1, <3>2
    <2> HIDE DEF at
    <2>3. /\ client'[c] \in ClientObject /\ client'[c].at = at(c)
          /\ client'[c].jobs = base(c).jobs /\ client'[c].jobId = base(c).jobId
          /\ client'[c].miner = base(c).miner /\ client'[c].resets = base(c).resets
      BY <2>1, <2>2 DEF ClientObject
    <2> QED
      BY <1>10, <2>2, <2>3 DEF SameUser
  <1>12. ASSUME NEW c \in served \cup fails
         PROVE  c \in Client /\ GetsJob(c, nonce(c), t) /\ nonce(c) \in Nat \X Nat
    <2>1. c \in Client /\ nonce(c) \in Nat \X Nat
      BY <1>1, <1>2, <1>3
    <2>2. work'[c] = work[c] \/ work'[c] = work[c] \cup {NextJob(c, nonce(c), t)}
      BY <1>6, <2>1
    <2> QED
      BY <1>10, <1>11, <2>1, <2>2 DEF GetsJob, NewJob
  <1>13. ClientTypes'
    <2>1. client' \in [Client -> ClientObject]
      BY <1>5, <1>11
    <2>2. work' \in [Client -> SUBSET Job]
      BY <1>1, <1>6, <1>10 DEF ClientTypes
    <2> QED
      BY <2>1, <2>2 DEF ClientTypes
  <1>14. ASSUME NEW c \in Client PROVE Stays(c)
    <2>1. CASE c \in served \cup fails
      <3>1. GetsJob(c, nonce(c), t) /\ nonce(c) \in Nat \X Nat /\ t \in 1 .. templateId
        BY <1>4, <1>12, <2>1
      <3> QED
        BY <3>1 DEF Stays
    <2>2. CASE c \notin served \cup fails
      <3>1. work'[c] = work[c] /\ base(c) = client[c]
        BY <1>6, <1>10, <2>2
      <3> QED
        BY <1>11, <3>1 DEF Stays, Quiet, SameJobs
    <2> QED
      BY <2>1, <2>2
  <1>15. \A c \in Client \ served : work'[c] = work[c]
    BY <1>6
  <1>16. served \subseteq Client /\ \A c \in served : Index(c, fails) \in Nat
    BY <1>1, <1>2, <1>3
  <1> QED
    BY <1>8, <1>9, <1>12, <1>13, <1>14, <1>15, <1>16 DEF served, getting, nonce, t

-----------------------------------------------------------------------------
(* The steps of the clients                                                *)

LEMMA LastBlob ==
    ASSUME TypeOK, JobInv, NonceInv, wake
    PROVE  /\ Len(blobs) \in 1 .. Len(blobs) /\ Last(blobs) = blobs[Len(blobs)]
           /\ Last(blobs) \in Blob /\ Last(blobs).template \in 1 .. templateId
  <1>1. blobs \in Seq(Blob) /\ blobs # <<>>
    BY DEF TypeOK, NonceInv, Blob
  <1>2. Len(blobs) \in 1 .. Len(blobs) /\ blobs[Len(blobs)] \in Blob
    BY <1>1
  <1> QED
    BY <1>2 DEF Last, JobInv

LEMMA ClientSteps ==
    ASSUME TypeOK, ListInv, JobInv, NonceInv, Next
    PROVE  ClientTypes' /\ ClientsStep
  <1>0. ClientTypes /\ \A c \in Client : client[c] \in ClientObject
    BY DEF TypeOK, ClientTypes
  <1>1. CASE UpdateTemplate
    BY <1>0, <1>1, ClientStutter DEF UpdateTemplate, connVars, ClientsStep
  <1>2. CASE OnBlock
    BY <1>0, <1>2, ClientStutter
       DEF OnBlock, OnBlockCount, OnBlockNonces, OnBlockQueue, connVars, ClientsStep
  <1>3. ASSUME NEW m \in Miner, Connect(m) PROVE ClientTypes' /\ ClientsStep
    <2> DEFINE c == Head(free)
               a == IF m \in bans THEN "closing" ELSE IF wake THEN "new" ELSE "up"
    <2>1. c \in Client /\ c \in ToSet(free)
      BY <1>3, Popped DEF Connect, TypeOK, ListInv
    <2>2. client[c].at = "free"
      BY <2>1 DEF ListInv
    <2>3. client' = [client EXCEPT ![c].at = a, ![c].miner = m] /\ work' = work
      BY <1>3 DEF Connect
    <2>4. a \in {"new", "up", "closing"}
      OBVIOUS
    <2> HIDE DEF c, a
    <2>5. client'[c] = [client[c] EXCEPT !.at = a, !.miner = m]
      BY <1>0, <2>1, <2>3 DEF ClientTypes
    <2>6. client'[c] \in ClientObject /\ Taken(c)
      <3>1. client[c] \in ClientObject
        BY <1>0, <2>1
      <3>2. /\ client'[c] \in ClientObject /\ client'[c].at = a
            /\ client'[c].resets = client[c].resets /\ client'[c].jobs = client[c].jobs
            /\ client'[c].jobId = client[c].jobId
        BY ONLY <2>4, <2>5, <3>1, m \in Miner DEF ClientObject
      <3>3. a # "free" /\ work'[c] = work[c]
        BY <2>3, <2>4
      <3> QED
        BY ONLY <2>2, <3>2, <3>3, Zenon DEF Taken, SameJobs
    <2>7. \A d \in Client : d # c => client'[d] = client[d]
      BY <1>0, <2>1, <2>3 DEF ClientTypes
    <2>8. ClientTypes'
      BY <1>0, <2>1, <2>3, <2>6, <2>7 DEF ClientTypes
    <2>9. \A d \in Client : d # c => Quiet(d)
      BY <2>3, <2>7 DEF Quiet, SameUser, SameJobs
    <2>10. free # <<>> /\ list' = <<c>> \o list /\ free' = Tail(free)
      BY <1>3 DEF Connect, c
    <2> QED
      BY <2>6, <2>8, <2>9, <2>10 DEF ClientsStep, c
  <1>4. ASSUME NEW c \in Client, Disconnect(c) \/ BadRequest(c)
        PROVE  ClientTypes' /\ ClientsStep
    <2> DEFINE r == [client[c] EXCEPT !.at = "closing"]
    <2>1. client' = [client EXCEPT ![c] = r] /\ work' = work /\ client[c].at = "up"
      BY <1>4 DEF Disconnect, BadRequest, Up
    <2>3. UNCHANGED <<list, free>>
      BY <1>4 DEF Disconnect, BadRequest
    <2>2. r \in ClientObject /\ r.miner = client[c].miner /\ r.resets = client[c].resets
          /\ r.jobs = client[c].jobs /\ r.jobId = client[c].jobId /\ r.at = "closing"
      BY <1>0 DEF ClientObject
    <2> HIDE DEF r
    <2> QED
      BY <1>0, <2>1, <2>2, <2>3, ClientTouched DEF ClientsStep
  <1>5. ASSUME NEW c \in Client, OnConnectionClose(c)
        PROVE  ClientTypes' /\ ClientsStep
    <2> DEFINE r == Reset(c)
    <2>1. client' = [client EXCEPT ![c] = r] /\ work' = [work EXCEPT ![c] = {}]
          /\ client[c].at = "closing"
      BY <1>5 DEF OnConnectionClose
    <2>2. r \in ClientObject /\ r.resets = client[c].resets + 1 /\ r.at = "free"
          /\ r.jobs = [i \in 0 .. JobsSize - 1 |-> NoJob]
      <3>1. NewClient \in ClientObject /\ NewClient.at = "free"
            /\ NewClient.jobs = [i \in 0 .. JobsSize - 1 |-> NoJob]
        BY NewClientType DEF NewClient
      <3>2. client[c].resets \in Nat
        BY <1>0 DEF ClientObject
      <3> QED
        BY <3>1, <3>2 DEF Reset, ClientObject
    <2> HIDE DEF r
    <2>3. ClientTypes'
      BY <1>0, <2>1, <2>2 DEF ClientTypes
    <2>4. WasReset(c)
      BY <1>0, <2>1, <2>2 DEF ClientTypes, WasReset
    <2>5. \A d \in Client : d # c => Quiet(d)
      BY <1>0, <2>1 DEF ClientTypes, Quiet, SameUser, SameJobs
    <2> QED
      BY <1>5, <2>3, <2>4, <2>5 DEF ClientsStep, OnConnectionClose
  <1>6. ASSUME NEW c \in Client, OnLogin(c) \/ OnLoginUnanswered(c)
        PROVE  ClientTypes' /\ ClientsStep
    <2> DEFINE s == Saved(c, extraNonce, templateId)
               r == client'[c]
    <2>1. extraNonce \in Nat \X Nat /\ templateId \in 1 .. templateId /\ templateId \in Nat
      BY DEF TypeOK, TemplateTypeOK
    <2>2. s \in ClientObject /\ s.miner = client[c].miner /\ s.resets = client[c].resets
          /\ s.at = client[c].at
      BY <1>0, <2>1, SavedJob
    <2>3. left.logins \in Nat /\ left.faults \in Nat /\ client[c].at = "up"
      BY <1>6 DEF TypeOK, Budgets, OnLogin, OnLoginUnanswered, Up
    <2> HIDE DEF s
    <2>4. \/ client' = [client EXCEPT ![c] = [s EXCEPT !.rpcId = left.logins]]
          \/ client' = [client EXCEPT ![c] = [s EXCEPT !.rpcId = 1 + left.faults, !.at = "closing"]]
      BY <1>6 DEF OnLogin, OnLoginUnanswered, s
    <2>5. client' = [client EXCEPT ![c] = r] /\ r \in ClientObject /\ r.at # "free"
          /\ r.miner = s.miner /\ r.resets = s.resets /\ r.jobs = s.jobs /\ r.jobId = s.jobId
      <3> DEFINE s1 == [s EXCEPT !.rpcId = left.logins]
                 s2 == [s EXCEPT !.rpcId = 1 + left.faults, !.at = "closing"]
      <3>1. 1 + left.faults \in Nat /\ s.at = "up"
        BY <2>2, <2>3
      <3>2. s1 \in ClientObject /\ s1.at = "up" /\ s1.miner = s.miner /\ s1.resets = s.resets
            /\ s1.jobs = s.jobs /\ s1.jobId = s.jobId
        BY ONLY <2>2, <2>3, <3>1 DEF ClientObject
      <3>3. s2 \in ClientObject /\ s2.at = "closing" /\ s2.miner = s.miner
            /\ s2.resets = s.resets /\ s2.jobs = s.jobs /\ s2.jobId = s.jobId
        BY ONLY <2>2, <2>3, <3>1 DEF ClientObject
      <3> HIDE DEF s1, s2
      <3>4. (client' = [client EXCEPT ![c] = s1] /\ r = s1)
            \/ (client' = [client EXCEPT ![c] = s2] /\ r = s2)
        BY <1>0, <2>4 DEF ClientTypes, s1, s2
      <3> QED
        BY ONLY <3>2, <3>3, <3>4
    <2>6. work' = work
          \/ work' = [work EXCEPT ![c] = @ \cup {NextJob(c, extraNonce, templateId)}]
      BY <1>6 DEF OnLogin, OnLoginUnanswered
    <2> HIDE DEF r
    <2>7. UNCHANGED <<list, free>>
      BY <1>6 DEF OnLogin, OnLoginUnanswered
    <2> QED
      BY <1>0, <2>1, <2>2, <2>3, <2>5, <2>6, <2>7, ClientGetsJob DEF s, ClientsStep
  <1>7. CASE OnBlobsReady
    <2>1. PICK fails \in SUBSET ToSet(list), late \in SUBSET ToSet(list) :
              SendBlobs(Last(blobs), fails, late)
      BY <1>7 DEF OnBlobsReady
    <2>2. Last(blobs) \in Blob /\ Last(blobs).template \in 1 .. templateId
      BY <1>7, LastBlob DEF OnBlobsReady
    <2> QED
      BY <1>7, <2>1, <2>2, BlobsSent DEF OnBlobsReady, ClientsStep
  <1>8. ASSUME NEW c \in Client, NEW job, NEW kind, OnSubmit(c, job, kind)
        PROVE  ClientTypes' /\ ClientsStep
    <2>1. CASE UNCHANGED client
      BY <1>0, <1>8, <2>1, ClientStutter DEF OnSubmit, ClientsStep
    <2>2. CASE SubmitLow(c, kind)
      <3> DEFINE score == client[c].score + IF kind = "low" THEN 0 ELSE BadPoints
                 ban == kind = "weak" /\ score <= BanThreshold
                 at == IF ban THEN "closing" ELSE client[c].at
                 r == [client[c] EXCEPT !.score = score, !.at = at]
      <3>1. score \in Int /\ at \in {"free", "new", "up", "closing"} /\ client[c].at = "up"
            /\ at # "free"
        BY <1>0, <1>8, StratumAssumption DEF ClientObject, OnSubmit, Up
      <3>2. client' = [client EXCEPT ![c] = r] /\ work' = work
        BY <1>8, <2>2 DEF OnSubmit, SubmitLow
      <3>4. UNCHANGED <<list, free>>
        BY <1>8 DEF OnSubmit
      <3> HIDE DEF score, at
      <3>3. r \in ClientObject /\ r.miner = client[c].miner /\ r.resets = client[c].resets
            /\ r.jobs = client[c].jobs /\ r.jobId = client[c].jobId /\ r.at = at
        BY <1>0, <3>1 DEF ClientObject
      <3> HIDE DEF r
      <3> QED
        BY <1>0, <3>1, <3>2, <3>3, <3>4, ClientTouched DEF ClientsStep
    <2> QED
      BY <1>8, <2>1, <2>2 DEF OnSubmit
  <1>9. ASSUME NEW s \in shares, CheckShare(s) PROVE ClientTypes' /\ ClientsStep
    <2> DEFINE c == s.client
               points == CASE Judge(s) = "ok" -> GoodPoints
                           [] Judge(s) = "invalid" -> BadPoints
                           [] OTHER -> 0
               r == [client[c] EXCEPT !.score = @ + points]
    <2>1. c \in Client /\ points \in Int
      BY StratumAssumption DEF TypeOK, SubmittedShare
    <2>2. client' = [client EXCEPT ![c] = r] /\ work' = work
      BY <1>9 DEF CheckShare
    <2>4. UNCHANGED <<list, free>>
      BY <1>9 DEF CheckShare
    <2> HIDE DEF c, points
    <2>3. r \in ClientObject /\ r.miner = client[c].miner /\ r.resets = client[c].resets
          /\ r.jobs = client[c].jobs /\ r.jobId = client[c].jobId /\ r.at = client[c].at
      BY <1>0, <2>1 DEF ClientObject
    <2> HIDE DEF r
    <2> QED
      BY <1>0, <2>1, <2>2, <2>3, <2>4, ClientTouched DEF ClientsStep
  <1>10. ASSUME NEW s \in shares, CheckShareFails(s) \/ SubmitShare(s)
         PROVE  ClientTypes' /\ ClientsStep
    BY <1>0, <1>10, ClientStutter DEF CheckShareFails, SubmitShare, connVars, ClientsStep
  <1>11. ASSUME NEW s \in shares, AfterShare(s)
         PROVE  ClientTypes' /\ ClientsStep
    <2> DEFINE c == s.client
               at == IF client[c].at = "free" THEN client[c].at ELSE "closing"
               r == [client[c] EXCEPT !.at = at]
    <2>1. c \in Client
      BY DEF TypeOK, SubmittedShare
    <2>2. work' = work /\ (client' = client \/ client' = [client EXCEPT ![c] = r])
      BY <1>11 DEF AfterShare
    <2>5. UNCHANGED <<list, free>>
      BY <1>11 DEF AfterShare
    <2>3. at \in {"free", "new", "up", "closing"} /\ (at = "free" <=> client[c].at = "free")
      BY <1>0, <2>1 DEF ClientObject
    <2> HIDE DEF c, at
    <2>4. r \in ClientObject /\ r.miner = client[c].miner /\ r.resets = client[c].resets
          /\ r.jobs = client[c].jobs /\ r.jobId = client[c].jobId /\ r.at = at
      BY <1>0, <2>1, <2>3 DEF ClientObject
    <2> HIDE DEF r
    <2> QED
      BY <1>0, <2>1, <2>2, <2>3, <2>4, <2>5, ClientTouched, ClientStutter DEF ClientsStep
  <1> QED
    BY <1>1, <1>2, <1>3, <1>4, <1>5, <1>6, <1>7, <1>8, <1>9, <1>10, <1>11 DEF Next

LEMMA ListStep ==
    ASSUME TypeOK, ListInv, ClientsStep
    PROVE  list' \in Seq(Client) /\ free' \in Seq(Client) /\ ListInv'
  <1>0. list \in Seq(Client) /\ free \in Seq(Client) /\ Distinct(list) /\ Distinct(free)
    BY DEF TypeOK, ListInv
  <1>1. CASE UNCHANGED <<list, free>> /\ \A c \in Client : Stays(c)
    <2>1. \A c \in Client : client'[c].at = "free" <=> client[c].at = "free"
      BY <1>1 DEF Stays, Quiet, GetsJob, SameUser
    <2> QED
      BY <1>0, <1>1, <2>1 DEF ListInv
  <1>2. ASSUME free # <<>>, list' = <<Head(free)>> \o list, free' = Tail(free),
               Taken(Head(free)), \A d \in Client : d # Head(free) => Quiet(d)
        PROVE  list' \in Seq(Client) /\ free' \in Seq(Client) /\ ListInv'
    <2> DEFINE c == Head(free)
    <2>1. c \in Client /\ c \in ToSet(free) /\ free' \in Seq(Client) /\ Distinct(free')
          /\ ToSet(free') = ToSet(free) \ {c}
      BY <1>0, <1>2, Popped
    <2>2. c \notin ToSet(list)
      BY <2>1 DEF ListInv
    <2>3. list' \in Seq(Client) /\ Distinct(list') /\ ToSet(list') = ToSet(list) \cup {c}
      BY <1>0, <1>2, <2>1, <2>2, Pushed
    <2>4. client'[c].at # "free"
      BY <1>2 DEF Taken
    <2>5. \A d \in Client : d # c => (client'[d].at = "free" <=> client[d].at = "free")
      BY <1>2 DEF Quiet, SameUser
    <2> HIDE DEF c
    <2> QED
      BY <2>1, <2>3, <2>4, <2>5 DEF ListInv
  <1>3. ASSUME NEW c \in Client, list' = RemoveAt(list, Position(c)), free' = <<c>> \o free,
               WasReset(c), \A d \in Client : d # c => Quiet(d)
        PROVE  list' \in Seq(Client) /\ free' \in Seq(Client) /\ ListInv'
    <2>1. c \in ToSet(list) /\ c \notin ToSet(free) /\ client'[c].at = "free"
      BY <1>3 DEF WasReset, ListInv
    <2>2. Position(c) \in 1 .. Len(list) /\ list[Position(c)] = c
      BY <1>0, <2>1, PositionInList
    <2>3. list' \in Seq(Client) /\ Distinct(list') /\ ToSet(list') = ToSet(list) \ {c}
      BY <1>0, <1>3, <2>2, Removed
    <2>4. free' \in Seq(Client) /\ Distinct(free') /\ ToSet(free') = ToSet(free) \cup {c}
      BY <1>0, <1>3, <2>1, Pushed
    <2>5. \A d \in Client : d # c => (client'[d].at = "free" <=> client[d].at = "free")
      BY <1>3 DEF Quiet, SameUser
    <2> QED
      BY <2>1, <2>3, <2>4, <2>5 DEF ListInv
  <1> QED
    BY <1>1, <1>2, <1>3 DEF ClientsStep

LEMMA JobStep ==
    ASSUME TypeOK, JobInv, ClientTypes', ClientsStep,
           templateId' \in Nat, templateId <= templateId',
           \A i \in 1 .. Len(blobs') : blobs'[i].template \in 1 .. templateId'
    PROVE  JobInv'
  <1>0. templateId \in Nat /\ 1 .. templateId \subseteq 1 .. templateId' /\ JobsSize \in Nat \ {0}
    BY StratumAssumption DEF TypeOK, TemplateTypeOK
  <1> DEFINE JobsOK(c) ==
                 /\ \A j \in work'[c] :
                       /\ j.id \in 1 .. client'[c].jobId
                       /\ client'[c].jobs[j.id % JobsSize].id = j.id =>
                             client'[c].jobs[j.id % JobsSize] = j
                 /\ \A i \in 0 .. JobsSize - 1 :
                       client'[c].jobs[i].id # 0 =>
                           client'[c].jobs[i].template \in 1 .. templateId'
  <1>1. ASSUME NEW c \in Client, SameJobs(c) PROVE JobsOK(c)
    BY <1>0, <1>1 DEF SameJobs, JobInv, JobFound
  <1>2. ASSUME NEW c \in Client, WasReset(c) PROVE JobsOK(c)
    BY <1>2 DEF WasReset, NoJob
  <1>3. ASSUME NEW c \in Client, NEW nonce \in Nat \X Nat, NEW t \in 1 .. templateId,
               NewJob(c, nonce, t)
        PROVE  JobsOK(c)
    <2> DEFINE new == NextJob(c, nonce, t)
               id == client[c].jobId + 1
               js == client[c].jobs
    <2>1. client[c].jobId \in Nat /\ js \in [0 .. JobsSize - 1 -> Job] /\ work[c] \subseteq Job
      BY DEF TypeOK, ClientObject
    <2>2. id \in Nat /\ id > client[c].jobId /\ id # 0 /\ id % JobsSize \in 0 .. JobsSize - 1
      <3>1. id \in Nat /\ id > client[c].jobId /\ id # 0
        BY <2>1
      <3> QED
        BY <1>0, <3>1, ModRange, Zenon
    <2>3. new.id = id /\ new.template = t
      BY DEF NextJob
    <2>4. client'[c].jobId = id /\ client'[c].jobs = [js EXCEPT ![id % JobsSize] = new]
          /\ work'[c] \subseteq work[c] \cup {new}
      BY <1>3 DEF NewJob
    <2> HIDE DEF new, id, js
    <2>5. ASSUME NEW j \in work'[c]
          PROVE  /\ j.id \in 1 .. id
                 /\ client'[c].jobs[j.id % JobsSize].id = j.id =>
                       client'[c].jobs[j.id % JobsSize] = j
      <3>1. CASE j = new
        BY <2>1, <2>2, <2>3, <2>4, <3>1
      <3>2. CASE j \in work[c]
        <4>1. j.id \in 1 .. client[c].jobId /\ j.id \in Nat
          BY <2>1, <3>2 DEF JobInv
        <4>2. js[j.id % JobsSize].id = j.id => js[j.id % JobsSize] = j
          BY <3>2 DEF JobInv, JobFound, js
        <4>3. j.id % JobsSize \in 0 .. JobsSize - 1
          BY <1>0, <4>1, ModRange, Zenon
        <4>4. j.id \in 1 .. id /\ j.id # id
          BY <2>1, <2>2, <4>1
        <4>5. CASE j.id % JobsSize = id % JobsSize
          BY <2>1, <2>2, <2>3, <2>4, <4>4, <4>5
        <4>6. CASE j.id % JobsSize # id % JobsSize
          BY <2>1, <2>4, <4>2, <4>3, <4>4, <4>6
        <4> QED
          BY <4>5, <4>6
      <3> QED
        BY <2>4, <3>1, <3>2
    <2>6. ASSUME NEW i \in 0 .. JobsSize - 1, client'[c].jobs[i].id # 0
          PROVE  client'[c].jobs[i].template \in 1 .. templateId'
      <3>1. CASE i = id % JobsSize
        BY <1>0, <2>1, <2>3, <2>4, <3>1
      <3>2. CASE i # id % JobsSize
        <4>1. client'[c].jobs[i] = js[i]
          BY <2>1, <2>4, <3>2
        <4>2. js[i].id # 0 => js[i].template \in 1 .. templateId
          BY DEF JobInv, js
        <4> QED
          BY <1>0, <2>6, <4>1, <4>2
      <3> QED
        BY <3>1, <3>2
    <2> QED
      BY <2>4, <2>5, <2>6
  <1>4. \A c \in Client : JobsOK(c)
    BY <1>1, <1>2, <1>3 DEF ClientsStep, Stays, Quiet, GetsJob, Taken
  <1> QED
    BY <1>4 DEF JobInv, JobFound

-----------------------------------------------------------------------------
(* Types                                                                   *)

LEMMA TemplateStep ==
    ASSUME TypeOK, RingInv, ShareInv, Next
    PROVE  /\ TemplateTypeOK' /\ RingInv' /\ templateId <= templateId'
           /\ accepted' \subseteq 1 .. templateId'
  <1> DEFINE Goal == /\ TemplateTypeOK' /\ RingInv' /\ templateId <= templateId'
                     /\ accepted' \subseteq 1 .. templateId'
  <1> SUFFICES Goal
    OBVIOUS
  <1>0. TemplateTypeOK /\ templateId \in Nat \ {0} /\ accepted \subseteq 1 .. templateId
    BY DEF TypeOK, TemplateTypeOK
  <1>1. ASSUME UNCHANGED <<templateVars, accepted>> PROVE Goal
    BY <1>0, <1>1 DEF templateVars, TemplateTypeOK, RingInv
  <1>2. CASE UpdateTemplate
    <2>1. CASE Update
      <3>1. TemplateTypeOK' /\ RingInv' /\ templateId' = templateId + 1
        BY <1>0, <2>1, RingUpdate DEF Update
      <3> QED
        BY <1>0, <1>2, <3>1 DEF UpdateTemplate
    <2>2. CASE UNCHANGED templateVars
      BY <1>1, <1>2, <2>2 DEF UpdateTemplate
    <2> QED
      BY <1>2, <2>1, <2>2 DEF UpdateTemplate
  <1>3. ASSUME NEW s \in shares, CheckShare(s) PROVE Goal
    <2>1. s.template \in 1 .. templateId
      BY DEF ShareInv
    <2>2. accepted' \subseteq 1 .. templateId /\ UNCHANGED templateVars
      BY <1>0, <1>3, <2>1 DEF CheckShare
    <2> QED
      BY <1>0, <2>2 DEF templateVars, TemplateTypeOK, RingInv
  <1>4. ASSUME NEW s \in shares, SubmitShare(s) PROVE Goal
    <2>1. s.template \in 1 .. templateId
      BY DEF ShareInv
    <2>2. Available(s.template) => Found(s.template) = s.template
      BY <1>0, <2>1, AvailableIsWindow
    <2>3. /\ chain' \subseteq chain \cup {s.template}
          /\ UNCHANGED <<templateId, oldTemplates, accepted>>
      BY <1>4, <2>2 DEF SubmitShare, SubmitSidechainBlock
    <2> QED
      BY <1>0, <2>1, <2>3 DEF TemplateTypeOK, RingInv
  <1>5. CASE OnBlock
    BY <1>1, <1>5 DEF OnBlock, OnBlockCount, OnBlockNonces, OnBlockQueue
  <1>6. ASSUME NEW m \in Miner, Connect(m) PROVE Goal
    BY <1>1, <1>6 DEF Connect
  <1>7. ASSUME NEW c \in Client,
               \/ Disconnect(c) \/ OnConnectionClose(c) \/ BadRequest(c)
               \/ OnLogin(c) \/ OnLoginUnanswered(c)
        PROVE  Goal
    BY <1>1, <1>7 DEF Disconnect, OnConnectionClose, BadRequest, OnLogin, OnLoginUnanswered
  <1>8. CASE OnBlobsReady
    BY <1>1, <1>8 DEF OnBlobsReady
  <1>9. ASSUME NEW c \in Client, NEW job, NEW kind, OnSubmit(c, job, kind) PROVE Goal
    BY <1>1, <1>9 DEF OnSubmit
  <1>10. ASSUME NEW s \in shares, CheckShareFails(s) \/ AfterShare(s) PROVE Goal
    BY <1>1, <1>10 DEF CheckShareFails, AfterShare
  <1> HIDE DEF Goal
  <1> QED
    BY <1>2, <1>3, <1>4, <1>5, <1>6, <1>7, <1>8, <1>9, <1>10 DEF Next

LEMMA BudgetStep ==
    ASSUME TypeOK, Next
    PROVE  left' \in Budgets
  <1>0. left \in Budgets
    BY DEF TypeOK
  <1>1. \A what \in {"connects", "logins", "submits", "faults", "updates", "skips"} :
            Spend(what) => left' \in Budgets
    BY <1>0 DEF Spend, Budgets
  <1>2. ASSUME OnBlobsReady PROVE left' \in Budgets
    <2>1. PICK fails \in SUBSET ToSet(list), late \in SUBSET ToSet(list) :
              SendBlobs(Last(blobs), fails, late)
      BY <1>2 DEF OnBlobsReady
    <2> DEFINE n == Cardinality(fails \cup late)
    <2>2. n \in Nat
      <3>1. fails \cup late \subseteq Client
        BY MembersOfSeq DEF TypeOK
      <3> QED
        BY <3>1, StratumAssumption, FS_Subset, FS_CardinalityType
    <2>3. n <= left.faults /\ left' = [left EXCEPT !.faults = @ - n]
      BY <2>1 DEF SendBlobs
    <2> HIDE DEF n
    <2> QED
      BY <1>0, <2>2, <2>3 DEF Budgets
  <1>3. CASE UNCHANGED left
    BY <1>0, <1>3
  <1> QED
    BY <1>1, <1>2, <1>3
       DEF Next, UpdateTemplate, OnBlock, OnBlockCount, OnBlockNonces, OnBlockQueue, Connect,
           Disconnect, OnConnectionClose, BadRequest, OnLogin, OnLoginUnanswered, OnSubmit,
           CheckShare, CheckShareFails, SubmitShare, AfterShare

\* A share that is queued is for a job that its Client's ring has
LEMMA ShareType ==
    ASSUME TypeOK, NEW c \in Client, NEW job \in Job, NEW kind \in {"good", "fake"}
    PROVE  Share(c, job, kind) \in SubmittedShare
  <1>1. client[c] \in ClientObject /\ left.submits \in Nat
    BY DEF TypeOK, Budgets
  <1>2. job.id % JobsSize \in 0 .. JobsSize - 1
    <2>1. job.id \in Nat /\ JobsSize \in Nat \ {0}
      BY StratumAssumption DEF Job
    <2> QED
      BY <2>1, ModRange, Zenon
  <1>3. client[c].jobs[job.id % JobsSize] \in Job
    BY <1>1, <1>2 DEF ClientObject
  <1> QED
    BY <1>1, <1>3 DEF Share, SubmittedShare, ClientObject, Job

LEMMA SentType ==
    ASSUME TypeOK, NEW c \in Client, NEW job, NEW kind, <<job, kind>> \in Sends(c)
    PROVE  /\ job \in Job /\ kind \in {"good", "low", "weak", "fake"}
           /\ kind \in {"good", "low"} => job \in work[c]
           /\ kind = "fake" => job.id # 0 /\ client[c].miner \notin Honest
  <1>1. ASSUME NEW i \in 1 .. JobsSize
        PROVE  [NoJob EXCEPT !.id = i] \in Job /\ [NoJob EXCEPT !.id = i].id = i
    BY StratumAssumption DEF NoJob, Job
  <1>2. work[c] \subseteq Job
    BY DEF TypeOK
  <1> DEFINE any == {[NoJob EXCEPT !.id = i] : i \in 1 .. JobsSize}
  <1>3. <<job, kind>> \in (work[c] \X {"good", "low"}) \cup
            IF client[c].miner \in Honest THEN {} ELSE any \X {"weak", "fake"}
    BY Zenon DEF Sends
  <1>4. ASSUME NEW j \in any PROVE j \in Job /\ j.id # 0
    <2>1. PICK i \in 1 .. JobsSize : j = [NoJob EXCEPT !.id = i]
      BY Zenon
    <2>2. i # 0
      BY StratumAssumption
    <2> QED
      BY ONLY <1>1, <2>1, <2>2, Zenon
  <1> HIDE DEF any
  <1>5. CASE <<job, kind>> \in work[c] \X {"good", "low"}
    <2>1. job \in work[c] /\ kind \in {"good", "low"}
      BY <1>5
    <2> QED
      BY <1>2, <2>1
  <1>6. CASE client[c].miner \notin Honest /\ <<job, kind>> \in any \X {"weak", "fake"}
    <2>1. job \in any /\ kind \in {"weak", "fake"}
      BY <1>6
    <2> QED
      BY <1>4, <1>6, <2>1
  <1>7. \/ <<job, kind>> \in work[c] \X {"good", "low"}
        \/ client[c].miner \notin Honest /\ <<job, kind>> \in any \X {"weak", "fake"}
    <2>1. CASE client[c].miner \in Honest
      BY ONLY <1>3, <2>1
    <2>2. CASE client[c].miner \notin Honest
      BY ONLY <1>3, <2>2
    <2> QED
      BY <2>1, <2>2
  <1> QED
    BY <1>5, <1>6, <1>7

LEMMA MoveType ==
    ASSUME TypeOK, NEW s \in shares, NEW at \in {"queued", "checked", "done"},
           NEW result \in {"none", "ok", "stale", "invalid", "unchecked"}, Move(s, at, result)
    PROVE  /\ shares' \subseteq SubmittedShare
           /\ \A x \in shares' :
                 \/ x \in shares /\ x # s
                 \/ /\ x.client = s.client /\ x.miner = s.miner /\ x.resets = s.resets
                    /\ x.kind = s.kind /\ x.work = s.work /\ x.template = s.template
                    /\ x.nonce = s.nonce /\ x.at = at /\ x.result = result
           /\ \A x \in shares : x # s => x \in shares'
           /\ \E x \in shares' : x.template = s.template /\ x.at = at
  <1> DEFINE y == [s EXCEPT !.at = at, !.result = result]
  <1>1. s \in SubmittedShare
    BY DEF TypeOK
  <1>2. /\ y \in SubmittedShare
        /\ y.client = s.client /\ y.miner = s.miner /\ y.resets = s.resets
        /\ y.kind = s.kind /\ y.work = s.work /\ y.template = s.template
        /\ y.nonce = s.nonce /\ y.at = at /\ y.result = result
    BY <1>1 DEF SubmittedShare
  <1>3. shares' = (shares \ {s}) \cup {y}
    BY DEF Move
  <1> HIDE DEF y
  <1> QED
    BY <1>2, <1>3 DEF TypeOK

\* The verdict on a share
LEMMA Verdict ==
    ASSUME TypeOK, RingInv, ShareInv, NEW s \in shares
    PROVE  /\ Judge(s) \in {"ok", "stale", "invalid"}
           /\ Judge(s) = "invalid" => s.kind = "fake"
  <1>1. s.template \in 1 .. templateId /\ (s.kind = "good" => s.work = <<s.template, s.nonce>>)
        /\ s.kind \in {"good", "fake"}
    BY DEF ShareInv, TypeOK, SubmittedShare
  <1>2. Available(s.template) => Found(s.template) = s.template
    BY <1>1, AvailableIsWindow DEF TypeOK
  <1> QED
    BY <1>1, <1>2 DEF Judge

\* How the shares change: one is new, one moves on, or some leave
SharesStep ==
    \/ shares' \subseteq shares
    \/ \E c \in Client, job \in Job, kind \in {"good", "fake"} :
          /\ <<job, kind>> \in Sends(c) /\ Up(c) /\ JobFound(c, job.id)
          /\ offended' = offended \cup IF kind = "fake" THEN {client[c].miner} ELSE {}
          /\ shares' = shares \cup {Share(c, job, kind)} /\ UNCHANGED <<client, templateVars>>
    \/ \E s \in shares, at \in {"queued", "checked", "done"},
          result \in {"none", "ok", "stale", "invalid", "unchecked"} :
          /\ Move(s, at, result)
          /\ result = "invalid" => s.result = "invalid" \/ s.kind = "fake"

LEMMA SharesSteps ==
    ASSUME TypeOK, RingInv, ShareInv, Next
    PROVE  SharesStep /\ shares' \subseteq SubmittedShare
  <1>1. ASSUME shares' \subseteq shares PROVE SharesStep /\ shares' \subseteq SubmittedShare
    BY <1>1 DEF SharesStep, TypeOK
  <1>2. ASSUME NEW c \in Client, NEW job, NEW kind, OnSubmit(c, job, kind)
        PROVE  SharesStep /\ shares' \subseteq SubmittedShare
    <2>1. CASE UNCHANGED shares
      BY <1>1, <2>1
    <2>2. CASE shares' # shares
      <3>1. /\ <<job, kind>> \in Sends(c) /\ Up(c) /\ JobFound(c, job.id)
            /\ shares' = shares \cup {Share(c, job, kind)} /\ UNCHANGED <<client, templateVars>>
            /\ kind \notin {"low", "weak"}
            /\ offended' = offended \cup IF kind \in {"weak", "fake"} THEN {client[c].miner} ELSE {}
        BY <1>2, <2>2 DEF OnSubmit, SubmitLow
      <3>2. job \in Job /\ kind \in {"good", "fake"}
        BY <3>1, SentType
      <3>3. Share(c, job, kind) \in SubmittedShare
        BY <3>2, ShareType
      <3>4. offended' = offended \cup IF kind = "fake" THEN {client[c].miner} ELSE {}
        BY <3>1, <3>2
      <3> QED
        BY <3>1, <3>2, <3>3, <3>4 DEF SharesStep, TypeOK
    <2> QED
      BY <2>1, <2>2
  <1>3. ASSUME NEW s \in shares, CheckShare(s) PROVE SharesStep /\ shares' \subseteq SubmittedShare
    <2> DEFINE at == IF Judge(s) = "ok" THEN "checked" ELSE "done"
    <2>1. Judge(s) \in {"none", "ok", "stale", "invalid", "unchecked"}
          /\ (Judge(s) = "invalid" => s.kind = "fake")
      BY Verdict
    <2>2. Move(s, at, Judge(s)) /\ at \in {"queued", "checked", "done"}
      BY <1>3 DEF CheckShare
    <2> HIDE DEF at
    <2> QED
      BY <2>1, <2>2, MoveType DEF SharesStep
  <1>4. ASSUME NEW s \in shares, CheckShareFails(s) \/ SubmitShare(s)
        PROVE  SharesStep /\ shares' \subseteq SubmittedShare
    <2>1. s.result \in {"none", "ok", "stale", "invalid", "unchecked"}
      BY DEF TypeOK, SubmittedShare
    <2>2. Move(s, "done", "unchecked") \/ Move(s, "done", s.result)
      BY <1>4 DEF CheckShareFails, SubmitShare
    <2> QED
      BY <2>1, <2>2, MoveType DEF SharesStep
  <1>5. ASSUME NEW s \in shares, AfterShare(s) PROVE SharesStep /\ shares' \subseteq SubmittedShare
    BY <1>1, <1>5 DEF AfterShare
  <1>6. ASSUME UNCHANGED shares PROVE SharesStep /\ shares' \subseteq SubmittedShare
    BY <1>1, <1>6
  <1> QED
    BY <1>2, <1>3, <1>4, <1>5, <1>6
       DEF Next, UpdateTemplate, OnBlock, OnBlockCount, OnBlockNonces, OnBlockQueue, Connect,
           Disconnect, OnConnectionClose, BadRequest, OnLogin, OnLoginUnanswered, OnBlobsReady

-----------------------------------------------------------------------------
(* Main, the extra nonces and the blobs                                    *)

LEMMA MainStep ==
    ASSUME TypeOK, JobInv, NonceInv, Next, templateId' \in Nat, templateId <= templateId'
    PROVE  /\ main' \in [at : {"idle", "updated", "counted", "ranged"}, n : Nat]
           /\ extraNonce' \in Nat \X Nat /\ wake' \in BOOLEAN
           /\ blobs' \in Seq(Blob)
           /\ \A i \in 1 .. Len(blobs') : blobs'[i].template \in 1 .. templateId'
  <1> DEFINE Goal == /\ main' \in [at : {"idle", "updated", "counted", "ranged"}, n : Nat]
                     /\ extraNonce' \in Nat \X Nat /\ wake' \in BOOLEAN
                     /\ blobs' \in Seq(Blob)
                     /\ \A i \in 1 .. Len(blobs') : blobs'[i].template \in 1 .. templateId'
  <1> SUFFICES Goal
    OBVIOUS
  <1>0. /\ main \in [at : {"idle", "updated", "counted", "ranged"}, n : Nat]
        /\ extraNonce \in Nat \X Nat /\ wake \in BOOLEAN /\ blobs \in Seq(Blob)
        /\ templateId \in Nat \ {0} /\ list \in Seq(Client)
    BY DEF TypeOK, TemplateTypeOK, Blob
  <1>1. ASSUME UNCHANGED blobs
        PROVE  \A i \in 1 .. Len(blobs') : blobs'[i].template \in 1 .. templateId'
    BY <1>0, <1>1 DEF JobInv
  <1>2. CASE UpdateTemplate
    BY <1>0, <1>1, <1>2 DEF UpdateTemplate
  <1>3. CASE OnBlockCount
    BY <1>0, <1>1, <1>3 DEF OnBlockCount
  <1>4. CASE OnBlockNonces
    <2>1. extraNonce' \in Nat \X Nat
      BY <1>0, <1>4 DEF OnBlockNonces
    <2> QED
      BY <1>0, <1>1, <1>4, <2>1 DEF OnBlockNonces
  <1>5. CASE OnBlockQueue
    <2> DEFINE new == [range |-> extraNonce[1], n |-> main.n, template |-> templateId]
    <2>1. new \in Blob /\ new.template = templateId
      BY <1>0 DEF Blob
    <2>2. blobs' = Append(blobs, new)
      BY <1>5 DEF OnBlockQueue
    <2> HIDE DEF new
    <2>3. /\ blobs' \in Seq(Blob) /\ Len(blobs') = Len(blobs) + 1
          /\ \A i \in 1 .. Len(blobs) : blobs'[i] = blobs[i]
          /\ blobs'[Len(blobs) + 1] = new
      BY <1>0, <2>1, <2>2
    <2>4. ASSUME NEW i \in 1 .. Len(blobs') PROVE blobs'[i].template \in 1 .. templateId'
      <3>1. Len(blobs) \in Nat
        BY <1>0
      <3>2. CASE i \in 1 .. Len(blobs)
        <4>1. blobs'[i] = blobs[i] /\ blobs[i].template \in 1 .. templateId
          BY <2>3, <3>2 DEF JobInv
        <4>2. 1 .. templateId \subseteq 1 .. templateId'
          BY <1>0
        <4> QED
          BY ONLY <4>1, <4>2, Zenon
      <3>3. CASE i = Len(blobs) + 1
        BY <1>0, <2>1, <2>3, <3>3
      <3> QED
        BY <2>3, <3>1, <3>2, <3>3
    <2>5. main' = [at |-> "idle", n |-> 0] /\ wake' = TRUE /\ extraNonce' = extraNonce
      BY <1>5 DEF OnBlockQueue
    <2> QED
      BY <1>0, <2>3, <2>4, <2>5
  <1>6. CASE OnBlobsReady
    <2>1. blobs' = <<>> /\ wake' = FALSE /\ UNCHANGED <<main, extraNonce>>
      BY <1>6 DEF OnBlobsReady
    <2>2. blobs' \in Seq(Blob)
      BY <2>1
    <2>3. 1 .. Len(blobs') = {}
      BY <2>1
    <2>4. \A i \in 1 .. Len(blobs') : blobs'[i].template \in 1 .. templateId'
      BY ONLY <2>3, Zenon
    <2> QED
      BY ONLY <1>0, <2>1, <2>2, <2>4
  <1>7. ASSUME NEW c \in Client, OnLogin(c) \/ OnLoginUnanswered(c) PROVE Goal
    <2>1. extraNonce' = [extraNonce EXCEPT ![2] = @ + 1] /\ UNCHANGED <<main, blobs, wake>>
      BY <1>7 DEF OnLogin, OnLoginUnanswered
    <2>2. extraNonce' \in Nat \X Nat
      BY <1>0, <2>1
    <2> QED
      BY <1>0, <1>1, <2>1, <2>2
  <1>8. ASSUME UNCHANGED <<mainVars, wake>> PROVE Goal
    BY <1>0, <1>1, <1>8 DEF mainVars
  <1> HIDE DEF Goal
  <1> QED
    BY <1>2, <1>3, <1>4, <1>5, <1>6, <1>7, <1>8
       DEF Next, OnBlock, Connect, Disconnect, OnConnectionClose, BadRequest, OnSubmit,
           CheckShare, CheckShareFails, SubmitShare, AfterShare

\* Whom an action bans, it has a reason to ban
LEMMA BansStep ==
    ASSUME TypeOK, ShareInv, InnocentNeverBanned, Next
    PROVE  /\ bans' \subseteq Miner /\ offended' \subseteq Miner
           /\ offended \subseteq offended' /\ InnocentNeverBanned'
  <1> DEFINE Goal == /\ bans' \subseteq Miner /\ offended' \subseteq Miner
                     /\ offended \subseteq offended' /\ bans' \subseteq offended'
  <1> SUFFICES Goal
    BY DEF InnocentNeverBanned
  <1>0. /\ bans \subseteq Miner /\ offended \subseteq Miner /\ bans \subseteq offended
        /\ \A c \in Client : client[c].miner \in Miner
        /\ \A s \in shares : s.client \in Client /\ s.miner \in Miner
    BY DEF TypeOK, InnocentNeverBanned, ClientObject, SubmittedShare
  <1>1. ASSUME NEW c \in Client, BadRequest(c) \/ OnLoginUnanswered(c) PROVE Goal
    <2>1. Offence(c)
      BY <1>1 DEF BadRequest, OnLoginUnanswered
    <2> QED
      BY <1>0, <2>1 DEF Offence
  <1>2. CASE OnBlobsReady
    <2>1. PICK fails \in SUBSET ToSet(list), late \in SUBSET ToSet(list) :
              SendBlobs(Last(blobs), fails, late)
      BY <1>2 DEF OnBlobsReady
    <2> DEFINE miners == {client[c].miner : c \in late}
    <2>2. bans' = bans \cup miners /\ offended' = offended \cup miners
      BY <2>1 DEF SendBlobs
    <2>3. miners \subseteq Miner
      <3>1. late \subseteq Client
        BY MembersOfSeq DEF TypeOK
      <3> QED
        BY <1>0, <3>1
    <2> HIDE DEF miners
    <2> QED
      BY <1>0, <2>2, <2>3
  <1>3. ASSUME NEW c \in Client, NEW job, NEW kind, OnSubmit(c, job, kind) PROVE Goal
    <2> DEFINE m == client[c].miner
    <2>1. m \in Miner
      BY <1>0
    <2>2. offended' = offended \cup IF kind \in {"weak", "fake"} THEN {m} ELSE {}
      BY <1>3 DEF OnSubmit
    <2>3. bans' = bans \/ (kind = "weak" /\ bans' = bans \cup {m})
      <3>1. UNCHANGED bans \/ SubmitLow(c, kind)
        BY <1>3 DEF OnSubmit
      <3> QED
        BY <3>1 DEF SubmitLow
    <2> HIDE DEF m
    <2> QED
      BY <1>0, <2>1, <2>2, <2>3
  <1>4. ASSUME NEW s \in shares, AfterShare(s) PROVE Goal
    <2> DEFINE m == client[s.client].miner
    <2>1. UNCHANGED offended
      BY <1>4 DEF AfterShare
    <2>2. s.result = "invalid" => s.miner \in offended
      BY DEF ShareInv
    <2>3. SameConnection(s) => m = s.miner
      BY DEF ShareInv, SameConnection
    <2>4. \/ bans' = bans
          \/ s.result = "invalid" /\ SameConnection(s) /\ bans' = bans \cup {m}
          \/ s.result = "invalid" /\ bans' = bans \cup {s.miner}
      BY <1>4 DEF AfterShare
    <2> HIDE DEF m
    <2> QED
      BY <1>0, <2>1, <2>2, <2>3, <2>4
  <1>5. ASSUME UNCHANGED banVars PROVE Goal
    BY <1>0, <1>5 DEF banVars
  <1> HIDE DEF Goal
  <1> QED
    BY <1>1, <1>2, <1>3, <1>4, <1>5
       DEF Next, UpdateTemplate, OnBlock, OnBlockCount, OnBlockNonces, OnBlockQueue, Connect,
           Disconnect, OnConnectionClose, OnLogin, CheckShare, CheckShareFails, SubmitShare

-----------------------------------------------------------------------------
(* Shares                                                                  *)

\* A connection that a share came over still has its miner, or is over
LEMMA UserStep ==
    ASSUME TypeOK, ClientTypes', ClientsStep, NEW c \in Client, NEW n \in Nat, NEW m \in Miner,
           n <= client[c].resets,
           n = client[c].resets => client[c].at # "free" /\ client[c].miner = m
    PROVE  /\ n <= client'[c].resets
           /\ n = client'[c].resets => client'[c].at # "free" /\ client'[c].miner = m
  <1>0. client[c].resets \in Nat
    BY DEF TypeOK, ClientObject
  <1>1. CASE SameUser(c)
    BY <1>1 DEF SameUser
  <1>2. CASE Taken(c)
    BY <1>2 DEF Taken
  <1>3. CASE WasReset(c)
    BY <1>0, <1>3 DEF WasReset
  <1>4. SameUser(c) \/ Taken(c) \/ WasReset(c)
    BY DEF ClientsStep, Stays, Quiet, GetsJob
  <1> QED
    BY <1>1, <1>2, <1>3, <1>4


LEMMA ShareStep ==
    ASSUME TypeOK, JobInv, ShareInv, TypeOK', templateId <= templateId', ClientsStep, SharesStep,
           offended \subseteq offended'
    PROVE  ShareInv'
  <1> DEFINE Kept(s) ==
                 /\ s.template \in 1 .. templateId'
                 /\ s.kind = "good" => s.work = <<s.template, s.nonce>>
                 /\ s.kind = "fake" => s.miner \in offended' /\ s.miner \notin Honest
                 /\ s.resets <= client'[s.client].resets
                 /\ s.resets = client'[s.client].resets =>
                       client'[s.client].at # "free" /\ client'[s.client].miner = s.miner
             Fair(s) == s.result = "invalid" => s.kind = "fake"
  <1>0. templateId \in Nat /\ 1 .. templateId \subseteq 1 .. templateId' /\ ClientTypes'
        /\ shares \subseteq SubmittedShare
    BY DEF TypeOK, TemplateTypeOK, ClientTypes
  <1>1. ASSUME NEW s \in shares PROVE Kept(s) /\ Fair(s)
    <2>1. s.client \in Client /\ s.resets \in Nat /\ s.miner \in Miner
      BY <1>0 DEF SubmittedShare
    <2>2. /\ s.resets <= client[s.client].resets
          /\ s.resets = client[s.client].resets =>
                client[s.client].at # "free" /\ client[s.client].miner = s.miner
      BY DEF ShareInv
    <2>3. /\ s.resets <= client'[s.client].resets
          /\ s.resets = client'[s.client].resets =>
                client'[s.client].at # "free" /\ client'[s.client].miner = s.miner
      BY <1>0, <2>1, <2>2, UserStep
    <2>4. /\ s.template \in 1 .. templateId'
          /\ s.kind = "good" => s.work = <<s.template, s.nonce>>
          /\ s.kind = "fake" => s.miner \in offended' /\ s.miner \notin Honest
          /\ s.result = "invalid" => s.kind = "fake"
      BY <1>0, Zenon DEF ShareInv
    <2> QED
      BY <2>3, <2>4
  <1> SUFFICES \A x \in shares' : Kept(x) /\ Fair(x)
    BY Zenon DEF ShareInv
  <1>2. CASE shares' \subseteq shares
    BY ONLY <1>1, <1>2, Zenon
  <1>3. ASSUME NEW c \in Client, NEW job \in Job, NEW kind \in {"good", "fake"},
               <<job, kind>> \in Sends(c), Up(c), JobFound(c, job.id),
               offended' = offended \cup IF kind = "fake" THEN {client[c].miner} ELSE {},
               shares' = shares \cup {Share(c, job, kind)}, UNCHANGED <<client, templateVars>>
        PROVE  \A x \in shares' : Kept(x) /\ Fair(x)
    <2> DEFINE x == Share(c, job, kind)
               saved == client[c].jobs[job.id % JobsSize]
    <2>1. /\ x.client = c /\ x.miner = client[c].miner /\ x.resets = client[c].resets
          /\ x.kind = kind /\ x.result = "none" /\ x.template = saved.template
          /\ x.nonce = saved.nonce /\ x.work = <<job.template, job.nonce>>
      BY DEF Share
    <2>2. /\ kind = "good" => job \in work[c]
          /\ kind = "fake" => job.id # 0 /\ client[c].miner \notin Honest
      BY <1>3, SentType
    <2>3. job.id \in Nat /\ job.id % JobsSize \in 0 .. JobsSize - 1
      <3>1. job.id \in Nat /\ JobsSize \in Nat \ {0}
        BY StratumAssumption DEF Job
      <3> QED
        BY <3>1, ModRange, Zenon
    <2>4. kind = "good" => saved = job /\ job.id # 0
      BY <1>3, <2>2 DEF JobInv
    <2>5. saved.id = job.id
      BY <1>3 DEF JobFound
    <2>6. saved.template \in 1 .. templateId
      <3>1. saved.id # 0
        BY <2>2, <2>4, <2>5
      <3> QED
        BY <2>3, <3>1 DEF JobInv
    <2>7. client'[c].at # "free"
      BY <1>3 DEF Up
    <2>8. client[c].resets \in Nat
      BY DEF TypeOK, ClientObject
    <2> HIDE DEF x, saved
    <2>9. x.template \in 1 .. templateId' /\ (x.kind = "good" => x.work = <<x.template, x.nonce>>)
      BY <1>0, <2>1, <2>4, <2>6
    <2>10. x.kind = "fake" => x.miner \in offended' /\ x.miner \notin Honest
      BY <1>3, <2>1, <2>2
    <2>11. /\ x.resets <= client'[x.client].resets
           /\ x.resets = client'[x.client].resets =>
                 client'[x.client].at # "free" /\ client'[x.client].miner = x.miner
      BY <1>3, <2>1, <2>7, <2>8
    <2>12. Kept(x) /\ Fair(x)
      BY ONLY <2>1, <2>9, <2>10, <2>11
    <2>13. shares' = shares \cup {x}
      BY <1>3 DEF x
    <2> HIDE DEF Kept, Fair
    <2> QED
      BY ONLY <1>1, <2>12, <2>13, Zenon
  <1>4. ASSUME NEW s \in shares, NEW at \in {"queued", "checked", "done"},
               NEW result \in {"none", "ok", "stale", "invalid", "unchecked"},
               Move(s, at, result), result = "invalid" => s.result = "invalid" \/ s.kind = "fake"
        PROVE  \A x \in shares' : Kept(x) /\ Fair(x)
    <2> SUFFICES ASSUME NEW x \in shares', x \notin shares PROVE Kept(x) /\ Fair(x)
      BY <1>1, Zenon
    <2>1. /\ x.client = s.client /\ x.miner = s.miner /\ x.resets = s.resets
          /\ x.kind = s.kind /\ x.work = s.work /\ x.template = s.template
          /\ x.nonce = s.nonce /\ x.result = result
      BY <1>4, MoveType
    <2>2. Kept(s) /\ Fair(s)
      BY <1>1
    <2>3. Kept(x)
      BY ONLY <2>1, <2>2
    <2>4. Fair(x)
      BY ONLY <1>4, <2>1, <2>2
    <2> QED
      BY <2>3, <2>4
  <1> HIDE DEF Kept, Fair
  <1> QED
    BY <1>2, <1>3, <1>4 DEF SharesStep

LEMMA CountedStep ==
    ASSUME TypeOK, RingInv, ShareInv, CountedShareReachesChain, Next, templateId <= templateId',
           templateId' \in Nat
    PROVE  CountedShareReachesChain'
  <1> DEFINE Reaches(t) == \/ t \in chain'
                           \/ t + OldTemplates < templateId'
                           \/ \E s \in shares' : s.template = t /\ s.at = "checked"
  <1>0. templateId \in Nat /\ OldTemplates \in Nat /\ accepted \subseteq Nat
    BY TemplateAssumption DEF TypeOK, TemplateTypeOK
  <1>1. ASSUME chain \subseteq chain', NEW t \in accepted,
               \A s \in shares : s.template = t /\ s.at = "checked" =>
                   \/ Reaches(t)
                   \/ s \in shares'
        PROVE  Reaches(t)
    <2>1. \/ t \in chain
          \/ t + OldTemplates < templateId
          \/ \E s \in shares : s.template = t /\ s.at = "checked"
      BY DEF CountedShareReachesChain
    <2>2. t + OldTemplates < templateId => t + OldTemplates < templateId'
      BY <1>0
    <2> QED
      BY ONLY <1>1, <2>1, <2>2, Zenon
  <1> SUFFICES ASSUME NEW t \in accepted' PROVE Reaches(t)
    BY DEF CountedShareReachesChain
  <1>2. ASSUME shares \subseteq shares', chain \subseteq chain', UNCHANGED accepted
        PROVE  Reaches(t)
    <2>1. t \in accepted /\ \A s \in shares : s \in shares'
      BY <1>2
    <2> HIDE DEF Reaches
    <2> QED
      BY <1>1, <1>2, <2>1
  <1>3. ASSUME NEW s \in shares, CheckShare(s) PROVE Reaches(t)
    <2> DEFINE at == IF Judge(s) = "ok" THEN "checked" ELSE "done"
    <2>1. Judge(s) \in {"none", "ok", "stale", "invalid", "unchecked"}
      BY Verdict
    <2>2. Move(s, at, Judge(s)) /\ at \in {"queued", "checked", "done"} /\ s.at = "queued"
          /\ (Judge(s) = "ok" => at = "checked") /\ UNCHANGED chain
          /\ accepted' = accepted \cup IF Judge(s) = "ok" THEN {s.template} ELSE {}
      BY <1>3 DEF CheckShare, templateVars
    <2> HIDE DEF at
    <2>3. /\ \A x \in shares : x # s => x \in shares'
          /\ \E x \in shares' : x.template = s.template /\ x.at = at
      BY <2>1, <2>2, MoveType
    <2>4. CASE t \in accepted
      <3>1. \A x \in shares : x.template = t /\ x.at = "checked" => x \in shares'
        BY <2>2, <2>3
      <3> HIDE DEF Reaches
      <3> QED
        BY <1>1, <2>2, <2>4, <3>1
    <2>5. CASE Judge(s) = "ok" /\ t = s.template
      BY <2>2, <2>3, <2>5
    <2> QED
      BY <2>2, <2>4, <2>5
  <1>4. ASSUME NEW s \in shares, CheckShareFails(s) PROVE Reaches(t)
    <2>1. Move(s, "done", "unchecked") /\ s.at = "queued" /\ UNCHANGED <<chain, accepted>>
      BY <1>4 DEF CheckShareFails, templateVars
    <2>2. \A x \in shares : x # s => x \in shares'
      BY <2>1, MoveType
    <2>3. \A x \in shares : x.template = t /\ x.at = "checked" => x \in shares'
      BY <2>1, <2>2
    <2> HIDE DEF Reaches
    <2> QED
      BY <1>1, <2>1, <2>3
  <1>5. ASSUME NEW s \in shares, AfterShare(s) PROVE Reaches(t)
    <2>1. shares' = shares \ {s} /\ s.at = "done" /\ UNCHANGED <<chain, accepted>>
      BY <1>5 DEF AfterShare, templateVars
    <2>2. \A x \in shares : x.template = t /\ x.at = "checked" => x \in shares'
      BY <2>1
    <2> HIDE DEF Reaches
    <2> QED
      BY <1>1, <2>1, <2>2
  <1>6. ASSUME NEW s \in shares, SubmitShare(s) PROVE Reaches(t)
    <2>1. /\ Move(s, "done", s.result) /\ UNCHANGED <<templateId, accepted>>
          /\ chain' = chain \cup IF Available(s.template) THEN {Found(s.template)} ELSE {}
          /\ s.result \in {"none", "ok", "stale", "invalid", "unchecked"}
      BY <1>6 DEF SubmitShare, SubmitSidechainBlock, TypeOK, SubmittedShare
    <2>2. \A x \in shares : x # s => x \in shares'
      BY <2>1, MoveType
    <2>3. s.template \in 1 .. templateId
      BY DEF ShareInv
    <2>4. /\ Available(s.template) <=> s.template + OldTemplates >= templateId
          /\ Available(s.template) => Found(s.template) = s.template
      BY <2>3, AvailableIsWindow DEF TypeOK
    <2>5. s.template \in chain' \/ s.template + OldTemplates < templateId'
      <3>1. CASE Available(s.template)
        BY <2>1, <2>4, <3>1
      <3>2. CASE ~Available(s.template)
        BY <1>0, <2>1, <2>3, <2>4, <3>2
      <3> QED
        BY <3>1, <3>2
    <2>6. s.template = t => Reaches(t)
      BY <2>5
    <2>7. \A x \in shares : x.template = t /\ x.at = "checked" => Reaches(t) \/ x \in shares'
      BY <2>2, <2>6, Zenon
    <2>8. chain \subseteq chain' /\ t \in accepted
      BY <2>1
    <2> HIDE DEF Reaches
    <2> QED
      BY <1>1, <2>7, <2>8
  <1>7. ASSUME NEW c \in Client, NEW job, NEW kind, OnSubmit(c, job, kind) PROVE Reaches(t)
    <2>1. UNCHANGED <<chain, accepted>>
      BY <1>7 DEF OnSubmit, templateVars
    <2>2. shares \subseteq shares'
      BY <1>7 DEF OnSubmit, SubmitLow
    <2> QED
      BY <1>2, <2>1, <2>2
  <1>8. CASE UpdateTemplate
    <2>1. UNCHANGED <<chain, accepted, shares>>
      BY <1>8 DEF UpdateTemplate, Update, templateVars
    <2> QED
      BY <1>2, <2>1
  <1>9. ASSUME UNCHANGED <<chain, accepted, shares>> PROVE Reaches(t)
    BY <1>2, <1>9
  <1> HIDE DEF Reaches
  <1> QED
    BY <1>3, <1>4, <1>5, <1>6, <1>7, <1>8, <1>9
       DEF Next, OnBlock, OnBlockCount, OnBlockNonces, OnBlockQueue, Connect, templateVars,
           Disconnect, OnConnectionClose, BadRequest, OnLogin, OnLoginUnanswered, OnBlobsReady


-----------------------------------------------------------------------------
(* Extra nonces                                                            *)

LEMMA UniqueStep ==
    ASSUME UniqueWork,
           \A d, e \in Client : \A j \in work'[d] \ work[d] : \A k \in work[e] : j.nonce # k.nonce,
           \A d, e \in Client : \A j \in work'[d] \ work[d], k \in work'[e] \ work[e] :
               j.nonce = k.nonce => d = e /\ j.id = k.id
    PROVE  UniqueWork'
  <1> SUFFICES ASSUME NEW d \in Client, NEW e \in Client, NEW j \in work'[d], NEW k \in work'[e],
                      j.template = k.template, j.nonce = k.nonce
               PROVE  d = e /\ j.id = k.id
    BY DEF UniqueWork
  <1>1. CASE j \in work[d] /\ k \in work[e]
    BY <1>1 DEF UniqueWork
  <1>2. CASE j \notin work[d] /\ k \in work[e]
    BY <1>2
  <1>3. CASE j \in work[d] /\ k \notin work[e]
    BY <1>3
  <1>4. CASE j \notin work[d] /\ k \notin work[e]
    BY <1>4
  <1> QED
    BY <1>1, <1>2, <1>3, <1>4

LEMMA JobNonces ==
    ASSUME TypeOK
    PROVE  /\ extraNonce[1] \in Nat /\ extraNonce[2] \in Nat
           /\ \A c \in Client : \A j \in work[c] : j.nonce[1] \in Nat /\ j.nonce[2] \in Nat
           /\ \A i \in 1 .. Len(blobs) : blobs[i].range \in Nat /\ blobs[i].n \in Nat
           /\ blobs \in Seq(Blob) /\ Len(blobs) \in Nat /\ main.n \in Nat
  <1>1. extraNonce \in Nat \X Nat /\ main.n \in Nat /\ blobs \in Seq(Blob)
    BY DEF TypeOK, Blob
  <1>2. Len(blobs) \in Nat /\ \A i \in 1 .. Len(blobs) : blobs[i] \in Blob
    BY <1>1
  <1>3. \A c \in Client : \A j \in work[c] : j.nonce \in Nat \X Nat
    BY DEF TypeOK, Job
  <1> QED
    BY <1>1, <1>2, <1>3 DEF Blob

\* The loop gives the next extra nonces to who logs in
LEMMA LoopNonces ==
    ASSUME TypeOK, NonceInv, UNCHANGED <<main, blobs>>, wake' = TRUE => wake = TRUE,
           extraNonce'[2] \in Nat, extraNonce'[1] = extraNonce[1], extraNonce[2] <= extraNonce'[2],
           \A d \in Client : \A j \in work'[d] :
               \/ j \in work[d]
               \/ /\ j.nonce[1] = extraNonce[1] /\ j.nonce[2] \in Nat
                  /\ extraNonce[2] <= j.nonce[2] /\ j.nonce[2] < extraNonce'[2]
    PROVE  NonceInv'
  <1> DEFINE a == extraNonce[1]
             b == extraNonce[2]
  <1>0. /\ a \in Nat /\ b \in Nat
        /\ \A c \in Client : \A j \in work[c] : j.nonce[1] \in Nat /\ j.nonce[2] \in Nat
        /\ \A i \in 1 .. Len(blobs) : blobs[i].range \in Nat /\ blobs[i].n \in Nat
        /\ main.n \in Nat
    BY JobNonces
  <1>1. extraNonce'[1] = a /\ extraNonce'[2] \in Nat /\ b <= extraNonce'[2]
    OBVIOUS
  <1>2. \A d \in Client : \A j \in work'[d] :
            \/ j \in work[d]
            \/ /\ j.nonce[1] = a /\ j.nonce[2] \in Nat
               /\ b <= j.nonce[2] /\ j.nonce[2] < extraNonce'[2]
    OBVIOUS
  <1>3. ASSUME NEW d \in Client, NEW j \in work'[d] PROVE Given(extraNonce', j.nonce)
    <2>1. CASE j \in work[d]
      <3>1. Given(extraNonce, j.nonce) /\ j.nonce[1] \in Nat /\ j.nonce[2] \in Nat
        BY <1>0, <2>1 DEF NonceInv
      <3> QED
        BY <1>0, <1>1, <3>1 DEF Given
    <2>2. CASE j \notin work[d]
      BY <1>0, <1>1, <1>2, <2>2 DEF Given
    <2> QED
      BY <2>1, <2>2
  <1>4. ASSUME NEW r \in Nat, NEW n \in Nat, Unused(work, r, n), r < a \/ (r = a /\ n <= b)
        PROVE  Unused(work', r, n)
    BY <1>0, <1>2, <1>4 DEF Unused
  <1>5. ASSUME NEW i \in 1 .. Len(blobs)
        PROVE  Reserved(extraNonce', main, blobs[i]) /\ Unused(work', blobs[i].range, blobs[i].n)
    <2>1. blobs[i].range \in Nat /\ blobs[i].n \in Nat
      BY <1>0
    <2>2. Reserved(extraNonce, main, blobs[i]) /\ Unused(work, blobs[i].range, blobs[i].n)
      BY DEF NonceInv
    <2>3. Reserved(extraNonce', main, blobs[i])
      BY <1>0, <1>1, <2>1, <2>2 DEF Reserved
    <2>4. Unused(work', blobs[i].range, blobs[i].n)
      BY <1>0, <1>4, <2>1, <2>2 DEF Reserved
    <2> QED
      BY <2>3, <2>4
  <1>6. ASSUME main.at = "ranged"
        PROVE  main.n <= extraNonce'[2] /\ Unused(work', extraNonce'[1], main.n)
    <2>1. main.n <= b /\ Unused(work, a, main.n)
      BY <1>6 DEF NonceInv
    <2>2. Unused(work', a, main.n)
      BY <1>0, <1>4, <2>1
    <2> QED
      BY <1>0, <1>1, <2>1, <2>2
  <1>7. wake' => blobs # <<>>
    BY DEF NonceInv
  <1>8. main' = main /\ blobs' = blobs
    OBVIOUS
  <1> QED
    BY ONLY <1>3, <1>5, <1>6, <1>7, <1>8, Zenon DEF NonceInv

\* main takes extra nonces for the connections it counted
LEMMA MainNonces ==
    ASSUME TypeOK, NonceInv, UNCHANGED work, UpdateTemplate \/ OnBlock
    PROVE  NonceInv'
  <1> DEFINE a == extraNonce[1]
             b == extraNonce[2]
  <1>0. /\ a \in Nat /\ b \in Nat
        /\ \A c \in Client : \A j \in work[c] : j.nonce[1] \in Nat /\ j.nonce[2] \in Nat
        /\ \A i \in 1 .. Len(blobs) : blobs[i].range \in Nat /\ blobs[i].n \in Nat
        /\ main.n \in Nat /\ blobs \in Seq(Blob) /\ Len(blobs) \in Nat
    BY JobNonces
  <1>1. CASE UpdateTemplate \/ OnBlockCount
    <2>1. main.at # "ranged" /\ main'.at # "ranged" /\ UNCHANGED <<extraNonce, blobs, wake>>
      BY <1>1 DEF UpdateTemplate, OnBlockCount, TypeOK
    <2> QED
      BY <2>1 DEF NonceInv, Reserved
  <1>2. CASE OnBlockNonces
    <2>1. /\ extraNonce'[1] = a + 1 /\ extraNonce'[2] = main.n /\ main'.at = "ranged"
          /\ main'.n = main.n /\ UNCHANGED <<blobs, wake>>
      BY <1>2 DEF OnBlockNonces, TypeOK
    <2>2. \A c \in Client : \A j \in work[c] : Given(extraNonce, j.nonce)
      BY DEF NonceInv
    <2>3. \A c \in Client : \A j \in work[c] : j.nonce[1] <= a
      BY <1>0, <2>2 DEF Given
    <2>4. \A c \in Client : \A j \in work[c] : Given(extraNonce', j.nonce)
      BY <1>0, <2>1, <2>3 DEF Given
    <2>5. ASSUME NEW i \in 1 .. Len(blobs)
          PROVE  Reserved(extraNonce', main', blobs[i]) /\ Unused(work, blobs[i].range, blobs[i].n)
      <3>1. Reserved(extraNonce, main, blobs[i]) /\ Unused(work, blobs[i].range, blobs[i].n)
            /\ blobs[i].range \in Nat
        BY <1>0 DEF NonceInv
      <3> QED
        BY <1>0, <2>1, <3>1 DEF Reserved
    <2>6. main'.n <= extraNonce'[2] /\ Unused(work, extraNonce'[1], main'.n)
      BY <1>0, <2>1, <2>3 DEF Unused
    <2>7. wake' => blobs' # <<>>
      BY <2>1 DEF NonceInv
    <2>8. work' = work /\ blobs' = blobs
      BY <2>1
    <2> QED
      BY ONLY <2>4, <2>5, <2>6, <2>7, <2>8, Zenon DEF NonceInv
  <1>3. CASE OnBlockQueue
    <2> DEFINE new == [range |-> a, n |-> main.n, template |-> templateId]
    <2>1. /\ blobs' = Append(blobs, new) /\ main'.at # "ranged" /\ main.at = "ranged"
          /\ extraNonce' = extraNonce
      BY <1>3 DEF OnBlockQueue
    <2>2. new.range = a /\ new.n = main.n
      OBVIOUS
    <2>3. new \in Blob
      BY <1>0 DEF Blob, TypeOK, TemplateTypeOK
    <2> HIDE DEF new
    <2>4. /\ Len(blobs') = Len(blobs) + 1 /\ blobs' # <<>>
          /\ \A i \in 1 .. Len(blobs) : blobs'[i] = blobs[i]
          /\ blobs'[Len(blobs) + 1] = new
      BY <1>0, <2>1, <2>3
    <2>5. main.n <= b /\ Unused(work, a, main.n)
      BY <2>1 DEF NonceInv
    <2>6. ASSUME NEW i \in 1 .. Len(blobs)
          PROVE  Reserved(extraNonce, main', blobs[i]) /\ Unused(work, blobs[i].range, blobs[i].n)
      BY <2>1 DEF NonceInv, Reserved
    <2>7. Reserved(extraNonce, main', new) /\ Unused(work, new.range, new.n)
      BY <2>1, <2>2, <2>5 DEF Reserved
    <2>8. ASSUME NEW i \in 1 .. Len(blobs')
          PROVE  /\ Reserved(extraNonce, main', blobs'[i])
                 /\ Unused(work, blobs'[i].range, blobs'[i].n)
      <3>1. i \in 1 .. Len(blobs) \/ i = Len(blobs) + 1
        BY <1>0, <2>4
      <3>2. CASE i \in 1 .. Len(blobs)
        BY <2>4, <2>6, <3>2
      <3>3. CASE i = Len(blobs) + 1
        BY <2>4, <2>7, <3>3
      <3> QED
        BY <3>1, <3>2, <3>3
    <2>9. \A c \in Client : \A j \in work[c] : Given(extraNonce, j.nonce)
      BY DEF NonceInv
    <2>10. work' = work
      OBVIOUS
    <2> QED
      BY ONLY <2>1, <2>4, <2>8, <2>9, <2>10, Zenon DEF NonceInv
  <1> QED
    BY <1>1, <1>2, <1>3 DEF OnBlock

\* A miner who logs in gets an extra nonce that nobody had
LEMMA LoginIsUnique ==
    ASSUME TypeOK, NonceInv, UniqueWork, NEW c \in Client, OnLogin(c)
    PROVE  NonceInv' /\ UniqueWork'
  <1> DEFINE new == NextJob(c, extraNonce, templateId)
  <1>0. /\ extraNonce \in Nat \X Nat /\ work \in [Client -> SUBSET Job]
        /\ \A d \in Client : \A j \in work[d] : j.nonce[1] \in Nat /\ j.nonce[2] \in Nat
    BY JobNonces DEF TypeOK
  <1>1. extraNonce' = [extraNonce EXCEPT ![2] = @ + 1] /\ UNCHANGED <<main, blobs, wake>>
        /\ work' = [work EXCEPT ![c] = @ \cup {new}]
    BY DEF OnLogin
  <1>2. /\ extraNonce[1] \in Nat /\ extraNonce[2] \in Nat
        /\ extraNonce'[1] = extraNonce[1] /\ extraNonce'[2] = extraNonce[2] + 1
    BY <1>0, <1>1
  <1>3. new.nonce = extraNonce
    BY DEF NextJob
  <1> HIDE DEF new
  <1>4. \A d \in Client : \A j \in work'[d] : j \in work[d] \/ (d = c /\ j = new)
    BY <1>0, <1>1
  <1>5. NonceInv'
    <2>1. \A d \in Client : \A j \in work'[d] :
              \/ j \in work[d]
              \/ /\ j.nonce[1] = extraNonce[1] /\ j.nonce[2] \in Nat
                 /\ extraNonce[2] <= j.nonce[2] /\ j.nonce[2] < extraNonce'[2]
      BY <1>2, <1>3, <1>4
    <2>2. extraNonce'[2] \in Nat /\ extraNonce[2] <= extraNonce'[2]
      BY <1>2
    <2> QED
      BY <1>1, <1>2, <2>1, <2>2, LoopNonces
  <1>6. \A d \in Client : \A j \in work[d] : j.nonce # extraNonce
    BY <1>0, <1>2 DEF NonceInv, Given
  <1>7. UniqueWork'
    BY <1>3, <1>4, <1>6, UniqueStep
  <1> QED
    BY <1>5, <1>7

\* on_blobs_ready hands out extra nonces of a range that nobody had, each to one miner
LEMMA BlobsAreUnique ==
    ASSUME TypeOK, ListInv, JobInv, NonceInv, UniqueWork, OnBlobsReady
    PROVE  NonceInv' /\ UniqueWork'
  <1> DEFINE data == Last(blobs)
             r == data.range
  <1>0. /\ wake /\ wake' = FALSE /\ blobs' = <<>> /\ UNCHANGED <<main, extraNonce>>
    BY DEF OnBlobsReady
  <1>1. PICK fails \in SUBSET ToSet(list), late \in SUBSET ToSet(list) :
            SendBlobs(data, fails, late)
    BY DEF OnBlobsReady
  <1>2. Len(blobs) \in 1 .. Len(blobs) /\ data = blobs[Len(blobs)] /\ data \in Blob
        /\ data.template \in 1 .. templateId
    BY <1>0, LastBlob
  <1>3. Reserved(extraNonce, main, data) /\ Unused(work, r, data.n)
    BY <1>2 DEF NonceInv
  <1> DEFINE served == Served(LoggedIn \ fails, data.n)
             index(c) == Index(c, fails)
  <1>4. /\ served \subseteq Client
        /\ \A c \in served : /\ index(c) \in Nat /\ index(c) < data.n
                             /\ GetsJob(c, <<r, index(c)>>, data.template)
                             /\ \A d \in served : index(c) = index(d) => c = d
        /\ \A c \in Client \ served : work'[c] = work[c]
    BY <1>1, <1>2, BlobsSent
  <1>5. r \in Nat /\ data.n \in Nat /\ extraNonce[1] \in Nat /\ extraNonce[2] \in Nat
    BY <1>2, JobNonces DEF Blob
  <1> HIDE DEF data, served, index, r
  <1>6. ASSUME NEW c \in Client, NEW j \in work'[c], j \notin work[c]
        PROVE  /\ c \in served /\ j.nonce = <<r, index(c)>> /\ j.id = client[c].jobId + 1
               /\ j.nonce[1] = r /\ j.nonce[2] = index(c)
    <2>1. c \in served
      BY <1>4, <1>6
    <2>2. j = NextJob(c, <<r, index(c)>>, data.template)
      BY <1>4, <1>6, <2>1 DEF GetsJob, NewJob
    <2> QED
      BY <2>1, <2>2 DEF NextJob
  <1>7. \A c \in Client : \A j \in work'[c] : Given(extraNonce, j.nonce)
    <2> SUFFICES ASSUME NEW c \in Client, NEW j \in work'[c] PROVE Given(extraNonce, j.nonce)
      OBVIOUS
    <2>1. CASE j \in work[c]
      BY <2>1 DEF NonceInv
    <2>2. CASE j \notin work[c]
      <3>1. j.nonce[1] = r /\ j.nonce[2] = index(c) /\ index(c) \in Nat /\ index(c) < data.n
        BY <1>4, <1>6, <2>2
      <3> QED
        BY <1>3, <1>5, <3>1 DEF Given, Reserved, r
    <2> QED
      BY <2>1, <2>2
  <1>8. main.at = "ranged" => main.n <= extraNonce[2] /\ Unused(work', extraNonce[1], main.n)
    <2> SUFFICES ASSUME main.at = "ranged"
                 PROVE  main.n <= extraNonce[2] /\ Unused(work', extraNonce[1], main.n)
      OBVIOUS
    <2>1. r < extraNonce[1]
      BY <1>3 DEF Reserved, r
    <2>2. main.n <= extraNonce[2] /\ Unused(work, extraNonce[1], main.n)
      BY DEF NonceInv
    <2>3. ASSUME NEW c \in Client, NEW j \in work'[c]
          PROVE  ~(j.nonce[1] = extraNonce[1] /\ j.nonce[2] < main.n)
      <3>1. CASE j \in work[c]
        BY <2>2, <3>1 DEF Unused
      <3>2. CASE j \notin work[c]
        BY <1>5, <1>6, <2>1, <3>2
      <3> QED
        BY <3>1, <3>2
    <2> QED
      BY <2>2, <2>3 DEF Unused
  <1>9. NonceInv'
    <2>1. 1 .. Len(blobs') = {}
      BY <1>0
    <2>2. main' = main /\ extraNonce' = extraNonce /\ ~wake'
      BY <1>0
    <2> QED
      BY ONLY <1>7, <1>8, <2>1, <2>2, Zenon DEF NonceInv
  <1>10. UniqueWork'
    <2>1. ASSUME NEW d \in Client, NEW e \in Client, NEW j \in work'[d] \ work[d], NEW k \in work[e]
          PROVE  j.nonce # k.nonce
      <3>1. j.nonce[1] = r /\ j.nonce[2] = index(d) /\ index(d) < data.n
        BY <1>4, <1>6
      <3>2. ~(k.nonce[1] = r /\ k.nonce[2] < data.n)
        BY <1>3 DEF Unused
      <3> QED
        BY <3>1, <3>2
    <2>2. ASSUME NEW d \in Client, NEW e \in Client, NEW j \in work'[d] \ work[d],
                 NEW k \in work'[e] \ work[e], j.nonce = k.nonce
          PROVE  d = e /\ j.id = k.id
      <3>1. /\ d \in served /\ j.nonce[2] = index(d) /\ j.id = client[d].jobId + 1
            /\ e \in served /\ k.nonce[2] = index(e) /\ k.id = client[e].jobId + 1
        BY <1>6
      <3> QED
        BY <1>4, <2>2, <3>1
    <2> QED
      BY <2>1, <2>2, UniqueStep
  <1> QED
    BY <1>9, <1>10

LEMMA NonceStep ==
    ASSUME TypeOK, ListInv, JobInv, NonceInv, UniqueWork, Next
    PROVE  NonceInv' /\ UniqueWork'
  <1>0. work \in [Client -> SUBSET Job] /\ extraNonce \in Nat \X Nat
        /\ extraNonce[1] \in Nat /\ extraNonce[2] \in Nat
    BY DEF TypeOK
  <1>1. ASSUME UNCHANGED <<main, blobs, wake>>, \A c \in Client : work'[c] \subseteq work[c],
               extraNonce'[1] = extraNonce[1], extraNonce'[2] \in Nat,
               extraNonce[2] <= extraNonce'[2]
        PROVE  NonceInv' /\ UniqueWork'
    <2>1. NonceInv'
      BY <1>1, LoopNonces
    <2>2. UniqueWork'
      BY <1>1, UniqueStep
    <2> QED
      BY <2>1, <2>2
  <1>2. CASE UpdateTemplate \/ OnBlock
    <2>1. UNCHANGED work
      BY <1>2 DEF UpdateTemplate, OnBlock, OnBlockCount, OnBlockNonces, OnBlockQueue, connVars
    <2>2. NonceInv'
      BY <1>2, <2>1, MainNonces
    <2>3. UniqueWork'
      BY <2>1, UniqueStep
    <2> QED
      BY <2>2, <2>3
  <1>3. ASSUME NEW c \in Client, OnLogin(c) PROVE NonceInv' /\ UniqueWork'
    BY <1>3, LoginIsUnique
  <1>4. CASE OnBlobsReady
    BY <1>4, BlobsAreUnique
  <1>5. ASSUME NEW c \in Client, OnLoginUnanswered(c) PROVE NonceInv' /\ UniqueWork'
    <2>1. extraNonce' = [extraNonce EXCEPT ![2] = @ + 1] /\ UNCHANGED <<main, blobs, wake, work>>
      BY <1>5 DEF OnLoginUnanswered
    <2>2. extraNonce'[1] = extraNonce[1] /\ extraNonce'[2] = extraNonce[2] + 1
      BY <1>0, <2>1
    <2> QED
      BY <1>0, <1>1, <2>1, <2>2
  <1>6. ASSUME NEW c \in Client, OnConnectionClose(c) PROVE NonceInv' /\ UniqueWork'
    <2>1. UNCHANGED <<main, blobs, wake, extraNonce>> /\ work' = [work EXCEPT ![c] = {}]
      BY <1>6 DEF OnConnectionClose, mainVars
    <2>2. \A d \in Client : work'[d] \subseteq work[d]
      BY <1>0, <2>1
    <2> QED
      BY <1>0, <1>1, <2>1, <2>2
  <1>7. ASSUME UNCHANGED <<mainVars, wake, work>> PROVE NonceInv' /\ UniqueWork'
    BY <1>0, <1>1, <1>7 DEF mainVars
  <1> QED
    BY <1>2, <1>3, <1>4, <1>5, <1>6, <1>7
       DEF Next, Connect, Disconnect, BadRequest, OnSubmit, CheckShare, CheckShareFails,
           SubmitShare, AfterShare, connVars

-----------------------------------------------------------------------------
(* The inductive invariant                                                 *)

IInv ==
    /\ TypeOK /\ RingInv /\ ListInv /\ JobInv /\ ShareInv /\ NonceInv
    /\ UniqueWork /\ InnocentNeverBanned /\ CountedShareReachesChain

LEMMA InvInit == Init => IInv
  <1> SUFFICES ASSUME Init PROVE IInv
    OBVIOUS
  <1>1. TemplateTypeOK /\ RingInv /\ templateId = 1
    BY RingInit DEF Init, TemplateInit
  <1>2. free \in Seq(Client) /\ Distinct(free) /\ ToSet(free) = Client
    BY AllClients DEF Init
  <1>3. list = <<>> /\ list \in Seq(Client) /\ Distinct(list) /\ ToSet(list) = {}
    BY DEF Init, Distinct, ToSet
  <1>4. \A c \in Client : client[c] = NewClient /\ work[c] = {}
    BY DEF Init
  <1>5. NewClient.at = "free" /\ NewClient.jobs = [i \in 0 .. JobsSize - 1 |-> NoJob]
        /\ NoJob.id = 0
    BY DEF NewClient, NoJob
  <1>6. blobs = <<>> /\ blobs \in Seq([range : Nat, n : Nat, template : Nat]) /\ Len(blobs) = 0
        /\ 1 .. Len(blobs) = {}
    BY DEF Init
  <1>7. extraNonce \in Nat \X Nat /\ wake = FALSE /\ main.at = "idle"
        /\ main \in [at : {"idle", "updated", "counted", "ranged"}, n : Nat]
    BY DEF Init
  <1>8. left \in Budgets
    BY StratumAssumption DEF Init
  <1>9. client \in [Client -> ClientObject] /\ work \in [Client -> SUBSET Job]
    BY NewClientType DEF Init
  <1>10. shares = {} /\ accepted = {} /\ bans = {} /\ offended = {}
    BY DEF Init
  <1>11. TypeOK
    BY ONLY <1>1, <1>2, <1>3, <1>6, <1>7, <1>8, <1>9, <1>10 DEF TypeOK
  <1>12. ListInv
    BY <1>2, <1>3, <1>4, <1>5 DEF ListInv
  <1>13. JobInv
    <2>1. \A c \in Client : \A i \in 0 .. JobsSize - 1 : client[c].jobs[i].id = 0
      BY <1>4, <1>5
    <2> QED
      BY ONLY <1>4, <1>6, <2>1, Zenon DEF JobInv
  <1>14. ShareInv /\ InnocentNeverBanned /\ CountedShareReachesChain
    BY <1>10 DEF ShareInv, InnocentNeverBanned, CountedShareReachesChain
  <1>15. NonceInv /\ UniqueWork
    BY ONLY <1>4, <1>6, <1>7, Zenon DEF NonceInv, UniqueWork
  <1> QED
    BY <1>1, <1>11, <1>12, <1>13, <1>14, <1>15 DEF IInv

LEMMA InvNext == IInv /\ [Next]_vars => IInv'
  <1> SUFFICES ASSUME IInv, [Next]_vars PROVE IInv'
    OBVIOUS
  <1>1. CASE Next
    <2>0. /\ TypeOK /\ RingInv /\ ListInv /\ JobInv /\ ShareInv /\ NonceInv
          /\ UniqueWork /\ InnocentNeverBanned /\ CountedShareReachesChain
      BY DEF IInv
    <2>1. ClientTypes' /\ ClientsStep
      BY <1>1, <2>0, ClientSteps
    <2>2. list' \in Seq(Client) /\ free' \in Seq(Client) /\ ListInv'
      BY <2>0, <2>1, ListStep
    <2>3. /\ TemplateTypeOK' /\ RingInv' /\ templateId <= templateId'
          /\ accepted' \subseteq 1 .. templateId'
      BY <1>1, <2>0, TemplateStep
    <2>4. templateId' \in Nat
      BY <2>3 DEF TemplateTypeOK
    <2>5. /\ main' \in [at : {"idle", "updated", "counted", "ranged"}, n : Nat]
          /\ extraNonce' \in Nat \X Nat /\ wake' \in BOOLEAN
          /\ blobs' \in Seq(Blob)
          /\ \A i \in 1 .. Len(blobs') : blobs'[i].template \in 1 .. templateId'
      BY <1>1, <2>0, <2>3, <2>4, MainStep
    <2>6. /\ bans' \subseteq Miner /\ offended' \subseteq Miner
          /\ offended \subseteq offended' /\ InnocentNeverBanned'
      BY <1>1, <2>0, BansStep
    <2>7. SharesStep /\ shares' \subseteq SubmittedShare
      BY <1>1, <2>0, SharesSteps
    <2>8. left' \in Budgets
      BY <1>1, <2>0, BudgetStep
    <2>9. TypeOK'
      BY ONLY <2>1, <2>2, <2>3, <2>5, <2>6, <2>7, <2>8 DEF TypeOK, ClientTypes, Blob
    <2>10. JobInv'
      BY <2>0, <2>1, <2>3, <2>4, <2>5, JobStep
    <2>11. ShareInv'
      BY <2>0, <2>1, <2>3, <2>6, <2>7, <2>9, ShareStep
    <2>12. NonceInv' /\ UniqueWork'
      BY <1>1, <2>0, NonceStep
    <2>13. CountedShareReachesChain'
      BY <1>1, <2>0, <2>3, <2>4, CountedStep
    <2> QED
      BY <2>2, <2>3, <2>6, <2>9, <2>10, <2>11, <2>12, <2>13 DEF IInv
  <1>2. CASE UNCHANGED vars
    <2>0. /\ UNCHANGED <<templateId, oldTemplates, chain, left, main, extraNonce, blobs, wake>>
          /\ UNCHANGED <<list, free, client, work, shares, accepted, bans, offended>>
      BY <1>2 DEF vars, templateVars, mainVars, connVars, banVars
    <2>1. TypeOK' /\ RingInv' /\ ListInv'
      BY <2>0 DEF IInv, TypeOK, TemplateTypeOK, RingInv, ListInv
    <2>2. JobInv' /\ ShareInv'
      BY <2>0 DEF IInv, JobInv, JobFound, ShareInv
    <2>3. NonceInv'
      BY <2>0 DEF IInv, NonceInv
    <2>4. UniqueWork' /\ InnocentNeverBanned' /\ CountedShareReachesChain'
      BY <2>0 DEF IInv, UniqueWork, InnocentNeverBanned, CountedShareReachesChain
    <2> QED
      BY <2>1, <2>2, <2>3, <2>4 DEF IInv
  <1> QED
    BY <1>1, <1>2

\* Clients, jobs, shares, templates and the lists of connections keep their types.
THEOREM StratumTypes == Spec => []TypeOK
  <1>1. IInv => TypeOK
    BY DEF IInv
  <1> QED
    BY InvInit, InvNext, <1>1, PTL DEF Spec

\* No two miners are given the same extra nonce of the same template, however connections
\* come and go between on_block and on_blobs_ready.
THEOREM NobodyWorksTwice == Spec => []UniqueWork
  <1>1. IInv => UniqueWork
    BY DEF IInv
  <1> QED
    BY InvInit, InvNext, <1>1, PTL DEF Spec

\* No reused Client, job or template is held against a miner who did the work: only who
\* gave a reason is banned, and honest work is never found invalid.
THEOREM HonestMinersKeepMining == Spec => []HonestMinersAreSafe
  <1>1. IInv => HonestMinersAreSafe
    BY DEF IInv, HonestMinersAreSafe, HonestWorkIsValid, ShareInv
  <1> QED
    BY InvInit, InvNext, <1>1, PTL DEF Spec

\* A share counted as found gets to the side chain, unless its template is forgotten first.
THEOREM CountedSharesCount == Spec => []CountedShareReachesChain
  <1>1. IInv => CountedShareReachesChain
    BY DEF IInv
  <1> QED
    BY InvInit, InvNext, <1>1, PTL DEF Spec

\* The current template and the ring of old ones are the sliding window of TemplateHistory.
THEOREM RingIsHistory == Spec => RefinesHistory
  <1>1. Init => History!Init
    BY HistoryInit DEF Init
  <1>2. IInv /\ [Next]_vars =>
            [History!Next]_<<templateId, {id \in 1 .. templateId : Available(id)}>>
    <2> SUFFICES ASSUME IInv, [Next]_vars
                 PROVE  [History!Next]_<<templateId, {id \in 1 .. templateId : Available(id)}>>
      OBVIOUS
    <2>1. CASE Update
      BY <2>1, HistoryStep DEF IInv, TypeOK
    <2>2. CASE UNCHANGED <<templateId, oldTemplates>>
      BY <2>2, HistoryStutter
    <2>3. Update \/ UNCHANGED <<templateId, oldTemplates>>
      BY DEF Next, vars, templateVars, UpdateTemplate, OnBlock, OnBlockCount, OnBlockNonces,
             OnBlockQueue, Connect, Disconnect, OnConnectionClose, BadRequest, OnLogin,
             OnLoginUnanswered, OnBlobsReady, OnSubmit, CheckShare, CheckShareFails,
             SubmitShare, AfterShare
    <2> QED
      BY <2>1, <2>2, <2>3
  <1> QED
    BY InvInit, InvNext, <1>1, <1>2, PTL DEF Spec, RefinesHistory, History!Spec

=============================================================================
