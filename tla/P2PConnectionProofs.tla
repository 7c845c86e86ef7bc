------------------------- MODULE P2PConnectionProofs -------------------------
(***************************************************************************)
(* The handshake of two nodes, for any number of connections one after the *)
(* other, any number of requests, and any two side chains.                 *)
(***************************************************************************)
EXTENDS P2PConnection, TLAPS, FiniteSets, FiniteSetTheorems, SequenceTheorems

-----------------------------------------------------------------------------
(* Nodes and channels                                                      *)

LEMMA OtherNode ==
    ASSUME NEW n \in Node
    PROVE  /\ Other(n) \in Node /\ Other(n) # n /\ Other(Other(n)) = n
           /\ \A x \in Node : x = n \/ x = Other(n)
  <1>1. PICK a, b \in Node : a # b /\ Node = {a, b}
    BY ConstantsAssumption
  <1>2. \A x \in Node : \E m \in Node : m # x
    BY <1>1
  <1>3. \A x \in Node : Other(x) \in Node /\ Other(x) # x
    BY <1>2 DEF Other
  <1> QED
    BY <1>1, <1>3

\* The messages of a channel
El(s) == {s[i] : i \in 1 .. Len(s)}

LEMMA ElEmpty == El(<<>>) = {}
  BY DEF El

LEMMA ElOne ==
    ASSUME NEW x
    PROVE  El(<<x>>) = {x}
  <1>1. Len(<<x>>) = 1 /\ <<x>>[1] = x
    OBVIOUS
  <1> QED
    BY <1>1 DEF El

LEMMA ElConcat ==
    ASSUME NEW S, NEW s \in Seq(S), NEW t \in Seq(S)
    PROVE  s \o t \in Seq(S) /\ El(s \o t) = El(s) \cup El(t)
  <1> DEFINE u == s \o t
  <1>1. /\ u \in Seq(S) /\ Len(u) = Len(s) + Len(t)
        /\ \A i \in 1 .. Len(s) + Len(t) : u[i] = IF i <= Len(s) THEN s[i] ELSE t[i - Len(s)]
    BY ConcatProperties
  <1>2. Len(s) \in Nat /\ Len(t) \in Nat
    OBVIOUS
  <1>3. ASSUME NEW i \in 1 .. Len(u)
        PROVE  \/ i \in 1 .. Len(s) /\ u[i] = s[i]
               \/ i - Len(s) \in 1 .. Len(t) /\ u[i] = t[i - Len(s)]
    BY <1>1, <1>2
  <1>4. ASSUME NEW i \in 1 .. Len(s) PROVE i \in 1 .. Len(u) /\ u[i] = s[i]
    BY <1>1, <1>2
  <1>5. ASSUME NEW i \in 1 .. Len(t)
        PROVE  i + Len(s) \in 1 .. Len(u) /\ u[i + Len(s)] = t[i]
    BY <1>1, <1>2
  <1> HIDE DEF u
  <1>6. El(u) = El(s) \cup El(t)
    <2>1. El(u) \subseteq El(s) \cup El(t)
      BY <1>3 DEF El
    <2>2. El(s) \subseteq El(u)
      BY <1>4 DEF El
    <2>3. El(t) \subseteq El(u)
      BY <1>5 DEF El
    <2> QED
      BY <2>1, <2>2, <2>3
  <1> QED
    BY <1>1, <1>6 DEF u

LEMMA ElSubSeq ==
    ASSUME NEW S, NEW s \in Seq(S), NEW m \in 1 .. Len(s) + 1, NEW n \in 0 .. Len(s)
    PROVE  /\ SubSeq(s, m, n) \in Seq(S) /\ El(SubSeq(s, m, n)) \subseteq El(s)
           /\ Len(SubSeq(s, m, n)) = IF m <= n THEN n - m + 1 ELSE 0
           /\ \A i \in 1 .. Len(SubSeq(s, m, n)) : SubSeq(s, m, n)[i] = s[m + i - 1]
  <1> DEFINE t == SubSeq(s, m, n)
  <1>1. Len(s) \in Nat /\ m \in Nat /\ n \in Nat /\ m >= 1 /\ n <= Len(s)
    OBVIOUS
  <1>2. /\ t \in Seq(S) /\ Len(t) = (IF m <= n THEN n - m + 1 ELSE 0)
        /\ \A i \in 1 .. Len(t) : t[i] = s[m + i - 1]
    BY <1>1
  <1>3. \A i \in 1 .. Len(t) : m + i - 1 \in 1 .. Len(s)
    BY <1>1, <1>2
  <1> HIDE DEF t
  <1>4. El(t) \subseteq El(s)
    BY <1>2, <1>3 DEF El
  <1> QED
    BY <1>2, <1>4 DEF t

-----------------------------------------------------------------------------
(* The handshake invariant                                                 *)

\* A handshake message on the way to n on connection k
Current(x, n, k, incoming, chain) ==
    /\ x.type = "CHALLENGE" => x.challenge = <<Other(n), k>>
    /\ x.type = "SOLUTION" => x.challenge = <<n, k>> /\ x.chain = chain /\ (incoming => x.pow)

\* Both ends belong to the current connection, and one of them made it
ClientsInv ==
    \A n \in Node :
        /\ client[n].state # "free" => client[n].challenge = connections
        /\ client[n].state # "free" /\ client[Other(n)].state # "free" =>
              client[n].incoming # client[Other(n)].incoming
        /\ client[n].state # "open" => chan[n] = <<>>

\* Work is of the current connection, or its client has been reset since
JobOK(j, c, k) ==
    /\ j.counter <= c.counter
    /\ j.counter = c.counter =>
          /\ c.state # "free" /\ j.challenge = <<Other(j.node), k>>
          /\ j.done => j.pow = ~c.incoming

JobsInv == \A j \in jobs : JobOK(j, client[j.node], connections)

ChannelsInv ==
    \A n \in Node : \A x \in El(chan[n]) :
        Current(x, n, connections, client[n].incoming, Chain[Other(n)])

SilentInv ==
    \A n \in Node \ Foreign : client[n].state = "open" /\ ~client[n].complete =>
        \A x \in El(chan[Other(n)]) : x.type \in {"CHALLENGE", "SOLUTION"}

StrangersInv ==
    ~SameChain /\ Foreign = {} => \A n \in Node :
        /\ client[n].complete => client[n].invalid
        /\ \A x \in El(chan[n]) : x.type \in {"CHALLENGE", "SOLUTION", "EOF"}

\* The inductive invariant
HInv ==
    /\ TypeOK /\ ClientsInv /\ JobsInv /\ ChannelsInv /\ SilentInv /\ StrangersInv

\* What client n, now c, may put into the channel
Sendable(x, n, c) ==
    /\ x.type # "CHALLENGE"
    /\ client[Other(n)].state = "open" =>
          Current(x, Other(n), connections, client[Other(n)].incoming, Chain[n])
    /\ n \notin Foreign /\ c.state = "open" /\ ~c.complete => x.type = "SOLUTION"
    /\ ~SameChain /\ Foreign = {} => x.type \in {"SOLUTION", "EOF"}

\* A step of an open client
LEMMA ClientStep ==
    ASSUME HInv, NEW n \in Node, NEW c \in Client, NEW New,
           client[n].state = "open", c.state \in {"open", "closing"},
           c.incoming = client[n].incoming, c.counter = client[n].counter,
           c.challenge = client[n].challenge, client[n].complete => c.complete,
           ~SameChain /\ Foreign = {} => (c.complete => c.invalid),
           setup' = setup, connections' = connections,
           client' = [client EXCEPT ![n] = c], chan' \in [Node -> Seq(Messages)],
           El(chan'[n]) \subseteq El(chan[n]), El(chan'[Other(n)]) \subseteq El(chan[Other(n)]) \cup New,
           c.state = "closing" => chan'[n] = <<>>,
           client[Other(n)].state # "open" => chan'[Other(n)] = <<>>,
           \A x \in New : Sendable(x, n, c)
    PROVE  /\ client' \in [Node -> Client] /\ ClientsInv' /\ ChannelsInv' /\ SilentInv' /\ StrangersInv'
           /\ \A j \in jobs : JobOK(j, client'[j.node], connections')
  <1> DEFINE o == Other(n)
  <1>1. o \in Node /\ o # n /\ Other(o) = n /\ \A x \in Node : x = n \/ x = o
    BY OtherNode
  <1>2. /\ client \in [Node -> Client] /\ client' \in [Node -> Client]
        /\ client'[n] = c /\ client'[o] = client[o]
    BY <1>1 DEF HInv, TypeOK
  <1>3. Foreign' = Foreign /\ Chain' = Chain /\ SameChain' = SameChain
    BY DEF Foreign, Chain, SameChain
  <1>4. ClientsInv'
    <2>1. /\ c.challenge = connections'
          /\ (client'[n].state # "free" /\ client'[o].state # "free" =>
                client'[n].incoming # client'[o].incoming)
          /\ (client'[n].state # "open" => chan'[n] = <<>>)
      BY <1>1, <1>2 DEF HInv, ClientsInv
    <2>2. /\ (client'[o].state # "free" => client'[o].challenge = connections')
          /\ (client'[o].state # "open" => chan'[o] = <<>>)
      BY <1>1, <1>2 DEF HInv, ClientsInv
    <2> HIDE DEF o
    <2> QED
      BY <1>1, <1>2, <2>1, <2>2 DEF ClientsInv, o
  <1>5. ChannelsInv'
    <2>1. ASSUME NEW x \in El(chan'[n])
          PROVE  Current(x, n, connections', client'[n].incoming, Chain'[o])
      BY <1>1, <1>2, <1>3 DEF HInv, ChannelsInv
    <2>2. ASSUME NEW x \in El(chan'[o])
          PROVE  Current(x, o, connections', client'[o].incoming, Chain'[n])
      <3>1. CASE x \in El(chan[o])
        BY <1>1, <1>2, <1>3, <3>1 DEF HInv, ChannelsInv
      <3>2. CASE x \in New
        <4>1. client[o].state = "open"
          BY ElEmpty
        <4> QED
          BY <1>1, <1>2, <1>3, <3>2, <4>1 DEF Sendable
      <3> QED
        BY <3>1, <3>2
    <2> HIDE DEF o
    <2> QED
      BY <1>1, <2>1, <2>2 DEF ChannelsInv, o
  <1>6. SilentInv'
    <2>1. ASSUME n \notin Foreign, c.state = "open", ~c.complete, NEW x \in El(chan'[o])
          PROVE  x.type \in {"CHALLENGE", "SOLUTION"}
      <3>1. CASE x \in El(chan[o])
        BY <2>1, <3>1 DEF HInv, SilentInv
      <3>2. CASE x \in New
        BY <2>1, <3>2 DEF Sendable
      <3> QED
        BY <3>1, <3>2
    <2>2. ASSUME o \notin Foreign, client[o].state = "open", ~client[o].complete, NEW x \in El(chan'[n])
          PROVE  x.type \in {"CHALLENGE", "SOLUTION"}
      BY <1>1, <2>2 DEF HInv, SilentInv
    <2> HIDE DEF o
    <2> QED
      BY <1>1, <1>2, <1>3, <2>1, <2>2 DEF SilentInv, o
  <1>7. StrangersInv'
    <2> SUFFICES ASSUME ~SameChain, Foreign = {}, NEW m \in Node
                 PROVE  /\ client'[m].complete => client'[m].invalid
                        /\ \A x \in El(chan'[m]) : x.type \in {"CHALLENGE", "SOLUTION", "EOF"}
      BY <1>3 DEF StrangersInv
    <2>1. CASE m = n
      BY <1>2, <2>1 DEF HInv, StrangersInv
    <2>2. CASE m = o
      BY <1>1, <1>2, <2>2 DEF HInv, StrangersInv, Sendable
    <2> QED
      BY <1>1, <2>1, <2>2
  <1>8. ASSUME NEW j \in jobs PROVE JobOK(j, client'[j.node], connections')
    <2>1. j.node \in Node /\ JobOK(j, client[j.node], connections)
      BY DEF HInv, JobsInv, TypeOK, Job
    <2>2. CASE j.node = n
      BY <1>2, <2>1, <2>2 DEF JobOK
    <2>3. CASE j.node = o
      BY <1>2, <2>1, <2>3
    <2> QED
      BY <1>1, <2>1, <2>2, <2>3
  <1> QED
    BY <1>2, <1>4, <1>5, <1>6, <1>7, <1>8

\* The client and its challenge stay the same while the connection is up
SameConnection(c, d) ==
    /\ c.incoming = d.incoming /\ c.counter = d.counter /\ c.challenge = d.challenge
    /\ d.complete => c.complete

\* Client n becomes c, its own channel only shrinks and the other one gets only New messages
Progress(n, c, New) ==
    /\ client' = [client EXCEPT ![n] = c] /\ chan' \in [Node -> Seq(Messages)]
    /\ El(chan'[n]) \subseteq El(chan[n])
    /\ El(chan'[Other(n)]) \subseteq El(chan[Other(n)]) \cup New
    /\ client[Other(n)].state # "open" => chan'[Other(n)] = <<>>

LEMMA UpdateMoves ==
    ASSUME HInv, NEW n \in Node, NEW c, NEW taken \in 0 .. Len(chan[n]),
           NEW msgs \in Seq(Messages), Update(n, c, taken, msgs)
    PROVE  Progress(n, c, El(msgs))
  <1> DEFINE o == Other(n)
             s == SubSeq(chan[n], taken + 1, Len(chan[n]))
             t == Post(n, msgs)
  <1>1. o \in Node /\ o # n
    BY OtherNode
  <1>2. chan[n] \in Seq(Messages) /\ chan[o] \in Seq(Messages) /\ chan \in [Node -> Seq(Messages)]
    BY <1>1 DEF HInv, TypeOK
  <1>3. s \in Seq(Messages) /\ El(s) \subseteq El(chan[n])
    <2>1. taken + 1 \in 1 .. Len(chan[n]) + 1 /\ Len(chan[n]) \in 0 .. Len(chan[n])
      BY <1>2
    <2> QED
      BY <1>2, <2>1, ElSubSeq
  <1>4. /\ t \in Seq(Messages) /\ El(t) \subseteq El(chan[o]) \cup El(msgs)
        /\ client[o].state # "open" => t = chan[o]
    <2>1. chan[o] \o msgs \in Seq(Messages) /\ El(chan[o] \o msgs) = El(chan[o]) \cup El(msgs)
      BY <1>2, ElConcat
    <2> QED
      BY <1>2, <2>1 DEF Post
  <1>5. client' = [client EXCEPT ![n] = c] /\ chan' = [chan EXCEPT ![n] = s, ![o] = t]
    BY DEF Update
  <1> HIDE DEF o, s, t
  <1>6. chan' \in [Node -> Seq(Messages)] /\ chan'[n] = s /\ chan'[o] = t
    BY <1>1, <1>2, <1>3, <1>4, <1>5
  <1>7. client[o].state # "open" => chan'[o] = <<>>
    BY <1>1, <1>4, <1>6 DEF HInv, ClientsInv
  <1> QED
    BY <1>3, <1>4, <1>5, <1>6, <1>7 DEF o, Progress

LEMMA UpdateStep ==
    ASSUME HInv, NEW n \in Node, NEW c \in Client, NEW taken \in 0 .. Len(chan[n]),
           NEW msgs \in Seq(Messages),
           client[n].state = "open", c.state = "open", SameConnection(c, client[n]),
           ~SameChain /\ Foreign = {} => (c.complete => c.invalid),
           setup' = setup, connections' = connections, Update(n, c, taken, msgs),
           \A x \in El(msgs) : Sendable(x, n, c)
    PROVE  /\ client' \in [Node -> Client] /\ chan' \in [Node -> Seq(Messages)]
           /\ ClientsInv' /\ ChannelsInv' /\ SilentInv' /\ StrangersInv'
           /\ \A j \in jobs : JobOK(j, client'[j.node], connections')
  <1>1. Progress(n, c, El(msgs))
    BY UpdateMoves
  <1> QED
    BY <1>1, ClientStep DEF SameConnection, Progress

LEMMA CloseMoves ==
    ASSUME HInv, NEW n \in Node, NEW c, NEW msgs \in Seq(Messages), Close(n, c, msgs)
    PROVE  /\ Progress(n, [c EXCEPT !.state = "closing"], El(msgs) \cup {Msg("EOF")})
           /\ chan'[n] = <<>>
  <1> DEFINE o == Other(n)
             p == Post(n, msgs)
             eof == Msg("EOF")
             d == [c EXCEPT !.state = "closing"]
  <1>1. o \in Node /\ o # n
    BY OtherNode
  <1>2. chan[n] \in Seq(Messages) /\ chan[o] \in Seq(Messages) /\ chan \in [Node -> Seq(Messages)]
    BY <1>1 DEF HInv, TypeOK
  <1>4. p \in Seq(Messages) /\ El(p) \subseteq El(chan[o]) \cup El(msgs)
    <2>1. chan[o] \o msgs \in Seq(Messages) /\ El(chan[o] \o msgs) = El(chan[o]) \cup El(msgs)
      BY <1>2, ElConcat
    <2> QED
      BY <1>2, <2>1 DEF Post
  <1>5. eof \in Messages /\ eof.type = "EOF" /\ <<eof>> \in Seq(Messages) /\ El(<<eof>>) = {eof}
    <2>1. eof \in Messages /\ eof.type = "EOF"
      BY DEF Msg, Messages
    <2> HIDE DEF eof
    <2> QED
      BY <2>1, ElOne
  <1>7. PICK k \in 0 .. Len(p) :
          chan' = [chan EXCEPT ![n] = <<>>,
                     ![o] = IF client[o].state = "open" THEN SubSeq(p, 1, k) \o <<eof>> ELSE @]
    BY DEF Close
  <1> DEFINE t == SubSeq(p, 1, k) \o <<eof>>
  <1>8. t \in Seq(Messages) /\ El(t) \subseteq El(chan[o]) \cup El(msgs) \cup {eof}
    <2> HIDE DEF p, eof
    <2>1. SubSeq(p, 1, k) \in Seq(Messages) /\ El(SubSeq(p, 1, k)) \subseteq El(p)
      <3>1. 1 \in 1 .. Len(p) + 1
        BY <1>4
      <3> QED
        BY <1>4, <3>1, ElSubSeq
    <2>2. t \in Seq(Messages) /\ El(t) = El(SubSeq(p, 1, k)) \cup El(<<eof>>)
      <3> DEFINE q == SubSeq(p, 1, k)
                 e == <<eof>>
      <3>1. q \in Seq(Messages) /\ e \in Seq(Messages)
        BY <1>5, <2>1
      <3> HIDE DEF q, e
      <3>2. q \o e \in Seq(Messages) /\ El(q \o e) = El(q) \cup El(e)
        BY <3>1, ElConcat
      <3> QED
        BY <3>2 DEF q, e
    <2> HIDE DEF t
    <2> QED
      BY <1>4, <1>5, <2>1, <2>2
  <1> HIDE DEF t, p, eof
  <1>9. /\ chan' \in [Node -> Seq(Messages)] /\ chan'[n] = <<>>
        /\ chan'[o] = IF client[o].state = "open" THEN t ELSE chan[o]
    <2>1. <<>> \in Seq(Messages)
      OBVIOUS
    <2>2. chan' = [chan EXCEPT ![n] = <<>>,
                     ![o] = IF client[o].state = "open" THEN t ELSE @]
      BY <1>7 DEF t
    <2> DEFINE e == <<>>
    <2> HIDE DEF e, o
    <2>3. /\ chan' \in [Node -> Seq(Messages)] /\ chan'[n] = e
          /\ chan'[o] = IF client[o].state = "open" THEN t ELSE chan[o]
      BY <1>1, <1>2, <1>8, <2>1, <2>2 DEF e
    <2> QED
      BY <2>3 DEF e
  <1>10. /\ El(chan'[n]) \subseteq El(chan[n])
         /\ El(chan'[o]) \subseteq El(chan[o]) \cup (El(msgs) \cup {eof})
         /\ client[o].state # "open" => chan'[o] = <<>>
    BY <1>1, <1>8, <1>9, ElEmpty DEF HInv, ClientsInv
  <1>11. client' = [client EXCEPT ![n] = d]
    BY DEF Close
  <1> HIDE DEF d
  <1>12. Progress(n, d, El(msgs) \cup {eof})
    BY <1>9, <1>10, <1>11 DEF o, Progress
  <1> QED
    BY <1>9, <1>12 DEF d, eof

LEMMA CloseStep ==
    ASSUME HInv, NEW n \in Node, NEW c \in Client, NEW msgs \in Seq(Messages),
           client[n].state = "open", SameConnection(c, client[n]),
           ~SameChain /\ Foreign = {} => (c.complete => c.invalid),
           setup' = setup, connections' = connections, Close(n, c, msgs),
           \A x \in El(msgs) : Sendable(x, n, [c EXCEPT !.state = "closing"])
    PROVE  /\ client' \in [Node -> Client] /\ chan' \in [Node -> Seq(Messages)]
           /\ ClientsInv' /\ ChannelsInv' /\ SilentInv' /\ StrangersInv'
           /\ \A j \in jobs : JobOK(j, client'[j.node], connections')
  <1> DEFINE eof == Msg("EOF")
             d == [c EXCEPT !.state = "closing"]
             New == El(msgs) \cup {eof}
  <1>1. /\ d \in Client /\ d.state = "closing" /\ d.incoming = c.incoming
        /\ d.counter = c.counter /\ d.challenge = c.challenge /\ d.complete = c.complete
        /\ d.invalid = c.invalid
    BY DEF Client
  <1>2. Progress(n, d, New) /\ chan'[n] = <<>>
    BY CloseMoves
  <1>3. eof.type = "EOF"
    BY DEF Msg
  <1> HIDE DEF d, eof
  <1>4. Sendable(eof, n, d)
    BY <1>1, <1>3 DEF Sendable, Current
  <1>5. \A x \in New : Sendable(x, n, d)
    BY <1>4 DEF d
  <1> HIDE DEF New
  <1> QED
    BY <1>1, <1>2, <1>5, ClientStep DEF SameConnection, Progress

-----------------------------------------------------------------------------
(* The initial states and the steps                                        *)

LEMMA FreshType ==
    ASSUME NEW c, c.counter + 1 \in Nat
    PROVE  /\ Fresh(c) \in Client /\ Fresh(c).state = "free" /\ Fresh(c).counter = c.counter + 1
           /\ ~Fresh(c).complete /\ Fresh(c).blocks = 0
  <1>1. 0 \in 0 .. MaxConnections
    BY ConstantsAssumption
  <1> QED
    BY <1>1 DEF Fresh, Client

LEMMA HandshakeInit ==
    ASSUME Init
    PROVE  HInv
  <1> DEFINE f == Fresh([counter |-> -1, blocks |-> 0])
  <1>1. f \in Client /\ f.state = "free" /\ ~f.complete
    <2> DEFINE g == [counter |-> -1, blocks |-> 0]
    <2>1. g.counter + 1 \in Nat
      OBVIOUS
    <2> HIDE DEF g
    <2>2. Fresh(g) \in Client /\ Fresh(g).state = "free" /\ ~Fresh(g).complete
      BY <2>1, FreshType
    <2> QED
      BY <2>2 DEF g
  <1>2. client = [n \in Node |-> f] /\ chan = [n \in Node |-> <<>>] /\ jobs = {} /\ connections = 0
    BY DEF Init
  <1> HIDE DEF f
  <1>3. \A n \in Node : client[n] = f /\ chan[n] = <<>> /\ El(chan[n]) = {}
    BY <1>2, ElEmpty
  <1>4. TypeOK
    <2>1. <<>> \in Seq(Messages)
      OBVIOUS
    <2>2. chan \in [Node -> Seq(Messages)]
      BY <1>2, <2>1
    <2> QED
      BY <1>1, <1>2, <2>2, ConstantsAssumption DEF Init, TypeOK
  <1>5. ClientsInv /\ JobsInv
    BY <1>1, <1>2, <1>3 DEF ClientsInv, JobsInv
  <1>6. ChannelsInv /\ SilentInv /\ StrangersInv
    BY <1>1, <1>3, OtherNode DEF ChannelsInv, SilentInv, StrangersInv
  <1> QED
    BY <1>4, <1>5, <1>6 DEF HInv

LEMMA ConnectStep ==
    ASSUME HInv, NEW n \in Node, Connect(n)
    PROVE  HInv'
  <1> DEFINE m == Other(n)
             k == connections + 1
             out == Opened(client[n], FALSE, k)
             in == Opened(client[m], TRUE, k)
             refused == banned[m] # "no"
             inc == IF refused THEN [in EXCEPT !.state = "closing"] ELSE in
             toN == IF refused THEN Msg("EOF") ELSE Challenge(<<m, k>>)
             toM == IF refused THEN <<>> ELSE <<Challenge(<<n, k>>)>>
  <1>1. m \in Node /\ m # n /\ Other(m) = n /\ \A x \in Node : x = n \/ x = m
    BY OtherNode
  <1>2. k \in 1 .. MaxConnections /\ k \in 0 .. MaxConnections
    BY ConstantsAssumption DEF HInv, TypeOK, Connect
  <1>3. /\ client[n] \in Client /\ client[m] \in Client
        /\ client[n].counter \in Nat /\ client[m].counter \in Nat
        /\ client[n].state = "free" /\ client[m].state = "free"
    BY <1>1 DEF HInv, TypeOK, Connect, Client
  <1>4. /\ client' = [x \in Node |-> IF x = n THEN out ELSE inc]
        /\ chan' = [x \in Node |-> IF x = n THEN <<toN>> ELSE toM]
        /\ connections' = k /\ UNCHANGED <<setup, jobs, banned, synced, sends>>
    BY DEF Connect
  <1>5. /\ out \in Client /\ out.state = "open" /\ out.challenge = k /\ ~out.incoming
        /\ out.counter = client[n].counter + 1 /\ ~out.complete
    <2>1. Fresh(client[n]) \in Client /\ Fresh(client[n]).counter = client[n].counter + 1
          /\ ~Fresh(client[n]).complete
      BY <1>3, FreshType
    <2> QED
      BY <1>2, <2>1 DEF Opened, Client
  <1>6. /\ inc \in Client /\ inc.state \in {"open", "closing"} /\ inc.challenge = k /\ inc.incoming
        /\ inc.counter = client[m].counter + 1 /\ ~inc.complete /\ (refused => inc.state = "closing")
        /\ (~refused => inc.state = "open")
    <2>1. Fresh(client[m]) \in Client /\ Fresh(client[m]).counter = client[m].counter + 1
          /\ ~Fresh(client[m]).complete
      BY <1>3, FreshType
    <2>2. /\ in \in Client /\ in.state = "open" /\ in.challenge = k /\ in.incoming
          /\ in.counter = client[m].counter + 1 /\ ~in.complete
      BY <1>2, <2>1 DEF Opened, Client
    <2> HIDE DEF in, m, k
    <2> QED
      BY <2>2 DEF Client
  <1>7. /\ toN \in Messages /\ toN.type \in {"CHALLENGE", "EOF"} /\ (~refused => toN.type = "CHALLENGE")
        /\ (toN.type = "CHALLENGE" => toN.challenge = <<m, k>>)
    <2>1. <<m, k>> \in Node \X (1 .. MaxConnections)
      BY <1>1, <1>2
    <2> HIDE DEF m, k
    <2> QED
      BY <2>1 DEF Msg, Challenge, Messages
  <1>8. /\ toM \in Seq(Messages) /\ (refused => toM = <<>>)
        /\ \A x \in El(toM) : x.type = "CHALLENGE" /\ x.challenge = <<n, k>>
    <2> DEFINE x == Challenge(<<n, k>>)
    <2>1. x \in Messages /\ x.type = "CHALLENGE" /\ x.challenge = <<n, k>>
      BY <1>1, <1>2 DEF Challenge, Messages
    <2>2. toM = IF refused THEN <<>> ELSE <<x>>
      OBVIOUS
    <2> HIDE DEF x, toM, refused, k
    <2> QED
      BY <2>1, <2>2, ElOne, ElEmpty
  <1> HIDE DEF m, k, out, inc, toN, toM, in
  <1>9. /\ client'[n] = out /\ client'[m] = inc /\ chan'[n] = <<toN>> /\ chan'[m] = toM
        /\ El(chan'[n]) = {toN}
    BY <1>1, <1>4, ElOne
  <1>10. TypeOK'
    <2>1. client' \in [Node -> Client]
      BY <1>4, <1>5, <1>6
    <2>2. chan' \in [Node -> Seq(Messages)]
      <3>1. <<toN>> \in Seq(Messages)
        BY <1>7
      <3> QED
        BY <1>4, <1>8, <3>1
    <2> QED
      BY <1>2, <1>4, <2>1, <2>2 DEF HInv, TypeOK
  <1>11. Foreign' = Foreign /\ Chain' = Chain /\ SameChain' = SameChain
    BY <1>4 DEF Foreign, Chain, SameChain
  <1>12. ClientsInv'
    BY <1>1, <1>4, <1>5, <1>6, <1>8, <1>9 DEF ClientsInv, m
  <1>13. JobsInv'
    <2>1. ASSUME NEW j \in jobs PROVE JobOK(j, client'[j.node], connections')
      <3>1. j.node \in Node /\ j.counter \in Nat /\ j.counter <= client[j.node].counter
        BY DEF HInv, JobsInv, JobOK, TypeOK, Job
      <3>2. client'[j.node].counter = client[j.node].counter + 1 /\ client[j.node].counter \in Nat
        BY <1>1, <1>3, <1>5, <1>6, <1>9, <3>1
      <3>3. j.counter <= client'[j.node].counter /\ j.counter # client'[j.node].counter
        BY ONLY <3>1, <3>2
      <3> QED
        BY <3>3 DEF JobOK
    <2> QED
      BY <1>4, <2>1 DEF JobsInv
  <1>14. ChannelsInv'
    <2>1. \A x \in El(chan'[n]) : Current(x, n, connections', client'[n].incoming, Chain'[m])
      BY <1>4, <1>7, <1>9 DEF Current, m
    <2>2. \A x \in El(chan'[m]) : Current(x, m, connections', client'[m].incoming, Chain'[n])
      BY <1>1, <1>4, <1>8, <1>9 DEF Current
    <2> QED
      BY <1>1, <2>1, <2>2 DEF ChannelsInv, m
  <1>15. SilentInv'
    <2>1. client'[m].state = "open" => \A x \in El(chan'[n]) : x.type = "CHALLENGE"
      BY <1>6, <1>7, <1>9
    <2>2. \A x \in El(chan'[m]) : x.type = "CHALLENGE"
      BY <1>8, <1>9
    <2> QED
      BY <1>1, <2>1, <2>2 DEF SilentInv, m
  <1>16. StrangersInv'
    BY <1>1, <1>5, <1>6, <1>7, <1>8, <1>9 DEF StrangersInv
  <1> QED
    BY <1>10, <1>12, <1>13, <1>14, <1>15, <1>16 DEF HInv

Reasons == {"no", "unexpected", "early", "invalid", "stale"}

\* A step that changes neither jobs nor setup
LEMMA UpdateKeeps ==
    ASSUME HInv, NEW n \in Node, NEW c \in Client, NEW taken \in 0 .. Len(chan[n]),
           NEW msgs \in Seq(Messages),
           client[n].state = "open", c.state = "open", SameConnection(c, client[n]),
           ~SameChain /\ Foreign = {} => (c.complete => c.invalid),
           Update(n, c, taken, msgs), \A x \in El(msgs) : Sendable(x, n, c),
           UNCHANGED <<setup, jobs, banned, synced, connections>>, sends' \in Nat
    PROVE  HInv'
  <1>1. /\ client' \in [Node -> Client] /\ chan' \in [Node -> Seq(Messages)]
        /\ ClientsInv' /\ ChannelsInv' /\ SilentInv' /\ StrangersInv'
        /\ \A j \in jobs : JobOK(j, client'[j.node], connections')
    BY UpdateStep
  <1>2. JobsInv'
    BY <1>1 DEF JobsInv
  <1> QED
    BY <1>1, <1>2 DEF HInv, TypeOK

LEMMA CloseKeeps ==
    ASSUME HInv, NEW n \in Node, NEW c \in Client, client[n].state = "open",
           SameConnection(c, client[n]), ~SameChain /\ Foreign = {} => (c.complete => c.invalid),
           Close(n, c, <<>>), banned' \in [Node -> Reasons],
           UNCHANGED <<setup, jobs, synced, connections, sends>>
    PROVE  HInv'
  <1>1. <<>> \in Seq(Messages) /\ \A x \in El(<<>>) : Sendable(x, n, [c EXCEPT !.state = "closing"])
    BY ElEmpty
  <1>2. /\ client' \in [Node -> Client] /\ chan' \in [Node -> Seq(Messages)]
        /\ ClientsInv' /\ ChannelsInv' /\ SilentInv' /\ StrangersInv'
        /\ \A j \in jobs : JobOK(j, client'[j.node], connections')
    BY <1>1, CloseStep
  <1>3. JobsInv'
    BY <1>2 DEF JobsInv
  <1> QED
    BY <1>2, <1>3 DEF HInv, TypeOK, Reasons

LEMMA ResetStep ==
    ASSUME HInv, NEW n \in Node, Reset(n)
    PROVE  HInv'
  <1> DEFINE m == Other(n)
             f == Fresh(client[n])
  <1>1. m \in Node /\ m # n /\ Other(m) = n /\ \A x \in Node : x = n \/ x = m
    BY OtherNode
  <1>2. client[n] \in Client /\ client[n].counter \in Nat /\ client[n].state = "closing"
    BY DEF HInv, TypeOK, Reset, Client
  <1>3. f \in Client /\ f.state = "free" /\ f.counter = client[n].counter + 1 /\ ~f.complete
    BY <1>2, FreshType
  <1>4. client' = [client EXCEPT ![n] = f] /\ UNCHANGED <<setup, chan, jobs, banned, synced, connections, sends>>
    BY DEF Reset
  <1> HIDE DEF f
  <1>5. client' \in [Node -> Client] /\ client'[n] = f /\ client'[m] = client[m]
    BY <1>1, <1>3, <1>4 DEF HInv, TypeOK
  <1>6. Foreign' = Foreign /\ Chain' = Chain /\ SameChain' = SameChain
    BY <1>4 DEF Foreign, Chain, SameChain
  <1>7. TypeOK'
    BY <1>4, <1>5 DEF HInv, TypeOK
  <1>8. chan[n] = <<>> /\ El(chan[n]) = {}
    BY <1>2, ElEmpty DEF HInv, ClientsInv
  <1>9. ClientsInv'
    BY <1>1, <1>3, <1>4, <1>5, <1>8 DEF HInv, ClientsInv
  <1>10. JobsInv'
    <2>1. ASSUME NEW j \in jobs PROVE JobOK(j, client'[j.node], connections')
      <3>1. j.node \in Node /\ j.counter \in Nat /\ JobOK(j, client[j.node], connections)
        BY DEF HInv, JobsInv, TypeOK, Job
      <3>2. CASE j.node = n
        <4>1. j.counter <= client[n].counter
          BY <3>1, <3>2 DEF JobOK
        <4>2. j.counter <= client'[n].counter /\ j.counter # client'[n].counter
          BY <1>2, <1>3, <1>5, <3>1, <4>1
        <4> QED
          BY <3>2, <4>2 DEF JobOK
      <3>3. CASE j.node = m
        BY <1>4, <1>5, <3>1, <3>3
      <3> QED
        BY <1>1, <3>1, <3>2, <3>3
    <2> QED
      BY <1>4, <2>1 DEF JobsInv
  <1>11. ChannelsInv'
    BY <1>1, <1>4, <1>5, <1>6, <1>8 DEF HInv, ChannelsInv
  <1>12. SilentInv'
    BY <1>1, <1>3, <1>4, <1>5, <1>6 DEF HInv, SilentInv
  <1>13. StrangersInv'
    BY <1>1, <1>3, <1>4, <1>5, <1>6 DEF HInv, StrangersInv
  <1> QED
    BY <1>7, <1>9, <1>10, <1>11, <1>12, <1>13 DEF HInv

\* Messages after the handshake
LEMMA OtherMessage ==
    ASSUME HInv, NEW n \in Node, NEW c, NEW x, x.type \notin {"CHALLENGE", "SOLUTION"},
           c.complete \/ n \in Foreign, SameChain \/ Foreign # {}
    PROVE  Sendable(x, n, c)
  BY DEF Sendable, Current

LEMMA ReadFacts ==
    ASSUME HInv, NEW n \in Node, client[n].state = "open", chan[n] # <<>>
    PROVE  /\ client[n] \in Client /\ chan[n] \in Seq(Messages) /\ 1 \in 0 .. Len(chan[n])
           /\ Head1(n) \in Messages /\ Head1(n) \in El(chan[n])
           /\ Head1(n) = chan[n][1]
  <1>1. client[n] \in Client /\ chan[n] \in Seq(Messages)
    BY DEF HInv, TypeOK
  <1>2. Len(chan[n]) \in Nat /\ Len(chan[n]) >= 1 /\ Head(chan[n]) = chan[n][1]
    BY <1>1
  <1>3. 1 \in 1 .. Len(chan[n]) /\ chan[n][1] \in Messages
    BY <1>1, <1>2
  <1> QED
    BY <1>1, <1>2, <1>3 DEF Head1, El

LEMMA ReadOther ==
    ASSUME HInv, NEW n \in Node, NEW type, type \notin {"CHALLENGE", "SOLUTION", "EOF"},
           Accepts(n, type)
    PROVE  /\ client[n].state = "open" /\ chan[n] # <<>> /\ Head1(n).type = type
           /\ client[n].complete /\ (SameChain \/ Foreign # {})
  <1>1. client[n].state = "open" /\ chan[n] # <<>> /\ Head1(n).type = type /\ Allowed(client[n], type)
    BY DEF Accepts, Reads
  <1>2. client[n].expected \in {"CHALLENGE", "SOLUTION"} /\ Head1(n) \in El(chan[n])
    BY <1>1, ReadFacts DEF Client
  <1>3. client[n].complete
    BY <1>1, <1>2 DEF Allowed
  <1>4. SameChain \/ Foreign # {}
    BY <1>1, <1>2 DEF HInv, StrangersInv
  <1> QED
    BY <1>1, <1>3, <1>4

LEMMA MessageTypes ==
    /\ \A t \in {"EOF", "LISTEN_PORT", "PEER_LIST_REQUEST", "PEER_LIST_RESPONSE", "BLOCK_BROADCAST"} :
          Msg(t) \in Messages /\ Msg(t).type = t
    /\ \A w \in {"tip", "old"} : Request(w) \in Messages /\ Request(w).type = "BLOCK_REQUEST"
    /\ \A w \in {"tip", "old", "nothing"} :
          Response(w) \in Messages /\ Response(w).type = "BLOCK_RESPONSE"
    /\ \A x \in Messages :
          /\ x.type = "CHALLENGE" => x.challenge \in Node \X (1 .. MaxConnections)
          /\ x.type = "BLOCK_REQUEST" => x.what \in {"tip", "old"}
          /\ x.type = "BLOCK_RESPONSE" => x.what \in {"tip", "old", "nothing"}
  <1>1. \A t \in {"EOF", "LISTEN_PORT", "PEER_LIST_REQUEST", "PEER_LIST_RESPONSE", "BLOCK_BROADCAST"} :
          Msg(t) \in Messages /\ Msg(t).type = t
    BY DEF Msg, Messages
  <1>2. \A w \in {"tip", "old"} : Request(w) \in Messages /\ Request(w).type = "BLOCK_REQUEST"
    BY DEF Request, Messages
  <1>3. \A w \in {"tip", "old", "nothing"} :
          Response(w) \in Messages /\ Response(w).type = "BLOCK_RESPONSE"
    BY DEF Response, Messages
  <1>4. \A x \in Messages :
          /\ x.type = "CHALLENGE" => x.challenge \in Node \X (1 .. MaxConnections)
          /\ x.type = "BLOCK_REQUEST" => x.what \in {"tip", "old"}
          /\ x.type = "BLOCK_RESPONSE" => x.what \in {"tip", "old", "nothing"}
    BY DEF Messages
  <1> QED
    BY <1>1, <1>2, <1>3, <1>4

\* A client that answers a message with one of its own, or with none
LEMMA AnswerKeeps ==
    ASSUME HInv, NEW n \in Node, NEW type, type \notin {"CHALLENGE", "SOLUTION", "EOF"},
           Accepts(n, type), NEW c \in Client, c.state = client[n].state,
           SameConnection(c, client[n]), NEW msgs \in Seq(Messages),
           \A x \in El(msgs) : x.type \notin {"CHALLENGE", "SOLUTION"},
           Update(n, c, 1, msgs), UNCHANGED <<setup, jobs, banned, synced, connections, sends>>
    PROVE  HInv'
  <1>1. /\ client[n].state = "open" /\ chan[n] # <<>>
        /\ client[n].complete /\ (SameChain \/ Foreign # {})
    BY ReadOther
  <1>2. 1 \in 0 .. Len(chan[n])
    BY <1>1, ReadFacts
  <1>3. \A x \in El(msgs) : Sendable(x, n, c)
    BY <1>1, OtherMessage DEF SameConnection
  <1>4. sends' \in Nat
    BY DEF HInv, TypeOK
  <1> QED
    BY <1>1, <1>2, <1>3, <1>4, UpdateKeeps

LEMMA UnexpectedStep ==
    ASSUME HInv, NEW n \in Node, Unexpected(n) \/ OnDisconnected(n) \/ IdleTimeout(n)
    PROVE  HInv'
  <1>1. client[n].state = "open"
    BY DEF Unexpected, OnDisconnected, IdleTimeout, Reads
  <1>2. client[n] \in Client /\ SameConnection(client[n], client[n])
    BY DEF HInv, TypeOK, SameConnection
  <1>3. ~SameChain /\ Foreign = {} => (client[n].complete => client[n].invalid)
    BY DEF HInv, StrangersInv
  <1>4. /\ Close(n, client[n], <<>>) /\ banned' \in [Node -> Reasons]
        /\ UNCHANGED <<setup, jobs, synced, connections, sends>>
    BY DEF Unexpected, OnDisconnected, IdleTimeout, HInv, TypeOK, Reasons, Ban
  <1> QED
    BY <1>1, <1>2, <1>3, <1>4, CloseKeeps

LEMMA OnHandshakeChallengeStep ==
    ASSUME HInv, NEW n \in Node, OnHandshakeChallenge(n)
    PROVE  HInv'
  <1> DEFINE c == [client[n] EXCEPT !.expected = "SOLUTION"]
             j == [node |-> n, counter |-> client[n].counter, challenge |-> Head1(n).challenge,
                   done |-> FALSE, pow |-> FALSE]
  <1>1. client[n].state = "open" /\ chan[n] # <<>> /\ Head1(n).type = "CHALLENGE"
    BY DEF OnHandshakeChallenge, Accepts, Reads
  <1>2. /\ client[n] \in Client /\ 1 \in 0 .. Len(chan[n]) /\ Head1(n) \in Messages
        /\ Head1(n) \in El(chan[n])
    BY <1>1, ReadFacts
  <1>3. /\ c \in Client /\ c.state = "open" /\ SameConnection(c, client[n])
        /\ c.complete = client[n].complete /\ c.invalid = client[n].invalid
        /\ c.counter = client[n].counter
    BY <1>1, <1>2 DEF Client, SameConnection
  <1>4. ~SameChain /\ Foreign = {} => (c.complete => c.invalid)
    BY <1>3 DEF HInv, StrangersInv
  <1>5. Update(n, c, 1, <<>>) /\ UNCHANGED <<setup, banned, synced, connections, sends>>
        /\ jobs' \subseteq jobs \cup {j}
    BY DEF OnHandshakeChallenge
  <1>6. <<>> \in Seq(Messages) /\ \A x \in El(<<>>) : Sendable(x, n, c)
    BY ElEmpty
  <1> HIDE DEF c
  <1>7. /\ client' \in [Node -> Client] /\ chan' \in [Node -> Seq(Messages)]
        /\ ClientsInv' /\ ChannelsInv' /\ SilentInv' /\ StrangersInv'
        /\ \A x \in jobs : JobOK(x, client'[x.node], connections')
    BY <1>1, <1>2, <1>3, <1>4, <1>5, <1>6, UpdateStep
  <1>8. client'[n] = c
    BY <1>5 DEF Update, HInv, TypeOK
  <1>9. Head1(n).challenge = <<Other(n), connections>>
    BY <1>1, <1>2 DEF HInv, ChannelsInv, Current
  <1>10. /\ j \in Job /\ j.node = n /\ j.counter = client[n].counter /\ ~j.done
         /\ j.challenge = <<Other(n), connections>>
    <2>1. Head1(n).challenge \in Node \X (1 .. MaxConnections) /\ client[n].counter \in Nat
      BY <1>1, <1>2, MessageTypes DEF Client
    <2> QED
      BY <1>9, <2>1 DEF Job
  <1> HIDE DEF j
  <1>11. JobOK(j, client'[j.node], connections')
    <2>1. client[n].counter \in Nat
      BY <1>2 DEF Client
    <2> QED
      BY <1>3, <1>5, <1>8, <1>10, <2>1 DEF JobOK
  <1>12. jobs' \subseteq Job /\ JobsInv'
    BY <1>5, <1>7, <1>10, <1>11 DEF HInv, TypeOK, JobsInv
  <1> QED
    BY <1>5, <1>7, <1>12 DEF HInv, TypeOK

\* The first requests after the handshake
LEMMA AfterHandshakeType ==
    /\ AfterHandshake \in Seq(Messages)
    /\ \A x \in El(AfterHandshake) : x.type \in {"LISTEN_PORT", "BLOCK_REQUEST"}
  <1> DEFINE a == Msg("LISTEN_PORT")
             b == Request("tip")
  <1>1. a \in Messages /\ b \in Messages /\ a.type = "LISTEN_PORT" /\ b.type = "BLOCK_REQUEST"
    BY MessageTypes
  <1>2. AfterHandshake = <<a, b>>
    BY DEF AfterHandshake
  <1> HIDE DEF a, b
  <1>3. <<a, b>> \in Seq(Messages) /\ Len(<<a, b>>) = 2 /\ \A i \in 1 .. 2 : <<a, b>>[i] \in {a, b}
    BY <1>1
  <1> QED
    BY <1>1, <1>2, <1>3 DEF El

LEMMA AskedType ==
    ASSUME NEW c \in Client
    PROVE  /\ Asked(c) \in Client /\ Asked(c).state = c.state /\ SameConnection(Asked(c), c)
           /\ Asked(c).complete = c.complete /\ Asked(c).invalid = c.invalid
           /\ Asked(c).sent = c.sent /\ Asked(c).expected = c.expected
           /\ Asked(c).listenPort = c.listenPort /\ Asked(c).peers = c.peers
           /\ Asked(c).blocks = c.blocks + 1
  <1>1. c.blocks + 1 \in Nat
    BY DEF Client
  <1> QED
    BY <1>1 DEF Asked, Client, SameConnection

LEMMA OnHandshakeSolutionStep ==
    ASSUME HInv, NEW n \in Node, OnHandshakeSolution(n)
    PROVE  HInv'
  <1> DEFINE x == Head1(n)
             ok == SolutionIsValid(n, x)
             c == [client[n] EXCEPT !.complete = TRUE, !.invalid = ~ok]
  <1>1. client[n].state = "open" /\ chan[n] # <<>> /\ x.type = "SOLUTION"
    BY DEF OnHandshakeSolution, Accepts, Reads
  <1>2. client[n] \in Client /\ 1 \in 0 .. Len(chan[n]) /\ x \in Messages /\ x \in El(chan[n])
    BY <1>1, ReadFacts
  <1>3. /\ c \in Client /\ c.state = "open" /\ SameConnection(c, client[n])
        /\ c.complete /\ c.invalid = ~ok /\ c.sent = client[n].sent
    BY <1>1, <1>2 DEF Client, SameConnection
  <1>4. ~SameChain => ~ok
    <2>1. x.chain = Chain[Other(n)]
      BY <1>1, <1>2 DEF HInv, ChannelsInv, Current
    <2>2. ASSUME ok PROVE SameChain
      <3>1. Chain[n] = Chain[Other(n)]
        BY <2>1, <2>2 DEF SolutionIsValid
      <3> QED
        BY <3>1, OtherNode DEF SameChain
    <2> QED
      BY <2>2
  <1>5. UNCHANGED <<setup, jobs, synced, connections, sends>> /\ sends' \in Nat
    BY DEF OnHandshakeSolution, HInv, TypeOK
  <1>6. IF c.sent /\ ~ok THEN Ban(n, "invalid") /\ Close(n, c, <<>>)
        ELSE /\ IF ok THEN AfterSolution(n, c) ELSE Update(n, c, 1, <<>>)
             /\ UNCHANGED banned
    BY DEF OnHandshakeSolution
  <1>7. <<>> \in Seq(Messages) /\ \A y \in El(<<>>) : Sendable(y, n, c)
    BY ElEmpty
  <1> HIDE DEF c, ok
  <1>8. CASE c.sent /\ ~ok
    <2>1. Close(n, c, <<>>) /\ banned' \in [Node -> Reasons]
      BY <1>6, <1>8 DEF Ban, HInv, TypeOK, Reasons
    <2> QED
      BY <1>1, <1>3, <1>5, <1>8, <2>1, CloseKeeps
  <1>9. CASE Update(n, c, 1, <<>>) /\ UNCHANGED banned
    BY <1>1, <1>2, <1>3, <1>4, <1>5, <1>7, <1>9, UpdateKeeps
  <1>10. CASE ok /\ Update(n, Asked(c), 1, AfterHandshake) /\ UNCHANGED banned
    <2> DEFINE d == Asked(c)
    <2>1. /\ d \in Client /\ d.state = "open" /\ SameConnection(d, client[n])
          /\ d.complete = c.complete /\ d.invalid = c.invalid
      BY <1>3, AskedType DEF SameConnection
    <2>2. SameChain
      BY <1>4, <1>10
    <2>3. \A y \in El(AfterHandshake) : Sendable(y, n, d)
      BY <1>3, <2>1, <2>2, AfterHandshakeType, OtherMessage
    <2> HIDE DEF d
    <2> QED
      BY <1>1, <1>2, <1>5, <1>10, <2>1, <2>2, <2>3, AfterHandshakeType, UpdateKeeps DEF d
  <1> QED
    BY <1>6, <1>8, <1>9, <1>10 DEF AfterSolution

\* One message that is not of the handshake
LEMMA OneMessage ==
    ASSUME NEW x \in Messages, x.type \notin {"CHALLENGE", "SOLUTION"}
    PROVE  <<x>> \in Seq(Messages) /\ \A y \in El(<<x>>) : y.type \notin {"CHALLENGE", "SOLUTION"}
  BY ElOne

LEMMA OnListenPortStep ==
    ASSUME HInv, NEW n \in Node, OnListenPort(n)
    PROVE  HInv'
  <1> DEFINE c == [client[n] EXCEPT !.listenPort = TRUE]
  <1>1. client[n] \in Client
    BY DEF HInv, TypeOK
  <1>2. c \in Client /\ c.state = client[n].state /\ SameConnection(c, client[n])
    BY <1>1 DEF Client, SameConnection
  <1>3. Accepts(n, "LISTEN_PORT") /\ Update(n, c, 1, <<>>)
        /\ UNCHANGED <<setup, jobs, banned, synced, connections, sends>>
    BY DEF OnListenPort
  <1>4. <<>> \in Seq(Messages) /\ \A x \in El(<<>>) : x.type \notin {"CHALLENGE", "SOLUTION"}
    BY ElEmpty
  <1> HIDE DEF c
  <1> QED
    BY <1>2, <1>3, <1>4, AnswerKeeps

LEMMA OnBlockRequestStep ==
    ASSUME HInv, NEW n \in Node, OnBlockRequest(n)
    PROVE  HInv'
  <1> DEFINE w == IF n \in synced THEN Head1(n).what ELSE "nothing"
             x == Response(w)
  <1>1. Accepts(n, "BLOCK_REQUEST") /\ Update(n, client[n], 1, <<x>>)
        /\ UNCHANGED <<setup, jobs, banned, synced, connections, sends>>
    BY DEF OnBlockRequest
  <1>2. w \in {"tip", "old", "nothing"}
    <2>1. client[n].state = "open" /\ chan[n] # <<>> /\ Head1(n).type = "BLOCK_REQUEST"
      BY <1>1 DEF Accepts, Reads
    <2>2. Head1(n) \in Messages
      BY <2>1, ReadFacts
    <2> QED
      BY <2>1, <2>2, MessageTypes
  <1> HIDE DEF w
  <1>3. x \in Messages /\ x.type = "BLOCK_RESPONSE"
    BY <1>2, MessageTypes
  <1> HIDE DEF x
  <1>4. <<x>> \in Seq(Messages) /\ \A y \in El(<<x>>) : y.type \notin {"CHALLENGE", "SOLUTION"}
    BY <1>3, OneMessage
  <1>5. client[n] \in Client /\ SameConnection(client[n], client[n])
    BY DEF HInv, TypeOK, SameConnection
  <1> QED
    BY <1>1, <1>4, <1>5, AnswerKeeps

LEMMA OnBlockResponseStep ==
    ASSUME HInv, NEW n \in Node, OnBlockResponse(n)
    PROVE  HInv'
  <1> DEFINE c == [client[n] EXCEPT !.blocks = @ - 1]
             d == [c EXCEPT !.tipRequest = FALSE]
             e == [d EXCEPT !.peers = @ + 1]
             what == Head1(n).what
             x == Msg("PEER_LIST_REQUEST")
  <1>1. Accepts(n, "BLOCK_RESPONSE") /\ UNCHANGED <<setup, jobs, synced, connections, sends>>
    BY DEF OnBlockResponse
  <1>2. /\ client[n].state = "open" /\ client[n] \in Client /\ client[n].complete
        /\ client[n].blocks > 0 /\ (SameChain \/ Foreign # {})
    <2>1. client[n].complete /\ (SameChain \/ Foreign # {})
      BY <1>1, ReadOther
    <2> QED
      BY <1>1, <2>1 DEF Accepts, Reads, Allowed, HInv, TypeOK
  <1>3. client[n].blocks - 1 \in Nat /\ client[n].peers + 1 \in Nat
    BY <1>2 DEF Client
  <1>4. c \in Client /\ c.state = "open" /\ SameConnection(c, client[n]) /\ c.peers = client[n].peers
    BY <1>2, <1>3 DEF Client, SameConnection
  <1>5. d \in Client /\ d.state = "open" /\ SameConnection(d, client[n]) /\ d.peers = client[n].peers
    <2> HIDE DEF c
    <2> QED
      BY <1>4 DEF Client, SameConnection
  <1>6. e \in Client /\ e.state = "open" /\ SameConnection(e, client[n])
    <2> HIDE DEF d
    <2> QED
      BY <1>3, <1>5 DEF Client, SameConnection
  <1>7. \/ Ban(n, "stale") /\ Close(n, d, <<>>)
        \/ Update(n, e, 1, <<x>>) /\ UNCHANGED banned
        \/ Update(n, c, 1, <<>>) /\ UNCHANGED banned
    BY DEF OnBlockResponse
  <1> HIDE DEF c, d, e, x
  <1>8. CASE Ban(n, "stale") /\ Close(n, d, <<>>)
    <2>1. banned' \in [Node -> Reasons]
      BY <1>8 DEF Ban, HInv, TypeOK, Reasons
    <2> QED
      BY <1>1, <1>2, <1>5, <1>8, <2>1, CloseKeeps
  <1>9. CASE Update(n, e, 1, <<x>>) /\ UNCHANGED banned
    <2>1. x \in Messages /\ x.type = "PEER_LIST_REQUEST"
      BY MessageTypes DEF x
    <2>2. <<x>> \in Seq(Messages) /\ \A y \in El(<<x>>) : y.type \notin {"CHALLENGE", "SOLUTION"}
      BY <2>1, OneMessage
    <2> QED
      BY <1>1, <1>2, <1>6, <1>9, <2>2, AnswerKeeps
  <1>10. CASE Update(n, c, 1, <<>>) /\ UNCHANGED banned
    <2>1. <<>> \in Seq(Messages) /\ \A y \in El(<<>>) : y.type \notin {"CHALLENGE", "SOLUTION"}
      BY ElEmpty
    <2> QED
      BY <1>1, <1>2, <1>4, <1>10, <2>1, AnswerKeeps
  <1> QED
    BY <1>7, <1>8, <1>9, <1>10

LEMMA OnPeerListRequestStep ==
    ASSUME HInv, NEW n \in Node, OnPeerListRequest(n)
    PROVE  HInv'
  <1> DEFINE x == Msg("PEER_LIST_RESPONSE")
  <1>1. Accepts(n, "PEER_LIST_REQUEST") /\ Update(n, client[n], 1, <<x>>)
        /\ UNCHANGED <<setup, jobs, banned, synced, connections, sends>>
    BY DEF OnPeerListRequest
  <1>2. x \in Messages /\ x.type = "PEER_LIST_RESPONSE"
    BY MessageTypes
  <1> HIDE DEF x
  <1>3. <<x>> \in Seq(Messages) /\ \A y \in El(<<x>>) : y.type \notin {"CHALLENGE", "SOLUTION"}
    BY <1>2, OneMessage
  <1>4. client[n] \in Client /\ SameConnection(client[n], client[n])
    BY DEF HInv, TypeOK, SameConnection
  <1> QED
    BY <1>1, <1>3, <1>4, AnswerKeeps

LEMMA OnPeerListResponseStep ==
    ASSUME HInv, NEW n \in Node, OnPeerListResponse(n)
    PROVE  HInv'
  <1> DEFINE c == [client[n] EXCEPT !.peers = @ - 1]
  <1>1. Accepts(n, "PEER_LIST_RESPONSE") /\ Update(n, c, 1, <<>>)
        /\ UNCHANGED <<setup, jobs, banned, synced, connections, sends>>
    BY DEF OnPeerListResponse
  <1>2. client[n].complete /\ client[n] \in Client
    BY <1>1, ReadOther DEF HInv, TypeOK
  <1>3. client[n].peers > 0 /\ client[n].peers \in Nat
    BY <1>1, <1>2 DEF Accepts, Allowed, Client
  <1>4. client[n].peers - 1 \in Nat
    BY <1>3
  <1>5. c \in Client /\ c.state = client[n].state /\ SameConnection(c, client[n])
    BY <1>2, <1>4 DEF Client, SameConnection
  <1>6. <<>> \in Seq(Messages) /\ \A y \in El(<<>>) : y.type \notin {"CHALLENGE", "SOLUTION"}
    BY ElEmpty
  <1> HIDE DEF c
  <1> QED
    BY <1>1, <1>5, <1>6, AnswerKeeps

LEMMA OnBlockBroadcastStep ==
    ASSUME HInv, NEW n \in Node, OnBlockBroadcast(n)
    PROVE  HInv'
  <1>1. Accepts(n, "BLOCK_BROADCAST") /\ Update(n, client[n], 1, <<>>)
        /\ UNCHANGED <<setup, jobs, banned, synced, connections, sends>>
    BY DEF OnBlockBroadcast
  <1>2. client[n] \in Client /\ SameConnection(client[n], client[n])
    BY DEF HInv, TypeOK, SameConnection
  <1>3. <<>> \in Seq(Messages) /\ \A y \in El(<<>>) : y.type \notin {"CHALLENGE", "SOLUTION"}
    BY ElEmpty
  <1> QED
    BY <1>1, <1>2, <1>3, AnswerKeeps

\* What a node sends on its own
LEMMA SendsStep ==
    ASSUME HInv, NEW n \in Node, NEW c \in Client, NEW x \in Messages, client[n].state = "open",
           c.state = "open", SameConnection(c, client[n]), c.invalid = client[n].invalid,
           c.complete = client[n].complete,
           x.type \notin {"CHALLENGE", "SOLUTION"}, n \in Foreign \/ Good(n),
           Update(n, c, 0, <<x>>), sends' = sends + 1,
           UNCHANGED <<setup, jobs, banned, synced, connections>>
    PROVE  HInv'
  <1>1. (c.complete \/ n \in Foreign) /\ (SameChain \/ Foreign # {})
    <2>1. CASE n \in Foreign
      BY <2>1
    <2>2. CASE Good(n)
      <3>1. client[n].complete /\ ~client[n].invalid
        BY <2>2 DEF Good
      <3> QED
        BY <3>1 DEF HInv, StrangersInv
    <2> QED
      BY <2>1, <2>2
  <1>2. Sendable(x, n, c)
    BY <1>1, OtherMessage
  <1>3. <<x>> \in Seq(Messages) /\ \A y \in El(<<x>>) : Sendable(y, n, c)
    BY <1>2, ElOne
  <1>4. 0 \in 0 .. Len(chan[n]) /\ sends' \in Nat
    BY DEF HInv, TypeOK
  <1>5. ~SameChain /\ Foreign = {} => (c.complete => c.invalid)
    BY <1>1
  <1> QED
    BY <1>3, <1>4, <1>5, UpdateKeeps

LEMMA OwnMessagesStep ==
    ASSUME HInv, NEW n \in Node,
           \/ DownloadMissingBlock(n) \/ UpdatePeerList(n) \/ OnBroadcast(n) \/ ForeignSends(n)
    PROVE  HInv'
  <1>1. client[n] \in Client
    BY DEF HInv, TypeOK
  <1>2. client[n].blocks + 1 \in Nat /\ client[n].peers + 1 \in Nat
    BY <1>1 DEF Client
  <1>3. ASSUME NEW c \in Client, c.state = client[n].state, SameConnection(c, client[n]),
               c.invalid = client[n].invalid, c.complete = client[n].complete,
               NEW x \in Messages, x.type \notin {"CHALLENGE", "SOLUTION"}, Sends(n, c, x)
        PROVE  HInv'
    <2>1. client[n].state = "open" /\ Good(n)
      BY <1>3 DEF Sends, Good
    <2>2. Update(n, c, 0, <<x>>) /\ sends' = sends + 1
          /\ UNCHANGED <<setup, jobs, banned, synced, connections>>
      BY <1>3 DEF Sends
    <2> QED
      BY <1>3, <2>1, <2>2, SendsStep
  <1>4. CASE DownloadMissingBlock(n)
    <2> DEFINE c == [client[n] EXCEPT !.blocks = @ + 1]
    <2>1. /\ c \in Client /\ c.state = client[n].state /\ SameConnection(c, client[n])
          /\ c.invalid = client[n].invalid /\ c.complete = client[n].complete
      BY <1>1, <1>2 DEF Client, SameConnection
    <2>2. Request("old") \in Messages /\ Request("old").type = "BLOCK_REQUEST"
      BY MessageTypes
    <2>3. Sends(n, c, Request("old"))
      BY <1>4 DEF DownloadMissingBlock
    <2> HIDE DEF c
    <2> QED
      BY <1>3, <2>1, <2>2, <2>3
  <1>5. CASE UpdatePeerList(n)
    <2> DEFINE c == [client[n] EXCEPT !.peers = @ + 1]
    <2>1. /\ c \in Client /\ c.state = client[n].state /\ SameConnection(c, client[n])
          /\ c.invalid = client[n].invalid /\ c.complete = client[n].complete
      BY <1>1, <1>2 DEF Client, SameConnection
    <2>2. Msg("PEER_LIST_REQUEST") \in Messages /\ Msg("PEER_LIST_REQUEST").type = "PEER_LIST_REQUEST"
      BY MessageTypes
    <2>3. Sends(n, c, Msg("PEER_LIST_REQUEST"))
      BY <1>5 DEF UpdatePeerList
    <2> HIDE DEF c
    <2> QED
      BY <1>3, <2>1, <2>2, <2>3
  <1>6. CASE OnBroadcast(n)
    <2>1. SameConnection(client[n], client[n])
      BY DEF SameConnection
    <2>2. Msg("BLOCK_BROADCAST") \in Messages /\ Msg("BLOCK_BROADCAST").type = "BLOCK_BROADCAST"
      BY MessageTypes
    <2>3. Sends(n, client[n], Msg("BLOCK_BROADCAST"))
      BY <1>6 DEF OnBroadcast
    <2> QED
      BY <1>1, <1>3, <2>1, <2>2, <2>3
  <1>7. CASE ForeignSends(n)
    <2>1. PICK x \in {Msg("LISTEN_PORT"), Request("tip"), Request("old"), Response("old"),
                      Msg("PEER_LIST_REQUEST"), Msg("PEER_LIST_RESPONSE"), Msg("BLOCK_BROADCAST")} :
            Update(n, client[n], 0, <<x>>)
      BY <1>7 DEF ForeignSends
    <2>2. x \in Messages /\ x.type \notin {"CHALLENGE", "SOLUTION"}
      BY <2>1, MessageTypes
    <2>3. /\ n \in Foreign /\ client[n].state = "open" /\ sends' = sends + 1
          /\ UNCHANGED <<setup, jobs, banned, synced, connections>>
      BY <1>7 DEF ForeignSends
    <2>4. SameConnection(client[n], client[n])
      BY DEF SameConnection
    <2> QED
      BY <1>1, <2>1, <2>2, <2>3, <2>4, SendsStep
  <1> QED
    BY <1>4, <1>5, <1>6, <1>7

\* A step that touches neither clients nor channels
LEMMA QuietStep ==
    ASSUME HInv, UNCHANGED <<setup, client, chan, connections>>
    PROVE  ClientsInv' /\ ChannelsInv' /\ SilentInv' /\ StrangersInv'
  <1>1. Foreign' = Foreign /\ Chain' = Chain /\ SameChain' = SameChain
    BY DEF Foreign, Chain, SameChain
  <1>2. ClientsInv'
    BY DEF HInv, ClientsInv
  <1>3. ChannelsInv' /\ SilentInv' /\ StrangersInv'
    BY <1>1 DEF HInv, ChannelsInv, SilentInv, StrangersInv
  <1> QED
    BY <1>2, <1>3

LEMMA SolveChallengeStep ==
    ASSUME HInv, NEW j \in jobs, SolveChallenge(j)
    PROVE  HInv'
  <1> DEFINE c == client[j.node]
             found == c.counter = j.counter /\ ~c.incoming
             d == [j EXCEPT !.done = TRUE, !.pow = found]
  <1>1. jobs' = (jobs \ {j}) \cup {d} /\ UNCHANGED <<setup, client, chan, banned, synced, connections, sends>>
    BY DEF SolveChallenge
  <1>2. j \in Job /\ j.node \in Node /\ c \in Client /\ JobOK(j, c, connections)
    BY DEF HInv, TypeOK, JobsInv, Job
  <1>3. /\ d \in Job /\ d.node = j.node /\ d.counter = j.counter /\ d.challenge = j.challenge
        /\ d.pow = found
    BY <1>2 DEF Job
  <1>4. JobOK(d, c, connections)
    <2>1. c.incoming \in BOOLEAN
      BY <1>2 DEF Client
    <2>2. d.counter = c.counter => d.pow = ~c.incoming
      BY <1>3, <2>1
    <2> HIDE DEF c, d, found
    <2> QED
      BY <1>2, <1>3, <2>2 DEF JobOK
  <1> HIDE DEF d, found
  <1>5. TypeOK'
    BY <1>1, <1>3 DEF HInv, TypeOK
  <1>6. JobsInv'
    BY <1>1, <1>3, <1>4 DEF HInv, JobsInv
  <1> QED
    BY <1>1, <1>5, <1>6, QuietStep DEF HInv

\* The solution is of the connection the other node has open
LEMMA SolutionType ==
    ASSUME HInv, NEW j \in jobs, j.done, StillConnected(j)
    PROVE  /\ Solution(j) \in Messages /\ Solution(j).type = "SOLUTION"
           /\ client[Other(j.node)].state = "open" =>
                Current(Solution(j), Other(j.node), connections, client[Other(j.node)].incoming, Chain[j.node])
           /\ client[j.node].state \in {"open", "closing"}
  <1> DEFINE n == j.node
             m == Other(n)
  <1>1. j \in Job /\ n \in Node /\ JobOK(j, client[n], connections) /\ client[n] \in Client
    BY DEF HInv, TypeOK, JobsInv, Job
  <1>2. m \in Node /\ Other(m) = n
    BY <1>1, OtherNode
  <1>3. Chain[n] \in Nat
    BY <1>1 DEF HInv, TypeOK, SetupType, Chain
  <1>4. /\ Solution(j) \in Messages /\ Solution(j).type = "SOLUTION"
        /\ Solution(j).challenge = j.challenge /\ Solution(j).chain = Chain[n]
        /\ Solution(j).pow = j.pow
    BY <1>1, <1>3 DEF Solution, Messages, Job
  <1>5. /\ client[n].state # "free" /\ j.challenge = <<m, connections>>
        /\ j.pow = ~client[n].incoming
    BY <1>1 DEF JobOK, StillConnected
  <1>6. client[m].state = "open" => client[m].incoming # client[n].incoming
    BY <1>2, <1>5 DEF HInv, ClientsInv
  <1>7. client[n].incoming \in BOOLEAN /\ client[m].incoming \in BOOLEAN
        /\ client[n].state \in {"free", "open", "closing"}
    BY <1>1, <1>2 DEF HInv, TypeOK, Client
  <1> HIDE DEF n, m
  <1>8. client[m].state = "open" => Current(Solution(j), m, connections, client[m].incoming, Chain[n])
    BY <1>4, <1>5, <1>6, <1>7 DEF Current
  <1> QED
    BY <1>4, <1>5, <1>7, <1>8 DEF n, m

LEMMA SolutionDoneStep ==
    ASSUME HInv, NEW j \in jobs, SolutionDone(j)
    PROVE  HInv'
  <1> DEFINE n == j.node
             c == [client[n] EXCEPT !.sent = TRUE]
             d == IF GoesOn(c) THEN Asked(c) ELSE c
             x == Solution(j)
             rest == IF GoesOn(c) THEN AfterHandshake ELSE <<>>
             msgs == <<x>> \o rest
  <1>1. /\ j.done /\ jobs' = jobs \ {j} /\ UNCHANGED <<setup, synced, connections, sends>>
        /\ j \in Job /\ n \in Node /\ client[n] \in Client
    BY DEF SolutionDone, HInv, TypeOK, Job
  <1>2. /\ c \in Client /\ c.state = client[n].state /\ SameConnection(c, client[n])
        /\ c.complete = client[n].complete /\ c.invalid = client[n].invalid
    BY <1>1 DEF Client, SameConnection
  <1>3. ~SameChain /\ Foreign = {} => (c.complete => c.invalid)
    BY <1>1, <1>2 DEF HInv, StrangersInv
  <1>4. IF ~StillConnected(j) THEN UNCHANGED <<client, chan, banned>>
        ELSE IF c.state = "closing"
        THEN /\ client' = [client EXCEPT ![n] = c]
             /\ Ban(n, IF BadPeer(c) THEN "invalid" ELSE banned[n])
             /\ UNCHANGED chan
        ELSE IF BadPeer(c)
        THEN Ban(n, "invalid") /\ Close(n, c, msgs)
        ELSE /\ Update(n, d, 0, msgs) /\ UNCHANGED banned
    BY DEF SolutionDone
  <1>5. CASE ~StillConnected(j)
    <2>1. UNCHANGED <<client, chan, banned>>
      BY <1>4, <1>5
    <2>2. TypeOK' /\ JobsInv'
      BY <1>1, <2>1 DEF HInv, TypeOK, JobsInv
    <2> QED
      BY <1>1, <2>1, <2>2, QuietStep DEF HInv
  <1>6. CASE StillConnected(j)
    <2>1. /\ x \in Messages /\ x.type = "SOLUTION"
          /\ (client[Other(n)].state = "open" =>
                Current(x, Other(n), connections, client[Other(n)].incoming, Chain[n]))
          /\ c.state \in {"open", "closing"}
      BY <1>1, <1>2, <1>6, SolutionType
    <2>2. CASE c.state = "closing"
      <3>1. client' = [client EXCEPT ![n] = c] /\ chan' = chan
            /\ Ban(n, IF BadPeer(c) THEN "invalid" ELSE banned[n])
        BY <1>4, <1>6, <2>2
      <3>2. banned' \in [Node -> Reasons]
        BY <1>1, <3>1 DEF Ban, HInv, TypeOK, Reasons
      <3> HIDE DEF c, n
      <3>3. client' \in [Node -> Client] /\ \A m \in Node : client'[m] = IF m = n THEN c ELSE client[m]
        BY <1>1, <1>2, <3>1 DEF HInv, TypeOK
      <3>4. /\ c.state = client[n].state /\ c.incoming = client[n].incoming
            /\ c.counter = client[n].counter /\ c.challenge = client[n].challenge
            /\ c.complete = client[n].complete /\ c.invalid = client[n].invalid
        BY <1>2 DEF SameConnection
      <3>5. \A m \in Node : /\ client'[m].state = client[m].state
                            /\ client'[m].incoming = client[m].incoming
                            /\ client'[m].counter = client[m].counter
                            /\ client'[m].challenge = client[m].challenge
                            /\ client'[m].complete = client[m].complete
                            /\ client'[m].invalid = client[m].invalid
        BY <3>3, <3>4
      <3>6. Foreign' = Foreign /\ Chain' = Chain /\ SameChain' = SameChain
        BY <1>1 DEF Foreign, Chain, SameChain
      <3>7. TypeOK'
        BY <1>1, <3>1, <3>2, <3>3 DEF HInv, TypeOK, Reasons
      <3>8. ClientsInv'
        BY <1>1, <3>1, <3>5, OtherNode DEF HInv, ClientsInv
      <3>9. JobsInv'
        <4>1. ASSUME NEW i \in jobs PROVE JobOK(i, client'[i.node], connections')
          <5>1. i.node \in Node /\ JobOK(i, client[i.node], connections)
            BY DEF HInv, TypeOK, JobsInv, Job
          <5> QED
            BY <1>1, <3>5, <5>1 DEF JobOK
        <4> QED
          BY <1>1, <4>1 DEF JobsInv
      <3>10. ChannelsInv'
        BY <1>1, <3>1, <3>5, <3>6 DEF HInv, ChannelsInv
      <3>11. SilentInv' /\ StrangersInv'
        BY <3>1, <3>5, <3>6 DEF HInv, SilentInv, StrangersInv
      <3> QED
        BY <3>7, <3>8, <3>9, <3>10, <3>11 DEF HInv
    <2>3. CASE c.state = "open"
      <3>1. IF BadPeer(c) THEN Ban(n, "invalid") /\ Close(n, c, msgs)
            ELSE Update(n, d, 0, msgs) /\ UNCHANGED banned
        BY <1>4, <1>6, <2>3
      <3>2. rest \in Seq(Messages) /\ \A z \in El(rest) : z.type \in {"LISTEN_PORT", "BLOCK_REQUEST"}
        BY AfterHandshakeType, ElEmpty
      <3>3. /\ msgs \in Seq(Messages) /\ El(msgs) = {x} \cup El(rest)
        <4> DEFINE a == <<x>>
        <4>1. a \in Seq(Messages) /\ El(a) = {x}
          <5> HIDE DEF x
          <5> QED
            BY <2>1, ElOne
        <4>2. rest \in Seq(Messages)
          BY <3>2
        <4>3. msgs = a \o rest
          OBVIOUS
        <4> HIDE DEF a, rest, msgs
        <4>4. a \o rest \in Seq(Messages) /\ El(a \o rest) = El(a) \cup El(rest)
          BY <4>1, <4>2, ElConcat
        <4> QED
          BY <4>1, <4>3, <4>4
      <3>4. /\ d \in Client /\ d.state = "open" /\ SameConnection(d, client[n])
            /\ d.complete = c.complete /\ d.invalid = c.invalid
        <4> HIDE DEF c
        <4> QED
          BY <1>2, <2>3, AskedType DEF SameConnection
      <3>5. ASSUME NEW z \in El(msgs), NEW e, e.complete = c.complete
            PROVE  Sendable(z, n, e)
        <4>1. CASE z = x
          <5> HIDE DEF x
          <5> QED
            BY <2>1, <4>1 DEF Sendable
        <4>2. CASE z \in El(rest)
          <5>1. GoesOn(c)
            BY <4>2, ElEmpty
          <5>2. c.complete /\ (SameChain \/ Foreign # {})
            BY <1>3, <5>1 DEF GoesOn
          <5>3. z.type \notin {"CHALLENGE", "SOLUTION"}
            BY <3>2, <4>2
          <5> QED
            BY <1>1, <3>5, <5>2, <5>3, OtherMessage
        <4> QED
          BY <3>3, <4>1, <4>2
      <3>6. [c EXCEPT !.state = "closing"].complete = c.complete
        BY <1>2 DEF Client
      <3>7. /\ client' \in [Node -> Client] /\ chan' \in [Node -> Seq(Messages)]
            /\ ClientsInv' /\ ChannelsInv' /\ SilentInv' /\ StrangersInv'
            /\ (\A i \in jobs : JobOK(i, client'[i.node], connections'))
            /\ banned' \in [Node -> Reasons]
        <4> HIDE DEF c, d, x, rest, msgs, n
        <4>1. CASE BadPeer(c)
          <5>1. Close(n, c, msgs) /\ Ban(n, "invalid")
            BY <3>1, <4>1
          <5>2. banned' \in [Node -> Reasons]
            BY <1>1, <5>1 DEF Ban, HInv, TypeOK, Reasons
          <5>3. client[n].state = "open"
            BY <1>2, <2>3
          <5>4. \A z \in El(msgs) : Sendable(z, n, [c EXCEPT !.state = "closing"])
            BY <3>5, <3>6
          <5>5. setup' = setup /\ connections' = connections
            BY <1>1
          <5> QED
            BY <1>1, <1>2, <1>3, <3>3, <5>1, <5>2, <5>3, <5>4, <5>5, CloseStep
        <4>2. CASE ~BadPeer(c)
          <5>1. Update(n, d, 0, msgs) /\ banned' = banned
            BY <3>1, <4>2
          <5>2. banned' \in [Node -> Reasons]
            BY <5>1 DEF HInv, TypeOK, Reasons
          <5>3. client[n].state = "open" /\ 0 \in 0 .. Len(chan[n])
            BY <1>1, <1>2, <2>3 DEF HInv, TypeOK
          <5>4. \A z \in El(msgs) : Sendable(z, n, d)
            BY <3>4, <3>5
          <5>5. setup' = setup /\ connections' = connections
            BY <1>1
          <5>6. ~SameChain /\ Foreign = {} => (d.complete => d.invalid)
            BY <1>3, <3>4
          <5> QED
            BY <1>1, <3>3, <3>4, <5>1, <5>2, <5>3, <5>4, <5>5, <5>6, UpdateStep
        <4> QED
          BY <4>1, <4>2
      <3>8. JobsInv'
        BY <1>1, <3>7 DEF JobsInv
      <3> QED
        BY <1>1, <3>7, <3>8 DEF HInv, TypeOK, Reasons
    <2> QED
      BY <2>1, <2>2, <2>3
  <1> QED
    BY <1>5, <1>6

LEMMA HandshakeStep ==
    ASSUME HInv, [Next]_vars
    PROVE  HInv'
  <1>1. ASSUME NEW n \in Node, LoopThread(n) PROVE HInv'
    <2>1. ASSUME ReadMessage(n) PROVE HInv'
      BY <2>1, UnexpectedStep, OnHandshakeChallengeStep, OnHandshakeSolutionStep,
         OnListenPortStep, OnBlockRequestStep, OnBlockResponseStep, OnPeerListRequestStep,
         OnPeerListResponseStep, OnBlockBroadcastStep DEF ReadMessage
    <2> QED
      BY <1>1, <2>1, ConnectStep, ResetStep, SolutionDoneStep DEF LoopThread
  <1>2. ASSUME NEW n \in Node, BanExpires(n) \/ GetBlocks(n) PROVE HInv'
    <2>1. TypeOK' /\ JobsInv' /\ UNCHANGED <<setup, client, chan, connections>>
      BY <1>2 DEF BanExpires, GetBlocks, Ban, HInv, TypeOK, JobsInv
    <2> QED
      BY <2>1, QuietStep DEF HInv
  <1>3. CASE UNCHANGED vars
    <2>1. TypeOK' /\ JobsInv' /\ UNCHANGED <<setup, client, chan, connections>>
      BY <1>3 DEF vars, HInv, TypeOK, JobsInv
    <2> QED
      BY <2>1, QuietStep DEF HInv
  <1> QED
    BY <1>1, <1>2, <1>3, UnexpectedStep, OwnMessagesStep, SolveChallengeStep DEF Next

\* What P2PClients, channels and pool work hold, for any number of connections
THEOREM ConnectionTypes == Spec => []TypeOK
  <1>1. Init => HInv
    BY HandshakeInit
  <1>2. HInv /\ [Next]_vars => HInv'
    BY HandshakeStep
  <1>3. HInv => TypeOK
    BY DEF HInv
  <1> QED
    BY <1>1, <1>2, <1>3, PTL DEF Spec

LEMMA HandshakeInvariant == Spec => []HInv
  <1>1. Init => HInv
    BY HandshakeInit
  <1>2. HInv /\ [Next]_vars => HInv'
    BY HandshakeStep
  <1> QED
    BY <1>1, <1>2, PTL DEF Spec

\* send_handshake_solution: however often the slot of a client is used again while work for
\* it is running, a solution only goes out on the connection it was computed for, with the
\* PoW the other side asks for
THEOREM SolutionsAnswerTheirChallenge == Spec => []SolutionsAreCurrent
  <1>1. HInv => SolutionsAreCurrent
    <2> SUFFICES ASSUME HInv, NEW n \in Node, client[n].state = "open",
                        NEW k \in 1 .. Len(chan[n]), chan[n][k].type = "SOLUTION"
                 PROVE  /\ chan[n][k].challenge = <<n, client[n].challenge>>
                        /\ client[n].incoming => chan[n][k].pow
      BY DEF SolutionsAreCurrent
    <2>1. chan[n][k] \in El(chan[n])
      BY DEF El
    <2>2. client[n].challenge = connections
      BY DEF HInv, ClientsInv
    <2> QED
      BY <2>1, <2>2 DEF HInv, ChannelsInv, Current
  <1> QED
    BY <1>1, HandshakeInvariant, PTL

-----------------------------------------------------------------------------
(* Strangers, foreign ones too                                             *)

\* A client whose peer is of another side chain: it asks for nothing, and its handshake is
\* never done while it is open, once its own solution is out
KeptClient(c) ==
    /\ c.complete => c.invalid
    /\ c.state = "open" => ~(c.complete /\ c.sent)
    /\ c.blocks = 0 /\ c.peers = 0

KeptMessage(x) == x.type \in HandshakeTypes \cup Answers

KeptOutInv ==
    ~SameChain => \A n \in Node \ Foreign :
      KeptClient(client[n]) /\ \A x \in El(chan[Other(n)]) : KeptMessage(x)

LEMMA KeptStep ==
    ASSUME HInv, KeptOutInv, NEW n \in Node, NEW c, NEW New, Progress(n, c, New), setup' = setup,
           ~SameChain /\ n \notin Foreign => KeptClient(c) /\ \A x \in New : KeptMessage(x)
    PROVE  KeptOutInv'
  <1> DEFINE o == Other(n)
  <1>1. o \in Node /\ o # n /\ Other(o) = n /\ \A x \in Node : x = n \/ x = o
    BY OtherNode
  <1>2. Foreign' = Foreign /\ SameChain' = SameChain
    BY DEF Foreign, Chain, SameChain
  <1>3. client'[n] = c /\ client'[o] = client[o]
    BY <1>1 DEF Progress, HInv, TypeOK
  <1> SUFFICES ASSUME ~SameChain, NEW m \in Node \ Foreign
               PROVE  KeptClient(client'[m]) /\ \A x \in El(chan'[Other(m)]) : KeptMessage(x)
    BY <1>2 DEF KeptOutInv
  <1>4. KeptClient(client[m]) /\ \A x \in El(chan[Other(m)]) : KeptMessage(x)
    BY DEF KeptOutInv
  <1>5. CASE m = n
    <2>1. KeptClient(c) /\ \A x \in New : KeptMessage(x)
      BY <1>5
    <2>2. El(chan'[Other(m)]) \subseteq El(chan[Other(m)]) \cup New
      BY <1>5 DEF Progress
    <2> HIDE DEF o
    <2> QED
      BY <1>3, <1>4, <1>5, <2>1, <2>2
  <1>6. CASE m = o
    <2>1. El(chan'[Other(m)]) \subseteq El(chan[Other(m)])
      BY <1>1, <1>6 DEF Progress
    <2> HIDE DEF o
    <2> QED
      BY <1>3, <1>4, <1>6, <2>1
  <1> QED
    BY <1>1, <1>5, <1>6

LEMMA KeptUpdate ==
    ASSUME HInv, KeptOutInv, NEW n \in Node, NEW c, NEW taken \in 0 .. Len(chan[n]),
           NEW msgs \in Seq(Messages), Update(n, c, taken, msgs), setup' = setup,
           ~SameChain /\ n \notin Foreign => KeptClient(c) /\ \A x \in El(msgs) : KeptMessage(x)
    PROVE  KeptOutInv'
  BY UpdateMoves, KeptStep

LEMMA KeptClose ==
    ASSUME HInv, KeptOutInv, NEW n \in Node, NEW c \in Client, NEW msgs \in Seq(Messages),
           Close(n, c, msgs), setup' = setup,
           ~SameChain /\ n \notin Foreign =>
             /\ (c.complete => c.invalid) /\ c.blocks = 0 /\ c.peers = 0
             /\ \A x \in El(msgs) : KeptMessage(x)
    PROVE  KeptOutInv'
  <1> DEFINE d == [c EXCEPT !.state = "closing"]
             New == El(msgs) \cup {Msg("EOF")}
  <1>1. Progress(n, d, New)
    BY CloseMoves
  <1>2. /\ d.state = "closing" /\ d.complete = c.complete /\ d.invalid = c.invalid
        /\ d.blocks = c.blocks /\ d.peers = c.peers
    BY DEF Client
  <1>3. KeptMessage(Msg("EOF"))
    BY DEF KeptMessage, Msg, HandshakeTypes
  <1>4. ~SameChain /\ n \notin Foreign => KeptClient(d) /\ \A x \in New : KeptMessage(x)
    BY <1>2, <1>3 DEF KeptClient
  <1> HIDE DEF d, New
  <1> QED
    BY <1>1, <1>4, KeptStep

\* The handshake messages of a connection that starts
LEMMA KeptConnect ==
    ASSUME HInv, NEW n \in Node, Connect(n)
    PROVE  KeptOutInv'
  <1> DEFINE m == Other(n)
             k == connections + 1
             refused == banned[m] # "no"
             out == Opened(client[n], FALSE, k)
             in == Opened(client[m], TRUE, k)
             inc == IF refused THEN [in EXCEPT !.state = "closing"] ELSE in
             toN == IF refused THEN Msg("EOF") ELSE Challenge(<<m, k>>)
             toM == IF refused THEN <<>> ELSE <<Challenge(<<n, k>>)>>
  <1>1. m \in Node /\ m # n /\ Other(m) = n /\ \A x \in Node : x = n \/ x = m
    BY OtherNode
  <1>2. /\ client' = [x \in Node |-> IF x = n THEN out ELSE inc]
        /\ chan' = [x \in Node |-> IF x = n THEN <<toN>> ELSE toM]
    BY DEF Connect
  <1>3. KeptClient(out) /\ KeptClient(inc)
    BY DEF KeptClient, Opened, Fresh
  <1>4. KeptMessage(toN)
    BY DEF KeptMessage, Msg, Challenge, HandshakeTypes
  <1>5. \A x \in El(toM) : KeptMessage(x)
    <2> DEFINE c == Challenge(<<n, k>>)
    <2>1. KeptMessage(c)
      BY DEF KeptMessage, Challenge, HandshakeTypes
    <2>2. toM = <<>> \/ toM = <<c>>
      OBVIOUS
    <2> HIDE DEF c, toM
    <2> QED
      BY <2>1, <2>2, ElOne, ElEmpty
  <1> HIDE DEF out, inc, toN, toM, m
  <1>6. /\ client'[n] = out /\ client'[m] = inc /\ El(chan'[n]) = {toN}
        /\ El(chan'[m]) = El(toM)
    BY <1>1, <1>2, ElOne
  <1>7. \A x \in Node : KeptClient(client'[x]) /\ \A y \in El(chan'[x]) : KeptMessage(y)
    BY <1>1, <1>3, <1>4, <1>5, <1>6
  <1>8. \A x \in Node : Other(x) \in Node
    BY OtherNode
  <1> QED
    BY <1>7, <1>8 DEF KeptOutInv

\* What a node reads from the open connection to a stranger
LEMMA KeptRead ==
    ASSUME HInv, KeptOutInv, NEW n \in Node, ReadMessage(n)
    PROVE  KeptOutInv'
  <1> DEFINE old == client[n]
             x == Head1(n)
  <1>1. old \in Client /\ old.blocks \in Nat /\ old.peers \in Nat /\ setup' = setup
    BY DEF HInv, TypeOK, Client, ReadMessage, Unexpected, OnDisconnected, OnHandshakeChallenge,
       OnHandshakeSolution, OnListenPort, OnBlockRequest, OnBlockResponse, OnPeerListRequest,
       OnPeerListResponse, OnBlockBroadcast
  <1>2. old.state = "open" /\ chan[n] # <<>>
    BY DEF ReadMessage, Unexpected, OnDisconnected, OnHandshakeChallenge,
       OnHandshakeSolution, OnListenPort, OnBlockRequest, OnBlockResponse, OnPeerListRequest,
       OnPeerListResponse, OnBlockBroadcast, Accepts, Reads
  <1>3. 1 \in 0 .. Len(chan[n]) /\ x \in Messages /\ x \in El(chan[n])
    BY <1>2, ReadFacts
  <1>4. ~SameChain /\ n \notin Foreign => KeptClient(old)
    BY DEF KeptOutInv
  <1>5. <<>> \in Seq(Messages) /\ \A y \in El(<<>>) : KeptMessage(y)
    BY ElEmpty
  <1>6. CASE Unexpected(n) \/ OnDisconnected(n)
    <2>1. Close(n, old, <<>>)
      BY <1>6 DEF Unexpected, OnDisconnected
    <2> QED
      BY <1>1, <1>4, <1>5, <2>1, KeptClose DEF KeptClient
  <1>7. ASSUME NEW c, Update(n, c, 1, <<>>),
               old.complete => c = old \/ c = [old EXCEPT !.listenPort = TRUE],
               ~old.complete => c = [old EXCEPT !.expected = "SOLUTION"]
        PROVE  KeptOutInv'
    <2>1. /\ c.complete = old.complete /\ c.invalid = old.invalid /\ c.sent = old.sent
          /\ c.state = old.state /\ c.blocks = old.blocks /\ c.peers = old.peers
      BY <1>1, <1>7 DEF Client
    <2>2. ~SameChain /\ n \notin Foreign => KeptClient(c)
      BY <1>4, <2>1 DEF KeptClient
    <2> QED
      BY <1>1, <1>3, <1>5, <1>7, <2>2, KeptUpdate
  <1>8. CASE OnHandshakeChallenge(n)
    <2>1. Update(n, [old EXCEPT !.expected = "SOLUTION"], 1, <<>>) /\ ~old.complete
      BY <1>8 DEF OnHandshakeChallenge, Accepts, Allowed
    <2> QED
      BY <1>7, <2>1
  <1>9. CASE OnListenPort(n) \/ OnBlockBroadcast(n)
    <2>1. old.complete
      BY <1>9, ReadOther DEF OnListenPort, OnBlockBroadcast
    <2>2. Update(n, [old EXCEPT !.listenPort = TRUE], 1, <<>>) \/ Update(n, old, 1, <<>>)
      BY <1>9 DEF OnListenPort, OnBlockBroadcast
    <2> QED
      BY <1>7, <2>1, <2>2
  <1>10. CASE OnBlockRequest(n) \/ OnPeerListRequest(n)
    <2>1. PICK y : y \in Messages /\ y.type \in Answers /\ Update(n, old, 1, <<y>>)
      <3>1. CASE OnBlockRequest(n)
        <4> DEFINE w == IF n \in synced THEN x.what ELSE "nothing"
        <4>1. Update(n, old, 1, <<Response(w)>>) /\ x.type = "BLOCK_REQUEST"
          BY <3>1 DEF OnBlockRequest, Accepts, Reads
        <4>2. w \in {"tip", "old", "nothing"}
          BY <1>3, <4>1, MessageTypes
        <4> HIDE DEF w
        <4> QED
          BY <4>1, <4>2, MessageTypes DEF Answers
      <3>2. CASE OnPeerListRequest(n)
        BY <3>2, MessageTypes DEF OnPeerListRequest, Answers
      <3> QED
        BY <1>10, <3>1, <3>2
    <2>2. <<y>> \in Seq(Messages) /\ \A z \in El(<<y>>) : KeptMessage(z)
      BY <2>1, ElOne DEF KeptMessage
    <2> QED
      BY <1>1, <1>3, <1>4, <2>1, <2>2, KeptUpdate
  <1>11. CASE OnBlockResponse(n) \/ OnPeerListResponse(n)
    <2>1. SameChain \/ n \in Foreign
      <3>1. old.complete
        BY <1>11, ReadOther DEF OnBlockResponse, OnPeerListResponse
      <3>2. old.blocks > 0 \/ old.peers > 0
        BY <1>11, <3>1 DEF OnBlockResponse, OnPeerListResponse, Accepts, Allowed
      <3> QED
        BY <1>4, <3>2 DEF KeptClient
    <2>2. ASSUME NEW c, NEW msgs \in Seq(Messages), Update(n, c, 1, msgs) PROVE KeptOutInv'
      BY <1>1, <1>3, <2>1, <2>2, KeptUpdate
    <2>3. ASSUME NEW c \in Client, Close(n, c, <<>>) PROVE KeptOutInv'
      BY <1>1, <1>5, <2>1, <2>3, KeptClose
    <2>4. CASE OnPeerListResponse(n)
      BY <1>5, <2>2, <2>4 DEF OnPeerListResponse
    <2>5. CASE OnBlockResponse(n)
      <3> DEFINE c == [old EXCEPT !.blocks = @ - 1]
                 d == [c EXCEPT !.tipRequest = FALSE]
      <3>1. <<Msg("PEER_LIST_REQUEST")>> \in Seq(Messages)
        BY MessageTypes, OneMessage
      <3>2. \/ Close(n, d, <<>>) \/ Update(n, c, 1, <<>>)
            \/ Update(n, [d EXCEPT !.peers = @ + 1], 1, <<Msg("PEER_LIST_REQUEST")>>)
        BY <2>5 DEF OnBlockResponse
      <3>3. d \in Client
        <4>1. old.blocks > 0
          BY <2>5, ReadOther DEF OnBlockResponse, Accepts, Allowed
        <4>2. old.blocks - 1 \in Nat
          BY <1>1, <4>1
        <4> QED
          BY <1>1, <4>2 DEF Client
      <3> HIDE DEF c, d
      <3> QED
        BY <1>5, <2>2, <2>3, <3>1, <3>2, <3>3
    <2> QED
      BY <1>11, <2>4, <2>5
  <1>12. CASE OnHandshakeSolution(n)
    <2> DEFINE ok == SolutionIsValid(n, x)
               c == [old EXCEPT !.complete = TRUE, !.invalid = ~ok]
    <2>1. x.type = "SOLUTION"
      BY <1>12 DEF OnHandshakeSolution, Accepts, Reads
    <2>2. ~SameChain => ~ok
      <3>1. x.chain = Chain[Other(n)]
        BY <1>3, <2>1 DEF HInv, ChannelsInv, Current
      <3> QED
        BY <3>1, OtherNode DEF SolutionIsValid, SameChain
    <2>3. IF c.sent /\ ~ok THEN Close(n, c, <<>>)
          ELSE IF ok THEN AfterSolution(n, c) ELSE Update(n, c, 1, <<>>)
      BY <1>12 DEF OnHandshakeSolution
    <2>4. /\ c \in Client /\ c.complete /\ c.invalid = ~ok /\ c.sent = old.sent
          /\ c.state = "open" /\ c.blocks = old.blocks /\ c.peers = old.peers
      BY <1>1, <1>2 DEF Client
    <2> HIDE DEF c, ok
    <2>5. CASE ok
      <3>1. \E e : \E msgs \in Seq(Messages) : Update(n, e, 1, msgs)
        BY <1>5, <2>3, <2>5, AfterHandshakeType DEF AfterSolution
      <3> QED
        BY <1>1, <1>3, <2>2, <2>5, <3>1, KeptUpdate
    <2>6. CASE ~ok /\ c.sent
      <3>1. Close(n, c, <<>>)
        BY <2>3, <2>6
      <3> QED
        BY <1>1, <1>4, <1>5, <2>4, <2>6, <3>1, KeptClose DEF KeptClient
    <2>7. CASE ~ok /\ ~c.sent
      <3>1. Update(n, c, 1, <<>>)
        BY <2>3, <2>7
      <3>2. ~SameChain /\ n \notin Foreign => KeptClient(c)
        BY <1>4, <2>4, <2>7 DEF KeptClient
      <3> QED
        BY <1>1, <1>3, <1>5, <3>1, <3>2, KeptUpdate
    <2> QED
      BY <2>5, <2>6, <2>7
  <1> QED
    BY <1>6, <1>8, <1>9, <1>10, <1>11, <1>12 DEF ReadMessage

\* Our own solution ends the connection to a stranger that has sent its own
LEMMA KeptSolution ==
    ASSUME HInv, KeptOutInv, NEW j \in jobs, SolutionDone(j)
    PROVE  KeptOutInv'
  <1> DEFINE n == j.node
             old == client[n]
             c == [old EXCEPT !.sent = TRUE]
             d == IF GoesOn(c) THEN Asked(c) ELSE c
             x == Solution(j)
             rest == IF GoesOn(c) THEN AfterHandshake ELSE <<>>
             msgs == <<x>> \o rest
  <1>1. n \in Node /\ old \in Client /\ setup' = setup
    BY DEF SolutionDone, HInv, TypeOK, Job
  <1>2. /\ c \in Client /\ c.state = old.state /\ c.complete = old.complete
        /\ c.invalid = old.invalid /\ c.blocks = old.blocks /\ c.peers = old.peers
    BY <1>1 DEF Client
  <1>3. ~SameChain /\ n \notin Foreign => KeptClient(old)
    BY <1>1 DEF KeptOutInv
  <1>4. IF ~StillConnected(j) THEN UNCHANGED <<client, chan>>
        ELSE IF c.state = "closing"
        THEN client' = [client EXCEPT ![n] = c] /\ UNCHANGED chan
        ELSE IF BadPeer(c) THEN Close(n, c, msgs) ELSE Update(n, d, 0, msgs)
    BY DEF SolutionDone
  <1>5. CASE ~StillConnected(j)
    <2>1. UNCHANGED <<client, chan, setup>>
      BY <1>1, <1>4, <1>5
    <2> QED
      BY <2>1 DEF KeptOutInv, SameChain, Chain, Foreign
  <1>6. CASE StillConnected(j) /\ c.state = "closing"
    <2>1. client' = [client EXCEPT ![n] = c] /\ chan' = chan
      BY <1>4, <1>6
    <2>2. Progress(n, c, {})
      BY <2>1, <1>1, OtherNode DEF Progress, HInv, TypeOK, ClientsInv
    <2>3. ~SameChain /\ n \notin Foreign => KeptClient(c)
      BY <1>2, <1>3, <1>6 DEF KeptClient
    <2> HIDE DEF c, n
    <2> QED
      BY <1>1, <2>2, <2>3, KeptStep
  <1>7. CASE StillConnected(j) /\ c.state # "closing"
    <2>1. x \in Messages /\ x.type = "SOLUTION"
      BY <1>7, SolutionType DEF SolutionDone
    <2>2. rest \in Seq(Messages) /\ <<x>> \in Seq(Messages)
      BY <2>1, AfterHandshakeType
    <2>3. msgs \in Seq(Messages) /\ El(msgs) = {x} \cup El(rest)
      <3> DEFINE a == <<x>>
      <3>1. a \in Seq(Messages) /\ El(a) = {x}
        BY <2>2, ElOne
      <3>2. msgs = a \o rest
        OBVIOUS
      <3> HIDE DEF a, rest, msgs
      <3> QED
        BY <2>2, <3>1, <3>2, ElConcat
    <2>4. ~SameChain /\ n \notin Foreign => \A y \in El(msgs) : KeptMessage(y)
      <3>1. ~SameChain /\ n \notin Foreign => ~GoesOn(c)
        <4> HIDE DEF c
        <4> QED
          BY <1>2, <1>3 DEF KeptClient, GoesOn
      <3>2. KeptMessage(x)
        <4> HIDE DEF x
        <4> QED
          BY <2>1 DEF KeptMessage, HandshakeTypes
      <3>3. ~GoesOn(c) => El(rest) = {}
        BY ElEmpty
      <3> HIDE DEF c, x, rest, msgs
      <3> QED
        BY <2>3, <3>1, <3>2, <3>3
    <2> HIDE DEF msgs
    <2>5. CASE BadPeer(c)
      <3>1. Close(n, c, msgs)
        BY <1>4, <1>7, <2>5
      <3> HIDE DEF c
      <3>2. ~SameChain /\ n \notin Foreign =>
               (c.complete => c.invalid) /\ c.blocks = 0 /\ c.peers = 0
        BY <1>2, <1>3 DEF KeptClient
      <3> HIDE DEF n
      <3> QED
        BY <1>1, <1>2, <2>3, <2>4, <3>1, <3>2, KeptClose
    <2>6. CASE ~BadPeer(c)
      <3>1. Update(n, d, 0, msgs)
        BY <1>4, <1>7, <2>6
      <3>2. ~SameChain /\ n \notin Foreign => KeptClient(d)
        <4> HIDE DEF c
        <4>1. ~SameChain /\ n \notin Foreign => ~GoesOn(c) /\ ~c.complete
          BY <1>2, <1>3, <2>6 DEF KeptClient, GoesOn, BadPeer
        <4>2. ~GoesOn(c) => d = c
          OBVIOUS
        <4> HIDE DEF d
        <4> QED
          BY <1>2, <1>3, <4>1, <4>2 DEF KeptClient
      <3>3. 0 \in 0 .. Len(chan[n])
        BY <1>1 DEF HInv, TypeOK
      <3> HIDE DEF d, n
      <3> QED
        BY <1>1, <2>3, <2>4, <3>1, <3>2, <3>3, KeptUpdate
    <2> QED
      BY <2>5, <2>6
  <1> QED
    BY <1>5, <1>6, <1>7

LEMMA KeptNext ==
    ASSUME HInv, KeptOutInv, [Next]_vars
    PROVE  KeptOutInv'
  <1>1. ASSUME NEW n \in Node, Reset(n) PROVE KeptOutInv'
    <2> DEFINE f == Fresh(client[n])
    <2>1. client' = [client EXCEPT ![n] = f] /\ chan' = chan /\ setup' = setup
      BY <1>1 DEF Reset
    <2>2. KeptClient(f)
      BY DEF KeptClient, Fresh
    <2> HIDE DEF f
    <2>3. Progress(n, f, {})
      BY <2>1, OtherNode DEF Progress, HInv, TypeOK, ClientsInv
    <2> QED
      BY <2>1, <2>2, <2>3, KeptStep
  <1>2. ASSUME NEW n \in Node, IdleTimeout(n) PROVE KeptOutInv'
    <2>1. Close(n, client[n], <<>>) /\ setup' = setup /\ client[n] \in Client
      BY <1>2 DEF IdleTimeout, HInv, TypeOK
    <2>2. <<>> \in Seq(Messages) /\ \A y \in El(<<>>) : KeptMessage(y)
      BY ElEmpty
    <2>3. ~SameChain /\ n \notin Foreign => KeptClient(client[n])
      BY DEF KeptOutInv
    <2> QED
      BY <2>1, <2>2, <2>3, KeptClose DEF KeptClient
  <1>3. ASSUME NEW n \in Node,
               \/ DownloadMissingBlock(n) \/ UpdatePeerList(n) \/ OnBroadcast(n)
               \/ ForeignSends(n)
        PROVE  KeptOutInv'
    <2>1. \E c : \E x \in Messages : Update(n, c, 0, <<x>>)
      BY <1>3, MessageTypes DEF DownloadMissingBlock, UpdatePeerList, OnBroadcast, ForeignSends,
         Sends
    <2>2. SameChain \/ n \in Foreign
      <3>1. Good(n) \/ n \in Foreign
        BY <1>3 DEF DownloadMissingBlock, UpdatePeerList, OnBroadcast, ForeignSends, Sends
      <3> QED
        BY <3>1 DEF Good, KeptOutInv, KeptClient
    <2>3. setup' = setup
      BY <1>3 DEF DownloadMissingBlock, UpdatePeerList, OnBroadcast, ForeignSends, Sends
    <2>4. 0 \in 0 .. Len(chan[n])
      BY DEF HInv, TypeOK
    <2>5. \A x \in Messages : <<x>> \in Seq(Messages)
      OBVIOUS
    <2> QED
      BY <2>1, <2>2, <2>3, <2>4, <2>5, KeptUpdate
  <1>4. ASSUME UNCHANGED <<setup, client, chan>> PROVE KeptOutInv'
    BY <1>4 DEF KeptOutInv, SameChain, Chain, Foreign
  <1>5. ASSUME NEW n \in Node, BanExpires(n) \/ GetBlocks(n) PROVE KeptOutInv'
    BY <1>4, <1>5 DEF BanExpires, GetBlocks
  <1>6. ASSUME NEW j \in jobs, SolveChallenge(j) PROVE KeptOutInv'
    BY <1>4, <1>6 DEF SolveChallenge
  <1>7. CASE UNCHANGED vars
    BY <1>4, <1>7 DEF vars
  <1>8. ASSUME NEW n \in Node, LoopThread(n) PROVE KeptOutInv'
    BY <1>1, <1>8, KeptConnect, KeptRead, KeptSolution DEF LoopThread
  <1> QED
    BY <1>2, <1>3, <1>5, <1>6, <1>7, <1>8 DEF Next

\* on_handshake_solution, send_handshake_solution: until the other side has answered its
\* challenge a node sends nothing but its own part of the handshake.  A node of another side
\* chain, whatever program it runs, never gets more than that, except for answers to what it
\* asks out of turn between its own invalid solution and ours.
THEOREM StrangersStayOut == Spec => []StrangersAreKeptOut
  <1>1. HInv => NothingBeforeTheHandshake
    <2> SUFFICES ASSUME HInv, NEW n \in Node \ Foreign, client[n].state = "open",
                        ~client[n].complete, NEW k \in 1 .. Len(chan[Other(n)])
                 PROVE  chan[Other(n)][k].type \in {"CHALLENGE", "SOLUTION"}
      BY DEF NothingBeforeTheHandshake
    <2>1. chan[Other(n)][k] \in El(chan[Other(n)])
      BY DEF El
    <2> QED
      BY <2>1 DEF HInv, SilentInv
  <1>2. HInv /\ KeptOutInv => StrangersExchangeNothing
    <2> SUFFICES ASSUME HInv, KeptOutInv, ~SameChain, NEW n \in Node \ Foreign,
                        NEW k \in 1 .. Len(chan[Other(n)]),
                        chan[Other(n)][k].type \notin HandshakeTypes
                 PROVE  /\ Foreign # {} /\ chan[Other(n)][k].type \in Answers
                        /\ client[n].state = "open" =>
                             client[n].complete /\ client[n].invalid /\ ~client[n].sent
      BY DEF StrangersExchangeNothing
    <2> DEFINE x == chan[Other(n)][k]
    <2>1. x \in El(chan[Other(n)]) /\ Other(n) \in Node
      BY OtherNode DEF El
    <2>2. KeptMessage(x) /\ KeptClient(client[n])
      BY <2>1 DEF KeptOutInv
    <2>3. Foreign # {}
      BY <2>1 DEF HInv, StrangersInv, HandshakeTypes
    <2>4. client[n].state = "open" => client[n].complete
      BY <2>1 DEF HInv, SilentInv, HandshakeTypes
    <2> QED
      BY <2>2, <2>3, <2>4 DEF KeptMessage, KeptClient
  <1>3. Init => HInv /\ KeptOutInv
    <2> SUFFICES ASSUME Init PROVE KeptOutInv
      BY HandshakeInit
    <2>1. \A n \in Node : KeptClient(client[n]) /\ El(chan[n]) = {}
      BY ElEmpty DEF Init, KeptClient, Fresh
    <2> QED
      BY <2>1, OtherNode DEF KeptOutInv
  <1>4. HInv /\ KeptOutInv /\ [Next]_vars => (HInv /\ KeptOutInv)'
    BY HandshakeStep, KeptNext
  <1>5. HInv /\ KeptOutInv => StrangersAreKeptOut
    BY <1>1, <1>2 DEF StrangersAreKeptOut
  <1> QED
    BY <1>3, <1>4, <1>5, PTL DEF Spec

-----------------------------------------------------------------------------
(* Counting the messages of a kind                                         *)

Count(s, type) == Cardinality({i \in 1 .. Len(s) : s[i].type = type})

LEMMA CountType ==
    ASSUME NEW S, NEW s \in Seq(S), NEW t
    PROVE  Count(s, t) \in Nat /\ IsFiniteSet({i \in 1 .. Len(s) : s[i].type = t})
  <1>1. IsFiniteSet(1 .. Len(s))
    BY FS_Interval
  <1>2. {i \in 1 .. Len(s) : s[i].type = t} \subseteq 1 .. Len(s)
    OBVIOUS
  <1> QED
    BY <1>1, <1>2, FS_Subset, FS_CardinalityType DEF Count

LEMMA CountConcat ==
    ASSUME NEW S, NEW s \in Seq(S), NEW u \in Seq(S), NEW t
    PROVE  Count(s \o u, t) = Count(s, t) + Count(u, t)
  <1> DEFINE n == Len(s)
             A == {i \in 1 .. n : s[i].type = t}
             B == {i \in 1 .. Len(u) : u[i].type = t}
             C == {i \in 1 .. Len(s \o u) : (s \o u)[i].type = t}
             D == {i + n : i \in B}
  <1>1. n \in Nat /\ Len(u) \in Nat /\ Len(s \o u) = n + Len(u)
        /\ \A i \in 1 .. n + Len(u) : (s \o u)[i] = IF i <= n THEN s[i] ELSE u[i - n]
    BY ConcatProperties
  <1>2. IsFiniteSet(A) /\ IsFiniteSet(B) /\ Cardinality(A) \in Nat /\ Cardinality(B) \in Nat
    BY CountType DEF Count
  <1>3. C = A \cup D
    <2>1. ASSUME NEW i \in C PROVE i \in A \cup D
      <3>1. CASE i <= n
        BY <1>1, <3>1
      <3>2. CASE i > n
        <4>1. i - n \in B /\ i = (i - n) + n
          BY <1>1, <3>2
        <4> HIDE DEF B
        <4> QED
          BY <4>1
      <3>3. i <= n \/ i > n
        BY <1>1
      <3> HIDE DEF A, D, n
      <3> QED
        BY <3>1, <3>2, <3>3
    <2>2. ASSUME NEW i \in A PROVE i \in C
      BY <1>1
    <2>3. ASSUME NEW i \in B PROVE i + n \in C
      BY <1>1
    <2> QED
      BY <2>1, <2>2, <2>3
  <1>4. A \cap D = {}
    BY <1>1
  <1>5. IsFiniteSet(D) /\ Cardinality(D) = Cardinality(B)
    <2> DEFINE f == [i \in B |-> i + n]
    <2>1. B \subseteq Nat
      OBVIOUS
    <2> HIDE DEF B
    <2>2. f \in Bijection(B, D)
      <3>1. f \in [B -> D] /\ \A i \in B : f[i] = i + n
        OBVIOUS
      <3>2. \A i, j \in B : i + n = j + n => i = j
        BY <1>1, <2>1
      <3>3. \A d \in D : \E i \in B : f[i] = d
        BY <3>1
      <3> HIDE DEF f, D
      <3>4. f \in Injection(B, D)
        BY <3>1, <3>2 DEF Injection, IsInjective
      <3>5. f \in Surjection(B, D)
        BY <3>1, <3>3 DEF Surjection
      <3> QED
        BY <3>4, <3>5 DEF Bijection
    <2>3. ExistsBijection(B, D)
      BY <2>2 DEF ExistsBijection
    <2> QED
      BY <1>2, <2>3, FS_Bijection
  <1>6. Cardinality(A \cup D) = Cardinality(A) + Cardinality(D) - Cardinality(A \cap D)
    BY <1>2, <1>5, FS_Union
  <1>7. Cardinality(A \cap D) = 0
    BY <1>4, FS_EmptySet
  <1> HIDE DEF A, B, C, D
  <1>8. Cardinality(C) = Cardinality(A) + Cardinality(B)
    BY <1>2, <1>3, <1>5, <1>6, <1>7
  <1> QED
    BY <1>8 DEF Count, A, B, C

LEMMA CountUniform ==
    ASSUME NEW S, NEW s \in Seq(S), NEW t
    PROVE  /\ (\A i \in 1 .. Len(s) : s[i].type = t) => Count(s, t) = Len(s)
           /\ (\A i \in 1 .. Len(s) : s[i].type # t) => Count(s, t) = 0
  <1>1. ASSUME \A i \in 1 .. Len(s) : s[i].type = t PROVE Count(s, t) = Len(s)
    <2>1. {i \in 1 .. Len(s) : s[i].type = t} = 1 .. Len(s)
      BY <1>1
    <2>2. Cardinality(1 .. Len(s)) = Len(s)
      <3>1. 1 \in Int /\ Len(s) \in Int /\ Len(s) >= 0
        OBVIOUS
      <3>2. Cardinality(1 .. Len(s)) = IF 1 > Len(s) THEN 0 ELSE Len(s) - 1 + 1
        BY <3>1, FS_Interval
      <3> QED
        BY ONLY <3>1, <3>2
    <2> QED
      BY <2>1, <2>2 DEF Count
  <1>2. ASSUME \A i \in 1 .. Len(s) : s[i].type # t PROVE Count(s, t) = 0
    <2>1. {i \in 1 .. Len(s) : s[i].type = t} = {}
      BY <1>2
    <2> QED
      BY <2>1, FS_EmptySet DEF Count
  <1> QED
    BY <1>1, <1>2

LEMMA CountOne ==
    ASSUME NEW S, NEW x \in S, NEW t
    PROVE  Count(<<x>>, t) = IF x.type = t THEN 1 ELSE 0
  <1>1. <<x>> \in Seq(S) /\ Len(<<x>>) = 1 /\ \A i \in 1 .. Len(<<x>>) : <<x>>[i] = x
    OBVIOUS
  <1> DEFINE s == <<x>>
  <1> HIDE DEF s
  <1>2. s \in Seq(S) /\ Len(s) = 1 /\ \A i \in 1 .. Len(s) : s[i] = x
    BY <1>1 DEF s
  <1>3. Count(s, t) = IF x.type = t THEN 1 ELSE 0
    BY <1>2, CountUniform
  <1> QED
    BY <1>3 DEF s

LEMMA CountTail ==
    ASSUME NEW S, NEW s \in Seq(S), s # <<>>, NEW t
    PROVE  /\ Head(s) \in S /\ Tail(s) \in Seq(S)
           /\ Count(s, t) = Count(Tail(s), t) + IF Head(s).type = t THEN 1 ELSE 0
  <1>1. Head(s) \in S /\ Tail(s) \in Seq(S) /\ <<Head(s)>> \in Seq(S)
    BY HeadTailProperties
  <1>2. s = <<Head(s)>> \o Tail(s)
    OBVIOUS
  <1>3. Count(s, t) = Count(<<Head(s)>>, t) + Count(Tail(s), t)
    BY <1>1, <1>2, CountConcat
  <1>4. Count(<<Head(s)>>, t) = IF Head(s).type = t THEN 1 ELSE 0
    BY <1>1, CountOne
  <1>5. Count(Tail(s), t) \in Nat
    BY <1>1, CountType
  <1> QED
    BY <1>1, <1>3, <1>4, <1>5

-----------------------------------------------------------------------------
(* What two honest nodes of one side chain may send each other             *)

Talk == {"BLOCK_REQUEST", "BLOCK_RESPONSE", "PEER_LIST_REQUEST", "PEER_LIST_RESPONSE",
         "BLOCK_BROADCAST"}

\* The messages a node sends on a connection begin with these
InPlace(type, p) ==
    /\ p = 1 => type = "CHALLENGE"
    /\ p = 2 => type = "SOLUTION"
    /\ p = 3 => type = "LISTEN_PORT"
    /\ p > 3 => type \in Talk

\* How many of them a client has read, at least when it has read all three
Done(c) ==
    IF c.expected = "CHALLENGE" THEN 0
    ELSE IF ~c.complete THEN 1 ELSE IF ~c.listenPort THEN 2 ELSE 3

\* Client d has sent k messages, at least when it has sent its port
Written(d, k) == IF ~d.sent THEN k = 1 ELSE IF ~d.complete THEN k = 2 ELSE k >= 3

\* A client goes through the handshake in order, and finds nothing wrong
Flags(c) ==
    /\ ~c.invalid
    /\ c.listenPort => c.complete
    /\ c.complete => c.expected = "SOLUTION"
    /\ c.expected = "CHALLENGE" => ~c.sent

\* Client c has the messages s of client d to read, and d has the messages t of c.  What
\* is on its way comes in order, as far as d has got with its handshake; and what was
\* asked for, or is an answer, was counted.
Side(c, d, s, t) ==
    /\ Flags(c)
    /\ c.state = "open" =>
          /\ \A k \in 1 .. Len(s) : s[k].type = "EOF" \/ InPlace(s[k].type, k + Done(c))
          /\ d.state = "open" => Written(d, Len(s) + Done(c))
          /\ Count(s, "BLOCK_RESPONSE") + Count(t, "BLOCK_REQUEST") <= c.blocks
          /\ Count(s, "PEER_LIST_RESPONSE") + Count(t, "PEER_LIST_REQUEST") <= c.peers

\* One solution per connection is computed, until it is sent
OneJob ==
    \A j \in jobs : j.counter = client[j.node].counter =>
        /\ ~client[j.node].sent /\ client[j.node].expected = "SOLUTION"
        /\ \A i \in jobs : i.node = j.node /\ i.counter = j.counter => i = j

Honest == SameChain /\ Foreign = {}

\* The inductive invariant, which rests on HInv
PeaceInv ==
    Honest =>
        /\ \A n \in Node : Side(client[n], client[Other(n)], chan[n], chan[Other(n)])
        /\ \A n \in Node : banned[n] \notin {"unexpected", "invalid"}
        /\ OneJob

-----------------------------------------------------------------------------
(* Messages read, sent and lost                                            *)

LEMMA CountEmpty ==
    ASSUME NEW type
    PROVE  Count(<<>>, type) = 0
  <1>1. {i \in 1 .. Len(<<>>) : <<>>[i].type = type} = {}
    OBVIOUS
  <1> QED
    BY <1>1, FS_EmptySet DEF Count

LEMMA DoneValues ==
    ASSUME NEW c \in Client
    PROVE  /\ Done(c) \in {0, 1, 2, 3}
           /\ Flags(c) => /\ c.expected = "CHALLENGE" <=> Done(c) = 0
                          /\ c.complete <=> Done(c) \in {2, 3}
                          /\ c.listenPort <=> Done(c) = 3
  BY DEF Done, Flags, Client

\* What taking a message off a channel leaves
Got(s, taken, type) == IF taken = 1 /\ s[1].type = type THEN 1 ELSE 0

\* r is s without the first message, or all of s
Leaves(s, taken, r) ==
    /\ r \in Seq(Messages) /\ Len(r) = Len(s) - taken
    /\ \A i \in 1 .. Len(r) : i + taken \in 1 .. Len(s) /\ r[i] = s[i + taken]
    /\ \A type : /\ Count(r, type) \in Nat /\ Got(s, taken, type) \in {0, 1}
                 /\ Count(s, type) = Count(r, type) + Got(s, taken, type)

LEMMA Taken ==
    ASSUME NEW s \in Seq(Messages), NEW taken \in {0, 1}, taken <= Len(s), NEW r,
           r = SubSeq(s, taken + 1, Len(s))
    PROVE  Leaves(s, taken, r)
  <1>1. Len(s) \in Nat /\ taken + 1 \in 1 .. Len(s) + 1 /\ Len(s) \in 0 .. Len(s)
    OBVIOUS
  <1>2. /\ r \in Seq(Messages)
        /\ Len(r) = IF taken + 1 <= Len(s) THEN Len(s) - (taken + 1) + 1 ELSE 0
        /\ \A i \in 1 .. Len(r) : r[i] = s[taken + 1 + i - 1]
    BY <1>1, ElSubSeq
  <1>3. Len(r) = Len(s) - taken
    BY <1>1, <1>2
  <1>4. ASSUME NEW i \in 1 .. Len(r) PROVE i + taken \in 1 .. Len(s) /\ r[i] = s[i + taken]
    <2>1. taken + 1 + i - 1 = i + taken /\ i + taken \in 1 .. Len(s)
      BY <1>1, <1>3
    <2> QED
      BY <1>2, <2>1
  <1>5. ASSUME NEW type
        PROVE  /\ Count(r, type) \in Nat /\ Got(s, taken, type) \in {0, 1}
               /\ Count(s, type) = Count(r, type) + Got(s, taken, type)
    <2>1. Count(r, type) \in Nat /\ Got(s, taken, type) \in {0, 1}
      BY <1>2, CountType DEF Got
    <2>2. CASE taken = 0
      <3>1. Len(r) = Len(s) /\ \A i \in 1 .. Len(s) : r[i] = s[i]
        BY <1>1, <1>3, <1>4, <2>2
      <3>2. r = s
        BY <1>2, <3>1, SeqEqual
      <3>3. Got(s, taken, type) = 0
        BY <2>2 DEF Got
      <3>4. Count(s, type) = Count(r, type)
        BY ONLY <3>2, Zenon
      <3> QED
        BY ONLY <2>1, <3>3, <3>4
    <2>3. CASE taken = 1
      <3> DEFINE h == <<s[1]>>
      <3>1. 1 \in 1 .. Len(s) /\ s[1] \in Messages
        BY <1>1, <2>3
      <3>2. h \in Seq(Messages) /\ Len(h) = 1 /\ h[1] = s[1]
        BY <3>1
      <3>3. Count(h, type) = IF s[1].type = type THEN 1 ELSE 0
        BY <3>1, CountOne
      <3> HIDE DEF h
      <3>4. s = h \o r
        <4>1. /\ h \o r \in Seq(Messages) /\ Len(h \o r) = Len(h) + Len(r)
              /\ \A i \in 1 .. Len(h) + Len(r) :
                    (h \o r)[i] = IF i <= Len(h) THEN h[i] ELSE r[i - Len(h)]
          BY <1>2, <3>2, ConcatProperties
        <4>2. Len(h \o r) = Len(s)
          BY <1>1, <1>3, <2>3, <3>2, <4>1
        <4>3. ASSUME NEW i \in 1 .. Len(s) PROVE (h \o r)[i] = s[i]
          <5>1. (h \o r)[i] = IF i <= 1 THEN h[i] ELSE r[i - 1]
            BY <3>2, <4>1, <4>2
          <5>2. CASE i = 1
            BY <3>2, <5>1, <5>2
          <5>3. CASE i # 1
            <6>1. i - 1 \in 1 .. Len(r) /\ ~(i <= 1) /\ (i - 1) + taken = i
              BY <1>1, <1>3, <2>3, <5>3
            <6> QED
              BY <1>4, <5>1, <6>1
          <5> QED
            BY <5>2, <5>3
        <4> QED
          BY <4>1, <4>2, <4>3, SeqEqual
      <3>5. Count(h \o r, type) = Count(h, type) + Count(r, type)
        BY <1>2, <3>2, CountConcat
      <3>6. Got(s, taken, type) = Count(h, type)
        BY <2>3, <3>3 DEF Got
      <3>7. Count(s, type) = Count(h, type) + Count(r, type)
        BY ONLY <3>4, <3>5, Zenon
      <3> QED
        BY ONLY <2>1, <3>6, <3>7
    <2> QED
      BY <2>1, <2>2, <2>3
  <1> QED
    BY <1>2, <1>3, <1>4, <1>5 DEF Leaves

LEMMA Sent ==
    ASSUME NEW t \in Seq(Messages), NEW msgs \in Seq(Messages)
    PROVE  /\ t \o msgs \in Seq(Messages) /\ Len(t \o msgs) = Len(t) + Len(msgs)
           /\ \A i \in 1 .. Len(t \o msgs) :
                 \/ i \in 1 .. Len(t) /\ (t \o msgs)[i] = t[i]
                 \/ i - Len(t) \in 1 .. Len(msgs) /\ (t \o msgs)[i] = msgs[i - Len(t)]
           /\ \A type : /\ Count(t \o msgs, type) = Count(t, type) + Count(msgs, type)
                        /\ Count(t, type) \in Nat /\ Count(msgs, type) \in Nat
  <1>1. /\ t \o msgs \in Seq(Messages) /\ Len(t \o msgs) = Len(t) + Len(msgs)
        /\ \A i \in 1 .. Len(t) + Len(msgs) :
              (t \o msgs)[i] = IF i <= Len(t) THEN t[i] ELSE msgs[i - Len(t)]
    BY ConcatProperties
  <1>2. Len(t) \in Nat /\ Len(msgs) \in Nat
    OBVIOUS
  <1> DEFINE u == t \o msgs
  <1> HIDE DEF u
  <1>3. ASSUME NEW i \in 1 .. Len(u)
        PROVE  \/ i \in 1 .. Len(t) /\ u[i] = t[i]
               \/ i - Len(t) \in 1 .. Len(msgs) /\ u[i] = msgs[i - Len(t)]
    <2>1. /\ Len(u) = Len(t) + Len(msgs)
          /\ \A k \in 1 .. Len(t) + Len(msgs) : u[k] = IF k <= Len(t) THEN t[k] ELSE msgs[k - Len(t)]
      BY <1>1 DEF u
    <2> QED
      BY <1>2, <2>1
  <1>4. \A type : /\ Count(u, type) = Count(t, type) + Count(msgs, type)
                  /\ Count(t, type) \in Nat /\ Count(msgs, type) \in Nat
    BY CountConcat, CountType DEF u
  <1> QED
    BY <1>1, <1>3, <1>4 DEF u

\* u is t with msgs behind it, if client d reads it
Reaches(t, msgs, d, u) ==
    /\ u \in Seq(Messages)
    /\ d.state = "open" =>
         /\ Len(u) = Len(t) + Len(msgs)
         /\ \A i \in 1 .. Len(u) :
              \/ i \in 1 .. Len(t) /\ u[i] = t[i]
              \/ i - Len(t) \in 1 .. Len(msgs) /\ u[i] = msgs[i - Len(t)]
    /\ \A type : /\ Count(u, type) \in Nat /\ Count(msgs, type) \in Nat
                 /\ Count(t, type) \in Nat
                 /\ Count(u, type) = Count(t, type) + IF d.state = "open" THEN Count(msgs, type) ELSE 0

LEMMA Posted ==
    ASSUME NEW t \in Seq(Messages), NEW msgs \in Seq(Messages), NEW d, NEW u,
           u = IF d.state = "open" THEN t \o msgs ELSE t
    PROVE  Reaches(t, msgs, d, u)
  <1>1. CASE d.state = "open"
    <2>1. u = t \o msgs
      BY <1>1
    <2>2. /\ t \o msgs \in Seq(Messages) /\ Len(t \o msgs) = Len(t) + Len(msgs)
          /\ \A i \in 1 .. Len(t \o msgs) :
                \/ i \in 1 .. Len(t) /\ (t \o msgs)[i] = t[i]
                \/ i - Len(t) \in 1 .. Len(msgs) /\ (t \o msgs)[i] = msgs[i - Len(t)]
          /\ \A type : /\ Count(t \o msgs, type) = Count(t, type) + Count(msgs, type)
                       /\ Count(t, type) \in Nat /\ Count(msgs, type) \in Nat
      BY Sent
    <2>3. /\ u \in Seq(Messages) /\ Len(u) = Len(t) + Len(msgs)
          /\ \A i \in 1 .. Len(u) :
                \/ i \in 1 .. Len(t) /\ u[i] = t[i]
                \/ i - Len(t) \in 1 .. Len(msgs) /\ u[i] = msgs[i - Len(t)]
          /\ \A type : /\ Count(u, type) = Count(t, type) + Count(msgs, type)
                       /\ Count(t, type) \in Nat /\ Count(msgs, type) \in Nat
      BY ONLY <2>1, <2>2, Zenon
    <2>4. \A type : Count(u, type) \in Nat
      BY <2>3, CountType
    <2> QED
      BY ONLY <1>1, <2>3, <2>4 DEF Reaches
  <1>2. CASE d.state # "open"
    <2>1. u = t /\ u \in Seq(Messages)
      BY <1>2
    <2>2. \A type : Count(t, type) \in Nat /\ Count(msgs, type) \in Nat
      BY CountType
    <2>3. \A type : Count(t, type) = Count(t, type) + 0
      BY <2>2
    <2> QED
      BY ONLY <1>2, <2>1, <2>2, <2>3 DEF Reaches
  <1> QED
    BY <1>1, <1>2

\* What is left of the messages on their way when the sender closes the connection
LEMMA CutOff ==
    ASSUME NEW t \in Seq(Messages), NEW k \in 0 .. Len(t), NEW eof \in Messages,
           eof.type = "EOF", NEW u, u = SubSeq(t, 1, k) \o <<eof>>
    PROVE  /\ u \in Seq(Messages)
           /\ \A i \in 1 .. Len(u) : u[i].type = "EOF" \/ (i \in 1 .. Len(t) /\ u[i] = t[i])
           /\ \A type : type # "EOF" => Count(u, type) <= Count(t, type) /\ Count(u, type) \in Nat
  <1> DEFINE a == SubSeq(t, 1, k)
             b == SubSeq(t, k + 1, Len(t))
             e == <<eof>>
  <1>1. Len(t) \in Nat /\ k \in Nat /\ k <= Len(t)
    OBVIOUS
  <1>2. /\ a \in Seq(Messages) /\ Len(a) = (IF 1 <= k THEN k - 1 + 1 ELSE 0)
        /\ \A i \in 1 .. Len(a) : a[i] = t[1 + i - 1]
    <2>1. 1 \in 1 .. Len(t) + 1
      BY <1>1
    <2> QED
      BY <1>1, <2>1, ElSubSeq
  <1>3. /\ b \in Seq(Messages) /\ Len(b) = (IF k + 1 <= Len(t) THEN Len(t) - (k + 1) + 1 ELSE 0)
        /\ \A i \in 1 .. Len(b) : b[i] = t[k + 1 + i - 1]
    <2>1. k + 1 \in 1 .. Len(t) + 1 /\ Len(t) \in 0 .. Len(t)
      BY <1>1
    <2> QED
      BY <1>1, <2>1, ElSubSeq
  <1>4. e \in Seq(Messages) /\ Len(e) = 1 /\ e[1] = eof
    OBVIOUS
  <1>5. \A type : Count(e, type) = IF type = "EOF" THEN 1 ELSE 0
    BY CountOne
  <1>6. u = a \o e
    OBVIOUS
  <1> HIDE DEF a, b, e
  <1>7. Len(a) = k /\ Len(b) = Len(t) - k
    BY <1>1, <1>2, <1>3
  <1>8. t = a \o b
    <2>1. /\ a \o b \in Seq(Messages) /\ Len(a \o b) = Len(a) + Len(b)
          /\ \A i \in 1 .. Len(a) + Len(b) :
                (a \o b)[i] = IF i <= Len(a) THEN a[i] ELSE b[i - Len(a)]
      BY <1>2, <1>3, ConcatProperties
    <2>2. Len(a \o b) = Len(t)
      BY <1>1, <1>7, <2>1
    <2>3. ASSUME NEW i \in 1 .. Len(t) PROVE (a \o b)[i] = t[i]
      <3>1. (a \o b)[i] = IF i <= k THEN a[i] ELSE b[i - k]
        BY <1>7, <2>1, <2>2
      <3>2. CASE i <= k
        <4>1. i \in 1 .. Len(a) /\ 1 + i - 1 = i
          BY <1>1, <1>7, <3>2
        <4> QED
          BY <1>2, <3>1, <3>2, <4>1
      <3>3. CASE ~(i <= k)
        <4>1. i - k \in 1 .. Len(b) /\ k + 1 + (i - k) - 1 = i
          BY <1>1, <1>7, <3>3
        <4> QED
          BY <1>3, <3>1, <3>3, <4>1
      <3> QED
        BY <3>2, <3>3
    <2> QED
      BY <2>1, <2>2, <2>3, SeqEqual
  <1>9. u \in Seq(Messages) /\ \A i \in 1 .. Len(u) : u[i].type = "EOF" \/ (i \in 1 .. Len(t) /\ u[i] = t[i])
    <2>1. /\ a \o e \in Seq(Messages) /\ Len(a \o e) = Len(a) + Len(e)
          /\ \A i \in 1 .. Len(a \o e) :
                \/ i \in 1 .. Len(a) /\ (a \o e)[i] = a[i]
                \/ i - Len(a) \in 1 .. Len(e) /\ (a \o e)[i] = e[i - Len(a)]
      BY <1>2, <1>4, Sent
    <2>2. ASSUME NEW i \in 1 .. Len(u) PROVE u[i].type = "EOF" \/ (i \in 1 .. Len(t) /\ u[i] = t[i])
      <3>1. CASE i \in 1 .. Len(a) /\ u[i] = a[i]
        <4>1. 1 + i - 1 = i /\ i \in 1 .. Len(t)
          BY <1>1, <1>7, <3>1
        <4> QED
          BY <1>2, <3>1, <4>1
      <3>2. CASE i - Len(a) \in 1 .. Len(e) /\ u[i] = e[i - Len(a)]
        <4>1. i - Len(a) = 1
          BY <1>4, <3>2
        <4> QED
          BY <1>4, <3>2, <4>1
      <3> QED
        BY <1>6, <2>1, <3>1, <3>2
    <2> QED
      BY <1>6, <2>1, <2>2
  <1>10. ASSUME NEW type, type # "EOF"
         PROVE  Count(u, type) <= Count(t, type) /\ Count(u, type) \in Nat
    <2>1. Count(a \o e, type) = Count(a, type) + Count(e, type)
      BY <1>2, <1>4, CountConcat
    <2>2. Count(a \o b, type) = Count(a, type) + Count(b, type)
      BY <1>2, <1>3, CountConcat
    <2>3. Count(a, type) \in Nat /\ Count(b, type) \in Nat /\ Count(e, type) = 0
      BY <1>2, <1>3, <1>5, <1>10, CountType
    <2>4. Count(u, type) = Count(a, type) /\ Count(t, type) = Count(a, type) + Count(b, type)
      <3>1. Count(u, type) = Count(a, type) + Count(e, type)
        BY ONLY <1>6, <2>1, Zenon
      <3>2. Count(t, type) = Count(a, type) + Count(b, type)
        BY ONLY <1>8, <2>2, Zenon
      <3> QED
        BY ONLY <2>3, <3>1, <3>2
    <2> QED
      BY ONLY <2>3, <2>4
  <1> QED
    BY <1>9, <1>10

-----------------------------------------------------------------------------
(* The two sides of a connection                                           *)

\* The two ends of a connection
Ends(c, d, s, t) ==
    /\ c \in Client /\ d \in Client /\ s \in Seq(Messages) /\ t \in Seq(Messages)
    /\ Side(c, d, s, t) /\ Side(d, c, t, s)

\* Client c becomes e when it takes a message of s, or none, and sends msgs to client d: it
\* counts what it asks for and the answers it gets, answers no more than it was asked, and
\* what it sends is what comes next
Moving(c, d, e, s, taken, msgs) ==
    /\ e \in Client /\ taken \in {0, 1} /\ msgs \in Seq(Messages)
    /\ c.state = "open" /\ taken <= Len(s) /\ Flags(e)
    /\ Done(e) = IF taken = 0 \/ Done(c) = 3 THEN Done(c) ELSE Done(c) + 1
    /\ e.blocks = c.blocks + Count(msgs, "BLOCK_REQUEST") - Got(s, taken, "BLOCK_RESPONSE")
    /\ e.peers = c.peers + Count(msgs, "PEER_LIST_REQUEST") - Got(s, taken, "PEER_LIST_RESPONSE")
    /\ d.state = "open" =>
          /\ Count(msgs, "BLOCK_RESPONSE") <= Got(s, taken, "BLOCK_REQUEST")
          /\ Count(msgs, "PEER_LIST_RESPONSE") <= Got(s, taken, "PEER_LIST_REQUEST")
          /\ \A l \in Nat : Written(c, l) =>
                /\ Written(e, l + Len(msgs))
                /\ \A k \in 1 .. Len(msgs) : InPlace(msgs[k].type, l + k)

LEMMA Moves ==
    ASSUME NEW c, NEW d, NEW e, NEW s, NEW t, NEW msgs, NEW taken, NEW r, NEW u,
           Ends(c, d, s, t), Moving(c, d, e, s, taken, msgs),
           Leaves(s, taken, r), Reaches(t, msgs, d, u)
    PROVE  Ends(e, d, r, u)
  <1> USE DEF Moving, Ends
  <1>1. /\ r \in Seq(Messages) /\ Len(r) = Len(s) - taken
        /\ \A i \in 1 .. Len(r) : i + taken \in 1 .. Len(s) /\ r[i] = s[i + taken]
        /\ \A type : /\ Count(r, type) \in Nat /\ Got(s, taken, type) \in {0, 1}
                     /\ Count(s, type) = Count(r, type) + Got(s, taken, type)
    BY DEF Leaves
  <1>2. /\ u \in Seq(Messages)
        /\ d.state = "open" =>
             /\ Len(u) = Len(t) + Len(msgs)
             /\ \A i \in 1 .. Len(u) :
                  \/ i \in 1 .. Len(t) /\ u[i] = t[i]
                  \/ i - Len(t) \in 1 .. Len(msgs) /\ u[i] = msgs[i - Len(t)]
        /\ \A type : /\ Count(u, type) \in Nat /\ Count(msgs, type) \in Nat
                     /\ Count(t, type) \in Nat
                     /\ d.state = "open" => Count(u, type) = Count(t, type) + Count(msgs, type)
                     /\ Count(u, type) <= Count(t, type) + Count(msgs, type)
    <2>1. \A type : /\ Count(u, type) \in Nat /\ Count(msgs, type) \in Nat
                    /\ Count(t, type) \in Nat
                    /\ Count(u, type) = Count(t, type)
                          + IF d.state = "open" THEN Count(msgs, type) ELSE 0
      BY DEF Reaches
    <2>2. ASSUME NEW type
          PROVE  /\ d.state = "open" => Count(u, type) = Count(t, type) + Count(msgs, type)
                 /\ Count(u, type) <= Count(t, type) + Count(msgs, type)
      BY ONLY <2>1
    <2> QED
      BY <2>1, <2>2 DEF Reaches
  <1>3. /\ Len(s) \in Nat /\ Len(t) \in Nat /\ Len(msgs) \in Nat /\ Len(r) \in Nat
        /\ Done(c) \in {0, 1, 2, 3} /\ Done(d) \in {0, 1, 2, 3} /\ Done(e) \in {0, 1, 2, 3}
    BY <1>1, DoneValues
  <1>4. /\ \A k \in 1 .. Len(s) : s[k].type = "EOF" \/ InPlace(s[k].type, k + Done(c))
        /\ d.state = "open" => Written(d, Len(s) + Done(c))
        /\ Count(s, "BLOCK_RESPONSE") + Count(t, "BLOCK_REQUEST") <= c.blocks
        /\ Count(s, "PEER_LIST_RESPONSE") + Count(t, "PEER_LIST_REQUEST") <= c.peers
    BY DEF Side
  <1>5. /\ Flags(d)
        /\ d.state = "open" =>
              /\ \A k \in 1 .. Len(t) : t[k].type = "EOF" \/ InPlace(t[k].type, k + Done(d))
              /\ Written(c, Len(t) + Done(d))
              /\ Count(t, "BLOCK_RESPONSE") + Count(s, "BLOCK_REQUEST") <= d.blocks
              /\ Count(t, "PEER_LIST_RESPONSE") + Count(s, "PEER_LIST_REQUEST") <= d.peers
    BY DEF Side
  <1>6. c.blocks \in Nat /\ c.peers \in Nat /\ d.blocks \in Nat /\ d.peers \in Nat
    BY DEF Client
  <1>7. Side(e, d, r, u)
    <2>1. ASSUME NEW k \in 1 .. Len(r)
          PROVE  r[k].type = "EOF" \/ InPlace(r[k].type, k + Done(e))
      <3>1. r[k] = s[k + taken] /\ k + taken \in 1 .. Len(s)
        BY <1>1
      <3>2. s[k + taken].type = "EOF" \/ InPlace(s[k + taken].type, k + taken + Done(c))
        BY <1>4, <3>1
      <3>3. CASE k + taken + Done(c) = k + Done(e)
        BY <3>1, <3>2, <3>3
      <3>4. CASE k + taken + Done(c) > 3 /\ k + Done(e) > 3
        <4>1. k \in Nat /\ taken \in Nat
          OBVIOUS
        <4> QED
          BY <1>3, <3>1, <3>2, <3>4, <4>1 DEF InPlace
      <3> QED
        BY <1>3, <3>3, <3>4
    <2>2. d.state = "open" => Written(d, Len(r) + Done(e))
      <3>1. Len(r) + Done(e) = Len(s) + Done(c) \/ (Len(s) + Done(c) > 3 /\ Len(r) + Done(e) >= 3)
        BY <1>1, <1>3
      <3>2. Len(s) + Done(c) \in Nat
        BY <1>3
      <3> QED
        BY <1>4, <3>1, <3>2 DEF Written
    <2>3. Count(r, "BLOCK_RESPONSE") + Count(u, "BLOCK_REQUEST") <= e.blocks
      <3>1. /\ Count(s, "BLOCK_RESPONSE") = Count(r, "BLOCK_RESPONSE") + Got(s, taken, "BLOCK_RESPONSE")
            /\ Count(r, "BLOCK_RESPONSE") \in Nat /\ Got(s, taken, "BLOCK_RESPONSE") \in {0, 1}
            /\ Count(u, "BLOCK_REQUEST") \in Nat /\ Count(msgs, "BLOCK_REQUEST") \in Nat
            /\ Count(t, "BLOCK_REQUEST") \in Nat
            /\ Count(u, "BLOCK_REQUEST") <= Count(t, "BLOCK_REQUEST") + Count(msgs, "BLOCK_REQUEST")
        BY <1>1, <1>2
      <3> QED
        BY <1>4, <1>6, <3>1
    <2>4. Count(r, "PEER_LIST_RESPONSE") + Count(u, "PEER_LIST_REQUEST") <= e.peers
      <3>1. /\ Count(s, "PEER_LIST_RESPONSE")
                 = Count(r, "PEER_LIST_RESPONSE") + Got(s, taken, "PEER_LIST_RESPONSE")
            /\ Count(r, "PEER_LIST_RESPONSE") \in Nat /\ Got(s, taken, "PEER_LIST_RESPONSE") \in {0, 1}
            /\ Count(u, "PEER_LIST_REQUEST") \in Nat /\ Count(msgs, "PEER_LIST_REQUEST") \in Nat
            /\ Count(t, "PEER_LIST_REQUEST") \in Nat
            /\ Count(u, "PEER_LIST_REQUEST")
                 <= Count(t, "PEER_LIST_REQUEST") + Count(msgs, "PEER_LIST_REQUEST")
        BY <1>1, <1>2
      <3> QED
        BY <1>4, <1>6, <3>1
    <2> QED
      BY <2>1, <2>2, <2>3, <2>4 DEF Side
  <1>8. Side(d, e, u, r)
    <2>1. CASE d.state # "open"
      BY <1>5, <2>1 DEF Side
    <2>2. CASE d.state = "open"
      <3>1. /\ Written(c, Len(t) + Done(d)) /\ Len(t) + Done(d) \in Nat
        BY <1>3, <1>5, <2>2
      <3>2. /\ Written(e, Len(t) + Done(d) + Len(msgs))
            /\ \A k \in 1 .. Len(msgs) : InPlace(msgs[k].type, Len(t) + Done(d) + k)
        BY <2>2, <3>1
      <3>3. Written(e, Len(u) + Done(d))
        <4>1. Len(u) = Len(t) + Len(msgs)
          BY <1>2, <2>2
        <4>2. Len(t) + Done(d) + Len(msgs) = Len(u) + Done(d)
          BY ONLY <1>3, <4>1
        <4> QED
          BY <3>2, <4>2
      <3>4. ASSUME NEW i \in 1 .. Len(u)
            PROVE  u[i].type = "EOF" \/ InPlace(u[i].type, i + Done(d))
        <4>1. CASE i \in 1 .. Len(t) /\ u[i] = t[i]
          BY <1>5, <2>2, <4>1
        <4>2. CASE i - Len(t) \in 1 .. Len(msgs) /\ u[i] = msgs[i - Len(t)]
          <5>1. Len(t) + Done(d) + (i - Len(t)) = i + Done(d)
            BY <1>3
          <5>2. InPlace(msgs[i - Len(t)].type, Len(t) + Done(d) + (i - Len(t)))
            BY <3>2, <4>2
          <5> QED
            BY <4>2, <5>1, <5>2
        <4> QED
          BY <1>2, <2>2, <4>1, <4>2
      <3>5. Count(u, "BLOCK_RESPONSE") + Count(r, "BLOCK_REQUEST") <= d.blocks
        <4>1. /\ Count(s, "BLOCK_REQUEST") = Count(r, "BLOCK_REQUEST") + Got(s, taken, "BLOCK_REQUEST")
              /\ Count(r, "BLOCK_REQUEST") \in Nat /\ Got(s, taken, "BLOCK_REQUEST") \in {0, 1}
              /\ Count(t, "BLOCK_RESPONSE") \in Nat /\ Count(msgs, "BLOCK_RESPONSE") \in Nat
              /\ Count(u, "BLOCK_RESPONSE") = Count(t, "BLOCK_RESPONSE") + Count(msgs, "BLOCK_RESPONSE")
              /\ Count(msgs, "BLOCK_RESPONSE") <= Got(s, taken, "BLOCK_REQUEST")
              /\ Count(t, "BLOCK_RESPONSE") + Count(s, "BLOCK_REQUEST") <= d.blocks
          BY <1>1, <1>2, <1>5, <2>2
        <4> QED
          BY ONLY <1>6, <4>1
      <3>6. Count(u, "PEER_LIST_RESPONSE") + Count(r, "PEER_LIST_REQUEST") <= d.peers
        <4>1. /\ Count(s, "PEER_LIST_REQUEST")
                   = Count(r, "PEER_LIST_REQUEST") + Got(s, taken, "PEER_LIST_REQUEST")
              /\ Count(r, "PEER_LIST_REQUEST") \in Nat /\ Got(s, taken, "PEER_LIST_REQUEST") \in {0, 1}
              /\ Count(t, "PEER_LIST_RESPONSE") \in Nat /\ Count(msgs, "PEER_LIST_RESPONSE") \in Nat
              /\ Count(u, "PEER_LIST_RESPONSE")
                   = Count(t, "PEER_LIST_RESPONSE") + Count(msgs, "PEER_LIST_RESPONSE")
              /\ Count(msgs, "PEER_LIST_RESPONSE") <= Got(s, taken, "PEER_LIST_REQUEST")
              /\ Count(t, "PEER_LIST_RESPONSE") + Count(s, "PEER_LIST_REQUEST") <= d.peers
          BY <1>1, <1>2, <1>5, <2>2
        <4> QED
          BY ONLY <1>6, <4>1
      <3> QED
        BY <1>5, <3>3, <3>4, <3>5, <3>6 DEF Side
    <2> QED
      BY <2>1, <2>2
  <1> QED
    BY <1>1, <1>2, <1>7, <1>8

\* Client c becomes e, closes the connection, and what d has not read may be lost
LEMMA Closes ==
    ASSUME NEW c, NEW d, NEW e, NEW s \in Seq(Messages), NEW t \in Seq(Messages),
           NEW k \in 0 .. Len(t), NEW eof \in Messages, eof.type = "EOF", NEW u,
           u = IF d.state = "open" THEN SubSeq(t, 1, k) \o <<eof>> ELSE t,
           Side(c, d, s, t), Side(d, c, t, s), c.state = "open", e.state # "open", Flags(e),
           d.blocks \in Nat, d.peers \in Nat
    PROVE  Side(e, d, <<>>, u) /\ Side(d, e, u, <<>>)
  <1>1. Side(e, d, <<>>, u)
    BY DEF Side
  <1>2. CASE d.state # "open"
    BY <1>1, <1>2 DEF Side
  <1>3. CASE d.state = "open"
    <2>1. u = SubSeq(t, 1, k) \o <<eof>>
      BY <1>3
    <2>2. /\ u \in Seq(Messages)
          /\ \A i \in 1 .. Len(u) : u[i].type = "EOF" \/ (i \in 1 .. Len(t) /\ u[i] = t[i])
          /\ \A type : type # "EOF" => Count(u, type) <= Count(t, type) /\ Count(u, type) \in Nat
      BY <2>1, CutOff
    <2>3. /\ Flags(d)
          /\ \A i \in 1 .. Len(t) : t[i].type = "EOF" \/ InPlace(t[i].type, i + Done(d))
          /\ Count(t, "BLOCK_RESPONSE") + Count(s, "BLOCK_REQUEST") <= d.blocks
          /\ Count(t, "PEER_LIST_RESPONSE") + Count(s, "PEER_LIST_REQUEST") <= d.peers
      BY <1>3 DEF Side
    <2>4. \A type : /\ Count(s, type) \in Nat /\ Count(t, type) \in Nat /\ Count(<<>>, type) = 0
      BY CountType, CountEmpty
    <2>5. /\ Count(u, "BLOCK_RESPONSE") + Count(<<>>, "BLOCK_REQUEST") <= d.blocks
          /\ Count(u, "PEER_LIST_RESPONSE") + Count(<<>>, "PEER_LIST_REQUEST") <= d.peers
      <3>1. /\ Count(u, "BLOCK_RESPONSE") <= Count(t, "BLOCK_RESPONSE")
            /\ Count(u, "PEER_LIST_RESPONSE") <= Count(t, "PEER_LIST_RESPONSE")
            /\ Count(u, "BLOCK_RESPONSE") \in Nat /\ Count(u, "PEER_LIST_RESPONSE") \in Nat
            /\ Count(t, "BLOCK_RESPONSE") \in Nat /\ Count(t, "PEER_LIST_RESPONSE") \in Nat
            /\ Count(s, "BLOCK_REQUEST") \in Nat /\ Count(s, "PEER_LIST_REQUEST") \in Nat
            /\ Count(<<>>, "BLOCK_REQUEST") = 0 /\ Count(<<>>, "PEER_LIST_REQUEST") = 0
        BY <2>2, <2>4
      <3> QED
        BY <2>3, <3>1
    <2>6. Side(d, e, u, <<>>)
      BY <2>2, <2>3, <2>5 DEF Side
    <2> QED
      BY <1>1, <2>6
  <1> QED
    BY <1>2, <1>3

-----------------------------------------------------------------------------
(* Steps of two honest nodes                                               *)

LEMMA HonestFacts ==
    ASSUME HInv, PeaceInv, Honest, NEW n \in Node
    PROVE  /\ Other(n) \in Node /\ Other(n) # n /\ Other(Other(n)) = n
           /\ \A x \in Node : x = n \/ x = Other(n)
           /\ client \in [Node -> Client] /\ chan \in [Node -> Seq(Messages)]
           /\ client[n] \in Client /\ client[Other(n)] \in Client
           /\ chan[n] \in Seq(Messages) /\ chan[Other(n)] \in Seq(Messages)
           /\ Side(client[n], client[Other(n)], chan[n], chan[Other(n)])
           /\ Side(client[Other(n)], client[n], chan[Other(n)], chan[n])
           /\ Flags(client[n])
           /\ banned[n] \notin {"unexpected", "invalid"}
           /\ banned \in [Node -> Reasons]
           /\ client[n].state # "open" => chan[n] = <<>>
  <1>1. /\ Other(n) \in Node /\ Other(n) # n /\ Other(Other(n)) = n
        /\ \A x \in Node : x = n \/ x = Other(n)
    BY OtherNode
  <1>2. /\ Side(client[n], client[Other(n)], chan[n], chan[Other(n)])
        /\ Side(client[Other(n)], client[n], chan[Other(n)], chan[n])
        /\ banned[n] \notin {"unexpected", "invalid"}
    BY <1>1 DEF PeaceInv
  <1>3. Flags(client[n])
    BY <1>2 DEF Side
  <1> QED
    BY <1>1, <1>2, <1>3 DEF HInv, TypeOK, ClientsInv, Reasons

\* Both sides are what they have to be, and nobody was banned
LEMMA SidesKeep ==
    ASSUME NEW n \in Node,
           Side(client'[n], client'[Other(n)], chan'[n], chan'[Other(n)]),
           Side(client'[Other(n)], client'[n], chan'[Other(n)], chan'[n])
    PROVE  (\A m \in Node : Side(client[m], client[Other(m)], chan[m], chan[Other(m)]))'
  <1>1. /\ Other(n) \in Node /\ Other(n) # n /\ Other(Other(n)) = n
        /\ \A x \in Node : x = n \/ x = Other(n)
    BY OtherNode
  <1>2. ASSUME NEW m \in Node
        PROVE  Side(client'[m], client'[Other(m)], chan'[m], chan'[Other(m)])
    <2>1. CASE m = n
      BY <2>1
    <2>2. CASE m = Other(n)
      <3>1. Other(m) = n
        BY <1>1, <2>2
      <3> QED
        BY <2>2, <3>1
    <2> QED
      BY <1>1, <2>1, <2>2
  <1> QED
    BY <1>2

\* An open client changes, takes a message or none, and sends some
LEMMA SidesUpdate ==
    ASSUME HInv, PeaceInv, Honest, NEW n \in Node, NEW e, NEW taken, NEW msgs,
           Update(n, e, taken, msgs),
           Moving(client[n], client[Other(n)], e, chan[n], taken, msgs)
    PROVE  (\A m \in Node : Side(client[m], client[Other(m)], chan[m], chan[Other(m)]))'
  <1> DEFINE o == Other(n)
             c == client[n]
             d == client[o]
             s == chan[n]
             t == chan[o]
             r == SubSeq(s, taken + 1, Len(s))
             u == Post(n, msgs)
  <1>1. /\ o \in Node /\ o # n
        /\ c \in Client /\ d \in Client /\ s \in Seq(Messages) /\ t \in Seq(Messages)
        /\ client \in [Node -> Client] /\ chan \in [Node -> Seq(Messages)]
        /\ Side(c, d, s, t) /\ Side(d, c, t, s)
    BY HonestFacts
  <1>2. client' = [client EXCEPT ![n] = e] /\ chan' = [chan EXCEPT ![n] = r, ![o] = u]
    BY DEF Update
  <1>3. u = IF d.state = "open" THEN t \o msgs ELSE t
    BY DEF Post
  <1>4. r = SubSeq(s, taken + 1, Len(s))
    OBVIOUS
  <1> HIDE DEF r, u, o
  <1>5. client'[n] = e /\ client'[o] = d /\ chan'[n] = r /\ chan'[o] = u
    BY <1>1, <1>2
  <1>6. Leaves(s, taken, r)
    BY <1>1, <1>4, Taken DEF Moving
  <1>7. Reaches(t, msgs, d, u)
    BY <1>1, <1>3, Posted DEF Moving
  <1>8. Side(e, d, r, u) /\ Side(d, e, u, r)
    <2>1. Moving(c, d, e, s, taken, msgs)
      BY DEF o
    <2>2. Ends(c, d, s, t)
      BY <1>1 DEF Ends
    <2> HIDE DEF c, d, s, t
    <2>3. Ends(e, d, r, u)
      BY <1>6, <1>7, <2>1, <2>2, Moves
    <2> QED
      BY <2>3 DEF Ends
  <1>9. /\ Side(client'[n], client'[Other(n)], chan'[n], chan'[Other(n)])
        /\ Side(client'[Other(n)], client'[n], chan'[Other(n)], chan'[n])
    BY <1>5, <1>8 DEF o
  <1> QED
    BY <1>9, SidesKeep

\* An open client closes the connection
LEMMA SidesClose ==
    ASSUME HInv, PeaceInv, Honest, NEW n \in Node, client[n].state = "open",
           NEW c \in Client, Flags(c), Close(n, c, <<>>)
    PROVE  (\A m \in Node : Side(client[m], client[Other(m)], chan[m], chan[Other(m)]))'
  <1> DEFINE o == Other(n)
             d == client[o]
             s == chan[n]
             t == chan[o]
             e == [c EXCEPT !.state = "closing"]
             eof == Msg("EOF")
  <1>1. /\ o \in Node /\ o # n
        /\ d \in Client /\ s \in Seq(Messages) /\ t \in Seq(Messages)
        /\ client \in [Node -> Client] /\ chan \in [Node -> Seq(Messages)]
        /\ Side(client[n], d, s, t) /\ Side(d, client[n], t, s)
    BY HonestFacts
  <1>2. d.blocks \in Nat /\ d.peers \in Nat
    BY <1>1 DEF Client
  <1>3. e.state = "closing" /\ Flags(e)
    BY DEF Client, Flags
  <1>4. eof \in Messages /\ eof.type = "EOF"
    BY MessageTypes
  <1>5. Post(n, <<>>) = t
    <2>1. t \o <<>> = t
      BY <1>1
    <2> QED
      BY <2>1 DEF Post
  <1>6. PICK k \in 0 .. Len(Post(n, <<>>)) :
          chan' = [chan EXCEPT ![n] = <<>>,
                     ![o] = IF d.state = "open" THEN SubSeq(Post(n, <<>>), 1, k) \o <<eof>> ELSE @]
    BY DEF Close
  <1> DEFINE u == IF d.state = "open" THEN SubSeq(t, 1, k) \o <<eof>> ELSE t
  <1>7. chan' = [chan EXCEPT ![n] = <<>>, ![o] = u] /\ k \in 0 .. Len(t)
    <2>1. chan' = [chan EXCEPT ![n] = <<>>,
                     ![o] = IF d.state = "open" THEN SubSeq(t, 1, k) \o <<eof>> ELSE @]
      BY <1>5, <1>6
    <2>2. k \in 0 .. Len(t)
      BY <1>5, <1>6
    <2> DEFINE v == SubSeq(t, 1, k) \o <<eof>>
               w == <<>>
    <2> HIDE DEF v, w, o
    <2>3. chan' = [chan EXCEPT ![n] = w, ![o] = IF d.state = "open" THEN v ELSE @]
      BY <2>1 DEF v, w
    <2>4. chan' = [chan EXCEPT ![n] = w, ![o] = IF d.state = "open" THEN v ELSE t]
      BY <1>1, <2>3
    <2> QED
      BY <2>2, <2>4 DEF v, w
  <1>8. client' = [client EXCEPT ![n] = e]
    BY DEF Close
  <1>9. u = IF d.state = "open" THEN SubSeq(t, 1, k) \o <<eof>> ELSE t
    OBVIOUS
  <1> HIDE DEF u, eof, e, o
  <1>10. client'[n] = e /\ client'[o] = d /\ chan'[n] = <<>> /\ chan'[o] = u
    BY <1>1, <1>7, <1>8
  <1>11. Side(e, d, <<>>, u) /\ Side(d, e, u, <<>>)
    <2>1. k \in 0 .. Len(t) /\ e.state # "open"
      BY <1>3, <1>7
    <2> QED
      BY <1>1, <1>2, <1>3, <1>4, <1>9, <2>1, Closes
  <1>12. /\ Side(client'[n], client'[Other(n)], chan'[n], chan'[Other(n)])
         /\ Side(client'[Other(n)], client'[n], chan'[Other(n)], chan'[n])
    BY <1>10, <1>11 DEF o
  <1> QED
    BY <1>12, SidesKeep

\* What the head of a channel can be, and what has been sent by then
LEMMA InOrder ==
    ASSUME HInv, PeaceInv, Honest, NEW n \in Node, client[n].state = "open", chan[n] # <<>>,
           Head1(n).type # "EOF"
    PROVE  /\ InPlace(Head1(n).type, 1 + Done(client[n]))
           /\ Allowed(client[n], Head1(n).type)
           /\ chan[n][1] = Head1(n) /\ 1 <= Len(chan[n])
  <1> DEFINE c == client[n]
             s == chan[n]
             x == Head1(n)
  <1>1. x = s[1] /\ 1 \in 1 .. Len(s) /\ s \in Seq(Messages) /\ x \in Messages
    BY ReadFacts
  <1>2. c \in Client /\ Side(c, client[Other(n)], s, chan[Other(n)])
    BY HonestFacts
  <1>3. InPlace(x.type, 1 + Done(c)) /\ Flags(c)
    BY <1>1, <1>2 DEF Side
  <1>4. Done(c) \in {0, 1, 2, 3}
        /\ (c.expected = "CHALLENGE" <=> Done(c) = 0)
        /\ (c.complete <=> Done(c) \in {2, 3})
        /\ (c.listenPort <=> Done(c) = 3)
    BY <1>2, <1>3, DoneValues
  <1>5. c.expected \in {"CHALLENGE", "SOLUTION"} /\ c.blocks \in Nat /\ c.peers \in Nat
    BY <1>2 DEF Client
  <1>6. /\ x.type = "BLOCK_RESPONSE" => c.blocks > 0
        /\ x.type = "PEER_LIST_RESPONSE" => c.peers > 0
    <2> DEFINE r == SubSeq(s, 1 + 1, Len(s))
    <2>1. Leaves(s, 1, r)
      <3>1. 1 \in {0, 1} /\ 1 <= Len(s)
        BY <1>1
      <3> QED
        BY <1>1, <3>1, Taken
    <2> HIDE DEF r
    <2>2. \A type : Count(r, type) \in Nat /\ Count(s, type) = Count(r, type) + Got(s, 1, type)
      BY <2>1 DEF Leaves
    <2>3. \A type : Count(chan[Other(n)], type) \in Nat
      BY HonestFacts, CountType
    <2>4. /\ Count(s, "BLOCK_RESPONSE") + Count(chan[Other(n)], "BLOCK_REQUEST") <= c.blocks
          /\ Count(s, "PEER_LIST_RESPONSE") + Count(chan[Other(n)], "PEER_LIST_REQUEST") <= c.peers
      BY <1>2 DEF Side
    <2>5. ASSUME NEW type, x.type = type
          PROVE  Count(s, type) \in Nat /\ Count(s, type) > 0
      <3>1. Got(s, 1, type) = 1
        BY <1>1, <2>5 DEF Got
      <3> QED
        BY <2>2, <3>1
    <2> QED
      BY <1>5, <2>3, <2>4, <2>5
  <1>7. Allowed(c, x.type)
    <2>1. CASE Done(c) = 0
      BY <1>3, <1>4, <2>1 DEF InPlace, Allowed
    <2>2. CASE Done(c) = 1
      BY <1>3, <1>4, <1>5, <2>2 DEF InPlace, Allowed
    <2>3. CASE Done(c) = 2
      BY <1>3, <1>4, <2>3 DEF InPlace, Allowed
    <2>4. CASE Done(c) = 3
      BY <1>3, <1>4, <1>6, <2>4 DEF InPlace, Allowed, Talk
    <2> QED
      BY <1>4, <2>1, <2>2, <2>3, <2>4
  <1> QED
    BY <1>1, <1>3, <1>7

\* Who has read or can read a message after the handshake has sent its own solution
LEMMA BothSent ==
    ASSUME HInv, PeaceInv, Honest, NEW n \in Node, client[n].state = "open",
           client[Other(n)].state = "open", client[n].complete,
           Len(chan[n]) + Done(client[n]) >= 3
    PROVE  client[n].sent /\ client[Other(n)].sent /\ client[Other(n)].complete
  <1> DEFINE c == client[n]
             d == client[Other(n)]
             s == chan[n]
             t == chan[Other(n)]
  <1>1. /\ c \in Client /\ d \in Client /\ s \in Seq(Messages) /\ t \in Seq(Messages)
        /\ Side(c, d, s, t) /\ Side(d, c, t, s)
    BY HonestFacts
  <1>2. Written(d, Len(s) + Done(c)) /\ Written(c, Len(t) + Done(d)) /\ Flags(d)
    BY <1>1 DEF Side
  <1>3. Len(s) \in Nat /\ Len(t) \in Nat /\ Done(c) \in {0, 1, 2, 3} /\ Done(d) \in {0, 1, 2, 3}
    BY <1>1, DoneValues
  <1>4. d.sent /\ d.complete
    BY <1>2, <1>3 DEF Written
  <1>5. Done(d) \in {2, 3}
    BY <1>1, <1>2, <1>4, DoneValues
  <1>6. c.sent
    BY <1>2, <1>3, <1>5 DEF Written
  <1> QED
    BY <1>4, <1>6

\* The rest of the invariant, for a step of client n that leaves its work alone
LEMMA JobsKeep ==
    ASSUME HInv, PeaceInv, Honest, NEW n \in Node, NEW e,
           client' = [client EXCEPT ![n] = e], jobs' = jobs, e.counter = client[n].counter,
           e.sent = client[n].sent, e.expected = client[n].expected
    PROVE  OneJob'
  <1>1. /\ client \in [Node -> Client] /\ jobs \subseteq Job /\ OneJob
    BY DEF HInv, TypeOK, PeaceInv
  <1>2. ASSUME NEW j \in jobs
        PROVE  /\ client'[j.node].counter = client[j.node].counter
               /\ client'[j.node].sent = client[j.node].sent
               /\ client'[j.node].expected = client[j.node].expected
    <2>1. j.node \in Node
      BY <1>1 DEF Job
    <2> QED
      BY <1>1, <2>1
  <1> QED
    BY <1>1, <1>2 DEF OneJob

LEMMA PeaceKept ==
    ASSUME PeaceInv, setup' = setup,
           Honest =>
             /\ (\A m \in Node : Side(client[m], client[Other(m)], chan[m], chan[Other(m)]))'
             /\ \A m \in Node : banned'[m] \notin {"unexpected", "invalid"}
             /\ OneJob'
    PROVE  PeaceInv'
  <1>1. Honest' <=> Honest
    BY DEF Honest, SameChain, Foreign, Chain
  <1> QED
    BY <1>1 DEF PeaceInv

\* Messages after the handshake, and what a client keeps when it reads or sends them
TalkOnly(msgs) == msgs \in Seq(Messages) /\ \A k \in 1 .. Len(msgs) : msgs[k].type \in Talk

Keeps(e, c) ==
    /\ e \in Client /\ e.counter = c.counter /\ e.sent = c.sent /\ e.complete = c.complete
    /\ e.expected = c.expected /\ e.invalid = c.invalid /\ e.listenPort

Balanced(c, e, s, taken, msgs) ==
    /\ e.blocks = c.blocks + Count(msgs, "BLOCK_REQUEST") - Got(s, taken, "BLOCK_RESPONSE")
    /\ e.peers = c.peers + Count(msgs, "PEER_LIST_REQUEST") - Got(s, taken, "PEER_LIST_RESPONSE")
    /\ Count(msgs, "BLOCK_RESPONSE") <= Got(s, taken, "BLOCK_REQUEST")
    /\ Count(msgs, "PEER_LIST_RESPONSE") <= Got(s, taken, "PEER_LIST_REQUEST")

CanTalk(n, taken) ==
    /\ taken \in {0, 1} /\ taken <= Len(chan[n]) /\ client[n].state = "open" /\ client[n].complete
    /\ Len(chan[n]) + Done(client[n]) >= 3 /\ (taken = 0 => Done(client[n]) = 3)

\* A client that reads or sends after the handshake
LEMMA TalkStep ==
    ASSUME HInv, PeaceInv, Honest, NEW n \in Node, NEW e, NEW taken, NEW msgs,
           CanTalk(n, taken), Update(n, e, taken, msgs), UNCHANGED <<setup, jobs, banned>>,
           TalkOnly(msgs), Keeps(e, client[n]), Balanced(client[n], e, chan[n], taken, msgs)
    PROVE  PeaceInv'
  <1> USE DEF CanTalk, TalkOnly, Keeps, Balanced
  <1> DEFINE c == client[n]
             d == client[Other(n)]
  <1>1. c \in Client /\ Flags(c) /\ \A m \in Node : banned[m] \notin {"unexpected", "invalid"}
    BY HonestFacts DEF PeaceInv
  <1>2. Flags(e)
    BY <1>1 DEF Flags
  <1>3. Done(c) \in {2, 3} /\ Done(e) = 3
    BY <1>1, <1>2, DoneValues DEF Flags
  <1>4. ASSUME d.state = "open", NEW l \in Nat, Written(c, l)
        PROVE  /\ Written(e, l + Len(msgs))
               /\ \A k \in 1 .. Len(msgs) : InPlace(msgs[k].type, l + k)
    <2>1. c.sent
      BY <1>4, BothSent
    <2>2. l >= 3 /\ Len(msgs) \in Nat
      BY <1>4, <2>1 DEF Written
    <2>3. Written(e, l + Len(msgs))
      BY <2>1, <2>2 DEF Written
    <2>4. ASSUME NEW k \in 1 .. Len(msgs) PROVE InPlace(msgs[k].type, l + k)
      <3>1. l + k > 3
        BY <2>2
      <3> QED
        BY <3>1 DEF InPlace
    <2> QED
      BY <2>3, <2>4
  <1>5. Done(e) = IF taken = 0 \/ Done(c) = 3 THEN Done(c) ELSE Done(c) + 1
    BY <1>3
  <1>6. Moving(c, d, e, chan[n], taken, msgs)
    BY <1>2, <1>4, <1>5 DEF Moving
  <1>7. (\A m \in Node : Side(client[m], client[Other(m)], chan[m], chan[Other(m)]))'
    BY <1>6, SidesUpdate
  <1>8. OneJob'
    BY JobsKeep DEF Update
  <1> QED
    BY <1>1, <1>7, <1>8, PeaceKept

\* A message or none
LEMMA Nothing ==
    /\ TalkOnly(<<>>) /\ Len(<<>>) = 0
    /\ \A type : Count(<<>>, type) = 0
  <1>1. <<>> \in Seq(Messages) /\ Len(<<>>) = 0
    OBVIOUS
  <1>2. \A type : Count(<<>>, type) = 0
    BY CountEmpty
  <1> QED
    BY <1>1, <1>2 DEF TalkOnly

LEMMA OneTalk ==
    ASSUME NEW x \in Messages, x.type \in Talk
    PROVE  /\ TalkOnly(<<x>>)
           /\ \A type : Count(<<x>>, type) = IF x.type = type THEN 1 ELSE 0
  <1>1. <<x>> \in Seq(Messages) /\ Len(<<x>>) = 1 /\ <<x>>[1] = x
    OBVIOUS
  <1>2. \A type : Count(<<x>>, type) = IF x.type = type THEN 1 ELSE 0
    BY CountOne
  <1>3. \A k \in 1 .. Len(<<x>>) : <<x>>[k].type \in Talk
    <2>1. ASSUME NEW k \in 1 .. Len(<<x>>) PROVE <<x>>[k].type \in Talk
      <3>1. k = 1
        BY <1>1
      <3> QED
        BY <1>1, <3>1
    <2> QED
      BY <2>1
  <1> QED
    BY <1>1, <1>2, <1>3 DEF TalkOnly

\* A client that accepts a message which is not of the handshake
LEMMA TalkRead ==
    ASSUME HInv, PeaceInv, Honest, NEW n \in Node, NEW type,
           type \notin {"CHALLENGE", "SOLUTION", "EOF"}, Accepts(n, type)
    PROVE  /\ client[n] \in Client /\ client[n].state = "open" /\ CanTalk(n, 1)
           /\ Head1(n) \in Messages /\ Head1(n).type = type
           /\ type \in Talk => Keeps(client[n], client[n])
           /\ \A x : Got(chan[n], 1, x) = IF x = type THEN 1 ELSE 0
           /\ client[n].blocks \in Nat /\ client[n].peers \in Nat
           /\ type = "BLOCK_RESPONSE" => client[n].blocks > 0
           /\ type = "PEER_LIST_RESPONSE" => client[n].peers > 0
  <1> DEFINE c == client[n]
  <1>1. c.state = "open" /\ chan[n] # <<>> /\ Head1(n).type = type /\ c.complete
    BY ReadOther
  <1>2. /\ c \in Client /\ Head1(n) \in Messages /\ Head1(n) = chan[n][1]
        /\ chan[n] \in Seq(Messages)
    BY <1>1, ReadFacts
  <1>3. InPlace(type, 1 + Done(c)) /\ Allowed(c, type) /\ 1 <= Len(chan[n])
    BY <1>1, InOrder
  <1>4. Done(c) \in {2, 3} /\ (c.listenPort <=> Done(c) = 3)
    BY <1>1, <1>2, HonestFacts, DoneValues
  <1>5. Len(chan[n]) + Done(c) >= 3
    <2>1. Len(chan[n]) \in Nat
      BY <1>2
    <2> QED
      BY <1>3, <1>4, <2>1
  <1>6. type \in Talk => c.listenPort
    BY <1>3, <1>4 DEF InPlace, Talk
  <1>7. \A x : Got(chan[n], 1, x) = IF x = type THEN 1 ELSE 0
    BY <1>1, <1>2 DEF Got
  <1>8. c.blocks \in Nat /\ c.peers \in Nat
    BY <1>2 DEF Client
  <1>9. /\ type = "BLOCK_RESPONSE" => c.blocks > 0
        /\ type = "PEER_LIST_RESPONSE" => c.peers > 0
    BY <1>1, <1>3 DEF Allowed
  <1> QED
    BY <1>1, <1>2, <1>3, <1>5, <1>6, <1>7, <1>8, <1>9 DEF CanTalk, Keeps

LEMMA ListenPortPeace ==
    ASSUME HInv, PeaceInv, Honest, NEW n \in Node, OnListenPort(n)
    PROVE  PeaceInv'
  <1> DEFINE c == client[n]
             e == [c EXCEPT !.listenPort = TRUE]
  <1>1. /\ c \in Client /\ c.state = "open" /\ CanTalk(n, 1)
        /\ \A x : Got(chan[n], 1, x) = IF x = "LISTEN_PORT" THEN 1 ELSE 0
        /\ c.blocks \in Nat /\ c.peers \in Nat
    BY TalkRead DEF OnListenPort
  <1>2. /\ Keeps(e, c)
        /\ e.blocks = c.blocks /\ e.peers = c.peers
    BY <1>1 DEF Client, Keeps
  <1>3. Update(n, e, 1, <<>>) /\ UNCHANGED <<setup, jobs, banned>>
    BY DEF OnListenPort
  <1> HIDE DEF e
  <1>4. Balanced(c, e, chan[n], 1, <<>>)
    BY <1>1, <1>2, Nothing DEF Balanced
  <1> QED
    BY <1>1, <1>2, <1>3, <1>4, Nothing, TalkStep

LEMMA BlockRequestPeace ==
    ASSUME HInv, PeaceInv, Honest, NEW n \in Node, OnBlockRequest(n)
    PROVE  PeaceInv'
  <1> DEFINE c == client[n]
             x == Response(IF n \in synced THEN Head1(n).what ELSE "nothing")
             msgs == <<x>>
  <1>1. /\ c \in Client /\ c.state = "open" /\ Keeps(c, c) /\ CanTalk(n, 1)
        /\ Head1(n) \in Messages /\ Head1(n).type = "BLOCK_REQUEST"
        /\ \A y : Got(chan[n], 1, y) = IF y = "BLOCK_REQUEST" THEN 1 ELSE 0
        /\ c.blocks \in Nat /\ c.peers \in Nat
    BY TalkRead DEF OnBlockRequest, Talk
  <1>2. x \in Messages /\ x.type = "BLOCK_RESPONSE"
    BY <1>1, MessageTypes
  <1>3. Update(n, c, 1, msgs) /\ UNCHANGED <<setup, jobs, banned>>
    BY DEF OnBlockRequest
  <1> HIDE DEF x
  <1>4. /\ TalkOnly(msgs)
        /\ \A type : Count(msgs, type) = IF type = "BLOCK_RESPONSE" THEN 1 ELSE 0
    BY <1>2, OneTalk DEF Talk
  <1> HIDE DEF msgs
  <1>5. Balanced(c, c, chan[n], 1, msgs)
    BY <1>1, <1>4 DEF Balanced
  <1> QED
    BY <1>1, <1>3, <1>4, <1>5, TalkStep

LEMMA PeerListRequestPeace ==
    ASSUME HInv, PeaceInv, Honest, NEW n \in Node, OnPeerListRequest(n)
    PROVE  PeaceInv'
  <1> DEFINE c == client[n]
             x == Msg("PEER_LIST_RESPONSE")
             msgs == <<x>>
  <1>1. /\ c \in Client /\ c.state = "open" /\ Keeps(c, c) /\ CanTalk(n, 1)
        /\ \A y : Got(chan[n], 1, y) = IF y = "PEER_LIST_REQUEST" THEN 1 ELSE 0
        /\ c.blocks \in Nat /\ c.peers \in Nat
    BY TalkRead DEF OnPeerListRequest, Talk
  <1>2. x \in Messages /\ x.type = "PEER_LIST_RESPONSE"
    BY MessageTypes
  <1>3. Update(n, c, 1, msgs) /\ UNCHANGED <<setup, jobs, banned>>
    BY DEF OnPeerListRequest
  <1> HIDE DEF x
  <1>4. /\ TalkOnly(msgs)
        /\ \A type : Count(msgs, type) = IF type = "PEER_LIST_RESPONSE" THEN 1 ELSE 0
    BY <1>2, OneTalk DEF Talk
  <1> HIDE DEF msgs
  <1>5. Balanced(c, c, chan[n], 1, msgs)
    BY <1>1, <1>4 DEF Balanced
  <1> QED
    BY <1>1, <1>3, <1>4, <1>5, TalkStep

LEMMA PeerListResponsePeace ==
    ASSUME HInv, PeaceInv, Honest, NEW n \in Node, OnPeerListResponse(n)
    PROVE  PeaceInv'
  <1> DEFINE c == client[n]
             e == [c EXCEPT !.peers = @ - 1]
  <1>1. /\ c \in Client /\ c.state = "open" /\ Keeps(c, c) /\ CanTalk(n, 1)
        /\ \A y : Got(chan[n], 1, y) = IF y = "PEER_LIST_RESPONSE" THEN 1 ELSE 0
        /\ c.blocks \in Nat /\ c.peers \in Nat /\ c.peers > 0
    BY TalkRead DEF OnPeerListResponse, Talk
  <1>2. /\ Keeps(e, c)
        /\ e.blocks = c.blocks /\ e.peers = c.peers - 1
    <2>1. c.peers - 1 \in Nat
      BY <1>1
    <2> QED
      BY <1>1, <2>1 DEF Client, Keeps
  <1>3. Update(n, e, 1, <<>>) /\ UNCHANGED <<setup, jobs, banned>>
    BY DEF OnPeerListResponse
  <1> HIDE DEF e
  <1>4. Balanced(c, e, chan[n], 1, <<>>)
    BY <1>1, <1>2, Nothing DEF Balanced
  <1> QED
    BY <1>1, <1>2, <1>3, <1>4, Nothing, TalkStep

LEMMA BlockBroadcastPeace ==
    ASSUME HInv, PeaceInv, Honest, NEW n \in Node, OnBlockBroadcast(n)
    PROVE  PeaceInv'
  <1> DEFINE c == client[n]
  <1>1. /\ c \in Client /\ c.state = "open" /\ Keeps(c, c) /\ CanTalk(n, 1)
        /\ \A y : Got(chan[n], 1, y) = IF y = "BLOCK_BROADCAST" THEN 1 ELSE 0
        /\ c.blocks \in Nat /\ c.peers \in Nat
    BY TalkRead DEF OnBlockBroadcast, Talk
  <1>2. Update(n, c, 1, <<>>) /\ UNCHANGED <<setup, jobs, banned>>
    BY DEF OnBlockBroadcast
  <1>3. Balanced(c, c, chan[n], 1, <<>>)
    BY <1>1, Nothing DEF Balanced
  <1> QED
    BY <1>1, <1>2, <1>3, Nothing, TalkStep

LEMMA ClosePeace ==
    ASSUME HInv, PeaceInv, Honest, NEW n \in Node, client[n].state = "open", NEW c \in Client,
           Flags(c), c.counter = client[n].counter, c.sent = client[n].sent,
           c.expected = client[n].expected, Close(n, c, <<>>), UNCHANGED <<setup, jobs>>,
           \A m \in Node : banned'[m] \notin {"unexpected", "invalid"}
    PROVE  PeaceInv'
  <1>1. (\A m \in Node : Side(client[m], client[Other(m)], chan[m], chan[Other(m)]))'
    BY SidesClose
  <1> DEFINE e == [c EXCEPT !.state = "closing"]
  <1>2. e.counter = c.counter /\ e.sent = c.sent /\ e.expected = c.expected
    BY DEF Client
  <1>3. client' = [client EXCEPT ![n] = e]
    BY DEF Close
  <1> HIDE DEF e
  <1>4. OneJob'
    BY <1>2, <1>3, JobsKeep
  <1> QED
    BY <1>1, <1>4, PeaceKept

LEMMA BlockResponsePeace ==
    ASSUME HInv, PeaceInv, Honest, NEW n \in Node, OnBlockResponse(n)
    PROVE  PeaceInv'
  <1> DEFINE b == client[n]
             c == [b EXCEPT !.blocks = @ - 1]
             what == Head1(n).what
             d == [c EXCEPT !.tipRequest = FALSE]
             e == [d EXCEPT !.peers = @ + 1]
             x == Msg("PEER_LIST_REQUEST")
             msgs == <<x>>
  <1>1. /\ b \in Client /\ b.state = "open" /\ Keeps(b, b) /\ CanTalk(n, 1)
        /\ \A y : Got(chan[n], 1, y) = IF y = "BLOCK_RESPONSE" THEN 1 ELSE 0
        /\ b.blocks \in Nat /\ b.peers \in Nat /\ b.blocks > 0
    BY TalkRead DEF OnBlockResponse, Talk
  <1>2. /\ Keeps(c, b)
        /\ c.blocks = b.blocks - 1 /\ c.peers = b.peers
    <2>1. b.blocks - 1 \in Nat
      BY <1>1
    <2> QED
      BY <1>1, <2>1 DEF Client, Keeps
  <1>3. IF what # "nothing" /\ c.tipRequest
        THEN IF what = "old"
             THEN Ban(n, "stale") /\ Close(n, d, <<>>)
             ELSE Update(n, e, 1, msgs) /\ UNCHANGED banned
        ELSE Update(n, c, 1, <<>>) /\ UNCHANGED banned
    BY DEF OnBlockResponse
  <1>4. UNCHANGED <<setup, jobs>>
    BY DEF OnBlockResponse
  <1> HIDE DEF c
  <1>5. /\ Keeps(d, b)
        /\ d.blocks = b.blocks - 1 /\ d.peers = b.peers
    BY <1>2 DEF Client, Keeps
  <1> HIDE DEF d
  <1>6. /\ Keeps(e, b)
        /\ e.blocks = b.blocks - 1 /\ e.peers = b.peers + 1
    <2>1. d.peers + 1 \in Nat
      BY <1>1, <1>5
    <2> QED
      BY <1>5, <2>1 DEF Client, Keeps
  <1> HIDE DEF e
  <1>7. x \in Messages /\ x.type = "PEER_LIST_REQUEST"
    BY MessageTypes
  <1> HIDE DEF x
  <1>8. /\ TalkOnly(msgs)
        /\ \A type : Count(msgs, type) = IF type = "PEER_LIST_REQUEST" THEN 1 ELSE 0
    BY <1>7, OneTalk DEF Talk
  <1> HIDE DEF msgs
  <1>9. CASE Ban(n, "stale") /\ Close(n, d, <<>>)
    <2>1. Flags(d) /\ d \in Client /\ d.counter = b.counter /\ d.sent = b.sent
          /\ d.expected = b.expected
      <3>1. Flags(b)
        BY HonestFacts
      <3> QED
        BY <1>1, <1>5, <3>1 DEF Flags, Keeps
    <2>2. \A m \in Node : banned'[m] \notin {"unexpected", "invalid"}
      BY <1>9, HonestFacts DEF Ban, Reasons
    <2> QED
      BY <1>1, <1>4, <1>9, <2>1, <2>2, ClosePeace
  <1>10. CASE Update(n, e, 1, msgs) /\ UNCHANGED banned
    <2>1. Balanced(b, e, chan[n], 1, msgs)
      BY <1>1, <1>6, <1>8 DEF Balanced
    <2> QED
      BY <1>1, <1>4, <1>6, <1>8, <1>10, <2>1, TalkStep
  <1>11. CASE Update(n, c, 1, <<>>) /\ UNCHANGED banned
    <2>1. Balanced(b, c, chan[n], 1, <<>>)
      BY <1>1, <1>2, Nothing DEF Balanced
    <2> QED
      BY <1>1, <1>2, <1>4, <1>11, <2>1, Nothing, TalkStep
  <1> QED
    BY <1>3, <1>9, <1>10, <1>11

LEMMA SendsPeace ==
    ASSUME HInv, PeaceInv, Honest, NEW n \in Node,
           DownloadMissingBlock(n) \/ UpdatePeerList(n) \/ OnBroadcast(n)
    PROVE  PeaceInv'
  <1> DEFINE c == client[n]
  <1>1. Good(n) /\ UNCHANGED <<setup, jobs, banned>>
    BY DEF DownloadMissingBlock, UpdatePeerList, OnBroadcast, Sends
  <1>2. c \in Client /\ Flags(c) /\ chan[n] \in Seq(Messages)
    BY HonestFacts
  <1>3. /\ c.state = "open" /\ c.complete /\ c.listenPort /\ Done(c) = 3
        /\ c.blocks \in Nat /\ c.peers \in Nat
    BY <1>1, <1>2, DoneValues DEF Good, Client
  <1>4. CanTalk(n, 0) /\ \A type : Got(chan[n], 0, type) = 0
    <2>1. Len(chan[n]) \in Nat
      BY <1>2
    <2> QED
      BY <1>3, <2>1 DEF CanTalk, Got
  <1>5. CASE DownloadMissingBlock(n)
    <2> DEFINE e == [c EXCEPT !.blocks = @ + 1]
               x == Request("old")
               msgs == <<x>>
    <2>1. Update(n, e, 0, msgs)
      BY <1>5 DEF DownloadMissingBlock, Sends
    <2>2. x \in Messages /\ x.type = "BLOCK_REQUEST"
      BY MessageTypes
    <2>3. Keeps(e, c) /\ e.blocks = c.blocks + 1 /\ e.peers = c.peers
      <3>1. c.blocks + 1 \in Nat
        BY <1>3
      <3> QED
        BY <1>2, <1>3, <3>1 DEF Client, Keeps
    <2> HIDE DEF x, e
    <2>4. TalkOnly(msgs) /\ \A type : Count(msgs, type) = IF type = "BLOCK_REQUEST" THEN 1 ELSE 0
      BY <2>2, OneTalk DEF Talk
    <2> HIDE DEF msgs
    <2>5. Balanced(c, e, chan[n], 0, msgs)
      BY <1>3, <1>4, <2>3, <2>4 DEF Balanced
    <2> QED
      BY <1>1, <1>4, <2>1, <2>3, <2>4, <2>5, TalkStep
  <1>6. CASE UpdatePeerList(n)
    <2> DEFINE e == [c EXCEPT !.peers = @ + 1]
               x == Msg("PEER_LIST_REQUEST")
               msgs == <<x>>
    <2>1. Update(n, e, 0, msgs)
      BY <1>6 DEF UpdatePeerList, Sends
    <2>2. x \in Messages /\ x.type = "PEER_LIST_REQUEST"
      BY MessageTypes
    <2>3. Keeps(e, c) /\ e.peers = c.peers + 1 /\ e.blocks = c.blocks
      <3>1. c.peers + 1 \in Nat
        BY <1>3
      <3> QED
        BY <1>2, <1>3, <3>1 DEF Client, Keeps
    <2> HIDE DEF x, e
    <2>4. TalkOnly(msgs) /\ \A type : Count(msgs, type) = IF type = "PEER_LIST_REQUEST" THEN 1 ELSE 0
      BY <2>2, OneTalk DEF Talk
    <2> HIDE DEF msgs
    <2>5. Balanced(c, e, chan[n], 0, msgs)
      BY <1>3, <1>4, <2>3, <2>4 DEF Balanced
    <2> QED
      BY <1>1, <1>4, <2>1, <2>3, <2>4, <2>5, TalkStep
  <1>7. CASE OnBroadcast(n)
    <2> DEFINE x == Msg("BLOCK_BROADCAST")
               msgs == <<x>>
    <2>1. Update(n, c, 0, msgs) /\ Keeps(c, c)
      BY <1>2, <1>3, <1>7 DEF OnBroadcast, Sends, Keeps
    <2>2. x \in Messages /\ x.type = "BLOCK_BROADCAST"
      BY MessageTypes
    <2> HIDE DEF x
    <2>3. TalkOnly(msgs) /\ \A type : Count(msgs, type) = IF type = "BLOCK_BROADCAST" THEN 1 ELSE 0
      BY <2>2, OneTalk DEF Talk
    <2> HIDE DEF msgs
    <2>4. Balanced(c, c, chan[n], 0, msgs)
      BY <1>3, <1>4, <2>3 DEF Balanced
    <2> QED
      BY <1>1, <1>4, <2>1, <2>3, <2>4, TalkStep
  <1> QED
    BY <1>5, <1>6, <1>7

\* No message is unexpected, and a connection that ends is no reason for a ban
LEMMA DisconnectPeace ==
    ASSUME HInv, PeaceInv, Honest, NEW n \in Node,
           Unexpected(n) \/ OnDisconnected(n) \/ IdleTimeout(n)
    PROVE  PeaceInv'
  <1>1. ~Unexpected(n)
    BY InOrder DEF Unexpected
  <1>2. client[n].state = "open" /\ Close(n, client[n], <<>>) /\ UNCHANGED <<setup, jobs>>
    BY <1>1 DEF OnDisconnected, IdleTimeout, Reads
  <1>3. client[n] \in Client /\ Flags(client[n])
    BY HonestFacts
  <1>4. \A m \in Node : banned'[m] \notin {"unexpected", "invalid"}
    BY <1>1, HonestFacts DEF OnDisconnected, IdleTimeout, Ban, Reasons
  <1> QED
    BY <1>2, <1>3, <1>4, ClosePeace

LEMMA ChallengePeace ==
    ASSUME HInv, PeaceInv, Honest, NEW n \in Node, OnHandshakeChallenge(n)
    PROVE  PeaceInv'
  <1> DEFINE c == client[n]
             e == [c EXCEPT !.expected = "SOLUTION"]
             j == [node |-> n, counter |-> c.counter, challenge |-> Head1(n).challenge,
                   done |-> FALSE, pow |-> FALSE]
  <1>1. /\ c.state = "open" /\ chan[n] # <<>> /\ Head1(n).type = "CHALLENGE"
        /\ Allowed(c, "CHALLENGE")
    BY DEF OnHandshakeChallenge, Accepts, Reads
  <1>2. /\ c \in Client /\ Flags(c) /\ client \in [Node -> Client]
        /\ \A m \in Node : banned[m] \notin {"unexpected", "invalid"}
    BY HonestFacts
  <1>3. chan[n][1] = Head1(n) /\ 1 <= Len(chan[n])
    BY <1>1, InOrder
  <1>4. ~c.complete /\ c.expected = "CHALLENGE" /\ ~c.sent
    BY <1>1, <1>2 DEF Allowed, Flags
  <1>5. /\ e \in Client /\ e.counter = c.counter /\ e.sent = c.sent /\ e.complete = c.complete
        /\ e.expected = "SOLUTION" /\ e.invalid = c.invalid /\ e.listenPort = c.listenPort
        /\ e.blocks = c.blocks /\ e.peers = c.peers
    BY <1>2 DEF Client
  <1>6. /\ Update(n, e, 1, <<>>) /\ UNCHANGED <<setup, banned>>
        /\ (jobs' = jobs \cup {j} \/ jobs' = jobs)
    BY DEF OnHandshakeChallenge
  <1> HIDE DEF e
  <1>7. Moving(c, client[Other(n)], e, chan[n], 1, <<>>)
    <2>1. Flags(e) /\ Done(c) = 0 /\ Done(e) = 1
      BY <1>2, <1>4, <1>5 DEF Flags, Done
    <2>2. \A type : Got(chan[n], 1, type) = IF type = "CHALLENGE" THEN 1 ELSE 0
      BY <1>1, <1>3 DEF Got
    <2>3. c.blocks \in Nat /\ c.peers \in Nat
      BY <1>2 DEF Client
    <2>4. /\ e.blocks = c.blocks + Count(<<>>, "BLOCK_REQUEST") - Got(chan[n], 1, "BLOCK_RESPONSE")
          /\ e.peers = c.peers + Count(<<>>, "PEER_LIST_REQUEST")
                               - Got(chan[n], 1, "PEER_LIST_RESPONSE")
          /\ Count(<<>>, "BLOCK_RESPONSE") <= Got(chan[n], 1, "BLOCK_REQUEST")
          /\ Count(<<>>, "PEER_LIST_RESPONSE") <= Got(chan[n], 1, "PEER_LIST_REQUEST")
      BY <1>5, <2>2, <2>3, Nothing
    <2>5. ASSUME NEW l \in Nat, Written(c, l)
          PROVE  /\ Written(e, l + Len(<<>>))
                 /\ \A k \in 1 .. Len(<<>>) : InPlace(<<>>[k].type, l + k)
      <3>1. Len(<<>>) = 0 /\ l + 0 = l
        BY Nothing
      <3>2. Written(e, l)
        BY <1>5, <2>5 DEF Written
      <3> QED
        BY <3>1, <3>2
    <2>6. <<>> \in Seq(Messages)
      OBVIOUS
    <2> QED
      BY <1>1, <1>3, <1>5, <2>1, <2>4, <2>5, <2>6 DEF Moving
  <1>8. (\A m \in Node : Side(client[m], client[Other(m)], chan[m], chan[Other(m)]))'
    BY <1>6, <1>7, SidesUpdate
  <1>9. OneJob'
    <2>1. client'[n] = e /\ \A m \in Node : m # n => client'[m] = client[m]
      BY <1>2, <1>6 DEF Update
    <2>2. OneJob /\ \A i \in jobs : i.node \in Node
      BY DEF PeaceInv, HInv, TypeOK, Job
    <2>3. \A i \in jobs : i.node = n => i.counter # c.counter
      BY <1>4, <2>2 DEF OneJob
    <2>4. j.node = n /\ j.counter = c.counter
      OBVIOUS
    <2> HIDE DEF j
    <2>5. ASSUME NEW i \in jobs', i.counter = client'[i.node].counter
          PROVE  /\ ~client'[i.node].sent /\ client'[i.node].expected = "SOLUTION"
                 /\ \A k \in jobs' : k.node = i.node /\ k.counter = i.counter => k = i
      <3>1. CASE i = j
        BY <1>4, <1>5, <1>6, <2>1, <2>3, <2>4, <3>1
      <3>2. CASE i # j
        <4>1. i \in jobs
          BY <1>6, <3>2
        <4>2. i.node \in Node /\ i.node # n
          BY <1>5, <2>1, <2>2, <2>3, <2>5, <4>1
        <4> QED
          BY <1>6, <2>1, <2>2, <2>4, <2>5, <4>1, <4>2 DEF OneJob
      <3> QED
        BY <3>1, <3>2
    <2> QED
      BY <2>5 DEF OneJob
  <1> QED
    BY <1>2, <1>6, <1>8, <1>9, PeaceKept

\* The first requests, and a solution with or without them
LEMMA FirstRequests ==
    /\ AfterHandshake \in Seq(Messages) /\ Len(AfterHandshake) = 2
    /\ AfterHandshake[1].type = "LISTEN_PORT" /\ AfterHandshake[2].type = "BLOCK_REQUEST"
    /\ \A type : Count(AfterHandshake, type) =
          IF type \in {"LISTEN_PORT", "BLOCK_REQUEST"} THEN 1 ELSE 0
  <1> DEFINE x == Msg("LISTEN_PORT")
             y == Request("tip")
             s == <<x, y>>
  <1>1. x \in Messages /\ y \in Messages /\ x.type = "LISTEN_PORT" /\ y.type = "BLOCK_REQUEST"
    BY MessageTypes
  <1>2. AfterHandshake = s
    BY DEF AfterHandshake
  <1> HIDE DEF x, y
  <1>3. s \in Seq(Messages)
    BY <1>1
  <1>4. Len(s) = 2 /\ s[1] = x /\ s[2] = y
    OBVIOUS
  <1> HIDE DEF s
  <1>5. s[1].type = "LISTEN_PORT" /\ s[2].type = "BLOCK_REQUEST"
    BY <1>1, <1>4
  <1>6. \A i \in 1 .. Len(s) : i = 1 \/ i = 2
    BY <1>4
  <1>7. ASSUME NEW type
        PROVE  Count(s, type) = IF type \in {"LISTEN_PORT", "BLOCK_REQUEST"} THEN 1 ELSE 0
    <2> DEFINE C == {i \in 1 .. Len(s) : s[i].type = type}
    <2>1. CASE type = "LISTEN_PORT"
      <3>1. C = {1}
        BY <1>4, <1>5, <1>6, <2>1
      <3> QED
        BY <2>1, <3>1, FS_Singleton DEF Count
    <2>2. CASE type = "BLOCK_REQUEST"
      <3>1. C = {2}
        BY <1>4, <1>5, <1>6, <2>2
      <3> QED
        BY <2>2, <3>1, FS_Singleton DEF Count
    <2>3. CASE type \notin {"LISTEN_PORT", "BLOCK_REQUEST"}
      <3>1. C = {}
        BY <1>5, <1>6, <2>3
      <3> QED
        BY <2>3, <3>1, FS_EmptySet DEF Count
    <2> QED
      BY <2>1, <2>2, <2>3
  <1> QED
    BY <1>2, <1>3, <1>4, <1>5, <1>7

LEMMA SolutionMessages ==
    ASSUME NEW x \in Messages, x.type = "SOLUTION", NEW rest \in Seq(Messages)
    PROVE  /\ <<x>> \o rest \in Seq(Messages) /\ Len(<<x>> \o rest) = Len(rest) + 1
           /\ (<<x>> \o rest)[1] = x
           /\ \A k \in 1 .. Len(rest) : (<<x>> \o rest)[k + 1] = rest[k]
           /\ \A type : type # "SOLUTION" => Count(<<x>> \o rest, type) = Count(rest, type)
  <1> DEFINE a == <<x>>
  <1>1. a \in Seq(Messages) /\ Len(a) = 1 /\ a[1] = x
    OBVIOUS
  <1>2. \A type : Count(a, type) = IF type = "SOLUTION" THEN 1 ELSE 0
    BY CountOne
  <1> HIDE DEF a
  <1>3. /\ a \o rest \in Seq(Messages) /\ Len(a \o rest) = Len(a) + Len(rest)
        /\ \A i \in 1 .. Len(a) + Len(rest) :
              (a \o rest)[i] = IF i <= Len(a) THEN a[i] ELSE rest[i - Len(a)]
    BY <1>1, ConcatProperties
  <1>4. Len(rest) \in Nat
    OBVIOUS
  <1>5. Len(a \o rest) = Len(rest) + 1 /\ (a \o rest)[1] = x
    BY <1>1, <1>3, <1>4
  <1>6. ASSUME NEW k \in 1 .. Len(rest) PROVE (a \o rest)[k + 1] = rest[k]
    <2>1. k + 1 \in 1 .. Len(a) + Len(rest) /\ ~(k + 1 <= Len(a)) /\ (k + 1) - Len(a) = k
      BY <1>1, <1>4
    <2> QED
      BY <1>3, <2>1
  <1>7. ASSUME NEW type, type # "SOLUTION" PROVE Count(a \o rest, type) = Count(rest, type)
    <2>1. Count(a \o rest, type) = Count(a, type) + Count(rest, type)
      BY <1>1, CountConcat
    <2>2. Count(a, type) = 0 /\ Count(rest, type) \in Nat
      BY <1>2, <1>7, CountType
    <2> QED
      BY ONLY <2>1, <2>2
  <1> QED
    BY <1>3, <1>5, <1>6, <1>7 DEF a

LEMMA SolutionPeace ==
    ASSUME HInv, PeaceInv, Honest, NEW n \in Node, OnHandshakeSolution(n)
    PROVE  PeaceInv'
  <1> DEFINE b == client[n]
             x == Head1(n)
             ok == SolutionIsValid(n, x)
             c == [b EXCEPT !.complete = TRUE, !.invalid = ~ok]
  <1>1. b.state = "open" /\ chan[n] # <<>> /\ x.type = "SOLUTION" /\ Allowed(b, "SOLUTION")
    BY DEF OnHandshakeSolution, Accepts, Reads
  <1>2. /\ b \in Client /\ Flags(b)
        /\ \A m \in Node : banned[m] \notin {"unexpected", "invalid"}
    BY HonestFacts
  <1>3. chan[n][1] = x /\ 1 <= Len(chan[n]) /\ x \in El(chan[n])
    BY <1>1, InOrder, ReadFacts
  <1>4. ~b.complete /\ b.expected = "SOLUTION" /\ ~b.listenPort
    BY <1>1, <1>2 DEF Allowed, Flags
  <1>5. ok
    <2>1. /\ x.challenge = <<n, connections>> /\ x.chain = Chain[Other(n)]
          /\ b.incoming => x.pow
      BY <1>1, <1>3 DEF HInv, ChannelsInv, Current
    <2>2. b.challenge = connections
      BY <1>1 DEF HInv, ClientsInv
    <2>3. Chain[Other(n)] = Chain[n]
      BY OtherNode DEF Honest, SameChain
    <2> QED
      BY <2>1, <2>2, <2>3 DEF SolutionIsValid
  <1>6. /\ c \in Client /\ c.state = b.state /\ c.counter = b.counter /\ c.sent = b.sent /\ c.complete
        /\ c.expected = b.expected /\ ~c.invalid /\ c.listenPort = b.listenPort
        /\ c.blocks = b.blocks /\ c.peers = b.peers
    BY <1>2, <1>5 DEF Client
  <1>7. AfterSolution(n, c) /\ UNCHANGED <<setup, jobs, banned>>
    BY <1>5 DEF OnHandshakeSolution
  <1> HIDE DEF c, ok
  <1>8. \A type : Got(chan[n], 1, type) = IF type = "SOLUTION" THEN 1 ELSE 0
    BY <1>1, <1>3 DEF Got
  <1>9. b.blocks \in Nat /\ b.peers \in Nat /\ Done(b) = 1
    BY <1>2, <1>4 DEF Client, Done
  <1>10. CASE ~c.sent
    <2>1. Update(n, c, 1, <<>>)
      BY <1>7, <1>10 DEF AfterSolution
    <2>2. Flags(c) /\ Done(c) = 2
      BY <1>4, <1>6 DEF Flags, Done
    <2>3. /\ c.blocks = b.blocks + Count(<<>>, "BLOCK_REQUEST") - Got(chan[n], 1, "BLOCK_RESPONSE")
          /\ c.peers = b.peers + Count(<<>>, "PEER_LIST_REQUEST")
                               - Got(chan[n], 1, "PEER_LIST_RESPONSE")
          /\ Count(<<>>, "BLOCK_RESPONSE") <= Got(chan[n], 1, "BLOCK_REQUEST")
          /\ Count(<<>>, "PEER_LIST_RESPONSE") <= Got(chan[n], 1, "PEER_LIST_REQUEST")
      BY <1>6, <1>8, <1>9, Nothing
    <2>4. ASSUME NEW l \in Nat, Written(b, l)
          PROVE  /\ Written(c, l + Len(<<>>))
                 /\ \A k \in 1 .. Len(<<>>) : InPlace(<<>>[k].type, l + k)
      <3>1. Len(<<>>) = 0 /\ l + 0 = l
        BY Nothing
      <3>2. Written(c, l)
        BY <1>6, <1>10, <2>4 DEF Written
      <3> QED
        BY <3>1, <3>2
    <2>5. <<>> \in Seq(Messages)
      OBVIOUS
    <2>6. Moving(b, client[Other(n)], c, chan[n], 1, <<>>)
      BY <1>1, <1>3, <1>6, <1>9, <2>2, <2>3, <2>4, <2>5 DEF Moving
    <2>7. (\A m \in Node : Side(client[m], client[Other(m)], chan[m], chan[Other(m)]))'
      BY <2>1, <2>6, SidesUpdate
    <2>8. OneJob'
      BY <1>6, <1>7, <2>1, JobsKeep DEF Update
    <2> QED
      BY <1>2, <1>7, <2>7, <2>8, PeaceKept
  <1>11. CASE c.sent
    <2> DEFINE e == Asked(c)
               msgs == AfterHandshake
    <2>1. Update(n, e, 1, msgs)
      BY <1>7, <1>11 DEF AfterSolution
    <2>2. /\ e \in Client /\ e.state = "open" /\ e.counter = b.counter /\ e.sent /\ e.complete
          /\ e.expected = b.expected /\ ~e.invalid /\ ~e.listenPort
          /\ e.blocks = b.blocks + 1 /\ e.peers = b.peers
      BY <1>1, <1>4, <1>6, <1>11, AskedType DEF SameConnection
    <2> HIDE DEF e, msgs
    <2>3. Flags(e) /\ Done(e) = 2
      BY <1>4, <2>2 DEF Flags, Done
    <2>4. /\ msgs \in Seq(Messages) /\ Len(msgs) = 2
          /\ msgs[1].type = "LISTEN_PORT" /\ msgs[2].type = "BLOCK_REQUEST"
          /\ \A type : Count(msgs, type) = IF type \in {"LISTEN_PORT", "BLOCK_REQUEST"} THEN 1 ELSE 0
      BY FirstRequests DEF msgs
    <2>5. /\ e.blocks = b.blocks + Count(msgs, "BLOCK_REQUEST") - Got(chan[n], 1, "BLOCK_RESPONSE")
          /\ e.peers = b.peers + Count(msgs, "PEER_LIST_REQUEST")
                               - Got(chan[n], 1, "PEER_LIST_RESPONSE")
          /\ Count(msgs, "BLOCK_RESPONSE") <= Got(chan[n], 1, "BLOCK_REQUEST")
          /\ Count(msgs, "PEER_LIST_RESPONSE") <= Got(chan[n], 1, "PEER_LIST_REQUEST")
      BY <1>8, <1>9, <2>2, <2>4
    <2>6. ASSUME NEW l \in Nat, Written(b, l)
          PROVE  /\ Written(e, l + Len(msgs))
                 /\ \A k \in 1 .. Len(msgs) : InPlace(msgs[k].type, l + k)
      <3>1. l = 2
        BY <1>4, <1>6, <1>11, <2>6 DEF Written
      <3>2. Written(e, l + Len(msgs))
        BY <2>2, <2>4, <3>1 DEF Written
      <3>3. ASSUME NEW k \in 1 .. Len(msgs) PROVE InPlace(msgs[k].type, l + k)
        <4>1. k = 1 \/ k = 2
          BY <2>4
        <4> QED
          BY <2>4, <3>1, <4>1 DEF InPlace, Talk
      <3> QED
        BY <3>2, <3>3
    <2>7. Moving(b, client[Other(n)], e, chan[n], 1, msgs)
      BY <1>1, <1>3, <1>9, <2>2, <2>3, <2>4, <2>5, <2>6 DEF Moving
    <2>8. (\A m \in Node : Side(client[m], client[Other(m)], chan[m], chan[Other(m)]))'
      BY <2>1, <2>7, SidesUpdate
    <2>9. OneJob'
      BY <1>6, <1>7, <1>11, <2>1, <2>2, JobsKeep DEF Update
    <2> QED
      BY <1>2, <1>7, <2>8, <2>9, PeaceKept
  <1> QED
    BY <1>10, <1>11

\* The solution that was computed is sent: no other is on its way
LEMMA JobDone ==
    ASSUME HInv, PeaceInv, Honest, NEW j \in jobs, jobs' = jobs \ {j}, NEW e,
           client' = [client EXCEPT ![j.node] = e], StillConnected(j),
           e.counter = client[j.node].counter
    PROVE  OneJob'
  <1>1. client \in [Node -> Client] /\ OneJob /\ \A i \in jobs : i.node \in Node
    BY DEF HInv, TypeOK, PeaceInv, Job
  <1>2. j.counter = client[j.node].counter
    BY DEF StillConnected
  <1>3. \A i \in jobs' : i \in jobs /\ (i.node = j.node => i.counter # e.counter)
    BY <1>1, <1>2 DEF OneJob
  <1>4. \A m \in Node : client'[m] = IF m = j.node THEN e ELSE client[m]
    BY <1>1
  <1>5. ASSUME NEW i \in jobs', i.counter = client'[i.node].counter
        PROVE  /\ ~client'[i.node].sent /\ client'[i.node].expected = "SOLUTION"
               /\ \A k \in jobs' : k.node = i.node /\ k.counter = i.counter => k = i
    <2>1. i \in jobs /\ i.node \in Node /\ i.node # j.node
      BY <1>1, <1>3, <1>4, <1>5
    <2>2. client'[i.node] = client[i.node]
      BY <1>4, <2>1
    <2> QED
      BY <1>1, <1>3, <1>5, <2>1, <2>2 DEF OneJob
  <1> QED
    BY <1>5 DEF OneJob

LEMMA SolutionDonePeace ==
    ASSUME HInv, PeaceInv, Honest, NEW j \in jobs, SolutionDone(j)
    PROVE  PeaceInv'
  <1> DEFINE n == j.node
             b == client[n]
             c == [b EXCEPT !.sent = TRUE]
             e == IF GoesOn(c) THEN Asked(c) ELSE c
             x == Solution(j)
             rest == IF GoesOn(c) THEN AfterHandshake ELSE <<>>
             msgs == <<x>> \o rest
  <1>1. /\ j.done /\ jobs' = jobs \ {j} /\ setup' = setup
        /\ n \in Node /\ client \in [Node -> Client] /\ OneJob
    BY DEF SolutionDone, HInv, TypeOK, Job, PeaceInv
  <1>2. /\ b \in Client /\ Flags(b) /\ chan[n] \in Seq(Messages)
        /\ \A m \in Node : banned[m] \notin {"unexpected", "invalid"}
        /\ Side(b, client[Other(n)], chan[n], chan[Other(n)])
        /\ Side(client[Other(n)], b, chan[Other(n)], chan[n])
    <2> HIDE DEF n
    <2> QED
      BY <1>1, HonestFacts
  <1>3. /\ c \in Client /\ c.state = b.state /\ c.counter = b.counter /\ c.sent
        /\ c.complete = b.complete
        /\ c.expected = b.expected /\ c.invalid = b.invalid /\ c.listenPort = b.listenPort
        /\ c.blocks = b.blocks /\ c.peers = b.peers
    BY <1>2 DEF Client
  <1>4. IF ~StillConnected(j) THEN UNCHANGED <<client, chan, banned>>
        ELSE IF c.state = "closing"
        THEN /\ client' = [client EXCEPT ![n] = c]
             /\ Ban(n, IF BadPeer(c) THEN "invalid" ELSE banned[n])
             /\ UNCHANGED chan
        ELSE IF BadPeer(c)
        THEN Ban(n, "invalid") /\ Close(n, c, msgs)
        ELSE /\ Update(n, e, 0, msgs) /\ UNCHANGED banned
    BY DEF SolutionDone
  <1>5. ~BadPeer(c)
    BY <1>2, <1>3 DEF BadPeer, Flags
  <1>6. CASE ~StillConnected(j)
    <2>1. UNCHANGED <<client, chan, banned>>
      BY <1>4, <1>6
    <2>2. OneJob'
      BY <1>1, <2>1 DEF OneJob
    <2> QED
      BY <1>1, <1>2, <2>1, <2>2, PeaceKept DEF PeaceInv
  <1>7. CASE StillConnected(j)
    <2>1. ~b.sent /\ b.expected = "SOLUTION"
      BY <1>1, <1>7 DEF OneJob, StillConnected
    <2>2. Flags(c) /\ Done(c) = Done(b)
      BY <1>2, <1>3, <2>1 DEF Flags, Done
    <2>3. CASE c.state = "closing"
      <3>1. client' = [client EXCEPT ![n] = c] /\ chan' = chan
        BY <1>4, <1>7, <2>3
      <3>2. banned' = banned
        BY <1>1, <1>4, <1>5, <1>7, <2>3 DEF Ban, HInv, TypeOK
      <3>3. OneJob'
        BY <1>1, <1>3, <1>7, <3>1, JobDone
      <3> HIDE DEF n, c
      <3>4. Other(n) \in Node /\ Other(n) # n
        BY <1>1, OtherNode
      <3>5. client'[n] = c /\ client'[Other(n)] = client[Other(n)]
        BY <1>1, <3>1, <3>4
      <3>6. Side(c, client[Other(n)], chan[n], chan[Other(n)])
        BY <2>2, <2>3 DEF Side
      <3>7. Side(client[Other(n)], c, chan[Other(n)], chan[n])
        BY <1>2, <2>3 DEF Side
      <3>8. (\A m \in Node : Side(client[m], client[Other(m)], chan[m], chan[Other(m)]))'
        BY <1>1, <3>1, <3>5, <3>6, <3>7, SidesKeep
      <3> QED
        BY <1>1, <1>2, <3>2, <3>3, <3>8, PeaceKept
    <2>4. CASE c.state # "closing"
      <3>1. Update(n, e, 0, msgs) /\ banned' = banned
        BY <1>4, <1>5, <1>7, <2>4
      <3>2. x \in Messages /\ x.type = "SOLUTION" /\ c.state = "open"
        BY <1>1, <1>3, <1>7, <2>4, SolutionType
      <3>3. /\ GoesOn(c) <=> c.complete
            /\ rest = IF c.complete THEN AfterHandshake ELSE <<>>
        BY <1>2, <1>3 DEF GoesOn, Flags
      <3>4. /\ rest \in Seq(Messages) /\ Len(rest) = (IF c.complete THEN 2 ELSE 0)
            /\ c.complete => rest[1].type = "LISTEN_PORT" /\ rest[2].type = "BLOCK_REQUEST"
            /\ \A type : Count(rest, type) = IF c.complete /\ type \in {"LISTEN_PORT", "BLOCK_REQUEST"}
                                             THEN 1 ELSE 0
        <4> HIDE DEF c, rest
        <4>1. CASE c.complete
          BY <3>3, <4>1, FirstRequests
        <4>2. CASE ~c.complete
          BY <3>3, <4>2, Nothing DEF TalkOnly
        <4> QED
          BY <4>1, <4>2
      <3>5. msgs = <<x>> \o rest
        OBVIOUS
      <3> HIDE DEF x, rest, msgs
      <3>6. /\ msgs \in Seq(Messages) /\ Len(msgs) = Len(rest) + 1 /\ msgs[1] = x
            /\ \A k \in 1 .. Len(rest) : msgs[k + 1] = rest[k]
            /\ \A type : type # "SOLUTION" => Count(msgs, type) = Count(rest, type)
        <4>1. /\ <<x>> \o rest \in Seq(Messages) /\ Len(<<x>> \o rest) = Len(rest) + 1
              /\ (<<x>> \o rest)[1] = x
              /\ \A k \in 1 .. Len(rest) : (<<x>> \o rest)[k + 1] = rest[k]
              /\ \A type : type # "SOLUTION" => Count(<<x>> \o rest, type) = Count(rest, type)
          BY <3>2, <3>4, SolutionMessages
        <4> QED
          BY ONLY <3>5, <4>1, Zenon
      <3>7. /\ e \in Client /\ e.counter = b.counter /\ e.sent /\ e.complete = b.complete
            /\ e.expected = b.expected /\ ~e.invalid /\ e.listenPort = b.listenPort
            /\ e.blocks = b.blocks + (IF c.complete THEN 1 ELSE 0) /\ e.peers = b.peers
        <4>1. ~c.invalid /\ c.blocks \in Nat
          BY <1>2, <1>3 DEF Flags, Client
        <4>2. /\ Asked(c) \in Client /\ SameConnection(Asked(c), c)
              /\ Asked(c).complete = c.complete /\ Asked(c).invalid = c.invalid
              /\ Asked(c).sent = c.sent /\ Asked(c).expected = c.expected
              /\ Asked(c).listenPort = c.listenPort /\ Asked(c).peers = c.peers
              /\ Asked(c).blocks = c.blocks + 1
          BY <1>3, AskedType
        <4>3. e = IF c.complete THEN Asked(c) ELSE c
          BY <3>3
        <4> HIDE DEF c, e, b
        <4>4. CASE c.complete
          BY <1>3, <4>1, <4>2, <4>3, <4>4 DEF SameConnection
        <4>5. CASE ~c.complete
          BY <1>3, <4>1, <4>3, <4>5
        <4> QED
          BY <4>4, <4>5
      <3> HIDE DEF e
      <3>8. Flags(e) /\ Done(e) = Done(b)
        BY <1>2, <2>1, <3>7 DEF Flags, Done
      <3>9. b.blocks \in Nat /\ b.peers \in Nat /\ \A type : Got(chan[n], 0, type) = 0
        BY <1>2 DEF Client, Got
      <3>10. /\ e.blocks = b.blocks + Count(msgs, "BLOCK_REQUEST") - Got(chan[n], 0, "BLOCK_RESPONSE")
             /\ e.peers = b.peers + Count(msgs, "PEER_LIST_REQUEST")
                                  - Got(chan[n], 0, "PEER_LIST_RESPONSE")
             /\ Count(msgs, "BLOCK_RESPONSE") <= Got(chan[n], 0, "BLOCK_REQUEST")
             /\ Count(msgs, "PEER_LIST_RESPONSE") <= Got(chan[n], 0, "PEER_LIST_REQUEST")
        <4>1. /\ Count(msgs, "BLOCK_REQUEST") = (IF c.complete THEN 1 ELSE 0)
              /\ Count(msgs, "PEER_LIST_REQUEST") = 0 /\ Count(msgs, "BLOCK_RESPONSE") = 0
              /\ Count(msgs, "PEER_LIST_RESPONSE") = 0
          BY <3>4, <3>6
        <4> QED
          BY <3>7, <3>9, <4>1
      <3>11. ASSUME NEW l \in Nat, Written(b, l)
             PROVE  /\ Written(e, l + Len(msgs))
                    /\ \A k \in 1 .. Len(msgs) : InPlace(msgs[k].type, l + k)
        <4>1. l = 1
          BY <2>1, <3>11 DEF Written
        <4>2. Len(msgs) = IF c.complete THEN 3 ELSE 1
          BY <3>4, <3>6
        <4>3. Written(e, l + Len(msgs))
          BY <1>3, <3>7, <4>1, <4>2 DEF Written
        <4>4. ASSUME NEW k \in 1 .. Len(msgs) PROVE InPlace(msgs[k].type, l + k)
          <5>1. CASE k = 1
            BY <3>2, <3>6, <4>1, <5>1 DEF InPlace
          <5>2. CASE k # 1
            <6>1. c.complete /\ k \in {2, 3}
              BY <4>2, <5>2
            <6>2. Len(rest) = 2 /\ 1 + 1 = 2 /\ 2 + 1 = 3
              BY <3>4, <6>1
            <6>3. msgs[2] = rest[1] /\ msgs[3] = rest[2]
              BY <3>6, <6>2
            <6> QED
              BY <3>4, <4>1, <6>1, <6>3 DEF InPlace, Talk
          <5> QED
            BY <5>1, <5>2
        <4> QED
          BY <4>3, <4>4
      <3>12. Moving(b, client[Other(n)], e, chan[n], 0, msgs)
        <4>1. b.state = "open" /\ 0 <= Len(chan[n])
          BY <1>2, <1>3, <3>2
        <4> HIDE DEF b
        <4> QED
          BY <3>6, <3>7, <3>8, <3>10, <3>11, <4>1 DEF Moving
      <3>13. (\A m \in Node : Side(client[m], client[Other(m)], chan[m], chan[Other(m)]))'
        BY <1>1, <3>1, <3>12, SidesUpdate
      <3>14. OneJob'
        BY <1>1, <1>7, <3>1, <3>7, JobDone DEF Update
      <3> QED
        BY <1>1, <1>2, <3>1, <3>13, <3>14, PeaceKept
    <2> QED
      BY <2>3, <2>4
  <1> QED
    BY <1>6, <1>7

\* A connection begins with a challenge on its way to either end, or is refused
LEMMA NewSide ==
    ASSUME NEW c, NEW d, NEW s \in Seq(Messages), NEW t \in Seq(Messages),
           c.expected = "CHALLENGE", ~c.sent, ~c.complete, ~c.invalid, ~c.listenPort,
           c.blocks = 0, c.peers = 0, ~d.sent, Len(s) <= 1, d.state = "open" => Len(s) = 1,
           \A k \in 1 .. Len(s) : s[k].type \in {"CHALLENGE", "EOF"},
           \A k \in 1 .. Len(t) : t[k].type \in {"CHALLENGE", "EOF"}
    PROVE  Side(c, d, s, t)
  <1>1. Flags(c) /\ Done(c) = 0
    BY DEF Flags, Done
  <1>2. ASSUME NEW k \in 1 .. Len(s) PROVE s[k].type = "EOF" \/ InPlace(s[k].type, k + Done(c))
    <2>1. k = 1 /\ Len(s) \in Nat
      OBVIOUS
    <2> QED
      BY <1>1, <2>1 DEF InPlace
  <1>3. d.state = "open" => Written(d, Len(s) + Done(c))
    BY <1>1 DEF Written
  <1>4. /\ Count(s, "BLOCK_RESPONSE") = 0 /\ Count(s, "PEER_LIST_RESPONSE") = 0
    <2>1. \A k \in 1 .. Len(s) : s[k].type # "BLOCK_RESPONSE" /\ s[k].type # "PEER_LIST_RESPONSE"
      OBVIOUS
    <2> QED
      BY <2>1, CountUniform
  <1>5. /\ Count(t, "BLOCK_REQUEST") = 0 /\ Count(t, "PEER_LIST_REQUEST") = 0
    <2>1. \A k \in 1 .. Len(t) : t[k].type # "BLOCK_REQUEST" /\ t[k].type # "PEER_LIST_REQUEST"
      OBVIOUS
    <2> QED
      BY <2>1, CountUniform
  <1> QED
    BY <1>1, <1>2, <1>3, <1>4, <1>5 DEF Side

\* Work for a client that has been reset is not of the current connection
LEMMA JobsOld ==
    ASSUME HInv, PeaceInv, Honest, jobs' = jobs,
           \A m \in Node : client'[m] = client[m] \/ client'[m].counter = client[m].counter + 1
    PROVE  OneJob'
  <1>1. ASSUME NEW j \in jobs, j.counter = client'[j.node].counter
        PROVE  client'[j.node] = client[j.node]
    <2>1. j.node \in Node /\ j.counter \in Nat /\ j.counter <= client[j.node].counter
      BY DEF HInv, JobsInv, JobOK, TypeOK, Job
    <2>2. client[j.node].counter \in Nat
      BY <2>1 DEF HInv, TypeOK, Client
    <2>3. client'[j.node].counter # client[j.node].counter + 1
      BY ONLY <1>1, <2>1, <2>2
    <2> QED
      BY <2>1, <2>3
  <1> QED
    BY <1>1 DEF PeaceInv, OneJob

LEMMA FreshFlags ==
    ASSUME NEW c
    PROVE  LET f == Fresh(c) IN
           /\ f.counter = c.counter + 1 /\ f.expected = "CHALLENGE" /\ ~f.sent /\ ~f.complete
           /\ ~f.invalid /\ ~f.listenPort /\ f.blocks = 0 /\ f.peers = 0 /\ f.state = "free"
  BY DEF Fresh

LEMMA ConnectPeace ==
    ASSUME HInv, PeaceInv, Honest, NEW n \in Node, Connect(n)
    PROVE  PeaceInv'
  <1> DEFINE m == Other(n)
             k == connections + 1
             out == Opened(client[n], FALSE, k)
             in == Opened(client[m], TRUE, k)
             refused == banned[m] # "no"
             inc == IF refused THEN [in EXCEPT !.state = "closing"] ELSE in
             toN == <<IF refused THEN Msg("EOF") ELSE Challenge(<<m, k>>)>>
             toM == IF refused THEN <<>> ELSE <<Challenge(<<n, k>>)>>
  <1>1. m \in Node /\ m # n /\ Other(m) = n /\ \A x \in Node : x = n \/ x = m
    BY OtherNode
  <1>2. /\ client' = [x \in Node |-> IF x = n THEN out ELSE inc]
        /\ chan' = [x \in Node |-> IF x = n THEN toN ELSE toM]
        /\ UNCHANGED <<setup, jobs, banned>>
    BY DEF Connect
  <1>3. /\ out.counter = client[n].counter + 1 /\ out.expected = "CHALLENGE" /\ ~out.sent
        /\ ~out.complete /\ ~out.invalid /\ ~out.listenPort /\ out.blocks = 0 /\ out.peers = 0
        /\ out.state = "open"
    BY DEF Opened, Fresh
  <1>4. /\ inc.counter = client[m].counter + 1 /\ inc.expected = "CHALLENGE" /\ ~inc.sent
        /\ ~inc.complete /\ ~inc.invalid /\ ~inc.listenPort /\ inc.blocks = 0 /\ inc.peers = 0
        /\ (inc.state = "open") <=> ~refused
    BY DEF Opened, Fresh
  <1>5. HInv'
    BY ConnectStep
  <1>6. chan'[n] = toN /\ chan'[m] = toM /\ client'[n] = out /\ client'[m] = inc
    <2> HIDE DEF m, out, inc, toN, toM
    <2> QED
      BY <1>1, <1>2
  <1>7. toN \in Seq(Messages) /\ toM \in Seq(Messages)
    <2>1. chan'[n] \in Seq(Messages) /\ chan'[m] \in Seq(Messages)
      BY <1>1, <1>5 DEF HInv, TypeOK
    <2> HIDE DEF toN, toM
    <2> QED
      BY <1>6, <2>1
  <1>8. /\ Len(toN) = 1 /\ \A i \in 1 .. Len(toN) : toN[i].type \in {"CHALLENGE", "EOF"}
    <2> DEFINE x == IF refused THEN Msg("EOF") ELSE Challenge(<<m, k>>)
    <2>1. x.type \in {"CHALLENGE", "EOF"}
      BY DEF Msg, Challenge
    <2>2. toN = <<x>>
      OBVIOUS
    <2> HIDE DEF x, toN
    <2>3. Len(<<x>>) = 1 /\ <<x>>[1] = x
      OBVIOUS
    <2> QED
      BY <2>1, <2>2, <2>3
  <1>9. /\ Len(toM) <= 1 /\ (~refused => Len(toM) = 1)
        /\ \A i \in 1 .. Len(toM) : toM[i].type \in {"CHALLENGE", "EOF"}
    <2> DEFINE x == Challenge(<<n, k>>)
    <2>1. x.type = "CHALLENGE"
      BY DEF Challenge
    <2>2. toM = IF refused THEN <<>> ELSE <<x>>
      OBVIOUS
    <2> HIDE DEF x, toM, refused
    <2>3. Len(<<x>>) = 1 /\ <<x>>[1] = x /\ Len(<<>>) = 0
      OBVIOUS
    <2>4. CASE refused
      BY <2>2, <2>3, <2>4
    <2>5. CASE ~refused
      BY <2>1, <2>2, <2>3, <2>5
    <2> QED
      BY <2>4, <2>5
  <1> HIDE DEF m, k, out, in, inc, toN, toM
  <1>10. Side(out, inc, toN, toM)
    <2>1. Len(toN) <= 1
      BY <1>8
    <2> QED
      BY <1>3, <1>4, <1>7, <1>8, <1>9, <2>1, NewSide
  <1>11. CASE refused
    <2>1. Side(inc, out, toM, toN)
      BY <1>4, <1>11 DEF Side, Flags
    <2>2. (\A x \in Node : Side(client[x], client[Other(x)], chan[x], chan[Other(x)]))'
      BY <1>1, <1>6, <1>10, <2>1, SidesKeep DEF m
    <2>3. OneJob'
      BY <1>1, <1>2, <1>3, <1>4, <1>6, JobsOld
    <2> QED
      BY <1>2, <2>2, <2>3, PeaceKept DEF PeaceInv
  <1>12. CASE ~refused
    <2>1. Side(inc, out, toM, toN)
      BY <1>3, <1>4, <1>7, <1>8, <1>9, <1>12, NewSide
    <2>2. (\A x \in Node : Side(client[x], client[Other(x)], chan[x], chan[Other(x)]))'
      BY <1>1, <1>6, <1>10, <2>1, SidesKeep DEF m
    <2>3. OneJob'
      BY <1>1, <1>2, <1>3, <1>4, <1>6, JobsOld
    <2> QED
      BY <1>2, <2>2, <2>3, PeaceKept DEF PeaceInv
  <1> QED
    BY <1>11, <1>12

LEMMA ResetPeace ==
    ASSUME HInv, PeaceInv, Honest, NEW n \in Node, Reset(n)
    PROVE  PeaceInv'
  <1> DEFINE f == Fresh(client[n])
  <1>1. /\ client[n].state = "closing" /\ client' = [client EXCEPT ![n] = f]
        /\ UNCHANGED <<setup, chan, jobs, banned>>
    BY DEF Reset
  <1>2. /\ f.counter = client[n].counter + 1 /\ Flags(f) /\ f.state = "free"
    BY FreshFlags DEF Flags
  <1> HIDE DEF f
  <1>3. /\ Other(n) \in Node /\ Other(n) # n /\ client \in [Node -> Client]
        /\ Side(client[Other(n)], client[n], chan[Other(n)], chan[n])
    BY HonestFacts
  <1>4. client'[n] = f /\ client'[Other(n)] = client[Other(n)]
        /\ \A x \in Node : x # n => client'[x] = client[x]
    BY <1>1, <1>3
  <1>5. Side(f, client[Other(n)], chan[n], chan[Other(n)])
    BY <1>2 DEF Side
  <1>6. Side(client[Other(n)], f, chan[Other(n)], chan[n])
    BY <1>2, <1>3 DEF Side
  <1>7. (\A x \in Node : Side(client[x], client[Other(x)], chan[x], chan[Other(x)]))'
    BY <1>1, <1>4, <1>5, <1>6, SidesKeep
  <1>8. OneJob'
    BY <1>1, <1>2, <1>4, JobsOld
  <1> QED
    BY <1>1, <1>7, <1>8, PeaceKept DEF PeaceInv

LEMMA SolveChallengePeace ==
    ASSUME HInv, PeaceInv, Honest, NEW j \in jobs, SolveChallenge(j)
    PROVE  PeaceInv'
  <1>1. PICK d : /\ jobs' = (jobs \ {j}) \cup {d}
                 /\ d.node = j.node /\ d.counter = j.counter
    <2>1. j \in Job
      BY DEF HInv, TypeOK
    <2> DEFINE found == client[j.node].counter = j.counter /\ ~client[j.node].incoming
               d == [j EXCEPT !.done = TRUE, !.pow = found]
    <2>2. jobs' = (jobs \ {j}) \cup {d}
      BY DEF SolveChallenge
    <2>3. d.node = j.node /\ d.counter = j.counter
      BY <2>1 DEF Job
    <2> QED
      BY <2>2, <2>3
  <1>2. UNCHANGED <<setup, client, chan, banned>>
    BY DEF SolveChallenge
  <1>3. OneJob
    BY DEF PeaceInv
  <1>4. ASSUME NEW i \in jobs'
        PROVE  \E o \in jobs : /\ o.node = i.node /\ o.counter = i.counter
                               /\ (o = i /\ o # j) \/ (o = j /\ i = d)
    BY <1>1
  <1>5. OneJob'
    <2> SUFFICES ASSUME NEW i \in jobs', i.counter = client[i.node].counter
                 PROVE  /\ ~client[i.node].sent /\ client[i.node].expected = "SOLUTION"
                        /\ \A l \in jobs' : l.node = i.node /\ l.counter = i.counter => l = i
      BY <1>2 DEF OneJob
    <2>1. PICK o \in jobs : /\ o.node = i.node /\ o.counter = i.counter
                            /\ (o = i /\ o # j) \/ (o = j /\ i = d)
      BY <1>4
    <2>2. ASSUME NEW l \in jobs', l.node = i.node, l.counter = i.counter PROVE l = i
      <3>1. PICK p \in jobs : /\ p.node = l.node /\ p.counter = l.counter
                              /\ (p = l /\ p # j) \/ (p = j /\ l = d)
        BY <1>4
      <3>2. p = o
        BY <1>3, <2>1, <2>2, <3>1 DEF OneJob
      <3> QED
        BY <2>1, <3>1, <3>2
    <2> QED
      BY <1>3, <2>1, <2>2 DEF OneJob
  <1> QED
    BY <1>2, <1>5, PeaceKept DEF PeaceInv

LEMMA QuietPeace ==
    ASSUME HInv, PeaceInv, UNCHANGED <<setup, client, chan, jobs>>,
           \A m \in Node : banned'[m] = banned[m] \/ banned'[m] = "no"
    PROVE  PeaceInv'
  <1>1. Honest => /\ (\A m \in Node : Side(client[m], client[Other(m)], chan[m], chan[Other(m)]))'
                  /\ \A m \in Node : banned'[m] \notin {"unexpected", "invalid"}
                  /\ OneJob'
    BY DEF PeaceInv, OneJob
  <1> QED
    BY <1>1, PeaceKept

LEMMA PeaceInit == Init => PeaceInv
  <1> SUFFICES ASSUME Init PROVE PeaceInv
    OBVIOUS
  <1> DEFINE f == Fresh([counter |-> -1, blocks |-> 0])
  <1>1. f.state = "free" /\ Flags(f)
    BY DEF Fresh, Flags
  <1> HIDE DEF f
  <1>2. \A n \in Node : client[n] = f /\ banned[n] = "no"
    BY DEF Init, f
  <1>3. \A n \in Node : Other(n) \in Node
    BY OtherNode
  <1>4. \A n \in Node : Side(client[n], client[Other(n)], chan[n], chan[Other(n)])
    BY <1>1, <1>2, <1>3 DEF Side
  <1>5. OneJob
    BY DEF Init, OneJob
  <1> QED
    BY <1>2, <1>4, <1>5 DEF PeaceInv

LEMMA PeaceStep ==
    ASSUME HInv, PeaceInv, [Next]_vars
    PROVE  PeaceInv'
  <1>1. setup' = setup
    BY DEF Next, vars, LoopThread, ReadMessage, Connect, Reset, Unexpected, OnDisconnected,
       OnHandshakeChallenge, OnHandshakeSolution, OnListenPort, OnBlockRequest, OnBlockResponse,
       OnPeerListRequest, OnPeerListResponse, OnBlockBroadcast, SolutionDone, SolveChallenge,
       DownloadMissingBlock, UpdatePeerList, OnBroadcast, Sends, ForeignSends, IdleTimeout,
       BanExpires, GetBlocks
  <1>2. CASE ~Honest
    BY <1>1, <1>2, PeaceKept
  <1>3. CASE Honest
    <2>1. ASSUME NEW n \in Node, LoopThread(n) PROVE PeaceInv'
      <3>1. ASSUME ReadMessage(n) PROVE PeaceInv'
        BY <1>3, <3>1, DisconnectPeace, ChallengePeace, SolutionPeace, ListenPortPeace,
           BlockRequestPeace, BlockResponsePeace, PeerListRequestPeace, PeerListResponsePeace,
           BlockBroadcastPeace DEF ReadMessage
      <3> QED
        BY <1>3, <2>1, <3>1, ConnectPeace, ResetPeace, SolutionDonePeace DEF LoopThread
    <2>2. ASSUME NEW n \in Node, BanExpires(n) PROVE PeaceInv'
      <3>1. \A m \in Node : banned'[m] = banned[m] \/ banned'[m] = "no"
        BY <2>2 DEF BanExpires, Ban, HInv, TypeOK
      <3> QED
        BY <2>2, <3>1, QuietPeace DEF BanExpires
    <2>3. ASSUME NEW n \in Node, GetBlocks(n) PROVE PeaceInv'
      BY <2>3, QuietPeace DEF GetBlocks
    <2>4. ASSUME NEW n \in Node PROVE ~ForeignSends(n)
      BY <1>3 DEF ForeignSends, Honest
    <2>5. CASE UNCHANGED vars
      BY <2>5, QuietPeace DEF vars
    <2> QED
      BY <1>3, <2>1, <2>2, <2>3, <2>4, <2>5, DisconnectPeace, SendsPeace, SolveChallengePeace
      DEF Next
  <1> QED
    BY <1>2, <1>3

\* on_read, on_handshake_solution and on_after_handshake: two nodes of one side chain never
\* ban each other for a failed handshake or a message at the wrong time, and one that takes
\* the other for a good peer has been taken for one, or is about to be
THEOREM HonestPeersNeverFight == Spec => []HonestPeersGetAlong
  <1>1. HInv /\ PeaceInv => NoWrongBans
    BY DEF PeaceInv, NoWrongBans, Honest
  <1>2. HInv /\ PeaceInv => GoodIsMutual
    <2> SUFFICES ASSUME HInv, PeaceInv, NEW n \in Node, Foreign = {}, Good(n),
                        client[Other(n)].state = "open"
                 PROVE  LET c == client[Other(n)] IN c.complete /\ ~c.invalid /\ c.sent
      BY DEF GoodIsMutual
    <2>1. /\ client[n].state = "open" /\ client[n].complete /\ ~client[n].invalid
          /\ client[n].listenPort
      BY DEF Good
    <2>2. Honest
      BY <2>1 DEF Honest, HInv, StrangersInv
    <2>3. /\ Flags(client[n]) /\ client[n] \in Client /\ chan[n] \in Seq(Messages)
          /\ Other(n) \in Node
      BY <2>2, HonestFacts
    <2>4. Flags(client[Other(n)])
      BY <2>2, <2>3, HonestFacts
    <2>5. Done(client[n]) = 3
      BY <2>1, <2>3 DEF Done, Flags
    <2>6. Len(chan[n]) + Done(client[n]) >= 3
      BY <2>3, <2>5
    <2>7. client[Other(n)].sent /\ client[Other(n)].complete
      BY <2>1, <2>2, <2>6, BothSent
    <2> QED
      BY <2>4, <2>7 DEF Flags
  <1>3. HInv /\ PeaceInv => HonestPeersGetAlong
    BY <1>1, <1>2 DEF HonestPeersGetAlong
  <1>4. Init => PeaceInv
    BY PeaceInit
  <1>5. HInv /\ PeaceInv /\ [Next]_vars => PeaceInv'
    BY PeaceStep
  <1> QED
    BY <1>3, <1>4, <1>5, HandshakeInvariant, PTL DEF Spec

=============================================================================
