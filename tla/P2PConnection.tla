--------------------------- MODULE P2PConnection ---------------------------
(***************************************************************************)
(* One connection between two p2pool nodes, as P2PServer::P2PClient sees   *)
(* it on either side: the handshake, with its solutions computed on the    *)
(* thread pool, the first requests, and the client slots that are used     *)
(* again for the next connection while old work may still be running.      *)
(*                                                                         *)
(* Both nodes run this program; they may be configured for different side  *)
(* chains.  A Foreign node also sends messages where the protocol has none *)
(* of them.  TCP delivers in order; what the peer has not read when a node *)
(* closes the connection may be lost.                                      *)
(***************************************************************************)
EXTENDS Integers, Sequences, SequencesExt

CONSTANTS
    Node,            \* the two nodes
    Setups,          \* the side chains the nodes may be configured for, see SetupType
    Synced,          \* nodes that have blocks when they start
    MaxConnections   \* bound: connections made one after the other

\* consensus_id of each node; nodes that run another program and may say anything;
\* whether work can fail to be queued and peers can time out; a bound on the requests
\* and broadcasts of good clients
SetupType == [chain : [Node -> Nat], foreign : SUBSET Node, failures : BOOLEAN, sends : Nat]

ASSUME ConstantsAssumption ==
    /\ \E a, b \in Node : a # b /\ Node = {a, b}
    /\ Setups \subseteq SetupType /\ Synced \subseteq Node
    /\ MaxConnections \in Nat

VARIABLES
    setup,        \* how the two nodes are configured; never changes
    client,       \* per node: its P2PClient for the other node
    chan,         \* per node: the bytes on their way to it
    jobs,         \* send_handshake_solution work on the thread pools
    banned,       \* per node: why it banned the other node, or "no"
    synced,       \* nodes that have blocks to offer
    connections,  \* number of the current connection
    sends         \* requests and broadcasts sent so far

vars == <<setup, client, chan, jobs, banned, synced, connections, sends>>

Chain == setup.chain
Foreign == setup.foreign
Failures == setup.failures
MaxSends == setup.sends

Other(n) == CHOOSE m \in Node : m # n

\* P2PClient::reset and Client::reset
Fresh(c) ==
    [state |-> "free", incoming |-> FALSE, counter |-> c.counter + 1, challenge |-> 0,
     expected |-> "CHALLENGE", sent |-> FALSE, complete |-> FALSE, invalid |-> FALSE,
     listenPort |-> FALSE, blocks |-> 0, tipRequest |-> FALSE, peers |-> 0]

Opened(c, incoming, challenge) ==
    [Fresh(c) EXCEPT !.state = "open", !.incoming = incoming, !.challenge = challenge]

Good(n) == /\ client[n].state = "open"
           /\ client[n].complete /\ ~client[n].invalid /\ client[n].listenPort

Msg(type) == [type |-> type]
Challenge(c) == [type |-> "CHALLENGE", challenge |-> c]
Request(what) == [type |-> "BLOCK_REQUEST", what |-> what]
Response(what) == [type |-> "BLOCK_RESPONSE", what |-> what]

\* Both sides hear of the other's messages only while they are open
Post(n, msgs) ==
    IF client[Other(n)].state = "open" THEN chan[Other(n)] \o msgs ELSE chan[Other(n)]

\* Client n changes to c and sends msgs, after taking taken messages from its channel
Update(n, c, taken, msgs) ==
    /\ client' = [client EXCEPT ![n] = c]
    /\ chan' = [chan EXCEPT ![n] = SubSeq(@, taken + 1, Len(@)), ![Other(n)] = Post(n, msgs)]

\* Client::close: the other node reads a prefix of what was sent, then the end
Close(n, c, msgs) ==
    /\ client' = [client EXCEPT ![n] = [c EXCEPT !.state = "closing"]]
    /\ \E k \in 0 .. Len(Post(n, msgs)) :
         chan' = [chan EXCEPT ![n] = <<>>,
                    ![Other(n)] = IF client[Other(n)].state = "open"
                                  THEN SubSeq(Post(n, msgs), 1, k) \o <<Msg("EOF")>>
                                  ELSE @]

Ban(n, reason) == banned' = [banned EXCEPT ![n] = reason]

-----------------------------------------------------------------------------
(* Connecting.  Each side sends its challenge at once; a node that has     *)
(* banned the other one closes an incoming connection instead.             *)

Connect(n) ==
    LET m == Other(n)
        k == connections + 1
        out == Opened(client[n], FALSE, k)
        in == Opened(client[m], TRUE, k)
        refused == banned[m] # "no"
    IN
    /\ connections < MaxConnections
    /\ \A x \in Node : client[x].state = "free"
    /\ banned[n] = "no"
    /\ connections' = k
    /\ client' = [x \in Node |->
         IF x = n THEN out ELSE IF refused THEN [in EXCEPT !.state = "closing"] ELSE in]
    /\ chan' = [x \in Node |->
         IF x = n THEN <<IF refused THEN Msg("EOF") ELSE Challenge(<<m, k>>)>>
         ELSE IF refused THEN <<>> ELSE <<Challenge(<<n, k>>)>>]
    /\ UNCHANGED <<setup, jobs, banned, synced, sends>>

\* on_connection_close: the slot goes back to m_preallocatedClients
Reset(n) ==
    /\ client[n].state = "closing"
    /\ client' = [client EXCEPT ![n] = Fresh(@)]
    /\ UNCHANGED <<setup, chan, jobs, banned, synced, connections, sends>>

\* The ban time passes
BanExpires(n) ==
    /\ Failures /\ banned[n] # "no" /\ client[n].state = "free"
    /\ Ban(n, "no")
    /\ UNCHANGED <<setup, client, chan, jobs, synced, connections, sends>>

-----------------------------------------------------------------------------
(* Reading: on_read, one message at a time                                 *)

Head1(n) == Head(chan[n])

Reads(n, type) ==
    /\ client[n].state = "open" /\ chan[n] # <<>> /\ Head1(n).type = type

\* Which messages a client lets through
Allowed(c, type) ==
    IF ~c.complete THEN type = c.expected
    ELSE /\ type \notin {"CHALLENGE", "SOLUTION"}
         /\ type = "LISTEN_PORT" => ~c.listenPort
         /\ type = "BLOCK_RESPONSE" => c.blocks > 0
         /\ type = "PEER_LIST_RESPONSE" => c.peers > 0

Accepts(n, type) == Reads(n, type) /\ Allowed(client[n], type)

\* "didn't send handshake messages first", "sent an unexpected ..."
Unexpected(n) ==
    /\ client[n].state = "open" /\ chan[n] # <<>>
    /\ Head1(n).type # "EOF" /\ ~Allowed(client[n], Head1(n).type)
    /\ Ban(n, "unexpected") /\ Close(n, client[n], <<>>)
    /\ UNCHANGED <<setup, jobs, synced, connections, sends>>

\* on_disconnected, on_read_failed
OnDisconnected(n) ==
    /\ Reads(n, "EOF")
    /\ Ban(n, IF client[n].complete THEN banned[n] ELSE "early")
    /\ Close(n, client[n], <<>>)
    /\ UNCHANGED <<setup, jobs, synced, connections, sends>>

\* on_handshake_challenge, send_handshake_solution; queueing the work may fail
OnHandshakeChallenge(n) ==
    /\ Accepts(n, "CHALLENGE")
    /\ Update(n, [client[n] EXCEPT !.expected = "SOLUTION"], 1, <<>>)
    /\ \/ jobs' = jobs \cup {[node |-> n, counter |-> client[n].counter,
                              challenge |-> Head1(n).challenge, done |-> FALSE, pow |-> FALSE]}
       \/ Failures /\ UNCHANGED jobs
    /\ UNCHANGED <<setup, banned, synced, connections, sends>>

\* on_after_handshake
AfterHandshake == <<Msg("LISTEN_PORT"), Request("tip")>>
Asked(c) == [c EXCEPT !.blocks = @ + 1, !.tipRequest = TRUE]

\* Mutant of SolutionIsValid: the consensus ID is not checked
SolutionHasWork(n, m) ==
    m.challenge = <<n, client[n].challenge>> /\ (client[n].incoming => m.pow)

SolutionIsValid(n, m) ==
    /\ m.challenge = <<n, client[n].challenge>> /\ m.chain = Chain[n]
    /\ client[n].incoming => m.pow

\* Mutants of AfterSolution: sends before its own solution is out; never sends
AfterSolutionAtOnce(n, c) == Update(n, Asked(c), 1, AfterHandshake)
AfterSolutionSilent(n, c) == Update(n, c, 1, <<>>)

\* The side that has sent its own solution goes on with the first requests
AfterSolution(n, c) ==
    IF c.sent THEN Update(n, Asked(c), 1, AfterHandshake) ELSE Update(n, c, 1, <<>>)

\* on_handshake_solution
OnHandshakeSolution(n) ==
    /\ Accepts(n, "SOLUTION")
    /\ LET ok == SolutionIsValid(n, Head1(n))
           c == [client[n] EXCEPT !.complete = TRUE, !.invalid = ~ok]
       IN IF c.sent /\ ~ok
          THEN Ban(n, "invalid") /\ Close(n, c, <<>>)
          ELSE /\ IF ok THEN AfterSolution(n, c) ELSE Update(n, c, 1, <<>>)
               /\ UNCHANGED banned
    /\ UNCHANGED <<setup, jobs, synced, connections, sends>>

OnListenPort(n) ==
    /\ Accepts(n, "LISTEN_PORT")
    /\ Update(n, [client[n] EXCEPT !.listenPort = TRUE], 1, <<>>)
    /\ UNCHANGED <<setup, jobs, banned, synced, connections, sends>>

\* on_block_request, get_block_blob: an empty answer if there is no such block
OnBlockRequest(n) ==
    /\ Accepts(n, "BLOCK_REQUEST")
    /\ Update(n, client[n], 1, <<Response(IF n \in synced THEN Head1(n).what ELSE "nothing")>>)
    /\ UNCHANGED <<setup, jobs, banned, synced, connections, sends>>

\* on_block_response.  "old" is a block below the stale limit for a chain tip.
OnBlockResponse(n) ==
    /\ Accepts(n, "BLOCK_RESPONSE")
    /\ LET c == [client[n] EXCEPT !.blocks = @ - 1]
           what == Head1(n).what
       IN IF what # "nothing" /\ c.tipRequest
          THEN LET d == [c EXCEPT !.tipRequest = FALSE] IN
               IF what = "old"
               THEN Ban(n, "stale") /\ Close(n, d, <<>>)
               ELSE /\ Update(n, [d EXCEPT !.peers = @ + 1], 1, <<Msg("PEER_LIST_REQUEST")>>)
                    /\ UNCHANGED banned
          ELSE Update(n, c, 1, <<>>) /\ UNCHANGED banned
    /\ UNCHANGED <<setup, jobs, synced, connections, sends>>

OnPeerListRequest(n) ==
    /\ Accepts(n, "PEER_LIST_REQUEST")
    /\ Update(n, client[n], 1, <<Msg("PEER_LIST_RESPONSE")>>)
    /\ UNCHANGED <<setup, jobs, banned, synced, connections, sends>>

OnPeerListResponse(n) ==
    /\ Accepts(n, "PEER_LIST_RESPONSE")
    /\ Update(n, [client[n] EXCEPT !.peers = @ - 1], 1, <<>>)
    /\ UNCHANGED <<setup, jobs, banned, synced, connections, sends>>

\* The block itself is SideChain's business
OnBlockBroadcast(n) ==
    /\ Accepts(n, "BLOCK_BROADCAST")
    /\ Update(n, client[n], 1, <<>>)
    /\ UNCHANGED <<setup, jobs, banned, synced, connections, sends>>

ReadMessage(n) ==
    \/ Unexpected(n) \/ OnDisconnected(n)
    \/ OnHandshakeChallenge(n) \/ OnHandshakeSolution(n) \/ OnListenPort(n)
    \/ OnBlockRequest(n) \/ OnBlockResponse(n)
    \/ OnPeerListRequest(n) \/ OnPeerListResponse(n) \/ OnBlockBroadcast(n)

-----------------------------------------------------------------------------
(* Solving the challenge on the thread pool                                *)

\* The worker reads the client's counter and direction while it may be reset
SolveChallenge(j) ==
    /\ j \in jobs /\ ~j.done
    /\ LET c == client[j.node]
           found == c.counter = j.counter /\ ~c.incoming
       IN jobs' = (jobs \ {j}) \cup {[j EXCEPT !.done = TRUE, !.pow = found]}
    /\ UNCHANGED <<setup, client, chan, banned, synced, connections, sends>>

Solution(j) ==
    [type |-> "SOLUTION", challenge |-> j.challenge, chain |-> Chain[j.node], pow |-> j.pow]

\* Mutant of StillConnected: the reset counter is not compared
ConnectedAgain(j) == client[j.node].state # "free"

StillConnected(j) == client[j.node].counter = j.counter

\* Mutant of BadPeer: the peer is not banned once our solution is out
BadPeerForgotten(c) == FALSE

BadPeer(c) == c.complete /\ c.invalid

GoesOn(c) == c.complete /\ ~c.invalid

\* The callback on the loop thread.  A closing client writes nothing, but send
\* reports success.
SolutionDone(j) ==
    LET n == j.node
        c == [client[n] EXCEPT !.sent = TRUE]
        msgs == <<Solution(j)>> \o IF GoesOn(c) THEN AfterHandshake ELSE <<>>
    IN
    /\ j \in jobs /\ j.done
    /\ jobs' = jobs \ {j}
    /\ IF ~StillConnected(j) THEN UNCHANGED <<client, chan, banned>>
       ELSE IF c.state = "closing"
       THEN /\ client' = [client EXCEPT ![n] = c]
            /\ Ban(n, IF BadPeer(c) THEN "invalid" ELSE banned[n])
            /\ UNCHANGED chan
       ELSE IF BadPeer(c)
       THEN Ban(n, "invalid") /\ Close(n, c, msgs)
       ELSE /\ Update(n, IF GoesOn(c) THEN Asked(c) ELSE c, 0, msgs)
            /\ UNCHANGED banned
    /\ UNCHANGED <<setup, synced, connections, sends>>

-----------------------------------------------------------------------------
(* Timers and the rest of the node                                         *)

\* What a node sends to a good client on its own
Sends(n, c, message) ==
    /\ Good(n) /\ sends < MaxSends
    /\ sends' = sends + 1
    /\ Update(n, c, 0, <<message>>)
    /\ UNCHANGED <<setup, jobs, banned, synced, connections>>

DownloadMissingBlock(n) == Sends(n, [client[n] EXCEPT !.blocks = @ + 1], Request("old"))
UpdatePeerList(n) == Sends(n, [client[n] EXCEPT !.peers = @ + 1], Msg("PEER_LIST_REQUEST"))
OnBroadcast(n) == Sends(n, client[n], Msg("BLOCK_BROADCAST"))

\* update_peer_connections: "has been idle", also after a write error
IdleTimeout(n) ==
    /\ Failures /\ client[n].state = "open"
    /\ Close(n, client[n], <<>>)
    /\ UNCHANGED <<setup, jobs, banned, synced, connections, sends>>

\* Another program than this one is at the other end
ForeignSends(n) ==
    /\ n \in Foreign /\ client[n].state = "open" /\ sends < MaxSends
    /\ sends' = sends + 1
    /\ \E m \in {Msg("LISTEN_PORT"), Request("tip"), Request("old"), Response("old"),
                 Msg("PEER_LIST_REQUEST"), Msg("PEER_LIST_RESPONSE"), Msg("BLOCK_BROADCAST")} :
         Update(n, client[n], 0, <<m>>)
    /\ UNCHANGED <<setup, jobs, banned, synced, connections>>

\* The node gets blocks, from other peers or from its miners
GetBlocks(n) ==
    /\ n \notin synced /\ synced' = synced \cup {n}
    /\ UNCHANGED <<setup, client, chan, jobs, banned, connections, sends>>

-----------------------------------------------------------------------------
Init ==
    /\ setup \in Setups
    /\ client = [n \in Node |-> Fresh([counter |-> -1, blocks |-> 0])]
    /\ chan = [n \in Node |-> <<>>]
    /\ jobs = {}
    /\ banned = [n \in Node |-> "no"]
    /\ synced = Synced
    /\ connections = 0 /\ sends = 0

LoopThread(n) ==
    \/ Connect(n) \/ Reset(n) \/ ReadMessage(n)
    \/ \E j \in jobs : j.node = n /\ SolutionDone(j)

Next ==
    \/ \E n \in Node :
         \/ LoopThread(n) \/ DownloadMissingBlock(n) \/ UpdatePeerList(n) \/ OnBroadcast(n)
         \/ ForeignSends(n) \/ IdleTimeout(n) \/ BanExpires(n) \/ GetBlocks(n)
    \/ \E j \in jobs : SolveChallenge(j)

\* Loops and pool threads keep running; timeouts and sends are not promised
Fairness ==
    /\ \A n \in Node : WF_vars(LoopThread(n))
    /\ WF_vars(\E j \in jobs : SolveChallenge(j))

Spec == Init /\ [][Next]_vars /\ Fairness

-----------------------------------------------------------------------------
Messages ==
    [type : {"EOF", "LISTEN_PORT", "PEER_LIST_REQUEST", "PEER_LIST_RESPONSE", "BLOCK_BROADCAST"}]
    \cup [type : {"CHALLENGE"}, challenge : Node \X (1 .. MaxConnections)]
    \cup [type : {"SOLUTION"}, challenge : Node \X (1 .. MaxConnections),
          chain : Nat, pow : BOOLEAN]
    \cup [type : {"BLOCK_REQUEST"}, what : {"tip", "old"}]
    \cup [type : {"BLOCK_RESPONSE"}, what : {"tip", "old", "nothing"}]

\* A P2PClient, and a challenge on the thread pool
Client ==
    [state : {"free", "open", "closing"}, incoming : BOOLEAN, counter : Nat,
     challenge : 0 .. MaxConnections, expected : {"CHALLENGE", "SOLUTION"},
     sent : BOOLEAN, complete : BOOLEAN, invalid : BOOLEAN, listenPort : BOOLEAN,
     blocks : Nat, tipRequest : BOOLEAN, peers : Nat]
Job ==
    [node : Node, counter : Nat, challenge : Node \X (1 .. MaxConnections),
     done : BOOLEAN, pow : BOOLEAN]

\* What the clients, the bytes on the way and the work on the pools hold; the number of
\* requests a client has open never falls below zero
TypeOK ==
    /\ setup \in SetupType
    /\ client \in [Node -> Client] /\ chan \in [Node -> Seq(Messages)] /\ jobs \subseteq Job
    /\ banned \in [Node -> {"no", "unexpected", "early", "invalid", "stale"}]
    /\ synced \subseteq Node
    /\ connections \in 0 .. MaxConnections /\ sends \in Nat

SameChain == \A m, n \in Node : Chain[m] = Chain[n]

\* Two nodes of the same side chain never ban each other for a handshake that
\* fails or for a message that comes at the wrong time, however long the
\* solutions take and whatever is left over from the previous connection.
NoWrongBans ==
    SameChain /\ Foreign = {} => \A n \in Node : banned[n] \notin {"unexpected", "invalid"}

\* A client is good only if the other side has finished the handshake too.
GoodIsMutual ==
    \A n \in Node : Foreign = {} /\ Good(n) /\ client[Other(n)].state = "open" =>
      LET c == client[Other(n)] IN c.complete /\ ~c.invalid /\ c.sent

\* Whichever solution comes first, honest nodes agree on whether the handshake is done,
\* so the requests and broadcasts that good clients get are never met with a ban.
HonestPeersGetAlong == NoWrongBans /\ GoodIsMutual

\* A solution answers the challenge of the connection it is sent on, with enough
\* PoW from the side that connected: work that was started for an earlier use of
\* the slot is dropped.
SolutionsAreCurrent ==
    \A n \in Node : client[n].state = "open" =>
      \A k \in 1 .. Len(chan[n]) : chan[n][k].type = "SOLUTION" =>
        /\ chan[n][k].challenge = <<n, client[n].challenge>>
        /\ client[n].incoming => chan[n][k].pow

HandshakeTypes == {"CHALLENGE", "SOLUTION", "EOF"}
Answers == {"BLOCK_RESPONSE", "PEER_LIST_RESPONSE"}

\* A node sends nothing but handshake messages to a node of another side chain: never its
\* port, a request or a broadcast, and no answers, except to one that asks although the
\* protocol has no requests yet, between its invalid solution and our own solution, while
\* the connection is not closed yet.
StrangersExchangeNothing ==
    ~SameChain => \A n \in Node \ Foreign : \A k \in 1 .. Len(chan[Other(n)]) :
      LET type == chan[Other(n)][k].type
          c == client[n]
      IN  \/ type \in HandshakeTypes
          \/ /\ Foreign # {} /\ type \in Answers
             /\ c.state = "open" => c.complete /\ c.invalid /\ ~c.sent

\* Whatever a node is sent and in whatever order, it gives away no blocks, peers
\* or ports before the other side has answered its challenge.
NothingBeforeTheHandshake ==
    \A n \in Node \ Foreign : client[n].state = "open" /\ ~client[n].complete =>
      \A k \in 1 .. Len(chan[Other(n)]) : chan[Other(n)][k].type \in {"CHALLENGE", "SOLUTION"}

\* In whatever order messages and solutions come, a node of another side chain, or one
\* that has not answered the challenge yet, gets nothing but handshake messages, except
\* that the former gets answers until our own solution is out.
StrangersAreKeptOut == StrangersExchangeNothing /\ NothingBeforeTheHandshake

\* "If H doesn't match or doesn't have enough PoW, connection is closed immediately": a
\* node whose peer has sent an invalid solution answers none of its requests.
NoAnswersAfterInvalidSolution ==
    \A n \in Node \ Foreign :
      client[n].state = "open" /\ client[n].complete /\ client[n].invalid =>
        \A k \in 1 .. Len(chan[Other(n)]) : chan[Other(n)][k].type \notin Answers

\* "peer ... is mining on top of a stale block" is said of a chain tip only: a node
\* that answers with the old block it was asked for is not banned for it.
OldBlocksAreNoTips == \A n \in Node : banned[n] # "stale"

\* Without failures, the handshake of two nodes of one side chain ends, with both
\* of them ready to exchange blocks.
HandshakeSucceeds == SameChain /\ Foreign = {} /\ ~Failures => <>(\A n \in Node : Good(n))

\* Nodes of different side chains that run this program ban each other, both of them, on their first
\* connection, so that neither tries again before the ban expires.
StrangersPart ==
    ~SameChain /\ Foreign = {} =>
      <>[](connections = 1 /\ \A n \in Node : client[n].state = "free" /\ banned[n] # "no")

=============================================================================
