------------------------------ MODULE BlockSync ------------------------------
(***************************************************************************)
(* How a node gets and passes on blocks: P2PServer's requests, responses,  *)
(* broadcasts (full and pruned), the timer that looks for missing blocks,  *)
(* and the BlockCache that survives a crash.  One node is modelled with    *)
(* its loop thread and its pool; its peers run the same program, and of    *)
(* them only what this node can see: a peer handles a message in one step. *)
(*                                                                         *)
(* Connections are past the handshake (module P2PConnection).  The chain   *)
(* is shorter than the PPLNS window and the mainchain does not move, so no *)
(* block is too old, stale or pruned from memory (module SideChain).       *)
(***************************************************************************)
EXTENDS Integers, Sequences, FiniteSets, SequencesExt

CONSTANTS
    Peer,
    Block,        \* positive numbers; 0 is the empty hash and an empty cache entry
    Anc,          \* the parent and the uncles of each block
    RingSize,     \* array_size(m_broadcastedHashes)
    CacheSize,    \* NUM_BLOCKS
    Setups        \* how a behaviour starts and what may happen in it, see SetupType

\* Who takes part, the blocks the node, its peers and the cache file start with, and the
\* blocks still to be mined; bounds on broken connections, failed hashes and missing seeds
\* (faults), and on crashes
SetupType ==
    [peers : SUBSET Peer, blocks : SUBSET Block, has : [Peer -> SUBSET Block],
     disk : [0 .. CacheSize - 1 -> Block \cup {0}], new : SUBSET Block,
     faults : Nat, crashes : Nat]

ASSUME SyncAssumption ==
    /\ IsFiniteSet(Block) /\ Block \subseteq Nat \ {0} /\ Anc \in [Block -> SUBSET Block]
    /\ \A b \in Block : \A a \in Anc[b] : a < b
    /\ {RingSize, CacheSize} \subseteq Nat \ {0}
    /\ Setups \subseteq SetupType

VARIABLES
    setup,        \* never changes
    blocks,       \* m_blocksById
    seen,         \* m_seenBlocks
    want,         \* blocks with m_wantBroadcast
    work,         \* handle_incoming_block_async: blocks on the pool
    look,         \* m_lookForMissingBlocks
    last,         \* m_blockDeserializeBuf and m_blockDeserializeResult
    asked,        \* m_missingBlockRequests
    queue,        \* m_broadcastQueue
    disk,         \* the mapped file of the BlockCache
    storeIndex,   \* m_storeIndex
    cached,       \* m_cachedBlocks
    link,         \* per peer: its P2PClient and the bytes on the way in both directions
    peer,         \* per peer: its blocks, and its P2PClient for this node
    unmined,      \* blocks nobody has mined yet
    bans,         \* the bans so far, <<who, whom, why>>: for a "message", or a "seed" who lacks
    left          \* faults and crashes that may still happen, and whether a fault has

nodeVars == <<blocks, seen, want, work, look, last, asked, queue>>
cacheVars == <<disk, storeIndex, cached>>
vars == <<setup, nodeVars, cacheVars, link, peer, unmined, bans, left>>

\* All blocks a block builds on
Below[b \in Block] == Anc[b] \cup UNION {Below[a] : a \in Anc[b]}

Verified(has) == {b \in has : Below[b] \subseteq has}

\* m_chainTip is one of the heaviest verified blocks; 0 if there is none
Tips(has) ==
    LET v == Verified(has)
        weight(b) == Cardinality(Below[b])
    IN IF v = {} THEN {0} ELSE {b \in v : \A c \in v : weight(c) <= weight(b)}

\* The blocks ids, the lowest first
Ascending(ids) ==
    CHOOSE s \in [1 .. Cardinality(ids) -> ids] : \A i, j \in DOMAIN s : i < j => s[i] < s[j]

Request(id) == [type |-> "BLOCK_REQUEST", id |-> id]
Response(id) == [type |-> "BLOCK_RESPONSE", id |-> id, pruned |-> FALSE]
Broadcast(id, pruned) == [type |-> "BLOCK_BROADCAST", id |-> id, pruned |-> pruned]
Requests(ids) == [i \in 1 .. Cardinality(ids) |-> Request(Ascending(ids)[i])]

NoLink(resets) ==
    [up |-> FALSE, resets |-> resets, ring |-> <<>>, pending |-> 0, out |-> <<>>, in |-> <<>>]

\* BlockCache::load_all skips the entries it can not read
Loaded(d) == {d[i] : i \in DOMAIN d} \ {0}

Node == "node"
Up == {p \in Peer : link[p].up}

Init ==
    \E s \in Setups :
    /\ setup = s
    /\ blocks = s.blocks /\ seen = s.blocks /\ want = {} /\ work = {} /\ look = TRUE
    /\ last = [id |-> 0, pruned |-> FALSE, ok |-> FALSE] /\ asked = {} /\ queue = <<>>
    /\ disk = s.disk /\ storeIndex = 0
    /\ cached = Loaded(s.disk)
    /\ link = [p \in Peer |-> NoLink(0)]
    /\ peer = [p \in Peer |-> [has |-> s.has[p], want |-> {}, ring |-> <<>>, pending |-> 0]]
    /\ unmined = s.new /\ bans = {}
    /\ left = [faults |-> s.faults, crashes |-> s.crashes, broken |-> FALSE]

-----------------------------------------------------------------------------
(* Connections                                                              *)

\* on_after_handshake on both sides: each asks for the other's chain tip.  A ban ends after ten
\* minutes, or with the process.
Connect(p) ==
    /\ p \in setup.peers /\ ~link[p].up
    /\ link' = [link EXCEPT ![p] = [NoLink(@.resets) EXCEPT
                   !.up = TRUE, !.pending = 1, !.out = <<Request(0)>>, !.in = <<Request(0)>>]]
    /\ peer' = [peer EXCEPT ![p].pending = 1]
    /\ UNCHANGED <<setup, nodeVars, cacheVars, unmined, bans, left>>

\* P2PClient::reset
Closed(l) == NoLink(l.resets + 1)

PeerClosed(q) == [q EXCEPT !.ring = <<>>, !.pending = 0]

\* The connection with p is closed
Close(p) ==
    /\ link' = [link EXCEPT ![p] = Closed(@)]
    /\ peer' = [peer EXCEPT ![p] = PeerClosed(@)]

\* Something goes wrong that the environment may do to the node or to a peer
Fault == left.faults > 0 /\ left' = [left EXCEPT !.faults = @ - 1, !.broken = TRUE]

Drop(p) ==
    /\ link[p].up /\ Close(p) /\ Fault
    /\ UNCHANGED <<setup, nodeVars, cacheVars, unmined, bans>>

\* on_read returns false: the peer is banned and the connection closed
Ban(who, whom, p) == bans' = bans \cup {<<who, whom, "message">>} /\ Close(p)

-----------------------------------------------------------------------------
(* What a node does with a message, whoever it is                           *)

\* get_block_blob: the chain tip for the empty hash, or the block if it is there
Answers(id, has) ==
    IF id = 0 THEN Tips(has) ELSE IF id \in has THEN {id} ELSE {0}

\* A pruned block has no outputs: they are computed from the blocks below it
Readable(msg, has) == msg.pruned => Below[msg.id] \subseteq has

\* m_broadcastedHashes after a broadcast: the last RingSize of them
Recorded(ring, id) ==
    LET all == Append(ring, id) IN
    IF Len(all) > RingSize THEN Tail(all) ELSE all

\* Mutant of SendPruned: the uncles are not looked at
SendPrunedParent(id, ring) == \E a \in Anc[id] : a \in ToSet(ring)

\* on_broadcast: a pruned block for a peer that has broadcast all its ancestors to us
SendPruned(id, ring) == Anc[id] \subseteq ToSet(ring)

Broadcasts(ids, ring) ==
    [i \in 1 .. Len(ids) |-> Broadcast(ids[i], SendPruned(ids[i], ring))]

-----------------------------------------------------------------------------
(* The peers                                                                *)

\* Peer p, now q, stores id, which it got in a broadcast (relay) or in a response, sends what
\* became verified to this node and asks it for what is missing; rest is what it has to read
PeerAdds(p, q, id, relay, rest) ==
    LET has == q.has \cup {id}
        wants == IF relay THEN q.want \cup {id} ELSE q.want
        fresh == Verified(has) \ Verified(q.has)
        missing == IF id \in q.has THEN {} ELSE Anc[id] \ has
    IN
    /\ peer' = [peer EXCEPT ![p] = [q EXCEPT !.has = has, !.want = wants \ fresh,
                                             !.pending = @ + Cardinality(missing)]]
    /\ link' = [link EXCEPT
           ![p].out = rest,
           ![p].in = IF ~link[p].up THEN @
                     ELSE @ \o Broadcasts(Ascending(fresh \cap wants), q.ring)
                            \o Requests(missing)]

\* A new block of the peer's own, or one it got from another peer
PeerGets(p, id) ==
    /\ p \in setup.peers /\ id \notin peer[p].has /\ Below[id] \subseteq peer[p].has
    /\ id \in unmined \/ (id \in setup.new /\ \E q \in setup.peers : id \in peer[q].has)
    /\ unmined' = unmined \ {id}
    /\ PeerAdds(p, peer[p], id, TRUE, link[p].out)
    /\ UNCHANGED <<setup, nodeVars, cacheVars, bans, left>>

PeerReads(p) ==
    LET msg == Head(link[p].out)
        q == peer[p]
    IN
    /\ link[p].out # <<>>
    /\ \/ /\ msg.type = "BLOCK_REQUEST"
          /\ \E id \in Answers(msg.id, q.has) :
                link' = [link EXCEPT ![p].out = Tail(@), ![p].in = Append(@, Response(id))]
          /\ UNCHANGED <<peer, bans>>
       \/ /\ msg.type = "BLOCK_RESPONSE"
          /\ IF q.pending = 0 THEN Ban(p, Node, p) ELSE
             /\ IF msg.id # 0
                THEN PeerAdds(p, [q EXCEPT !.pending = @ - 1], msg.id, FALSE, Tail(link[p].out))
                ELSE /\ peer' = [peer EXCEPT ![p].pending = @ - 1]
                     /\ link' = [link EXCEPT ![p].out = Tail(@)]
             /\ UNCHANGED bans
       \/ /\ msg.type = "BLOCK_BROADCAST"
          /\ IF ~Readable(msg, q.has) THEN Ban(p, Node, p) ELSE
             /\ PeerAdds(p, [q EXCEPT !.ring = Recorded(@, msg.id)], msg.id, TRUE,
                         Tail(link[p].out))
             /\ UNCHANGED bans
    /\ UNCHANGED <<setup, nodeVars, cacheVars, unmined, left>>

\* A block comes in p's turn, and p lacks the seed of its mainchain height: add_external_block
\* returns false, and p bans the sender
PeerLacksSeed(p) ==
    LET msg == Head(link[p].out) IN
    /\ link[p].out # <<>> /\ msg.type \in {"BLOCK_RESPONSE", "BLOCK_BROADCAST"}
    /\ msg.id \notin peer[p].has \cup {0}
    /\ IF msg.type = "BLOCK_RESPONSE" THEN peer[p].pending > 0 ELSE Readable(msg, peer[p].has)
    /\ bans' = bans \cup {<<p, Node, "seed">>} /\ Close(p) /\ Fault
    /\ UNCHANGED <<setup, nodeVars, cacheVars, unmined>>

-----------------------------------------------------------------------------
(* This node: messages                                                      *)

\* handle_incoming_block_async for blocks that are in the hand of the loop thread
Incoming(ids, p, relay) ==
    /\ seen' = seen \cup ids
    /\ work' = work \cup
          {[id |-> b, relay |-> relay, peer |-> p, resets |-> link[p].resets,
            added |-> FALSE, missing |-> {}] : b \in ids \ seen}

\* deserialize_block: the last result serves again for the same bytes
Same(msg) == last.id = msg.id /\ last.pruned = msg.pruned

Deserialized(msg) == IF Same(msg) THEN last.ok ELSE Readable(msg, blocks)

Deserialize(msg) ==
    /\ last' = [id |-> msg.id, pruned |-> msg.pruned, ok |-> Deserialized(msg)]
    /\ look' = (look \/ ~Same(msg))

OnBlockRequest(p) ==
    LET msg == Head(link[p].in) IN
    /\ msg.type = "BLOCK_REQUEST"
    /\ \E id \in Answers(msg.id, blocks) :
          link' = [link EXCEPT ![p].in = Tail(@), ![p].out = Append(@, Response(id))]
    /\ UNCHANGED <<setup, nodeVars, cacheVars, peer, unmined, bans, left>>

OnBlockResponse(p) ==
    LET msg == Head(link[p].in) IN
    /\ msg.type = "BLOCK_RESPONSE"
    /\ IF link[p].pending = 0 THEN Ban(Node, p, p) /\ UNCHANGED <<seen, work, last, look>>
       ELSE /\ link' = [link EXCEPT ![p].in = Tail(@), ![p].pending = @ - 1]
            /\ IF msg.id = 0 THEN UNCHANGED <<seen, work, last, look>>
               ELSE Deserialize(msg) /\ Incoming({msg.id}, p, FALSE)
            /\ UNCHANGED <<peer, bans>>
    /\ UNCHANGED <<setup, blocks, want, asked, queue, cacheVars, unmined, left>>

OnBlockBroadcast(p) ==
    LET msg == Head(link[p].in) IN
    /\ msg.type = "BLOCK_BROADCAST"
    /\ Deserialize(msg)
    /\ IF Deserialized(msg)
       THEN /\ Incoming({msg.id}, p, TRUE)
            /\ link' = [link EXCEPT ![p].in = Tail(@), ![p].ring = Recorded(@, msg.id)]
            /\ UNCHANGED <<peer, bans>>
       ELSE Ban(Node, p, p) /\ UNCHANGED <<seen, work>>
    /\ UNCHANGED <<setup, blocks, want, asked, queue, cacheVars, unmined, left>>

OnRead(p) ==
    /\ link[p].in # <<>>
    /\ OnBlockRequest(p) \/ OnBlockResponse(p) \/ OnBlockBroadcast(p)

-----------------------------------------------------------------------------
(* This node: the pool                                                      *)

\* verify_loop has verified ids, the lowest first: they go to the cache file
Stored(d, ids) ==
    [i \in DOMAIN d |->
        LET at == {k \in 1 .. Len(ids) : (storeIndex + k - 1) % CacheSize = i}
        IN IF at = {} THEN d[i] ELSE ids[CHOOSE k \in at : \A j \in at : j <= k]]

\* add_block, which a block enters once: what it completes is verified, stored, and
\* broadcast if it came in a broadcast
AddBlock(id, relay) ==
    LET wants == IF relay /\ id \notin blocks THEN want \cup {id} ELSE want
        fresh == Verified(blocks \cup {id}) \ Verified(blocks)
    IN
    /\ blocks' = blocks \cup {id}
    /\ want' = wants \ fresh
    /\ queue' = queue \o Ascending(fresh \cap wants)
    /\ disk' = Stored(disk, Ascending(fresh))
    /\ storeIndex' = storeIndex + Cardinality(fresh)

AddExternalBlock(w) ==
    /\ ~w.added
    /\ work' = (work \ {w}) \cup
          {[w EXCEPT !.added = TRUE,
                     !.missing = IF w.id \in blocks THEN {} ELSE Anc[w.id] \ blocks]}
    /\ AddBlock(w.id, w.relay)
    /\ UNCHANGED <<setup, seen, look, last, asked, cached, link, peer, unmined, bans, left>>

\* Mutant of HashFails: the block stays in m_seenBlocks
HashFailsSeen(w) ==
    /\ ~w.added /\ Fault
    /\ work' = (work \ {w}) \cup {[w EXCEPT !.added = TRUE]}
    /\ UNCHANGED <<setup, blocks, seen, want, look, last, asked, queue, cacheVars, link, peer,
                   unmined, bans>>

\* The PoW hash could not be calculated: the block is forgotten
HashFails(w) ==
    /\ ~w.added /\ Fault
    /\ work' = (work \ {w}) \cup {[w EXCEPT !.added = TRUE]}
    /\ seen' = seen \ {w.id}
    /\ UNCHANGED <<setup, blocks, want, look, last, asked, queue, cacheVars, link, peer, unmined,
                   bans>>

\* The seed of the block's mainchain height is not known: the block is forgotten, and the peer
\* in whose name it is handled is banned, and disconnected if it is still the same connection
SeedMissing(w) ==
    /\ ~w.added /\ Fault
    /\ work' = (work \ {w}) \cup {[w EXCEPT !.added = TRUE]}
    /\ seen' = seen \ {w.id}
    /\ bans' = bans \cup {<<Node, w.peer, "seed">>}
    /\ IF w.resets = link[w.peer].resets THEN Close(w.peer) ELSE UNCHANGED <<link, peer>>
    /\ UNCHANGED <<setup, blocks, want, look, last, asked, queue, cacheVars, unmined>>

\* The blocks ids[p] are requested from p
Ask(ids) ==
    link' = [p \in Peer |-> [link[p] EXCEPT !.out = @ \o Requests(ids[p]),
                                            !.pending = @ + Cardinality(ids[p])]]

\* post_handle_incoming_block: the peer that sent the block, and the fastest peer during
\* the initial sync, are asked for its ancestors
PostHandleIncomingBlock(w) ==
    /\ w.added
    /\ \/ /\ w.missing = {} \/ w.resets # link[w.peer].resets
          /\ work' = work \ {w}
          /\ UNCHANGED <<seen, link>>
       \/ /\ w.missing # {} /\ w.resets = link[w.peer].resets
          /\ \E fastest \in Up :
                /\ Ask([p \in Peer |-> IF p \in {fastest, w.peer} THEN w.missing \ cached ELSE {}])
                /\ LET ids == w.missing \cap cached IN
                   /\ seen' = seen \cup ids
                   /\ work' = (work \ {w}) \cup
                        {[id |-> b, relay |-> FALSE, peer |-> fastest,
                          resets |-> link[fastest].resets, added |-> FALSE,
                          missing |-> {}] : b \in ids \ seen}
    /\ UNCHANGED <<setup, blocks, want, look, last, asked, queue, cacheVars, peer, unmined, bans,
                   left>>

-----------------------------------------------------------------------------
(* This node: the timer, broadcasts, own blocks, crashes                    *)

MissingBlocks == UNION {Anc[b] : b \in blocks \ Verified(blocks)} \ blocks

\* Mutant of AskedBefore: the block was asked for, whoever was asked
AskedBeforeAnyone(p, b) == \E q \in Peer : <<q, b>> \in asked

AskedBefore(p, b) == <<p, b>> \in asked

\* download_missing_blocks: a random peer for each missing block, unless it was asked
\* for that block before
DownloadMissingBlocks(client) ==
    LET ids(p) == {b \in MissingBlocks : client[b] = p /\ ~AskedBefore(p, b)}
    IN
    /\ look /\ MissingBlocks # {}
    /\ asked' = asked \cup {<<client[b], b>> : b \in MissingBlocks}
    /\ Ask([p \in Peer |-> ids(p) \ cached])
    /\ LET here == {x \in (Peer \X cached) : x[2] \in ids(x[1])} IN
       /\ seen' = seen \cup {x[2] : x \in here}
       /\ work' = work \cup
            {[id |-> x[2], relay |-> FALSE, peer |-> x[1], resets |-> link[x[1]].resets,
              added |-> FALSE, missing |-> {}] : x \in {y \in here : y[2] \notin seen}}
    /\ UNCHANGED <<setup, blocks, want, look, last, queue, cacheVars, peer, unmined, bans, left>>

NothingMissing ==
    /\ look /\ MissingBlocks = {}
    /\ look' = FALSE /\ asked' = {}
    /\ UNCHANGED <<setup, blocks, seen, want, work, last, queue, cacheVars, link, peer, unmined,
                   bans, left>>

\* on_broadcast: everything in the queue goes to every good peer
OnBroadcast ==
    /\ queue # <<>> /\ queue' = <<>>
    /\ link' = [p \in Peer |-> IF link[p].up
                   THEN [link[p] EXCEPT !.out = @ \o Broadcasts(queue, link[p].ring)]
                   ELSE link[p]]
    /\ UNCHANGED <<setup, blocks, seen, want, work, look, last, asked, cacheVars, peer, unmined,
                   bans, left>>

\* submit_sidechain_block
SubmitOwnBlock(id) ==
    /\ id \in unmined /\ Below[id] \subseteq blocks
    /\ unmined' = unmined \ {id}
    /\ seen' = seen \cup {id}
    /\ AddBlock(id, TRUE)
    /\ UNCHANGED <<setup, work, look, last, asked, cached, link, peer, bans, left>>

\* prune_old_blocks has deleted the first block
ClearCachedBlocks ==
    /\ cached # {} /\ blocks # {} /\ cached' = {}
    /\ UNCHANGED <<setup, nodeVars, disk, storeIndex, link, peer, unmined, bans, left>>

\* The process ends and starts again with what is in the cache file; the entry that was
\* being written may be unreadable.
Crash ==
    /\ left.crashes > 0 /\ left' = [left EXCEPT !.crashes = @ - 1]
    /\ \/ UNCHANGED disk
       \/ storeIndex > 0 /\ disk' = [disk EXCEPT ![(storeIndex - 1) % CacheSize] = 0]
    /\ cached' = Loaded(disk')
    /\ storeIndex' = 0
    /\ blocks' = {} /\ seen' = {} /\ want' = {} /\ work' = {} /\ look' = TRUE
    /\ last' = [id |-> 0, pruned |-> FALSE, ok |-> FALSE] /\ asked' = {} /\ queue' = <<>>
    /\ link' = [p \in Peer |-> NoLink(0)]
    /\ peer' = [p \in Peer |-> PeerClosed(peer[p])]
    /\ UNCHANGED <<setup, unmined, bans>>

Next ==
    \/ \E p \in Peer :
          \/ Connect(p) \/ Drop(p) \/ PeerReads(p) \/ PeerLacksSeed(p) \/ OnRead(p)
          \/ \E id \in Block : PeerGets(p, id)
    \/ \E w \in work :
          AddExternalBlock(w) \/ HashFails(w) \/ SeedMissing(w) \/ PostHandleIncomingBlock(w)
    \/ \E client \in [MissingBlocks -> Up] : DownloadMissingBlocks(client)
    \/ NothingMissing \/ OnBroadcast
    \/ \E id \in Block : SubmitOwnBlock(id)
    \/ ClearCachedBlocks \/ Crash

\* What the loop, the pool and the peers do by themselves, sooner or later: read what
\* they are sent, handle blocks, broadcast, and connect again (update_peer_connections)
Progress ==
    \/ \E p \in Peer : Connect(p) \/ PeerReads(p) \/ OnRead(p)
    \/ \E w \in work : AddExternalBlock(w) \/ PostHandleIncomingBlock(w)
    \/ OnBroadcast

\* The timer's random choice falls on each peer again and again
Fairness ==
    /\ WF_vars(Progress)
    /\ \A p \in Peer : SF_vars(p \in Up /\ DownloadMissingBlocks([b \in MissingBlocks |-> p]))

Spec == Init /\ [][Next]_vars /\ Fairness

-----------------------------------------------------------------------------
\* The messages of the protocol this module sends
Message ==
    [type : {"BLOCK_REQUEST"}, id : Block \cup {0}]
    \cup [type : {"BLOCK_RESPONSE"}, id : Block \cup {0}, pruned : {FALSE}]
    \cup [type : {"BLOCK_BROADCAST"}, id : Block, pruned : BOOLEAN]

\* A block on the pool
Work == [id : Block, relay : BOOLEAN, peer : Peer, resets : Nat, added : BOOLEAN,
         missing : SUBSET Block]

\* A P2PClient of this node, and what a peer has
Link == [up : BOOLEAN, resets : Nat, ring : Seq(Block), pending : Nat,
         out : Seq(Message), in : Seq(Message)]
PeerNode == [has : SUBSET Block, want : SUBSET Block, ring : Seq(Block), pending : Nat]

\* What the node, its clients, the bytes on the way and the cache file hold; every stored
\* block is marked as seen, and an unreadable cache entry is never taken for a block
TypeOK ==
    /\ setup \in SetupType /\ unmined \subseteq Block
    /\ blocks \subseteq seen /\ seen \subseteq Block /\ want \subseteq blocks
    /\ work \subseteq Work /\ \A w \in work : w.missing \subseteq Anc[w.id]
    /\ look \in BOOLEAN /\ last \in [id : Block \cup {0}, pruned : BOOLEAN, ok : BOOLEAN]
    /\ asked \subseteq Peer \X Block /\ queue \in Seq(Block)
    /\ disk \in [0 .. CacheSize - 1 -> Block \cup {0}] /\ storeIndex \in Nat
    /\ cached \subseteq Block
    /\ link \in [Peer -> Link] /\ peer \in [Peer -> PeerNode]
    /\ \A p \in Peer : Len(link[p].ring) <= RingSize /\ Len(peer[p].ring) <= RingSize
    /\ left \in [faults : Nat, crashes : Nat, broken : BOOLEAN]

\* Pruned broadcasts, requests answered late or twice, cached blocks handled in the name
\* of a random peer, connections that break and a node that starts again: a node and its
\* peers, which all keep to the protocol, never ban each other for a message.  A node that
\* lacks the seed of a block bans the peer in whose name it handles the block, who need not
\* even have sent it; this alone leads to a ban, and nothing that follows from it does.
BansAreForMissingSeeds == \A b \in bans : b[3] = "seed"

\* A block is marked as seen before it goes to the pool and forgotten if it could not be
\* checked: what block_seen() skips is stored or on its way to be stored.
SeenMeansHere == \A b \in seen : b \in blocks \/ \E w \in work : w.id = b /\ ~w.added

\* Whatever arrives first and whoever is asked first, if no connection breaks and every
\* block can be checked (its seed is known and its hash calculated), the node ends up with
\* all blocks its peers' tips build on, even if it has to start again in between.
BlocksArrive ==
    <>[](\/ left.broken
         \/ \A p \in setup.peers : \A t \in Tips(peer[p].has) \ {0} : Below[t] \subseteq blocks)

=============================================================================
