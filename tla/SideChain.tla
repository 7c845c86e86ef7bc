----------------------------- MODULE SideChain -----------------------------
(***************************************************************************)
(* SideChain::add_external_block and everything it reaches under           *)
(* m_sidechainLock: add_block, update_depths, verify_loop, verify,         *)
(* update_chain_tip, is_longer_chain and prune_old_blocks, together with   *)
(* the unlocked duplicate filter (block_seen / unsee_block) and the block  *)
(* template that is rebuilt asynchronously from the chain tip.             *)
(*                                                                         *)
(* A block is its id; the fields fixed when it was mined are in Info.  The *)
(* PoolBlock members that change (m_depth, m_verified, ...) are functions  *)
(* of the id: before add_block they describe the copy carried by the       *)
(* worker thread, afterwards the heap object m_blocksById points to.       *)
(*                                                                         *)
(* The holder of the write lock runs in small steps (one per iteration of  *)
(* the update_depths and verify_loop loops), so that the pointers it keeps *)
(* on its stack can be compared with the blocks that are still allocated.  *)
(***************************************************************************)
EXTENDS Integers, FiniteSets, FiniteSetsExt, SequencesExt

CONSTANTS
    Block,        \* ids of the blocks that may ever arrive; ordered like hashes
    Info,         \* mined data of each block, see InfoType
    ByBroadcast,  \* blocks that arrive in a BLOCK_BROADCAST (m_wantBroadcast)
    Own,          \* blocks this node's own miners can find
    Window,       \* m_chainWindowSize, the PPLNS window
    UncleDepth,   \* UNCLE_BLOCK_DEPTH
    PruneSlack,   \* MONERO_BLOCK_TIME / m_targetBlockTime
    DepthModulus, \* 2^64: m_depth is a uint64_t
    MinDifficulty,\* m_minDifficulty
    MainLag,      \* 10: how stale the newest mainchain parent may be
    MainSpan,     \* m_chainWindowSize * 4 * m_targetBlockTime / MONERO_BLOCK_TIME
    StartHeight,  \* mainchain height when the node starts
    MaxHeight,    \* bound: mainchain heights explored
    Workers,      \* bound: blocks processed by the thread pool at a time
    TopHeight,    \* bound: keys of m_blocksByHeight
    Aging,        \* whether prune_delay may pass during a behaviour
    After         \* bound: the blocks that arrive before a block does

NoBlock == 0      \* nullptr, and the empty hash

InfoType ==
    [parent : Block \cup {NoBlock}, uncles : Seq(Block), height : Nat,
     difficulty : Nat, cumulative : Nat,
     next : Nat,          \* what get_difficulty computes on top of this block
     gen : Nat,           \* m_txinGenHeight
     mainKnown : BOOLEAN, \* chainmain_get_by_hash(m_prevId) succeeds
     payout : BOOLEAN,    \* outputs are what get_shares and split_reward give
     pow : BOOLEAN]       \* PoW meets m_difficulty, mainchain height is right

ASSUME ConstantsAssumption ==
    /\ Block \subseteq Nat \ {NoBlock} /\ IsFiniteSet(Block)
    /\ Info \in [Block -> InfoType]
    /\ ByBroadcast \subseteq Block /\ Own \subseteq Block
    /\ Window \in Nat /\ UncleDepth \in Nat \ {0} /\ UncleDepth < Window
    /\ PruneSlack \in Nat \ {0} /\ DepthModulus \in Nat \ {0}
    /\ MinDifficulty \in Nat /\ MainLag \in Nat /\ MainSpan \in Nat
    /\ StartHeight \in Nat /\ MaxHeight \in Nat /\ StartHeight <= MaxHeight
    /\ Workers \in Nat \ {0}
    /\ TopHeight \in Nat /\ Aging \in BOOLEAN
    /\ After \in [Block -> SUBSET Block]
    /\ \A b \in Block : Info[b].height + UncleDepth <= TopHeight

VARIABLES
    blocksById,      \* m_blocksById: the allocated blocks
    blocksByHeight,  \* m_blocksByHeight
    seenBlocks,      \* m_seenBlocks
    chainTip,        \* m_chainTip
    curDifficulty,   \* m_curDifficulty
    depth, verified, invalid, wantBroadcast, broadcasted,  \* PoolBlock members
    broadcasts,      \* number of P2PServer::broadcast calls per stored block
    cached,          \* blocks handed to P2PServer::store_in_cache
    aged,            \* stored blocks older than prune_delay
    mainHeight,      \* miner_data().height
    work,            \* per block: step its worker thread has reached
    pc,              \* step of the thread holding m_sidechainLock for writing
    newBlock,        \* add_block: new_block
    cur,             \* update_depths: block
    toUpdate,        \* update_depths: blocks_to_update
    toVerify,        \* verify_loop: blocks_to_verify
    highest,         \* verify_loop: highest_block
    returnTo,        \* who called verify_loop
    template,        \* parent and uncles of the current block template
    jobs,            \* own blocks that a template given to the miners leads to
    templatePending  \* m_blockTemplateAsync has been sent and not run

blockVars == <<depth, verified, invalid, wantBroadcast, broadcasted, broadcasts>>
storeVars == <<blocksById, blocksByHeight, seenBlocks>>
tipVars == <<chainTip, curDifficulty>>
callVars == <<newBlock, cur, toUpdate, toVerify, highest, returnTo>>
templateVars == <<template, jobs, templatePending>>
vars == <<storeVars, tipVars, blockVars, cached, aged, mainHeight, work, pc,
          callVars, templateVars>>

Parent(b) == Info[b].parent
Height(b) == Info[b].height
Difficulty(b) == Info[b].difficulty
Cumulative(b) == Info[b].cumulative
Uncles(b) == ToSet(Info[b].uncles)
\* Mutant of PruneDistance: no slack beyond the depth verify skips
NoPruneSlack == 2 * Window
PruneDistance == 2 * Window + PruneSlack

-----------------------------------------------------------------------------
(* Walking the chain.  Only stored blocks can be reached.                  *)

GetParent(b) ==
    IF b # NoBlock /\ Parent(b) \in blocksById THEN Parent(b) ELSE NoBlock

\* The k-th ancestor of b, or NoBlock when the walk runs out of stored blocks
Ancestor(b, k) ==
    LET a[i \in 0 .. k] == IF i = 0 THEN b ELSE GetParent(a[i - 1]) IN a[k]

\* First ancestor of b (b included) whose height is at most h
DownTo(b, h) ==
    LET d[x \in Block \cup {NoBlock}] ==
          IF x = NoBlock THEN NoBlock
          ELSE IF Height(x) <= h THEN x ELSE d[GetParent(x)]
    IN d[b]

Steps == 0 .. Cardinality(Block)

\* x and y have equally distant stored ancestors with the same parent
MeetWithin(x, y, S) ==
    \E k \in S : /\ Ancestor(x, k) # NoBlock /\ Ancestor(y, k) # NoBlock
                 /\ Parent(Ancestor(x, k)) = Parent(Ancestor(y, k))

\* The walk shared by get_shares and get_difficulty finds every block and
\* every uncle it needs, down to the genesis block
WindowComplete(b) ==
    \A k \in 0 .. Window - 1 :
        LET a == Ancestor(b, k) IN
        IF a = NoBlock
        THEN \E j \in 0 .. k - 1 : Ancestor(b, j) # NoBlock /\ Height(Ancestor(b, j)) = 0
        ELSE Uncles(a) \subseteq blocksById

TotalDifficulty(b) ==
    SumFunctionOnSet([k \in 0 .. Window - 1 |->
        LET a == Ancestor(b, k) IN IF a = NoBlock THEN 0 ELSE Difficulty(a)],
        0 .. Window - 1)

SameChain(block, candidate) ==
    LET ba == DownTo(block, Height(candidate))
        ca == DownTo(candidate, Height(ba))
    IN ba # NoBlock /\ ca # NoBlock /\ MeetWithin(ba, ca, Steps)

\* The final checks for a candidate on a different chain
OnRecentMainchain(candidate) ==
    LET chain == {Ancestor(candidate, k) : k \in 0 .. Window - 1} \ {NoBlock}
        newest == Max({0} \cup {Info[a].gen - 1 : a \in {x \in chain : Info[x].mainKnown}})
        oldest == Min({Info[a].gen : a \in chain})
    IN newest + MainLag >= mainHeight /\ oldest + MainSpan >= mainHeight

\* Mutant of IsLongerChain: the same chain is compared by height
HigherChain(block, candidate) ==
    IF block = NoBlock THEN TRUE
    ELSE IF SameChain(block, candidate)
         THEN Height(block) < Height(candidate)
         ELSE /\ TotalDifficulty(block) < TotalDifficulty(candidate)
              /\ OnRecentMainchain(candidate)

\* is_longer_chain, for a candidate that is verified and valid
IsLongerChain(block, candidate) ==
    IF block = NoBlock THEN TRUE
    ELSE IF SameChain(block, candidate)
         THEN Cumulative(block) < Cumulative(candidate)
         ELSE /\ TotalDifficulty(block) < TotalDifficulty(candidate)
              /\ OnRecentMainchain(candidate)

-----------------------------------------------------------------------------
(* verify: "unverified" leaves m_verified false, "wrong height" sets only  *)
(* m_invalid, the other verdicts set both members.                         *)

Sorted(s) == \A i \in 2 .. Len(s) : s[i - 1] < s[i]

\* mined_blocks: the last UncleDepth blocks from parent on, with their uncles
Mined(parent) ==
    UNION {{a} \cup Uncles(a) : a \in
             {Ancestor(parent, k) : k \in 0 .. UncleDepth - 1} \ {NoBlock}}

\* The lowest common stretch of chain that a block at height h may share with
\* an uncle: their ancestors meet at most UncleDepth below h
OnSameChain(parent, uncle, h) ==
    LET start == DownTo(parent, Height(uncle)) IN
    /\ start # NoBlock
    /\ Height(start) = Height(uncle)
    /\ MeetWithin(start, uncle,
         {k \in 0 .. UncleDepth - 1 :
            /\ Ancestor(start, k) # NoBlock
            /\ Height(Ancestor(start, k)) + UncleDepth >= h})

UncleVerdict(b, u) ==
    IF u \in Mined(Parent(b)) THEN "invalid"
    ELSE IF u \notin blocksById \/ ~verified[u] THEN "unverified"
    ELSE IF invalid[u] THEN "invalid"
    ELSE IF \/ Height(u) >= Height(b)
            \/ Height(u) + UncleDepth < Height(b) THEN "invalid"
    ELSE IF OnSameChain(Parent(b), u, Height(b)) THEN "valid"
    ELSE "invalid"

\* Uncles are checked in order, the first one that fails decides
UnclesVerdict(b) ==
    LET us == Info[b].uncles
        failed == {i \in DOMAIN us : UncleVerdict(b, us[i]) # "valid"}
    IN IF ~Sorted(us) THEN "invalid"
       ELSE IF failed = {} THEN "valid"
       ELSE UncleVerdict(b, us[Min(failed)])

ExpectedCumulative(b) ==
    Cumulative(Parent(b)) + Difficulty(b) + MapThenSumSet(Difficulty, Uncles(b))

\* Difficulty, shares and outputs, checked inside the PPLNS window only
PayoutVerdict(b) ==
    /\ WindowComplete(Parent(b))
    /\ Info[Parent(b)].next = Difficulty(b)
    /\ WindowComplete(b)
    /\ Info[b].payout

GenesisVerdict(b) ==
    /\ Parent(b) = NoBlock /\ Info[b].uncles = <<>>
    /\ Difficulty(b) = MinDifficulty /\ Cumulative(b) = MinDifficulty

Verdict(b) ==
    IF Height(b) = 0 THEN IF GenesisVerdict(b) THEN "valid" ELSE "invalid"
    ELSE IF depth[b] >= 2 * Window THEN "valid"
    ELSE IF Parent(b) = NoBlock THEN "invalid"
    ELSE IF Parent(b) \notin blocksById \/ ~verified[Parent(b)] THEN "unverified"
    ELSE IF invalid[Parent(b)] THEN "invalid"
    ELSE IF Height(b) # Height(Parent(b)) + 1 THEN "wrong height"
    ELSE IF UnclesVerdict(b) # "valid" THEN UnclesVerdict(b)
    ELSE IF Cumulative(b) # ExpectedCumulative(b) THEN "invalid"
    ELSE IF depth[b] >= Window \/ PayoutVerdict(b) THEN "valid"
    ELSE "invalid"

-----------------------------------------------------------------------------
(* Receiving a block: the P2P loop filters duplicates, a thread pool       *)
(* worker runs add_external_block.                                         *)

\* block_seen: old blocks count as seen, the others are remembered
IsOld(b) ==
    /\ chainTip # NoBlock
    /\ Height(chainTip) > Height(b) + 2 * Window
    /\ Cumulative(b) < Cumulative(chainTip)

BlockSeen(b) == IsOld(b) \/ b \in seenBlocks

checkUnchanged == <<blocksById, blocksByHeight, tipVars, blockVars, cached, aged,
                    mainHeight, pc, callVars, templateVars>>

\* handle_incoming_block_async on a block that block_seen lets through
Receive(b) ==
    /\ ~BlockSeen(b)
    /\ After[b] \subseteq seenBlocks
    /\ Cardinality({x \in Block : work[x] # "none"}) < Workers
    /\ seenBlocks' = seenBlocks \cup {b}
    /\ work' = [work EXCEPT ![b] = "check"]
    /\ UNCHANGED checkUnchanged

\* The anti-spam check of add_external_block
TooLowDifficulty(b) ==
    /\ Difficulty(b) < curDifficulty
    /\ \A k \in 0 .. Window - 1 :
         LET a == Ancestor(chainTip, k) IN a # NoBlock => 2 * Difficulty(b) < Difficulty(a)

\* The checks that come before the PoW check
WorthHashing(b) ==
    /\ Difficulty(b) >= MinDifficulty
    /\ b \notin blocksById
    /\ ~TooLowDifficulty(b)

Acceptable(b) == WorthHashing(b) /\ Info[b].pow

\* add_external_block up to the call of add_block
CheckBlock(b) ==
    /\ work[b] = "check" /\ pc = "unlocked"
    /\ Acceptable(b)
    /\ work' = [work EXCEPT ![b] = "add"]
    /\ UNCHANGED <<seenBlocks, checkUnchanged>>

\* Early returns that leave the block in m_seenBlocks
RejectBlock(b) ==
    /\ work[b] = "check" /\ pc = "unlocked"
    /\ ~Acceptable(b)
    /\ work' = [work EXCEPT ![b] = "none"]
    /\ UNCHANGED <<seenBlocks, checkUnchanged>>

\* Mutant of RetryLater: no return after unsee_block
RetryGoesOn(b) ==
    /\ work[b] = "check" /\ pc = "unlocked" /\ WorthHashing(b)
    /\ work' = [work EXCEPT ![b] = "add"]
    /\ seenBlocks' = seenBlocks \ {b}
    /\ UNCHANGED checkUnchanged

\* No seed hash (then add_external_block returns false and the sender is banned, see
\* BlockSync) or no PoW hash: unsee_block, so that the block can come again
RetryLater(b) ==
    /\ work[b] = "check" /\ pc = "unlocked" /\ WorthHashing(b)
    /\ work' = [work EXCEPT ![b] = "none"]
    /\ seenBlocks' = seenBlocks \ {b}
    /\ UNCHANGED checkUnchanged

-----------------------------------------------------------------------------
(* update_depths.  The two worklists are stacks of frames: an entry is     *)
(* <<level, block>>, the entries of the highest level are on top.  Blocks  *)
(* pushed together (the siblings at one height) share a level, which       *)
(* leaves the order of the vectors in m_blocksByHeight open.               *)

OnTop(stack) == {e \in stack : \A f \in stack : f[1] <= e[1]}

\* Depths are unsigned: an uncle that claims to be higher makes them wrap around
AsDepth(n) == n % DepthModulus

\* The depth a new block gets from children and uncle references above it
DepthsFromAbove(b) ==
    {AsDepth(depth[c] + 1) : c \in {x \in blocksByHeight[Height(b) + 1] : Parent(x) = b}}
    \cup UNION {{AsDepth(depth[c] + i) :
                    c \in {x \in blocksByHeight[Height(b) + i] : b \in Uncles(x)}}
                  : i \in 1 .. UncleDepth}

\* add_block: insert into both indexes, then start update_depths.  A block
\* that is already there is dropped.
AddBlock(b) ==
    /\ pc = "unlocked" /\ work[b] \in {"add", "own"}
    /\ work' = [work EXCEPT ![b] = "none"]
    /\ IF b \in blocksById
       THEN UNCHANGED <<blocksById, blocksByHeight, blockVars, pc, newBlock, cur, toUpdate>>
       ELSE /\ blocksById' = blocksById \cup {b}
            /\ blocksByHeight' = [blocksByHeight EXCEPT ![Height(b)] = @ \cup {b}]
            /\ verified' = [verified EXCEPT ![b] = work[b] = "own"]
            /\ wantBroadcast' = [wantBroadcast EXCEPT ![b] = work[b] = "own" \/ b \in ByBroadcast]
            /\ \E d \in {0} \cup DepthsFromAbove(b) :
                 /\ \A e \in {0} \cup DepthsFromAbove(b) : e <= d
                 /\ depth' = [depth EXCEPT ![b] = d]
            /\ newBlock' = b
            /\ toUpdate' = {<<1, b>>}
            /\ pc' = "depths"
            /\ UNCHANGED <<invalid, broadcasted, broadcasts, cur>>
    /\ UNCHANGED <<seenBlocks, tipVars, cached, aged, mainHeight, toVerify, highest,
                   returnTo, templateVars>>

startVerifyUnchanged == <<storeVars, tipVars, blockVars, cached, aged, mainHeight,
                          work, newBlock, templateVars>>

\* Pop a block; verify_loop is called for it when it is certain to pass
PopToUpdate(e) ==
    /\ pc = "depths" /\ e \in OnTop(toUpdate)
    /\ cur' = e[2]
    /\ toUpdate' = toUpdate \ {e}
    /\ IF ~verified[e[2]] /\ (depth[e[2]] >= 2 * Window \/ Height(e[2]) = 0)
       THEN /\ pc' = "verify" /\ toVerify' = {<<1, e[2]>>}
            /\ highest' = NoBlock /\ returnTo' = "propagate"
       ELSE /\ pc' = "propagate"
            /\ UNCHANGED <<toVerify, highest, returnTo>>
    /\ UNCHANGED startVerifyUnchanged

\* Raise the depth of the parent and the uncles of cur, push those raised
RaisedDepth(b, x) ==
    AsDepth(depth[b] + (IF x = Parent(b) THEN 1 ELSE Height(b) - Height(x)))

\* Mutant of Raised: uncles are forgotten
RaisedParent(b) ==
    {x \in {Parent(b)} \cap blocksById : depth[x] < RaisedDepth(b, x)}

Raised(b) ==
    {x \in ({Parent(b)} \cup Uncles(b)) \cap blocksById : depth[x] < RaisedDepth(b, x)}

Propagate ==
    /\ pc = "propagate"
    /\ depth' = [x \in Block |-> IF x \in Raised(cur) THEN RaisedDepth(cur, x) ELSE depth[x]]
    /\ \E top \in {0} \cup {e[1] : e \in toUpdate} :
         /\ \A e \in toUpdate : e[1] <= top
         /\ toUpdate' = toUpdate \cup
              {<<IF x = Parent(cur) THEN top + 1 ELSE top + 2, x>> : x \in Raised(cur)}
    /\ cur' = NoBlock
    /\ pc' = "depths"
    /\ UNCHANGED <<storeVars, tipVars, verified, invalid, wantBroadcast, broadcasted,
                   broadcasts, cached, aged, mainHeight, work, newBlock,
                   toVerify, highest, returnTo, templateVars>>

-----------------------------------------------------------------------------
(* update_chain_tip and prune_old_blocks                                   *)

\* The blocks prune_old_blocks deletes when t is the chain tip
Prunable(t) ==
    {x \in UNION {blocksByHeight[h] : h \in {k \in 0 .. TopHeight : k + PruneDistance <= Height(t)}} :
        depth[x] >= PruneDistance \/ x \in aged}

\* Mutant of HeightsWithout: erases the entry of a height with a deleted block
HeightsErased(gone) ==
    [h \in {k \in 0 .. TopHeight : blocksByHeight[k] \cap gone = {}} |-> blocksByHeight[h]]

\* m_blocksByHeight without the deleted blocks (an empty entry is an absent one)
HeightsWithout(gone) == [h \in 0 .. TopHeight |-> blocksByHeight[h] \ gone]

\* A deleted block loses its members and may be received again (unsee_block)
Prune(gone) ==
    /\ blocksById' = blocksById \ gone
    /\ blocksByHeight' = HeightsWithout(gone)
    /\ seenBlocks' = seenBlocks \ gone
    /\ aged' = aged \ gone
    /\ depth' = [x \in Block |-> IF x \in gone THEN 0 ELSE depth[x]]
    /\ verified' = [x \in Block |-> x \notin gone /\ verified[x]]
    /\ invalid' = [x \in Block |-> x \notin gone /\ invalid[x]]

\* Mutant of Sending: m_broadcasted is ignored
SendingAgain(b, wanted) == wanted

\* A block is sent when that is wanted and has not been done before
Sending(b, wanted) == wanted /\ ~broadcasted[b]

\* Members of b that update_chain_tip sets, and the call of P2PServer::broadcast
TipBroadcast(b, isNewTip, gone) ==
    LET wanted == wantBroadcast[b] \/ isNewTip
        sending == Sending(b, wanted)
    IN /\ wantBroadcast' = [x \in Block |-> IF x = b THEN wanted
                                            ELSE x \notin gone /\ wantBroadcast[x]]
       /\ broadcasted' = [x \in Block |-> IF x = b THEN broadcasted[x] \/ sending
                                          ELSE x \notin gone /\ broadcasted[x]]
       /\ broadcasts' = [x \in Block |-> IF x = b /\ sending THEN broadcasts[x] + 1
                                         ELSE IF x \in gone THEN 0 ELSE broadcasts[x]]

updateTipVars == <<storeVars, tipVars, blockVars, aged, templatePending>>

\* Mutant of BecomesTip: a new tip must be higher too
BecomesHigherTip(b) ==
    /\ IsLongerChain(chainTip, b) /\ WindowComplete(b)
    /\ chainTip # NoBlock => Height(chainTip) < Height(b)

\* The new tip needs a longer chain and a successful get_difficulty
BecomesTip(b) == IsLongerChain(chainTip, b) /\ WindowComplete(b)

\* Mutant of PossibleUncle: off by one
PossibleUncleStrict(b) ==
    /\ ~IsLongerChain(chainTip, b)
    /\ Height(b) <= Height(chainTip)
    /\ Height(b) + UncleDepth > Height(chainTip) + 1

PossibleUncle(b) ==
    /\ ~IsLongerChain(chainTip, b)
    /\ Height(b) <= Height(chainTip)
    /\ Height(b) + UncleDepth > Height(chainTip)

UpdateChainTip(b) ==
    IF ~verified[b] \/ invalid[b] \/ depth[b] >= Window
    THEN UNCHANGED updateTipVars
    ELSE /\ chainTip' = IF BecomesTip(b) THEN b ELSE chainTip
         /\ curDifficulty' = IF BecomesTip(b) THEN Info[b].next ELSE curDifficulty
         /\ templatePending' = (templatePending \/ BecomesTip(b) \/ PossibleUncle(b))
         /\ LET gone == IF BecomesTip(b) THEN Prunable(b) ELSE {}
            IN Prune(gone) /\ TipBroadcast(b, BecomesTip(b), gone)

-----------------------------------------------------------------------------
(* verify_loop                                                             *)

\* Mutant of Above: only children are verified next
AboveChildren(level, b) ==
    {<<level + 1, c>> : c \in {x \in blocksByHeight[Height(b) + 1] : Parent(x) = b}}

\* The frames pushed after b passed: the blocks at the next UncleDepth heights
Above(level, b) ==
    UNION {{<<level + i, c>> : c \in blocksByHeight[Height(b) + i]} : i \in 1 .. UncleDepth}

verifyUnchanged == <<storeVars, tipVars, depth, wantBroadcast, aged, mainHeight, work, pc,
                     newBlock, cur, toUpdate, returnTo, templateVars>>

\* Already verified, or the verdict is anything but valid
VerifyFails(e) ==
    /\ pc = "verify" /\ e \in OnTop(toVerify)
    /\ verified[e[2]] \/ Verdict(e[2]) # "valid"
    /\ toVerify' = toVerify \ {e}
    /\ verified' = [verified EXCEPT ![e[2]] = @ \/ Verdict(e[2]) = "invalid"]
    /\ invalid' = [invalid EXCEPT ![e[2]] =
                     @ \/ (~verified[e[2]] /\ Verdict(e[2]) \in {"invalid", "wrong height"})]
    /\ UNCHANGED <<verifyUnchanged, highest, broadcasted, broadcasts, cached>>

VerifyPasses(e) ==
    LET b == e[2]
        sending == Sending(b, wantBroadcast[b])
    IN
    /\ pc = "verify" /\ e \in OnTop(toVerify)
    /\ ~verified[b] /\ Verdict(b) = "valid"
    /\ verified' = [verified EXCEPT ![b] = TRUE]
    /\ invalid' = [invalid EXCEPT ![b] = FALSE]
    /\ highest' = IF IsLongerChain(highest, b) THEN b ELSE highest
    /\ broadcasted' = [broadcasted EXCEPT ![b] = @ \/ sending]
    /\ broadcasts' = [broadcasts EXCEPT ![b] =
                        IF sending /\ depth[b] < UncleDepth THEN @ + 1 ELSE @]
    /\ cached' = cached \cup {b}
    /\ toVerify' = (toVerify \ {e}) \cup Above(e[1], b)
    /\ UNCHANGED verifyUnchanged

FinishVerifyLoop ==
    /\ pc = "verify" /\ toVerify = {}
    /\ IF highest = NoBlock THEN UNCHANGED updateTipVars ELSE UpdateChainTip(highest)
    /\ pc' = returnTo
    /\ highest' = NoBlock
    /\ newBlock' = IF returnTo = "unlocked" THEN NoBlock ELSE newBlock
    /\ UNCHANGED <<cached, mainHeight, work, cur, toUpdate, toVerify, returnTo, template, jobs>>

\* The end of add_block
FinishUpdateDepths ==
    /\ pc = "depths" /\ toUpdate = {}
    /\ IF verified[newBlock]
       THEN /\ pc' = "unlocked" /\ newBlock' = NoBlock
            /\ IF invalid[newBlock]
               THEN UNCHANGED <<updateTipVars, cached>>
               ELSE UpdateChainTip(newBlock) /\ cached' = cached \cup {newBlock}
            /\ UNCHANGED <<toVerify, highest, returnTo>>
       ELSE /\ pc' = "verify" /\ toVerify' = {<<1, newBlock>>}
            /\ highest' = NoBlock /\ returnTo' = "unlocked"
            /\ UNCHANGED <<updateTipVars, cached, newBlock>>
    /\ UNCHANGED <<mainHeight, work, cur, toUpdate, template, jobs>>

-----------------------------------------------------------------------------
(* The block template                                                      *)

\* Mutant of FillUncles: does not look at m_invalid
FillAnyUncles ==
    {u \in UNION {blocksByHeight[h] : h \in {k \in 0 .. TopHeight :
                      k <= Height(chainTip) /\ k + UncleDepth > Height(chainTip)}} :
        /\ verified[u]
        /\ u \notin Mined(chainTip)
        /\ OnSameChain(chainTip, u, Height(chainTip) + 1)}

\* fill_sidechain_data: every block that can be referenced as an uncle
FillUncles ==
    {u \in UNION {blocksByHeight[h] : h \in {k \in 0 .. TopHeight :
                      k <= Height(chainTip) /\ k + UncleDepth > Height(chainTip)}} :
        /\ verified[u] /\ ~invalid[u]
        /\ u \notin Mined(chainTip)
        /\ OnSameChain(chainTip, u, Height(chainTip) + 1)}

FillSidechainData ==
    [parent |-> chainTip, uncles |-> IF chainTip = NoBlock THEN {} ELSE FillUncles]

\* p2pool::update_block_template on the main loop, after m_blockTemplateAsync
UpdateBlockTemplate ==
    /\ templatePending /\ pc = "unlocked"
    /\ templatePending' = FALSE
    /\ template' = FillSidechainData
    /\ jobs' = jobs \cup {b \in Own : /\ Parent(b) = template'.parent
                                      /\ Uncles(b) = template'.uncles}
    /\ UNCHANGED <<storeVars, tipVars, blockVars, cached, aged, mainHeight, work, pc, callVars>>

\* BlockTemplate::submit_sidechain_block: a miner found a share for a job
SubmitOwnBlock(b) ==
    /\ b \in jobs /\ ~BlockSeen(b)
    /\ seenBlocks' = seenBlocks \cup {b}
    /\ work' = [work EXCEPT ![b] = "own"]
    /\ UNCHANGED checkUnchanged

-----------------------------------------------------------------------------
(* Environment                                                             *)

\* Monero advances: new miner data, and with it a new template
MainchainAdvances ==
    /\ mainHeight < MaxHeight
    /\ mainHeight' = mainHeight + 1
    /\ templatePending' = TRUE
    /\ UNCHANGED <<storeVars, tipVars, blockVars, cached, aged, work, pc, callVars,
                   template, jobs>>

\* prune_delay passes for the blocks that are stored now
TimePasses ==
    /\ Aging /\ pc = "unlocked" /\ aged # blocksById
    /\ aged' = blocksById
    /\ UNCHANGED <<storeVars, tipVars, blockVars, cached, mainHeight, work, pc, callVars,
                   templateVars>>

-----------------------------------------------------------------------------
Init ==
    /\ blocksById = {}
    /\ blocksByHeight = [h \in 0 .. TopHeight |-> {}]
    /\ seenBlocks = {}
    /\ chainTip = NoBlock
    /\ curDifficulty = MinDifficulty
    /\ depth = [b \in Block |-> 0]
    /\ verified = [b \in Block |-> FALSE]
    /\ invalid = [b \in Block |-> FALSE]
    /\ wantBroadcast = [b \in Block |-> FALSE]
    /\ broadcasted = [b \in Block |-> FALSE]
    /\ broadcasts = [b \in Block |-> 0]
    /\ cached = {}
    /\ aged = {}
    /\ mainHeight = StartHeight
    /\ work = [b \in Block |-> "none"]
    /\ pc = "unlocked"
    /\ newBlock = NoBlock /\ cur = NoBlock
    /\ toUpdate = {} /\ toVerify = {}
    /\ highest = NoBlock
    /\ returnTo = "unlocked"
    /\ template = [parent |-> NoBlock, uncles |-> {}]
    /\ jobs = {}
    /\ templatePending = TRUE

\* Steps of the thread that holds the write lock
LockHolder ==
    \/ \E e \in toUpdate : PopToUpdate(e)
    \/ Propagate
    \/ \E e \in toVerify : VerifyFails(e) \/ VerifyPasses(e)
    \/ FinishVerifyLoop
    \/ FinishUpdateDepths

Worker(b) == CheckBlock(b) \/ RejectBlock(b) \/ RetryLater(b) \/ AddBlock(b)

Next ==
    \/ \E b \in Block \ Own : Receive(b)
    \/ \E b \in Block : Worker(b) \/ SubmitOwnBlock(b)
    \/ LockHolder
    \/ UpdateBlockTemplate
    \/ MainchainAdvances
    \/ TimePasses

Spec == Init /\ [][Next]_vars

-----------------------------------------------------------------------------
\* Every member of the side chain and of its blocks, and every local variable of the
\* lock holder, has its type
TypeOK ==
    /\ blocksById \subseteq Block
    /\ blocksByHeight \in [0 .. TopHeight -> SUBSET Block]
    /\ seenBlocks \subseteq Block
    /\ chainTip \in Block \cup {NoBlock}
    /\ curDifficulty \in Nat
    /\ depth \in [Block -> Nat]
    /\ verified \in [Block -> BOOLEAN]
    /\ invalid \in [Block -> BOOLEAN]
    /\ wantBroadcast \in [Block -> BOOLEAN]
    /\ broadcasted \in [Block -> BOOLEAN]
    /\ broadcasts \in [Block -> Nat]
    /\ cached \subseteq Block
    /\ aged \subseteq Block
    /\ mainHeight \in StartHeight .. MaxHeight
    /\ work \in [Block -> {"none", "check", "add", "own"}]
    /\ pc \in {"unlocked", "depths", "propagate", "verify"}
    /\ newBlock \in Block \cup {NoBlock}
    /\ cur \in Block \cup {NoBlock}
    /\ toUpdate \subseteq Nat \X Block
    /\ toVerify \subseteq Nat \X Block
    /\ highest \in Block \cup {NoBlock}
    /\ returnTo \in {"unlocked", "propagate"}
    /\ template \in [parent : Block \cup {NoBlock}, uncles : SUBSET Block]
    /\ jobs \subseteq Own
    /\ templatePending \in BOOLEAN

Stored(S) == S \ {NoBlock} \subseteq blocksById

\* Every block pointer the lock holder still has to use points to a block that
\* prune_old_blocks has not deleted, although update_chain_tip can run in the
\* middle of update_depths.
NoDanglingPointer ==
    /\ Stored({newBlock, cur, highest})
    /\ Stored({e[2] : e \in toUpdate \cup toVerify})

\* The two indexes agree, through insertions and prunings that touch both: an entry
\* of m_blocksByHeight holds exactly the allocated blocks of its height.
IndexesAgree ==
    /\ \A b \in blocksById : b \in blocksByHeight[Height(b)]
    /\ \A h \in 0 .. TopHeight : \A b \in blocksByHeight[h] : b \in blocksById /\ Height(b) = h

\* The chain tip and all its ancestors in the PPLNS window are stored, verified
\* and valid: get_shares and get_difficulty on the tip cannot fail, whatever was
\* skipped as too deep or pruned on the way.
TipWindowComplete ==
    chainTip # NoBlock =>
        /\ chainTip \in blocksById
        /\ WindowComplete(chainTip)
        /\ \A k \in 0 .. Window - 1 :
             LET a == Ancestor(chainTip, k) IN
             a # NoBlock => verified[a] /\ ~invalid[a]

\* prune_old_blocks, called in the middle of update_depths and verify_loop, takes
\* nothing away that is still needed: no pointer to a deleted block is used, the
\* indexes agree, and the PPLNS window of the tip is whole.
PruningIsSafe == NoDanglingPointer /\ IndexesAgree /\ TipWindowComplete

\* Once add_block has returned, m_depth of every stored block is the longest
\* distance to a block above it, along parent and uncle references, in whatever
\* order the blocks came (exactly, as long as no block was dropped for its age).
DepthIsDistance ==
    pc = "unlocked" =>
      /\ \A c \in blocksById : \A x \in ({Parent(c)} \cup Uncles(c)) \cap blocksById :
           depth[x] >= RaisedDepth(c, x)
      /\ ~Aging => \A x \in blocksById : depth[x] > 0 =>
           \E c \in blocksById : /\ x \in {Parent(c)} \cup Uncles(c)
                                 /\ depth[x] = RaisedDepth(c, x)

\* "can't verify block ...: parent or uncle blocks are not available" is the
\* only reason for a stored block to stay unverified once add_block has returned:
\* verify_loop reached every block that the new block made verifiable.  (Blocks
\* on top of an invalid block are not visited and stay unverified as well.)
UnverifiedMeansUnavailable ==
    pc = "unlocked" =>
      \A b \in blocksById : ~verified[b] =>
        \E x \in {Parent(b)} \cup Uncles(b) :
          x \notin blocksById \/ ~verified[x] \/ invalid[x]

\* The first two missing uncles of b, in the order of m_uncles
MissingUncles(b) ==
    LET us == Info[b].uncles
        missing == {i \in DOMAIN us : us[i] \notin blocksById}
    IN {us[i] : i \in {k \in missing : Cardinality({j \in missing : j < k}) < 2}}

\* get_missing_blocks
MissingBlocks ==
    UNION {({Parent(b)} \ (blocksById \cup {NoBlock})) \cup MissingUncles(b)
             : b \in {x \in blocksById : ~verified[x]}}

\* As long as some stored block is unverified and none is invalid,
\* get_missing_blocks names a block to download: the sync never runs dry with
\* orphans left.
OrphansAreRequested ==
    /\ pc = "unlocked"
    /\ \E b \in blocksById : ~verified[b]
    /\ \A b \in blocksById : ~invalid[b]
    => MissingBlocks # {}

\* Nothing is forgotten, in whatever order the blocks came: what can be verified is
\* (verify_loop), and what is missing for the rest is asked for (get_missing_blocks).
NothingIsForgotten == UnverifiedMeansUnavailable /\ OrphansAreRequested

\* No verified valid block on the same chain has more cumulative difficulty
\* than the chain tip, in whatever order the blocks came, as long as the stored
\* chain is too short for verify to skip blocks as deep.  (After a skip the tip
\* may wait for the next block: is_longer_chain is only asked about the block
\* that was verified last, and took the two ends of a gap for two chains.)
TipIsBest ==
    /\ pc = "unlocked" /\ chainTip # NoBlock
    /\ \A x \in blocksById : depth[x] < 2 * Window
    =>
      \A b \in blocksById :
        verified[b] /\ ~invalid[b] /\ depth[b] < Window /\ SameChain(chainTip, b)
          => Cumulative(b) <= Cumulative(chainTip)

\* The same across chains that have nothing in common: no stored valid block with
\* a heavier PPLNS window, built on a recent mainchain, is left standing, although
\* is_longer_chain is asked only once about every block.
HeaviestRecentWins ==
    pc = "unlocked" /\ chainTip # NoBlock =>
      \A b \in blocksById :
        /\ verified[b] /\ ~invalid[b] /\ depth[b] < Window
        /\ ~SameChain(chainTip, b) /\ WindowComplete(b) /\ OnRecentMainchain(b)
        => TotalDifficulty(b) <= TotalDifficulty(chainTip)

\* A block goes to the peers at most once, and only when it is verified and
\* valid; the chain tip has always been offered to them.
BroadcastDiscipline ==
    /\ \A b \in Block : /\ broadcasts[b] <= 1
                        /\ broadcasts[b] = 1 => verified[b] /\ ~invalid[b]
    /\ pc = "unlocked" /\ chainTip # NoBlock => broadcasted[chainTip]

\* When no rebuild is pending, miners work on the chain tip and reference every
\* uncle that fill_sidechain_data would take now: no verified block that can be
\* an uncle is forgotten until the next tip, except one that a whole window of
\* unverified blocks already builds on (update_chain_tip ignores it), and except
\* while a verified block is higher than the tip but lighter (verify_loop offers
\* only that one, which is neither a tip nor an uncle).
TemplateFresh ==
    pc = "unlocked" /\ ~templatePending =>
      /\ template.parent = chainTip
      /\ \A u \in FillSidechainData.uncles \ template.uncles :
           \/ depth[u] >= Window
           \/ \E v \in blocksById : verified[v] /\ ~invalid[v] /\ Height(v) > Height(chainTip)

\* m_seenBlocks covers the stored blocks and the blocks in flight, so no block
\* is processed twice: "trying to add the same block twice" cannot happen.
NeverAddedTwice ==
    /\ blocksById \subseteq seenBlocks
    /\ \A b \in Block : work[b] # "none" => b \in seenBlocks \ blocksById

\* A block found by our own miners, added without verification, would pass
\* verify on a node that has its ancestors.
OwnBlockWouldVerify ==
    \A b \in Block : work[b] = "own" /\ pc = "unlocked" => Verdict(b) \in {"valid", "unverified"}

=============================================================================
