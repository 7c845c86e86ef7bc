------------------------------- MODULE Pplns -------------------------------
(***************************************************************************)
(* What a block of the side chain is worth: its difficulty                 *)
(* (get_difficulty), its uncles (fill_sidechain_data) and the shares it    *)
(* pays (get_shares), on a side chain that grows with forks, late uncles   *)
(* and wrong clocks.  Every block is stored and valid here; which blocks   *)
(* are stored, verified and complete is the subject of module SideChain.   *)
(***************************************************************************)
EXTENDS Integers, Sequences, FiniteSets, FiniteSetsExt, Functions

CONSTANTS
    Wallets,        \* miners, ordered like their wallets
    ClockSteps,     \* how far the timestamps of a miner may be from their parents'
    Window,         \* m_chainWindowSize
    UncleDepth,     \* UNCLE_BLOCK_DEPTH
    UnclePenalty,   \* m_unclePenalty, in percent
    TargetTime,     \* m_targetBlockTime
    MinDifficulty,  \* m_minDifficulty
    TimeModulus,    \* 2^32: differences of timestamps are kept in a uint32_t
    CutPart,        \* 10: one tenth of the timestamps is cut off at each end
    MaxBlocks,      \* bound: blocks ever mined
    MaxFork         \* bound: how far below the highest block one may be mined

ASSUME PplnsAssumption ==
    /\ Wallets \subseteq Nat /\ ClockSteps \in [Wallets -> SUBSET Int]
    /\ {Window, UncleDepth, TargetTime, TimeModulus, MinDifficulty, MaxBlocks} \subseteq Nat \ {0}
    /\ CutPart \in Nat \ {0, 1}
    /\ UnclePenalty \in 0 .. 100 /\ MaxFork \in Nat

VARIABLE blocks     \* m_blocksById, in the order of arrival; 0 is no block

NoBlock == 0
Ids == DOMAIN blocks

Difficulty(b) == blocks[b].difficulty
Height(b) == blocks[b].height

\* The work in a set of blocks
Work(S) == SumFunctionOnSet([b \in Ids |-> Difficulty(b)], S)

\* get_parent, i times
Ancestor(b, i) ==
    LET a[j \in 0 .. i] ==
            IF j = 0 THEN b ELSE IF a[j - 1] = NoBlock THEN NoBlock ELSE blocks[a[j - 1]].parent
    IN  a[i]

-----------------------------------------------------------------------------
(* The walk from the tip through the PPLNS window                          *)

\* The rounds of the loop: Window blocks of the chain, or down to the genesis
Rounds(tip) == {i \in 0 .. Window - 1 : Ancestor(tip, i) # NoBlock}

\* Uncles may be out of the window although their nephew is in it
InWindow(tip, u) == Height(tip) - Height(u) < Window

UnclesIn(tip, b) == {u \in blocks[b].uncles : InWindow(tip, u)}

\* What a round adds to the list: a block of the chain and its uncles.  An entry of
\* the list is a round and a block of it.
InRound(tip, i) == {Ancestor(tip, i)} \cup UnclesIn(tip, Ancestor(tip, i))
Entries(tip) == UNION {{i} \X InRound(tip, i) : i \in Rounds(tip)}

Penalty(u) == (Difficulty(u) * UnclePenalty) \div 100
Penalties(S) == SumFunctionOnSet([u \in Ids |-> Penalty(u)], S)

\* The share of an entry: a block's own with the penalties of its uncles, or what is
\* left of an uncle
ShareWeight(tip, e) ==
    LET cur == Ancestor(tip, e[1])
    IN  IF e[2] = cur THEN Difficulty(cur) + Penalties(UnclesIn(tip, cur))
                      ELSE Difficulty(e[2]) - Penalty(e[2])

WalletOf(e) == blocks[e[2]].wallet

\* The order of the wallets; shares of one wallet may come in any order
Precedes(e, f) ==
    \/ WalletOf(e) < WalletOf(f)
    \/ /\ WalletOf(e) = WalletOf(f)
       /\ e[1] < f[1] \/ (e[1] = f[1] /\ e[2] < f[2])

Sorted(S) ==
    [n \in 1 .. Cardinality(S) |->
        CHOOSE e \in S : Cardinality({f \in S : Precedes(f, e)}) = n - 1]

\* The next share joins the last one if it has the same wallet
Combine(list, s) ==
    IF list # <<>> /\ list[Len(list)].wallet = s.wallet
    THEN [list EXCEPT ![Len(list)] = [wallet |-> s.wallet, weight |-> @.weight + s.weight]]
    ELSE Append(list, s)

get_shares(tip) ==
    LET sorted == Sorted(Entries(tip))
        share == [n \in DOMAIN sorted |->
                     [wallet |-> WalletOf(sorted[n]), weight |-> ShareWeight(tip, sorted[n])]]
        combined[n \in 0 .. Len(sorted)] ==
            IF n = 0 THEN <<>> ELSE Combine(combined[n - 1], share[n])
    IN  combined[Len(sorted)]

\* The blocks of the chain in the window
Chain(tip) == {Ancestor(tip, i) : i \in Rounds(tip)}

\* Sorted and without duplicates: a set
get_wallets(tip) ==
    {blocks[b].wallet : b \in Chain(tip)}
      \cup {blocks[u].wallet : u \in {v \in UNION {blocks[b].uncles : b \in Chain(tip)} :
                                        Height(tip) - Height(v) < Window}}

-----------------------------------------------------------------------------
(* get_difficulty, from the timestamps that `time' gives the blocks        *)

\* oldest_timestamp
Oldest(list, time) == Min({time[e[2]] : e \in list})

\* tmpTimestamps: how far the timestamps are from the oldest one.  A block may claim
\* any 64-bit timestamp, so the difference may be truncated.
SinceOldest(list, time) ==
    LET oldest == Oldest(list, time)
    IN  [e \in list |-> (time[e[2]] - oldest) % TimeModulus]

\* nth_element: the n-th value of the list, counted from the smallest
NthTime(list, since, n) ==
    CHOOSE t \in {since[e] : e \in list} :
        /\ Cardinality({e \in list : since[e] < t}) < n
        /\ Cardinality({e \in list : since[e] <= t}) >= n

\* The n-th timestamp, as far as the truncated differences tell
NthFromOldest(list, time, n) ==
    LET since == SinceOldest(list, time)
    IN  Oldest(list, time) + NthTime(list, since, n)

\* Mutant of CutTimes: nothing is cut off
CutTimesNone(list, time) ==
    <<NthFromOldest(list, time, 1), NthFromOldest(list, time, Cardinality(list))>>

\* Timestamps without the cut_size - 1 oldest and newest
CutTimes(list, time) ==
    LET cut == (Cardinality(list) + CutPart - 1) \div CutPart
    IN  <<NthFromOldest(list, time, cut), NthFromOldest(list, time, Cardinality(list) + 1 - cut)>>

Clamped(difficulty) == Max({difficulty, MinDifficulty})

\* diff2.lo - diff1.lo: the work between two timestamps.  With truncated differences
\* there may be no block between them, and then 0 - (2^64 - 1) wraps to 1.
WorkBetween(work) == IF work = {} THEN 1 ELSE Max(work) - Min(work)

\* Work between two timestamps, for every second of it
get_difficulty_at(tip, time) ==
    LET list == Entries(tip)
        t == CutTimes(list, time)
        seconds == IF t[2] > t[1] THEN t[2] - t[1] ELSE 1
        work == {blocks[e[2]].cumulative :
                    e \in {x \in list : t[1] <= time[x[2]] /\ time[x[2]] <= t[2]}}
    IN  Clamped((WorkBetween(work) * TargetTime) \div seconds)

Timestamps == [b \in Ids |-> blocks[b].time]

get_difficulty(tip) == get_difficulty_at(tip, Timestamps)

-----------------------------------------------------------------------------
(* fill_sidechain_data: the next block on a tip                            *)

\* Mutant of Mined: without the uncles
MinedOnChain(tip) == {Ancestor(tip, i) : i \in 0 .. UncleDepth - 1} \ {NoBlock}

\* mined_blocks: the last blocks of the chain, and their uncles
Mined(tip) ==
    UNION {{a} \cup blocks[a].uncles : a \in {Ancestor(tip, i) : i \in 0 .. UncleDepth - 1} \ {NoBlock}}

\* The branch of u leaves the chain of tip at most UncleDepth below the new block
SameChain(tip, u) ==
    LET start == Ancestor(tip, Height(tip) - Height(u))
    IN  \E i \in 0 .. UncleDepth - 1 :
            /\ i <= Height(u)
            /\ Height(start) - i + UncleDepth >= Height(tip) + 1
            /\ blocks[Ancestor(start, i)].parent = blocks[Ancestor(u, i)].parent

PossibleUncles(tip) ==
    {u \in Ids : /\ Height(u) <= Height(tip) /\ Height(u) + UncleDepth > Height(tip)
                 /\ u \notin Mined(tip)
                 /\ SameChain(tip, u)}

\* Mutant of CumulativeOn: uncles are not work
CumulativeOnParent(tip, uncles) == blocks[tip].cumulative + get_difficulty(tip)

CumulativeOn(tip, uncles) ==
    blocks[tip].cumulative + get_difficulty(tip) + Work(uncles)

\* A miner whose tip this is finds a block.  It names the uncles that have reached
\* its node in time.
Mine(tip, wallet, step) ==
    /\ Len(blocks) < MaxBlocks
    /\ Height(tip) + MaxFork >= Max({Height(b) : b \in Ids})
    /\ \E uncles \in SUBSET PossibleUncles(tip) :
          blocks' = Append(blocks,
              [parent |-> tip, uncles |-> uncles, height |-> Height(tip) + 1,
               difficulty |-> get_difficulty(tip), cumulative |-> CumulativeOn(tip, uncles),
               time |-> blocks[tip].time + step, wallet |-> wallet])

\* The first block of the side chain
Init ==
    \E wallet \in Wallets :
        blocks = <<[parent |-> NoBlock, uncles |-> {}, height |-> 0, difficulty |-> MinDifficulty,
                    cumulative |-> MinDifficulty, time |-> 0, wallet |-> wallet]>>

Next == \E tip \in Ids, wallet \in Wallets : \E step \in ClockSteps[wallet] : Mine(tip, wallet, step)

Spec == Init /\ [][Next]_blocks

-----------------------------------------------------------------------------
(* Properties                                                              *)

\* Every block of the side chain has its members, and knows only older blocks
TypeOK ==
    \A b \in Ids :
        /\ blocks[b].parent \in 0 .. b - 1 /\ blocks[b].uncles \subseteq 1 .. b - 1
        /\ Height(b) \in Nat
        /\ Difficulty(b) >= MinDifficulty /\ blocks[b].cumulative \in Nat
        /\ blocks[b].time \in Int /\ blocks[b].wallet \in Wallets

\* Blocks do not change, so a property of every tip is checked when it is the newest
Newest == Len(blocks)

\* The blocks that the window of tip pays
Paid(tip) == Chain(tip) \cup UNION {UnclesIn(tip, b) : b \in Chain(tip)}

\* A block is paid once and in full, as a block or as an uncle with its penalty going
\* to its nephew: the weights add up to the difficulties of the distinct blocks in
\* the window, at its edges and wherever the rounding falls.
WindowPaidOnce ==
    LET shares == get_shares(Newest)
    IN  SumFunction([i \in DOMAIN shares |-> shares[i].weight]) = Work(Paid(Newest))

\* Wallets are precalculated by get_wallets and paid by get_shares: they are the
\* same, each with one output.
OneOutputPerWallet ==
    LET shares == get_shares(Newest)
    IN  /\ {shares[i].wallet : i \in DOMAIN shares} = get_wallets(Newest)
        /\ \A i, j \in DOMAIN shares : i < j => shares[i].wallet < shares[j].wallet

\* What every node computes for a block's payout: all the work in the window, once,
\* and one output for each wallet.
PayoutIsRight == WindowPaidOnce /\ OneOutputPerWallet

\* The blocks below b and all their uncles
History(b) ==
    LET chain == {Ancestor(b, i) : i \in 0 .. Height(b)}
    IN  chain \cup UNION {blocks[a].uncles : a \in chain}

\* m_cumulativeDifficulty, by which chains of one origin are compared, counts no
\* work twice and none that was not done.
CumulativeIsWorkDone == blocks[Newest].cumulative = Work(History(Newest))

\* A miner with the fastest clock of the window can not change the next difficulty by
\* setting it further forward, as long as it is less than TimeModulus (2^32 seconds)
\* ahead of the oldest timestamp: timestamps beyond the cut do not count.  A clock that
\* is further ahead wraps to a small difference and does count: verify does not limit
\* timestamps.
FastClockIsIgnored ==
    LET paid == Paid(Newest)
        time == Timestamps
        difficulty == get_difficulty(Newest)
    IN  \A b \in paid :
            /\ Cardinality(Entries(Newest)) > CutPart
            /\ \A c \in paid \ {b} : time[c] < time[b]
            => \A d \in 1 .. TimeModulus :
                  (\A c \in paid : time[b] + d - time[c] < TimeModulus)
                  => get_difficulty_at(Newest, [time EXCEPT ![b] = @ + d]) = difficulty

=============================================================================
