-------------------------- MODULE TemplateContents --------------------------
(***************************************************************************)
(* What BlockTemplate::update puts into a template: transactions from the  *)
(* mempool, the reward, the miner transaction padded to its expected size, *)
(* and the Merkle branch.  split_reward is module SplitReward, called      *)
(* twice, or four times when the padding would not fit.                    *)
(*                                                                         *)
(* A transaction of the mempool is represented by its age.  The time       *)
(* inside an update is not modelled: update() copies the transactions      *)
(* under the mempool's lock, and what happens to the mempool later is the  *)
(* same after it.                                                          *)
(***************************************************************************)
EXTENDS SplitReward, MerkleTree, FiniteSets, SequencesExt

CONSTANTS
    Txs,               \* transactions of the Monero network
    Fee(_), Weight(_),
    Delay,             \* age at which a transaction may be mined (10 s)
    MaxTxs,            \* most transactions taken from the mempool (1000)
    ExtraNonces,       \* extra nonces the template is used with
    ZeroNonce,         \* the one it is made with
    Inputs,            \* [generated, median, weights]: miner data and PPLNS shares
    Supply,            \* ~0
    EmissionDivisor,   \* 2^19
    MinReward,         \* the tail emission
    VarintBase,        \* values of a varint's byte (128)
    TxOverhead,        \* bytes of a miner transaction besides outputs and extra nonce
    OutputSize,        \* bytes of an output besides its amount
    NonceSize,         \* EXTRA_NONCE_SIZE
    NonceMaxSize       \* EXTRA_NONCE_MAX_SIZE

ASSUME TemplateContentsAssumption ==
    /\ IsFiniteSet(Txs)
    /\ \A t \in Txs : Fee(t) \in Nat \ {0} /\ Weight(t) \in Nat \ {0}   \* handle_tx
    /\ {Delay, MaxTxs, EmissionDivisor, NonceSize} \subseteq Nat \ {0}
    /\ {Supply, MinReward, TxOverhead, OutputSize} \subseteq Nat
    /\ VarintBase \in Nat \ {0, 1}
    /\ NonceMaxSize \in Nat /\ NonceSize <= NonceMaxSize
    /\ ZeroNonce \in ExtraNonces
    /\ \A i \in Inputs : /\ i.generated \in 0 .. Supply /\ i.median \in Nat \ {0}
                         /\ i.weights \in Seq(Nat \ {0}) /\ i.weights # <<>>

VARIABLES
    mempool,        \* m_transactions: age of each transaction, Delay at most
    stage,          \* where update() is; "idle" outside of it
    data,           \* the input of this update
    chosen,         \* m_mempoolTxs
    order,          \* m_mempoolTxsOrder
    pos,            \* i of the picking loop, from 1
    finalReward, finalFees, finalWeight,
    maxAmounts,     \* max_reward_amounts_weight
    minerSize,      \* miner_tx_weight
    nonceSize,      \* m_extraNonceSize
    branch          \* m_merkleTreeMainBranch

locals == <<data, chosen, order, pos, finalReward, finalFees, finalWeight, maxAmounts, minerSize,
            nonceSize, branch>>
vars == <<mempool, stage, locals, splitVars>>

-----------------------------------------------------------------------------
(* The mempool                                                             *)

Pooled == DOMAIN mempool

\* handle_tx: a transaction from ZMQ; a known one is skipped
HandleTx(t) ==
    /\ stage = "idle" /\ t \notin Pooled
    /\ mempool' = [u \in Pooled \cup {t} |-> IF u = t THEN 0 ELSE mempool[u]]
    /\ UNCHANGED <<stage, locals, splitVars>>

\* Known transactions keep the time they were received at
AgeAfterSwap(t) == IF t \in Pooled THEN mempool[t] ELSE 0

\* swap: the backlog of new miner data replaces the mempool
Swap(backlog) ==
    /\ stage = "idle"
    /\ mempool' = [t \in backlog |-> AgeAfterSwap(t)]
    /\ UNCHANGED <<stage, locals, splitVars>>

Tick ==
    /\ stage = "idle"
    /\ mempool' = [t \in Pooled |-> IF mempool[t] < Delay THEN mempool[t] + 1 ELSE Delay]
    /\ UNCHANGED <<stage, locals, splitVars>>

-----------------------------------------------------------------------------
(* Rewards and sizes                                                       *)

TotalFees(txs) == SumFunctionOnSet([t \in Txs |-> Fee(t)], txs)
TotalWeight(txs) == SumFunctionOnSet([t \in Txs |-> Weight(t)], txs)

\* Number of bytes writeVarint makes
VarintSize(v) ==
    LET size[n \in 0 .. v] == IF n < VarintBase THEN 1 ELSE 1 + size[n \div VarintBase]
    IN  size[v]

get_base_reward(generated) ==
    Max({(Supply - generated) \div EmissionDivisor, MinReward})

BaseReward == get_base_reward(data.generated)

\* The part of the base reward that a block of this weight keeps: Monero's penalty
get_block_reward(fees, weight) ==
    IF weight <= data.median THEN BaseReward + fees
    ELSE IF weight > data.median * 2 THEN 0
    ELSE (BaseReward * ((data.median * 2 - weight) * weight)) \div (data.median * data.median) + fees

\* get_reward_amounts_weight
AmountsWeight == SumFunction([i \in DOMAIN rewards |-> VarintSize(rewards[i])])

\* create_miner_tx: the extra nonce fills what the amounts do not need
NonceFor(expected) == NonceSize + expected - AmountsWeight

\* Size of the miner transaction create_miner_tx makes of the rewards
MinerTxSize(nonce) == TxOverhead + Len(shares) * OutputSize + AmountsWeight + nonce

-----------------------------------------------------------------------------
(* update()                                                                *)

\* More fee per byte
Better(t, u) == Fee(t) * Weight(u) > Fee(u) * Weight(t)

\* The transactions that are old enough; MaxTxs of the best ones if there are more
TxChoices ==
    LET eligible == {t \in Pooled : mempool[t] >= Delay}
    IN  {c \in SUBSET eligible :
            /\ Cardinality(c) = Min({MaxTxs, Cardinality(eligible)})
            /\ \A t \in c, u \in eligible \ c : ~Better(u, t)}

\* update() up to the split of the largest reward.  Data of a later hard fork make
\* it return at once.
Update(input) ==
    /\ stage = "idle" /\ stage' = "max"
    /\ data' = input
    /\ chosen' \in TxChoices
    /\ SplitCall(input.weights, get_base_reward(input.generated) + TotalFees(chosen'))
    /\ UNCHANGED <<mempool, order, pos, finalReward, finalFees, finalWeight, maxAmounts,
                   minerSize, nonceSize, branch>>

\* split_reward at work
Split ==
    /\ stage # "idle" /\ SplitStep
    /\ UNCHANGED <<mempool, stage, locals>>

\* The transactions of the template in any order, their fees and weights added up,
\* and the reward split
Collect(txs, size) ==
    /\ order' \in SetToSeqs(txs)
    /\ finalFees' = TotalFees(txs)
    /\ finalWeight' = size + TotalWeight(txs)
    /\ finalReward' = get_block_reward(finalFees', finalWeight')
    /\ SplitCall(shares, finalReward')
    /\ stage' = "final"

\* The dry run of create_miner_tx; then all the transactions if they come without
\* a penalty, or the picking loop over the list sorted by fee per byte
DryRun ==
    /\ stage = "max" /\ phase = "true"
    /\ maxAmounts' = AmountsWeight
    /\ minerSize' = MinerTxSize(NonceSize)
    /\ pos' = 1
    /\ \/ /\ TotalWeight(chosen) + minerSize' <= data.median
          /\ Collect(chosen, minerSize')
       \/ /\ TotalWeight(chosen) + minerSize' > data.median
          /\ order' \in {s \in SetToSeqs(chosen) :
                            \A i, j \in DOMAIN s : i < j => ~Better(s[j], s[i])}
          /\ finalReward' = BaseReward /\ finalFees' = 0 /\ finalWeight' = minerSize'
          /\ stage' = "pick"
          /\ UNCHANGED splitVars
    /\ UNCHANGED <<mempool, data, chosen, nonceSize, branch>>

FeeAt(j) == IF j = 0 THEN 0 ELSE Fee(order[j])
WeightAt(j) == IF j = 0 THEN 0 ELSE Weight(order[j])

\* Fees and weight with the transaction at pos, instead of the one at j if j # 0
FeesWith(j) == finalFees + FeeAt(pos) - FeeAt(j)
WeightWith(j) == finalWeight + WeightAt(pos) - WeightAt(j)
RewardWith(j) == get_block_reward(FeesWith(j), WeightWith(j))

\* Transactions are replaced only above the median
Replaceable == IF WeightWith(0) > data.median THEN 1 .. pos - 1 ELSE {}

\* Mutant of Dropped: every transaction is worth its fee
DroppedNone == 0

\* What the loop erases: the first of the best replacements, nothing (0) if the
\* transaction helps as it is, or else the transaction itself
Dropped ==
    LET best == {j \in Replaceable : /\ RewardWith(j) > Max({finalReward, RewardWith(0)})
                                     /\ \A i \in Replaceable : RewardWith(i) <= RewardWith(j)}
    IN  IF best # {} THEN Min(best) ELSE IF RewardWith(0) > finalReward THEN 0 ELSE pos

Erased(j) == RemoveAt(order, j)

\* One round of the picking loop
PickTx ==
    /\ stage = "pick" /\ pos <= Len(order)
    /\ order' = IF Dropped = 0 THEN order ELSE Erased(Dropped)
    /\ pos' = IF Dropped = 0 THEN pos + 1 ELSE pos
    /\ finalReward' = IF Dropped = pos THEN finalReward ELSE RewardWith(Dropped)
    /\ finalFees' = FeesWith(Dropped)
    /\ finalWeight' = WeightWith(Dropped)
    /\ UNCHANGED <<mempool, stage, data, chosen, maxAmounts, minerSize, nonceSize, branch, splitVars>>

EndOfPicking ==
    /\ stage = "pick" /\ pos > Len(order)
    /\ Collect(ToSet(order), minerSize)
    /\ UNCHANGED <<mempool, data, chosen, pos, maxAmounts, minerSize, nonceSize, branch>>

MinerTxHash(nonce) == <<nonce>>

\* A miner transaction that fits makes the template complete
Finish ==
    /\ nonceSize' = NonceFor(maxAmounts)
    /\ branch' = MainBranch(<<MinerTxHash(ZeroNonce)>> \o order)
    /\ stage' = "done"

\* What create_miner_tx returns in the real run: -2, -3 or 1
TooLarge == AmountsWeight > maxAmounts
TooSmall == ~TooLarge /\ NonceFor(maxAmounts) > NonceMaxSize
Fits == ~TooLarge /\ ~TooSmall

\* The real run; the largest reward of this block is split when there is too much to fill
RealRun ==
    /\ stage = "final" /\ phase = "true"
    /\ \/ /\ Fits
          /\ Finish
          /\ UNCHANGED splitVars
       \/ /\ TooSmall
          /\ LET least == Max({finalWeight - Len(rewards), 0})
             IN  SplitCall(shares, get_block_reward(finalFees, least))
          /\ stage' = "refine"
          /\ UNCHANGED <<nonceSize, branch>>
    /\ UNCHANGED <<mempool, data, chosen, order, pos, finalReward, finalFees, finalWeight,
                   maxAmounts, minerSize>>

\* Mutant of Refined: the reward stays
RefinedReward(weight) == finalReward

\* The reward of the block with the other miner transaction
Refined(weight) == get_block_reward(finalFees, weight)

\* The second dry run, and the reward that follows from it
Refine ==
    /\ stage = "refine" /\ phase = "true"
    /\ maxAmounts' = AmountsWeight
    /\ minerSize' = MinerTxSize(NonceSize)
    /\ finalWeight' = finalWeight - minerSize + minerSize'
    /\ finalReward' = Refined(finalWeight')
    /\ SplitCall(shares, finalReward')
    /\ stage' = "again"
    /\ UNCHANGED <<mempool, data, chosen, order, pos, finalFees, nonceSize, branch>>

RealRunAgain ==
    /\ stage = "again" /\ phase = "true" /\ Fits
    /\ Finish
    /\ UNCHANGED <<mempool, data, chosen, order, pos, finalReward, finalFees, finalWeight,
                   maxAmounts, minerSize, splitVars>>

\* split_reward fails, or the miner transaction can not have its expected size
Failed ==
    \/ phase = "false"
    \/ phase = "true" /\ stage \in {"final", "again"} /\ TooLarge
    \/ phase = "true" /\ stage = "again" /\ TooSmall

\* use_old_template: it assigns to the template that update() has locked, so update()
\* goes no further
UseOldTemplate ==
    /\ stage # "locked" /\ Failed
    /\ stage' = "locked"
    /\ UNCHANGED <<mempool, locals, splitVars>>

Nothing == [generated |-> 0, median |-> 1, weights |-> <<1>>]

\* The vectors that update() leaves empty, and what nobody reads before the next one
Return ==
    /\ stage = "done" /\ stage' = "idle"
    /\ data' = Nothing /\ chosen' = {} /\ order' = <<>> /\ pos' = 1
    /\ finalReward' = 0 /\ finalFees' = 0 /\ finalWeight' = 0
    /\ maxAmounts' = 0 /\ minerSize' = 0 /\ nonceSize' = NonceSize /\ branch' = <<>>
    /\ SplitCall(<<>>, 0)
    /\ UNCHANGED mempool

Init ==
    /\ mempool = [t \in {} |-> 0]
    /\ stage = "idle"
    /\ data = Nothing /\ chosen = {} /\ order = <<>> /\ pos = 1
    /\ finalReward = 0 /\ finalFees = 0 /\ finalWeight = 0
    /\ maxAmounts = 0 /\ minerSize = 0 /\ nonceSize = NonceSize /\ branch = <<>>
    /\ shares = <<>> /\ reward = 0 /\ phase = "sum" /\ k = 0 /\ total = 0
    /\ w = 0 /\ given = 0 /\ paid = 0 /\ rewards = <<>>
    /\ weightOf = [j \in {0} |-> 0] /\ givenAt = [j \in {0} |-> 0]

UpdateStep ==
    \/ Split \/ DryRun \/ PickTx \/ EndOfPicking \/ RealRun \/ Refine \/ RealRunAgain
    \/ UseOldTemplate \/ Return

Next ==
    \/ \E t \in Txs : HandleTx(t)
    \/ \E backlog \in SUBSET Txs : Swap(backlog)
    \/ Tick
    \/ \E input \in Inputs : Update(input)
    \/ UpdateStep

Spec == Init /\ [][Next]_vars

-----------------------------------------------------------------------------
(* Properties                                                              *)

\* Every variable of an update and of split_reward has its type
TypeOK ==
    /\ Pooled \subseteq Txs /\ \A t \in Pooled : mempool[t] \in 0 .. Delay
    /\ stage \in {"idle", "max", "pick", "final", "refine", "again", "done", "locked"}
    /\ data \in Inputs \cup {Nothing}
    /\ chosen \subseteq Txs /\ order \in Seq(Txs)
    /\ pos \in 1 .. Len(order) + 1
    /\ {finalReward, finalFees, finalWeight, maxAmounts, minerSize} \subseteq Nat
    /\ nonceSize \in NonceSize .. NonceMaxSize
    /\ SplitTypeOK

\* monerod accepts the block only if it pays the reward of its fees and its weight:
\* the outputs add up to that, with the weight the miner transaction has after the
\* padding, whether it was refined or not.
PaysTheRewardOfItsWeight ==
    stage = "done" =>
        SumFunction(rewards) = get_block_reward(TotalFees(ToSet(order)),
                                                MinerTxSize(nonceSize) + TotalWeight(ToSet(order)))

\* "final_reward < base_reward, this should never happen": whatever is picked and
\* replaced, the template is worth the base reward at least.
WorthTheBaseReward ==
    stage \in {"final", "refine", "again", "done"} => finalReward >= BaseReward

\* The picking loop keeps its sums up to date through every replacement: they are
\* those of the transactions picked so far, and so is the reward.
SumsFollowThePicks ==
    stage = "pick" =>
        LET picked == {order[i] : i \in 1 .. pos - 1}
        IN  /\ finalFees = TotalFees(picked)
            /\ finalWeight = minerSize + TotalWeight(picked)
            /\ finalReward = get_block_reward(finalFees, finalWeight)

\* Adding and replacing transactions pays: with the sums right at every step, the
\* penalty for a heavy block never eats up what the fees bring.
PickingPays == SumsFollowThePicks /\ WorthTheBaseReward

\* The miners hash what the other nodes verify: for every extra nonce, the branch
\* kept by the template leads to the root of the whole list of transactions.
BranchLeadsToRoot ==
    stage = "done" =>
        \A e \in ExtraNonces :
            RootFromBranch(MinerTxHash(e), branch) = Root(<<MinerTxHash(e)>> \o order)

=============================================================================
