----------------------------- MODULE MerkleTree -----------------------------
(***************************************************************************)
(* The transaction tree of a Monero block, twice: PoolBlock::get_pow_hash  *)
(* makes it from the list of all hashes; BlockTemplate keeps the branch of *)
(* the miner transaction and makes the root again for every extra nonce.   *)
(* keccak is the free constructor: two trees are the same only if they     *)
(* are.                                                                    *)
(***************************************************************************)
EXTENDS Integers, Sequences

Hash(a, b) == <<a, b>>

\* cnt, doubled d times
Cnt(d) ==
    LET cnt[i \in 0 .. d] == IF i = 0 THEN 1 ELSE 2 * cnt[i - 1]
    IN  cnt[d]

\* Number of halvings from the first full level to the root; its size is the
\* largest power of two not above the number of hashes
Depth(h) == CHOOSE d \in 0 .. Len(h) : Cnt(d) <= Len(h) /\ Len(h) < Cnt(d + 1)

\* Hashes that move up alone
Alone(h) == Cnt(Depth(h) + 1) - Len(h)

\* The first full level: some hashes alone, the rest in pairs
FirstLevel(h) ==
    [j \in 1 .. Cnt(Depth(h)) |->
        IF j <= Alone(h) THEN h[j] ELSE Hash(h[2 * j - Alone(h) - 1], h[2 * j - Alone(h)])]

Halved(level) == [j \in 1 .. Len(level) \div 2 |-> Hash(level[2 * j - 1], level[2 * j])]

\* Every level, by the number of halvings
Levels(h) ==
    LET level[i \in 0 .. Depth(h)] == IF i = 0 THEN FirstLevel(h) ELSE Halved(level[i - 1])
    IN  level

\* get_pow_hash: the root of the whole list
Root(h) == Levels(h)[Depth(h)][1]

\* Mutant of MainBranch: the neighbours in the order from the root
MainBranchFromRoot(h) == [i \in 1 .. Depth(h) |-> Levels(h)[Depth(h) - i][2]]

\* calc_merkle_tree_main_branch: the neighbour of the first entry on every level
MainBranch(h) == [i \in 1 .. Depth(h) |-> Levels(h)[i - 1][2]]

\* get_hashing_blob: the root from the first hash and its branch
RootFromBranch(first, branch) ==
    LET root[i \in 0 .. Len(branch)] == IF i = 0 THEN first ELSE Hash(root[i - 1], branch[i])
    IN  root[Len(branch)]

=============================================================================
