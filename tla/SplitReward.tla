---------------------------- MODULE SplitReward ----------------------------
(***************************************************************************)
(* SideChain::split_reward, one step per iteration of its three loops: the *)
(* sum of the weights, the split, and the double check of the rewards.     *)
(* Products are exact, as umul128 / udiv128 make them.  TemplateContents    *)
(* calls it for every template; SplitSpec is any sequence of calls.         *)
(***************************************************************************)
EXTENDS Integers, Sequences

VARIABLES
    shares,    \* the weights of this call
    reward,    \* the reward of this call
    phase,     \* "sum", "split", "check", then "true" or "false"
    k,         \* shares handled in this phase
    total,     \* total_weight
    w,         \* weight handled by the split so far
    given,     \* reward_given
    rewards,   \* the result
    paid,      \* the double check's sum of the rewards
    weightOf,  \* history: total_weight after each share
    givenAt    \* history: reward_given after each share

splitVars == <<shares, reward, phase, k, total, w, given, rewards, paid, weightOf, givenAt>>

\* std::accumulate over the weights
AddWeight ==
    /\ phase = "sum" /\ k < Len(shares)
    /\ k' = k + 1
    /\ total' = total + shares[k + 1]
    /\ weightOf' = [weightOf EXCEPT ![k + 1] = total']
    /\ UNCHANGED <<shares, reward, phase, w, given, rewards, paid, givenAt>>

\* Nothing is done when there is nothing to divide by
CheckTotal ==
    /\ phase = "sum" /\ k = Len(shares)
    /\ phase' = IF total = 0 THEN "false" ELSE "split"
    /\ k' = 0
    /\ UNCHANGED <<shares, reward, total, w, given, rewards, paid, weightOf, givenAt>>

\* Mutants of NextValue: floors every share on its own; gives the remainder to the
\* last share
NextValueOfShare == given + (shares[k + 1] * reward) \div total
NextValueOfUnits ==
    IF k + 1 = Len(shares) THEN reward ELSE (w + shares[k + 1]) * (reward \div total)

\* The reward of the first k + 1 shares together
NextValue == ((w + shares[k + 1]) * reward) \div total

GiveReward ==
    /\ phase = "split" /\ k < Len(shares)
    /\ k' = k + 1
    /\ w' = w + shares[k + 1]
    /\ given' = NextValue
    /\ rewards' = [rewards EXCEPT ![k + 1] = NextValue - given]
    /\ givenAt' = [givenAt EXCEPT ![k + 1] = NextValue]
    /\ UNCHANGED <<shares, reward, phase, total, paid, weightOf>>

AllGiven ==
    /\ phase = "split" /\ k = Len(shares)
    /\ phase' = "check" /\ k' = 0
    /\ UNCHANGED <<shares, reward, total, w, given, rewards, paid, weightOf, givenAt>>

AddReward ==
    /\ phase = "check" /\ k < Len(shares)
    /\ k' = k + 1
    /\ paid' = paid + rewards[k + 1]
    /\ UNCHANGED <<shares, reward, phase, total, w, given, rewards, weightOf, givenAt>>

CheckPaid ==
    /\ phase = "check" /\ k = Len(shares)
    /\ phase' = IF paid # reward THEN "false" ELSE "true"
    /\ UNCHANGED <<shares, reward, k, total, w, given, rewards, paid, weightOf, givenAt>>

\* A call: what its variables start with
SplitCall(weights, amount) ==
    /\ shares' = weights /\ reward' = amount
    /\ phase' = "sum" /\ k' = 0 /\ total' = 0
    /\ w' = 0 /\ given' = 0 /\ paid' = 0
    /\ rewards' = [j \in 1 .. Len(weights) |-> 0]
    /\ weightOf' = [j \in 0 .. Len(weights) |-> 0]
    /\ givenAt' = [j \in 0 .. Len(weights) |-> 0]

\* The first call may be with any weights and any reward
SplitInit ==
    /\ shares \in Seq(Nat) /\ reward \in Nat
    /\ phase = "sum" /\ k = 0 /\ total = 0
    /\ w = 0 /\ given = 0 /\ paid = 0
    /\ rewards = [j \in 1 .. Len(shares) |-> 0]
    /\ weightOf = [j \in 0 .. Len(shares) |-> 0]
    /\ givenAt = [j \in 0 .. Len(shares) |-> 0]

SplitStep == AddWeight \/ CheckTotal \/ GiveReward \/ AllGiven \/ AddReward \/ CheckPaid

\* Other calls follow, as soon as one has returned
SplitNext ==
    \/ SplitStep
    \/ /\ phase \in {"true", "false"}
       /\ \E weights \in Seq(Nat), amount \in Nat : SplitCall(weights, amount)

SplitSpec == SplitInit /\ [][SplitNext]_splitVars

-----------------------------------------------------------------------------
Phases == {"sum", "split", "check", "true", "false"}

\* Every variable of split_reward has its type
SplitTypeOK ==
    /\ shares \in Seq(Nat) /\ reward \in Nat
    /\ phase \in Phases
    /\ k \in 0 .. Len(shares)
    /\ total \in Nat /\ w \in Nat /\ given \in Nat /\ paid \in Nat
    /\ rewards \in [1 .. Len(shares) -> Nat]
    /\ weightOf \in [0 .. Len(shares) -> Nat]
    /\ givenAt \in [0 .. Len(shares) -> Nat]

\* "miners got incorrect reward. This should never happen because math says so":
\* split_reward fails only if there is no weight at all.
RewardIsExact == phase = "false" => total = 0

\* Nobody wins or loses a whole atomic unit by the rounding: every reward differs
\* from the exact proportion by less than one unit.
RoundingIsFair ==
    phase = "true" =>
      \A j \in 1 .. Len(shares) :
        /\ rewards[j] * total < shares[j] * reward + total
        /\ shares[j] * reward < rewards[j] * total + total

=============================================================================
