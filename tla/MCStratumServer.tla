--------------------------- MODULE MCStratumServer ---------------------------
(* StratumServer with small budgets, one for each kind of trouble *)
EXTENDS StratumServer

MCBadPoints == -1
MCBanThreshold == -2

B(miners, connects, logins, submits, faults, updates, skips) ==
    [miners |-> miners, connects |-> connects, logins |-> logins, submits |-> submits,
     faults |-> faults, updates |-> updates, skips |-> skips]

MCBudget ==
    LET one == Honest IN
    {B(one, 3, 2, 0, 0, 2, 0),      \* connections that come and go
     B(one, 2, 2, 0, 1, 1, 0),      \* sends that fail
     B(one, 1, 1, 0, 0, 1, 1),      \* a template that is sent twice
     B(Miner, 2, 2, 2, 0, 0, 0),    \* a Client that two miners use
     B(one, 1, 1, 1, 1, 4, 0)}      \* shares for old jobs and templates

=============================================================================
