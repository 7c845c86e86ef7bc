-------------------------- MODULE MCP2PConnection --------------------------
(* Two nodes, of the same side chain or of two different ones.             *)
EXTENDS P2PConnection

OneChain == [n \in Node |-> 1]
TwoChains == [n \in Node |-> IF n = CHOOSE m \in Node : TRUE THEN 1 ELSE 2]

Peers == {[chain |-> OneChain, foreign |-> {}, failures |-> FALSE, sends |-> 2]}
FailingPeers == {[chain |-> OneChain, foreign |-> {}, failures |-> TRUE, sends |-> 1]}
Strangers == {[chain |-> TwoChains, foreign |-> {}, failures |-> FALSE, sends |-> 2]}
\* A node of the same side chain that talks out of turn
Talkers == {[chain |-> OneChain, foreign |-> {n}, failures |-> FALSE, sends |-> 2] : n \in Synced}
\* A node of another side chain that asks for blocks before the handshake is over
TalkingStrangers ==
    {[chain |-> TwoChains, foreign |-> {n}, failures |-> FALSE, sends |-> 2] : n \in Synced}
Everyone == Peers \cup FailingPeers \cup Strangers \cup Talkers \cup TalkingStrangers

=============================================================================
