---------------------------- MODULE MCP2PoolCore ----------------------------
(* P2PoolCore for TLC: what the environment may do in one behaviour.       *)
EXTENDS P2PoolCore

Plan(b, f, n, t, s) ==
    [blocks |-> b, failures |-> f, finds |-> n, tips |-> t, stops |-> s]

\* Two new blocks; a block and a failure; a block and a stop; two found blocks and a stop;
\* a found block and two new tips; a failure and a stop
MCBudget == {Plan(2, 0, 0, 0, 0), Plan(1, 1, 0, 0, 0), Plan(1, 0, 0, 0, 1), Plan(0, 0, 2, 0, 1),
             Plan(0, 0, 1, 2, 0), Plan(0, 1, 0, 0, 1)}

=============================================================================
