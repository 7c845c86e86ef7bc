------------------------------ MODULE MCPplns ------------------------------
(***************************************************************************)
(* Six blocks over a window of three, with forks at the tip.  One miner's  *)
(* blocks come a bit slower than they should, the other one's clock stops  *)
(* or runs far ahead.                                                      *)
(***************************************************************************)
EXTENDS Pplns

MCClockSteps == <<{3}, {0, 5}>>

=============================================================================
