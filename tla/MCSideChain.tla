---------------------------- MODULE MCSideChain ----------------------------
(* Small block trees for SideChain.  A table gives the data of blocks      *)
(* 1, 2, 3, ...                                                            *)
EXTENDS SideChain

Mainchain == 2

B(parent, uncles, height, difficulty, cumulative) ==
    [parent |-> parent, uncles |-> uncles, height |-> height, difficulty |-> difficulty,
     cumulative |-> cumulative, next |-> 1, gen |-> Mainchain, mainKnown |-> TRUE,
     payout |-> TRUE, pow |-> TRUE]

Genesis == B(0, <<>>, 0, 1, 1)

AnyOrder(S) == [b \in S |-> {}]

(* Forks, uncles, an invalid block with a block on top of it, and a block  *)
(* found by our own miners; shorter than the depth verify skips.  8 comes  *)
(* after the others, before or after 7; they come in any order.            *)
(*     1 - 2 - 4(3) - 6(5) - 9         7 pays wrong outputs                *)
(*      \ 3  \ 5   \ 7 - 8             9 and 10 are ours; 10 would have     *)
(*                                    7 as an uncle                        *)
ForkInfo ==
    <<Genesis, B(1, <<>>, 1, 1, 2), B(1, <<>>, 1, 1, 2), B(2, <<3>>, 2, 1, 4),
      B(2, <<>>, 2, 1, 3), B(4, <<5>>, 3, 1, 6),
      [B(4, <<>>, 3, 1, 5) EXCEPT !.payout = FALSE], B(7, <<>>, 4, 1, 6),
      B(6, <<>>, 4, 1, 7), B(6, <<7>>, 4, 1, 8)>>
ForkBlocks == 1 .. Len(ForkInfo)
ForkAfter == [AnyOrder(ForkBlocks) EXCEPT ![8] = 1 .. 6]

(* Two chains with nothing in common, whose lowest blocks (12 and 13) never *)
(* come; 6 - 10 has the lower heights and three times the difficulty, is    *)
(* mined at mainchain heights 2 and 3 and may come too late, and 11 is ours. *)
(* 1 - 5 are too easy once the heavy chain is the tip; 14 is an uncle of 3.  *)
(* The heavy chain comes after 3; prune_delay may pass at any time.         *)
(*     12 . 1 - 2 - 3(14) - 4 - 5       13 . 6 - 7 - 8 - 9 - 10 - 11        *)
(*           \ 14                                                           *)
AltInfo ==
    LET Light(parent, k, cumulative) == B(parent, <<>>, 2 + k, 1, cumulative)
        Heavy(parent, k, gen) ==
            [B(parent, <<>>, 1 + k, 3, 3 * k + 1) EXCEPT !.next = 3, !.gen = gen]
    IN <<Light(12, 1, 4), Light(1, 2, 5), [Light(2, 3, 7) EXCEPT !.uncles = <<14>>],
         Light(3, 4, 8), Light(4, 5, 9),
         Heavy(13, 1, 2), Heavy(6, 2, 2), Heavy(7, 3, 2), Heavy(8, 4, 3), Heavy(9, 5, 3),
         Heavy(10, 6, 3), Light(0, 0, 3), Heavy(0, 0, 2), Light(1, 2, 5)>>
AltBlocks == 1 .. Len(AltInfo)
AltAfter == [b \in AltBlocks |-> CASE b \in {12, 13} -> {b}
                                   [] b = 1 -> {}
                                   [] b = 6 -> {3}
                                   [] b = 3 -> {14}
                                   [] b = 14 -> {2}
                                   [] OTHER -> {b - 1}]

=============================================================================
