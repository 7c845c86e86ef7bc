----------------------------- MODULE MCBlockSync -----------------------------
(* BlockSync with five blocks; block 3 is an uncle of block 4 *)
EXTENDS BlockSync, TLC

CONSTANTS p1, p2

MCAnc == <<{}, {1}, {1}, {2, 3}, {2}>>

S(who, mine, has1, has2, entry, new, faults, crashes) ==
    [peers |-> who, blocks |-> mine, has |-> (p1 :> has1 @@ p2 :> has2),
     disk |-> [i \in 0 .. CacheSize - 1 |-> entry], new |-> new,
     faults |-> faults, crashes |-> crashes]

MCSetups ==
    {S({p1}, {}, {1, 2, 3}, {}, 0, {}, 0, 1),           \* a crash during the first sync
     S({p1}, {}, {1, 2, 3}, {}, 2, {}, 1, 1),           \* a fault too, and a full cache file
     S({p1}, {}, {1, 2}, {}, 2, {}, 2, 0),              \* two faults, one after the other
     S({p1}, {1, 3}, {1}, {}, 0, {2, 4}, 1, 0),         \* broadcasts of a block with an uncle
     S(Peer, {1}, {1}, {1}, 0, {2}, 0, 0),              \* a broadcast that comes from two sides
     S(Peer, {}, {1, 2}, {1}, 1, {}, 1, 0),             \* a peer that has less, and a cached block
     S(Peer, {5}, {1, 2, 5}, {2}, 0, {}, 0, 0)}         \* a peer that has an orphan

=============================================================================
