--------------------------- MODULE MCOutputsBlob ---------------------------
(* Instances of OutputsBlob: a pool with a thread to spare, and a pool in  *)
(* which every thread can be busy with a block.                            *)
EXTENDS OutputsBlob

=============================================================================
