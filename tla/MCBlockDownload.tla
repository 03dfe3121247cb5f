--------------------------- MODULE MCBlockDownload ---------------------------
(* The block download with a few peers and blocks.                         *)
EXTENDS BlockDownload, TLC
Symmetry == Permutations(Blocks)
=============================================================================
