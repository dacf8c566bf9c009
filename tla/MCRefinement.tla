---------------------------- MODULE MCRefinement ----------------------------
(* Values for the constants of ReorderBufferRefinement.                    *)
EXTENDS ReorderBufferRefinement, TLC

ThreadSymmetry == Permutations(Threads)

SmallConfigs == [start_seq : {1}, capacity : 0 .. 2, missing_k : 0 .. 3]

=============================================================================
