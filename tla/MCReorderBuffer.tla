-------------------------- MODULE MCReorderBuffer --------------------------
(* Values for the constants of ReorderBuffer.                              *)
EXTENDS ReorderBuffer, TLC

(* Two clients that may do anything are interchangeable.                   *)
ThreadSymmetry == Permutations(Threads)

(* Every mixture of small capacities and thresholds: no promotion at all,  *)
(* thresholds below, at and above the capacity.                            *)
SmallConfigs == [start_seq : {1}, capacity : {1, 2}, missing_k : 0 .. 3]

(* A buffer with no room, no promotion and thresholds at and above the     *)
(* capacity, started close enough to the largest seq_t for the frontier    *)
(* to wrap.                                                                *)
WrapConfigs == [start_seq : {2}, capacity : 0 .. 2, missing_k : 0 .. 2]

ZeroCapacity == {[start_seq |-> 1, capacity |-> 0, missing_k |-> 1]}

=============================================================================
