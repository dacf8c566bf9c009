--------------------------- MODULE MCGuardedBuffer ---------------------------
(* Values for the constants of GuardedBuffer.                              *)
EXTENDS GuardedBuffer, TLC

CONSTANTS wd1, wd2

ShortTimeouts == (wd1 :> 0) @@ (wd2 :> 1)

(* A buffer whose every item is one too many unless it is the frontier, so *)
(* that two pushes reach the relief of pressure, and one with room.        *)
SmallConfigs == [start_seq : {1}, capacity : {0, 1}, missing_k : {1}]

=============================================================================
