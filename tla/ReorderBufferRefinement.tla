---------------------- MODULE ReorderBufferRefinement ----------------------
(***************************************************************************)
(* The lock-level ReorderBuffer implements the two abstractions:           *)
(* StreamContract, step by step, and AtomicBuffer, in which a call takes   *)
(* effect at its last decision: push() when it starts to relieve pressure, *)
(* try_emit() when it is past the gate.  What the rest of that call will   *)
(* do is already determined, because mu_ is held.                          *)
(***************************************************************************)
EXTENDS ReorderBuffer

(* The frontier does not wrap: the largest seq_t is never pushed.          *)
ASSUME NoWrap == \A s \in Inputs : s < MaxSeq

Contract == INSTANCE StreamContract WITH
  cfg <- cfg_, frontier <- next_expected_, delivered <- emitted,
  given_up <- promoted_missing_

(* The stream that leaves the buffer, under any interleaving of the        *)
(* clients, is one StreamContract allows: each number is decided once, in  *)
(* order, and given up only when missing_k newer ones had arrived.         *)
ImplementsContract == Contract!Spec

-----------------------------------------------------------------------------

Emitting == \E t \in Threads : pc[t] = "emit"

(* The pure operators of AtomicBuffer: what its loops lead to.             *)
Loops == INSTANCE AtomicBuffer WITH
  cfg <- cfg_, next_expected <- next_expected_, stats <- stats_,
  watchdog <- watchdog_, gate_open <- watchdog_gate_open_,
  pending <- pending_, promoted <- promoted_missing_, emitted <- Emitted

(* Where the frontier will be when the call that holds mu_ returns.        *)
FinalFrontier ==
  CASE UnderPressure -> Loops!PromotionEnd(pending_, cfg_.missing_k, next_expected_)
    [] Emitting      -> Loops!EmissionEnd(pending_, cfg_.missing_k, next_expected_)
    [] OTHER         -> next_expected_

(* What it will still pass over. *)
Ahead == next_expected_ .. (FinalFrontier - 1)

FinalPending ==
  IF UnderPressure THEN pending_ \ {Loops!Farthest(pending_)} ELSE pending_ \ Ahead

FinalStats ==
  [stats_ EXCEPT
     !.emitted = @ + (InFlight + Cardinality(pending_ \cap Ahead)),
     !.missing_k_promotions = @ + Cardinality(Ahead \ pending_),
     !.evicted = @ + (IF UnderPressure THEN 1 ELSE 0)]

FinalPromoted == promoted_missing_ \cup (Ahead \ pending_)

FinalEmitted == Emitted \cup (pending_ \cap Ahead)

Atomic == INSTANCE AtomicBuffer WITH
  cfg <- cfg_, next_expected <- FinalFrontier, stats <- FinalStats,
  watchdog <- watchdog_, gate_open <- watchdog_gate_open_,
  pending <- FinalPending, promoted <- FinalPromoted, emitted <- FinalEmitted

(* Every call of every thread looks indivisible: frontier, buffer, set of  *)
(* promoted numbers, gate and all seven counters are those of a history in *)
(* which the calls were made one after the other.                          *)
ImplementsAtomicBuffer == Atomic!Spec

=============================================================================
