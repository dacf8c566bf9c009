--------------------------- MODULE StreamContract ---------------------------
(***************************************************************************)
(* What a ReorderBuffer promises the reader of its stream, with no buffer, *)
(* lock, watchdog or counter in sight: one frontier that only moves        *)
(* forward, one number at a time, and decides the fate of every number     *)
(* once.  The number at the frontier is delivered if it arrived, or given  *)
(* up when at least missing_k later numbers have arrived.                  *)
(***************************************************************************)
EXTENDS Naturals, Sequences, FiniteSets

CONSTANTS
  Configs, \* the ReorderConfig values a stream may be opened with
  Inputs   \* the numbers that may arrive

VARIABLES
  cfg,       \* fixed when the stream is opened
  frontier,  \* the number whose fate is decided next
  delivered, \* what the reader got, in order
  given_up,  \* what the reader will never get
  arrived    \* what the writers handed in

vars == <<cfg, frontier, delivered, given_up, arrived>>

Init ==
  /\ cfg \in Configs
  /\ frontier = cfg.start_seq
  /\ delivered = <<>>
  /\ given_up = {}
  /\ arrived = {}

Arrive(s) ==
  /\ arrived' = arrived \cup {s}
  /\ UNCHANGED <<cfg, frontier, delivered, given_up>>

Deliver ==
  /\ frontier \in arrived
  /\ delivered' = Append(delivered, frontier)
  /\ frontier' = frontier + 1
  /\ UNCHANGED <<cfg, given_up, arrived>>

GiveUp ==
  /\ cfg.missing_k > 0
  /\ Cardinality({s \in arrived : s > frontier}) >= cfg.missing_k
  /\ given_up' = given_up \cup {frontier}
  /\ frontier' = frontier + 1
  /\ UNCHANGED <<cfg, delivered, arrived>>

Next == (\E s \in Inputs : Arrive(s)) \/ Deliver \/ GiveUp

Spec == Init /\ [][Next]_vars

=============================================================================
