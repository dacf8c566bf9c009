---------------------------- MODULE AtomicBuffer ----------------------------
(***************************************************************************)
(* The ReorderBuffer as its callers may think of it: every public call is  *)
(* one indivisible step, and the loops inside push() and try_emit() are    *)
(* replaced by where they end, the first number at which nothing moves the *)
(* frontier any further.  The frontier does not wrap here: the largest     *)
(* seq_t is not among the inputs.                                          *)
(***************************************************************************)
EXTENDS Naturals, FiniteSets

CONSTANTS
  Watchdogs, NoWatchdog, \* as in ReorderBuffer
  MaxSeq,                \* the largest seq_t
  Configs,               \* the ReorderConfig values
  Inputs                 \* the sequence numbers clients push

VARIABLES
  cfg, next_expected, stats, watchdog, gate_open, pending, promoted,
  emitted \* the set of numbers emitted; StreamContract tells their order

vars == <<cfg, next_expected, stats, watchdog, gate_open, pending, promoted, emitted>>

-----------------------------------------------------------------------------
(* The frontier after the loops.                                           *)

Gap(held, k, n) ==
  /\ n \notin held
  /\ k = 0 \/ Cardinality({s \in held : s > n}) < k

(* First number from n on that satisfies Stop. *)
First(n, Stop(_)) ==
  CHOOSE m \in n .. MaxSeq : Stop(m) /\ \A j \in n .. (m - 1) : ~Stop(j)

(* Promotions alone stop at a gap with too few newer items, or at an item. *)
PromotionEnd(held, k, n) ==
  First(n, LAMBDA m : m \in held \/ Gap(held, k, m))

(* try_emit() passes items as well, so it stops at such a gap only.        *)
EmissionEnd(held, k, n) == First(n, LAMBDA m : Gap(held, k, m))

Farthest(held) == CHOOSE m \in held : \A s \in held : s <= m

-----------------------------------------------------------------------------

Init ==
  /\ cfg \in Configs
  /\ next_expected = cfg.start_seq
  /\ stats = [received |-> 0, emitted |-> 0, dropped_duplicate |-> 0,
              dropped_too_old |-> 0, evicted |-> 0,
              missing_k_promotions |-> 0, missing_k_dropped |-> 0]
  /\ watchdog = NoWatchdog
  /\ gate_open = FALSE
  /\ pending = {}
  /\ promoted = {}
  /\ emitted = {}

SetWatchdog(wd) ==
  /\ watchdog' = wd
  /\ gate_open' = FALSE
  /\ UNCHANGED <<cfg, next_expected, stats, pending, promoted, emitted>>

(* A push that is dropped on arrival only counts. *)
Drop(s) ==
  /\ s < next_expected \/ s \in pending
  /\ LET late == s < next_expected /\ s \in promoted
         old  == s < next_expected /\ s \notin promoted
         Bump(counter, when) == counter + (IF when THEN 1 ELSE 0)
     IN stats' = [stats EXCEPT
                    !.received = @ + 1,
                    !.missing_k_dropped = Bump(@, late),
                    !.dropped_too_old = Bump(@, old),
                    !.dropped_duplicate = Bump(@, s >= next_expected)]
  /\ UNCHANGED <<next_expected, pending, promoted>>

(* A push that fits, or that is the frontier itself. *)
Keep(s) ==
  /\ s >= next_expected /\ s \notin pending
  /\ Cardinality(pending) < cfg.capacity \/ s = next_expected
  /\ pending' = pending \cup {s}
  /\ stats' = [stats EXCEPT !.received = @ + 1]
  /\ UNCHANGED <<next_expected, promoted>>

(* A push into a full buffer: promote what can be promoted, then evict the *)
(* farthest item, which may be the new one.                                *)
Relieve(s) ==
  /\ s > next_expected /\ s \notin pending
  /\ Cardinality(pending) >= cfg.capacity
  /\ LET held == pending \cup {s}
         end  == PromotionEnd(held, cfg.missing_k, next_expected)
     IN /\ pending' = held \ {Farthest(held)}
        /\ next_expected' = end
        /\ promoted' = promoted \cup (next_expected .. (end - 1))
        /\ stats' = [stats EXCEPT
                       !.received = @ + 1, !.evicted = @ + 1,
                       !.missing_k_promotions = @ + (end - next_expected)]

Push(s) ==
  /\ Drop(s) \/ Keep(s) \/ Relieve(s)
  /\ UNCHANGED <<cfg, watchdog, gate_open, emitted>>

(* try_emit() past the gate; a shut gate changes nothing. *)
TryEmit ==
  /\ gate_open' \in {gate_open, watchdog # NoWatchdog}
  /\ watchdog = NoWatchdog \/ gate_open'
  /\ LET end   == EmissionEnd(pending, cfg.missing_k, next_expected)
         batch == pending \cap (next_expected .. (end - 1))
         gaps  == (next_expected .. (end - 1)) \ pending
     IN /\ next_expected' = end
        /\ pending' = pending \ batch
        /\ emitted' = emitted \cup batch
        /\ promoted' = promoted \cup gaps
        /\ stats' = [stats EXCEPT
                       !.emitted = @ + Cardinality(batch),
                       !.missing_k_promotions = @ + Cardinality(gaps)]
  /\ UNCHANGED <<cfg, watchdog>>

Next ==
  \/ \E wd \in Watchdogs \cup {NoWatchdog} : SetWatchdog(wd)
  \/ \E s \in Inputs : Push(s)
  \/ TryEmit

Spec == Init /\ [][Next]_vars

=============================================================================
