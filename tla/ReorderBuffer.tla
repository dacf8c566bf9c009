--------------------------- MODULE ReorderBuffer ---------------------------
(***************************************************************************)
(* The class ReorderBuffer (include/streamguard/reorder_buffer.hpp,        *)
(* src/reorder_buffer.cpp): client threads push sequence numbers in any    *)
(* order and take out contiguous runs in order.                            *)
(*                                                                         *)
(* Every public member function holds mu_ from its first line to its       *)
(* return.  A call that only looks at its arguments and the state once is  *)
(* one action; a call with a loop is one action per iteration, mu_ being   *)
(* held in between, so the loops of the code are loops of the behaviour    *)
(* and the invariants below are loop invariants too.  The watchdog's       *)
(* alive() is an unconstrained Boolean here; GuardedBuffer composes this   *)
(* module with the Watchdog.                                               *)
(*                                                                         *)
(* A definition introduced by "Mistake:" is the next one with one slip of  *)
(* the pen in it.  No behaviour below uses it; putting it in place of the  *)
(* definition it precedes shows that the properties notice the slip.       *)
(***************************************************************************)
EXTENDS Naturals, Sequences, FiniteSets

CONSTANTS
  Threads,    \* client threads that share one buffer
  NoThread,   \* value of mu_ while nobody holds it
  Watchdogs,  \* Watchdog objects a client may install
  NoWatchdog, \* the null shared_ptr
  MaxSeq,     \* the largest seq_t (2^64 - 1 in the build)
  Configs,    \* the ReorderConfig values a buffer may be constructed with
  Inputs,     \* the sequence numbers clients push
  MaxPushes   \* bound on the number of push() calls

seq_t == 0 .. MaxSeq

ReorderConfig == [start_seq : seq_t, capacity : Nat, missing_k : Nat]

(* The fields of the struct; a ReorderStats is a record with these names.  *)
Counters ==
  {"received", "emitted", "dropped_duplicate", "dropped_too_old", "evicted",
   "missing_k_promotions", "missing_k_dropped"}

ReorderStats == [Counters -> Nat]

ASSUME BufferAssumption ==
  /\ NoThread \notin Threads
  /\ NoWatchdog \notin Watchdogs
  /\ MaxSeq \in Nat
  /\ Configs \subseteq ReorderConfig
  /\ Inputs \subseteq seq_t
  /\ MaxPushes \in Nat

VARIABLES
  cfg_,                \* constructor argument, never assigned again
  mu_,                 \* holder of the mutex, or NoThread
  next_expected_,      \* the frontier: where the in-order stream resumes
  stats_,              \* the counters
  watchdog_,           \* the installed watchdog, or NoWatchdog
  watchdog_gate_open_, \* sticky once alive() was observed
  pending_,            \* buffered, not yet emitted
  promoted_missing_,   \* sequence numbers given up at the frontier
  pc,                  \* where each thread is inside a call
  seq,                 \* argument of the push() each thread is in
  out,                 \* local vector of the try_emit() each thread is in
  emitted,             \* history: everything emitted, in the order of mu_
  arrived              \* history: everything ever pushed

vars == <<cfg_, mu_, next_expected_, stats_, watchdog_, watchdog_gate_open_,
          pending_, promoted_missing_, pc, seq, out, emitted, arrived>>

gateVars == <<watchdog_, watchdog_gate_open_>>

ZeroStats ==
  [received |-> 0, emitted |-> 0,
   dropped_duplicate |-> 0, dropped_too_old |-> 0, evicted |-> 0,
   missing_k_promotions |-> 0, missing_k_dropped |-> 0]

Init ==
  /\ cfg_ \in Configs
  /\ mu_ = NoThread
  /\ next_expected_ = cfg_.start_seq
  /\ stats_ = ZeroStats
  /\ watchdog_ = NoWatchdog
  /\ watchdog_gate_open_ = FALSE
  /\ pending_ = {}
  /\ promoted_missing_ = {}
  /\ pc = [t \in Threads |-> "idle"]
  /\ seq = [t \in Threads |-> 0]
  /\ out = [t \in Threads |-> <<>>]
  /\ emitted = <<>>
  /\ arrived = {}

-----------------------------------------------------------------------------
(* The mutex.  A call that needs one step takes and releases mu_ in it.    *)

(* Mistake: a member function that takes no lock. *)
NoLock(t) == pc[t] = "idle"

CanLock(t) == pc[t] = "idle" /\ mu_ = NoThread

Lock(t, label) ==
  /\ mu_' = t
  /\ pc' = [pc EXCEPT ![t] = label]

Unlock(t) ==
  /\ mu_' = NoThread
  /\ pc' = [pc EXCEPT ![t] = "idle"]

(* Mistake: arithmetic wider than seq_t. *)
SuccWide(s) == s + 1

(* Mistake: the increment is left out. *)
SuccStuck(s) == s

(* ++next_expected_ on an unsigned integer. *)
Succ(s) == IF s = MaxSeq THEN 0 ELSE s + 1

-----------------------------------------------------------------------------
(* Mistake: the gate stays as the last watchdog left it. *)
GateAsItWas == watchdog_gate_open_

(* The gate opens only when alive() is observed, never by an installation. *)
GateOnInstall == FALSE

(* set_watchdog(wd): installing any watchdog, the null one included, shuts *)
(* the gate again.                                                         *)
SetWatchdog(t, wd) ==
  /\ CanLock(t)
  /\ watchdog_' = wd
  /\ watchdog_gate_open_' = GateOnInstall
  /\ UNCHANGED <<cfg_, mu_, next_expected_, stats_, pending_,
                 promoted_missing_, pc, seq, out, emitted, arrived>>

-----------------------------------------------------------------------------
(* push(s).  The branches differ in what they count; each counts received. *)

(* Below the frontier: late for a promoted number, too old for any other.  *)
DropBelowFrontier(s) ==
  /\ s < next_expected_
  /\ stats_' = IF s \in promoted_missing_
               THEN [stats_ EXCEPT !.received = @ + 1, !.missing_k_dropped = @ + 1]
               ELSE [stats_ EXCEPT !.received = @ + 1, !.dropped_too_old = @ + 1]
  /\ UNCHANGED <<mu_, pc, pending_, seq>>

DropDuplicate(s) ==
  /\ s >= next_expected_
  /\ s \in pending_
  /\ stats_' = [stats_ EXCEPT !.received = @ + 1, !.dropped_duplicate = @ + 1]
  /\ UNCHANGED <<mu_, pc, pending_, seq>>

(* Mistake: >= capacity + 1 was meant, > capacity + 1 is tested. *)
OverfullLate(held) == Cardinality(held) > cfg_.capacity + 1

Overfull(held) == Cardinality(held) > cfg_.capacity

(* Buffered; only a number that is not the frontier itself can start the   *)
(* relief of capacity pressure.                                            *)
Insert(t, s) ==
  /\ s >= next_expected_
  /\ s \notin pending_
  /\ pending_' = pending_ \cup {s}
  /\ stats_' = [stats_ EXCEPT !.received = @ + 1]
  /\ IF Overfull(pending_') /\ s # next_expected_
     THEN Lock(t, "pressure") /\ seq' = [seq EXCEPT ![t] = s]
     ELSE UNCHANGED <<mu_, pc, seq>>

Push(t, s) ==
  /\ CanLock(t)
  /\ stats_.received < MaxPushes
  /\ arrived' = arrived \cup {s}
  /\ DropBelowFrontier(s) \/ DropDuplicate(s) \/ Insert(t, s)
  /\ UNCHANGED <<cfg_, next_expected_, gateVars, promoted_missing_, out, emitted>>

(* Numbers buffered strictly beyond the frontier. *)
count_beyond_frontier == Cardinality({s \in pending_ : s > next_expected_})

(* Mistake: the number waited for is not looked up first. *)
CanPromoteItem ==
  cfg_.missing_k > 0 /\ count_beyond_frontier >= cfg_.missing_k

(* Mistake: promotes one newer item too early. *)
CanPromoteEarly ==
  /\ cfg_.missing_k > 0
  /\ next_expected_ \notin pending_
  /\ count_beyond_frontier + 1 >= cfg_.missing_k

(* The frontier is a gap and at least missing_k newer numbers wait.        *)
CanPromote ==
  /\ cfg_.missing_k > 0
  /\ next_expected_ \notin pending_
  /\ count_beyond_frontier >= cfg_.missing_k

(* Mistake: which number was given up is not remembered. *)
GivenUpForgotten == promoted_missing_

GivenUp == promoted_missing_ \cup {next_expected_}

PromoteFrontier ==
  /\ CanPromote
  /\ promoted_missing_' = GivenUp
  /\ stats_' = [stats_ EXCEPT !.missing_k_promotions = @ + 1]
  /\ next_expected_' = Succ(next_expected_)

(* One iteration of maintenance_promote_under_pressure_unsafe().           *)
PromoteUnderPressure(t) ==
  /\ pc[t] = "pressure"
  /\ PromoteFrontier
  /\ UNCHANGED <<cfg_, mu_, gateVars, pending_, pc, seq, out, emitted, arrived>>

(* Mistake: the loop goes round again when the frontier is buffered. *)
PromotionsStuck == ~CanPromote /\ next_expected_ \notin pending_

(* Neither loop has anything left to promote. *)
PromotionsOver == ~CanPromote

(* Mistake: the nearest item goes. *)
IsNearest(s, held) == \A r \in held : r >= s

IsFarthest(s, held) == \A r \in held : r <= s

(* Mistake: only the displacement of an older item is counted. *)
CountDisplaced(t) ==
  stats_' = IF seq[t] \in pending_'
            THEN [stats_ EXCEPT !.evicted = @ + 1] ELSE stats_

CountEviction(t) == stats_' = [stats_ EXCEPT !.evicted = @ + 1]

(* The promotions are over: evict_farthest_future_unsafe() and the return  *)
(* of push().  The candidate is dropped unless something farther is there  *)
(* to make room for it; it is in pending_ already, so that is not empty.   *)
(* Promotions take nothing out of pending_, so the test for "still full"   *)
(* that precedes the eviction never fails (CapacityBound).                 *)
EvictFarthest(t) ==
  /\ pc[t] = "pressure"
  /\ PromotionsOver
  /\ \E max_pending \in pending_ :
       /\ IsFarthest(max_pending, pending_)
       /\ \/ seq[t] >= max_pending /\ pending_' = pending_ \ {seq[t]}
          \/ seq[t] < max_pending /\ pending_' = pending_ \ {max_pending}
  /\ CountEviction(t)
  /\ seq' = [seq EXCEPT ![t] = 0]
  /\ Unlock(t)
  /\ UNCHANGED <<cfg_, next_expected_, gateVars, promoted_missing_, out, emitted, arrived>>

-----------------------------------------------------------------------------
(* try_emit(). *)

(* Mistake: a gate that opened is not remembered. *)
GateForgotten == watchdog_ # NoWatchdog

(* alive() has to be asked. *)
GateShut == watchdog_ # NoWatchdog /\ ~watchdog_gate_open_

TryEmit(t) ==
  /\ CanLock(t)
  /\ Lock(t, IF GateShut THEN "gate" ELSE "emit")
  /\ UNCHANGED <<cfg_, next_expected_, stats_, gateVars, pending_,
                 promoted_missing_, seq, out, emitted, arrived>>

(* watchdog_->alive() answered true: the gate opens and stays open.        *)
OpenGate(t) ==
  /\ pc[t] = "gate"
  /\ watchdog_gate_open_' = TRUE
  /\ pc' = [pc EXCEPT ![t] = "emit"]
  /\ UNCHANGED <<cfg_, mu_, next_expected_, stats_, watchdog_, pending_,
                 promoted_missing_, seq, out, emitted, arrived>>

(* Mistake: try_emit() waits until the watchdog is alive. *)
AskOnceMore(t) == pc[t] = "gate" /\ UNCHANGED vars

(* It answered false: try_emit() returns an empty batch.                   *)
StayShut(t) ==
  /\ pc[t] = "gate"
  /\ Unlock(t)
  /\ UNCHANGED <<cfg_, next_expected_, stats_, gateVars, pending_,
                 promoted_missing_, seq, out, emitted, arrived>>

EmitFrontier(t) ==
  /\ pc[t] = "emit"
  /\ next_expected_ \in pending_
  /\ out' = [out EXCEPT ![t] = Append(@, next_expected_)]
  /\ emitted' = Append(emitted, next_expected_)
  /\ pending_' = pending_ \ {next_expected_}
  /\ next_expected_' = Succ(next_expected_)
  /\ UNCHANGED <<cfg_, mu_, stats_, gateVars, promoted_missing_, pc, seq, arrived>>

PromoteWhileEmitting(t) ==
  /\ pc[t] = "emit"
  /\ PromoteFrontier
  /\ UNCHANGED <<cfg_, mu_, gateVars, pending_, pc, seq, out, emitted, arrived>>

ReturnBatch(t) ==
  /\ pc[t] = "emit"
  /\ next_expected_ \notin pending_
  /\ PromotionsOver
  /\ stats_' = [stats_ EXCEPT !.emitted = @ + Len(out[t])]
  /\ out' = [out EXCEPT ![t] = <<>>]
  /\ Unlock(t)
  /\ UNCHANGED <<cfg_, next_expected_, gateVars, pending_, promoted_missing_,
                 seq, emitted, arrived>>

-----------------------------------------------------------------------------

(* What a thread does once it is inside a call. *)
Continue(t) ==
  \/ PromoteUnderPressure(t)
  \/ EvictFarthest(t)
  \/ OpenGate(t)
  \/ StayShut(t)
  \/ EmitFrontier(t)
  \/ PromoteWhileEmitting(t)
  \/ ReturnBatch(t)

Next ==
  \E t \in Threads :
    \/ \E s \in Inputs : Push(t, s)
    \/ \E wd \in Watchdogs \cup {NoWatchdog} : SetWatchdog(t, wd)
    \/ TryEmit(t)
    \/ Continue(t)

Spec == Init /\ [][Next]_vars

(* A thread inside a call keeps running, and some client goes on calling   *)
(* try_emit(), as both loops of run_sim do.  Nobody has to push.           *)
Fairness ==
  /\ \A t \in Threads : WF_vars(Continue(t))
  /\ WF_vars(\E t \in Threads : TryEmit(t))

FairSpec == Spec /\ Fairness

-----------------------------------------------------------------------------
(* Properties. *)

Emitted == {emitted[i] : i \in 1 .. Len(emitted)}

(* Emitted by the call in progress, not yet added to stats_.emitted.       *)
InFlight == IF mu_ \in Threads THEN Len(out[mu_]) ELSE 0

UnderPressure == \E t \in Threads : pc[t] = "pressure"

(* Every variable holds a value of its C++ type.                           *)
TypeOK ==
  /\ cfg_ \in Configs
  /\ mu_ \in Threads \cup {NoThread}
  /\ next_expected_ \in seq_t
  /\ stats_ \in ReorderStats
  /\ watchdog_ \in Watchdogs \cup {NoWatchdog}
  /\ watchdog_gate_open_ \in BOOLEAN
  /\ pending_ \subseteq seq_t
  /\ promoted_missing_ \subseteq seq_t
  /\ pc \in [Threads -> {"idle", "pressure", "gate", "emit"}]
  /\ seq \in [Threads -> seq_t]
  /\ out \in [Threads -> Seq(seq_t)]
  /\ emitted \in Seq(seq_t)
  /\ arrived \subseteq Inputs

(* Whatever the interleaving, every pushed item is accounted for exactly   *)
(* once: emitted, still buffered, or in one of the four drop counters of   *)
(* ReorderStats.  A snapshot taken by stats() between two calls therefore  *)
(* adds up.                                                                *)
Conservation ==
  stats_.received = stats_.emitted + InFlight + Cardinality(pending_)
                    + stats_.dropped_duplicate + stats_.dropped_too_old
                    + stats_.missing_k_dropped + stats_.evicted

(* The buffer holds at most capacity items, one more only while the        *)
(* frontier itself is among them, and one more again only while a push()   *)
(* is relieving the pressure it caused; that push() always finds the       *)
(* buffer overfull, so it always evicts.                                   *)
CapacityBound ==
  /\ Cardinality(pending_) <= cfg_.capacity
                              + (IF next_expected_ \in pending_ THEN 1 ELSE 0)
                              + (IF UnderPressure THEN 1 ELSE 0)
  /\ UnderPressure => Cardinality(pending_) > cfg_.capacity

(* Nothing below the frontier is buffered: what push() let in is never     *)
(* passed over by a promotion, in push() or in try_emit().                 *)
PendingAhead == \A s \in pending_ : s >= next_expected_

(* Below the frontier every number was either emitted or given up, never   *)
(* both: no gap is silent, and a number given up is never emitted later.   *)
ExactlyOnce ==
  /\ Emitted \cup promoted_missing_ = cfg_.start_seq .. (next_expected_ - 1)
  /\ Emitted \cap promoted_missing_ = {}

(* What was given up had been overtaken by missing_k arrivals, so neither  *)
(* loop ever runs past the numbers that arrived, and promoted_missing_,    *)
(* which is never pruned, grows with the distance of the arrivals only.    *)
GapsJustified ==
  \A s \in promoted_missing_ :
    /\ cfg_.missing_k > 0
    /\ Cardinality({a \in arrived : a > s}) >= cfg_.missing_k

(* Over all calls of all threads the emitted stream is strictly            *)
(* increasing, and only what was pushed is emitted.                        *)
EmittedInOrder ==
  /\ \A i, j \in 1 .. Len(emitted) : i < j => emitted[i] < emitted[j]
  /\ Emitted \cup pending_ \subseteq arrived

(* As long as nothing was evicted, every number that arrived and is not    *)
(* before the start is emitted, buffered, or one the frontier gave up: no  *)
(* branch of push() drops what the stream still needs.                     *)
NothingVanishes ==
  stats_.evicted = 0 =>
    {s \in arrived : s >= cfg_.start_seq} \subseteq Emitted \cup pending_ \cup promoted_missing_

(* Arrived, of this stream, and gone without having been emitted. *)
Forfeited == {s \in arrived : s >= cfg_.start_seq} \ (Emitted \cup pending_)

(* Every number that arrived and has been lost, neither emitted nor still  *)
(* buffered, is paid for by an eviction or a late drop.  So a reader of    *)
(* the counters can bound what the buffer lost, and duplicates and         *)
(* repeats, which lose nothing, never stand in for a loss.                 *)
LossesCounted == Cardinality(Forfeited) <= stats_.evicted + stats_.missing_k_dropped

(* The counters locate the frontier: it is the start plus one for every    *)
(* item emitted and one for every promotion counted.                       *)
FrontierAccounted ==
  /\ next_expected_ = cfg_.start_seq + stats_.emitted + InFlight
                      + stats_.missing_k_promotions
  /\ stats_.missing_k_promotions = Cardinality(promoted_missing_)

(* Items leave through an open gate only: with a watchdog installed,       *)
(* nothing is emitted unless alive() was observed since set_watchdog(),    *)
(* even when another thread calls set_watchdog() between two emissions.    *)
EmitThroughOpenGate ==
  [][emitted' # emitted => watchdog_ = NoWatchdog \/ watchdog_gate_open_]_vars

(* An item that is ready to be emitted leaves the buffer by being emitted, *)
(* never by an eviction: the case push() singles out.                      *)
ReadyNeverEvicted ==
  [][(next_expected_ \in pending_ /\ next_expected_ \notin pending_')
       => emitted' = Append(emitted, next_expected_)]_vars

(* Numbers an iteration of a loop may still pass. *)
LeftToPass == {n \in seq_t : next_expected_ <= n /\ \E a \in arrived : n <= a}

(* Each iteration of a loop uses up one of the numbers between the         *)
(* frontier and the largest arrival, so however far those are apart, the   *)
(* call that holds mu_ has as many iterations at most.                     *)
IterationsRunOut ==
  [][\A t \in Threads :
       pc[t] \in {"pressure", "emit"} /\ pc'[t] = pc[t]
         => Cardinality(LeftToPass') < Cardinality(LeftToPass)]_vars

(* Every call returns: neither loop runs forever, and no thread keeps mu_. *)
CallsReturn == \A t \in Threads : pc[t] # "idle" ~> pc[t] = "idle"

GateIsOpen == watchdog_ = NoWatchdog \/ watchdog_gate_open_

(* Once the buffer holds the frontier, or missing_k newer items, it moves  *)
(* on, even where it wraps, or the gate is shut.  A buffer of capacity 0   *)
(* may evict what it could emit (the run zero_capacity).                   *)
FrontierMoves ==
  \A f \in seq_t :
    (cfg_.capacity > 0 /\ next_expected_ = f /\ (f \in pending_ \/ CanPromote))
      ~> (next_expected_ # f \/ ~GateIsOpen)

-----------------------------------------------------------------------------
(* What the repository says and the code does not do: see the README.      *)

(* reorder_buffer.cpp:50 on the frontier that push() lets into a full      *)
(* buffer: "try_emit() will immediately consume it and restore capacity".  *)
CapacityRestored ==
  [][\A t \in Threads : pc[t] \in {"gate", "emit"} /\ pc'[t] = "idle"
       => Cardinality(pending_') <= cfg_.capacity]_vars

=============================================================================
