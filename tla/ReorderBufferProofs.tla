------------------------ MODULE ReorderBufferProofs ------------------------
(***************************************************************************)
(* What holds of ReorderBuffer for every set of threads, configuration,    *)
(* width of seq_t and number of calls.                                     *)
(***************************************************************************)
EXTENDS ReorderBuffer, FiniteSetTheorems, TLAPS

(* mu_ is held by exactly the thread that is inside a call. *)
LockInv == \A t \in Threads : pc[t] # "idle" <=> mu_ = t

(* The batch of a call is empty outside try_emit(), and the item a push()  *)
(* is relieving pressure for is still in the buffer.                       *)
LocalsInv ==
  \A t \in Threads : /\ pc[t] # "emit" => out[t] = <<>>
                     /\ pc[t] = "pressure" => seq[t] \in pending_

-----------------------------------------------------------------------------
(* Types. *)

(* An increment stays within the width of seq_t. *)
LEMMA SuccType == \A s \in seq_t : Succ(s) \in seq_t
  BY BufferAssumption DEF seq_t, Succ

(* The counters a buffer starts with. *)
LEMMA ZeroStatsType == ZeroStats \in ReorderStats
  BY DEF ZeroStats, ReorderStats, Counters

(* The constructor establishes the types. *)
LEMMA InitType == Init => TypeOK
  <1> SUFFICES ASSUME Init PROVE TypeOK
    OBVIOUS
  <1>1. cfg_ \in ReorderConfig /\ 0 \in seq_t
    BY BufferAssumption DEF Init, seq_t
  <1>2. next_expected_ \in seq_t
    BY <1>1 DEF Init, ReorderConfig
  <1>3. out \in [Threads -> Seq(seq_t)] /\ emitted \in Seq(seq_t)
    BY DEF Init
  <1>4. pc \in [Threads -> {"idle", "pressure", "gate", "emit"}]
    BY DEF Init
  <1> QED
    BY <1>1, <1>2, <1>3, <1>4, ZeroStatsType DEF Init, TypeOK

(* Whatever a step counts, the counters stay natural numbers.              *)
LEMMA NextStatsType == TypeOK /\ [Next]_vars => stats_' \in ReorderStats
  <1> SUFFICES ASSUME TypeOK, [Next]_vars PROVE stats_' \in ReorderStats
    OBVIOUS
  <1>0. stats_ \in ReorderStats
    BY DEF TypeOK
  <1>1. ASSUME NEW t \in Threads, NEW s \in Inputs, Push(t, s)
        PROVE stats_' \in ReorderStats
    <2> DEFINE Both(f) == [stats_ EXCEPT !.received = @ + 1, ![f] = @ + 1]
    <2>0. \A f \in Counters \ {"received"} : Both(f) \in ReorderStats
      BY <1>0 DEF ReorderStats, Counters
    <2>1. CASE DropBelowFrontier(s)
      BY <2>0, <2>1 DEF DropBelowFrontier, Counters
    <2>2. CASE DropDuplicate(s)
      BY <2>0, <2>2 DEF DropDuplicate, Counters
    <2>3. CASE Insert(t, s)
      BY <1>0, <2>3 DEF Insert, ReorderStats, Counters
    <2> QED
      BY <1>1, <2>1, <2>2, <2>3 DEF Push
  <1>2. ASSUME PromoteFrontier PROVE stats_' \in ReorderStats
    BY <1>0, <1>2 DEF PromoteFrontier, GivenUp, ReorderStats, Counters
  <1>3. ASSUME NEW t \in Threads, EvictFarthest(t) PROVE stats_' \in ReorderStats
    BY <1>0, <1>3 DEF EvictFarthest, CountEviction, ReorderStats, Counters
  <1>4. ASSUME NEW t \in Threads, ReturnBatch(t) PROVE stats_' \in ReorderStats
    <2>1. Len(out[t]) \in Nat
      BY DEF TypeOK
    <2>2. stats_' = [stats_ EXCEPT !.emitted = @ + Len(out[t])]
      BY <1>4 DEF ReturnBatch
    <2> QED
      BY <1>0, <2>1, <2>2 DEF ReorderStats, Counters
  <1>5. ASSUME UNCHANGED stats_ PROVE stats_' \in ReorderStats
    BY <1>0, <1>5
  <1> QED
    BY <1>1, <1>2, <1>3, <1>4, <1>5
    DEF Next, Continue, vars, SetWatchdog, GateOnInstall, TryEmit, OpenGate, StayShut,
        EmitFrontier, PromoteUnderPressure, PromoteWhileEmitting

(* Every step keeps the types. *)
LEMMA NextType == TypeOK /\ [Next]_vars => TypeOK'
  <1> SUFFICES ASSUME TypeOK, [Next]_vars PROVE TypeOK'
    OBVIOUS
  <1>0. stats_' \in ReorderStats
    BY NextStatsType
  <1> USE DEF TypeOK
  <1>1. ASSUME NEW t \in Threads, NEW s \in Inputs, Push(t, s) PROVE TypeOK'
    <2>1. s \in seq_t
      BY BufferAssumption
    <2>2. CASE DropBelowFrontier(s) \/ DropDuplicate(s)
      BY <1>0, <1>1, <2>1, <2>2 DEF Push, DropBelowFrontier, DropDuplicate, gateVars
    <2>3. CASE Insert(t, s)
      BY <1>0, <1>1, <2>1, <2>3 DEF Push, Insert, Lock, gateVars
    <2> QED
      BY <1>1, <2>2, <2>3 DEF Push
  <1>2. ASSUME NEW t \in Threads, NEW wd \in Watchdogs \cup {NoWatchdog},
               SetWatchdog(t, wd)
        PROVE TypeOK'
    BY <1>2 DEF SetWatchdog, GateOnInstall
  <1>3. ASSUME NEW t \in Threads, TryEmit(t) PROVE TypeOK'
    BY <1>3 DEF TryEmit, Lock, gateVars
  <1>4. ASSUME NEW t \in Threads, PromoteUnderPressure(t) \/ PromoteWhileEmitting(t)
        PROVE TypeOK'
    BY <1>0, <1>4, SuccType
    DEF PromoteUnderPressure, PromoteWhileEmitting, PromoteFrontier, GivenUp, gateVars
  <1>5. ASSUME NEW t \in Threads, EvictFarthest(t) PROVE TypeOK'
    <2>1. 0 \in seq_t
      BY BufferAssumption DEF seq_t
    <2> QED
      BY <1>0, <1>5, <2>1 DEF EvictFarthest, Unlock, gateVars
  <1>6. ASSUME NEW t \in Threads, OpenGate(t) \/ StayShut(t) PROVE TypeOK'
    BY <1>6 DEF OpenGate, StayShut, Unlock, gateVars
  <1>7. ASSUME NEW t \in Threads, EmitFrontier(t) PROVE TypeOK'
    BY <1>7, SuccType DEF EmitFrontier, gateVars
  <1>8. ASSUME NEW t \in Threads, ReturnBatch(t) PROVE TypeOK'
    BY <1>0, <1>8 DEF ReturnBatch, Unlock, gateVars
  <1>9. CASE UNCHANGED vars
    BY <1>9 DEF vars
  <1> QED
    BY <1>1, <1>2, <1>3, <1>4, <1>5, <1>6, <1>7, <1>8, <1>9 DEF Next, Continue

(* Every variable of the buffer keeps the type the code gives it, whatever *)
(* the clients call and however their calls interleave.                    *)
THEOREM TypeCorrect == Spec => []TypeOK
  BY InitType, NextType, PTL DEF Spec

-----------------------------------------------------------------------------
(* The lock and the locals it protects.  Every step is taken by the thread *)
(* that holds mu_, or by one that finds it free.                           *)

(* A call starts with mu_ free, and its steps are those of the holder. *)
LEMMA NextLock == TypeOK /\ LockInv /\ [Next]_vars => LockInv'
  <1> SUFFICES ASSUME TypeOK, LockInv, [Next]_vars PROVE LockInv'
    OBVIOUS
  <1>0. NoThread \notin Threads /\ pc \in [Threads -> {"idle", "pressure", "gate", "emit"}]
    BY BufferAssumption DEF TypeOK
  <1>1. CASE UNCHANGED <<mu_, pc>>
    BY <1>1 DEF LockInv
  <1>2. ASSUME NEW t \in Threads, NEW label \in {"pressure", "gate", "emit"},
               CanLock(t), Lock(t, label)
        PROVE LockInv'
    BY <1>0, <1>2 DEF LockInv, CanLock, Lock
  <1>3. ASSUME NEW t \in Threads, pc[t] # "idle", Unlock(t) PROVE LockInv'
    BY <1>0, <1>3 DEF LockInv, Unlock
  <1>4. ASSUME NEW t \in Threads, pc[t] = "gate", UNCHANGED mu_,
               pc' = [pc EXCEPT ![t] = "emit"]
        PROVE LockInv'
    BY <1>0, <1>4 DEF LockInv
  <1>5. ASSUME NEW t \in Threads, NEW s \in Inputs, Push(t, s) PROVE LockInv'
    BY <1>1, <1>2, <1>5 DEF Push, DropBelowFrontier, DropDuplicate, Insert
  <1>6. ASSUME NEW t \in Threads, TryEmit(t) PROVE LockInv'
    BY <1>2, <1>6 DEF TryEmit
  <1>7. ASSUME NEW t \in Threads, Continue(t) PROVE LockInv'
    BY <1>1, <1>3, <1>4, <1>7
    DEF Continue, PromoteUnderPressure, EvictFarthest, OpenGate, StayShut,
        EmitFrontier, PromoteWhileEmitting, ReturnBatch
  <1> QED
    BY <1>1, <1>5, <1>6, <1>7 DEF Next, SetWatchdog, GateOnInstall, vars

(* Nobody but the caller touches the locals of a call, or takes its item. *)
LEMMA NextLocals ==
  TypeOK /\ LockInv /\ LocalsInv /\ [Next]_vars => LocalsInv'
  <1> SUFFICES ASSUME TypeOK, LockInv, LocalsInv, [Next]_vars,
                      NEW u \in Threads
               PROVE  /\ pc'[u] # "emit" => out'[u] = <<>>
                      /\ pc'[u] = "pressure" => seq'[u] \in pending_'
    BY DEF LocalsInv
  <1>0. /\ NoThread \notin Threads
        /\ pc \in [Threads -> {"idle", "pressure", "gate", "emit"}]
        /\ seq \in [Threads -> seq_t]
        /\ out \in [Threads -> Seq(seq_t)]
    BY BufferAssumption DEF TypeOK
  <1>1. ASSUME NEW t \in Threads, NEW s \in Inputs, Push(t, s)
        PROVE  /\ pc'[u] # "emit" => out'[u] = <<>>
               /\ pc'[u] = "pressure" => seq'[u] \in pending_'
    BY <1>0, <1>1
    DEF Push, DropBelowFrontier, DropDuplicate, Insert, Lock, CanLock, LocalsInv
  <1>2. ASSUME NEW t \in Threads, TryEmit(t) \/ OpenGate(t) \/ StayShut(t)
        PROVE  /\ pc'[u] # "emit" => out'[u] = <<>>
               /\ pc'[u] = "pressure" => seq'[u] \in pending_'
    BY <1>0, <1>2
    DEF TryEmit, OpenGate, StayShut, Lock, Unlock, CanLock, LocalsInv
  <1>3. ASSUME NEW t \in Threads, EvictFarthest(t) \/ EmitFrontier(t) \/ ReturnBatch(t)
        PROVE  /\ pc'[u] # "emit" => out'[u] = <<>>
               /\ pc'[u] = "pressure" => seq'[u] \in pending_'
    BY <1>0, <1>3
    DEF EvictFarthest, EmitFrontier, ReturnBatch, Unlock, LocalsInv, LockInv
  <1>4. CASE UNCHANGED <<pc, seq, out, pending_>>
    BY <1>4 DEF LocalsInv
  <1> QED
    BY <1>1, <1>2, <1>3, <1>4
    DEF Next, Continue, SetWatchdog, GateOnInstall, PromoteUnderPressure, PromoteWhileEmitting, vars

(* Before the first call mu_ is free and the locals are empty. *)
LEMMA InitLocks == Init => LockInv /\ LocalsInv
  BY BufferAssumption DEF Init, LockInv, LocalsInv

(* What every later invariant rests on. *)
BaseInv == TypeOK /\ LockInv /\ LocalsInv

(* Types, lock and locals hold in every behaviour. *)
LEMMA BaseCorrect == Spec => []BaseInv
  <1>1. Init => BaseInv
    BY InitType, InitLocks DEF BaseInv
  <1>2. BaseInv /\ [Next]_vars => BaseInv'
    BY NextType, NextLock, NextLocals DEF BaseInv
  <1> QED
    BY <1>1, <1>2, PTL DEF Spec

-----------------------------------------------------------------------------
(* Sizes. *)

(* pending_ has a size that is a natural number. *)
LEMMA PendingFinite ==
  ASSUME TypeOK
  PROVE  IsFiniteSet(pending_) /\ Cardinality(pending_) \in Nat
  <1>1. MaxSeq \in Int /\ 0 \in Int
    BY BufferAssumption
  <1>2. IsFiniteSet(seq_t)
    BY <1>1, FS_Interval DEF seq_t
  <1>3. pending_ \in SUBSET seq_t
    BY DEF TypeOK
  <1>4. IsFiniteSet(pending_)
    BY <1>2, <1>3, FS_Subset
  <1> QED
    BY <1>4, FS_CardinalityType

(* What Insert and the two ways out do to the size of the buffer. *)
LEMMA PendingGrows ==
  ASSUME TypeOK, NEW s, s \notin pending_
  PROVE  Cardinality(pending_ \cup {s}) = Cardinality(pending_) + 1
  BY PendingFinite, FS_AddElement

(* Taking an item out makes pending_ smaller by one. *)
LEMMA PendingShrinks ==
  ASSUME TypeOK, NEW s \in pending_
  PROVE  Cardinality(pending_) = Cardinality(pending_ \ {s}) + 1
  <1>1. Cardinality(pending_ \ {s}) = Cardinality(pending_) - 1
    BY PendingFinite, FS_RemoveElement
  <1> QED
    BY <1>1, PendingFinite

(* The item an eviction takes out is the largest in the buffer.            *)
LEMMA EvictsLargest ==
  ASSUME BaseInv, NEW t \in Threads, EvictFarthest(t)
  PROVE  \E lost \in pending_ : /\ \A s \in pending_ : s <= lost
                               /\ pending_' = pending_ \ {lost}
  <1>1. seq[t] \in pending_ /\ \A s \in pending_ : s \in Nat
    BY BufferAssumption DEF BaseInv, LocalsInv, EvictFarthest, TypeOK, seq_t
  <1>2. PICK max_pending \in pending_ :
          /\ \A s \in pending_ : s <= max_pending
          /\ \/ seq[t] >= max_pending /\ pending_' = pending_ \ {seq[t]}
             \/ seq[t] < max_pending /\ pending_' = pending_ \ {max_pending}
    BY DEF EvictFarthest, IsFarthest
  <1>3. CASE seq[t] >= max_pending /\ pending_' = pending_ \ {seq[t]}
    <2>1. seq[t] = max_pending
      BY <1>1, <1>2, <1>3
    <2> QED
      BY <1>2, <1>3, <2>1
  <1>4. CASE pending_' = pending_ \ {max_pending}
    BY <1>2, <1>4
  <1> QED
    BY <1>2, <1>3, <1>4

-----------------------------------------------------------------------------
(* The frontier never passes an item of the buffer. *)

(* No step leaves a buffered item behind the frontier. *)
LEMMA NextAhead == TypeOK /\ PendingAhead /\ [Next]_vars => PendingAhead'
  <1> SUFFICES ASSUME TypeOK, PendingAhead, [Next]_vars PROVE PendingAhead'
    OBVIOUS
  <1>0. /\ MaxSeq \in Nat /\ next_expected_ \in 0 .. MaxSeq
        /\ \A s \in pending_ : s \in 0 .. MaxSeq /\ s >= next_expected_
    BY BufferAssumption DEF TypeOK, seq_t, PendingAhead
  <1>1. CASE pending_' \subseteq pending_ /\ UNCHANGED next_expected_
    BY <1>1 DEF PendingAhead
  <1>2. ASSUME NEW t \in Threads, NEW s \in Inputs, Push(t, s) PROVE PendingAhead'
    BY <1>1, <1>2
    DEF Push, DropBelowFrontier, DropDuplicate, Insert, PendingAhead
  <1>3. ASSUME PromoteFrontier, UNCHANGED pending_ PROVE PendingAhead'
    BY <1>0, <1>3 DEF PromoteFrontier, GivenUp, CanPromote, Succ, PendingAhead
  <1>4. ASSUME NEW t \in Threads, EmitFrontier(t) PROVE PendingAhead'
    BY <1>0, <1>4 DEF EmitFrontier, Succ, PendingAhead
  <1>5. ASSUME NEW t \in Threads, EvictFarthest(t) PROVE PendingAhead'
    BY <1>1, <1>5 DEF EvictFarthest
  <1> QED
    BY <1>1, <1>2, <1>3, <1>4, <1>5
    DEF Next, Continue, SetWatchdog, GateOnInstall, TryEmit, PromoteUnderPressure, OpenGate,
        StayShut, PromoteWhileEmitting, ReturnBatch, vars

(* No promotion, of either loop, ever skips a number that is buffered,     *)
(* whatever the thresholds and even where the frontier wraps around.       *)
THEOREM NothingSkipped == Spec => []PendingAhead
  <1>1. Init => PendingAhead
    BY DEF Init, PendingAhead
  <1> QED
    BY <1>1, NextAhead, TypeCorrect, PTL DEF Spec

-----------------------------------------------------------------------------
(* The size of the buffer. *)

SizeInv == BaseInv /\ PendingAhead /\ CapacityBound

(* No step fills the buffer beyond its bound. *)
LEMMA NextBound == SizeInv /\ [Next]_vars => CapacityBound'
  <1> SUFFICES ASSUME SizeInv, [Next]_vars PROVE CapacityBound'
    OBVIOUS
  <1>0. /\ TypeOK /\ LockInv /\ CapacityBound
        /\ cfg_.capacity \in Nat
        /\ Cardinality(pending_) \in Nat
        /\ pc \in [Threads -> {"idle", "pressure", "gate", "emit"}]
        /\ cfg_' = cfg_
    <2>1. cfg_ \in ReorderConfig
      BY BufferAssumption DEF SizeInv, BaseInv, TypeOK
    <2>2. cfg_' = cfg_
      BY DEF Next, Continue, vars, Push, SetWatchdog, GateOnInstall, TryEmit, OpenGate, StayShut,
         EmitFrontier, PromoteUnderPressure, EvictFarthest, PromoteWhileEmitting,
         ReturnBatch
    <2> QED
      BY <2>1, <2>2, PendingFinite DEF SizeInv, BaseInv, TypeOK, ReorderConfig
  <1>1. CASE UNCHANGED <<next_expected_, pending_, pc>>
    BY <1>0, <1>1 DEF CapacityBound, UnderPressure
  <1>2. ASSUME NEW t \in Threads, NEW s \in Inputs, Push(t, s) PROVE CapacityBound'
    <2>1. ~UnderPressure
      BY <1>0, <1>2, BufferAssumption DEF Push, CanLock, LockInv, UnderPressure
    <2>2. CASE DropBelowFrontier(s) \/ DropDuplicate(s)
      BY <1>1, <1>2, <2>2 DEF Push, DropBelowFrontier, DropDuplicate
    <2>3. CASE Insert(t, s)
      <3>1. /\ s \notin pending_ /\ pending_' = pending_ \cup {s}
            /\ next_expected_' = next_expected_
            /\ Cardinality(pending_') = Cardinality(pending_) + 1
        BY <1>0, <1>2, <2>3, PendingGrows DEF Push, Insert
      <3>2. CASE Cardinality(pending_') > cfg_.capacity /\ s # next_expected_
        <4>1. UnderPressure'
          BY <1>0, <2>3, <3>2 DEF Insert, Overfull, Lock, UnderPressure
        <4> QED
          BY <1>0, <2>1, <3>1, <3>2, <4>1 DEF CapacityBound
      <3>3. CASE ~(Cardinality(pending_') > cfg_.capacity /\ s # next_expected_)
        <4>1. ~UnderPressure'
          BY <2>1, <2>3, <3>3 DEF Insert, Overfull, UnderPressure
        <4> QED
          BY <1>0, <2>1, <3>1, <3>3, <4>1 DEF CapacityBound
      <3> QED
        BY <3>2, <3>3
    <2> QED
      BY <1>2, <2>2, <2>3 DEF Push
  <1>3. ASSUME PromoteFrontier, UNCHANGED <<pending_, pc>> PROVE CapacityBound'
    BY <1>0, <1>3 DEF PromoteFrontier, GivenUp, CanPromote, CapacityBound, UnderPressure
  <1>4. ASSUME NEW t \in Threads, EvictFarthest(t) PROVE CapacityBound'
    <2>1. PICK lost \in pending_ : /\ \A s \in pending_ : s <= lost
                                  /\ pending_' = pending_ \ {lost}
      BY <1>4, EvictsLargest DEF SizeInv
    <2>2. Cardinality(pending_) = Cardinality(pending_') + 1
      BY <1>0, <2>1, PendingShrinks
    <2>3. ~UnderPressure'
      BY <1>0, <1>4 DEF EvictFarthest, Unlock, LockInv, UnderPressure
    <2>4. UnderPressure /\ next_expected_' = next_expected_
      BY <1>4 DEF EvictFarthest, UnderPressure
    <2>5. Cardinality(pending_') \in Nat
      BY <1>0, <2>1, PendingFinite, FS_RemoveElement, FS_CardinalityType
    <2>6. CASE lost # next_expected_
      BY <1>0, <2>1, <2>2, <2>3, <2>4, <2>5, <2>6 DEF CapacityBound
    <2>7. CASE lost = next_expected_
      <3>1. \A s \in pending_ : s = lost
        BY <1>0, <2>1, <2>7, BufferAssumption DEF SizeInv, PendingAhead, TypeOK, seq_t
      <3>2. pending_' = {}
        BY <2>1, <3>1
      <3> QED
        BY <1>0, <2>3, <3>2, FS_EmptySet DEF CapacityBound
    <2> QED
      BY <2>6, <2>7
  <1>5. ASSUME NEW t \in Threads, EmitFrontier(t) PROVE CapacityBound'
    <2>1. ~UnderPressure /\ ~UnderPressure'
      BY <1>0, <1>5 DEF EmitFrontier, LockInv, UnderPressure
    <2>2. Cardinality(pending_) = Cardinality(pending_') + 1
      BY <1>0, <1>5, PendingShrinks DEF EmitFrontier
    <2>3. Cardinality(pending_') \in Nat
      BY <1>0, <1>5, PendingFinite, FS_RemoveElement, FS_CardinalityType DEF EmitFrontier
    <2> QED
      BY <1>0, <1>5, <2>1, <2>2, <2>3 DEF EmitFrontier, CapacityBound
  <1>6. ASSUME NEW t \in Threads, UNCHANGED <<next_expected_, pending_>>,
               TryEmit(t) \/ OpenGate(t) \/ StayShut(t) \/ ReturnBatch(t)
        PROVE  CapacityBound'
    <2>1. UnderPressure' = UnderPressure
      BY <1>0, <1>6
      DEF TryEmit, OpenGate, StayShut, ReturnBatch, Lock, Unlock, CanLock, UnderPressure
    <2> QED
      BY <1>0, <1>6, <2>1 DEF CapacityBound
  <1> QED
    BY <1>1, <1>2, <1>3, <1>4, <1>5, <1>6
    DEF Next, Continue, SetWatchdog, GateOnInstall, TryEmit, PromoteUnderPressure, OpenGate,
        StayShut, PromoteWhileEmitting, ReturnBatch, vars

(* The bound holds in every behaviour, with all it rests on. *)
LEMMA SizeCorrect == Spec => []SizeInv
  <1>1. Init => SizeInv
    <2>1. ASSUME Init PROVE CapacityBound
      <3>1. cfg_.capacity \in Nat
        BY <2>1, BufferAssumption DEF Init, ReorderConfig
      <3> QED
        BY <2>1, <3>1, FS_EmptySet DEF Init, CapacityBound, UnderPressure
    <2> QED
      BY <2>1, InitType, InitLocks DEF SizeInv, BaseInv, Init, PendingAhead
  <1>2. SizeInv /\ [Next]_vars => SizeInv'
    BY NextBound, NextAhead, NextType, NextLock, NextLocals DEF SizeInv, BaseInv
  <1> QED
    BY <1>1, <1>2, PTL DEF Spec

(* The buffer never holds more than its capacity, one frontier item and    *)
(* the one item a push() is about to make room for.                        *)
THEOREM BufferBounded == Spec => []CapacityBound
  BY SizeCorrect, PTL DEF SizeInv

-----------------------------------------------------------------------------
(* The books balance. *)

CountInv == SizeInv /\ Conservation

(* Every step keeps the books balanced. *)
LEMMA NextConservation == CountInv /\ [Next]_vars => Conservation'
  <1> SUFFICES ASSUME CountInv, [Next]_vars PROVE Conservation'
    OBVIOUS
  <1>0. /\ TypeOK /\ LockInv /\ LocalsInv /\ Conservation
        /\ stats_ \in ReorderStats
        /\ Cardinality(pending_) \in Nat
        /\ InFlight \in Nat
        /\ NoThread \notin Threads
        /\ out \in [Threads -> Seq(seq_t)]
    BY PendingFinite, BufferAssumption DEF CountInv, SizeInv, BaseInv, TypeOK, InFlight
  <1>n. /\ stats_.received \in Nat /\ stats_.emitted \in Nat
        /\ stats_.dropped_duplicate \in Nat /\ stats_.dropped_too_old \in Nat
        /\ stats_.missing_k_dropped \in Nat /\ stats_.evicted \in Nat
    BY <1>0 DEF ReorderStats, Counters
  <1>1. CASE UNCHANGED <<stats_, pending_>> /\ InFlight' = InFlight
    BY <1>0, <1>1 DEF Conservation
  <1>2. ASSUME NEW t \in Threads, NEW s \in Inputs, Push(t, s) PROVE Conservation'
    <2>1. InFlight = 0 /\ InFlight' = 0
      BY <1>0, <1>2
      DEF Push, CanLock, DropBelowFrontier, DropDuplicate, Insert, Lock, InFlight,
          LocalsInv
    <2>2. CASE DropBelowFrontier(s) /\ s \in promoted_missing_
      <3>1. /\ pending_' = pending_
            /\ stats_' = [stats_ EXCEPT !.received = @ + 1, !.missing_k_dropped = @ + 1]
        BY <2>2 DEF DropBelowFrontier
      <3> QED
        BY <1>0, <2>1, <3>1 DEF Conservation, ReorderStats, Counters
    <2>3. CASE DropBelowFrontier(s) /\ s \notin promoted_missing_
      <3>1. /\ pending_' = pending_
            /\ stats_' = [stats_ EXCEPT !.received = @ + 1, !.dropped_too_old = @ + 1]
        BY <2>3 DEF DropBelowFrontier
      <3> QED
        BY <1>0, <2>1, <3>1 DEF Conservation, ReorderStats, Counters
    <2>4. CASE DropDuplicate(s)
      <3>1. /\ pending_' = pending_
            /\ stats_' = [stats_ EXCEPT !.received = @ + 1, !.dropped_duplicate = @ + 1]
        BY <2>4 DEF DropDuplicate
      <3> QED
        BY <1>0, <2>1, <3>1 DEF Conservation, ReorderStats, Counters
    <2>5. CASE Insert(t, s)
      <3>1. /\ Cardinality(pending_') = Cardinality(pending_) + 1
            /\ stats_' = [stats_ EXCEPT !.received = @ + 1]
        BY <1>0, <2>5, PendingGrows DEF Insert
      <3> QED
        BY <1>0, <2>1, <3>1 DEF Conservation, ReorderStats, Counters
    <2> QED
      BY <1>2, <2>2, <2>3, <2>4, <2>5 DEF Push
  <1>3. ASSUME PromoteFrontier, UNCHANGED <<pending_, out, mu_>> PROVE Conservation'
    <2>1. /\ InFlight' = InFlight
          /\ stats_' = [stats_ EXCEPT !.missing_k_promotions = @ + 1]
      BY <1>3 DEF PromoteFrontier, GivenUp, InFlight
    <2> QED
      BY <1>0, <1>3, <2>1 DEF Conservation, ReorderStats, Counters
  <1>4. ASSUME NEW t \in Threads, EvictFarthest(t) PROVE Conservation'
    <2>1. mu_ = t /\ out[t] = <<>> /\ mu_' = NoThread
      BY <1>0, <1>4 DEF EvictFarthest, Unlock, LockInv, LocalsInv
    <2>2. InFlight = 0 /\ InFlight' = 0
      BY <1>0, <2>1 DEF InFlight
    <2>3. PICK lost \in pending_ : pending_' = pending_ \ {lost}
      BY <1>4, EvictsLargest DEF CountInv, SizeInv
    <2>4. /\ Cardinality(pending_') = Cardinality(pending_) - 1
          /\ Cardinality(pending_') \in Nat
      BY <1>0, <2>3, PendingShrinks, PendingFinite, FS_RemoveElement, FS_CardinalityType
    <2>5. stats_' = [stats_ EXCEPT !.evicted = @ + 1]
      BY <1>4 DEF EvictFarthest, CountEviction
    <2>6. /\ stats_'.evicted = stats_.evicted + 1
          /\ stats_'.received = stats_.received /\ stats_'.emitted = stats_.emitted
          /\ stats_'.dropped_duplicate = stats_.dropped_duplicate
          /\ stats_'.dropped_too_old = stats_.dropped_too_old
          /\ stats_'.missing_k_dropped = stats_.missing_k_dropped
      BY <1>0, <2>5 DEF ReorderStats, Counters
    <2> DEFINE held == Cardinality(pending_)
    <2>7. stats_.received = stats_.emitted + 0 + (held' + 1)
                            + stats_.dropped_duplicate + stats_.dropped_too_old
                            + stats_.missing_k_dropped + stats_.evicted
      BY <1>0, <2>2, <2>4 DEF Conservation
    <2>8. stats_.received = stats_.emitted + 0 + held'
                            + stats_.dropped_duplicate + stats_.dropped_too_old
                            + stats_.missing_k_dropped + (stats_.evicted + 1)
      <3>1. held' \in Nat
        BY <2>4
      <3> HIDE DEF held
      <3> QED
        BY <1>n, <2>7, <3>1
    <2> QED
      BY <2>2, <2>6, <2>8 DEF Conservation
  <1>5. ASSUME NEW t \in Threads, EmitFrontier(t) PROVE Conservation'
    <2>1. mu_ = t /\ mu_' = t /\ stats_' = stats_
      BY <1>0, <1>5 DEF EmitFrontier, LockInv
    <2>2. InFlight' = InFlight + 1
      BY <1>0, <1>5, <2>1 DEF InFlight, EmitFrontier, TypeOK
    <2>3. /\ Cardinality(pending_') = Cardinality(pending_) - 1
          /\ Cardinality(pending_') \in Nat
      BY <1>0, <1>5, PendingShrinks, PendingFinite, FS_RemoveElement, FS_CardinalityType
      DEF EmitFrontier
    <2> DEFINE held == Cardinality(pending_)
    <2>4. stats_.emitted + InFlight' + held' = stats_.emitted + InFlight + held
      <3>1. InFlight' = InFlight + 1 /\ InFlight \in Nat
        BY <1>0, <2>2
      <3>2. held' \in Nat /\ held' = held - 1 /\ held \in Nat
        BY <1>0, <2>3
      <3> HIDE DEF held
      <3> QED
        BY <1>n, <3>1, <3>2
    <2> QED
      BY <1>0, <2>1, <2>4 DEF Conservation
  <1>6. ASSUME NEW t \in Threads, ReturnBatch(t) PROVE Conservation'
    <2>1. mu_ = t /\ mu_' = NoThread /\ pending_' = pending_
      BY <1>0, <1>6 DEF ReturnBatch, Unlock, LockInv
    <2>2. InFlight = Len(out[t]) /\ InFlight' = 0
      BY <1>0, <2>1 DEF InFlight
    <2>3. stats_' = [stats_ EXCEPT !.emitted = @ + InFlight]
      BY <1>6, <2>2 DEF ReturnBatch
    <2> QED
      BY <1>0, <2>1, <2>2, <2>3 DEF Conservation, ReorderStats, Counters
  <1>7. ASSUME NEW t \in Threads, TryEmit(t) \/ OpenGate(t) \/ StayShut(t)
        PROVE  Conservation'
    <2>1. InFlight' = InFlight
      BY <1>0, <1>7
      DEF TryEmit, OpenGate, StayShut, Lock, Unlock, CanLock, InFlight, LockInv, LocalsInv
    <2> QED
      BY <1>1, <1>7, <2>1 DEF TryEmit, OpenGate, StayShut
  <1>8. CASE UNCHANGED <<stats_, pending_, mu_, out>>
    BY <1>1, <1>8 DEF InFlight
  <1> QED
    BY <1>2, <1>3, <1>4, <1>5, <1>6, <1>7, <1>8
    DEF Next, Continue, SetWatchdog, GateOnInstall, PromoteUnderPressure, PromoteWhileEmitting, vars

(* Every pushed item is emitted, buffered or in exactly one drop counter,  *)
(* in every state: an item is never lost from the books nor counted twice, *)
(* not even by a push() that promotes, evicts and races with others.       *)
THEOREM NothingUncounted == Spec => []Conservation
  <1>1. Init => Conservation
    BY BufferAssumption, FS_EmptySet DEF Init, Conservation, ZeroStats, InFlight
  <1>2. SizeInv /\ Conservation /\ [Next]_vars => Conservation'
    BY NextConservation DEF CountInv
  <1> QED
    BY <1>1, <1>2, SizeCorrect, PTL DEF Spec

-----------------------------------------------------------------------------
(* The gate. *)

(* A thread that emits has seen the gate open, and holds mu_ since, so     *)
(* nobody can have installed another watchdog.                             *)
GateInv == \A t \in Threads : pc[t] = "emit" => GateIsOpen

(* No step of another thread shuts the gate behind a call past it. *)
LEMMA NextGate == BaseInv /\ GateInv /\ [Next]_vars => GateInv'
  <1> SUFFICES ASSUME BaseInv, GateInv, [Next]_vars, NEW u \in Threads, pc'[u] = "emit"
               PROVE  GateIsOpen'
    BY DEF GateInv
  <1>0. /\ NoThread \notin Threads /\ LockInv
        /\ pc \in [Threads -> {"idle", "pressure", "gate", "emit"}]
    BY BufferAssumption DEF BaseInv, TypeOK
  <1>1. CASE UNCHANGED <<pc, gateVars>>
    BY <1>1 DEF GateInv, GateIsOpen, gateVars
  <1>2. ASSUME NEW t \in Threads, NEW s \in Inputs, Push(t, s) PROVE GateIsOpen'
    BY <1>0, <1>2
    DEF Push, DropBelowFrontier, DropDuplicate, Insert, Lock, GateInv, GateIsOpen, gateVars
  <1>3. ASSUME NEW t \in Threads, NEW wd \in Watchdogs \cup {NoWatchdog},
               SetWatchdog(t, wd)
        PROVE  GateIsOpen'
    BY <1>0, <1>3 DEF SetWatchdog, GateOnInstall, CanLock, LockInv
  <1>4. ASSUME NEW t \in Threads, TryEmit(t) PROVE GateIsOpen'
    BY <1>0, <1>4 DEF TryEmit, GateShut, Lock, CanLock, LockInv, GateInv, GateIsOpen, gateVars
  <1>5. ASSUME NEW t \in Threads, OpenGate(t) PROVE GateIsOpen'
    BY <1>5 DEF OpenGate, GateIsOpen
  <1>6. ASSUME NEW t \in Threads, UNCHANGED gateVars, Unlock(t) PROVE GateIsOpen'
    BY <1>0, <1>6 DEF Unlock, GateInv, GateIsOpen, gateVars
  <1> QED
    BY <1>1, <1>2, <1>3, <1>4, <1>5, <1>6
    DEF Next, Continue, PromoteUnderPressure, EvictFarthest, StayShut,
        EmitFrontier, PromoteWhileEmitting, ReturnBatch, vars, gateVars

(* An item never leaves through a shut gate, even if set_watchdog() is     *)
(* called by another thread in the middle of a batch.                      *)
THEOREM GateHolds == Spec => EmitThroughOpenGate
  <1>1. Init => GateInv
    BY DEF Init, GateInv
  <1>2. GateInv /\ [Next]_vars
          => [emitted' # emitted => watchdog_ = NoWatchdog \/ watchdog_gate_open_]_vars
    BY DEF Next, Continue, Push, SetWatchdog, GateOnInstall, TryEmit, PromoteUnderPressure,
       EvictFarthest, OpenGate, StayShut, EmitFrontier, PromoteWhileEmitting,
       ReturnBatch, vars, GateInv, GateIsOpen
  <1> QED
    BY <1>1, <1>2, NextGate, BaseCorrect, PTL DEF Spec, EmitThroughOpenGate

-----------------------------------------------------------------------------
(* Evictions. *)

(* Only an eviction takes an item out without emitting it.                 *)
LEMMA WhoRemoves ==
  ASSUME BaseInv, [Next]_vars
  PROVE  \/ pending_ \subseteq pending_'
         \/ emitted' = Append(emitted, next_expected_) /\ pending_ \subseteq pending_' \cup {next_expected_}
         \/ \E t \in Threads : EvictFarthest(t)
  BY DEF Next, Continue, Push, DropBelowFrontier, DropDuplicate, Insert, SetWatchdog, GateOnInstall,
     TryEmit, PromoteUnderPressure, PromoteFrontier, GivenUp, OpenGate, StayShut,
     EmitFrontier, PromoteWhileEmitting, ReturnBatch, vars

(* With a capacity of at least one, the item the stream waits for is never *)
(* sacrificed: an eviction finds at least two items and takes the farthest.*)
THEOREM ReadyItemKept ==
  ASSUME \A c \in Configs : c.capacity >= 1
  PROVE  Spec => ReadyNeverEvicted
  <1>1. SizeInv /\ [Next]_vars
          => [(next_expected_ \in pending_ /\ next_expected_ \notin pending_')
                => emitted' = Append(emitted, next_expected_)]_vars
    <2> SUFFICES ASSUME SizeInv, [Next]_vars, next_expected_ \in pending_,
                        next_expected_ \notin pending_',
                        NEW t \in Threads, EvictFarthest(t)
                 PROVE  FALSE
      BY WhoRemoves DEF SizeInv
    <2>0. TypeOK /\ cfg_.capacity \in Nat /\ cfg_.capacity >= 1
      BY BufferAssumption DEF SizeInv, BaseInv, TypeOK, ReorderConfig
    <2>1. PICK lost \in pending_ : /\ \A s \in pending_ : s <= lost
                                  /\ pending_' = pending_ \ {lost}
      BY EvictsLargest DEF SizeInv
    <2>2. pending_ = {next_expected_}
      <3>1. lost = next_expected_
        BY <2>1
      <3>2. \A s \in pending_ : s \in Nat /\ s >= lost /\ s <= lost
        BY <2>0, <2>1, <3>1, BufferAssumption DEF SizeInv, PendingAhead, TypeOK, seq_t
      <3>3. \A s \in pending_ : s = lost
        BY <3>2
      <3> QED
        BY <3>1, <3>3
    <2>3. Cardinality(pending_) = 1
      BY <2>2, FS_Singleton
    <2>4. Cardinality(pending_) > cfg_.capacity
      BY DEF SizeInv, CapacityBound, UnderPressure, EvictFarthest
    <2> QED
      BY <2>0, <2>3, <2>4
  <1> QED
    BY <1>1, SizeCorrect, PTL DEF Spec, ReadyNeverEvicted

=============================================================================
