---------------------------- MODULE StreamProofs ----------------------------
(***************************************************************************)
(* The stream a ReorderBuffer delivers is one StreamContract allows, for   *)
(* every set of threads, configuration and number of calls, as long as the *)
(* largest seq_t is not pushed.                                            *)
(***************************************************************************)
EXTENDS ReorderBufferRefinement, ReorderBufferProofs

(* What the contract rests on: items come from the clients, lie ahead of   *)
(* the frontier, and what lies behind it has been decided.                 *)
StreamInv ==
  /\ BaseInv
  /\ PendingAhead
  /\ cfg_.start_seq <= next_expected_
  /\ pending_ \subseteq arrived
  /\ ExactlyOnce

(* Nothing changes what the stream is made of. *)
streamVars == <<cfg_, next_expected_, pending_, promoted_missing_, emitted, arrived>>

-----------------------------------------------------------------------------
(* The three kinds of step that concern the stream.                        *)

Arriving(s) ==
  /\ arrived' = arrived \cup {s}
  /\ pending_' \subseteq pending_ \cup {s}
  /\ UNCHANGED <<cfg_, next_expected_, promoted_missing_, emitted>>

Leaving ==
  /\ next_expected_ \in pending_
  /\ next_expected_ < MaxSeq
  /\ next_expected_' = next_expected_ + 1
  /\ pending_' = pending_ \ {next_expected_}
  /\ emitted' = Append(emitted, next_expected_)
  /\ UNCHANGED <<cfg_, promoted_missing_, arrived>>

Skipping ==
  /\ CanPromote
  /\ next_expected_ < MaxSeq
  /\ next_expected_' = next_expected_ + 1
  /\ promoted_missing_' = promoted_missing_ \cup {next_expected_}
  /\ UNCHANGED <<cfg_, pending_, emitted, arrived>>

Losing ==
  /\ pending_' \subseteq pending_
  /\ UNCHANGED <<cfg_, next_expected_, promoted_missing_, emitted, arrived>>

(* A frontier that moves has something beyond it or at it, so it does not  *)
(* wrap.                                                                   *)
LEMMA FrontierBelowMax ==
  ASSUME TypeOK, pending_ \subseteq arrived, CanPromote \/ next_expected_ \in pending_
  PROVE  next_expected_ < MaxSeq
  <1>1. \A s \in pending_ : s \in Nat /\ s < MaxSeq
    BY NoWrap, BufferAssumption DEF TypeOK, seq_t
  <1>2. next_expected_ \in Nat /\ MaxSeq \in Nat
    BY BufferAssumption DEF TypeOK, seq_t
  <1>3. CASE next_expected_ \in pending_
    BY <1>1, <1>3
  <1>4. CASE CanPromote
    <2>1. PICK s \in pending_ : s > next_expected_
      <3> DEFINE beyond == {s \in pending_ : s > next_expected_}
      <3>1. cfg_.missing_k \in Nat
        BY BufferAssumption DEF TypeOK, ReorderConfig
      <3>2. Cardinality(beyond) # 0
        BY <1>4, <3>1, FS_EmptySet DEF CanPromote, count_beyond_frontier
      <3> QED
        BY <3>2, FS_EmptySet
    <2> QED
      BY <1>1, <1>2, <2>1
  <1> QED
    BY <1>3, <1>4

(* Seen from the stream, a step of the buffer is one of these or nothing.  *)
LEMMA StreamStep ==
  ASSUME TypeOK, LockInv, LocalsInv, pending_ \subseteq arrived, [Next]_vars
  PROVE  \/ \E s \in Inputs : Arriving(s)
         \/ Leaving
         \/ Skipping
         \/ Losing
  <1>0. BaseInv
    BY DEF BaseInv
  <1>1. ASSUME NEW t \in Threads, NEW s \in Inputs, Push(t, s) PROVE Arriving(s)
    BY <1>1 DEF Push, DropBelowFrontier, DropDuplicate, Insert, Arriving
  <1>2. ASSUME NEW t \in Threads, PromoteUnderPressure(t) \/ PromoteWhileEmitting(t)
        PROVE  Skipping
    <2>1. CanPromote
      BY <1>2 DEF PromoteUnderPressure, PromoteWhileEmitting, PromoteFrontier, GivenUp
    <2>2. next_expected_ < MaxSeq /\ next_expected_ \in Nat
      BY <2>1, FrontierBelowMax, BufferAssumption DEF TypeOK, seq_t
    <2>3. Succ(next_expected_) = next_expected_ + 1
      BY <2>2 DEF Succ
    <2> QED
      BY <1>2, <2>1, <2>2, <2>3
      DEF PromoteUnderPressure, PromoteWhileEmitting, PromoteFrontier, GivenUp, Skipping
  <1>3. ASSUME NEW t \in Threads, EmitFrontier(t) PROVE Leaving
    <2>1. next_expected_ < MaxSeq /\ next_expected_ \in Nat
      BY <1>3, FrontierBelowMax, BufferAssumption DEF EmitFrontier, TypeOK, seq_t
    <2>2. Succ(next_expected_) = next_expected_ + 1
      BY <2>1 DEF Succ
    <2> QED
      BY <1>3, <2>1, <2>2 DEF EmitFrontier, Leaving
  <1>4. ASSUME NEW t \in Threads, EvictFarthest(t) PROVE Losing
    BY <1>0, <1>4, EvictsLargest DEF EvictFarthest, Losing
  <1>5. CASE UNCHANGED streamVars
    BY <1>5 DEF streamVars, Losing
  <1> QED
    BY <1>1, <1>2, <1>3, <1>4, <1>5
    DEF Next, Continue, SetWatchdog, GateOnInstall, TryEmit, OpenGate, StayShut, ReturnBatch,
        vars, streamVars

-----------------------------------------------------------------------------
(* The fate of every number is decided once, and in order.                 *)

(* What Append does to the set of emitted numbers. *)
LEMMA EmittedGrows ==
  ASSUME TypeOK, NEW s \in seq_t, emitted' = Append(emitted, s)
  PROVE  Emitted' = Emitted \cup {s}
  <1>1. emitted \in Seq(seq_t)
    BY DEF TypeOK
  <1>2. /\ Len(emitted) \in Nat /\ Len(emitted') = Len(emitted) + 1
        /\ emitted'[Len(emitted) + 1] = s
        /\ \A i \in 1 .. Len(emitted) : emitted'[i] = emitted[i]
    BY <1>1
  <1>3. 1 .. Len(emitted') = (1 .. Len(emitted)) \cup {Len(emitted) + 1}
    BY <1>2
  <1> QED
    BY <1>2, <1>3 DEF Emitted

(* Every number behind the frontier was emitted or given up, never both.   *)
LEMMA NextStream == StreamInv /\ [Next]_vars => StreamInv'
  <1> SUFFICES ASSUME StreamInv, [Next]_vars PROVE StreamInv'
    OBVIOUS
  <1>0. TypeOK /\ LockInv /\ LocalsInv /\ pending_ \subseteq arrived
    BY DEF StreamInv, BaseInv
  <1>1. BaseInv' /\ PendingAhead'
    BY NextType, NextLock, NextLocals, NextAhead DEF StreamInv, BaseInv
  <1>2. /\ cfg_.start_seq \in Nat /\ next_expected_ \in Nat
        /\ cfg_.start_seq <= next_expected_
    BY <1>0, BufferAssumption DEF StreamInv, TypeOK, ReorderConfig, seq_t
  <1>3. ASSUME NEW s \in Inputs, Arriving(s) PROVE StreamInv'
    BY <1>1, <1>3 DEF Arriving, StreamInv, ExactlyOnce, Emitted
  <1>4. CASE Losing
    BY <1>1, <1>4 DEF Losing, StreamInv, ExactlyOnce, Emitted
  <1>5. cfg_.start_seq .. ((next_expected_ + 1) - 1)
          = (cfg_.start_seq .. (next_expected_ - 1)) \cup {next_expected_}
    BY <1>2
  <1>6. next_expected_ \notin Emitted \cup promoted_missing_
    BY <1>2 DEF StreamInv, ExactlyOnce
  <1>7. CASE Leaving
    <2>1. Emitted' = Emitted \cup {next_expected_}
      BY <1>0, <1>7, EmittedGrows DEF Leaving, TypeOK
    <2>2. ExactlyOnce'
      BY <1>5, <1>6, <1>7, <2>1 DEF Leaving, StreamInv, ExactlyOnce
    <2> QED
      BY <1>0, <1>1, <1>2, <1>7, <2>2 DEF Leaving, StreamInv
  <1>8. CASE Skipping
    <2>1. Emitted' = Emitted
      BY <1>8 DEF Skipping, Emitted
    <2>2. ExactlyOnce'
      BY <1>5, <1>6, <1>8, <2>1 DEF Skipping, StreamInv, ExactlyOnce
    <2> QED
      BY <1>0, <1>1, <1>2, <1>8, <2>2 DEF Skipping, StreamInv
  <1> QED
    BY <1>0, <1>3, <1>4, <1>7, <1>8, StreamStep

(* An empty stream. *)
LEMMA InitStream == Init => StreamInv
  <1> SUFFICES ASSUME Init PROVE StreamInv
    OBVIOUS
  <1>1. BaseInv
    BY InitType, InitLocks DEF BaseInv
  <1>2. cfg_.start_seq \in Nat /\ next_expected_ = cfg_.start_seq
    BY BufferAssumption DEF Init, ReorderConfig, seq_t
  <1>3. Emitted = {}
    BY DEF Init, Emitted
  <1> QED
    BY <1>1, <1>2, <1>3 DEF Init, StreamInv, PendingAhead, ExactlyOnce

(* The invariant of the stream holds in every behaviour. *)
LEMMA StreamCorrect == Spec => []StreamInv
  BY InitStream, NextStream, PTL DEF Spec

(* No number is decided twice and none behind the frontier is undecided:   *)
(* what a promotion gave up is never emitted, however late it arrives, and *)
(* no gap in the stream goes without a promotion.                          *)
THEOREM FatesDecidedOnce == Spec => []ExactlyOnce
  BY StreamCorrect, PTL DEF StreamInv

(* Every step keeps what arrived, unless it evicts. *)
LEMMA NextVanishes ==
  StreamInv /\ NothingVanishes /\ [Next]_vars => NothingVanishes'
  <1> SUFFICES ASSUME StreamInv, NothingVanishes, [Next]_vars, (stats_.evicted = 0)'
               PROVE  \A s \in arrived' :
                        s >= cfg_'.start_seq => s \in (Emitted \cup pending_ \cup promoted_missing_)'
    BY DEF NothingVanishes
  <1>0. BaseInv /\ TypeOK /\ stats_ \in ReorderStats /\ cfg_.missing_k \in Nat
        /\ next_expected_ \in seq_t
    BY BufferAssumption DEF StreamInv, BaseInv, TypeOK, ReorderConfig
  <1>1. stats_.evicted \in Nat
    BY <1>0 DEF ReorderStats, Counters
  <1>2. ASSUME stats_.evicted = 0,
               Emitted \cup pending_ \cup promoted_missing_
                 \subseteq (Emitted \cup pending_ \cup promoted_missing_)',
               UNCHANGED <<arrived, cfg_>>
        PROVE  \A s \in arrived' :
                 s >= cfg_'.start_seq => s \in (Emitted \cup pending_ \cup promoted_missing_)'
    BY <1>2 DEF NothingVanishes
  <1>3. ASSUME NEW t \in Threads, NEW r \in Inputs, Push(t, r)
        PROVE  \A s \in arrived' :
                 s >= cfg_'.start_seq => s \in (Emitted \cup pending_ \cup promoted_missing_)'
    <2>1. /\ arrived' = arrived \cup {r} /\ pending_ \subseteq pending_'
          /\ stats_'.evicted = stats_.evicted
          /\ UNCHANGED <<cfg_, next_expected_, promoted_missing_, emitted>> /\ Emitted' = Emitted
      BY <1>0, <1>3
      DEF Push, DropBelowFrontier, DropDuplicate, Insert, ReorderStats, Counters, Emitted
    <2>2. ASSUME r >= cfg_.start_seq PROVE r \in Emitted \cup pending_' \cup promoted_missing_
      <3>1. CASE DropBelowFrontier(r)
        <4>1. r \in cfg_.start_seq .. (next_expected_ - 1)
          BY <1>0, <2>2, <3>1, BufferAssumption DEF DropBelowFrontier, TypeOK, seq_t, ReorderConfig
        <4> QED
          BY <4>1 DEF StreamInv, ExactlyOnce
      <3>2. CASE DropDuplicate(r) \/ Insert(t, r)
        BY <3>2 DEF DropDuplicate, Insert
      <3> QED
        BY <1>3, <3>1, <3>2 DEF Push
    <2> QED
      BY <2>1, <2>2 DEF NothingVanishes
  <1>4. ASSUME NEW t \in Threads, EvictFarthest(t) PROVE FALSE
    BY <1>0, <1>1, <1>4 DEF EvictFarthest, CountEviction, ReorderStats, Counters
  <1>5. ASSUME NEW t \in Threads, PromoteUnderPressure(t) \/ PromoteWhileEmitting(t)
        PROVE  \A s \in arrived' :
                 s >= cfg_'.start_seq => s \in (Emitted \cup pending_ \cup promoted_missing_)'
    <2>1. /\ stats_'.evicted = stats_.evicted /\ promoted_missing_ \subseteq promoted_missing_'
          /\ UNCHANGED <<cfg_, pending_, arrived, emitted>> /\ Emitted' = Emitted
      BY <1>0, <1>5
      DEF PromoteUnderPressure, PromoteWhileEmitting, PromoteFrontier, GivenUp, ReorderStats,
          Counters, Emitted
    <2> QED
      BY <1>2, <2>1
  <1>6. ASSUME NEW t \in Threads, EmitFrontier(t)
        PROVE  \A s \in arrived' :
                 s >= cfg_'.start_seq => s \in (Emitted \cup pending_ \cup promoted_missing_)'
    <2>1. Emitted' = Emitted \cup {next_expected_}
      BY <1>0, <1>6, EmittedGrows DEF EmitFrontier
    <2> QED
      BY <1>2, <1>6, <2>1 DEF EmitFrontier
  <1>7. ASSUME NEW t \in Threads, ReturnBatch(t)
        PROVE  \A s \in arrived' :
                 s >= cfg_'.start_seq => s \in (Emitted \cup pending_ \cup promoted_missing_)'
    <2>1. /\ stats_'.evicted = stats_.evicted /\ Emitted' = Emitted
          /\ UNCHANGED <<cfg_, pending_, promoted_missing_, arrived>>
      BY <1>0, <1>7 DEF ReturnBatch, ReorderStats, Counters, Emitted
    <2> QED
      BY <1>2, <2>1
  <1>8. CASE UNCHANGED streamVars /\ UNCHANGED stats_
    BY <1>2, <1>8 DEF streamVars, Emitted
  <1> QED
    BY <1>3, <1>4, <1>5, <1>6, <1>7, <1>8
    DEF Next, Continue, SetWatchdog, GateOnInstall, TryEmit, OpenGate, StayShut, vars, streamVars

(* No branch of push() and no promotion makes a number disappear: what     *)
(* arrived in time is emitted, buffered or given up, in every behaviour    *)
(* without an eviction.                                                    *)
THEOREM NothingVanishesUnevicted == Spec => []NothingVanishes
  <1>1. Init => NothingVanishes
    BY DEF Init, NothingVanishes
  <1> QED
    BY <1>1, NextVanishes, StreamCorrect, PTL DEF Spec

(* What arrived is finite, and so is what was forfeited. *)
LEMMA ForfeitedFinite ==
  ASSUME TypeOK
  PROVE  IsFiniteSet(Forfeited) /\ Cardinality(Forfeited) \in Nat
  <1>1. IsFiniteSet(seq_t)
    BY FS_Interval, BufferAssumption DEF seq_t
  <1>2. Forfeited \in SUBSET seq_t
    BY BufferAssumption DEF Forfeited, TypeOK
  <1>3. IsFiniteSet(Forfeited)
    BY <1>1, <1>2, FS_Subset
  <1> QED
    BY <1>3, FS_CardinalityType

(* No step forfeits more numbers than it counts. *)
LEMMA NextLosses ==
  StreamInv /\ LossesCounted /\ [Next]_vars => LossesCounted'
  <1> SUFFICES ASSUME StreamInv, LossesCounted, [Next]_vars PROVE LossesCounted'
    OBVIOUS
  <1>0. TypeOK /\ stats_ \in ReorderStats /\ next_expected_ \in Nat
    BY BufferAssumption DEF StreamInv, BaseInv, TypeOK, seq_t
  <1>n. stats_.evicted \in Nat /\ stats_.missing_k_dropped \in Nat
    BY <1>0 DEF ReorderStats, Counters
  <1>f. IsFiniteSet(Forfeited) /\ Cardinality(Forfeited) \in Nat
    BY <1>0, ForfeitedFinite
  <1>1. ASSUME Forfeited' \subseteq Forfeited, stats_'.evicted = stats_.evicted,
               stats_'.missing_k_dropped = stats_.missing_k_dropped
        PROVE  LossesCounted'
    <2>1. Cardinality(Forfeited') \in Nat /\ Cardinality(Forfeited') <= Cardinality(Forfeited)
      BY <1>1, <1>f, FS_Subset, FS_CardinalityType
    <2> QED
      BY <1>1, <1>n, <1>f, <2>1 DEF LossesCounted
  <1>2. ASSUME NEW s, Forfeited' \subseteq Forfeited \cup {s},
               stats_'.evicted + stats_'.missing_k_dropped
                 = stats_.evicted + stats_.missing_k_dropped + 1
        PROVE  LossesCounted'
    <2>1. /\ IsFiniteSet(Forfeited \cup {s})
          /\ Cardinality(Forfeited \cup {s}) \in Nat
          /\ Cardinality(Forfeited \cup {s}) <= Cardinality(Forfeited) + 1
      BY <1>f, FS_AddElement, FS_CardinalityType
    <2>2. /\ Cardinality(Forfeited') \in Nat
          /\ Cardinality(Forfeited') <= Cardinality(Forfeited \cup {s})
      BY <1>2, <2>1, FS_Subset, FS_CardinalityType
    <2> QED
      BY <1>2, <1>n, <1>f, <2>1, <2>2 DEF LossesCounted
  <1>3. ASSUME NEW t \in Threads, NEW r \in Inputs, Push(t, r) PROVE LossesCounted'
    <2>1. arrived' = arrived \cup {r} /\ cfg_' = cfg_ /\ Emitted' = Emitted
      BY <1>3 DEF Push, Emitted
    <2>2. CASE DropBelowFrontier(r)
      <3>1. pending_' = pending_
        BY <2>2 DEF DropBelowFrontier
      <3>2. CASE r \in promoted_missing_
        <4>1. Forfeited' \subseteq Forfeited \cup {r}
          BY <2>1, <3>1 DEF Forfeited
        <4>2. /\ stats_'.evicted = stats_.evicted
              /\ stats_'.missing_k_dropped = stats_.missing_k_dropped + 1
          BY <1>0, <2>2, <3>2 DEF DropBelowFrontier, ReorderStats, Counters
        <4> QED
          BY <1>2, <1>n, <4>1, <4>2
      <3>3. CASE r \notin promoted_missing_
        <4>1. r >= cfg_.start_seq => r \in Emitted
          <5>1. r >= cfg_.start_seq => r \in cfg_.start_seq .. (next_expected_ - 1)
            BY <1>0, <2>2, BufferAssumption DEF DropBelowFrontier, TypeOK, seq_t, ReorderConfig
          <5> QED
            BY <3>3, <5>1 DEF StreamInv, ExactlyOnce
        <4>2. Forfeited' \subseteq Forfeited
          BY <2>1, <3>1, <4>1 DEF Forfeited
        <4>3. /\ stats_'.evicted = stats_.evicted
              /\ stats_'.missing_k_dropped = stats_.missing_k_dropped
          BY <1>0, <2>2, <3>3 DEF DropBelowFrontier, ReorderStats, Counters
        <4> QED
          BY <1>1, <4>2, <4>3
      <3> QED
        BY <3>2, <3>3
    <2>3. CASE DropDuplicate(r) \/ Insert(t, r)
      <3>1. r \in pending_' /\ pending_ \subseteq pending_'
        BY <2>3 DEF DropDuplicate, Insert
      <3>2. Forfeited' \subseteq Forfeited
        BY <2>1, <3>1 DEF Forfeited
      <3>3. /\ stats_'.evicted = stats_.evicted
            /\ stats_'.missing_k_dropped = stats_.missing_k_dropped
        BY <1>0, <2>3 DEF DropDuplicate, Insert, ReorderStats, Counters
      <3> QED
        BY <1>1, <3>2, <3>3
    <2> QED
      BY <1>3, <2>2, <2>3 DEF Push
  <1>4. ASSUME NEW t \in Threads, EvictFarthest(t) PROVE LossesCounted'
    <2>1. PICK lost \in pending_ : pending_' = pending_ \ {lost}
      BY <1>4, EvictsLargest DEF StreamInv
    <2>2. arrived' = arrived /\ cfg_' = cfg_ /\ Emitted' = Emitted
      BY <1>4 DEF EvictFarthest, Emitted
    <2>3. Forfeited' \subseteq Forfeited \cup {lost}
      BY <2>1, <2>2 DEF Forfeited
    <2>4. /\ stats_'.evicted = stats_.evicted + 1
          /\ stats_'.missing_k_dropped = stats_.missing_k_dropped
      BY <1>0, <1>4 DEF EvictFarthest, CountEviction, ReorderStats, Counters
    <2> QED
      BY <1>2, <1>n, <2>3, <2>4
  <1>5. ASSUME NEW t \in Threads, PromoteUnderPressure(t) \/ PromoteWhileEmitting(t)
        PROVE  LossesCounted'
    <2>1. /\ stats_'.evicted = stats_.evicted
          /\ stats_'.missing_k_dropped = stats_.missing_k_dropped
          /\ UNCHANGED <<cfg_, pending_, arrived, emitted>>
      BY <1>0, <1>5
      DEF PromoteUnderPressure, PromoteWhileEmitting, PromoteFrontier, GivenUp, ReorderStats,
          Counters
    <2> QED
      BY <1>1, <2>1 DEF Forfeited, Emitted
  <1>6. ASSUME NEW t \in Threads, EmitFrontier(t) PROVE LossesCounted'
    <2>1. Emitted' = Emitted \cup {next_expected_}
      BY <1>0, <1>6, EmittedGrows DEF EmitFrontier, TypeOK
    <2>2. /\ pending_' = pending_ \ {next_expected_}
          /\ UNCHANGED <<cfg_, stats_, arrived>>
      BY <1>6 DEF EmitFrontier
    <2> QED
      BY <1>1, <2>1, <2>2 DEF Forfeited
  <1>7. ASSUME NEW t \in Threads, ReturnBatch(t) PROVE LossesCounted'
    <2>1. /\ stats_'.evicted = stats_.evicted
          /\ stats_'.missing_k_dropped = stats_.missing_k_dropped
          /\ UNCHANGED <<cfg_, pending_, arrived, emitted>>
      BY <1>0, <1>7 DEF ReturnBatch, ReorderStats, Counters
    <2> QED
      BY <1>1, <2>1 DEF Forfeited, Emitted
  <1>8. CASE UNCHANGED streamVars /\ UNCHANGED stats_
    BY <1>1, <1>8 DEF streamVars, Forfeited, Emitted
  <1> QED
    BY <1>3, <1>4, <1>5, <1>6, <1>7, <1>8
    DEF Next, Continue, SetWatchdog, GateOnInstall, TryEmit, OpenGate, StayShut, vars, streamVars

(* Evictions and late drops account for every number lost: the counters    *)
(* never understate what a stream of any length, capacity and threshold    *)
(* has cost.                                                               *)
THEOREM LossesAreCounted == Spec => []LossesCounted
  <1>1. Init => LossesCounted
    <2> SUFFICES ASSUME Init PROVE LossesCounted
      OBVIOUS
    <2>1. Forfeited = {}
      BY DEF Init, Forfeited
    <2>2. stats_.evicted = 0 /\ stats_.missing_k_dropped = 0
      BY DEF Init, ZeroStats
    <2> QED
      BY <2>1, <2>2, FS_EmptySet DEF LossesCounted
  <1> QED
    BY <1>1, NextLosses, StreamCorrect, PTL DEF Spec

(* Every step keeps the stream in order. *)
LEMMA NextOrdered ==
  StreamInv /\ EmittedInOrder /\ [Next]_vars => EmittedInOrder'
  <1> SUFFICES ASSUME StreamInv, EmittedInOrder, [Next]_vars PROVE EmittedInOrder'
    OBVIOUS
  <1>0. TypeOK /\ LockInv /\ LocalsInv /\ pending_ \subseteq arrived
    BY DEF StreamInv, BaseInv
  <1>1. CASE UNCHANGED emitted /\ arrived \subseteq arrived' /\ pending_' \subseteq arrived'
    BY <1>1 DEF EmittedInOrder, Emitted
  <1>2. CASE Leaving
    <2>1. emitted \in Seq(seq_t) /\ next_expected_ \in seq_t
      BY <1>0 DEF TypeOK
    <2>2. Emitted' = Emitted \cup {next_expected_}
      BY <1>0, <1>2, <2>1, EmittedGrows DEF Leaving
    <2>3. \A i \in 1 .. Len(emitted) : emitted[i] < next_expected_
      <3>1. cfg_.start_seq \in Nat /\ next_expected_ \in Nat
        BY <1>0, BufferAssumption DEF TypeOK, seq_t, ReorderConfig
      <3>2. \A i \in 1 .. Len(emitted) : emitted[i] \in cfg_.start_seq .. (next_expected_ - 1)
        BY DEF StreamInv, ExactlyOnce, Emitted
      <3> QED
        BY <3>1, <3>2
    <2>4. \A i, j \in 1 .. Len(emitted') : i < j => emitted'[i] < emitted'[j]
      <3>1. /\ Len(emitted) \in Nat /\ Len(emitted') = Len(emitted) + 1
            /\ emitted'[Len(emitted) + 1] = next_expected_
            /\ \A i \in 1 .. Len(emitted) : emitted'[i] = emitted[i]
        BY <1>2, <2>1 DEF Leaving
      <3> QED
        BY <2>3, <3>1 DEF EmittedInOrder
    <2>5. (Emitted \cup pending_)' \subseteq arrived'
      BY <1>0, <1>2, <2>2 DEF Leaving, EmittedInOrder
    <2> QED
      BY <2>4, <2>5 DEF EmittedInOrder
  <1> QED
    BY <1>0, <1>1, <1>2, StreamStep DEF Arriving, Skipping, Losing

(* The stream is strictly increasing over all calls of all threads, and    *)
(* holds nothing that was not pushed.                                      *)
THEOREM StreamOrdered == Spec => []EmittedInOrder
  <1>1. Init => EmittedInOrder
    BY DEF Init, EmittedInOrder, Emitted
  <1> QED
    BY <1>1, NextOrdered, StreamCorrect, PTL DEF Spec

-----------------------------------------------------------------------------
(* The counters locate the frontier. *)

(* Every step keeps the frontier where the counters say. *)
LEMMA NextAccounted ==
  StreamInv /\ FrontierAccounted /\ [Next]_vars => FrontierAccounted'
  <1> SUFFICES ASSUME StreamInv, FrontierAccounted, [Next]_vars
               PROVE  FrontierAccounted'
    OBVIOUS
  <1>0. /\ TypeOK /\ LockInv /\ LocalsInv /\ pending_ \subseteq arrived
        /\ NoThread \notin Threads
        /\ stats_ \in ReorderStats /\ out \in [Threads -> Seq(seq_t)]
        /\ next_expected_ \in Nat /\ cfg_.start_seq \in Nat
        /\ InFlight \in Nat
    BY BufferAssumption
    DEF StreamInv, BaseInv, TypeOK, ReorderConfig, seq_t, InFlight
  <1>n. stats_.emitted \in Nat /\ stats_.missing_k_promotions \in Nat
    BY <1>0 DEF ReorderStats, Counters
  <1>1. CASE /\ UNCHANGED <<cfg_, next_expected_, promoted_missing_>>
             /\ stats_'.emitted = stats_.emitted
             /\ stats_'.missing_k_promotions = stats_.missing_k_promotions
             /\ InFlight' = InFlight
    BY <1>1 DEF FrontierAccounted
  <1>2. ASSUME NEW t \in Threads, NEW s \in Inputs, Push(t, s)
        PROVE  FrontierAccounted'
    <2>1. InFlight = 0 /\ InFlight' = 0
      BY <1>0, <1>2
      DEF Push, CanLock, DropBelowFrontier, DropDuplicate, Insert, Lock, InFlight,
          LocalsInv
    <2>2. /\ stats_'.emitted = stats_.emitted
          /\ stats_'.missing_k_promotions = stats_.missing_k_promotions
      <3>1. CASE DropBelowFrontier(s)
        BY <1>0, <3>1 DEF DropBelowFrontier, ReorderStats, Counters
      <3>2. CASE DropDuplicate(s) \/ Insert(t, s)
        BY <1>0, <3>2 DEF DropDuplicate, Insert, ReorderStats, Counters
      <3> QED
        BY <1>2, <3>1, <3>2 DEF Push
    <2> QED
      BY <1>1, <1>2, <2>1, <2>2 DEF Push
  <1>3. ASSUME NEW t \in Threads, PromoteUnderPressure(t) \/ PromoteWhileEmitting(t)
        PROVE  FrontierAccounted'
    <2>1. /\ PromoteFrontier /\ InFlight' = InFlight /\ cfg_' = cfg_
      BY <1>3 DEF PromoteUnderPressure, PromoteWhileEmitting, InFlight
    <2>2. next_expected_ < MaxSeq /\ next_expected_' = next_expected_ + 1
      BY <1>0, <2>1, FrontierBelowMax DEF PromoteFrontier, GivenUp, Succ
    <2>3. /\ stats_'.emitted = stats_.emitted
          /\ stats_'.missing_k_promotions = stats_.missing_k_promotions + 1
      BY <1>0, <2>1 DEF PromoteFrontier, GivenUp, ReorderStats, Counters
    <2>4. next_expected_ \notin promoted_missing_
      BY <1>0 DEF StreamInv, ExactlyOnce
    <2>5. Cardinality(promoted_missing_') = Cardinality(promoted_missing_) + 1
      <3>1. IsFiniteSet(seq_t)
        BY FS_Interval, BufferAssumption DEF seq_t
      <3>2. promoted_missing_ \in SUBSET seq_t
        BY <1>0 DEF TypeOK
      <3>3. IsFiniteSet(promoted_missing_)
        BY <3>1, <3>2, FS_Subset
      <3> QED
        BY <2>1, <2>4, <3>3, FS_AddElement DEF PromoteFrontier, GivenUp
    <2> QED
      BY <1>0, <1>n, <2>1, <2>2, <2>3, <2>5 DEF FrontierAccounted
  <1>4. ASSUME NEW t \in Threads, EvictFarthest(t) PROVE FrontierAccounted'
    <2>1. InFlight = 0 /\ InFlight' = 0
      BY <1>0, <1>4 DEF EvictFarthest, Unlock, LockInv, LocalsInv, InFlight
    <2>2. /\ stats_'.emitted = stats_.emitted
          /\ stats_'.missing_k_promotions = stats_.missing_k_promotions
      BY <1>0, <1>4 DEF EvictFarthest, CountEviction, ReorderStats, Counters
    <2> QED
      BY <1>1, <1>4, <2>1, <2>2 DEF EvictFarthest
  <1>5. ASSUME NEW t \in Threads, EmitFrontier(t) PROVE FrontierAccounted'
    <2>1. mu_ = t /\ mu_' = t
      BY <1>0, <1>5 DEF EmitFrontier, LockInv
    <2>2. InFlight' = InFlight + 1
      BY <1>0, <1>5, <2>1 DEF InFlight, EmitFrontier, TypeOK
    <2>3. next_expected_ < MaxSeq /\ next_expected_' = next_expected_ + 1
      BY <1>0, <1>5, FrontierBelowMax DEF EmitFrontier, Succ
    <2>4. UNCHANGED <<cfg_, stats_, promoted_missing_>>
      BY <1>5 DEF EmitFrontier
    <2> QED
      BY <1>0, <1>n, <2>2, <2>3, <2>4 DEF FrontierAccounted
  <1>6. ASSUME NEW t \in Threads, ReturnBatch(t) PROVE FrontierAccounted'
    <2>1. InFlight = Len(out[t]) /\ InFlight' = 0
      BY <1>0, <1>6 DEF ReturnBatch, Unlock, LockInv, InFlight
    <2>2. stats_' = [stats_ EXCEPT !.emitted = @ + InFlight]
      BY <1>6, <2>1 DEF ReturnBatch
    <2>3. /\ stats_'.emitted = stats_.emitted + InFlight
          /\ stats_'.missing_k_promotions = stats_.missing_k_promotions
      BY <1>0, <2>2 DEF ReorderStats, Counters
    <2>4. UNCHANGED <<cfg_, next_expected_, promoted_missing_>>
      BY <1>6 DEF ReturnBatch
    <2> QED
      BY <1>0, <1>n, <2>1, <2>3, <2>4 DEF FrontierAccounted
  <1>7. ASSUME NEW t \in Threads, TryEmit(t) \/ OpenGate(t) \/ StayShut(t)
        PROVE  FrontierAccounted'
    <2>1. InFlight' = InFlight
      BY <1>0, <1>7
      DEF TryEmit, OpenGate, StayShut, Lock, Unlock, CanLock, InFlight, LockInv, LocalsInv
    <2> QED
      BY <1>1, <1>7, <2>1 DEF TryEmit, OpenGate, StayShut
  <1>8. CASE UNCHANGED <<cfg_, next_expected_, promoted_missing_, stats_, mu_, out>>
    BY <1>1, <1>8 DEF InFlight
  <1> QED
    BY <1>2, <1>3, <1>4, <1>5, <1>6, <1>7, <1>8 DEF Next, Continue, SetWatchdog, GateOnInstall, vars

(* start_seq, what was emitted and what was promoted add up to the         *)
(* frontier, so a reader of stats() and next_expected() can tell from the  *)
(* counters how far the stream is.                                         *)
THEOREM CountersLocateFrontier == Spec => []FrontierAccounted
  <1>1. Init => FrontierAccounted
    BY BufferAssumption, FS_EmptySet
    DEF Init, FrontierAccounted, ZeroStats, InFlight, ReorderConfig, seq_t
  <1> QED
    BY <1>1, NextAccounted, StreamCorrect, PTL DEF Spec

-----------------------------------------------------------------------------
(* More numbers, more of them beyond a given one. *)
LEMMA BeyondMonotone ==
  ASSUME NEW S \in SUBSET seq_t, NEW R \in SUBSET S, NEW n
  PROVE  /\ Cardinality({a \in R : a > n}) \in Nat
         /\ Cardinality({a \in S : a > n}) \in Nat
         /\ Cardinality({a \in R : a > n}) <= Cardinality({a \in S : a > n})
  <1>1. IsFiniteSet({a \in S : a > n})
    <2>1. IsFiniteSet(seq_t)
      BY FS_Interval, BufferAssumption DEF seq_t
    <2> QED
      BY <2>1, FS_Subset
  <1>2. {a \in R : a > n} \in SUBSET {a \in S : a > n}
    OBVIOUS
  <1> QED
    BY <1>1, <1>2, FS_Subset, FS_CardinalityType

(* What waits beyond the frontier has arrived beyond it. *)
LEMMA PromotionJustified ==
  ASSUME TypeOK, pending_ \subseteq arrived, CanPromote
  PROVE  /\ cfg_.missing_k > 0
         /\ Cardinality({a \in arrived : a > next_expected_}) >= cfg_.missing_k
  <1>1. arrived \in SUBSET seq_t /\ pending_ \in SUBSET arrived /\ cfg_.missing_k \in Nat
    BY BufferAssumption DEF TypeOK, ReorderConfig
  <1>2. /\ cfg_.missing_k > 0
        /\ Cardinality({a \in pending_ : a > next_expected_}) >= cfg_.missing_k
    BY DEF CanPromote, count_beyond_frontier
  <1>3. /\ Cardinality({a \in pending_ : a > next_expected_}) \in Nat
        /\ Cardinality({a \in arrived : a > next_expected_}) \in Nat
        /\ Cardinality({a \in pending_ : a > next_expected_})
             <= Cardinality({a \in arrived : a > next_expected_})
    BY <1>1, BeyondMonotone
  <1> DEFINE waiting == Cardinality({a \in pending_ : a > next_expected_})
             come == Cardinality({a \in arrived : a > next_expected_})
  <1>4. waiting \in Nat /\ come \in Nat /\ waiting <= come /\ waiting >= cfg_.missing_k
    BY <1>2, <1>3
  <1> HIDE DEF waiting, come
  <1>5. come >= cfg_.missing_k
    BY <1>1, <1>4
  <1> QED
    BY <1>2, <1>5 DEF come

(* Every step gives up the overtaken only, and takes no arrival back.      *)
LEMMA NextJustified == StreamInv /\ GapsJustified /\ [Next]_vars => GapsJustified'
  <1> SUFFICES ASSUME StreamInv, GapsJustified, [Next]_vars PROVE GapsJustified'
    OBVIOUS
  <1>0. TypeOK /\ LockInv /\ LocalsInv /\ pending_ \subseteq arrived
    BY DEF StreamInv, BaseInv
  <1>1. arrived \in SUBSET seq_t /\ cfg_.missing_k \in Nat
    BY <1>0, BufferAssumption DEF TypeOK, ReorderConfig
  <1>2. ASSUME NEW s \in Inputs, Arriving(s) PROVE GapsJustified'
    <2>1. arrived' \in SUBSET seq_t /\ arrived \in SUBSET arrived'
      BY <1>1, <1>2, BufferAssumption DEF Arriving
    <2>2. cfg_' = cfg_ /\ promoted_missing_' = promoted_missing_
      BY <1>2 DEF Arriving
    <2>3. ASSUME NEW r \in promoted_missing_
          PROVE  Cardinality({a \in arrived' : a > r}) >= cfg_.missing_k
      <3> DEFINE before == Cardinality({a \in arrived : a > r})
                 after == Cardinality({a \in arrived' : a > r})
      <3>1. before \in Nat /\ after \in Nat /\ before <= after
        BY <2>1, BeyondMonotone
      <3>2. before >= cfg_.missing_k
        BY DEF GapsJustified
      <3> HIDE DEF before, after
      <3>3. after >= cfg_.missing_k
        BY <1>1, <3>1, <3>2
      <3> QED
        BY <3>3 DEF after
    <2> QED
      BY <2>2, <2>3 DEF GapsJustified
  <1>3. CASE Skipping
    BY <1>0, <1>3, PromotionJustified DEF Skipping, GapsJustified
  <1>4. CASE Leaving \/ Losing
    BY <1>4 DEF Leaving, Losing, GapsJustified
  <1> QED
    BY <1>0, <1>2, <1>3, <1>4, StreamStep

(* A number is given up only after missing_k later ones arrived: neither   *)
(* promotion loop outruns the arrivals, so the set promoted_missing_ and   *)
(* the time spent in the loops are bounded by how far the arrivals jump.   *)
THEOREM GapsAreOvertaken == Spec => []GapsJustified
  <1>1. Init => GapsJustified
    BY DEF Init, GapsJustified
  <1> QED
    BY <1>1, NextJustified, StreamCorrect, PTL DEF Spec

-----------------------------------------------------------------------------
(* The loops. *)

(* A frontier that moves on is one of the numbers up to the arrivals.      *)
LEMMA FrontierLeftToPass ==
  ASSUME StreamInv, next_expected_ \in pending_ \/ CanPromote
  PROVE  next_expected_ \in LeftToPass
  <1>1. /\ next_expected_ \in seq_t /\ arrived \subseteq seq_t /\ pending_ \subseteq arrived
        /\ cfg_.missing_k \in Nat /\ TypeOK
    BY BufferAssumption DEF StreamInv, BaseInv, TypeOK, ReorderConfig
  <1>2. next_expected_ <= next_expected_
    BY <1>1, BufferAssumption DEF seq_t
  <1>3. \E a \in arrived : next_expected_ <= a
    <2>1. CASE next_expected_ \in pending_
      BY <1>1, <1>2, <2>1
    <2>2. CASE CanPromote
      <3> DEFINE beyond == {a \in arrived : a > next_expected_}
      <3>1. Cardinality(beyond) >= cfg_.missing_k /\ cfg_.missing_k > 0
        BY <1>1, <2>2, PromotionJustified
      <3>2. beyond # {}
        <4>1. Cardinality(beyond) # 0
          BY <1>1, <3>1
        <4> QED
          BY <4>1, FS_EmptySet
      <3>3. PICK a \in arrived : a > next_expected_
        BY <3>2
      <3>4. a \in Nat /\ next_expected_ \in Nat
        BY <1>1, BufferAssumption DEF seq_t
      <3> QED
        BY <3>3, <3>4
    <2> QED
      BY <2>1, <2>2
  <1> QED
    BY <1>1, <1>2, <1>3 DEF LeftToPass

(* An iteration takes the frontier from the numbers ahead, and nobody else *)
(* adds to them meanwhile.                                                 *)
LEMMA IterationShrinks ==
  ASSUME StreamInv, Next, NEW t \in Threads,
         pc[t] \in {"pressure", "emit"}, pc'[t] = pc[t]
  PROVE  Cardinality(LeftToPass') < Cardinality(LeftToPass)
  <1>0. TypeOK /\ LockInv /\ LocalsInv /\ pending_ \subseteq arrived
    BY DEF StreamInv, BaseInv
  <1>1. mu_ = t /\ t # NoThread /\ \A u \in Threads : pc[u] # "idle" <=> u = t
    BY <1>0, BufferAssumption DEF LockInv
  <1>2. PromoteUnderPressure(t) \/ EmitFrontier(t) \/ PromoteWhileEmitting(t)
    <2>1. PICK u \in Threads :
            \/ \E s \in Inputs : Push(u, s)
            \/ \E wd \in Watchdogs \cup {NoWatchdog} : SetWatchdog(u, wd)
            \/ TryEmit(u)
            \/ Continue(u)
      BY DEF Next
    <2>2. ~CanLock(u)
      BY <1>1 DEF CanLock
    <2>3. Continue(u)
      BY <2>1, <2>2 DEF Push, SetWatchdog, TryEmit
    <2>4. u = t
      BY <1>1, <2>3 DEF Continue, PromoteUnderPressure, EvictFarthest, OpenGate, StayShut,
         EmitFrontier, PromoteWhileEmitting, ReturnBatch
    <2>5. ~Unlock(t)
      BY <1>0 DEF Unlock, TypeOK
    <2> QED
      BY <2>3, <2>4, <2>5 DEF Continue, EvictFarthest, OpenGate, StayShut, ReturnBatch
  <1>3. next_expected_ \in pending_ \/ CanPromote
    BY <1>2 DEF PromoteUnderPressure, EmitFrontier, PromoteWhileEmitting, PromoteFrontier
  <1>4. next_expected_ \in Nat /\ next_expected_' = next_expected_ + 1 /\ arrived' = arrived
    <2>1. next_expected_ < MaxSeq /\ next_expected_ \in Nat
      BY <1>0, <1>3, FrontierBelowMax, BufferAssumption DEF TypeOK, seq_t
    <2> QED
      BY <1>2, <2>1 DEF PromoteUnderPressure, EmitFrontier, PromoteWhileEmitting,
         PromoteFrontier, Succ
  <1>5. LeftToPass' = LeftToPass \ {next_expected_}
    <2>1. \A n \in seq_t : next_expected_ + 1 <= n <=> next_expected_ <= n /\ n # next_expected_
      BY <1>4, BufferAssumption DEF seq_t
    <2> QED
      BY <1>4, <2>1 DEF LeftToPass
  <1>6. IsFiniteSet(LeftToPass)
    <2>1. IsFiniteSet(seq_t)
      BY FS_Interval, BufferAssumption DEF seq_t
    <2>2. LeftToPass \in SUBSET seq_t
      BY DEF LeftToPass
    <2> QED
      BY <2>1, <2>2, FS_Subset
  <1>7. Cardinality(LeftToPass \ {next_expected_}) = Cardinality(LeftToPass) - 1
    BY <1>3, <1>6, FrontierLeftToPass, FS_RemoveElement
  <1> QED
    BY <1>5, <1>6, <1>7, FS_CardinalityType

(* For every configuration and number of threads, a call that holds mu_    *)
(* has at most as many iterations left as there are numbers between the    *)
(* frontier and the largest arrival.                                       *)
THEOREM LoopsRunOut == Spec => IterationsRunOut
  <1>1. StreamInv /\ [Next]_vars
          => [\A t \in Threads :
                pc[t] \in {"pressure", "emit"} /\ pc'[t] = pc[t]
                  => Cardinality(LeftToPass') < Cardinality(LeftToPass)]_vars
    BY IterationShrinks
  <1> QED
    BY <1>1, StreamCorrect, PTL DEF Spec, IterationsRunOut

-----------------------------------------------------------------------------
(* The contract. *)

(* Both modules take Cardinality from FiniteSets. *)
LEMMA SameCardinality == \A S : Contract!Cardinality(S) = Cardinality(S)
  BY DEF Cardinality, Contract!Cardinality

(* The stream of a ReorderBuffer is a behaviour of StreamContract: every   *)
(* step of the buffer is an arrival, a delivery, a giving up or invisible. *)
THEOREM StreamImplementsContract == Spec => ImplementsContract
  <1>1. Init => Contract!Init
    BY DEF Init, Contract!Init
  <1>2. StreamInv /\ [Next]_vars => [Contract!Next]_(Contract!vars)
    <2> SUFFICES ASSUME StreamInv, [Next]_vars
                 PROVE  Contract!Next \/ UNCHANGED Contract!vars
      OBVIOUS
    <2>0. TypeOK /\ LockInv /\ LocalsInv /\ pending_ \subseteq arrived
      BY DEF StreamInv, BaseInv
    <2>1. ASSUME NEW s \in Inputs, Arriving(s) PROVE Contract!Arrive(s)
      BY <2>1 DEF Arriving, Contract!Arrive
    <2>2. CASE Leaving
      BY <2>0, <2>2 DEF Leaving, Contract!Next, Contract!Deliver
    <2>3. CASE Skipping
      <3>1. /\ cfg_.missing_k > 0
            /\ Cardinality({a \in arrived : a > next_expected_}) >= cfg_.missing_k
        BY <2>0, <2>3, PromotionJustified DEF Skipping
      <3>2. Contract!GiveUp
        BY <2>3, <3>1, SameCardinality DEF Skipping, Contract!GiveUp
      <3> QED
        BY <3>2 DEF Contract!Next
    <2>4. CASE Losing
      BY <2>4 DEF Losing, Contract!vars
    <2> QED
      BY <2>0, <2>1, <2>2, <2>3, <2>4, StreamStep DEF Contract!Next
  <1> QED
    BY <1>1, <1>2, StreamCorrect, PTL DEF Spec, ImplementsContract, Contract!Spec

=============================================================================
