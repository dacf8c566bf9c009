---------------------------- MODULE AtomicProofs ----------------------------
(***************************************************************************)
(* The calls of a ReorderBuffer look indivisible, for every set of         *)
(* threads, configuration and number of calls, as long as the largest      *)
(* seq_t is not pushed: AtomicBuffer is what a caller sees, counters       *)
(* included.                                                               *)
(***************************************************************************)
EXTENDS StreamProofs, Induction

-----------------------------------------------------------------------------
(* Where a loop ends. *)

(* From n on, m is the first element of Stops. *)
IsFirst(m, n, Stops) ==
  m \in n .. MaxSeq /\ m \in Stops /\ \A j \in n .. (m - 1) : j \notin Stops

(* There is one, if there is any up to the largest seq_t. *)
LEMMA FirstExists ==
  ASSUME NEW n \in seq_t, NEW Stops, MaxSeq \in Stops
  PROVE  \E m \in n .. MaxSeq : IsFirst(m, n, Stops)
  <1>0. n \in Nat /\ MaxSeq \in Nat /\ n <= MaxSeq
    BY BufferAssumption DEF seq_t
  <1> DEFINE later == {m \in n .. MaxSeq : m \in Stops}
  <1>1. later \in SUBSET Nat /\ MaxSeq \in later
    BY <1>0
  <1>2. PICK m \in later : \A j \in later : m <= j
    <2> HIDE DEF later
    <2> QED
      BY <1>1, LeastOf
  <1> QED
    BY <1>0, <1>2 DEF IsFirst

(* There is only one, and it is the one after n unless it is n. *)
LEMMA FirstFacts ==
  ASSUME NEW n \in seq_t, NEW Stops
  PROVE  /\ \A l, m : IsFirst(l, n, Stops) /\ IsFirst(m, n, Stops) => l = m
         /\ n \in Stops => IsFirst(n, n, Stops)
         /\ \A m : n \notin Stops /\ IsFirst(m, n + 1, Stops) => IsFirst(m, n, Stops)
  <1>0. n \in Nat /\ MaxSeq \in Nat /\ n <= MaxSeq
    BY BufferAssumption DEF seq_t
  <1> QED
    BY <1>0 DEF IsFirst

(* A set of numbers below the largest seq_t. *)
Held(S) == S \subseteq seq_t /\ MaxSeq \notin S

(* Where try_emit() cannot go on, and where promotions cannot. *)
EmissionStops(S, k) == {m \in seq_t : Loops!Gap(S, k, m)}

PromotionStops(S, k) == {m \in seq_t : m \in S \/ Loops!Gap(S, k, m)}

(* Both modules take Cardinality from FiniteSets. *)
LEMMA SameSize == \A S : /\ Atomic!Cardinality(S) = Cardinality(S)
                         /\ Loops!Cardinality(S) = Cardinality(S)
  BY DEF Cardinality, Atomic!Cardinality, Loops!Cardinality

(* A gap that is not passed has too few numbers beyond it. *)
LEMMA GapIs ==
  ASSUME NEW S, NEW k, NEW m
  PROVE  Loops!Gap(S, k, m) <=> m \notin S /\ (k = 0 \/ Cardinality({s \in S : s > m}) < k)
  BY SameSize DEF Loops!Gap

(* Nothing goes past the largest seq_t. *)
LEMMA LastGap ==
  ASSUME NEW S, Held(S), NEW k \in Nat
  PROVE  Loops!Gap(S, k, MaxSeq)
  <1>1. \A s \in S : ~(s > MaxSeq)
    BY BufferAssumption DEF Held, seq_t
  <1>2. Cardinality({s \in S : s > MaxSeq}) = 0
    <2>1. {s \in S : s > MaxSeq} = {}
      BY <1>1
    <2> QED
      BY <2>1, FS_EmptySet
  <1> QED
    BY <1>2, GapIs DEF Held

(* The ends that AtomicBuffer chooses are those first stops. *)
LEMMA EndsAreFirst ==
  ASSUME NEW S, Held(S), NEW k \in Nat, NEW n \in seq_t
  PROVE  /\ IsFirst(Loops!EmissionEnd(S, k, n), n, EmissionStops(S, k))
         /\ IsFirst(Loops!PromotionEnd(S, k, n), n, PromotionStops(S, k))
  <1>0. n \in Nat /\ MaxSeq \in Nat /\ n <= MaxSeq /\ MaxSeq \in seq_t
    BY BufferAssumption DEF seq_t
  <1>1. \E m \in n .. MaxSeq : IsFirst(m, n, EmissionStops(S, k))
    BY <1>0, LastGap, FirstExists DEF EmissionStops
  <1>2. \E m \in n .. MaxSeq : IsFirst(m, n, PromotionStops(S, k))
    BY <1>0, LastGap, FirstExists DEF PromotionStops
  <1>3. \A m \in n .. MaxSeq :
          IsFirst(m, n, EmissionStops(S, k))
            <=> Loops!Gap(S, k, m) /\ \A j \in n .. (m - 1) : ~Loops!Gap(S, k, j)
    BY <1>0 DEF IsFirst, EmissionStops, seq_t
  <1>4. \A m \in n .. MaxSeq :
          IsFirst(m, n, PromotionStops(S, k))
            <=> /\ m \in S \/ Loops!Gap(S, k, m)
                /\ \A j \in n .. (m - 1) : ~(j \in S \/ Loops!Gap(S, k, j))
    BY <1>0 DEF IsFirst, PromotionStops, seq_t
  <1>5. IsFirst(Loops!EmissionEnd(S, k, n), n, EmissionStops(S, k))
    BY <1>1, <1>3 DEF Loops!EmissionEnd, Loops!First
  <1>6. IsFirst(Loops!PromotionEnd(S, k, n), n, PromotionStops(S, k))
    BY <1>2, <1>4 DEF Loops!PromotionEnd, Loops!First
  <1> QED
    BY <1>5, <1>6

(* The end is here if this is a stop, else it is that of the next number.  *)
LEMMA EmissionEnds ==
  ASSUME NEW S, Held(S), NEW k \in Nat, NEW n \in seq_t
  PROVE  /\ Loops!Gap(S, k, n) => Loops!EmissionEnd(S, k, n) = n
         /\ ~Loops!Gap(S, k, n) =>
              /\ n + 1 \in seq_t
              /\ Loops!EmissionEnd(S, k, n) = Loops!EmissionEnd(S, k, n + 1)
  <1>0. n \in Nat /\ MaxSeq \in Nat /\ n <= MaxSeq
    BY BufferAssumption DEF seq_t
  <1>1. ASSUME Loops!Gap(S, k, n) PROVE Loops!EmissionEnd(S, k, n) = n
    <2>1. IsFirst(n, n, EmissionStops(S, k))
      BY <1>1, FirstFacts DEF EmissionStops
    <2>2. IsFirst(Loops!EmissionEnd(S, k, n), n, EmissionStops(S, k))
      BY EndsAreFirst
    <2> QED
      BY <2>1, <2>2, FirstFacts
  <1>2. ASSUME ~Loops!Gap(S, k, n)
        PROVE  /\ n + 1 \in seq_t
               /\ Loops!EmissionEnd(S, k, n) = Loops!EmissionEnd(S, k, n + 1)
    <2>1. n # MaxSeq
      BY <1>2, LastGap
    <2>2. n + 1 \in seq_t /\ n \notin EmissionStops(S, k)
      BY <1>0, <1>2, <2>1 DEF seq_t, EmissionStops
    <2>3. IsFirst(Loops!EmissionEnd(S, k, n + 1), n, EmissionStops(S, k))
      BY <2>2, EndsAreFirst, FirstFacts
    <2> QED
      BY <2>2, <2>3, EndsAreFirst, FirstFacts
  <1> QED
    BY <1>1, <1>2

(* The same of promotions. *)
LEMMA PromotionEnds ==
  ASSUME NEW S, Held(S), NEW k \in Nat, NEW n \in seq_t
  PROVE  /\ n \in S \/ Loops!Gap(S, k, n) => Loops!PromotionEnd(S, k, n) = n
         /\ n \notin S /\ ~Loops!Gap(S, k, n) =>
              /\ n + 1 \in seq_t
              /\ Loops!PromotionEnd(S, k, n) = Loops!PromotionEnd(S, k, n + 1)
  <1>0. n \in Nat /\ MaxSeq \in Nat /\ n <= MaxSeq
    BY BufferAssumption DEF seq_t
  <1>1. ASSUME n \in S \/ Loops!Gap(S, k, n) PROVE Loops!PromotionEnd(S, k, n) = n
    <2>1. IsFirst(n, n, PromotionStops(S, k))
      BY <1>1, FirstFacts DEF PromotionStops
    <2>2. IsFirst(Loops!PromotionEnd(S, k, n), n, PromotionStops(S, k))
      BY EndsAreFirst
    <2> QED
      BY <2>1, <2>2, FirstFacts
  <1>2. ASSUME n \notin S, ~Loops!Gap(S, k, n)
        PROVE  /\ n + 1 \in seq_t
               /\ Loops!PromotionEnd(S, k, n) = Loops!PromotionEnd(S, k, n + 1)
    <2>1. n # MaxSeq
      BY <1>2, LastGap
    <2>2. n + 1 \in seq_t /\ n \notin PromotionStops(S, k)
      BY <1>0, <1>2, <2>1 DEF seq_t, PromotionStops
    <2>3. IsFirst(Loops!PromotionEnd(S, k, n + 1), n, PromotionStops(S, k))
      BY <2>2, EndsAreFirst, FirstFacts
    <2> QED
      BY <2>2, <2>3, EndsAreFirst, FirstFacts
  <1> QED
    BY <1>1, <1>2

(* Promotions pass no number held. *)
LEMMA PromotionsPassGaps ==
  ASSUME NEW S, Held(S), NEW k \in Nat, NEW n \in seq_t
  PROVE  \A j \in n .. (Loops!PromotionEnd(S, k, n) - 1) : j \notin S
  BY EndsAreFirst DEF IsFirst, PromotionStops, Held

(* Emitting n does not change where the batch ends. *)
LEMMA EmittedNotMissed ==
  ASSUME NEW S, Held(S), NEW k \in Nat, NEW n \in seq_t, n + 1 \in seq_t
  PROVE  Loops!EmissionEnd(S \ {n}, k, n + 1) = Loops!EmissionEnd(S, k, n + 1)
  <1>0. n \in Nat /\ MaxSeq \in Nat /\ n < MaxSeq
    BY BufferAssumption DEF seq_t
  <1>1. ASSUME NEW m \in (n + 1) .. MaxSeq
        PROVE  Loops!Gap(S \ {n}, k, m) <=> Loops!Gap(S, k, m)
    <2>1. {s \in S \ {n} : s > m} = {s \in S : s > m}
      BY <1>0
    <2>2. m \in S \ {n} <=> m \in S
      BY <1>0
    <2> QED
      BY <2>1, <2>2, GapIs
  <1>2. \A m : IsFirst(m, n + 1, EmissionStops(S \ {n}, k))
               <=> IsFirst(m, n + 1, EmissionStops(S, k))
    BY <1>0, <1>1 DEF IsFirst, EmissionStops
  <1>3. Held(S \ {n})
    BY DEF Held
  <1>4. IsFirst(Loops!EmissionEnd(S \ {n}, k, n + 1), n + 1, EmissionStops(S \ {n}, k))
    BY <1>3, EndsAreFirst
  <1>5. IsFirst(Loops!EmissionEnd(S, k, n + 1), n + 1, EmissionStops(S, k))
    BY EndsAreFirst
  <1> QED
    BY <1>2, <1>4, <1>5, FirstFacts

-----------------------------------------------------------------------------
(* Counters. *)

(* n more of the counter c. *)
Adding(st, c, n) == [st EXCEPT ![c] = @ + n]

(* What the rest of a call will add to the counters. *)
Tally(st, more, gone, lost) ==
  Adding(Adding(Adding(st, "emitted", more), "missing_k_promotions", gone), "evicted", lost)

(* An increment changes one counter. *)
LEMMA AddingFacts ==
  ASSUME NEW st \in ReorderStats, NEW c \in Counters, NEW n \in Nat
  PROVE  /\ Adding(st, c, n) \in ReorderStats
         /\ Adding(st, c, 0) = st
         /\ Adding(st, c, n)[c] = st[c] + n
         /\ \A d \in Counters : d # c => Adding(st, c, n)[d] = st[d]
  BY DEF Adding, ReorderStats

(* Two increments of a counter are one, and their order does not matter. *)
LEMMA AddingTwice ==
  ASSUME NEW st \in ReorderStats, NEW c \in Counters, NEW d \in Counters,
         NEW m \in Nat, NEW n \in Nat
  PROVE  /\ Adding(Adding(st, c, m), c, n) = Adding(st, c, m + n)
         /\ Adding(Adding(st, c, m), d, n) = Adding(Adding(st, d, n), c, m)
  <1>1. \A s \in ReorderStats : s = [x \in Counters |-> s[x]] /\ \A x \in Counters : s[x] \in Nat
    BY DEF ReorderStats
  <1>2. ASSUME NEW a \in ReorderStats, NEW b \in ReorderStats, \A x \in Counters : a[x] = b[x]
        PROVE  a = b
    <2>1. [x \in Counters |-> a[x]] = [x \in Counters |-> b[x]]
      BY <1>2
    <2> QED
      BY <1>1, <2>1
  <1> DEFINE sc == Adding(st, c, m)
             sd == Adding(st, d, n)
             scc == Adding(sc, c, n)
             scd == Adding(sc, d, n)
             sdc == Adding(sd, c, m)
             s2 == Adding(st, c, m + n)
  <1>3. sc \in ReorderStats /\ sd \in ReorderStats /\ s2 \in ReorderStats
    BY AddingFacts
  <1>4. /\ sc[c] = st[c] + m /\ sd[d] = st[d] + n /\ s2[c] = st[c] + (m + n)
        /\ \A x \in Counters : /\ x # c => sc[x] = st[x] /\ s2[x] = st[x]
                               /\ x # d => sd[x] = st[x]
    BY AddingFacts
  <1> HIDE DEF sc, sd, s2
  <1>5. scc \in ReorderStats /\ scd \in ReorderStats /\ sdc \in ReorderStats
    BY <1>3, AddingFacts
  <1>6. /\ scc[c] = sc[c] + n /\ scd[d] = sc[d] + n /\ sdc[c] = sd[c] + m
        /\ \A x \in Counters : /\ x # c => scc[x] = sc[x] /\ sdc[x] = sd[x]
                               /\ x # d => scd[x] = sc[x]
    BY <1>3, AddingFacts
  <1> HIDE DEF scc, scd, sdc
  <1>7. \A x \in Counters : scc[x] = s2[x]
    BY <1>1, <1>3, <1>4, <1>6
  <1>8. \A x \in Counters : scd[x] = sdc[x]
    BY <1>1, <1>3, <1>4, <1>6
  <1>9. scc = s2
    BY <1>2, <1>3, <1>5, <1>7
  <1>10. scd = sdc
    BY <1>2, <1>5, <1>8
  <1> QED
    BY <1>9, <1>10 DEF scc, s2, scd, sdc, sc, sd

(* The code counts with ++ and +=. *)
LEMMA TallyIs ==
  ASSUME NEW st \in ReorderStats, NEW more \in Nat, NEW gone \in Nat, NEW lost \in Nat
  PROVE  /\ [st EXCEPT !.missing_k_promotions = @ + 1] = Adding(st, "missing_k_promotions", 1)
         /\ [st EXCEPT !.evicted = @ + 1] = Adding(st, "evicted", 1)
         /\ [st EXCEPT !.emitted = @ + more] = Adding(st, "emitted", more)
         /\ [st EXCEPT !.received = @ + 1] = Adding(st, "received", 1)
         /\ [st EXCEPT !.emitted = @ + more, !.missing_k_promotions = @ + gone]
              = Adding(Adding(st, "emitted", more), "missing_k_promotions", gone)
         /\ [st EXCEPT !.received = @ + 1, !.evicted = @ + 1, !.missing_k_promotions = @ + gone]
              = Adding(Adding(Adding(st, "received", 1), "evicted", 1), "missing_k_promotions", gone)
  BY DEF Tally, Adding, ReorderStats, Counters

(* Counting now or at the end of the call comes to the same. *)
LEMMA TallyFacts ==
  ASSUME NEW st \in ReorderStats, NEW more \in Nat, NEW gone \in Nat, NEW lost \in Nat
  PROVE  /\ Tally(st, more, gone, lost) \in ReorderStats
         /\ Tally(st, 0, 0, 0) = st
         /\ Tally(Adding(st, "missing_k_promotions", 1), more, gone, lost)
              = Tally(st, more, gone + 1, lost)
         /\ Adding(st, "evicted", 1) = Tally(st, 0, 0, 1)
         /\ Adding(st, "emitted", more) = Tally(st, more, 0, 0)
         /\ Adding(Adding(st, "emitted", more), "missing_k_promotions", gone)
              = Tally(st, more, gone, 0)
         /\ Adding(Adding(Adding(st, "received", 1), "evicted", 1), "missing_k_promotions", gone)
              = Tally(Adding(st, "received", 1), 0, gone, 1)
  <1>1. {"received", "emitted", "missing_k_promotions", "evicted"} \subseteq Counters
    BY DEF Counters
  <1>2. \A s \in ReorderStats, c, d \in Counters, m, n \in Nat :
          /\ Adding(s, c, n) \in ReorderStats
          /\ Adding(s, c, 0) = s
          /\ Adding(Adding(s, c, m), c, n) = Adding(s, c, m + n)
          /\ Adding(Adding(s, c, m), d, n) = Adding(Adding(s, d, n), c, m)
    BY AddingFacts, AddingTwice
  <1> DEFINE sr == Adding(st, "received", 1)
             se == Adding(st, "emitted", more)
             sp == Adding(st, "missing_k_promotions", 1)
  <1>3. sr \in ReorderStats /\ se \in ReorderStats /\ sp \in ReorderStats
    BY <1>1, <1>2
  <1>4. /\ Adding(sp, "emitted", more) = Adding(se, "missing_k_promotions", 1)
        /\ Adding(Adding(se, "missing_k_promotions", 1), "missing_k_promotions", gone)
             = Adding(se, "missing_k_promotions", gone + 1)
    BY <1>1, <1>2, <1>3
  <1>5. Tally(sp, more, gone, lost) = Tally(st, more, gone + 1, lost)
    BY <1>4 DEF Tally
  <1>6. Tally(st, more, gone, lost) \in ReorderStats
    BY <1>1, <1>2 DEF Tally
  <1>7. /\ Tally(st, 0, 0, 0) = st /\ sp \in ReorderStats
        /\ Adding(st, "evicted", 1) = Tally(st, 0, 0, 1)
        /\ se = Tally(st, more, 0, 0)
        /\ Adding(se, "missing_k_promotions", gone) = Tally(st, more, gone, 0)
    BY <1>1, <1>2, <1>3 DEF Tally
  <1>8. Adding(Adding(sr, "evicted", 1), "missing_k_promotions", gone) = Tally(sr, 0, gone, 1)
    BY <1>1, <1>2, <1>3 DEF Tally
  <1> QED
    BY <1>5, <1>6, <1>7, <1>8

-----------------------------------------------------------------------------
(* What lies ahead. *)

(* The numbers ahead of n, up to the end e, are n and those ahead of n + 1.*)
LEMMA AheadFacts ==
  ASSUME NEW n \in Nat, NEW e \in Nat
  PROVE  /\ n .. (n - 1) = {}
         /\ IsFiniteSet(n .. (e - 1))
         /\ n <= e => Cardinality(n .. (e - 1)) = e - n
         /\ n + 1 <= e => n .. (e - 1) = {n} \cup ((n + 1) .. (e - 1))
         /\ n \notin (n + 1) .. (e - 1)
  <1>1. n .. (n - 1) = {} /\ n \notin (n + 1) .. (e - 1)
    OBVIOUS
  <1>2. IsFiniteSet(n .. (e - 1)) /\ (n <= e => Cardinality(n .. (e - 1)) = e - n)
    <2>1. /\ n \in Int /\ e - 1 \in Int
          /\ n <= e => (n > e - 1 <=> n = e) /\ (e - 1) - n + 1 = e - n
      OBVIOUS
    <2>2. /\ IsFiniteSet(n .. (e - 1))
          /\ Cardinality(n .. (e - 1)) = IF n > e - 1 THEN 0 ELSE (e - 1) - n + 1
      BY <2>1, FS_Interval
    <2> QED
      BY <2>1, <2>2
  <1>3. n + 1 <= e => n .. (e - 1) = {n} \cup ((n + 1) .. (e - 1))
    OBVIOUS
  <1> QED
    BY <1>1, <1>2, <1>3

(* An item that is emitted comes on top of those emitted later. *)
LEMMA ItemPassed ==
  ASSUME NEW A, IsFiniteSet(A), NEW S, NEW n \in S, n \notin A
  PROVE  /\ Cardinality(S \cap ({n} \cup A)) = Cardinality((S \ {n}) \cap A) + 1
         /\ Cardinality((S \ {n}) \cap A) \in Nat
         /\ ({n} \cup A) \ S = A \ (S \ {n})
  <1>1. IsFiniteSet((S \ {n}) \cap A)
    BY FS_Subset
  <1>2. S \cap ({n} \cup A) = ((S \ {n}) \cap A) \cup {n}
    OBVIOUS
  <1>3. ({n} \cup A) \ S = A \ (S \ {n})
    OBVIOUS
  <1> QED
    BY <1>1, <1>2, <1>3, FS_AddElement, FS_CardinalityType

(* And a gap that is given up on top of those given up later. *)
LEMMA GapPassed ==
  ASSUME NEW A, IsFiniteSet(A), NEW S, NEW n, n \notin S, n \notin A
  PROVE  /\ S \cap ({n} \cup A) = S \cap A
         /\ Cardinality(({n} \cup A) \ S) = Cardinality(A \ S) + 1
  <1>1. IsFiniteSet(A \ S)
    BY FS_Subset
  <1>2. ({n} \cup A) \ S = (A \ S) \cup {n}
    OBVIOUS
  <1>3. S \cap ({n} \cup A) = S \cap A
    OBVIOUS
  <1> QED
    BY <1>1, <1>2, <1>3, FS_AddElement

-----------------------------------------------------------------------------
(* What a caller sees while a call is at work, mode by mode. *)

(* What a buffer holds will not wrap the frontier. *)
LEMMA BufferHeld ==
  StreamInv => /\ Held(pending_) /\ cfg_.missing_k \in Nat /\ cfg_.capacity \in Nat
               /\ next_expected_ \in seq_t /\ next_expected_ \in Nat
               /\ stats_ \in ReorderStats /\ InFlight \in Nat
               /\ pending_ \subseteq Nat
  <1> SUFFICES ASSUME StreamInv
               PROVE  /\ Held(pending_) /\ cfg_.missing_k \in Nat /\ cfg_.capacity \in Nat
                      /\ next_expected_ \in seq_t /\ next_expected_ \in Nat
                      /\ stats_ \in ReorderStats /\ InFlight \in Nat
                      /\ pending_ \subseteq Nat
    OBVIOUS
  <1>1. TypeOK /\ pending_ \subseteq arrived
    BY DEF StreamInv, BaseInv
  <1>2. /\ cfg_.missing_k \in Nat /\ cfg_.capacity \in Nat
        /\ next_expected_ \in seq_t /\ next_expected_ \in Nat
        /\ stats_ \in ReorderStats /\ pending_ \subseteq Nat
    BY <1>1, BufferAssumption DEF TypeOK, ReorderConfig, seq_t
  <1>3. InFlight \in Nat
    BY <1>1 DEF TypeOK, InFlight
  <1>4. Held(pending_)
    <2>1. \A s \in pending_ : s \in Inputs /\ s \in seq_t /\ s < MaxSeq
      BY <1>1, NoWrap, BufferAssumption DEF TypeOK
    <2>2. ~(MaxSeq < MaxSeq)
      BY BufferAssumption
    <2> QED
      BY <2>1, <2>2 DEF Held
  <1> QED
    BY <1>2, <1>3, <1>4

(* One thread at most is inside a call, and it is in one loop. *)
LEMMA OneMode ==
  BaseInv => /\ ~(UnderPressure /\ Emitting)
             /\ ~Emitting => InFlight = 0
             /\ mu_ = NoThread => ~UnderPressure /\ ~Emitting
             /\ \A t \in Threads : /\ pc[t] # "pressure" /\ pc[t] # "idle" => ~UnderPressure
                                   /\ pc[t] # "emit" /\ pc[t] # "idle" => ~Emitting
  <1> SUFFICES ASSUME BaseInv
               PROVE  /\ ~(UnderPressure /\ Emitting)
                      /\ ~Emitting => InFlight = 0
                      /\ mu_ = NoThread => ~UnderPressure /\ ~Emitting
                      /\ \A t \in Threads :
                           /\ pc[t] # "pressure" /\ pc[t] # "idle" => ~UnderPressure
                           /\ pc[t] # "emit" /\ pc[t] # "idle" => ~Emitting
    OBVIOUS
  <1>1. NoThread \notin Threads /\ \A t \in Threads : pc[t] # "idle" <=> mu_ = t
    BY BufferAssumption DEF BaseInv, LockInv
  <1>2. ASSUME NEW t \in Threads, pc[t] # "emit" PROVE Len(out[t]) = 0
    BY <1>2 DEF BaseInv, LocalsInv
  <1>3. ~Emitting => InFlight = 0
    BY <1>2 DEF Emitting, InFlight
  <1> QED
    BY <1>1, <1>3 DEF UnderPressure, Emitting

(* The counters a caller sees are those there are and a tally. *)
LEMMA StatsAre ==
  ASSUME StreamInv, NEW more \in Nat, NEW gone \in Nat, NEW lost \in Nat,
         more = InFlight + Cardinality(pending_ \cap Ahead),
         gone = Cardinality(Ahead \ pending_),
         lost = IF UnderPressure THEN 1 ELSE 0
  PROVE  FinalStats = Tally(stats_, more, gone, lost)
  <1>1. stats_ \in ReorderStats
    BY BufferHeld
  <1>2. FinalStats = [stats_ EXCEPT !.emitted = @ + more,
                        !.missing_k_promotions = @ + gone, !.evicted = @ + lost]
    BY Zenon DEF FinalStats
  <1>3. [stats_ EXCEPT !.emitted = @ + more,
           !.missing_k_promotions = @ + gone, !.evicted = @ + lost]
          = Tally(stats_, more, gone, lost)
    BY <1>1 DEF Tally, Adding, ReorderStats, Counters
  <1> QED
    BY <1>2, <1>3, Zenon

(* What there is. *)
QuietView ==
  /\ FinalFrontier = next_expected_ /\ FinalPending = pending_ /\ FinalStats = stats_
  /\ FinalPromoted = promoted_missing_ /\ FinalEmitted = Emitted

(* Nothing lies ahead unless a loop runs. *)
LEMMA QuietMap == StreamInv /\ ~UnderPressure /\ ~Emitting => QuietView
  <1> SUFFICES ASSUME StreamInv, ~UnderPressure, ~Emitting PROVE QuietView
    OBVIOUS
  <1>0. BaseInv /\ stats_ \in ReorderStats /\ next_expected_ \in Nat
    BY BufferHeld DEF StreamInv
  <1>1. FinalFrontier = next_expected_
    BY DEF FinalFrontier
  <1>2. Ahead = {}
    BY <1>0, <1>1, AheadFacts DEF Ahead
  <1>3. InFlight = 0
    BY <1>0, OneMode
  <1>4. /\ pending_ \cap Ahead = {} /\ Ahead \ pending_ = {} /\ pending_ \ Ahead = pending_
        /\ Cardinality({}) = 0
    BY <1>2, FS_EmptySet
  <1>5. FinalStats = Tally(stats_, 0, 0, 0)
    BY <1>3, <1>4, StatsAre
  <1>6. FinalStats = stats_
    BY <1>0, <1>5, TallyFacts
  <1> QED
    BY <1>1, <1>4, <1>6 DEF QuietView, FinalPending, FinalPromoted, FinalEmitted

(* As if the promotions and the eviction had been made. *)
PressureView ==
  /\ FinalFrontier = Loops!PromotionEnd(pending_, cfg_.missing_k, next_expected_)
  /\ FinalFrontier \in Nat /\ FinalFrontier - next_expected_ \in Nat
  /\ FinalPending = pending_ \ {Loops!Farthest(pending_)}
  /\ FinalStats = Tally(stats_, 0, FinalFrontier - next_expected_, 1)
  /\ FinalPromoted = promoted_missing_ \cup Ahead
  /\ FinalEmitted = Emitted

(* While push() relieves pressure it passes gaps only. *)
LEMMA PressureMap == StreamInv /\ UnderPressure => PressureView
  <1> SUFFICES ASSUME StreamInv, UnderPressure PROVE PressureView
    OBVIOUS
  <1>0. /\ BaseInv /\ Held(pending_) /\ cfg_.missing_k \in Nat
        /\ stats_ \in ReorderStats /\ next_expected_ \in seq_t /\ next_expected_ \in Nat
    BY BufferHeld DEF StreamInv
  <1>1. ~Emitting /\ InFlight = 0
    BY <1>0, OneMode
  <1>2. FinalFrontier = Loops!PromotionEnd(pending_, cfg_.missing_k, next_expected_)
    BY <1>1 DEF FinalFrontier
  <1>3. /\ FinalFrontier \in next_expected_ .. MaxSeq
        /\ \A j \in Ahead : j \notin pending_
    BY <1>0, <1>2, EndsAreFirst, PromotionsPassGaps DEF Ahead, IsFirst
  <1>4. /\ FinalFrontier \in Nat /\ next_expected_ <= FinalFrontier
        /\ FinalFrontier - next_expected_ \in Nat
    BY <1>0, <1>3, BufferAssumption
  <1>5. /\ pending_ \cap Ahead = {} /\ Ahead \ pending_ = Ahead
        /\ Cardinality({}) = 0 /\ Cardinality(Ahead) = FinalFrontier - next_expected_
    BY <1>0, <1>3, <1>4, AheadFacts, FS_EmptySet DEF Ahead
  <1>6. \A gone \in Nat : gone = Cardinality(Ahead) => FinalStats = Tally(stats_, 0, gone, 1)
    <2>1. /\ 0 = InFlight + Cardinality(pending_ \cap Ahead)
          /\ Cardinality(Ahead \ pending_) = Cardinality(Ahead)
          /\ 1 = IF UnderPressure THEN 1 ELSE 0
      BY <1>1, <1>5
    <2> QED
      BY <2>1, StatsAre
  <1> QED
    BY <1>2, <1>4, <1>5, <1>6 DEF PressureView, FinalPending, FinalPromoted, FinalEmitted

(* As if the batch had been taken out. *)
EmitView ==
  /\ FinalFrontier = Loops!EmissionEnd(pending_, cfg_.missing_k, next_expected_)
  /\ FinalFrontier \in Nat /\ FinalFrontier - next_expected_ \in Nat
  /\ FinalPending = pending_ \ Ahead /\ IsFiniteSet(Ahead)
  /\ FinalStats = Tally(stats_, InFlight + Cardinality(pending_ \cap Ahead),
                        Cardinality(Ahead \ pending_), 0)
  /\ InFlight + Cardinality(pending_ \cap Ahead) \in Nat
  /\ Cardinality(Ahead \ pending_) \in Nat

(* While try_emit() is past the gate it passes items and gaps. *)
LEMMA EmitMap == StreamInv /\ Emitting => EmitView
  <1> SUFFICES ASSUME StreamInv, Emitting PROVE EmitView
    OBVIOUS
  <1>0. /\ BaseInv /\ Held(pending_) /\ cfg_.missing_k \in Nat /\ InFlight \in Nat
        /\ stats_ \in ReorderStats /\ next_expected_ \in seq_t /\ next_expected_ \in Nat
    BY BufferHeld DEF StreamInv
  <1>1. ~UnderPressure
    BY <1>0, OneMode
  <1>2. FinalFrontier = Loops!EmissionEnd(pending_, cfg_.missing_k, next_expected_)
    BY <1>1 DEF FinalFrontier
  <1>3. FinalFrontier \in next_expected_ .. MaxSeq
    BY <1>0, <1>2, EndsAreFirst DEF IsFirst
  <1>4. /\ FinalFrontier \in Nat /\ FinalFrontier - next_expected_ \in Nat
        /\ IsFiniteSet(Ahead)
    BY <1>0, <1>3, AheadFacts, BufferAssumption DEF Ahead
  <1>5. IsFiniteSet(pending_ \cap Ahead) /\ IsFiniteSet(Ahead \ pending_)
    BY <1>4, FS_Subset
  <1>6. /\ Cardinality(pending_ \cap Ahead) \in Nat
        /\ Cardinality(Ahead \ pending_) \in Nat
    BY <1>5, FS_CardinalityType
  <1>7. InFlight + Cardinality(pending_ \cap Ahead) \in Nat
    BY <1>0, <1>6
  <1>8. FinalStats = Tally(stats_, InFlight + Cardinality(pending_ \cap Ahead),
                           Cardinality(Ahead \ pending_), 0)
    BY <1>1, <1>6, <1>7, StatsAre
  <1> QED
    BY <1>1, <1>2, <1>4, <1>6, <1>7, <1>8 DEF EmitView, FinalPending

(* The same after a step. *)
LEMMA ViewsNext ==
  StreamInv' =>
    /\ ~UnderPressure' /\ ~Emitting' => QuietView'
    /\ UnderPressure' => PressureView'
    /\ Emitting' => EmitView'
  BY QuietMap, PressureMap, EmitMap, PTL

(* AtomicBuffer's operators are the ones the view is made of. *)
LEMMA SameEnds ==
  ASSUME NEW S, NEW k, NEW n
  PROVE  /\ Loops!PromotionEnd(S, k, n) = Atomic!PromotionEnd(S, k, n)
         /\ Loops!EmissionEnd(S, k, n) = Atomic!EmissionEnd(S, k, n)
         /\ Loops!Farthest(S) = Atomic!Farthest(S)
  <1>1. Loops!PromotionEnd(S, k, n) = Atomic!PromotionEnd(S, k, n)
    BY SameSize
    DEF Atomic!PromotionEnd, Loops!PromotionEnd, Atomic!Gap, Loops!Gap, Atomic!First, Loops!First
  <1>2. Loops!EmissionEnd(S, k, n) = Atomic!EmissionEnd(S, k, n)
    BY SameSize
    DEF Atomic!EmissionEnd, Loops!EmissionEnd, Atomic!Gap, Loops!Gap, Atomic!First, Loops!First
  <1>3. Loops!Farthest(S) = Atomic!Farthest(S)
    BY DEF Atomic!Farthest, Loops!Farthest
  <1> QED
    BY <1>1, <1>2, <1>3

-----------------------------------------------------------------------------
(* The steps inside a call are invisible. *)

(* What has to be shown of them. *)
Unseen ==
  /\ FinalFrontier' = FinalFrontier /\ FinalPending' = FinalPending /\ FinalStats' = FinalStats
  /\ FinalPromoted' = FinalPromoted /\ FinalEmitted' = FinalEmitted

(* Nothing happens. *)
LEMMA StutterUnseen == UNCHANGED vars => Unseen
  BY DEF vars, Unseen, FinalFrontier, FinalPending, FinalStats, FinalPromoted, FinalEmitted,
         UnderPressure, Emitting, Ahead, Emitted, InFlight

(* The frontier is a gap with missing_k numbers beyond it: it is passed.   *)
LEMMA PromotionIsNoGap ==
  ASSUME StreamInv
  PROVE  /\ CanPromote => ~Loops!Gap(pending_, cfg_.missing_k, next_expected_)
         /\ ~CanPromote /\ next_expected_ \notin pending_
              => Loops!Gap(pending_, cfg_.missing_k, next_expected_)
  <1> DEFINE beyond == Cardinality({s \in pending_ : s > next_expected_})
  <1>1. cfg_.missing_k \in Nat /\ beyond \in Nat
    <2>1. TypeOK
      BY DEF StreamInv, BaseInv
    <2>2. IsFiniteSet({s \in pending_ : s > next_expected_})
      BY <2>1, PendingFinite, FS_Subset
    <2> QED
      BY <2>2, BufferHeld, FS_CardinalityType
  <1>2. count_beyond_frontier = beyond
    BY DEF count_beyond_frontier
  <1>3. Loops!Gap(pending_, cfg_.missing_k, next_expected_)
          <=> next_expected_ \notin pending_ /\ (cfg_.missing_k = 0 \/ beyond < cfg_.missing_k)
    BY GapIs
  <1> HIDE DEF beyond
  <1> QED
    BY <1>1, <1>2, <1>3 DEF CanPromote

(* A promotion inside push(). *)
LEMMA PressureStepUnseen ==
  ASSUME StreamInv, StreamInv', NEW t \in Threads, PromoteUnderPressure(t)
  PROVE  Unseen
  <1>0. /\ BaseInv /\ TypeOK /\ pending_ \subseteq arrived
        /\ Held(pending_) /\ cfg_.missing_k \in Nat
        /\ stats_ \in ReorderStats /\ next_expected_ \in seq_t /\ next_expected_ \in Nat
    BY BufferHeld DEF StreamInv, BaseInv
  <1>1. PressureView /\ PressureView'
    <2>1. UnderPressure /\ UnderPressure'
      BY DEF PromoteUnderPressure, UnderPressure
    <2> QED
      BY <2>1, PressureMap, ViewsNext
  <1>2. /\ CanPromote /\ UNCHANGED <<pending_, emitted, cfg_>>
        /\ promoted_missing_' = promoted_missing_ \cup {next_expected_}
        /\ next_expected_' = Succ(next_expected_)
        /\ stats_' = [stats_ EXCEPT !.missing_k_promotions = @ + 1]
    BY DEF PromoteUnderPressure, PromoteFrontier, GivenUp
  <1>3. next_expected_' = next_expected_ + 1 /\ next_expected_ \notin pending_
    BY <1>0, <1>2, FrontierBelowMax DEF CanPromote, Succ
  <1>4. FinalFrontier' = FinalFrontier
    <2>1. ~Loops!Gap(pending_, cfg_.missing_k, next_expected_)
      BY <1>2, PromotionIsNoGap
    <2>2. Loops!PromotionEnd(pending_, cfg_.missing_k, next_expected_)
            = Loops!PromotionEnd(pending_, cfg_.missing_k, next_expected_ + 1)
      BY <1>0, <1>3, <2>1, PromotionEnds
    <2> QED
      BY <1>1, <1>2, <1>3, <2>2 DEF PressureView
  <1>5. Ahead = {next_expected_} \cup Ahead'
    <2>1. FinalFrontier \in Nat /\ FinalFrontier - (next_expected_ + 1) \in Nat
      BY <1>1, <1>3, <1>4 DEF PressureView
    <2> QED
      BY <1>0, <1>3, <1>4, <2>1, AheadFacts DEF Ahead
  <1>6. FinalStats' = FinalStats
    <2> DEFINE d == FinalFrontier - (next_expected_ + 1)
    <2>1. d \in Nat /\ FinalFrontier - next_expected_ = d + 1
      BY <1>0, <1>1, <1>3, <1>4 DEF PressureView
    <2>2. FinalStats' = Tally(stats_', 0, d, 1) /\ FinalStats = Tally(stats_, 0, d + 1, 1)
      BY <1>1, <1>3, <1>4, <2>1 DEF PressureView
    <2>3. stats_' = Adding(stats_, "missing_k_promotions", 1)
      BY <1>2 DEF Adding
    <2> HIDE DEF d
    <2> QED
      BY <1>0, <2>1, <2>2, <2>3, TallyFacts
  <1>7. FinalPending' = FinalPending /\ FinalEmitted' = FinalEmitted
    BY <1>1, <1>2 DEF PressureView, Emitted
  <1>8. FinalPromoted' = FinalPromoted
    BY <1>1, <1>2, <1>5 DEF PressureView
  <1> QED
    BY <1>4, <1>6, <1>7, <1>8 DEF Unseen

(* The eviction: what push() was going to lose is lost. *)
LEMMA EvictionUnseen ==
  ASSUME StreamInv, StreamInv', NEW t \in Threads, EvictFarthest(t)
  PROVE  Unseen
  <1>0. /\ BaseInv /\ BaseInv' /\ Held(pending_) /\ cfg_.missing_k \in Nat
        /\ pending_ \subseteq Nat
        /\ stats_ \in ReorderStats /\ next_expected_ \in seq_t /\ next_expected_ \in Nat
    BY BufferHeld DEF StreamInv
  <1>1. PressureView /\ QuietView'
    <2>1. UnderPressure
      BY DEF EvictFarthest, UnderPressure
    <2>2. mu_' = NoThread
      BY DEF EvictFarthest, Unlock
    <2>3. BaseInv' => (mu_ = NoThread => ~UnderPressure /\ ~Emitting)'
      BY OneMode, PTL
    <2>4. ~UnderPressure' /\ ~Emitting'
      BY <1>0, <2>2, <2>3
    <2> QED
      BY <2>1, <2>4, PressureMap, ViewsNext
  <1>2. /\ ~CanPromote
        /\ UNCHANGED <<cfg_, next_expected_, promoted_missing_, emitted>>
        /\ stats_' = [stats_ EXCEPT !.evicted = @ + 1]
    BY DEF EvictFarthest, PromotionsOver, CountEviction
  <1>3. FinalFrontier = next_expected_
    <2>1. next_expected_ \in pending_ \/ Loops!Gap(pending_, cfg_.missing_k, next_expected_)
      BY <1>2, PromotionIsNoGap
    <2> QED
      BY <1>0, <1>1, <2>1, PromotionEnds DEF PressureView
  <1>4. Ahead = {} /\ FinalFrontier - next_expected_ = 0
    BY <1>0, <1>3, AheadFacts DEF Ahead
  <1>5. FinalStats = stats_'
    <2>1. FinalStats = Tally(stats_, 0, 0, 1)
      BY <1>1, <1>4 DEF PressureView
    <2>2. stats_' = Adding(stats_, "evicted", 1)
      BY <1>2 DEF Adding
    <2> QED
      BY <1>0, <2>1, <2>2, TallyFacts
  <1>6. FinalPending = pending_'
    <2>1. PICK lost \in pending_ : /\ \A s \in pending_ : s <= lost
                                   /\ pending_' = pending_ \ {lost}
      BY <1>0, EvictsLargest
    <2>2. Loops!Farthest(pending_) = lost
      <3>1. /\ Loops!Farthest(pending_) \in pending_
            /\ \A s \in pending_ : s <= Loops!Farthest(pending_)
        BY <2>1 DEF Loops!Farthest
      <3>2. \A a, b \in Nat : a <= b /\ b <= a => a = b
        OBVIOUS
      <3> QED
        BY <1>0, <2>1, <3>1, <3>2, Zenon
    <2> QED
      BY <1>1, <2>1, <2>2 DEF PressureView
  <1>7. FinalPromoted = promoted_missing_ /\ FinalEmitted = Emitted /\ Emitted' = Emitted
    BY <1>1, <1>2, <1>4 DEF PressureView, Emitted
  <1> QED
    BY <1>1, <1>2, <1>3, <1>5, <1>6, <1>7 DEF QuietView, Unseen

(* A promotion inside try_emit(). *)
LEMMA GapUnseen ==
  ASSUME StreamInv, StreamInv', NEW t \in Threads, PromoteWhileEmitting(t)
  PROVE  Unseen
  <1>0. /\ BaseInv /\ TypeOK /\ pending_ \subseteq arrived
        /\ Held(pending_) /\ cfg_.missing_k \in Nat
        /\ stats_ \in ReorderStats /\ next_expected_ \in seq_t /\ next_expected_ \in Nat
    BY BufferHeld DEF StreamInv, BaseInv
  <1>1. EmitView /\ EmitView'
    <2>1. Emitting /\ Emitting'
      BY DEF PromoteWhileEmitting, Emitting
    <2> QED
      BY <2>1, EmitMap, ViewsNext
  <1>2. /\ CanPromote /\ UNCHANGED <<pending_, emitted, cfg_, out, mu_>>
        /\ promoted_missing_' = promoted_missing_ \cup {next_expected_}
        /\ next_expected_' = Succ(next_expected_)
        /\ stats_' = [stats_ EXCEPT !.missing_k_promotions = @ + 1]
    BY DEF PromoteWhileEmitting, PromoteFrontier, GivenUp
  <1>3. next_expected_' = next_expected_ + 1 /\ next_expected_ \notin pending_
    BY <1>0, <1>2, FrontierBelowMax DEF CanPromote, Succ
  <1>4. FinalFrontier' = FinalFrontier
    <2>1. ~Loops!Gap(pending_, cfg_.missing_k, next_expected_)
      BY <1>2, PromotionIsNoGap
    <2>2. Loops!EmissionEnd(pending_, cfg_.missing_k, next_expected_)
            = Loops!EmissionEnd(pending_, cfg_.missing_k, next_expected_ + 1)
      BY <1>0, <1>3, <2>1, EmissionEnds
    <2> QED
      BY <1>1, <1>2, <1>3, <2>2 DEF EmitView
  <1>5. /\ Ahead = {next_expected_} \cup Ahead' /\ next_expected_ \notin Ahead'
        /\ IsFiniteSet(Ahead')
    <2>1. FinalFrontier \in Nat /\ FinalFrontier - (next_expected_ + 1) \in Nat
      BY <1>1, <1>3, <1>4 DEF EmitView
    <2>2. Ahead' = (next_expected_ + 1) .. (FinalFrontier - 1)
      BY <1>3, <1>4 DEF Ahead
    <2>3. next_expected_ + 1 <= FinalFrontier
      BY <1>0, <2>1
    <2> QED
      BY <1>0, <1>1, <2>1, <2>2, <2>3, AheadFacts DEF Ahead, EmitView
  <1>6. /\ pending_ \cap Ahead = pending_ \cap Ahead'
        /\ Cardinality(Ahead \ pending_) = Cardinality(Ahead' \ pending_) + 1
    <2>1. ASSUME NEW A, IsFiniteSet(A), next_expected_ \notin A
          PROVE  /\ pending_ \cap ({next_expected_} \cup A) = pending_ \cap A
                 /\ Cardinality(({next_expected_} \cup A) \ pending_) = Cardinality(A \ pending_) + 1
      BY <1>3, <2>1, GapPassed
    <2> QED
      BY <1>5, <2>1
  <1>7. FinalStats' = FinalStats
    <2> DEFINE more == InFlight + Cardinality(pending_ \cap Ahead')
               gone == Cardinality(Ahead' \ pending_)
    <2>1. more \in Nat /\ gone \in Nat
      BY <1>1, <1>2 DEF EmitView, InFlight
    <2>2. FinalStats' = Tally(stats_', more, gone, 0)
      BY <1>1, <1>2 DEF EmitView, InFlight
    <2>3. FinalStats = Tally(stats_, more, gone + 1, 0)
      BY <1>1, <1>6 DEF EmitView
    <2>4. stats_' = Adding(stats_, "missing_k_promotions", 1)
      BY <1>2 DEF Adding
    <2> HIDE DEF more, gone
    <2> QED
      BY <1>0, <2>1, <2>2, <2>3, <2>4, TallyFacts
  <1>8. FinalPending' = FinalPending
    BY <1>1, <1>2, <1>3, <1>5 DEF EmitView
  <1>9. FinalPromoted' = FinalPromoted /\ FinalEmitted' = FinalEmitted
    BY <1>2, <1>3, <1>5, <1>6 DEF FinalPromoted, FinalEmitted, Emitted
  <1> QED
    BY <1>4, <1>7, <1>8, <1>9 DEF Unseen

(* One more item of the batch. *)
LEMMA EmissionUnseen ==
  ASSUME StreamInv, StreamInv', NEW t \in Threads, EmitFrontier(t)
  PROVE  Unseen
  <1>0. /\ BaseInv /\ TypeOK /\ LockInv /\ pending_ \subseteq arrived
        /\ Held(pending_) /\ cfg_.missing_k \in Nat /\ InFlight \in Nat
        /\ stats_ \in ReorderStats /\ next_expected_ \in seq_t /\ next_expected_ \in Nat
    BY BufferHeld DEF StreamInv, BaseInv
  <1>1. EmitView /\ EmitView'
    <2>1. Emitting /\ Emitting'
      BY DEF EmitFrontier, Emitting
    <2> QED
      BY <2>1, EmitMap, ViewsNext
  <1>2. /\ next_expected_ \in pending_
        /\ UNCHANGED <<promoted_missing_, stats_, cfg_, mu_>>
        /\ pending_' = pending_ \ {next_expected_}
        /\ next_expected_' = Succ(next_expected_)
        /\ emitted' = Append(emitted, next_expected_)
        /\ out' = [out EXCEPT ![t] = Append(@, next_expected_)]
    BY DEF EmitFrontier
  <1>3. next_expected_' = next_expected_ + 1 /\ next_expected_ + 1 \in seq_t
    BY <1>0, <1>2, FrontierBelowMax, BufferAssumption DEF Succ, seq_t
  <1>4. FinalFrontier' = FinalFrontier
    <2>1. ~Loops!Gap(pending_, cfg_.missing_k, next_expected_)
      BY <1>2, GapIs
    <2>2. Loops!EmissionEnd(pending_, cfg_.missing_k, next_expected_)
            = Loops!EmissionEnd(pending_, cfg_.missing_k, next_expected_ + 1)
      BY <1>0, <2>1, EmissionEnds
    <2>3. Loops!EmissionEnd(pending_ \ {next_expected_}, cfg_.missing_k, next_expected_ + 1)
            = Loops!EmissionEnd(pending_, cfg_.missing_k, next_expected_ + 1)
      BY <1>0, <1>3, EmittedNotMissed
    <2> QED
      BY <1>1, <1>2, <1>3, <2>2, <2>3 DEF EmitView
  <1>5. /\ Ahead = {next_expected_} \cup Ahead' /\ next_expected_ \notin Ahead'
        /\ IsFiniteSet(Ahead')
    <2>1. FinalFrontier \in Nat /\ FinalFrontier - (next_expected_ + 1) \in Nat
      BY <1>1, <1>3, <1>4 DEF EmitView
    <2>2. Ahead' = (next_expected_ + 1) .. (FinalFrontier - 1)
      BY <1>3, <1>4 DEF Ahead
    <2>3. next_expected_ + 1 <= FinalFrontier
      BY <1>0, <2>1
    <2> QED
      BY <1>0, <1>1, <2>1, <2>2, <2>3, AheadFacts DEF Ahead, EmitView
  <1>6. /\ Cardinality(pending_ \cap Ahead) = Cardinality(pending_' \cap Ahead') + 1
        /\ Cardinality(pending_' \cap Ahead') \in Nat
        /\ Ahead \ pending_ = Ahead' \ pending_'
    <2>1. ASSUME NEW A, IsFiniteSet(A), next_expected_ \notin A
          PROVE  /\ Cardinality(pending_ \cap ({next_expected_} \cup A))
                      = Cardinality((pending_ \ {next_expected_}) \cap A) + 1
                 /\ Cardinality((pending_ \ {next_expected_}) \cap A) \in Nat
                 /\ ({next_expected_} \cup A) \ pending_ = A \ (pending_ \ {next_expected_})
      BY <1>2, <2>1, ItemPassed
    <2> QED
      BY <1>2, <1>5, <2>1
  <1>7. InFlight' = InFlight + 1
    <2>1. mu_ = t
      BY <1>0 DEF LockInv, EmitFrontier
    <2> QED
      BY <1>0, <1>2, <2>1 DEF InFlight, TypeOK
  <1>8. FinalStats' = FinalStats
    <2>1. InFlight' + Cardinality(pending_' \cap Ahead')
            = InFlight + Cardinality(pending_ \cap Ahead)
      BY <1>0, <1>6, <1>7
    <2> QED
      BY <1>1, <1>2, <1>6, <2>1 DEF EmitView
  <1>9. FinalPending' = FinalPending
    BY <1>1, <1>2, <1>5 DEF EmitView
  <1>10. FinalPromoted' = FinalPromoted
    BY <1>2, <1>6 DEF FinalPromoted
  <1>11. FinalEmitted' = FinalEmitted
    <2>1. Emitted' = Emitted \cup {next_expected_}
      BY <1>0, <1>2, EmittedGrows
    <2> QED
      BY <1>2, <1>5, <2>1 DEF FinalEmitted
  <1> QED
    BY <1>4, <1>8, <1>9, <1>10, <1>11 DEF Unseen

(* The batch is returned and counted. *)
LEMMA ReturnUnseen ==
  ASSUME StreamInv, StreamInv', NEW t \in Threads, ReturnBatch(t)
  PROVE  Unseen
  <1>0. /\ BaseInv /\ BaseInv' /\ LockInv /\ Held(pending_) /\ cfg_.missing_k \in Nat
        /\ InFlight \in Nat
        /\ stats_ \in ReorderStats /\ next_expected_ \in seq_t /\ next_expected_ \in Nat
    BY BufferHeld DEF StreamInv, BaseInv
  <1>1. EmitView /\ QuietView'
    <2>1. Emitting
      BY DEF ReturnBatch, Emitting
    <2>2. mu_' = NoThread
      BY DEF ReturnBatch, Unlock
    <2>3. BaseInv' => (mu_ = NoThread => ~UnderPressure /\ ~Emitting)'
      BY OneMode, PTL
    <2>4. ~UnderPressure' /\ ~Emitting'
      BY <1>0, <2>2, <2>3
    <2> QED
      BY <2>1, <2>4, EmitMap, ViewsNext
  <1>2. /\ next_expected_ \notin pending_ /\ ~CanPromote
        /\ UNCHANGED <<cfg_, next_expected_, pending_, promoted_missing_, emitted>>
        /\ stats_' = [stats_ EXCEPT !.emitted = @ + Len(out[t])]
    BY DEF ReturnBatch, PromotionsOver
  <1>3. FinalFrontier = next_expected_
    BY <1>0, <1>1, <1>2, PromotionIsNoGap, EmissionEnds DEF EmitView
  <1>4. Ahead = {} /\ Cardinality({}) = 0
    BY <1>0, <1>3, AheadFacts, FS_EmptySet DEF Ahead
  <1>5. FinalStats = stats_'
    <2>1. mu_ = t
      BY <1>0 DEF LockInv, ReturnBatch
    <2>2. stats_' = Adding(stats_, "emitted", InFlight)
      BY <1>2, <2>1 DEF Adding, InFlight
    <2>3. InFlight + Cardinality(pending_ \cap Ahead) = InFlight /\ Cardinality(Ahead \ pending_) = 0
      BY <1>0, <1>4
    <2>4. FinalStats = Tally(stats_, InFlight, 0, 0)
      BY <1>1, <2>3 DEF EmitView
    <2> QED
      BY <1>0, <2>2, <2>4, TallyFacts
  <1>6. /\ FinalPending = pending_ /\ FinalPromoted = promoted_missing_
        /\ FinalEmitted = Emitted /\ Emitted' = Emitted
    BY <1>1, <1>2, <1>4 DEF EmitView, FinalPromoted, FinalEmitted, Emitted
  <1> QED
    BY <1>1, <1>2, <1>3, <1>5, <1>6 DEF QuietView, Unseen

-----------------------------------------------------------------------------
(* The steps a caller sees. *)

(* No loop is running. *)
Quiet == mu_ = NoThread \/ \E t \in Threads : pc[t] = "gate"

(* Then the view is what there is. *)
LEMMA QuietIsSeen == StreamInv /\ Quiet => QuietView
  <1>1. StreamInv /\ Quiet => ~UnderPressure /\ ~Emitting
    BY OneMode DEF Quiet, StreamInv
  <1> QED
    BY <1>1, QuietMap

(* The same after a step. *)
LEMMA QuietNext == StreamInv' /\ Quiet' => QuietView'
  BY QuietIsSeen, PTL

(* Nothing outside the gate changes. *)
LEMMA OutsideUnseen ==
  ASSUME StreamInv, StreamInv', Quiet, Quiet',
         UNCHANGED <<next_expected_, pending_, stats_, promoted_missing_, emitted>>
  PROVE  Unseen
  <1>1. QuietView /\ QuietView'
    BY QuietIsSeen, QuietNext
  <1> QED
    BY <1>1 DEF QuietView, Unseen, Emitted

(* A push that is dropped. *)
LEMMA DropSeen ==
  ASSUME StreamInv, StreamInv', NEW t \in Threads, NEW s \in Inputs, Push(t, s),
         DropBelowFrontier(s) \/ DropDuplicate(s)
  PROVE  Atomic!Drop(s) /\ FinalEmitted' = FinalEmitted
  <1>0. stats_ \in ReorderStats /\ next_expected_ \in Nat /\ s \in Nat
    BY BufferHeld, BufferAssumption DEF seq_t
  <1>1. QuietView /\ QuietView'
    <2>1. Quiet /\ Quiet'
      BY DEF Push, CanLock, DropBelowFrontier, DropDuplicate, Quiet
    <2> QED
      BY <2>1, QuietIsSeen, QuietNext
  <1> DEFINE late == IF s < next_expected_ /\ s \in promoted_missing_ THEN 1 ELSE 0
             old == IF s < next_expected_ /\ s \notin promoted_missing_ THEN 1 ELSE 0
             twice == IF s >= next_expected_ THEN 1 ELSE 0
             sr == Adding(stats_, "received", 1)
  <1>2. /\ {"received", "missing_k_dropped", "dropped_too_old", "dropped_duplicate"}
             \subseteq Counters
        /\ \A c \in {"missing_k_dropped", "dropped_too_old", "dropped_duplicate"} :
             c \in Counters \ {"received"}
    BY DEF Counters
  <1>3. sr \in ReorderStats /\ late \in Nat /\ old \in Nat /\ twice \in Nat
    BY <1>0, <1>2, AddingFacts
  <1>4. stats_' = Adding(Adding(Adding(sr, "missing_k_dropped", late),
                                "dropped_too_old", old), "dropped_duplicate", twice)
    <2>1. \A st \in ReorderStats, c \in Counters :
            Adding(st, c, 0) = st /\ Adding(st, c, 1) \in ReorderStats
      BY AddingFacts
    <2>2. CASE s < next_expected_ /\ s \in promoted_missing_
      <3>1. late = 1 /\ old = 0 /\ twice = 0
        BY <1>0, <2>2
      <3>2. stats_' = [stats_ EXCEPT !.received = @ + 1, !.missing_k_dropped = @ + 1]
        BY <1>0, <2>2 DEF DropBelowFrontier, DropDuplicate
      <3>3. stats_' = Adding(sr, "missing_k_dropped", 1)
        BY <1>0, <3>2 DEF Adding, ReorderStats, Counters
      <3> QED
        BY <1>2, <1>3, <2>1, <3>1, <3>3
    <2>3. CASE s < next_expected_ /\ s \notin promoted_missing_
      <3>1. late = 0 /\ old = 1 /\ twice = 0
        BY <1>0, <2>3
      <3>2. stats_' = [stats_ EXCEPT !.received = @ + 1, !.dropped_too_old = @ + 1]
        BY <1>0, <2>3 DEF DropBelowFrontier, DropDuplicate
      <3>3. stats_' = Adding(sr, "dropped_too_old", 1)
        BY <1>0, <3>2 DEF Adding, ReorderStats, Counters
      <3> QED
        BY <1>2, <1>3, <2>1, <3>1, <3>3
    <2>4. CASE s >= next_expected_
      <3>1. late = 0 /\ old = 0 /\ twice = 1
        BY <1>0, <2>4
      <3>2. stats_' = [stats_ EXCEPT !.received = @ + 1, !.dropped_duplicate = @ + 1]
        BY <1>0, <2>4 DEF DropBelowFrontier, DropDuplicate
      <3>3. stats_' = Adding(sr, "dropped_duplicate", 1)
        BY <1>0, <3>2 DEF Adding, ReorderStats, Counters
      <3> QED
        BY <1>2, <1>3, <2>1, <3>1, <3>3
    <2> QED
      BY <1>0, <2>2, <2>3, <2>4
  <1>5. stats_' = [stats_ EXCEPT !.received = @ + 1, !.missing_k_dropped = @ + late,
                      !.dropped_too_old = @ + old, !.dropped_duplicate = @ + twice]
    <2> HIDE DEF late, old, twice
    <2> QED
      BY <1>0, <1>3, <1>4 DEF Adding, ReorderStats, Counters
  <1>6. /\ s < next_expected_ \/ s \in pending_
        /\ UNCHANGED <<next_expected_, pending_, promoted_missing_, emitted>>
    BY DEF Push, DropBelowFrontier, DropDuplicate
  <1>7. Atomic!Drop(s)
    BY <1>1, <1>5, <1>6, Zenon DEF Atomic!Drop, QuietView
  <1> QED
    BY <1>1, <1>6, <1>7 DEF QuietView, Emitted

(* A push that is kept. *)
LEMMA KeepSeen ==
  ASSUME StreamInv, StreamInv', NEW t \in Threads, NEW s \in Inputs, Push(t, s),
         Insert(t, s), ~(Overfull(pending_') /\ s # next_expected_)
  PROVE  Atomic!Keep(s) /\ FinalEmitted' = FinalEmitted
  <1>0. TypeOK /\ cfg_.capacity \in Nat
    BY BufferHeld DEF StreamInv, BaseInv
  <1>1. QuietView /\ QuietView'
    <2>1. Quiet /\ Quiet'
      BY DEF Push, CanLock, Insert, Quiet
    <2> QED
      BY <2>1, QuietIsSeen, QuietNext
  <1>2. /\ s >= next_expected_ /\ s \notin pending_
        /\ pending_' = pending_ \cup {s}
        /\ stats_' = [stats_ EXCEPT !.received = @ + 1]
        /\ UNCHANGED <<next_expected_, promoted_missing_, emitted>>
    BY DEF Push, Insert
  <1>3. Cardinality(pending_) < cfg_.capacity \/ s = next_expected_
    <2>1. /\ Cardinality(pending_) \in Nat
          /\ Cardinality(pending_ \cup {s}) = Cardinality(pending_) + 1
      BY <1>0, <1>2, PendingFinite, PendingGrows
    <2> QED
      BY <1>0, <1>2, <2>1 DEF Overfull
  <1> QED
    BY <1>1, <1>2, <1>3, SameSize DEF Atomic!Keep, QuietView, Emitted

(* A push into a full buffer: promotions and eviction are settled here.    *)
LEMMA RelieveSeen ==
  ASSUME StreamInv, StreamInv', NEW t \in Threads, NEW s \in Inputs, Push(t, s),
         Insert(t, s), Overfull(pending_'), s # next_expected_
  PROVE  Atomic!Relieve(s) /\ FinalEmitted' = FinalEmitted
  <1>0. /\ TypeOK /\ cfg_.capacity \in Nat /\ stats_ \in ReorderStats
        /\ next_expected_ \in Nat /\ s \in Nat
    BY BufferHeld, BufferAssumption DEF StreamInv, BaseInv, seq_t
  <1>1. QuietView /\ PressureView'
    <2>1. Quiet /\ UnderPressure'
      BY <1>0 DEF Push, CanLock, Insert, Lock, Quiet, UnderPressure, TypeOK
    <2> QED
      BY <2>1, QuietIsSeen, ViewsNext
  <1>2. /\ s > next_expected_ /\ s \notin pending_
        /\ pending_' = pending_ \cup {s}
        /\ stats_' = [stats_ EXCEPT !.received = @ + 1]
        /\ UNCHANGED <<cfg_, next_expected_, promoted_missing_, emitted>>
    BY <1>0 DEF Push, Insert
  <1>3. Cardinality(pending_) >= cfg_.capacity
    <2>1. /\ Cardinality(pending_) \in Nat
          /\ Cardinality(pending_ \cup {s}) = Cardinality(pending_) + 1
      BY <1>0, <1>2, PendingFinite, PendingGrows
    <2> QED
      BY <1>0, <1>2, <2>1 DEF Overfull
  <1> DEFINE held == pending_ \cup {s}
             end == Atomic!PromotionEnd(held, cfg_.missing_k, next_expected_)
  <1>4. FinalFrontier' = end /\ FinalPending' = held \ {Atomic!Farthest(held)}
    BY <1>1, <1>2, SameEnds DEF PressureView
  <1>5. FinalPromoted' = promoted_missing_ \cup (next_expected_ .. (end - 1))
    BY <1>1, <1>2, <1>4 DEF PressureView, Ahead
  <1>6. FinalStats' = [stats_ EXCEPT !.received = @ + 1, !.evicted = @ + 1,
                         !.missing_k_promotions = @ + (end - next_expected_)]
    <2> DEFINE gone == end - next_expected_
    <2>1. gone \in Nat
      BY <1>1, <1>2, <1>4 DEF PressureView
    <2>2. FinalStats' = Tally(stats_', 0, gone, 1)
      BY <1>1, <1>2, <1>4 DEF PressureView
    <2>3. stats_' = Adding(stats_, "received", 1)
      BY <1>2 DEF Adding
    <2> HIDE DEF gone
    <2>4. FinalStats' = Adding(Adding(Adding(stats_, "received", 1), "evicted", 1),
                               "missing_k_promotions", gone)
      BY <1>0, <2>1, <2>2, <2>3, TallyFacts
    <2>5. FinalStats' = [stats_ EXCEPT !.received = @ + 1, !.evicted = @ + 1,
                           !.missing_k_promotions = @ + gone]
      BY <1>0, <2>1, <2>4 DEF Adding, ReorderStats, Counters
    <2> QED
      BY <2>5 DEF gone
  <1>7. FinalEmitted' = FinalEmitted
    BY <1>1, <1>2 DEF QuietView, PressureView, Emitted
  <1>8. Atomic!Relieve(s)
    <2>1. /\ s > FinalFrontier /\ s \notin FinalPending
          /\ Atomic!Cardinality(FinalPending) >= cfg_.capacity
      BY <1>1, <1>2, <1>3, SameSize DEF QuietView
    <2> QED
      BY <1>1, <1>4, <1>5, <1>6, <2>1, Zenon DEF Atomic!Relieve, QuietView
  <1> QED
    BY <1>7, <1>8

(* Past the gate: what try_emit() will emit and give up is settled here.   *)
LEMMA BatchSeen ==
  ASSUME StreamInv, StreamInv', Quiet, Emitting', InFlight' = 0,
         UNCHANGED <<cfg_, watchdog_, next_expected_, stats_, pending_, promoted_missing_, emitted>>,
         watchdog_gate_open_' \in {watchdog_gate_open_, watchdog_ # NoWatchdog},
         watchdog_ = NoWatchdog \/ watchdog_gate_open_'
  PROVE  Atomic!TryEmit
  <1>0. stats_ \in ReorderStats
    BY BufferHeld
  <1>1. QuietView /\ EmitView'
    BY QuietIsSeen, ViewsNext
  <1> DEFINE end == Atomic!EmissionEnd(pending_, cfg_.missing_k, next_expected_)
             batch == pending_ \cap (next_expected_ .. (end - 1))
             gaps == (next_expected_ .. (end - 1)) \ pending_
  <1>2. FinalFrontier' = end
    BY <1>1, SameEnds DEF EmitView
  <1>3. Ahead' = next_expected_ .. (end - 1)
    BY <1>2 DEF Ahead
  <1>4. /\ FinalPending' = pending_ \ batch
        /\ FinalEmitted' = Emitted \cup batch
        /\ FinalPromoted' = promoted_missing_ \cup gaps
    BY <1>1, <1>3 DEF EmitView, FinalEmitted, FinalPromoted, Emitted
  <1>5. FinalStats' = [stats_ EXCEPT
                         !.emitted = @ + Atomic!Cardinality(batch),
                         !.missing_k_promotions = @ + Atomic!Cardinality(gaps)]
    <2> DEFINE more == Atomic!Cardinality(batch)
               gone == Atomic!Cardinality(gaps)
    <2>1. /\ InFlight' + Cardinality(pending_' \cap Ahead') = 0 + more
          /\ Cardinality(Ahead' \ pending_') = gone
      BY <1>3, SameSize
    <2>2. 0 + more \in Nat /\ gone \in Nat /\ FinalStats' = Tally(stats_, 0 + more, gone, 0)
      BY <1>1, <2>1 DEF EmitView
    <2>3. more \in Nat
      BY <1>1, <2>1, SameSize, FS_Subset, FS_CardinalityType, <1>3 DEF EmitView
    <2> HIDE DEF more, gone
    <2>4. FinalStats' = Adding(Adding(stats_, "emitted", more), "missing_k_promotions", gone)
      BY <1>0, <2>2, <2>3, TallyFacts
    <2>5. FinalStats' = [stats_ EXCEPT !.emitted = @ + more, !.missing_k_promotions = @ + gone]
      BY <1>0, <2>2, <2>3, <2>4 DEF Adding, ReorderStats, Counters
    <2> QED
      BY <2>5 DEF more, gone
  <1> QED
    BY <1>1, <1>2, <1>4, <1>5, Zenon DEF Atomic!TryEmit, QuietView

-----------------------------------------------------------------------------
(* The theorem. *)

(* try_emit() asks alive() of a watchdog that is installed. *)
AskInv == \A t \in Threads : pc[t] = "gate" => watchdog_ # NoWatchdog

(* Nobody takes the watchdog away while it is being asked. *)
LEMMA NextAsk == BaseInv /\ AskInv /\ [Next]_vars => AskInv'
  <1> SUFFICES ASSUME BaseInv, AskInv, [Next]_vars, NEW u \in Threads, pc'[u] = "gate"
               PROVE  watchdog_' # NoWatchdog
    BY DEF AskInv
  <1>0. /\ NoThread \notin Threads /\ pc \in [Threads -> {"idle", "pressure", "gate", "emit"}]
        /\ \A t \in Threads : pc[t] # "idle" <=> mu_ = t
    BY BufferAssumption DEF BaseInv, TypeOK, LockInv
  <1>1. ASSUME NEW t \in Threads, TryEmit(t) PROVE watchdog_' # NoWatchdog
    BY <1>0, <1>1 DEF TryEmit, CanLock, Lock, GateShut, gateVars
  <1>2. ASSUME NEW t \in Threads, NEW wd \in Watchdogs \cup {NoWatchdog}, SetWatchdog(t, wd)
        PROVE  watchdog_' # NoWatchdog
    BY <1>0, <1>2 DEF SetWatchdog, CanLock
  <1>3. ASSUME NEW t \in Threads, NEW s \in Inputs, Push(t, s) PROVE watchdog_' # NoWatchdog
    BY <1>0, <1>3
    DEF Push, CanLock, DropBelowFrontier, DropDuplicate, Insert, Lock, gateVars, AskInv
  <1>4. ASSUME NEW t \in Threads, Continue(t) PROVE watchdog_' # NoWatchdog
    BY <1>0, <1>4
    DEF Continue, PromoteUnderPressure, EvictFarthest, OpenGate, StayShut, EmitFrontier,
        PromoteWhileEmitting, ReturnBatch, Unlock, gateVars, AskInv
  <1>5. CASE UNCHANGED vars
    BY <1>5 DEF vars, AskInv
  <1> QED
    BY <1>1, <1>2, <1>3, <1>4, <1>5 DEF Next

(* Each step is one of AtomicBuffer or invisible to it. *)
LEMMA AtomicStep ==
  StreamInv /\ StreamInv' /\ AskInv /\ [Next]_vars => [Atomic!Next]_(Atomic!vars)
  <1> SUFFICES ASSUME StreamInv, StreamInv', AskInv, [Next]_vars
               PROVE  Atomic!Next \/ UNCHANGED Atomic!vars
    OBVIOUS
  <1>0. BaseInv /\ BaseInv' /\ TypeOK /\ TypeOK' /\ LockInv
    BY DEF StreamInv, BaseInv
  <1>1. ASSUME Unseen, UNCHANGED <<cfg_, watchdog_, watchdog_gate_open_>>
        PROVE  UNCHANGED Atomic!vars
    BY <1>1 DEF Unseen, Atomic!vars
  <1>2. ASSUME NEW t \in Threads, NEW wd \in Watchdogs \cup {NoWatchdog}, SetWatchdog(t, wd)
        PROVE  Atomic!SetWatchdog(wd)
    <2>1. Quiet /\ Quiet'
      BY <1>2 DEF SetWatchdog, CanLock, Quiet
    <2>2. Unseen
      BY <1>2, <2>1, OutsideUnseen DEF SetWatchdog
    <2> QED
      BY <1>2, <2>2 DEF SetWatchdog, GateOnInstall, Unseen, Atomic!SetWatchdog
  <1>3. ASSUME NEW t \in Threads, NEW s \in Inputs, Push(t, s) PROVE Atomic!Push(s)
    <2>1. Atomic!Drop(s) \/ Atomic!Keep(s) \/ Atomic!Relieve(s)
      BY <1>3, DropSeen, KeepSeen, RelieveSeen DEF Push
    <2>2. FinalEmitted' = FinalEmitted
      BY <1>3, DropSeen, KeepSeen, RelieveSeen DEF Push
    <2> QED
      BY <1>3, <2>1, <2>2 DEF Push, gateVars, Atomic!Push
  <1>4. ASSUME NEW t \in Threads, TryEmit(t)
        PROVE  Atomic!TryEmit \/ UNCHANGED Atomic!vars
    <2>1. /\ Quiet
          /\ UNCHANGED <<cfg_, watchdog_, watchdog_gate_open_, next_expected_, stats_, pending_,
                         promoted_missing_, emitted>>
      BY <1>4 DEF TryEmit, CanLock, Quiet, gateVars
    <2>2. CASE GateShut
      <3>1. Quiet'
        BY <1>0, <1>4, <2>2 DEF TryEmit, Lock, Quiet, TypeOK
      <3> QED
        BY <1>1, <2>1, <3>1, OutsideUnseen
    <2>3. CASE ~GateShut
      <3>1. Emitting'
        BY <1>0, <1>4, <2>3 DEF TryEmit, Lock, Emitting, TypeOK
      <3>2. InFlight' = 0
        BY <1>0, <1>4 DEF TryEmit, CanLock, Lock, InFlight, BaseInv, LocalsInv
      <3> QED
        BY <2>1, <2>3, <3>1, <3>2, BatchSeen DEF GateShut
    <2> QED
      BY <2>2, <2>3
  <1>5. ASSUME NEW t \in Threads, OpenGate(t) PROVE Atomic!TryEmit
    <2>1. Quiet /\ watchdog_ # NoWatchdog
      BY <1>5 DEF OpenGate, Quiet, AskInv
    <2>2. Emitting'
      BY <1>0, <1>5 DEF OpenGate, Emitting, TypeOK
    <2>3. InFlight' = 0
      BY <1>0, <1>5 DEF OpenGate, InFlight, BaseInv, LockInv, LocalsInv
    <2> QED
      BY <1>5, <2>1, <2>2, <2>3, BatchSeen DEF OpenGate
  <1>6. ASSUME NEW t \in Threads, StayShut(t) PROVE UNCHANGED Atomic!vars
    <2>1. Quiet /\ Quiet'
      BY <1>6 DEF StayShut, Unlock, Quiet
    <2> QED
      BY <1>1, <1>6, <2>1, OutsideUnseen DEF StayShut, gateVars
  <1>7. ASSUME NEW t \in Threads,
               \/ PromoteUnderPressure(t) \/ EvictFarthest(t)
               \/ PromoteWhileEmitting(t) \/ EmitFrontier(t) \/ ReturnBatch(t)
        PROVE  UNCHANGED Atomic!vars
    <2>1. Unseen
      BY <1>7, PressureStepUnseen, EvictionUnseen, GapUnseen, EmissionUnseen, ReturnUnseen
    <2> QED
      BY <1>1, <1>7, <2>1
      DEF PromoteUnderPressure, EvictFarthest, PromoteWhileEmitting, EmitFrontier, ReturnBatch,
          gateVars
  <1>8. CASE UNCHANGED vars
    <2>1. Unseen
      BY <1>8, StutterUnseen
    <2> QED
      BY <1>1, <1>8, <2>1 DEF vars
  <1> QED
    BY <1>2, <1>3, <1>4, <1>5, <1>6, <1>7, <1>8 DEF Next, Continue, Atomic!Next

(* To its callers a ReorderBuffer is an AtomicBuffer: however threads and  *)
(* calls interleave, frontier, buffer, promoted and emitted numbers, gate  *)
(* and all seven counters are those of calls made one after the other,     *)
(* each loop replaced by where it ends.                                    *)
THEOREM BufferLooksAtomic == Spec => ImplementsAtomicBuffer
  <1>1. Init => Atomic!Init /\ AskInv
    <2> SUFFICES ASSUME Init PROVE Atomic!Init /\ AskInv
      OBVIOUS
    <2>1. QuietView
      BY InitStream, QuietIsSeen DEF Init, Quiet
    <2>2. Emitted = {}
      BY DEF Init, Emitted
    <2> QED
      BY <2>1, <2>2 DEF Init, ZeroStats, QuietView, AskInv, Atomic!Init
  <1>2. StreamInv /\ AskInv /\ [Next]_vars => AskInv'
    BY NextAsk DEF StreamInv
  <1> QED
    BY <1>1, <1>2, AtomicStep, StreamCorrect, PTL
    DEF Spec, ImplementsAtomicBuffer, Atomic!Spec

=============================================================================
