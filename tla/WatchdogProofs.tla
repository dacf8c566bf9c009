--------------------------- MODULE WatchdogProofs ---------------------------
(***************************************************************************)
(* What holds of Watchdog for every set of threads and watchdogs, all      *)
(* timeouts and however long the clock runs.                               *)
(***************************************************************************)
EXTENDS Watchdog, TLAPS

(* A thread inside a call is in a call of a watchdog, and alone in it.     *)
AloneInv ==
  /\ \A t \in Threads : dog_pc[t] = "out" <=> on[t] = NoWatchdog
  /\ \A t, u \in Threads : on[t] = on[u] /\ t # u => on[t] = NoWatchdog

(* A reading of the clock is not older than the beat it is compared with,  *)
(* or takes the place of, and alive() goes on only where there was one.    *)
FreshInv ==
  \A t \in Threads :
    /\ dog_pc[t] \in {"alive", "judge"} => last_beat_[on[t]] # NoBeat
    /\ dog_pc[t] \in {"beaten", "judge"} /\ last_beat_[on[t]] # NoBeat
         => last_beat_[on[t]] <= now[t]

DogInv == WatchdogTypeOK /\ AloneInv /\ FreshInv

-----------------------------------------------------------------------------
(* Where a step leads from and to. *)

(* A thread that enters a watchdog. *)
Entering(t) ==
  \E w \in Watchdogs, label \in {"beat", "alive"} :
    /\ Enter(t, w, label)
    /\ label = "alive" => Beaten(w)
    /\ UNCHANGED <<clock, last_beat_, seen_first_beat_, ever_triggered_, now, answer>>

(* Every step is one of these. *)
LEMMA StepCases ==
  ASSUME [Next]_dogVars
  PROVE  \/ Tick
         \/ \E t \in Threads : Entering(t)
         \/ \E t \in Threads : ReadClock(t)
         \/ \E t \in Threads : RecordBeat(t)
         \/ \E t \in Threads : Judge(t)
         \/ UNCHANGED <<clock, last_beat_, seen_first_beat_, ever_triggered_, dog_pc, on, now>>
            /\ answer' = answer
         \/ \E t \in Threads :
              /\ answer' = [answer EXCEPT ![t] = FALSE]
              /\ UNCHANGED <<clock, last_beat_, seen_first_beat_, ever_triggered_,
                             dog_pc, on, now>>
  BY DEF Next, dogVars, Beat, Alive, AliveUnseen, Entering

(* The watchdogs as they are constructed. *)
LEMMA InitDog == Init => DogInv
  BY WatchdogAssumption DEF Init, DogInv, WatchdogTypeOK, AloneInv, FreshInv

(* The types, and that no time recorded lies in the future. *)
LEMMA NextDogType == DogInv /\ [Next]_dogVars => WatchdogTypeOK'
  <1> SUFFICES ASSUME DogInv, [Next]_dogVars PROVE WatchdogTypeOK'
    OBVIOUS
  <1> USE WatchdogAssumption
  <1>0. WatchdogTypeOK /\ AloneInv
    BY DEF DogInv
  <1>1. CASE Tick
    <2>1. clock \in Nat /\ clock' \in 0 .. MaxTime /\ clock' = clock + 1
      BY <1>0, <1>1 DEF WatchdogTypeOK, Tick
    <2>2. 0 .. clock \subseteq 0 .. clock'
      BY <2>1
    <2> QED
      BY <1>0, <1>1, <2>1, <2>2 DEF WatchdogTypeOK, Tick
  <1>2. ASSUME NEW t \in Threads, Entering(t) PROVE WatchdogTypeOK'
    BY <1>0, <1>2 DEF WatchdogTypeOK, Entering, Enter
  <1>3. ASSUME NEW t \in Threads, ReadClock(t) PROVE WatchdogTypeOK'
    BY <1>0, <1>3 DEF WatchdogTypeOK, ReadClock, Now
  <1>4. ASSUME NEW t \in Threads, RecordBeat(t) PROVE WatchdogTypeOK'
    <2>1. on[t] \in Watchdogs
      BY <1>0, <1>4 DEF WatchdogTypeOK, AloneInv, RecordBeat
    <2> QED
      BY <1>0, <1>4, <2>1 DEF WatchdogTypeOK, RecordBeat, Leave
  <1>5. ASSUME NEW t \in Threads, Judge(t) PROVE WatchdogTypeOK'
    <2>1. on[t] \in Watchdogs
      BY <1>0, <1>5 DEF WatchdogTypeOK, AloneInv, Judge
    <2>2. InTime(t) \in BOOLEAN
      BY DEF InTime
    <2>3. answer' \in [Threads -> BOOLEAN] /\ ever_triggered_' \in [Watchdogs -> BOOLEAN]
      BY <1>0, <1>5, <2>1, <2>2 DEF WatchdogTypeOK, Judge
    <2> QED
      BY <1>0, <1>5, <2>3 DEF WatchdogTypeOK, Judge, Leave
  <1>6. CASE UNCHANGED <<clock, last_beat_, seen_first_beat_, ever_triggered_, dog_pc, on, now>>
             /\ answer' \in [Threads -> BOOLEAN]
    BY <1>0, <1>6 DEF WatchdogTypeOK
  <1> QED
    BY <1>0, <1>1, <1>2, <1>3, <1>4, <1>5, <1>6, StepCases DEF WatchdogTypeOK

(* mu_ keeps the calls of one watchdog apart. *)
LEMMA NextAlone == DogInv /\ [Next]_dogVars => AloneInv'
  <1> SUFFICES ASSUME DogInv, [Next]_dogVars PROVE AloneInv'
    OBVIOUS
  <1> USE WatchdogAssumption
  <1>0. WatchdogTypeOK /\ AloneInv
    BY DEF DogInv
  <1>1. ASSUME NEW t \in Threads, Entering(t) PROVE AloneInv'
    BY <1>0, <1>1 DEF WatchdogTypeOK, AloneInv, Entering, Enter, IsFree
  <1>2. ASSUME NEW t \in Threads, ReadClock(t) PROVE AloneInv'
    BY <1>0, <1>2 DEF WatchdogTypeOK, AloneInv, ReadClock
  <1>3. ASSUME NEW t \in Threads, Leave(t) PROVE AloneInv'
    BY <1>0, <1>3 DEF WatchdogTypeOK, AloneInv, Leave
  <1>4. CASE UNCHANGED <<dog_pc, on>>
    BY <1>0, <1>4 DEF AloneInv
  <1> QED
    BY <1>1, <1>2, <1>3, <1>4, StepCases DEF Tick, RecordBeat, Judge

(* What a call read of the clock is not overtaken while it holds mu_.      *)
LEMMA NextFresh == DogInv /\ [Next]_dogVars => FreshInv'
  <1> SUFFICES ASSUME DogInv, [Next]_dogVars PROVE FreshInv'
    OBVIOUS
  <1> USE WatchdogAssumption
  <1>0. WatchdogTypeOK /\ AloneInv /\ FreshInv
    BY DEF DogInv
  <1>1. ASSUME NEW t \in Threads, Entering(t) PROVE FreshInv'
    BY <1>0, <1>1 DEF WatchdogTypeOK, FreshInv, Entering, Enter, Beaten
  <1>2. ASSUME NEW t \in Threads, ReadClock(t) PROVE FreshInv'
    <2>1. on[t] \in Watchdogs
      BY <1>0, <1>2 DEF WatchdogTypeOK, AloneInv, ReadClock
    <2>2. last_beat_[on[t]] # NoBeat => last_beat_[on[t]] <= clock
      BY <1>0, <2>1 DEF WatchdogTypeOK
    <2> QED
      BY <1>0, <1>2, <2>2 DEF WatchdogTypeOK, FreshInv, ReadClock, Now
  <1>3. ASSUME NEW t \in Threads, RecordBeat(t) PROVE FreshInv'
    <2>1. on[t] \in Watchdogs /\ now[t] \in Nat
      BY <1>0, <1>3 DEF WatchdogTypeOK, AloneInv, RecordBeat
    <2>2. ASSUME NEW u \in Threads, dog_pc'[u] # "out"
          PROVE  /\ u # t /\ on[u] # on[t] /\ on[u] \in Watchdogs
                 /\ on'[u] = on[u] /\ dog_pc'[u] = dog_pc[u] /\ now'[u] = now[u]
                 /\ last_beat_'[on[u]] = last_beat_[on[u]]
      BY <1>0, <1>3, <2>1, <2>2 DEF WatchdogTypeOK, AloneInv, RecordBeat, Leave
    <2> QED
      BY <1>0, <2>2 DEF FreshInv
  <1>4. ASSUME NEW t \in Threads, Judge(t) PROVE FreshInv'
    BY <1>0, <1>4 DEF WatchdogTypeOK, FreshInv, Judge, Leave
  <1>5. CASE UNCHANGED <<last_beat_, dog_pc, on, now>>
    BY <1>0, <1>5 DEF FreshInv
  <1> QED
    BY <1>1, <1>2, <1>3, <1>4, <1>5, StepCases DEF Tick

(* The invariant of the watchdogs holds in every behaviour. *)
LEMMA DogCorrect == Spec => []DogInv
  <1>1. DogInv /\ [Next]_dogVars => DogInv'
    BY NextDogType, NextAlone, NextFresh DEF DogInv
  <1> QED
    BY <1>1, InitDog, PTL DEF Spec

(* Every variable keeps its type, and no time a watchdog has recorded or   *)
(* a thread has read lies in the future.                                   *)
THEOREM WatchdogTypeCorrect == Spec => []WatchdogTypeOK
  BY DogCorrect, PTL DEF DogInv

(* The age alive() compares with timeout_ is never negative, and never     *)
(* that of a beat that was not given.                                      *)
THEOREM AgesMeasured == Spec => []AgeNonNegative
  <1>1. DogInv => AgeNonNegative
    BY WatchdogAssumption DEF DogInv, WatchdogTypeOK, AloneInv, FreshInv, AgeNonNegative
  <1> QED
    BY <1>1, DogCorrect, PTL

(* However many threads beat a watchdog, last_beat_ never goes back.       *)
THEOREM HeartbeatsAdvance == Spec => LastBeatMonotone
  <1>1. DogInv /\ [Next]_dogVars =>
          [\A w \in Watchdogs :
             last_beat_[w] # NoBeat =>
               last_beat_'[w] # NoBeat /\ last_beat_'[w] >= last_beat_[w]]_dogVars
    <2> SUFFICES ASSUME DogInv, [Next]_dogVars, NEW w \in Watchdogs, last_beat_[w] # NoBeat
                 PROVE  last_beat_'[w] # NoBeat /\ last_beat_'[w] >= last_beat_[w]
      OBVIOUS
    <2>0. /\ WatchdogTypeOK /\ AloneInv /\ FreshInv
          /\ last_beat_[w] \in Nat
      BY DEF DogInv, WatchdogTypeOK
    <2>1. ASSUME NEW t \in Threads, RecordBeat(t)
          PROVE  last_beat_'[w] # NoBeat /\ last_beat_'[w] >= last_beat_[w]
      <3>1. on[t] \in Watchdogs /\ now[t] \in Nat
        BY <2>0, <2>1 DEF WatchdogTypeOK, AloneInv, RecordBeat
      <3>2. CASE on[t] = w
        BY <2>0, <2>1, <3>1, <3>2, WatchdogAssumption DEF WatchdogTypeOK, FreshInv, RecordBeat
      <3>3. CASE on[t] # w
        BY <2>0, <2>1, <3>1, <3>3 DEF WatchdogTypeOK, RecordBeat
      <3> QED
        BY <3>2, <3>3
    <2>2. CASE UNCHANGED last_beat_
      BY <2>0, <2>2
    <2> QED
      BY <2>1, <2>2, StepCases DEF Tick, Entering, ReadClock, Judge
  <1> QED
    BY <1>1, DogCorrect, PTL DEF Spec, LastBeatMonotone

-----------------------------------------------------------------------------
(* The calls are instantaneous. *)

(* A watchdog that counts as beaten was beaten, and the other way round.   *)
SeenInv == \A w \in Watchdogs : seen_first_beat_[w] <=> last_beat_[w] # NoBeat

(* What the abstract watchdog shows, in terms of who is inside a call.     *)
MapShape ==
  /\ LastBeat = [w \in Watchdogs |-> LastBeat[w]]
  /\ Triggered = [w \in Watchdogs |-> Triggered[w]]
  /\ Told = [t \in Threads |-> Told[t]]

MapFacts ==
  /\ \A w \in Watchdogs :
       /\ (\A t \in Threads : ~Inside(t, w, "beaten")) => LastBeat[w] = last_beat_[w]
       /\ (\A t \in Threads : ~Inside(t, w, "judge")) => Triggered[w] = ever_triggered_[w]
  /\ \A t \in Threads :
       /\ dog_pc[t] = "beaten" => LastBeat[on[t]] = now[t]
       /\ dog_pc[t] = "judge" => Triggered[on[t]] = (ever_triggered_[on[t]] \/ InTime(t))
       /\ dog_pc[t] = "judge" => Told[t] = InTime(t)
       /\ dog_pc[t] # "judge" => Told[t] = answer[t]

MapInv == MapShape /\ MapFacts

(* At most one thread is inside a watchdog, so the mapping is no choice.   *)
LEMMA MapKnown == DogInv => MapInv
  <1> SUFFICES ASSUME DogInv PROVE MapInv
    OBVIOUS
  <1> USE WatchdogAssumption
  <1>0. WatchdogTypeOK /\ AloneInv
    BY DEF DogInv
  <1>1. /\ LastBeat = [w \in Watchdogs |-> LastBeat[w]]
        /\ Triggered = [w \in Watchdogs |-> Triggered[w]]
        /\ Told = [t \in Threads |-> Told[t]]
    BY DEF LastBeat, Triggered, Told
  <1>2. ASSUME NEW w \in Watchdogs
        PROVE  /\ (\A t \in Threads : ~Inside(t, w, "beaten")) => LastBeat[w] = last_beat_[w]
               /\ (\A t \in Threads : ~Inside(t, w, "judge"))
                    => Triggered[w] = ever_triggered_[w]
    BY <1>0 DEF LastBeat, Triggered, WatchdogTypeOK
  <1>3. ASSUME NEW t \in Threads, dog_pc[t] \in {"beaten", "judge"}
        PROVE  /\ on[t] \in Watchdogs
               /\ \A u \in Threads : on[u] = on[t] => u = t
    BY <1>0, <1>3 DEF WatchdogTypeOK, AloneInv
  <1>4. ASSUME NEW t \in Threads, dog_pc[t] = "beaten" PROVE LastBeat[on[t]] = now[t]
    <2>1. (CHOOSE u \in Threads : Inside(u, on[t], "beaten")) = t
      BY <1>3, <1>4 DEF Inside
    <2>2. \E u \in Threads : Inside(u, on[t], "beaten")
      BY <1>4 DEF Inside
    <2> QED
      BY <1>3, <1>4, <2>1, <2>2 DEF LastBeat
  <1>5. ASSUME NEW t \in Threads, dog_pc[t] = "judge"
        PROVE  Triggered[on[t]] = (ever_triggered_[on[t]] \/ InTime(t))
    <2>1. (\E u \in Threads : Inside(u, on[t], "judge") /\ InTime(u)) <=> InTime(t)
      BY <1>3, <1>5 DEF Inside
    <2> QED
      BY <1>3, <1>5, <2>1 DEF Triggered
  <1>6. \A t \in Threads : /\ dog_pc[t] = "judge" => Told[t] = InTime(t)
                           /\ dog_pc[t] # "judge" => Told[t] = answer[t]
    BY DEF Told
  <1> QED
    BY <1>1, <1>2, <1>4, <1>5, <1>6 DEF MapInv, MapShape, MapFacts

(* beat() sets both members. *)
LEMMA NextSeen == DogInv /\ SeenInv /\ [Next]_dogVars => SeenInv'
  <1> SUFFICES ASSUME DogInv, SeenInv, [Next]_dogVars PROVE SeenInv'
    OBVIOUS
  <1>1. ASSUME NEW t \in Threads, RecordBeat(t) PROVE SeenInv'
    <2>1. on[t] \in Watchdogs /\ now[t] # NoBeat
      BY <1>1, WatchdogAssumption DEF DogInv, WatchdogTypeOK, AloneInv, RecordBeat
    <2> QED
      BY <1>1, <2>1 DEF DogInv, WatchdogTypeOK, SeenInv, RecordBeat
  <1>2. CASE UNCHANGED <<last_beat_, seen_first_beat_>>
    BY <1>2 DEF SeenInv
  <1> QED
    BY <1>1, <1>2, StepCases DEF Tick, Entering, ReadClock, Judge

(* Entering a watchdog, recording a beat and judging it are invisible;     *)
(* reading the clock is the moment the call takes effect.                  *)
LEMMA SemanticStep ==
  ASSUME DogInv, DogInv', SeenInv, MapInv, MapInv', [Next]_dogVars
  PROVE  [Semantics!Next]_(Semantics!vars)
  <1> USE WatchdogAssumption
  <1>0. WatchdogTypeOK /\ AloneInv /\ FreshInv
    BY DEF DogInv
  <1>m. MapFacts /\ MapFacts' /\ MapShape /\ MapShape'
    BY DEF MapInv
  <1>s. ASSUME \A w \in Watchdogs : LastBeat'[w] = LastBeat[w] /\ Triggered'[w] = Triggered[w],
               \A t \in Threads : Told'[t] = Told[t]
        PROVE  UNCHANGED <<LastBeat, Triggered, Told>>
    BY <1>m, <1>s DEF MapShape
  <1>1. CASE Tick
    <2>1. UNCHANGED <<LastBeat, Triggered, Told>>
      BY <1>1 DEF Tick, LastBeat, Triggered, Told, Inside, InTime
    <2> QED
      BY <1>1, <2>1 DEF Tick, Semantics!Next, Semantics!Tick
  <1>2. ASSUME NEW t \in Threads, Entering(t) PROVE UNCHANGED Semantics!vars
    <2>1. \A u \in Threads, w \in Watchdogs :
            /\ Inside(u, w, "beaten")' <=> Inside(u, w, "beaten")
            /\ Inside(u, w, "judge")' <=> Inside(u, w, "judge")
      BY <1>0, <1>2 DEF WatchdogTypeOK, Entering, Enter, Inside
    <2>2. \A u \in Threads : dog_pc[u] = "judge" \/ dog_pc'[u] = "judge"
            => dog_pc'[u] = dog_pc[u] /\ on'[u] = on[u] /\ InTime(u)' = InTime(u)
      BY <1>0, <1>2 DEF WatchdogTypeOK, Entering, Enter, InTime
    <2>3. UNCHANGED <<clock, now, last_beat_, ever_triggered_, answer>>
      BY <1>2 DEF Entering
    <2>4. \A w \in Watchdogs : LastBeat'[w] = LastBeat[w] /\ Triggered'[w] = Triggered[w]
      BY <1>m, <2>1, <2>2, <2>3 DEF MapFacts, Inside
    <2>5. \A u \in Threads : Told'[u] = Told[u]
      BY <1>m, <2>2, <2>3 DEF MapFacts
    <2> QED
      BY <1>s, <2>3, <2>4, <2>5 DEF Semantics!vars
  <1>3. ASSUME NEW t \in Threads, RecordBeat(t) PROVE UNCHANGED Semantics!vars
    <2>1. on[t] \in Watchdogs /\ \A u \in Threads \ {t} : on[u] # on[t]
      BY <1>0, <1>3 DEF WatchdogTypeOK, AloneInv, RecordBeat
    <2>2. /\ UNCHANGED <<clock, ever_triggered_, answer>>
          /\ dog_pc' = [dog_pc EXCEPT ![t] = "out"] /\ on' = [on EXCEPT ![t] = NoWatchdog]
          /\ now' = [now EXCEPT ![t] = 0] /\ dog_pc[t] = "beaten"
          /\ last_beat_' = [last_beat_ EXCEPT ![on[t]] = now[t]]
      BY <1>3 DEF RecordBeat, Leave
    <2>3. \A w \in Watchdogs : LastBeat'[w] = LastBeat[w]
      BY <1>m, <1>0, <2>1, <2>2 DEF WatchdogTypeOK, MapFacts, Inside
    <2>4. \A u \in Threads : dog_pc[u] = "judge" \/ dog_pc'[u] = "judge"
            => dog_pc'[u] = dog_pc[u] /\ on'[u] = on[u] /\ InTime(u)' = InTime(u)
      BY <1>0, <2>1, <2>2 DEF WatchdogTypeOK, AloneInv, InTime
    <2>5. \A w \in Watchdogs : Triggered'[w] = Triggered[w]
      BY <1>m, <2>2, <2>4 DEF MapFacts, Inside
    <2>6. \A u \in Threads : Told'[u] = Told[u]
      BY <1>m, <2>2, <2>4 DEF MapFacts
    <2> QED
      BY <1>s, <2>2, <2>3, <2>5, <2>6 DEF Semantics!vars
  <1>4. ASSUME NEW t \in Threads, Judge(t) PROVE UNCHANGED Semantics!vars
    <2>1. on[t] \in Watchdogs /\ \A u \in Threads \ {t} : on[u] # on[t]
      BY <1>0, <1>4 DEF WatchdogTypeOK, AloneInv, Judge
    <2>2. /\ UNCHANGED <<clock, last_beat_>>
          /\ dog_pc' = [dog_pc EXCEPT ![t] = "out"] /\ on' = [on EXCEPT ![t] = NoWatchdog]
          /\ now' = [now EXCEPT ![t] = 0] /\ dog_pc[t] = "judge"
          /\ answer' = [answer EXCEPT ![t] = InTime(t)]
          /\ ever_triggered_' = [ever_triggered_ EXCEPT ![on[t]] = @ \/ InTime(t)]
      BY <1>4 DEF Judge, Leave
    <2>3. \A w \in Watchdogs : LastBeat'[w] = LastBeat[w]
      BY <1>m, <1>0, <2>1, <2>2 DEF WatchdogTypeOK, MapFacts, Inside
    <2>4. \A u \in Threads \ {t} :
            dog_pc'[u] = dog_pc[u] /\ on'[u] = on[u] /\ InTime(u)' = InTime(u)
      BY <1>0, <2>1, <2>2 DEF WatchdogTypeOK, InTime
    <2>5. \A w \in Watchdogs : Triggered'[w] = Triggered[w]
      BY <1>m, <1>0, <2>1, <2>2, <2>4 DEF WatchdogTypeOK, MapFacts, Inside
    <2>6. \A u \in Threads : Told'[u] = Told[u]
      BY <1>m, <1>0, <2>2, <2>4 DEF WatchdogTypeOK, MapFacts
    <2> QED
      BY <1>s, <2>2, <2>3, <2>5, <2>6 DEF Semantics!vars
  <1>5. ASSUME NEW t \in Threads, ReadClock(t), dog_pc[t] = "beat"
        PROVE  Semantics!Next
    <2>1. on[t] \in Watchdogs /\ \A u \in Threads \ {t} : on[u] # on[t]
      BY <1>0, <1>5 DEF WatchdogTypeOK, AloneInv
    <2>2. /\ UNCHANGED <<clock, last_beat_, on, ever_triggered_, answer>>
          /\ dog_pc' = [dog_pc EXCEPT ![t] = "beaten"] /\ now' = [now EXCEPT ![t] = clock]
      BY <1>5 DEF ReadClock, Now
    <2>3. \A w \in Watchdogs : LastBeat'[w] = IF w = on[t] THEN clock ELSE LastBeat[w]
      BY <1>m, <1>0, <2>1, <2>2 DEF WatchdogTypeOK, MapFacts, Inside
    <2>4. \A u \in Threads : dog_pc[u] = "judge" \/ dog_pc'[u] = "judge"
            => dog_pc'[u] = dog_pc[u] /\ InTime(u)' = InTime(u)
      BY <1>0, <1>5, <2>1, <2>2 DEF WatchdogTypeOK, InTime
    <2>5. \A w \in Watchdogs : Triggered'[w] = Triggered[w]
      BY <1>m, <2>2, <2>4 DEF MapFacts, Inside
    <2>6. \A u \in Threads : Told'[u] = Told[u]
      BY <1>m, <2>2, <2>4 DEF MapFacts
    <2>7. LastBeat' = [LastBeat EXCEPT ![on[t]] = clock]
      BY <1>m, <2>1, <2>3 DEF MapShape
    <2>8. Triggered' = Triggered /\ Told' = Told
      BY <1>m, <2>5, <2>6 DEF MapShape
    <2> QED
      BY <2>1, <2>2, <2>7, <2>8 DEF Semantics!Next, Semantics!Beat
  <1>6. ASSUME NEW t \in Threads, ReadClock(t), dog_pc[t] # "beat"
        PROVE  Semantics!Alive(t, on[t]) /\ on[t] \in Watchdogs
    <2>1. dog_pc[t] = "alive" /\ on[t] \in Watchdogs /\ \A u \in Threads \ {t} : on[u] # on[t]
      BY <1>0, <1>6 DEF WatchdogTypeOK, AloneInv, ReadClock
    <2>2. /\ UNCHANGED <<clock, last_beat_, on, ever_triggered_, answer>>
          /\ dog_pc' = [dog_pc EXCEPT ![t] = "judge"] /\ now' = [now EXCEPT ![t] = clock]
      BY <1>6, <2>1 DEF ReadClock, Now
    <2>3. \A w \in Watchdogs : LastBeat'[w] = LastBeat[w]
      BY <1>m, <1>0, <2>1, <2>2 DEF WatchdogTypeOK, MapFacts, Inside
    <2>4. LastBeat[on[t]] = last_beat_[on[t]] /\ last_beat_[on[t]] # NoBeat
      BY <1>m, <1>0, <2>1 DEF MapFacts, Inside, FreshInv
    <2>5. InTime(t)' <=> Semantics!IsAlive(on[t])
      BY <1>0, <2>1, <2>2, <2>4 DEF WatchdogTypeOK, InTime, Semantics!IsAlive
    <2>6. \A u \in Threads \ {t} : dog_pc'[u] = dog_pc[u] /\ InTime(u)' = InTime(u)
      BY <1>0, <2>1, <2>2 DEF WatchdogTypeOK, InTime
    <2>7. \A w \in Watchdogs \ {on[t]} : Triggered'[w] = Triggered[w]
      BY <1>m, <2>1, <2>2, <2>6 DEF MapFacts, Inside
    <2>8. Triggered'[on[t]] = (Triggered[on[t]] \/ InTime(t)')
      <3>1. Triggered[on[t]] = ever_triggered_[on[t]]
        BY <1>m, <2>1 DEF MapFacts, Inside
      <3>2. Triggered'[on[t]] = (ever_triggered_[on[t]] \/ InTime(t)')
        BY <1>m, <1>0, <2>1, <2>2 DEF WatchdogTypeOK, MapFacts
      <3> QED
        BY <3>1, <3>2
    <2>9. \A u \in Threads \ {t} : Told'[u] = Told[u]
      BY <1>m, <2>2, <2>6 DEF MapFacts
    <2>10. Told'[t] = InTime(t)'
      BY <1>m, <1>0, <2>2 DEF WatchdogTypeOK, MapFacts
    <2>11. /\ Told' = [Told EXCEPT ![t] = Semantics!IsAlive(on[t])]
           /\ LastBeat' = LastBeat
           /\ Triggered' = [Triggered EXCEPT ![on[t]] = @ \/ Semantics!IsAlive(on[t])]
      <3>1. InTime(t)' = Semantics!IsAlive(on[t])
        BY <2>5 DEF InTime, Semantics!IsAlive
      <3> QED
        BY <1>m, <2>1, <2>3, <2>7, <2>8, <2>9, <2>10, <3>1 DEF MapShape
    <2> QED
      BY <2>1, <2>2, <2>11 DEF Semantics!Alive
  <1>7. ASSUME NEW t \in Threads, NEW w \in Watchdogs, AliveUnseen(t, w)
        PROVE  Semantics!Alive(t, w)
    <2>1. UNCHANGED <<LastBeat, Triggered>>
      BY <1>7 DEF AliveUnseen, LastBeat, Triggered, Inside, InTime
    <2>2. ~Semantics!IsAlive(w)
      <3>1. LastBeat[w] = last_beat_[w]
        BY <1>m, <1>7 DEF AliveUnseen, IsFree, MapFacts, Inside
      <3> QED
        BY <1>7, <3>1 DEF AliveUnseen, Beaten, SeenInv, Semantics!IsAlive
    <2>3. \A u \in Threads : Told'[u] = IF u = t THEN FALSE ELSE Told[u]
      BY <1>0, <1>7 DEF WatchdogTypeOK, AliveUnseen, Told, InTime
    <2>4. Told' = [Told EXCEPT ![t] = FALSE]
      BY <1>m, <2>3 DEF MapShape
    <2>5. Semantics!IsAlive(w) = FALSE
      BY <2>2 DEF Semantics!IsAlive
    <2>6. Told' = [Told EXCEPT ![t] = Semantics!IsAlive(w)]
      BY <2>4, <2>5
    <2>7. Triggered[w] \in BOOLEAN
      BY <1>0, <1>7 DEF WatchdogTypeOK, Triggered, InTime
    <2>8. (Triggered[w] \/ Semantics!IsAlive(w)) = Triggered[w]
      BY <2>5, <2>7
    <2>9. Triggered' = [Triggered EXCEPT ![w] = Triggered[w] \/ Semantics!IsAlive(w)]
      BY <1>m, <2>1, <2>8 DEF MapShape
    <2> QED
      BY <1>7, <2>1, <2>6, <2>9 DEF AliveUnseen, Semantics!Alive
  <1>8. CASE UNCHANGED dogVars
    BY <1>8 DEF dogVars, LastBeat, Triggered, Told, Inside, InTime, Semantics!vars
  <1> QED
    BY <1>1, <1>2, <1>3, <1>4, <1>5, <1>6, <1>7, <1>8
    DEF Next, Beat, Alive, Entering, Semantics!Next

(* Whatever other threads do meanwhile, every call answers and leaves      *)
(* behind what watchdog.hpp:32-37 says of a call that takes no time.       *)
THEOREM CallsLookInstantaneous == Spec => ImplementsSemantics
  <1>1. Init => Semantics!Init /\ SeenInv
    BY WatchdogAssumption
    DEF Init, Semantics!Init, LastBeat, Triggered, Told, Inside, SeenInv
  <1> QED
    BY <1>1, DogCorrect, MapKnown, NextSeen, SemanticStep, PTL
    DEF Spec, ImplementsSemantics, Semantics!Spec

=============================================================================
