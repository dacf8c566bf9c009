------------------------------ MODULE Watchdog ------------------------------
(***************************************************************************)
(* The class Watchdog (include/streamguard/watchdog.hpp): threads beat()   *)
(* it and ask whether it is alive().  Each call holds the watchdog's own   *)
(* mutex and reads the clock while it holds it; time goes on in between,   *)
(* so taking the lock, reading the clock and using the reading are three   *)
(* steps.                                                                  *)
(***************************************************************************)
EXTENDS Naturals

CONSTANTS
  Threads,    \* threads that share the watchdogs
  Watchdogs,  \* the Watchdog objects
  NoWatchdog, \* not a Watchdog
  Timeout,    \* timeout_ of each
  NoBeat,     \* last_beat_ without a value
  MaxTime     \* bound on the clock

ASSUME WatchdogAssumption ==
  /\ NoWatchdog \notin Watchdogs
  /\ Timeout \in [Watchdogs -> Nat]
  /\ NoBeat \notin Nat
  /\ MaxTime \in Nat

VARIABLES
  clock,            \* clock_->now(): a steady clock, shared by all
  last_beat_,       \* when the last beat() was, or NoBeat
  seen_first_beat_,
  ever_triggered_,  \* sticky once alive() was true
  dog_pc,           \* where each thread is in a call of a watchdog
  on,               \* which watchdog it is calling, holding that one's mu_
  now,              \* its reading of the clock
  answer            \* what alive() last told it

dogVars == <<clock, last_beat_, seen_first_beat_, ever_triggered_,
             dog_pc, on, now, answer>>

Init ==
  /\ clock = 0
  /\ last_beat_ = [w \in Watchdogs |-> NoBeat]
  /\ seen_first_beat_ = [w \in Watchdogs |-> FALSE]
  /\ ever_triggered_ = [w \in Watchdogs |-> FALSE]
  /\ dog_pc = [t \in Threads |-> "out"]
  /\ on = [t \in Threads |-> NoWatchdog]
  /\ now = [t \in Threads |-> 0]
  /\ answer = [t \in Threads |-> FALSE]

Tick ==
  /\ clock < MaxTime
  /\ clock' = clock + 1
  /\ UNCHANGED <<last_beat_, seen_first_beat_, ever_triggered_,
                 dog_pc, on, now, answer>>

-----------------------------------------------------------------------------
(* Mistake: the call takes no lock. *)
Unlocked(w) == TRUE

IsFree(w) == \A t \in Threads : on[t] # w

Enter(t, w, label) ==
  /\ dog_pc[t] = "out"
  /\ IsFree(w)
  /\ on' = [on EXCEPT ![t] = w]
  /\ dog_pc' = [dog_pc EXCEPT ![t] = label]

Leave(t) ==
  /\ on' = [on EXCEPT ![t] = NoWatchdog]
  /\ now' = [now EXCEPT ![t] = 0]
  /\ dog_pc' = [dog_pc EXCEPT ![t] = "out"]

(* Mistake: the time is rounded up. *)
CoarseNow == clock + 1

Now == clock

(* clock_->now(), called with the lock held. *)
ReadClock(t) ==
  /\ \/ dog_pc[t] = "beat" /\ dog_pc' = [dog_pc EXCEPT ![t] = "beaten"]
     \/ dog_pc[t] = "alive" /\ dog_pc' = [dog_pc EXCEPT ![t] = "judge"]
  /\ now' = [now EXCEPT ![t] = Now]
  /\ UNCHANGED <<clock, last_beat_, seen_first_beat_, ever_triggered_, on, answer>>

-----------------------------------------------------------------------------
(* beat(), and pet(), which only calls it. *)
Beat(t, w) ==
  /\ Enter(t, w, "beat")
  /\ UNCHANGED <<clock, last_beat_, seen_first_beat_, ever_triggered_, now, answer>>

RecordBeat(t) ==
  /\ dog_pc[t] = "beaten"
  /\ last_beat_' = [last_beat_ EXCEPT ![on[t]] = now[t]]
  /\ seen_first_beat_' = [seen_first_beat_ EXCEPT ![on[t]] = TRUE]
  /\ Leave(t)
  /\ UNCHANGED <<clock, ever_triggered_, answer>>

-----------------------------------------------------------------------------
(* alive() *)

Beaten(w) == seen_first_beat_[w] /\ last_beat_[w] # NoBeat

(* Before the first beat() it answers false without a look at the clock.   *)
AliveUnseen(t, w) ==
  /\ dog_pc[t] = "out"
  /\ IsFree(w)
  /\ ~Beaten(w)
  /\ answer' = [answer EXCEPT ![t] = FALSE]
  /\ UNCHANGED <<clock, last_beat_, seen_first_beat_, ever_triggered_,
                 dog_pc, on, now>>

Alive(t, w) ==
  /\ Enter(t, w, "alive")
  /\ Beaten(w)
  /\ UNCHANGED <<clock, last_beat_, seen_first_beat_, ever_triggered_, now, answer>>

(* Mistake: a beat exactly timeout_ ago no longer counts. *)
Younger(t) == now[t] - last_beat_[on[t]] < Timeout[on[t]]

InTime(t) == now[t] - last_beat_[on[t]] <= Timeout[on[t]]

(* The comparison, the sticky flag and the answer of alive().              *)
Judge(t) ==
  /\ dog_pc[t] = "judge"
  /\ answer' = [answer EXCEPT ![t] = InTime(t)]
  /\ ever_triggered_' = [ever_triggered_ EXCEPT ![on[t]] = @ \/ InTime(t)]
  /\ Leave(t)
  /\ UNCHANGED <<clock, last_beat_, seen_first_beat_>>

-----------------------------------------------------------------------------

Next ==
  \/ Tick
  \/ \E t \in Threads :
       \/ \E w \in Watchdogs : Beat(t, w) \/ AliveUnseen(t, w) \/ Alive(t, w)
       \/ ReadClock(t)
       \/ RecordBeat(t)
       \/ Judge(t)

Spec == Init /\ [][Next]_dogVars

-----------------------------------------------------------------------------
(* Properties. *)

(* Types, and no recorded or sampled time lies in the future. *)
WatchdogTypeOK ==
  /\ clock \in 0 .. MaxTime
  /\ last_beat_ \in [Watchdogs -> (0 .. clock) \cup {NoBeat}]
  /\ seen_first_beat_ \in [Watchdogs -> BOOLEAN]
  /\ ever_triggered_ \in [Watchdogs -> BOOLEAN]
  /\ dog_pc \in [Threads -> {"out", "beat", "beaten", "alive", "judge"}]
  /\ on \in [Threads -> Watchdogs \cup {NoWatchdog}]
  /\ now \in [Threads -> 0 .. clock]
  /\ answer \in [Threads -> BOOLEAN]

(* alive() never subtracts a later beat from an earlier reading: the age   *)
(* it compares with timeout_ is that of a beat recorded before.            *)
AgeNonNegative ==
  \A t \in Threads :
    dog_pc[t] = "judge" => last_beat_[on[t]] # NoBeat /\ now[t] >= last_beat_[on[t]]

(* Threads that beat at the same time do not set last_beat_ back, so a     *)
(* watchdog does not die of one heartbeat overtaking another.              *)
LastBeatMonotone ==
  [][\A w \in Watchdogs :
       last_beat_[w] # NoBeat => last_beat_'[w] # NoBeat /\ last_beat_'[w] >= last_beat_[w]]_dogVars

-----------------------------------------------------------------------------

Inside(t, w, label) == on[t] = w /\ dog_pc[t] = label

(* The semantics watchdog.hpp:32-37 gives: calls take effect at once, when *)
(* they read the clock.                                                    *)
LastBeat ==
  [w \in Watchdogs |->
     IF \E t \in Threads : Inside(t, w, "beaten")
     THEN now[CHOOSE t \in Threads : Inside(t, w, "beaten")] ELSE last_beat_[w]]

Triggered ==
  [w \in Watchdogs |->
     ever_triggered_[w] \/ \E t \in Threads : Inside(t, w, "judge") /\ InTime(t)]

Told == [t \in Threads |-> IF dog_pc[t] = "judge" THEN InTime(t) ELSE answer[t]]

Semantics == INSTANCE WatchdogSemantics WITH
  last <- LastBeat, triggered <- Triggered, answer <- Told

(* However the calls interleave with each other and with the clock, what   *)
(* they answer and leave behind is what instantaneous calls would have.    *)
ImplementsSemantics == Semantics!Spec

=============================================================================
