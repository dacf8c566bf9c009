------------------------- MODULE WatchdogSemantics -------------------------
(***************************************************************************)
(* What watchdog.hpp:32-37 says a Watchdog is, with calls that take no     *)
(* time: dead before the first beat, alive while the last one is at most   *)
(* timeout_ old, triggered once it was seen alive.                         *)
(***************************************************************************)
EXTENDS Naturals

CONSTANTS Threads, Watchdogs, Timeout, NoBeat, MaxTime \* as in Watchdog

VARIABLES
  clock,
  last,      \* time of the last beat of each watchdog, or NoBeat
  triggered, \* whether each was ever seen alive
  answer     \* what alive() last told each thread

vars == <<clock, last, triggered, answer>>

IsAlive(w) == last[w] # NoBeat /\ clock - last[w] <= Timeout[w]

Init ==
  /\ clock = 0
  /\ last = [w \in Watchdogs |-> NoBeat]
  /\ triggered = [w \in Watchdogs |-> FALSE]
  /\ answer = [t \in Threads |-> FALSE]

Tick ==
  /\ clock < MaxTime
  /\ clock' = clock + 1
  /\ UNCHANGED <<last, triggered, answer>>

Beat(w) ==
  /\ last' = [last EXCEPT ![w] = clock]
  /\ UNCHANGED <<clock, triggered, answer>>

Alive(t, w) ==
  /\ answer' = [answer EXCEPT ![t] = IsAlive(w)]
  /\ triggered' = [triggered EXCEPT ![w] = @ \/ IsAlive(w)]
  /\ UNCHANGED <<clock, last>>

Next ==
  \/ Tick
  \/ \E w \in Watchdogs : Beat(w) \/ \E t \in Threads : Alive(t, w)

Spec == Init /\ [][Next]_vars

=============================================================================
