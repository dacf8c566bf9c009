--------------------------- MODULE GuardedBuffer ---------------------------
(***************************************************************************)
(* A ReorderBuffer together with the Watchdogs its clients may install:    *)
(* try_emit() calls alive() while it holds the buffer's mu_, and alive()   *)
(* takes the watchdog's own mutex.  Other threads go on beating and asking *)
(* the watchdogs meanwhile.                                                *)
(***************************************************************************)
EXTENDS ReorderBuffer

CONSTANTS
  Timeout, NoBeat, MaxTime, \* as in Watchdog
  MaxCalls                  \* bound on the clients' own calls to the watchdogs

VARIABLES
  clock, last_beat_, seen_first_beat_, ever_triggered_,
  dog_pc, on, now, answer, \* as in Watchdog
  calls                    \* the clients' own calls to the watchdogs so far

Dog == INSTANCE Watchdog

dogVars == <<clock, last_beat_, seen_first_beat_, ever_triggered_,
             dog_pc, on, now, answer>>

guardedVars == <<vars, dogVars, calls>>

GuardedInit == Init /\ Dog!Init /\ calls = 0

-----------------------------------------------------------------------------
(* A client starts a call, of the buffer or of a watchdog, when it is in   *)
(* none.                                                                   *)

AtRest(t) == pc[t] = "idle" /\ dog_pc[t] = "out"

CallBuffer(t) ==
  /\ AtRest(t)
  /\ \/ \E s \in Inputs : Push(t, s)
     \/ \E wd \in Watchdogs \cup {NoWatchdog} : SetWatchdog(t, wd)
     \/ TryEmit(t)
  /\ UNCHANGED <<dogVars, calls>>

CallWatchdog(t) ==
  /\ AtRest(t)
  /\ calls < MaxCalls
  /\ calls' = calls + 1
  /\ \E w \in Watchdogs : Dog!Beat(t, w) \/ Dog!AliveUnseen(t, w) \/ Dog!Alive(t, w)
  /\ UNCHANGED vars

(* Inside the buffer, past the gate or without one.                        *)
ContinueBuffer(t) ==
  /\ \/ PromoteUnderPressure(t)
     \/ EvictFarthest(t)
     \/ EmitFrontier(t)
     \/ PromoteWhileEmitting(t)
     \/ ReturnBatch(t)
  /\ UNCHANGED <<dogVars, calls>>

(* Inside a watchdog, called by the client itself. *)
ContinueWatchdog(t) ==
  /\ pc[t] = "idle"
  /\ Dog!ReadClock(t) \/ Dog!RecordBeat(t) \/ Dog!Judge(t)
  /\ UNCHANGED <<vars, calls>>

(* Mistake: mu_ is released while the watchdog is asked. *)
ConsultUnlocked(t) ==
  /\ Dog!Alive(t, watchdog_)
  /\ mu_' = NoThread
  /\ UNCHANGED <<cfg_, next_expected_, stats_, gateVars, pending_,
                 promoted_missing_, pc, seq, out, emitted, arrived>>

(* The call of alive() under mu_, on a watchdog that was beaten.           *)
Consult(t) == Dog!Alive(t, watchdog_) /\ UNCHANGED vars

(* watchdog_->alive() at the gate: it answers at once, or looks at the     *)
(* clock and then answers.                                                 *)
AskAtGate(t) ==
  /\ pc[t] = "gate"
  /\ \/ Dog!AliveUnseen(t, watchdog_) /\ StayShut(t)
     \/ Consult(t)
     \/ Dog!ReadClock(t) /\ UNCHANGED vars
     \/ Dog!Judge(t) /\ Dog!InTime(t) /\ OpenGate(t)
     \/ Dog!Judge(t) /\ ~Dog!InTime(t) /\ StayShut(t)
  /\ UNCHANGED calls

Proceed(t) == ContinueBuffer(t) \/ ContinueWatchdog(t) \/ AskAtGate(t)

Elapse == Dog!Tick /\ UNCHANGED <<vars, calls>>

GuardedNext ==
  \/ \E t \in Threads : CallBuffer(t) \/ CallWatchdog(t) \/ Proceed(t)
  \/ Elapse

GuardedSpec == GuardedInit /\ [][GuardedNext]_guardedVars

(* A thread inside a call keeps running.  A mutex that is free again and   *)
(* again may still be missed again and again; weak fairness is enough      *)
(* because the clients call the watchdogs a finite number of times.        *)
GuardedFairSpec ==
  GuardedSpec /\ \A t \in Threads : WF_guardedVars(Proceed(t))

-----------------------------------------------------------------------------
(* Properties. *)

(* The gate of an installed watchdog is open only if that very watchdog    *)
(* has been seen alive, not one installed before it.                       *)
GateWitnessed ==
  watchdog_ # NoWatchdog /\ watchdog_gate_open_ => ever_triggered_[watchdog_]

(* The watchdog asked at the gate is the installed one until it has        *)
(* answered: set_watchdog() cannot take the last reference to it away      *)
(* while alive() runs.                                                     *)
ConsultedStays ==
  \A t \in Threads : pc[t] = "gate" /\ dog_pc[t] # "out" => on[t] = watchdog_

(* The gate opens on the answer of the installed watchdog and on nothing   *)
(* else, even if the watchdog is exchanged while another one is asked.     *)
OpensOnAnswer ==
  [][(watchdog_gate_open_' /\ ~watchdog_gate_open_) =>
       (\E t \in Threads : /\ pc[t] = "gate" /\ on[t] = watchdog_
                           /\ dog_pc[t] = "judge" /\ answer'[t])]_guardedVars

(* A try_emit() that has to ask gets its answer: the buffer's mutex and    *)
(* the watchdog's are only ever taken in this order.                       *)
GateAnswers == \A t \in Threads : pc[t] = "gate" ~> pc[t] # "gate"

=============================================================================
