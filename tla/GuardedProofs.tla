---------------------------- MODULE GuardedProofs ----------------------------
(***************************************************************************)
(* A ReorderBuffer behind real Watchdogs, for every set of threads and     *)
(* watchdogs, all timeouts, configurations and numbers of calls: both      *)
(* parts behave as they do alone, and the gate between them opens on the   *)
(* answer of the installed watchdog only.                                  *)
(***************************************************************************)
EXTENDS GuardedBuffer, ReorderBufferProofs

(* A thread at the gate asks the watchdog that is installed. *)
GuardInv ==
  /\ dog_pc \in [Threads -> {"out", "beat", "beaten", "alive", "judge"}]
  /\ on \in [Threads -> Watchdogs \cup {NoWatchdog}]
  /\ ever_triggered_ \in [Watchdogs -> BOOLEAN]
  /\ answer \in [Threads -> BOOLEAN]
  /\ \A t \in Threads :
       pc[t] = "gate" => watchdog_ \in Watchdogs /\ dog_pc[t] \in {"out", "alive", "judge"}
  /\ ConsultedStays

-----------------------------------------------------------------------------
(* The parts. *)

(* A step of the composition is a step of the buffer or none. *)
LEMMA BufferStep == [GuardedNext]_guardedVars => [Next]_vars
  BY DEF GuardedNext, guardedVars, CallBuffer, CallWatchdog, Proceed, ContinueBuffer,
         ContinueWatchdog, AskAtGate, Consult, Elapse, Next, Continue

(* Behind real watchdogs the buffer does nothing it would not do behind    *)
(* arbitrary answers, so whatever is proved of ReorderBuffer holds of it.  *)
THEOREM GuardedIsBuffer == GuardedSpec => Spec
  BY BufferStep, PTL DEF GuardedSpec, GuardedInit, Spec

(* A thread at the gate holds mu_, and the others leave the gate alone.    *)
LEMMA NextGuard ==
  ASSUME BaseInv, GuardInv, [GuardedNext]_guardedVars
  PROVE  GuardInv'
  <1>0. /\ TypeOK /\ LockInv /\ NoThread \notin Threads /\ NoWatchdog \notin Watchdogs
        /\ pc \in [Threads -> {"idle", "pressure", "gate", "emit"}]
    BY BufferAssumption DEF BaseInv, TypeOK
  <1>1. CASE UNCHANGED <<dogVars, pc, watchdog_>>
    BY <1>1 DEF dogVars, GuardInv, ConsultedStays
  <1>2. ASSUME NEW t \in Threads, CallBuffer(t) PROVE GuardInv'
    <2>1. UNCHANGED <<dog_pc, on, ever_triggered_, answer>> /\ dog_pc[t] = "out"
      BY <1>2 DEF CallBuffer, dogVars, AtRest
    <2>2. ASSUME NEW s \in Inputs, Push(t, s) PROVE GuardInv'
      BY <1>0, <2>1, <2>2
      DEF Push, DropBelowFrontier, DropDuplicate, Insert, Lock, gateVars, GuardInv,
          ConsultedStays
    <2>3. ASSUME NEW wd \in Watchdogs \cup {NoWatchdog}, SetWatchdog(t, wd) PROVE GuardInv'
      BY <1>0, <2>1, <2>3 DEF SetWatchdog, CanLock, LockInv, GuardInv, ConsultedStays
    <2>4. CASE TryEmit(t)
      BY <1>0, <2>1, <2>4
      DEF TryEmit, CanLock, Lock, GateShut, gateVars, TypeOK, GuardInv, ConsultedStays
    <2> QED
      BY <1>2, <2>2, <2>3, <2>4 DEF CallBuffer
  <1>3. ASSUME NEW t \in Threads, CallWatchdog(t) PROVE GuardInv'
    BY <1>0, <1>3
    DEF CallWatchdog, AtRest, Dog!Beat, Dog!Alive, Dog!AliveUnseen, Dog!Enter, vars,
        GuardInv, ConsultedStays
  <1>4. ASSUME NEW t \in Threads, ContinueBuffer(t) PROVE GuardInv'
    <2>1. /\ UNCHANGED <<dogVars, watchdog_>>
          /\ UNCHANGED pc \/ (pc[t] # "gate" /\ pc' = [pc EXCEPT ![t] = "idle"])
      BY <1>4
      DEF ContinueBuffer, PromoteUnderPressure, EvictFarthest, EmitFrontier,
          PromoteWhileEmitting, ReturnBatch, Unlock, gateVars
    <2> QED
      BY <1>0, <2>1 DEF dogVars, GuardInv, ConsultedStays
  <1>5. ASSUME NEW t \in Threads, Dog!Judge(t), UNCHANGED watchdog_,
               \/ UNCHANGED pc /\ pc[t] = "idle"
               \/ pc' = [pc EXCEPT ![t] = "emit"]
               \/ pc' = [pc EXCEPT ![t] = "idle"]
        PROVE  GuardInv'
    <2>1. Dog!InTime(t) \in BOOLEAN
      BY DEF Dog!InTime
    <2>2. /\ ever_triggered_' \in [Watchdogs -> BOOLEAN]
          /\ answer' \in [Threads -> BOOLEAN]
      BY <1>5, <2>1 DEF Dog!Judge, GuardInv
    <2>3. /\ dog_pc' = [dog_pc EXCEPT ![t] = "out"]
          /\ on' = [on EXCEPT ![t] = NoWatchdog]
      BY <1>5 DEF Dog!Judge, Dog!Leave
    <2>4. \A u \in Threads \ {t} : pc'[u] = pc[u]
      BY <1>0, <1>5
    <2>5. pc'[t] # "gate"
      BY <1>0, <1>5
    <2> QED
      BY <1>5, <2>2, <2>3, <2>4, <2>5 DEF GuardInv, ConsultedStays
  <1>6. ASSUME NEW t \in Threads, Dog!ReadClock(t), UNCHANGED vars PROVE GuardInv'
    BY <1>0, <1>6 DEF Dog!ReadClock, vars, GuardInv, ConsultedStays
  <1>7. ASSUME NEW t \in Threads, ContinueWatchdog(t) PROVE GuardInv'
    <2>1. CASE Dog!RecordBeat(t)
      BY <1>0, <1>7, <2>1
      DEF ContinueWatchdog, Dog!RecordBeat, Dog!Leave, vars, GuardInv, ConsultedStays
    <2> QED
      BY <1>5, <1>6, <1>7, <2>1 DEF ContinueWatchdog, vars
  <1>8. ASSUME NEW t \in Threads, AskAtGate(t) PROVE GuardInv'
    <2>1. CASE Dog!AliveUnseen(t, watchdog_) /\ StayShut(t)
      BY <1>0, <2>1
      DEF Dog!AliveUnseen, StayShut, Unlock, gateVars, GuardInv, ConsultedStays
    <2>2. CASE Consult(t)
      BY <1>0, <1>8, <2>2
      DEF AskAtGate, Consult, Dog!Alive, Dog!Enter, vars, GuardInv, ConsultedStays
    <2>3. CASE Dog!Judge(t) /\ (OpenGate(t) \/ StayShut(t))
      BY <1>5, <2>3 DEF OpenGate, StayShut, Unlock, gateVars
    <2> QED
      BY <1>6, <1>8, <2>1, <2>2, <2>3 DEF AskAtGate
  <1>9. CASE Elapse \/ UNCHANGED guardedVars
    BY <1>9 DEF Elapse, Dog!Tick, guardedVars, vars, dogVars, GuardInv, ConsultedStays
  <1> QED
    BY <1>2, <1>3, <1>4, <1>7, <1>8, <1>9 DEF GuardedNext, Proceed

(* The invariant of the composition holds in every behaviour. *)
LEMMA GuardCorrect == GuardedSpec => [](BaseInv /\ GuardInv)
  <1>1. GuardedInit => GuardInv
    BY DEF GuardedInit, Init, Dog!Init, GuardInv, ConsultedStays
  <1> QED
    BY <1>1, NextGuard, GuardedIsBuffer, BaseCorrect, PTL DEF GuardedSpec

(* While one watchdog is being asked no other one takes its place.         *)
THEOREM ConsultedIsInstalled == GuardedSpec => []ConsultedStays
  BY GuardCorrect, PTL DEF GuardInv

-----------------------------------------------------------------------------
(* The gate. *)

(* The only step that opens the gate is an answer of alive(). *)
LEMMA WhoOpens ==
  ASSUME BaseInv, GuardInv, [GuardedNext]_guardedVars,
         watchdog_gate_open_', ~watchdog_gate_open_
  PROVE  \E t \in Threads :
           /\ pc[t] = "gate" /\ Dog!Judge(t) /\ Dog!InTime(t) /\ OpenGate(t)
           /\ on[t] = watchdog_
  <1>1. PICK t \in Threads : AskAtGate(t) /\ OpenGate(t)
    BY DEF GuardedNext, guardedVars, vars, CallBuffer, CallWatchdog, Proceed, ContinueBuffer,
           ContinueWatchdog, AskAtGate, Consult, Elapse, Push, SetWatchdog, GateOnInstall,
           TryEmit, PromoteUnderPressure, EvictFarthest, EmitFrontier,
           PromoteWhileEmitting, ReturnBatch, StayShut, gateVars
  <1>2. Dog!Judge(t) /\ Dog!InTime(t) /\ pc[t] = "gate"
    BY <1>1 DEF AskAtGate, Consult, OpenGate, StayShut, vars, gateVars
  <1>3. on[t] = watchdog_
    BY <1>2 DEF Dog!Judge, GuardInv, ConsultedStays
  <1> QED
    BY <1>1, <1>2, <1>3

(* The gate opens on the answer of the installed watchdog and on nothing   *)
(* else, however watchdogs are exchanged, beaten and asked meanwhile.      *)
THEOREM GateOpensOnAnswer == GuardedSpec => OpensOnAnswer
  <1>1. BaseInv /\ GuardInv /\ [GuardedNext]_guardedVars =>
          [(watchdog_gate_open_' /\ ~watchdog_gate_open_) =>
             (\E t \in Threads : /\ pc[t] = "gate" /\ on[t] = watchdog_
                                 /\ dog_pc[t] = "judge" /\ answer'[t])]_guardedVars
    <2> SUFFICES ASSUME BaseInv, GuardInv, [GuardedNext]_guardedVars,
                        watchdog_gate_open_', ~watchdog_gate_open_
                 PROVE  \E t \in Threads : /\ pc[t] = "gate" /\ on[t] = watchdog_
                                            /\ dog_pc[t] = "judge" /\ answer'[t]
      OBVIOUS
    <2>1. PICK t \in Threads : /\ pc[t] = "gate" /\ Dog!Judge(t) /\ Dog!InTime(t)
                              /\ on[t] = watchdog_
      BY WhoOpens
    <2>2. dog_pc[t] = "judge" /\ answer'[t]
      BY <2>1 DEF Dog!Judge, GuardInv
    <2> QED
      BY <2>1, <2>2
  <1> QED
    BY <1>1, GuardCorrect, PTL DEF GuardedSpec, OpensOnAnswer

(* An open gate is that of a watchdog once seen alive. *)
LEMMA NextWitness ==
  ASSUME BaseInv, GuardInv, GateWitnessed, [GuardedNext]_guardedVars
  PROVE  GateWitnessed'
  <1>1. ASSUME NEW w \in Watchdogs, ever_triggered_[w] PROVE ever_triggered_'[w]
    <2>1. ASSUME NEW t \in Threads, Dog!Judge(t) PROVE ever_triggered_'[w]
      BY <1>1, <2>1 DEF Dog!Judge, GuardInv
    <2>2. CASE UNCHANGED ever_triggered_
      BY <1>1, <2>2
    <2> QED
      BY <2>1, <2>2
      DEF GuardedNext, guardedVars, dogVars, CallBuffer, CallWatchdog, Proceed,
          ContinueBuffer, ContinueWatchdog, AskAtGate, Consult, Elapse, Dog!Beat, Dog!Alive,
          Dog!AliveUnseen, Dog!ReadClock, Dog!RecordBeat, Dog!Tick
  <1>2. watchdog_' = watchdog_ \/ ~watchdog_gate_open_'
    BY BufferStep
    DEF Next, Continue, vars, Push, SetWatchdog, GateOnInstall, TryEmit,
        PromoteUnderPressure, EvictFarthest, OpenGate, StayShut, EmitFrontier,
        PromoteWhileEmitting, ReturnBatch, gateVars
  <1>3. watchdog_ \in Watchdogs \cup {NoWatchdog}
    BY DEF BaseInv, TypeOK
  <1>4. CASE watchdog_gate_open_' /\ ~watchdog_gate_open_
    <2>1. PICK t \in Threads : /\ Dog!Judge(t) /\ Dog!InTime(t) /\ on[t] = watchdog_
                              /\ pc[t] = "gate"
      BY <1>4, WhoOpens
    <2>2. ever_triggered_'[watchdog_]
      BY <2>1 DEF Dog!Judge, GuardInv
    <2> QED
      BY <1>2, <1>4, <2>2 DEF GateWitnessed
  <1>5. CASE ~(watchdog_gate_open_' /\ ~watchdog_gate_open_)
    BY <1>1, <1>2, <1>3, <1>5 DEF GateWitnessed
  <1> QED
    BY <1>4, <1>5

(* The gate is open for the installed watchdog only if that very one was   *)
(* seen alive; what another one answered before does not count.            *)
THEOREM GateIsWitnessed == GuardedSpec => []GateWitnessed
  <1>1. GuardedInit => GateWitnessed
    BY DEF GuardedInit, Init, GateWitnessed
  <1> QED
    BY <1>1, NextWitness, GuardCorrect, PTL DEF GuardedSpec

-----------------------------------------------------------------------------
(* The watchdogs. *)

(* A step of the composition is a step of the watchdogs or none. *)
LEMMA WatchdogStep ==
  ASSUME GuardInv, [GuardedNext]_guardedVars
  PROVE  [Dog!Next]_(Dog!dogVars)
  <1>1. \A t \in Threads : AskAtGate(t) => watchdog_ \in Watchdogs
    BY DEF AskAtGate, GuardInv
  <1> QED
    BY <1>1
    DEF GuardedNext, guardedVars, dogVars, CallBuffer, CallWatchdog, Proceed, ContinueBuffer,
        ContinueWatchdog, AskAtGate, Consult, Elapse, Dog!Next, Dog!dogVars

(* Inside a buffer the watchdogs do nothing they would not do alone, so    *)
(* whatever is proved of Watchdog holds of them.                           *)
THEOREM GuardedAreWatchdogs == GuardedSpec => Dog!Spec
  BY WatchdogStep, GuardCorrect, PTL DEF GuardedSpec, GuardedInit, Dog!Spec

=============================================================================
