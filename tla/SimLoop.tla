------------------------------ MODULE SimLoop ------------------------------
(***************************************************************************)
(* run_sim() of src/sim.cpp in ThreadMode::Single: for each arrival push() *)
(* it and try_emit(), then try_emit() once more.  The loop of the consumer *)
(* thread in ThreadMode::Multi is the same loop fed by a queue; SimThreads *)
(* adds the queue and shows that it makes no difference.                   *)
(*                                                                         *)
(* One beat() is given before the loop, and none after it.  So the         *)
(* watchdog is alive until hb_timeout_ms have gone by, at a moment of the  *)
(* scheduler's and the host's choosing, and dead from then on.             *)
(***************************************************************************)
EXTENDS ReorderBuffer, SimArrivals

CONSTANTS
  Simulations, \* the SimConfig values of interest
  worker,      \* the thread that uses the buffer
  wd,          \* the simulation's Watchdog
  NoResult     \* value of result before there is one

ASSUME SimAssumption ==
  /\ Threads = {worker}
  /\ Watchdogs = {wd}
  /\ Configs = {[start_seq |-> 1, capacity |-> c.capacity, missing_k |-> c.missing_k]
                  : c \in Simulations}
  /\ \A c \in Simulations : c.count \in Nat /\ 1 .. c.count \subseteq Inputs

VARIABLES
  sim,          \* the SimConfig of the run
  source,       \* what build_arrivals() generated
  arrivals,     \* what it returned
  step,         \* where the worker is in run_sim()
  v,            \* the item it handles
  generated,    \* items taken from the source
  emitted_last, \* the last item of the last batch that was not empty
  lapsed,       \* more than hb_timeout_ms since the beat
  result        \* the SimResult, once there is one

loopVars == <<sim, source, arrivals, step, v, generated, emitted_last, lapsed, result>>
simVars == <<vars, loopVars>>

SimInit ==
  /\ sim \in Simulations
  /\ source \in Sources(sim)
  /\ arrivals \in Shuffled(sim, source)
  /\ Init
  /\ cfg_.capacity = sim.capacity /\ cfg_.missing_k = sim.missing_k
  /\ step = "setup"
  /\ v = 0
  /\ generated = 0
  /\ emitted_last = 0
  /\ lapsed = FALSE
  /\ result = NoResult

-----------------------------------------------------------------------------

AtStep(label) == step = label /\ pc[worker] = "idle"

(* rb.set_watchdog(wd) and wd->beat(). *)
Setup ==
  /\ AtStep("setup")
  /\ SetWatchdog(worker, wd)
  /\ step' = "next"
  /\ UNCHANGED <<sim, source, arrivals, v, generated, emitted_last, lapsed, result>>

(* The head of the loop, over the list itself. *)
Take(item) ==
  /\ v' = item
  /\ generated' = generated + 1
  /\ step' = "push"
  /\ UNCHANGED <<vars, sim, source, arrivals, emitted_last, lapsed, result>>

LeaveLoop ==
  /\ step' = "tail"
  /\ UNCHANGED <<vars, sim, source, arrivals, v, generated, emitted_last, lapsed, result>>

NextArrival ==
  /\ AtStep("next")
  /\ IF generated < Len(arrivals) THEN Take(arrivals[generated + 1]) ELSE LeaveLoop

(* rb.push(v) *)
CallPush ==
  /\ AtStep("push")
  /\ Push(worker, v)
  /\ step' = "emit"
  /\ UNCHANGED <<sim, source, arrivals, v, generated, emitted_last, lapsed, result>>

(* rb.try_emit(), in the loop and after it. *)
CallTryEmit ==
  /\ AtStep("emit") \/ AtStep("tail")
  /\ TryEmit(worker)
  /\ step' = IF step = "emit" THEN "next" ELSE "report"
  /\ UNCHANGED <<sim, source, arrivals, v, generated, emitted_last, lapsed, result>>

(* The inside of both calls; alive() answers as the time elapsed wants it. *)
InCall ==
  /\ \/ PromoteUnderPressure(worker)
     \/ EvictFarthest(worker)
     \/ ~lapsed /\ OpenGate(worker)
     \/ lapsed /\ StayShut(worker)
     \/ EmitFrontier(worker)
     \/ PromoteWhileEmitting(worker)
  /\ UNCHANGED loopVars

(* Mistake: the first item of the batch is reported as the last. *)
FrontOf(batch) == IF batch = <<>> THEN emitted_last ELSE Head(batch)

BackOf(batch) == IF batch = <<>> THEN emitted_last ELSE Last(batch)

TakeBatch ==
  /\ ReturnBatch(worker)
  /\ emitted_last' = BackOf(out[worker])
  /\ UNCHANGED <<sim, source, arrivals, step, v, generated, lapsed, result>>

(* The SimResult; watchdog_ever_triggered is the constant wd_ever.         *)
Report ==
  /\ AtStep("report")
  /\ result' = [stats |-> stats_, generated |-> generated,
                unique_source |-> UniqueSource(source),
                emitted_last |-> emitted_last, watchdog_ever_triggered |-> TRUE]
  /\ step' = "done"
  /\ UNCHANGED <<vars, sim, source, arrivals, v, generated, emitted_last, lapsed>>

(* hb_timeout_ms go by since the beat of Setup. *)
Lapse ==
  /\ step # "setup"
  /\ ~lapsed
  /\ lapsed' = TRUE
  /\ UNCHANGED <<vars, sim, source, arrivals, step, v, generated, emitted_last, result>>

Work == CallPush \/ CallTryEmit \/ InCall \/ TakeBatch

LoopNext == Setup \/ NextArrival \/ Work \/ Report \/ Lapse

LoopSpec == SimInit /\ [][LoopNext]_simVars

-----------------------------------------------------------------------------
(* Properties of a finished run. *)

Finished == result # NoResult

(* Numbers that build_arrivals() lost. *)
Lost == (1 .. sim.count) \ ToSet(source)

Times(s, list) == Cardinality({i \in DOMAIN list : list[i] = s})

(* Shuffling neither loses nor adds an item, and nothing arrives more than *)
(* one place early, so the buffer waits for stragglers, not for the source.*)
ArrivalsShuffled ==
  /\ \A s \in 1 .. sim.count : Times(s, arrivals) = Times(s, source)
  /\ \A i \in DOMAIN arrivals :
       \E j \in DOMAIN source : j <= i + 1 /\ arrivals[i] = source[j]

(* The books of the simulation: every arrival was pushed, and of the       *)
(* different numbers among them all but what was evicted or came too late  *)
(* were emitted or are still in the buffer.  So what emitted falls short   *)
(* of unique_source by is explained by the other counters, and what is     *)
(* missing from unique_source was lost on the way, not by the buffer.      *)
ResultAddsUp ==
  Finished =>
    /\ result.generated = Len(arrivals) /\ result.stats.received = Len(arrivals)
    /\ Emitted \subseteq ToSet(source)
    /\ result.stats.emitted + Cardinality(pending_) <= result.unique_source
    /\ result.unique_source <= result.stats.emitted + Cardinality(pending_)
                                 + result.stats.evicted + result.stats.missing_k_dropped

(* emitted_last is the largest number emitted, 0 if there is none, also    *)
(* when later batches were empty.                                          *)
LastIsLargest ==
  Finished => /\ result.emitted_last \in Emitted \cup {0}
              /\ \A s \in Emitted : s <= result.emitted_last

(* Without promotions, evictions and a shut gate, exactly what lies before *)
(* the first lost number is emitted, in whatever order it arrived.         *)
CompleteUpToFirstLoss ==
  (Finished /\ ~lapsed /\ sim.missing_k = 0 /\ result.stats.evicted = 0) =>
    Emitted = {s \in 1 .. sim.count : \A m \in Lost : s < m}

(* sim.cpp:76 on the beat before the loop: "open the gate at t=0".  Each   *)
(* arrival is followed by a try_emit(), so a run that had one would have   *)
(* found the gate open.                                                    *)
GateOpenedAtStart == Finished /\ arrivals # <<>> => watchdog_gate_open_

=============================================================================
