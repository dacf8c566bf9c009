----------------------------- MODULE SimThreads -----------------------------
(***************************************************************************)
(* run_sim() in ThreadMode::Multi: a producer thread puts the arrivals in  *)
(* a queue, the worker of SimLoop, now the consumer thread, takes them     *)
(* out.  The queue and done are guarded by qmu and announced with qcv.     *)
(***************************************************************************)
EXTENDS SimLoop

CONSTANT MaxSpurious \* bound on the number of wakeups for no reason

ASSUME ThreadAssumption == MaxSpurious \in Nat

VARIABLES
  q,       \* the queue
  done,    \* nothing will be added to it
  prod,    \* where the producer is
  sent,    \* how many arrivals it has put in the queue
  fetch,   \* where the consumer is at the head of its loop
  spurious \* how often it woke up for no reason

queueVars == <<q, done, prod, sent, fetch, spurious>>
threadVars == <<simVars, queueVars>>

ThreadsInit ==
  /\ SimInit
  /\ q = <<>>
  /\ done = FALSE
  /\ prod = "put"
  /\ sent = 0
  /\ fetch = "look"
  /\ spurious = 0

(* Mistake: the mutex is not taken. *)
NoQmu == TRUE

(* Every critical section but one is a single step.  In the remaining one  *)
(* the consumer has found nothing and is about to sleep.                   *)
QmuFree == fetch # "block"

-----------------------------------------------------------------------------
(* The producer; it notifies after it has let go of qmu. *)

ProducerMay(label) == step # "setup" /\ prod = label /\ QmuFree

Put ==
  /\ ProducerMay("put")
  /\ sent < Len(arrivals)
  /\ q' = Append(q, arrivals[sent + 1])
  /\ sent' = sent + 1
  /\ prod' = "notify"
  /\ UNCHANGED <<simVars, done, fetch, spurious>>

Close ==
  /\ ProducerMay("put")
  /\ sent = Len(arrivals)
  /\ done' = TRUE
  /\ prod' = "last_notify"
  /\ UNCHANGED <<simVars, q, sent, fetch, spurious>>

(* qcv.notify_one() wakes the consumer if it waits, and is lost otherwise. *)
Notify ==
  /\ prod \in {"notify", "last_notify"}
  /\ fetch' = IF fetch = "waiting" THEN "look" ELSE fetch
  /\ prod' = IF prod = "notify" THEN "put" ELSE "joined"
  /\ UNCHANGED <<simVars, q, done, sent, spurious>>

Produce == Put \/ Close \/ Notify

-----------------------------------------------------------------------------
(* The consumer at the head of its loop: one look at q and done, and what  *)
(* it does about them, under qmu.                                          *)

Looking == AtStep("next") /\ fetch = "look"

(* Mistake: the queue is read as a stack. *)
PopNewest ==
  /\ Looking /\ q # <<>>
  /\ Take(Last(q))
  /\ q' = Front(q)
  /\ UNCHANGED <<done, prod, sent, fetch, spurious>>

Pop ==
  /\ Looking /\ q # <<>>
  /\ Take(Head(q))
  /\ q' = Tail(q)
  /\ UNCHANGED <<done, prod, sent, fetch, spurious>>

(* Mistake: done counts even if there is something in the queue. *)
DoneAtAll == done

DoneAndEmpty == done /\ q = <<>>

Leave == Looking /\ DoneAndEmpty /\ LeaveLoop /\ UNCHANGED queueVars

(* Nothing there: wait() gives up qmu and sleeps in one step. *)
Doze ==
  /\ \/ Looking /\ q = <<>> /\ ~done /\ fetch' = "block"
     \/ fetch = "block" /\ fetch' = "waiting"
  /\ UNCHANGED <<simVars, q, done, prod, sent, spurious>>

(* It may wake up for no reason. *)
WakeUp ==
  /\ fetch = "waiting"
  /\ spurious < MaxSpurious
  /\ spurious' = spurious + 1
  /\ fetch' = "look"
  /\ UNCHANGED <<simVars, q, done, prod, sent>>

Consume == Pop \/ Leave \/ Doze

-----------------------------------------------------------------------------

(* The main thread waits for both and then reports. *)
Join == prod = "joined" /\ Report

ThreadsNext ==
  \/ Produce
  \/ Consume
  \/ WakeUp
  \/ (Setup \/ Work \/ Join \/ Lapse) /\ UNCHANGED queueVars

ThreadsSpec == ThreadsInit /\ [][ThreadsNext]_threadVars

(* Each thread keeps running.  The time need not run out, nor a sleeper    *)
(* wake up by itself; it does so finitely often, so that the producer      *)
(* finds qmu free.                                                         *)
ThreadsFairSpec ==
  /\ ThreadsSpec
  /\ WF_threadVars(Produce)
  /\ WF_threadVars(Consume)
  /\ WF_threadVars((Setup \/ Work \/ Join) /\ UNCHANGED queueVars)

-----------------------------------------------------------------------------
(* Properties. *)

(* tests/test_threads.cpp, for every schedule: in multi-thread mode the    *)
(* buffer sees the same calls with the same arguments, and the same result *)
(* is reported, as in a single-thread run on the same arrivals.            *)
ModesAgree == LoopSpec

(* The queue never holds more than was sent and not yet taken, in order.   *)
QueueIsTheRest ==
  q = SubSeq(arrivals, generated + 1, sent)

(* A consumer that sleeps although there is something in the queue, or     *)
(* nothing more to come, is owed a notification: the producer is between   *)
(* its unlock and its notify_one(), and never already gone.                *)
WakeupOwed ==
  fetch = "waiting" /\ (q # <<>> \/ done) => prod \in {"notify", "last_notify"}

(* No wakeup is lost: the consumer does not sleep forever on a queue with  *)
(* something in it, nor after the producer is done.                        *)
ConsumerWakes == fetch = "waiting" ~> fetch # "waiting"

(* Neither thread waits for the other for ever: both end, with everything  *)
(* that was sent taken out of the queue and received, and run_sim() gets   *)
(* past the two joins to its result.                                       *)
ThreadsEnd ==
  <>(Finished /\ prod = "joined" /\ q = <<>> /\ stats_.received = Len(arrivals))

=============================================================================
