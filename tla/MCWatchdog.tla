----------------------------- MODULE MCWatchdog -----------------------------
(* Values for the constants of Watchdog.                                   *)
EXTENDS Watchdog, TLC

CONSTANTS wd1, wd2

(* The threads are interchangeable; the watchdogs differ in their timeout. *)
ThreadSymmetry == Permutations(Threads)

(* One that is alive only within the tick of its beat, one that tolerates  *)
(* a tick of silence.                                                      *)
ShortTimeouts == (wd1 :> 0) @@ (wd2 :> 1)

=============================================================================
