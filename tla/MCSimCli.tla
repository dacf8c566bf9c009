------------------------------ MODULE MCSimCli ------------------------------
(* Values for the constants of SimCli.                                     *)
EXTENDS SimCli, SequencesExt

(* Options of every kind, an unknown one, and texts that are a number in   *)
(* range, negative, too wide for 32 bits, too long a list, too wide for    *)
(* any type, a decimal inside and outside of 0 .. 1, a mode, and none.     *)
Args ==
  {"--count", "--dup-rate", "--ooo-rate", "--hb-timeout-ms", "--threads",
   "--json", "--verbose", "-h", "--bogus",
   "7", "-1", "70000", "99999999", "0.5", "multi"}

UpToFour == SeqOf(Args, 4)

AsWhole ==
  "7" :> 7 @@ "-1" :> (-1) @@ "70000" :> 70000 @@ "99999999" :> 99999999 @@ "0.5" :> 0

AsRate ==
  "7" :> "outside" @@ "-1" :> "outside" @@ "70000" :> "outside"
  @@ "99999999" :> "outside" @@ "0.5" :> "sometimes"

=============================================================================
