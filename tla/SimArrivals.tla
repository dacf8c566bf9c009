---------------------------- MODULE SimArrivals ----------------------------
(***************************************************************************)
(* build_arrivals() of src/sim.cpp: the list of sequence numbers a         *)
(* simulation feeds to its ReorderBuffer.  The three coins of the seeded   *)
(* generator are functions, so that a property can speak of all seeds.     *)
(***************************************************************************)
EXTENDS Naturals, Sequences, FiniteSets, SequencesExt

(* What a std::bernoulli_distribution may answer: a rate is "never" (0.0), *)
(* "always" (1.0) or "sometimes".                                          *)
Coin(rate) == CASE rate = "never"  -> {FALSE}
                [] rate = "always" -> {TRUE}
                [] OTHER           -> BOOLEAN

(* The copies of s that are generated. *)
Copies(s, drop, dup) == IF drop[s] THEN <<>> ELSE IF dup[s] THEN <<s, s>> ELSE <<s>>

(* The numbers 1 .. count after loss and duplication. *)
Generated(count, drop, dup) ==
  LET upTo[s \in 0 .. count] ==
        IF s = 0 THEN <<>> ELSE upTo[s - 1] \o Copies(s, drop, dup)
  IN  upTo[count]

(* Mistake: the two items are not exchanged, one overwrites the other. *)
Overwrite(seqs, i) == ReplaceAt(seqs, i, seqs[i + 1])

Swap(seqs, i) == ReplaceAt(ReplaceAt(seqs, i, seqs[i + 1]), i + 1, seqs[i])

(* One round of the loop. *)
Toss(seqs, ooo, i) == IF ooo[i] THEN Swap(seqs, i) ELSE seqs

(* Mistake: from the back on. *)
ShuffleBackwards(seqs, ooo) ==
  LET after[n \in 0 .. Len(seqs) - 1] ==
        IF n = 0 THEN seqs ELSE Toss(after[n - 1], ooo, Len(seqs) - n)
  IN  IF seqs = <<>> THEN seqs ELSE after[Len(seqs) - 1]

(* Neighbours change places from the front on, so one item may be carried  *)
(* along.                                                                  *)
Shuffle(seqs, ooo) ==
  LET after[n \in 0 .. Len(seqs) - 1] ==
        IF n = 0 THEN seqs ELSE Toss(after[n - 1], ooo, n)
  IN  IF seqs = <<>> THEN seqs ELSE after[Len(seqs) - 1]

UniqueSource(seqs) == Cardinality(ToSet(seqs))

(* The lists build_arrivals() may make for a SimConfig before it shuffles. *)
Sources(c) ==
  {Generated(c.count, drop, dup) : drop \in [1 .. c.count -> Coin(c.loss_rate)],
                                   dup \in [1 .. c.count -> Coin(c.dup_rate)]}

(* What it may return for one of them. *)
Shuffled(c, seqs) == {Shuffle(seqs, ooo) : ooo \in [1 .. Len(seqs) -> Coin(c.ooo_rate)]}

=============================================================================
