----------------------------- MODULE SimProofs -----------------------------
(***************************************************************************)
(* run_sim() for every configuration and every outcome of its coins: what  *)
(* build_arrivals() returns, its buffer is a ReorderBuffer like any other, *)
(* its two modes agree, the last number it reports is the largest, its     *)
(* books add up, and what it emits without losses of its own is what lies  *)
(* before the first lost number.                                           *)
(***************************************************************************)
EXTENDS SimThreads, StreamProofs, SequenceTheorems, Induction

-----------------------------------------------------------------------------
(* What build_arrivals() generates. *)

(* What the items of two lists are once one is appended to the other. *)
LEMMA ItemsOfConcat ==
  ASSUME NEW S, NEW a \in Seq(S), NEW b \in Seq(S)
  PROVE  a \o b \in Seq(S) /\ ToSet(a \o b) = ToSet(a) \cup ToSet(b)
  <1>1. /\ a \o b \in Seq(S) /\ Len(a) \in Nat /\ Len(b) \in Nat
        /\ Len(a \o b) = Len(a) + Len(b)
        /\ \A n \in 1 .. Len(a \o b) : (a \o b)[n] = IF n <= Len(a) THEN a[n] ELSE b[n - Len(a)]
    BY ConcatProperties
  <1>2. /\ DOMAIN a = 1 .. Len(a) /\ DOMAIN b = 1 .. Len(b)
        /\ DOMAIN (a \o b) = 1 .. Len(a \o b)
    BY <1>1
  <1>3. ASSUME NEW x \in ToSet(a \o b) PROVE x \in ToSet(a) \cup ToSet(b)
    BY <1>1, <1>2, <1>3 DEF ToSet
  <1>4. ASSUME NEW n \in DOMAIN a PROVE a[n] \in ToSet(a \o b)
    BY <1>1, <1>2 DEF ToSet
  <1>5. ASSUME NEW n \in DOMAIN b PROVE b[n] \in ToSet(a \o b)
    <2>1. /\ n + Len(a) \in DOMAIN (a \o b) /\ (a \o b)[n + Len(a)] = b[n]
      BY <1>1, <1>2
    <2> QED
      BY <2>1 DEF ToSet
  <1> QED
    BY <1>1, <1>3, <1>4, <1>5 DEF ToSet

(* The copies of a number. *)
LEMMA ItemsOfCopies ==
  ASSUME NEW S, NEW s \in S, NEW drop \in [S -> BOOLEAN], NEW dup
  PROVE  /\ Copies(s, drop, dup) \in Seq(S)
         /\ ToSet(Copies(s, drop, dup)) = IF drop[s] THEN {} ELSE {s}
  <1>1. /\ <<>> \in Seq(S) /\ <<s>> \in Seq(S) /\ <<s, s>> \in Seq(S)
        /\ ToSet(<<>>) = {} /\ ToSet(<<s>>) = {s} /\ ToSet(<<s, s>>) = {s}
    BY DEF ToSet
  <1>2. CASE drop[s]
    BY <1>1, <1>2 DEF Copies
  <1>3. CASE ~drop[s]
    BY <1>1, <1>3 DEF Copies
  <1> QED
    BY <1>2, <1>3

(* build_arrivals() generates the numbers it does not drop, and no other.  *)
LEMMA GeneratedItems ==
  ASSUME NEW count \in Nat, NEW drop \in [1 .. count -> BOOLEAN], NEW dup
  PROVE  /\ Generated(count, drop, dup) \in Seq(1 .. count)
         /\ ToSet(Generated(count, drop, dup)) = {s \in 1 .. count : ~drop[s]}
  <1> DEFINE Add(x, s) == x \o Copies(s, drop, dup)
             Rounds(f) == [s \in 0 .. count |-> IF s = 0 THEN <<>> ELSE Add(f[s - 1], s)]
             upTo == CHOOSE f : f = Rounds(f)
             lists == Seq(1 .. count)
             next == [s \in 1 .. count |-> [x \in lists |-> Add(x, s)]]
             Good == {s \in 0 .. count : /\ upTo[s] \in Seq(1 .. count)
                                         /\ ToSet(upTo[s]) = {r \in 1 .. s : ~drop[r]}}
  <1>1. Generated(count, drop, dup) = upTo[count]
    BY DEF Generated
  <1>2. ASSUME NEW s \in 1 .. count
        PROVE  /\ Copies(s, drop, dup) \in lists
               /\ ToSet(Copies(s, drop, dup)) = IF drop[s] THEN {} ELSE {s}
    BY ItemsOfCopies
  <1>3. upTo = Rounds(upTo)
    <2>1. Steps(next, count, lists)
      BY <1>2, ItemsOfConcat DEF Steps
    <2>2. <<>> \in lists
      OBVIOUS
    <2>3. PICK f : IsStepwise(f, count, lists, <<>>, next)
      <3> HIDE DEF next, lists
      <3> QED
        BY <2>1, <2>2, StepwiseFunction
    <2> USE DEF IsStepwise
    <2>4. ASSUME NEW s \in 1 .. count PROVE f[s] = Add(f[s - 1], s)
      <3> HIDE DEF lists, Add
      <3>1. f[s - 1] \in lists
        BY <2>3
      <3> QED
        BY <2>3, <3>1
    <2>5. f = Rounds(f)
      <3> HIDE DEF lists, Add
      <3> QED
        BY <2>3, <2>4
    <2> HIDE DEF Rounds
    <2> QED
      BY <2>5, Zenon
  <1> HIDE DEF upTo
  <1>4. 0 \in Good
    BY <1>3 DEF ToSet
  <1>5. ASSUME NEW s \in 1 .. count, s - 1 \in Good PROVE s \in Good
    <2>1. upTo[s] = Add(upTo[s - 1], s)
      <3> HIDE DEF Add
      <3> QED
        BY <1>3
    <2>2. 1 .. s = 1 .. (s - 1) \cup {s}
      OBVIOUS
    <2>3. /\ upTo[s] \in Seq(1 .. count)
          /\ ToSet(upTo[s]) = ToSet(upTo[s - 1]) \cup ToSet(Copies(s, drop, dup))
      BY <1>2, <1>5, <2>1, ItemsOfConcat
    <2> QED
      BY <1>2, <1>5, <2>2, <2>3
  <1>6. count \in Good
    <2> HIDE DEF Good
    <2>1. 0 .. count \subseteq Good
      BY <1>4, <1>5, UpTo
    <2> QED
      BY <2>1
  <1> QED
    BY <1>1, <1>6

-----------------------------------------------------------------------------
(* What its shuffle does. *)

(* Two neighbours change places. *)
LEMMA SwapItems ==
  ASSUME NEW S, NEW x \in Seq(S), NEW n \in 1 .. (Len(x) - 1)
  PROVE  /\ Swap(x, n) \in Seq(S) /\ Len(Swap(x, n)) = Len(x)
         /\ Swap(x, n)[n] = x[n + 1] /\ Swap(x, n)[n + 1] = x[n]
         /\ \A i \in 1 .. Len(x) : i # n /\ i # n + 1 => Swap(x, n)[i] = x[i]
  <1>1. /\ Len(x) \in Nat /\ n \in 1 .. Len(x) /\ n + 1 \in 1 .. Len(x) /\ n # n + 1
        /\ x[n] \in S /\ x[n + 1] \in S
    OBVIOUS
  <1>2. /\ ReplaceAt(x, n, x[n + 1]) \in Seq(S) /\ Len(ReplaceAt(x, n, x[n + 1])) = Len(x)
        /\ ReplaceAt(x, n, x[n + 1])[n] = x[n + 1]
        /\ \A i \in 1 .. Len(x) : i # n => ReplaceAt(x, n, x[n + 1])[i] = x[i]
    BY <1>1, ExceptSeq DEF ReplaceAt
  <1> DEFINE y == ReplaceAt(x, n, x[n + 1])
  <1> HIDE DEF y
  <1>3. /\ ReplaceAt(y, n + 1, x[n]) \in Seq(S) /\ Len(ReplaceAt(y, n + 1, x[n])) = Len(y)
        /\ ReplaceAt(y, n + 1, x[n])[n + 1] = x[n]
        /\ \A i \in 1 .. Len(y) : i # n + 1 => ReplaceAt(y, n + 1, x[n])[i] = y[i]
    BY <1>1, <1>2, ExceptSeq DEF ReplaceAt, y
  <1> QED
    BY <1>1, <1>2, <1>3 DEF Swap, y

(* Each item of after is one of seqs, of which none is used twice or left  *)
(* out; it lay one place behind at most, or not behind, if not yet tossed. *)
IsOrderOf(p, after, seqs, n) ==
  LET places == 1 .. Len(seqs)
  IN  /\ p \in [places -> places]
      /\ \A i, j \in places : p[i] = p[j] => i = j
      /\ \A j \in places : \E i \in places : p[i] = j
      /\ Len(after) = Len(seqs)
      /\ \A i \in places : /\ after[i] = seqs[p[i]]
                           /\ p[i] <= i + 1
                           /\ i > n => p[i] <= i

(* One round keeps that. *)
LEMMA TossKeepsOrder ==
  ASSUME NEW S, NEW seqs \in Seq(S), NEW x \in Seq(S), NEW n \in 1 .. (Len(seqs) - 1),
         NEW p, IsOrderOf(p, x, seqs, n - 1), NEW ooo
  PROVE  Toss(x, ooo, n) \in Seq(S) /\ \E r : IsOrderOf(r, Toss(x, ooo, n), seqs, n)
  <1> DEFINE places == 1 .. Len(seqs)
  <1>0. /\ Len(seqs) \in Nat /\ n \in places /\ n + 1 \in places
        /\ n \in Nat /\ Len(x) = Len(seqs) /\ \A i \in places : i \in Nat
    BY DEF IsOrderOf
  <1>a. /\ p \in [places -> places]
        /\ \A i, j \in places : p[i] = p[j] => i = j
        /\ \A j \in places : \E i \in places : p[i] = j
    BY DEF IsOrderOf
  <1>b. \A i \in places : x[i] = seqs[p[i]] /\ p[i] <= i + 1 /\ (i >= n => p[i] <= i)
    BY DEF IsOrderOf
  <1> HIDE DEF places
  <1>c. \A i \in places : p[i] \in places /\ p[i] \in Nat
    BY <1>0, <1>a
  <1>1. CASE ooo[n]
    <2> DEFINE r == [p EXCEPT ![n] = p[n + 1], ![n + 1] = p[n]]
    <2>1. /\ r \in [places -> places]
          /\ r[n] = p[n + 1] /\ r[n + 1] = p[n]
          /\ \A i \in places : i # n /\ i # n + 1 => r[i] = p[i]
      BY <1>0, <1>a, <1>c
    <2>r. \A i \in places : r[i] = p[IF i = n THEN n + 1 ELSE IF i = n + 1 THEN n ELSE i]
      BY <1>0, <2>1
    <2> HIDE DEF r
    <2>2. /\ Swap(x, n) \in Seq(S) /\ Len(Swap(x, n)) = Len(x)
          /\ Swap(x, n)[n] = x[n + 1] /\ Swap(x, n)[n + 1] = x[n]
          /\ \A i \in places : i # n /\ i # n + 1 => Swap(x, n)[i] = x[i]
      BY <1>0, SwapItems DEF places
    <2>3. \A i, j \in places : r[i] = r[j] => i = j
      BY <1>0, <1>a, <2>r
    <2>4. \A j \in places : \E i \in places : r[i] = j
      BY <1>0, <1>a, <2>1
    <2>5. ASSUME NEW i \in places
          PROVE  Swap(x, n)[i] = seqs[r[i]] /\ r[i] <= i + 1 /\ (i > n => r[i] <= i)
      <3>1. CASE i = n
        <4>1. p[n + 1] <= n + 1 /\ p[n + 1] \in Nat
          BY <1>0, <1>b, <1>c
        <4> QED
          BY <1>0, <1>b, <1>c, <2>1, <2>2, <3>1, <4>1
      <3>2. CASE i = n + 1
        <4>1. p[n] <= n /\ p[n] \in Nat
          BY <1>0, <1>b, <1>c
        <4> QED
          BY <1>0, <1>b, <1>c, <2>1, <2>2, <3>2, <4>1
      <3>3. CASE i # n /\ i # n + 1
        BY <1>0, <1>b, <2>1, <2>2, <3>3
      <3> QED
        BY <3>1, <3>2, <3>3
    <2>6. IsOrderOf(r, Swap(x, n), seqs, n)
      BY <1>0, <2>1, <2>2, <2>3, <2>4, <2>5 DEF IsOrderOf, places
    <2>7. Toss(x, ooo, n) = Swap(x, n)
      BY <1>1 DEF Toss
    <2> QED
      BY <2>2, <2>6, <2>7
  <1>2. CASE ~ooo[n]
    <2>1. \A i \in places : x[i] = seqs[p[i]] /\ p[i] <= i + 1 /\ (i > n => p[i] <= i)
      BY <1>0, <1>b
    <2>2. IsOrderOf(p, x, seqs, n)
      BY <1>0, <1>a, <2>1, Zenon DEF IsOrderOf, places
    <2>3. Toss(x, ooo, n) = x
      BY <1>2 DEF Toss
    <2> QED
      BY <2>2, <2>3
  <1> QED
    BY <1>1, <1>2

(* What build_arrivals() returns is the source in another order, in which  *)
(* no item lies more than one place ahead of where it was.                 *)
LEMMA ShuffledOrder ==
  ASSUME NEW S, NEW seqs \in Seq(S), NEW ooo
  PROVE  Shuffle(seqs, ooo) \in Seq(S) /\ \E p, n : IsOrderOf(p, Shuffle(seqs, ooo), seqs, n)
  <1> DEFINE last == Len(seqs) - 1
             Turn(x, n) == Toss(x, ooo, n)
             Rounds(f) == [n \in 0 .. last |-> IF n = 0 THEN seqs ELSE Turn(f[n - 1], n)]
             after == CHOOSE f : f = Rounds(f)
             lists == {x \in Seq(S) : Len(x) = Len(seqs)}
             next == [n \in 1 .. last |-> [x \in lists |-> Turn(x, n)]]
             Good == {n \in 0 .. last : /\ after[n] \in Seq(S)
                                        /\ \E p : IsOrderOf(p, after[n], seqs, n)}
  <1>1. \E p : IsOrderOf(p, seqs, seqs, 0)
    <2> DEFINE p == [i \in 1 .. Len(seqs) |-> i]
    <2>1. Len(seqs) \in Nat
      OBVIOUS
    <2>2. IsOrderOf(p, seqs, seqs, 0)
      BY <2>1 DEF IsOrderOf
    <2> HIDE DEF p
    <2> QED
      BY <2>2
  <1>2. CASE seqs = <<>>
    BY <1>1, <1>2 DEF Shuffle
  <1>3. CASE seqs # <<>>
    <2>1. Shuffle(seqs, ooo) = after[last]
      BY <1>3 DEF Shuffle
    <2>2. last \in Nat /\ seqs \in lists
      BY <1>3, EmptySeq
    <2>3. ASSUME NEW n \in 1 .. last, NEW x \in lists PROVE Turn(x, n) \in lists
      <3>1. n \in 1 .. (Len(x) - 1)
        OBVIOUS
      <3> QED
        BY <3>1, SwapItems DEF Toss
    <2>4. after = Rounds(after)
      <3>1. Steps(next, last, lists)
        BY <2>3 DEF Steps
      <3>2. PICK f : IsStepwise(f, last, lists, seqs, next)
        <4> HIDE DEF next, lists, last
        <4> QED
          BY <2>2, <3>1, StepwiseFunction
      <3> USE DEF IsStepwise
      <3> HIDE DEF lists, Turn, last
      <3>3. ASSUME NEW n \in 1 .. last PROVE f[n] = Turn(f[n - 1], n)
        <4>1. f[n - 1] \in lists
          BY <2>2, <3>2
        <4> QED
          BY <3>2, <4>1
      <3>4. f = Rounds(f)
        BY <3>2, <3>3
      <3> HIDE DEF Rounds
      <3> QED
        BY <3>4, Zenon
    <2> HIDE DEF after
    <2>5. 0 \in Good
      BY <1>1, <2>2, <2>4
    <2>6. ASSUME NEW n \in 1 .. last, n - 1 \in Good PROVE n \in Good
      <3>1. after[n] = Turn(after[n - 1], n)
        <4> HIDE DEF Turn
        <4> QED
          BY <2>2, <2>4
      <3>2. /\ after[n - 1] \in Seq(S)
            /\ \E p : IsOrderOf(p, after[n - 1], seqs, n - 1)
        BY <2>6
      <3> QED
        BY <3>1, <3>2, TossKeepsOrder
    <2>7. last \in Good
      <3> HIDE DEF Good, last
      <3>1. 0 .. last \subseteq Good
        BY <2>2, <2>5, <2>6, UpTo
      <3> QED
        BY <2>2, <3>1
    <2> QED
      BY <2>1, <2>7
  <1> QED
    BY <1>2, <1>3

(* So it has the same items as often.                                      *)
LEMMA OrderKeepsItems ==
  ASSUME NEW S, NEW seqs \in Seq(S), NEW x \in Seq(S), NEW p, NEW n, IsOrderOf(p, x, seqs, n)
  PROVE  /\ ToSet(x) = ToSet(seqs)
         /\ \A i \in DOMAIN x : \E j \in DOMAIN seqs : j <= i + 1 /\ x[i] = seqs[j]
         /\ \A s : Times(s, x) = Times(s, seqs)
  <1> DEFINE places == 1 .. Len(seqs)
  <1>0. Len(seqs) \in Nat /\ DOMAIN x = places /\ DOMAIN seqs = places
    BY DEF IsOrderOf
  <1>1. /\ p \in [places -> places]
        /\ \A i, j \in places : p[i] = p[j] => i = j
        /\ \A j \in places : \E i \in places : p[i] = j
        /\ \A i \in places : x[i] = seqs[p[i]] /\ p[i] <= i + 1
    BY DEF IsOrderOf
  <1>2. IsFiniteSet(places)
    BY <1>0, FS_Interval
  <1> HIDE DEF places
  <1>3. ASSUME NEW s
        PROVE  Times(s, x) = Times(s, seqs)
    <2> DEFINE from == {i \in places : x[i] = s}
               to == {i \in places : seqs[i] = s}
               f == [i \in from |-> p[i]]
    <2>1. f \in [from -> to] /\ \A i, j \in from : f[i] = f[j] => i = j
      BY <1>1
    <2>2. \A j \in to : \E i \in from : f[i] = j
      BY <1>1
    <2>3. IsFiniteSet(from)
      BY <1>2, FS_Subset
    <2> HIDE DEF from, to, f
    <2>4. f \in Bijection(from, to)
      BY <2>1, <2>2 DEF Bijection, Injection, Surjection, IsInjective
    <2>5. ExistsBijection(from, to)
      BY <2>4 DEF ExistsBijection
    <2>6. Cardinality(to) = Cardinality(from)
      BY <2>3, <2>5, FS_Bijection
    <2> QED
      BY <1>0, <2>6 DEF from, to, Times
  <1>4. ToSet(x) = ToSet(seqs)
    BY <1>0, <1>1 DEF ToSet
  <1>5. ASSUME NEW i \in places PROVE \E j \in places : j <= i + 1 /\ x[i] = seqs[j]
    BY <1>1
  <1> QED
    BY <1>0, <1>3, <1>4, <1>5

-----------------------------------------------------------------------------
(* The arrivals of a simulation. *)

(* The arrivals are a list of numbers that the buffer may be given. *)
Listed == arrivals \in Seq(Inputs)

(* It holds what was generated from 1 .. count. *)
Drawn ==
  /\ Listed
  /\ ToSet(arrivals) = ToSet(source)
  /\ sim.count \in Nat /\ ToSet(source) \subseteq 1 .. sim.count

(* build_arrivals() makes such a list, from a source it only rearranges.   *)
LEMMA InitArrivals == SimInit => Drawn /\ ArrivalsShuffled
  <1> SUFFICES ASSUME SimInit PROVE Drawn /\ ArrivalsShuffled
    OBVIOUS
  <1>1. sim.count \in Nat /\ 1 .. sim.count \subseteq Inputs
    BY SimAssumption DEF SimInit
  <1>2. source \in Seq(1 .. sim.count)
    <2>1. PICK drop \in [1 .. sim.count -> Coin(sim.loss_rate)],
               dup \in [1 .. sim.count -> Coin(sim.dup_rate)] :
            source = Generated(sim.count, drop, dup)
      BY DEF SimInit, Sources
    <2>2. drop \in [1 .. sim.count -> BOOLEAN]
      BY DEF Coin
    <2> QED
      BY <1>1, <2>1, <2>2, GeneratedItems
  <1>3. /\ arrivals \in Seq(1 .. sim.count)
        /\ \E p, n : IsOrderOf(p, arrivals, source, n)
    <2>1. PICK ooo : arrivals = Shuffle(source, ooo)
      BY DEF SimInit, Shuffled
    <2> QED
      BY <1>2, <2>1, ShuffledOrder
  <1>4. ArrivalsShuffled /\ ToSet(arrivals) = ToSet(source)
    <2>1. PICK p, n : IsOrderOf(p, arrivals, source, n)
      BY <1>3
    <2>2. /\ ToSet(arrivals) = ToSet(source)
          /\ \A i \in DOMAIN arrivals :
               \E j \in DOMAIN source : j <= i + 1 /\ arrivals[i] = source[j]
          /\ \A s : Times(s, arrivals) = Times(s, source)
      <3> DEFINE numbers == 1 .. sim.count
      <3>1. source \in Seq(numbers) /\ arrivals \in Seq(numbers)
        BY <1>2, <1>3
      <3> HIDE DEF numbers
      <3> QED
        BY <2>1, <3>1, OrderKeepsItems
    <2> QED
      BY <2>2 DEF ArrivalsShuffled
  <1>5. arrivals \in Seq(Inputs)
    BY <1>1, <1>3
  <1>6. ToSet(source) \subseteq 1 .. sim.count
    <2> DEFINE numbers == 1 .. sim.count
    <2>1. source \in Seq(numbers)
      BY <1>2
    <2> HIDE DEF numbers
    <2>2. \A i \in DOMAIN source : source[i] \in numbers
      BY <2>1
    <2>3. \A i \in DOMAIN source : source[i] \in 1 .. sim.count
      BY <2>2 DEF numbers
    <2> QED
      BY <2>3 DEF ToSet
  <1> QED
    BY <1>1, <1>4, <1>5, <1>6 DEF Drawn, Listed

(* Swapping neighbours in place while walking over them (sim.cpp:54-60)    *)
(* loses no item, adds none, and puts none more than one place ahead,      *)
(* however long the list is and however the coins fall.                    *)
THEOREM ShuffleKeepsItems == LoopSpec => []ArrivalsShuffled
  <1>1. ArrivalsShuffled /\ [LoopNext]_simVars => ArrivalsShuffled'
    <2>1. [LoopNext]_simVars => UNCHANGED <<sim, source, arrivals>>
      BY DEF LoopNext, Setup, NextArrival, Take, LeaveLoop, Work, CallPush, CallTryEmit,
             InCall, TakeBatch, Report, Lapse, simVars, loopVars
    <2> QED
      BY <2>1 DEF ArrivalsShuffled
  <1> QED
    BY <1>1, InitArrivals, PTL DEF LoopSpec

-----------------------------------------------------------------------------
(* The buffer of the simulator. *)

(* What the loop hands to push() comes from the list. *)
LoopInv ==
  /\ Listed
  /\ generated \in Nat
  /\ step = "push" => v \in Inputs

(* Every step keeps that. *)
LEMMA NextLoop == LoopInv /\ [LoopNext]_simVars => LoopInv'
  <1> SUFFICES ASSUME LoopInv, [LoopNext]_simVars PROVE LoopInv'
    OBVIOUS
  <1>1. CASE NextArrival
    <2>1. CASE generated < Len(arrivals) /\ Take(arrivals[generated + 1])
      <3>1. arrivals[generated + 1] \in Inputs
        BY <2>1 DEF LoopInv, Listed
      <3> QED
        BY <2>1, <3>1 DEF Take, LoopInv, Listed
    <2>2. CASE LeaveLoop
      BY <2>2 DEF LeaveLoop, LoopInv, Listed
    <2> QED
      BY <1>1, <2>1, <2>2 DEF NextArrival
  <1>2. CASE Setup \/ Report \/ Lapse \/ Work \/ UNCHANGED simVars
    BY <1>2
    DEF Setup, Report, Lapse, Work, CallPush, CallTryEmit, InCall, TakeBatch, simVars,
        loopVars, LoopInv, Listed
  <1> QED
    BY <1>1, <1>2 DEF LoopNext

(* A step of the simulation is a step of its buffer or none. *)
LEMMA LoopStep == LoopInv /\ [LoopNext]_simVars => [Next]_vars
  <1> SUFFICES ASSUME LoopInv, [LoopNext]_simVars PROVE [Next]_vars
    OBVIOUS
  <1>1. worker \in Threads /\ wd \in Watchdogs
    BY SimAssumption
  <1>2. CASE Setup
    BY <1>1, <1>2 DEF Setup, Next
  <1>3. CASE CallPush
    BY <1>1, <1>3 DEF CallPush, AtStep, LoopInv, Next
  <1>4. CASE CallTryEmit
    BY <1>1, <1>4 DEF CallTryEmit, Next
  <1>5. CASE InCall \/ TakeBatch
    BY <1>1, <1>5 DEF InCall, TakeBatch, Continue, Next
  <1>6. CASE NextArrival \/ Report \/ Lapse \/ UNCHANGED simVars
    BY <1>6 DEF NextArrival, Take, LeaveLoop, Report, Lapse, simVars
  <1> QED
    BY <1>2, <1>3, <1>4, <1>5, <1>6 DEF LoopNext, Work

(* The simulator uses its buffer as any client may, so what is proved of   *)
(* ReorderBuffer holds in every simulation, whatever its heartbeat does.   *)
THEOREM SimulationIsBuffer == LoopSpec => Spec
  <1>1. SimInit => LoopInv /\ Init
    BY InitArrivals DEF SimInit, LoopInv, Drawn
  <1> QED
    BY <1>1, NextLoop, LoopStep, PTL DEF LoopSpec, Spec

-----------------------------------------------------------------------------
(* The last number reported. *)

(* A batch ends like the stream; between two of them, and in the result,   *)
(* emitted_last is the end of the stream.                                  *)
LastInv ==
  /\ IF out[worker] = <<>>
     THEN emitted_last = IF emitted = <<>> THEN 0 ELSE Last(emitted)
     ELSE emitted # <<>> /\ Last(out[worker]) = Last(emitted)
  /\ Finished =>
       step = "done" /\ pc[worker] = "idle" /\ result.emitted_last = emitted_last

(* Every step keeps that. *)
LEMMA NextLast == BaseInv /\ LastInv /\ [LoopNext]_simVars => LastInv'
  <1> SUFFICES ASSUME BaseInv, LastInv, [LoopNext]_simVars PROVE LastInv'
    OBVIOUS
  <1>0. /\ worker \in Threads
        /\ out \in [Threads -> Seq(seq_t)] /\ emitted \in Seq(seq_t)
        /\ next_expected_ \in seq_t
        /\ pc \in [Threads -> {"idle", "pressure", "gate", "emit"}]
    BY SimAssumption DEF BaseInv, TypeOK
  <1>1. CASE UNCHANGED <<out, emitted, emitted_last, result>> /\ ~Finished
    BY <1>1 DEF LastInv, Finished
  <1>2. CASE Setup \/ NextArrival \/ CallPush \/ CallTryEmit
    BY <1>1, <1>2
    DEF Setup, SetWatchdog, NextArrival, Take, LeaveLoop, CallPush, Push, CallTryEmit,
        TryEmit, AtStep, vars, LastInv
  <1>3. CASE InCall
    <2>1. ~Finished /\ UNCHANGED <<emitted_last, result>>
      BY <1>0, <1>3
      DEF InCall, PromoteUnderPressure, EvictFarthest, OpenGate, StayShut, EmitFrontier,
          PromoteWhileEmitting, loopVars, LastInv
    <2>2. CASE UNCHANGED <<out, emitted>>
      BY <1>1, <2>1, <2>2
    <2>3. CASE EmitFrontier(worker)
      <3>1. /\ out'[worker] = Append(out[worker], next_expected_)
            /\ emitted' = Append(emitted, next_expected_)
        BY <1>0, <2>3 DEF EmitFrontier
      <3>2. /\ out'[worker] # <<>> /\ Last(out'[worker]) = next_expected_
            /\ emitted' # <<>> /\ Last(emitted') = next_expected_
        BY <1>0, <3>1, AppendProperties DEF Last
      <3> QED
        BY <2>1, <3>2 DEF LastInv, Finished
    <2> QED
      BY <1>3, <2>2, <2>3
      DEF InCall, PromoteUnderPressure, EvictFarthest, OpenGate, StayShut,
          PromoteWhileEmitting
  <1>4. CASE TakeBatch
    <2>1. /\ out'[worker] = <<>> /\ pc[worker] = "emit"
          /\ emitted_last' = BackOf(out[worker]) /\ UNCHANGED <<emitted, result>>
      BY <1>0, <1>4 DEF TakeBatch, ReturnBatch
    <2> QED
      BY <2>1 DEF LastInv, BackOf, Finished
  <1>5. CASE Report
    <2>1. /\ step' = "done" /\ pc[worker] = "idle" /\ result'.emitted_last = emitted_last
          /\ UNCHANGED <<pc, out, emitted, emitted_last>>
      BY <1>5 DEF Report, AtStep, vars
    <2> QED
      BY <2>1 DEF LastInv
  <1>6. CASE Lapse \/ UNCHANGED simVars
    BY <1>6 DEF Lapse, simVars, loopVars, vars, LastInv, Finished
  <1> QED
    BY <1>2, <1>3, <1>4, <1>5, <1>6 DEF LoopNext, Work

(* What LastInv and the order of the stream say of the result. *)
LEMMA LastInOrder == BaseInv /\ LastInv /\ EmittedInOrder => LastIsLargest
  <1> SUFFICES ASSUME BaseInv, LastInv, EmittedInOrder, Finished
               PROVE  /\ result.emitted_last \in Emitted \cup {0}
                      /\ \A s \in Emitted : s <= result.emitted_last
    BY DEF LastIsLargest
  <1>1. out[worker] = <<>> /\ result.emitted_last = emitted_last
    BY SimAssumption DEF LastInv, BaseInv, LocalsInv
  <1>2. CASE emitted = <<>>
    BY <1>1, <1>2 DEF LastInv, Emitted
  <1>3. CASE emitted # <<>>
    <2>1. emitted \in Seq(seq_t)
      BY DEF BaseInv, TypeOK
    <2>2. /\ Len(emitted) \in Nat \ {0}
          /\ \A i \in 1 .. Len(emitted) : emitted[i] \in Nat
      <3>1. Len(emitted) \in Nat \ {0}
        BY <1>3, <2>1, EmptySeq
      <3>2. \A i \in 1 .. Len(emitted) : emitted[i] \in seq_t
        BY <2>1, ElementOfSeq
      <3> QED
        BY <3>1, <3>2, BufferAssumption DEF seq_t
    <2>3. result.emitted_last = emitted[Len(emitted)]
      BY <1>1, <1>3 DEF LastInv, Last
    <2>4. ASSUME NEW i \in 1 .. Len(emitted) PROVE emitted[i] <= emitted[Len(emitted)]
      BY <2>2 DEF EmittedInOrder
    <2> QED
      BY <2>2, <2>3, <2>4 DEF Emitted
  <1> QED
    BY <1>2, <1>3

(* emitted_last is overwritten by every batch that is not empty, the final *)
(* drain included (sim.cpp:91-97), and still is the largest number emitted *)
(* when the result is reported.                                            *)
THEOREM LastReported == LoopSpec => []LastIsLargest
  <1>1. SimInit => LastInv
    BY SimAssumption DEF SimInit, Init, LastInv, Finished
  <1> QED
    BY <1>1, NextLast, LastInOrder, SimulationIsBuffer, BaseCorrect, StreamOrdered, PTL
    DEF LoopSpec

-----------------------------------------------------------------------------
(* The books of a simulation. *)

(* Every item taken from the list is pushed before the next is taken, and  *)
(* the result copies what was counted.                                     *)
BooksInv ==
  /\ Drawn
  /\ generated \in Nat /\ generated <= Len(arrivals)
  /\ generated = stats_.received + (IF step = "push" THEN 1 ELSE 0)
  /\ step = "push" => v \in ToSet(arrivals)
  /\ step \in {"tail", "report", "done"} => generated = Len(arrivals)
  /\ arrived \subseteq ToSet(arrivals)
  /\ Finished => /\ step = "done" /\ pc[worker] = "idle"
                 /\ result.stats = stats_ /\ result.generated = generated
                 /\ result.unique_source = UniqueSource(source)

(* No call but push() counts what was received. *)
LEMMA ReceivedByPush ==
  ASSUME BaseInv, NEW t \in Threads
  PROVE  /\ stats_.received \in Nat
         /\ \A s : Push(t, s) => stats_'.received = stats_.received + 1
         /\ Continue(t) => stats_'.received = stats_.received
  <1>0. stats_ \in ReorderStats /\ stats_.received \in Nat
    BY DEF BaseInv, TypeOK, ReorderStats, Counters
  <1>1. ASSUME NEW s, Push(t, s) PROVE stats_'.received = stats_.received + 1
    <2>1. CASE DropBelowFrontier(s)
      BY <1>0, <2>1 DEF DropBelowFrontier, ReorderStats, Counters
    <2>2. CASE DropDuplicate(s) \/ Insert(t, s)
      BY <1>0, <2>2 DEF DropDuplicate, Insert, ReorderStats, Counters
    <2> QED
      BY <1>1, <2>1, <2>2 DEF Push
  <1>2. ASSUME Continue(t) PROVE stats_'.received = stats_.received
    BY <1>0, <1>2
    DEF Continue, PromoteUnderPressure, PromoteWhileEmitting, PromoteFrontier, EvictFarthest,
        CountEviction, OpenGate, StayShut, EmitFrontier, ReturnBatch, ReorderStats, Counters
  <1> QED
    BY <1>0, <1>1, <1>2

(* Every step keeps the books. *)
LEMMA NextBooks == BaseInv /\ BooksInv /\ [LoopNext]_simVars => BooksInv'
  <1> SUFFICES ASSUME BaseInv, BooksInv, [LoopNext]_simVars PROVE BooksInv'
    OBVIOUS
  <1>0. /\ worker \in Threads /\ stats_.received \in Nat /\ Len(arrivals) \in Nat
        /\ pc \in [Threads -> {"idle", "pressure", "gate", "emit"}]
    BY SimAssumption, ReceivedByPush DEF BaseInv, TypeOK, BooksInv, Drawn, Listed
  <1>1. CASE Setup
    BY <1>1 DEF Setup, SetWatchdog, AtStep, BooksInv, Drawn, Listed, Finished
  <1>2. CASE NextArrival
    <2>1. ~Finished /\ step = "next" /\ UNCHANGED vars
      BY <1>2 DEF NextArrival, AtStep, BooksInv, Take, LeaveLoop
    <2>2. CASE generated < Len(arrivals) /\ Take(arrivals[generated + 1])
      <3>1. arrivals[generated + 1] \in ToSet(arrivals)
        BY <2>2 DEF ToSet, BooksInv, Drawn, Listed
      <3> QED
        BY <1>0, <2>1, <2>2, <3>1 DEF Take, vars, BooksInv, Drawn, Listed, Finished
    <2>3. CASE ~(generated < Len(arrivals)) /\ LeaveLoop
      BY <1>0, <2>1, <2>3 DEF LeaveLoop, vars, BooksInv, Drawn, Listed, Finished
    <2> QED
      BY <1>2, <2>2, <2>3 DEF NextArrival
  <1>3. CASE CallPush
    <2>1. /\ step = "push" /\ step' = "emit" /\ arrived' = arrived \cup {v}
          /\ UNCHANGED <<sim, source, arrivals, generated, result>>
      BY <1>3 DEF CallPush, AtStep, Push
    <2>2. stats_'.received = stats_.received + 1
      BY <1>0, <1>3, ReceivedByPush DEF CallPush
    <2> QED
      BY <1>0, <2>1, <2>2 DEF BooksInv, Drawn, Listed, Finished
  <1>4. CASE CallTryEmit
    <2>1. /\ step \in {"emit", "tail"} /\ step' = IF step = "emit" THEN "next" ELSE "report"
          /\ UNCHANGED <<sim, source, arrivals, generated, result, arrived, stats_>>
      BY <1>4 DEF CallTryEmit, AtStep, TryEmit
    <2> QED
      BY <1>0, <2>1 DEF BooksInv, Drawn, Listed, Finished
  <1>5. CASE InCall \/ TakeBatch
    <2>1. Continue(worker) /\ pc[worker] # "idle"
      BY <1>5
      DEF InCall, TakeBatch, Continue, PromoteUnderPressure, EvictFarthest, OpenGate,
          StayShut, EmitFrontier, PromoteWhileEmitting, ReturnBatch
    <2>2. /\ UNCHANGED <<sim, source, arrivals, step, v, generated, result>>
          /\ UNCHANGED arrived
      BY <1>5
      DEF InCall, TakeBatch, loopVars, PromoteUnderPressure, EvictFarthest, OpenGate,
          StayShut, EmitFrontier, PromoteWhileEmitting, ReturnBatch
    <2>3. stats_'.received = stats_.received /\ ~Finished
      BY <1>0, <2>1, ReceivedByPush DEF BooksInv
    <2> QED
      BY <1>0, <2>2, <2>3 DEF BooksInv, Drawn, Listed, Finished
  <1>6. CASE Report
    BY <1>0, <1>6 DEF Report, AtStep, vars, BooksInv, Drawn, Listed, Finished
  <1>7. CASE Lapse \/ UNCHANGED simVars
    BY <1>7 DEF Lapse, simVars, loopVars, vars, BooksInv, Drawn, Listed, Finished
  <1> QED
    BY <1>1, <1>2, <1>3, <1>4, <1>5, <1>6, <1>7 DEF LoopNext, Work

(* As many numbers were emitted as are counted, or in a batch. *)
LEMMA EmittedCounted ==
  ASSUME StreamInv, FrontierAccounted
  PROVE  IsFiniteSet(Emitted) /\ Cardinality(Emitted) = stats_.emitted + InFlight
  <1>1. /\ cfg_.start_seq \in Nat /\ next_expected_ \in Nat /\ InFlight \in Nat
        /\ cfg_.start_seq <= next_expected_
        /\ stats_.emitted \in Nat /\ stats_.missing_k_promotions \in Nat
    BY BufferAssumption
    DEF StreamInv, BaseInv, TypeOK, ReorderConfig, seq_t, ReorderStats, Counters, InFlight
  <1> DEFINE passed == cfg_.start_seq .. (next_expected_ - 1)
  <1>2. IsFiniteSet(passed) /\ Cardinality(passed) = next_expected_ - cfg_.start_seq
    <2>1. /\ cfg_.start_seq \in Int /\ next_expected_ - 1 \in Int
          /\ IF cfg_.start_seq > next_expected_ - 1
             THEN next_expected_ - cfg_.start_seq = 0
             ELSE (next_expected_ - 1) - cfg_.start_seq + 1 = next_expected_ - cfg_.start_seq
      BY <1>1
    <2>2. /\ IsFiniteSet(passed)
          /\ Cardinality(passed) = IF cfg_.start_seq > next_expected_ - 1 THEN 0
                                   ELSE (next_expected_ - 1) - cfg_.start_seq + 1
      BY <2>1, FS_Interval
    <2> QED
      BY <2>1, <2>2
  <1>3. Emitted = passed \ promoted_missing_ /\ passed \cap promoted_missing_ = promoted_missing_
    BY DEF StreamInv, ExactlyOnce
  <1> HIDE DEF passed
  <1>4. /\ IsFiniteSet(Emitted)
        /\ Cardinality(Emitted) = Cardinality(passed) - Cardinality(promoted_missing_)
    BY <1>2, <1>3, FS_Difference
  <1> QED
    BY <1>1, <1>2, <1>4 DEF FrontierAccounted

-----------------------------------------------------------------------------
(* What a simulation emits. *)

(* The items are pushed as they lie in the list. *)
PushedInv ==
  /\ \A n \in 1 .. stats_.received : arrivals[n] \in arrived
  /\ step = "push" => v = arrivals[generated]

(* Every step keeps that. *)
LEMMA NextPushed ==
  BaseInv /\ BooksInv /\ PushedInv /\ [LoopNext]_simVars => PushedInv'
  <1> SUFFICES ASSUME BaseInv, BooksInv, PushedInv, [LoopNext]_simVars PROVE PushedInv'
    OBVIOUS
  <1>0. /\ worker \in Threads /\ stats_.received \in Nat /\ generated \in Nat
        /\ pc \in [Threads -> {"idle", "pressure", "gate", "emit"}]
    BY SimAssumption, ReceivedByPush DEF BaseInv, TypeOK, BooksInv
  <1>1. CASE UNCHANGED <<arrivals, arrived, stats_>> /\ (step' # "push" \/ UNCHANGED <<step, v, generated>>)
    BY <1>1 DEF PushedInv
  <1>2. CASE NextArrival
    BY <1>0, <1>1, <1>2 DEF NextArrival, Take, LeaveLoop, vars, PushedInv
  <1>3. CASE CallPush
    <2>1. /\ step = "push" /\ step' = "emit" /\ arrived' = arrived \cup {v}
          /\ UNCHANGED arrivals
      BY <1>3 DEF CallPush, AtStep, Push
    <2>2. stats_'.received = stats_.received + 1 /\ generated = stats_.received + 1
      BY <1>0, <1>3, <2>1, ReceivedByPush DEF CallPush, BooksInv
    <2>3. \A n \in 1 .. stats_'.received : n \in 1 .. stats_.received \/ n = generated
      BY <1>0, <2>2
    <2> QED
      BY <2>1, <2>3 DEF PushedInv
  <1>4. CASE InCall \/ TakeBatch
    <2>1. Continue(worker)
      BY <1>4 DEF InCall, TakeBatch, Continue
    <2>2. UNCHANGED <<arrivals, arrived, step, v, generated>>
      BY <1>4
      DEF InCall, TakeBatch, loopVars, PromoteUnderPressure, EvictFarthest, OpenGate,
          StayShut, EmitFrontier, PromoteWhileEmitting, ReturnBatch
    <2>3. stats_'.received = stats_.received
      BY <1>0, <2>1, ReceivedByPush
    <2> QED
      BY <2>2, <2>3 DEF PushedInv
  <1>5. CASE Setup \/ CallTryEmit \/ Report \/ Lapse \/ UNCHANGED simVars
    BY <1>1, <1>5
    DEF Setup, SetWatchdog, CallTryEmit, AtStep, TryEmit, Report, Lapse, simVars, loopVars, vars
  <1> QED
    BY <1>2, <1>3, <1>4, <1>5 DEF LoopNext, Work

(* The final try_emit() returns with a gap at the frontier, unless the     *)
(* watchdog kept it from emitting.                                         *)
DrainedInv ==
  /\ cfg_.start_seq = 1 /\ cfg_.missing_k = sim.missing_k
  /\ step \in {"report", "done"} => pc[worker] # "pressure"
  /\ step \in {"report", "done"} /\ pc[worker] = "idle"
       => lapsed \/ next_expected_ \notin pending_

(* Every step keeps that. *)
LEMMA NextDrained == BaseInv /\ DrainedInv /\ [LoopNext]_simVars => DrainedInv'
  <1> SUFFICES ASSUME BaseInv, DrainedInv, [LoopNext]_simVars PROVE DrainedInv'
    OBVIOUS
  <1>0. worker \in Threads /\ pc \in [Threads -> {"idle", "pressure", "gate", "emit"}]
    BY SimAssumption DEF BaseInv, TypeOK
  <1>1. CASE UNCHANGED <<cfg_, sim>> /\ step' \notin {"report", "done"}
    BY <1>1 DEF DrainedInv
  <1>2. CASE Setup \/ NextArrival \/ CallPush
    <2>1. CASE Setup \/ CallPush
      BY <1>1, <2>1 DEF Setup, SetWatchdog, CallPush, Push
    <2>2. CASE NextArrival
      BY <1>1, <2>2 DEF NextArrival, Take, LeaveLoop, vars
    <2> QED
      BY <1>2, <2>1, <2>2
  <1>3. CASE CallTryEmit
    <2>1. UNCHANGED <<cfg_, sim>> /\ pc'[worker] \in {"gate", "emit"}
      BY <1>0, <1>3 DEF CallTryEmit, TryEmit, Lock
    <2> QED
      BY <2>1 DEF DrainedInv
  <1>4. CASE InCall
    <2>1. UNCHANGED <<cfg_, sim, step, lapsed>>
      BY <1>4
      DEF InCall, loopVars, PromoteUnderPressure, EvictFarthest, OpenGate, StayShut,
          EmitFrontier, PromoteWhileEmitting
    <2>2. CASE PromoteUnderPressure(worker) \/ EvictFarthest(worker)
      <3>1. step \notin {"report", "done"}
        BY <2>2 DEF PromoteUnderPressure, EvictFarthest, DrainedInv
      <3> QED
        BY <1>1, <2>1, <3>1
    <2>3. CASE \/ lapsed /\ StayShut(worker)
               \/ OpenGate(worker) \/ EmitFrontier(worker) \/ PromoteWhileEmitting(worker)
      <3>1. pc'[worker] = "emit" \/ (lapsed /\ pc'[worker] = "idle")
        BY <1>0, <2>3 DEF StayShut, Unlock, OpenGate, EmitFrontier, PromoteWhileEmitting
      <3> QED
        BY <2>1, <3>1 DEF DrainedInv
    <2> QED
      BY <1>4, <2>2, <2>3 DEF InCall
  <1>5. CASE TakeBatch
    <2>1. /\ UNCHANGED <<cfg_, sim, step, lapsed, next_expected_, pending_>>
          /\ next_expected_ \notin pending_ /\ pc'[worker] = "idle"
      BY <1>0, <1>5 DEF TakeBatch, ReturnBatch, Unlock
    <2> QED
      BY <2>1 DEF DrainedInv
  <1>6. CASE Report
    BY <1>6 DEF Report, AtStep, vars, DrainedInv
  <1>7. CASE Lapse \/ UNCHANGED simVars
    BY <1>7 DEF Lapse, simVars, loopVars, vars, DrainedInv
  <1> QED
    BY <1>2, <1>3, <1>4, <1>5, <1>6, <1>7 DEF LoopNext, Work

(* The books are right before the first call. *)
LEMMA InitWhole == SimInit => BooksInv /\ PushedInv /\ DrainedInv
  <1> SUFFICES ASSUME SimInit PROVE BooksInv /\ PushedInv /\ DrainedInv
    OBVIOUS
  <1>1. BooksInv
    BY InitArrivals DEF SimInit, Init, ZeroStats, BooksInv, Drawn, Listed, Finished
  <1>2. PushedInv
    BY DEF SimInit, Init, ZeroStats, PushedInv
  <1>3. cfg_.start_seq = 1
    BY SimAssumption DEF SimInit, Init
  <1> QED
    BY <1>1, <1>2, <1>3 DEF SimInit, DrainedInv

(* In the end everything the source generated has arrived. *)
LEMMA AllArrived ==
  ASSUME BaseInv, BooksInv, PushedInv, Finished
  PROVE  /\ stats_.received = Len(arrivals)
         /\ arrived = ToSet(source) /\ ToSet(source) \subseteq 1 .. sim.count
  <1>1. stats_.received = Len(arrivals)
    <2>1. stats_.received \in Nat
      BY SimAssumption, ReceivedByPush
    <2> QED
      BY <2>1 DEF BooksInv
  <1>2. DOMAIN arrivals = 1 .. Len(arrivals)
    BY DEF BooksInv, Drawn, Listed
  <1>3. ToSet(arrivals) \subseteq arrived
    BY <1>1, <1>2 DEF PushedInv, ToSet
  <1> QED
    BY <1>1, <1>3 DEF BooksInv, Drawn

(* What the books and the stream say of the result. *)
LEMMA BooksAddUp ==
  /\ StreamInv /\ FrontierAccounted /\ EmittedInOrder /\ LossesCounted
  /\ BooksInv /\ PushedInv /\ DrainedInv
  => ResultAddsUp
  <1> SUFFICES ASSUME StreamInv, FrontierAccounted, EmittedInOrder, LossesCounted,
                      BooksInv, PushedInv, DrainedInv, Finished
               PROVE  /\ result.generated = Len(arrivals)
                      /\ result.stats.received = Len(arrivals)
                      /\ Emitted \subseteq ToSet(source)
                      /\ result.stats.emitted + Cardinality(pending_) <= result.unique_source
                      /\ result.unique_source
                           <= result.stats.emitted + Cardinality(pending_)
                              + result.stats.evicted + result.stats.missing_k_dropped
    BY DEF ResultAddsUp
  <1>0. BaseInv /\ TypeOK
    BY DEF StreamInv, BaseInv
  <1>1. result.generated = Len(arrivals) /\ result.stats = stats_
        /\ stats_.received = Len(arrivals) /\ result.unique_source = Cardinality(ToSet(source))
    BY <1>0, AllArrived DEF BooksInv, UniqueSource
  <1>2. /\ stats_.emitted \in Nat /\ stats_.evicted \in Nat
        /\ stats_.missing_k_dropped \in Nat
    BY <1>0 DEF TypeOK, ReorderStats, Counters
  <1>3. /\ IsFiniteSet(Emitted) /\ Cardinality(Emitted) \in Nat
        /\ IsFiniteSet(pending_) /\ Cardinality(pending_) \in Nat
        /\ IsFiniteSet(Forfeited) /\ Cardinality(Forfeited) \in Nat
    BY <1>0, EmittedCounted, PendingFinite, ForfeitedFinite, FS_CardinalityType
  <1>4. Cardinality(Emitted) = stats_.emitted
    <2>1. InFlight = 0
      BY <1>0, SimAssumption DEF BaseInv, LocalsInv, LockInv, InFlight, BooksInv
    <2> QED
      BY <1>2, <2>1, EmittedCounted
  <1>5. Emitted \cup pending_ \cup Forfeited = ToSet(source)
    <2>1. arrived = ToSet(source) /\ ToSet(source) \subseteq 1 .. sim.count
      BY <1>0, AllArrived
    <2>2. \A s \in arrived : s >= cfg_.start_seq
      BY <2>1 DEF DrainedInv
    <2> QED
      BY <2>1, <2>2 DEF EmittedInOrder, Forfeited
  <1>6. Emitted \cap pending_ = {} /\ (Emitted \cup pending_) \cap Forfeited = {}
    <2>1. next_expected_ \in Nat /\ cfg_.start_seq \in Nat
      BY <1>0, BufferAssumption DEF TypeOK, seq_t, ReorderConfig
    <2>2. \A s \in Emitted : s \in cfg_.start_seq .. (next_expected_ - 1)
      BY DEF StreamInv, ExactlyOnce
    <2>3. \A s \in pending_ : s \in Nat /\ s >= next_expected_
      BY <1>0, BufferAssumption DEF StreamInv, PendingAhead, TypeOK, seq_t
    <2>4. Emitted \cap pending_ = {}
      BY <2>1, <2>2, <2>3
    <2> QED
      BY <2>4 DEF Forfeited
  <1> DEFINE kept == Emitted \cup pending_
  <1>7. IsFiniteSet(kept) /\ Cardinality(kept) = Cardinality(Emitted) + Cardinality(pending_)
    <2>1. /\ IsFiniteSet(kept)
          /\ Cardinality(kept) = Cardinality(Emitted) + Cardinality(pending_)
                                 - Cardinality(Emitted \cap pending_)
      BY <1>3, FS_Union
    <2>2. Cardinality(Emitted \cap pending_) = 0
      BY <1>6, FS_EmptySet
    <2> QED
      BY <1>3, <2>1, <2>2
  <1>8. Cardinality(ToSet(source)) = Cardinality(kept) + Cardinality(Forfeited)
    <2>1. kept \cap Forfeited = {} /\ kept \cup Forfeited = ToSet(source)
      BY <1>5, <1>6
    <2> HIDE DEF kept
    <2>2. Cardinality(kept \cup Forfeited)
            = Cardinality(kept) + Cardinality(Forfeited) - Cardinality(kept \cap Forfeited)
      BY <1>3, <1>7, FS_Union
    <2>3. Cardinality(kept \cap Forfeited) = 0 /\ Cardinality(kept) \in Nat
      BY <1>7, <2>1, FS_EmptySet, FS_CardinalityType
    <2>4. Cardinality(ToSet(source)) = Cardinality(kept \cup Forfeited)
      BY <2>1, Zenon
    <2> QED
      BY <1>3, <2>2, <2>3, <2>4
  <1>9. Cardinality(Forfeited) <= stats_.evicted + stats_.missing_k_dropped
    BY DEF LossesCounted
  <1> QED
    BY <1>1, <1>2, <1>3, <1>4, <1>5, <1>7, <1>8, <1>9

(* The books of a simulation add up, whatever its rates, capacity and      *)
(* timeout: every arrival was pushed and counted, nothing is emitted that  *)
(* was not generated, and what was generated and neither emitted nor kept  *)
(* is covered by evictions and late drops.                                 *)
THEOREM BooksBalance == LoopSpec => []ResultAddsUp
  BY InitWhole, NextBooks, NextPushed, NextDrained, BooksAddUp, SimulationIsBuffer,
     BaseCorrect, StreamCorrect, CountersLocateFrontier, StreamOrdered, LossesAreCounted, PTL
  DEF LoopSpec

(* What the invariants say of a result. *)
LEMMA CompleteAtEnd ==
  /\ StreamInv /\ NothingVanishes /\ GapsJustified /\ EmittedInOrder
  /\ BooksInv /\ PushedInv /\ DrainedInv
  => CompleteUpToFirstLoss
  <1> SUFFICES ASSUME StreamInv, NothingVanishes, GapsJustified, EmittedInOrder,
                      BooksInv, PushedInv, DrainedInv,
                      Finished, ~lapsed, sim.missing_k = 0, result.stats.evicted = 0
               PROVE  Emitted = {s \in 1 .. sim.count : \A m \in Lost : s < m}
    BY DEF CompleteUpToFirstLoss
  <1>0. /\ BaseInv /\ next_expected_ \in Nat /\ sim.count \in Nat /\ 1 <= next_expected_
    BY BufferAssumption DEF StreamInv, BaseInv, TypeOK, seq_t, DrainedInv, BooksInv, Drawn
  <1>1. stats_.evicted = 0 /\ next_expected_ \notin pending_
    BY DEF BooksInv, DrainedInv
  <1>2. promoted_missing_ = {}
    BY DEF GapsJustified, DrainedInv
  <1>3. Emitted = 1 .. (next_expected_ - 1)
    BY <1>2 DEF StreamInv, ExactlyOnce, DrainedInv
  <1>4. arrived = ToSet(source) /\ ToSet(source) \subseteq 1 .. sim.count
    BY <1>0, AllArrived
  <1>5. arrived = Emitted \cup pending_
    <2>1. \A s \in arrived : s >= cfg_.start_seq
      BY <1>4 DEF DrainedInv
    <2> QED
      BY <1>1, <1>2, <2>1 DEF NothingVanishes, EmittedInOrder
  <1>6. next_expected_ \notin ToSet(source)
    BY <1>0, <1>1, <1>3, <1>4, <1>5
  <1>7. 1 .. (next_expected_ - 1) \subseteq ToSet(source)
    BY <1>3, <1>4, <1>5
  <1>8. next_expected_ - 1 <= sim.count
    BY <1>0, <1>4, <1>7
  <1>9. ASSUME NEW s \in 1 .. (next_expected_ - 1), NEW m \in Lost
        PROVE  s \in 1 .. sim.count /\ s < m
    BY <1>0, <1>7, <1>8 DEF Lost
  <1>10. ASSUME NEW s \in 1 .. sim.count, \A m \in Lost : s < m
         PROVE  s \in 1 .. (next_expected_ - 1)
    BY <1>0, <1>6, <1>10 DEF Lost
  <1>11. \A s \in 1 .. (next_expected_ - 1) : s \in 1 .. sim.count
    BY <1>0, <1>8
  <1> QED
    BY <1>3, <1>9, <1>10, <1>11

(* With neither promotions, evictions nor a shut gate, a simulation emits  *)
(* exactly the numbers before the first one build_arrivals() lost, however *)
(* the rest was duplicated and shuffled: the loop, its final drain         *)
(* (sim.cpp:95) and the buffer lose nothing of their own.                  *)
THEOREM SimulationComplete == LoopSpec => []CompleteUpToFirstLoss
  BY InitWhole, NextBooks, NextPushed, NextDrained, CompleteAtEnd, SimulationIsBuffer,
     BaseCorrect, StreamCorrect, StreamOrdered, GapsAreOvertaken,
     NothingVanishesUnevicted, PTL
  DEF LoopSpec

-----------------------------------------------------------------------------
(* The queue as a window of the arrivals. *)

(* Putting the next arrival at its end widens it. *)
LEMMA WindowGrows ==
  ASSUME NEW S, NEW a \in Seq(S), NEW g \in Nat, NEW n \in Nat, g <= n, n < Len(a)
  PROVE  Append(SubSeq(a, g + 1, n), a[n + 1]) = SubSeq(a, g + 1, n + 1)
  BY SubSeqRecursiveSecond

(* If it is not empty it begins with the arrival after the last one taken. *)
LEMMA WindowShrinks ==
  ASSUME NEW S, NEW a \in Seq(S), NEW g \in Nat, NEW n \in Nat, g <= n, n <= Len(a),
         SubSeq(a, g + 1, n) # <<>>
  PROVE  /\ g < n
         /\ Head(SubSeq(a, g + 1, n)) = a[g + 1]
         /\ Tail(SubSeq(a, g + 1, n)) = SubSeq(a, g + 2, n)
  <1>1. g < n
    BY SubSeqEmpty
  <1> QED
    BY <1>1, HeadTailOfSubSeq

(* It is empty when everything sent was taken. *)
LEMMA WindowEmpty ==
  ASSUME NEW S, NEW a \in Seq(S), NEW g \in Nat, NEW n \in Nat, g <= n, n <= Len(a),
         SubSeq(a, g + 1, n) = <<>>
  PROVE  g = n
  <1>1. CASE g < n
    <2>1. Len(SubSeq(a, g + 1, n)) = n - (g + 1) + 1
      BY <1>1, SubSeqProperties
    <2> QED
      BY <1>1, <2>1
  <1> QED
    BY <1>1

-----------------------------------------------------------------------------
(* The queue between the threads. *)

(* What was sent is a prefix of the arrivals, what was taken out of the    *)
(* queue a prefix of that, and done is set behind the last arrival.        *)
QueueInv ==
  /\ Listed
  /\ generated \in Nat /\ sent \in Nat
  /\ generated <= sent /\ sent <= Len(arrivals)
  /\ QueueIsTheRest
  /\ done => sent = Len(arrivals) /\ prod \in {"last_notify", "joined"}

(* Nothing was sent at the start. *)
LEMMA InitQueue == ThreadsInit => QueueInv
  <1> SUFFICES ASSUME ThreadsInit PROVE QueueInv
    OBVIOUS
  <1>0. Listed
    BY InitArrivals DEF ThreadsInit, Drawn
  <1>1. Len(arrivals) \in Nat
    BY <1>0 DEF Listed
  <1>2. SubSeq(arrivals, 1, 0) = <<>>
    BY <1>0, SubSeqEmpty DEF Listed
  <1> QED
    BY <1>0, <1>1, <1>2 DEF ThreadsInit, SimInit, QueueInv, QueueIsTheRest

(* Outside of the head of its loop the worker touches neither the queue    *)
(* nor the count of what it took.                                          *)
LEMMA WorkLeavesQueue ==
  ASSUME (Setup \/ Work \/ Join \/ Lapse) /\ UNCHANGED queueVars
  PROVE  UNCHANGED <<arrivals, generated, queueVars>>
  BY DEF Setup, Work, Join, Report, Lapse, CallPush, CallTryEmit, InCall, TakeBatch, loopVars

(* Every step keeps the invariant. *)
LEMMA NextQueue == QueueInv /\ [ThreadsNext]_threadVars => QueueInv'
  <1> SUFFICES ASSUME QueueInv, [ThreadsNext]_threadVars PROVE QueueInv'
    OBVIOUS
  <1>0. Len(arrivals) \in Nat
    BY DEF QueueInv, Listed
  <1>1. CASE UNCHANGED <<arrivals, generated, q, done, prod, sent>>
    BY <1>1 DEF QueueInv, Listed, QueueIsTheRest
  <1>2. CASE Put
    <2>1. /\ sent < Len(arrivals) /\ sent' = sent + 1
          /\ q' = Append(q, arrivals[sent + 1])
          /\ ~done /\ ~done' /\ UNCHANGED <<arrivals, generated>>
      BY <1>2 DEF Put, ProducerMay, simVars, loopVars, QueueInv
    <2>2. q' = SubSeq(arrivals, generated + 1, sent + 1)
      BY <2>1, WindowGrows DEF QueueInv, Listed, QueueIsTheRest
    <2> QED
      BY <1>0, <2>1, <2>2 DEF QueueInv, Listed, QueueIsTheRest
  <1>3. CASE Close
    BY <1>0, <1>3 DEF Close, ProducerMay, simVars, loopVars, QueueInv, Listed, QueueIsTheRest
  <1>4. CASE Notify
    BY <1>0, <1>4 DEF Notify, simVars, loopVars, QueueInv, Listed, QueueIsTheRest
  <1>5. CASE Pop
    <2>1. /\ q # <<>> /\ q' = Tail(q) /\ generated' = generated + 1
          /\ UNCHANGED <<arrivals, done, prod, sent>>
      BY <1>5 DEF Pop, Take
    <2>2. /\ generated < sent
          /\ q' = SubSeq(arrivals, generated + 2, sent)
      BY <2>1, WindowShrinks DEF QueueInv, Listed, QueueIsTheRest
    <2>3. generated + 2 = (generated + 1) + 1
      BY DEF QueueInv
    <2> QED
      BY <1>0, <2>1, <2>2, <2>3 DEF QueueInv, Listed, QueueIsTheRest
  <1>6. CASE Leave \/ Doze \/ WakeUp
    BY <1>1, <1>6 DEF Leave, LeaveLoop, Doze, WakeUp, simVars, loopVars, queueVars
  <1>7. CASE (Setup \/ Work \/ Join \/ Lapse) /\ UNCHANGED queueVars
    BY <1>1, <1>7, WorkLeavesQueue DEF queueVars
  <1>8. CASE UNCHANGED threadVars
    BY <1>1, <1>8 DEF threadVars, simVars, loopVars, queueVars
  <1> QED
    BY <1>2, <1>3, <1>4, <1>5, <1>6, <1>7, <1>8 DEF ThreadsNext, Produce, Consume

(* The queue always holds the arrivals sent and not yet taken, in order    *)
(* (sim.cpp:105-135), also while the consumer sleeps or wakes for no       *)
(* reason.                                                                 *)
THEOREM QueueKept == ThreadsSpec => []QueueIsTheRest
  <1>1. QueueInv => QueueIsTheRest
    BY DEF QueueInv
  <1> QED
    BY <1>1, InitQueue, NextQueue, PTL DEF ThreadsSpec

-----------------------------------------------------------------------------
(* Wakeups. *)

(* While the consumer is about to sleep it holds qmu, so what it saw       *)
(* still is so.                                                            *)
WakeupInv ==
  /\ WakeupOwed
  /\ fetch = "block" => q = <<>> /\ ~done

(* Every step of the producer that gives the consumer something to do is   *)
(* outside of that, and leads to a notification.                           *)
LEMMA NextWakeup == WakeupInv /\ [ThreadsNext]_threadVars => WakeupInv'
  <1> SUFFICES ASSUME WakeupInv, [ThreadsNext]_threadVars PROVE WakeupInv'
    OBVIOUS
  <1> USE DEF WakeupInv, WakeupOwed
  <1>1. CASE Put \/ Close
    BY <1>1 DEF Put, Close, ProducerMay, QmuFree
  <1>2. CASE Notify
    BY <1>2 DEF Notify
  <1>3. CASE Pop \/ Leave
    BY <1>3 DEF Pop, Leave, Looking, queueVars
  <1>4. CASE Doze
    BY <1>4 DEF Doze
  <1>5. CASE WakeUp
    BY <1>5 DEF WakeUp
  <1>6. CASE UNCHANGED queueVars
    BY <1>6 DEF queueVars
  <1> QED
    BY <1>1, <1>2, <1>3, <1>4, <1>5, <1>6 DEF ThreadsNext, Produce, Consume, threadVars

(* For every list of arrivals and every schedule, a consumer asleep with   *)
(* something to do is owed a notification that is still to come: the       *)
(* notify_one() of sim.cpp:112 and 118, outside of qmu, loses none.        *)
THEOREM NoWakeupLost == ThreadsSpec => []WakeupOwed
  <1>1. ThreadsInit => WakeupInv
    BY DEF ThreadsInit, WakeupInv, WakeupOwed
  <1>2. WakeupInv => WakeupOwed
    BY DEF WakeupInv
  <1> QED
    BY <1>1, <1>2, NextWakeup, PTL DEF ThreadsSpec

-----------------------------------------------------------------------------
(* The modes. *)

(* What the consumer takes is the next arrival of the list. *)
LEMMA PopIsNext == ASSUME QueueInv, Pop PROVE NextArrival
  <1>1. /\ AtStep("next") /\ q # <<>> /\ Take(Head(q))
    BY DEF Pop, Looking
  <1>2. generated < sent /\ Head(q) = arrivals[generated + 1]
    BY <1>1, WindowShrinks DEF QueueInv, Listed, QueueIsTheRest
  <1>3. Len(arrivals) \in Nat
    BY DEF QueueInv, Listed
  <1>4. generated < Len(arrivals)
    BY <1>2, <1>3 DEF QueueInv
  <1> QED
    BY <1>1, <1>2, <1>4 DEF NextArrival

(* It leaves its loop where a walk over the list would end.                *)
LEMMA LeaveIsEnd == ASSUME QueueInv, Leave PROVE NextArrival
  <1>1. /\ AtStep("next") /\ done /\ q = <<>> /\ LeaveLoop
    BY DEF Leave, Looking, DoneAndEmpty
  <1>2. generated = sent /\ sent = Len(arrivals)
    BY <1>1, WindowEmpty DEF QueueInv, Listed, QueueIsTheRest
  <1>3. ~(generated < Len(arrivals))
    BY <1>2 DEF QueueInv
  <1> QED
    BY <1>1, <1>3 DEF NextArrival

(* A step of the threads is a step of the single-thread run or none.       *)
LEMMA ThreadsStep == QueueInv /\ [ThreadsNext]_threadVars => [LoopNext]_simVars
  <1> SUFFICES ASSUME QueueInv, [ThreadsNext]_threadVars PROVE [LoopNext]_simVars
    OBVIOUS
  <1>1. CASE Produce \/ Doze \/ WakeUp \/ UNCHANGED threadVars
    BY <1>1 DEF Produce, Put, Close, Notify, Doze, WakeUp, threadVars
  <1>2. CASE Pop \/ Leave
    BY <1>2, PopIsNext, LeaveIsEnd DEF LoopNext
  <1>3. CASE Setup \/ Work \/ Join \/ Lapse
    BY <1>3 DEF LoopNext, Join
  <1> QED
    BY <1>1, <1>2, <1>3 DEF ThreadsNext, Consume

(* tests/test_threads.cpp for every list of arrivals and every schedule:   *)
(* a multi-thread run is a single-thread run as far as the buffer and the  *)
(* result can tell.                                                        *)
THEOREM ModesAlike == ThreadsSpec => ModesAgree
  BY InitQueue, NextQueue, ThreadsStep, PTL
  DEF ThreadsSpec, ThreadsInit, ModesAgree, LoopSpec

(* So what is proved of a single-thread run holds with the producer and    *)
(* the consumer, whatever their schedule.                                  *)
THEOREM ThreadsReportAlike ==
  ThreadsSpec => []( /\ ArrivalsShuffled /\ ResultAddsUp
                     /\ LastIsLargest /\ CompleteUpToFirstLoss )
  BY ModesAlike, ShuffleKeepsItems, BooksBalance, LastReported, SimulationComplete, PTL
  DEF ModesAgree

=============================================================================
