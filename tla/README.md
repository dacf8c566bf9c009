# StreamGuard in TLA+

StreamGuard is a small C++20 library: a `ReorderBuffer` that turns sequence numbers
arriving out of order, late, twice or never into one in-order stream, a heartbeat
`Watchdog` that gates the stream, and a simulator that drives both. This directory
specifies the library, the simulator and the program around it, checks the specifications
with TLC on small instances and proves the safety properties of buffer, watchdog, their
composition, the simulator's threads and the command line with TLAPS for all values of the
constants. Paths below are relative to the repository root unless they name a module.

## 1. Inventory

| Component | State | Operations | Calls / is called by |
|---|---|---|---|
| `ReorderBuffer` (`include/streamguard/reorder_buffer.hpp`, `src/reorder_buffer.cpp`) | `cfg_`, `mu_`, `next_expected_` (the *frontier*), `stats_` (seven counters), `watchdog_`, sticky `watchdog_gate_open_`, `pending_`, `promoted_missing_` | `push`, `try_emit`, `set_watchdog`; getters | called by any number of threads, each call under `mu_`; calls `Watchdog::alive()` with `mu_` held |
| `Watchdog` (`include/streamguard/watchdog.hpp`) | `timeout_`, `clock_`, `mu_`, `last_beat_`, `seen_first_beat_`, sticky `ever_triggered_` | `beat`/`pet`, `alive`, `was_ever_triggered` | shared by `shared_ptr`; beaten by heartbeat threads, asked by the buffer |
| Simulator, arrivals (`src/sim.cpp:36-62`) | the generator's state | `build_arrivals`: loss, duplication, pairwise swaps | feeds both modes |
| Simulator, single (`src/sim.cpp:85-97`) | `generated`, `emitted_last` | push and drain per arrival, final drain, `SimResult` | one thread on one buffer |
| Simulator, multi (`src/sim.cpp:98-150`) | `q`, `done`, `qmu`, `qcv` | producer, consumer, join | SPSC queue in front of the same loop |
| Command line (`src/sim_cli.cpp`) | the caller's `SimConfig`, `want_json`, `error` | `parse_sim_args` | fills the `SimConfig` of `run_sim` |
| Program entry (`apps/streamguard_sim.cpp`) | the exit code | `main` | parses, simulates, prints |
| Formatting (`to_json`, `summarize_human`), version, build, tests | none | | |

What is hard here, and what makes each part correct:

* **Buffer.** Two loops move the frontier, one of them also emits; they must end, must not
  step over a buffered item, and must agree with seven counters that are updated in
  different places. A push over capacity may promote, which moves the frontier, and then
  evicts, which must not hit what has just become ready. A frontier item is let in *over*
  capacity and somebody else's `try_emit()` has to take it out, past a gate that may be
  shut. All this from any number of threads. Correct means: every number below the
  frontier was emitted or given up exactly once, the stream is strictly increasing, every
  push is accounted for, the size is bounded, and every call looks indivisible.
* **Watchdog.** Time goes on between taking the lock, reading the clock and using the
  reading. Correct means what `watchdog.hpp:32-37` says, as if calls took no time.
* **Gate.** The watchdog can be exchanged while another one is asked, and two mutexes nest.
* **Simulator.** Condition variable, spurious wakeups, the end of the queue, and a
  heartbeat that is given once and can lapse at any point of the run. Correct means: both
  modes make the same calls on the buffer, every run ends, and the reported numbers add up.

* **Program.** Options change the configuration one by one, before a later one turns out to
  be bad; a value may look like an option; numbers wrap, are cut to fewer bits or run past
  what the simulator can take. Correct means: the last option given decides, the first
  fault is the one reported, and the exit code tells a script what happened.

`PROJECT.json` lists the hazards one by one with the lines where they bite and the
properties that would notice.

## 2. Modules

| Module | What it is |
|---|---|
| `ReorderBuffer` | the class, at the granularity of `mu_` and of loop iterations |
| `StreamContract` | what the reader of the stream is promised: a frontier that decides each number once |
| `AtomicBuffer` | the class with indivisible calls, loops replaced by where they end |
| `ReorderBufferRefinement` | the mappings from `ReorderBuffer` to these two |
| `Watchdog`, `WatchdogSemantics` | the class in three steps per call, and its documented semantics with instantaneous calls |
| `GuardedBuffer` | `ReorderBuffer` composed with `Watchdog`: `alive()` runs inside `try_emit()` |
| `SimArrivals` | `build_arrivals()` as pure operators over the outcomes of its three coins; its two loops are recursive functions of the round |
| `SimLoop` | `run_sim()` in single-thread mode, on `ReorderBuffer` and `SimArrivals` |
| `SimThreads` | multi-thread mode: queue, mutex and condition variable around `SimLoop` |
| `SimCli` | `parse_sim_args()` and `main()`, one action per argument |
| `Induction` | induction over the natural numbers, and that recursive functions exist, stated with sets and functions |
| `ReorderBufferProofs`, `StreamProofs`, `AtomicProofs`, `WatchdogProofs`, `GuardedProofs`, `SimProofs`, `CliProofs` | theorems and proofs |
| `MC*` | constant values for TLC |

### ReorderBuffer

The variables carry the members' names. `pc`, `seq` and `out` are a thread's place in a
call and its locals. `emitted` and `arrived` are history variables: what left the buffer,
in the order of `mu_`, and what was ever pushed.

| Action | Code |
|---|---|
| `SetWatchdog` | all of `set_watchdog` |
| `Push` | `push` up to its return or to the capacity maintenance: `DropBelowFrontier`, `DropDuplicate`, `Insert` |
| `PromoteUnderPressure` | one round of `maintenance_promote_under_pressure_unsafe` |
| `EvictFarthest` | its end, `evict_farthest_future_unsafe`, the `erase` of a rejected candidate, and the return |
| `TryEmit` | lock and gate test |
| `OpenGate`, `StayShut` | the two answers of `alive()` |
| `EmitFrontier`, `PromoteWhileEmitting` | one round of the loop of `try_emit` |
| `ReturnBatch` | its end: counter, unlock, return |

While a call is between two of these actions it holds `mu_`, so no call of another thread
gets in between; the steps exist because an invariant is then also a loop invariant, and
because the composition lets watchdog calls and time interleave with them. `++next_expected_`
wraps at `MaxSeq`, which stands for 2^64 - 1. In this module alone the answer of `alive()`
is arbitrary. `pending_.size()` is read twice in `push()`; the second test (`cpp:60`) is
part of `EvictFarthest`, which drops it because `CapacityBound` shows that it cannot fail.
`EvictFarthest` keeps the two branches of `cpp:115-122`: the candidate is dropped if nothing
farther is buffered, else the farthest item makes room for it. The defensive branch for an
empty `pending_` (`cpp:106`) cannot be reached: the candidate is in it.

Not in the model: the Boolean `push()` returns (its only caller in `src/` ignores it) and
the getters, which change nothing.

### Watchdog, GuardedBuffer

`Beat`, `Alive` take the watchdog's mutex, `ReadClock` samples the clock, `RecordBeat` and
`Judge` use the sample and unlock; `AliveUnseen` is the early return. `Tick` may happen in
between. The clock is steady (`SteadyClock`), so it never goes back; several ticks pass in
several steps. The mutex of a watchdog is held by whoever is `on` it. Each `Watchdog` has its own clock pointer, all of them the same steady
clock.

`GuardedBuffer` replaces the arbitrary answer at the gate by the steps of `alive()` on the
watchdog that is installed (`AskAtGate`), while `CallWatchdog` and `ContinueWatchdog` are
the clients' own calls.

### Simulator

A seeded Mersenne twister decides each coin. The model enumerates every outcome of the
coins, i.e. every seed and some no seed produces; a rate of 0 or 1 leaves one outcome.
`source` is the list after loss and duplication, `arrivals` the list after the swaps.
`SimLoop` takes the actions of `ReorderBuffer` for its one thread. The watchdog of a run
is beaten once, before the loop, so its behaviour is one bit: `lapsed`, which may become
true at any step after that beat (`Setup`), while the arrivals are built included.

`SimThreads` keeps all of it and only replaces the head of the loop: `Put`, `Close`,
`Notify` are the producer's steps, `Pop`, `Leave` and `Doze` what the consumer does in one
critical section when it finds an item, the end, or neither, `WakeUp` a spurious wakeup.
Each critical section on `qmu` is one step, except that the consumer which finds nothing
keeps the mutex (`fetch = "block"`) until `wait()` gives it up; that is where a wakeup
could be lost. `notify_one()` comes after the unlock and is lost when nobody waits. `Join`
is the main thread's report after both joins.

### SimCli

One action per round of the loop in `parse_sim_args()`: `AssignValue` for the options
served by `assign_value()`, `AssignMode` for `--threads`, `TakeSwitch`, the ways it stops
(`MissingValue` and `InvalidValue`, for `--threads` `MissingMode` and `UnknownMode`,
`UnknownArg`, `AskHelp`) and `ParsedAll`. A complaint is recorded with the argument it
names: the option, except that an unknown mode is named itself. Then what `main()` does with the outcome: `ReportError`, `ReportHelp`,
`Simulate`. Texts are members of a small set; what `std::stoull` and `std::stod` make of
them is a table (`Whole`, `Rate`), and what the code does next is not: a negative number
wraps (`Unsigned`), milliseconds are cut to 32 bits (`Narrow`), a text without a number and
one too large throw. `Abort` is the program that is lost in `run_sim()`: to a `reserve()`
that throws through `main()`, or to a distribution whose rate is no probability. The
latter is undefined behaviour, so `Simulate` is possible as well. An accepted
configuration is where `SimLoop` and `SimThreads` begin.

### "Mistake:" operators

A definition under a comment that begins with "Mistake:" is the definition after it with
one plausible slip. No behaviour uses it. `PROJECT.json` ("mutants") says which of them
makes which property fail when it takes the place of the right definition; that is how we
know that each property can fail at all.

## 3. Runs

| Run | Question | Size |
|---|---|---|
| `buffer_safety` | Are items accounted for, decided once, given up only when overtaken, emitted in order through an open gate, never evicted when ready, do the counters own up to every loss, under any interleaving, and has every loop a last iteration? | 148 thousand states |
| `buffer_edges` | Does anything break where the frontier wraps, or with capacity 0; do all calls return there, and does the frontier move when it can? | 91 thousand |
| `buffer_refines` | Is the stream one the contract allows, and does every call look indivisible? | 203 thousand |
| `watchdog_calls` | Do overlapping calls answer what instantaneous ones would? | 44 thousand |
| `gate` | Is the gate opened by the installed watchdog only, and do the nested locks always come apart? | 519 thousand |
| `sim_loop` | Do the numbers of a finished single-thread run add up, whatever the coins and the heartbeat do? | 200 thousand |
| `sim_threads` | Does every schedule of producer and consumer make the calls of a single-thread run, owe every sleeper its wakeup, and end? | 257 thousand |
| `cli` | Which options take effect, what becomes of their numbers, which fault is reported, what does the exit code tell and what can lose the program, for every argument list of up to four words? | 178 thousand |
| `capacity_restored`, `zero_capacity`, `gate_at_start`, `cli_rates` | see Findings: TLC shows the divergence | |

**Bounds.** `MaxPushes` (five pushes of 0..5 from 1 on; of 0..3 from 2 on, with 3 the largest number, in `buffer_edges`) is enough for: a gap, a buffer at
capacity 2, one over capacity by the frontier, relief by promotion then eviction, a late
and a too old arrival, a duplicate, and chained promotions, in two threads. `missing_k`
ranges over 0..3 and `capacity` over 1..2 (0..2 in `buffer_edges` and the refinement), so thresholds lie
below, at and above the capacity. Two threads suffice for the buffer because a third
adds no position inside `mu_`; the watchdog gets three, for two that overtake each other
around an observer. `MaxTime` 3 with timeouts 0 and 1 has a beat in time, just in time and
too late. `gate` has two pushes into a buffer of capacity 0 or 1, so that the relief of
pressure, promotion and emission all happen between the steps of a watchdog; `MaxCalls` bounds the clients' own watchdog calls there. The simulations have
3 or 4 numbers, every coin free, capacity 1 and 3, threshold 0, 1 and 2: lists up to eight
arrivals (three numbers, capacity 1 and threshold 0 and 1 with two threads). `MaxSpurious`
allows two spurious wakeups. `cli` draws from fifteen words: options of each kind, one
unknown, and texts in range, negative, too wide for 32 bits, too long for a list, too wide
for any type, and decimal. Four words are enough for an option given twice, or two options
and a fault behind them. The widths are scaled down (2^16, 2^17 and 2^24 for uint32_t, the
longest list and the 64-bit types); they keep their order and that the narrower divides the
wider. 70000 does not fit the first, and fits the second but not twice.

**Symmetry** over threads is used in runs without liveness only, where threads are interchangeable.

**Deadlock** is checked everywhere except in the simulator and command line runs, whose program ends.

**Fairness.** `buffer_edges`: a thread inside a call keeps running (nothing in a call
blocks once `mu_` is held), and somebody goes on calling `try_emit()`, as both loops of
`run_sim` do; nobody has to push or to open the gate. Weak fairness
of `try_emit()` is enough because `MaxPushes` ends the pushes: a mutex that others took and
released for ever could starve one caller, which is the scheduler's affair and not the
buffer's. `set_watchdog()` is unbounded, and `FrontierMoves` excuses the shut gate it leaves
behind. `gate`: threads inside a call keep running. `sim_*`: each thread of
the run keeps running; time need not pass, and a sleeper need not wake by itself. `ThreadsEnd`
asks for the end of producer, consumer and joins, where each can be kept waiting by another;
the loop of the single thread is the consumer's, and has nobody to wait for.

`cli` assumes none. `FrontierMoves` does not hold with capacity 0, where everything but the
frontier item is evicted and a gap can only be waited for.

**`FrontierMoves`, `CompleteUpToFirstLoss`** name what the code does not promise: with
`missing_k = 0`, or with fewer than `missing_k` newer items at the end of a stream, a gap
holds the rest back for ever. That is by design (`missing_k` disables promotion at 0), so
the properties are conditional on it.

## 4. Proofs

Proved for every set of threads and watchdogs, every timeout, every set of configurations,
every `MaxSeq`, every argument list and any number of calls, ticks and wakeups. Every
invariant and every action property of the runs that pass is a theorem, and so are the
refinements. `ReorderBufferProofs`,
`StreamProofs` and `AtomicProofs`, of the buffer alone:

| Theorem | Property | Extra assumption |
|---|---|---|
| `TypeCorrect` | `TypeOK` | |
| `NothingSkipped` | `PendingAhead` | |
| `BufferBounded` | `CapacityBound` | |
| `NothingUncounted` | `Conservation` | |
| `GateHolds` | `EmitThroughOpenGate` | |
| `ReadyItemKept` | `ReadyNeverEvicted` | every capacity is at least 1 (`zero_capacity` shows it is needed) |
| `FatesDecidedOnce` | `ExactlyOnce` | `NoWrap` |
| `NothingVanishesUnevicted` | `NothingVanishes` | `NoWrap` |
| `LossesAreCounted` | `LossesCounted` | `NoWrap` |
| `StreamOrdered` | `EmittedInOrder` | `NoWrap` |
| `CountersLocateFrontier` | `FrontierAccounted` | `NoWrap` |
| `GapsAreOvertaken` | `GapsJustified` | `NoWrap` |
| `LoopsRunOut` | `IterationsRunOut` | `NoWrap` |
| `StreamImplementsContract` | `ImplementsContract` | `NoWrap` |
| `BufferLooksAtomic` | `ImplementsAtomicBuffer` | `NoWrap` |

`WatchdogProofs`, of any number of watchdogs; `GuardedProofs`, of buffer and watchdogs
together; `SimProofs`, of the simulator; `CliProofs`, of the program around it:

| Theorem | Property | Extra assumption |
|---|---|---|
| `WatchdogTypeCorrect` | `WatchdogTypeOK` | |
| `AgesMeasured` | `AgeNonNegative` | |
| `HeartbeatsAdvance` | `LastBeatMonotone` | |
| `CallsLookInstantaneous` | `ImplementsSemantics` | |
| `GuardedIsBuffer`, `GuardedAreWatchdogs` | `Spec` of either part | |
| `ConsultedIsInstalled` | `ConsultedStays` | |
| `GateOpensOnAnswer` | `OpensOnAnswer` | |
| `GateIsWitnessed` | `GateWitnessed` | |
| `SimulationIsBuffer` | `Spec` of the buffer | |
| `ShuffleKeepsItems` | `ArrivalsShuffled` | |
| `LastReported` | `LastIsLargest` | `NoWrap` |
| `BooksBalance` | `ResultAddsUp` | `NoWrap` |
| `SimulationComplete` | `CompleteUpToFirstLoss` | `NoWrap` |
| `QueueKept` | `QueueIsTheRest` | |
| `NoWakeupLost` | `WakeupOwed` | |
| `ModesAlike` | `ModesAgree` | |
| `ThreadsReportAlike` | the four results above, in multi-thread mode | `NoWrap` |
| `LastWins` | `LastOneWins` | |
| `FirstFault` | `FirstFaultReported` | |
| `ExitCodeTells` | `ExitTells` | |
| `NumbersKept` | `NumbersAsMeant`, a part of `LastOneWins` | |
| `LostOnlyToArguments` | `LostToItsArguments` | |

`BufferAssumption` is what the types say: numbers lie in `seq_t`, capacity and threshold
are natural, the null values are distinct. `NoWrap` says that the largest `seq_t` is never
pushed; after 2^64 - 1 the frontier starts again at 0 and "below the frontier" means
nothing any more. `SimAssumption` adds that the simulator's clients are its one worker and
one watchdog, and that `1 .. count`, the numbers `build_arrivals()` generates, are numbers
that may be pushed; a count the machine has no room for ends in `Abort` of `SimCli` instead.
`CliAssumption` says that an argument list is a finite list of texts, and orders the widths
of the integer types, the narrower dividing the wider (`(MaxUL + 1) % (MaxU32 + 1) = 0`);
`DefaultAssumption` says that there is room for the 100 numbers of `SimConfig`'s default.

The argument for the buffer. `TypeOK` is inductive by itself. `LockInv` (`mu_` is held by exactly the
thread inside a call) is what makes a call's locals its own; with it `LocalsInv` (a batch
is empty outside `try_emit`, and the item a push is making room for is still buffered) is
inductive. These three are `BaseInv`. `CapacityBound` is not inductive alone: that a
promotion keeps it needs `PendingAhead`, because only an item *at* the frontier is excused
and the promotion must not leave it behind; `SizeInv` adds it. Promotion and emission keep
`PendingAhead` even across the wrap, since a frontier at the largest number has nothing
beyond it to justify a promotion. `Conservation` needs `SizeInv` because an eviction counts
one and so must remove exactly one: the farthest of a set that is not empty, in which the
candidate is already.
`ReadyItemKept`: a push relieving pressure holds at least two items when the capacity is
at least one, all at or beyond the frontier, so the farthest is not the frontier itself.
`GateHolds` rests on `GateInv`: a thread that is past the gate holds `mu_`, so no
`set_watchdog()` shuts the gate behind it. For the stream, `StreamInv` joins `BaseInv`,
`PendingAhead`, `ExactlyOnce` and that buffered items have arrived; every step of the
buffer is then classified (`Arriving`, `Leaving`, `Skipping`, `Losing`, or nothing the
stream sees), and order, counters and the contract follow from that classification. A
promotion maps to `GiveUp` because the items waiting beyond the frontier are among the
arrivals beyond it, so at least `missing_k` of those exist; arrivals only grow in number, so
`GapsJustified` stays true of what was given up once. `NothingVanishes` follows the same
classification: only `Losing` takes something away, and only an eviction is one that counts.
`LossesCounted` refines it to a bound: an eviction adds at most one number to those that
arrived and are gone (`Forfeited`) and one to `evicted`, an arrival below the frontier adds
one only if it was given up and then counts as `missing_k_dropped`, because below the
frontier every other number was emitted (`ExactlyOnce`). It is a bound and not an equation
because a number that was evicted may be pushed again, and a late one may come twice.
`LoopsRunOut` is the safety half of "every call returns": the thread in a loop is the only
one that moves (`LockInv`), and the number its iteration passes lies between the frontier
and the largest arrival (`FrontierLeftToPass`, from `PromotionJustified`), so the finite set
of those numbers loses one with every iteration (`IterationShrinks`). That the thread keeps
running is the assumption under which TLC checks `CallsReturn`.

`BufferLooksAtomic` needs where the loops will end, which `AtomicBuffer` picks with a
`CHOOSE`. Such an end exists because the largest number is never buffered and so always a
gap nothing can pass (`LastGap`), and a set of natural numbers has a least element
(`LeastOf`); it is unique, so the end seen from the frontier is the frontier itself where
the loop stops and otherwise the end seen from the next number (`PromotionEnds`,
`EmissionEnds`; `EmittedNotMissed` because an item behind a number does not count as beyond
it). What callers see is then one of three views: `QuietView`, `PressureView`, `EmitView`.
Every iteration leaves its view alone (`Unseen`), because counting an item or a gap now and
counting it as still ahead come to the same (`ItemPassed`, `GapPassed`, `TallyFacts`). The
first step of a relieving push and the step past the gate are where the view changes, once.
`AskInv` (a thread at the gate finds a watchdog installed) makes opening the gate the step
`AtomicBuffer` allows.

For the watchdog, `WatchdogTypeOK` keeps readings and beats from lying in the future, `AloneInv`
says that no two threads are in calls of the same watchdog, and
`FreshInv` that a thread about to use its reading of the clock has one at least as late as
the beat it compares it with, or overwrites. From these
come `AgesMeasured` and `HeartbeatsAdvance`. For the refinement a beat takes effect when the
clock is read: until it is recorded, the mapping takes it from the one thread that
`AloneInv` allows in `beaten` (`MapInv`), and each step is then a step of
`WatchdogSemantics` or none. In the composition, every step is a step of the buffer or
none, and of the watchdogs or none, so whatever is proved of the parts holds of the whole;
`GuardInv` adds that a thread at the gate asks the watchdog that is installed, which holds
because it has `mu_` and exchanging watchdogs takes it. The simulator's buffer is again a
buffer (`SimulationIsBuffer`): what it pushes is on the list of arrivals, and the list
consists of generated numbers. The latter is induction over the rounds of the loops of
`build_arrivals()`. The induction theorems of the library take an operator as a parameter,
which the provers at hand cannot instantiate, so `Induction` states the principle with sets:
one that contains 0, and every number after one it contains, contains all (`UpTo`, from the
least number outside, `LeastOf`); it gives the existence of the functions that the two loops
define (`StepwiseFunction`), and properties of their values. After `s` rounds of generation
the list holds the numbers up to `s` that were not dropped (`GeneratedItems`). After `n`
rounds of shuffling the list is the source in an order `p`, a permutation of the places with
`p[i] <= i + 1`, and `p[i] <= i` behind `n` because only the item carried along has moved
there (`IsOrderOf`, `TossKeepsOrder`); a permutation keeps how often each item occurs
(`OrderKeepsItems`). The stream the simulator emits is in order, and `LastInv` (the batch
in progress ends like the stream, and between batches `emitted_last` does) gives
`LastReported`. `BooksInv` keeps what was taken from the list equal to what was received;
`ExactlyOnce` and `FrontierAccounted` make the counter of emissions the number of distinct
items emitted, with the buffered ones they are among those generated, and by `LossesCounted`
they fall short of those by no more than two counters tell (`BooksBalance`).
`SimulationComplete` adds that all arrivals were pushed (`PushedInv`) and that the final
drain leaves no frontier item behind an open gate (`DrainedInv`): by `NothingVanishes` what
was generated is then emitted or buffered, `missing_k = 0` leaves nothing given up, and so
the frontier stands at the first number that never arrived.
`QueueInv` says that the queue is a window of the arrivals, from the last
one taken to the last one sent, and that `done` is set behind the last; so an item taken
from the queue is the next of the list, the consumer leaves where a walk over the list
would end, and the two modes make the same calls. `WakeupInv` adds to `WakeupOwed` that the
consumer between its test and its sleep still finds what it tested, because it holds `qmu`;
without that conjunct `WakeupOwed` is not inductive, and without the mutex it is false.

The command line. `OptionRule` unfolds `IsOption`, a recursive function over the argument
list that exists by `StepwiseFunction`. `Reading` is the loop invariant of
`parse_sim_args()`: the argument at `i` is an option, and every option before it was
accepted; what the parser returned says why `i` was its last. It is inductive because a
flag's value is never an option and what follows the value always is (`PassOption`). `i` is
then the least place where reading has to stop (`StopsAt`), which is `FirstFault`. `Assigned`
is `LastOneWins` with the members' presence; each accepted option becomes the last of its
kind (`GivenMore`), and no two options set one member (`FieldsApart`). `Ended` ties what
`main()` printed and returned to the outcome, and the three together give `ExitCodeTells`.
`LastOneWins` takes the value of a text from `Read`, as the code's actions do; its part
`NumbersAsMeant` compares the member with `Whole`, the number as written. Wrapping moves a number by a multiple of the width (`WrapsByWidth`), and cutting it
to a width that divides the first moves it by a multiple of the second (`CutsByWidth`).
`LostOnlyToArguments` follows: a member nobody set is a default, which there is room for
(`DefaultAssumption`), and a number from `0 .. MaxSize` is not changed on the way.

Only model-checked: liveness (`CallsReturn`, `FrontierMoves`, `GateAnswers`, `ThreadsEnd`,
`ConsumerWakes`), which rests on fairness and `ENABLED` and is out of the prover's reach.
`LoopsRunOut` and `NoWakeupLost` are what can be said of it without them. The absence of
deadlock is TLC's as well.

## 5. Findings

1. **`CapacityRestored`** - `src/reorder_buffer.cpp:50` says of the frontier item let into a
   full buffer that `try_emit()` "will immediately consume it and restore capacity". With a
   shut gate `try_emit()` returns first, and the buffer stays one over capacity, which
   `reorder_buffer.hpp:37` calls the maximum. It never becomes two (`CapacityBound`).
2. **`ReadyNeverEvicted` at capacity 0** - push of the number next to the frontier with
   `missing_k = 1`: the promotion makes it the frontier, and it is evicted as the farthest
   item, though the deferral at `cpp:52-53` exists to avoid "an eviction for a
   ready-to-emit item". The test is not repeated after the promotions.
3. **`GateOpenedAtStart`** - `src/sim.cpp:76` beats the watchdog to "open the gate at t=0",
   but the gate opens at the first `try_emit()` that finds it alive. If the timeout has
   passed by then, nothing is emitted in the whole run, whatever arrives, while
   `watchdog_ever_triggered` is reported true (it is the constant of `sim.cpp:77`), and
   two runs with one seed differ although `README.md:103` promises byte-for-byte equality.
4. **`RatesAreProbabilities`** - rates are documented as 0..1 (`sim.hpp:17`, the help at
   `sim_cli.cpp:109-111`) and never checked; `--dup-rate 7` reaches a distribution that is
   undefined for it.

Smaller observations without a run: `missing_k_dropped` counts arrivals, so a promoted
number that arrives twice is counted twice; `--verbose` sets a member nothing reads;
`--hb-timeout-ms` silently drops the bits above 32; `--count -1` is a count of 2^64 - 1, on
which `reserve()` throws past `main()` (`Abort`).

## 6. Not modelled

* `std::mt19937` and the distributions: every outcome is enumerated instead.
* `to_json()`, `summarize_human()`: layout of the fields of `SimResult`.
* The Boolean result of `push()`: it repeats which branch was taken, and nothing in `src/`
  reads it.
* What callers do with a batch after `mu_` is released.
* How a text becomes a number: `std::stoull` and its relatives are tables.
* Version constants, build, packaging, tools.
* `_install/`: an installed copy of the library's headers and of GoogleTest. The latter is
  third-party code, and by far the most lines in the repository; the library, simulator and
  program themselves are about 750 lines, and what has behaviour in them is modelled.

## 7. Plan

Order of work, most important behaviour first; all of it is done.

1. `ReorderBuffer` with safety and edge runs; its invariants proved.
2. `StreamContract`, `AtomicBuffer` and the refinements; the contract proved.
3. `Watchdog` against `WatchdogSemantics`; `GuardedBuffer`; both proved, and the theorems
   of the parts carried over to the composition.
4. `SimArrivals`, `SimLoop`, `SimThreads` against `SimLoop`; the queue, the agreement of the
   modes and the last number reported proved.
5. `SimCli`: command line and exit code.
6. The proof that `ReorderBuffer` implements `AtomicBuffer`.
7. `ResultAddsUp` as a theorem of the simulator, through the books of its buffer.
8. Induction over data: what `build_arrivals()` returns, and with it the simulator's
   theorems without a hypothesis on the arrivals; `CompleteUpToFirstLoss`.
9. The command line for argument lists of every length.
10. The safety cores of two liveness properties, `IterationsRunOut` and `WakeupOwed`.
11. What is lost, told by the counters and by the arguments: `LossesCounted`, `NumbersAsMeant`,
    `LostToItsArguments`.

## 8. Running

    tlc -workers 2 -config buffer_safety.cfg MCReorderBuffer.tla
    tlapm ReorderBufferProofs.tla   # likewise StreamProofs, CliProofs, ...

`PROJECT.json` names the module of every configuration, the source lines of every
definition, the mutants, the findings and the theorems.
