------------------------------- MODULE SimCli -------------------------------
(***************************************************************************)
(* The program streamguard_sim up to its simulation: parse_sim_args() of   *)
(* src/sim_cli.cpp, one action per argument, and main() of                 *)
(* apps/streamguard_sim.cpp.  Converting a text to a number is a table     *)
(* (Whole, Rate); what the code does with the number is not.               *)
(***************************************************************************)
EXTENDS Integers, Sequences, FiniteSetsExt

CONSTANTS
  Argvs,    \* the argument lists the program may be started with, argv[1] on
  Whole,    \* the integer a text begins with, for each text that has one
  Rate,     \* the same for a decimal: "never" (0), "sometimes", "always" (1),
            \* or "outside" of 0 .. 1
  Throws,   \* a conversion that throws
  MaxULL,   \* the largest unsigned long long, also std::size_t and uint64_t
  MaxUL,    \* the largest unsigned long
  MaxU32,   \* the largest uint32_t
  MaxSize   \* the largest list reserve() finds room for

ASSUME CliAssumption ==
  /\ Argvs \subseteq Seq(STRING)
  /\ Throws \notin Int
  /\ MaxU32 \in Nat /\ MaxUL \in Nat /\ MaxULL \in Nat /\ MaxSize \in Nat
  /\ MaxU32 <= MaxUL /\ MaxUL <= MaxULL
  /\ (MaxUL + 1) % (MaxU32 + 1) = 0

VARIABLES
  argv,      \* the arguments
  i,         \* the one parse_sim_args() looks at; dead once it returned
  cfg,       \* the SimConfig of main()
  want_json, \* --json was seen
  outcome,   \* "parsing", then the ParseOutcome
  error,     \* kind of complaint and the argument it names, or "none"
  printed,   \* what main() wrote to the standard output
  status     \* "running", then how the program ended

vars == <<argv, i, cfg, want_json, outcome, error, printed, status>>

(* The initializers of SimConfig. *)
DefaultConfig ==
  [count |-> 100, loss_rate |-> "never", dup_rate |-> "never", ooo_rate |-> "never",
   seed |-> 42, capacity |-> 1024, missing_k |-> 3, hb_timeout_ms |-> 100,
   verbose |-> FALSE, mode |-> "single"]

(* There is room for the simulation nobody asked to be larger. *)
ASSUME DefaultAssumption == DefaultConfig.count <= MaxSize

Init ==
  /\ argv \in Argvs
  /\ i = 1
  /\ cfg = DefaultConfig
  /\ want_json = FALSE
  /\ outcome = "parsing"
  /\ error = "none"
  /\ printed = "nothing"
  /\ status = "running"

-----------------------------------------------------------------------------
(* Options and their values. *)

RateFlags == {"--loss-rate", "--dup-rate", "--ooo-rate"}

(* Mistake: a branch that was copied and not adapted. *)
RateFieldCopied ==
  [flag \in RateFlags |-> IF flag = "--loss-rate" THEN "loss_rate" ELSE "dup_rate"]

RateField ==
  [flag \in RateFlags |->
     CASE flag = "--loss-rate" -> "loss_rate"
       [] flag = "--dup-rate"  -> "dup_rate"
       [] flag = "--ooo-rate"  -> "ooo_rate"]

CountFlags == {"--count", "--seed", "--capacity", "--missing-k", "--hb-timeout-ms"}

(* assign_value() serves these; --threads has code of its own.             *)
NumberFlags == CountFlags \cup RateFlags

(* The options that take a value, and the member each of them sets. *)
Field ==
  [flag \in CountFlags \cup {"--threads"} \cup RateFlags |->
     CASE flag = "--count"         -> "count"
       [] flag = "--seed"          -> "seed"
       [] flag = "--capacity"      -> "capacity"
       [] flag = "--missing-k"     -> "missing_k"
       [] flag = "--hb-timeout-ms" -> "hb_timeout_ms"
       [] flag = "--threads"       -> "mode"
       [] flag \in RateFlags       -> RateField[flag]]

Switches == {"--verbose", "--json"}

HelpFlags == {"--help", "-h"}

(* std::stoull and std::stoul: what follows the number is ignored, a       *)
(* number too large throws, a negative one wraps.                          *)
Unsigned(text, max) ==
  IF text \in DOMAIN Whole /\ Whole[text] \in -max .. max
  THEN Whole[text] % (max + 1) ELSE Throws

(* Mistake: a value too wide becomes the widest there is. *)
Saturate(n) == IF n # Throws /\ n > MaxU32 THEN MaxU32 ELSE n

(* The cast of a milliseconds value. *)
Narrow(n) == IF n = Throws THEN n ELSE n % (MaxU32 + 1)

(* The value a flag gets from a text, or Throws where the code complains.  *)
Read(flag, text) ==
  CASE flag = "--threads"       -> IF text \in {"single", "multi"} THEN text ELSE Throws
    [] flag = "--hb-timeout-ms" -> Narrow(Unsigned(text, MaxUL))
    [] flag \in RateFlags ->
         IF text \in DOMAIN Rate THEN Rate[text] ELSE Throws
    [] OTHER -> Unsigned(text, MaxULL)

-----------------------------------------------------------------------------
(* parse_sim_args(): one round of its loop each. *)

Here(flags) == outcome = "parsing" /\ i <= Len(argv) /\ argv[i] \in flags

Complain(kind, argument) ==
  /\ outcome' = "Error"
  /\ error' = <<kind, argument>>
  /\ UNCHANGED <<argv, i, cfg, want_json, printed, status>>

HasValue == i < Len(argv)

MissingValue == Here(NumberFlags) /\ ~HasValue /\ Complain("missing value", argv[i])

MissingMode == Here({"--threads"}) /\ ~HasValue /\ Complain("missing value", argv[i])

Refused == HasValue /\ Read(argv[i], argv[i + 1]) = Throws

InvalidValue == Here(NumberFlags) /\ Refused /\ Complain("invalid value", argv[i])

(* The one complaint that names the value and not the option.              *)
UnknownMode == Here({"--threads"}) /\ Refused /\ Complain("unknown mode", argv[i + 1])

(* Mistake: the value is looked at again as an option. *)
PastFlag == i + 1

PastValue == i + 2

Assign ==
  /\ HasValue /\ Read(argv[i], argv[i + 1]) # Throws
  /\ cfg' = [cfg EXCEPT ![Field[argv[i]]] = Read(argv[i], argv[i + 1])]
  /\ i' = PastValue
  /\ UNCHANGED <<argv, want_json, outcome, error, printed, status>>

AssignValue == Here(NumberFlags) /\ Assign

AssignMode == Here({"--threads"}) /\ Assign

TakeSwitch ==
  /\ Here(Switches)
  /\ cfg' = [cfg EXCEPT !.verbose = @ \/ argv[i] = "--verbose"]
  /\ want_json' = (want_json \/ argv[i] = "--json")
  /\ i' = i + 1
  /\ UNCHANGED <<argv, outcome, error, printed, status>>

AskHelp ==
  /\ Here(HelpFlags)
  /\ outcome' = "ShowHelp"
  /\ UNCHANGED <<argv, i, cfg, want_json, error, printed, status>>

UnknownArg ==
  /\ outcome = "parsing" /\ i <= Len(argv)
  /\ argv[i] \notin DOMAIN Field \cup Switches \cup HelpFlags
  /\ Complain("unknown arg", argv[i])

ParsedAll ==
  /\ outcome = "parsing" /\ i > Len(argv)
  /\ outcome' = "Ok"
  /\ UNCHANGED <<argv, i, cfg, want_json, error, printed, status>>

-----------------------------------------------------------------------------
(* main() *)

Exit(text, how) ==
  /\ status = "running"
  /\ printed' = text
  /\ status' = how
  /\ UNCHANGED <<argv, i, cfg, want_json, outcome, error>>

(* On an error, complaint and help go to the standard error. *)
ReportError == outcome = "Error" /\ Exit("nothing", "failure")

ReportHelp == outcome = "ShowHelp" /\ Exit("help", "success")

(* Mistake: room is reserved for a duplicate of each number as well. *)
NoRoomForTwice(c) == 2 * c.count > MaxSize

(* reserve() throws on a list it has no room for, and nobody catches it.   *)
OutOfRoom(c) == c.count > MaxSize

(* A std::bernoulli_distribution with such a rate is undefined; built with *)
(* assertions it aborts, else it is a coin like any other.                 *)
ImproperRate(c) == "outside" \in {c.loss_rate, c.dup_rate, c.ooo_rate}

(* Mistake: the switch falls through after the help. *)
ParsedOrHelp == outcome \in {"Ok", "ShowHelp"}

Parsed == outcome = "Ok"

(* run_sim() ends with a result (SimLoop, SimThreads), which is printed.   *)
Simulate ==
  /\ Parsed /\ ~OutOfRoom(cfg)
  /\ Exit(IF want_json THEN "json" ELSE "human", "success")

Abort == Parsed /\ (OutOfRoom(cfg) \/ ImproperRate(cfg)) /\ Exit("nothing", "abort")

Next ==
  \/ MissingValue \/ InvalidValue \/ AssignValue
  \/ MissingMode \/ UnknownMode \/ AssignMode
  \/ TakeSwitch
  \/ AskHelp \/ UnknownArg \/ ParsedAll
  \/ ReportError \/ ReportHelp \/ Simulate \/ Abort

Spec == Init /\ [][Next]_vars

-----------------------------------------------------------------------------
(* What an argument list says, without reading it from left to right.      *)

(* argv[j] is read as an option: it is not the value of the one before it. *)
IsOption[j \in 1 .. Len(argv)] == j = 1 \/ argv[j - 1] \notin DOMAIN Field \/ ~IsOption[j - 1]

Options == {j \in 1 .. Len(argv) : IsOption[j]}

Faulty(j) ==
  IF argv[j] \in DOMAIN Field
  THEN j = Len(argv) \/ Read(argv[j], argv[j + 1]) = Throws
  ELSE argv[j] \notin Switches \cup HelpFlags

(* Where reading has to stop, if anywhere, and what was given before p.    *)
Stop == Min({j \in Options : Faulty(j) \/ argv[j] \in HelpFlags} \cup {Len(argv) + 1})

Given(flag, p) == {j \in Options : j < p /\ argv[j] = flag}

(* The value given with the last of them. *)
ValueOf(flag, p) == argv[Max(Given(flag, p)) + 1]

(* The argument that names what is wrong with option j. *)
Culprit(j) == IF argv[j] = "--threads" /\ j < Len(argv) THEN argv[j + 1] ELSE argv[j]

(* The largest number there is room for in the member. *)
Width(flag) == IF flag = "--hb-timeout-ms" THEN MaxU32 ELSE MaxULL

(* Properties. *)

(* Whatever was cut off or wrapped around on the way, a member that counts *)
(* something holds the number given for it up to multiples of its width:   *)
(* the number itself if that fits, and never a nearby or unrelated one.    *)
NumbersAsMeant ==
  \A flag \in CountFlags :
    Given(flag, i) # {} =>
      /\ cfg[Field[flag]] \in 0 .. Width(flag)
      /\ (cfg[Field[flag]] - Whole[ValueOf(flag, i)]) % (Width(flag) + 1) = 0

(* However the options are ordered and repeated, the last one given for a  *)
(* member decides it, a value that looks like an option is a value, and an *)
(* option that is refused leaves all members as the ones before it did.    *)
(* Read says what a text comes to; NumbersAsMeant holds it to the number   *)
(* that was written.                                                       *)
LastOneWins ==
  /\ \A flag \in DOMAIN Field :
       cfg[Field[flag]] =
         IF Given(flag, i) = {} THEN DefaultConfig[Field[flag]]
         ELSE Read(flag, ValueOf(flag, i))
  /\ NumbersAsMeant
  /\ want_json <=> Given("--json", i) # {}
  /\ cfg.verbose <=> Given("--verbose", i) # {}

(* The first argument that is at fault is the one complained about, and    *)
(* help asked for before it is still given.                                *)
FirstFaultReported ==
  /\ outcome \in {"Error", "ShowHelp"} => i = Stop
  /\ outcome = "Ok" => Stop = Len(argv) + 1
  /\ outcome = "Error" => Faulty(Stop) /\ error[2] = Culprit(Stop)

(* A simulation is lost only to the last --count, negative or too large as *)
(* it was written, or to a rate outside of 0 .. 1: never to the defaults,  *)
(* to an option that a later one replaced, or to a conversion of its own.  *)
LostToItsArguments ==
  status = "abort" =>
    \/ Given("--count", Stop) # {} /\ Whole[ValueOf("--count", Stop)] \notin 0 .. MaxSize
    \/ \E flag \in RateFlags :
         Given(flag, Stop) # {} /\ Rate[ValueOf(flag, Stop)] = "outside"

(* A script can trust the exit code: it is a failure exactly if an         *)
(* argument was refused, a success with the help or one result otherwise,  *)
(* in the format asked for.                                                *)
ExitTells ==
  status # "running" =>
    /\ status = "failure" <=> Stop <= Len(argv) /\ Faulty(Stop)
    /\ printed = "help" <=> Stop <= Len(argv) /\ argv[Stop] \in HelpFlags
    /\ status = "success" /\ printed # "help"
         => printed = IF Given("--json", Stop) = {} THEN "human" ELSE "json"

-----------------------------------------------------------------------------
(* What the repository says and the code does not do: see the README.      *)

(* The help prints --loss-rate <0..1>, and sim.hpp calls the rates         *)
(* probabilities [0..1].                                                   *)
RatesAreProbabilities == Parsed => ~ImproperRate(cfg)

=============================================================================
