------------------------------ MODULE CliProofs ------------------------------
(***************************************************************************)
(* Proofs about the program's command line (SimCli): that reading it from  *)
(* left to right, one argument or two at a time, gives what the list says  *)
(* as a whole, for argument lists of every length.                         *)
(***************************************************************************)
EXTENDS SimCli, Induction

-----------------------------------------------------------------------------
(* The options that take a value. *)

(* Each of the nine sets a member of its own, and none sets verbose; all   *)
(* but --threads take a number.                                            *)
LEMMA Fields ==
  /\ DOMAIN Field =
       {"--count", "--seed", "--capacity", "--missing-k", "--hb-timeout-ms",
        "--threads", "--loss-rate", "--dup-rate", "--ooo-rate"}
  /\ Field["--count"] = "count" /\ Field["--seed"] = "seed"
  /\ Field["--capacity"] = "capacity" /\ Field["--missing-k"] = "missing_k"
  /\ Field["--hb-timeout-ms"] = "hb_timeout_ms" /\ Field["--threads"] = "mode"
  /\ Field["--loss-rate"] = "loss_rate" /\ Field["--dup-rate"] = "dup_rate"
  /\ Field["--ooo-rate"] = "ooo_rate"
  /\ DOMAIN Field = NumberFlags \cup {"--threads"} /\ "--threads" \notin NumberFlags
  <1>1. /\ RateField["--loss-rate"] = "loss_rate"
        /\ RateField["--dup-rate"] = "dup_rate"
        /\ RateField["--ooo-rate"] = "ooo_rate"
    BY DEF RateField, RateFlags
  <1> QED
    BY <1>1 DEF Field, NumberFlags, CountFlags, RateFlags

(* No two of them set the same member. *)
LEMMA FieldsApart ==
  /\ \A flag \in DOMAIN Field :
       /\ Field[flag] \in DOMAIN DefaultConfig \ {"verbose"}
       /\ \A other \in DOMAIN Field : Field[other] = Field[flag] => other = flag
  /\ DOMAIN Field \cap Switches = {} /\ DOMAIN Field \cap HelpFlags = {}
  /\ Switches \cap HelpFlags = {}
  <1> DEFINE fields == DOMAIN Field
  <1>1. DOMAIN DefaultConfig =
          {"count", "loss_rate", "dup_rate", "ooo_rate", "seed", "capacity",
           "missing_k", "hb_timeout_ms", "verbose", "mode"}
    BY DEF DefaultConfig
  <1> QED
    BY <1>1, Fields DEF Switches, HelpFlags

-----------------------------------------------------------------------------
(* The arguments that are read as options. *)

(* The set of options obeys the rule that defines it one by one: the first *)
(* argument is in it, and each other one unless the one before it is an    *)
(* option that takes a value.                                              *)
LEMMA OptionRule ==
  ASSUME argv \in Seq(STRING)
  PROVE  /\ Options \subseteq 1 .. Len(argv)
         /\ Len(argv) # 0 => 1 \in Options
         /\ \A j \in 2 .. Len(argv) :
              j \in Options <=> argv[j - 1] \notin DOMAIN Field \/ j - 1 \notin Options
  <1> DEFINE Rounds(f) ==
        [j \in 1 .. Len(argv) |-> j = 1 \/ argv[j - 1] \notin DOMAIN Field \/ ~f[j - 1]]
      Turn(n) == [b \in BOOLEAN |-> n = 1 \/ argv[n - 1] \notin DOMAIN Field \/ ~b]
      next == [n \in 1 .. Len(argv) |-> Turn(n)]
  <1>1. Len(argv) \in Nat
    OBVIOUS
  <1>2. Steps(next, Len(argv), BOOLEAN)
    BY DEF Steps
  <1>3. PICK f : IsStepwise(f, Len(argv), BOOLEAN, TRUE, next)
    <2> HIDE DEF next
    <2> QED
      BY <1>1, <1>2, StepwiseFunction
  <1>4. \A n \in 1 .. Len(argv) :
          f[n] = (n = 1 \/ argv[n - 1] \notin DOMAIN Field \/ ~f[n - 1])
    <2>1. ASSUME NEW n \in 1 .. Len(argv)
          PROVE  f[n] = (n = 1 \/ argv[n - 1] \notin DOMAIN Field \/ ~f[n - 1])
      <3>1. f[n - 1] \in BOOLEAN
        <4>1. n - 1 \in 0 .. Len(argv) /\ f \in [0 .. Len(argv) -> BOOLEAN]
          BY <1>1, <1>3 DEF IsStepwise
        <4> QED
          BY <4>1
      <3>2. f[n] = Turn(n)[f[n - 1]]
        <4>1. f[n] = next[n][f[n - 1]]
          BY <1>3 DEF IsStepwise
        <4> QED
          BY <4>1
      <3> QED
        BY <3>1, <3>2, Zenon
    <2> QED
      BY <2>1
  <1> DEFINE g == [n \in 1 .. Len(argv) |-> f[n]]
  <1>5. \A j \in 1 .. Len(argv) : g[j] = Rounds(g)[j]
    <2>1. ASSUME NEW j \in 1 .. Len(argv) PROVE g[j] = Rounds(g)[j]
      <3>1. CASE j = 1
        BY <1>4, <3>1
      <3>2. CASE j # 1
        <4>1. j - 1 \in 1 .. Len(argv)
          BY <1>1, <3>2
        <4>2. g[j - 1] = f[j - 1]
          BY <4>1
        <4> QED
          BY <1>4, <3>2, <4>2
      <3> QED
        BY <3>1, <3>2
    <2> QED
      BY <2>1
  <1>6. g = Rounds(g)
    BY <1>5
  <1>7. IsOption = Rounds(IsOption)
    <2>1. \E h : h = Rounds(h)
      <3> HIDE DEF g, Rounds
      <3> QED
        BY <1>6
    <2> QED
      BY <2>1, Zenon DEF IsOption
  <1>8. \A j \in 1 .. Len(argv) :
          IsOption[j] = (j = 1 \/ argv[j - 1] \notin DOMAIN Field \/ ~IsOption[j - 1])
    <2> DEFINE h == IsOption
    <2>1. h = Rounds(h)
      BY <1>7
    <2> HIDE DEF h
    <2>2. \A j \in 1 .. Len(argv) :
            h[j] = (j = 1 \/ argv[j - 1] \notin DOMAIN Field \/ ~h[j - 1])
      BY <2>1, Zenon
    <2> QED
      BY <2>2, Zenon DEF h
  <1> HIDE DEF Turn, next, g, Rounds
  <1>9. \A j \in 1 .. Len(argv) : j \in Options <=> IsOption[j]
    BY DEF Options
  <1>10. Options \subseteq 1 .. Len(argv)
    BY DEF Options
  <1>11. Len(argv) # 0 => 1 \in Options
    <2>1. Len(argv) # 0 => 1 \in 1 .. Len(argv)
      BY <1>1
    <2> QED
      BY <1>8, <1>9, <2>1, Zenon
  <1>12. ASSUME NEW j \in 2 .. Len(argv)
         PROVE  j \in Options <=> argv[j - 1] \notin DOMAIN Field \/ j - 1 \notin Options
    <2>1. j \in 1 .. Len(argv) /\ j - 1 \in 1 .. Len(argv) /\ j # 1
      BY <1>1
    <2> QED
      BY <1>8, <1>9, <2>1, Zenon
  <1> QED
    BY <1>10, <1>11, <1>12

-----------------------------------------------------------------------------
(* Reading from left to right. *)

(* What parse_sim_args() knows at the top of its loop: the argument at i   *)
(* is an option, every option before it was accepted; and what it returned *)
(* says why i was its last.                                                *)
Reading ==
  /\ argv \in Seq(STRING)
  /\ i \in 1 .. Len(argv) + 1
  /\ i <= Len(argv) => i \in Options
  /\ \A j \in Options : j < i => ~Faulty(j) /\ argv[j] \notin HelpFlags
  /\ outcome \in {"parsing", "Ok", "Error", "ShowHelp"}
  /\ outcome = "Ok" => i = Len(argv) + 1
  /\ outcome = "ShowHelp" => i <= Len(argv) /\ argv[i] \in HelpFlags
  /\ outcome = "Error" => i <= Len(argv) /\ Faulty(i) /\ error[2] = Culprit(i)

(* No step changes the arguments, nor then what they say.                  *)
LEMMA ArgsKept ==
  ASSUME [Next]_vars
  PROVE  argv' = argv /\ Options' = Options
  <1>1. argv' = argv
    BY DEF Next, vars, MissingValue, InvalidValue, AssignValue, MissingMode, UnknownMode,
       AssignMode, Assign, TakeSwitch, AskHelp, UnknownArg, ParsedAll, ReportError,
       ReportHelp, Simulate, Abort, Complain, Exit
  <1> QED
    BY <1>1 DEF Options, IsOption

(* After a value and after a switch the next argument is an option again,  *)
(* and the options passed are the ones passed before and the one at i.     *)
LEMMA PassOption ==
  ASSUME Reading, i <= Len(argv)
  PROVE  /\ argv[i] \in DOMAIN Field /\ HasValue =>
              /\ i + 2 \in 1 .. Len(argv) + 1
              /\ i + 2 <= Len(argv) => i + 2 \in Options
              /\ \A j \in Options : j < i + 2 <=> j < i \/ j = i
         /\ argv[i] \notin DOMAIN Field =>
              /\ i + 1 \in 1 .. Len(argv) + 1
              /\ i + 1 <= Len(argv) => i + 1 \in Options
              /\ \A j \in Options : j < i + 1 <=> j < i \/ j = i
  <1>1. Len(argv) \in Nat /\ i \in 1 .. Len(argv) /\ i \in Options /\ argv \in Seq(STRING)
    BY DEF Reading
  <1>2. Options \subseteq 1 .. Len(argv)
    BY <1>1, OptionRule
  <1>3. \A j \in 2 .. Len(argv) :
          j \in Options <=> argv[j - 1] \notin DOMAIN Field \/ j - 1 \notin Options
    BY <1>1, OptionRule
  <1>4. CASE argv[i] \in DOMAIN Field /\ HasValue
    <2>1. i + 1 \in 2 .. Len(argv) /\ (i + 1) - 1 = i
      BY <1>1, <1>4 DEF HasValue
    <2>2. i + 1 \notin Options
      BY <1>1, <1>3, <1>4, <2>1
    <2>3. i + 2 <= Len(argv) => i + 2 \in 2 .. Len(argv) /\ (i + 2) - 1 = i + 1
      BY <1>1
    <2>4. i + 2 <= Len(argv) => i + 2 \in Options
      BY <1>3, <2>2, <2>3
    <2>5. \A j \in Options : j < i + 2 <=> j < i \/ j = i
      BY <1>1, <1>2, <2>2
    <2> QED
      BY <1>1, <1>4, <2>1, <2>4, <2>5
  <1>5. CASE argv[i] \notin DOMAIN Field
    <2>1. i + 1 <= Len(argv) => i + 1 \in 2 .. Len(argv) /\ (i + 1) - 1 = i
      BY <1>1
    <2>2. i + 1 <= Len(argv) => i + 1 \in Options
      BY <1>3, <1>5, <2>1
    <2>3. \A j \in Options : j < i + 1 <=> j < i \/ j = i
      BY <1>1, <1>2
    <2> QED
      BY <1>1, <1>5, <2>2, <2>3
  <1> QED
    BY <1>4, <1>5

(* It is so at the start, *)
LEMMA InitReading == Init => Reading
  <1> SUFFICES ASSUME Init PROVE Reading
    OBVIOUS
  <1>1. argv \in Seq(STRING) /\ Len(argv) \in Nat
    BY CliAssumption DEF Init
  <1>2. Options \subseteq 1 .. Len(argv) /\ (Len(argv) # 0 => 1 \in Options)
    BY <1>1, OptionRule
  <1>3. i = 1 /\ outcome = "parsing"
    BY DEF Init
  <1> QED
    BY <1>1, <1>2, <1>3 DEF Reading

(* and every step keeps it so. *)
LEMMA NextReading == Reading /\ [Next]_vars => Reading'
  <1> SUFFICES ASSUME Reading, [Next]_vars PROVE Reading'
    OBVIOUS
  <1>1. argv' = argv /\ Options' = Options
    BY ArgsKept
  <1>2. \A j : (Faulty(j)' <=> Faulty(j)) /\ Culprit(j)' = Culprit(j)
    BY <1>1 DEF Faulty, Culprit
  <1>3. ASSUME outcome' = outcome, i' = i, error' = error PROVE Reading'
    BY <1>1, <1>2, <1>3 DEF Reading
  <1>4. Len(argv) \in Nat /\ i \in 1 .. Len(argv) + 1
    BY DEF Reading
  <1>5. ASSUME i <= Len(argv), Faulty(i), outcome' = "Error", error'[2] = Culprit(i), i' = i
        PROVE  Reading'
    BY <1>1, <1>2, <1>5 DEF Reading
  <1>6. CASE MissingValue \/ MissingMode
    <2>1. i <= Len(argv) /\ ~(i < Len(argv)) /\ argv[i] \in DOMAIN Field
      BY <1>6, Fields, Zenon DEF MissingValue, MissingMode, Here, HasValue
    <2>2. i = Len(argv)
      BY <1>4, <2>1
    <2>3. i <= Len(argv) /\ Faulty(i)
      BY <2>1, <2>2 DEF Faulty
    <2>4. outcome' = "Error" /\ error'[2] = argv[i] /\ i' = i
      <3>1. Complain("missing value", argv[i])
        BY <1>6 DEF MissingValue, MissingMode
      <3> QED
        BY <3>1 DEF Complain
    <2>5. Culprit(i) = argv[i]
      BY <2>1 DEF Culprit
    <2> QED
      BY <1>5, <2>3, <2>4, <2>5
  <1>7. CASE InvalidValue \/ UnknownMode
    <2>1. i <= Len(argv) /\ i < Len(argv) /\ argv[i] \in DOMAIN Field
          /\ Read(argv[i], argv[i + 1]) = Throws
      BY <1>7, Fields, Zenon DEF InvalidValue, UnknownMode, Here, Refused, HasValue
    <2>2. Faulty(i)
      BY <2>1 DEF Faulty
    <2>3. outcome' = "Error" /\ i' = i
      BY <1>7 DEF InvalidValue, UnknownMode, Complain
    <2>4. CASE InvalidValue
      <3>1. argv[i] # "--threads" /\ error'[2] = argv[i]
        BY <2>4, Fields DEF InvalidValue, Here, Complain
      <3> QED
        BY <1>5, <2>1, <2>2, <2>3, <3>1 DEF Culprit
    <2>5. CASE UnknownMode
      <3>1. argv[i] = "--threads" /\ error'[2] = argv[i + 1]
        BY <2>5 DEF UnknownMode, Here, Complain
      <3> QED
        BY <1>5, <2>1, <2>2, <2>3, <3>1 DEF Culprit
    <2> QED
      BY <1>7, <2>4, <2>5
  <1>8. CASE UnknownArg
    <2>1. /\ i <= Len(argv) /\ argv[i] \notin DOMAIN Field \cup Switches \cup HelpFlags
          /\ outcome' = "Error" /\ error'[2] = argv[i] /\ i' = i
      BY <1>8 DEF UnknownArg, Complain
    <2>2. Culprit(i) = argv[i]
      BY <2>1, Fields DEF Culprit
    <2> QED
      BY <1>5, <2>1, <2>2 DEF Faulty
  <1>9. CASE AssignValue \/ AssignMode
    <2>1. /\ i <= Len(argv) /\ HasValue /\ i' = i + 2 /\ outcome' = "parsing"
          /\ argv[i] \in DOMAIN Field
          /\ Read(argv[i], argv[i + 1]) # Throws
      BY <1>9, Fields DEF AssignValue, AssignMode, Assign, Here, PastValue
    <2>2. ~Faulty(i) /\ argv[i] \notin HelpFlags
      BY <1>4, <2>1, FieldsApart DEF Faulty, HasValue
    <2>3. /\ i + 2 \in 1 .. Len(argv) + 1
          /\ i + 2 <= Len(argv) => i + 2 \in Options
          /\ \A j \in Options : j < i + 2 <=> j < i \/ j = i
      BY <2>1, PassOption
    <2> QED
      BY <1>1, <1>2, <2>1, <2>2, <2>3 DEF Reading
  <1>10. CASE TakeSwitch
    <2>1. i <= Len(argv) /\ i' = i + 1 /\ outcome' = "parsing" /\ argv[i] \in Switches
      BY <1>10 DEF TakeSwitch, Here
    <2>2. ~Faulty(i) /\ argv[i] \notin HelpFlags /\ argv[i] \notin DOMAIN Field
      BY <2>1, FieldsApart DEF Faulty
    <2>3. /\ i + 1 \in 1 .. Len(argv) + 1
          /\ i + 1 <= Len(argv) => i + 1 \in Options
          /\ \A j \in Options : j < i + 1 <=> j < i \/ j = i
      BY <2>1, <2>2, PassOption
    <2> QED
      BY <1>1, <1>2, <2>1, <2>2, <2>3 DEF Reading
  <1>11. CASE AskHelp
    <2>1. i <= Len(argv) /\ i' = i /\ outcome' = "ShowHelp" /\ argv[i] \in HelpFlags
      BY <1>11 DEF AskHelp, Here
    <2> QED
      BY <1>1, <1>2, <2>1 DEF Reading
  <1>12. CASE ParsedAll
    <2>1. i = Len(argv) + 1 /\ i' = i /\ outcome' = "Ok"
      BY <1>4, <1>12 DEF ParsedAll
    <2> QED
      BY <1>1, <1>2, <1>4, <2>1 DEF Reading
  <1>13. CASE ReportError \/ ReportHelp \/ Simulate \/ Abort \/ UNCHANGED vars
    BY <1>3, <1>13 DEF ReportError, ReportHelp, Simulate, Abort, Exit, vars
  <1> QED
    BY <1>6, <1>7, <1>8, <1>9, <1>10, <1>11, <1>12, <1>13 DEF Next

-----------------------------------------------------------------------------
(* The first argument at fault. *)

(* The least of a set of integers. *)
LEMMA MinIs ==
  ASSUME NEW S \in SUBSET Int, NEW m \in S, \A n \in S : m <= n
  PROVE  Min(S) = m
  <1> DEFINE Is(x) == \A n \in S : x <= n
  <1>1. m \in S /\ Is(m)
    OBVIOUS
  <1>2. Min(S) \in S /\ Is(Min(S))
    <2>1. Min(S) = CHOOSE x \in S : Is(x)
      BY DEF Min
    <2> QED
      BY <1>1, <2>1, Zenon
  <1>3. Min(S) \in Int /\ m \in Int
    BY <1>2
  <1> QED
    BY <1>1, <1>2, <1>3

(* The largest of a set of integers. *)
LEMMA MaxIs ==
  ASSUME NEW S \in SUBSET Int, NEW m \in S, \A n \in S : n <= m
  PROVE  Max(S) = m
  <1> DEFINE Is(x) == \A n \in S : x >= n
  <1>1. m \in S /\ Is(m)
    OBVIOUS
  <1>2. Max(S) \in S /\ Is(Max(S))
    <2>1. Max(S) = CHOOSE x \in S : Is(x)
      BY DEF Max
    <2> QED
      BY <1>1, <2>1, Zenon
  <1>3. Max(S) \in Int /\ m \in Int
    BY <1>2
  <1> QED
    BY <1>1, <1>2, <1>3

(* An argument that ends the reading is the first that does, and when all  *)
(* were read there is none.                                                *)
LEMMA StopsAt ==
  ASSUME Reading
  PROVE  /\ outcome \in {"Error", "ShowHelp"} => Stop = i
         /\ outcome = "Ok" => Stop = Len(argv) + 1
  <1> DEFINE ends == {j \in Options : Faulty(j) \/ argv[j] \in HelpFlags}
             all == ends \cup {Len(argv) + 1}
  <1>1. Len(argv) \in Nat /\ i \in 1 .. Len(argv) + 1
    BY DEF Reading
  <1>2. Options \subseteq 1 .. Len(argv)
    BY OptionRule DEF Reading
  <1>3. all \in SUBSET Int
    <2>1. ends \subseteq 1 .. Len(argv)
      BY <1>2
    <2>2. ends \subseteq Int /\ Len(argv) + 1 \in Int
      BY <1>1, <2>1
    <2> HIDE DEF ends
    <2> QED
      BY <2>2, Zenon
  <1>4. \A j \in all : i <= j
    BY <1>1, <1>2 DEF Reading
  <1>5. Stop = Min(all)
    BY DEF Stop
  <1>6. i \in all => Stop = i
    <2> HIDE DEF all
    <2> QED
      BY <1>3, <1>4, <1>5, MinIs
  <1>7. outcome \in {"Error", "ShowHelp", "Ok"} => i \in all
    BY DEF Reading
  <1>8. outcome = "Ok" => i = Len(argv) + 1
    BY DEF Reading
  <1> QED
    BY <1>6, <1>7, <1>8

(* Reading holds in every reachable state. *)
LEMMA AlwaysReading == Spec => []Reading
  BY InitReading, NextReading, PTL DEF Spec

(* For every argument list, the argument complained about is the first     *)
(* option at fault, and help is shown if it is asked for before that.      *)
THEOREM FirstFault == Spec => []FirstFaultReported
  <1>1. Reading => FirstFaultReported
    <2> SUFFICES ASSUME Reading PROVE FirstFaultReported
      OBVIOUS
    <2> QED
      BY StopsAt DEF FirstFaultReported, Reading
  <1> QED
    BY <1>1, AlwaysReading, PTL

-----------------------------------------------------------------------------
(* The last value given for a member. *)

(* The part of LastOneWins about one option that takes a value.            *)
Decided(flag) ==
  cfg[Field[flag]] =
    IF Given(flag, i) = {} THEN DefaultConfig[Field[flag]]
    ELSE Read(flag, ValueOf(flag, i))

(* With it, that the members are there and the two switches are Booleans.  *)
Assigned ==
  /\ DOMAIN cfg = DOMAIN DefaultConfig
  /\ cfg.verbose \in BOOLEAN /\ want_json \in BOOLEAN
  /\ \A flag \in DOMAIN Field : Decided(flag)
  /\ want_json <=> Given("--json", i) # {}
  /\ cfg.verbose <=> Given("--verbose", i) # {}

(* Passing the option at i adds it to those given of its kind, as the last *)
(* of them, and to no other kind.                                          *)
LEMMA GivenMore ==
  ASSUME Reading, i <= Len(argv), NEW p,
         \A j \in Options : j < p <=> j < i \/ j = i
  PROVE  /\ \A flag : flag # argv[i] => Given(flag, p) = Given(flag, i)
         /\ Given(argv[i], p) # {} /\ Max(Given(argv[i], p)) = i
  <1>1. i \in Options /\ Len(argv) \in Nat /\ i \in 1 .. Len(argv)
    BY DEF Reading
  <1>2. Options \subseteq 1 .. Len(argv)
    BY OptionRule DEF Reading
  <1>3. \A flag : flag # argv[i] => Given(flag, p) = Given(flag, i)
    BY DEF Given
  <1>4. i \in Given(argv[i], p)
    BY <1>1 DEF Given
  <1>5. Given(argv[i], p) \in SUBSET Int /\ \A j \in Given(argv[i], p) : j <= i
    <2>1. \A j \in Given(argv[i], p) : j \in 1 .. Len(argv) /\ (j < i \/ j = i)
      BY <1>2 DEF Given
    <2> QED
      BY <1>1, <2>1
  <1>6. Max(Given(argv[i], p)) = i
    BY <1>4, <1>5, MaxIs
  <1> QED
    BY <1>3, <1>4, <1>6

(* It is so at the start, with nothing given, *)
LEMMA InitAssigned == Init => Assigned
  <1> SUFFICES ASSUME Init PROVE Assigned
    OBVIOUS
  <1>1. Options \subseteq 1 .. Len(argv) /\ Len(argv) \in Nat
    BY CliAssumption, OptionRule DEF Init
  <1>2. i = 1 /\ cfg = DefaultConfig /\ want_json = FALSE
    BY DEF Init
  <1>3. \A flag : Given(flag, i) = {}
    <2>1. \A j \in Options : ~(j < i)
      BY <1>1, <1>2
    <2> QED
      BY <2>1 DEF Given
  <1>4. cfg.verbose = FALSE
    BY <1>2 DEF DefaultConfig
  <1> QED
    BY <1>2, <1>3, <1>4 DEF Assigned, Decided

(* and every step keeps it so. *)
LEMMA NextAssigned == Reading /\ Assigned /\ [Next]_vars => Assigned'
  <1> SUFFICES ASSUME Reading, Assigned, [Next]_vars PROVE Assigned'
    OBVIOUS
  <1>1. argv' = argv /\ Options' = Options
    BY ArgsKept
  <1>2. \A flag : Given(flag, i)' = Given(flag, i')
    BY <1>1 DEF Given
  <1>3. \A flag : Decided(flag)' <=>
          cfg'[Field[flag]] =
            IF Given(flag, i') = {} THEN DefaultConfig[Field[flag]]
            ELSE Read(flag, argv[Max(Given(flag, i')) + 1])
    BY <1>1, <1>2 DEF Decided, ValueOf
  <1>4. CASE AssignValue \/ AssignMode
    <2>1. /\ i <= Len(argv) /\ HasValue /\ i' = i + 2 /\ want_json' = want_json
          /\ argv[i] \in DOMAIN Field
          /\ cfg' = [cfg EXCEPT ![Field[argv[i]]] = Read(argv[i], argv[i + 1])]
      BY <1>4, Fields DEF AssignValue, AssignMode, Assign, Here, PastValue
    <2>2. /\ \A flag : flag # argv[i] => Given(flag, i') = Given(flag, i)
          /\ Given(argv[i], i') # {} /\ Max(Given(argv[i], i')) = i
      BY <2>1, PassOption, GivenMore
    <2>3. /\ Field[argv[i]] \in DOMAIN DefaultConfig \ {"verbose"}
          /\ \A flag \in DOMAIN Field : flag # argv[i] => Field[flag] # Field[argv[i]]
          /\ argv[i] # "--json" /\ argv[i] # "--verbose"
      BY <2>1, FieldsApart DEF Switches
    <2>4. /\ DOMAIN cfg' = DOMAIN DefaultConfig
          /\ cfg'.verbose = cfg.verbose
          /\ cfg'[Field[argv[i]]] = Read(argv[i], argv[i + 1])
          /\ \A flag \in DOMAIN Field \ {argv[i]} : cfg'[Field[flag]] = cfg[Field[flag]]
      BY <2>1, <2>3, FieldsApart DEF Assigned
    <2>5. ASSUME NEW flag \in DOMAIN Field PROVE Decided(flag)'
      <3>1. CASE flag = argv[i]
        BY <1>3, <2>2, <2>4, <3>1
      <3>2. CASE flag # argv[i]
        BY <1>3, <2>2, <2>4, <3>2 DEF Assigned, Decided, ValueOf
      <3> QED
        BY <3>1, <3>2
    <2> QED
      BY <1>2, <2>1, <2>2, <2>3, <2>4, <2>5 DEF Assigned
  <1>5. CASE TakeSwitch
    <2>1. /\ i <= Len(argv) /\ i' = i + 1 /\ argv[i] \in Switches
          /\ cfg' = [cfg EXCEPT !.verbose = @ \/ argv[i] = "--verbose"]
          /\ want_json' = (want_json \/ argv[i] = "--json")
      BY <1>5 DEF TakeSwitch, Here
    <2>2. /\ \A flag : flag # argv[i] => Given(flag, i') = Given(flag, i)
          /\ Given(argv[i], i') # {} /\ Max(Given(argv[i], i')) = i
      BY <2>1, FieldsApart, PassOption, GivenMore
    <2>3. /\ DOMAIN cfg' = DOMAIN DefaultConfig
          /\ cfg'.verbose = (cfg.verbose \/ argv[i] = "--verbose")
          /\ \A flag \in DOMAIN Field : cfg'[Field[flag]] = cfg[Field[flag]]
      <3>1. "verbose" \in DOMAIN cfg
        BY DEF Assigned, DefaultConfig
      <3> QED
        BY <2>1, <3>1, FieldsApart DEF Assigned
    <2>4. ASSUME NEW flag \in DOMAIN Field PROVE Decided(flag)'
      <3>1. flag # argv[i]
        BY <2>1, FieldsApart
      <3> QED
        BY <1>3, <2>2, <2>3, <3>1 DEF Assigned, Decided, ValueOf
    <2>5. /\ (want_json <=> Given("--json", i) # {})'
          /\ (cfg.verbose <=> Given("--verbose", i) # {})'
      <3>1. CASE argv[i] = "--json"
        BY <1>2, <2>1, <2>2, <2>3, <3>1 DEF Assigned
      <3>2. CASE argv[i] = "--verbose"
        BY <1>2, <2>1, <2>2, <2>3, <3>2 DEF Assigned
      <3> QED
        BY <2>1, <3>1, <3>2 DEF Switches
    <2> QED
      BY <2>1, <2>3, <2>4, <2>5 DEF Assigned
  <1>6. ASSUME cfg' = cfg, i' = i, want_json' = want_json PROVE Assigned'
    BY <1>2, <1>3, <1>6 DEF Assigned, Decided, ValueOf
  <1> QED
    BY <1>4, <1>5, <1>6
    DEF Next, vars, MissingValue, InvalidValue, MissingMode, UnknownMode, AskHelp, UnknownArg,
       ParsedAll, ReportError, ReportHelp, Simulate, Abort, Complain, Exit

(* It holds in every reachable state. *)
LEMMA AlwaysAssigned == Spec => []Assigned
  BY InitReading, NextReading, InitAssigned, NextAssigned, PTL DEF Spec

-----------------------------------------------------------------------------
(* Division. *)

(* Division with remainder. *)
LEMMA Division ==
  ASSUME NEW a \in Int, NEW m \in Nat \ {0}
  PROVE  a % m \in 0 .. (m - 1) /\ \E d \in Int : a = m * d + (a % m)
  <1>1. a % m \in 0 .. (m - 1) /\ a \div m \in Int /\ a = m * (a \div m) + (a % m)
    OBVIOUS
  <1> QED
    BY <1>1

(* A multiple leaves no remainder. *)
LEMMA Multiple ==
  ASSUME NEW k \in Int, NEW m \in Nat \ {0}
  PROVE  (m * k) % m = 0
  <1>1. m * k \in Int
    OBVIOUS
  <1>2. PICK d \in Int : m * k = m * d + ((m * k) % m)
    BY <1>1, Division
  <1>3. (m * k) % m \in 0 .. (m - 1)
    BY <1>1, Division
  <1>4. (m * k) % m = m * (k - d)
    BY <1>2, <1>3
  <1>5. CASE k - d >= 1
    BY <1>3, <1>4, <1>5
  <1>6. CASE k - d <= -1
    BY <1>3, <1>4, <1>6
  <1> QED
    BY <1>4, <1>5, <1>6

(* What wrapping does to a number whose size fits. *)
LEMMA Wrapped ==
  ASSUME NEW max \in Nat, NEW w \in -max .. max
  PROVE  w % (max + 1) = IF w >= 0 THEN w ELSE w + max + 1
  <1>1. max + 1 \in Nat \ {0} /\ w \in Int
    OBVIOUS
  <1>2. PICK d \in Int : w = (max + 1) * d + (w % (max + 1))
    BY <1>1, Division
  <1>3. w % (max + 1) \in 0 .. max
    BY <1>1, Division
  <1>4. CASE d >= 1
    <2>1. (max + 1) * d >= max + 1
      BY <1>4
    <2> QED
      BY <1>2, <1>3, <2>1
  <1>5. CASE d <= -2
    <2>1. (max + 1) * d <= (max + 1) * (-2)
      BY <1>5
    <2> QED
      BY <1>2, <1>3, <2>1
  <1>6. CASE d = 0 \/ d = -1
    BY <1>2, <1>3, <1>6
  <1> QED
    BY <1>4, <1>5, <1>6

(* Wrapping changes a number by a multiple of the width. *)
LEMMA WrapsByWidth ==
  ASSUME NEW max \in Nat, NEW w \in -max .. max
  PROVE  /\ w % (max + 1) \in 0 .. max
         /\ \E k \in {0, 1} : (w % (max + 1)) - w = (max + 1) * k
  <1>1. w % (max + 1) = IF w >= 0 THEN w ELSE w + max + 1
    BY Wrapped
  <1> DEFINE r == w % (max + 1)
  <1>2. r = IF w >= 0 THEN w ELSE w + max + 1
    BY <1>1
  <1> HIDE DEF r
  <1>3. r \in 0 .. max
    BY <1>2
  <1>4. r - w = (max + 1) * 0 \/ r - w = (max + 1) * 1
    BY <1>2
  <1> QED
    BY <1>3, <1>4 DEF r

(* Cutting a number to a width that divides its distance from another one  *)
(* leaves a distance that the width divides.                               *)
LEMMA CutsByWidth ==
  ASSUME NEW m \in Nat \ {0}, NEW w \in Int, NEW x \in Int,
         \E e \in Int : x - w = m * e
  PROVE  /\ x % m \in 0 .. (m - 1)
         /\ \E k \in Int : (x % m) - w = m * k
  <1> DEFINE r == x % m
  <1>1. r \in 0 .. (m - 1)
    BY Division
  <1>2. PICK d \in Int : x = m * d + r
    BY Division
  <1> HIDE DEF r
  <1>3. PICK e \in Int : x - w = m * e
    OBVIOUS
  <1>4. e - d \in Int /\ m * (e - d) = m * e - m * d
    OBVIOUS
  <1>5. r - w = m * (e - d)
    <2>1. m * d \in Int /\ m * e \in Int /\ r \in Int
      BY <1>1
    <2> QED
      BY <1>2, <1>3, <1>4, <2>1
  <1> QED
    BY <1>1, <1>4, <1>5 DEF r

-----------------------------------------------------------------------------
(* The numbers. *)

(* If an option was given, one of the times was the last. *)
LEMMA LastGiven ==
  ASSUME Reading, NEW flag, Given(flag, i) # {}
  PROVE  Max(Given(flag, i)) \in Given(flag, i)
  <1> DEFINE G == Given(flag, i)
             T == {Len(argv) - j : j \in G}
  <1>1. Len(argv) \in Nat
    BY DEF Reading
  <1>2. \A j \in G : j \in 1 .. Len(argv)
    BY OptionRule DEF Reading, Given
  <1>3. T \in SUBSET Nat /\ T # {}
    BY <1>1, <1>2
  <1>4. PICK least \in T : \A n \in T : least <= n
    BY <1>3, LeastOf
  <1>5. PICK last \in G : least = Len(argv) - last
    BY <1>4
  <1>6. \A j \in G : j <= last
    <2>1. ASSUME NEW j \in G PROVE j <= last
      <3>1. Len(argv) - last <= Len(argv) - j
        BY <1>4, <1>5
      <3> QED
        BY <1>1, <1>2, <3>1
    <2> QED
      BY <2>1
  <1>7. G \in SUBSET Int
    BY <1>2
  <1> HIDE DEF G
  <1>8. Max(G) = last
    BY <1>6, <1>7, MaxIs
  <1> QED
    BY <1>8 DEF G

(* An option that was passed had a value the code could read. *)
LEMMA Accepted ==
  ASSUME Reading, Assigned, NEW flag \in DOMAIN Field, Given(flag, i) # {}
  PROVE  /\ cfg[Field[flag]] = Read(flag, ValueOf(flag, i))
         /\ Read(flag, ValueOf(flag, i)) # Throws
  <1> DEFINE last == Max(Given(flag, i))
  <1>1. last \in Options /\ last < i /\ argv[last] = flag
    BY LastGiven DEF Given
  <1>2. ~Faulty(last)
    BY <1>1 DEF Reading
  <1>3. Read(flag, argv[last + 1]) # Throws
    BY <1>1, <1>2 DEF Faulty
  <1> QED
    BY <1>3 DEF Assigned, Decided, ValueOf

(* A text that std::stoull or std::stoul takes. *)
LEMMA Taken ==
  ASSUME NEW text, NEW max \in Nat, Unsigned(text, max) # Throws
  PROVE  /\ text \in DOMAIN Whole /\ Whole[text] \in -max .. max
         /\ Unsigned(text, max) = Whole[text] % (max + 1)
  BY DEF Unsigned

(* For every argument list and all widths of the types, a member that      *)
(* counts something holds the number written for it, modulo its width.     *)
THEOREM NumbersKept == Spec => []NumbersAsMeant
  <1>1. Reading /\ Assigned => NumbersAsMeant
    <2> SUFFICES ASSUME Reading, Assigned, NEW flag \in CountFlags, Given(flag, i) # {}
                 PROVE  /\ cfg[Field[flag]] \in 0 .. Width(flag)
                        /\ (cfg[Field[flag]] - Whole[ValueOf(flag, i)]) % (Width(flag) + 1) = 0
      BY DEF NumbersAsMeant
    <2> DEFINE text == ValueOf(flag, i)
               number == Whole[text]
               value == cfg[Field[flag]]
    <2>1. flag \in DOMAIN Field /\ flag # "--threads" /\ flag \notin RateFlags
      BY Fields DEF CountFlags, RateFlags, NumberFlags
    <2>2. value = Read(flag, text) /\ Read(flag, text) # Throws
      BY <2>1, Accepted
    <2>3. CASE flag = "--hb-timeout-ms"
      <3>1. Read(flag, text) = Narrow(Unsigned(text, MaxUL)) /\ Width(flag) = MaxU32
        BY <2>1, <2>3 DEF Read, Width
      <3>2. Unsigned(text, MaxUL) # Throws
        BY <2>2, <3>1 DEF Narrow
      <3>3. /\ number \in -MaxUL .. MaxUL
            /\ Unsigned(text, MaxUL) = number % (MaxUL + 1)
        BY <3>2, CliAssumption, Taken
      <3>4. value = (number % (MaxUL + 1)) % (MaxU32 + 1)
        BY <2>2, <3>1, <3>2, <3>3 DEF Narrow
      <3> HIDE DEF text, number, value
      <3>5. /\ MaxUL \in Nat /\ MaxU32 \in Nat /\ MaxU32 + 1 \in Nat \ {0}
            /\ MaxUL + 1 \in Int /\ number \in Int
        BY <3>3, CliAssumption
      <3>6. PICK p \in Int : MaxUL + 1 = (MaxU32 + 1) * p
        <4>1. PICK p \in Int : MaxUL + 1 = (MaxU32 + 1) * p + ((MaxUL + 1) % (MaxU32 + 1))
          BY <3>5, Division
        <4>2. (MaxUL + 1) % (MaxU32 + 1) = 0
          BY CliAssumption
        <4> QED
          BY <3>5, <4>1, <4>2
      <3>7. /\ number % (MaxUL + 1) \in 0 .. MaxUL
            /\ \E j \in {0, 1} : (number % (MaxUL + 1)) - number = (MaxUL + 1) * j
        BY <3>3, <3>5, WrapsByWidth
      <3>8. PICK j \in Int : (number % (MaxUL + 1)) - number = ((MaxU32 + 1) * p) * j
        BY <3>6, <3>7
      <3>9. /\ value \in 0 .. MaxU32
            /\ \E k \in Int : value - number = (MaxU32 + 1) * k
        <4> DEFINE x == number % (MaxUL + 1)
                   m == MaxU32 + 1
        <4>1. x \in Int /\ x - number = (m * p) * j /\ value = x % m
          BY <3>4, <3>5, <3>7, <3>8
        <4>2. m \in Nat \ {0} /\ m - 1 = MaxU32
          BY <3>5
        <4> HIDE DEF x, m
        <4>3. x % m \in 0 .. (m - 1) /\ \E k \in Int : (x % m) - number = m * k
          <5>1. p * j \in Int /\ (m * p) * j = m * (p * j)
            BY <4>2
          <5>2. \E e \in Int : x - number = m * e
            BY <4>1, <5>1
          <5> QED
            BY <3>5, <4>1, <4>2, <5>2, CutsByWidth
        <4>4. value \in 0 .. MaxU32 /\ \E k \in Int : value - number = m * k
          BY <4>1, <4>2, <4>3
        <4> QED
          BY <4>4 DEF m
      <3>10. (value - number) % (MaxU32 + 1) = 0
        BY <3>5, <3>9, Multiple
      <3> QED
        BY <3>1, <3>9, <3>10 DEF text, number, value
    <2>4. CASE flag # "--hb-timeout-ms"
      <3>1. Read(flag, text) = Unsigned(text, MaxULL) /\ Width(flag) = MaxULL
        BY <2>1, <2>4 DEF Read, Width
      <3>2. /\ number \in -MaxULL .. MaxULL /\ MaxULL \in Nat
            /\ value = number % (MaxULL + 1)
        BY <2>2, <3>1, CliAssumption, Taken
      <3> HIDE DEF text, number, value
      <3>3. /\ value \in 0 .. MaxULL
            /\ \E k \in Int : value - number = (MaxULL + 1) * k
        <4> DEFINE x == number % (MaxULL + 1)
        <4>1. x \in 0 .. MaxULL /\ \E k \in {0, 1} : x - number = (MaxULL + 1) * k
          BY <3>2, WrapsByWidth
        <4>2. value = x
          BY <3>2
        <4> HIDE DEF x
        <4> QED
          BY <4>1, <4>2
      <3>4. MaxULL + 1 \in Nat \ {0}
        BY <3>2
      <3>5. (value - number) % (MaxULL + 1) = 0
        BY <3>3, <3>4, Multiple
      <3> QED
        BY <3>1, <3>3, <3>5 DEF text, number, value
    <2> QED
      BY <2>3, <2>4
  <1> QED
    BY <1>1, AlwaysReading, AlwaysAssigned, PTL

(* For every argument list, the last option given for a member decides it, *)
(* and by the number that was written.                                     *)
THEOREM LastWins == Spec => []LastOneWins
  <1>1. Assigned /\ NumbersAsMeant => LastOneWins
    BY DEF Assigned, Decided, LastOneWins
  <1> QED
    BY <1>1, AlwaysAssigned, NumbersKept, PTL

-----------------------------------------------------------------------------
(* How the program ends. *)

(* What main() printed and returned, by what parse_sim_args() returned.    *)
Ended ==
  /\ status \in {"running", "success", "failure", "abort"}
  /\ status # "running" =>
       /\ outcome \in {"Ok", "Error", "ShowHelp"}
       /\ outcome = "Error" => status = "failure" /\ printed = "nothing"
       /\ outcome = "ShowHelp" => status = "success" /\ printed = "help"
       /\ outcome = "Ok" =>
            \/ status = "success" /\ printed = IF want_json THEN "json" ELSE "human"
            \/ status = "abort" /\ printed = "nothing" /\ (OutOfRoom(cfg) \/ ImproperRate(cfg))

(* The program runs until it ends, and then takes no step.                 *)
LEMMA EndedKept == Ended /\ (status # "running" => outcome # "parsing") /\ [Next]_vars => Ended'
  <1> SUFFICES ASSUME Ended, status # "running" => outcome # "parsing", [Next]_vars
               PROVE  Ended'
    OBVIOUS
  <1>1. CASE status # "running"
    <2>1. UNCHANGED vars
      BY <1>1 DEF Ended, Next, vars, MissingValue, InvalidValue, AssignValue, MissingMode,
         UnknownMode, AssignMode, TakeSwitch, AskHelp, UnknownArg, ParsedAll, ReportError, ReportHelp, Simulate, Abort, Here, Exit
    <2> QED
      BY <1>1, <2>1 DEF Ended, vars, OutOfRoom, ImproperRate
  <1>2. CASE status = "running"
    <2>1. ASSUME status' = status PROVE Ended'
      BY <1>2, <2>1 DEF Ended
    <2>2. CASE ReportError \/ ReportHelp
      BY <2>2 DEF Ended, ReportError, ReportHelp, Exit
    <2>3. CASE Simulate \/ Abort
      BY <2>3 DEF Ended, Simulate, Abort, Exit, Parsed, OutOfRoom, ImproperRate
    <2> QED
      BY <2>1, <2>2, <2>3 DEF Next, vars, MissingValue, InvalidValue, AssignValue,
         MissingMode, UnknownMode, AssignMode, Assign, TakeSwitch, AskHelp, UnknownArg, ParsedAll, Complain
  <1> QED
    BY <1>1, <1>2

(* Ended holds in every reachable state. *)
LEMMA AlwaysEnded == Spec => []Ended
  <1>1. Init => Ended
    BY DEF Init, Ended
  <1>2. Ended => (status # "running" => outcome # "parsing")
    BY DEF Ended
  <1> QED
    BY <1>1, <1>2, EndedKept, PTL DEF Spec

(* For every argument list, the exit code and what was printed say how the *)
(* program ended: refused, help given, or a result in the format asked.    *)
THEOREM ExitCodeTells == Spec => []ExitTells
  <1>1. Reading /\ Assigned /\ Ended => ExitTells
    <2> SUFFICES ASSUME Reading, Assigned, Ended, status # "running" PROVE ExitTells
      BY DEF ExitTells
    <2>1. Len(argv) \in Nat /\ outcome \in {"Ok", "Error", "ShowHelp"}
      BY DEF Reading, Ended
    <2>2. CASE outcome = "Error"
      <3>1. Stop = i /\ i <= Len(argv) /\ Faulty(i) /\ argv[i] \notin HelpFlags
        BY <2>2, StopsAt, FieldsApart DEF Reading, Faulty
      <3>2. status = "failure" /\ printed = "nothing"
        BY <2>2 DEF Ended
      <3> QED
        BY <3>1, <3>2 DEF ExitTells
    <2>3. CASE outcome = "ShowHelp"
      <3>1. Stop = i /\ i <= Len(argv) /\ ~Faulty(i) /\ argv[i] \in HelpFlags
        BY <2>3, StopsAt, FieldsApart DEF Reading, Faulty
      <3>2. status = "success" /\ printed = "help"
        BY <2>3 DEF Ended
      <3> QED
        BY <3>1, <3>2 DEF ExitTells
    <2>4. CASE outcome = "Ok"
      <3>1. Stop = Len(argv) + 1 /\ i = Stop /\ ~(Stop <= Len(argv))
        BY <2>1, <2>4, StopsAt DEF Reading
      <3>2. want_json <=> Given("--json", Stop) # {}
        BY <3>1 DEF Assigned
      <3>3. \/ status = "success" /\ printed = IF want_json THEN "json" ELSE "human"
            \/ status = "abort" /\ printed = "nothing" /\ (OutOfRoom(cfg) \/ ImproperRate(cfg))
        BY <2>4 DEF Ended
      <3> QED
        BY <3>1, <3>2, <3>3 DEF ExitTells
    <2> QED
      BY <2>1, <2>2, <2>3, <2>4
  <1> QED
    BY <1>1, AlwaysReading, AlwaysAssigned, AlwaysEnded, PTL

(* For every argument list, the program is lost in its simulation only to  *)
(* a number it was given last for its option: a count no list has room     *)
(* for or that is negative, or a rate that is none.                        *)
THEOREM LostOnlyToArguments == Spec => []LostToItsArguments
  <1>1. Reading /\ Assigned /\ Ended => LostToItsArguments
    <2> SUFFICES ASSUME Reading, Assigned, Ended, status = "abort" PROVE LostToItsArguments
      BY DEF LostToItsArguments
    <2>1. outcome = "Ok" /\ (OutOfRoom(cfg) \/ ImproperRate(cfg))
      BY DEF Ended
    <2>2. Stop = i
      BY <2>1, StopsAt DEF Reading
    <2>3. CASE OutOfRoom(cfg)
      <3> DEFINE text == ValueOf("--count", i)
      <3>1. "--count" \in DOMAIN Field /\ Field["--count"] = "count"
        BY Fields
      <3>2. Given("--count", i) # {}
        <4>1. SUFFICES ASSUME Given("--count", i) = {} PROVE FALSE
          OBVIOUS
        <4>2. cfg.count = DefaultConfig.count
          BY <3>1, <4>1 DEF Assigned, Decided
        <4>3. DefaultConfig.count = 100
          BY DEF DefaultConfig
        <4> QED
          BY <2>3, <4>2, <4>3, CliAssumption, DefaultAssumption DEF OutOfRoom
      <3>3. cfg.count = Read("--count", text) /\ Read("--count", text) # Throws
        BY <3>1, <3>2, Accepted
      <3>4. Read("--count", text) = Unsigned(text, MaxULL)
        BY DEF Read, RateFlags
      <3>5. /\ MaxULL \in Nat /\ Whole[text] \in -MaxULL .. MaxULL
            /\ cfg.count = Whole[text] % (MaxULL + 1)
        BY <3>3, <3>4, CliAssumption, Taken
      <3> HIDE DEF text
      <3>6. Whole[text] >= 0 => cfg.count = Whole[text]
        BY <3>5, Wrapped
      <3>7. Whole[text] \notin 0 .. MaxSize
        BY <2>3, <3>5, <3>6, CliAssumption DEF OutOfRoom
      <3> QED
        BY <2>2, <3>2, <3>7 DEF LostToItsArguments, text
    <2>4. CASE ImproperRate(cfg)
      <3>1. PICK flag \in RateFlags : cfg[Field[flag]] = "outside"
        BY <2>4, Fields DEF ImproperRate, RateFlags
      <3>2. /\ flag \in DOMAIN Field /\ flag # "--threads" /\ flag # "--hb-timeout-ms"
            /\ DefaultConfig[Field[flag]] = "never"
        BY Fields DEF RateFlags, DefaultConfig
      <3>3. Given(flag, i) # {}
        BY <3>1, <3>2 DEF Assigned, Decided
      <3>4. /\ Read(flag, ValueOf(flag, i)) = "outside"
            /\ Read(flag, ValueOf(flag, i)) # Throws
        BY <3>1, <3>2, <3>3, Accepted
      <3>5. Read(flag, ValueOf(flag, i))
              = IF ValueOf(flag, i) \in DOMAIN Rate THEN Rate[ValueOf(flag, i)] ELSE Throws
        BY <3>2 DEF Read
      <3> QED
        BY <2>2, <3>3, <3>4, <3>5 DEF LostToItsArguments
    <2> QED
      BY <2>1, <2>3, <2>4
  <1> QED
    BY <1>1, AlwaysReading, AlwaysAssigned, AlwaysEnded, PTL

=============================================================================
