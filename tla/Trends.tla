-------------------------------- MODULE Trends --------------------------------
(***************************************************************************)
(* The trend detectors: trends/detector.py and trends/statistical.py. Both *)
(* compare the pooled rate of a current window with that of a baseline     *)
(* window before it. Days are numbers; `rows' is a function from the days  *)
(* that have an observation (a second row of a day raises, and both        *)
(* callers build one per day).                                             *)
(*                                                                         *)
(* Rates and probabilities are floating-point numbers in the code and exact*)
(* fractions here: comparisons are made by cross-multiplication.           *)
(***************************************************************************)
EXTENDS Optional, Integers, FiniteSets, FiniteSetsExt

None == "none"

(* DetectorConfig: the prior is Nothing or a pair of positive integers, the   *)
(* thresholds are percentages.                                             *)
ConfigIsValid(cfg) ==
    /\ cfg.current >= 1 /\ cfg.baseline >= 1
    /\ \A limit \in {cfg.minCurrent, cfg.minBaseline, cfg.minPositive, cfg.minDelta,
                     cfg.minRelative} : limit >= 0
    /\ cfg.prior # Nothing => /\ cfg.prior[1] >= 1 /\ cfg.prior[2] >= 1
                           /\ 50 < cfg.minProbability /\ cfg.minProbability < 100

Expected(anchor, cfg) == (anchor - cfg.baseline - cfg.current)..(anchor - 1)

(* Fault: the window includes the day of the anchor. *)
CountsWithEnd(rows, from, to) ==
    LET days == {d \in DOMAIN rows : from <= d /\ d <= to /\ rows[d].known}
    IN  [accepted |-> MapThenSumSet(LAMBDA d : rows[d].accepted, days),
         eligible |-> MapThenSumSet(LAMBDA d : rows[d].eligible, days)]

(* The half-open window from..to of the days whose coverage is known.      *)
Counts(rows, from, to) ==
    LET days == {d \in DOMAIN rows : from <= d /\ d < to /\ rows[d].known}
    IN  [accepted |-> MapThenSumSet(LAMBDA d : rows[d].accepted, days),
         eligible |-> MapThenSumSet(LAMBDA d : rows[d].eligible, days)]

Coverage(rows, anchor, cfg) ==
    {"missing_days" : d \in Expected(anchor, cfg) \ DOMAIN rows}
    \cup {"unknown_coverage" : d \in {e \in Expected(anchor, cfg) \cap DOMAIN rows : ~rows[e].known}}

Magnitude(n) == IF n < 0 THEN -n ELSE n

(* The difference of the rates, times both counts of eligible records.     *)
Difference(current, baseline) ==
    current.accepted * baseline.eligible - baseline.accepted * current.eligible
BothRates(current, baseline) == current.eligible > 0 /\ baseline.eligible > 0

Direction(current, baseline) ==
    LET difference == Difference(current, baseline)
    IN  CASE ~BothRates(current, baseline) \/ difference = 0 -> "flat"
          [] BothRates(current, baseline) /\ difference > 0 -> "increase"
          [] BothRates(current, baseline) /\ difference < 0 -> "decrease"

(* The reasons both detectors have against a candidate. *)
CommonReasons(current, baseline, expected, cfg) ==
    LET difference == 100 * Magnitude(Difference(current, baseline))
        direction == Direction(current, baseline)
        checks ==
            [insufficient_current_eligible |-> current.eligible < cfg.minCurrent,
             insufficient_baseline_eligible |-> baseline.eligible < cfg.minBaseline,
             insufficient_current_positive |-> current.accepted < cfg.minPositive,
             missing_current_rate |-> current.eligible = 0,
             missing_baseline_rate |-> baseline.eligible = 0,
             below_absolute_delta |->
                 /\ BothRates(current, baseline)
                 /\ difference < cfg.minDelta * current.eligible * baseline.eligible,
             below_relative_change |->
                 /\ BothRates(current, baseline) /\ baseline.accepted > 0
                 /\ difference < cfg.minRelative * current.eligible * baseline.accepted,
             no_change |-> direction = "flat",
             unexpected_direction |-> direction \notin {"flat", expected}]
    IN  {reason \in DOMAIN checks : checks[reason]}

-----------------------------------------------------------------------------
(* The chance that one Beta distribution exceeds another *)

Product(from, to) == ProductSet(from..to)
Choose2(n, k) == Product(n - k + 1, n) \div Product(1, k)

(* A fraction over Whole of its distribution: the finite sum over          *)
(* 0..a - 1 of the quotients of Beta functions, which the code adds up in  *)
(* logarithms, with the denominators of all terms brought to that of the   *)
(* last.                                                                   *)
Whole(a, b, c, d) == Product(c + d, a + b + c + d - 2)

(* Fault: the sum includes a term too many. *)
PartPastEnd(a, b, c, d) ==
    MapThenSumSet(LAMBDA i : Choose2(b + i - 1, i) * Product(c, c + i - 1) * Product(d, d + b - 1)
                             * Product(b + c + d + i, a + b + c + d - 2), 0..a)

Part(a, b, c, d) ==
    MapThenSumSet(LAMBDA i : Choose2(b + i - 1, i) * Product(c, c + i - 1) * Product(d, d + b - 1)
                             * Product(b + c + d + i, a + b + c + d - 2), 0..(a - 1))

(* Whether the probability of the expected direction is below the limit.   *)
BelowProbability(current, baseline, expected, cfg) ==
    LET a == cfg.prior[1] + current.accepted
        b == cfg.prior[2] + current.eligible - current.accepted
        c == cfg.prior[1] + baseline.accepted
        d == cfg.prior[2] + baseline.eligible - baseline.accepted
        whole == Whole(a, b, c, d)
        increase == Part(a, b, c, d)
    IN  100 * (IF expected = "increase" THEN increase ELSE whole - increase)
            < cfg.minProbability * whole

-----------------------------------------------------------------------------
(* The detectors *)

Methods == {"simple_rate_change", "candidate_statistical"}

Reasons(method, current, baseline, expected, cfg) ==
    CommonReasons(current, baseline, expected, cfg)
    \cup IF method = "simple_rate_change"
         THEN {r \in {"zero_baseline"} : baseline.eligible > 0 /\ baseline.accepted = 0}
         ELSE {r \in {"below_probability_threshold"} :
                  BelowProbability(current, baseline, expected, cfg)}

Result(status, direction, reasons) ==
    [status |-> status, direction |-> direction, reasons |-> reasons]

(* detect_rate_change and detect_beta_binomial_change. *)
Detect(method, rows, anchor, expected, cfg) ==
    LET start == anchor - cfg.current
        current == Counts(rows, start, anchor)
        baseline == Counts(rows, start - cfg.baseline, start)
        gaps == Coverage(rows, anchor, cfg)
        reasons == Reasons(method, current, baseline, expected, cfg)
    IN  IF gaps # {} THEN Result("insufficient_coverage", "flat", gaps)
        ELSE Result(IF reasons = {} THEN "candidate" ELSE "not_candidate",
                    Direction(current, baseline), reasons)

=============================================================================
