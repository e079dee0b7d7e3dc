----------------------------- MODULE StudyChecks -----------------------------
(***************************************************************************)
(* The algorithms of the offline studies against reference definitions:    *)
(* trend detection and its backtest, the evaluation sample, its labels and *)
(* the scores of a prediction run. A state is one input.                   *)
(***************************************************************************)
EXTENDS CheckedInput, TrendBacktest, Annotations, Scoring,
        Integers, Sequences, FiniteSets, FiniteSetsExt, SequencesExt

CONSTANTS
    MaxShape,   \* of the Beta distributions
    LastDay,    \* that may be flagged
    Ranks,      \* of the candidates of a sample
    Rows,       \* of a scored split
    SplitRows,  \* of the selected sample
    Targets     \* of the splits

(* SPLIT_TARGETS has a number for each of the three splits, and the sample  *)
(* has as many rows as they are together (_select, _assign_splits).         *)
ASSUME SampleAssumption ==
    /\ Ranks \in Nat
    /\ Targets \in [1..3 -> Nat \ {0}] /\ SplitRows = SumFunction(Targets)
ASSUME RowsAssumption == Rows \in Nat

Shapes == [kind : {"shape"}, a : 1..MaxShape, b : 1..MaxShape, c : 1..MaxShape, d : 1..MaxShape]

(* Days with an alert, two events of one series, and days of grace. *)
Alerts == [kind : {"alerts"}, days : SUBSET (1..LastDay), first : 0..2, second : 1..4,
           firstFor : 0..2, secondFor : 0..2, grace : 0..1]

(* A study of one record a day, which is or is not of the watched scenario. *)
Studies == [kind : {"study"}, days : SUBSET (0..LastDay), start : 1..2, window : 1..2]

Samples == [kind : {"sample"}, cell : [1..Ranks -> {"x", "y"}],
            event : [1..Ranks -> {"e", Unset}], minimum : 1..2, size : 1..Ranks]

Annotation == [pass : 1..2, answers : {"x", "y", Invalid}, signed : BOOLEAN]
Adjudication == [answers : {"x", Invalid}, signed : BOOLEAN]
LabelInputs == [kind : {"label"}, second : BOOLEAN, labelSecond : BOOLEAN,
           annotations : BoundedSeq(Annotation, 2), adjudication : BoundedSeq(Adjudication, 1)]

Optional(set) == {<<>>} \cup {<<x>> : x \in set}
Classes == [kind : {"classes"}, truth : [1..Rows -> 1..2],
            said : [1..Rows -> Optional(1..2)], language : [1..Rows -> {"sv", "en"}]]
Levels == [kind : {"levels"}, truth : [1..Rows -> 1..3], said : [1..Rows -> Optional(1..3)]]
Pairs == [kind : {"pairs"}, pairs : [1..2 -> [confidence : {5 * n : n \in 0..20}, correct : BOOLEAN]]]
Requests == [kind : {"request"}, split : {"development", "locked_test", "all"},
             reference : {"human_gold", "ai_reference"}, model : BOOLEAN, partial : BOOLEAN, unlock : BOOLEAN,
             splitOf : [1..2 -> {"development", "locked_test"}], predicted : SUBSET (1..3)]
PredictionRows == [kind : {"rows"}, latency : [1..2 -> {1, 2, 7}], error : [1..2 -> Optional({"timeout", "other"})],
                   cost : [1..2 -> Optional({4})], engine : [1..2 -> 1..2], answered : [1..2 -> BOOLEAN]]
Nouls == [kind : {"nouls"}, truth : [1..Rows -> BOOLEAN], said : [1..Rows -> Optional({0, 40, 50, 100})]]

StudyInit ==
    \/ input \in Shapes  \/ input \in Alerts  \/ input \in Studies  \/ input \in Samples
    \/ input \in LabelInputs  \/ input \in {[kind |-> "splits"]}  \/ input \in Classes  \/ input \in Levels
    \/ input \in Pairs  \/ input \in Nouls  \/ input \in Requests  \/ input \in PredictionRows

-----------------------------------------------------------------------------
(* Trends *)

Smallest(set, k) == CHOOSE x \in set : Cardinality({y \in set : y <= x}) = k

(* The probability that the statistical detector compares with its limit    *)
(* (beta_greater_probability, a sum of quotients of Beta functions) is the  *)
(* probability by definition: a Beta variable with whole parameters is an   *)
(* order statistic of uniform ones, and all orders are equally likely.      *)
ProbabilityIsExact ==
    input.kind = "shape" =>
        LET first == input.a + input.b - 1
            all == 1..(first + input.c + input.d - 1)
            orders == kSubset(first, all)
            greater == {s \in orders : Smallest(s, input.a) > Smallest(all \ s, input.c)}
        IN  Part(input.a, input.b, input.c, input.d) * Cardinality(orders)
                = Cardinality(greater) * Whole(input.a, input.b, input.c, input.d)

Runs(days) ==
    {[start |-> p[1], end |-> p[2], days |-> p[2] - p[1] + 1] :
        p \in {q \in days \X days : /\ q[1]..q[2] \subseteq days /\ q[1] <= q[2]
                                    /\ q[1] - 1 \notin days /\ q[2] + 1 \notin days}}

Truths == {Truth([id |-> 1, series |-> "s", direction |-> "increase", start |-> input.first,
                    duration |-> input.firstFor], LastDay),
           Truth([id |-> 2, series |-> "s", direction |-> "increase", start |-> input.second,
                    duration |-> input.secondFor], LastDay)}
InWindow(truth, episode) ==
    truth.start <= episode.start /\ episode.start < truth.end + input.grace

(* Alert episodes are the maximal runs of flagged days; an episode answers  *)
(* at most one planted event, inside its window and grace; no event is left *)
(* out while an episode of its window is free; and where the windows end in *)
(* the order they begin, no other assignment finds more events              *)
(* (form_alert_episodes, match_episodes).                                   *)
AlertsAreMatched ==
    input.kind = "alerts" /\ input.first < input.second =>
        LET runs == Runs(input.days)
            episodes == {[start |-> e.start, end |-> e.end, days |-> e.days, series |-> "s",
                          direction |-> "increase"] : e \in EpisodesOf(input.days)}
            matches == MatchEpisodes(Truths, episodes, input.grace)
            used == Range(matches)
        IN  /\ EpisodesOf(input.days) = runs
            /\ IsInjective(matches)
            /\ \A t \in Truths :
                  IF t.id \in DOMAIN matches THEN InWindow(t, matches[t.id])
                  ELSE ~\E e \in episodes \ used : InWindow(t, e)
            /\ (\A t, u \in Truths : t.start < u.start => t.end <= u.end) =>
                  \A p, q \in episodes : p # q =>
                      ((\E t, u \in Truths : t # u /\ InWindow(t, p) /\ InWindow(u, q)) =>
                           DOMAIN matches = {1, 2})

StudyOf(days, start, window) ==
    [records |-> [i \in 1..(LastDay + 1) |->
                     [day |-> i - 1, source |-> "review", products |-> {},
                      scenario |-> IF i - 1 \in days THEN "late" ELSE "other"]],
     quiet |-> <<>>,
     mappings |-> <<[series |-> 1, source |-> "review", product |-> None,
                     scenarios |-> {"late"}, expected |-> "increase"]>>,
     events |-> <<[id |-> 1, series |-> 1, direction |-> "increase", start |-> start,
                   duration |-> 2]>>,
     days |-> LastDay + 1, grace |-> 1,
     cfg |-> [current |-> window, baseline |-> 1, minCurrent |-> 1, minBaseline |-> 1,
              minPositive |-> 1, minDelta |-> 1, minRelative |-> 1, prior |-> <<1, 1>>,
              minProbability |-> 60]]

(* Alerts and reports of a whole study: the events found are those that     *)
(* precision and recall both count, answers are not late by more than the   *)
(* event and its grace, an alert is a rise against the baseline window that *)
(* ends where the current one begins, and a report does not beat itself     *)
(* (run_synthetic_backtest, compare_reports).                               *)
ReportsAreConsistent ==
    input.kind = "study" =>
        \A method \in Methods :
            LET study == StudyOf(input.days, input.start, input.window)
                report == Report(method, study)
                mapping == study.mappings[1]
                found == report.recall[1]
                hits(from, to) == Cardinality({d \in input.days : from <= d /\ d < to})
            IN  /\ ConfigLoads(study.mappings, study.events) /\ ConfigIsValid(study.cfg)
                /\ \A e \in Evaluations(method, study.records, study.mappings, study.days, study.cfg) :
                      LET start == e.anchor - input.window
                      IN  e.result.status = "candidate" =>
                              hits(start, e.anchor) > input.window * hits(start - 1, start)
                /\ report.precision # <<>> => report.precision[1] = found
                /\ report.delay # <<>> => /\ report.delay[2] = found
                                          /\ report.delay[1] \in 0..(2 * found)
                /\ ~Promoted(report, report)

-----------------------------------------------------------------------------
(* The evaluation sample *)

Within(split, n, k) ==
    LET all == SumFunction(Targets)
    IN  /\ n * all < k * Targets[split] + 2 * all
        /\ k * Targets[split] < n * all + 2 * all

(* A sample has its size and the minimum of every stratum, and leaves out   *)
(* no record for a worse ranked one that no stratum needs (_select,         *)
(* _take_minimum).                                                          *)
SelectionIsProportional ==
    input.kind = "sample" =>
        LET rules == {[of |-> input.cell, minimum |-> input.minimum],
                      [of |-> input.event, minimum |-> 1]}
            selected == Select(1..Ranks, rules, input.size)
            inStratum(r, c) == {d \in 1..Ranks : r.of[d] = r.of[c]}
        IN  \A chosen \in Range(selected) :
                /\ Cardinality(chosen) = input.size
                /\ \A r \in rules, c \in 1..Ranks : r.of[c] # Unset =>
                      Cardinality(inStratum(r, c) \cap chosen) >= r.minimum
                /\ \A c \in chosen, d \in (1..Ranks) \ chosen : d < c =>
                      \E r \in rules : /\ r.of[c] # Unset
                                       /\ Cardinality({e \in inStratum(r, c) : e <= c}) <= r.minimum

(* The rows of any stratum, which are consecutive when splits are assigned, *)
(* are divided in proportion to the split targets, to less than two rows,   *)
(* and every split has its share of rows that are labelled twice            *)
(* (_assign_splits, _assign_second_pass).                                   *)
SplitsAreProportional ==
    input.kind = "splits" =>
        LET splits == AssignSplits(SplitRows, Targets)
            upTo(s, i) == Cardinality({j \in 1..i : splits[j] = s})
            twice == AssignSecondPass(DOMAIN splits, splits, [s \in DOMAIN Targets |-> Targets[s] \div 2])
        IN  /\ \A s \in DOMAIN Targets, from, to \in 0..SplitRows : from <= to =>
                  Within(s, upTo(s, to) - upTo(s, from), to - from)
            /\ \A s \in DOMAIN Targets :
                  Cardinality({i \in twice : splits[i] = s}) = Targets[s] \div 2

(* A label that the scorer takes as reference is complete for the readiness *)
(* check, and its answers are those of every annotator or of the reviewer   *)
(* of their disagreement. A complete label is refused by the scorer only if *)
(* it says another number of passes than its record, or holds the second    *)
(* pass alone (annotations.py, _resolved_gold).                             *)
LabelsAreScorable ==
    input.kind = "label" =>
        LET record == [split |-> "development", second |-> input.second]
            label == [split |-> "development", second |-> input.labelSecond,
                      annotations |-> input.annotations, adjudication |-> input.adjudication]
            gold == ResolvedGold(record, label)
            ready == Readiness(<<record>>, <<label>>, 1)
        IN  IF gold # <<>>
            THEN /\ ready # <<>> /\ ready[1].ready
                 /\ \/ \A a \in Range(label.annotations) : a.answers = gold[1]
                    \/ Disagree(label) /\ gold[1] = label.adjudication[1].answers
            ELSE \/ ready = <<>>
                 \/ ~ready[1].ready
                 \/ label.second # record.second
                 \/ Passes(label) = {2}

-----------------------------------------------------------------------------
(* Scores *)

AtMost(p, q) == p[1] * q[2] <= q[1] * p[2]
One(p) == p[1] = p[2]

(* A failed prediction counts as a wrong one: the right answer in its place *)
(* lowers no measure, and any answer leaves the accuracy and the recall of  *)
(* the right class at least as they were; every row is in the support of a  *)
(* class, and the reports by language add up to that of the split           *)
(* (_classification, score_evaluation).                                     *)
FailuresNeverHelp ==
    input.kind = "classes" =>
        LET report(said) == Classification(input.truth, said, 1..2)
            now == report(input.said)
            slices == LanguageSlices(input.truth, input.said, 1..2, input.language)
        IN  /\ \A i \in DOMAIN input.said : input.said[i] = <<>> =>
                  /\ \A c \in 1..2 :
                        LET other == report([input.said EXCEPT ![i] = <<c>>])
                        IN  /\ AtMost(now.accuracy, other.accuracy)
                            /\ AtMost(now.perClass[input.truth[i]].recall, other.perClass[input.truth[i]].recall)
                  /\ LET right == report([input.said EXCEPT ![i] = <<input.truth[i]>>])
                     IN  /\ AtMost(now.macro, right.macro)
                         /\ \A c \in 1..2 : /\ AtMost(now.perClass[c].recall, right.perClass[c].recall)
                                            /\ AtMost(now.perClass[c].precision, right.perClass[c].precision)
            /\ now.perClass[1].support + now.perClass[2].support = Len(input.truth)
            /\ SumFunction([l \in DOMAIN slices |-> slices[l].accuracy[1]]) = now.accuracy[1]
            /\ SumFunction([l \in DOMAIN slices |-> slices[l].evaluated]) = now.evaluated

(* What is scored are predictions of the split that was asked for, all of   *)
(* them unless the reference is a model's; records of the locked test are   *)
(* scored against human labels only when they were unlocked. The rows of one*)
(* engine are counted once, as an answer or as an error of its kind, and    *)
(* latencies grow with the quantile (score_evaluation).                     *)
ScoredAreSelected ==
    /\ input.kind = "request" =>
          LET scored == Selected([input EXCEPT !.kind = input.reference], input.splitOf, DOMAIN input.splitOf,
                                   input.predicted)
              locked == {i \in scored : input.splitOf[i] = "locked_test"}
          IN  /\ scored \subseteq input.predicted
              /\ input.split # "all" => \A i \in scored : input.splitOf[i] = input.split
              /\ (input.reference = "human_gold" /\ scored # {}) =>
                    /\ \A i \in DOMAIN input.splitOf : i \in scored \/ input.splitOf[i] # input.split
                    /\ locked # {} => input.unlock
    /\ input.kind = "rows" =>
          LET row(i) == [split |-> "development", latency |-> input.latency[i], tokens |-> 1, cost |-> input.cost[i],
                         engine |-> [model |-> input.engine[i], schema |-> "s"], error |-> input.error[i],
                         status |-> IF input.error[i] = <<>> THEN "success" ELSE "error",
                         answered |-> input.answered[i]]
              rows == [i \in 1..2 |-> row(i)]
              report == Operations(rows)
              answered == Cardinality({i \in 1..2 : input.answered[i]})
          IN  RowsAreValid(rows, [i \in 1..2 |-> "development"], "s") =>
                  /\ answered + SumFunction(report.errors) = 2
                  /\ report.latency[50][1] <= report.latency[95][1] /\ report.latency[95][1] <= report.latency[99][1]
                  /\ \E i, j \in 1..2 : /\ 100 * input.latency[i] <= report.latency[50][1]
                                       /\ report.latency[99][1] <= 100 * input.latency[j]
                  /\ report.cost # <<>> => report.cost[1] = 8

(* The answers of an engine that is certain of what it said. *)
CertainAnswers(classes) ==
    [i \in DOMAIN input.said |->
        IF input.said[i] = <<>> THEN <<>>
        ELSE <<[value |-> input.said[i][1], confidence |-> 100,
                probabilities |-> [c \in classes |-> IF <<c>> = input.said[i] THEN 100 ELSE 0]]>>]

NoulAnswers(said) == [i \in DOMAIN said |-> IF said[i] = <<>> THEN <<>> ELSE <<NoulAnswer(said[i][1])>>]

(* Kappa is missing only without answers and is 1 only on full agreement;   *)
(* each confidence is in one bin of the calibration error; a higher         *)
(* threshold accepts no more answers; the area under the ROC curve does not *)
(* depend on the order of the rows, and becomes its complement when the     *)
(* labels are swapped; and answers given for certain have a perfect report  *)
(* exactly when they are right.                                             *)
MeasuresAreStandard ==
    /\ input.kind = "levels" =>
          LET report == ScoreReport(input.truth, CertainAnswers(1..3), 1..3)
              kappa == report.kappa
              rows == Answered(input.said)
          IN  /\ (kappa = <<>>) = (rows = {})
              /\ rows # {} => /\ kappa[1] <= kappa[2]
                              /\ \A perfect \in {One(kappa), report.mae[1] = 0, report.brier[1] = 0, report.ece[1] = 0} :
                                    perfect = (Correct(input.truth, input.said) = rows)
    /\ input.kind = "classes" =>
          LET report == ChoiceReport(input.truth, CertainAnswers(1..2), 1..2)
              right == Correct(input.truth, input.said)
          IN  /\ report.classification = Classification(input.truth, input.said, 1..2)
              /\ report.brier # <<>> => (report.brier[1] = 0) = (Answered(input.said) = right)
              /\ report.selective[99].accepted = report.selective[0].accepted
    /\ input.kind = "pairs" =>
          LET selective == Selective(input.pairs)
          IN  /\ \A i \in DOMAIN input.pairs :
                    Cardinality({bin \in 0..9 : InBin(input.pairs[i], bin)}) = 1
              /\ AtMost(Ece(input.pairs), <<1, 1>>)
              /\ \A t, u \in Thresholds : t <= u => selective[u].accepted <= selective[t].accepted
    /\ input.kind = "nouls" =>
          LET report == NoulReport(input.truth, NoulAnswers(input.said))
              swapped == NoulReport([i \in DOMAIN input.truth |-> ~input.truth[i]], NoulAnswers(input.said))
              reversed == NoulReport(Reverse(input.truth), NoulAnswers(Reverse(input.said)))
          IN  /\ report.auroc # <<>> => report.auroc[1] + swapped.auroc[1] = report.auroc[2]
              /\ report.auroc = reversed.auroc
              /\ report.brier # <<>> /\ report.brier[1] = 0 =>
                    /\ report.ece[1] = 0 /\ report.cells.fp = 0
                    /\ report.auroc # <<>> => One(report.auroc)
                    /\ report.auprc # <<>> => One(report.auprc)

=============================================================================
