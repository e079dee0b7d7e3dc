------------------------------- MODULE Scoring -------------------------------
(***************************************************************************)
(* The scorer of a prediction run against reference answers:               *)
(* evaluation/scoring.py. Truth and answers are functions of the rows,     *)
(* numbers in the order of the record ids; a failed prediction has the     *)
(* answer Nothing. Classes and rubric levels are numbers, probabilities and*)
(* confidences percentages, and measures exact fractions, pairs or Nothing *)
(* where the code has none.                                                *)
(***************************************************************************)
EXTENDS Optional, Integers, FiniteSets, Functions

(* _ratio is zero over nothing. *)
Share(n, d) == IF d = 0 THEN <<0, 1>> ELSE <<n, d>>
Over(n, d) == IF d = 0 THEN Nothing ELSE <<n, d>>
Plus(p, q) == <<p[1] * q[2] + q[1] * p[2], p[2] * q[2]>>
Square(n) == n * n
Distance(a, b) == IF a < b THEN b - a ELSE a - b

Sum(f) == FoldFunction(Plus, <<0, 1>>, f)

-----------------------------------------------------------------------------
(* Requests *)

Splits == {"development", "calibration", "locked_test", "all"}

RequestIsValid(q) ==
    /\ q.split \in Splits
    /\ q.kind \in {"human_gold", "ai_reference"}
    /\ (q.kind = "ai_reference") = q.model
    /\ q.partial \/ q.split = "all" => q.kind = "ai_reference"
    /\ q.split = "locked_test" /\ q.kind = "human_gold" => q.unlock

(* The ids that are scored: {} when the request is refused. splitOf maps    *)
(* the ids of the records to their splits.                                 *)
Selected(q, splitOf, labelled, predicted) ==
    LET target == {i \in DOMAIN splitOf : q.split \in {"all", splitOf[i]}}
    IN  IF \/ ~RequestIsValid(q) \/ labelled # DOMAIN splitOf
           \/ ~(predicted \subseteq target) \/ (~q.partial /\ predicted # target)
        THEN {}
        ELSE predicted

(* The checks of the rows: one engine and schema, answers on success only.  *)
RowsAreValid(rows, splitOf, schema) ==
    /\ \A i \in DOMAIN rows :
          /\ rows[i].split = splitOf[i] /\ rows[i].engine.schema = schema
          /\ rows[i].status \in {"success", "error"}
          /\ rows[i].answered = (rows[i].status = "success")
    /\ \A i, j \in DOMAIN rows : rows[i].engine = rows[j].engine

-----------------------------------------------------------------------------
(* Answers *)

IsDistributionOver(probabilities, classes) ==
    /\ DOMAIN probabilities = classes
    /\ Distance(SumFunction(probabilities), 100) <= 2

(* The level of a score is the first of the most probable ones. *)
Level(probabilities) ==
    CHOOSE level \in DOMAIN probabilities :
        \A other \in DOMAIN probabilities :
            \/ probabilities[level] > probabilities[other]
            \/ probabilities[level] = probabilities[other] /\ level <= other

NoulAnswer(p) == [value |-> p >= 50, probability |-> p, confidence |-> IF p < 50 THEN 100 - p ELSE p]

(* An answer is Nothing or a sequence of one. *)
Answered(answers) == {i \in DOMAIN answers : answers[i] # Nothing}

Said(answers) ==
    [i \in DOMAIN answers |-> IF answers[i] = Nothing THEN Nothing ELSE <<answers[i][1].value>>]
SaidLevel(answers) ==
    [i \in DOMAIN answers |-> IF answers[i] = Nothing THEN Nothing
                              ELSE <<Level(answers[i][1].probabilities)>>]

-----------------------------------------------------------------------------
(* Classification: predictions are classes, or Nothing *)

Correct(truth, predictions) ==
    {i \in Answered(predictions) : predictions[i] = <<truth[i]>>}

(* Fault: a failed prediction is not counted as missed. *)
CellsOfAnswered(truth, predictions, class) ==
    LET rows == Answered(predictions)
        is == {i \in rows : truth[i] = class}
        said == {i \in rows : predictions[i] = <<class>>}
    IN  [tp |-> Cardinality(is \cap said), fp |-> Cardinality(said \ is),
         fn |-> Cardinality(is \ said)]

Cells(truth, predictions, class) ==
    LET is == {i \in DOMAIN truth : truth[i] = class}
        said == {i \in DOMAIN predictions : predictions[i] = <<class>>}
    IN  [tp |-> Cardinality(is \cap said), fp |-> Cardinality(said \ is),
         fn |-> Cardinality(is \ said)]

PerClass(truth, predictions, class) ==
    LET c == Cells(truth, predictions, class)
    IN  [support |-> c.tp + c.fn, precision |-> Share(c.tp, c.tp + c.fp),
         recall |-> Share(c.tp, c.tp + c.fn), f1 |-> Share(2 * c.tp, 2 * c.tp + c.fp + c.fn)]

(* The sum of the f1 of the classes stands for their mean. *)
Classification(truth, predictions, classes) ==
    LET per == [c \in classes |-> PerClass(truth, predictions, c)]
    IN  [evaluated |-> Cardinality(Answered(predictions)),
         accuracy |-> <<Cardinality(Correct(truth, predictions)), Cardinality(DOMAIN truth)>>,
         macro |-> Sum([c \in classes |-> per[c].f1]), perClass |-> per,
         matrix |-> [p \in classes \X classes |->
             Cardinality({i \in DOMAIN truth : truth[i] = p[1] /\ predictions[i] = <<p[2]>>})]]

(* One report of the primary topic per language. *)
LanguageSlices(truth, predictions, classes, languageOf) ==
    LET rows(l) == {i \in DOMAIN truth : languageOf[i] = l}
    IN  [l \in Range(languageOf) |->
            Classification(Restrict(truth, rows(l)), Restrict(predictions, rows(l)), classes)]

-----------------------------------------------------------------------------
(* Calibration: pairs [confidence, correct] of the answered rows *)

Judged(truth, answers, said) ==
    [i \in Answered(answers) |->
        [confidence |-> answers[i][1].confidence, correct |-> said[i] = <<truth[i]>>]]

(* Fault: the upper end belongs to a bin as well. *)
InBinClosed(pair, bin) == 10 * bin <= pair.confidence /\ pair.confidence <= 10 * (bin + 1)

InBin(pair, bin) ==
    /\ 10 * bin <= pair.confidence /\ pair.confidence <= 10 * (bin + 1)
    /\ bin = 9 \/ pair.confidence < 10 * (bin + 1)

(* The differences of confidence and accuracy, weighted by the bins. *)
Ece(pairs) ==
    LET group(bin) == {i \in DOMAIN pairs : InBin(pairs[i], bin)}
        gap(bin) == Distance(SumFunction([i \in group(bin) |-> pairs[i].confidence]),
                             100 * Cardinality({i \in group(bin) : pairs[i].correct}))
    IN  Over(SumFunction([bin \in 0..9 |-> gap(bin)]), 100 * Cardinality(DOMAIN pairs))

Thresholds == {0, 50, 60, 70, 80, 90, 95, 99}

Selective(pairs) ==
    [t \in Thresholds |->
        LET accepted == {i \in DOMAIN pairs : pairs[i].confidence >= t}
            correct == {i \in accepted : pairs[i].correct}
        IN  [accepted |-> Cardinality(accepted),
             coverage |-> Share(Cardinality(accepted), Cardinality(DOMAIN pairs)),
             accuracy |-> Over(Cardinality(correct), Cardinality(accepted)),
             risk |-> Over(Cardinality(accepted \ correct), Cardinality(accepted))]]

MulticlassBrier(truth, answers, classes) ==
    LET rows == Answered(answers)
        error(i, c) == Square(answers[i][1].probabilities[c] - IF c = truth[i] THEN 100 ELSE 0)
    IN  Over(SumFunction([r \in rows \X classes |-> error(r[1], r[2])]),
             10000 * Cardinality(classes) * Cardinality(rows))

-----------------------------------------------------------------------------
(* Measures of scores and of noul answers *)

(* Levels are consecutive numbers, so their differences are those of their  *)
(* positions; the scale of the weights cancels.                             *)
QuadraticWeightedKappa(truth, predictions, levels) ==
    LET rows == Answered(predictions)
        said(i) == predictions[i][1]
        observed == Cardinality(rows) * SumFunction([i \in rows |-> Square(truth[i] - said(i))])
        expected == SumFunction([p \in levels \X levels |->
                        Cardinality({i \in rows : truth[i] = p[1]})
                        * Cardinality({i \in rows : said(i) = p[2]}) * Square(p[1] - p[2])])
    IN  IF rows = {} \/ Cardinality(levels) < 2 THEN Nothing
        ELSE IF expected # 0 THEN <<expected - observed, expected>>
        ELSE IF observed = 0 THEN <<1, 1>> ELSE Nothing

(* Fault: ties count as wins. *)
AurocWithTies(pairs) ==
    LET positives == {i \in DOMAIN pairs : pairs[i].label}
        negatives == DOMAIN pairs \ positives
        won == {p \in positives \X negatives : pairs[p[1]].score >= pairs[p[2]].score}
    IN  Over(Cardinality(won), Cardinality(positives) * Cardinality(negatives))

Auroc(pairs) ==
    LET positives == {i \in DOMAIN pairs : pairs[i].label}
        negatives == DOMAIN pairs \ positives
        won == {p \in positives \X negatives : pairs[p[1]].score > pairs[p[2]].score}
        tied == {p \in positives \X negatives : pairs[p[1]].score = pairs[p[2]].score}
    IN  Over(2 * Cardinality(won) + Cardinality(tied), 2 * Cardinality(positives) * Cardinality(negatives))

(* Equal scores keep the order of the rows. *)
Auprc(pairs) ==
    LET positives == {i \in DOMAIN pairs : pairs[i].label}
        upTo(i) == {j \in DOMAIN pairs : \/ pairs[j].score > pairs[i].score
                                         \/ pairs[j].score = pairs[i].score /\ j <= i}
        total == Sum([i \in positives |->
                     <<Cardinality(upTo(i) \cap positives), Cardinality(upTo(i))>>])
    IN  Over(total[1], total[2] * Cardinality(positives))

(* The value at a position of the sorted values, from 0. *)
Ordered(values, position) ==
    CHOOSE v \in Range(values) :
        /\ Cardinality({i \in DOMAIN values : values[i] < v}) <= position
        /\ position < Cardinality({i \in DOMAIN values : values[i] <= v})

(* In hundredths, between the two values at the rank of the quantile.       *)
Percentile(values, quantile) ==
    LET position == (Cardinality(DOMAIN values) - 1) * quantile
        lower == Ordered(values, position \div 100)
        upper == Ordered(values, position \div 100 + 1)
    IN  IF DOMAIN values = {} THEN Nothing
        ELSE IF position % 100 = 0 THEN <<100 * lower>>
        ELSE <<100 * lower + (upper - lower) * (position % 100)>>

-----------------------------------------------------------------------------
(* Reports *)

ChoiceReport(truth, answers, classes) ==
    LET said == Said(answers)
        pairs == Judged(truth, answers, said)
    IN  [classification |-> Classification(truth, said, classes),
         brier |-> MulticlassBrier(truth, answers, classes),
         ece |-> Ece(pairs), selective |-> Selective(pairs)]

ScoreReport(truth, answers, levels) ==
    LET said == SaidLevel(answers)
        rows == Answered(answers)
        pairs == Judged(truth, answers, said)
    IN  [evaluated |-> Cardinality(rows),
         mae |-> Over(SumFunction([i \in rows |-> Distance(answers[i][1].value, truth[i])]),
                      Cardinality(rows)),
         kappa |-> QuadraticWeightedKappa(truth, said, levels),
         accuracy |-> <<Cardinality(Correct(truth, said)), Cardinality(DOMAIN truth)>>,
         brier |-> MulticlassBrier(truth, answers, levels),
         ece |-> Ece(pairs), selective |-> Selective(pairs)]

NoulReport(truth, answers) ==
    LET said == Said(answers)
        c == Cells(truth, said, TRUE)
        rows == Answered(answers)
        scored == [i \in rows |-> [label |-> truth[i], score |-> answers[i][1].probability]]
        error(p) == Square(p.score - IF p.label THEN 100 ELSE 0)
        pairs == Judged(truth, answers, said)
    IN  [perClass |-> PerClass(truth, said, TRUE),
         accuracy |-> <<Cardinality(Correct(truth, said)), Cardinality(DOMAIN truth)>>,
         auroc |-> Auroc(scored), auprc |-> Auprc(scored),
         brier |-> Over(SumFunction([i \in rows |-> error(scored[i])]), 10000 * Cardinality(rows)),
         ece |-> Ece(pairs), selective |-> Selective(pairs), cells |-> c]

(* Costs are given only when every row has one. *)
Operations(rows) ==
    LET priced == {i \in DOMAIN rows : rows[i].cost # Nothing}
        failed == {i \in DOMAIN rows : rows[i].error # Nothing}
    IN  [latency |-> [q \in {50, 95, 99} |-> Percentile([i \in DOMAIN rows |-> rows[i].latency], q)],
         tokens |-> SumFunction([i \in DOMAIN rows |-> rows[i].tokens]),
         cost |-> IF priced = DOMAIN rows THEN <<SumFunction([i \in priced |-> rows[i].cost[1]])>>
                  ELSE Nothing,
         errors |-> [e \in {rows[i].error : i \in failed} |->
                        Cardinality({i \in failed : rows[i].error = e})]]

=============================================================================
