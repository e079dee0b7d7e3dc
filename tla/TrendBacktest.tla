---------------------------- MODULE TrendBacktest ----------------------------
(***************************************************************************)
(* The evaluation of the detectors on planted incidents: trends/backtest.py*)
(* and the promotion gate of trends/comparison.py. A record of the         *)
(* synthetic dataset is its day with its source, scenario and products; a  *)
(* series selects records, an event is planted in a series. Fractions are  *)
(* pairs, Nothing where the code has none.                                 *)
(***************************************************************************)
EXTENDS Trends, Sequences, SequencesExt, TLC

Ratio(part, whole) == IF whole = 0 THEN Nothing ELSE <<part, whole>>

(* load_backtest_config: series and events are named once, an event moves  *)
(* in the direction its series is watched for.                             *)
ConfigLoads(mappings, events) ==
    /\ mappings # <<>> /\ events # <<>>
    /\ IsInjective([i \in DOMAIN mappings |-> mappings[i].series])
    /\ IsInjective([i \in DOMAIN events |-> events[i].id])
    /\ \A m \in Range(mappings) : m.expected \in {"increase", "decrease"}
    /\ \A e \in Range(events) : \E m \in Range(mappings) :
          m.series = e.series /\ m.expected = e.direction
    /\ \A m \in Range(mappings) : \E e \in Range(events) : m.series = e.series

(* Every day of the study has a row, also one without records. *)
Observations(records, mapping, days) ==
    [day \in 0..(days - 1) |->
        LET eligible == {i \in DOMAIN records :
                            /\ records[i].day = day
                            /\ records[i].source = mapping.source
                            /\ mapping.product \in {None} \cup records[i].products}
            accepted == {i \in eligible : records[i].scenario \in mapping.scenarios}
        IN  [accepted |-> Cardinality(accepted), eligible |-> Cardinality(eligible),
             known |-> TRUE]]

(* Both windows lie within the study, which may end on the anchor.         *)
Anchors(days, cfg) == (cfg.baseline + cfg.current)..days

Evaluations(method, records, mappings, days, cfg) ==
    {[series |-> m.series, anchor |-> anchor,
      result |-> Detect(method, Observations(records, m, days), anchor, m.expected, cfg)] :
        m \in Range(mappings), anchor \in Anchors(days, cfg)}

-----------------------------------------------------------------------------
(* Episodes of alerts *)

(* Fault: a gap of one day does not end an episode. *)
ExtendedOverGap(episodes, day) ==
    IF episodes # <<>> /\ day <= Last(episodes).end + 2
    THEN [episodes EXCEPT ![Len(episodes)] =
             [start |-> @.start, end |-> day, days |-> @.days + 1]]
    ELSE Append(episodes, [start |-> day, end |-> day, days |-> 1])

(* One round of the loop over the flagged days in their order.             *)
Extended(episodes, day) ==
    IF episodes # <<>> /\ day = Last(episodes).end + 1
    THEN [episodes EXCEPT ![Len(episodes)] =
             [start |-> @.start, end |-> day, days |-> @.days + 1]]
    ELSE Append(episodes, [start |-> day, end |-> day, days |-> 1])

EpisodesOf(days) == Range(FoldLeft(Extended, <<>>, SetToSortSeq(days, <)))

FormAlertEpisodes(evaluations) ==
    LET alerts == {e \in evaluations : e.result.status = "candidate"}
        groups == {<<e.series, e.result.direction>> : e \in alerts}
        days(g) == {e.anchor : e \in {f \in alerts : <<f.series, f.result.direction>> = g}}
    IN  UNION {{[series |-> g[1], direction |-> g[2], start |-> e.start, end |-> e.end,
                 days |-> e.days] : e \in EpisodesOf(days(g))} : g \in groups}

-----------------------------------------------------------------------------
(* Matching with the planted events *)

(* An event without a duration (0) goes on to the end of the study. *)
Truth(event, days) ==
    [id |-> event.id, series |-> event.series, direction |-> event.direction,
     start |-> event.start,
     end |-> IF event.duration = 0 THEN days ELSE event.start + event.duration]

TruthOrder(t, u) == t.start < u.start \/ (t.start = u.start /\ t.id <= u.id)

(* Fault: the grace days are granted before the event. *)
AnsweringEarly(truth, episodes, grace) ==
    {e \in episodes : /\ e.series = truth.series /\ e.direction = truth.direction
                      /\ truth.start - grace <= e.start /\ e.start < truth.end}

Answering(truth, episodes, grace) ==
    {e \in episodes : /\ e.series = truth.series /\ e.direction = truth.direction
                      /\ truth.start <= e.start /\ e.start < truth.end + grace}

(* Each event, by its start, takes the first episode that is left for it;  *)
(* starts differ within a series and direction. The events without one are *)
(* not in the domain of the result.                                        *)
MatchEpisodes(truths, episodes, grace) ==
    LET take(matches, truth) ==
            LET free == Answering(truth, episodes \ Range(matches), grace)
            IN  IF free = {} THEN matches
                ELSE matches @@ (truth.id :> CHOOSE e \in free : \A f \in free : e.start <= f.start)
    IN  FoldLeft(take, <<>>, SetToSortSeq(truths, TruthOrder))

-----------------------------------------------------------------------------
(* Reports *)

Metrics(truths, episodes, evaluations, grace) ==
    LET matches == MatchEpisodes(truths, episodes, grace)
        found == {t \in truths : t.id \in DOMAIN matches}
        false == episodes \ Range(matches)
        evaluable == {e \in evaluations : e.result.status # "insufficient_coverage"}
    IN  [recall |-> Ratio(Cardinality(found), Cardinality(truths)),
         precision |-> Ratio(Cardinality(found), Cardinality(episodes)),
         falseRate |-> Ratio(100 * Cardinality(false), Cardinality(evaluable)),
         delay |-> Ratio(MapThenSumSet(LAMBDA t : matches[t.id].start - t.start, found),
                         Cardinality(found))]

(* Alerts on a dataset that was generated without events. *)
NoIncidentRate(evaluations) ==
    Ratio(100 * Cardinality(FormAlertEpisodes(evaluations)),
          Cardinality({e \in evaluations : e.result.status # "insufficient_coverage"}))

(* run_synthetic_backtest; the mappings of a configuration that does not   *)
(* name the planted events make build_truth raise.                         *)
Report(method, study) ==
    LET evaluations == Evaluations(method, study.records, study.mappings, study.days, study.cfg)
        quiet == Evaluations(method, study.quiet, study.mappings, study.days, study.cfg)
        truths == {Truth(e, study.days) : e \in Range(study.events)}
    IN  Metrics(truths, FormAlertEpisodes(evaluations), evaluations, study.grace)
        @@ [quietRate |-> NoIncidentRate(quiet)]

Less(p, q) == p[1] * q[2] < q[1] * p[2]

(* compare_reports: the names of the criteria the candidate meets; a value *)
(* that is missing makes the comparison raise.                             *)
Comparable(baseline, candidate) ==
    \A key \in DOMAIN baseline : baseline[key] # Nothing /\ candidate[key] # Nothing
Met(baseline, candidate) ==
    LET criteria == [recall |-> ~Less(candidate.recall, baseline.recall),
                     precision |-> Less(baseline.precision, candidate.precision),
                     falseRate |-> Less(candidate.falseRate, baseline.falseRate),
                     delay |-> ~Less(baseline.delay, candidate.delay),
                     quietRate |-> Less(candidate.quietRate, baseline.quietRate)]
    IN  {c \in DOMAIN criteria : criteria[c]}
Promoted(baseline, candidate) ==
    /\ Comparable(baseline, candidate)
    /\ Met(baseline, candidate) = DOMAIN baseline

=============================================================================
