------------------------------- MODULE Analysis -------------------------------
(***************************************************************************)
(* Explainable results of a Workbench run: workbench/analysis.py, and the  *)
(* requests of workbench/server.py that read them. A row has a value, or   *)
(* None, for each field of a filter, its day (None when undated), a rating *)
(* and the run it was reused from.                                         *)
(***************************************************************************)
EXTENDS Trends, Sequences, SequencesExt

Fields == {"topic", "sentiment", "language", "product", "group"}
Nullable == Fields \ {"topic"}
AnyValue == "any"

-----------------------------------------------------------------------------
(* Filters: `values' has a value or AnyValue for each field, `from' and `to' are *)
(* days or 0                                                                *)

SelectionIsValid(q) ==
    /\ q.missing \subseteq Nullable
    /\ \A f \in q.missing : q.values[f] = AnyValue
    /\ q.from # 0 /\ q.to # 0 => q.from <= q.to

(* Fault: a row without a value passes every filter of the field. *)
MatchesOrMissing(row, q) ==
    /\ \A f \in Fields : \/ row[f] = None
                         \/ q.values[f] \in {AnyValue, row[f]}
    /\ q.from = 0 \/ q.from <= row.day
    /\ q.to = 0 \/ row.day <= q.to

Matches(row, q) ==
    /\ \A f \in Fields : IF f \in q.missing THEN row[f] = None ELSE q.values[f] \in {AnyValue, row[f]}
    /\ q.from # 0 \/ q.to # 0 => row.day # 0
    /\ q.from = 0 \/ q.from <= row.day
    /\ q.to = 0 \/ row.day <= q.to

FilterRows(rows, q) ==
    FoldLeft(LAMBDA kept, row : IF Matches(row, q) THEN Append(kept, row) ELSE kept, <<>>, rows)

(* How often each value of a field, or none, occurs in the rows of some     *)
(* positions.                                                               *)
CountBy(rows, positions, f) ==
    [v \in {rows[i][f] : i \in positions} |-> Cardinality({i \in positions : rows[i][f] = v})]

(* observed_facets: the counts of every field.                              *)
Facets(rows) == [f \in Fields |-> CountBy(rows, DOMAIN rows, f)]

(* A page of the results; a page after the last one is the last one.        *)
Pages(rows, size) == IF rows = <<>> THEN 1 ELSE (Len(rows) + size - 1) \div size
PageNumber(rows, page, size) ==
    LET wanted == IF page < 1 THEN 1 ELSE page
    IN  IF wanted > Pages(rows, size) THEN Pages(rows, size) ELSE wanted
Page(rows, page, size) ==
    LET first == (PageNumber(rows, page, size) - 1) * size
    IN  SubSeq(rows, first + 1, IF first + size > Len(rows) THEN Len(rows) ELSE first + size)

-----------------------------------------------------------------------------
(* Summaries *)

Summary(rows) ==
    LET days == {row.day : row \in Range(rows)} \ {0}
        on(d) == {i \in DOMAIN rows : rows[i].day = d}
        rated == {i \in DOMAIN rows : rows[i].rating # 0}
        fresh == {i \in DOMAIN rows : ~rows[i].reused}
    IN  [processed |-> Len(rows),
         dated |-> Cardinality({i \in DOMAIN rows : rows[i].day # 0}),
         topics |-> CountBy(rows, DOMAIN rows, "topic"), sentiments |-> CountBy(rows, DOMAIN rows, "sentiment"),
         days |-> [d \in days |-> [total |-> Cardinality(on(d)), topics |-> CountBy(rows, on(d), "topic")]],
         ratings |-> Cardinality(rated),
         mean |-> <<SumFunction([i \in rated |-> rows[i].rating - 1]), 4 * Cardinality(rated)>>,
         tokens |-> SumFunction([i \in fresh |-> rows[i].tokens]),
         reused |-> Len(rows) - Cardinality(fresh)]

-----------------------------------------------------------------------------
(* Trends of a run: anchored after its last day, over observed days only    *)

Protocol(method, scale) ==
    [current |-> scale.current, baseline |-> scale.baseline, minCurrent |-> scale.minCurrent,
     minBaseline |-> scale.minBaseline, minPositive |-> scale.minPositive,
     minDelta |-> 5, minRelative |-> 20,
     prior |-> IF method = "candidate_statistical" THEN <<1, 1>> ELSE Nothing,
     minProbability |-> 95]

(* Fault: the rate of a topic is taken among the rows with a sentiment. *)
ObservedWithSentiment(rows, topic, from) ==
    [d \in {row.day : row \in {r \in Range(rows) : r.day # 0 /\ r.day >= from}} |->
        LET on == {i \in DOMAIN rows : rows[i].day = d}
        IN  [eligible |-> Cardinality({i \in on : rows[i].sentiment # None}), known |-> TRUE,
             accepted |-> Cardinality({i \in on : rows[i].topic = topic})]]

Observed(rows, topic, from) ==
    [d \in {row.day : row \in {r \in Range(rows) : r.day # 0 /\ r.day >= from}} |->
        LET on == {i \in DOMAIN rows : rows[i].day = d}
        IN  [eligible |-> Cardinality(on), known |-> TRUE,
             accepted |-> Cardinality({i \in on : rows[i].topic = topic})]]

(* Nothing where the request is refused: rates need every topic.            *)
TrendsOf(rows, q, method, scale) ==
    LET dated == {row \in Range(rows) : row.day # 0}
        end == 1 + CHOOSE d \in {r.day : r \in dated} : \A r \in dated : r.day <= d
        cfg == Protocol(method, scale)
        result(topic, direction) ==
            Detect(method, Observed(rows, topic, end - cfg.current - cfg.baseline), end,
                   direction, cfg)
    IN  IF method \notin Methods \/ q.values["topic"] # AnyValue THEN Nothing
        ELSE IF dated = {} THEN <<{}>>
        ELSE <<{[topic |-> t, expected |-> direction, result |-> result(t, direction)] :
                   t \in {r.topic : r \in dated}, direction \in {"increase", "decrease"}}>>

-----------------------------------------------------------------------------
(* Runs: rules and comparisons *)

(* A template's topics have an id, numbered in the order of the names, a    *)
(* priority, perhaps, and keywords; `unclassified' is 0. A topic without a  *)
(* priority passes as one of priority 0 and is kept without one.           *)
TemplateIsValid(topics, most) ==
    /\ Len(topics) \in 1..most.topics
    /\ IsInjective([i \in DOMAIN topics |-> topics[i].id])
    /\ \A t \in Range(topics) : /\ t.id # 0
                                /\ t.priority # Nothing => t.priority[1] \in 0..1000
                                /\ Cardinality(t.keywords) <= most.keywords

(* Fault: of the topics that are found the first by name is taken. *)
FirstTopicByName(matched) == (CHOOSE t \in matched : \A u \in matched : t.id <= u.id).id

(* The order of the matches: by priority, then by name.                     *)
FirstTopic(matched) ==
    (CHOOSE t \in matched : \A u \in matched :
        \/ t.priority[1] < u.priority[1]
        \/ t.priority[1] = u.priority[1] /\ t.id <= u.id).id

(* rule_classify, for the words of a redacted text; it raises where a topic *)
(* that is found has no priority. A request is found inside a word as well: *)
(* `lexicon.requests' are the words that hold one.                         *)
RuleClassify(words, topics, lexicon, language) ==
    LET matched == {t \in Range(topics) : t.keywords \cap words # {}}
        known == language \in {"en", "sv"}
        positive == known /\ words \cap lexicon.positive # {}
        negative == known /\ words \cap lexicon.negative # {}
    IN  IF \E t \in matched : t.priority = Nothing THEN Nothing
        ELSE Some([topic |-> IF matched = {} THEN 0 ELSE FirstTopic(matched),
                   sentiment |-> CASE ~known -> None
                                   [] positive /\ negative -> "mixed"
                                   [] positive /\ ~negative -> "positive"
                                   [] negative /\ ~positive -> "negative"
                                   [] OTHER -> "neutral",
                   actionable |-> negative \/ words \cap lexicon.requests # {}])

(* compare: two runs of one configuration; results are functions from the   *)
(* records.                                                                *)
Compare(left, right) ==
    LET shared == DOMAIN left \cap DOMAIN right
        differ == {r \in shared : \E f \in {"topic", "sentiment", "actionable"} :
                                      left[r][f] # right[r][f]}
    IN  [shared |-> Cardinality(shared), disagreements |-> Cardinality(differ),
         agreement |-> IF shared = {} THEN Nothing
                       ELSE <<Cardinality(shared \ differ), Cardinality(shared)>>]

=============================================================================
