------------------------------ MODULE Decisions ------------------------------
(***************************************************************************)
(* Typed decisions and what is done with them: decision/schema.py,         *)
(* models.py, rules.py, semif.py, envelope.py, recording.py and fixture.py,*)
(* policy/models.py and router.py, and the streamed answer of              *)
(* workbench/openai.py. Probabilities are in thousandths.                  *)
(***************************************************************************)
EXTENDS Integers, Sequences, FiniteSets, FiniteSetsExt, SequencesExt

-----------------------------------------------------------------------------
(* The schema: questions [id, primitive, options]; the options of a score   *)
(* are its levels 0..n                                                      *)

Ids(questions) == {q.id : q \in Range(questions)}

SchemaLoads(questions) ==
    /\ questions # <<>>
    /\ IsInjective([i \in DOMAIN questions |-> questions[i].id])
    /\ \A q \in Range(questions) :
          /\ q.primitive \in {"choice", "score", "noul"}
          /\ q.primitive = "choice" => Len(q.options) >= 2 /\ IsInjective(q.options)
          /\ q.primitive = "score" => /\ Len(q.options) \in 2..10
                                      /\ \A i \in DOMAIN q.options : q.options[i] = i - 1

(* validate_engine_result *)
DistributionIsValid(probabilities) ==
    /\ \A o \in DOMAIN probabilities : probabilities[o] \in 0..1000
    /\ MapThenSumSet(LAMBDA o : probabilities[o], DOMAIN probabilities) \in 980..1020

AnswerIsValid(q, answer) ==
    /\ answer.type = q.primitive
    /\ answer.confidence \in 0..1000
    /\ q.primitive # "noul" => /\ DOMAIN answer.probabilities = Range(q.options)
                               /\ DistributionIsValid(answer.probabilities)
    /\ q.primitive = "choice" => answer.value \in Range(q.options)
    /\ q.primitive = "score" => answer.value \in 0..(1000 * Last(q.options))

ResultIsValid(questions, answers) ==
    /\ DOMAIN answers = Ids(questions)
    /\ \A q \in Range(questions) : AnswerIsValid(q, answers[q.id])

-----------------------------------------------------------------------------
(* The rule engine. A text is a set of the phrases it contains; a name below*)
(* stands for the phrases that contain one of the list in the code.         *)

Lexicon ==
    [irrelevant |-> {"browsing during lunch", "no product feedback"},
     support |-> {"agent"},
     returns |-> {"refund", "replacement", "replacement was sent"},
     checkout |-> {"basket"},
     information |-> {"dimensions"},
     price |-> {"price"},
     compatibility |-> {"not compatible", "connector does not fit"},
     noise |-> {"noise", "buzz"},
     stability |-> {"disconnect", "restart", "wont start"},
     damage |-> {"part was loose", "damaged", "kom trasig"},
     delivery |-> {"parcel", "early delivery"},
     product |-> {"no product feedback", "product is fine", "working product"},
     resolved |-> {"solved", "replacement was sent", "remains unresolved"},
     unresolved |-> {"still missing", "remains unresolved", "not compatible", "wont start", "buzz",
                     "restart", "damaged", "kom trasig"},
     frustration |-> {"frustrating", "frustrerande"},
     issue |-> {"but", "still missing", "replacement", "replacement was sent", "dimensions"}]

Phrases == UNION Range(Lexicon) \cup
    {"performs well", "accessories", "fast and quiet", "really pleased",
     "works exactly as expected", "great speed", "nothing stands out", "will not buy again"}

Has(text, name) == text \cap Lexicon[name] # {}

Returns(text) == Has(text, "returns") /\ ~Has(text, "support")
Delivery(text) == Has(text, "delivery") /\ ~Returns(text)
Defect(text) == Has(text, "noise") \/ Has(text, "stability") \/ Has(text, "damage")

(* The first topic of the order that applies, or a default by channel.      *)
Topics == <<"other", "support", "returns_refunds", "website_checkout", "product_information",
            "price_value", "compatibility", "product_quality", "delivery">>
Applies(topic, text) ==
    CASE topic = "other" -> Has(text, "irrelevant")
      [] topic = "support" -> Has(text, "support")
      [] topic = "returns_refunds" -> Returns(text)
      [] topic = "website_checkout" -> Has(text, "checkout")
      [] topic = "product_information" -> Has(text, "information")
      [] topic = "price_value" -> Has(text, "price")
      [] topic = "compatibility" -> Has(text, "compatibility")
      [] topic = "product_quality" -> Defect(text)
      [] topic = "delivery" -> Delivery(text)

Topic(text, channel) ==
    LET applying == {i \in DOMAIN Topics : Applies(Topics[i], text)}
    IN  IF applying # {} THEN Topics[Min(applying)]
        ELSE IF channel = "product_review" THEN "product_quality" ELSE "other"

MentionsProduct(text, channel) ==
    /\ ~Has(text, "irrelevant")
    /\ \/ channel = "product_review" \/ Has(text, "product")
       \/ Topic(text, channel) \in {"product_quality", "compatibility", "price_value", "product_information"}

(* "unresolved" contains "solved", the first phrase that is looked for.     *)
Resolution(text, channel) ==
    IF Has(text, "resolved") THEN "resolved"
    ELSE IF Has(text, "unresolved") \/ Defect(text) \/ Has(text, "compatibility") THEN "unresolved"
    ELSE IF /\ Topic(text, channel) \in {"other", "product_quality", "price_value", "delivery"}
            /\ ~Has(text, "issue")
    THEN "not_applicable" ELSE "unclear"

(* The scores of a text: the first ground that applies decides.             *)
Scored(overall, product, delivery, support, severity) ==
    [overall_experience |-> overall, product_experience |-> product,
     delivery_experience |-> delivery, support_experience |-> support, issue_severity |-> severity]

SupportScores(text) ==
    IF Has(text, "resolved")
    THEN Scored(4, 2, 2, 4, IF text \cap {"replacement", "replacement was sent"} # {} THEN 2 ELSE 0)
    ELSE IF "working product" \in text THEN Scored(0, 0, 2, 0, 3) ELSE Scored(1, 2, 2, 1, 2)

ReturnScores(text) ==
    IF Has(text, "resolved")
    THEN Scored(IF "replacement was sent" \in text THEN 3 ELSE 4, 2, 2, 2, 0)
    ELSE Scored(1, 2, 2, 2, 2)

DeliveryScores(text) ==
    IF "early delivery" \in text THEN Scored(4, 2, 4, 2, 0)
    ELSE Scored(1, IF "product is fine" \in text THEN 3 ELSE 2, 1, 2,
                IF "frustrating" \in text THEN 1 ELSE 2)

Grounds == <<"stability", "damage", "noise", "compatibility", "support", "returns", "delivery", "price",
             "information", "checkout", "really pleased", "works exactly as expected", "frustration",
             "great speed", "none">>
Grounded(ground, text) ==
    CASE ground = "returns" -> Returns(text)
      [] ground = "delivery" -> Delivery(text)
      [] ground = "none" -> TRUE
      [] ground \in DOMAIN Lexicon \ {"returns", "delivery"} -> Has(text, ground)
      [] OTHER -> ground \in text

Scores(text) ==
    LET ground == Grounds[Min({i \in DOMAIN Grounds : Grounded(Grounds[i], text)})]
    IN  CASE ground = "stability" -> Scored(0, 0, 2, 2, IF "restart" \in text THEN 2 ELSE 3)
          [] ground = "damage" -> Scored(1, 1, 1, 2, 2)
          [] ground = "noise" -> IF "performs well" \in text THEN Scored(2, 2, 2, 2, 1)
                                 ELSE Scored(1, 1, 2, 2, 2)
          [] ground = "compatibility" -> Scored(1, 1, 2, 2, 3)
          [] ground = "support" -> SupportScores(text)
          [] ground = "returns" -> ReturnScores(text)
          [] ground = "delivery" -> DeliveryScores(text)
          [] ground = "price" -> Scored(3, 3, 2, 2, IF "accessories" \in text THEN 1 ELSE 0)
          [] ground = "information" -> LET s == IF "fast and quiet" \in text THEN 3 ELSE 2
                                       IN  Scored(s, s, 2, 2, 1)
          [] ground = "really pleased" -> Scored(4, 4, 2, 2, 0)
          [] ground = "works exactly as expected" -> Scored(3, 3, 2, 2, 0)
          [] ground = "frustration" -> Scored(1, 3, 1, 2, 1)
          [] ground \in {"checkout", "great speed"} -> Scored(2, 2, 2, 2, 1)
          [] OTHER -> Scored(2, 2, 2, 2, 0)

DefectType(text) ==
    IF Has(text, "noise") THEN "noise"
    ELSE IF Has(text, "stability") THEN "stability"
    ELSE IF ~Has(text, "damage") THEN "unclear"
    ELSE IF "kom trasig" \in text THEN "other" ELSE "physical_damage"

Selections(text, channel) ==
    [primary_topic |-> Topic(text, channel), resolution_status |-> Resolution(text, channel),
     defect_type |-> DefectType(text)]
Flags(text, channel) ==
    [mentions_product |-> MentionsProduct(text, channel), mentions_delivery |-> Delivery(text),
     mentions_support |-> Has(text, "support"), reports_product_defect |-> Defect(text),
     actionable_feedback |-> ~Has(text, "irrelevant") /\ "nothing stands out" \notin text,
     explicit_repurchase_risk |-> "will not buy again" \in text]

(* _choice and _score: the rest of the probability is shared evenly.        *)
Confident(options, selected, confidence) ==
    [o \in Range(options) |-> IF o = selected THEN confidence
                              ELSE (1000 - confidence) \div (Len(options) - 1)]

RuleAnswer(q, text, channel) ==
    CASE q.primitive = "choice" ->
            LET selected == Selections(text, channel)[q.id]
                confidence == IF selected \in {"other", "unclear"} THEN 680 ELSE 820
            IN  [type |-> "choice", value |-> selected, confidence |-> confidence,
                 probabilities |-> Confident(q.options, selected, confidence)]
      [] q.primitive = "score" ->
            [type |-> "score", value |-> 1000 * Scores(text)[q.id], confidence |-> 800,
             probabilities |-> Confident(q.options, Scores(text)[q.id], 800)]
      [] OTHER -> [type |-> "noul", confidence |-> IF Flags(text, channel)[q.id] THEN 900 ELSE 100]

RuleAnswers(questions, text, channel) ==
    [id \in Ids(questions) |-> RuleAnswer(CHOOSE q \in Range(questions) : q.id = id, text, channel)]

-----------------------------------------------------------------------------
(* The local model: _map_answer of probabilities by option. The first of    *)
(* equally likely options in the order of the schema is chosen.            *)

MapAnswer(q, probabilities) ==
    LET most == Max({probabilities[o] : o \in DOMAIN probabilities})
        first == CHOOSE i \in DOMAIN q.options :
                    /\ probabilities[q.options[i]] = most
                    /\ \A j \in 1..(i - 1) : probabilities[q.options[j]] < most
    IN  IF DOMAIN probabilities # (IF q.primitive = "noul" THEN {"true", "false"} ELSE Range(q.options))
        THEN <<>>
        ELSE CASE q.primitive = "choice" ->
                     <<[type |-> "choice", value |-> q.options[first], confidence |-> most,
                        probabilities |-> probabilities]>>
               [] q.primitive = "score" ->
                     <<[type |-> "score", confidence |-> most, probabilities |-> probabilities,
                        value |-> MapThenSumSet(LAMBDA o : o * probabilities[o], DOMAIN probabilities)]>>
               [] OTHER -> <<[type |-> "noul", confidence |-> probabilities["true"]]>>

-----------------------------------------------------------------------------
(* Envelopes, recordings and their replay *)

(* The identity of a decision; the channel and language are not part of it. *)
DecisionId(state, schema, result) == <<state.feedback, schema, result.provider, result.model, state.hash>>

Envelope(state, schema, result) ==
    [id |-> DecisionId(state, schema, result), input |-> state, answers |-> result.answers]

(* write_fixture_set: recordings [state, result], kept by the hash of the   *)
(* redacted text; a later one replaces an earlier one of the same text.     *)
WriteFixture(schema, recordings) ==
    LET models == {<<r.result.provider, r.result.model>> : r \in Range(recordings)}
        last(h) == Max({i \in DOMAIN recordings : recordings[i].state.hash = h})
    IN  IF Cardinality(models) # 1 THEN <<>>
        ELSE <<[schema |-> schema, model |-> (CHOOSE m \in models : TRUE)[2],
                records |-> [h \in {r.state.hash : r \in Range(recordings)} |->
                                recordings[last(h)].result.answers]]>>

(* FixtureDecisionEngine.decide *)
Replay(fixture, schema, questions, state) ==
    IF \/ fixture.schema # schema \/ state.hash \notin DOMAIN fixture.records
       \/ ~ResultIsValid(questions, fixture.records[state.hash])
    THEN <<>>
    ELSE <<[provider |-> "fixture", model |-> fixture.model, answers |-> fixture.records[state.hash]]>>

-----------------------------------------------------------------------------
(* The aggregation policy: rows [id, primitive, thresholds], thresholds     *)
(* <<>> or <<[low, high]>>                                                  *)

(* Fault: the two thresholds may be the same. *)
ThresholdsMayMeet(row) ==
    row.thresholds # <<>> =>
        /\ row.thresholds[1].low \in 0..1000 /\ row.thresholds[1].high \in 0..1000
        /\ row.thresholds[1].low <= row.thresholds[1].high

ThresholdsAreValid(row) ==
    row.thresholds # <<>> =>
        /\ row.thresholds[1].low \in 0..1000 /\ row.thresholds[1].high \in 0..1000
        /\ row.thresholds[1].low < row.thresholds[1].high

PolicyLoads(policy, schema, questions) ==
    LET calibrated == \A row \in Range(policy.rows) : row.thresholds # <<>>
    IN  /\ policy.schema = schema
        /\ [i \in DOMAIN policy.rows |-> <<policy.rows[i].id, policy.rows[i].primitive>>]
               = [i \in DOMAIN questions |-> <<questions[i].id, questions[i].primitive>>]
        /\ \A row \in Range(policy.rows) : ThresholdsAreValid(row)
        /\ policy.status = "active" => calibrated /\ policy.calibration
        /\ policy.status = "awaiting_calibration" => ~calibrated /\ ~policy.calibration
        /\ policy.status \in {"active", "awaiting_calibration", "retired"}

(* route_answer; <<>> where routing is disabled. *)
Route(policy, id, answer) ==
    LET row == CHOOSE r \in Range(policy.rows) : r.id = id
        t == row.thresholds[1]
    IN  IF \/ policy.status # "active" \/ row.thresholds = <<>>
           \/ (answer.type = "noul") # (row.primitive = "noul")
        THEN <<>>
        ELSE IF answer.type = "noul"
        THEN <<IF answer.confidence <= t.low THEN "accepted_negative"
               ELSE IF answer.confidence >= t.high THEN "accepted_positive" ELSE "uncertain">>
        ELSE <<IF answer.confidence >= t.high THEN "accepted"
               ELSE IF answer.confidence >= t.low THEN "review" ELSE "abstained">>

-----------------------------------------------------------------------------
(* The streamed answer of the provider (openai.classify): events, each with *)
(* the time it arrives at and whether the run was still active. A terminal  *)
(* event without an error record is an AttributeError that nothing catches  *)
(* but process_job.                                                        *)

StreamStep(s, event, limit) ==
    IF s.end # "open" THEN s
    ELSE IF event.at > limit.seconds \/ ~event.active THEN [s EXCEPT !.end = "interrupted"]
    ELSE CASE event.type = "delta" ->
                  LET length == s.length + event.length
                  IN  [s EXCEPT !.length = length, !.end = IF length > limit.length THEN "interrupted" ELSE @]
           [] event.type = "failed" -> [s EXCEPT !.end = IF event.error THEN "interrupted" ELSE "failed"]
           [] event.type = "completed" -> [s EXCEPT !.completed = TRUE]
           [] OTHER -> s

(* `dropped': the connection ended in an error; `answer': what the text is. *)
Stream(events, dropped, answer, limit) ==
    LET s == FoldLeft(LAMBDA acc, e : StreamStep(acc, e, limit),
                      [end |-> "open", length |-> 0, completed |-> FALSE], events)
    IN  IF s.end # "open" THEN s.end
        ELSE IF dropped \/ ~s.completed \/ answer # "valid" THEN "interrupted"
        ELSE "succeeded"

=============================================================================
