---------------------------- MODULE RecordChecks ----------------------------
(***************************************************************************)
(* The calculations on records against reference definitions: the import of*)
(* a table, the privacy boundary, decisions and their routing, the results *)
(* of a run and the generator of synthetic records.                        *)
(***************************************************************************)
EXTENDS CheckedInput, Analysis, Imports, Privacy, Decisions, Synthetic, Annotations, Sampling,
        Integers, Sequences, FiniteSets, FiniteSetsExt, SequencesExt

CONSTANTS
    MostRows,     \* of a result or an imported table
    MostTokens,   \* of a JSON text
    MostPhrases,  \* of a classified text
    TextPhrases,  \* of a redacted text
    SpecDays      \* of the synthetic data

ASSUME SpecAssumption == SpecDays \in Nat
ASSUME TextAssumption == TextPhrases \in Nat


-----------------------------------------------------------------------------
(* Results of a run *)

Row(t, s, d, n, old) == [topic |-> t, sentiment |-> s, day |-> d, language |-> "sv", product |-> None,
                         group |-> None, rating |-> n, reused |-> old, tokens |-> 1]
ResultRows == {Row(t, s, d, 5 - d, d = 1) : t \in {"a", "b"}, s \in {"positive", None}, d \in 0..2}
Results == [kind : {"results"}, rows : BoundedSeq(ResultRows, MostRows)]

Query(t, s, missing, from, to) ==
    [values |-> [f \in Fields |-> CASE f = "topic" -> t [] f = "sentiment" -> s [] OTHER -> AnyValue],
     missing |-> missing, from |-> from, to |-> to]
Queries == {q \in {Query(t, s, missing, from, to) : t \in {"a", AnyValue}, s \in {"positive", AnyValue},
                       missing \in SUBSET {"sentiment", "product"}, from, to \in 0..2} :
            SelectionIsValid(q)}
All == Query(AnyValue, AnyValue, {}, 0, 0)
Only(f, v) == IF v = None THEN [All EXCEPT !.missing = {f}] ELSE [All EXCEPT !.values[f] = v]

(* What a facet counts is what the filter of that value, or of no value,    *)
(* then selects; the pages of a selection are its rows in order, each once; *)
(* the days of a summary and its rows without a day add up to its rows, and *)
(* a day counts what its range selects; every topic has a rate among the    *)
(* same rows, which the names of the other topics do not change, and a      *)
(* selection by topic has none (filter_rows, observed_facets, summarize,    *)
(* trends, and the pages of the results request).                           *)
FacetsMatchSelection ==
    input.kind = "results" =>
        LET rows == input.rows
            count(q) == Len(FilterRows(rows, q))
            renamed == [i \in DOMAIN rows |-> [rows[i] EXCEPT !.topic = IF @ = "b" THEN "c" ELSE @]]
            scale == [current |-> 1, baseline |-> 1, minCurrent |-> 1, minBaseline |-> 1, minPositive |-> 1]
            rates(all) == TrendsOf(all, All, "simple_rate_change", scale)
            of(topic, found) == {r.result : r \in {t \in found[1] : t.topic = topic}}
        IN  /\ \A f \in Fields : \A v \in DOMAIN Facets(rows)[f] :
                  (v = None => f \in Nullable) => Facets(rows)[f][v] = count(Only(f, v))
            /\ \A q \in Queries :
                  LET kept == FilterRows(rows, q)
                      summary == Summary(kept)
                      days == DOMAIN summary.days
                  IN  /\ FlattenSeq([p \in 1..Pages(kept, 2) |-> Page(kept, p, 2)]) = kept
                      /\ SumFunction([d \in days |-> summary.days[d].total]) = summary.dated
                      /\ summary.dated + Cardinality({i \in DOMAIN kept : kept[i].day = 0}) = summary.processed
                      /\ q.values["topic"] # AnyValue => TrendsOf(kept, q, "simple_rate_change", scale) = <<>>
            /\ \A d \in DOMAIN Summary(rows).days :
                  Summary(rows).days[d].total = count([All EXCEPT !.from = d, !.to = d])
            /\ of("a", rates(rows)) = of("a", rates(renamed))
            /\ \A t \in {row.topic : row \in Range(rows)}, from \in 1..2 :
                  \A d \in 1..2 : LET o == Observed(rows, t, from)
                                  IN  d \in DOMAIN o => o[d].accepted \in 0..o[d].eligible

TemplateTopics == {[id |-> i, priority |-> p, keywords |-> k] :
                       i \in 1..2, p \in {Nothing, Some(1), Some(2)}, k \in {{}, {"late"}, {"late", "price"}}}
Words == {"late", "price", "love", "pleased"}
TemplateLexicon == [positive |-> {"love"}, negative |-> {"late"}, requests |-> {"pleased"}]
Templates == [kind : {"template"}, topics : BoundedSeq(TemplateTopics, 2), words : SUBSET Words, language : {"en", "fi"}]

(* The rules of a template that was accepted fail for a text exactly when a *)
(* topic without a priority is found in it: it is accepted as if it had one *)
(* and the record ends as failed. Every other text has one topic of the     *)
(* template that no found topic precedes, and none only if no keyword is    *)
(* found; all this whatever the order of the topics. Two runs agree as much *)
(* with each other as the other way round, and wholly exactly when they do  *)
(* not disagree (validate_template, rule_classify, the comparison of runs). *)
RulesAreStable ==
    (input.kind = "template" /\ TemplateIsValid(input.topics, [topics |-> 2, keywords |-> 2])) =>
        LET result(topics, words) == RuleClassify(words, topics, TemplateLexicon, input.language)
            now == result(input.topics, input.words)
            found == {t \in Range(input.topics) : t.keywords \cap input.words # {}}
            run(texts, also) == [w \in {v \in texts : result(input.topics, v \cup also) # Nothing} |->
                                    result(input.topics, w \cup also)[1]]
            left == run(SUBSET {"late", "love"}, {})
            right == run({{"late"}, input.words}, {"price"})
            compared == Compare(left, right)
        IN  /\ now = Nothing <=> \E t \in found : t.priority = Nothing
            /\ now # Nothing =>
                  /\ now[1].topic # 0 <=> found # {}
                  /\ now[1].topic # 0 => \E t \in found : /\ t.id = now[1].topic
                                                          /\ \A u \in found : t.priority[1] <= u.priority[1]
            /\ now = result(Reverse(input.topics), input.words)
            /\ compared = Compare(right, left)
            /\ compared.agreement # <<>> =>
                  (compared.agreement[1] = compared.agreement[2]) = (compared.disagreements = 0)

Buckets == [kind : {"buckets"}, bucket : UNION {[1..n -> 1..3] : n \in 1..5}, count : 1..4]

(* A sample has its size, and no bucket of a language and month has two     *)
(* rows more than a bucket that still had rows to give (sample_records); a  *)
(* preview counts only what a run would send (runs/preview).                *)
SampleIsBalanced ==
    input.kind = "buckets" =>
        LET rows == DOMAIN input.bucket
            chosen == SampleRecords(rows, input.bucket, input.count)
            given(b) == {r \in chosen : input.bucket[r] = b}
            left(b) == {r \in rows \ chosen : input.bucket[r] = b}
            preview == Preview(rows, input.bucket, TRUE, input.count, {1}, {1, 2})
        IN  /\ chosen \subseteq rows
            /\ Cardinality(chosen) = Min({input.count, Cardinality(rows)})
            /\ \A b, c \in 1..3 : left(b) # {} => Cardinality(given(c)) <= Cardinality(given(b)) + 1
            /\ preview.selected = Cardinality(chosen \ {1}) /\ preview.blocked <= preview.selected

-----------------------------------------------------------------------------
(* Imports *)

ImportIds == {Nothing} \cup {Some([under |-> u, row |-> i]) : u \in 0..1, i \in 1..2}
ImportRows == [id : ImportIds, text : {"", "t"}, date : {"none", "day", "invalid"}, rating : {Nothing}]
                  \cup {[id |-> Nothing, text |-> "t", date |-> "none",
                         rating |-> Some([min |-> 1, max |-> x, value |-> v])] : x \in 1..2, v \in 0..3}
Tables == [kind : {"table"}, rows : BoundedSeq(ImportRows, MostRows)]
JsonTexts == [kind : {"json"}, text : BoundedSeq({"[", "]", "{", "}", ",", ":"}, MostTokens)]
JsonArrays == [kind : {"array"}, text : BoundedSeq({"[", "]", ",", "row"}, MostTokens)]
LocalTimes == [kind : {"local"}, local : 0..12, before : -2..2, after : -2..2]

Column == {<<1>>, <<2>>, <<1, 1>>}
Cell == [letters : Column, value : {"1", "2"}, formula : {FALSE}] \cup [letters : {<<1>>}, value : {"1"}, formula : {TRUE}]
Sheets == [kind : {"upload"}, suffix : {"xlsx"}, header : {<<"a">>, <<"a", "b">>, <<"a", "">>, <<"b", "b">>},
           body : BoundedSeq(BoundedSeq(Cell, 2), 1), size : {1}]
Csvs == [kind : {"upload"}, suffix : {"csv"}, header : {<<"a">>, <<"a", "b">>, <<"b", "b">>},
         body : BoundedSeq(BoundedSeq({"1", "2"}, 2), 3), size : {1, 9}]
Jsons == [kind : {"upload"}, suffix : {"jsonl"}, header : {<<>>},
          body : BoundedSeq(BoundedSeq([key : {"a", "b"}, value : {"scalar", "list"}], 2), 2), size : {1}]
UploadLimit == [depth |-> 2, records |-> 2, columns |-> 2, tokens |-> 4, bytes |-> 8]

(* What one row of an upload says: pairs of a column and a value. *)
Stated(row) ==
    CASE input.suffix = "csv" -> {<<input.header[i], row[i]>> : i \in DOMAIN row}
      [] input.suffix = "jsonl" -> {<<p.key, p.value>> : p \in Range(row)}
      [] input.suffix = "xlsx" -> {<<input.header[ColumnOf(c.letters)], c.value>> :
                                       c \in {d \in Range(row) : ColumnOf(d.letters) \in DOMAIN input.header}}

Objects == [identity : 1..2, size : {2}]
Processes == [kind : {"process"}, seconds : {1, 9}, bytes : {1, 9}, code : {0, 2, 3}, json : BOOLEAN,
              objects : BoundedSeq(Objects, 4)]

Limit == [depth |-> 2, records |-> 1, columns |-> 1, tokens |-> 4]

(* Brackets next to each other, with nothing between them, are taken away.  *)
Brackets(text) == SelectSeq(text, LAMBDA t : t \in {"[", "]", "{", "}"})
WithoutPair(text, i) ==
    LET pairs == {k \in 1..(Len(text) - 1) : <<text[k], text[k + 1]>> \in {<<"[", "]">>, <<"{", "}">>}}
    IN  IF pairs = {} THEN text ELSE RemoveAt(RemoveAt(text, Min(pairs)), Min(pairs))
Balanced(text) == FoldLeft(WithoutPair, Brackets(text), [i \in DOMAIN text |-> i]) = <<>>
ArrayOf(n) == <<"[">> \o FlattenSeq([i \in 1..n |-> IF i = n THEN <<"row">> ELSE <<"row", ",">>]) \o <<"]">>

(* Every row is accepted or has an issue; accepted rows have distinct ids,  *)
(* and rows that share an id are all refused; an id that is made up is no   *)
(* other row's. A local time is accepted when it is exactly one instant. The*)
(* structure of a text is accepted when its brackets match within the       *)
(* limits, and its rows when it is an array of them. The rows of an upload  *)
(* say what the file says, value by value, within the limits, and what the  *)
(* parser process may send the server may keep (validate_import, timestamp, *)
(* json_structure, _json_rows, parse_upload, isolated_parse).               *)
UploadIsAccounted ==
    /\ input.kind = "table" =>
          LET v == ValidateImport(input.rows)
              id(i) == SourceId(input.rows, i)
          IN  /\ v.accepted \cap v.issues = {} /\ v.accepted \cup v.issues = DOMAIN input.rows
              /\ \A i \in v.accepted, j \in DOMAIN input.rows : i # j => id(i) # id(j)
              /\ v.duplicateIds + v.empty <= Cardinality(v.issues)
              /\ v.repeatedText + v.empty + v.duplicateIds <= 2 * Len(input.rows)
    /\ input.kind = "local" =>
          LET zone == [shift |-> 6, before |-> input.before, after |-> input.after]
              instants == {t \in -3..15 : t + OffsetAt(zone, t) = input.local}
          IN  Timestamp(zone, input.local) =
                  IF Cardinality(instants) = 1 THEN Some(CHOOSE t \in instants : TRUE) ELSE Nothing
    /\ input.kind = "json" =>
          LET deep == \E n \in DOMAIN input.text :
                          LET open == Cardinality({i \in 1..n : input.text[i] \in {"[", "{"}})
                              shut == Cardinality({i \in 1..n : input.text[i] \in {"]", "}"}})
                          IN  open - shut > Limit.depth
              tokens == Cardinality({i \in DOMAIN input.text : input.text[i] \notin {"]", "}"}})
              row == <<"[", "{", ":", "}", "]">>
          IN  /\ Structure(input.text, FALSE, FALSE, Limit)
                     = (Balanced(input.text) /\ ~deep /\ tokens <= Limit.tokens)
              /\ Structure(input.text, TRUE, TRUE, Limit) =>
                    /\ Balanced(input.text) /\ ~deep
                    /\ Cardinality({i \in DOMAIN input.text : input.text[i] = "{"}) <= Limit.records
              /\ Structure(row, TRUE, TRUE, Limit)
    /\ input.kind = "upload" =>
          LET parsed == ParseUpload(input, UploadLimit)
              body == IF input.suffix # "csv" THEN input.body ELSE SelectSeq(input.body, LAMBDA r : r # <<>>)
              said(row) == {<<h, row[h]>> : h \in {k \in DOMAIN row : row[k] # ""}}
          IN  parsed # Nothing =>
                  /\ Len(parsed[1].rows) \in 1..UploadLimit.records
                  /\ Cardinality(parsed[1].columns) <= UploadLimit.columns
                  /\ input.suffix # "jsonl" => parsed[1].columns = Range(input.header)
                  /\ [i \in DOMAIN parsed[1].rows |-> said(parsed[1].rows[i])] = [i \in DOMAIN body |-> Stated(body[i])]
    /\ input.kind = "process" =>
          /\ Retained(input.objects) <= Transferred(input.objects)
          /\ (/\ input.code = 0 /\ input.json /\ input.seconds <= 5 /\ input.bytes <= 4
              /\ Transferred(input.objects) <= 4) =>
                Isolated(input, [seconds |-> 5, preview |-> 4]) = "parsed"
    /\ input.kind = "array" =>
          JsonRows(input.text) = (input.text \in {ArrayOf(n) : n \in 0..MostTokens})

-----------------------------------------------------------------------------
(* The privacy boundary *)

Numbers == [kind : {"number"}, size : {10, 13, 16}, free : [1..3 -> 0..9]]
Number(n) == [i \in 1..n.size |-> IF i > n.size - 3 THEN n.free[i - n.size + 3] ELSE (7 * i) % 10]
Ibans == [kind : {"iban"}, check : [1..2 -> 0..9], free : [1..2 -> {0, 1, 5, 9, 10, 21, 35}]]
Iban(n) == <<28, 14>> \o n.check \o [i \in 1..9 |-> (3 * i) % 10] \o n.free
Identities == [kind : {"identity"}, year : {0, 4, 96, 99}, month : {2, 4, 13}, day : {0, 28, 29, 30, 31, 88, 89},
               check : 0..9]
Identity(n) == LET two(x) == <<x \div 10, x % 10>>
               IN  two(n.year) \o two(n.month) \o two(n.day) \o <<1, 2, 3, n.check>>

Digits(n) == [i \in 1..n |-> (7 * i) % 10]
Values == [form : {"word", "name", "email", "address", "redacted"}, digits : {<<>>}]
              \cup [form : {"code", "number"}, digits : {Digits(n) : n \in {3, 4, 7, 15, 16, 20}}]
              \cup {[form |-> "date", digits |-> Digits(8)], [form |-> "number", digits |-> [i \in 1..16 |-> 0]],
                    [form |-> "identity", digits |-> <<9, 0, 0, 1, 0, 1, 1, 2, 3, 9>>],
                    [form |-> "identity", digits |-> <<9, 0, 0, 1, 0, 1, 1, 2, 3, 8>>]}
PrivateTexts == [kind : {"private"}, label : [1..TextPhrases -> Labels], value : [1..TextPhrases -> Values]]
Text == [i \in 1..TextPhrases |-> [label |-> input.label[i], form |-> input.value[i].form, digits |-> input.value[i].digits]]

(* One wrong digit is never overlooked in a card or account number, zeros in*)
(* front do not matter to a card number, and an identity number counts as   *)
(* one when it is a date in some century since 1900. A text that leaves     *)
(* without payment data has nothing left that the boundary would replace,   *)
(* its counts are those of the phrases replaced, labelled phrases keep their*)
(* labels, and what is left of numbers is short, long, or a date            *)
(* (_reject_payment_data, redact_text).                                     *)
RedactionIsComplete ==
    /\ input.kind = "number" =>
          LET digits == Number(input)
          IN  /\ Luhn(digits) = Luhn(<<0>> \o digits)
              /\ Luhn(digits) => \A i \in DOMAIN digits, d \in 0..9 :
                    d # digits[i] => ~Luhn([digits EXCEPT ![i] = d])
    /\ input.kind = "iban" =>
          LET chars == Iban(input)
          IN  ValidIban(chars) => \A i \in DOMAIN chars, c \in 0..35 :
                  (c # chars[i] /\ (c > 9) = (chars[i] > 9)) => ~ValidIban([chars EXCEPT ![i] = c])
    /\ input.kind = "identity" =>
          LET day == IF input.day > 60 THEN input.day - 60 ELSE input.day
          IN  ValidIdentity(Identity(input)) =
                  /\ Luhn(Identity(input))
                  /\ \E century \in {1900, 2000} : IsDate(century + input.year, input.month, day)
    /\ input.kind = "private" =>
          LET redacted == Redact(Text)
              replaced == {i \in 1..TextPhrases : redacted[1].text[i] # Text[i]}
              event == AuditEvent(redacted[1])
          IN  /\ redacted = <<>> <=> \E i \in 1..TextPhrases : IsPayment(Text[i])
              /\ redacted # <<>> =>
                    /\ DecisionState(redacted[1].text, "sv-SE", "return_feedback")
                           = DecisionState(Text, "sv-SE", "return_feedback")
                    /\ event.total = Cardinality(replaced)
                    /\ \A i \in 1..TextPhrases :
                          LET p == redacted[1].text[i]
                          IN  /\ p.label = Text[i].label
                              /\ p.form \notin {"email", "address"}
                              /\ p.form = "name" => p.label # "name"
                              /\ p.form \in {"number", "identity"} => Len(p.digits) \notin 7..15
                              /\ p.label \in {"customer", "order"} => Len(p.digits) < 4

-----------------------------------------------------------------------------
(* Decisions and their routing *)

Question(id, primitive, options) == [id |-> id, primitive |-> primitive, options |-> options]
LevelsTo(n) == [i \in 1..n |-> i - 1]
Questions ==
    <<Question("primary_topic", "choice", Tail(Topics) \o <<"other">>),
      Question("mentions_product", "noul", <<>>), Question("overall_experience", "score", LevelsTo(5)),
      Question("reports_product_defect", "noul", <<>>), Question("issue_severity", "score", LevelsTo(4)),
      Question("resolution_status", "choice",
               <<"resolved", "partially_resolved", "unresolved", "not_applicable", "unclear">>),
      Question("defect_type", "choice", <<"noise", "thermal", "stability", "physical_damage",
               "compatibility", "missing_component", "other", "unclear">>)>>

RuleTexts == [kind : {"rules"}, phrases : [1..MostPhrases -> Phrases \cup {""}],
              channel : {"product_review", ""}]
PhrasesSaid == Range(input.phrases)

Band == {<<>>} \cup {<<[low |-> l, high |-> h]>> : l, h \in {0, 500, 1000, 1001}}
Policies == [kind : {"policy"}, status : {"active", "awaiting_calibration", "retired"}, calibration : BOOLEAN,
             first : Band, second : Band]
TwoQuestions == SubSeq(Questions, 1, 2)
Policy == [schema |-> "s", status |-> input.status, calibration |-> input.calibration,
           rows |-> <<[id |-> "primary_topic", primitive |-> "choice", thresholds |-> input.first],
                      [id |-> "mentions_product", primitive |-> "noul", thresholds |-> input.second]>>]
Answer(type, confidence) == [type |-> type, confidence |-> confidence]

Mapped == [kind : {"mapped"}, primitive : {"choice", "score"}, most : {2, 3}, p : [0..2 -> {0, 300, 400, 500, 1000}]]
MappedQuestion == Question("q", input.primitive, LevelsTo(3))

Rank(state) == CHOOSE i \in 1..3 : \E order \in {<<"abstained", "review", "accepted">>,
                                                 <<"accepted_negative", "uncertain", "accepted_positive">>} :
                                       order[i] = state

States == [feedback : {"f1", "f2"}, hash : {"h1", "h2"}]
Recordings == [kind : {"recordings"}, states : BoundedSeq(States, 2), provider : [1..2 -> {"p", "q"}]]
Recording(i) ==
    [state |-> input.states[i],
     result |-> [provider |-> input.provider[i], model |-> "m",
                 answers |-> RuleAnswers(TwoQuestions, IF input.states[i].hash = "h1" THEN {"price"} ELSE {}, "")]]

Event == [type : {"delta", "completed", "other"}, at : {1, 3}, active : {TRUE}, length : {2}, error : {TRUE}]
             \cup [type : {"failed"}, at : {1}, active : {TRUE}, length : {0}, error : BOOLEAN]
             \cup [type : {"delta"}, at : {1}, active : {FALSE}, length : {1}, error : {TRUE}]
Streams == [kind : {"stream"}, events : BoundedSeq(Event, 3), dropped : BOOLEAN, answer : {"valid", "malformed"}]

(* Every text has a valid answer to every question, that agrees with itself *)
(* on the product and its defect. A policy that loads as active routes      *)
(* every answer, in as many bands as there are, a higher probability never  *)
(* to a lower one, and no other policy routes any. The probabilities of the *)
(* local model make a valid answer exactly when they are a distribution over*)
(* the options of the question, and the first of the most probable options  *)
(* is chosen. A recording gives back each answer for its text, and records  *)
(* with one decision id have one decision. A result is only taken from a stream that has  *)
(* completed while the run was active (rules.py, router.py, semif.py,       *)
(* envelope.py, recording.py, fixture.py, openai.py).                       *)
DecisionsAreRouted ==
    /\ input.kind = "rules" =>
          LET answers == RuleAnswers(Questions, PhrasesSaid, input.channel)
              flag(id) == answers[id].confidence > 500
          IN  /\ SchemaLoads(Questions) /\ ResultIsValid(Questions, answers)
              /\ flag("reports_product_defect") <=> answers["defect_type"].value # "unclear"
              /\ answers["primary_topic"].value \in {"product_quality", "compatibility"}
                     => flag("mentions_product")
    /\ input.kind = "policy" =>
          LET route(i, c) == Route(Policy, TwoQuestions[i].id, Answer(TwoQuestions[i].primitive, c))
              some == {0, 1, 499, 500, 501, 999, 1000}
          IN  PolicyLoads(Policy, "s", TwoQuestions) =>
                  IF input.status # "active" THEN \A i \in 1..2, c \in some : route(i, c) = <<>>
                  ELSE \A i \in 1..2 :
                          /\ \A c, e \in some : c <= e => Rank(route(i, c)[1]) <= Rank(route(i, e)[1])
                          /\ {2, 3} \subseteq {Rank(route(i, c)[1]) : c \in some}
    /\ input.kind = "recordings" =>
          LET all == [i \in DOMAIN input.states |-> Recording(i)]
              fixture == WriteFixture("s", all)
              envelope(r) == Envelope(r.state, "s", r.result)
          IN  /\ fixture # <<>> => \A r \in Range(all) :
                    LET replayed == Replay(fixture[1], "s", TwoQuestions, r.state)
                    IN  /\ replayed[1].answers = r.result.answers /\ replayed[1].model = r.result.model
                        /\ Replay(fixture[1], "t", TwoQuestions, r.state) = <<>>
              /\ \A p, q \in Range(all) : envelope(p).id = envelope(q).id => envelope(p) = envelope(q)
    /\ input.kind = "mapped" =>
          LET probabilities == [o \in 0..(input.most - 1) |-> input.p[o]]
              answer == MapAnswer(MappedQuestion, probabilities)
          IN  /\ (answer = <<>>) = (input.most # 3)
              /\ answer # <<>> =>
                    /\ AnswerIsValid(MappedQuestion, answer[1]) = DistributionIsValid(probabilities)
                    /\ input.primitive = "choice" =>
                          \A o \in 0..2 : o < answer[1].value => input.p[o] < input.p[answer[1].value]
    /\ (/\ input.kind = "stream"
        /\ Stream(input.events, input.dropped, input.answer, [seconds |-> 2, length |-> 4]) = "succeeded") =>
              /\ \E e \in Range(input.events) : e.type = "completed"
              /\ \A e \in Range(input.events) : e.at <= 2 /\ e.active /\ e.type # "failed"
              /\ ~input.dropped

(* The question for the resolution of an issue reads, for its option        *)
(* "unresolved": The issue remains open, failed, missing, or explicitly     *)
(* unsolved. A text that says so and names nothing resolved has that answer.*)
UnresolvedIsUnresolved ==
    (/\ input.kind = "rules" /\ "remains unresolved" \in PhrasesSaid
     /\ PhrasesSaid \cap {"solved", "replacement was sent"} = {}) =>
        Resolution(PhrasesSaid, input.channel) = "unresolved"

-----------------------------------------------------------------------------
(* Synthetic records *)

Scenario(id, source, ordered) ==
    [id |-> id, source |-> source, weight |-> IF ordered THEN 2 ELSE 1, product |-> ordered, order |-> ordered,
     ratings |-> {0}, templates |-> [l \in {"en"} |-> {"t"}]]
PlantedSpec(events, products) ==
    [days |-> SpecDays, locales |-> <<[id |-> "en", weight |-> 1]>>,
     products |-> [i \in 1..products |-> [id |-> i, price |-> 10 * i]],
     scenarios |-> <<Scenario("site", "site_feedback", FALSE), Scenario("delivery_late", "delivery_survey", TRUE),
                     Scenario("review", "product_review", FALSE), Scenario("ticket", "support_ticket", FALSE),
                     Scenario("return", "return_feedback", TRUE)>>,
     events |-> events]
Planted(id, start, duration, product) ==
    [id |-> id, start |-> start, duration |-> duration, scenario |-> "delivery_late", product |-> product, share |-> 50]

Generations == [kind : {"generated"}, start : 0..SpecDays, duration : {<<>>, <<1>>, <<2>>, <<SpecDays>>},
                products : 1..2, count : 1..(SpecDays + 2), share : {0, 99}, second : 0..1, scenario : 0..6]
GeneratedSpec == PlantedSpec(<<Planted("a", input.start, input.duration, 1), Planted("b", 0, <<1>>, 0)>>,
                             input.products)
Draw(i) == [shares |-> [e \in {"a", "b"} |-> IF i % 2 = 0 THEN input.share ELSE 99 - input.share],
            scenario |-> (input.scenario + i) % 7, product |-> 1, second |-> input.second, twice |-> TRUE, freight |-> 5,
            ago |-> 2, late |-> 3, early |-> 1, other |-> -1, before |-> 2]

(* The records of a specification that loads cover its days from the first  *)
(* to the last in order; an event has records only on its days, which the   *)
(* manifest says, and as many as the provenance; records of an event are of *)
(* its scenario and product; an order was bought before it was delivered and*)
(* expected, and costs what its products cost; and each scenario is drawn as*)
(* often as its weight. Only a second product that does not exist makes the *)
(* generator fail, the wording of templates aside (generate, _manifest,     *)
(* load_generator_spec).                                                    *)
GeneratedIsConsistent ==
    (input.kind = "generated" /\ SpecLoads(GeneratedSpec, SpecDays)) =>
        LET spec == GeneratedSpec
            made == [i \in 1..input.count |-> Record(spec, i - 1, input.count, Draw(i))]
            failed == {i \in DOMAIN made : made[i] = <<>>}
            records == [i \in DOMAIN made |-> made[i][1]]
            manifest == Manifest(spec, records)
        IN  /\ failed # {} => input.products = 1 /\ input.second = 1
            /\ \A s \in Range(spec.scenarios) :
                  Cardinality({d \in 0..6 : Weighted(spec.scenarios, d) = s}) = s.weight
            /\ failed = {} =>
                  /\ manifest.start = 0 /\ (input.count > 1 => manifest.end = SpecDays - 1)
                  /\ \A i, j \in DOMAIN records : i <= j => records[i].day <= records[j].day
                  /\ input.count >= SpecDays => {r.day : r \in Range(records)} = 0..(SpecDays - 1)
                  /\ \A e \in Range(manifest.events) :
                        LET of == {r \in Range(records) : r.provenance.event = <<e.id>>}
                        IN  /\ e.affected = Cardinality(of)
                            /\ e.end # <<>> => e.end[1] < SpecDays
                            /\ \A r \in of : /\ e.start <= r.day /\ (e.end # <<>> => r.day <= e.end[1])
                                             /\ r.channel = "delivery_survey" /\ r.context # <<>>
                                             /\ e.id = "a" => r.products[1].id = 1
                  /\ \A r \in Range(records) : r.context # <<>> =>
                        LET c == r.context[1]
                        IN  /\ c.purchased < c.delivered /\ c.purchased < c.expected
                            /\ c.delta = c.delivered - c.expected
                            /\ c.price = SumFunction([i \in DOMAIN r.products |->
                                                       10 * r.products[i].id * r.products[i].quantity])

RecordInit ==
    \/ input \in Results  \/ input \in Buckets  \/ input \in Tables  \/ input \in JsonTexts
    \/ input \in JsonArrays  \/ input \in LocalTimes  \/ input \in Numbers  \/ input \in Ibans
    \/ input \in Identities  \/ input \in PrivateTexts  \/ input \in RuleTexts  \/ input \in Policies
    \/ input \in Recordings  \/ input \in Streams  \/ input \in Generations  \/ input \in Templates
    \/ input \in Sheets  \/ input \in Csvs  \/ input \in Jsons  \/ input \in Processes  \/ input \in Mapped

=============================================================================
