------------------------------ MODULE Synthetic ------------------------------
(***************************************************************************)
(* The generator of the synthetic data set: synthetic/spec.py, what a      *)
(* specification must satisfy, and synthetic/generator.py, the records, the*)
(* separate provenance and the manifest that are made from it.             *)
(*                                                                         *)
(* The random numbers a record takes are in the record `draw'; days are    *)
(* counted from the start date, amounts are whole. 0 is no product.        *)
(***************************************************************************)
EXTENDS Integers, Sequences, FiniteSets, FiniteSetsExt, SequencesExt

SUPPORTED_SOURCES == {"product_review", "support_ticket", "delivery_survey", "return_feedback", "site_feedback"}

Distinct(rows) == IsInjective([i \in DOMAIN rows |-> rows[i].id])
OfId(rows, id) == CHOOSE row \in Range(rows) : row.id = id

-----------------------------------------------------------------------------
(* The specification *)

ScenarioIsValid(s, locales) ==
    /\ s.source \in SUPPORTED_SOURCES /\ s.weight >= 1
    /\ s.ratings # {} /\ s.ratings \subseteq 0..5
    /\ DOMAIN s.templates = locales /\ \A l \in locales : s.templates[l] # {}
    /\ s.order => s.product

(* Fault: an event may outlast the data. *)
EventIsValidOutlasting(e, spec) ==
    /\ e.start \in 0..(spec.days - 1)
    /\ e.duration # <<>> => e.duration[1] > 0
    /\ e.scenario \in {s.id : s \in Range(spec.scenarios)}
    /\ e.product # 0 => e.product \in {p.id : p \in Range(spec.products)}
    /\ e.share \in 1..100

EventIsValid(e, spec) ==
    /\ e.start \in 0..(spec.days - 1)
    /\ e.duration # <<>> => e.duration[1] > 0 /\ e.start + e.duration[1] <= spec.days
    /\ e.scenario \in {s.id : s \in Range(spec.scenarios)}
    /\ e.product # 0 => e.product \in {p.id : p \in Range(spec.products)}
    /\ e.share \in 1..100

SpecLoads(spec, shortest) ==
    /\ spec.days >= shortest
    /\ spec.locales # <<>> /\ \A l \in Range(spec.locales) : l.weight >= 1
    /\ spec.products # <<>> /\ Distinct(spec.products) /\ \A p \in Range(spec.products) : p.price > 0
    /\ Distinct(spec.scenarios)
    /\ \A s \in Range(spec.scenarios) : ScenarioIsValid(s, {l.id : l \in Range(spec.locales)})
    /\ {s.source : s \in Range(spec.scenarios)} = SUPPORTED_SOURCES
    /\ spec.events # <<>> /\ Distinct(spec.events)
    /\ \A e \in Range(spec.events) : EventIsValid(e, spec)

-----------------------------------------------------------------------------
(* One record *)

(* Fault: the days are shared out by the number of records. *)
DayOfShare(index, count, days) == (index * days) \div count

(* The first record is on the first day and the last on the last.           *)
Day(index, count, days) == IF count = 1 THEN 0 ELSE (index * (days - 1)) \div (count - 1)

ActiveOn(e, day) == e.start <= day /\ (e.duration = <<>> \/ day < e.start + e.duration[1])

(* _select_event: active events are tried in order, each with its share.    *)
SelectEvent(spec, day, shares) ==
    LET taken == {i \in DOMAIN spec.events : LET e == spec.events[i]
                                             IN  ActiveOn(e, day) /\ shares[e.id] < e.share}
    IN  IF taken = {} THEN <<>> ELSE <<spec.events[Min(taken)]>>

(* Fault: the first value whose weight exceeds the draw. *)
WeightedUnsummed(choices, draw) ==
    LET reached == SelectSeq(choices, LAMBDA c : draw < c.weight)
    IN  IF reached = <<>> THEN Last(choices) ELSE Head(reached)

(* _weighted_choice, for a draw below the total weight. *)
Weighted(choices, draw) ==
    LET upTo(i) == SumFunctionOnSet([j \in DOMAIN choices |-> choices[j].weight], 1..i)
    IN  choices[CHOOSE i \in DOMAIN choices : draw < upTo(i) /\ (i = 1 \/ upTo(i - 1) <= draw)]

(* _select_product *)
PrimaryProduct(spec, scenario, event, draw) ==
    IF ~scenario.product THEN <<>>
    ELSE IF event # <<>> /\ event[1].product # 0 THEN <<OfId(spec.products, event[1].product)>>
    ELSE <<spec.products[draw.product]>>

(* _related_products; <<>> where a second product is drawn and there is     *)
(* none (an IndexError), otherwise a sequence of one.                      *)
RelatedProducts(spec, scenario, primary, draw) ==
    LET others == RemoveFirst(spec.products, primary[1])
        second == primary # <<>> /\ scenario.order /\ draw.second # 0
        bought(p, quantity) == [id |-> p.id, quantity |-> quantity, price |-> p.price * quantity,
                                freight |-> draw.freight]
    IN  IF primary = <<>> THEN <<<<>>>>
        ELSE IF second /\ others = <<>> THEN <<>>
        ELSE <<<<bought(primary[1], IF draw.twice THEN 2 ELSE 1)>> \o
               (IF second THEN <<bought(others[1 + (draw.second % Len(others))], 1)>> ELSE <<>>)>>

(* _days_value and _operational_context; <<>> for a scenario without order. *)
Context(scenario, occurred, products, draw) ==
    LET delivered == occurred - draw.ago
        delta == CASE scenario.id = "delivery_late" -> draw.late
                   [] scenario.id = "delivery_positive" -> -draw.early
                   [] OTHER -> draw.other
        expected == delivered - delta
        earliest == IF delivered < expected THEN delivered ELSE expected
    IN  IF ~scenario.order THEN <<>>
        ELSE <<[delivered |-> delivered, expected |-> expected, delta |-> delta,
                purchased |-> earliest - draw.before,
                status |-> IF scenario.source = "return_feedback" THEN "returned" ELSE "delivered",
                price |-> SumFunction([i \in DOMAIN products |-> products[i].price]),
                freight |-> SumFunction([i \in DOMAIN products |-> products[i].freight])]>>

(* A record and its provenance; <<>> where the generator fails. *)
Record(spec, index, count, draw) ==
    LET day == Day(index, count, spec.days)
        event == SelectEvent(spec, day, draw.shares)
        scenario == IF event # <<>> THEN OfId(spec.scenarios, event[1].scenario)
                    ELSE Weighted(spec.scenarios, draw.scenario)
        products == RelatedProducts(spec, scenario, PrimaryProduct(spec, scenario, event, draw), draw)
    IN  IF products = <<>> THEN <<>>
        ELSE <<[id |-> index, day |-> day, channel |-> scenario.source, products |-> products[1],
                context |-> Context(scenario, day, products[1], draw),
                provenance |-> [scenario |-> scenario.id, source |-> scenario.source,
                                event |-> IF event = <<>> THEN <<>> ELSE <<event[1].id>>,
                                products |-> [i \in DOMAIN products[1] |-> products[1][i].id]]]>>

-----------------------------------------------------------------------------
(* _manifest *)

Occurring(values) == [v \in Range(values) |-> Cardinality({i \in DOMAIN values : values[i] = v})]

Manifest(spec, records) ==
    LET affected(e) == Cardinality({i \in DOMAIN records : records[i].provenance.event = <<e.id>>})
        days == {r.day : r \in Range(records)}
    IN  [count |-> Len(records), start |-> Min(days), end |-> Max(days),
         sources |-> Occurring([i \in DOMAIN records |-> records[i].provenance.source]),
         scenarios |-> Occurring([i \in DOMAIN records |-> records[i].provenance.scenario]),
         mentions |-> Occurring(FlattenSeq([i \in DOMAIN records |-> records[i].provenance.products])),
         events |-> [i \in DOMAIN spec.events |->
             LET e == spec.events[i]
             IN  [id |-> e.id, start |-> e.start, affected |-> affected(e),
                  end |-> IF e.duration = <<>> THEN <<>> ELSE <<e.start + e.duration[1] - 1>>]]]

=============================================================================
