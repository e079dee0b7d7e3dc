------------------------------ MODULE Providers ------------------------------
(***************************************************************************)
(* The data providers: providers/mapped_csv.py, olist.py and synthetic.py, *)
(* which turn the rows of other systems into canonical feedback records,   *)
(* with the report of support.py and models.py and the profile of          *)
(* profile.py.                                                             *)
(*                                                                         *)
(* A row is a record of its cells; 0 is a blank cell of an identity, an    *)
(* amount or text is <<>> where there is none. A time is a record          *)
(* [state, at]: "blank", "malformed", "local" (without an offset) or "set".*)
(* A number that cannot be read is outside every scale.                    *)
(***************************************************************************)
EXTENDS Imports, Integers, Sequences, FiniteSets, FiniteSetsExt, SequencesExt


-----------------------------------------------------------------------------
(* The report: errors are pairs of a code and a row, or 0 for the source    *)

EmptyReport == [discovered |-> 0, valid |-> 0, rejected |-> 0, duplicates |-> 0, missingText |-> 0,
                errors |-> {}, warnings |-> {}, blocking |-> FALSE]

Blocked(report, code) == [report EXCEPT !.errors = @ \cup {<<code, 0>>}, !.blocking = TRUE]
BlockedIf(report, condition, code) == IF condition THEN Blocked(report, code) ELSE report
Warned(report, code, subject) == [report EXCEPT !.warnings = @ \cup {<<code, subject>>}]

(* _reject *)
Rejected(report, code, row) ==
    [report EXCEPT !.rejected = @ + 1,
                   !.errors = @ \cup {<<code, row>>},
                   !.duplicates = IF code = "duplicate_source_record" THEN @ + 1 ELSE @,
                   !.missingText = IF code = "missing_text" THEN @ + 1 ELSE @]

IsUsable(report) == report.valid > 0 /\ ~report.blocking

(* What one row does to a load, `row' in the file: a refused identity counts*)
(* as seen, so that a later row with it is a duplicate.                    *)
Loaded(load, row, id, refusal, record) ==
    [report |-> IF refusal = "none" THEN [load.report EXCEPT !.valid = @ + 1]
                ELSE Rejected(load.report, refusal, row),
     seen |-> load.seen \cup ({id} \ {0}),
     records |-> IF refusal = "none" THEN Append(load.records, record) ELSE load.records]

Start(report) == [report |-> report, seen |-> {}, records |-> <<>>]
Stopped(report) == [report |-> report, records |-> <<>>]

-----------------------------------------------------------------------------
(* Times *)

(* Fault: a repeated local time is its first occurrence. *)
MappedTimestampFirst(zone, time) ==
    CASE time.state = "set" -> <<time.at>>
      [] time.state = "local" -> <<time.at - Offset(zone, time.at, 0)>>
      [] OTHER -> <<>>

(* _parse_mapped_timestamp: a local time must be exactly one instant.       *)
MappedTimestamp(zone, time) ==
    LET candidates == {time.at - Offset(zone, time.at, fold) : fold \in 0..1}
        valid == {t \in candidates : t + OffsetAt(zone, t) = time.at}
    IN  CASE time.state = "set" -> <<time.at>>
          [] time.state = "local" /\ Cardinality(valid) = 1 -> <<CHOOSE t \in valid : TRUE>>
          [] OTHER -> <<>>

(* _parse_olist_timestamp: the first instant of a local time.               *)
OlistTimestamp(zone, time) ==
    CASE time.state = "set" -> <<time.at>>
      [] time.state = "local" -> <<time.at - Offset(zone, time.at, 0)>>
      [] OTHER -> <<>>

-----------------------------------------------------------------------------
(* A mapped CSV: rows [cells, id, text, time, rating, product]              *)

ScaleIsValid(scale) == scale.min < scale.max

(* Fault: an identity is remembered only when its row is accepted. *)
MappedRefusalForgetting(row, load, source) ==
    IF row.id = 0 THEN "missing_source_id"
    ELSE IF row.id \in {r.id : r \in Range(load.records)} THEN "duplicate_source_record"
    ELSE IF ~row.text THEN "missing_text"
    ELSE IF MappedTimestamp(source.zone, row.time) = <<>> THEN "invalid_timestamp"
    ELSE IF row.rating # <<>> /\ row.rating[1] \notin source.scale.min..source.scale.max THEN "invalid_rating"
    ELSE IF ~source.named THEN "canonical_validation_failed"
    ELSE "none"

(* The first check a row fails; the name and version of the data set are    *)
(* not read before its first record is built.                              *)
MappedRefusal(row, load, source) ==
    IF row.id = 0 THEN "missing_source_id"
    ELSE IF row.id \in load.seen THEN "duplicate_source_record"
    ELSE IF ~row.text THEN "missing_text"
    ELSE IF MappedTimestamp(source.zone, row.time) = <<>> THEN "invalid_timestamp"
    ELSE IF row.rating # <<>> /\ row.rating[1] \notin source.scale.min..source.scale.max THEN "invalid_rating"
    ELSE IF ~source.named THEN "canonical_validation_failed"
    ELSE "none"

MappedRow(load, row, i, source) ==
    Loaded(load, i, row.id, MappedRefusal(row, load, source),
           [id |-> row.id, at |-> MappedTimestamp(source.zone, row.time), rating |-> row.rating,
            products |-> {row.product} \ {0}, language |-> source.language])

(* _read_csv: rows with too few or too many cells are refused before any    *)
(* other; a file may turn out to be no UTF-8 after some of its rows.        *)
ReadCsv(report, source) ==
    LET counted == [report EXCEPT !.discovered = Len(source.rows)]
        reject(r, i) == IF source.rows[i].cells = "full" THEN r ELSE Rejected(r, "malformed_csv_row", i)
    IN  CASE source.file = "absent" -> Blocked(report, "source_not_found")
          [] source.file = "columns" -> Blocked(report, "unsupported_schema")
          [] OTHER -> BlockedIf(FoldLeft(reject, counted, [i \in DOMAIN source.rows |-> i]),
                                source.file = "broken", "unexpected_encoding")

MappedCsv(source) ==
    LET settings == BlockedIf(BlockedIf(EmptyReport, ~source.zoneKnown, "invalid_mapping_timezone"),
                              ~ScaleIsValid(source.scale), "invalid_rating_scale")
        read == ReadCsv(settings, source)
        row(load, i) == IF source.rows[i].cells # "full" THEN load
                        ELSE MappedRow(load, source.rows[i], i, source)
        load == FoldLeft(row, Start(read), [i \in DOMAIN source.rows |-> i])
    IN  IF ~source.mapping THEN Stopped(Blocked(EmptyReport, "invalid_mapping"))
        ELSE IF read.blocking THEN Stopped(read)
        ELSE [report |-> BlockedIf(load.report, source.rows = <<>>, "empty_dataset"), records |-> load.records]

-----------------------------------------------------------------------------
(* Olist: tables of reviews, orders, items, products and, possibly,         *)
(* translations; `short' is a row that ends before its last cell.          *)

Keys(rows) == {row.id : row \in Range(rows)} \ {0}

(* _unique_index *)
Indexed(report, rows, code) ==
    BlockedIf(IF 0 \in {row.id : row \in Range(rows)} THEN Warned(report, "missing_relationship_key", code) ELSE report,
              ~IsInjective(SelectSeq([i \in DOMAIN rows |-> rows[i].id], LAMBDA id : id # 0)),
              "duplicate_relationship_key")
Of(rows, id) == CHOOSE row \in Range(rows) : row.id = id

(* Fault: the last of two translations is kept. *)
TranslationsLast(rows) ==
    LET full == SelectSeq(rows, LAMBDA row : row.from # "" /\ row.to # "")
    IN  [c \in {row.from : row \in Range(full)} |-> Last(SelectSeq(full, LAMBDA row : row.from = c)).to]

(* _translation_index: the first translation of a category is kept.         *)
Translations(rows) ==
    LET full == SelectSeq(rows, LAMBDA row : row.from # "" /\ row.to # "")
    IN  [c \in {row.from : row \in Range(full)} |-> Head(SelectSeq(full, LAMBDA row : row.from = c)).to]

(* _group_items *)
ItemsOf(source, order) ==
    SelectSeq(source.items, LAMBDA item : item.order = order /\ item.product # 0)

(* The sum of the amounts that can be read; <<>> where none can.            *)
Amount(cells) ==
    LET read == SelectSeq(cells, LAMBDA cell : cell # <<>>)
    IN  IF read = <<>> THEN <<>> ELSE <<FoldLeft(LAMBDA sum, cell : sum + cell[1], 0, read)>>

(* The category in English where there is a translation; [name, language].  *)
Category(source, product) ==
    LET names == Translations(source.translations)
    IN  IF product \notin Keys(source.products) \/ Of(source.products, product).category = ""
        THEN <<>>
        ELSE LET raw == Of(source.products, product).category
             IN  IF raw \in DOMAIN names THEN <<[name |-> names[raw], language |-> "en"]>>
                 ELSE <<[name |-> raw, language |-> "pt-BR"]>>

(* _products_for_order: one entry for each product of the order.            *)
ProductsForOrder(source, order) ==
    LET items == ItemsOf(source, order)
        of(p) == SelectSeq(items, LAMBDA item : item.product = p)
    IN  [p \in {item.product : item \in Range(items)} |->
            [quantity |-> Len(of(p)), sellers |-> {item.seller : item \in Range(of(p))} \ {0},
             price |-> Amount([i \in DOMAIN of(p) |-> of(p)[i].price]),
             freight |-> Amount([i \in DOMAIN of(p) |-> of(p)[i].freight]),
             category |-> Category(source, p)]]

SumOf(amounts) ==
    LET counted == {p \in DOMAIN amounts : amounts[p] # <<>>}
    IN  IF counted = {} THEN <<>> ELSE <<MapThenSumSet(LAMBDA p : amounts[p][1], counted)>>

(* _operational_context *)
OrderContext(source, order, products) ==
    LET row == Of(source.orders, order)
        delivered == OlistTimestamp(source.zone, row.delivered)
        expected == OlistTimestamp(source.zone, row.expected)
    IN  [delivered |-> delivered, expected |-> expected,
         delta |-> IF delivered = <<>> \/ expected = <<>> THEN <<>> ELSE <<delivered[1] - expected[1]>>,
         price |-> SumOf([p \in DOMAIN products |-> products[p].price]),
         freight |-> SumOf([p \in DOMAIN products |-> products[p].freight]),
         sellers |-> Cardinality(UNION {products[p].sellers : p \in DOMAIN products})]

(* The first check a review fails; a row that ends before its last cell has *)
(* None there, whose strip() raises where the cell is read: the time of the *)
(* review, then the cells of its items and of its order.                   *)
OlistRefusal(review, load, source) ==
    IF review.id = 0 THEN "missing_source_id"
    ELSE IF review.id \in load.seen THEN "duplicate_source_record"
    ELSE IF review.order \notin Keys(source.orders) THEN "invalid_order_relationship"
    ELSE IF review.body = "" /\ review.title = "" THEN "missing_text"
    ELSE IF review.score \notin 1..5 THEN "invalid_rating"
    ELSE IF review.short THEN "raises"
    ELSE IF OlistTimestamp(source.zone, review.time) = <<>> THEN "invalid_timestamp"
    ELSE IF \/ \E item \in Range(ItemsOf(source, review.order)) : item.short
            \/ Of(source.orders, review.order).short THEN "raises"
    ELSE "none"

(* What is warned of while a review is read, and while its record is made.  *)
OlistWarnings(source, review, refusal) ==
    LET items == Range(ItemsOf(source, review.order))
        order == Of(source.orders, review.order)
        holds(code) ==
            CASE code = "order_has_no_items" -> items = {}
              [] code = "invalid_price" -> \E item \in items : item.price = <<>>
              [] code = "invalid_freight_cost" -> \E item \in items : item.freight = <<>>
              [] code = "missing_product_relationship" -> \E item \in items : item.product \notin Keys(source.products)
              [] code = "invalid_operational_timestamp" -> "malformed" \in {order.delivered.state, order.expected.state}
        made == {code \in {"order_has_no_items", "invalid_price", "invalid_freight_cost",
                           "missing_product_relationship", "invalid_operational_timestamp"} : holds(code)}
        fallback == IF review.body = "" THEN {"text_fallback_to_title"} ELSE {}
    IN  CASE refusal = "none" -> {<<code, review.id>> : code \in made \cup fallback}
          [] refusal \in {"invalid_rating", "invalid_timestamp"} -> {<<code, review.id>> : code \in fallback}
          [] OTHER -> {}

(* One review of a load, or none where the load has raised. *)
OlistRow(load, review, i, source) ==
    LET refusal == OlistRefusal(review, load, source)
        products == ProductsForOrder(source, review.order)
        next == Loaded(load, i, review.id, refusal,
                       [id |-> review.id, order |-> review.order, rating |-> <<review.score>>,
                        at |-> OlistTimestamp(source.zone, review.time), language |-> "pt-BR",
                        text |-> IF review.body # "" THEN review.body ELSE review.title,
                        products |-> DOMAIN products, related |-> products,
                        context |-> OrderContext(source, review.order, products)])
    IN  IF refusal = "raises" THEN <<>>
        ELSE <<[next EXCEPT !.report.warnings = @ \cup OlistWarnings(source, review, refusal)]>>

(* _translation_index and _group_items: the rows that are not used. *)
TableWarnings(source) ==
    LET warned(table, code, Bad(_)) == {<<code, i>> : i \in {j \in DOMAIN table : Bad(j)}}
        t(j) == source.translations[j]
        item(j) == source.items[j]
    IN  warned(source.translations, "invalid_category_translation", LAMBDA j : "" \in {t(j).from, t(j).to})
        \cup warned(source.translations, "duplicate_category_translation",
                  LAMBDA j : /\ "" \notin {t(j).from, t(j).to}
                             /\ \E k \in 1..(j - 1) : t(k).from = t(j).from /\ t(k).to # "")
        \cup warned(source.items, "invalid_order_item", LAMBDA j : 0 \in {item(j).order, item(j).product})
        \cup warned(source.items, "orphan_order_item",
                  LAMBDA j : 0 \notin {item(j).order, item(j).product} /\ item(j).order \notin Keys(source.orders))

Undiscovered == {"source_directory_not_found", "missing_source_table", "ambiguous_source_table"}

(* `tables': what _discover_files and _read_table make of the four tables   *)
(* that are required; `translated': whether there is a fifth.              *)
Olist(source) ==
    LET discovered == IF source.translated \/ source.tables \in Undiscovered THEN EmptyReport
                      ELSE Warned(EmptyReport, "category_translation_unavailable", 0)
        found == BlockedIf(discovered, source.tables # "read", source.tables)
        indexed == Indexed(Indexed(found, source.orders, "orders"), source.products, "products")
        read == [indexed EXCEPT !.warnings = @ \cup TableWarnings(source)]
        review(load, i) == IF load = <<>> THEN <<>> ELSE OlistRow(load[1], source.reviews[i], i, source)
        load == FoldLeft(review, <<Start(read)>>, [i \in DOMAIN source.reviews |-> i])
    IN  IF found.blocking THEN <<Stopped(found)>>
        ELSE IF source.reviews = <<>> THEN <<Stopped(Blocked(found, "empty_dataset"))>>
        ELSE IF \E t \in Range(source.translations) : t.short THEN <<>>
        ELSE IF read.blocking THEN <<Stopped(read)>>
        ELSE IF load = <<>> THEN <<>>
        ELSE <<[report |-> [load[1].report EXCEPT !.discovered = Len(source.reviews)],
                records |-> load[1].records]>>

-----------------------------------------------------------------------------
(* The committed records of the demonstration. A line is "blank", "invalid" *)
(* where it is no object, or an object: a payload with `plain', the names of*)
(* the fields that do not satisfy their check, and a rating, products and a *)
(* context; `readable' is FALSE where the conversion of a number raises.    *)

(* RelatedProduct: what the first product that is refused does. *)
ReadProduct(read, product) ==
    IF read # "record" THEN read
    ELSE IF ~product.readable THEN "raises"
    ELSE IF product.id = 0 \/ product.quantity < 1 \/ ~IsInjective(product.sellers) THEN "invalid"
    ELSE "record"

(* FeedbackRecord.from_dict reads the fields in this order; the checks of   *)
(* the record itself come last.                                            *)
ReadRecord(payload) ==
    LET rating == payload.rating
        products == FoldLeft(ReadProduct, "record", payload.products)
    IN  IF payload.plain \cap {"source", "metadata", "original_text missing", "occurred_at"} # {} THEN "invalid"
        ELSE IF rating # <<>> /\ ~rating[1].readable THEN "raises"
        ELSE IF rating # <<>> /\ ~(/\ ScaleIsValid(rating[1])
                                   /\ rating[1].value \in rating[1].min..rating[1].max) THEN "invalid"
        ELSE IF products # "record" THEN products
        ELSE IF payload.context # "valid" THEN payload.context
        ELSE IF \/ payload.plain # {} \/ ~IsInjective([i \in DOMAIN payload.products |-> payload.products[i].id])
             THEN "invalid"
        ELSE "record"

LineRow(load, line, i) ==
    LET read == IF line.state = "object" THEN ReadRecord(line.payload) ELSE line.state
        refused == [load EXCEPT !.report = Rejected(load.report, "invalid_record", i)]
    IN  IF load.raised \/ read = "blank" THEN load
        ELSE IF read = "raises" THEN [load EXCEPT !.raised = TRUE]
        ELSE IF read = "invalid" \/ line.provider # "synthetic" THEN refused
        ELSE IF line.id \in load.seen THEN [refused EXCEPT !.report.duplicates = @ + 1]
        ELSE [load EXCEPT !.report.valid = @ + 1, !.seen = @ \cup {line.id},
                          !.records = Append(@, [id |-> line.id, at |-> <<i>>, rating |-> <<>>,
                                                 products |-> {}, language |-> "en"])]

SyntheticLines(source) ==
    LET lines == IF source.file = "read" THEN source.lines ELSE <<>>
        start == [report |-> BlockedIf(EmptyReport, source.file = "broken", "unexpected_encoding"),
                  seen |-> {}, records |-> <<>>, raised |-> FALSE]
        load == FoldLeft(LAMBDA l, i : LineRow(l, lines[i], i), start, [i \in DOMAIN lines |-> i])
        discovered == Cardinality({i \in DOMAIN lines : lines[i].state # "blank"})
        report == [load.report EXCEPT !.discovered = discovered]
    IN  IF source.file = "absent" THEN <<Stopped(Blocked(EmptyReport, "source_not_found"))>>
        ELSE IF load.raised THEN <<>>
        ELSE <<[report |-> BlockedIf(report, discovered = 0, "empty_dataset"), records |-> load.records]>>

-----------------------------------------------------------------------------
(* The profile of a load; monthOf gives each time its period.     *)

Counted(values) == [v \in Range(values) |-> Cardinality({i \in DOMAIN values : values[i] = v})]

Profile(load, monthOf) ==
    LET records == load.records
        times == {r.at[1] : r \in Range(records)}
        rated == SelectSeq(records, LAMBDA r : r.rating # <<>>)
        language(r) == IF r.language = "" THEN "unknown" ELSE r.language
    IN  [count |-> Len(records),
         range |-> IF times = {} THEN <<>> ELSE <<Min(times), Max(times)>>,
         ratings |-> Counted([i \in DOMAIN rated |-> rated[i].rating[1]]),
         languages |-> Counted([i \in DOMAIN records |-> language(records[i])]),
         months |-> Counted([i \in DOMAIN records |-> monthOf[records[i].at[1]]]),
         products |-> Cardinality(UNION {r.products : r \in Range(records)}),
         missing |-> IF load.report.discovered = 0 THEN <<0, 1>>
                     ELSE <<load.report.missingText, load.report.discovered>>,
         duplicates |-> load.report.duplicates, rejected |-> load.report.rejected]
=============================================================================
