------------------------------- MODULE Imports -------------------------------
(***************************************************************************)
(* The tabular import of the Workbench: workbench/imports.py, which reads  *)
(* an upload within limits and validates its rows, and the disposable      *)
(* parser process around it (workbench/import_process.py).                 *)
(*                                                                         *)
(* A text is a sequence of tokens, a cell a value; results are sequences of*)
(* one, Nothing where a ValueError refuses the upload. `limit' is the      *)
(* record of the configured limits.                                        *)
(***************************************************************************)
EXTENDS Optional, Integers, Sequences, SequencesExt

-----------------------------------------------------------------------------
(* The structure of a JSON text, before it is decoded *)

(* json_structure: other tokens and the inside of strings are skipped.      *)
Opens(stack, token, table, array) ==
    \/ ~table
    \/ array /\ stack = <<>> /\ token = "["
    \/ token = "{" /\ stack = IF array THEN <<"[">> ELSE <<>>

Scanned(s, token, table, array, limit) ==
    LET pushed == [s EXCEPT !.stack = Append(@, token), !.tokens = @ + 1]
        row == IF table /\ token = "{" THEN [pushed EXCEPT !.rows = @ + 1, !.columns = 0] ELSE pushed
        opener == IF token = "]" THEN "[" ELSE "{"
        read == IF token \in {"[", "{"} THEN row
                ELSE IF token \in {"]", "}"} /\ s.stack # <<>> THEN [s EXCEPT !.stack = Front(@)]
                ELSE IF token \in {",", ":"}
                THEN [s EXCEPT !.tokens = @ + 1,
                               !.columns = IF table /\ token = ":" THEN @ + 1 ELSE @]
                ELSE s
        refused == \/ token \in {"[", "{"} /\ ~Opens(s.stack, token, table, array)
                   \/ token \in {"]", "}"} /\ (s.stack = <<>> \/ Last(s.stack) # opener)
                   \/ Len(read.stack) > limit.depth
                   \/ table /\ (read.rows > limit.records \/ read.columns > limit.columns)
                   \/ ~table /\ read.tokens > limit.tokens
    IN  IF refused THEN [read EXCEPT !.ok = FALSE] ELSE read

(* Fault: what was opened need not be closed. *)
StructureOpen(text, table, array, limit) ==
    FoldLeft(LAMBDA s, token : IF s.ok THEN Scanned(s, token, table, array, limit) ELSE s,
             [stack |-> <<>>, rows |-> 0, columns |-> 0, tokens |-> 0, ok |-> TRUE], text).ok

Structure(text, table, array, limit) ==
    LET end == FoldLeft(LAMBDA s, token : IF s.ok THEN Scanned(s, token, table, array, limit) ELSE s,
                        [stack |-> <<>>, rows |-> 0, columns |-> 0, tokens |-> 0, ok |-> TRUE], text)
    IN  end.ok /\ end.stack = <<>>

(* _json_rows: a token is a bracket, a comma, a row, or any other value.    *)
ArrayStep(phase, token) ==
    CASE phase = "start" /\ token = "[" -> "first"
      [] phase = "first" /\ token = "]" -> "end"
      [] phase \in {"first", "next"} /\ token = "row" -> "after"
      [] phase = "after" /\ token = "," -> "next"
      [] phase = "after" /\ token = "]" -> "end"
      [] OTHER -> "invalid"
JsonRows(text) == FoldLeft(ArrayStep, "start", text) = "end"

(* An object is a sequence of pairs [key, value]; values are "scalar", or   *)
(* what _json_object and the decoder refuse.                                *)
ObjectIsValid(pairs) ==
    /\ IsInjective([i \in DOMAIN pairs |-> pairs[i].key])
    /\ \A i \in DOMAIN pairs : pairs[i].value = "scalar"

-----------------------------------------------------------------------------
(* Uploads *)

HeaderIsValid(header, limit) ==
    /\ header # <<>> /\ Len(header) <= limit.columns
    /\ IsInjective(header) /\ "" \notin Range(header)

(* A column name of A..Z is a number in base 26 without a zero. *)
ColumnOf(letters) == FoldLeft(LAMBDA col, letter : 26 * col + letter, 0, letters)

(* The cells of a worksheet row are pairs [letters, value, formula].        *)
CellsAreValid(cells, limit) ==
    /\ \A i \in DOMAIN cells : ~cells[i].formula /\ ColumnOf(cells[i].letters) \in 1..limit.columns
    /\ IsInjective([i \in DOMAIN cells |-> ColumnOf(cells[i].letters)])

(* Cells beyond the header are dropped, missing ones are empty. *)
SheetRow(header, cells) ==
    [h \in Range(header) |->
        LET at == {c \in Range(cells) : \E k \in DOMAIN header : header[k] = h /\ ColumnOf(c.letters) = k}
        IN  IF at = {} THEN "" ELSE (CHOOSE c \in at : TRUE).value]

(* The rows of a table, functions from their columns; every suffix has its  *)
(* own form of `body'. The array that a JSON file must be (_json_rows) and  *)
(* the budget of a preview are operators of their own.                      *)
RowsOf(u, limit) ==
    CASE u.suffix = "xlsx" ->
            IF /\ HeaderIsValid(u.header, limit)
               /\ \A i \in DOMAIN u.body : CellsAreValid(u.body[i], limit)
            THEN Some([i \in DOMAIN u.body |-> SheetRow(u.header, u.body[i])]) ELSE Nothing
      [] u.suffix \in {"csv", "tsv"} ->
            LET body == SelectSeq(u.body, LAMBDA row : row # <<>>)
                at(h) == CHOOSE k \in DOMAIN u.header : u.header[k] = h
            IN  IF HeaderIsValid(u.header, limit) /\ \A row \in Range(body) : Len(row) = Len(u.header)
                THEN Some([i \in DOMAIN body |-> [h \in Range(u.header) |-> body[i][at(h)]]]) ELSE Nothing
      [] u.suffix \in {"json", "jsonl", "ndjson"} ->
            IF /\ u.suffix = "json" => Structure(u.text, TRUE, TRUE, limit)
               /\ \A i \in DOMAIN u.body : ObjectIsValid(u.body[i])
            THEN Some([i \in DOMAIN u.body |->
                    [k \in {p.key : p \in Range(u.body[i])} |->
                        (CHOOSE p \in Range(u.body[i]) : p.key = k).value]])
            ELSE Nothing
      [] u.suffix = "txt" -> Some([i \in DOMAIN u.body |-> [c \in {"text"} |-> u.body[i]]])
      [] OTHER -> Nothing

(* parse_upload; `retain' checks the limits row by row. *)
ParseUpload(u, limit) ==
    LET rows == RowsOf(u, limit)
        columns == UNION {DOMAIN r : r \in Range(rows[1])}
    IN  IF \/ u.size > limit.bytes \/ rows = Nothing \/ rows[1] = <<>>
           \/ Len(rows[1]) > limit.records \/ Cardinality(columns) > limit.columns
        THEN Nothing
        ELSE Some([rows |-> rows[1], columns |-> columns])

(* PreviewBudget: objects are pairs [identity, size]; the transfer that the  *)
(* parser process checks counts an object as often as it occurs.           *)
Retained(objects) == MapThenSumSet(LAMBDA o : o.size, Range(objects))
Transferred(objects) == FoldFunction(LAMBDA o, sum : o.size + sum, 0, objects)

(* isolated_parse: what the parser process may do, and what the server      *)
(* makes of it.                                                            *)
Isolated(process, limit) ==
    IF process.seconds > limit.seconds \/ process.bytes > limit.preview THEN "refused"
    ELSE CASE process.code = 0 /\ process.json /\ Retained(process.objects) <= limit.preview -> "parsed"
           [] OTHER -> "refused"

-----------------------------------------------------------------------------
(* Dates without an offset: a zone has the offset `before' until the instant*)
(* `shift' and `after' from it on                                          *)

OffsetAt(zone, instant) == IF instant < zone.shift THEN zone.before ELSE zone.after

(* What datetime.utcoffset() gives a local time, for both folds: they differ*)
(* where the local time is repeated or skipped.                            *)
Offset(zone, local, fold) ==
    LET low == IF zone.before < zone.after THEN zone.before ELSE zone.after
        high == IF zone.before < zone.after THEN zone.after ELSE zone.before
    IN  IF local < zone.shift + low THEN zone.before
        ELSE IF local >= zone.shift + high THEN zone.after
        ELSE IF fold = 0 THEN zone.before ELSE zone.after

(* Fault: the first of two instants is taken. *)
TimestampFirst(zone, local) == Some(local - Offset(zone, local, 0))

Timestamp(zone, local) ==
    LET instant == local - Offset(zone, local, 0)
    IN  IF \/ Offset(zone, local, 0) # Offset(zone, local, 1)
           \/ instant + OffsetAt(zone, instant) # local
        THEN Nothing
        ELSE Some(instant)

-----------------------------------------------------------------------------
(* Validation. An id is Nothing or [under, row]: the name "generated-row-"  *)
(* with the number of a row, and underscores before it                      *)

Occurrences(rows, id) == Cardinality({i \in DOMAIN rows : rows[i].id = id})

(* Fault: a generated id is not compared with the ids of the file. *)
SourceIdGenerated(rows, i) == IF rows[i].id # Nothing THEN rows[i].id ELSE Some([under |-> 0, row |-> i])

SourceId(rows, i) ==
    LET taken(k) == \E j \in DOMAIN rows : rows[j].id = Some([under |-> k, row |-> i])
    IN  IF rows[i].id # Nothing THEN rows[i].id
        ELSE Some([under |-> CHOOSE k \in 0..Len(rows) : ~taken(k) /\ \A m \in 0..(k - 1) : taken(m),
                   row |-> i])

RatingIsValid(rating) ==
    rating # Nothing =>
        /\ rating[1].min < rating[1].max
        /\ rating[1].min <= rating[1].value /\ rating[1].value <= rating[1].max

(* The first check that a row fails; dates and ratings are read last.       *)
Issue(rows, i) ==
    IF Occurrences(rows, SourceId(rows, i)) > 1 THEN "duplicate"
    ELSE IF rows[i].text = "" THEN "empty"
    ELSE IF rows[i].text = "too long" THEN "long"
    ELSE IF rows[i].date = "invalid" THEN "date"
    ELSE IF ~RatingIsValid(rows[i].rating) THEN "rating"
    ELSE "none"

ValidateImport(rows) ==
    LET issue == [i \in DOMAIN rows |-> Issue(rows, i)]
        with(kinds) == {i \in DOMAIN rows : issue[i] \in kinds}
        texts == {rows[i].text : i \in DOMAIN rows} \ {""}
    IN  [accepted |-> with({"none"}),
         issues |-> DOMAIN rows \ with({"none"}),
         duplicateIds |-> Cardinality(with({"duplicate"})),
         empty |-> Cardinality(with({"empty"})),
         repeatedText |-> Cardinality({i \in DOMAIN rows : rows[i].text # ""}) - Cardinality(texts),
         missingDates |-> Cardinality({i \in with({"rating", "none"}) : rows[i].date = "none"})]

=============================================================================
